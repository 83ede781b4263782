\* One surface, two saves, one nethos-reload, one restart of nethosd.
CONSTANTS
  Surfaces = {panel}
  Requests = {r1}
  Others = {ticker}
  QueueSize = 1
  MaxInbox = 2
  MaxEdits = 2
  MaxPosts = 1
  MaxStops = 1
SPECIFICATION Spec
INVARIANTS TypeOK ReloadOnItsWay ReloadsEarned
PROPERTY OwedIsShown
