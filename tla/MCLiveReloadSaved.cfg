\* Nothing but two saves while one surface listens.
CONSTANTS
  Surfaces = {panel}
  Requests = {r1}
  Others = {ticker}
  QueueSize = 2
  MaxInbox = 2
  MaxEdits = 2
  MaxPosts = 0
  MaxStops = 0
SPECIFICATION Spec
INVARIANT SavedIsShown
