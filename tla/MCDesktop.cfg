\* nethosd: one of its eight parts, or the snapshots, per behaviour.
SPECIFICATION DesktopSpec
CHECK_DEADLOCK FALSE
CONSTANTS
  Jobs = {j1, j2}
  Readers = {r1, r2}
  Ticking = {r1}
  Entries = {"paint"}
  Dirs <- MCDirs
  Fresh = 1
  AppFiles <- MCAppFiles
  MaxRestarts = 1
  NoJob = NoJob
  NoEntry = NoEntry
  Extracts = {e1, e2, e3}
  NoExtract = NoExtract
  NoFolder = NoFolder
  FileRequests = {q1, q2}
  NewNames <- MCNewNames
  TrashDir <- MCTrashDir
  Outside <- MCOutside
  Letters = {"a", "b", "d", "k", "l", "t", "etc"}
  Trees <- MCTrees
  MaxRequests = 2
  Writers = {s1, s2}
  StoredFiles = {"settings", "notes"}
  Schema <- MCSchema
  Values = {1, 9}
  MaxWrites = 3
  Inodes = {i1, i2, i3, i4, i5, i6}
  NoInode = NoInode
  Torn = Torn
  Empty = Empty
  TrayApps = {"a", "b"}
  TrayPaths = {"p", "q"}
  NoItem = NoItem
  Launches = {l1, l2}
  Hosts = {h1, h2}
  NoHost = NoHost
  Askers = {a1, a2}
  NoAsker = NoAsker
  Panes = {w1, w2}
  Widgets = {w2}
  NoPane = NoPane
  NoRect = NoRect
  Files = {f, g}
  Keep = 2
  MaxTime = 3
  MaxEdits = 2
  MaxCalls = 3
  MaxInterrupts = 1
  NoArchive = NoArchive
INVARIANTS
  DesktopTypeOK WorkTruthful SettingsKept TrayMatches SnapshotsSafe
PROPERTIES
  KeepsContents LaunchOpens ShellCatchesUp SnapsLand
