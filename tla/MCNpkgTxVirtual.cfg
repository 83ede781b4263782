SPECIFICATION Spec
CONSTANTS
  Procs = {p1}
  lib = lib
  app = app
  sub = sub
  lib1 = lib1
  lib2 = lib2
  app1 = app1
  sub1 = sub1
  fa = fa
  fb = fb
  fc = fc
  fd = fd
  fe = fe
  fg = fg
  fs = fs
  so = so
  editor = editor
  None = None
  Torn = Torn
  Unbuilt = Unbuilt
  Names <- MCNames
  Paths <- MCPaths
  Caps <- MCCaps
  Alts <- MCAlts
  Builds <- MCBuilds
  Name <- MCName
  Files <- MCFiles
  Depends <- MCDepends
  Carries <- MCCarries
  Conflicts <- MCConflicts
  Alternatives <- MCAlternatives
  Binary <- MCBinary
  Priority <- MCPriority
  Slot <- MCSlot
  Link <- MCLink
  Below <- MCBelow
  DirLinks <- MCDirLinks
  DeadLinks <- MCDeadLinks
  Critical <- MCNothing
  MaxBatch = 2
  MaxOps = 3
  MaxInterrupts = 0
PROPERTY DependenciesKept
CHECK_DEADLOCK FALSE
