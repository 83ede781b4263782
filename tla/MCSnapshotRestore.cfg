\* One file that is written once, and the five snapshots the code keeps.
SPECIFICATION SnapSpec
CHECK_DEADLOCK FALSE
CONSTANTS
  Files = {f}
  Keep = 5
  MaxTime = 6
  MaxEdits = 1
  MaxCalls = 6
  MaxInterrupts = 0
  NoArchive = NoArchive
INVARIANTS
  RestoreFinds
