SPECIFICATION FairSpec
CONSTANTS
  sound = sound
  unsound = unsound
  NoBuild = NoBuild
  Unset = Unset
  Builds <- MCBuilds
  Sound <- MCSound
  TRIES = 3
  MaxCmds = 4
  MaxCuts = 2
INVARIANTS
  TypeOK
  FallbackIsRunning
  SettledBoots
  AttemptsBounded
  WholeSlotKnowsItself
PROPERTIES
  RunningSlotUntouched
  RecoveryAfterFailure
  KeepsTrialPromise
  ComesBack
CHECK_DEADLOCK FALSE
