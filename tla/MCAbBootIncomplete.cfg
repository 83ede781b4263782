SPECIFICATION Spec
CONSTANTS
  sound = sound
  unsound = unsound
  NoBuild = NoBuild
  Unset = Unset
  Builds <- MCBuilds
  Sound <- MCSound
  TRIES = 3
  MaxCmds = 3
  MaxCuts = 1
PROPERTY SwitchRefusesIncomplete
CHECK_DEADLOCK FALSE
