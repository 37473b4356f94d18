SPECIFICATION FairSpec
CONSTANTS
  None = None
  Burst = {b1}
  ShellType = {"bash", "zsh", "fish"}
  Minimum = {0, 1}
  MaxFaults = 2
INVARIANTS TypeOK EngineAgrees
PROPERTY BurstsEnd
CHECK_DEADLOCK FALSE
