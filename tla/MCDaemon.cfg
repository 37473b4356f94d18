SPECIFICATION Spec
CONSTANTS
  None = None
  Commands = {"session_open", "prompt_ready", "arm_persistent", "manual_ring"}
  SessionId = {s1}
  Burst = {b1}
  Event = {e1, e2}
  Minimum = {1}
  Idle = {1}
  StaleAfter = 1
  Limits = {1}
  MaxAge = 1
  MaxTime = 2
  MaxInFlight = 1
  MaxCrashes = 1
  MaxFailures = 1
  RetryBase = 1
  RetryCap = 1
  MaxAttempts = 1
INVARIANTS
  TypeOK
  OnlySilentResetsAreUnsaved
  OnlyFailuresSuppress
  LossesAreCounted
PROPERTIES
  RestartKeepsSessions
  NoEarlyRingAcrossRestart
  DurableBell
SYMMETRY Symmetry
CHECK_DEADLOCK FALSE
