SPECIFICATION FairSpec
CONSTANTS
  None = None
  Commands = {"session_open", "command_start", "prompt_ready", "arm_once", "disarm", "session_close", "arm_persistent", "set_label"}
  SessionId = {s1}
  Burst = {b1}
  Event = {e1}
  Minimum = {1}
  Idle = {1}
  StaleAfter = 1
  Limits = {1}
  MaxAge = 1
  MaxTime = 2
  MaxInFlight = 2
  MaxCrashes = 1
  MaxFailures = 0
  RetryBase = 1
  RetryCap = 1
  MaxAttempts = 1
PROPERTIES
  SettledBurstIsQueued
CHECK_DEADLOCK FALSE
