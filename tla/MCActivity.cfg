SPECIFICATION Spec
CONSTANTS
  None = None
  SessionId = {s1, s2}
  Burst = {b1, b2}
  MaxTime = 4
  Minimum = {1}
  Idle = {1}
  StaleAfter = 2
INVARIANTS
  TypeOK
  OneRingPerOnce
  CreditedTimeIsForegroundTime
  DeadlineCountsFromPrompt
PROPERTIES
  AutomaticRingIsEarned
  BellSpec
SYMMETRY Symmetry
