SPECIFICATION Spec
CONSTANTS
  None = None
  e1 = e1
  e2 = e2
  r1 = r1
  r2 = r2
  desk = desk
  attic = attic
  Event = {e1, e2}
  Receiver = {r1, r2}
  Targets <- MCOpenTargets
  Tags <- MCTags
  MaxAge = 1
  Retention = 1
  MaxTime = 2
  MaxCalls = 3
  MaxPairings = 2
  MaxFaults = 1
  MaxOwner = 2
INVARIANTS OneNotificationPerEvent
CHECK_DEADLOCK FALSE
