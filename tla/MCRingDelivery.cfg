SPECIFICATION Spec
CONSTANTS
  None = None
  e1 = e1
  e2 = e2
  r1 = r1
  r2 = r2
  desk = desk
  attic = attic
  Event = {e1, e2}
  Receiver = {r1, r2}
  Targets <- MCTargets
  Tags <- MCTags
  MaxAge = 0
  Retention = 0
  MaxTime = 1
  MaxCalls = 2
  MaxPairings = 2
  MaxFaults = 1
  MaxOwner = 3
SYMMETRY ReceiverSymmetry
INVARIANTS TypeOK LaterRequestsAreRefused DeliveredWasAccepted
PROPERTIES PromiseSpec RevokedReceiversStaySilent
CHECK_DEADLOCK FALSE
