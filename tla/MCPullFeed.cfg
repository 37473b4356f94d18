SPECIFICATION Spec
CONSTANTS
  None = None
  Done = Done
  Receiver = {d1}
  Tag = {a}
  Limit = 1
  ScanLimit = 2
  MaxRings = 2
  MaxFlight = 2
  MaxUpdates = 1
INVARIANTS TypeOK FeedIsExact RevokedStaysOut
PROPERTIES AckNeverGoesBack
CHECK_DEADLOCK FALSE
