SPECIFICATION Spec
CONSTANTS
  None = None
  TTL = 2
  Limit = 1
  Window = 2
  MaxAttempts = 3
  MaxTime = 3
  MaxBoots = 2
INVARIANTS TypeOK SessionsFollowThePassword AttemptsAreLimited
PROPERTIES PasswordIsReplacedOnRequest
CHECK_DEADLOCK FALSE
