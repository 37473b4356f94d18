SPECIFICATION Spec
CONSTANTS
  None = None
  Request = {p1, p2}
  Source = {s1, s2}
  TTL = 1
  MaxTime = 2
  MaxPolls = 2
  MaxApprovals = 2
INVARIANTS TypeOK EverySourceWasApprovedOnce NegativeAnswersAreDecided OneTokenPerSource StoredTokenWorks
SYMMETRY Symmetry
CHECK_DEADLOCK FALSE
