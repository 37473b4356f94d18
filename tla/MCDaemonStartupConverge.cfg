SPECIFICATION StartupSpec
CONSTANTS
  Nothing = Nothing
  d1 = d1
  d2 = d2
  Process = {d1, d2}
  Service = FALSE
  MaxStops = 0
  MaxKills = 0
INVARIANTS ConcurrentStartsConverge
