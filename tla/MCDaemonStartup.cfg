SPECIFICATION StartupFairSpec
CONSTANTS
  Nothing = Nothing
  d1 = d1
  d2 = d2
  d3 = d3
  Process = {d1, d2, d3}
  Service = TRUE
  MaxStops = 1
  MaxKills = 1
INVARIANTS StartupTypeOK OnlySilenceLetsTwoServe SuccessiveDaemonsRingOnce
PROPERTIES ServiceReturns
