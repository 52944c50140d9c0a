\* Back-offs of 1, 2, 3, 3, ... ticks within 10 ticks, attempts of up to two ticks.
SPECIFICATION FairSpec
CONSTANTS
  r1 = r1  r2 = r2
  Settings <- MCSettings
  FirstBackoff = 1
  MaxBackoff = 3
  Deadline = 10
  MaxAttempt = 2
  MaxReconnect = 1
  Grace <- MCGrace
  Work = {r1, r2}
  MaxDeaths = 1
INVARIANT TypeOK StartsInTime SeededWhenReachable
PROPERTY NotGivenUpOn ImplementsWorkerLife Recovers SignalEnds
