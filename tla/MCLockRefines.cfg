SPECIFICATION FairSpec
CONSTANTS
  p1 = p1
  p2 = p2
  Proc = {p1, p2}
  Res = {1, 2}
  Uses <- UsesOverlap
  Count <- CountOne
  RetryMax <- LimitOne
  WaitReady = TRUE
  Reuse = FALSE
  BeaconTime = 1
  ListenTimes <- ListenExtremes
  BackoffTimes <- BackoffShortest
  MaxDelay = 1
  MaxLag = 0
  MaxLosses = 1
  Mortal = {p1, p2}
PROPERTIES ImplementsCountingLock AloneAcquires AcquireReturns
