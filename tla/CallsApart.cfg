SPECIFICATION CallsSpec
CONSTANTS
  p1 = p1
  p2 = p2
  Proc = {p1, p2}
  Res = {1, 2}
  Uses <- UsesOverlap
  Count <- CountOne
  RetryMax <- LimitOne
  WaitReady = FALSE
  Reuse = FALSE
  BeaconTime = 1
  ListenTimes <- ListenShortest
  BackoffTimes <- BackoffShortest
  MaxDelay = 1
  MaxLag = 0
  MaxLosses = 0
  Mortal = {}
  AsksHeld = FALSE
INVARIANTS HoldersWithinCount HeldBeacons
