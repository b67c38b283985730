SPECIFICATION Spec
CONSTANTS
  p1 = p1
  p2 = p2
  Proc = {p1, p2}
  Res = {1}
  Uses <- UsesAll
  Count <- CountOne
  RetryMax <- NoLimit
  WaitReady = FALSE
  Reuse = FALSE
  BeaconTime = 2
  ListenTimes <- ListenExtremes
  BackoffTimes <- BackoffExtremes
  MaxDelay = 2
  MaxLag = 1
  MaxLosses = 0
  Mortal = {}
SYMMETRY Symmetry
INVARIANTS TypeOK MutualExclusion BeaconsGoOut StaleExpires LaterHearsEarlier NoFalseHolder
