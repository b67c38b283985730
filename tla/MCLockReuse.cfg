SPECIFICATION Spec
CONSTANTS
  p1 = p1
  p2 = p2
  Proc = {p1, p2}
  Res = {1}
  Uses <- UsesAll
  Count <- CountOne
  RetryMax <- NoLimit
  WaitReady = FALSE
  Reuse = TRUE
  BeaconTime = 1
  ListenTimes <- ListenShortest
  BackoffTimes <- BackoffShortest
  MaxDelay = 0
  MaxLag = 0
  MaxLosses = 0
  Mortal = {}
SYMMETRY Symmetry
INVARIANTS MutualExclusion
