SPECIFICATION Spec
CONSTANTS
  Peer = {p1, p2}
  PeerCount <- OtherCounts
  Several = {p1}
  Asking = {p2}
  Again = TRUE
  MsTicks = 2
  BeaconTime = 1
  BackoffTimes <- BackoffShortest
  MaxDelay = 1
  MaxLag = 1
INVARIANTS TypeOK BusyIsSeen FoundHaveHeld
