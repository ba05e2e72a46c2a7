SPECIFICATION FairSpec
CONSTANTS
  Dest = {d1, d2}
  Setting = {ndi}
  Off = Off
  Rate = {44, 48}
  MaxDestinations = 1
  MaxApplies = 3
  MaxRestarts = 1
  MaxFailures = 1
CHECK_DEADLOCK FALSE
INVARIANTS OneSenderPerDestination AudioIsFed WorkersAreOwned NoDelayedBurst OneStaleBlock
PROPERTIES ApplyEnds DestinationsRecover
