\* The whole script, with an airdrop that is polled twice.
SPECIFICATION FairSpec
CONSTANTS
  PointsToAdd = 10
  MaxPolls = 2
INVARIANTS
  TypeOK
  NeverRefused
  StopsInOrder
  FixedSupply
  AsAnnounced
PROPERTIES
  ImplementsNftLife
  Ends
CHECK_DEADLOCK FALSE
