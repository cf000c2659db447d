CONSTANTS
  Cases <- AllCases
  Flips <- SomeFlips
  Offers <- SomeOffers
  Rooms <- SomeRooms
  BcjHold = 1

SPECIFICATION FairSpec

INVARIANTS
  TypeOK
  VerdictIsRight

PROPERTIES
  ImplementsDecoder
  CallerIsReleased
