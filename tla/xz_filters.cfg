CONSTANTS
  Streams <- AllStreams
  Garbage <- SomeGarbage
  Corrupted <- SomeCorrupted
  Offers <- SomeOffers
  Rooms <- SomeRooms

SPECIFICATION FairSpec

INVARIANTS
  TypeOK
  DictionaryIsHistory
  StaysInBuffers
  BadIsNoticed

PROPERTIES
  ImplementsDecoder
  CallsReturn
