CONSTANTS
  Names <- MCNames
  LongNames <- MCLongNames
  Archives <- AllArchives
  CwdFiles = {"prog"}
  BlockSize = 2
  IntModulus = 16
  RecordSize = 4
  Cuts = TRUE
  None = None

SPECIFICATION FairSpec

INVARIANTS
  TypeOK
  InSync
  AcceptedIsWhole
  WholeIsAccepted

PROPERTY ComesToAnEnd
