CONSTANTS
  Names <- MCNames
  LongNames <- MCLongNames
  Archives <- OneFile
  CwdFiles = {}
  BlockSize = 2
  IntModulus = 16
  RecordSize = 4
  Cuts = FALSE
  None = None

SPECIFICATION Spec

INVARIANT ClosesCleanly
