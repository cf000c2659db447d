CONSTANTS
  Chars <- Alphabet
  Programs <- SomePrograms
  OddPrograms <- Odd
  Roots <- SomeRoots
  Names <- SomeNames
  MAX_INTERP_LEN = 6
  MAX_RPATH_LEN = 6
  Launches = 2

SPECIFICATION Spec

INVARIANTS
  TypeOK
  LoadsFromBundle
  StartsIffItFits
  OnlyPlaceholdersChange
  IInv
