CONSTANTS
  Paths <- MCPaths
  Inodes <- MCInodes
  Programs <- MCPrograms
  Jobs <- AllJobs
  Faults <- Operations
  None = None

SPECIFICATION FairSpec

INVARIANTS
  TypeOK
  NamesLeadHome
  NoNameTwice
  BundleIsSearched
  HostUntouched
  NothingLeftBehind
  OutputOldOrWhole
  IInv

PROPERTY ComesToAnEnd
