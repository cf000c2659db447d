CONSTANTS
  Paths <- MCPaths
  Inodes <- MCInodes
  Programs <- MCPrograms
  Jobs <- SharedTail
  Faults <- NoOperation
  None = None

SPECIFICATION Spec

INVARIANT NoInternalError
