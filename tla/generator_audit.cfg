CONSTANTS
  Paths <- MCPaths
  Inodes <- MCInodes
  Programs <- MCPrograms
  Jobs <- BadRpaths
  Faults <- NoOperation
  None = None

SPECIFICATION Spec

INVARIANT LoaderStaysInBundle
