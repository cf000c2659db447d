CONSTANTS
  Signals <- MCSignals
  Uncatchable <- MCUncatchable
  Archive <- MCArchive
  AppFiles <- MCAppFiles
  ExitCodes <- MCExitCodes
  Faults <- NoFaults
  Environments <- OnlyPlain
  MaxSignals = 1
  None = None

SPECIFICATION FairSpec

PROPERTY EndsOnceAppHasEnded
