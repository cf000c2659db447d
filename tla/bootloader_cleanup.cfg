CONSTANTS
  Signals <- MCSignals
  Uncatchable <- MCUncatchable
  Archive <- MCArchive
  AppFiles <- MCAppFiles
  ExitCodes <- MCExitCodes
  Faults <- NoFaults
  Environments <- IgnoresChildDeath
  MaxSignals = 0
  None = None

SPECIFICATION Spec

INVARIANT CleansUpAfterItExits
