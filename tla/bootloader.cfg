CONSTANTS
  Signals <- MCSignals
  Uncatchable <- MCUncatchable
  Archive <- MCArchive
  AppFiles <- MCAppFiles
  ExitCodes <- MCExitCodes
  Faults <- AllFaults
  Environments <- SomeEnvironments
  MaxSignals = 2
  None = None

SPECIFICATION FairSpec

INVARIANTS
  TypeOK
  BundleOutlivesApp
  StatusIsAccountedFor
  CleansUpBehindItself
  OrphansOnlyByForce
  StraysOnlyAfterReaping
  IgnoredSignalsSpare
  IInv

PROPERTIES
  ImplementsLauncher
  TerminationReachesApp
  EndsAfterApp
