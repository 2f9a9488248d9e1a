SPECIFICATION FairSpec
CONSTANTS
  Attempts = 2
  Interface <- Interfaces
  Trust <- TrustKind
CHECK_DEADLOCK FALSE
INVARIANTS
  TypeOK
  LaunchedIsVerified
  CancelIsFinal
  TempIsSettled
  NoProgressLeft
  LaunchIsReported
PROPERTIES
  InstallAnswers
