SPECIFICATION FairSpec
CONSTANTS
  Inputs <- MCInputs
  Samples <- MCSamples
INVARIANTS
  TypeOK
  NeverPastEof
  RoundTrip
  NothingLost
  FeedsTheGenerator
  AcceptedReturns
  PrinterTakesNothing
PROPERTY
  Termination
