CONSTANTS
  MaxSigned = 7
  StreamIds = {0, 7}
  NamedIds <- MCNamedIds
  Latencies = {3}
  DefaultLatency = 4
SPECIFICATION Spec
INVARIANT SetupInv
PROPERTY BlameIsRight
PROPERTY SetupCompletes
PROPERTY SetupEnds
CHECK_DEADLOCK FALSE
