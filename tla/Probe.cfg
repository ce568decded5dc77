\* Two ports and one that must be asked for; up to two addresses answer, and one changes during the scan.
SPECIFICATION FairSpec
CONSTANTS
  Registry <- Three
  ExtraPorts <- Extra
  HostArgs = {"localhost", "127.0.0.1"}
  Answers <- SomeAnswers
  MaxUp = 2
  MaxChanges = 1
INVARIANTS TypeOK SteadyIsListed ListedWasThere MeshAgreesWithRegistry
PROPERTY ScanEnds
\* The command is over when the last port is probed.
CHECK_DEADLOCK FALSE
