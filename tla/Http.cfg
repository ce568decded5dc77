\* Reads of one to three bytes against a head limit that two header lines just fit and three exceed.
SPECIFICATION FairSpec
CONSTANTS
  Wires <- Written
  ChunkSize = 3
  MaxHead = 11
  MaxBody = 2
INVARIANTS TypeOK ChunkingIsInvisible
PROPERTY ReadingEnds
\* The exchange is over when its outcome is decided.
CHECK_DEADLOCK FALSE
