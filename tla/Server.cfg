\* Safety of the exchanges: three connections race for two permits, both faults may happen.
SPECIFICATION ServerSpec
CONSTANTS
  Handles = {h1, h2}
  Consumers = {alice}
  Capabilities = {}
  Offers = {}
  TTLs = {1}
  NoLease = NoLease
  NoHandle = NoHandle
  MIN_TTL = 1
  MAX_TTL = 1
  MAX_ACTIVE_HANDLES = 2
  MAX_ATTESTATIONS = 1
  MaxPause = 0
  LastRequest = 3
  MaxTime = 3
  Exchanges = {e1, e2, e3}
  Listeners = {v4}
  MAX_HTTP_CONNECTIONS = 2
  Faults = {"accept", "stdout"}
SYMMETRY Symmetry
INVARIANTS ServerOK AnswersAreFinal AnsweredIsRecorded
\* Server::shutdown ends every task.
CHECK_DEADLOCK FALSE
