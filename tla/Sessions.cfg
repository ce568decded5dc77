\* Safety of the session table: three tokens, two sessions at a time, a window of two records.
SPECIFICATION Spec
CONSTANTS
  Handles = {h1, h2, h3}
  Consumers = {alice, bob}
  Capabilities = {attestation, voice}
  Offers = {attestation}
  TTLs = {0, 1, 2}
  NoLease = NoLease
  NoHandle = NoHandle
  MIN_TTL = 1
  MAX_TTL = 2
  MAX_ACTIVE_HANDLES = 2
  MAX_ATTESTATIONS = 2
  MaxPause = 1
  LastRequest = 5
  MaxTime = 6
SYMMETRY Symmetry
INVARIANTS TypeOK RetainedWindowVerifies AuditBalances
PROPERTIES KeepsContract
