\* Two keys, two edits and two signatures: copies of a signed manifest are edited, signed again and served again while pins change.
SPECIFICATION Spec
CONSTANTS
  CapabilityTypes = {"custom", "static-analysis", "octad-storage", "scanning"}
  Registered = {"svc"}
  Port <- OnePort
  OtherPort = 9999
  Keys = {"k1", "k2"}
  Repos <- SomeRepos
  Overrides = {"absent", "svc"}
  Ports = {0, 9999}
  MaxEdits = 2
  MaxSigned = 2
INVARIANTS PinnedIsAuthentic SignedIsVerifiable NothingIsSkipped InitIsServable
