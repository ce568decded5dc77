--------------------------- MODULE ManifestRules ---------------------------
(***************************************************************************)
(* What the command-line tools and the provider decide about a manifest:   *)
(* the checks of groove validate (src/cli/src/validate.rs), the signature  *)
(* (sign.rs, canonical.rs), what a provider admits at start and in a       *)
(* connect (src/provider/src/lib.rs).  A manifest is what these tell apart *)
(* in a JSON document: for each member whether it is absent, of the wrong  *)
(* shape, or which of the values that matter it has.                       *)
(***************************************************************************)
EXTENDS Integers, FiniteSets

CONSTANTS
  CapabilityTypes,   \* the registry's capability types, "custom" among them
  Registered,        \* service ids of the registry
  Port,              \* the port of each registered service
  OtherPort,         \* a port that is none of them
  Keys               \* Ed25519 keys

ASSUME RulesAssumption ==
  /\ "custom" \in CapabilityTypes
  /\ OtherPort \notin {Port[s] : s \in Registered}

Absent == "absent"

\* Ids without an entry in the registry: well formed, renamed, malformed.
ServiceIds == Registered \cup {"unregistered", "panic-attacker", "Not An Id"}

Types == CapabilityTypes \cup {"unknown"}

Capability == [key : CapabilityTypes \cup {"primary"}, type : Types \cup {Absent},
               protocol : {"http", "cli", "unknown", Absent}]

\* text: I-JSON, JSON with a repeated key, JSON with an integer beyond 2^53, or
\* no JSON.  A member is absent, of another shape, or holds a set.
Member(contents) == [shape : {"right", "wrong", Absent}, of : SUBSET contents]

Holding(contents) == [shape |-> "right", of |-> contents]
Without == [shape |-> Absent, of |-> {}]

----------------------------------------------------------------------------
\* validate_manifest_content, one operator for each check.

Finding(check, severity) == [check |-> check, severity |-> severity]

When(condition, check, severity) == IF condition THEN {Finding(check, severity)} ELSE {}

VersionFindings(m) ==
  When(m.version = Absent, "DOG-03", "critical") \cup When(m.version = "wrong", "DOG-03", "high")

IdFindings(m) ==
  When(m.id = Absent, "DOG-03", "critical")
    \cup When(m.id = "Not An Id", "DOG-03", "high")
    \cup When(m.id = "panic-attacker", "DOG-10", "high")

\* Mutant of OneCapability: a capability without a type is let through.
UntypedCapability(c) ==
  When(c.type = "unknown", "DOG-03", "medium")
    \cup When(c.type \in Types /\ c.key # c.type /\ c.type # "custom", "DOG-03", "low")
    \cup When(c.protocol = "unknown", "DOG-03", "medium")

OneCapability(c) ==
  When(c.type = Absent, "DOG-03", "high")
    \cup When(c.type = "unknown", "DOG-03", "medium")
    \cup When(c.type \in Types /\ c.key # c.type /\ c.type # "custom", "DOG-03", "low")
    \cup When(c.protocol = "unknown", "DOG-03", "medium")

CapabilityFindings(m) ==
  When(m.capabilities.shape = Absent, "DOG-03", "critical")
    \cup When(m.capabilities.shape = "wrong", "DOG-03", "high")
    \cup When(m.capabilities = Holding({}), "DOG-03", "medium")
    \cup UNION {OneCapability(c) : c \in m.capabilities.of}

ScalarFindings(m) ==
  When(m.service_version = "wrong", "DOG-03", "high") \cup When(m.mode = "wrong", "DOG-03", "high")

\* An item that is no string is in Types under no name.
ConsumesFindings(m) ==
  When(m.consumes.shape = "wrong" \/ "not a string" \in m.consumes.of, "DOG-03", "high")
    \cup When("unknown" \in m.consumes.of, "DOG-03", "medium")

PortFindings(m) ==
  When(m.id \in Registered /\ \E p \in m.endpoints : p # Port[m.id], "DOG-04", "high")

\* Not I-JSON: no other check runs.
Findings(m) ==
  IF m.text # "ijson" THEN {Finding("DOG-03", "critical")}
  ELSE UNION {VersionFindings(m), IdFindings(m), CapabilityFindings(m), ScalarFindings(m),
              ConsumesFindings(m), PortFindings(m), When(m.placeholders, "DOG-06", "critical")}

Grave(findings) == {f \in findings : f.severity \in {"high", "critical"}}

\* The exit status of groove validate, which gates on the critical ones and
\* only when it prints for a reader.
ExitStatus(findings, json) ==
  IF ~json /\ \E f \in findings : f.severity = "critical" THEN 1 ELSE 0

----------------------------------------------------------------------------
\* Signatures.  A signature value is who made it and over what.

Unsigned(m) == [m EXCEPT !.signature = {}]

\* canonical_json refuses what is not I-JSON and every number with a fraction.
Canonical(m) == m.text # "out-of-range" /\ ~m.fractions

\* Mutant of Sign: a signature the manifest came with is part of the payload.
SignNested(m, key) ==
  [m EXCEPT !.signature = {[alg |-> "ed25519", key |-> key, by |-> key, over |-> m]}]

\* sign_manifest replaces any signature there was.
Sign(m, key) ==
  [m EXCEPT !.signature =
     {[alg |-> "ed25519", key |-> key, by |-> key, over |-> Unsigned(m)]}]

\* Mutant of Verify: a pin is taken for met when the manifest is self-consistent.
VerifySelf(m, pin) ==
  IF m.signature = {} THEN IF pin = Absent THEN "unsigned" ELSE "error"
  ELSE LET s == CHOOSE s \in m.signature : TRUE IN
       IF s.alg # "ed25519" \/ ~Canonical(m) \/ s.by # s.key \/ s.over # Unsigned(m) THEN "error"
       ELSE IF pin = Absent THEN "valid-self" ELSE "valid-pinned"

\* verify_manifest: errors are no outcome of a verification but its failure.
Verify(m, pin) ==
  IF m.signature = {} THEN IF pin = Absent THEN "unsigned" ELSE "error"
  ELSE LET s == CHOOSE s \in m.signature : TRUE IN
       IF \/ s.alg # "ed25519"
          \/ pin # Absent /\ pin # s.key
          \/ ~Canonical(m)
          \/ s.by # s.key \/ s.over # Unsigned(m)
       THEN "error"
       ELSE IF pin = Absent THEN "valid-self" ELSE "valid-pinned"

\* verify_signature_finding: the pin is the registry's for the id claimed.
PinFor(m, pins) == IF m.id \in Registered THEN pins[m.id] ELSE Absent

SignatureFindings(m, pins) ==
  IF m.text # "ijson" THEN {}
  ELSE LET outcome == Verify(m, PinFor(m, pins)) IN
       {Finding("DOG-03-SIG", CASE outcome = "unsigned" -> "low"
                                [] outcome = "error" -> "critical"
                                [] OTHER -> "info")}

\* groove validate --verify on a repository that holds these manifests, one or
\* none: without one, it depends on whether there is a server to find.
ValidateFindings(manifests, server, pins) ==
  IF manifests = {} THEN {Finding("DOG-08", IF server THEN "medium" ELSE "low")}
  ELSE UNION {Findings(m) \cup SignatureFindings(m, pins) : m \in manifests}

----------------------------------------------------------------------------
\* The provider.

\* serde_json's reading of a text: the last of repeated keys.
Parses(m) == m.text # "no-json"
Parsed(m) == IF m.text = "repeated-key" THEN [m EXCEPT !.text = "ijson"] ELSE m

\* serve and connect refuse the grave findings, but for the registry's default
\* port, and metadata beyond the limits.
Admitted(m) == {f \in Grave(Findings(m)) : f.check # "DOG-04"} = {} /\ ~m.oversized

\* State::offers and the consumes of a connect: what is not well typed is
\* passed over without a word.
Offers(m) == {c.type : c \in {d \in m.capabilities.of : d.type # Absent}}
Consumes(m) == m.consumes.of \cap Types

=============================================================================
