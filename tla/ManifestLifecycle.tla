------------------------- MODULE ManifestLifecycle -------------------------
(***************************************************************************)
(* The life of a manifest file: groove init writes it from what detect     *)
(* finds in a repository (src/cli/src/init.rs, detect.rs), its author      *)
(* edits it, a provider admits, signs and serves it                        *)
(* (src/provider/src/lib.rs, serve), somebody keeps a copy of what is      *)
(* served, and the registry pins a key for the service.  groove validate   *)
(* and its --verify only read: they are the operators of ManifestRules,    *)
(* asked about every file and every served manifest.                       *)
(***************************************************************************)
EXTENDS ManifestRules

CONSTANTS
  Repos,       \* repositories groove init is run in
  Overrides,   \* values of --service-id, Absent among them
  Ports,       \* values of --port, 0 for none among them
  MaxEdits,    \* bound: edits of the file
  MaxSigned    \* bound: signatures made

\* What detect suggests is in the registry.
ASSUME DetectAssumption == {"static-analysis", "octad-storage", "scanning"} \subseteq CapabilityTypes

\* A repository: which project files it has and whether the one that decides can
\* be read and parsed, the name and the version that one declares, the name of
\* its directory, which of the two are over-long, and what its sources hold.  A
\* directory without a name is called "unknown", and two routes are looked for.
ASSUME RepoAssumption ==
  \A repo \in Repos :
    /\ repo.readable \in BOOLEAN
    /\ repo.version \in {"right", "wrong"}
    /\ repo.long \subseteq {"name", "version"}
    /\ repo.directory # Absent
    /\ repo.routes \subseteq {"/scan", "/graphql"}

VARIABLES
  file,        \* the manifest in the repository, if there is one
  origin,      \* who wrote it last: "init", "editor" or "copy"
  edits,
  served,      \* the manifest a provider serves, if one runs, and its signing key
  signed,      \* history: what was signed with which key
  pins         \* the registry's key for each registered service, or Absent

vars == <<file, origin, edits, served, signed, pins>>

----------------------------------------------------------------------------
\* detect: what groove init finds in a repository.

\* The first of these files decides the project's type.
ProjectType(repo) ==
  CASE "Cargo.toml" \in repo.files -> "Rust"
    [] "Cargo.toml" \notin repo.files /\ "mix.exs" \in repo.files -> "Elixir"
    [] {"Cargo.toml", "mix.exs"} \cap repo.files = {} /\ "deno.json" \in repo.files -> "Deno"
    [] repo.files = {"build.zig"} -> "Zig"
    [] OTHER -> "Unknown"

\* The name its file declares, or the empty one (no id) if it declares none; the
\* directory's where no file declares names or it cannot be read.
DetectedId(repo) ==
  IF ProjectType(repo) \in {"Rust", "Elixir", "Deno"} /\ repo.readable
  THEN IF repo.declared = Absent THEN "Not An Id" ELSE repo.declared
  ELSE repo.directory

\* Of Cargo.toml and mix.exs an empty version is passed over for the default one,
\* that of deno.json is taken as it is.
DetectedVersion(repo) ==
  IF ProjectType(repo) = "Deno" /\ repo.readable THEN repo.version ELSE "right"

HasServer(repo) == ProjectType(repo) \in repo.servers

\* Routes are looked for in two languages only.
SuggestedTypes(repo) ==
  IF ProjectType(repo) \in {"Rust", "Elixir"}
  THEN {CASE r = "/scan" -> "static-analysis" [] r = "/graphql" -> "custom" : r \in repo.routes}
  ELSE {}

\* verisimdb is looked for in the sources of every project, the others in the
\* files of two.
SuggestedConsumes(repo) ==
  {IF d = "verisimdb" THEN "octad-storage" ELSE "scanning" :
     d \in {e \in repo.deps :
             e = "verisimdb" \/ (ProjectType(repo) \in {"Rust", "Elixir"} /\ repo.readable)}}

\* Without a server the project is a command-line tool: passive.
Passive(repo, flag) == flag \/ ~HasServer(repo)

\* Mutant of InitCapabilities: the placeholder has no type.
InitUntyped(repo, flag) ==
  LET protocol == IF Passive(repo, flag) THEN "cli" ELSE "http" IN
  IF SuggestedTypes(repo) = {} THEN {[key |-> "primary", type |-> Absent, protocol |-> protocol]}
  ELSE {[key |-> t, type |-> t, protocol |-> "http"] : t \in SuggestedTypes(repo)}

\* One capability for each suggestion, keyed by its type, or a placeholder.
InitCapabilities(repo, flag) ==
  LET protocol == IF Passive(repo, flag) THEN "cli" ELSE "http" IN
  IF SuggestedTypes(repo) = {} THEN {[key |-> "primary", type |-> "custom", protocol |-> protocol]}
  ELSE {[key |-> t, type |-> t, protocol |-> "http"] : t \in SuggestedTypes(repo)}

\* The port given, or the registry's; a passive tool has none.
InitPorts(repo, id, port, flag) ==
  IF Passive(repo, flag) THEN {}
  ELSE IF port # 0 THEN {port}
  ELSE IF id \in Registered THEN {Port[id]} ELSE {}

\* A --service-id is of moderate length.
InitManifest(repo, override, port, flag) ==
  LET id == IF override # Absent THEN override ELSE DetectedId(repo)
      long == IF override # Absent THEN repo.long \ {"name"} ELSE repo.long
  IN
  [text |-> "ijson", version |-> "1", id |-> id, service_version |-> DetectedVersion(repo),
   mode |-> IF Passive(repo, flag) THEN "right" ELSE Absent,
   capabilities |-> Holding(InitCapabilities(repo, flag)),
   consumes |-> Holding(SuggestedConsumes(repo)),
   endpoints |-> InitPorts(repo, id, port, flag),
   placeholders |-> FALSE, fractions |-> FALSE, oversized |-> long # {}, signature |-> {}]

----------------------------------------------------------------------------

\* A manifest that was there is overwritten.  Bound: not after the first edit,
\* signature or provider.
InitCommand ==
  /\ edits = 0 /\ served = {} /\ signed = {}
  /\ \E repo \in Repos, override \in Overrides, port \in Ports, flag \in BOOLEAN :
       file' = {InitManifest(repo, override, port, flag)}
  /\ origin' = "init"
  /\ UNCHANGED <<edits, served, signed, pins>>

\* One member is changed and nothing else, a signature there is stays.
Edited(m) ==
  {[m EXCEPT !.text = t] : t \in {"repeated-key", "out-of-range", "no-json"}}
    \cup {[m EXCEPT !.version = v] : v \in {"wrong", Absent}}
    \cup {[m EXCEPT !.id = i] : i \in ServiceIds \cup {Absent}}
    \cup {[m EXCEPT !.capabilities = c] :
            c \in {Without, [shape |-> "wrong", of |-> {}],
                   Holding(m.capabilities.of \cup {[key |-> "primary", type |-> Absent, protocol |-> Absent]}),
                   Holding({[key |-> "primary", type |-> "unknown", protocol |-> "unknown"]})}}
    \cup {[m EXCEPT !.consumes = c] :
            c \in {[shape |-> "wrong", of |-> {}], Holding(m.consumes.of \cup {"not a string"})}}
    \cup {[m EXCEPT !.service_version = "wrong"], [m EXCEPT !.mode = "wrong"],
          [m EXCEPT !.endpoints = {OtherPort}], [m EXCEPT !.placeholders = TRUE],
          [m EXCEPT !.fractions = TRUE], [m EXCEPT !.oversized = TRUE],
          [m EXCEPT !.signature = {}]}

EditFile ==
  /\ edits < MaxEdits
  /\ \E m \in file : \E e \in Edited(m) : e # m /\ file' = {e}
  /\ origin' = "editor"
  /\ edits' = edits + 1
  /\ UNCHANGED <<served, signed, pins>>

\* A provider starts on the file with a signing seed: the seed's key signs
\* whatever the file says, if it can be signed.
ServeSigned ==
  /\ served = {}
  /\ Cardinality(signed) < MaxSigned
  /\ \E m \in file, key \in Keys :
       /\ Parses(m) /\ Admitted(Parsed(m)) /\ Canonical(Parsed(m))
       /\ served' = {[manifest |-> Sign(Parsed(m), key), seed |-> key]}
       /\ signed' = signed \cup {[key |-> key, over |-> Unsigned(Parsed(m))]}
  /\ UNCHANGED <<file, origin, edits, pins>>

\* Without a seed the manifest is served as it is, with any signature in it.
ServePlain ==
  /\ served = {}
  /\ \E m \in file :
       /\ Parses(m) /\ Admitted(Parsed(m))
       /\ served' = {[manifest |-> Parsed(m), seed |-> Absent]}
  /\ UNCHANGED <<file, origin, edits, signed, pins>>

StopServing ==
  /\ served # {}
  /\ served' = {}
  /\ UNCHANGED <<file, origin, edits, signed, pins>>

\* The file is replaced with a copy of what is served.
Download ==
  /\ \E s \in served : file' = {s.manifest}
  /\ origin' = "copy"
  /\ UNCHANGED <<edits, served, signed, pins>>

\* A release of the registry, embedded in every tool, pins a service's key.
PinKey ==
  /\ \E service \in Registered, key \in Keys \cup {Absent} : pins' = [pins EXCEPT ![service] = key]
  /\ UNCHANGED <<file, origin, edits, served, signed>>

Init ==
  /\ file = {} /\ origin = "init" /\ edits = 0
  /\ served = {}
  /\ signed = {}
  /\ pins = [s \in Registered |-> Absent]

Next ==
  InitCommand \/ EditFile \/ ServeSigned \/ ServePlain \/ StopServing \/ Download \/ PinKey

Spec == Init /\ [][Next]_vars

----------------------------------------------------------------------------
\* Properties.

Known == file \cup {s.manifest : s \in served}

\* groove validate --verify as a gate: whatever was copied, edited, signed again
\* or pinned in between, a manifest of a pinned service passes only if it is, to
\* the letter, one that the holder of the pinned key signed.
PinnedIsAuthentic ==
  \A m \in Known :
    PinFor(m, pins) # Absent /\ ExitStatus(ValidateFindings({m}, TRUE, pins), FALSE) = 0
      => [key |-> pins[m.id], over |-> Unsigned(m)] \in signed

\* A provider with a signing seed serves a manifest that verifies, whatever
\* signature the file came with; where its key is the one pinned, as pinned.
SignedIsVerifiable ==
  \A s \in served : s.seed # Absent =>
    /\ Verify(s.manifest, Absent) = "valid-self"
    /\ Verify(s.manifest, s.seed) = "valid-pinned"

\* Consumers and the provider's own handlers skip what is not well typed in a
\* manifest. In one that is served nothing is skipped: every capability is
\* offered under its type and every consumed type is a type.
NothingIsSkipped ==
  \A s \in served :
    /\ Offers(s.manifest) = {c.type : c \in s.manifest.capabilities.of}
    /\ Consumes(s.manifest) = s.manifest.consumes.of
    /\ s.manifest.capabilities.shape = "right"

\* init.rs: 'writes a correct manifest'. What groove init takes over unseen is the
\* repository's name and version. Where these are an id and a version, and not
\* over-long, a provider serves what it wrote and groove validate passes it, up
\* to a --port that contradicts the registry.
InitIsServable ==
  \A m \in file :
    /\ origin = "init"
    /\ m.id \notin {"Not An Id", "panic-attacker"} /\ m.service_version = "right" /\ ~m.oversized
    => Admitted(m) /\ ExitStatus(Findings(m), FALSE) = 0

=============================================================================
