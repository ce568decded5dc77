--------------------------- MODULE ManifestProofs ---------------------------
(***************************************************************************)
(* Proofs about ManifestLifecycle, for any services, keys, repositories    *)
(* and numbers of edits and signatures.                                    *)
(***************************************************************************)
EXTENDS ManifestLifecycle, TLAPS

\* A manifest has the members that signing and verifying look at.
Members == {"text", "id", "capabilities", "consumes", "fractions", "oversized", "signature"}

Shaped(m) == Members \subseteq DOMAIN m

\* Every signature there is was made: copies and edits make none.
Made(m) == \A s \in m.signature : [key |-> s.by, over |-> s.over] \in signed

Authentic == \A m \in Known : Shaped(m) /\ Made(m)

\* What detect and the editor put into a manifest.
Fit(m) ==
  /\ m.consumes.of \subseteq Types \cup {"not a string"}
  /\ m.capabilities.shape \in {"right", "wrong", Absent}

Fitting == \A m \in Known : Fit(m)

Whole(m) ==
  /\ \A c \in m.capabilities.of : c.type # Absent
  /\ m.capabilities.shape = "right"
  /\ "not a string" \notin m.consumes.of

ServedWhole == \A s \in served : Whole(s.manifest)

IInv == Authentic /\ Fitting /\ SignedIsVerifiable /\ ServedWhole
-----------------------------------------------------------------------------
\* What groove init writes is a manifest, unsigned.
LEMMA InitManifestShaped ==
  ASSUME NEW repo, NEW override, NEW port, NEW flag
  PROVE  LET m == InitManifest(repo, override, port, flag) IN Shaped(m) /\ m.signature = {} /\ Fit(m)
<1>1. SuggestedConsumes(repo) \subseteq Types
  BY DetectAssumption DEF SuggestedConsumes, Types
<1>. QED BY <1>1 DEF InitManifest, Shaped, Members, Fit, Holding

\* An edit keeps the signature or removes it.
LEMMA EditKeeps ==
  ASSUME NEW m, Shaped(m), NEW e \in Edited(m)
  PROVE  Shaped(e) /\ e.signature \subseteq m.signature
<1>1. \/ e = [m EXCEPT !.signature = {}]
      \/ \E t : \/ e = [m EXCEPT !.text = t] \/ e = [m EXCEPT !.version = t]
               \/ e = [m EXCEPT !.id = t] \/ e = [m EXCEPT !.capabilities = t]
               \/ e = [m EXCEPT !.consumes = t] \/ e = [m EXCEPT !.service_version = t]
               \/ e = [m EXCEPT !.mode = t] \/ e = [m EXCEPT !.endpoints = t]
               \/ e = [m EXCEPT !.placeholders = t] \/ e = [m EXCEPT !.fractions = t]
               \/ e = [m EXCEPT !.oversized = t]
  BY Zenon DEF Edited
<1>2. CASE e = [m EXCEPT !.signature = {}]
  BY <1>2 DEF Shaped, Members
<1>3. CASE \E f, t : f # "signature" /\ e = [m EXCEPT ![f] = t]
  <2>1. PICK f, t : f # "signature" /\ e = [m EXCEPT ![f] = t]
    BY <1>3
  <2>2. Shaped(e) /\ e.signature = m.signature
    BY <2>1 DEF Shaped, Members
  <2>. QED BY <2>2
<1>4. e = [m EXCEPT !.signature = {}] \/ \E f, t : f # "signature" /\ e = [m EXCEPT ![f] = t]
  BY <1>1
<1>. QED BY <1>2, <1>3, <1>4

\* It leaves the other members that are read alone, spoils one or adds to it.
LEMMA EditContents ==
  ASSUME NEW m, Shaped(m), NEW e \in Edited(m)
  PROVE  /\ e.consumes.of \subseteq m.consumes.of \cup {"not a string"}
         /\ e.capabilities.shape \in {m.capabilities.shape, "right", "wrong", Absent}
<1> DEFINE Consumed == {[shape |-> "wrong", of |-> {}], Holding(m.consumes.of \cup {"not a string"})}
           Offered == {Without, [shape |-> "wrong", of |-> {}],
                       Holding(m.capabilities.of \cup {[key |-> "primary", type |-> Absent, protocol |-> Absent]}),
                       Holding({[key |-> "primary", type |-> "unknown", protocol |-> "unknown"]})}
<1>1. \/ \E c \in Consumed : e = [m EXCEPT !.consumes = c]
      \/ \E c \in Offered : e = [m EXCEPT !.capabilities = c]
      \/ \E t : \/ e = [m EXCEPT !.text = t] \/ e = [m EXCEPT !.version = t]
               \/ e = [m EXCEPT !.id = t] \/ e = [m EXCEPT !.service_version = t]
               \/ e = [m EXCEPT !.signature = t] \/ e = [m EXCEPT !.mode = t]
               \/ e = [m EXCEPT !.endpoints = t] \/ e = [m EXCEPT !.placeholders = t]
               \/ e = [m EXCEPT !.fractions = t] \/ e = [m EXCEPT !.oversized = t]
  BY Zenon DEF Edited
<1>2. \A c \in Consumed : c.of \subseteq m.consumes.of \cup {"not a string"}
  <2>1. Holding(m.consumes.of \cup {"not a string"}).of = m.consumes.of \cup {"not a string"}
    BY DEF Holding
  <2>2. [shape |-> "wrong", of |-> {}].of = {}
    OBVIOUS
  <2>. QED BY <2>1, <2>2
<1>3. \A c \in Offered : c.shape \in {"right", "wrong", Absent}
  BY DEF Holding, Without
<1> HIDE DEF Consumed, Offered
<1>4. ASSUME NEW c \in Consumed, e = [m EXCEPT !.consumes = c]
      PROVE  e.consumes = c /\ e.capabilities = m.capabilities
  BY <1>4 DEF Shaped, Members
<1>5. ASSUME NEW c \in Offered, e = [m EXCEPT !.capabilities = c]
      PROVE  e.capabilities = c /\ e.consumes = m.consumes
  BY <1>5 DEF Shaped, Members
<1>6. ASSUME NEW f, NEW t, f \notin {"consumes", "capabilities"}, e = [m EXCEPT ![f] = t]
      PROVE  e.consumes = m.consumes /\ e.capabilities = m.capabilities
  BY <1>6 DEF Shaped, Members
<1>7. \/ \E c \in Consumed : e = [m EXCEPT !.consumes = c]
      \/ \E c \in Offered : e = [m EXCEPT !.capabilities = c]
      \/ \E f, t : f \notin {"consumes", "capabilities"} /\ e = [m EXCEPT ![f] = t]
  BY <1>1
<1>. QED BY <1>2, <1>3, <1>4, <1>5, <1>6, <1>7

LEMMA ParsedKeeps ==
  ASSUME NEW m, Shaped(m)
  PROVE  /\ Shaped(Parsed(m)) /\ Parsed(m).signature = m.signature
         /\ Parsed(m).consumes = m.consumes /\ Parsed(m).capabilities = m.capabilities
BY DEF Parsed, Shaped, Members

\* A signature is over the manifest without it.
LEMMA SignedShape ==
  ASSUME NEW m, Shaped(m), NEW key
  PROVE  /\ Shaped(Sign(m, key))
         /\ Sign(m, key).signature =
              {[alg |-> "ed25519", key |-> key, by |-> key, over |-> Unsigned(m)]}
         /\ Unsigned(Sign(m, key)) = Unsigned(m)
         /\ Sign(m, key).consumes = m.consumes /\ Sign(m, key).capabilities = m.capabilities
         /\ Canonical(Sign(m, key)) <=> Canonical(m)
BY DEF Sign, Unsigned, Canonical, Shaped, Members

\* What was just signed verifies, by itself and as pinned.
LEMMA SignedVerifies ==
  ASSUME NEW m, Shaped(m), Canonical(m), NEW key
  PROVE  /\ Verify(Sign(m, key), Absent) = "valid-self"
         /\ key # Absent => Verify(Sign(m, key), key) = "valid-pinned"
<1> DEFINE n == Sign(m, key)
           r == [alg |-> "ed25519", key |-> key, by |-> key, over |-> Unsigned(m)]
<1>1. n.signature = {r} /\ Unsigned(n) = Unsigned(m) /\ Canonical(n)
  BY SignedShape
<1>2. (CHOOSE s \in n.signature : TRUE) = r
  BY <1>1
<1>3. n.signature # {}
  BY <1>1
<1>4. r.alg = "ed25519" /\ r.key = key /\ r.by = key /\ r.over = Unsigned(m)
  OBVIOUS
<1> HIDE DEF n, r
<1>5. Verify(n, Absent) = "valid-self"
  BY <1>1, <1>2, <1>3, <1>4 DEF Verify
<1>6. key # Absent => Verify(n, key) = "valid-pinned"
  BY <1>1, <1>2, <1>3, <1>4 DEF Verify
<1>. QED BY <1>5, <1>6 DEF n

\* A manifest that passes --verify under a pin carries a signature of the
\* pinned key over the rest of it.
LEMMA PassingIsSigned ==
  ASSUME NEW m, PinFor(m, pins) # Absent,
         ExitStatus(ValidateFindings({m}, TRUE, pins), FALSE) = 0
  PROVE  \E s \in m.signature : s.by = pins[m.id] /\ s.over = Unsigned(m)
<1>1. \A f \in Findings(m) \cup SignatureFindings(m, pins) : f.severity # "critical"
  BY DEF ExitStatus, ValidateFindings
<1>2. m.text = "ijson"
  <2>. SUFFICES ASSUME m.text # "ijson" PROVE FALSE
    OBVIOUS
  <2>1. Findings(m) = {Finding("DOG-03", "critical")}
    BY DEF Findings
  <2>2. Finding("DOG-03", "critical").severity = "critical"
    BY DEF Finding
  <2>. QED BY <1>1, <2>1, <2>2
<1>3. Verify(m, PinFor(m, pins)) # "error"
  <2>. SUFFICES ASSUME Verify(m, PinFor(m, pins)) = "error" PROVE FALSE
    OBVIOUS
  <2>1. SignatureFindings(m, pins) = {Finding("DOG-03-SIG", "critical")}
    BY <1>2 DEF SignatureFindings
  <2>2. Finding("DOG-03-SIG", "critical").severity = "critical"
    BY DEF Finding
  <2>. QED BY <1>1, <2>1, <2>2
<1>4. PinFor(m, pins) = pins[m.id]
  BY DEF PinFor
<1>5. m.signature # {}
  BY <1>3 DEF Verify
<1> DEFINE s == CHOOSE s \in m.signature : TRUE
<1>6. s \in m.signature
  BY <1>5
<1>7. s.key = pins[m.id] /\ s.by = s.key /\ s.over = Unsigned(m)
  BY <1>3, <1>4, <1>5 DEF Verify
<1>. QED BY <1>6, <1>7
\* What is admitted has nothing in it that its readers would skip.
LEMMA AdmittedIsWhole ==
  ASSUME NEW m, Admitted(m)
  PROVE  /\ \A c \in m.capabilities.of : c.type # Absent
         /\ m.capabilities.shape \notin {"wrong", Absent}
         /\ "not a string" \notin m.consumes.of
<1> DEFINE Grievous(f) == f.severity \in {"high", "critical"} /\ f.check # "DOG-04"
<1>1. \A f \in Findings(m) : ~Grievous(f)
  BY DEF Admitted, Grave
<1>2. \A severity \in {"high", "critical"} : Grievous(Finding("DOG-03", severity))
  BY DEF Finding
<1>3. m.text = "ijson"
  BY <1>1, <1>2 DEF Findings
<1>4. \A f \in CapabilityFindings(m) \cup ConsumesFindings(m) : ~Grievous(f)
  BY <1>1, <1>3 DEF Findings
<1> HIDE DEF Grievous
<1>5. ASSUME NEW c \in m.capabilities.of, c.type = Absent PROVE FALSE
  <2>1. Finding("DOG-03", "high") \in OneCapability(c)
    BY <1>5 DEF OneCapability, When
  <2>2. OneCapability(c) \subseteq CapabilityFindings(m)
    BY DEF CapabilityFindings
  <2>. QED BY <1>2, <1>4, <2>1, <2>2
<1>6. m.capabilities.shape \notin {"wrong", Absent}
  BY <1>2, <1>4 DEF CapabilityFindings, When
<1>7. "not a string" \notin m.consumes.of
  BY <1>2, <1>4 DEF ConsumesFindings, When
<1>. QED BY <1>5, <1>6, <1>7

-----------------------------------------------------------------------------
LEMMA Initially == Init => IInv
BY DEF Init, IInv, Authentic, Fitting, Known, SignedIsVerifiable, ServedWhole

\* Signatures that were made stay made.
LEMMA AuthenticStep == IInv /\ [Next]_vars => Authentic'
<1>. SUFFICES ASSUME IInv, [Next]_vars PROVE Authentic'
  OBVIOUS
<1>. USE DEF IInv, Authentic, Known
<1>1. CASE InitCommand
  <2>1. PICK m : file' = {m} /\ Shaped(m) /\ m.signature = {}
    BY <1>1, InitManifestShaped DEF InitCommand
  <2>2. Made(m)'
    BY <2>1 DEF Made
  <2>3. served' = served /\ signed' = signed
    BY <1>1 DEF InitCommand
  <2>. QED BY <2>1, <2>2, <2>3 DEF Made
<1>2. CASE EditFile
  <2>1. PICK m \in file : \E e \in Edited(m) : file' = {e}
    BY <1>2 DEF EditFile
  <2>2. PICK e \in Edited(m) : file' = {e}
    BY <2>1
  <2>3. Shaped(e) /\ e.signature \subseteq m.signature
    BY <2>1, EditKeeps
  <2>4. served' = served /\ signed' = signed
    BY <1>2 DEF EditFile
  <2>. QED BY <2>1, <2>2, <2>3, <2>4 DEF Made
<1>3. CASE ServeSigned
  <2>1. PICK m \in file, key \in Keys :
          /\ served' = {[manifest |-> Sign(Parsed(m), key), seed |-> key]}
          /\ signed' = signed \cup {[key |-> key, over |-> Unsigned(Parsed(m))]}
          /\ file' = file
    BY <1>3 DEF ServeSigned
  <2> DEFINE n == Sign(Parsed(m), key)
  <2>2. Shaped(n) /\ n.signature = {[alg |-> "ed25519", key |-> key, by |-> key, over |-> Unsigned(Parsed(m))]}
    BY <2>1, ParsedKeeps, SignedShape
  <2>3. Made(n)'
    BY <2>1, <2>2 DEF Made
  <2>4. \A x \in file : Made(x)'
    BY <2>1 DEF Made
  <2> HIDE DEF n
  <2>. QED BY <2>1, <2>2, <2>3, <2>4 DEF n
<1>4. CASE ServePlain
  <2>1. PICK m \in file : served' = {[manifest |-> Parsed(m), seed |-> Absent]}
    BY <1>4 DEF ServePlain
  <2>2. Shaped(Parsed(m)) /\ Parsed(m).signature = m.signature
    BY <2>1, ParsedKeeps
  <2>3. file' = file /\ signed' = signed
    BY <1>4 DEF ServePlain
  <2>. QED BY <2>1, <2>2, <2>3 DEF Made
<1>5. CASE StopServing
  BY <1>5 DEF StopServing, Made
<1>6. CASE Download
  BY <1>6 DEF Download, Made
<1>7. CASE PinKey
  BY <1>7 DEF PinKey, Made
<1>8. CASE UNCHANGED vars
  BY <1>8 DEF vars, Made
<1>. QED BY <1>1, <1>2, <1>3, <1>4, <1>5, <1>6, <1>7, <1>8 DEF Next

LEMMA VerifiableStep == IInv /\ [Next]_vars => SignedIsVerifiable'
<1>. SUFFICES ASSUME IInv, [Next]_vars PROVE SignedIsVerifiable'
  OBVIOUS
<1>. USE DEF IInv, SignedIsVerifiable
<1>1. CASE ServeSigned
  <2>1. PICK m \in file, key \in Keys :
          /\ Canonical(Parsed(m))
          /\ served' = {[manifest |-> Sign(Parsed(m), key), seed |-> key]}
    BY <1>1 DEF ServeSigned
  <2>2. Shaped(Parsed(m))
    BY <2>1, ParsedKeeps DEF Authentic, Known
  <2>3. /\ Verify(Sign(Parsed(m), key), Absent) = "valid-self"
        /\ key # Absent => Verify(Sign(Parsed(m), key), key) = "valid-pinned"
    BY <2>1, <2>2, SignedVerifies
  <2>. QED BY <2>1, <2>3
<1>2. CASE ServePlain
  BY <1>2 DEF ServePlain
<1>3. CASE StopServing
  BY <1>3 DEF StopServing
<1>4. CASE InitCommand \/ EditFile \/ Download \/ PinKey \/ UNCHANGED vars
  BY <1>4 DEF InitCommand, EditFile, Download, PinKey, vars
<1>. QED BY <1>1, <1>2, <1>3, <1>4 DEF Next

LEMMA FittingStep == IInv /\ [Next]_vars => Fitting'
<1>. SUFFICES ASSUME IInv, [Next]_vars PROVE Fitting'
  OBVIOUS
<1>. USE DEF IInv, Fitting, Known
<1>1. CASE InitCommand
  <2>1. PICK m : file' = {m} /\ Fit(m)
    BY <1>1, InitManifestShaped DEF InitCommand
  <2>. QED BY <1>1, <2>1 DEF InitCommand
<1>2. CASE EditFile
  <2>1. PICK m \in file : \E e \in Edited(m) : file' = {e}
    BY <1>2 DEF EditFile
  <2>2. PICK e \in Edited(m) : file' = {e}
    BY <2>1
  <2>3. Fit(e)
    BY <2>1, EditContents DEF Fit, Authentic
  <2>. QED BY <1>2, <2>2, <2>3 DEF EditFile
<1>3. CASE ServeSigned
  <2>1. PICK m \in file, key \in Keys :
          served' = {[manifest |-> Sign(Parsed(m), key), seed |-> key]} /\ file' = file
    BY <1>3 DEF ServeSigned
  <2>2. Shaped(m)
    BY <2>1 DEF Authentic
  <2>3. Fit(Parsed(m)) /\ Shaped(Parsed(m))
    BY <2>1, <2>2, ParsedKeeps DEF Fit
  <2>4. /\ Sign(Parsed(m), key).consumes = Parsed(m).consumes
        /\ Sign(Parsed(m), key).capabilities = Parsed(m).capabilities
    BY <2>3, SignedShape
  <2>5. Fit(Sign(Parsed(m), key))
    BY <2>3, <2>4 DEF Fit
  <2>. QED BY <2>1, <2>5
<1>4. CASE ServePlain
  <2>1. PICK m \in file : served' = {[manifest |-> Parsed(m), seed |-> Absent]} /\ file' = file
    BY <1>4 DEF ServePlain
  <2>2. Fit(Parsed(m))
    BY <2>1, ParsedKeeps DEF Fit, Authentic
  <2>. QED BY <2>1, <2>2
<1>5. CASE StopServing \/ Download \/ PinKey \/ UNCHANGED vars
  BY <1>5 DEF StopServing, Download, PinKey, vars
<1>. QED BY <1>1, <1>2, <1>3, <1>4, <1>5 DEF Next

LEMMA ServedStep == IInv /\ [Next]_vars => ServedWhole'
<1>. SUFFICES ASSUME IInv, [Next]_vars PROVE ServedWhole'
  OBVIOUS
<1>. USE DEF IInv, ServedWhole
<1>1. ASSUME NEW m \in file, Admitted(Parsed(m))
      PROVE  Shaped(Parsed(m)) /\ Whole(Parsed(m))
  <2>1. Shaped(m) /\ Fit(m)
    BY DEF Authentic, Fitting, Known
  <2>2. Fit(Parsed(m)) /\ Shaped(Parsed(m))
    BY <2>1, ParsedKeeps DEF Fit
  <2>. QED BY <1>1, <2>2, AdmittedIsWhole DEF Fit, Whole
<1>2. CASE ServeSigned
  <2>1. PICK m \in file, key \in Keys :
          Admitted(Parsed(m)) /\ served' = {[manifest |-> Sign(Parsed(m), key), seed |-> key]}
    BY <1>2 DEF ServeSigned
  <2>2. Whole(Parsed(m)) /\ Shaped(Parsed(m))
    BY <1>1, <2>1
  <2>3. /\ Sign(Parsed(m), key).consumes = Parsed(m).consumes
        /\ Sign(Parsed(m), key).capabilities = Parsed(m).capabilities
    BY <2>2, SignedShape
  <2>4. Whole(Sign(Parsed(m), key))
    BY <2>2, <2>3 DEF Whole
  <2>. QED BY <2>1, <2>4
<1>3. CASE ServePlain
  <2>1. PICK m \in file : Admitted(Parsed(m)) /\ served' = {[manifest |-> Parsed(m), seed |-> Absent]}
    BY <1>3 DEF ServePlain
  <2>. QED BY <1>1, <2>1
<1>4. CASE StopServing
  BY <1>4 DEF StopServing
<1>5. CASE InitCommand \/ EditFile \/ Download \/ PinKey \/ UNCHANGED vars
  BY <1>5 DEF InitCommand, EditFile, Download, PinKey, vars
<1>. QED BY <1>2, <1>3, <1>4, <1>5 DEF Next

THEOREM Invariance == Spec => []IInv
<1>1. IInv /\ [Next]_vars => IInv'
  BY AuthenticStep, FittingStep, VerifiableStep, ServedStep DEF IInv
<1>. QED BY <1>1, Initially, PTL DEF Spec

\* groove validate --verify lets a manifest of a pinned service pass only if it
\* is, to the letter, one that the holder of the pinned key signed.
THEOREM PinnedAuthentic == Spec => []PinnedIsAuthentic
<1>1. IInv => PinnedIsAuthentic
  <2>. SUFFICES ASSUME IInv, NEW m \in Known, PinFor(m, pins) # Absent,
                       ExitStatus(ValidateFindings({m}, TRUE, pins), FALSE) = 0
                PROVE  [key |-> pins[m.id], over |-> Unsigned(m)] \in signed
    BY DEF PinnedIsAuthentic
  <2>1. PICK s \in m.signature : s.by = pins[m.id] /\ s.over = Unsigned(m)
    BY PassingIsSigned
  <2>2. [key |-> s.by, over |-> s.over] \in signed
    BY DEF IInv, Authentic, Made
  <2>. QED BY <2>1, <2>2
<1>. QED BY <1>1, Invariance, PTL

\* What a provider signs at start verifies, whatever signature was there before.
THEOREM SignedVerifiable == Spec => []SignedIsVerifiable
<1>1. IInv => SignedIsVerifiable
  BY DEF IInv
<1>. QED BY <1>1, Invariance, PTL

\* Of what is in a manifest that is served, its readers skip nothing.
THEOREM ServedIsRead == Spec => []NothingIsSkipped
<1>1. IInv => NothingIsSkipped
  <2>. SUFFICES ASSUME IInv, NEW s \in served
                PROVE  /\ Offers(s.manifest) = {c.type : c \in s.manifest.capabilities.of}
                       /\ Consumes(s.manifest) = s.manifest.consumes.of
                       /\ s.manifest.capabilities.shape = "right"
    BY DEF NothingIsSkipped
  <2>1. Whole(s.manifest) /\ Fit(s.manifest)
    BY DEF IInv, ServedWhole, Fitting, Known
  <2>2. Offers(s.manifest) = {c.type : c \in s.manifest.capabilities.of}
    BY <2>1 DEF Offers, Whole
  <2>3. Consumes(s.manifest) = s.manifest.consumes.of
    BY <2>1 DEF Consumes, Whole, Fit
  <2>. QED BY <2>1, <2>2, <2>3 DEF Whole
<1>. QED BY <1>1, Invariance, PTL

-----------------------------------------------------------------------------
\* What groove init writes.

\* Nothing in it is missing, and what was not taken over from the repository is
\* of the right shape.
Sound(m) ==
  /\ m.text = "ijson" /\ m.version = "1" /\ m.id # Absent /\ m.mode # "wrong"
  /\ m.capabilities.shape = "right" /\ \A c \in m.capabilities.of : c.type # Absent
  /\ m.consumes.shape = "right" /\ "not a string" \notin m.consumes.of
  /\ ~m.placeholders

InitIsSound == origin = "init" => \A m \in file : Sound(m)

LEMMA InitManifestSound ==
  ASSUME NEW repo \in Repos, NEW override, NEW port, NEW flag
  PROVE  Sound(InitManifest(repo, override, port, flag))
<1>1. "not a string" \notin SuggestedConsumes(repo)
  BY DEF SuggestedConsumes
<1>2. \A t \in SuggestedTypes(repo) : t \in {"static-analysis", "custom"}
  BY RepoAssumption DEF SuggestedTypes
<1>3. \A c \in InitCapabilities(repo, flag) : c.type # Absent
  <2>1. \A t \in SuggestedTypes(repo) : [key |-> t, type |-> t, protocol |-> "http"].type # Absent
    BY <1>2 DEF Absent
  <2>2. \A p : [key |-> "primary", type |-> "custom", protocol |-> p].type # Absent
    BY DEF Absent
  <2>. QED BY <2>1, <2>2 DEF InitCapabilities
<1>4. DetectedId(repo) # Absent
  BY RepoAssumption DEF DetectedId, Absent
<1>. QED BY <1>1, <1>3, <1>4 DEF InitManifest, Sound, Holding, Absent

\* The one check it can still fail gravely is the registry's on its port.
LEMMA SoundIsServable ==
  ASSUME NEW m, Sound(m), m.id \notin {"Not An Id", "panic-attacker"},
         m.service_version = "right", ~m.oversized
  PROVE  Admitted(m) /\ ExitStatus(Findings(m), FALSE) = 0
<1> DEFINE Harmless(f) == f.severity # "critical" /\ (f.severity = "high" => f.check = "DOG-04")
<1>1. \A check : Harmless(Finding(check, "medium")) /\ Harmless(Finding(check, "low"))
  BY DEF Finding
<1>2. Harmless(Finding("DOG-04", "high"))
  BY DEF Finding
<1> HIDE DEF Harmless
<1>3. \A f \in VersionFindings(m) \cup IdFindings(m) \cup ScalarFindings(m) : Harmless(f)
  BY DEF VersionFindings, IdFindings, ScalarFindings, When, Sound, Absent
<1>4. \A c \in m.capabilities.of : \A f \in OneCapability(c) : Harmless(f)
  BY <1>1 DEF OneCapability, When, Sound
<1>5. \A f \in CapabilityFindings(m) : Harmless(f)
  BY <1>1, <1>4 DEF CapabilityFindings, When, Sound, Absent
<1>6. \A f \in ConsumesFindings(m) : Harmless(f)
  BY <1>1 DEF ConsumesFindings, When, Sound
<1>7. \A f \in PortFindings(m) : Harmless(f)
  BY <1>2 DEF PortFindings, When
<1>8. \A f \in When(m.placeholders, "DOG-06", "critical") : Harmless(f)
  BY DEF When, Sound
<1>9. \A f \in Findings(m) : Harmless(f)
  BY <1>3, <1>5, <1>6, <1>7, <1>8 DEF Findings, Sound
<1>10. Admitted(m)
  BY <1>9 DEF Harmless, Admitted, Grave, Sound
<1>11. ExitStatus(Findings(m), FALSE) = 0
  BY <1>9 DEF Harmless, ExitStatus
<1>. QED BY <1>10, <1>11

LEMMA InitSoundStep == InitIsSound /\ [Next]_vars => InitIsSound'
<1>. SUFFICES ASSUME InitIsSound, [Next]_vars PROVE InitIsSound'
  OBVIOUS
<1>. USE DEF InitIsSound
<1>1. CASE InitCommand
  <2>1. PICK m : file' = {m} /\ Sound(m)
    BY <1>1, InitManifestSound DEF InitCommand
  <2>. QED BY <2>1
<1>2. CASE EditFile \/ Download
  BY <1>2 DEF EditFile, Download
<1>3. CASE ServeSigned \/ ServePlain \/ StopServing \/ PinKey \/ UNCHANGED vars
  BY <1>3 DEF ServeSigned, ServePlain, StopServing, PinKey, vars
<1>. QED BY <1>1, <1>2, <1>3 DEF Next

\* Whatever else the repository holds and whatever the options, what groove init
\* writes under an id and a version that are well formed and not over-long is
\* admitted by a provider and passes groove validate, as long as nobody edits it.
THEOREM InitServable == Spec => []InitIsServable
<1>1. Init => InitIsSound
  BY DEF Init, InitIsSound
<1>2. InitIsSound => InitIsServable
  BY SoundIsServable DEF InitIsSound, InitIsServable
<1>. QED BY <1>1, <1>2, InitSoundStep, PTL DEF Spec

=============================================================================
