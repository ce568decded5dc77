------------------------ MODULE GrooveSessionsProofs ------------------------
(***************************************************************************)
(* Theorems about GrooveSessions, for every value of its constants.        *)
(***************************************************************************)
EXTENDS GrooveSessions, SequenceTheorems, FiniteSetTheorems, TLAPS

----------------------------------------------------------------------------
\* The audit trail's operators.

\* A sequence of bodies becomes a sequence of as many records, each carrying
\* its place in the chain.
LEMMA ChainProperties ==
  ASSUME NEW bodies \in Seq(Body), NEW prev \in Nat
  PROVE  /\ Chain(bodies, prev) \in Seq(Record)
         /\ Len(Chain(bodies, prev)) = Len(bodies)
         /\ \A i \in 1..Len(bodies) :
              /\ Chain(bodies, prev)[i].body = bodies[i]
              /\ Chain(bodies, prev)[i].prev_hash = prev + i - 1
              /\ Chain(bodies, prev)[i].hash = prev + i
<1> DEFINE n == Len(bodies)
           c == Chain(bodies, prev)
<1>1. n \in Nat /\ \A i \in 1..n : bodies[i] \in Body
  BY LenProperties, ElementOfSeq
<1>2. c = [i \in 1..n |-> [body |-> bodies[i], prev_hash |-> prev + i - 1, hash |-> prev + i]]
  BY DEF Chain
<1>3. \A i \in 1..n : c[i] \in Record
  BY <1>1, <1>2 DEF Record
<1>4. c \in [1..n -> Record]
  BY <1>2, <1>3
<1>5. c \in Seq(Record)
  BY <1>1, <1>4, SeqDef
<1>6. Len(c) = n
  BY <1>1, <1>2
<1> QED
  BY <1>2, <1>5, <1>6

\* The window's size never exceeds what there is to keep, nor the limit.
LEMMA WindowSizeProperties ==
  ASSUME NEW n \in Nat
  PROVE  /\ WindowSize(n) \in 0..n
         /\ WindowSize(n) <= MAX_ATTESTATIONS
         /\ \A k \in Nat : /\ WindowSize(n + k) <= WindowSize(n) + k
                          /\ WindowSize(WindowSize(n) + k) = WindowSize(n + k)
BY SessionsAssumption DEF WindowSize

\* Retain keeps the newest records, no more than MAX_ATTESTATIONS of them.
LEMMA RetainProperties ==
  ASSUME NEW S, NEW s \in Seq(S)
  PROVE  /\ Retain(s) \in Seq(S)
         /\ Len(Retain(s)) = WindowSize(Len(s))
         /\ \A i \in 1..WindowSize(Len(s)) :
              Retain(s)[i] = s[Len(s) - WindowSize(Len(s)) + i]
<1>1. PICK n : n = Len(s)
  OBVIOUS
<1>2. n \in Nat
  BY <1>1, LenProperties
<1>3. WindowSize(n) \in 0..n
  BY <1>2, WindowSizeProperties
<1>4. PICK first : first = n - WindowSize(n) + 1
  OBVIOUS
<1>5. /\ first \in 1..(n + 1)
      /\ n - first + 1 = WindowSize(n)
      /\ \A i \in 1..WindowSize(n) : first + i - 1 = n - WindowSize(n) + i
  BY <1>2, <1>3, <1>4
<1>6. \A i \in first..n : s[i] \in S
  BY <1>1, <1>2, <1>5, ElementOfSeq
<1>7. /\ SubSeq(s, first, n) \in Seq(S)
      /\ Len(SubSeq(s, first, n)) = IF first <= n THEN n - first + 1 ELSE 0
      /\ \A i \in 1..(n - first + 1) : SubSeq(s, first, n)[i] = s[first + i - 1]
  BY <1>2, <1>5, <1>6, SubSeqProperties
<1>8. Retain(s) = SubSeq(s, first, n)
  BY <1>1, <1>4 DEF Retain
<1> QED
  BY <1>1, <1>2, <1>3, <1>5, <1>7, <1>8

\* Retaining after every append or once at the end leaves the same window.
LEMMA RetainAppend ==
  ASSUME NEW S, NEW s \in Seq(S), NEW t \in Seq(S)
  PROVE  Retain(Retain(s) \o t) = Retain(s \o t)
<1>1. PICK a, b : a = Len(s) /\ b = Len(t)
  OBVIOUS
<1>2. a \in Nat /\ b \in Nat
  BY <1>1, LenProperties
<1>3. PICK m, n : m = WindowSize(a) /\ n = WindowSize(a + b)
  OBVIOUS
<1>4. m \in 0..a /\ n \in 0..(a + b) /\ n <= m + b /\ WindowSize(m + b) = n
  <2>1. m \in 0..a /\ n <= m + b /\ WindowSize(m + b) = n
    BY <1>2, <1>3, WindowSizeProperties
  <2>2. a + b \in Nat
    BY <1>2
  <2>3. n \in 0..(a + b)
    BY <1>3, <2>2, WindowSizeProperties
  <2> QED BY <2>1, <2>3
<1>5. PICK w : w = Retain(s)
  OBVIOUS
<1>6. w \in Seq(S) /\ Len(w) = m /\ \A i \in 1..m : w[i] = s[a - m + i]
  BY <1>1, <1>3, <1>5, RetainProperties
<1>7. /\ s \o t \in Seq(S)
      /\ Len(s \o t) = a + b
      /\ \A i \in 1..(a + b) : (s \o t)[i] = IF i <= a THEN s[i] ELSE t[i - a]
  BY <1>1, ConcatProperties
<1>8. /\ w \o t \in Seq(S)
      /\ Len(w \o t) = m + b
      /\ \A i \in 1..(m + b) : (w \o t)[i] = IF i <= m THEN w[i] ELSE t[i - m]
  <2>1. Len(w) = m /\ Len(t) = b
    BY <1>1, <1>6
  <2>2. /\ w \o t \in Seq(S)
        /\ Len(w \o t) = Len(w) + Len(t)
        /\ \A i \in 1..(Len(w) + Len(t)) : (w \o t)[i] = IF i <= Len(w) THEN w[i] ELSE t[i - Len(w)]
    BY <1>6, ConcatProperties, Zenon
  <2> QED BY <2>1, <2>2, Zenon
<1>9. PICK u, v : u = s \o t /\ v = w \o t
  OBVIOUS
<1>10. PICK c, d : c = Len(u) /\ d = Len(v)
  OBVIOUS
<1>11. /\ u \in Seq(S) /\ c = a + b /\ WindowSize(c) = n
       /\ v \in Seq(S) /\ d = m + b /\ WindowSize(d) = n
  BY <1>3, <1>4, <1>7, <1>8, <1>9, <1>10
<1>12. /\ Retain(u) \in Seq(S) /\ Len(Retain(u)) = n
       /\ \A i \in 1..n : Retain(u)[i] = u[c - n + i]
  <2>1. u \in Seq(S)
    BY <1>11
  <2>2. /\ Retain(u) \in Seq(S) /\ Len(Retain(u)) = WindowSize(Len(u))
        /\ \A i \in 1..WindowSize(Len(u)) : Retain(u)[i] = u[Len(u) - WindowSize(Len(u)) + i]
    BY <2>1, RetainProperties
  <2>3. n = WindowSize(c)
    BY <1>11
  <2> QED BY <1>10, <2>2, <2>3
<1>13. /\ Retain(v) \in Seq(S) /\ Len(Retain(v)) = n
       /\ \A i \in 1..n : Retain(v)[i] = v[d - n + i]
  <2>1. v \in Seq(S)
    BY <1>11
  <2>2. /\ Retain(v) \in Seq(S) /\ Len(Retain(v)) = WindowSize(Len(v))
        /\ \A i \in 1..WindowSize(Len(v)) : Retain(v)[i] = v[Len(v) - WindowSize(Len(v)) + i]
    BY <2>1, RetainProperties
  <2>3. n = WindowSize(d)
    BY <1>11
  <2> QED BY <1>10, <2>2, <2>3
<1>14. ASSUME NEW i \in 1..n
       PROVE  v[d - n + i] = u[c - n + i]
  <2>1. d - n + i \in 1..d /\ c - n + i \in 1..c
    BY <1>2, <1>4, <1>11
  <2>2. CASE d - n + i <= m
    <3>1. d - n + i \in 1..m /\ c - n + i <= a /\ c - n + i = a - m + (d - n + i)
      BY <1>2, <1>4, <1>11, <2>2
    <3>2. v[d - n + i] = w[d - n + i]
      BY <1>8, <1>9, <1>11, <2>1, <2>2
    <3>3. u[c - n + i] = s[c - n + i]
      BY <1>7, <1>9, <1>11, <2>1, <3>1
    <3> QED BY <1>6, <3>1, <3>2, <3>3
  <2>3. CASE ~(d - n + i <= m)
    <3>1. ~(c - n + i <= a) /\ (d - n + i) - m = (c - n + i) - a
      BY <1>2, <1>4, <1>11, <2>3
    <3>2. v[d - n + i] = t[(d - n + i) - m]
      BY <1>8, <1>9, <1>11, <2>1, <2>3
    <3>3. u[c - n + i] = t[(c - n + i) - a]
      BY <1>7, <1>9, <1>11, <2>1, <3>1
    <3> QED BY <3>1, <3>2, <3>3
  <2> QED BY <2>2, <2>3
<1>15. Retain(v) = Retain(u)
  BY <1>12, <1>13, <1>14, SeqEqual
<1> QED
  BY <1>5, <1>9, <1>15

----------------------------------------------------------------------------
\* What every step does to the tables.

TablesOK ==
  /\ now \in Nat
  /\ minted \subseteq Handles
  /\ DOMAIN handles \subseteq minted
  /\ handles \in [DOMAIN handles -> HandleEntry]
  /\ Cardinality(DOMAIN handles) <= MAX_ACTIVE_HANDLES

TrailOK ==
  /\ stdout \in Seq(Record)
  /\ attestations \in Seq(Record)
  /\ Len(attestations) <= MAX_ATTESTATIONS
  /\ last_hash \in Nat

LEMMA TypeOKSplits == TypeOK <=> TablesOK /\ TrailOK
BY DEF TypeOK, TablesOK, TrailOK

\* Dropping sessions leaves well-typed tables within the capacity.
LEMMA KeptOK ==
  ASSUME TablesOK, NEW S \in SUBSET DOMAIN handles
  PROVE  /\ DOMAIN Kept(S) = S
         /\ Kept(S) \in [S -> HandleEntry]
         /\ IsFiniteSet(S)
         /\ Cardinality(S) <= MAX_ACTIVE_HANDLES
         /\ Cardinality(S) \in Nat
<1>1. IsFiniteSet(DOMAIN handles)
  BY SessionsAssumption, FS_Subset DEF TablesOK
<1>2. IsFiniteSet(S) /\ Cardinality(S) <= Cardinality(DOMAIN handles)
  BY <1>1, FS_Subset
<1>3. Cardinality(S) \in Nat /\ Cardinality(DOMAIN handles) \in Nat
  BY <1>1, <1>2, FS_CardinalityType
<1>4. Cardinality(S) <= MAX_ACTIVE_HANDLES
  BY <1>2, <1>3, SessionsAssumption DEF TablesOK
<1>5. DOMAIN Kept(S) = S /\ Kept(S) \in [S -> HandleEntry]
  BY DEF TablesOK, Kept
<1> QED
  BY <1>2, <1>3, <1>4, <1>5

LEMMA LiveIsSubset == \A t : Live(t) \in SUBSET DOMAIN handles
BY DEF Live

\* A sweep attests one body per due handle, in some order.
LEMMA ExpiryBodiesType ==
  ASSUME TablesOK, NEW order \in SweepOrders(now)
  PROVE  ExpiryBodies(order) \in Seq(Body)
<1> DEFINE n == Cardinality(DueHandles(now))
<1>1. n \in Nat
  <2>1. DueHandles(now) \in SUBSET DOMAIN handles
    BY DEF DueHandles
  <2> QED BY <2>1, KeptOK
<1>2. order \in [1..n -> DueHandles(now)]
  BY DEF SweepOrders
<1>3. \A i \in 1..n : order[i] \in DOMAIN handles
  BY <1>2 DEF DueHandles
<1>4. \A i \in 1..n : Attestation("lease-expired", handles[order[i]].consumer, order[i]) \in Body
  BY <1>3 DEF TablesOK, Attestation, Body, Events, HandleEntry
<1>5. ExpiryBodies(order) \in [1..n -> Body]
  BY <1>2, <1>4 DEF ExpiryBodies
<1> QED
  BY <1>1, <1>5, SeqDef

\* Whatever a handler attests after its sweep extends the trail by bodies.
LEMMA SweepAttestsBodies ==
  ASSUME TablesOK, NEW bodies \in Seq(Body), SweepThenAttest(bodies)
  PROVE  \E all \in Seq(Body) : AttestWith(all)
<1>1. PICK order \in SweepOrders(now) : AttestWith(ExpiryBodies(order) \o bodies)
  BY DEF SweepThenAttest
<1>2. ExpiryBodies(order) \o bodies \in Seq(Body)
  BY ExpiryBodiesType, ConcatProperties
<1> QED
  BY <1>1, <1>2

LEMMA AttestationType ==
  ASSUME NEW event \in Events, NEW c \in Consumers, NEW k \in Handles \cup {NoHandle}
  PROVE  <<Attestation(event, c, k)>> \in Seq(Body)
BY DEF Attestation, Body

\* A sweep on its own keeps the tables well typed.
LEMMA JustSweepTables ==
  ASSUME TablesOK, JustSweep, now' \in Nat
  PROVE  TablesOK' /\ \E all \in Seq(Body) : AttestWith(all)
<1>1. handles' = Kept(Live(now)) /\ minted' = minted /\ SweepThenAttest(<<>>)
  BY DEF JustSweep
<1>2. TablesOK'
  BY <1>1, LiveIsSubset, KeptOK DEF TablesOK
<1>3. <<>> \in Seq(Body)
  BY EmptySeq
<1> QED
  BY <1>1, <1>2, <1>3, SweepAttestsBodies

\* A granted connect adds one well-typed session for a token never minted.
LEMMA GrantTables ==
  ASSUME TablesOK, NEW c \in Consumers, NEW consumes, NEW request \in LeaseRequest,
         NEW h \in Handles, GrantConnect(c, consumes, request, h)
  PROVE  TablesOK' /\ \E all \in Seq(Body) : AttestWith(all)
<1> DEFINE L == Live(now)
           entry == [consumer |-> c, lease |-> LeaseFrom(request, now')]
<1>1. /\ ~AtCapacity(L) /\ LeaseAccepted(request)
      /\ now' \in now..(now + MaxPause)
      /\ h \in Handles \ minted
      /\ minted' = minted \cup {h}
      /\ handles' = [k \in L \cup {h} |-> IF k = h THEN entry ELSE handles[k]]
      /\ SweepThenAttest(<<Attestation("connected", c, NoHandle)>>)
  BY DEF GrantConnect, Mintable, ClockReadAgain
<1>2. now' \in Nat
  BY <1>1, SessionsAssumption DEF TablesOK
<1>3. entry \in HandleEntry
  <2>1. CASE request = NoLease
    BY <2>1 DEF LeaseFrom, HandleEntry
  <2>2. CASE request # NoLease
    <3>1. request \in [mode : LeaseModes, ttl : TTLs] /\ request.ttl \in MIN_TTL..MAX_TTL
      BY <1>1, <2>2 DEF LeaseRequest, LeaseAccepted
    <3>2. now' + request.ttl \in Nat
      BY <1>2, <3>1, SessionsAssumption
    <3>3. LeaseFrom(request, now') \in LeaseState
      BY <2>2, <3>1, <3>2 DEF LeaseFrom, LeaseState
    <3> QED BY <3>3 DEF HandleEntry
  <2> QED BY <2>1, <2>2
<1>4. L \in SUBSET DOMAIN handles
  BY LiveIsSubset
<1>5. IsFiniteSet(L) /\ Cardinality(L) \in Nat
  BY <1>4, KeptOK
<1>6. Cardinality(L \cup {h}) <= MAX_ACTIVE_HANDLES
  <2>1. Cardinality(L \cup {h}) <= Cardinality(L) + 1
    BY <1>5, FS_AddElement
  <2>2. Cardinality(L) < MAX_ACTIVE_HANDLES
    BY <1>1, <1>5, SessionsAssumption DEF AtCapacity
  <2>3. Cardinality(L \cup {h}) \in Nat
    BY <1>5, FS_AddElement
  <2> QED BY <1>5, <2>1, <2>2, <2>3, SessionsAssumption
<1> HIDE DEF L, entry
<1>7. DOMAIN handles' = L \cup {h} /\ handles' \in [L \cup {h} -> HandleEntry]
  BY <1>1, <1>3, <1>4 DEF TablesOK
<1>8. TablesOK'
  BY <1>1, <1>2, <1>4, <1>6, <1>7 DEF TablesOK
<1>9. <<Attestation("connected", c, NoHandle)>> \in Seq(Body)
  BY AttestationType DEF Events
<1> QED
  BY <1>1, <1>8, <1>9, SweepAttestsBodies

\* A refresh moves one expiry and nothing else.
LEMMA RefreshTables ==
  ASSUME TablesOK, NEW h \in Handles, RefreshHard(h)
  PROVE  TablesOK' /\ \E all \in Seq(Body) : AttestWith(all)
<1> DEFINE L == Live(now)
<1>1. /\ h \in L /\ handles[h].lease # NoLease
      /\ now' \in now..(now + MaxPause)
      /\ handles' = [Kept(L) EXCEPT ![h] = Refreshed(Kept(L)[h], now')]
      /\ SweepThenAttest(<<>>)
      /\ minted' = minted
  BY DEF RefreshHard, ClockReadAgain
<1>2. now' \in Nat
  BY <1>1, SessionsAssumption DEF TablesOK
<1>3. L \in SUBSET DOMAIN handles
  BY LiveIsSubset
<1>4. Kept(L)[h] = handles[h] /\ handles[h] \in HandleEntry
  BY <1>1, <1>3 DEF Kept, TablesOK
<1>5. handles[h].lease \in LeaseState
  BY <1>1, <1>4 DEF HandleEntry
<1>6. Refreshed(handles[h], now') \in HandleEntry
  <2>1. now' + handles[h].lease.ttl \in Nat
    BY <1>2, <1>5, SessionsAssumption DEF LeaseState
  <2> QED BY <1>4, <1>5, <2>1 DEF Refreshed, HandleEntry, LeaseState
<1>7. DOMAIN Kept(L) = L /\ Kept(L) \in [L -> HandleEntry] /\ Cardinality(L) <= MAX_ACTIVE_HANDLES
  BY <1>3, KeptOK
<1> HIDE DEF L
<1>8. DOMAIN handles' = L /\ handles' \in [L -> HandleEntry]
  BY <1>1, <1>4, <1>6, <1>7
<1>9. TablesOK'
  BY <1>1, <1>2, <1>3, <1>7, <1>8 DEF TablesOK
<1>10. <<>> \in Seq(Body)
  BY EmptySeq
<1> QED
  BY <1>1, <1>9, <1>10, SweepAttestsBodies

\* A disconnect removes one more session than its sweep.
LEMMA ReleaseTables ==
  ASSUME TablesOK, NEW h \in Handles, Release(h)
  PROVE  TablesOK' /\ \E all \in Seq(Body) : AttestWith(all)
<1>1. /\ h \in Live(now)
      /\ handles' = Kept(Live(now) \ {h})
      /\ SweepThenAttest(<<Attestation("disconnected", handles[h].consumer, NoHandle)>>)
      /\ now' = now /\ minted' = minted
  BY DEF Release
<1>2. h \in DOMAIN handles /\ Live(now) \ {h} \in SUBSET DOMAIN handles
  BY <1>1, LiveIsSubset
<1>3. TablesOK'
  BY <1>1, <1>2, KeptOK DEF TablesOK
<1>4. handles[h].consumer \in Consumers
  BY <1>2 DEF TablesOK, HandleEntry
<1>5. <<Attestation("disconnected", handles[h].consumer, NoHandle)>> \in Seq(Body)
  BY <1>4, AttestationType DEF Events
<1> QED
  BY <1>1, <1>3, <1>5, SweepAttestsBodies

\* Every step keeps the tables well typed, and either leaves the audit trail
\* alone or extends it with attest_with.
LEMMA StepTables ==
  ASSUME TablesOK, [Next]_vars
  PROVE  /\ TablesOK'
         /\ UNCHANGED audit \/ \E all \in Seq(Body) : AttestWith(all)
<1>1. CASE Tick
  BY <1>1 DEF Tick, TablesOK, audit
<1>2. CASE Sweep
  BY <1>2, JustSweepTables DEF Sweep, TablesOK
<1>3. ASSUME NEW c \in Consumers, NEW consumes \in SUBSET Capabilities,
             NEW request \in LeaseRequest, Connect(c, consumes, request)
      PROVE  TablesOK' /\ \E all \in Seq(Body) : AttestWith(all)
  <2>1. CASE \E status \in {503, 409, 400} : RefuseConnect(consumes, request, status)
    BY <2>1, JustSweepTables DEF RefuseConnect, TablesOK
  <2>2. CASE MintFails(consumes, request)
    BY <2>2, JustSweepTables DEF MintFails, TablesOK
  <2>3. CASE \E h \in Handles : GrantConnect(c, consumes, request, h)
    BY <2>3, GrantTables
  <2> QED BY <1>3, <2>1, <2>2, <2>3 DEF Connect
<1>4. ASSUME NEW h \in Handles, Heartbeat(h)
      PROVE  TablesOK' /\ \E all \in Seq(Body) : AttestWith(all)
  <2>1. CASE RefreshHard(h)
    BY <2>1, RefreshTables
  <2>2. CASE \E status \in {404, 204, 409} : HeartbeatOnly(h, status)
    BY <2>2, JustSweepTables DEF HeartbeatOnly, TablesOK
  <2> QED BY <1>4, <2>1, <2>2 DEF Heartbeat
<1>5. ASSUME NEW h \in Handles, Disconnect(h)
      PROVE  TablesOK' /\ \E all \in Seq(Body) : AttestWith(all)
  <2>1. CASE Release(h)
    BY <2>1, ReleaseTables
  <2>2. CASE Gone(h)
    BY <2>2, JustSweepTables DEF Gone, TablesOK
  <2> QED BY <1>5, <2>1, <2>2 DEF Disconnect
<1>6. CASE UNCHANGED vars
  BY <1>6 DEF vars, TablesOK
<1> QED
  BY <1>1, <1>2, <1>3, <1>4, <1>5, <1>6 DEF Next

----------------------------------------------------------------------------
\* The audit trail.

\* The strengthening of RetainedWindowVerifies: the nth record printed has hash
\* n and prev_hash n - 1, last_hash is the newest one, and the retained window
\* is what Retain makes of the whole history.
TrailChains ==
  /\ last_hash = Len(stdout)
  /\ \A i \in 1..Len(stdout) : stdout[i].prev_hash = i - 1 /\ stdout[i].hash = i
  /\ attestations = Retain(stdout)

LEMMA AttestTrail ==
  ASSUME TrailOK, TrailChains, NEW all \in Seq(Body), AttestWith(all)
  PROVE  TrailOK' /\ TrailChains'
<1>1. PICK records : records = Chain(all, last_hash)
  OBVIOUS
<1>2. PICK a, b : a = Len(stdout) /\ b = Len(all)
  OBVIOUS
<1>3. a \in Nat /\ b \in Nat /\ last_hash = a
  BY <1>2, LenProperties DEF TrailOK, TrailChains
<1>4. /\ records \in Seq(Record) /\ Len(records) = b
      /\ \A i \in 1..b : records[i].prev_hash = a + i - 1 /\ records[i].hash = a + i
  BY <1>1, <1>2, <1>3, ChainProperties
<1>5. /\ stdout' = stdout \o records
      /\ attestations' = Retain(attestations \o records)
      /\ last_hash' = a + b
  BY <1>1, <1>2, <1>3 DEF AttestWith
<1>6. /\ stdout' \in Seq(Record)
      /\ Len(stdout') = a + b
      /\ \A i \in 1..(a + b) : stdout'[i] = IF i <= a THEN stdout[i] ELSE records[i - a]
  <2>1. stdout \in Seq(Record) /\ records \in Seq(Record)
    BY <1>4 DEF TrailOK
  <2>2. /\ stdout \o records \in Seq(Record)
        /\ Len(stdout \o records) = Len(stdout) + Len(records)
        /\ \A i \in 1..(Len(stdout) + Len(records)) :
             (stdout \o records)[i] = IF i <= Len(stdout) THEN stdout[i]
                                                        ELSE records[i - Len(stdout)]
    BY <2>1, ConcatProperties
  <2>3. Len(records) = b /\ Len(stdout) = a
    BY <1>2, <1>4
  <2> QED BY <1>5, <2>2, <2>3
<1>7. attestations' = Retain(stdout')
  <2>1. attestations = Retain(stdout) /\ stdout \in Seq(Record)
    BY DEF TrailChains, TrailOK
  <2> QED BY <1>4, <1>5, <2>1, RetainAppend
<1>8. attestations' \in Seq(Record) /\ Len(attestations') <= MAX_ATTESTATIONS
  <2>1. Retain(stdout') \in Seq(Record) /\ Len(Retain(stdout')) = WindowSize(Len(stdout'))
    BY <1>6, RetainProperties
  <2>2. Len(stdout') \in Nat
    BY <1>3, <1>6
  <2>3. WindowSize(Len(stdout')) <= MAX_ATTESTATIONS
    BY <2>2, WindowSizeProperties
  <2> QED BY <1>7, <2>1, <2>3
<1>9. TrailOK'
  BY <1>3, <1>5, <1>6, <1>8 DEF TrailOK
<1>10. ASSUME NEW i \in 1..(a + b)
       PROVE  stdout'[i].prev_hash = i - 1 /\ stdout'[i].hash = i
  <2>1. CASE i <= a
    <3>1. i \in 1..Len(stdout) /\ stdout'[i] = stdout[i]
      BY <1>2, <1>3, <1>6, <2>1
    <3> QED BY <3>1 DEF TrailChains
  <2>2. CASE ~(i <= a)
    <3>1. i - a \in 1..b /\ a + (i - a) - 1 = i - 1 /\ a + (i - a) = i
      BY <1>3, <2>2
    <3>2. stdout'[i] = records[i - a]
      BY <1>6, <2>2
    <3> QED BY <1>4, <3>1, <3>2
  <2> QED BY <2>1, <2>2
<1>11. TrailChains'
  BY <1>5, <1>6, <1>7, <1>10 DEF TrailChains
<1> QED
  BY <1>9, <1>11

LEMMA InitTrail == Init => TrailOK /\ TrailChains
<1> SUFFICES ASSUME Init PROVE TrailOK /\ TrailChains
  OBVIOUS
<1>1. stdout = <<>> /\ attestations = <<>> /\ last_hash = 0
  BY DEF Init
<1>2. <<>> \in Seq(Record) /\ Len(<<>>) = 0
  BY EmptySeq
<1>3. WindowSize(0) = 0
  BY SessionsAssumption DEF WindowSize
<1>4. Retain(<<>>) \in Seq(Record) /\ Len(Retain(<<>>)) = 0
  BY <1>2, <1>3, RetainProperties
<1>5. Retain(<<>>) = <<>>
  BY <1>2, <1>4, SeqEqual
<1> QED
  BY <1>1, <1>2, <1>5, SessionsAssumption DEF TrailOK, TrailChains

\* The inductive invariant of the session table and its audit trail.
SessionInv == TablesOK /\ TrailOK /\ TrailChains

LEMMA InitSessionInv == Init => SessionInv
<1>1. ASSUME Init PROVE TablesOK
  <2>1. DOMAIN handles = {} /\ handles \in [{} -> HandleEntry] /\ now = 0 /\ minted = {}
    BY <1>1 DEF Init
  <2> QED BY <2>1, FS_EmptySet, SessionsAssumption DEF TablesOK
<1> QED
  BY <1>1, InitTrail DEF SessionInv

LEMMA NextSessionInv == SessionInv /\ [Next]_vars => SessionInv'
<1> SUFFICES ASSUME SessionInv, [Next]_vars PROVE SessionInv'
  OBVIOUS
<1>1. TablesOK /\ TrailOK /\ TrailChains
  BY DEF SessionInv
<1>2. TablesOK' /\ (UNCHANGED audit \/ \E all \in Seq(Body) : AttestWith(all))
  BY <1>1, StepTables
<1>3. CASE UNCHANGED audit
  BY <1>1, <1>2, <1>3 DEF SessionInv, audit, TrailOK, TrailChains
<1>4. CASE \E all \in Seq(Body) : AttestWith(all)
  BY <1>1, <1>2, <1>4, AttestTrail DEF SessionInv
<1> QED
  BY <1>2, <1>3, <1>4

LEMMA SessionInvariant == Spec => []SessionInv
BY InitSessionInv, NextSessionInv, PTL DEF Spec

\* The session table, the retained window and their bounds are well typed in
\* every reachable state: at most MAX_ACTIVE_HANDLES sessions, each for a minted
\* token, and at most MAX_ATTESTATIONS records.
THEOREM TypeCorrect == Spec => []TypeOK
<1>1. SessionInv => TypeOK
  BY TypeOKSplits DEF SessionInv
<1> QED
  BY <1>1, SessionInvariant, PTL

LEMMA TrailVerifies == TrailOK /\ TrailChains => RetainedWindowVerifies
<1> SUFFICES ASSUME TrailOK, TrailChains PROVE RetainedWindowVerifies
  OBVIOUS
<1>1. PICK a, n : a = Len(stdout) /\ n = WindowSize(a)
  OBVIOUS
<1>2. a \in Nat /\ n \in 0..a
  BY <1>1, LenProperties, WindowSizeProperties DEF TrailOK
<1>3. Len(attestations) = n /\ \A i \in 1..n : attestations[i] = stdout[a - n + i]
  <2>1. stdout \in Seq(Record) /\ attestations = Retain(stdout)
    BY DEF TrailOK, TrailChains
  <2>2. /\ Len(Retain(stdout)) = WindowSize(Len(stdout))
        /\ \A i \in 1..WindowSize(Len(stdout)) :
             Retain(stdout)[i] = stdout[Len(stdout) - WindowSize(Len(stdout)) + i]
    BY <2>1, RetainProperties
  <2> QED BY <1>1, <2>1, <2>2
<1>4. \A i \in 1..a : stdout[i].prev_hash = i - 1 /\ stdout[i].hash = i
  BY <1>1 DEF TrailChains
<1>5. ASSUME NEW i \in 2..n PROVE attestations[i].prev_hash = attestations[i - 1].hash
  <2>1. /\ i \in 1..n /\ i - 1 \in 1..n
        /\ a - n + i \in 1..a /\ a - n + (i - 1) \in 1..a
        /\ (a - n + i) - 1 = a - n + (i - 1)
    BY <1>2
  <2> QED BY <1>3, <1>4, <2>1
<1>6. ASSUME n > 0 PROVE attestations[n].hash = last_hash
  <2>1. n \in 1..n /\ a - n + n = a /\ a \in 1..a
    BY <1>2, <1>6
  <2> QED BY <1>1, <1>3, <1>4, <2>1 DEF TrailChains
<1> QED
  BY <1>1, <1>3, <1>5, <1>6 DEF RetainedWindowVerifies

\* GET /attestations verifies in every reachable state, however sweeps, refusals
\* and evictions interleave (CONF-L2-07, CONF-L2-12).
THEOREM AuditTrailVerifies == Spec => []RetainedWindowVerifies
<1>1. SessionInv => RetainedWindowVerifies
  BY TrailVerifies DEF SessionInv
<1> QED
  BY <1>1, SessionInvariant, PTL

----------------------------------------------------------------------------
\* Counting the records of a consumer.

\* A function that is one to one and onto carries its set's size over.
LEMMA SameSize ==
  ASSUME NEW S, NEW T, IsFiniteSet(S), NEW f \in [S -> T],
         \A i, j \in S : f[i] = f[j] => i = j, \A t \in T : \E i \in S : f[i] = t
  PROVE  IsFiniteSet(T) /\ Cardinality(T) = Cardinality(S)
<1>1. f \in Bijection(S, T)
  BY DEF Bijection, Injection, IsInjective, Surjection
<1>2. ExistsBijection(S, T)
  BY <1>1 DEF ExistsBijection
<1> QED
  BY <1>2, FS_Bijection

LEMMA PartOfInterval ==
  ASSUME NEW n \in Nat, NEW A \in SUBSET (1..n)
  PROVE  IsFiniteSet(A) /\ Cardinality(A) \in Nat
<1>1. IsFiniteSet(1..n)
  BY FS_Interval
<1>2. IsFiniteSet(A)
  BY <1>1, FS_Subset
<1> QED
  BY <1>2, FS_CardinalityType

\* The places of B, counted from behind the first m.
Behind(m, n, B) == {j \in (m + 1)..(m + n) : j - m \in B}

\* C has the places of A, and behind them those of B.
Joins(m, n, A, B, C) ==
  /\ m \in Nat /\ n \in Nat /\ A \in SUBSET (1..m) /\ B \in SUBSET (1..n)
  /\ C = A \cup Behind(m, n, B)

Sums(A, B, C) == Cardinality(C) = Cardinality(A) + Cardinality(B)

\* Counting records: those at the first m places and those behind them.
LEMMA CountBehind ==
  ASSUME NEW m, NEW n, NEW A, NEW B, NEW C, Joins(m, n, A, B, C)
  PROVE  Sums(A, B, C)
<1>0. m \in Nat /\ n \in Nat /\ A \in SUBSET (1..m) /\ B \in SUBSET (1..n)
  BY DEF Joins
<1> DEFINE T == {j \in (m + 1)..(m + n) : j - m \in B}
           f == [i \in B |-> i + m]
<1>1. IsFiniteSet(A) /\ IsFiniteSet(B)
  BY <1>0, PartOfInterval
<1>2. f \in [B -> T]
  BY <1>0
<1>3. \A i, j \in B : f[i] = f[j] => i = j
  BY <1>0
<1>4. \A t \in T : \E i \in B : f[i] = t
  <2> SUFFICES ASSUME NEW t \in T PROVE \E i \in B : f[i] = t
    OBVIOUS
  <2>1. t - m \in B /\ f[t - m] = t
    BY <1>0
  <2> QED BY <2>1
<1> HIDE DEF f, T
<1>6. IsFiniteSet(T) /\ Cardinality(T) = Cardinality(B)
  BY <1>1, <1>2, <1>3, <1>4, SameSize
<1>7. A \cap T = {}
  BY <1>0 DEF T
<1>8. Cardinality(A) \in Nat /\ Cardinality(B) \in Nat
  BY <1>0, PartOfInterval
<1>9. Cardinality({}) = 0
  BY FS_EmptySet
<1>11. PICK a, b, u : a = Cardinality(A) /\ b = Cardinality(T) /\ u = Cardinality(A \cup T)
  OBVIOUS
<1>12. IsFiniteSet(A \cup T) /\ u = a + b - Cardinality(A \cap T)
  BY <1>1, <1>6, <1>11, FS_Union
<1>13. u = a + b
  <2>1. u = a + b - 0
    BY <1>7, <1>9, <1>12
  <2> QED BY <1>6, <1>8, <1>11, <2>1
<1>10. IsFiniteSet(A \cup T) /\ Cardinality(A \cup T) = Cardinality(A) + Cardinality(B)
  BY <1>6, <1>11, <1>12, <1>13
<1>14. C = A \cup T
  BY Zenon DEF Joins, Behind, T
<1> QED
  BY <1>10, <1>14 DEF Sums

Matching(bodies, event, c) ==
  {i \in 1..Len(bodies) : bodies[i].event = event /\ bodies[i].consumer = c}

LEMMA MatchingFinite ==
  ASSUME NEW bodies \in Seq(Body), NEW event, NEW c
  PROVE  IsFiniteSet(Matching(bodies, event, c)) /\ Cardinality(Matching(bodies, event, c)) \in Nat
<1>1. Len(bodies) \in Nat /\ Matching(bodies, event, c) \in SUBSET (1..Len(bodies))
  BY LenProperties DEF Matching
<1> QED
  BY <1>1, PartOfInterval

LEMMA MatchingConcat ==
  ASSUME NEW s \in Seq(Body), NEW t \in Seq(Body), NEW event, NEW c
  PROVE  Cardinality(Matching(s \o t, event, c))
           = Cardinality(Matching(s, event, c)) + Cardinality(Matching(t, event, c))
<1>1. PICK m, n : m = Len(s) /\ n = Len(t)
  OBVIOUS
<1>2. m \in Nat /\ n \in Nat
  BY <1>1, LenProperties
<1>3. Len(s \o t) = m + n /\ \A i \in 1..(m + n) : (s \o t)[i] = IF i <= m THEN s[i] ELSE t[i - m]
  BY <1>1, ConcatProperties
<1>4. Matching(s \o t, event, c)
        = Matching(s, event, c) \cup {j \in (m + 1)..(m + n) : j - m \in Matching(t, event, c)}
  BY <1>1, <1>2, <1>3 DEF Matching
<1>5. Matching(s, event, c) \in SUBSET (1..m) /\ Matching(t, event, c) \in SUBSET (1..n)
  BY <1>1 DEF Matching
<1> DEFINE A == Matching(s, event, c)
           B == Matching(t, event, c)
           C == Matching(s \o t, event, c)
<1>6. C = A \cup Behind(m, n, B)
  BY <1>4, Zenon DEF Behind
<1> HIDE DEF A, B, C
<1>7. C = A \cup Behind(m, n, B) /\ A \in SUBSET (1..m) /\ B \in SUBSET (1..n)
  BY <1>5, <1>6 DEF A, B
<1>8. Sums(A, B, C)
  <2>1. Joins(m, n, A, B, C)
    BY <1>2, <1>7 DEF Joins
  <2> QED BY <2>1, CountBehind, Zenon
<1> QED
  BY <1>8 DEF Sums, A, B, C

\* What is printed counts after what was.
LEMMA AttestedGrows ==
  ASSUME stdout \in Seq(Record), NEW records \in Seq(Record), stdout' = stdout \o records,
         NEW bodies \in Seq(Body), Len(bodies) = Len(records),
         \A i \in 1..Len(records) : records[i].body = bodies[i],
         NEW event, NEW c
  PROVE  /\ Cardinality(Attested(event, c)') = Cardinality(Attested(event, c)) + Cardinality(Matching(bodies, event, c))
         /\ Cardinality(Attested(event, c)) \in Nat
<1>1. PICK m, n : m = Len(stdout) /\ n = Len(records)
  OBVIOUS
<1>2. m \in Nat /\ n \in Nat
  BY <1>1, LenProperties
<1>3. Len(stdout') = m + n /\ \A i \in 1..(m + n) : stdout'[i] = IF i <= m THEN stdout[i] ELSE records[i - m]
  BY <1>1, ConcatProperties
<1>4. Attested(event, c)'
        = Attested(event, c) \cup {j \in (m + 1)..(m + n) : j - m \in Matching(bodies, event, c)}
  BY <1>1, <1>2, <1>3 DEF Matching, Attested
<1>5. Attested(event, c) \in SUBSET (1..m) /\ Matching(bodies, event, c) \in SUBSET (1..n)
  BY <1>1 DEF Matching, Attested
<1>6. Cardinality(Attested(event, c)) \in Nat
  BY <1>2, <1>5, PartOfInterval
<1> DEFINE A == Attested(event, c)
           B == Matching(bodies, event, c)
           C == Attested(event, c)'
<1>7. C = A \cup Behind(m, n, B)
  BY <1>4, Zenon DEF Behind
<1> HIDE DEF A, B, C
<1>8. C = A \cup Behind(m, n, B) /\ A \in SUBSET (1..m) /\ B \in SUBSET (1..n)
  BY <1>5, <1>7 DEF A, B
<1>9. Sums(A, B, C)
  <2>1. Joins(m, n, A, B, C)
    BY <1>2, <1>8 DEF Joins
  <2> QED BY <2>1, CountBehind, Zenon
<1> QED
  BY <1>6, <1>9 DEF Sums, A, B, C

HeldBy(c) == {h \in DOMAIN handles : handles[h].consumer = c}

\* A sweep attests one expiry for each overdue session of a consumer.
LEMMA ExpiryCount ==
  ASSUME TablesOK, NEW order \in SweepOrders(now), NEW c
  PROVE  /\ Cardinality(Matching(ExpiryBodies(order), "lease-expired", c))
              = Cardinality(HeldBy(c) \cap DueHandles(now))
         /\ \A event \in {"connected", "disconnected"} :
              Cardinality(Matching(ExpiryBodies(order), event, c)) = 0
<1> DEFINE D == DueHandles(now)
           n == Cardinality(D)
           M == Matching(ExpiryBodies(order), "lease-expired", c)
           H == HeldBy(c) \cap D
           f == [i \in M |-> order[i]]
<1>1. D \in SUBSET DOMAIN handles
  BY DEF DueHandles
<1>2. IsFiniteSet(D) /\ n \in Nat
  BY <1>1, KeptOK
<1>3. order \in [1..n -> D] /\ \A i, j \in 1..n : order[i] = order[j] => i = j
  BY DEF SweepOrders
<1>4. order \in Surjection(1..n, D)
  <2>1. order \in Injection(1..n, D)
    BY <1>3 DEF Injection, IsInjective
  <2>2. Cardinality(1..n) = n /\ IsFiniteSet(1..n)
    BY <1>2, FS_Interval
  <2> QED BY <1>2, <2>1, <2>2, FS_Injection
<1>5. /\ ExpiryBodies(order) = [i \in 1..n |-> Attestation("lease-expired", handles[order[i]].consumer, order[i])]
      /\ Len(ExpiryBodies(order)) = n
  BY <1>2, <1>3 DEF ExpiryBodies
<1>15. PICK bodies : bodies = ExpiryBodies(order)
  OBVIOUS
<1>18. /\ Len(bodies) = n
       /\ \A i \in 1..n : bodies[i] = Attestation("lease-expired", handles[order[i]].consumer, order[i])
  BY <1>5, <1>15
<1>16. Len(bodies) = n /\ \A i \in 1..n : bodies[i].event = "lease-expired" /\ bodies[i].consumer = handles[order[i]].consumer
  BY <1>18 DEF Attestation
<1>17. \A event : Matching(bodies, event, c)
         = {i \in 1..n : bodies[i].event = event /\ bodies[i].consumer = c}
  BY <1>16 DEF Matching
<1>6. M = {i \in 1..n : handles[order[i]].consumer = c}
  BY <1>15, <1>16, <1>17
<1>7. \A i \in M : order[i] \in H
  BY <1>1, <1>3, <1>6 DEF HeldBy
<1>8. \A h \in H : \E i \in M : order[i] = h
  BY <1>1, <1>4, <1>6 DEF HeldBy, Surjection
<1>9. M \in SUBSET (1..n)
  BY <1>6
<1>10. f \in [M -> H] /\ (\A i, j \in M : f[i] = f[j] => i = j) /\ (\A h \in H : \E i \in M : f[i] = h)
  BY <1>3, <1>7, <1>8, <1>9
<1> HIDE DEF f, M, H
<1>12. IsFiniteSet(M)
  BY <1>2, <1>9, PartOfInterval
<1>13. Cardinality(M) = Cardinality(H)
  BY <1>10, <1>12, SameSize
<1>14. \A event \in {"connected", "disconnected"} : Matching(ExpiryBodies(order), event, c) = {}
  BY <1>15, <1>16, <1>17
<1> QED
  BY <1>13, <1>14, FS_EmptySet DEF M, H

\* The records of a handler's critical section, by consumer and kind.
LEMMA SweepCounts ==
  ASSUME TablesOK, TrailOK, NEW bodies \in Seq(Body), SweepThenAttest(bodies), NEW c
  PROVE  /\ \A event \in {"connected", "disconnected"} :
              Cardinality(Attested(event, c)') = Cardinality(Attested(event, c)) + Cardinality(Matching(bodies, event, c))
         /\ Cardinality(Attested("lease-expired", c)') =
              Cardinality(Attested("lease-expired", c)) + Cardinality(HeldBy(c) \cap DueHandles(now))
                + Cardinality(Matching(bodies, "lease-expired", c))
<1>1. PICK order \in SweepOrders(now) : AttestWith(ExpiryBodies(order) \o bodies)
  BY DEF SweepThenAttest
<1>2. PICK expired : expired = ExpiryBodies(order)
  OBVIOUS
<1>3. expired \in Seq(Body) /\ expired \o bodies \in Seq(Body)
  BY <1>2, ExpiryBodiesType, ConcatProperties
<1>4. PICK records : records = Chain(expired \o bodies, last_hash)
  OBVIOUS
<1>5. /\ records \in Seq(Record) /\ Len(records) = Len(expired \o bodies)
      /\ \A i \in 1..Len(records) : records[i].body = (expired \o bodies)[i]
  <2>1. last_hash \in Nat
    BY DEF TrailOK
  <2>2. PICK all : all = expired \o bodies
    OBVIOUS
  <2>3. all \in Seq(Body) /\ records = Chain(all, last_hash)
    BY <1>3, <1>4, <2>2
  <2>4. /\ records \in Seq(Record) /\ Len(records) = Len(all)
        /\ \A i \in 1..Len(all) : records[i].body = all[i]
    BY <2>1, <2>3, ChainProperties
  <2> QED BY <2>2, <2>4
<1>6. stdout' = stdout \o records /\ stdout \in Seq(Record)
  BY <1>1, <1>2, <1>4 DEF AttestWith, TrailOK
<1>7. ASSUME NEW event
      PROVE  /\ Cardinality(Attested(event, c)') = Cardinality(Attested(event, c))
                  + (Cardinality(Matching(expired, event, c)) + Cardinality(Matching(bodies, event, c)))
             /\ Cardinality(Attested(event, c)) \in Nat
             /\ Cardinality(Matching(expired, event, c)) \in Nat
             /\ Cardinality(Matching(bodies, event, c)) \in Nat
  <2>1. /\ Cardinality(Attested(event, c)') = Cardinality(Attested(event, c)) + Cardinality(Matching(expired \o bodies, event, c))
        /\ Cardinality(Attested(event, c)) \in Nat
    BY <1>3, <1>5, <1>6, AttestedGrows
  <2>2. Cardinality(Matching(expired \o bodies, event, c))
          = Cardinality(Matching(expired, event, c)) + Cardinality(Matching(bodies, event, c))
    BY <1>3, MatchingConcat
  <2> QED BY <1>3, <2>1, <2>2, MatchingFinite
<1>8. /\ Cardinality(Matching(expired, "lease-expired", c)) = Cardinality(HeldBy(c) \cap DueHandles(now))
      /\ \A event \in {"connected", "disconnected"} : Cardinality(Matching(expired, event, c)) = 0
  BY <1>2, ExpiryCount
<1> QED
  BY <1>7, <1>8

\* What one record, or none, adds to the counts.
LEMMA MatchingOne ==
  ASSUME NEW e, NEW k, NEW x, NEW event, NEW c
  PROVE  /\ Cardinality(Matching(<<>>, event, c)) = 0
         /\ Cardinality(Matching(<<Attestation(e, k, x)>>, event, c))
              = IF e = event /\ k = c THEN 1 ELSE 0
<1>1. Matching(<<>>, event, c) = {}
  BY DEF Matching
<1>2. Matching(<<Attestation(e, k, x)>>, event, c) = IF e = event /\ k = c THEN {1} ELSE {}
  <2>1. Len(<<Attestation(e, k, x)>>) = 1 /\ <<Attestation(e, k, x)>>[1] = Attestation(e, k, x)
    OBVIOUS
  <2>2. Attestation(e, k, x).event = e /\ Attestation(e, k, x).consumer = k
    BY DEF Attestation
  <2>3. 1..1 = {1}
    OBVIOUS
  <2> QED BY <2>1, <2>2, <2>3 DEF Matching
<1>3. Cardinality({}) = 0 /\ Cardinality({1}) = 1
  BY FS_EmptySet, FS_Singleton
<1> QED
  BY <1>1, <1>2, <1>3

\* A consumer's sessions are those a sweep leaves and those it reaps.
LEMMA HeldSplits ==
  ASSUME TablesOK, NEW c
  PROVE  /\ IsFiniteSet(HeldBy(c) \cap Live(now))
         /\ Cardinality(HeldBy(c) \cap Live(now)) \in Nat
         /\ Cardinality(HeldBy(c) \cap DueHandles(now)) \in Nat
         /\ Cardinality(HeldBy(c))
              = Cardinality(HeldBy(c) \cap Live(now)) + Cardinality(HeldBy(c) \cap DueHandles(now))
<1>1. PICK H, L, D : /\ H = HeldBy(c) /\ L = HeldBy(c) \cap Live(now)
                     /\ D = HeldBy(c) \cap DueHandles(now)
  OBVIOUS
<1>2. H = L \cup D /\ L \cap D = {} /\ L \in SUBSET DOMAIN handles /\ D \in SUBSET DOMAIN handles
  BY <1>1 DEF HeldBy, Live, DueHandles
<1>3. IsFiniteSet(L) /\ IsFiniteSet(D) /\ Cardinality(L) \in Nat /\ Cardinality(D) \in Nat
  BY <1>2, KeptOK
<1>4. Cardinality(L \cup D) = Cardinality(L) + Cardinality(D) - Cardinality(L \cap D)
  BY <1>3, FS_Union
<1>5. Cardinality(L \cap D) = 0
  BY <1>2, FS_EmptySet
<1>6. Cardinality(L \cup D) = Cardinality(L) + Cardinality(D)
  BY <1>3, <1>4, <1>5
<1> QED
  BY <1>1, <1>2, <1>3, <1>6

\* AuditBalances, for one consumer.
Balanced(c) ==
  Cardinality(Attested("connected", c)) =
    Cardinality(Attested("disconnected", c)) + Cardinality(Attested("lease-expired", c))
      + Cardinality(HeldBy(c))

\* After a sweep, a consumer's books are out by what the rest of the critical
\* section attests, and its sessions are those that are live.
LEMMA SweptBooks ==
  ASSUME TablesOK, TrailOK, NEW bodies \in Seq(Body), SweepThenAttest(bodies), NEW c, Balanced(c),
         Cardinality(Matching(bodies, "lease-expired", c)) = 0,
         Cardinality(HeldBy(c)') + Cardinality(Matching(bodies, "disconnected", c))
           = Cardinality(HeldBy(c) \cap Live(now)) + Cardinality(Matching(bodies, "connected", c)),
         Cardinality(HeldBy(c)') \in Nat
  PROVE  Balanced(c)'
<1>1. PICK e1, e2, e3, h, l, d :
        /\ e1 = Cardinality(Attested("connected", c))
        /\ e2 = Cardinality(Attested("disconnected", c))
        /\ e3 = Cardinality(Attested("lease-expired", c))
        /\ h = Cardinality(HeldBy(c))
        /\ l = Cardinality(HeldBy(c) \cap Live(now))
        /\ d = Cardinality(HeldBy(c) \cap DueHandles(now))
  OBVIOUS
<1>2. l \in Nat /\ d \in Nat /\ h = l + d
  BY <1>1, HeldSplits
<1>3. e1 \in Nat /\ e2 \in Nat /\ e3 \in Nat
  <2>1. \A event : IsFiniteSet(Attested(event, c)) /\ Cardinality(Attested(event, c)) \in Nat
    <3>1. Len(stdout) \in Nat
      BY LenProperties DEF TrailOK
    <3>2. \A event : Attested(event, c) \in SUBSET (1..Len(stdout))
      BY DEF Attested
    <3> QED BY <3>1, <3>2, PartOfInterval
  <2> QED BY <1>1, <2>1
<1>4. e1 = e2 + e3 + h
  BY <1>1 DEF Balanced
<1>5. PICK f1, f2, f3, g :
        /\ f1 = Cardinality(Attested("connected", c)')
        /\ f2 = Cardinality(Attested("disconnected", c)')
        /\ f3 = Cardinality(Attested("lease-expired", c)')
        /\ g = Cardinality(HeldBy(c)')
  OBVIOUS
<1>6. /\ f1 = e1 + Cardinality(Matching(bodies, "connected", c))
      /\ f2 = e2 + Cardinality(Matching(bodies, "disconnected", c))
      /\ f3 = e3 + d + Cardinality(Matching(bodies, "lease-expired", c))
  BY <1>1, <1>5, SweepCounts
<1>7. PICK more, less : /\ more = Cardinality(Matching(bodies, "connected", c))
                        /\ less = Cardinality(Matching(bodies, "disconnected", c))
  OBVIOUS
<1>9. more \in Nat /\ less \in Nat /\ g \in Nat
  BY <1>5, <1>7, MatchingFinite
<1>10. f1 = e1 + more /\ f2 = e2 + less /\ f3 = e3 + d + 0 /\ g + less = l + more
  BY <1>1, <1>5, <1>6, <1>7
<1>8. f1 = f2 + f3 + g
  BY <1>2, <1>3, <1>4, <1>9, <1>10
<1> QED
  BY <1>5, <1>8 DEF Balanced

\* A sweep attests exactly the sessions it takes away.
LEMMA JustSweepBalances ==
  ASSUME TablesOK, TrailOK, JustSweep, NEW c, Balanced(c)
  PROVE  Balanced(c)'
<1>1. handles' = Kept(Live(now)) /\ SweepThenAttest(<<>>)
  BY DEF JustSweep
<1>2. HeldBy(c)' = HeldBy(c) \cap Live(now)
  BY <1>1, LiveIsSubset DEF HeldBy, Kept
<1>3. <<>> \in Seq(Body)
  BY EmptySeq
<1>4. \A event : Cardinality(Matching(<<>>, event, c)) = 0
  BY MatchingOne
<1>5. /\ Cardinality(HeldBy(c)') = Cardinality(HeldBy(c) \cap Live(now))
      /\ Cardinality(HeldBy(c)') \in Nat
  BY <1>2, HeldSplits
<1> QED
  BY <1>1, <1>3, <1>4, <1>5, SweptBooks

\* A granted connect attests the one session it adds.
LEMMA GrantBalances ==
  ASSUME TablesOK, TrailOK, NEW consumer \in Consumers, NEW consumes, NEW request, NEW h \in Handles,
         GrantConnect(consumer, consumes, request, h), NEW c, Balanced(c)
  PROVE  Balanced(c)'
<1>1. /\ h \notin minted
      /\ handles' = [k \in Live(now) \cup {h} |->
                      IF k = h THEN [consumer |-> consumer, lease |-> LeaseFrom(request, now')]
                               ELSE handles[k]]
      /\ SweepThenAttest(<<Attestation("connected", consumer, NoHandle)>>)
  BY DEF GrantConnect, Mintable
<1>2. PICK L, more : L = HeldBy(c) \cap Live(now) /\ more = IF consumer = c THEN 1 ELSE 0
  OBVIOUS
<1>3. h \notin Live(now)
  BY <1>1, LiveIsSubset DEF TablesOK
<1>4. HeldBy(c)' = IF consumer = c THEN L \cup {h} ELSE L
  BY <1>1, <1>2, <1>3, LiveIsSubset DEF HeldBy
<1>5. IsFiniteSet(L) /\ Cardinality(L) \in Nat /\ h \notin L
  BY <1>2, <1>3, HeldSplits
<1>6. Cardinality(L \cup {h}) = Cardinality(L) + 1
  BY <1>5, FS_AddElement
<1>7. /\ Cardinality(HeldBy(c)') + 0 = Cardinality(L) + more
      /\ Cardinality(HeldBy(c)') \in Nat
  <2>1. CASE consumer = c
    BY <1>2, <1>4, <1>5, <1>6, <2>1
  <2>2. CASE consumer # c
    BY <1>2, <1>4, <1>5, <2>2
  <2> QED BY <2>1, <2>2
<1>8. <<Attestation("connected", consumer, NoHandle)>> \in Seq(Body)
  BY AttestationType DEF Events
<1>9. /\ Cardinality(Matching(<<Attestation("connected", consumer, NoHandle)>>, "connected", c)) = more
      /\ Cardinality(Matching(<<Attestation("connected", consumer, NoHandle)>>, "disconnected", c)) = 0
      /\ Cardinality(Matching(<<Attestation("connected", consumer, NoHandle)>>, "lease-expired", c)) = 0
  BY <1>2, MatchingOne
<1> QED
  BY <1>1, <1>2, <1>7, <1>8, <1>9, SweptBooks

\* A refresh keeps every live session with the consumer that holds it.
LEMMA RefreshBalances ==
  ASSUME TablesOK, TrailOK, NEW h \in Handles, RefreshHard(h), NEW c, Balanced(c)
  PROVE  Balanced(c)'
<1>1. /\ h \in Live(now)
      /\ handles' = [Kept(Live(now)) EXCEPT ![h] = Refreshed(Kept(Live(now))[h], now')]
      /\ SweepThenAttest(<<>>)
  BY DEF RefreshHard
<1>2. DOMAIN handles' = Live(now)
  BY <1>1 DEF Kept
<1>3. \A k \in Live(now) : handles'[k].consumer = handles[k].consumer
  <2>1. handles[h] \in HandleEntry
    BY <1>1, LiveIsSubset DEF TablesOK
  <2>2. Refreshed(handles[h], now').consumer = handles[h].consumer
    BY <2>1 DEF Refreshed, HandleEntry
  <2>3. Kept(Live(now))[h] = handles[h]
    BY <1>1 DEF Kept
  <2>4. handles'[h].consumer = handles[h].consumer
    BY <1>1, <2>2, <2>3 DEF Kept
  <2>5. \A k \in Live(now) \ {h} : handles'[k] = handles[k]
    BY <1>1 DEF Kept
  <2> QED BY <2>4, <2>5
<1>4. HeldBy(c)' = HeldBy(c) \cap Live(now)
  BY <1>2, <1>3, LiveIsSubset DEF HeldBy
<1>5. <<>> \in Seq(Body)
  BY EmptySeq
<1>6. \A event : Cardinality(Matching(<<>>, event, c)) = 0
  BY MatchingOne
<1>7. /\ Cardinality(HeldBy(c)') = Cardinality(HeldBy(c) \cap Live(now))
      /\ Cardinality(HeldBy(c)') \in Nat
  BY <1>4, HeldSplits
<1> QED
  BY <1>1, <1>5, <1>6, <1>7, SweptBooks

\* A disconnect attests the one session it takes away besides its sweep.
LEMMA ReleaseBalances ==
  ASSUME TablesOK, TrailOK, NEW h \in Handles, Release(h), NEW c, Balanced(c)
  PROVE  Balanced(c)'
<1>1. PICK consumer : consumer = handles[h].consumer
  OBVIOUS
<1>2. /\ h \in Live(now)
      /\ handles' = Kept(Live(now) \ {h})
      /\ SweepThenAttest(<<Attestation("disconnected", consumer, NoHandle)>>)
  BY <1>1 DEF Release
<1>3. PICK L, less : L = HeldBy(c) \cap Live(now) /\ less = IF consumer = c THEN 1 ELSE 0
  OBVIOUS
<1>4. HeldBy(c)' = L \ {h}
  BY <1>2, <1>3, LiveIsSubset DEF HeldBy, Kept
<1>5. h \in L <=> consumer = c
  BY <1>1, <1>2, <1>3, LiveIsSubset DEF HeldBy
<1>6. IsFiniteSet(L) /\ Cardinality(L) \in Nat
  BY <1>3, HeldSplits
<1>7. Cardinality(L \ {h}) = IF h \in L THEN Cardinality(L) - 1 ELSE Cardinality(L)
  BY <1>6, FS_RemoveElement
<1>8. /\ Cardinality(HeldBy(c)') + less = Cardinality(L) + 0
      /\ Cardinality(HeldBy(c)') \in Nat
  <2>1. CASE consumer = c
    <3>1. Cardinality(L \ {h}) = Cardinality(L) - 1 /\ Cardinality(L \ {h}) \in Nat
      BY <1>5, <1>6, <1>7, <2>1, FS_RemoveElement, FS_CardinalityType
    <3> QED BY <1>3, <1>4, <1>6, <2>1, <3>1
  <2>2. CASE consumer # c
    BY <1>3, <1>4, <1>5, <1>6, <1>7, <2>2
  <2> QED BY <2>1, <2>2
<1>9. <<Attestation("disconnected", consumer, NoHandle)>> \in Seq(Body)
  <2>1. consumer \in Consumers
    BY <1>1, <1>2, LiveIsSubset DEF TablesOK, HandleEntry
  <2> QED BY <2>1, AttestationType DEF Events
<1>10. /\ Cardinality(Matching(<<Attestation("disconnected", consumer, NoHandle)>>, "connected", c)) = 0
       /\ Cardinality(Matching(<<Attestation("disconnected", consumer, NoHandle)>>, "disconnected", c)) = less
       /\ Cardinality(Matching(<<Attestation("disconnected", consumer, NoHandle)>>, "lease-expired", c)) = 0
  BY <1>3, MatchingOne
<1> QED
  BY <1>2, <1>3, <1>8, <1>9, <1>10, SweptBooks

LEMMA StepBalances ==
  ASSUME TablesOK, TrailOK, [Next]_vars, NEW c, Balanced(c)
  PROVE  Balanced(c)'
<1>1. CASE UNCHANGED <<handles, stdout>>
  BY <1>1 DEF Balanced, HeldBy, Attested
<1>2. CASE JustSweep
  BY <1>2, JustSweepBalances
<1>3. CASE \E consumer \in Consumers, consumes \in SUBSET Capabilities, request \in LeaseRequest, h \in Handles :
             GrantConnect(consumer, consumes, request, h)
  BY <1>3, GrantBalances
<1>4. CASE \E h \in Handles : RefreshHard(h)
  BY <1>4, RefreshBalances
<1>5. CASE \E h \in Handles : Release(h)
  BY <1>5, ReleaseBalances
<1>6. ASSUME NEW consumer \in Consumers, NEW consumes \in SUBSET Capabilities,
             NEW request \in LeaseRequest, Connect(consumer, consumes, request)
      PROVE  JustSweep \/ \E h \in Handles : GrantConnect(consumer, consumes, request, h)
  BY <1>6 DEF Connect, RefuseConnect, MintFails
<1>7. ASSUME NEW h \in Handles, Heartbeat(h) \/ Disconnect(h)
      PROVE  JustSweep \/ RefreshHard(h) \/ Release(h)
  BY <1>7 DEF Heartbeat, HeartbeatOnly, Disconnect, Gone
<1>8. Tick \/ UNCHANGED vars => UNCHANGED <<handles, stdout>>
  BY DEF Tick, vars, audit
<1>9. Sweep => JustSweep
  BY DEF Sweep
<1> QED
  BY <1>1, <1>2, <1>3, <1>4, <1>5, <1>6, <1>7, <1>8, <1>9 DEF Next

LEMMA BalancedForEach == AuditBalances <=> \A c \in Consumers : Balanced(c)
BY DEF AuditBalances, Balanced, HeldBy

LEMMA InitBalances == Init => AuditBalances
<1> SUFFICES ASSUME Init, NEW c \in Consumers PROVE Balanced(c)
  BY BalancedForEach
<1>1. HeldBy(c) = {}
  BY DEF Init, HeldBy
<1>2. \A event : Attested(event, c) = {}
  <2>1. stdout = <<>> /\ 1..Len(<<>>) = {}
    BY DEF Init
  <2> QED BY <2>1 DEF Attested
<1>3. Cardinality({}) = 0
  BY FS_EmptySet
<1>4. 0 = 0 + 0 + 0
  OBVIOUS
<1> QED
  BY <1>1, <1>2, <1>3, <1>4 DEF Balanced

LEMMA NextBalances == SessionInv /\ AuditBalances /\ [Next]_vars => AuditBalances'
<1> SUFFICES ASSUME SessionInv, AuditBalances, [Next]_vars PROVE AuditBalances'
  OBVIOUS
<1>1. \A c \in Consumers : Balanced(c)'
  BY BalancedForEach, StepBalances DEF SessionInv
<1>2. AuditBalances' <=> \A c \in Consumers : Balanced(c)'
  BY DEF AuditBalances, Balanced, HeldBy
<1> QED
  BY <1>1, <1>2

\* In every reachable state the connects on a consumer's audit trail, less its
\* disconnects and its expiries, are the sessions it holds: sweep_leases and the
\* handler that called it record each session's end once (lib.rs attest_with).
\* AuditBalances is inductive given SessionInv.
THEOREM BooksBalance == Spec => []AuditBalances
BY InitBalances, NextBalances, SessionInvariant, PTL DEF Spec

=============================================================================
