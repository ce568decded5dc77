--------------------------- MODULE GrooveSessions ---------------------------
(***************************************************************************)
(* The sessions of the reference provider: the State behind its mutex      *)
(* (src/provider/src/lib.rs).  The guard never lives across an await, so a *)
(* handler's critical section is one step, but the clock is not held by    *)
(* the lock: a handler that reads it twice may see two instants.           *)
(*                                                                         *)
(* A handle stands for its bearer token and for the public connection_id   *)
(* derived from it.  mint_token draws 256 random bits: it never returns a  *)
(* token twice.  SHA-256 of a record that holds prev_hash is a hash that   *)
(* occurs nowhere else: the nth record hashes to n, and the genesis hash   *)
(* is 0.                                                                   *)
(***************************************************************************)
EXTENDS Integers, Sequences, FiniteSets

CONSTANTS
  Handles,            \* tokens mint_token can return
  Consumers,          \* service_id of the consumers
  Capabilities,       \* capability types a consumer may ask for
  Offers,             \* those the provider's manifest offers
  TTLs,               \* lease.ttl_ms values consumers ask for
  NoLease,            \* no lease member: a legacy session
  NoHandle,           \* a record that names no connection
  MIN_TTL, MAX_TTL,   \* bounds of an acceptable ttl
  MAX_ACTIVE_HANDLES, \* sessions at which connect answers 503
  MAX_ATTESTATIONS,   \* records the provider retains
  MaxPause,           \* bound: time between two clock reads of one handler
  LastRequest,        \* bound: no request arrives after this instant
  MaxTime             \* bound: the clock stops here

LeaseModes == {"soft", "hard"}
LeaseRequest == [mode : LeaseModes, ttl : TTLs] \cup {NoLease}
LeaseState == [mode : LeaseModes, ttl : MIN_TTL..MAX_TTL, expires_at : Nat]
HandleEntry == [consumer : Consumers, lease : LeaseState \cup {NoLease}]
Events == {"connected", "disconnected", "lease-expired"}
Body == [event : Events, consumer : Consumers, connection : Handles \cup {NoHandle}]
Record == [body : Body, prev_hash : Nat, hash : Nat]

ASSUME SessionsAssumption ==
  /\ IsFiniteSet(Handles) /\ NoHandle \notin Handles
  /\ Offers \subseteq Capabilities
  /\ TTLs \subseteq Nat
  /\ NoLease \notin [mode : LeaseModes, ttl : Nat]
  /\ NoLease \notin [mode : LeaseModes, ttl : Nat, expires_at : Nat]
  /\ MIN_TTL \in Nat \ {0} /\ MAX_TTL \in Nat
  /\ MAX_ACTIVE_HANDLES \in Nat
  /\ MAX_ATTESTATIONS \in Nat \ {0}
  /\ MaxPause \in Nat /\ LastRequest \in Nat /\ MaxTime \in Nat

VARIABLES
  now,           \* tokio's monotonic Instant::now()
  minted,        \* tokens handed out so far
  handles,       \* State.handles: the live sessions
  attestations,  \* State.attestations: the retained window
  last_hash,     \* State.last_hash
  stdout         \* every record printed as a JSON line (log_attestations)

audit == <<attestations, last_hash, stdout>>
vars == <<now, minted, handles, audit>>

----------------------------------------------------------------------------
\* Leases.

\* Mutants of Due: a hard lease reaped one window early, or never.
DueAfterTwoWindows(lease, t) ==
  /\ lease # NoLease
  /\ \/ lease.mode = "soft" /\ t >= lease.expires_at
     \/ lease.mode = "hard" /\ t >= lease.expires_at + lease.ttl

DueSoftOnly(lease, t) ==
  lease # NoLease /\ lease.mode = "soft" /\ t >= lease.expires_at

Due(lease, t) ==
  /\ lease # NoLease
  /\ \/ lease.mode = "soft" /\ t >= lease.expires_at
     \/ lease.mode = "hard" /\ t >= lease.expires_at + lease.ttl + lease.ttl

\* parse_lease refuses a lease whose ttl is out of bounds; a lease with no
\* usable mode or ttl is refused the same way and is not told apart here.
LeaseAccepted(request) ==
  request # NoLease => request.ttl \in MIN_TTL..MAX_TTL

LeaseFrom(request, t) ==
  IF request = NoLease
  THEN NoLease
  ELSE [mode |-> request.mode, ttl |-> request.ttl, expires_at |-> t + request.ttl]

Refreshed(entry, t) == [entry EXCEPT !.lease.expires_at = t + entry.lease.ttl]

----------------------------------------------------------------------------
\* The hash-chained audit trail.

\* Mutant of Chain: last_hash is not advanced between the records of one sweep.
ChainFromOneHash(bodies, prev) ==
  [i \in 1..Len(bodies) |-> [body |-> bodies[i], prev_hash |-> prev, hash |-> prev + i]]

\* The records attest_with builds for a sequence of bodies after hash prev.
Chain(bodies, prev) ==
  [i \in 1..Len(bodies) |->
     [body |-> bodies[i], prev_hash |-> prev + i - 1, hash |-> prev + i]]

\* pop_front once the window is full, push_back: the newest records remain.
WindowSize(n) == IF n < MAX_ATTESTATIONS THEN n ELSE MAX_ATTESTATIONS

Retain(s) == SubSeq(s, Len(s) - WindowSize(Len(s)) + 1, Len(s))

AttestWith(bodies) ==
  LET records == Chain(bodies, last_hash) IN
  /\ stdout' = stdout \o records
  /\ attestations' = Retain(attestations \o records)
  /\ last_hash' = last_hash + Len(bodies)

Attestation(event, consumer, connection) ==
  [event |-> event, consumer |-> consumer, connection |-> connection]

----------------------------------------------------------------------------
\* Sweeping.

DueHandles(t) == {h \in DOMAIN handles : Due(handles[h].lease, t)}

Live(t) == DOMAIN handles \ DueHandles(t)

\* HashMap iteration visits the due handles in any order.
SweepOrders(t) ==
  {order \in [1..Cardinality(DueHandles(t)) -> DueHandles(t)] :
     \A i, j \in DOMAIN order : order[i] = order[j] => i = j}

ExpiryBodies(order) ==
  [i \in DOMAIN order |-> Attestation("lease-expired", handles[order[i]].consumer, order[i])]

\* Mutant of SweepThenAttest: a handler reaps without attesting the expiries.
SweepSilently(bodies) == AttestWith(bodies)

\* sweep_leases(now), then the records a handler attests in the same critical
\* section.
SweepThenAttest(bodies) ==
  \E order \in SweepOrders(now) : AttestWith(ExpiryBodies(order) \o bodies)

Kept(S) == [h \in S |-> handles[h]]

\* sweep_leases(now) and nothing else.
JustSweep ==
  /\ SweepThenAttest(<<>>)
  /\ handles' = Kept(Live(now))
  /\ UNCHANGED minted

\* The sweeper task, every SWEEP_INTERVAL.
Sweep ==
  /\ JustSweep
  /\ UNCHANGED now

----------------------------------------------------------------------------
\* Requests.  A request that is refused before the lock is taken (malformed,
\* or an invalid manifest) changes nothing and is not a step.

\* The instant of a handler's second clock read.
ClockReadAgain == now' \in now..(now + MaxPause)

Unmet(consumes) == consumes \ Offers

\* Mutant of AtCapacity: one session too many.
OverCapacity(live) == Cardinality(live) > MAX_ACTIVE_HANDLES

AtCapacity(live) == Cardinality(live) >= MAX_ACTIVE_HANDLES

\* connect answered 503, 409 or 400, in the order the handler tests them.
RefuseConnect(consumes, request, status) ==
  /\ now <= LastRequest
  /\ \/ status = 503 /\ AtCapacity(Live(now))
     \/ status = 409 /\ ~AtCapacity(Live(now)) /\ Unmet(consumes) # {}
     \/ status = 400 /\ ~AtCapacity(Live(now)) /\ Unmet(consumes) = {} /\ ~LeaseAccepted(request)
  /\ JustSweep
  /\ UNCHANGED now

\* getrandom fails, or the token collides with a live one: the handler returns
\* an error after its sweep and the connection closes without an answer.
MintFails(consumes, request) ==
  /\ now <= LastRequest
  /\ ~AtCapacity(Live(now)) /\ Unmet(consumes) = {} /\ LeaseAccepted(request)
  /\ JustSweep
  /\ UNCHANGED now

\* Mutant of Mintable: tokens are only kept apart from the live ones.
MintableUnlessLive == Handles \ DOMAIN handles

Mintable == Handles \ minted

\* connect answered 200 with handle h.
GrantConnect(consumer, consumes, request, h) ==
  /\ now <= LastRequest
  /\ ~AtCapacity(Live(now)) /\ Unmet(consumes) = {} /\ LeaseAccepted(request)
  /\ ClockReadAgain
  /\ h \in Mintable
  /\ minted' = minted \cup {h}
  /\ handles' = [k \in Live(now) \cup {h} |->
                   IF k = h THEN [consumer |-> consumer, lease |-> LeaseFrom(request, now')]
                            ELSE handles[k]]
  /\ SweepThenAttest(<<Attestation("connected", consumer, NoHandle)>>)

Connect(consumer, consumes, request) ==
  \/ \E status \in {503, 409, 400} : RefuseConnect(consumes, request, status)
  \/ MintFails(consumes, request)
  \/ \E h \in Handles : GrantConnect(consumer, consumes, request, h)

\* heartbeat?handle=h on a live hard lease: 204, and the lease starts again.
RefreshHard(h) ==
  /\ now <= LastRequest
  /\ h \in Live(now)
  /\ handles[h].lease # NoLease
  /\ handles[h].lease.mode = "hard"
  /\ ClockReadAgain
  /\ handles' = [Kept(Live(now)) EXCEPT ![h] = Refreshed(@, now')]
  /\ SweepThenAttest(<<>>)
  /\ UNCHANGED minted

\* Every other heartbeat?handle=h: 404 for a consumed or unknown handle, 204
\* for a legacy session, 409 for a soft lease.
HeartbeatOnly(h, status) ==
  /\ now <= LastRequest
  /\ \/ status = 404 /\ h \notin Live(now)
     \/ status = 204 /\ h \in Live(now) /\ handles[h].lease = NoLease
     \/ status = 409 /\ h \in Live(now) /\ handles[h].lease # NoLease
                     /\ handles[h].lease.mode = "soft"
  /\ JustSweep
  /\ UNCHANGED now

Heartbeat(h) ==
  \/ RefreshHard(h)
  \/ \E status \in {404, 204, 409} : HeartbeatOnly(h, status)

\* Mutant of Release: the disconnect is answered and not attested.
ReleaseUnrecorded(h) ==
  /\ now <= LastRequest
  /\ h \in Live(now)
  /\ handles' = Kept(Live(now) \ {h})
  /\ SweepThenAttest(<<>>)
  /\ UNCHANGED <<now, minted>>

\* disconnect answered 200: the handle is consumed.
Release(h) ==
  /\ now <= LastRequest
  /\ h \in Live(now)
  /\ handles' = Kept(Live(now) \ {h})
  /\ SweepThenAttest(<<Attestation("disconnected", handles[h].consumer, NoHandle)>>)
  /\ UNCHANGED <<now, minted>>

\* disconnect answered 410: unknown or already consumed.
Gone(h) ==
  /\ now <= LastRequest
  /\ h \notin Live(now)
  /\ JustSweep
  /\ UNCHANGED now

Disconnect(h) == Release(h) \/ Gone(h)

----------------------------------------------------------------------------

Tick ==
  /\ now < MaxTime
  /\ now' = now + 1
  /\ UNCHANGED <<minted, handles, audit>>

Init ==
  /\ now = 0
  /\ minted = {}
  /\ handles = [h \in {} |-> NoLease]
  /\ attestations = <<>>
  /\ last_hash = 0
  /\ stdout = <<>>

Next ==
  \/ Tick
  \/ Sweep
  \/ \E c \in Consumers, consumes \in SUBSET Capabilities, request \in LeaseRequest :
       Connect(c, consumes, request)
  \/ \E h \in Handles : Heartbeat(h) \/ Disconnect(h)

Spec == Init /\ [][Next]_vars

----------------------------------------------------------------------------
\* Properties.

\* The tables hold what their Rust types allow: sessions only for minted
\* tokens, no more than the capacity, and never more than MAX_ATTESTATIONS
\* records retained.
TypeOK ==
  /\ now \in Nat
  /\ minted \subseteq Handles
  /\ DOMAIN handles \subseteq minted
  /\ handles \in [DOMAIN handles -> HandleEntry]
  /\ Cardinality(DOMAIN handles) <= MAX_ACTIVE_HANDLES
  /\ stdout \in Seq(Record)
  /\ attestations \in Seq(Record)
  /\ Len(attestations) <= MAX_ATTESTATIONS
  /\ last_hash \in Nat

\* GET /attestations always verifies: the retained records hash-chain, the
\* newest one carries last_hash, and together they are the newest part of the
\* history on stdout, whatever a sweep, a refusal and an eviction did in
\* between (CONF-L2-07, CONF-L2-12).
RetainedWindowVerifies ==
  LET n == Len(attestations) IN
  /\ n = WindowSize(Len(stdout))
  /\ \A i \in 1..n : attestations[i] = stdout[Len(stdout) - n + i]
  /\ \A i \in 2..n : attestations[i].prev_hash = attestations[i - 1].hash
  /\ n > 0 => attestations[n].hash = last_hash

Attested(event, c) ==
  {i \in 1..Len(stdout) : stdout[i].body.event = event /\ stdout[i].body.consumer = c}

\* The books balance: for every consumer, the connects on the audit trail less
\* the disconnects and the expiries are exactly its live sessions, so no
\* session ends twice, ends unrecorded or is lost between a sweep and the
\* handler that made it.
AuditBalances ==
  \A c \in Consumers :
    Cardinality(Attested("connected", c)) =
      Cardinality(Attested("disconnected", c)) + Cardinality(Attested("lease-expired", c))
        + Cardinality({h \in DOMAIN handles : handles[h].consumer = c})

\* The contract's view of a handle: fresh, held under a term that began when it
\* was granted or last renewed, or consumed.
SessionOf(h) ==
  IF h \in DOMAIN handles
  THEN LET lease == handles[h].lease IN
       IF lease = NoLease
       THEN [phase |-> "held", mode |-> "legacy", ttl |-> 0, since |-> 0]
       ELSE [phase |-> "held", mode |-> lease.mode, ttl |-> lease.ttl,
             since |-> lease.expires_at - lease.ttl]
  ELSE [phase |-> IF h \in minted THEN "consumed" ELSE "fresh",
        mode |-> "legacy", ttl |-> 0, since |-> 0]

Contract == INSTANCE SessionContract WITH
  Capacity <- MAX_ACTIVE_HANDLES,
  session  <- [h \in Handles |-> SessionOf(h)]

\* The provider keeps the contract: no handle comes back once consumed, no
\* session is reaped before its term, no soft lease is extended, and whatever a
\* request does, it does to what is left after every overdue session is gone.
KeepsContract == Contract!Spec

\* A comment in the heartbeat handler (lib.rs:688-691): a hard lease past three
\* whole missed TTL windows cannot be resurrected by a refresh.
NoResurrection ==
  [][\A h \in DOMAIN handles :
       RefreshHard(h) => ~Due(handles[h].lease, now')]_vars

=============================================================================
