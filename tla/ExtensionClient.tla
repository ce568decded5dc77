-------------------------- MODULE ExtensionClient --------------------------
(***************************************************************************)
(* The background script of the browser extension                          *)
(* (src/clients/browser-extension/background/groove-discovery.js) against  *)
(* a provider that keeps the SessionContract: discovery, connect, the      *)
(* heartbeat interval and disconnect for one service.  Services share only *)
(* the moment at which discoverAll replaces the whole map, so one stands   *)
(* for all.                                                                *)
(*                                                                         *)
(* JavaScript runs each piece of code between two awaits as one step; any  *)
(* other piece may run in between, except that a function which awaited a  *)
(* promise goes on before the next message or answer is taken up.  A fetch *)
(* may be lost on its way to the provider or on its way back, the caller   *)
(* cannot tell which.                                                      *)
(*                                                                         *)
(* The clock counts HEARTBEAT_INTERVALs of 5 s.  Every interval that runs  *)
(* fires once in each, and the fetches of one await end within 4 s (two    *)
(* PROBE_TIMEOUTs of 2 s): what began in one interval ends before the      *)
(* interval after the next.                                                *)
(***************************************************************************)
EXTENDS Integers, Sequences, FiniteSets

CONSTANTS
  Handles,               \* bearer handles the provider can mint
  NoHandle,
  Calls,                 \* calls of the page, and timed discoveries, at a time
  Capacity,              \* sessions the provider holds at once
  GrantedModes,          \* leases providers grant: "hard", or "legacy" if they know none
  TTL,                   \* 15 s: the lease the extension asks for
  HEARTBEAT_MAX_MISSES,
  MaxScans,              \* bound: discoveries that replace the registry
  LastCall,              \* bound: nothing is asked after this instant
  LastLoss,              \* bound: no heartbeat is lost after this instant
  MaxTime                \* bound: the clock stops here

ASSUME ClientAssumption ==
  /\ NoHandle \notin Handles
  /\ GrantedModes \subseteq {"hard", "legacy"}
  /\ TTL \in Nat \ {0} /\ HEARTBEAT_MAX_MISSES \in Nat \ {0}

\* The extension gives up before the provider does: 3 misses, and what may be
\* on its way besides, against three windows of 3 intervals.
ASSUME PatienceAssumption == HEARTBEAT_MAX_MISSES + 2 < 3 * TTL

Statuses == {"discovered", "connected", "degraded", "not_found"}
Kinds == {"none", "discover", "connect", "disconnect"}
Phases == {"idle", "sent", "served", "refusing", "awaiting", "found", "absent"}

VARIABLES
  now, session,  \* the provider: see SessionContract
  entries,       \* registry entries made so far; the map holds the last one
  connection,    \* connections.get(service): the handle of its record
  misses,        \* misses of each connection record
  timers,        \* handles whose heartbeat interval runs
  fired,         \* when each interval last fired
  beats,         \* the heartbeat in flight for each handle
  calls,         \* calls in progress
  wanted         \* history: the last thing the page asked for

provider == <<now, session>>
lifecycle == <<connection, misses, timers, fired>>
vars == <<provider, entries, lifecycle, beats, calls, wanted>>

Provider == INSTANCE SessionContract

----------------------------------------------------------------------------
\* The registry map, and the entry object a call keeps across its awaits.

Current == Len(entries)

Undiscovered == Current = 0 \/ entries[Current].status = "not_found"

\* The entry object in the map, or none, as entries to which a write is lost.
SetStatus(entry, status) ==
  IF entry = 0 THEN entries ELSE [entries EXCEPT ![entry].status = status]

\* Entries that discoverAll makes; only those of found services carry the
\* manifest's capabilities and the baseUrl.
EntryFor(found) ==
  [status |-> IF ~found THEN "not_found"
              ELSE IF connection = NoHandle THEN "discovered" ELSE "connected",
   manifest |-> found]

----------------------------------------------------------------------------
\* Calls.

IdleCall == [kind |-> "none", phase |-> "idle", entry |-> 0, handle |-> NoHandle, since |-> 0]

Call(kind, phase, handle) ==
  [kind |-> kind, phase |-> phase, entry |-> Current, handle |-> handle, since |-> now]

Connecting == {c \in Calls : calls[c].kind = "connect"}

Awaiting == {c \in Calls : calls[c].phase = "awaiting"}

\* disconnectService waits for the connect in progress and goes on, before
\* anything else does, when there is none.
Continuing == Connecting = {} /\ Awaiting # {}

\* Slots for calls are taken in turn, and so are handles.
Idle(c) ==
  /\ now <= LastCall
  /\ ~Continuing
  /\ calls[c].kind = "none"
  /\ c = CHOOSE x \in Calls : calls[x].kind = "none"

NextHandle(h) ==
  /\ session[h].phase = "fresh"
  /\ h = CHOOSE k \in Handles : session[k].phase = "fresh"

Finish(c) == calls' = [calls EXCEPT ![c] = IdleCall]

\* discoverAll begins its probes.
Discover(c) ==
  /\ Idle(c)
  /\ Current + Cardinality({x \in Calls : calls[x].kind = "discover"}) < MaxScans
  /\ calls' = [calls EXCEPT ![c] = Call("discover", "sent", NoHandle)]
  /\ UNCHANGED <<provider, entries, lifecycle, beats, wanted>>

\* The probe of this service is over, those of others may not be.
ProbeEnds(c) ==
  /\ calls[c].kind = "discover" /\ calls[c].phase = "sent"
  /\ \E outcome \in {"found", "absent"} : calls' = [calls EXCEPT ![c].phase = outcome]
  /\ UNCHANGED <<provider, entries, lifecycle, beats, wanted>>

\* Every probe has settled: a new map replaces the registry.
ReplaceRegistry(c) ==
  /\ calls[c].kind = "discover" /\ calls[c].phase \in {"found", "absent"}
  /\ entries' = Append(entries, EntryFor(calls[c].phase = "found"))
  /\ Finish(c)
  /\ UNCHANGED <<provider, lifecycle, beats, wanted>>

\* Mutant of Connect: connect attempts are not coalesced.
ConnectAgain(c) ==
  /\ Idle(c)
  /\ wanted' = "connect"
  /\ IF ~Undiscovered /\ connection = NoHandle
     THEN calls' = [calls EXCEPT ![c] = Call("connect", "sent", NoHandle)]
     ELSE UNCHANGED calls
  /\ UNCHANGED <<provider, entries, lifecycle, beats>>

\* connectService joins an attempt in progress; connectServiceOnce answers at
\* once if the service is not discovered or already connected.
Connect(c) ==
  /\ Idle(c)
  /\ wanted' = "connect"
  /\ IF Connecting = {} /\ ~Undiscovered /\ connection = NoHandle
     THEN calls' = [calls EXCEPT ![c] = Call("connect", "sent", NoHandle)]
     ELSE UNCHANGED calls
  /\ UNCHANGED <<provider, entries, lifecycle, beats>>

\* The provider grants a session, under the hard lease or, if it knows no
\* leases, without one.  An entry without a manifest has no baseUrl to reach.
Granted(c, h, mode) ==
  /\ calls[c].kind = "connect" /\ calls[c].phase = "sent"
  /\ entries[calls[c].entry].manifest
  /\ NextHandle(h)
  /\ Cardinality({k \in Handles : Provider!IsHeld(k)}) < Capacity
  /\ session' = [Provider!Settled EXCEPT ![h] =
                   IF mode = "legacy" THEN [Provider!Blank("held") EXCEPT !.mode = mode]
                   ELSE [phase |-> "held", mode |-> mode, ttl |-> TTL, since |-> now]]
  /\ calls' = [calls EXCEPT ![c].phase = "served", ![c].handle = h]
  /\ UNCHANGED <<now, entries, lifecycle, beats, wanted>>

\* The attempt is refused, or its request or answer is lost: an error.
ConnectFails(c) ==
  /\ calls[c].kind = "connect"
  /\ Finish(c)
  /\ UNCHANGED <<provider, entries, lifecycle, beats, wanted>>

\* Mutant of Connected: a session granted without a lease is taken as well.
ConnectedAnyway(c) ==
  LET h == calls[c].handle IN
  /\ calls[c].kind = "connect" /\ calls[c].phase = "served"
  /\ connection' = h
  /\ timers' = timers \cup {h}
  /\ fired' = [fired EXCEPT ![h] = now]
  /\ entries' = SetStatus(calls[c].entry, "connected")
  /\ Finish(c)
  /\ UNCHANGED <<provider, misses, beats, wanted>>

\* The answer arrives with the lease the extension asked for.
Connected(c) ==
  LET h == calls[c].handle IN
  /\ calls[c].kind = "connect" /\ calls[c].phase = "served"
  /\ session[h].mode = "hard"
  /\ connection' = h
  /\ timers' = timers \cup {h}
  /\ fired' = [fired EXCEPT ![h] = now]
  /\ entries' = SetStatus(calls[c].entry, "connected")
  /\ Finish(c)
  /\ UNCHANGED <<provider, misses, beats, wanted>>

\* The provider omitted the lease: the handle is given back and the attempt
\* fails when that fetch is answered or lost.
RefuseGrant(c) ==
  /\ calls[c].kind = "connect" /\ calls[c].phase = "served"
  /\ session[calls[c].handle].mode # "hard"
  /\ calls' = [calls EXCEPT ![c].phase = "refusing", ![c].since = now]
  /\ UNCHANGED <<provider, entries, lifecycle, beats, wanted>>

\* clearInterval and delete: the record, with its misses, is gone.
Drop(h) ==
  /\ connection' = NoHandle
  /\ timers' = timers \ {h}
  /\ misses' = [misses EXCEPT ![h] = 0]
  /\ fired' = [fired EXCEPT ![h] = 0]

Disconnect(c) ==
  /\ Idle(c)
  /\ wanted' = "disconnect"
  /\ calls' = [calls EXCEPT ![c] = Call("disconnect", "awaiting", NoHandle)]
  /\ UNCHANGED <<provider, entries, lifecycle, beats>>

\* Mutant of DropConnection: a connect in progress is not awaited.
DropAtOnce(c) ==
  /\ calls[c].kind = "disconnect" /\ calls[c].phase = "awaiting"
  /\ IF connection = NoHandle
     THEN Finish(c) /\ UNCHANGED <<entries, lifecycle>>
     ELSE /\ Drop(connection)
          /\ UNCHANGED entries
          /\ calls' = [calls EXCEPT ![c] = Call("disconnect", "sent", connection)]
  /\ UNCHANGED <<provider, beats, wanted>>

\* disconnectService after its await: the record goes before the provider is told.
DropConnection(c) ==
  /\ calls[c].kind = "disconnect" /\ calls[c].phase = "awaiting"
  /\ Connecting = {}
  /\ IF connection = NoHandle
     THEN Finish(c) /\ UNCHANGED <<entries, lifecycle>>
     ELSE /\ Drop(connection)
          /\ entries' = IF Current # 0 /\ entries[Current].status = "connected"
                        THEN SetStatus(Current, "discovered") ELSE entries
          /\ calls' = [calls EXCEPT ![c] = Call("disconnect", "sent", connection)]
  /\ UNCHANGED <<provider, beats, wanted>>

\* The provider consumes the handle a disconnect, or a refused grant, names.
Released(c) ==
  LET h == calls[c].handle IN
  /\ \/ calls[c].kind = "disconnect" /\ calls[c].phase = "sent"
     \/ calls[c].kind = "connect" /\ calls[c].phase = "refusing"
  /\ session' = IF Provider!IsHeld(h)
                THEN [Provider!Settled EXCEPT ![h] = Provider!Blank("consumed")]
                ELSE Provider!Settled
  /\ Finish(c)
  /\ UNCHANGED <<now, entries, lifecycle, beats, wanted>>

DisconnectFails(c) ==
  /\ calls[c].kind = "disconnect" /\ calls[c].phase = "sent"
  /\ Finish(c)
  /\ UNCHANGED <<provider, entries, lifecycle, beats, wanted>>

----------------------------------------------------------------------------
\* Heartbeats.

NoBeat == [phase |-> "none", entry |-> 0, since |-> 0]

\* The interval of a connection record fires: heartbeat reads the record and
\* the entry, and sends.
Fire(h) ==
  /\ h \in timers
  /\ fired[h] < now
  /\ beats[h] = NoBeat
  /\ fired' = [fired EXCEPT ![h] = now]
  /\ beats' = IF connection = NoHandle THEN beats
              ELSE [beats EXCEPT ![connection] = [phase |-> "sent", entry |-> Current, since |-> now]]
  /\ UNCHANGED <<provider, entries, connection, misses, timers, calls, wanted>>

\* The provider answers: 204 renews a live hard lease, all else is a miss.
Answered(h) ==
  /\ beats[h].phase = "sent"
  /\ session' = IF Provider!IsHeld(h) THEN [Provider!Settled EXCEPT ![h].since = now]
                ELSE Provider!Settled
  /\ beats' = [beats EXCEPT ![h].phase = IF Provider!IsHeld(h) THEN "alive" ELSE "missed"]
  /\ UNCHANGED <<now, entries, lifecycle, calls, wanted>>

\* The heartbeat or its answer is lost, or its fetch is aborted.
Lost(h) ==
  /\ now <= LastLoss
  /\ beats[h].phase \in {"sent", "alive"}
  /\ beats' = [beats EXCEPT ![h].phase = "missed"]
  /\ UNCHANGED <<provider, entries, lifecycle, calls, wanted>>

Alive(h) ==
  /\ beats[h].phase = "alive"
  /\ beats' = [beats EXCEPT ![h] = NoBeat]
  /\ IF connection = h
     THEN /\ misses' = [misses EXCEPT ![h] = 0]
          /\ entries' = SetStatus(beats[h].entry, "connected")
     ELSE UNCHANGED <<misses, entries>>
  /\ UNCHANGED <<provider, connection, timers, fired, calls, wanted>>

\* Mutant of Missed: one miss more than HEARTBEAT_MAX_MISSES.
MissedOneMore(h) ==
  LET last == misses[h] + 1 > HEARTBEAT_MAX_MISSES IN
  /\ beats[h].phase = "missed"
  /\ beats' = [beats EXCEPT ![h] = NoBeat]
  /\ \/ connection # h /\ UNCHANGED <<entries, lifecycle>>
     \/ /\ connection = h /\ ~last
        /\ misses' = [misses EXCEPT ![h] = @ + 1]
        /\ entries' = SetStatus(beats[h].entry, "degraded")
        /\ UNCHANGED <<connection, timers, fired>>
     \/ /\ connection = h /\ last
        /\ Drop(h)
        /\ entries' = SetStatus(beats[h].entry, "not_found")
  /\ UNCHANGED <<provider, calls, wanted>>

\* Mutant of Missed: the connection is degraded and never dropped.
MissedForEver(h) ==
  /\ beats[h].phase = "missed"
  /\ beats' = [beats EXCEPT ![h] = NoBeat]
  /\ entries' = IF connection = h THEN SetStatus(beats[h].entry, "degraded") ELSE entries
  /\ UNCHANGED <<provider, lifecycle, calls, wanted>>

\* Degrade on a miss, drop after HEARTBEAT_MAX_MISSES; nothing if the record
\* is no longer the connection.
Missed(h) ==
  LET last == misses[h] + 1 >= HEARTBEAT_MAX_MISSES IN
  /\ beats[h].phase = "missed"
  /\ beats' = [beats EXCEPT ![h] = NoBeat]
  /\ \/ connection # h /\ UNCHANGED <<entries, lifecycle>>
     \/ /\ connection = h /\ ~last
        /\ misses' = [misses EXCEPT ![h] = @ + 1]
        /\ entries' = SetStatus(beats[h].entry, "degraded")
        /\ UNCHANGED <<connection, timers, fired>>
     \/ /\ connection = h /\ last
        /\ Drop(h)
        /\ entries' = SetStatus(beats[h].entry, "not_found")
  /\ UNCHANGED <<provider, calls, wanted>>

----------------------------------------------------------------------------

Waiting == {calls[c].since : c \in {x \in Calls : calls[x].phase \in {"sent", "served", "refusing"}}}
             \cup {beats[h].since : h \in {k \in Handles : beats[k].phase # "none"}}

Tick ==
  /\ ~Continuing
  /\ now < MaxTime
  /\ \A since \in Waiting : since = now
  /\ \A h \in timers : fired[h] = now
  /\ now' = now + 1
  /\ UNCHANGED <<session, entries, lifecycle, beats, calls, wanted>>

Init ==
  /\ now = 0
  /\ session = [h \in Handles |-> Provider!Blank("fresh")]
  /\ entries = <<>>
  /\ connection = NoHandle
  /\ misses = [h \in Handles |-> 0]
  /\ timers = {}
  /\ fired = [h \in Handles |-> 0]
  /\ beats = [h \in Handles |-> NoBeat]
  /\ calls = [c \in Calls |-> IdleCall]
  /\ wanted = "none"

CallStep(c) ==
  \/ DropConnection(c)
  \/ /\ ~Continuing
     /\ \/ ProbeEnds(c) \/ ReplaceRegistry(c)
        \/ \E h \in Handles, mode \in GrantedModes : Granted(c, h, mode)
        \/ ConnectFails(c) \/ Connected(c) \/ RefuseGrant(c)
        \/ Released(c) \/ DisconnectFails(c)

BeatStep(h) ==
  /\ ~Continuing
  /\ Fire(h) \/ Answered(h) \/ Lost(h) \/ Alive(h) \/ Missed(h)

Next ==
  \/ Tick
  \/ \E c \in Calls : Discover(c) \/ Connect(c) \/ Disconnect(c) \/ CallStep(c)
  \/ \E h \in Handles : BeatStep(h)

Spec == Init /\ [][Next]_vars

\* Time passes, fetches end (they are aborted if they must) and intervals fire;
\* the page need not ask for anything.  Strong fairness: a continuation holds
\* these back for a moment, and the page may cause one over and over.
FairSpec ==
  /\ Spec
  /\ SF_vars(Tick)
  /\ \A c \in Calls : SF_vars(CallStep(c))
  /\ \A h \in Handles : SF_vars(BeatStep(h))

----------------------------------------------------------------------------
\* Properties.

\* The extension's maps hold what the script puts in them: at most one
\* connection, counters within the limit, and calls that name known entries.
TypeOK ==
  /\ now \in Nat
  /\ \A i \in DOMAIN entries : entries[i] \in [status : Statuses, manifest : BOOLEAN]
  /\ connection \in Handles \cup {NoHandle}
  /\ misses \in [Handles -> 0..(HEARTBEAT_MAX_MISSES - 1)]
  /\ timers \subseteq Handles
  /\ \A h \in Handles : /\ fired[h] \in 0..now
                        /\ beats[h].phase \in {"none", "sent", "alive", "missed"}
                        /\ beats[h].entry \in 0..Current
  /\ \A c \in Calls : /\ calls[c].kind \in Kinds /\ calls[c].phase \in Phases
                      /\ calls[c].entry \in 0..Current
  /\ wanted \in {"none", "connect", "disconnect"}

\* However connects, disconnects, misses and discoveries overlap, exactly the
\* connection in the map has a heartbeat interval: none runs on for a record
\* that was dropped or replaced, and no connection goes without.
OneTimerPerConnection == timers = {connection} \ {NoHandle}

\* The extension's patience (3 misses at 5 s) is shorter than the provider's
\* (three windows of 15 s): while the extension holds a connection, whatever
\* heartbeats and answers were lost, the provider still holds its session.
ConnectionIsHeld ==
  connection # NoHandle => Provider!IsHeld(connection)

\* disconnectService waits for a connect in progress, so that a disconnect asked
\* last wins: once everything has settled, there is
\* no connection.
LastWordWins ==
  wanted = "disconnect" /\ (\A c \in Calls : calls[c].kind \in {"none", "discover"})
    => connection = NoHandle

\* What the extension and the network do to the provider is what the contract
\* lets any client do.
UsesContract == Provider!Spec

\* A session minted by a connect whose answer was lost, or whose disconnect was
\* lost, is nobody's: it does not outlive its lease.  In the end the provider
\* holds no leased session but the one the extension has.
OrphansEnd ==
  <>[](\A h \in Handles :
         Provider!IsHeld(h) /\ session[h].mode = "hard" => h = connection)

\* groove.status reports the current status of each service (groove-bridge.js,
\* 'Get current status of all grooves'): what is shown as connected or degraded
\* is a connection the extension has.
ShownIsConnected ==
  Current # 0 /\ entries[Current].status \in {"connected", "degraded"}
    => connection # NoHandle

=============================================================================
