-------------------------- MODULE ExtensionProofs --------------------------
(***************************************************************************)
(* Proofs about ExtensionClient, for any number of overlapping calls, any  *)
(* lease and any number of misses that the lease outlasts.                 *)
(***************************************************************************)
EXTENDS ExtensionClient, SequenceTheorems, TLAPS

Entry == [status : Statuses, manifest : BOOLEAN]
CallRecord == [kind : Kinds, phase : Phases, entry : Nat,
               handle : Handles \cup {NoHandle}, since : Nat]
BeatRecord == [phase : {"none", "sent", "alive", "missed"}, entry : Nat, since : Nat]
Term == [phase : {"fresh", "held", "consumed"}, mode : Provider!Modes, ttl : Nat, since : Nat]

\* TypeOK with the sets the functions are of: instants are past, entries exist.
ProviderTyped == now \in Nat /\ session \in [Handles -> Term]

ClientTyped ==
  /\ entries \in Seq(Entry)
  /\ connection \in Handles \cup {NoHandle}
  /\ timers \subseteq Handles
  /\ wanted \in {"none", "connect", "disconnect"}

BeatsTyped ==
  /\ misses \in [Handles -> 0..(HEARTBEAT_MAX_MISSES - 1)]
  /\ fired \in [Handles -> Nat]
  /\ beats \in [Handles -> BeatRecord]
  /\ \A h \in Handles : fired[h] <= now /\ beats[h].entry <= Len(entries)

CallsTyped ==
  /\ calls \in [Calls -> CallRecord]
  /\ \A c \in Calls : calls[c].entry <= Len(entries) /\ calls[c].since <= now

Typed == ProviderTyped /\ ClientTyped /\ BeatsTyped /\ CallsTyped

\* The phases of each kind of call.
PhasesFit ==
  \A c \in Calls :
    /\ calls[c].kind = "connect" => calls[c].phase \in {"sent", "served", "refusing"}
    /\ calls[c].kind = "disconnect" => calls[c].phase \in {"awaiting", "sent"}
    /\ calls[c].kind \in {"none", "discover"} => calls[c].phase \in {"idle", "sent", "found", "absent"}

\* At most one attempt to connect is under way, and none while connected; a
\* disconnect that was asked last is still to come while there is either.
OneAttempt ==
  /\ \A c, d \in Connecting : c = d
  /\ Connecting # {} => connection = NoHandle
  /\ timers = {connection} \ {NoHandle}
  /\ wanted = "disconnect" /\ (connection # NoHandle \/ Connecting # {}) => Awaiting # {}

\* A handle is the connection's or one call's.
Owned ==
  /\ \A c \in Calls :
       /\ calls[c].phase \in {"served", "refusing"} \/ (calls[c].kind = "disconnect" /\ calls[c].phase = "sent")
            => calls[c].handle # NoHandle
       /\ calls[c].handle # NoHandle =>
            /\ session[calls[c].handle].phase # "fresh"
            /\ calls[c].handle # connection
  /\ \A c, d \in Calls : calls[c].handle # NoHandle /\ calls[c].handle = calls[d].handle => c = d

\* Of a fetch and its caller nothing is older than one interval, and what was
\* granted is not older than the call that asked for it.
Prompt ==
  \A c \in Calls :
    /\ calls[c].phase \in {"sent", "served", "refusing"} => now <= calls[c].since + 1
    /\ calls[c].phase = "served" /\ session[calls[c].handle].mode = "hard" =>
         /\ session[calls[c].handle].phase = "held"
         /\ session[calls[c].handle].ttl = TTL
         /\ calls[c].since <= session[calls[c].handle].since

\* The connection's lease: it was renewed no longer ago than its misses, the
\* heartbeat under way and the interval before the first one account for.
Leased ==
  connection # NoHandle =>
    /\ session[connection].phase = "held"
    /\ session[connection].mode = "hard"
    /\ session[connection].ttl = TTL
    /\ now <= fired[connection] + 1
    /\ fired[connection] <= session[connection].since + 1 + misses[connection]
         + (IF beats[connection].phase \in {"sent", "missed"} THEN 1 ELSE 0)
    /\ beats[connection].phase = "alive" => fired[connection] <= session[connection].since + 1

CallsOK == PhasesFit /\ OneAttempt
LeaseOK == Owned /\ Prompt /\ Leased
IInv == Typed /\ CallsOK /\ LeaseOK
-----------------------------------------------------------------------------
\* A write to an entry keeps the entries.
LEMMA SetStatusTyped ==
  ASSUME entries \in Seq(Entry), NEW e \in Nat, NEW status \in Statuses
  PROVE  SetStatus(e, status) \in Seq(Entry) /\ Len(SetStatus(e, status)) = Len(entries)
<1> DEFINE n == Len(entries)
           t == [entries EXCEPT ![e].status = status]
<1>1. n \in Nat /\ entries \in [1..n -> Entry]
  OBVIOUS
<1>2. t \in [1..n -> Entry]
  <2>1. \A i \in 1..n : t[i] \in Entry
    BY <1>1 DEF Entry
  <2>. QED BY <1>1, <2>1
<1>3. t \in Seq(Entry)
  BY <1>1, <1>2, SeqDef
<1>4. Len(t) = n
  BY <1>1, <1>2, <1>3
<1>. QED BY <1>3, <1>4 DEF SetStatus

\* Settling keeps the types, what is fresh and what is not overdue.
LEMMA Settling ==
  ASSUME Typed
  PROVE  /\ Provider!Settled \in [Handles -> Term]
         /\ \A h \in Handles :
              /\ (Provider!Settled[h].phase = "fresh" <=> session[h].phase = "fresh")
              /\ (Provider!Settled[h].mode = "hard" => Provider!Settled[h] = session[h])
              /\ (~Provider!Overdue(session[h]) => Provider!Settled[h] = session[h])
BY DEF Typed, ProviderTyped, Term, Provider!Settled, Provider!Overdue, Provider!Blank, Provider!Modes

\* A hard lease of TTL lasts three windows.
LEMMA HardLasts ==
  ASSUME Typed, NEW s \in Term, s.mode = "hard", s.ttl = TTL, now < s.since + 3 * TTL
  PROVE  ~Provider!Overdue(s)
<1>1. Provider!Windows(s.mode) = 3
  BY DEF Provider!Windows
<1>2. s.since \in Nat /\ now \in Nat /\ TTL \in Nat
  BY ClientAssumption DEF Typed, ProviderTyped, Term
<1>. QED BY <1>1, <1>2 DEF Provider!Overdue

\* The lease outlasts the extension's patience.
LEMMA ConnectionLasts ==
  ASSUME Typed, Leased, connection # NoHandle
  PROVE  /\ connection \in Handles
         /\ ~Provider!Overdue(session[connection])
         /\ Provider!IsHeld(connection)
         /\ Provider!Settled[connection] = session[connection]
<1>1. connection \in Handles /\ session[connection] \in Term
  BY DEF Typed, ProviderTyped, ClientTyped
<1>2. now < session[connection].since + 3 * TTL
  <2>1. now <= session[connection].since + 3 + misses[connection]
    BY <1>1 DEF Typed, ProviderTyped, BeatsTyped, Leased, Term, BeatRecord
  <2>2. misses[connection] <= HEARTBEAT_MAX_MISSES - 1 /\ misses[connection] \in Nat
    BY <1>1, ClientAssumption DEF Typed, BeatsTyped
  <2>. QED BY <1>1, <2>1, <2>2, ClientAssumption, PatienceAssumption DEF Typed, ProviderTyped, Term
<1>3. ~Provider!Overdue(session[connection])
  BY <1>1, <1>2, HardLasts DEF Leased
<1>. QED BY <1>1, <1>3, Settling DEF Provider!IsHeld, Leased

\* So does the lease that was granted to a call whose answer is on its way.
LEMMA GrantLasts ==
  ASSUME Typed, Owned, Prompt, NEW c \in Calls, calls[c].phase = "served",
         session[calls[c].handle].mode = "hard"
  PROVE  /\ calls[c].handle \in Handles
         /\ Provider!Settled[calls[c].handle] = session[calls[c].handle]
<1> DEFINE s == session[calls[c].handle]
<1>1. calls[c].handle \in Handles /\ s \in Term
  BY DEF Typed, ProviderTyped, CallsTyped, CallRecord, Owned
<1>2. calls[c].since \in Nat /\ s.since \in Nat /\ now \in Nat
  BY <1>1 DEF Typed, ProviderTyped, CallsTyped, CallRecord, Term
<1>3. now < s.since + 3 * TTL
  <2>1. now <= s.since + 1
    BY <1>2 DEF Prompt
  <2>. QED BY <1>2, <2>1, ClientAssumption, PatienceAssumption
<1>4. ~Provider!Overdue(s)
  BY <1>1, <1>3, HardLasts DEF Prompt
<1>. QED BY <1>1, <1>4, Settling

\* The records that steps make of calls.
LEMMA CallTyped ==
  ASSUME Typed, NEW kind \in Kinds, NEW phase \in Phases, NEW handle \in Handles \cup {NoHandle}
  PROVE  /\ Call(kind, phase, handle) \in CallRecord
         /\ Call(kind, phase, handle).entry <= Len(entries)
         /\ Call(kind, phase, handle).since <= now
         /\ IdleCall \in CallRecord /\ IdleCall.entry <= Len(entries) /\ IdleCall.since <= now
<1>1. Len(entries) \in Nat /\ now \in Nat
  BY DEF Typed, ProviderTyped, ClientTyped
<1>. QED BY <1>1 DEF Call, IdleCall, CallRecord, Current, Kinds, Phases

\* Calls stay calls when one of them is replaced by such a record.
LEMMA CallReplaced ==
  ASSUME Typed, NEW c \in Calls, NEW r \in CallRecord,
         r.entry <= Len(entries), r.since <= now, calls' = [calls EXCEPT ![c] = r],
         now' = now, Len(entries') >= Len(entries), Len(entries') \in Nat
  PROVE  CallsTyped'
<1>1. calls' \in [Calls -> CallRecord]
  BY DEF Typed, CallsTyped
<1>2. \A x \in Calls : calls[x].entry \in Nat /\ calls[x].since \in Nat /\ r.entry \in Nat
  BY DEF Typed, CallsTyped, CallRecord
<1>3. Len(entries) \in Nat
  BY DEF Typed, ClientTyped
<1>. QED BY <1>1, <1>2, <1>3 DEF Typed, CallsTyped

\* Time does not run backwards, and no entry is forgotten.
LEMMA Growth ==
  ASSUME Typed, Owned, [Next]_vars
  PROVE  /\ now' \in Nat /\ now <= now'
         /\ entries' \in Seq(Entry) /\ Len(entries) <= Len(entries')
<1>0. now \in Nat /\ entries \in Seq(Entry) /\ Len(entries) \in Nat
  BY DEF Typed, ProviderTyped, ClientTyped
<1>1. CASE UNCHANGED <<now, entries>>
  BY <1>0, <1>1
<1>2. CASE Tick
  BY <1>0, <1>2 DEF Tick
<1>3. ASSUME NEW e \in Nat, NEW status \in Statuses, now' = now, entries' = SetStatus(e, status)
      PROVE  entries' \in Seq(Entry) /\ Len(entries) <= Len(entries') /\ now' = now
  BY <1>0, <1>3, SetStatusTyped
<1>4. ASSUME NEW c \in Calls, ReplaceRegistry(c)
      PROVE  entries' \in Seq(Entry) /\ Len(entries) <= Len(entries') /\ now' = now
  BY <1>0, <1>4 DEF ReplaceRegistry, EntryFor, Entry, Statuses, provider
<1>5. ASSUME NEW c \in Calls, Connected(c) \/ DropConnection(c)
      PROVE  \/ UNCHANGED <<now, entries>>
             \/ now' = now /\ \E e \in Nat, status \in Statuses : entries' = SetStatus(e, status)
  <2>1. calls[c].entry \in Nat
    BY DEF Typed, CallsTyped, CallRecord
  <2>. QED BY <1>0, <1>5, <2>1 DEF Connected, DropConnection, Statuses, Current, provider
<1>6. ASSUME NEW h \in Handles, Alive(h) \/ Missed(h)
      PROVE  \/ UNCHANGED <<now, entries>>
             \/ now' = now /\ \E e \in Nat, status \in Statuses : entries' = SetStatus(e, status)
  <2>1. beats[h].entry \in Nat
    BY DEF Typed, BeatsTyped, BeatRecord
  <2>. QED BY <1>6, <2>1 DEF Alive, Missed, Statuses, provider
<1>7. ASSUME NEW c \in Calls,
             \/ Discover(c) \/ Connect(c) \/ Disconnect(c) \/ ProbeEnds(c) \/ ConnectFails(c)
             \/ RefuseGrant(c) \/ Released(c) \/ DisconnectFails(c)
             \/ \E h \in Handles, mode \in GrantedModes : Granted(c, h, mode)
      PROVE  UNCHANGED <<now, entries>>
  BY <1>7 DEF Discover, Connect, Disconnect, ProbeEnds, ConnectFails, RefuseGrant, Released,
              DisconnectFails, Granted, provider
<1>8. ASSUME NEW h \in Handles, Fire(h) \/ Answered(h) \/ Lost(h)
      PROVE  UNCHANGED <<now, entries>>
  BY <1>8 DEF Fire, Answered, Lost, provider
<1>9. CASE UNCHANGED vars
  BY <1>0, <1>9 DEF vars, provider
<1>. QED
  BY <1>0, <1>1, <1>2, <1>3, <1>4, <1>5, <1>6, <1>7, <1>8, <1>9 DEF Next, CallStep, BeatStep

\* What the provider keeps is of its type.
LEMMA ProviderStep ==
  ASSUME Typed, Owned, [Next]_vars
  PROVE  ProviderTyped'
<1>. USE DEF ProviderTyped
<1>0. now' \in Nat /\ Provider!Settled \in [Handles -> Term] /\ now \in Nat
  BY Growth, Settling DEF Typed
<1>1. ASSUME UNCHANGED session PROVE ProviderTyped'
  BY <1>0, <1>1 DEF Typed
<1>2. ASSUME NEW h \in Handles, NEW r \in Term, session' = [Provider!Settled EXCEPT ![h] = r]
      PROVE  ProviderTyped'
  BY <1>0, <1>2
<1>3. ASSUME NEW c \in Calls, NEW h \in Handles, NEW mode \in GrantedModes, Granted(c, h, mode)
      PROVE  ProviderTyped'
  <2>1. [phase |-> "held", mode |-> mode, ttl |-> TTL, since |-> now] \in Term
    BY <1>0, ClientAssumption DEF Term, Provider!Modes
  <2>2. [Provider!Blank("held") EXCEPT !.mode = mode] \in Term
    BY ClientAssumption DEF Term, Provider!Modes, Provider!Blank
  <2>. QED BY <1>2, <1>3, <2>1, <2>2 DEF Granted
<1>4. ASSUME NEW c \in Calls, Released(c) PROVE ProviderTyped'
  <2>1. calls[c].handle \in Handles
    BY <1>4 DEF Released, Owned, Typed, CallsTyped, CallRecord, Phases, Kinds
  <2>2. Provider!Blank("consumed") \in Term
    BY DEF Term, Provider!Modes, Provider!Blank
  <2>. QED BY <1>0, <1>2, <1>4, <2>1, <2>2 DEF Released
<1>5. ASSUME NEW h \in Handles, Answered(h) PROVE ProviderTyped'
  <2>1. [Provider!Settled EXCEPT ![h].since = now] \in [Handles -> Term]
    BY <1>0 DEF Term
  <2>. QED BY <1>0, <1>5, <2>1 DEF Answered
<1>6. ASSUME NEW c \in Calls,
             \/ Discover(c) \/ Connect(c) \/ Disconnect(c) \/ ProbeEnds(c) \/ ConnectFails(c)
             \/ RefuseGrant(c) \/ ReplaceRegistry(c) \/ Connected(c) \/ DropConnection(c)
             \/ DisconnectFails(c)
      PROVE  UNCHANGED session
  BY <1>6 DEF Discover, Connect, Disconnect, ProbeEnds, ConnectFails, RefuseGrant, ReplaceRegistry,
              Connected, DropConnection, DisconnectFails, provider
<1>7. ASSUME NEW h \in Handles, Fire(h) \/ Lost(h) \/ Alive(h) \/ Missed(h) PROVE UNCHANGED session
  BY <1>7 DEF Fire, Lost, Alive, Missed, provider
<1>8. CASE Tick \/ UNCHANGED vars
  BY <1>1, <1>8 DEF Tick, vars, provider
<1>. QED
  BY <1>1, <1>3, <1>4, <1>5, <1>6, <1>7, <1>8 DEF Next, CallStep, BeatStep

\* The client's tables are of their types.
LEMMA ClientStep ==
  ASSUME Typed, Owned, [Next]_vars
  PROVE  ClientTyped'
<1>. USE DEF ClientTyped
<1>0. entries' \in Seq(Entry)
  BY Growth
<1>1. ASSUME NEW c \in Calls, Discover(c) \/ Connect(c) \/ Disconnect(c) PROVE ClientTyped'
  BY <1>0, <1>1 DEF Typed, Discover, Connect, Disconnect, lifecycle
<1>2. ASSUME NEW c \in Calls,
             \/ ProbeEnds(c) \/ ConnectFails(c) \/ RefuseGrant(c) \/ ReplaceRegistry(c)
             \/ DisconnectFails(c) \/ Released(c)
             \/ \E h \in Handles, mode \in GrantedModes : Granted(c, h, mode)
      PROVE  ClientTyped'
  BY <1>0, <1>2 DEF Typed, ProbeEnds, ConnectFails, RefuseGrant, ReplaceRegistry,
                    DisconnectFails, Released, Granted, lifecycle
<1>3. ASSUME NEW c \in Calls, Connected(c) PROVE ClientTyped'
  <2>1. calls[c].handle \in Handles
    BY <1>3 DEF Connected, Owned, Typed, CallsTyped, CallRecord
  <2>. QED BY <1>0, <1>3, <2>1 DEF Typed, Connected
<1>4. ASSUME NEW c \in Calls, DropConnection(c) PROVE ClientTyped'
  BY <1>0, <1>4 DEF Typed, DropConnection, Drop, lifecycle
<1>5. ASSUME NEW h \in Handles, BeatStep(h) PROVE ClientTyped'
  BY <1>0, <1>5 DEF Typed, BeatStep, Fire, Answered, Lost, Alive, Missed, Drop, lifecycle
<1>6. CASE Tick \/ UNCHANGED vars
  BY <1>0, <1>6 DEF Typed, Tick, vars, lifecycle
<1>. QED
  BY <1>1, <1>2, <1>3, <1>4, <1>5, <1>6 DEF Next, CallStep

\* The heartbeats' counters and requests are of their types.
LEMMA BeatsStep ==
  ASSUME Typed, Owned, [Next]_vars
  PROVE  BeatsTyped'
<1>. USE ClientAssumption DEF BeatsTyped, BeatRecord
<1>0. /\ now \in Nat /\ now' \in Nat /\ now <= now'
      /\ Len(entries) \in Nat /\ Len(entries') \in Nat /\ Len(entries) <= Len(entries')
  BY Growth DEF Typed, ProviderTyped, ClientTyped
<1>1. CASE UNCHANGED <<misses, fired, beats>>
  BY <1>0, <1>1 DEF Typed
<1>2. ASSUME NEW c \in Calls, Connected(c) PROVE BeatsTyped'
  <2>1. calls[c].handle \in Handles
    BY <1>2 DEF Connected, Owned, Typed, CallsTyped, CallRecord
  <2>. QED BY <1>0, <1>2, <2>1 DEF Typed, Connected, provider
<1>3. ASSUME NEW h \in Handles, Drop(h), UNCHANGED beats PROVE BeatsTyped'
  BY <1>0, <1>3 DEF Typed, Drop
<1>4. ASSUME NEW c \in Calls, DropConnection(c) PROVE BeatsTyped'
  BY <1>1, <1>3, <1>4 DEF Typed, ClientTyped, DropConnection, lifecycle
<1>5. ASSUME NEW h \in Handles, Fire(h) PROVE BeatsTyped'
  BY <1>0, <1>5 DEF Typed, ClientTyped, Fire, Current, provider
<1>6. ASSUME NEW h \in Handles, Answered(h) \/ Lost(h) PROVE BeatsTyped'
  <2>1. \E p \in {"alive", "missed"} : beats' = [beats EXCEPT ![h].phase = p]
    BY <1>6 DEF Answered, Lost
  <2>2. UNCHANGED <<misses, fired>>
    BY <1>6 DEF Answered, Lost, lifecycle
  <2>3. beats' \in [Handles -> BeatRecord] /\ \A k \in Handles : beats'[k].entry = beats[k].entry
    <3>1. PICK p \in {"alive", "missed"} : beats' = [beats EXCEPT ![h] = [beats[h] EXCEPT !.phase = p]]
      BY <2>1
    <3>2. beats \in [Handles -> BeatRecord]
      BY DEF Typed
    <3>3. [beats[h] EXCEPT !.phase = p] \in BeatRecord /\ [beats[h] EXCEPT !.phase = p].entry = beats[h].entry
      BY <3>2
    <3>. QED BY <3>1, <3>2, <3>3
  <2>. QED BY <1>0, <2>2, <2>3, SMTT(30) DEF Typed
<1>7. ASSUME NEW h \in Handles, Alive(h) \/ Missed(h) PROVE BeatsTyped'
  <2>1. /\ beats' \in [Handles -> BeatRecord]
        /\ \A k \in Handles : beats'[k].entry \in Nat /\ beats'[k].entry <= Len(entries')
    <3>1. beats' = [beats EXCEPT ![h] = NoBeat]
      BY <1>7 DEF Alive, Missed
    <3>2. NoBeat \in BeatRecord /\ NoBeat.entry = 0
      BY DEF NoBeat
    <3>. QED BY <1>0, <3>1, <3>2 DEF Typed
  <2>2. /\ fired' \in [Handles -> Nat] /\ \A k \in Handles : fired'[k] <= now'
        /\ misses' \in [Handles -> 0..(HEARTBEAT_MAX_MISSES - 1)]
    <3>1. CASE Alive(h)
      <4>1. UNCHANGED fired /\ (misses' = misses \/ misses' = [misses EXCEPT ![h] = 0])
        BY <3>1 DEF Alive
      <4>2. 0 \in 0..(HEARTBEAT_MAX_MISSES - 1)
        OBVIOUS
      <4>3. misses' \in [Handles -> 0..(HEARTBEAT_MAX_MISSES - 1)]
        BY <4>1, <4>2 DEF Typed
      <4>4. fired' \in [Handles -> Nat] /\ \A k \in Handles : fired'[k] <= now'
        BY <1>0, <4>1 DEF Typed
      <4>. QED BY <4>3, <4>4
    <3>2. CASE Missed(h) /\ UNCHANGED <<fired, misses>>
      BY <1>0, <3>2 DEF Typed
    <3>3. CASE Missed(h) /\ misses' = [misses EXCEPT ![h] = @ + 1] /\ UNCHANGED fired
      <4>1. misses[h] + 1 < HEARTBEAT_MAX_MISSES \/ misses' = misses
        BY <3>3 DEF Missed, Drop, lifecycle, Typed
      <4>. QED BY <1>0, <3>3, <4>1, SMTT(30) DEF Typed
    <3>4. CASE Drop(h)
      BY <1>0, <3>4 DEF Typed, Drop
    <3>. QED BY <1>7, <3>1, <3>2, <3>3, <3>4 DEF Missed, lifecycle
  <2>. QED BY <2>1, <2>2
<1>8. ASSUME NEW c \in Calls,
             \/ Discover(c) \/ Connect(c) \/ Disconnect(c) \/ ProbeEnds(c) \/ ConnectFails(c)
             \/ RefuseGrant(c) \/ ReplaceRegistry(c) \/ DisconnectFails(c) \/ Released(c)
             \/ \E h \in Handles, mode \in GrantedModes : Granted(c, h, mode)
      PROVE  UNCHANGED <<misses, fired, beats>>
  BY <1>8 DEF Discover, Connect, Disconnect, ProbeEnds, ConnectFails, RefuseGrant, ReplaceRegistry,
              DisconnectFails, Released, Granted, lifecycle
<1>9. CASE Tick \/ UNCHANGED vars
  BY <1>1, <1>9 DEF Tick, vars, lifecycle
<1>. QED
  BY <1>1, <1>2, <1>4, <1>5, <1>6, <1>7, <1>8, <1>9 DEF Next, CallStep, BeatStep

\* Calls are of their type.
LEMMA CallsTypedStep ==
  ASSUME Typed, Owned, [Next]_vars
  PROVE  CallsTyped'
<1>0. /\ now \in Nat /\ now' \in Nat /\ now <= now'
      /\ Len(entries) \in Nat /\ Len(entries') \in Nat /\ Len(entries) <= Len(entries')
  BY Growth DEF Typed, ProviderTyped, ClientTyped
<1>1. CASE UNCHANGED calls
  BY <1>0, <1>1 DEF Typed, CallsTyped, CallRecord
<1>2. ASSUME NEW c \in Calls, NEW kind \in Kinds, NEW phase \in Phases,
             NEW handle \in Handles \cup {NoHandle}, UNCHANGED now,
             calls' = [calls EXCEPT ![c] = Call(kind, phase, handle)] \/ Finish(c)
      PROVE  CallsTyped'
  BY <1>0, <1>2, CallTyped, CallReplaced DEF Finish
<1>4. ASSUME NEW c \in Calls, Discover(c) \/ Connect(c) \/ Disconnect(c) PROVE CallsTyped'
  BY <1>1, <1>2, <1>4 DEF Discover, Connect, Disconnect, Kinds, Phases, provider
<1>5. ASSUME NEW c \in Calls,
             \/ ConnectFails(c) \/ ReplaceRegistry(c) \/ DisconnectFails(c) \/ Released(c)
             \/ Connected(c)
      PROVE  CallsTyped'
  BY <1>2, <1>5 DEF ConnectFails, ReplaceRegistry, DisconnectFails, Released, Connected, Kinds,
                    Phases, provider
<1>6. ASSUME NEW c \in Calls, DropConnection(c) PROVE CallsTyped'
  BY <1>2, <1>6 DEF DropConnection, Kinds, Phases, provider, Typed, ClientTyped
<1>7. ASSUME NEW c \in Calls, ProbeEnds(c) PROVE CallsTyped'
  BY <1>0, <1>7, SMTT(30) DEF ProbeEnds, provider, Typed, CallsTyped, CallRecord, Phases
<1>8. ASSUME NEW c \in Calls, NEW h \in Handles, NEW mode \in GrantedModes, Granted(c, h, mode)
      PROVE  CallsTyped'
  BY <1>0, <1>8, ZenonT(30) DEF Granted, Typed, CallsTyped, CallRecord, Phases
<1>9. ASSUME NEW c \in Calls, RefuseGrant(c) PROVE CallsTyped'
  BY <1>0, <1>9 DEF RefuseGrant, provider, Typed, CallsTyped, CallRecord, Phases
<1>10. ASSUME NEW h \in Handles, BeatStep(h) PROVE UNCHANGED calls
  BY <1>10 DEF BeatStep, Fire, Answered, Lost, Alive, Missed
<1>11. CASE Tick \/ UNCHANGED vars
  BY <1>1, <1>11 DEF Tick, vars
<1>. QED
  BY <1>1, <1>4, <1>5, <1>6, <1>7, <1>8, <1>9, <1>10, <1>11 DEF Next, CallStep

LEMMA TypedStep ==
  ASSUME Typed, Owned, [Next]_vars
  PROVE  Typed'
BY ProviderStep, ClientStep, BeatsStep, CallsTypedStep DEF Typed

-----------------------------------------------------------------------------
\* The phases fit whatever a step does to a call.
LEMMA PhasesStep ==
  ASSUME Typed, PhasesFit, [Next]_vars
  PROVE  PhasesFit'
<1>. USE DEF PhasesFit
<1>0. calls \in [Calls -> CallRecord]
  BY DEF Typed, CallsTyped
<1>1. ASSUME NEW c \in Calls, Discover(c) \/ Connect(c) \/ Disconnect(c) PROVE PhasesFit'
  BY <1>0, <1>1 DEF Discover, Connect, Disconnect, Call
<1>2. ASSUME NEW c \in Calls,
             \/ ConnectFails(c) \/ ReplaceRegistry(c) \/ DisconnectFails(c) \/ Released(c)
             \/ Connected(c) \/ DropConnection(c)
      PROVE  PhasesFit'
  BY <1>0, <1>2 DEF ConnectFails, ReplaceRegistry, DisconnectFails, Released, Connected,
                    DropConnection, Finish, IdleCall, Call
<1>3. ASSUME NEW c \in Calls,
             \/ ProbeEnds(c) \/ RefuseGrant(c)
             \/ \E h \in Handles, mode \in GrantedModes : Granted(c, h, mode)
      PROVE  PhasesFit'
  <2>1. CASE ProbeEnds(c)
    BY <1>0, <2>1 DEF ProbeEnds, CallRecord
  <2>2. CASE RefuseGrant(c)
    BY <1>0, <2>2 DEF RefuseGrant, CallRecord
  <2>3. CASE \E h \in Handles, mode \in GrantedModes : Granted(c, h, mode)
    BY <1>0, <2>3 DEF Granted, CallRecord
  <2>. QED BY <1>3, <2>1, <2>2, <2>3
<1>4. ASSUME NEW h \in Handles, BeatStep(h) PROVE UNCHANGED calls
  BY <1>4 DEF BeatStep, Fire, Answered, Lost, Alive, Missed
<1>5. CASE Tick \/ UNCHANGED vars
  BY <1>5 DEF Tick, vars
<1>. QED
  BY <1>1, <1>2, <1>3, <1>4, <1>5 DEF Next, CallStep

\* There is one attempt at most, and one interval for the connection.
LEMMA AttemptStep ==
  ASSUME Typed, PhasesFit, OneAttempt, Owned, [Next]_vars
  PROVE  OneAttempt'
<1>. USE DEF OneAttempt, Connecting, Awaiting
<1>0. calls \in [Calls -> CallRecord] /\ connection \in Handles \cup {NoHandle} /\ NoHandle \notin Handles
  BY ClientAssumption DEF Typed, CallsTyped, ClientTyped
<1>1. ASSUME UNCHANGED <<connection, timers, wanted>>,
             \A c \in Calls : /\ calls'[c].kind = "connect" => calls[c].kind = "connect"
                              /\ calls[c].phase = "awaiting" => calls'[c].phase = "awaiting"
      PROVE  OneAttempt'
  BY <1>1
<1>2. ASSUME NEW c \in Calls, Discover(c) PROVE OneAttempt'
  BY <1>0, <1>1, <1>2 DEF Discover, Idle, Call, lifecycle, PhasesFit, CallRecord
<1>3. ASSUME NEW c \in Calls, Connect(c) PROVE OneAttempt'
  <2>1. UNCHANGED <<connection, timers>> /\ wanted' = "connect"
    BY <1>3 DEF Connect, lifecycle
  <2>2. CASE UNCHANGED calls
    BY <2>1, <2>2
  <2>3. CASE /\ Connecting = {} /\ connection = NoHandle
             /\ calls' = [calls EXCEPT ![c] = Call("connect", "sent", NoHandle)]
    <3>1. \A d \in Calls : calls'[d].kind = "connect" => d = c
      BY <1>0, <2>3
    <3>. QED BY <2>1, <2>3, <3>1
  <2>. QED BY <1>3, <2>2, <2>3 DEF Connect
<1>4. ASSUME NEW c \in Calls, Disconnect(c) PROVE OneAttempt'
  BY <1>0, <1>4 DEF Disconnect, Idle, Call, lifecycle, CallRecord
<1>5. ASSUME NEW c \in Calls,
             \/ ConnectFails(c) \/ ReplaceRegistry(c) \/ DisconnectFails(c) \/ Released(c)
      PROVE  OneAttempt'
  BY <1>0, <1>1, <1>5 DEF ConnectFails, ReplaceRegistry, DisconnectFails, Released, Finish, IdleCall,
                          PhasesFit, lifecycle
<1>6. ASSUME NEW c \in Calls,
             \/ ProbeEnds(c) \/ RefuseGrant(c)
             \/ \E h \in Handles, mode \in GrantedModes : Granted(c, h, mode)
      PROVE  OneAttempt'
  <2>1. UNCHANGED <<connection, timers, wanted>>
    BY <1>6 DEF ProbeEnds, RefuseGrant, Granted, lifecycle
  <2>2. PICK r : /\ calls' = [calls EXCEPT ![c] = r] /\ r.kind = calls[c].kind
                 /\ calls[c].phase \in {"sent", "served"}
    <3>1. calls[c] \in CallRecord
      BY <1>0
    <3>2. CASE ProbeEnds(c)
      <4>1. PICK outcome \in {"found", "absent"} : calls' = [calls EXCEPT ![c] = [calls[c] EXCEPT !.phase = outcome]]
        BY <3>2 DEF ProbeEnds
      <4>. QED BY <3>1, <3>2, <4>1 DEF ProbeEnds, CallRecord
    <3>3. CASE RefuseGrant(c)
      <4>1. calls' = [calls EXCEPT ![c] = [calls[c] EXCEPT !.phase = "refusing", !.since = now]]
        BY <1>0, <3>3 DEF RefuseGrant
      <4>. QED BY <3>1, <3>3, <4>1 DEF RefuseGrant, CallRecord
    <3>4. ASSUME NEW h \in Handles, NEW mode \in GrantedModes, Granted(c, h, mode)
          PROVE  \E r : /\ calls' = [calls EXCEPT ![c] = r] /\ r.kind = calls[c].kind
                        /\ calls[c].phase \in {"sent", "served"}
      <4>1. calls' = [calls EXCEPT ![c] = [calls[c] EXCEPT !.phase = "served", !.handle = h]]
        BY <1>0, <3>4 DEF Granted
      <4>. QED BY <3>1, <3>4, <4>1 DEF Granted, CallRecord
    <3>. QED BY <1>6, <3>2, <3>3, <3>4
  <2>3. \A d \in Calls : /\ calls'[d].kind = "connect" => calls[d].kind = "connect"
                         /\ calls[d].phase = "awaiting" => calls'[d].phase = "awaiting"
    BY <1>0, <2>2
  <2>. QED BY <1>1, <2>1, <2>3
<1>7. ASSUME NEW c \in Calls, Connected(c) PROVE OneAttempt'
  <2>1. connection = NoHandle /\ timers = {} /\ c \in Connecting
    BY <1>0, <1>7 DEF Connected
  <2>2. calls[c].handle \in Handles
    BY <1>0, <1>7 DEF Connected, Owned, CallRecord
  <2>3. connection' # NoHandle /\ timers' = {connection'} \ {NoHandle} /\ UNCHANGED wanted
    BY <1>0, <1>7, <2>1, <2>2 DEF Connected
  <2>4. Connecting' = {} /\ Awaiting' = Awaiting
    BY <1>0, <1>7, <2>1 DEF Connected, Finish, IdleCall
  <2>. QED BY <2>1, <2>3, <2>4
<1>8. ASSUME NEW c \in Calls, DropConnection(c) PROVE OneAttempt'
  <2>1. Connecting' = {}
    BY <1>0, <1>8 DEF DropConnection, Finish, IdleCall, Call
  <2>2. connection' = NoHandle /\ timers' = {}
    BY <1>0, <1>8 DEF DropConnection, Drop, lifecycle
  <2>. QED BY <2>1, <2>2
<1>9. ASSUME NEW h \in Handles, Fire(h) \/ Answered(h) \/ Lost(h) \/ Alive(h) PROVE OneAttempt'
  BY <1>9 DEF Fire, Answered, Lost, Alive, lifecycle
<1>10. ASSUME NEW h \in Handles, Missed(h) PROVE OneAttempt'
  <2>1. UNCHANGED <<calls, wanted>>
    BY <1>10 DEF Missed
  <2>2. UNCHANGED <<connection, timers>> \/ (connection = h /\ Drop(h))
    BY <1>10 DEF Missed, lifecycle
  <2>. QED BY <1>0, <2>1, <2>2 DEF Drop
<1>11. CASE Tick \/ UNCHANGED vars
  BY <1>11 DEF Tick, vars, lifecycle
<1>. QED
  BY <1>2, <1>3, <1>4, <1>5, <1>6, <1>7, <1>8, <1>9, <1>10, <1>11 DEF Next, CallStep, BeatStep

-----------------------------------------------------------------------------
\* What was minted stays minted.
LEMMA MintedStep ==
  ASSUME Typed, Owned, [Next]_vars, NEW k \in Handles, session[k].phase # "fresh"
  PROVE  session'[k].phase # "fresh"
<1>0. /\ Provider!Settled \in [Handles -> Term] /\ Provider!Settled[k].phase # "fresh"
      /\ session \in [Handles -> Term]
  BY Settling DEF Typed, ProviderTyped
<1>1. ASSUME NEW c \in Calls, NEW h \in Handles, NEW mode \in GrantedModes, Granted(c, h, mode)
      PROVE  session'[k].phase # "fresh"
  BY <1>0, <1>1 DEF Granted, NextHandle
<1>2. ASSUME NEW c \in Calls, Released(c) PROVE session'[k].phase # "fresh"
  BY <1>0, <1>2 DEF Released, Provider!Blank
<1>3. ASSUME NEW h \in Handles, Answered(h) PROVE session'[k].phase # "fresh"
  BY <1>0, <1>3 DEF Answered, Term
<1>4. ASSUME NEW c \in Calls,
             \/ Discover(c) \/ Connect(c) \/ Disconnect(c) \/ ProbeEnds(c) \/ ConnectFails(c)
             \/ RefuseGrant(c) \/ ReplaceRegistry(c) \/ Connected(c) \/ DropConnection(c)
             \/ DisconnectFails(c)
      PROVE  UNCHANGED session
  BY <1>4 DEF Discover, Connect, Disconnect, ProbeEnds, ConnectFails, RefuseGrant, ReplaceRegistry,
              Connected, DropConnection, DisconnectFails, provider
<1>5. ASSUME NEW h \in Handles, Fire(h) \/ Lost(h) \/ Alive(h) \/ Missed(h) PROVE UNCHANGED session
  BY <1>5 DEF Fire, Lost, Alive, Missed, provider
<1>6. CASE Tick \/ UNCHANGED vars
  BY <1>6 DEF Tick, vars, provider
<1>. QED
  BY <1>1, <1>2, <1>3, <1>4, <1>5, <1>6 DEF Next, CallStep, BeatStep

\* Two do not get hold of one handle.
LEMMA OwnedStep ==
  ASSUME Typed, PhasesFit, OneAttempt, Owned, Leased, [Next]_vars
  PROVE  Owned'
<1>. USE DEF Owned
<1>0. /\ calls \in [Calls -> CallRecord] /\ connection \in Handles \cup {NoHandle}
      /\ NoHandle \notin Handles
      /\ \A c \in Calls : calls[c].handle \in Handles \cup {NoHandle}
      /\ \A k \in Handles : session[k].phase # "fresh" => session'[k].phase # "fresh"
  BY MintedStep, ClientAssumption DEF Typed, CallsTyped, CallRecord, ClientTyped
<1>1. ASSUME connection' \in {connection, NoHandle},
             \A d \in Calls :
               /\ calls'[d].handle \in {calls[d].handle, NoHandle}
               /\ calls'[d].phase \in {"served", "refusing"} => calls'[d].handle # NoHandle
               /\ calls'[d].kind = "disconnect" /\ calls'[d].phase = "sent"
                    => calls'[d].handle # NoHandle
      PROVE  Owned'
  BY <1>0, <1>1
<1>2. ASSUME NEW c \in Calls, Discover(c) \/ Connect(c) \/ Disconnect(c) PROVE Owned'
  BY <1>0, <1>1, <1>2 DEF Discover, Connect, Disconnect, Call, lifecycle
<1>3. ASSUME NEW c \in Calls,
             \/ ConnectFails(c) \/ ReplaceRegistry(c) \/ DisconnectFails(c) \/ Released(c)
      PROVE  Owned'
  BY <1>0, <1>1, <1>3 DEF ConnectFails, ReplaceRegistry, DisconnectFails, Released, Finish, IdleCall,
                          lifecycle
<1>4. ASSUME NEW c \in Calls, ProbeEnds(c) PROVE Owned'
  BY <1>0, <1>1, <1>4 DEF ProbeEnds, CallRecord, lifecycle
<1>5. ASSUME NEW c \in Calls, RefuseGrant(c) PROVE Owned'
  BY <1>0, <1>1, <1>5 DEF RefuseGrant, CallRecord, lifecycle
<1>6. ASSUME NEW c \in Calls, NEW h \in Handles, NEW mode \in GrantedModes, Granted(c, h, mode)
      PROVE  Owned'
  <2>1. session[h].phase = "fresh" /\ session'[h].phase = "held" /\ connection' = connection
    BY <1>6, Settling DEF Granted, NextHandle, Provider!Blank, lifecycle
  <2>2. h # connection
    BY <1>0, <2>1 DEF Leased
  <2>3. \A d \in Calls : calls[d].handle # h
    BY <1>0, <2>1
  <2>4. /\ calls'[c].handle = h /\ calls'[c].phase = "served"
        /\ \A d \in Calls \ {c} : calls'[d] = calls[d]
    BY <1>0, <1>6 DEF Granted, CallRecord
  <2>. QED BY <1>0, <2>1, <2>2, <2>3, <2>4
<1>7. ASSUME NEW c \in Calls, Connected(c) PROVE Owned'
  <2>1. /\ connection' = calls[c].handle /\ calls[c].handle # NoHandle
        /\ calls'[c] = IdleCall /\ \A d \in Calls \ {c} : calls'[d] = calls[d]
    BY <1>0, <1>7 DEF Connected, Finish
  <2>. QED BY <1>0, <2>1 DEF IdleCall
<1>8. ASSUME NEW c \in Calls, DropConnection(c) PROVE Owned'
  <2>1. CASE Finish(c) /\ UNCHANGED connection
    BY <1>0, <1>1, <2>1 DEF Finish, IdleCall
  <2>2. CASE /\ connection # NoHandle /\ connection' = NoHandle
             /\ calls' = [calls EXCEPT ![c] = Call("disconnect", "sent", connection)]
    <3>1. session'[connection].phase # "fresh"
      BY <1>0, <2>2 DEF Leased
    <3>2. /\ calls'[c].handle = connection
          /\ \A d \in Calls \ {c} : calls'[d] = calls[d]
      BY <1>0, <2>2 DEF Call
    <3>. QED BY <1>0, <2>2, <3>1, <3>2
  <2>. QED BY <1>8, <2>1, <2>2 DEF DropConnection, Drop, lifecycle
<1>9. ASSUME NEW h \in Handles, BeatStep(h) PROVE Owned'
  <2>1. UNCHANGED calls /\ connection' \in {connection, NoHandle}
    BY <1>9 DEF BeatStep, Fire, Answered, Lost, Alive, Missed, Drop, lifecycle
  <2>. QED BY <1>0, <1>1, <2>1
<1>10. CASE Tick \/ UNCHANGED vars
  BY <1>0, <1>1, <1>10 DEF Tick, vars, lifecycle
<1>. QED
  BY <1>2, <1>3, <1>4, <1>5, <1>6, <1>7, <1>8, <1>9, <1>10 DEF Next, CallStep

\* Fetches are prompt, and grants wait for their answers only.
LEMMA PromptStep ==
  ASSUME Typed, PhasesFit, OneAttempt, Owned, Prompt, Leased, [Next]_vars
  PROVE  Prompt'
<1>. USE DEF Prompt
<1>0. /\ calls \in [Calls -> CallRecord] /\ now \in Nat
      /\ session \in [Handles -> Term] /\ Provider!Settled \in [Handles -> Term]
      /\ \A d \in Calls : calls[d].since \in Nat /\ calls[d].since <= now
      /\ \A d \in Calls : calls[d].phase = "served" => calls[d].handle \in Handles
      /\ \A k \in Handles : Provider!Settled[k].mode = "hard" => Provider!Settled[k] = session[k]
  BY Settling, ClientAssumption DEF Typed, ProviderTyped, CallsTyped, CallRecord, Owned
<1>1. ASSUME now' = now,
             \A d \in Calls : \/ calls'[d] = calls[d]
                              \/ calls'[d].phase \notin {"sent", "served", "refusing"}
                              \/ calls'[d].phase # "served" /\ calls'[d].since = now,
             \A d \in Calls : calls[d].phase = "served" =>
               (session'[calls[d].handle].mode = "hard"
                  => session'[calls[d].handle] = session[calls[d].handle])
      PROVE  Prompt'
  BY <1>0, <1>1
<1>2. ASSUME NEW c \in Calls, Discover(c) \/ Connect(c) \/ Disconnect(c) PROVE Prompt'
  BY <1>0, <1>1, <1>2 DEF Discover, Connect, Disconnect, Call, provider
<1>3. ASSUME NEW c \in Calls,
             \/ ConnectFails(c) \/ ReplaceRegistry(c) \/ DisconnectFails(c) \/ Connected(c)
             \/ DropConnection(c)
      PROVE  Prompt'
  BY <1>0, <1>1, <1>3 DEF ConnectFails, ReplaceRegistry, DisconnectFails, Connected, DropConnection,
                          Finish, IdleCall, Call, provider
<1>4. ASSUME NEW c \in Calls, ProbeEnds(c) PROVE Prompt'
  BY <1>0, <1>1, <1>4 DEF ProbeEnds, CallRecord, provider
<1>5. ASSUME NEW c \in Calls, RefuseGrant(c) PROVE Prompt'
  BY <1>0, <1>1, <1>5 DEF RefuseGrant, CallRecord, provider
<1>6. ASSUME NEW c \in Calls, Released(c) PROVE Prompt'
  <2>1. calls[c].phase # "served" /\ calls[c].handle # NoHandle
    BY <1>6 DEF Released, Owned
  <2>2. \A d \in Calls : calls[d].phase = "served" => calls[d].handle # calls[c].handle
    BY <2>1 DEF Owned
  <2>3. \A d \in Calls : calls[d].phase = "served" =>
          session'[calls[d].handle] = Provider!Settled[calls[d].handle]
    BY <1>0, <1>6, <2>2 DEF Released
  <2>. QED BY <1>0, <1>1, <1>6, <2>3 DEF Released, Finish, IdleCall
<1>7. ASSUME NEW c \in Calls, NEW h \in Handles, NEW mode \in GrantedModes, Granted(c, h, mode)
      PROVE  Prompt'
  <2>1. \A d \in Calls : calls[d].handle # h
    BY <1>7, ClientAssumption DEF Granted, NextHandle, Owned
  <2>2. /\ calls'[c] = [calls[c] EXCEPT !.phase = "served", !.handle = h] /\ now' = now
        /\ \A d \in Calls \ {c} : calls'[d] = calls[d]
    BY <1>0, <1>7 DEF Granted
  <2>3. \A k \in Handles \ {h} : session'[k] = Provider!Settled[k]
    BY <1>0, <1>7 DEF Granted
  <2>4. session'[h].mode = "hard" => session'[h].phase = "held" /\ session'[h].ttl = TTL /\ session'[h].since = now
    BY <1>0, <1>7, ClientAssumption DEF Granted, Provider!Blank
  <2>5. calls[c].phase = "sent"
    BY <1>7 DEF Granted
  <2>6. calls'[c].since = calls[c].since /\ calls'[c].phase = "served" /\ calls'[c].handle = h
    BY <1>0, <2>2 DEF CallRecord
  <2>7. /\ now' <= calls'[c].since + 1
        /\ session'[h].mode = "hard" =>
             session'[h].phase = "held" /\ session'[h].ttl = TTL /\ calls'[c].since <= session'[h].since
    BY <1>0, <2>2, <2>4, <2>5, <2>6
  <2>8. ASSUME NEW d \in Calls \ {c}
        PROVE  /\ calls'[d].phase \in {"sent", "served", "refusing"} => now' <= calls'[d].since + 1
               /\ calls'[d].phase = "served" /\ session'[calls'[d].handle].mode = "hard" =>
                    /\ session'[calls'[d].handle].phase = "held"
                    /\ session'[calls'[d].handle].ttl = TTL
                    /\ calls'[d].since <= session'[calls'[d].handle].since
    <3>1. calls'[d] = calls[d] /\ now' = now
      BY <2>2
    <3>2. calls[d].phase = "served" => session'[calls[d].handle] = Provider!Settled[calls[d].handle]
      BY <1>0, <2>1, <2>3
    <3>. QED BY <1>0, <3>1, <3>2
  <2>. QED BY <2>6, <2>7, <2>8
<1>8. ASSUME NEW h \in Handles, Answered(h) PROVE Prompt'
  <2>1. UNCHANGED <<now, calls>>
    BY <1>8 DEF Answered
  <2>2. \A k \in Handles \ {h} : session'[k] = Provider!Settled[k]
    BY <1>0, <1>8 DEF Answered
  <2>3. session'[h] = Provider!Settled[h] \/ session'[h] = [Provider!Settled[h] EXCEPT !.since = now]
    BY <1>0, <1>8 DEF Answered
  <2>. QED BY <1>0, <2>1, <2>2, <2>3 DEF Term
<1>9. ASSUME NEW h \in Handles, Fire(h) \/ Lost(h) \/ Alive(h) \/ Missed(h) PROVE Prompt'
  BY <1>9 DEF Fire, Lost, Alive, Missed, provider
<1>10. CASE Tick
  <2>1. \A d \in Calls : calls[d].phase \in {"sent", "served", "refusing"} => calls[d].since = now
    BY <1>10 DEF Tick, Waiting
  <2>. QED BY <1>0, <1>10, <2>1 DEF Tick
<1>11. CASE UNCHANGED vars
  BY <1>11 DEF vars, provider
<1>. QED
  BY <1>2, <1>3, <1>4, <1>5, <1>6, <1>7, <1>8, <1>9, <1>10, <1>11 DEF Next, CallStep, BeatStep

\* The connection's lease keeps up with its heartbeats.
LEMMA LeasedStep ==
  ASSUME Typed, PhasesFit, OneAttempt, Owned, Prompt, Leased, [Next]_vars
  PROVE  Leased'
<1>. USE DEF Leased
<1>0. /\ calls \in [Calls -> CallRecord] /\ now \in Nat /\ now' \in Nat /\ NoHandle \notin Handles
      /\ connection \in Handles \cup {NoHandle}
      /\ session \in [Handles -> Term] /\ beats \in [Handles -> BeatRecord]
      /\ fired \in [Handles -> Nat] /\ misses \in [Handles -> Nat]
      /\ \A h \in Handles : fired[h] <= now
  BY ClientAssumption, Growth DEF Typed, ProviderTyped, CallsTyped, ClientTyped, BeatsTyped
<1>1. ASSUME connection # NoHandle
      PROVE  /\ connection \in Handles /\ Provider!IsHeld(connection)
             /\ Provider!Settled[connection] = session[connection]
             /\ timers = {connection} /\ Connecting = {}
             /\ session[connection].since \in Nat
  BY <1>0, <1>1, ConnectionLasts DEF OneAttempt, Term
<1>2. ASSUME UNCHANGED <<now, connection, misses, fired, beats>>,
             connection # NoHandle => session'[connection] = session[connection]
      PROVE  Leased'
  BY <1>2
<1>3. ASSUME NEW c \in Calls,
             \/ Discover(c) \/ Connect(c) \/ Disconnect(c) \/ ProbeEnds(c) \/ ConnectFails(c)
             \/ RefuseGrant(c) \/ ReplaceRegistry(c) \/ DisconnectFails(c)
      PROVE  Leased'
  BY <1>2, <1>3 DEF Discover, Connect, Disconnect, ProbeEnds, ConnectFails, RefuseGrant,
                    ReplaceRegistry, DisconnectFails, provider, lifecycle
<1>4. ASSUME NEW c \in Calls, Released(c) PROVE Leased'
  <2>1. calls[c].handle # connection
    BY <1>4 DEF Released, Owned
  <2>2. connection # NoHandle => session'[connection] = Provider!Settled[connection]
    BY <1>1, <1>4, <2>1, Settling DEF Released
  <2>. QED BY <1>1, <1>2, <1>4, <2>2 DEF Released, lifecycle
<1>5. ASSUME NEW c \in Calls, NEW h \in Handles, NEW mode \in GrantedModes, Granted(c, h, mode)
      PROVE  Leased'
  BY <1>1, <1>5 DEF Granted, Connecting, lifecycle
<1>6. ASSUME NEW c \in Calls, Connected(c) PROVE Leased'
  <2>1. /\ calls[c].phase = "served" /\ session[calls[c].handle].mode = "hard"
        /\ connection' = calls[c].handle /\ fired' = [fired EXCEPT ![connection'] = now]
        /\ UNCHANGED <<now, session, misses, beats>>
    BY <1>6 DEF Connected, provider
  <2>2. connection' \in Handles
    BY <1>0, <2>1 DEF Owned, CallRecord
  <2>3. /\ session[connection'].phase = "held" /\ session[connection'].ttl = TTL
        /\ now <= calls[c].since + 1 /\ calls[c].since <= session[connection'].since
    BY <2>1 DEF Prompt
  <2>4. calls[c].since \in Nat /\ session[connection'].since \in Nat /\ fired'[connection'] = now
    BY <1>0, <2>1, <2>2 DEF CallRecord, Term
  <2>5. misses[connection'] \in Nat
    BY <1>0, <2>2
  <2>. QED BY <1>0, <2>1, <2>2, <2>3, <2>4, <2>5
<1>7. ASSUME NEW c \in Calls, DropConnection(c) PROVE Leased'
  <2>1. connection' = NoHandle
    BY <1>7 DEF DropConnection, Drop, lifecycle
  <2>. QED BY <2>1
<1>8. ASSUME NEW h \in Handles, Fire(h) PROVE Leased'
  <2>1. /\ connection # NoHandle /\ h = connection /\ beats[h] = NoBeat
        /\ fired' = [fired EXCEPT ![h] = now] /\ UNCHANGED <<now, session, connection, misses>>
        /\ beats' = [beats EXCEPT ![h] = [phase |-> "sent", entry |-> Current, since |-> now]]
    BY <1>0, <1>1, <1>8 DEF Fire, OneAttempt, provider
  <2>2. fired'[h] = now /\ beats'[h].phase = "sent" /\ now <= fired[h] + 1
    BY <1>0, <2>1
  <2>3. fired[h] <= session[h].since + 1 + misses[h]
    BY <1>0, <1>1, <2>1 DEF NoBeat
  <2>. QED BY <1>0, <1>1, <2>1, <2>2, <2>3
<1>9. ASSUME NEW h \in Handles, Answered(h) PROVE Leased'
  <2>1. UNCHANGED <<now, connection, misses, fired>>
    BY <1>9 DEF Answered, lifecycle
  <2>2. CASE connection # h
    <3>1. connection # NoHandle =>
            session'[connection] = session[connection] /\ beats'[connection] = beats[connection]
      BY <1>0, <1>1, <1>9, <2>2, Settling DEF Answered
    <3>. QED BY <2>1, <3>1
  <2>3. CASE connection = h
    <3>1. /\ session'[h] = [session[h] EXCEPT !.since = now]
          /\ beats'[h] = [beats[h] EXCEPT !.phase = "alive"]
      BY <1>0, <1>1, <1>9, <2>3, Settling DEF Answered
    <3>2. /\ session'[h].since = now /\ session'[h].phase = "held" /\ session'[h].mode = "hard"
          /\ session'[h].ttl = TTL /\ beats'[h].phase = "alive"
      BY <1>0, <2>3, <3>1 DEF Term, BeatRecord
    <3>. QED BY <1>0, <2>1, <2>3, <3>2
  <2>. QED BY <2>2, <2>3
<1>10. ASSUME NEW h \in Handles, Lost(h) PROVE Leased'
  <2>1. UNCHANGED <<now, session, connection, misses, fired>> /\ beats[h].phase \in {"sent", "alive"}
    BY <1>10 DEF Lost, provider, lifecycle
  <2>2. beats'[h].phase = "missed" /\ \A k \in Handles \ {h} : beats'[k] = beats[k]
    BY <1>0, <1>10 DEF Lost, BeatRecord
  <2>. QED BY <1>0, <1>1, <2>1, <2>2
<1>11. ASSUME NEW h \in Handles, Alive(h) \/ Missed(h) PROVE Leased'
  <2>1. CASE connection # h
    <3>1. UNCHANGED <<now, session, connection, fired, misses>>
      BY <1>11, <2>1 DEF Alive, Missed, provider, lifecycle
    <3>2. \A k \in Handles \ {h} : beats'[k] = beats[k]
      BY <1>0, <1>11 DEF Alive, Missed
    <3>. QED BY <1>1, <2>1, <3>1, <3>2
  <2>2. CASE connection = h /\ Alive(h)
    <3>1. /\ UNCHANGED <<now, session, connection, fired>> /\ beats[h].phase = "alive"
          /\ misses'[h] = 0 /\ beats'[h].phase = "none"
      BY <1>0, <2>2 DEF Alive, NoBeat, provider
    <3>. QED BY <1>0, <1>1, <2>2, <3>1
  <2>3. CASE connection = h /\ Missed(h) /\ connection' # NoHandle
    <3>1. /\ UNCHANGED <<now, session, connection, fired>> /\ beats[h].phase = "missed"
          /\ misses'[h] = misses[h] + 1 /\ beats'[h].phase = "none"
      BY <1>0, <2>3 DEF Missed, Drop, NoBeat, provider
    <3>. QED BY <1>0, <1>1, <2>3, <3>1
  <2>. QED BY <1>11, <2>1, <2>2, <2>3
<1>12. CASE Tick
  <2>1. /\ UNCHANGED <<session, connection, misses, fired, beats>> /\ now' = now + 1
        /\ connection # NoHandle => fired[connection] = now
    BY <1>1, <1>12 DEF Tick, lifecycle
  <2>. QED BY <1>0, <1>1, <2>1
<1>13. CASE UNCHANGED vars
  BY <1>2, <1>13 DEF vars, provider, lifecycle
<1>. QED
  BY <1>3, <1>4, <1>5, <1>6, <1>7, <1>8, <1>9, <1>10, <1>11, <1>12, <1>13 DEF Next, CallStep, BeatStep

-----------------------------------------------------------------------------
LEMMA Initially == Init => IInv
<1>. SUFFICES ASSUME Init PROVE IInv
  OBVIOUS
<1>. USE ClientAssumption DEF Init
<1>1. ProviderTyped
  BY DEF ProviderTyped, Term, Provider!Blank, Provider!Modes
<1>2. ClientTyped
  BY DEF ClientTyped
<1>3. BeatsTyped
  BY DEF BeatsTyped, BeatRecord, NoBeat
<1>4. CallsTyped
  BY DEF CallsTyped, CallRecord, IdleCall, Kinds, Phases
<1>5. CallsOK
  BY DEF CallsOK, PhasesFit, OneAttempt, Connecting, IdleCall
<1>6. LeaseOK
  BY DEF LeaseOK, Owned, Prompt, Leased, IdleCall
<1>. QED BY <1>1, <1>2, <1>3, <1>4, <1>5, <1>6 DEF IInv, Typed

LEMMA Inductive == IInv /\ [Next]_vars => IInv'
BY TypedStep, PhasesStep, AttemptStep, OwnedStep, PromptStep, LeasedStep
   DEF IInv, CallsOK, LeaseOK

\* Every reachable state satisfies the invariant, under any number of calls.
THEOREM Invariance == Spec => []IInv
<1>. QED BY Initially, Inductive, PTL DEF Spec

\* The extension's maps hold what the script puts in them.
THEOREM TypeCorrect == Spec => []TypeOK
<1>1. IInv => TypeOK
  <2>. SUFFICES ASSUME IInv PROVE TypeOK
    OBVIOUS
  <2>. USE DEF IInv, Typed
  <2>1. now \in Nat /\ Len(entries) \in Nat
    BY DEF ProviderTyped, ClientTyped
  <2>2. \A i \in DOMAIN entries : entries[i] \in Entry
    BY DEF ClientTyped
  <2>3. \A h \in Handles : fired[h] \in 0..now
    BY <2>1 DEF BeatsTyped
  <2>4. \A h \in Handles : /\ beats[h].phase \in {"none", "sent", "alive", "missed"}
                           /\ beats[h].entry \in 0..Current
    BY <2>1 DEF BeatsTyped, BeatRecord, Current
  <2>5. \A c \in Calls : /\ calls[c].kind \in Kinds /\ calls[c].phase \in Phases
                         /\ calls[c].entry \in 0..Current
    BY <2>1 DEF CallsTyped, CallRecord, Current
  <2>. QED BY <2>1, <2>2, <2>3, <2>4, <2>5 DEF TypeOK, Entry, ClientTyped, BeatsTyped
<1>. QED BY <1>1, Invariance, PTL

\* Exactly the connection in the map has a heartbeat interval, however the
\* page's calls, the heartbeats and the discoveries overlap.
THEOREM TimersMatch == Spec => []OneTimerPerConnection
<1>1. IInv => OneTimerPerConnection
  BY DEF IInv, CallsOK, OneAttempt, OneTimerPerConnection
<1>. QED BY <1>1, Invariance, PTL

\* disconnectService waits for a connect in progress: a disconnect asked last wins.
THEOREM DisconnectWins == Spec => []LastWordWins
<1>1. IInv => LastWordWins
  <2>. SUFFICES ASSUME IInv, wanted = "disconnect",
                       \A c \in Calls : calls[c].kind \in {"none", "discover"}
                PROVE  connection = NoHandle
    BY DEF LastWordWins
  <2>1. Awaiting = {}
    BY DEF IInv, CallsOK, PhasesFit, Awaiting
  <2>. QED BY <2>1 DEF IInv, CallsOK, OneAttempt
<1>. QED BY <1>1, Invariance, PTL

\* While the extension holds a connection the provider holds its session: for
\* every lease and limit of misses with HEARTBEAT_MAX_MISSES + 2 < 3 * TTL.
THEOREM ConnectionOutlived == Spec => []ConnectionIsHeld
<1>1. IInv => ConnectionIsHeld
  BY ConnectionLasts DEF IInv, LeaseOK, ConnectionIsHeld
<1>. QED BY <1>1, Invariance, PTL

-----------------------------------------------------------------------------
\* A heartbeat is only ever sent for a hard lease.
Beaten ==
  \A h \in Handles : beats[h].phase # "none" =>
    session[h].phase = "consumed" \/ (session[h].phase = "held" /\ session[h].mode = "hard")

\* What a step does to a session that was minted: nothing, renew it or end it.
LEMMA MintedLasts ==
  ASSUME Typed, Owned, [Next]_vars, NEW h \in Handles, session[h].phase # "fresh"
  PROVE  \/ session'[h].phase = "consumed"
         \/ session'[h].phase = session[h].phase /\ session'[h].mode = session[h].mode
<1>0. /\ session \in [Handles -> Term] /\ Provider!Settled \in [Handles -> Term]
      /\ Provider!Settled[h] = session[h] \/ Provider!Settled[h].phase = "consumed"
  BY Settling DEF Typed, ProviderTyped, Provider!Settled, Provider!Blank
<1>1. CASE UNCHANGED session
  BY <1>1
<1>2. ASSUME NEW c \in Calls, NEW k \in Handles, NEW mode \in GrantedModes, Granted(c, k, mode)
      PROVE  session'[h] = Provider!Settled[h]
  BY <1>0, <1>2 DEF Granted, NextHandle
<1>3. ASSUME NEW c \in Calls, Released(c)
      PROVE  session'[h] = Provider!Settled[h] \/ session'[h].phase = "consumed"
  BY <1>0, <1>3 DEF Released, Provider!Blank
<1>4. ASSUME NEW k \in Handles, Answered(k)
      PROVE  \/ session'[h].phase = "consumed"
             \/ session'[h].phase = session[h].phase /\ session'[h].mode = session[h].mode
  <2>1. session'[h] = Provider!Settled[h] \/ session'[h] = [Provider!Settled[h] EXCEPT !.since = now]
    BY <1>0, <1>4 DEF Answered
  <2>. QED BY <1>0, <2>1 DEF Term
<1>5. ASSUME NEW c \in Calls,
             \/ Discover(c) \/ Connect(c) \/ Disconnect(c) \/ ProbeEnds(c) \/ ConnectFails(c)
             \/ RefuseGrant(c) \/ ReplaceRegistry(c) \/ Connected(c) \/ DropConnection(c)
             \/ DisconnectFails(c)
      PROVE  UNCHANGED session
  BY <1>5 DEF Discover, Connect, Disconnect, ProbeEnds, ConnectFails, RefuseGrant, ReplaceRegistry,
              Connected, DropConnection, DisconnectFails, provider
<1>6. ASSUME NEW k \in Handles, Fire(k) \/ Lost(k) \/ Alive(k) \/ Missed(k) PROVE UNCHANGED session
  BY <1>6 DEF Fire, Lost, Alive, Missed, provider
<1>7. CASE Tick \/ UNCHANGED vars
  BY <1>7 DEF Tick, vars, provider
<1>. QED
  BY <1>0, <1>1, <1>2, <1>3, <1>4, <1>5, <1>6, <1>7 DEF Next, CallStep, BeatStep

LEMMA BeatenStep ==
  ASSUME IInv, Beaten, [Next]_vars
  PROVE  Beaten'
<1>. USE DEF IInv, Beaten
<1>0. /\ beats \in [Handles -> BeatRecord] /\ connection \in Handles \cup {NoHandle}
      /\ connection # NoHandle => session[connection].phase = "held" /\ session[connection].mode = "hard"
  BY DEF Typed, BeatsTyped, ClientTyped, LeaseOK, Leased
<1>1. ASSUME NEW h \in Handles, beats'[h].phase # "none", beats[h].phase = "none"
      PROVE  h = connection /\ UNCHANGED session
  <2>1. ASSUME NEW k \in Handles, Fire(k) PROVE h = connection /\ UNCHANGED session
    BY <1>0, <1>1, <2>1 DEF Fire, provider
  <2>2. ASSUME NEW k \in Handles, Answered(k) \/ Lost(k) \/ Alive(k) \/ Missed(k) PROVE FALSE
    BY <1>0, <1>1, <2>2 DEF Answered, Lost, Alive, Missed, NoBeat
  <2>3. ASSUME NEW c \in Calls, \/ Discover(c) \/ Connect(c) \/ Disconnect(c) \/ CallStep(c)
        PROVE  UNCHANGED beats
    BY <2>3 DEF Discover, Connect, Disconnect, CallStep, ProbeEnds, ConnectFails, RefuseGrant,
                ReplaceRegistry, Connected, DropConnection, DisconnectFails, Granted, Released
  <2>4. CASE Tick \/ UNCHANGED vars
    BY <1>1, <2>4 DEF Tick, vars
  <2>. QED BY <1>1, <2>1, <2>2, <2>3, <2>4 DEF Next, BeatStep
<1>2. ASSUME NEW h \in Handles, beats'[h].phase # "none"
      PROVE  session'[h].phase = "consumed" \/ (session'[h].phase = "held" /\ session'[h].mode = "hard")
  <2>1. CASE beats[h].phase = "none"
    BY <1>0, <1>1, <1>2, <2>1, ClientAssumption
  <2>2. CASE beats[h].phase # "none"
    BY <1>2, <2>2, MintedLasts DEF LeaseOK
  <2>. QED BY <2>1, <2>2
<1>. QED BY <1>2

\* Every step is one the contract lets a client cause.
LEMMA ContractStep ==
  ASSUME IInv, Beaten, [Next]_vars
  PROVE  [Provider!Next]_(Provider!vars)
<1>. USE DEF IInv
<1>0. now \in Nat /\ session \in [Handles -> Term] /\ Provider!Settled \in [Handles -> Term]
  BY Settling DEF Typed, ProviderTyped
<1>1. CASE UNCHANGED <<now, session>>
  BY <1>1 DEF Provider!vars
<1>2. CASE Tick
  BY <1>0, <1>2 DEF Tick, Provider!Next, Provider!Wait, Provider!TimePasses
<1>3. ASSUME NEW c \in Calls, NEW h \in Handles, NEW mode \in GrantedModes, Granted(c, h, mode)
      PROVE  Provider!Grant(h)
  <2>1. now' = now /\ Provider!TimePasses
    BY <1>0, <1>3 DEF Granted, Provider!TimePasses
  <2>2. /\ session'[h] \in Provider!Held
        /\ session'[h].mode # "legacy" => session'[h].since = now
        /\ session' = [Provider!Settled EXCEPT ![h] = session'[h]]
    BY <1>0, <1>3, ClientAssumption DEF Granted, Provider!Held, Provider!Modes, Provider!Blank
  <2>3. session[h].phase = "fresh" /\ Cardinality({k \in Handles : Provider!IsHeld(k)}) < Capacity
    BY <1>3 DEF Granted, NextHandle
  <2>4. session'[h].mode # "legacy" => Provider!StartsNow(session'[h])
    BY <1>0, <2>1, <2>2 DEF Provider!StartsNow
  <2>5. Provider!Cardinality({k \in Handles : Provider!IsHeld(k)})
          = Cardinality({k \in Handles : Provider!IsHeld(k)})
    BY DEF Cardinality, Provider!Cardinality
  <2>. QED BY <2>1, <2>2, <2>3, <2>4, <2>5 DEF Provider!Grant
<1>4. ASSUME NEW c \in Calls, Released(c)
      PROVE  Provider!Settle \/ \E h \in Handles : Provider!Release(h)
  <2>1. calls[c].handle \in Handles
    BY <1>4 DEF Released, LeaseOK, Owned, Typed, CallsTyped, CallRecord
  <2>2. Provider!TimePasses
    BY <1>0, <1>4 DEF Released, Provider!TimePasses
  <2>3. CASE Provider!IsHeld(calls[c].handle)
    BY <1>4, <2>1, <2>2, <2>3 DEF Released, Provider!Release
  <2>4. CASE ~Provider!IsHeld(calls[c].handle)
    BY <1>4, <2>2, <2>4 DEF Released, Provider!Settle
  <2>. QED BY <2>1, <2>3, <2>4
<1>5. ASSUME NEW h \in Handles, Answered(h)
      PROVE  Provider!Settle \/ Provider!Renew(h)
  <2>1. now' = now /\ Provider!TimePasses /\ beats[h].phase = "sent"
    BY <1>0, <1>5 DEF Answered, Provider!TimePasses
  <2>2. CASE ~Provider!IsHeld(h)
    BY <1>5, <2>1, <2>2 DEF Answered, Provider!Settle
  <2>3. CASE Provider!IsHeld(h)
    <3>1. session[h].mode = "hard"
      BY <2>1, <2>3 DEF Beaten, Provider!IsHeld
    <3>2. session' = [Provider!Settled EXCEPT ![h].since = now]
      BY <1>5, <2>3 DEF Answered
    <3>3. session'[h].since = now
      BY <1>0, <3>2 DEF Term
    <3>. QED BY <1>0, <2>1, <2>3, <3>1, <3>2, <3>3 DEF Provider!Renew, Provider!StartsNow
  <2>. QED BY <2>2, <2>3
<1>6. ASSUME NEW c \in Calls,
             \/ Discover(c) \/ Connect(c) \/ Disconnect(c) \/ ProbeEnds(c) \/ ConnectFails(c)
             \/ RefuseGrant(c) \/ ReplaceRegistry(c) \/ Connected(c) \/ DropConnection(c)
             \/ DisconnectFails(c)
      PROVE  UNCHANGED <<now, session>>
  BY <1>6 DEF Discover, Connect, Disconnect, ProbeEnds, ConnectFails, RefuseGrant, ReplaceRegistry,
              Connected, DropConnection, DisconnectFails, provider
<1>7. ASSUME NEW h \in Handles, Fire(h) \/ Lost(h) \/ Alive(h) \/ Missed(h)
      PROVE  UNCHANGED <<now, session>>
  BY <1>7 DEF Fire, Lost, Alive, Missed, provider
<1>8. CASE UNCHANGED vars
  BY <1>1, <1>8 DEF vars, provider
<1>. QED
  BY <1>1, <1>2, <1>3, <1>4, <1>5, <1>6, <1>7, <1>8 DEF Next, CallStep, BeatStep, Provider!Next

\* Whatever the extension and the network do to the provider, lost, late and
\* repeated requests included, the contract lets a client do.
THEOREM ClientKeepsContract == Spec => UsesContract
<1>1. Init => Provider!Init /\ Beaten
  BY DEF Init, Provider!Init, Beaten, NoBeat
<1>2. IInv /\ Beaten /\ [Next]_vars => Beaten'
  BY BeatenStep
<1>3. IInv /\ Beaten /\ [Next]_vars => [Provider!Next]_(Provider!vars)
  BY ContractStep
<1>. QED BY <1>1, <1>2, <1>3, Invariance, PTL DEF Spec, UsesContract, Provider!Spec

=============================================================================
