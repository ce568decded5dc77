--------------------------- MODULE GrooveHarness ---------------------------
(***************************************************************************)
(* The harness that a panel includes (src/harness/groove-harness.js): it   *)
(* asks its host which partners there are, connects to every one that      *)
(* offers what the panel consumes or the other way round, and asks each    *)
(* for a sign of life until it has not had one for too long.               *)
(*                                                                         *)
(* What is asynchronous is several steps: start, a discovery, a heartbeat. *)
(* The panel's callbacks return and do not call the harness. A discovery   *)
(* waits once, for the host behind gossamerInvoke, which may list whom it  *)
(* likes, refuse, or never answer. A page without such a host goes from    *)
(* port to port by fetch, and of a manifest it reads so it takes no        *)
(* capability: what comes of that is the empty list, or nothing.           *)
(* Time passes for the heartbeats; discoveries come at some time.          *)
(***************************************************************************)
EXTENDS Integers, Sequences, FiniteSets, Functions

CONSTANTS
  Partners,           \* the ids the host may list, the panel's own apart
  Inbound,            \* what each offers of what the panel consumes
  Outbound,           \* the partners that consume what the panel offers
  HeartbeatInterval,
  HeartbeatTimeout,
  Late,               \* how late a timer may fire
  MaxScans,           \* bound: discoveries at a time
  MaxStops            \* bound: calls of stop

ASSUME HarnessAssumption ==
  /\ IsFiniteSet(Partners)
  /\ HeartbeatInterval \in Nat \ {0}
  /\ HeartbeatTimeout \in Nat
  /\ Late \in Nat
  /\ MaxScans \in Nat \ {0}
  /\ MaxStops \in Nat

\* The timeout leaves room for one interval and a late timer: 15 s and 10 s.
ASSUME TimeoutAssumption == HeartbeatInterval + Late <= HeartbeatTimeout

VARIABLES
  started,    \* _started
  scans,      \* the calls of _discover that are running, start's among them
  ticking,    \* discovery timers that run
  handle,     \* _discoveryTimer is one of them
  partners,   \* _partners: what each brings, the time since its lastHeartbeat and
              \* whether it is being asked; history: how long it has not answered
              \* and been connected, whether it was away since it was last heard
  active,     \* _activeCapabilities: the provider of each
  beats,      \* heartbeat timers of each partner: how many run, when one is
              \* due, and whether _heartbeatTimers has it
  up,         \* the partners that answer in time
  stops

lifecycle == <<started, ticking, handle, stops>>
connections == <<partners, active, beats>>
vars == <<started, scans, ticking, handle, partners, active, beats, up, stops>>

----------------------------------------------------------------------------
Slots == 1..MaxScans

\* A discovery waits for the modules' provisioning or for the host; starter is
\* whether start waits for its end.
Free == [at |-> "free", starter |-> FALSE]
Provisioning == [at |-> "provisioning", starter |-> TRUE]
Asking(starter) == [at |-> "asked", starter |-> starter]

\* What the host may answer, in any order. The second entry of an id is passed
\* over, so a list with one does what it does without.
Lists == UNION {Injection(1..n, Partners) : n \in 0..Cardinality(Partners)}

\* The longest that a partner stays without a sign of life.
Patience == HeartbeatTimeout + HeartbeatInterval + Late

CapAt(n) == IF n > Patience THEN Patience + 1 ELSE n

NoBeat == [running |-> 0, due |-> 0, stored |-> FALSE]

----------------------------------------------------------------------------
\* Synchronous parts.

StartHeartbeats(new) ==
  beats' = [p \in Partners |->
              IF p \in new
              THEN [running |-> beats[p].running + 1, due |-> HeartbeatInterval, stored |-> TRUE]
              ELSE beats[p]]

\* _evaluatePartner: something in it matches.
Matches(p) == Inbound[p] # {} \/ p \in Outbound

\* Mutant of NewPartners: whether a partner is connected is not looked at.
AllPartners(found) == {p \in Range(found) : Matches(p)}

\* Those of a list that are not connected yet, and match.
NewPartners(found) == {p \in Range(found) : p \notin DOMAIN partners /\ Matches(p)}

\* The last of them in the list that brings c: it overwrites the others.
LastBringing(found, c) ==
  LET places == {i \in DOMAIN found : found[i] \in NewPartners(found) /\ c \in Inbound[found[i]]}
  IN found[CHOOSE i \in places : \A j \in places : j <= i]

\* _connectPartner for each of them.
ConnectPartners(found) ==
  LET new == NewPartners(found)
      brought == UNION {Inbound[p] : p \in new}
  IN
  /\ partners' = [q \in DOMAIN partners \cup new |->
                    IF q \in new THEN [inbound |-> Inbound[q], age |-> 0, asked |-> FALSE,
                                       quiet |-> 0, lapsed |-> q \notin up]
                    ELSE partners[q]]
  /\ active' = [c \in DOMAIN active \cup brought |->
                  IF c \in brought THEN LastBringing(found, c) ELSE active[c]]
  /\ StartHeartbeats(new)

\* Mutant of DisconnectPartners: of its capabilities those go that another
\* partner provides.
DisconnectOthers(gone) ==
  /\ partners' = Restrict(partners, DOMAIN partners \ gone)
  /\ active' = Restrict(active, {c \in DOMAIN active : ~\E p \in gone :
                                   c \in partners[p].inbound /\ active[c] # p})
  /\ beats' = [p \in Partners |-> IF p \in gone /\ beats[p].stored
                             THEN [beats[p] EXCEPT !.running = @ - 1, !.stored = FALSE]
                             ELSE beats[p]]

\* _disconnectPartner for each of them: what they brought is deleted.
DisconnectPartners(gone) ==
  /\ partners' = Restrict(partners, DOMAIN partners \ gone)
  /\ active' = Restrict(active, DOMAIN active \ UNION {partners[p].inbound : p \in gone})
  /\ beats' = [p \in Partners |-> IF p \in gone /\ beats[p].stored
                             THEN [beats[p] EXCEPT !.running = @ - 1, !.stored = FALSE]
                             ELSE beats[p]]

----------------------------------------------------------------------------
\* Calls of the panel.

start ==
  /\ ~started
  /\ started' = TRUE
  /\ \E slot \in Slots : scans[slot] = Free /\ scans' = [scans EXCEPT ![slot] = Provisioning]
  /\ UNCHANGED <<ticking, handle, connections, up, stops>>

\* Mutant of stop: the discovery timer is not looked at.
stopBlindly ==
  /\ started
  /\ stops < MaxStops
  /\ stops' = stops + 1
  /\ started' = FALSE
  /\ DisconnectPartners(DOMAIN partners)
  /\ ticking' = ticking - 1
  /\ handle' = FALSE
  /\ UNCHANGED <<scans, up>>

\* Whatever is waiting goes on.
stop ==
  /\ started
  /\ stops < MaxStops
  /\ stops' = stops + 1
  /\ started' = FALSE
  /\ DisconnectPartners(DOMAIN partners)
  /\ ticking' = IF handle THEN ticking - 1 ELSE ticking
  /\ handle' = FALSE
  /\ UNCHANGED <<scans, up>>

----------------------------------------------------------------------------
\* Discovery.

Provisioned(slot) ==
  /\ scans[slot].at = "provisioning"
  /\ scans' = [scans EXCEPT ![slot] = Asking(TRUE)]
  /\ UNCHANGED <<lifecycle, connections, up>>

\* Mutant of DiscoveryTimer: the timer fires once.
DiscoveryTimerOnce ==
  /\ ticking > 0
  /\ \E slot \in Slots : scans[slot] = Free /\ scans' = [scans EXCEPT ![slot] = Asking(FALSE)]
  /\ ticking' = ticking - 1
  /\ UNCHANGED <<started, handle, stops, connections, up>>

DiscoveryTimer ==
  /\ ticking > 0
  /\ \E slot \in Slots : scans[slot] = Free /\ scans' = [scans EXCEPT ![slot] = Asking(FALSE)]
  /\ UNCHANGED <<lifecycle, connections, up>>

\* start goes on: it sets the timer whether or not stop was called meanwhile,
\* and forgets one that is set.
Ends(slot) ==
  /\ scans' = [scans EXCEPT ![slot] = Free]
  /\ ticking' = IF scans[slot].starter THEN ticking + 1 ELSE ticking
  /\ handle' = (scans[slot].starter \/ handle)
  /\ UNCHANGED <<started, stops>>

\* The host's list arrives and is evaluated in one go. It was made before: who
\* is in it may be gone by now, may be connected by now, or is missing.
Discovered(slot, found) ==
  /\ scans[slot].at = "asked"
  /\ ConnectPartners(found)
  /\ Ends(slot)
  /\ UNCHANGED up

\* The host answers that it could not look.
NotOk(slot) ==
  /\ scans[slot].at = "asked"
  /\ Ends(slot)
  /\ UNCHANGED <<connections, up>>

\* Provisioning, or the call of the host, throws. So does a start that waits
\* for it: started stays set, and no timer is.
Rejected(slot) ==
  /\ scans[slot].at # "free"
  /\ scans' = [scans EXCEPT ![slot] = Free]
  /\ UNCHANGED <<lifecycle, connections, up>>

----------------------------------------------------------------------------
\* Heartbeats.

Fires(p) == beats[p].running > 0 /\ beats[p].due <= 0

Wind(p) == [beats EXCEPT ![p].due = HeartbeatInterval]

\* Mutant of BeatTooLate: one request without an answer is enough.
BeatImpatient(p) ==
  /\ Fires(p) /\ p \in DOMAIN partners
  /\ partners[p].age >= HeartbeatInterval
  /\ DisconnectPartners({p})
  /\ UNCHANGED <<lifecycle, scans, up>>

\* Nothing was heard for too long.
BeatTooLate(p) ==
  /\ Fires(p) /\ p \in DOMAIN partners
  /\ partners[p].age > HeartbeatTimeout
  /\ DisconnectPartners({p})
  /\ UNCHANGED <<lifecycle, scans, up>>

\* A timer whose partner is gone asks nobody.
BeatAsks(p) ==
  /\ Fires(p)
  /\ p \in DOMAIN partners => partners[p].age <= HeartbeatTimeout
  /\ beats' = Wind(p)
  /\ partners' = [q \in DOMAIN partners |->
                    IF q = p THEN [partners[q] EXCEPT !.asked = TRUE] ELSE partners[q]]
  /\ UNCHANGED <<lifecycle, scans, active, up>>

\* Replies to a request whose partner was dropped are of no effect: the
\* callback writes to the record it took from _partners when it asked.
HeartbeatAnswered(p) ==
  /\ p \in DOMAIN partners /\ partners[p].asked
  /\ p \in up
  /\ partners' = [partners EXCEPT ![p].asked = FALSE, ![p].age = 0, ![p].lapsed = FALSE]
  /\ UNCHANGED <<lifecycle, scans, active, beats, up>>

\* Mutant of HeartbeatFailed: the time is noted when a request is over.
HeartbeatFailedNoted(p) ==
  /\ p \in DOMAIN partners /\ partners[p].asked
  /\ p \notin up
  /\ partners' = [partners EXCEPT ![p].asked = FALSE, ![p].age = 0]
  /\ UNCHANGED <<lifecycle, scans, active, beats, up>>

HeartbeatFailed(p) ==
  /\ p \in DOMAIN partners /\ partners[p].asked
  /\ p \notin up
  /\ partners' = [partners EXCEPT ![p].asked = FALSE]
  /\ UNCHANGED <<lifecycle, scans, active, beats, up>>

----------------------------------------------------------------------------
\* The partners, and time.

GoDown(p) ==
  /\ p \in up
  /\ up' = up \ {p}
  /\ partners' = [q \in DOMAIN partners |->
                    IF q = p THEN [partners[q] EXCEPT !.quiet = 0, !.lapsed = TRUE] ELSE partners[q]]
  /\ UNCHANGED <<lifecycle, scans, active, beats>>

ComeUp(p) ==
  /\ p \notin up
  /\ up' = up \cup {p}
  /\ partners' = [q \in DOMAIN partners |->
                    IF q = p THEN [partners[q] EXCEPT !.quiet = 0] ELSE partners[q]]
  /\ UNCHANGED <<lifecycle, scans, active, beats>>

\* A request is over before the next one, in less than the unit of time; no
\* timer is later than it may be.
Pass ==
  /\ \A p \in DOMAIN partners : ~partners[p].asked
  /\ \A p \in Partners : beats[p].running > 0 => beats[p].due > -Late
  /\ partners' = [p \in DOMAIN partners |->
                    [partners[p] EXCEPT !.age = CapAt(@ + 1),
                                        !.quiet = IF p \in up THEN 0 ELSE CapAt(@ + 1)]]
  /\ beats' = [p \in Partners |->
                 IF beats[p].running > 0 THEN [beats[p] EXCEPT !.due = @ - 1] ELSE beats[p]]
  /\ UNCHANGED <<lifecycle, scans, active, up>>

----------------------------------------------------------------------------
Init ==
  /\ started = FALSE /\ stops = 0
  /\ scans = [slot \in Slots |-> Free]
  /\ ticking = 0 /\ handle = FALSE
  /\ partners = <<>> /\ active = <<>>
  /\ beats = [p \in Partners |-> NoBeat]
  /\ up \in SUBSET Partners

Discovery(slot) ==
  \/ Provisioned(slot) \/ NotOk(slot) \/ Rejected(slot)
  \/ \E found \in Lists : Discovered(slot, found)

Heartbeat(p) ==
  BeatTooLate(p) \/ BeatAsks(p) \/ HeartbeatAnswered(p) \/ HeartbeatFailed(p)

Next ==
  \/ start \/ stop
  \/ DiscoveryTimer
  \/ \E slot \in Slots : Discovery(slot)
  \/ \E p \in Partners : Heartbeat(p)
  \/ \E p \in Partners : GoDown(p) \/ ComeUp(p)
  \/ Pass

Spec == Init /\ [][Next]_vars

\* The host lists a partner, on its own or among others.
HostFinds(p) == \E slot \in Slots, found \in Lists : p \in Range(found) /\ Discovered(slot, found)

\* Discovery timers fire. Of the host the code guarantees nothing, it has no
\* timeout for it: what a panel needs of it is that asked again and again it does
\* not fail for ever to list a partner that is up.
FairSpec ==
  /\ Spec
  /\ WF_vars(DiscoveryTimer)
  /\ \A p \in Partners : SF_vars(p \in up /\ HostFinds(p))

----------------------------------------------------------------------------
\* Properties.

TypeOK ==
  /\ started \in BOOLEAN /\ handle \in BOOLEAN /\ stops \in 0..MaxStops
  /\ ticking \in 0..(MaxStops + 1)
  /\ \A slot \in Slots :
       /\ scans[slot].at \in {"free", "provisioning", "asked"}
       /\ scans[slot].starter \in BOOLEAN
  /\ DOMAIN partners \subseteq Partners
  /\ DOMAIN active \subseteq UNION {Inbound[p] : p \in Partners}
  /\ up \subseteq Partners
  /\ \A p \in DOMAIN partners : {partners[p].age, partners[p].quiet} \subseteq 0..(Patience + 1)
  /\ \A p \in Partners : beats[p].due \in -Late..HeartbeatInterval

\* A capability shown as active has a provider that is connected and brings it.
ActiveProviderConnected ==
  \A c \in DOMAIN active :
    active[c] \in DOMAIN partners /\ c \in partners[active[c]].inbound

\* A connected partner has exactly one heartbeat, and none outlives its
\* partner, however often and by whichever discovery it is found again.
OneHeartbeatPerPartner ==
  \A p \in Partners : beats[p].running = (IF p \in DOMAIN partners THEN 1 ELSE 0)

\* A partner that does not answer, or never did since the host listed it, is
\* disconnected after the timeout and one interval.
DeadIsDropped ==
  \A p \in DOMAIN partners : partners[p].quiet <= Patience

\* While the harness runs, only a partner that was away since it was last heard
\* is disconnected.
LivePartnerStays ==
  [][started' => \A p \in DOMAIN partners : p \notin DOMAIN partners' => partners[p].lapsed]_vars

\* Once a start has come to its end, a partner that is there to stay is connected
\* again and again while the harness is started, also one that was lost before,
\* if the host does not miss it for ever.
PartnerIsFound ==
  \A p \in Partners :
    <>[](started /\ handle /\ p \in up) /\ Matches(p) => []<>(p \in DOMAIN partners)

\* hasCapability, groove-harness.js:520: 'Check if a specific capability is
\* currently available (grooved in)'.
CapabilityAvailable ==
  \A p \in DOMAIN partners : Inbound[p] \subseteq DOMAIN active

=============================================================================
