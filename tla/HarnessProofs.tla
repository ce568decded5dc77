--------------------------- MODULE HarnessProofs ---------------------------
(***************************************************************************)
(* Proofs about GrooveHarness, for any partners, any number of overlapping *)
(* discoveries and calls of stop, any heartbeat interval and timeout.      *)
(***************************************************************************)
EXTENDS GrooveHarness, FiniteSetTheorems, WellFoundedInduction, TLAPS

Scan == [at : {"free", "provisioning", "asked"}, starter : BOOLEAN]
Beat == [running : Nat, due : Int, stored : BOOLEAN]
Record(p) == [inbound : {Inbound[p]}, age : Nat, asked : BOOLEAN, quiet : Nat, lapsed : BOOLEAN]

ScansTyped == scans \in [Slots -> Scan]

ConnectionsTyped ==
  /\ DOMAIN partners \subseteq Partners
  /\ \A p \in DOMAIN partners : partners[p] \in Record(p)
  /\ beats \in [Partners -> Beat]
  /\ up \subseteq Partners

Typed == ScansTyped /\ ConnectionsTyped

\* A connected partner's clocks: it has not been quiet for longer than it was
\* not heard; whatever was not heard before the timer was wound is within the
\* timeout; and if it was never away, it was heard when the timer was wound.
Sound(p) ==
  /\ beats[p].running = 1 /\ beats[p].stored
  /\ -Late <= beats[p].due /\ beats[p].due <= HeartbeatInterval
  /\ partners[p].quiet <= partners[p].age
  /\ partners[p].age <= HeartbeatTimeout + HeartbeatInterval - beats[p].due
  /\ partners[p].asked => beats[p].due = HeartbeatInterval
  /\ p \in up => partners[p].quiet = 0
  /\ ~partners[p].lapsed =>
       /\ p \in up
       /\ partners[p].asked \/ partners[p].age <= HeartbeatInterval - beats[p].due

Silent(p) == beats[p].running = 0 /\ ~beats[p].stored

Beating == \A p \in Partners : IF p \in DOMAIN partners THEN Sound(p) ELSE Silent(p)

IInv == Typed /\ Beating /\ ActiveProviderConnected
-----------------------------------------------------------------------------
\* A set of numbers has a least one.
LEMMA LeastNumber ==
  ASSUME NEW T, T \subseteq Nat, T # {}
  PROVE  \E m \in T : \A k \in T : m <= k
<1>1. PICK m \in T : \A k \in T : ~(<<k, m>> \in OpToRel(<, Nat))
  BY NatLessThanWellFounded, WFMin, Zenon
<1>2. \A k \in T : ~(k < m)
  BY <1>1 DEF OpToRel
<1>. QED BY <1>2

\* A list holds partners, and ends.
LEMMA ListIs ==
  ASSUME NEW found \in Lists
  PROVE  \E n \in Nat : found \in [1..n -> Partners]
<1>1. Cardinality(Partners) \in Nat
  BY HarnessAssumption, FS_CardinalityType
<1>2. PICK n \in 0..Cardinality(Partners) : found \in Injection(1..n, Partners)
  BY DEF Lists
<1>. QED BY <1>1, <1>2 DEF Injection

\* The provider that is recorded of a capability is a new partner that brings it.
LEMMA LastIsNew ==
  ASSUME NEW found \in Lists, NEW c \in UNION {Inbound[p] : p \in NewPartners(found)}
  PROVE  LastBringing(found, c) \in NewPartners(found) /\ c \in Inbound[LastBringing(found, c)]
<1> DEFINE Brings(i) == found[i] \in NewPartners(found) /\ c \in Inbound[found[i]]
           places == {i \in DOMAIN found : Brings(i)}
           last == CHOOSE i \in places : \A j \in places : j <= i
<1>1. PICK n \in Nat : found \in [1..n -> Partners]
  BY ListIs
<1>2. places \subseteq 1..n
  BY <1>1
<1>3. places # {}
  <2>1. PICK p \in NewPartners(found) : c \in Inbound[p]
    OBVIOUS
  <2>2. PICK i \in DOMAIN found : found[i] = p
    BY <2>1 DEF NewPartners, Range
  <2>. QED BY <2>1, <2>2
<1>4. LastBringing(found, c) = found[last]
  BY DEF LastBringing
<1>5. \A i \in places : Brings(i)
  OBVIOUS
<1> HIDE DEF places
<1>6. \E i \in places : \A j \in places : j <= i
  <2> DEFINE T == {n - i : i \in places}
  <2>1. T \subseteq Nat /\ T # {}
    <3>1. \A i \in places : n - i \in Nat
      BY <1>2
    <3>. QED BY <1>3, <3>1
  <2>2. PICK m \in T : \A k \in T : m <= k
    BY <2>1, LeastNumber
  <2>3. PICK i \in places : m = n - i
    BY <2>2
  <2>4. \A j \in places : n - i <= n - j
    BY <2>2, <2>3
  <2>5. \A j \in places : j \in Int /\ i \in Int
    BY <1>2, <2>3
  <2>. QED BY <2>3, <2>4, <2>5
<1>7. last \in places
  BY <1>6
<1> HIDE DEF last
<1>8. Brings(last)
  BY <1>5, <1>7
<1>. QED BY <1>4, <1>8

LEMMA NewAreUnconnected ==
  ASSUME NEW found \in Lists
  PROVE  NewPartners(found) \subseteq Partners \ DOMAIN partners
<1>1. PICK n \in Nat : found \in [1..n -> Partners]
  BY ListIs
<1>. QED BY <1>1 DEF NewPartners, Range

\* What _connectPartner establishes for each of a list.
LEMMA Connecting ==
  ASSUME IInv, NEW found \in Lists, ConnectPartners(found), up' = up
  PROVE  ConnectionsTyped' /\ Beating' /\ ActiveProviderConnected'
<1>. USE HarnessAssumption DEF IInv, Typed, ConnectionsTyped, Beating
<1> DEFINE new == NewPartners(found)
           brought == UNION {Inbound[p] : p \in new}
           provider(c) == LastBringing(found, c)
<1>0. new \subseteq Partners \ DOMAIN partners
  BY NewAreUnconnected
<1>10. \A c \in brought : provider(c) \in new /\ c \in Inbound[provider(c)]
  BY LastIsNew
<1>11. active' = [c \in DOMAIN active \cup brought |-> IF c \in brought THEN provider(c) ELSE active[c]]
  BY DEF ConnectPartners
<1>1. /\ DOMAIN partners' = DOMAIN partners \cup new
      /\ \A q \in DOMAIN partners : partners'[q] = partners[q]
      /\ \A q \in new : partners'[q] = [inbound |-> Inbound[q], age |-> 0, asked |-> FALSE,
                                        quiet |-> 0, lapsed |-> q \notin up]
  BY <1>0 DEF ConnectPartners
<1>2. /\ beats' \in [Partners -> Beat]
      /\ \A q \in new : beats'[q].running = 1 /\ beats'[q].due = HeartbeatInterval /\ beats'[q].stored
      /\ \A q \in Partners \ new : beats'[q] = beats[q]
  <2>1. beats' = [q \in Partners |->
                    IF q \in new
                    THEN [running |-> beats[q].running + 1, due |-> HeartbeatInterval, stored |-> TRUE]
                    ELSE beats[q]]
    BY DEF ConnectPartners, StartHeartbeats
  <2>2. \A q \in new : q \in Partners /\ beats[q].running = 0
    BY <1>0 DEF Silent
  <2> HIDE DEF new
  <2>. QED BY <2>1, <2>2 DEF Beat
<1> HIDE DEF new, brought, provider
<1>9. ASSUME NEW q \in new
      PROVE  /\ partners'[q] \in Record(q) /\ partners'[q].inbound = Inbound[q]
             /\ partners'[q].age = 0 /\ partners'[q].quiet = 0 /\ partners'[q].asked = FALSE
             /\ partners'[q].lapsed <=> q \notin up
  <2>1. (q \notin up) \in BOOLEAN
    OBVIOUS
  <2>2. PICK b \in BOOLEAN : b <=> q \notin up
    BY <2>1
  <2>3. partners'[q] = [inbound |-> Inbound[q], age |-> 0, asked |-> FALSE, quiet |-> 0, lapsed |-> b]
    BY <1>1, <2>2
  <2>. QED BY <2>2, <2>3 DEF Record
<1>3. ConnectionsTyped'
  BY <1>0, <1>1, <1>2, <1>9
<1>4. ASSUME NEW q \in new PROVE Sound(q)'
  <2>1. /\ partners'[q].age = 0 /\ partners'[q].quiet = 0 /\ partners'[q].asked = FALSE
        /\ partners'[q].lapsed <=> q \notin up'
    BY <1>9
  <2>2. beats'[q].running = 1 /\ beats'[q].due = HeartbeatInterval /\ beats'[q].stored
    BY <1>2
  <2>3. /\ -Late <= HeartbeatInterval /\ 0 <= HeartbeatTimeout + HeartbeatInterval - HeartbeatInterval
        /\ 0 <= HeartbeatInterval - HeartbeatInterval /\ 0 <= 0 /\ HeartbeatInterval <= HeartbeatInterval
    OBVIOUS
  <2>. QED BY ONLY <2>1, <2>2, <2>3 DEF Sound
<1>5. \A q \in DOMAIN partners : Sound(q)'
  BY <1>0, <1>1, <1>2 DEF Sound
<1>6. \A q \in Partners \ DOMAIN partners' : Silent(q)'
  BY <1>1, <1>2 DEF Silent
<1>7. Beating'
  BY <1>1, <1>4, <1>5, <1>6
<1>8. ActiveProviderConnected'
  <2>2. ASSUME NEW c \in DOMAIN active'
        PROVE  active'[c] \in DOMAIN partners' /\ c \in partners'[active'[c]].inbound
    <3>1. CASE c \in brought
      <4>1. active'[c] = provider(c) /\ provider(c) \in new /\ c \in Inbound[provider(c)]
        BY <1>10, <1>11, <2>2, <3>1
      <4>. QED BY <1>1, <1>9, <4>1
    <3>2. CASE c \notin brought
      <4>1. c \in DOMAIN active /\ active'[c] = active[c]
        BY <1>11, <2>2, <3>2
      <4>. QED BY <1>1, <4>1 DEF ActiveProviderConnected
    <3>. QED BY <3>1, <3>2
  <2>. QED BY <2>2 DEF ActiveProviderConnected
<1>. QED BY <1>3, <1>7, <1>8

\* And _disconnectPartner.
LEMMA Disconnecting ==
  ASSUME IInv, NEW gone \in SUBSET DOMAIN partners, DisconnectPartners(gone), up' = up
  PROVE  ConnectionsTyped' /\ Beating' /\ ActiveProviderConnected'
<1>. USE HarnessAssumption DEF IInv, Typed, ConnectionsTyped, Beating
<1>1. /\ DOMAIN partners' = DOMAIN partners \ gone
      /\ \A q \in DOMAIN partners' : partners'[q] = partners[q]
  BY DEF DisconnectPartners, Restrict
<1>2. /\ beats' \in [Partners -> Beat]
      /\ \A q \in gone : Silent(q)'
      /\ \A q \in Partners \ gone : beats'[q] = beats[q]
  <2>1. beats' = [q \in Partners |-> IF q \in gone /\ beats[q].stored
                                THEN [beats[q] EXCEPT !.running = @ - 1, !.stored = FALSE]
                                ELSE beats[q]]
    BY DEF DisconnectPartners
  <2>2. \A q \in gone : q \in Partners /\ beats[q].running = 1 /\ beats[q].stored /\ beats[q] \in Beat
    BY DEF Sound
  <2>3. \A q \in gone : beats'[q] = [beats[q] EXCEPT !.running = @ - 1, !.stored = FALSE]
    BY <2>1, <2>2
  <2>4. ASSUME NEW q \in gone
        PROVE  beats'[q] \in Beat /\ beats'[q].running = 0 /\ beats'[q].stored = FALSE
    <3> DEFINE n == beats[q].running - 1
               b == [beats[q] EXCEPT !.running = n, !.stored = FALSE]
    <3>1. beats[q] \in Beat /\ n = 0
      BY <2>2
    <3> HIDE DEF n
    <3>2. b \in Beat /\ b.running = 0 /\ b.stored = FALSE
      BY <3>1 DEF Beat
    <3>. QED BY <2>3, <3>2 DEF n
  <2>5. \A q \in Partners \ gone : beats'[q] = beats[q]
    BY <2>1
  <2>6. beats' \in [Partners -> Beat]
    BY <2>1, <2>4, <2>5
  <2>. QED BY <2>4, <2>5, <2>6 DEF Silent
<1>3. ConnectionsTyped'
  BY <1>1, <1>2
<1>4. \A q \in DOMAIN partners' : Sound(q)'
  BY <1>1, <1>2 DEF Sound
<1>5. \A q \in Partners \ DOMAIN partners' : Silent(q)'
  BY <1>1, <1>2 DEF Silent
<1>6. Beating'
  BY <1>4, <1>5
<1>7. ActiveProviderConnected'
  <2>1. /\ DOMAIN active' = DOMAIN active \ UNION {partners[p].inbound : p \in gone}
        /\ \A c \in DOMAIN active' : active'[c] = active[c]
    BY DEF DisconnectPartners, Restrict
  <2>2. \A c \in DOMAIN active' : active[c] \in DOMAIN partners \ gone /\ c \in partners[active[c]].inbound
    BY <2>1 DEF ActiveProviderConnected
  <2>. QED BY <1>1, <2>1, <2>2 DEF ActiveProviderConnected
<1>. QED BY <1>3, <1>6, <1>7
-----------------------------------------------------------------------------
LEMMA Initially == Init => IInv
<1>. SUFFICES ASSUME Init PROVE IInv
  OBVIOUS
<1>. USE HarnessAssumption DEF Init
<1>1. Typed
  BY DEF Typed, ScansTyped, ConnectionsTyped, Free, Scan, Beat, NoBeat
<1>2. Beating /\ ActiveProviderConnected
  BY DEF Beating, Silent, NoBeat, ActiveProviderConnected
<1>. QED BY <1>1, <1>2 DEF IInv

\* A discovery waits for its module, then for the host, and is over.
LEMMA ScansStep == IInv /\ [Next]_vars => ScansTyped'
<1>. SUFFICES ASSUME IInv, [Next]_vars PROVE ScansTyped'
  OBVIOUS
<1>. USE DEF ScansTyped
<1>0. scans \in [Slots -> Scan]
  BY DEF IInv, Typed
<1>1. ASSUME UNCHANGED scans PROVE ScansTyped'
  BY <1>0, <1>1
<1>2. ASSUME NEW slot \in Slots, NEW r \in Scan, scans' = [scans EXCEPT ![slot] = r] PROVE ScansTyped'
  BY <1>0, <1>2
<1>3. Free \in Scan /\ Provisioning \in Scan /\ Asking(TRUE) \in Scan /\ Asking(FALSE) \in Scan
  BY DEF Free, Provisioning, Asking, Scan
<1>4. CASE start
  BY <1>2, <1>3, <1>4 DEF start
<1>5. CASE DiscoveryTimer
  BY <1>2, <1>3, <1>5 DEF DiscoveryTimer
<1>6. ASSUME NEW slot \in Slots, Discovery(slot) PROVE ScansTyped'
  BY <1>2, <1>3, <1>6 DEF Discovery, Provisioned, Discovered, NotOk, Rejected, Ends
<1>7. ASSUME NEW p \in Partners, Heartbeat(p) \/ GoDown(p) \/ ComeUp(p) PROVE UNCHANGED scans
  BY <1>7 DEF Heartbeat, BeatTooLate, BeatAsks, HeartbeatAnswered, HeartbeatFailed, GoDown, ComeUp
<1>8. CASE stop \/ Pass \/ UNCHANGED vars
  BY <1>1, <1>8 DEF stop, Pass, vars
<1>. QED BY <1>1, <1>4, <1>5, <1>6, <1>7, <1>8 DEF Next

\* A step that rewrites one partner's record.
LEMMA Rewriting ==
  ASSUME IInv, NEW p \in DOMAIN partners, NEW r \in Record(p),
         DOMAIN partners' = DOMAIN partners, partners'[p] = r,
         \A q \in DOMAIN partners \ {p} : partners'[q] = partners[q],
         beats' \in [Partners -> Beat], \A q \in Partners \ {p} : beats'[q] = beats[q],
         up' \subseteq Partners, \A q \in Partners \ {p} : q \in up' <=> q \in up,
         active' = active, Sound(p)'
  PROVE  ConnectionsTyped' /\ Beating' /\ ActiveProviderConnected'
<1>. USE DEF IInv, Typed, ConnectionsTyped, Beating
<1>1. ConnectionsTyped'
  OBVIOUS
<1>2. \A q \in DOMAIN partners \ {p} : Sound(q)'
  BY DEF Sound
<1>3. \A q \in Partners \ DOMAIN partners : Silent(q)'
  BY DEF Silent
<1>4. \A q \in DOMAIN partners : partners'[q].inbound = partners[q].inbound
  BY DEF Record
<1>5. ActiveProviderConnected'
  BY <1>4 DEF ActiveProviderConnected
<1>. QED BY <1>1, <1>2, <1>3, <1>5

LEMMA ConnectionsStep ==
  ASSUME IInv, [Next]_vars
  PROVE  ConnectionsTyped' /\ Beating' /\ ActiveProviderConnected'
<1> DEFINE Goal == ConnectionsTyped /\ Beating /\ ActiveProviderConnected
<1>0. /\ DOMAIN partners \subseteq Partners /\ beats \in [Partners -> Beat] /\ up \subseteq Partners
      /\ \A p \in DOMAIN partners : partners[p] \in Record(p) /\ Sound(p)
      /\ \A p \in Partners \ DOMAIN partners : Silent(p)
  BY DEF IInv, Typed, ConnectionsTyped, Beating
<1>1. CASE UNCHANGED <<connections, up>>
  BY <1>1 DEF IInv, Typed, connections, ConnectionsTyped, Beating, Sound, Silent, ActiveProviderConnected
<1>2. CASE stop
  BY <1>2, Disconnecting DEF stop
<1>3. ASSUME NEW slot \in Slots, NEW found \in Lists, Discovered(slot, found) PROVE Goal'
  BY <1>3, Connecting DEF Discovered
<1>4. ASSUME NEW p \in Partners, BeatTooLate(p) PROVE Goal'
  BY <1>4, Disconnecting DEF BeatTooLate
<1>5. ASSUME NEW p \in Partners, BeatAsks(p) PROVE Goal'
  <2>1. p \in DOMAIN partners
    BY <1>0, <1>5 DEF BeatAsks, Fires, Silent
  <2> DEFINE r == [partners[p] EXCEPT !.asked = TRUE]
  <2>2. r \in Record(p) /\ r.asked /\ r.age = partners[p].age /\ r.quiet = partners[p].quiet
        /\ r.lapsed = partners[p].lapsed
    BY <1>0, <2>1 DEF Record
  <2>3. /\ DOMAIN partners' = DOMAIN partners /\ partners'[p] = r
        /\ \A q \in DOMAIN partners \ {p} : partners'[q] = partners[q]
    BY <1>5, <2>1 DEF BeatAsks
  <2>4. /\ beats' \in [Partners -> Beat] /\ \A q \in Partners \ {p} : beats'[q] = beats[q]
        /\ beats'[p].due = HeartbeatInterval /\ beats'[p].running = beats[p].running
        /\ beats'[p].stored = beats[p].stored
    <3>1. beats' = [beats EXCEPT ![p].due = HeartbeatInterval] /\ beats[p] \in Beat
      BY <1>0, <1>5 DEF BeatAsks, Wind
    <3>2. beats'[p] = [beats[p] EXCEPT !.due = HeartbeatInterval]
      BY <1>0, <3>1
    <3>3. /\ beats'[p] \in Beat /\ beats'[p].due = HeartbeatInterval
          /\ beats'[p].running = beats[p].running /\ beats'[p].stored = beats[p].stored
      BY <3>1, <3>2, HarnessAssumption DEF Beat
    <3>. QED BY <1>0, <3>1, <3>3
  <2> HIDE DEF r
  <2>5. partners[p].age <= HeartbeatTimeout /\ active' = active /\ up' = up
    BY <1>5, <2>1 DEF BeatAsks
  <2>6. Sound(p)'
    BY <1>0, <2>1, <2>2, <2>3, <2>4, <2>5, HarnessAssumption DEF Sound, Record
  <2>. QED BY <1>0, <2>1, <2>2, <2>3, <2>4, <2>5, <2>6, Rewriting
<1>6. ASSUME NEW p \in Partners, HeartbeatAnswered(p) PROVE Goal'
  <2> DEFINE r == [partners[p] EXCEPT !.asked = FALSE, !.age = 0, !.lapsed = FALSE]
  <2>1. p \in DOMAIN partners /\ p \in up /\ UNCHANGED <<active, beats, up>>
    BY <1>6 DEF HeartbeatAnswered
  <2>2. /\ r \in Record(p) /\ ~r.asked /\ r.age = 0 /\ r.quiet = partners[p].quiet /\ ~r.lapsed
    BY <1>0, <2>1 DEF Record
  <2>3. /\ DOMAIN partners' = DOMAIN partners /\ partners'[p] = r
        /\ \A q \in DOMAIN partners \ {p} : partners'[q] = partners[q]
    BY <1>6, <2>1 DEF HeartbeatAnswered
  <2> HIDE DEF r
  <2>4. beats[p] \in Beat
    BY <1>0, <2>1
  <2>5. Sound(p)'
    BY <1>0, <2>1, <2>2, <2>3, <2>4, HarnessAssumption DEF Sound, Record, Beat
  <2>. QED BY <1>0, <2>1, <2>2, <2>3, <2>5, Rewriting
<1>7. ASSUME NEW p \in Partners, HeartbeatFailed(p) PROVE Goal'
  <2> DEFINE r == [partners[p] EXCEPT !.asked = FALSE]
  <2>1. p \in DOMAIN partners /\ p \notin up /\ UNCHANGED <<active, beats, up>>
    BY <1>7 DEF HeartbeatFailed
  <2>2. /\ r \in Record(p) /\ ~r.asked /\ r.age = partners[p].age /\ r.quiet = partners[p].quiet
        /\ r.lapsed = partners[p].lapsed
    BY <1>0, <2>1 DEF Record
  <2>3. /\ DOMAIN partners' = DOMAIN partners /\ partners'[p] = r
        /\ \A q \in DOMAIN partners \ {p} : partners'[q] = partners[q]
    BY <1>7, <2>1 DEF HeartbeatFailed
  <2> HIDE DEF r
  <2>4. Sound(p)'
    BY <1>0, <2>1, <2>2, <2>3 DEF Sound
  <2>. QED BY <1>0, <2>1, <2>2, <2>3, <2>4, Rewriting
<1>8. ASSUME NEW p \in Partners, GoDown(p) \/ ComeUp(p) PROVE Goal'
  <2>1. /\ UNCHANGED <<active, beats>> /\ DOMAIN partners' = DOMAIN partners
        /\ \A q \in DOMAIN partners \ {p} : partners'[q] = partners[q]
        /\ up' \subseteq Partners /\ \A q \in Partners \ {p} : q \in up' <=> q \in up
    BY <1>0, <1>8 DEF GoDown, ComeUp
  <2>2. CASE p \notin DOMAIN partners
    <3>1. ConnectionsTyped'
      BY <1>0, <2>1, <2>2 DEF ConnectionsTyped
    <3>2. \A q \in DOMAIN partners : Sound(q)'
      BY <1>0, <2>1, <2>2 DEF Sound
    <3>3. \A q \in Partners \ DOMAIN partners : Silent(q)'
      BY <1>0, <2>1 DEF Silent
    <3>4. ActiveProviderConnected'
      BY <2>1, <2>2 DEF ActiveProviderConnected, IInv
    <3>. QED BY <2>1, <3>1, <3>2, <3>3, <3>4 DEF Beating
  <2>3. CASE p \in DOMAIN partners
    <3>4. partners[p] \in Record(p) /\ Sound(p)
      BY <1>0, <2>3
    <3>1. /\ partners'[p] \in Record(p) /\ partners'[p].quiet = 0 /\ partners'[p].lapsed = TRUE
          /\ partners'[p].age = partners[p].age /\ partners'[p].asked = partners[p].asked
      <4>1. CASE GoDown(p)
        <5> DEFINE r == [partners[p] EXCEPT !.quiet = 0, !.lapsed = TRUE]
        <5>1. partners'[p] = r
          BY <2>3, <4>1 DEF GoDown
        <5>2. /\ r \in Record(p) /\ r.quiet = 0 /\ r.lapsed = TRUE
              /\ r.age = partners[p].age /\ r.asked = partners[p].asked
          BY <3>4 DEF Record
        <5>. QED BY <5>1, <5>2
      <4>2. CASE ComeUp(p)
        <5>1. partners'[p] = [partners[p] EXCEPT !.quiet = 0] /\ p \notin up
          BY <2>3, <4>2 DEF ComeUp
        <5>2. partners[p].lapsed = TRUE
          BY <3>4, <5>1 DEF Record, Sound
        <5>. QED BY <3>4, <5>1, <5>2 DEF Record
      <4>. QED BY <1>8, <4>1, <4>2
    <3>2. partners[p].age \in Nat
      BY <3>4 DEF Record
    <3>3. Sound(p)'
      BY <1>0, <2>1, <2>3, <3>1, <3>2 DEF Sound
    <3>. QED BY <1>0, <2>1, <2>3, <3>1, <3>3, Rewriting
  <2>. QED BY <2>2, <2>3
<1>9. CASE Pass
  <2>1. /\ DOMAIN partners' = DOMAIN partners /\ UNCHANGED <<active, up>>
        /\ \A p \in DOMAIN partners : ~partners[p].asked /\ beats[p].due > -Late
    <3>1. \A p \in DOMAIN partners : p \in Partners /\ beats[p].running = 1
      BY <1>0 DEF Sound
    <3>2. \A p \in DOMAIN partners : ~partners[p].asked
      BY <1>9 DEF Pass
    <3>3. \A p \in Partners : beats[p].running > 0 => beats[p].due > -Late
      BY <1>9 DEF Pass
    <3>4. DOMAIN partners' = DOMAIN partners /\ UNCHANGED <<active, up>>
      BY <1>9 DEF Pass
    <3>. QED BY <3>1, <3>2, <3>3, <3>4
  <2>2. /\ beats' \in [Partners -> Beat]
        /\ \A p \in DOMAIN partners : beats'[p] = [beats[p] EXCEPT !.due = @ - 1]
        /\ \A p \in Partners \ DOMAIN partners : beats'[p] = beats[p]
    <3>1. beats' = [p \in Partners |-> IF beats[p].running > 0 THEN [beats[p] EXCEPT !.due = @ - 1] ELSE beats[p]]
      BY <1>9 DEF Pass
    <3>2. \A p \in DOMAIN partners : p \in Partners /\ beats[p].running = 1
      BY <1>0 DEF Sound
    <3>3. \A p \in Partners \ DOMAIN partners : beats[p].running = 0
      BY <1>0 DEF Silent
    <3>4. \A p \in Partners : [beats[p] EXCEPT !.due = @ - 1] \in Beat
      BY <1>0 DEF Beat
    <3>. QED BY <1>0, <3>1, <3>2, <3>3, <3>4
  <2>3. ASSUME NEW p \in DOMAIN partners
        PROVE  partners'[p] \in Record(p) /\ partners'[p].inbound = partners[p].inbound /\ Sound(p)'
    <3>1. /\ partners[p] \in Record(p) /\ Sound(p) /\ p \in Partners /\ beats[p] \in Beat
          /\ beats[p].due > -Late /\ ~partners[p].asked
      BY <1>0, <2>1, <2>3
    <3>2. /\ partners[p].age \in Nat /\ partners[p].quiet \in Nat /\ beats[p].due \in Int
          /\ partners[p].age + 1 <= Patience /\ partners[p].quiet + 1 <= Patience
      BY <3>1, HarnessAssumption DEF Record, Beat, Sound, Patience
    <3>3. CapAt(partners[p].age + 1) = partners[p].age + 1 /\ CapAt(partners[p].quiet + 1) = partners[p].quiet + 1
      BY <3>2, HarnessAssumption DEF CapAt, Patience
    <3>4. partners'[p] = [partners[p] EXCEPT !.age = partners[p].age + 1,
                                             !.quiet = IF p \in up THEN 0 ELSE partners[p].quiet + 1]
      BY <1>9, <2>3, <3>3 DEF Pass
    <3> DEFINE n == IF p \in up THEN 0 ELSE partners[p].quiet + 1
               older == partners[p].age + 1
               r == [partners[p] EXCEPT !.age = older, !.quiet = n]
    <3>8. n \in Nat /\ older \in Nat
      BY <3>2
    <3> HIDE DEF n, older
    <3>9. /\ r \in Record(p) /\ r.inbound = partners[p].inbound
          /\ r.age = older /\ r.quiet = n
          /\ r.asked = partners[p].asked /\ r.lapsed = partners[p].lapsed
      BY <3>1, <3>8 DEF Record
    <3>5. /\ partners'[p] \in Record(p) /\ partners'[p].inbound = partners[p].inbound
          /\ partners'[p].age = partners[p].age + 1
          /\ partners'[p].quiet = (IF p \in up THEN 0 ELSE partners[p].quiet + 1)
          /\ ~partners'[p].asked /\ partners'[p].lapsed = partners[p].lapsed
      BY <3>1, <3>4, <3>9 DEF n, older
    <3>6. /\ beats'[p].due = beats[p].due - 1 /\ beats'[p].running = beats[p].running
          /\ beats'[p].stored = beats[p].stored
      BY <2>2, <2>3, <3>1 DEF Beat
    <3>10. /\ beats'[p].running = 1 /\ beats'[p].stored
           /\ -Late <= beats'[p].due /\ beats'[p].due <= HeartbeatInterval
      BY <3>1, <3>2, <3>6, HarnessAssumption DEF Sound
    <3>11. /\ partners'[p].quiet <= partners'[p].age
           /\ partners'[p].age <= HeartbeatTimeout + HeartbeatInterval - beats'[p].due
      <4>1. partners'[p].quiet = 0 \/ partners'[p].quiet = partners[p].quiet + 1
        BY <3>5
      <4>2. partners[p].quiet <= partners[p].age /\ partners'[p].age = partners[p].age + 1
        BY <3>1, <3>5 DEF Sound
      <4>3. partners'[p].quiet <= partners'[p].age
        BY <3>2, <4>1, <4>2
      <4>4. /\ partners[p].age <= HeartbeatTimeout + HeartbeatInterval - beats[p].due
            /\ beats'[p].due = beats[p].due - 1
        BY <3>1, <3>6 DEF Sound
      <4>5. HeartbeatTimeout \in Int /\ HeartbeatInterval \in Int
        BY HarnessAssumption
      <4>6. HeartbeatTimeout + HeartbeatInterval - beats'[p].due
              = HeartbeatTimeout + HeartbeatInterval - beats[p].due + 1
        BY <3>2, <4>4, <4>5
      <4>7. partners[p].age + 1 <= HeartbeatTimeout + HeartbeatInterval - beats[p].due + 1
        BY <3>2, <4>4, <4>5
      <4>8. partners'[p].age <= HeartbeatTimeout + HeartbeatInterval - beats'[p].due
        BY <4>2, <4>6, <4>7
      <4>. QED BY <4>3, <4>8
    <3>12. p \in up => partners'[p].quiet = 0
      BY <3>5
    <3>13. ~partners'[p].lapsed => p \in up /\ partners'[p].age <= HeartbeatInterval - beats'[p].due
      BY <3>1, <3>2, <3>5, <3>6, HarnessAssumption, SMTT(30) DEF Sound
    <3>7. Sound(p)'
      BY <2>1, <3>5, <3>10, <3>11, <3>12, <3>13 DEF Sound
    <3>. QED BY <3>5, <3>7
  <2>4. ConnectionsTyped'
    BY <1>0, <2>1, <2>2, <2>3 DEF ConnectionsTyped
  <2>5. Beating'
    BY <1>0, <2>1, <2>2, <2>3 DEF Beating, Silent
  <2>6. ActiveProviderConnected'
    BY <2>1, <2>3 DEF IInv, ActiveProviderConnected
  <2>. QED BY <2>4, <2>5, <2>6
<1>10. CASE start \/ DiscoveryTimer \/ UNCHANGED vars
  BY <1>1, <1>10 DEF start, DiscoveryTimer, vars, connections
<1>11. ASSUME NEW slot \in Slots, Provisioned(slot) \/ NotOk(slot) \/ Rejected(slot)
       PROVE  Goal'
  BY <1>1, <1>11 DEF Provisioned, NotOk, Rejected
<1>. QED
  BY <1>2, <1>3, <1>4, <1>5, <1>6, <1>7, <1>8, <1>9, <1>10, <1>11 DEF Next, Discovery, Heartbeat

THEOREM Invariance == Spec => []IInv
<1>1. IInv /\ [Next]_vars => IInv'
  BY ScansStep, ConnectionsStep DEF IInv, Typed
<1>. QED BY <1>1, Initially, PTL DEF Spec

\* A connected partner has exactly one heartbeat and no other has any, however
\* discoveries, calls of start and stop and lost partners overlap.
THEOREM OneHeartbeat == Spec => []OneHeartbeatPerPartner
<1>1. IInv => OneHeartbeatPerPartner
  BY DEF IInv, Beating, Sound, Silent, OneHeartbeatPerPartner
<1>. QED BY <1>1, Invariance, PTL

\* What is shown as active has a connected provider that brings it.
THEOREM ActiveConnected == Spec => []ActiveProviderConnected
<1>1. IInv => ActiveProviderConnected
  BY DEF IInv
<1>. QED BY <1>1, Invariance, PTL

\* A partner that does not answer is dropped within the timeout, one interval
\* and the lateness of a timer, whatever these are.
THEOREM DeadDropped == Spec => []DeadIsDropped
<1>1. IInv => DeadIsDropped
  <2>. SUFFICES ASSUME IInv, NEW p \in DOMAIN partners PROVE partners[p].quiet <= Patience
    BY DEF DeadIsDropped
  <2>1. Sound(p) /\ partners[p] \in Record(p) /\ beats[p] \in Beat
    BY DEF IInv, Typed, ConnectionsTyped, Beating
  <2>. QED BY <2>1, HarnessAssumption DEF Sound, Record, Beat, Patience
<1>. QED BY <1>1, Invariance, PTL

\* While the harness runs it drops no partner that was there all the time since
\* it was last heard: the timeout is longer than an interval and a late timer.
THEOREM LiveStays == Spec => LivePartnerStays
<1> DEFINE Kept == started' => \A p \in DOMAIN partners : p \notin DOMAIN partners' => partners[p].lapsed
<1>1. IInv /\ [Next]_vars => [Kept]_vars
  <2>. SUFFICES ASSUME IInv, Next, started', NEW p \in DOMAIN partners, p \notin DOMAIN partners'
                PROVE  partners[p].lapsed
    OBVIOUS
  <2>1. ASSUME NEW q \in Partners, BeatTooLate(q) PROVE partners[p].lapsed
    <3>1. p = q /\ Fires(p) /\ partners[p].age > HeartbeatTimeout
      BY <2>1 DEF BeatTooLate, DisconnectPartners, Restrict
    <3>2. Sound(p) /\ partners[p] \in Record(p) /\ beats[p] \in Beat
      BY DEF IInv, Typed, ConnectionsTyped, Beating
    <3>3. beats[p].due <= 0 /\ beats[p].due >= -Late /\ beats[p].due \in Int /\ partners[p].age \in Nat
      BY <3>1, <3>2 DEF Fires, Sound, Record, Beat
    <3>4. ~partners[p].asked
      BY <3>2, <3>3, HarnessAssumption DEF Sound
    <3>5. ~(partners[p].age <= HeartbeatInterval - beats[p].due)
      BY <3>1, <3>3, HarnessAssumption, TimeoutAssumption
    <3>. QED BY <3>2, <3>4, <3>5 DEF Sound
  <2>2. ASSUME NEW q \in Partners, BeatAsks(q) \/ HeartbeatAnswered(q) \/ HeartbeatFailed(q) \/ GoDown(q) \/ ComeUp(q)
        PROVE  FALSE
    BY <2>2 DEF BeatAsks, HeartbeatAnswered, HeartbeatFailed, GoDown, ComeUp
  <2>3. ASSUME NEW slot \in Slots, Discovery(slot) PROVE FALSE
    BY <2>3 DEF Discovery, Provisioned, Discovered, NotOk, Rejected, ConnectPartners, connections
  <2>4. CASE start \/ stop \/ DiscoveryTimer \/ Pass
    BY <2>4 DEF start, stop, DiscoveryTimer, Pass, connections
  <2>. QED BY <2>1, <2>2, <2>3, <2>4 DEF Next, Heartbeat
<1>. QED BY <1>1, Invariance, PTL DEF Spec, LivePartnerStays

-----------------------------------------------------------------------------
\* Discovery timers and bounds.

\* The discoveries that will set a discovery timer when they end.
Starters == {slot \in Slots : scans[slot].starter = TRUE}

\* Every discovery timer that runs, and every one that is yet to be set, belongs
\* to a call of start: there was one more than there were calls of stop if the
\* harness is started, and as many if it is not.
TimersCounted ==
  /\ started \in BOOLEAN /\ handle \in BOOLEAN /\ stops \in 0..MaxStops /\ ticking \in Nat
  /\ handle = TRUE => ticking >= 1
  /\ \A slot \in Slots : scans[slot].at = "provisioning" => scans[slot].starter = TRUE
  /\ ticking + Cardinality(Starters) <= stops + (IF started THEN 1 ELSE 0)

\* No heartbeat timer is later than it may be, nor was one that was stopped.
InBounds == \A p \in Partners : -Late <= beats[p].due /\ beats[p].due <= HeartbeatInterval

LEMMA StartersFinite ==
  ASSUME NEW S \in SUBSET Slots
  PROVE  IsFiniteSet(S) /\ Cardinality(S) \in Nat
<1>1. IsFiniteSet(Slots)
  BY HarnessAssumption, FS_Interval DEF Slots
<1>. QED BY <1>1, FS_Subset, FS_CardinalityType

\* What one discovery's step does to the count of those that will set a timer.
LEMMA StartersStep ==
  ASSUME Typed, NEW slot \in Slots, NEW r, scans' = [scans EXCEPT ![slot] = r]
  PROVE  /\ (scans[slot].starter = TRUE <=> r.starter = TRUE) =>
              Cardinality(Starters') = Cardinality(Starters)
         /\ scans[slot].starter # TRUE /\ r.starter = TRUE =>
              Cardinality(Starters') = Cardinality(Starters) + 1
         /\ scans[slot].starter = TRUE /\ r.starter # TRUE =>
              Cardinality(Starters') = Cardinality(Starters) - 1
<1>1. /\ scans'[slot] = r
      /\ \A s \in Slots \ {slot} : scans'[s] = scans[s]
  BY DEF Typed, ScansTyped
<1>2. IsFiniteSet(Starters)
  BY StartersFinite DEF Starters
<1>3. ASSUME scans[slot].starter = TRUE <=> r.starter = TRUE PROVE Starters' = Starters
  BY <1>1, <1>3 DEF Starters
<1>4. ASSUME scans[slot].starter # TRUE, r.starter = TRUE
      PROVE  Starters' = Starters \cup {slot} /\ slot \notin Starters
  BY <1>1, <1>4 DEF Starters
<1>5. ASSUME scans[slot].starter = TRUE, r.starter # TRUE
      PROVE  Starters' = Starters \ {slot} /\ slot \in Starters
  BY <1>1, <1>5 DEF Starters
<1>6. ASSUME slot \notin Starters PROVE Cardinality(Starters \cup {slot}) = Cardinality(Starters) + 1
  BY <1>2, <1>6, FS_AddElement
<1>7. ASSUME slot \in Starters PROVE Cardinality(Starters \ {slot}) = Cardinality(Starters) - 1
  BY <1>2, <1>7, FS_RemoveElement
<1>. QED BY <1>3, <1>4, <1>5, <1>6, <1>7

LEMMA TimersStep == IInv /\ TimersCounted /\ [Next]_vars => TimersCounted'
<1>. SUFFICES ASSUME IInv, TimersCounted, [Next]_vars PROVE TimersCounted'
  OBVIOUS
<1>0. /\ Typed /\ HarnessAssumption
      /\ Cardinality(Starters) \in Nat /\ stops \in Nat /\ MaxStops \in Nat /\ ticking \in Nat
  BY HarnessAssumption, StartersFinite DEF IInv, Starters, TimersCounted
<1>1. ASSUME UNCHANGED <<lifecycle, scans>> PROVE TimersCounted'
  BY <1>1 DEF TimersCounted, Starters, lifecycle
<1>2. ASSUME NEW slot \in Slots, NEW r, scans' = [scans EXCEPT ![slot] = r], UNCHANGED lifecycle,
             scans[slot].starter = TRUE <=> r.starter = TRUE,
             r.at = "provisioning" => r.starter = TRUE
      PROVE  TimersCounted'
  <2>1. Cardinality(Starters') = Cardinality(Starters)
    BY <1>0, <1>2, StartersStep
  <2>2. /\ scans'[slot] = r
        /\ \A s \in Slots \ {slot} : scans'[s] = scans[s]
    BY <1>0, <1>2 DEF Typed, ScansTyped
  <2>3. \A s \in Slots : scans'[s].at = "provisioning" => scans'[s].starter = TRUE
    BY <1>2, <2>2 DEF TimersCounted
  <2>. QED BY <1>2, <2>1, <2>3 DEF TimersCounted, lifecycle
<1>3. CASE start
  <2>1. PICK slot \in Slots : scans[slot] = Free /\ scans' = [scans EXCEPT ![slot] = Provisioning]
    BY <1>3 DEF start
  <2>2. Free.starter = FALSE /\ Provisioning.starter = TRUE
    BY DEF Free, Provisioning
  <2>3. Cardinality(Starters') = Cardinality(Starters) + 1
    BY <1>0, <2>1, <2>2, StartersStep
  <2>4. started = FALSE /\ started' = TRUE /\ UNCHANGED <<ticking, handle, stops>>
    BY <1>3 DEF start, TimersCounted
  <2>5. /\ scans'[slot] = Provisioning
        /\ \A s \in Slots \ {slot} : scans'[s] = scans[s]
    BY <1>0, <2>1 DEF Typed, ScansTyped
  <2>6. \A s \in Slots : scans'[s].at = "provisioning" => scans'[s].starter = TRUE
    BY <2>2, <2>5 DEF TimersCounted
  <2>7. ticking + Cardinality(Starters) <= stops
    BY <1>0, <2>4 DEF TimersCounted
  <2>8. ticking' + Cardinality(Starters') <= stops' + 1
    BY <1>0, <2>3, <2>4, <2>7
  <2>. QED BY <2>4, <2>6, <2>8 DEF TimersCounted
<1>4. CASE stop
  <2>1. /\ started = TRUE /\ started' = FALSE /\ stops < MaxStops /\ stops' = stops + 1
        /\ ticking' = (IF handle = TRUE THEN ticking - 1 ELSE ticking)
        /\ handle' = FALSE /\ scans' = scans
    BY <1>4 DEF stop, TimersCounted
  <2>2. ticking + Cardinality(Starters) <= stops + 1 /\ (handle = TRUE => ticking >= 1)
    BY <2>1 DEF TimersCounted
  <2>3. Starters' = Starters
    BY <2>1 DEF Starters
  <2>4. ticking' \in Nat /\ ticking' <= ticking
    BY <1>0, <2>1, <2>2
  <2>5. ticking' + Cardinality(Starters) <= stops' + 0 /\ stops' \in 0..MaxStops
    BY <1>0, <2>1, <2>2, <2>4
  <2>. QED BY <2>1, <2>3, <2>4, <2>5 DEF TimersCounted
<1>5. CASE DiscoveryTimer
  <2>1. PICK slot \in Slots : scans[slot] = Free /\ scans' = [scans EXCEPT ![slot] = Asking(FALSE)]
    BY <1>5 DEF DiscoveryTimer
  <2>2. Free.starter = FALSE /\ Asking(FALSE).starter = FALSE /\ Asking(FALSE).at = "asked"
    BY DEF Free, Asking
  <2>3. UNCHANGED lifecycle
    BY <1>5 DEF DiscoveryTimer
  <2>. QED BY <1>2, <2>1, <2>2, <2>3
<1>6. ASSUME NEW slot \in Slots, Provisioned(slot) PROVE TimersCounted'
  <2>1. /\ scans[slot].at = "provisioning" /\ scans[slot].starter = TRUE
        /\ scans' = [scans EXCEPT ![slot] = Asking(TRUE)] /\ UNCHANGED lifecycle
    BY <1>6 DEF Provisioned, TimersCounted
  <2>2. Asking(TRUE).starter = TRUE
    BY DEF Asking
  <2>. QED BY <1>2, <2>1, <2>2
<1>7. ASSUME NEW slot \in Slots, scans' = [scans EXCEPT ![slot] = Free], stops' = stops, started' = started,
             \/ ticking' = ticking /\ handle' = handle
             \/ scans[slot].starter = TRUE /\ ticking' = ticking + 1 /\ handle' = TRUE
      PROVE  TimersCounted'
  <2>1. Free.starter = FALSE /\ Free.at = "free"
    BY DEF Free
  <2>2. scans[slot].starter \in BOOLEAN
    BY <1>0 DEF Typed, ScansTyped, Scan
  <2>3. /\ scans'[slot] = Free
        /\ \A s \in Slots \ {slot} : scans'[s] = scans[s]
    BY <1>0, <1>7 DEF Typed, ScansTyped
  <2>4. \A s \in Slots : scans'[s].at = "provisioning" => scans'[s].starter = TRUE
    BY <2>1, <2>3 DEF TimersCounted
  <2>5. Cardinality(Starters') = Cardinality(Starters) - (IF scans[slot].starter = TRUE THEN 1 ELSE 0)
    <3>1. CASE scans[slot].starter = TRUE
      BY <1>0, <1>7, <2>1, <3>1, StartersStep
    <3>2. CASE scans[slot].starter = FALSE
      <4>1. Cardinality(Starters') = Cardinality(Starters)
        BY <1>0, <1>7, <2>1, <3>2, StartersStep
      <4>. QED BY <1>0, <3>2, <4>1
    <3>. QED BY <2>2, <3>1, <3>2
  <2>6. /\ ticking' \in Nat /\ (handle' = TRUE => ticking' >= 1) /\ handle' \in BOOLEAN
        /\ ticking' + Cardinality(Starters') <= ticking + Cardinality(Starters)
    <3>1. CASE ticking' = ticking /\ handle' = handle
      <4>1. handle' \in BOOLEAN /\ (handle' = TRUE => ticking' >= 1)
        BY <3>1 DEF TimersCounted
      <4>2. Cardinality(Starters') <= Cardinality(Starters)
        BY <1>0, <2>2, <2>5
      <4>. QED BY <1>0, <2>5, <3>1, <4>1, <4>2
    <3>2. CASE scans[slot].starter = TRUE /\ ticking' = ticking + 1 /\ handle' = TRUE
      <4>1. Cardinality(Starters') = Cardinality(Starters) - 1
        BY <2>5, <3>2
      <4>. QED BY <1>0, <3>2, <4>1
    <3>. QED BY <1>7, <3>1, <3>2
  <2>7. Cardinality(Starters') \in Int
    BY <1>0, <2>5
  <2>8. ticking + Cardinality(Starters) <= stops + (IF started THEN 1 ELSE 0)
    BY DEF TimersCounted
  <2>9. ticking' + Cardinality(Starters') <= stops' + (IF started' THEN 1 ELSE 0)
    <3> DEFINE most == stops + (IF started THEN 1 ELSE 0)
    <3>1. most \in Int /\ stops' + (IF started' THEN 1 ELSE 0) = most
      BY <1>0, <1>7
    <3>2. ticking + Cardinality(Starters) <= most
      BY <2>8
    <3> HIDE DEF most
    <3>. QED BY <1>0, <2>6, <2>7, <3>1, <3>2
  <2>. QED BY <1>7, <2>4, <2>6, <2>9 DEF TimersCounted
<1>8. ASSUME NEW slot \in Slots, Ends(slot) PROVE TimersCounted'
  <2>1. scans[slot].starter \in BOOLEAN
    BY <1>0 DEF Typed, ScansTyped, Scan
  <2>2. CASE scans[slot].starter = TRUE
    <3>1. ticking' = ticking + 1 /\ handle' = TRUE
      BY <1>8, <2>2 DEF Ends
    <3>. QED BY <1>7, <1>8, <2>2, <3>1 DEF Ends
  <2>3. CASE scans[slot].starter = FALSE
    <3>1. ticking' = ticking /\ handle' = handle
      BY <1>8, <2>3 DEF Ends, TimersCounted
    <3>. QED BY <1>7, <1>8, <3>1 DEF Ends
  <2>. QED BY <2>1, <2>2, <2>3
<1>9. ASSUME NEW slot \in Slots, Rejected(slot) PROVE TimersCounted'
  BY <1>7, <1>9 DEF Rejected, lifecycle
<1>10. ASSUME NEW slot \in Slots, Discovery(slot) PROVE TimersCounted'
  BY <1>6, <1>8, <1>9, <1>10 DEF Discovery, Discovered, NotOk
<1>11. ASSUME NEW p \in Partners, Heartbeat(p) \/ GoDown(p) \/ ComeUp(p) PROVE UNCHANGED <<lifecycle, scans>>
  BY <1>11 DEF Heartbeat, BeatTooLate, BeatAsks, HeartbeatAnswered, HeartbeatFailed, GoDown, ComeUp
<1>12. CASE Pass \/ UNCHANGED vars
  BY <1>1, <1>12 DEF Pass, vars, lifecycle
<1>. QED BY <1>1, <1>3, <1>4, <1>5, <1>10, <1>11, <1>12 DEF Next

LEMMA BoundsStep == IInv /\ InBounds /\ [Next]_vars => InBounds'
<1>. SUFFICES ASSUME IInv, InBounds, [Next]_vars PROVE InBounds'
  OBVIOUS
<1>0. /\ beats \in [Partners -> Beat] /\ HeartbeatInterval \in Nat \ {0} /\ Late \in Nat
      /\ \A p \in Partners : -Late <= beats[p].due /\ beats[p].due <= HeartbeatInterval
  BY HarnessAssumption DEF IInv, Typed, ConnectionsTyped, InBounds
<1>1. ASSUME \A q \in Partners : beats'[q].due \in {beats[q].due, HeartbeatInterval} PROVE InBounds'
  <2>1. -Late <= HeartbeatInterval /\ HeartbeatInterval <= HeartbeatInterval
    BY <1>0
  <2>. QED BY <1>0, <1>1, <2>1 DEF InBounds
<1>2. ASSUME UNCHANGED beats PROVE InBounds'
  BY <1>1, <1>2
<1>3. ASSUME NEW gone, DisconnectPartners(gone) PROVE InBounds'
  <2>1. \A q \in Partners : beats'[q].due = beats[q].due
    <3>. TAKE q \in Partners
    <3>1. beats[q] \in Beat
      BY <1>0
    <3> DEFINE n == beats[q].running - 1
    <3>2. beats'[q] = IF q \in gone /\ beats[q].stored
                      THEN [beats[q] EXCEPT !.running = n, !.stored = FALSE] ELSE beats[q]
      BY <1>3 DEF DisconnectPartners
    <3> HIDE DEF n
    <3>. QED BY <3>1, <3>2 DEF Beat
  <2>. QED BY <1>1, <2>1
<1>4. ASSUME NEW found, ConnectPartners(found) PROVE InBounds'
  <2> DEFINE new == NewPartners(found)
  <2>1. beats' = [q \in Partners |->
                    IF q \in new
                    THEN [running |-> beats[q].running + 1, due |-> HeartbeatInterval, stored |-> TRUE]
                    ELSE beats[q]]
    BY <1>4 DEF ConnectPartners, StartHeartbeats
  <2> HIDE DEF new
  <2>. QED BY <1>1, <2>1
<1>5. ASSUME NEW p \in Partners, Heartbeat(p) PROVE InBounds'
  <2>1. ASSUME BeatAsks(p) PROVE InBounds'
    <3>1. beats' = [beats EXCEPT ![p].due = HeartbeatInterval]
      BY <2>1 DEF BeatAsks, Wind
    <3>2. \A q \in Partners : beats'[q].due = IF q = p THEN HeartbeatInterval ELSE beats[q].due
      BY <1>0, <3>1 DEF Beat
    <3>. QED BY <1>1, <3>2
  <2>2. ASSUME BeatTooLate(p) \/ HeartbeatAnswered(p) \/ HeartbeatFailed(p) PROVE InBounds'
    BY <1>2, <1>3, <2>2 DEF BeatTooLate, HeartbeatAnswered, HeartbeatFailed
  <2>. QED BY <1>5, <2>1, <2>2 DEF Heartbeat
<1>6. ASSUME NEW slot \in Slots, Discovery(slot) PROVE InBounds'
  BY <1>2, <1>4, <1>6 DEF Discovery, Provisioned, Discovered, NotOk, Rejected, connections
<1>7. CASE Pass
  <2>. SUFFICES ASSUME NEW p \in Partners
                PROVE  -Late <= beats'[p].due /\ beats'[p].due <= HeartbeatInterval
    BY DEF InBounds
  <2> DEFINE n == beats[p].due - 1
  <2>1. beats[p] \in Beat /\ -Late <= beats[p].due /\ beats[p].due <= HeartbeatInterval
    BY <1>0
  <2>2. beats[p].running > 0 => beats[p].due > -Late
    BY <1>7 DEF Pass
  <2>3. beats'[p] = IF beats[p].running > 0 THEN [beats[p] EXCEPT !.due = n] ELSE beats[p]
    BY <1>7 DEF Pass
  <2>4. beats[p].due \in Int /\ n = beats[p].due - 1
    BY <2>1 DEF Beat
  <2>5. beats[p].running > 0 => -Late <= n /\ n <= HeartbeatInterval
    BY <1>0, <2>1, <2>2, <2>4
  <2> HIDE DEF n
  <2>6. beats'[p].due = IF beats[p].running > 0 THEN n ELSE beats[p].due
    BY <2>1, <2>3 DEF Beat
  <2>. QED BY <2>1, <2>5, <2>6
<1>8. ASSUME NEW p \in Partners, GoDown(p) \/ ComeUp(p) PROVE InBounds'
  BY <1>2, <1>8 DEF GoDown, ComeUp
<1>9. CASE start \/ stop \/ DiscoveryTimer \/ UNCHANGED vars
  BY <1>2, <1>3, <1>9 DEF start, stop, DiscoveryTimer, connections, vars
<1>. QED BY <1>5, <1>6, <1>7, <1>8, <1>9 DEF Next

LEMMA InitTimers == Init => TimersCounted /\ InBounds
<1>. SUFFICES ASSUME Init PROVE TimersCounted /\ InBounds
  OBVIOUS
<1>1. Starters = {}
  BY DEF Init, Starters, Free
<1>2. Cardinality(Starters) = 0
  BY <1>1, FS_EmptySet
<1>3. TimersCounted
  <2>1. started = FALSE /\ handle = FALSE /\ stops = 0 /\ ticking = 0
    BY DEF Init
  <2>2. \A slot \in Slots : scans[slot].at = "free"
    BY DEF Init, Free
  <2>3. 0 \in 0..MaxStops /\ 0 + 0 <= 0 + 0
    BY HarnessAssumption
  <2>. QED BY <1>2, <2>1, <2>2, <2>3 DEF TimersCounted
<1>4. InBounds
  BY HarnessAssumption DEF Init, InBounds, NoBeat
<1>. QED BY <1>3, <1>4

\* What the harness keeps is well typed and within its bounds: no timer is later
\* than a timer may be, and of the discovery timers that start sets and stop may
\* miss there is never more than one for each call of stop and one for the last
\* start.
THEOREM TypeCorrect == Spec => []TypeOK
<1>1. IInv /\ TimersCounted /\ InBounds => TypeOK
  <2>. SUFFICES ASSUME IInv, TimersCounted, InBounds PROVE TypeOK
    OBVIOUS
  <2>1. /\ scans \in [Slots -> Scan] /\ beats \in [Partners -> Beat]
        /\ DOMAIN partners \subseteq Partners /\ up \subseteq Partners
        /\ \A p \in DOMAIN partners : partners[p] \in Record(p) /\ Sound(p)
    BY DEF IInv, Typed, ScansTyped, ConnectionsTyped, Beating
  <2>2. ticking \in 0..(MaxStops + 1)
    <3>1. Cardinality(Starters) \in Nat
      BY StartersFinite DEF Starters
    <3>2. ticking \in Nat /\ stops \in 0..MaxStops /\ MaxStops \in Nat
          /\ ticking + Cardinality(Starters) <= stops + (IF started THEN 1 ELSE 0)
      BY HarnessAssumption DEF TimersCounted
    <3>. QED BY <3>1, <3>2
  <2>3. \A slot \in Slots : /\ scans[slot].at \in {"free", "provisioning", "asked"}
                            /\ scans[slot].starter \in BOOLEAN
    BY <2>1 DEF Scan
  <2>4. DOMAIN active \subseteq UNION {Inbound[p] : p \in Partners}
    <3>. SUFFICES ASSUME NEW c \in DOMAIN active PROVE \E p \in Partners : c \in Inbound[p]
      OBVIOUS
    <3>1. active[c] \in DOMAIN partners /\ c \in partners[active[c]].inbound
      BY DEF IInv, ActiveProviderConnected
    <3>. QED BY <2>1, <3>1 DEF Record
  <2>5. ASSUME NEW p \in DOMAIN partners
        PROVE  {partners[p].age, partners[p].quiet} \subseteq 0..(Patience + 1)
    <3>1. /\ partners[p].age \in Nat /\ partners[p].quiet \in Nat /\ beats[p].due \in Int
          /\ partners[p].quiet <= partners[p].age
          /\ partners[p].age <= HeartbeatTimeout + HeartbeatInterval - beats[p].due
          /\ -Late <= beats[p].due
      BY <2>1 DEF Record, Beat, Sound
    <3>. QED BY <3>1, HarnessAssumption DEF Patience
  <2>6. \A p \in Partners : beats[p].due \in -Late..HeartbeatInterval
    BY <2>1, HarnessAssumption DEF InBounds, Beat
  <2>. QED BY <2>1, <2>2, <2>3, <2>4, <2>5, <2>6 DEF TypeOK, TimersCounted
<1>. QED BY <1>1, InitTimers, TimersStep, BoundsStep, Invariance, PTL DEF Spec

=============================================================================
