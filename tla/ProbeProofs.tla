----------------------------- MODULE ProbeProofs -----------------------------
(***************************************************************************)
(* Proofs about ProbeMesh, for any registry, extra ports, hosts, answers   *)
(* and number of changes.                                                  *)
(***************************************************************************)
EXTENDS ProbeMesh, FiniteSetTheorems, TLAPS

-----------------------------------------------------------------------------
\* The sequences that a command probes.

\* How many of S are not above x.
Rank(S, x) == Cardinality({y \in S : y <= x})

LEMMA RankGrows ==
  ASSUME NEW S, IsFiniteSet(S), S \subseteq Int, NEW x \in S, NEW y \in S, x < y
  PROVE  /\ Rank(S, x) \in 1..Cardinality(S) /\ Rank(S, y) \in 1..Cardinality(S)
         /\ Rank(S, x) < Rank(S, y)
<1> DEFINE L == {z \in S : z <= x}
           U == {z \in S : z <= y}
<1>1. L \subseteq U /\ U \subseteq S /\ x \in L /\ y \in U /\ y \notin L
  <2>1. \A z \in S : z \in Int
    OBVIOUS
  <2>2. x \in Int /\ y \in Int
    OBVIOUS
  <2>3. \A z \in S : z <= x => z <= y
    BY <2>1, <2>2
  <2>4. x <= x /\ y <= y /\ ~(y <= x)
    BY <2>2
  <2>. QED BY <2>3, <2>4
<1>2. IsFiniteSet(L) /\ IsFiniteSet(U) /\ Cardinality(L) <= Cardinality(U)
      /\ Cardinality(U) <= Cardinality(S) /\ (Cardinality(L) = Cardinality(U) => L = U)
  BY <1>1, FS_Subset
<1>3. Cardinality(L) # 0 /\ Cardinality(L) \in Nat /\ Cardinality(U) \in Nat /\ Cardinality(S) \in Nat
  BY <1>1, <1>2, FS_EmptySet, FS_CardinalityType
<1> HIDE DEF L, U
<1>4. Cardinality(L) # Cardinality(U)
  BY <1>1, <1>2
<1>5. Rank(S, x) = Cardinality(L) /\ Rank(S, y) = Cardinality(U)
  BY DEF Rank, L, U
<1>. QED BY <1>2, <1>3, <1>4, <1>5

LEMMA RankBounds ==
  ASSUME NEW S, IsFiniteSet(S), S \subseteq Int, NEW x \in S
  PROVE  Rank(S, x) \in 1..Cardinality(S)
<1> DEFINE L == {z \in S : z <= x}
<1>1. L \subseteq S /\ x \in L
  OBVIOUS
<1>2. IsFiniteSet(L) /\ Cardinality(L) <= Cardinality(S)
  BY <1>1, FS_Subset
<1>3. Cardinality(L) # 0 /\ Cardinality(L) \in Nat /\ Cardinality(S) \in Nat
  BY <1>1, <1>2, FS_EmptySet, FS_CardinalityType
<1>. QED BY <1>2, <1>3 DEF Rank

\* Every rank is taken.
LEMMA RankOnto ==
  ASSUME NEW S, IsFiniteSet(S), S \subseteq Int, NEW n \in 1..Cardinality(S)
  PROVE  \E x \in S : Rank(S, x) = n
<1> DEFINE f == [x \in S |-> Rank(S, x)]
           T == {Rank(S, x) : x \in S}
<1>1. T \subseteq 1..Cardinality(S)
  BY RankBounds
<1>2. \A x, y \in S : f[x] = f[y] => x = y
  <2>. SUFFICES ASSUME NEW x \in S, NEW y \in S, f[x] = f[y], x # y PROVE FALSE
    OBVIOUS
  <2>1. x < y \/ y < x
    OBVIOUS
  <2>2. Rank(S, x) < Rank(S, y) \/ Rank(S, y) < Rank(S, x)
    BY <2>1, RankGrows
  <2>3. Rank(S, x) \in 1..Cardinality(S) /\ Rank(S, y) \in 1..Cardinality(S)
    BY RankBounds
  <2>4. Rank(S, x) = Rank(S, y)
    OBVIOUS
  <2>. QED BY <2>2, <2>3, <2>4, FS_CardinalityType
<1>3. f \in Bijection(S, T)
  BY <1>2 DEF Bijection, Injection, Surjection, IsInjective
<1>4. IsFiniteSet(T) /\ Cardinality(T) = Cardinality(S)
  BY <1>3, FS_Bijection DEF ExistsBijection
<1>5. Cardinality(S) \in Nat
  BY FS_CardinalityType
<1>6. IsFiniteSet(1..Cardinality(S)) /\ Cardinality(1..Cardinality(S)) = Cardinality(S)
  BY <1>5, FS_Interval
<1>7. T = 1..Cardinality(S)
  BY <1>1, <1>4, <1>6, FS_Subset
<1>. QED BY <1>7

\* There is a sequence in ascending order.
LEMMA AscendingIs ==
  ASSUME NEW S, IsFiniteSet(S), S \subseteq Int
  PROVE  /\ Ascending(S) \in [1..Cardinality(S) -> S]
         /\ \A i, j \in 1..Cardinality(S) : i < j => Ascending(S)[i] < Ascending(S)[j]
<1> DEFINE s == [n \in 1..Cardinality(S) |-> CHOOSE x \in S : Rank(S, x) = n]
<1>1. \A n \in 1..Cardinality(S) : s[n] \in S /\ Rank(S, s[n]) = n
  BY RankOnto
<1>2. s \in [1..Cardinality(S) -> S]
  BY <1>1
<1>3. Cardinality(S) \in Nat
  BY FS_CardinalityType
<1> HIDE DEF s
<1>4. ASSUME NEW i \in 1..Cardinality(S), NEW j \in 1..Cardinality(S), i < j
      PROVE  s[i] < s[j]
  <2>1. s[i] \in S /\ s[j] \in S /\ s[i] \in Int /\ s[j] \in Int
    BY <1>1
  <2>2. s[i] # s[j]
    BY <1>1, <1>3, <1>4
  <2>3. s[j] < s[i] => Rank(S, s[j]) < Rank(S, s[i])
    BY <2>1, RankGrows
  <2>4. ~(s[j] < s[i])
    BY <1>1, <1>3, <1>4, <2>3
  <2>. QED BY <2>1, <2>2, <2>4
<1>5. \E t \in [1..Cardinality(S) -> S] : \A i, j \in DOMAIN t : i < j => t[i] < t[j]
  BY <1>2, <1>4
<1>. QED BY <1>5 DEF Ascending

\* What t takes from s, from different places.
Takes(t, s, places) ==
  /\ \A n \in DOMAIN t : \E i \in places : t[n] = s[i]
  /\ \A n, o \in DOMAIN t : n # o => \E i, j \in places : i # j /\ t[n] = s[i] /\ t[o] = s[j]

LEMMA ItemsAre ==
  ASSUME NEW T, NEW s \in Seq(T), NEW places, places \subseteq DOMAIN s
  PROVE  ItemsAt(s, places) \in Seq(T) /\ Takes(ItemsAt(s, places), s, places)
<1>1. IsFiniteSet(places) /\ places \subseteq Int
  <2>1. IsFiniteSet(DOMAIN s)
    BY FS_Interval
  <2>. QED BY <2>1, FS_Subset
<1>2. /\ Ascending(places) \in [1..Cardinality(places) -> places]
      /\ \A i, j \in 1..Cardinality(places) : i < j => Ascending(places)[i] < Ascending(places)[j]
  BY <1>1, AscendingIs
<1>3. Cardinality(places) \in Nat
  BY <1>1, FS_CardinalityType
<1> DEFINE a == Ascending(places)
<1> HIDE DEF a
<1>4. \A n \in 1..Cardinality(places) : a[n] \in places /\ a[n] \in Int
  BY <1>1, <1>2 DEF a
<1>5. \A n, o \in 1..Cardinality(places) : n # o => a[n] # a[o]
  BY <1>2, <1>3, <1>4 DEF a
<1>6. \A i \in places : s[i] \in T
  OBVIOUS
<1>7. ItemsAt(s, places) = [n \in 1..Cardinality(places) |-> s[a[n]]]
  BY DEF ItemsAt, a
<1> DEFINE c == Cardinality(places)
           t == ItemsAt(s, places)
<1> HIDE DEF c, t
<1>8. c \in Nat /\ t = [n \in 1..c |-> s[a[n]]]
  BY <1>3, <1>7 DEF c, t
<1>9. DOMAIN t = 1..c /\ \A n \in 1..c : t[n] = s[a[n]] /\ a[n] \in places /\ s[a[n]] \in T
  BY <1>4, <1>6, <1>8 DEF c
<1>10. t \in Seq(T)
  BY <1>8, <1>9
<1>11. \A n, o \in 1..c : n # o => a[n] # a[o]
  BY <1>5 DEF c
<1>12. Takes(t, s, places)
  BY <1>9, <1>11 DEF Takes
<1>. QED BY <1>10, <1>12 DEF t

-----------------------------------------------------------------------------
\* What a command is given.

LEMMA RegistryProbed ==
  /\ probe_ports \in Seq(Ports)
  /\ \A i, j \in DOMAIN probe_ports : i # j => probe_ports[i] # probe_ports[j]
<1> DEFINE places == {i \in DOMAIN Registry : is_probeable(Registry[i])}
           probeable == ItemsAt(Registry, places)
<1>1. Registry \in Seq(Entries) /\ places \subseteq DOMAIN Registry
  BY RegistryAssumption DEF Entries
<1>2. probeable \in Seq(Entries) /\ Takes(probeable, Registry, places)
  <2> HIDE DEF places
  <2>. QED BY <1>1, ItemsAre
<1>3. \A i, j \in places : i # j => Registry[i].port # Registry[j].port
  BY RegistryAssumption DEF is_probeable
<1>4. probe_ports = [n \in DOMAIN probeable |-> probeable[n].port]
  BY DEF probe_ports
<1> HIDE DEF places, probeable
<1>5. \A e \in Entries : e.port \in Ports
  BY DEF Ports
<1>6. \A n \in DOMAIN probeable : probeable[n].port \in Ports
  BY <1>2, <1>5 DEF Takes
<1>7. DOMAIN probeable = 1..Len(probeable) /\ Len(probeable) \in Nat
  BY <1>2
<1>8. probe_ports \in Seq(Ports)
  BY <1>4, <1>6, <1>7
<1>9. \A n, o \in DOMAIN probeable : n # o => probeable[n].port # probeable[o].port
  BY <1>2, <1>3 DEF Takes
<1>. QED BY <1>4, <1>8, <1>9

LEMMA PortsAreNumbers == Ports \subseteq Nat
<1>1. \A e \in Entries : e.port \in Nat
  BY RegistryAssumption DEF Entries, Range
<1>2. \A x \in ExtraPorts : Range(x) \subseteq Nat
  BY ProbeAssumption DEF Range
<1>. QED BY <1>1, <1>2 DEF Ports

\* Each port is probed once.
LEMMA ExtraProbed ==
  ASSUME NEW extra \in ExtraPorts
  PROVE  /\ PortsToProbe(extra) \in Seq(Ports)
         /\ \A i, j \in DOMAIN PortsToProbe(extra) : i # j => PortsToProbe(extra)[i] # PortsToProbe(extra)[j]
<1> DEFINE known == Range(probe_ports)
           new == {i \in DOMAIN extra : extra[i] \notin known \cup {extra[j] : j \in 1..(i - 1)}}
           s == Ascending(known)
           t == ItemsAt(extra, new)
<1>1. known \subseteq Ports
  BY RegistryProbed DEF Range
<1>2. IsFiniteSet(known)
  <2>1. IsFiniteSet(DOMAIN probe_ports)
    BY RegistryProbed, FS_Interval
  <2>2. probe_ports \in Surjection(DOMAIN probe_ports, known)
    <3>1. probe_ports \in [DOMAIN probe_ports -> known]
      BY RegistryProbed DEF Range
    <3>2. \A p \in known : \E i \in DOMAIN probe_ports : probe_ports[i] = p
      BY DEF Range
    <3> HIDE DEF known
    <3>. QED BY <3>1, <3>2 DEF Surjection
  <2>. QED BY <2>1, <2>2, FS_Surjection
<1>3. /\ s \in [1..Cardinality(known) -> known]
      /\ \A i, j \in 1..Cardinality(known) : i < j => s[i] < s[j]
  <2> HIDE DEF known
  <2>1. known \subseteq Int
    BY <1>1, PortsAreNumbers
  <2>. QED BY <1>2, <2>1, AscendingIs, Zenon
<1>4. Cardinality(known) \in Nat
  BY <1>2, FS_CardinalityType
<1>5. s \in Seq(Ports) /\ \A i \in DOMAIN s : s[i] \in known
  BY <1>1, <1>3, <1>4
<1>6. \A i, j \in DOMAIN s : i # j => s[i] # s[j]
  <2> HIDE DEF s, known
  <2>1. \A i \in DOMAIN s : s[i] \in Int
    <3>1. \A i \in DOMAIN s : s[i] \in known
      BY <1>5
    <3>2. \A p \in known : p \in Int
      BY <1>1, PortsAreNumbers
    <3>. QED BY <3>1, <3>2
  <2>2. DOMAIN s = 1..Cardinality(known)
    BY <1>3
  <2>3. \A i, j \in DOMAIN s : i < j => s[i] # s[j]
    BY <1>3, <2>1, <2>2
  <2>. QED BY <1>4, <2>2, <2>3
<1>7. extra \in Seq(Ports)
  <2>1. extra \in Seq(Nat)
    BY ProbeAssumption
  <2>2. \A i \in DOMAIN extra : extra[i] \in Ports
    BY DEF Ports, Range
  <2>. QED BY <2>1, <2>2
<1>8. t \in Seq(Ports) /\ Takes(t, extra, new)
  <2>1. new \subseteq DOMAIN extra
    OBVIOUS
  <2> HIDE DEF new
  <2>. QED BY <1>7, <2>1, ItemsAre
<1>9. \A i \in new : extra[i] \notin known
  OBVIOUS
<1>10. \A i, j \in new : i # j => extra[i] # extra[j]
  <2>. SUFFICES ASSUME NEW i \in new, NEW j \in new, i < j PROVE extra[i] # extra[j]
    BY <1>7
  <2>1. i \in 1..(j - 1)
    BY <1>7
  <2>. QED BY <2>1
<1>11. PortsToProbe(extra) = s \o t
  BY DEF PortsToProbe
<1> HIDE DEF known, new, s, t
<1>12. \A n \in DOMAIN t : t[n] \notin known
  BY <1>8, <1>9 DEF Takes
<1>13. \A n, o \in DOMAIN t : n # o => t[n] # t[o]
  BY <1>8, <1>10 DEF Takes
<1>. QED BY <1>5, <1>6, <1>8, <1>11, <1>12, <1>13

Given(c) ==
  /\ c.ports \in Seq(Ports)
  /\ \A i, j \in DOMAIN c.ports : i # j => c.ports[i] # c.ports[j]
  /\ c.hosts \in Seq(Hosts) /\ c.hosts # <<>>

LEMMA CommandsGiven == \A c \in Commands : Given(c) /\ c # Idle
<1>1. Loopbacks \in Seq(Hosts) /\ Loopbacks # <<>>
  BY DEF Loopbacks, Hosts, Range
<1>2. \A arg \in HostArgs : HostsToTry(arg) \in Seq(Hosts) /\ HostsToTry(arg) # <<>>
  <2>. SUFFICES ASSUME NEW arg \in HostArgs
                PROVE  HostsToTry(arg) \in Seq(Hosts) /\ HostsToTry(arg) # <<>>
    OBVIOUS
  <2>1. CASE arg = "localhost"
    BY <1>1, <2>1 DEF HostsToTry
  <2>2. CASE arg # "localhost"
    <3>1. arg \in Hosts
      BY <2>2 DEF Hosts
    <3>. QED BY <2>2, <3>1 DEF HostsToTry
  <2>. QED BY <2>1, <2>2
<1>3. ASSUME NEW extra \in ExtraPorts, NEW arg \in HostArgs
      PROVE  LET c == [name |-> "probe", ports |-> PortsToProbe(extra), hosts |-> HostsToTry(arg)]
             IN  Given(c) /\ c # Idle
  BY <1>2, ExtraProbed DEF Given, Idle
<1>4. LET c == [name |-> "mesh", ports |-> probe_ports, hosts |-> Loopbacks] IN Given(c) /\ c # Idle
  BY <1>1, RegistryProbed DEF Given, Idle
<1>. QED BY <1>3, <1>4 DEF Commands

-----------------------------------------------------------------------------
\* Where the command is, and what it has seen.

Done == Len(command.ports) - Len(ports)
Tried == Len(command.hosts) - Len(untried)

Here(i, j) == [port |-> command.ports[i], host |-> command.hosts[j]]

Positions ==
  /\ ports \in Seq(Ports) /\ Len(ports) <= Len(command.ports)
  /\ \A n \in 1..Len(ports) : ports[n] = command.ports[Done + n]
  /\ untried \in Seq(Hosts) /\ Len(untried) <= Len(command.hosts)
  /\ \A n \in 1..Len(untried) : untried[n] = command.hosts[Tried + n]
  /\ ports = <<>> <=> untried = <<>>

\* At some time there was no manifest, or one that is listed.
Void(a) == \E answer \in been[a] : ManifestIn(answer) = {}
Found(a) == \E answer \in been[a] : \E m \in ManifestIn(answer) : Listing(a, m) \in Range(listed)

\* A port that was probed has given the service of the first host that had one.
Settled(i) ==
  \/ \A j \in DOMAIN command.hosts : Void(Here(i, j))
  \/ \E j \in DOMAIN command.hosts : Found(Here(i, j)) /\ \A k \in 1..(j - 1) : Void(Here(i, k))

Progress ==
  /\ \A i \in 1..Done : Settled(i)
  /\ ports # <<>> => \A j \in 1..Tried : Void(Here(Done + 1, j))

\* The history holds what there is now.
Current == command # Idle => \A a \in Addresses : net[a] \in been[a]

WasThere(l) ==
  LET a == [port |-> l.port, host |-> l.host] IN
  a \in Addresses /\ \E answer \in been[a] : \E m \in ManifestIn(answer) : l = Listing(a, m)

Listings ==
  {Listing(a, m) : a \in Addresses, m \in UNION {ManifestIn(answer) : answer \in Answers \cup {Nobody}}}

AllWereThere == \A n \in DOMAIN listed : WasThere(listed[n])

OnePerPort ==
  /\ \A n \in DOMAIN listed : \E i \in 1..Done : listed[n].port = command.ports[i]
  /\ \A n, o \in DOMAIN listed : n # o => listed[n].port # listed[o].port

Typed ==
  /\ net \in [Addresses -> Answers \cup {Nobody}]
  /\ been \in [Addresses -> SUBSET (Answers \cup {Nobody})]
  /\ changes \in 0..MaxChanges
  /\ command \in Commands \cup {Idle}
  /\ listed \in Seq(Listings)
  /\ command = Idle => listed = <<>>

IInv == Typed /\ Positions /\ Progress /\ Current /\ OnePerPort /\ AllWereThere

-----------------------------------------------------------------------------
\* How a step moves the command on.

LEMMA HereIs ==
  ASSUME IInv, ports # <<>>
  PROVE  /\ command \in Commands /\ Given(command)
         /\ Done \in Nat /\ Done + 1 \in DOMAIN command.ports
         /\ Tried \in Nat /\ Tried + 1 \in DOMAIN command.hosts
         /\ DOMAIN command.hosts = 1..Len(command.hosts) /\ Len(command.hosts) \in Nat
         /\ Len(untried) \in Nat /\ Len(untried) >= 1
         /\ [port |-> Head(ports), host |-> Head(untried)] = Here(Done + 1, Tried + 1)
         /\ Here(Done + 1, Tried + 1) \in Addresses
<1>. USE DEF IInv, Typed, Positions
<1>1. command # Idle
  <2>1. command = Idle => Len(ports) <= 0
    BY DEF Idle
  <2>. QED BY <2>1
<1>2. command \in Commands /\ Given(command)
  BY <1>1, CommandsGiven
<1>3. Len(ports) \in Nat /\ Len(ports) >= 1 /\ Len(untried) \in Nat /\ Len(untried) >= 1
  OBVIOUS
<1>4. Len(command.ports) \in Nat /\ Len(command.hosts) \in Nat
      /\ DOMAIN command.ports = 1..Len(command.ports) /\ DOMAIN command.hosts = 1..Len(command.hosts)
  BY <1>2 DEF Given
<1>5. Done \in Nat /\ Done + 1 \in DOMAIN command.ports
  BY <1>3, <1>4 DEF Done
<1>6. Tried \in Nat /\ Tried + 1 \in DOMAIN command.hosts
  BY <1>3, <1>4 DEF Tried
<1>7. Head(ports) = command.ports[Done + 1] /\ Head(untried) = command.hosts[Tried + 1]
  BY <1>3
<1>8. command.ports[Done + 1] \in Ports /\ command.hosts[Tried + 1] \in Hosts
  BY <1>2, <1>5, <1>6 DEF Given
<1>9. Here(Done + 1, Tried + 1) \in Addresses
  BY <1>8 DEF Here, Addresses
<1>. QED BY <1>2, <1>3, <1>4, <1>5, <1>6, <1>7, <1>9 DEF Here

LEMMA SuffixStep ==
  ASSUME NEW S, NEW s \in Seq(S), s # <<>>, NEW t, NEW n \in Nat, Len(s) <= n,
         \A i \in 1..Len(s) : s[i] = t[n - Len(s) + i]
  PROVE  /\ Tail(s) \in Seq(S) /\ Len(Tail(s)) = Len(s) - 1
         /\ \A i \in 1..Len(Tail(s)) : Tail(s)[i] = t[n - Len(Tail(s)) + i]
<1>1. Tail(s) \in Seq(S) /\ Len(Tail(s)) = Len(s) - 1
  OBVIOUS
<1>2. ASSUME NEW i \in 1..Len(Tail(s)) PROVE Tail(s)[i] = t[n - Len(Tail(s)) + i]
  <2>1. Tail(s)[i] = s[i + 1]
    OBVIOUS
  <2>2. s[i + 1] = t[n - Len(s) + (i + 1)]
    BY <1>1
  <2>3. n - Len(s) + (i + 1) = n - Len(Tail(s)) + i
    BY <1>1
  <2>. QED BY <2>1, <2>2, <2>3
<1>. QED BY <1>1, <1>2

LEMMA NextPortMoves ==
  ASSUME IInv, ports # <<>>, NextPort, UNCHANGED command
  PROVE  /\ Positions' /\ Done' = Done + 1
         /\ ports' # <<>> => Tried' = 0
<1>. USE DEF IInv, Positions
<1>1. Given(command) /\ command' = command
  BY HereIs
<1>2. Len(command.ports) \in Nat /\ Len(command.hosts) \in Nat /\ command.hosts # <<>>
      /\ command.hosts \in Seq(Hosts)
  BY <1>1 DEF Given
<1>3. /\ ports' \in Seq(Ports) /\ Len(ports') = Len(ports) - 1
      /\ \A i \in 1..Len(ports') : ports'[i] = command.ports[Len(command.ports) - Len(ports') + i]
  <2>1. /\ ports' = Tail(ports) /\ ports \in Seq(Ports) /\ Len(ports) <= Len(command.ports)
        /\ \A i \in 1..Len(ports) : ports[i] = command.ports[Len(command.ports) - Len(ports) + i]
    BY DEF NextPort, Done
  <2> HIDE DEF IInv, Positions
  <2>. QED BY <1>2, <2>1, SuffixStep
<1>4. untried' = IF ports' = <<>> THEN <<>> ELSE command.hosts
  BY DEF NextPort
<1>5. Done' = Done + 1
  BY <1>1, <1>2, <1>3 DEF Done
<1>6. ports' # <<>> => Tried' = 0
  BY <1>1, <1>2, <1>4 DEF Tried
<1>7. /\ untried' \in Seq(Hosts) /\ Len(untried') <= Len(command.hosts)
      /\ \A n \in 1..Len(untried') : untried'[n] = command.hosts[Tried' + n]
      /\ ports' = <<>> <=> untried' = <<>>
  <2>1. CASE ports' = <<>>
    BY <1>2, <1>4, <2>1
  <2>2. CASE ports' # <<>>
    BY <1>2, <1>4, <1>6, <2>2
  <2>. QED BY <2>1, <2>2
<1>8. Positions'
  <2>1. Len(ports) <= Len(command.ports) /\ Len(ports) \in Nat
    OBVIOUS
  <2> HIDE DEF IInv, Positions
  <2>2. Len(ports') <= Len(command'.ports)
    BY <1>1, <1>2, <1>3, <2>1
  <2>3. Len(untried') <= Len(command'.hosts)
        /\ \A n \in 1..Len(untried') : untried'[n] = command'.hosts[Tried' + n]
    BY <1>1, <1>7
  <2>4. \A n \in 1..Len(ports') : ports'[n] = command'.ports[Done' + n]
    BY <1>1, <1>3, Zenon DEF Done
  <2>. QED BY <1>3, <1>7, <2>2, <2>3, <2>4 DEF Positions
<1>. QED BY <1>5, <1>6, <1>8

LEMMA NextHostMoves ==
  ASSUME IInv, ports # <<>>, Len(untried) > 1, untried' = Tail(untried), UNCHANGED <<command, ports>>
  PROVE  Positions' /\ Done' = Done /\ Tried' = Tried + 1
<1>. USE DEF IInv, Positions
<1>1. Given(command) /\ command' = command /\ ports' = ports /\ untried # <<>>
  BY HereIs
<1>2. Len(command.hosts) \in Nat
  BY <1>1 DEF Given
<1>3. /\ untried' \in Seq(Hosts) /\ Len(untried') = Len(untried) - 1
      /\ \A i \in 1..Len(untried') : untried'[i] = command.hosts[Len(command.hosts) - Len(untried') + i]
  <2>1. /\ untried \in Seq(Hosts) /\ Len(untried) <= Len(command.hosts)
        /\ \A i \in 1..Len(untried) : untried[i] = command.hosts[Len(command.hosts) - Len(untried) + i]
    BY DEF Tried
  <2> HIDE DEF IInv, Positions
  <2>. QED BY <1>1, <1>2, <2>1, SuffixStep
<1>4. Done' = Done
  BY <1>1 DEF Done
<1>5. Tried' = Tried + 1
  BY <1>1, <1>2, <1>3 DEF Tried
<1>6. untried' # <<>>
  <2>1. Len(untried) \in Nat
    OBVIOUS
  <2>2. Len(untried') # 0
    BY <1>3, <2>1
  <2>. QED BY <2>2
<1>. QED BY <1>1, <1>2, <1>3, <1>4, <1>5, <1>6 DEF Tried, Done

\* What was seen stays seen.
LEMMA SeenStays ==
  ASSUME Range(listed) \subseteq Range(listed)', NEW a, been[a] \subseteq been'[a]
  PROVE  (Void(a) => Void(a)') /\ (Found(a) => Found(a)')
BY DEF Void, Found

LEMMA SettledStays ==
  ASSUME IInv, command # Idle, command' = command, Range(listed) \subseteq Range(listed)',
         \A a \in Addresses : been[a] \subseteq been'[a],
         NEW i \in DOMAIN command.ports
  PROVE  /\ Settled(i) => Settled(i)'
         /\ \A j \in DOMAIN command.hosts : Void(Here(i, j)) => Void(Here(i, j))'
<1>1. Given(command)
  BY CommandsGiven DEF IInv, Typed
<1>2. \A j \in DOMAIN command.hosts : Here(i, j) \in Addresses /\ Here(i, j)' = Here(i, j)
  BY <1>1 DEF Given, Here, Addresses
<1>3. \A j \in DOMAIN command.hosts :
        (Void(Here(i, j)) => Void(Here(i, j))') /\ (Found(Here(i, j)) => Found(Here(i, j))')
  <2>. SUFFICES ASSUME NEW j \in DOMAIN command.hosts
                PROVE  (Void(Here(i, j)) => Void(Here(i, j))') /\ (Found(Here(i, j)) => Found(Here(i, j))')
    OBVIOUS
  <2>1. PICK a : a = Here(i, j) /\ a = Here(i, j)' /\ a \in Addresses
    BY <1>2
  <2>. QED BY <2>1, SeenStays DEF Void, Found
<1>4. ASSUME NEW j \in DOMAIN command.hosts, NEW k \in 1..(j - 1) PROVE k \in DOMAIN command.hosts
  BY <1>1, <1>4 DEF Given
<1>. QED BY <1>3, <1>4 DEF Settled

-----------------------------------------------------------------------------
\* Every step keeps the invariant.

LEMMA InitInv == Init => IInv
<1>. SUFFICES ASSUME Init PROVE IInv
  OBVIOUS
<1>. USE DEF Init
<1>1. Typed
  <2>1. Nobody \in Answers \cup {Nobody}
    OBVIOUS
  <2>2. 0 \in 0..MaxChanges
    BY ProbeAssumption
  <2>. QED BY <2>1, <2>2 DEF Typed
<1>2. Done = 0 /\ Tried = 0
  BY DEF Done, Tried, Idle
<1>3. Positions
  BY <1>2 DEF Positions, Idle
<1>4. Progress /\ Current /\ OnePerPort /\ AllWereThere
  BY <1>2 DEF Progress, Current, OnePerPort, AllWereThere
<1>. QED BY <1>1, <1>3, <1>4 DEF IInv

LEMMA ComeUpStep == IInv /\ ComeUp => IInv'
<1>. SUFFICES ASSUME IInv, ComeUp PROVE IInv'
  OBVIOUS
<1>. USE DEF ComeUp
<1>1. /\ command = Idle /\ command' = command /\ ports' = ports /\ untried' = untried
      /\ listed' = listed /\ been' = been /\ changes' = changes
  BY DEF scan
<1>2. net' \in [Addresses -> Answers \cup {Nobody}]
  BY DEF IInv, Typed
<1>3. Typed' /\ Current'
  BY <1>1, <1>2 DEF IInv, Typed, Current
<1>4. Done' = Done /\ Tried' = Tried
  BY <1>1 DEF Done, Tried
<1>5. Positions'
  BY <1>1, <1>4 DEF IInv, Positions
<1>7. Progress'
  <2>1. Done = 0 /\ ports = <<>>
    BY <1>1 DEF IInv, Positions, Done, Idle
  <2>. QED BY <1>1, <1>4, <2>1 DEF Progress
<1>8. OnePerPort'
  BY <1>1, <1>4 DEF IInv, OnePerPort
<1>9. AllWereThere'
  BY <1>1 DEF IInv, AllWereThere, WasThere
<1>. QED BY <1>3, <1>5, <1>7, <1>8, <1>9 DEF IInv

LEMMA StartStep == IInv /\ Start => IInv'
<1>. SUFFICES ASSUME IInv, Start PROVE IInv'
  OBVIOUS
<1>. USE DEF Start
<1>1. /\ command' \in Commands /\ listed = <<>> /\ listed' = <<>> /\ net' = net /\ changes' = changes
      /\ ports' = command'.ports /\ been' = [a \in Addresses |-> {net[a]}]
      /\ untried' = IF ports' = <<>> THEN <<>> ELSE command'.hosts
  BY DEF IInv, Typed
<1>2. PICK c \in Commands : c = command'
  BY <1>1
<1>3. Given(c) /\ c # Idle
  BY CommandsGiven
<1>4. c.ports \in Seq(Ports) /\ c.hosts \in Seq(Hosts) /\ c.hosts # <<>>
      /\ Len(c.ports) \in Nat /\ Len(c.hosts) \in Nat
  BY <1>3 DEF Given
<1>5. Done' = 0 /\ (ports' # <<>> => Tried' = 0)
  BY <1>1, <1>2, <1>4 DEF Done, Tried
<1>6. Typed'
  <2>1. \A a \in Addresses : net[a] \in Answers \cup {Nobody}
    BY DEF IInv, Typed
  <2>2. been' \in [Addresses -> SUBSET (Answers \cup {Nobody})]
    BY <1>1, <2>1
  <2>3. listed' \in Seq(Listings)
    BY <1>1
  <2>. QED BY <1>1, <1>2, <1>3, <2>2, <2>3 DEF IInv, Typed
<1>7. Current'
  BY <1>1 DEF Current
<1>8. Positions'
  <2>1. /\ ports' \in Seq(Ports) /\ Len(ports') <= Len(command'.ports)
        /\ \A n \in 1..Len(ports') : ports'[n] = command'.ports[Done' + n]
    BY <1>1, <1>2, <1>4, <1>5
  <2>2. CASE ports' = <<>>
    BY <1>1, <1>2, <1>4, <2>1, <2>2 DEF Positions
  <2>3. CASE ports' # <<>>
    <3>1. untried' = c.hosts
      BY <1>1, <1>2, <2>3
    <3>. QED BY <1>2, <1>4, <1>5, <2>1, <2>3, <3>1 DEF Positions
  <2>. QED BY <2>2, <2>3
<1>9. Progress' /\ OnePerPort' /\ AllWereThere'
  BY <1>1, <1>5 DEF Progress, OnePerPort, AllWereThere
<1>. QED BY <1>6, <1>7, <1>8, <1>9 DEF IInv

LEMMA ChangeStep == IInv /\ ChangeAnswer => IInv'
<1>. SUFFICES ASSUME IInv, ChangeAnswer PROVE IInv'
  OBVIOUS
<1>. USE DEF ChangeAnswer
<1>1. /\ command' = command /\ ports' = ports /\ untried' = untried /\ listed' = listed
      /\ ports # <<>> /\ changes' = changes + 1 /\ changes < MaxChanges
  BY DEF scan
<1>2. PICK b \in Addresses, answer \in Answers :
        net' = [net EXCEPT ![b] = answer] /\ been' = [been EXCEPT ![b] = @ \cup {answer}]
  OBVIOUS
<1>3. /\ net' \in [Addresses -> Answers \cup {Nobody}]
      /\ been' \in [Addresses -> SUBSET (Answers \cup {Nobody})]
      /\ \A a \in Addresses : been[a] \subseteq been'[a]
  BY <1>2 DEF IInv, Typed
<1>4. command \in Commands /\ command # Idle /\ Given(command)
      /\ Done \in Nat /\ Done + 1 \in DOMAIN command.ports /\ Tried \in Nat /\ Tried + 1 \in DOMAIN command.hosts
  BY <1>1, HereIs, CommandsGiven
<1>5. Typed'
  <2>1. changes' \in 0..MaxChanges
    BY <1>1, ProbeAssumption DEF IInv, Typed
  <2>. QED BY <1>1, <1>3, <2>1 DEF IInv, Typed
<1>6. Current'
  <2>1. \A a \in Addresses : net[a] \in been[a]
    BY <1>4 DEF IInv, Current
  <2>2. \A a \in Addresses : net'[a] \in been'[a]
    BY <1>2, <2>1 DEF IInv, Typed
  <2>. QED BY <2>2 DEF Current
<1>7. Done' = Done /\ Tried' = Tried
  BY <1>1 DEF Done, Tried
<1>8. Positions'
  BY <1>1, <1>7 DEF IInv, Positions
<1>9. OnePerPort'
  BY <1>1, <1>7 DEF IInv, OnePerPort
<1>10. \A i \in DOMAIN command.ports :
         /\ Settled(i) => Settled(i)'
         /\ \A j \in DOMAIN command.hosts : Void(Here(i, j)) => Void(Here(i, j))'
  BY <1>1, <1>3, <1>4, SettledStays
<1>11. Progress'
  <2>1. \A i \in 1..Done : i \in DOMAIN command.ports
    BY <1>4 DEF Given
  <2>2. \A j \in 1..Tried : j \in DOMAIN command.hosts
    BY <1>4 DEF Given
  <2>3. \A i \in 1..Done' : Settled(i)'
    BY <1>7, <1>10, <2>1 DEF IInv, Progress
  <2>4. \A j \in 1..Tried' : Void(Here(Done + 1, j))'
    BY <1>1, <1>4, <1>7, <1>10, <2>2 DEF IInv, Progress
  <2>. QED BY <2>3, <2>4, <1>1, <1>7 DEF Progress, Here, Void
<1>12. AllWereThere'
  <2>. SUFFICES ASSUME NEW n \in DOMAIN listed PROVE WasThere(listed[n])'
    BY <1>1 DEF AllWereThere, WasThere
  <2>1. WasThere(listed[n])
    BY DEF IInv, AllWereThere
  <2>. QED BY <1>1, <1>3, <2>1 DEF WasThere
<1>. QED BY <1>5, <1>6, <1>8, <1>9, <1>11, <1>12 DEF IInv

\* The port that is probed has given what it has to give.
LEMMA PortGiven ==
  ASSUME IInv, ports # <<>>, UNCHANGED <<been, command>>, Range(listed) \subseteq Range(listed)',
         Done' = Done + 1, ports' # <<>> => Tried' = 0, NEW i, i = Done + 1, Settled(i)'
  PROVE  Progress'
<1>1. command \in Commands /\ command # Idle /\ Given(command) /\ Done \in Nat /\ Done + 1 \in DOMAIN command.ports
  BY HereIs, CommandsGiven
<1>2. \A k \in 1..Done : k \in DOMAIN command.ports
  BY <1>1 DEF Given
<1>3. \A k \in 1..Done : Settled(k)'
  <2>. SUFFICES ASSUME NEW k \in 1..Done PROVE Settled(k)'
    OBVIOUS
  <2>1. k \in DOMAIN command.ports /\ Settled(k)
    BY <1>2 DEF IInv, Progress
  <2>. QED BY <1>1, <2>1, SettledStays
<1>4. \A k \in 1..Done' : Settled(k)'
  <2>1. \A k \in 1..Done' : k \in 1..Done \/ k = i
    BY <1>1
  <2>. QED BY <1>3, <2>1
<1>5. ports' # <<>> => \A j \in 1..Tried' : Void(Here(Done + 1, j))'
  OBVIOUS
<1>. QED BY <1>4, <1>5 DEF Progress

LEMMA ProbeStep == IInv /\ ProbeOne => IInv'
<1>. SUFFICES ASSUME IInv, ProbeOne PROVE IInv'
  OBVIOUS
<1>0. PICK i, j, a : i = Done + 1 /\ j = Tried + 1 /\ a = Here(i, j)
  OBVIOUS
<1>1. /\ ports # <<>> /\ net' = net /\ been' = been /\ changes' = changes /\ command' = command
  BY DEF ProbeOne
<1>2. /\ command \in Commands /\ Given(command) /\ command # Idle
      /\ Done \in Nat /\ Done + 1 \in DOMAIN command.ports
      /\ Tried \in Nat /\ Tried + 1 \in DOMAIN command.hosts
      /\ DOMAIN command.hosts = 1..Len(command.hosts) /\ Len(command.hosts) \in Nat
      /\ Len(untried) \in Nat /\ Len(untried) >= 1
      /\ [port |-> Head(ports), host |-> Head(untried)] = a
      /\ a \in Addresses
  BY <1>0, <1>1, HereIs, CommandsGiven
<1>3. Discover(a) \/ PassOver(a)
  BY <1>2 DEF ProbeOne
<1>4. net[a] \in been[a] /\ net[a] \in Answers \cup {Nobody} /\ ManifestsAt(a) = ManifestIn(net[a])
  BY <1>2 DEF IInv, Current, Typed, ManifestsAt
<1>5. \A k \in 1..(j - 1) : Void(Here(i, k))
  BY <1>0, <1>1, <1>2 DEF IInv, Progress
<1>6. Current'
  BY <1>1 DEF IInv, Current
<1>7. CASE Discover(a)
  <2>1. PICK m \in ManifestIn(net[a]) : listed' = Append(listed, Listing(a, m)) /\ NextPort
    BY <1>4, <1>7 DEF Discover
  <2> DEFINE l == Listing(a, m)
  <2>2. l \in Listings /\ l.port = a.port /\ l.host = a.host
    BY <1>2, <1>4 DEF Listings, Listing
  <2>3. listed \in Seq(Listings)
    BY DEF IInv, Typed
  <2> HIDE DEF l
  <2>4. /\ listed' \in Seq(Listings) /\ DOMAIN listed' = 1..(Len(listed) + 1) /\ DOMAIN listed = 1..Len(listed)
        /\ Len(listed) \in Nat
        /\ \A n \in DOMAIN listed : listed'[n] = listed[n]
        /\ listed'[Len(listed) + 1] = l
    BY <2>1, <2>2, <2>3 DEF l
  <2>5. Typed'
    BY <1>1, <1>2, <2>4 DEF IInv, Typed
  <2>6. Range(listed) \subseteq Range(listed)' /\ l \in Range(listed)'
    BY <2>4 DEF Range
  <2>7. Positions' /\ Done' = Done + 1 /\ (ports' # <<>> => Tried' = 0)
    BY <1>1, <2>1, NextPortMoves
  <2>8. Found(a)'
    BY <1>1, <1>4, <2>1, <2>6 DEF Found, l
  <2>9. Settled(i)'
    BY <1>0, <1>1, <1>2, <1>5, <2>8 DEF Settled, Void, Found, Here
  <2>10. Progress'
    BY <1>0, <1>1, <2>6, <2>7, <2>9, PortGiven
  <2>11. OnePerPort'
    <3>1. l.port = command.ports[Done + 1]
      BY <1>0, <2>2 DEF Here
    <3>2. \A n \in DOMAIN listed : \E k \in 1..Done : listed[n].port = command.ports[k]
      BY DEF IInv, OnePerPort
    <3>3. \A n \in DOMAIN listed : listed[n].port # l.port
      BY <1>2, <3>1, <3>2 DEF Given
    <3>4. \A n \in DOMAIN listed' : \E k \in 1..Done' : listed'[n].port = command'.ports[k]
      BY <1>1, <1>2, <2>4, <2>7, <3>1, <3>2
    <3>5. \A n, o \in DOMAIN listed' : n # o => listed'[n].port # listed'[o].port
      BY <2>4, <3>3 DEF IInv, OnePerPort
    <3>. QED BY <3>4, <3>5 DEF OnePerPort
  <2>12. AllWereThere'
    <3>1. WasThere(l)
      <4>1. [port |-> l.port, host |-> l.host] = a
        BY <1>0, <2>2 DEF Here
      <4>. QED BY <1>2, <1>4, <2>1, <4>1 DEF WasThere, l
    <3>. QED BY <1>1, <2>4, <3>1 DEF IInv, AllWereThere, WasThere
  <2>. QED BY <1>6, <2>5, <2>7, <2>10, <2>11, <2>12 DEF IInv
<1>8. CASE PassOver(a)
  <2>1. ManifestIn(net[a]) = {} /\ listed' = listed
    BY <1>4, <1>8 DEF PassOver
  <2>2. Void(a)
    BY <1>4, <2>1 DEF Void
  <2>3. \A k \in 1..j : Void(Here(i, k))
    BY <1>0, <1>2, <1>5, <2>2
  <2>4. Typed' /\ AllWereThere'
    BY <1>1, <2>1 DEF IInv, Typed, AllWereThere, WasThere
  <2>5. CASE Len(untried) > 1
    <3>1. untried' = Tail(untried) /\ ports' = ports
      BY <1>8, <2>5 DEF PassOver
    <3>2. Positions' /\ Done' = Done /\ Tried' = Tried + 1
      BY <1>1, <2>5, <3>1, NextHostMoves
    <3>3. Progress'
      BY <1>0, <1>1, <2>1, <2>3, <3>1, <3>2 DEF IInv, Progress, Settled, Void, Found, Here
    <3>4. OnePerPort'
      BY <1>1, <2>1, <3>2 DEF IInv, OnePerPort
    <3>. QED BY <1>6, <2>4, <3>2, <3>3, <3>4 DEF IInv
  <2>6. CASE ~(Len(untried) > 1)
    <3>1. NextPort
      BY <1>8, <2>6 DEF PassOver
    <3>2. Positions' /\ Done' = Done + 1 /\ (ports' # <<>> => Tried' = 0)
      BY <1>1, <3>1, NextPortMoves
    <3>3. \A k \in DOMAIN command.hosts : Void(Here(i, k))
      BY <1>0, <1>2, <2>3, <2>6 DEF Tried
    <3>4. Settled(i)'
      BY <1>1, <3>3 DEF Settled, Void, Here
    <3>5. Range(listed) \subseteq Range(listed)'
      BY <2>1
    <3>6. Progress'
      BY <1>0, <1>1, <3>2, <3>4, <3>5, PortGiven
    <3>7. OnePerPort'
      BY <1>1, <1>2, <2>1, <3>2 DEF IInv, OnePerPort
    <3>. QED BY <1>6, <2>4, <3>2, <3>6, <3>7 DEF IInv
  <2>. QED BY <2>5, <2>6
<1>. QED BY <1>3, <1>7, <1>8

THEOREM Invariance == Spec => []IInv
<1>1. IInv /\ UNCHANGED vars => IInv'
  <2>. SUFFICES ASSUME IInv, UNCHANGED vars PROVE IInv'
    OBVIOUS
  <2>. USE DEF vars, scan
  <2>1. Done' = Done /\ Tried' = Tried
    BY DEF Done, Tried
  <2>2. Typed' /\ Current' /\ AllWereThere'
    BY DEF IInv, Typed, Current, AllWereThere, WasThere
  <2>3. Positions' /\ OnePerPort'
    BY <2>1 DEF IInv, Positions, OnePerPort
  <2>4. Progress'
    BY <2>1 DEF IInv, Progress, Settled, Void, Found, Here
  <2>. QED BY <2>2, <2>3, <2>4 DEF IInv
<1>2. IInv /\ [Next]_vars => IInv'
  BY <1>1, ComeUpStep, StartStep, ChangeStep, ProbeStep DEF Next
<1>. QED BY <1>2, InitInv, PTL DEF Spec

-----------------------------------------------------------------------------
\* What the invariant says of a command and of its list.

LEMMA SuffixIs ==
  ASSUME NEW S, NEW s \in Seq(S), NEW T, NEW t \in Seq(T), Len(s) <= Len(t),
         \A i \in 1..Len(s) : s[i] = t[Len(t) - Len(s) + i]
  PROVE  IsSuffix(s, t)
<1> DEFINE r == Reverse(s)
           q == Reverse(t)
<1>1. r = [i \in 1..Len(s) |-> s[(Len(s) - i) + 1]] /\ q = [i \in 1..Len(t) |-> t[(Len(t) - i) + 1]]
  BY DEF Reverse
<1>2. r \in Seq(S) /\ q \in Seq(T) /\ Len(r) = Len(s) /\ Len(q) = Len(t)
  BY <1>1
<1>3. \A i \in 1..Len(s) : r[i] = q[i]
  <2>. SUFFICES ASSUME NEW i \in 1..Len(s) PROVE s[(Len(s) - i) + 1] = t[(Len(t) - i) + 1]
    BY <1>1
  <2>1. (Len(s) - i) + 1 \in 1..Len(s)
    OBVIOUS
  <2>2. Len(t) - Len(s) + ((Len(s) - i) + 1) = (Len(t) - i) + 1
    OBVIOUS
  <2>. QED BY <2>1, <2>2
<1> HIDE DEF r, q
<1>4. SubSeq(r, 1, Len(s)) = SubSeq(q, 1, Len(s))
  BY <1>2, <1>3
<1>. QED BY <1>2, <1>4 DEF IsSuffix, IsPrefix, r, q

\* The positions a command is at are positions in what it was given.
THEOREM TypeCorrect == Spec => []TypeOK
<1>1. IInv => TypeOK
  <2>. SUFFICES ASSUME IInv PROVE TypeOK
    OBVIOUS
  <2>1. command.ports \in Seq(Ports) /\ command.hosts \in Seq(Hosts)
    BY CommandsGiven DEF IInv, Typed, Given, Idle
  <2>2. IsSuffix(ports, command.ports)
    BY <2>1, SuffixIs DEF IInv, Positions, Done
  <2>3. IsSuffix(untried, command.hosts)
    BY <2>1, SuffixIs DEF IInv, Positions, Tried
  <2>4. \A l \in Range(listed) : [port |-> l.port, host |-> l.host] \in Addresses
    BY DEF IInv, AllWereThere, WasThere, Range
  <2>. QED BY <2>2, <2>3, <2>4 DEF TypeOK, IInv, Typed, Positions
<1>. QED BY <1>1, Invariance, PTL

\* What answers has one manifest to give.
LEMMA OneManifest ==
  ASSUME NEW answer \in Answers \cup {Nobody}, NEW m \in ManifestIn(answer), NEW n \in ManifestIn(answer)
  PROVE  m = n
<1>1. m \in answer.manifest /\ n \in answer.manifest
  BY DEF ManifestIn, parse_probed_manifest
<1>2. CASE answer \in Answers
  BY <1>1, <1>2, ProbeAssumption
<1>3. CASE answer = Nobody
  BY <1>1, <1>3 DEF Nobody
<1>. QED BY <1>2, <1>3

LEMMA SteadyFollows == IInv => SteadyIsListed
<1>. SUFFICES ASSUME IInv, Ended, NEW a \in Probed, Unshadowed(a), NEW m \in Steady(a)
              PROVE  Listing(a, m) \in Range(listed)
  BY DEF SteadyIsListed
<1>1. command \in Commands /\ Given(command) /\ ports = <<>>
  BY CommandsGiven DEF IInv, Typed, Ended
<1>2. Done = Len(command.ports) /\ DOMAIN command.ports = 1..Len(command.ports)
      /\ DOMAIN command.hosts = 1..Len(command.hosts)
  BY <1>1 DEF Done, Given
<1>3. PICK i \in DOMAIN command.ports, j \in DOMAIN command.hosts :
        a.port = command.ports[i] /\ a.host = command.hosts[j]
  BY DEF Probed, Range
<1>4. a = Here(i, j) /\ a \in Addresses
  BY <1>1, <1>2, <1>3 DEF Probed, Here, Addresses, Given
<1>5. been[a] = {net[a]} /\ m \in ManifestIn(net[a]) /\ net[a] \in Answers \cup {Nobody}
  BY <1>4 DEF Steady, ManifestsAt, IInv, Typed
<1>6. ~Void(a)
  BY <1>5 DEF Void
<1>7. Settled(i)
  BY <1>2, <1>3 DEF IInv, Progress
<1>8. PICK k \in DOMAIN command.hosts : Found(Here(i, k)) /\ \A h \in 1..(k - 1) : Void(Here(i, h))
  BY <1>4, <1>6, <1>7 DEF Settled
<1>9. ~(j < k)
  BY <1>1, <1>2, <1>4, <1>6, <1>8 DEF Given
<1>10. ~(k < j)
  <2>. SUFFICES ASSUME k < j PROVE FALSE
    OBVIOUS
  <2>1. [a EXCEPT !.host = command.hosts[k]] = Here(i, k)
    BY <1>3, <1>4 DEF Here
  <2>2. \A answer \in been[Here(i, k)] : ManifestIn(answer) = {}
    BY <1>3, <2>1 DEF Unshadowed
  <2>. QED BY <1>8, <2>2 DEF Found
<1>11. k = j
  BY <1>1, <1>2, <1>9, <1>10 DEF Given
<1>12. PICK n \in ManifestIn(net[a]) : Listing(a, n) \in Range(listed)
  BY <1>4, <1>5, <1>8, <1>11 DEF Found
<1>13. n = m
  BY <1>5, <1>12, OneManifest
<1>. QED BY <1>12, <1>13

\* A service that ran all the while where the command probes is listed,
\* whatever else came, went or changed meanwhile.
THEOREM SteadyListed == Spec => []SteadyIsListed
BY SteadyFollows, Invariance, PTL

LEMMA ThereFollows == IInv => ListedWasThere
<1>. SUFFICES ASSUME IInv PROVE ListedWasThere
  OBVIOUS
<1>1. \A l \in Range(listed) :
        \E answer \in been[[port |-> l.port, host |-> l.host]] :
          \E m \in ManifestIn(answer) :
            l = Listing([port |-> l.port, host |-> l.host], m)
  BY DEF IInv, AllWereThere, WasThere, Range
<1>2. \A n, o \in DOMAIN listed : n # o => listed[n].port # listed[o].port
  BY DEF IInv, OnePerPort
<1>3. ASSUME NEW l \in Range(listed), l.status = "registered"
      PROVE  \E e \in Entries : e.id = l.id /\ e.port = l.port
  <2> DEFINE a == [port |-> l.port, host |-> l.host]
  <2>1. PICK m : l = Listing(a, m)
    BY <1>1
  <2> HIDE DEF a
  <2>2. l.id = m.id /\ l.port = a.port /\ l.status = PortStatus(m.id, a.port)
    BY <2>1 DEF Listing
  <2>3. \E e \in find_service(m.id) : e.port = a.port
    BY <1>3, <2>2 DEF PortStatus
  <2>. QED BY <2>2, <2>3 DEF find_service
<1>4. \A d, e \in Entries : d.id = e.id => d = e
  BY RegistryAssumption DEF Entries, Range
<1>5. ASSUME NEW n \in DOMAIN listed, NEW o \in DOMAIN listed, n # o,
             {listed[n].status, listed[o].status} = {"registered"}
      PROVE  listed[n].id # listed[o].id
  <2>1. listed[n] \in Range(listed) /\ listed[o] \in Range(listed)
    BY DEF Range
  <2>2. PICK d \in Entries : d.id = listed[n].id /\ d.port = listed[n].port
    BY <1>3, <1>5, <2>1
  <2>3. PICK e \in Entries : e.id = listed[o].id /\ e.port = listed[o].port
    BY <1>3, <1>5, <2>1
  <2>. QED BY <1>2, <1>4, <1>5, <2>2, <2>3
<1>. QED BY <1>1, <1>2, <1>5 DEF ListedWasThere

\* What is listed was there, and no service is shown as registered twice.
THEOREM ListedThere == Spec => []ListedWasThere
BY ThereFollows, Invariance, PTL

\* A capability dangles exactly where no edge brings it.
LEMMA DanglingIs ==
  ASSUME NEW services, NEW c \in services, NEW capability \in c.consumes
  PROVE  <<c, capability>> \in Dangling(services)
           <=> ~\E f \in Edges(services) : f.to = c.id /\ f.capability = capability
<1>1. <<c, capability>> \in Dangling(services)
        <=> \A p \in services : p.id # c.id => capability \notin p.offers
  BY DEF Dangling
<1>2. ASSUME NEW f \in Edges(services), f.to = c.id, f.capability = capability
      PROVE  \E p \in services : p.id # c.id /\ capability \in p.offers
  <2>1. PICK p \in services, d \in services : p.id # d.id /\ f \in Flows(p, d)
    BY DEF Edges
  <2>2. f.to = d.id /\ f.capability \in p.offers
    BY <2>1 DEF Flows
  <2>. QED BY <1>2, <2>1, <2>2
<1>3. ASSUME NEW p \in services, p.id # c.id, capability \in p.offers
      PROVE  \E f \in Edges(services) : f.to = c.id /\ f.capability = capability
  <2> DEFINE f == [from |-> p.id, to |-> c.id, capability |-> capability]
  <2>1. f \in Flows(p, c)
    BY <1>3 DEF Flows
  <2>2. f \in Edges(services)
    BY <1>3, <2>1 DEF Edges
  <2>. QED BY <2>2
<1>. QED BY <1>1, <1>2, <1>3

EdgesOf(services, a, b) == {f \in Edges(services) : {f.from, f.to} = {a.id, b.id}}

\* Of two services that are listed as they are registered the edges are the
\* flows between their entries.
LEMMA EdgesBetween ==
  ASSUME NEW services, NEW a, NEW b, a.id # b.id,
         \A l \in services : \A e \in {a, b} : l.id = e.id => AsRegistered(l, e),
         \A e \in {a, b} : \E l \in services : l.id = e.id
  PROVE  EdgesOf(services, a, b) = check_compat_entries(a, b).matched
<1>1. check_compat_entries(a, b).matched = Flows(b, a) \cup Flows(a, b)
  BY DEF check_compat_entries
<1>2. ASSUME NEW p, NEW c, NEW d, NEW e, AsRegistered(p, d), AsRegistered(c, e)
      PROVE  Flows(p, c) = Flows(d, e)
  BY <1>2 DEF Flows, AsRegistered
<1>3. \A p, c : \A f \in Flows(p, c) : f.from = p.id /\ f.to = c.id
  BY DEF Flows
<1>4. ASSUME NEW f \in Edges(services), {f.from, f.to} = {a.id, b.id}
      PROVE  f \in Flows(b, a) \cup Flows(a, b)
  <2>1. PICK p \in services, c \in services : p.id # c.id /\ f \in Flows(p, c)
    BY DEF Edges
  <2>2. {p.id, c.id} = {a.id, b.id}
    BY <1>3, <1>4, <2>1
  <2>3. CASE p.id = a.id /\ c.id = b.id
    BY <1>2, <2>1, <2>3
  <2>4. CASE p.id = b.id /\ c.id = a.id
    BY <1>2, <2>1, <2>4
  <2>. QED BY <2>1, <2>2, <2>3, <2>4
<1>5. PICK la \in services, lb \in services : la.id = a.id /\ lb.id = b.id
  OBVIOUS
<1>6. Flows(la, lb) = Flows(a, b) /\ Flows(lb, la) = Flows(b, a)
  BY <1>2, <1>5
<1>7. Flows(la, lb) \cup Flows(lb, la) \subseteq Edges(services)
  BY <1>5 DEF Edges
<1>8. \A f \in Flows(b, a) \cup Flows(a, b) : {f.from, f.to} = {a.id, b.id}
  BY <1>3
<1>. QED BY <1>1, <1>4, <1>6, <1>7, <1>8 DEF EdgesOf

\* groove mesh draws between two registered services what groove check-compat
\* matches, and calls dangling what no edge brings.
THEOREM MeshAgrees == Spec => []MeshAgreesWithRegistry
<1>1. IInv => MeshAgreesWithRegistry
  <2>. SUFFICES ASSUME IInv, Ended PROVE MeshAgreesWithRegistry
    BY DEF MeshAgreesWithRegistry
  <2>1. SteadyIsListed
    BY SteadyFollows
  <2>2. ASSUME NEW a \in Entries, NEW b \in Entries, a # b,
               \A l \in Range(listed) : \A e \in {a, b} : l.id = e.id => AsRegistered(l, e),
               \A e \in {a, b} : \E x \in Probed : Unshadowed(x) /\ \E m \in Steady(x) : m.id = e.id
        PROVE  {f \in Edges(Range(listed)) : {f.from, f.to} = {a.id, b.id}}
                 = check_compat_entries(a, b).matched
    <3>1. a.id # b.id
      BY <2>2, RegistryAssumption DEF Entries, Range
    <3>2. \A x, m : Listing(x, m).id = m.id
      BY DEF Listing
    <3>3. \A e \in {a, b} : \E l \in Range(listed) : l.id = e.id
      BY <2>1, <2>2, <3>2 DEF SteadyIsListed
    <3>4. EdgesOf(Range(listed), a, b) = check_compat_entries(a, b).matched
      BY <2>2, <3>1, <3>3, EdgesBetween
    <3>. QED BY <3>4 DEF EdgesOf
  <2>. QED BY <2>2, DanglingIs DEF MeshAgreesWithRegistry
<1>. QED BY <1>1, Invariance, PTL

-----------------------------------------------------------------------------

\* Fewer ports are left, or fewer hosts of the same port.
Nearer ==
  \/ Len(ports') < Len(ports)
  \/ ports' = ports /\ Len(untried') < Len(untried)

\* While a command runs, each of its steps brings it nearer to its end and no
\* change of the network takes it back: it asks every address at most once
\* (run, probe.rs), which is why a scan whose probes end does end (ScanEnds).
THEOREM ScanMovesOn == Spec => [][ports # <<>> => Nearer \/ UNCHANGED scan]_vars
<1>1. IInv /\ [Next]_vars => [ports # <<>> => Nearer \/ UNCHANGED scan]_vars
  <2>. SUFFICES ASSUME IInv, Next, ports # <<>> PROVE Nearer \/ UNCHANGED scan
    OBVIOUS
  <2>1. /\ ports \in Seq(Ports) /\ Len(ports) <= Len(command.ports) /\ untried \in Seq(Hosts)
        /\ untried # <<>>
    BY DEF IInv, Positions
  <2>2. command # Idle
    <3>1. SUFFICES ASSUME command = Idle PROVE FALSE
      OBVIOUS
    <3>2. Len(command.ports) = 0
      BY <3>1 DEF Idle
    <3>. QED BY <2>1, <3>2
  <2>3. Len(Tail(ports)) = Len(ports) - 1 /\ Len(Tail(untried)) = Len(untried) - 1
        /\ Len(ports) \in Nat /\ Len(untried) \in Nat
    BY <2>1
  <2>4. ASSUME NEW a, Discover(a) \/ PassOver(a) PROVE Nearer
    <3>1. NextPort \/ (untried' = Tail(untried) /\ ports' = ports)
      BY <2>4 DEF Discover, PassOver
    <3>2. ASSUME NextPort PROVE Len(ports') < Len(ports)
      <4>1. Len(ports') = Len(Tail(ports))
        BY <3>2, Zenon DEF NextPort
      <4>. QED BY <2>3, <4>1
    <3>3. ASSUME untried' = Tail(untried) PROVE Len(untried') < Len(untried)
      <4>1. Len(untried') = Len(Tail(untried))
        BY <3>3, Zenon
      <4>. QED BY <2>3, <4>1
    <3>. QED BY <3>1, <3>2, <3>3 DEF Nearer
  <2>5. CASE ProbeOne
    BY <2>4, <2>5 DEF ProbeOne
  <2>6. CASE ChangeAnswer
    BY <2>6 DEF ChangeAnswer
  <2>7. CASE ComeUp \/ Start
    BY <2>2, <2>7 DEF ComeUp, Start
  <2>. QED BY <2>5, <2>6, <2>7 DEF Next
<1>. QED BY <1>1, Invariance, PTL DEF Spec

=============================================================================
