----------------------------- MODULE HttpProofs -----------------------------
(***************************************************************************)
(* Proofs about HttpRequest, for any wires, reads and limits.              *)
(***************************************************************************)
EXTENDS HttpRequest, FiniteSetTheorems, TLAPS

-----------------------------------------------------------------------------
\* Natural numbers.

LEMMA LeastNumber ==
  ASSUME NEW T, T \subseteq Nat, T # {}
  PROVE  \E m \in T : \A k \in T : m <= k
<1>1. PICK m \in T : \A k \in T : ~(<<k, m>> \in OpToRel(<, Nat))
  BY NatLessThanWellFounded, WFMin, Zenon
<1>2. \A k \in T : ~(k < m)
  BY <1>1 DEF OpToRel
<1>. QED BY <1>2

\* What holds of 0 and of the successor of all it holds of holds of all.
LEMMA AllNumbers ==
  ASSUME NEW n \in Nat, NEW T, 0 \in T, \A i \in 0..(n - 1) : i \in T => i + 1 \in T
  PROVE  0..n \subseteq T
<1> DEFINE D == (0..n) \ T
<1>. SUFFICES ASSUME D # {} PROVE FALSE
  OBVIOUS
<1>0. D \subseteq Nat /\ 0 \notin D /\ \A k \in D : k \in 0..n /\ k \notin T
  OBVIOUS
<1>00. \A k \in 0..n : k \in D \/ k \in T
  OBVIOUS
<1> HIDE DEF D
<1>1. PICK m \in D : \A k \in D : m <= k
  BY <1>0, LeastNumber
<1>2. m # 0 /\ m - 1 \in 0..(n - 1) /\ m - 1 \in 0..n /\ m \in Nat
  BY <1>0
<1>3. m - 1 \in T
  BY <1>1, <1>2, <1>00
<1>4. (m - 1) + 1 \in T
  BY <1>2, <1>3
<1>5. m \in T
  BY <1>2, <1>4
<1>. QED BY <1>0, <1>5

-----------------------------------------------------------------------------
\* The loop over the headers.

\* g says what the loop remembers after each of the first n bytes of a head.
Follows(g, head, n) ==
  g = [i \in 0..n |-> IF i <= 1 THEN NoHeaders ELSE TakeHeader(g[i - 1], head[i])]

LEMMA LoopRuns ==
  ASSUME NEW head, NEW n \in Nat
  PROVE  \E g : Follows(g, head, n)
<1> DEFINE T == {k \in 0..n : \E g : Follows(g, head, k)}
<1>1. 0 \in T
  <2> DEFINE g == [i \in 0..0 |-> NoHeaders]
  <2>1. Follows(g, head, 0)
    BY DEF Follows
  <2>. QED BY <2>1
<1>2. ASSUME NEW k \in 0..(n - 1), k \in T PROVE k + 1 \in T
  <2>1. PICK g : Follows(g, head, k)
    BY <1>2
  <2> DEFINE h == [i \in 0..(k + 1) |->
                    IF i <= k THEN g[i] ELSE IF i <= 1 THEN NoHeaders ELSE TakeHeader(g[k], head[i])]
  <2>2. \A i \in 0..k : h[i] = g[i] /\ g[i] = IF i <= 1 THEN NoHeaders ELSE TakeHeader(g[i - 1], head[i])
    BY <2>1 DEF Follows
  <2>3. \A i \in 0..(k + 1) : h[i] = IF i <= 1 THEN NoHeaders ELSE TakeHeader(h[i - 1], head[i])
    <3>. SUFFICES ASSUME NEW i \in 0..(k + 1)
                  PROVE  h[i] = IF i <= 1 THEN NoHeaders ELSE TakeHeader(h[i - 1], head[i])
      OBVIOUS
    <3>1. CASE i <= k
      <4>1. i \in 0..k /\ (~(i <= 1) => i - 1 \in 0..k)
        BY <3>1
      <4> HIDE DEF h
      <4>. QED BY <2>2, <4>1
    <3>2. CASE ~(i <= k)
      <4>1. i = k + 1 /\ k \in 0..k
        BY <3>2
      <4>2. h[i] = IF i <= 1 THEN NoHeaders ELSE TakeHeader(g[k], head[i])
        BY <3>2
      <4>3. h[i - 1] = g[k]
        BY <2>2, <4>1
      <4> HIDE DEF h
      <4>. QED BY <4>2, <4>3
    <3>. QED BY <3>1, <3>2
  <2>4. h = [i \in 0..(k + 1) |-> h[i]]
    OBVIOUS
  <2> HIDE DEF h
  <2>5. Follows(h, head, k + 1)
    BY <2>3, <2>4 DEF Follows
  <2>. QED BY <2>5
<1>3. n \in 0..n
  OBVIOUS
<1> HIDE DEF T
<1>4. 0..n \subseteq T
  BY <1>1, <1>2, AllNumbers
<1>5. n \in T
  BY <1>3, <1>4
<1>. QED BY <1>5 DEF T

LEMMA HeadersAre ==
  ASSUME NEW head \in Seq(Byte)
  PROVE  \E g : /\ HeadersOf(head) = g[Len(head)]
                /\ \A i \in 0..Len(head) : i <= 1 => g[i] = NoHeaders
                /\ \A i \in 2..Len(head) : g[i] = TakeHeader(g[i - 1], head[i])
<1> DEFINE g == CHOOSE g : Follows(g, head, Len(head))
<1>1. Follows(g, head, Len(head))
  BY LoopRuns
<1>2. HeadersOf(head) = g[Len(head)]
  BY DEF HeadersOf, Follows
<1> HIDE DEF g
<1>3. \A i \in 0..Len(head) : g[i] = IF i <= 1 THEN NoHeaders ELSE TakeHeader(g[i - 1], head[i])
  BY <1>1 DEF Follows
<1>4. \A i \in 2..Len(head) : i \in 0..Len(head) /\ ~(i <= 1)
  OBVIOUS
<1>. QED BY <1>2, <1>3, <1>4

Broken == {"garbled", "malformed", "length-bad", "transfer-encoding", "request", "request-bad", "body"}
HostKinds == {"host", "host-foreign"}
OriginKinds == {"origin", "origin-foreign"}

\* One of the first i bytes is no header line, or two are the same header.
Occurs(head, i, kinds) == \E j \in 2..i : head[j].kind \in kinds
Twice(head, i, kinds) ==
  \E j, k \in 2..i : j # k /\ head[j].kind \in kinds /\ head[k].kind \in kinds

Faulty(head, i) ==
  \/ Occurs(head, i, Broken)
  \/ Twice(head, i, HostKinds) \/ Twice(head, i, OriginKinds) \/ Twice(head, i, {"length"})

Memory == [host : {"", "host", "host-foreign", "refused"},
           origin : {"", "origin", "origin-foreign", "refused"},
           length : {"", "length", "refused"}, value : Nat]

\* A header is remembered as it occurred.
Told(head, i, seen) ==
  /\ IF Occurs(head, i, HostKinds)
     THEN \E j \in 2..i : head[j].kind \in HostKinds /\ seen.host = head[j].kind
     ELSE seen.host = ""
  /\ IF Occurs(head, i, OriginKinds)
     THEN \E j \in 2..i : head[j].kind \in OriginKinds /\ seen.origin = head[j].kind
     ELSE seen.origin = ""
  /\ IF Occurs(head, i, {"length"})
     THEN \E j \in 2..i : head[j].kind = "length" /\ seen.length = "length" /\ seen.value = head[j].value
     ELSE seen.length = "" /\ seen.value = 0

Remembers(head, i, seen) ==
  /\ seen \in Memory
  /\ Faulty(head, i) => seen = Refused
  /\ ~Faulty(head, i) => Told(head, i, seen)

LEMMA OccursNext ==
  ASSUME NEW head, NEW i \in Nat, i >= 1, NEW kinds
  PROVE  /\ Occurs(head, i + 1, kinds) <=> Occurs(head, i, kinds) \/ head[i + 1].kind \in kinds
         /\ Twice(head, i + 1, kinds)
              <=> Twice(head, i, kinds) \/ (Occurs(head, i, kinds) /\ head[i + 1].kind \in kinds)
<1>1. \A j : j \in 2..(i + 1) <=> j \in 2..i \/ j = i + 1
  OBVIOUS
<1>2. i + 1 \notin 2..i
  OBVIOUS
<1>. QED BY <1>1, <1>2 DEF Occurs, Twice

LEMMA TellNext ==
  ASSUME NEW head \in Seq(Byte), NEW i \in 1..(Len(head) - 1), NEW seen, Remembers(head, i, seen)
  PROVE  Remembers(head, i + 1, TakeHeader(seen, head[i + 1]))
<1> DEFINE line == head[i + 1]
           next == TakeHeader(seen, line)
<1>1. line \in Byte /\ line.kind \in Lines \cup {"cr", "lf", "body"} /\ line.value \in Nat
  <2>1. i + 1 \in 1..Len(head)
    OBVIOUS
  <2>2. line \in Byte
    BY <2>1
  <2> HIDE DEF line
  <2>. QED BY <2>2 DEF Byte
<1>2. i \in Nat /\ i >= 1 /\ seen \in Memory
  BY DEF Remembers
<1>3. \A kinds : /\ Occurs(head, i + 1, kinds) <=> Occurs(head, i, kinds) \/ line.kind \in kinds
                 /\ Twice(head, i + 1, kinds)
                      <=> Twice(head, i, kinds) \/ (Occurs(head, i, kinds) /\ line.kind \in kinds)
  BY <1>2, OccursNext
<1>4. i + 1 \in 2..(i + 1) /\ \A j \in 2..i : j \in 2..(i + 1)
  BY <1>2
<1> HIDE DEF line
<1>5. CASE Faulty(head, i)
  <2>1. seen = Refused /\ Faulty(head, i + 1)
    BY <1>3, <1>5 DEF Remembers, Faulty
  <2>2. next = Refused
    BY <2>1 DEF TakeHeader, Refused
  <2>. QED BY <1>2, <2>1, <2>2 DEF Remembers, line
<1>6. CASE ~Faulty(head, i)
  <2>1. Told(head, i, seen)
    BY <1>6 DEF Remembers
  <2>2. Refused \in Memory
    BY DEF Refused, Memory
  <2>3. CASE line.kind \in {"other", "cr", "lf"}
    <3>1. next = seen
      BY <2>3 DEF TakeHeader
    <3>2. ~Faulty(head, i + 1)
      BY <1>3, <1>6, <2>3 DEF Faulty, Broken, HostKinds, OriginKinds
    <3>3. Told(head, i + 1, seen)
      BY <1>3, <1>4, <2>1, <2>3 DEF Told, HostKinds, OriginKinds
    <3>. QED BY <1>2, <3>1, <3>2, <3>3 DEF Remembers, line
  <2>4. CASE line.kind \in Broken
    <3>1. next = Refused
      BY <2>4 DEF TakeHeader, Broken
    <3>2. Faulty(head, i + 1)
      BY <1>3, <2>4 DEF Faulty
    <3>. QED BY <2>2, <3>1, <3>2 DEF Remembers, line
  <2>5. CASE line.kind \in HostKinds
    <3>1. CASE seen.host = ""
      <4>1. next = [seen EXCEPT !.host = line.kind]
        BY <2>5, <3>1 DEF TakeHeader, HostKinds
      <4>2. ~Occurs(head, i, HostKinds)
        BY <2>1, <3>1 DEF Told, HostKinds
      <4>3. ~Faulty(head, i + 1)
        BY <1>3, <1>6, <2>5, <4>2 DEF Faulty, Broken, HostKinds, OriginKinds
      <4>4. /\ next \in Memory /\ next.host = line.kind /\ next.origin = seen.origin
            /\ next.length = seen.length /\ next.value = seen.value
        BY <1>2, <2>5, <4>1 DEF Memory, HostKinds
      <4> HIDE DEF next
      <4>5. Told(head, i + 1, next)
        BY <1>3, <1>4, <2>1, <2>5, <4>4 DEF Told, HostKinds, OriginKinds, line
      <4>. QED BY <4>3, <4>4, <4>5 DEF Remembers, next, line
    <3>2. CASE seen.host # ""
      <4>1. next = Refused
        BY <2>5, <3>2 DEF TakeHeader, HostKinds
      <4>2. Occurs(head, i, HostKinds)
        BY <2>1, <3>2 DEF Told
      <4>3. Faulty(head, i + 1)
        BY <1>3, <2>5, <4>2 DEF Faulty
      <4>. QED BY <2>2, <4>1, <4>3 DEF Remembers, line
    <3>. QED BY <3>1, <3>2
  <2>6. CASE line.kind \in OriginKinds
    <3>1. CASE seen.origin = ""
      <4>1. next = [seen EXCEPT !.origin = line.kind]
        BY <2>6, <3>1 DEF TakeHeader, OriginKinds
      <4>2. ~Occurs(head, i, OriginKinds)
        BY <2>1, <3>1 DEF Told, OriginKinds
      <4>3. ~Faulty(head, i + 1)
        BY <1>3, <1>6, <2>6, <4>2 DEF Faulty, Broken, HostKinds, OriginKinds
      <4>4. /\ next \in Memory /\ next.origin = line.kind /\ next.host = seen.host
            /\ next.length = seen.length /\ next.value = seen.value
        BY <1>2, <2>6, <4>1 DEF Memory, OriginKinds
      <4> HIDE DEF next
      <4>5. Told(head, i + 1, next)
        BY <1>3, <1>4, <2>1, <2>6, <4>4 DEF Told, HostKinds, OriginKinds, line
      <4>. QED BY <4>3, <4>4, <4>5 DEF Remembers, next, line
    <3>2. CASE seen.origin # ""
      <4>1. next = Refused
        BY <2>6, <3>2 DEF TakeHeader, OriginKinds
      <4>2. Occurs(head, i, OriginKinds)
        BY <2>1, <3>2 DEF Told
      <4>3. Faulty(head, i + 1)
        BY <1>3, <2>6, <4>2 DEF Faulty
      <4>. QED BY <2>2, <4>1, <4>3 DEF Remembers, line
    <3>. QED BY <3>1, <3>2
  <2>7. CASE line.kind = "length"
    <3>1. CASE seen.length = ""
      <4>1. next = [seen EXCEPT !.length = "length", !.value = line.value]
        BY <2>7, <3>1 DEF TakeHeader
      <4>2. ~Occurs(head, i, {"length"})
        BY <2>1, <3>1 DEF Told
      <4>3. ~Faulty(head, i + 1)
        BY <1>3, <1>6, <2>7, <4>2 DEF Faulty, Broken, HostKinds, OriginKinds
      <4>4. /\ next \in Memory /\ next.length = "length" /\ next.value = line.value
            /\ next.host = seen.host /\ next.origin = seen.origin
        BY <1>1, <1>2, <4>1 DEF Memory
      <4> HIDE DEF next
      <4>5. Told(head, i + 1, next)
        BY <1>3, <1>4, <2>1, <2>7, <4>4 DEF Told, HostKinds, OriginKinds, line
      <4>. QED BY <4>3, <4>4, <4>5 DEF Remembers, next, line
    <3>2. CASE seen.length # ""
      <4>1. next = Refused
        BY <2>7, <3>2 DEF TakeHeader
      <4>2. Occurs(head, i, {"length"})
        BY <2>1, <3>2 DEF Told
      <4>3. Faulty(head, i + 1)
        BY <1>3, <2>7, <4>2 DEF Faulty
      <4>. QED BY <2>2, <4>1, <4>3 DEF Remembers, line
    <3>. QED BY <3>1, <3>2
  <2>. QED BY <1>1, <2>3, <2>4, <2>5, <2>6, <2>7 DEF Lines, Broken, HostKinds, OriginKinds
<1>. QED BY <1>5, <1>6

\* After the loop it remembers the whole head.
LEMMA LoopRemembers ==
  ASSUME NEW head \in Seq(Byte), Len(head) >= 1
  PROVE  Remembers(head, Len(head), HeadersOf(head))
<1>1. PICK g : /\ HeadersOf(head) = g[Len(head)]
               /\ \A i \in 0..Len(head) : i <= 1 => g[i] = NoHeaders
               /\ \A i \in 2..Len(head) : g[i] = TakeHeader(g[i - 1], head[i])
  BY HeadersAre
<1> DEFINE T == {n \in 0..(Len(head) - 1) : Remembers(head, n + 1, g[n + 1])}
<1>2. 0 \in T
  <2>1. g[1] = NoHeaders
    BY <1>1
  <2>2. \A kinds : ~Occurs(head, 1, kinds) /\ ~Twice(head, 1, kinds)
    BY DEF Occurs, Twice
  <2>3. NoHeaders \in Memory
    BY DEF NoHeaders, Memory
  <2>4. Told(head, 1, NoHeaders)
    BY <2>2 DEF Told, NoHeaders
  <2>5. Remembers(head, 1, g[1])
    BY <2>1, <2>2, <2>3, <2>4 DEF Remembers, Faulty
  <2>. QED BY <2>5
<1>3. ASSUME NEW n \in 0..((Len(head) - 1) - 1), n \in T PROVE n + 1 \in T
  <2>1. n + 1 \in 1..(Len(head) - 1) /\ n + 2 \in 2..Len(head) /\ (n + 2) - 1 = n + 1
    OBVIOUS
  <2>2. Remembers(head, (n + 1) + 1, TakeHeader(g[n + 1], head[(n + 1) + 1]))
    BY <1>3, <2>1, TellNext
  <2>3. (n + 1) + 1 = n + 2 /\ g[n + 2] = TakeHeader(g[n + 1], head[n + 2])
    BY <1>1, <2>1
  <2>4. Remembers(head, (n + 1) + 1, g[(n + 1) + 1])
    BY <2>2, <2>3
  <2>. QED BY <2>1, <2>4
<1> DEFINE last == Len(head) - 1
<1>4. last \in Nat /\ last \in 0..last
  OBVIOUS
<1> HIDE DEF T
<1>5. 0..last \subseteq T
  BY <1>2, <1>3, <1>4, AllNumbers
<1>6. last \in T
  BY <1>4, <1>5
<1>7. Remembers(head, last + 1, g[last + 1])
  BY <1>6 DEF T
<1>. QED BY <1>1, <1>7

-----------------------------------------------------------------------------
\* The loop and the counts agree.

LEMMA CountOccurs ==
  ASSUME NEW head \in Seq(Byte), NEW kinds
  PROVE  /\ Count(head, kinds) \in Nat
         /\ Count(head, kinds) > 0 <=> Occurs(head, Len(head), kinds)
         /\ Count(head, kinds) > 1 <=> Twice(head, Len(head), kinds)
<1> DEFINE P == {i \in 2..Len(head) : head[i].kind \in kinds}
<1>1. IsFiniteSet(P)
  BY FS_Interval, FS_Subset
<1>2. Cardinality(P) \in Nat
  BY <1>1, FS_CardinalityType
<1>3. Count(head, kinds) = Cardinality(P)
  BY DEF Count
<1>4. Occurs(head, Len(head), kinds) <=> P # {}
  BY DEF Occurs
<1>5. Twice(head, Len(head), kinds) <=> \E j, k \in P : j # k
  BY DEF Twice
<1> HIDE DEF P
<1>6. Cardinality(P) = 0 <=> P = {}
  BY <1>1, FS_EmptySet
<1>7. ASSUME NEW j \in P, NEW k \in P, j # k PROVE Cardinality(P) > 1
  <2>1. Cardinality(P) # 1
    BY <1>1, <1>7, FS_Singleton
  <2>. QED BY <1>2, <1>6, <2>1
<1>8. ASSUME Cardinality(P) > 1 PROVE \E j, k \in P : j # k
  <2>1. PICK j \in P : TRUE
    BY <1>2, <1>6, <1>8
  <2>2. P # {j}
    <3>1. \A S : S = {j} => Cardinality(S) = 1
      BY FS_Singleton
    <3>2. ~(1 > 1)
      OBVIOUS
    <3>. QED BY <1>8, <3>1, <3>2
  <2>. QED BY <2>1, <2>2
<1>. QED BY <1>2, <1>3, <1>4, <1>5, <1>6, <1>7, <1>8

\* The status that the checks of a head come to, after the header loop.
Garbled(head) == \E i \in 1..Len(head) : head[i].kind = "garbled"

StatusAfter(head, seen) ==
  IF Garbled(head) THEN 400
  ELSE IF seen.host # "host" THEN 400
  ELSE IF seen.origin = "origin-foreign" THEN 403
  ELSE IF seen.value > MaxBody THEN 400 ELSE 0

LEMMA StatusAgrees ==
  ASSUME NEW head \in Seq(Byte), Len(head) >= 1
  PROVE  /\ StatusAfter(head, HeadersOf(head)) = StatusOf(head)
         /\ HeadersOf(head).value \in Nat
         /\ StatusOf(head) = 0 => DeclaredLength(head) = HeadersOf(head).value
                                    /\ HeadersOf(head).value <= MaxBody
<1> DEFINE n == Len(head)
           seen == HeadersOf(head)
<1>1. Remembers(head, n, seen)
  BY LoopRemembers
<1>2. seen.value \in Nat /\ seen \in Memory
  BY <1>1 DEF Remembers, Memory
<1>3. MaxBody \in Nat /\ n \in Nat
  BY HttpAssumption
<1>4. \A kinds : /\ Count(head, kinds) \in Nat
                 /\ Count(head, kinds) > 0 <=> Occurs(head, n, kinds)
                 /\ Count(head, kinds) > 1 <=> Twice(head, n, kinds)
  BY CountOccurs
<1> HIDE DEF n, seen
<1> DEFINE bad == Count(head, {"garbled", "malformed", "length-bad", "transfer-encoding",
                              "request", "request-bad", "body"})
           First == head[1].kind = "garbled"
           lengths == Count(head, {"length"})
           origins == Count(head, {"origin", "origin-foreign"})
           hosts == Count(head, {"host", "host-foreign"})
           own == Count(head, {"host"})
           foreign == Count(head, {"origin-foreign"})
           Large == \E i \in 2..n : head[i].kind = "length" /\ head[i].value > MaxBody
           Refusable == First \/ bad > 0 \/ lengths > 1 \/ origins > 1 \/ hosts # 1 \/ own # 1
<1>5. StatusOf(head) = IF Refusable THEN 400 ELSE IF foreign > 0 THEN 403 ELSE IF Large THEN 400 ELSE 0
  BY DEF StatusOf, n
<1>6. Faulty(head, n) <=> bad > 0 \/ lengths > 1 \/ origins > 1 \/ hosts > 1
  BY <1>4 DEF Faulty, Broken, HostKinds, OriginKinds
<1>7. hosts \in Nat /\ own \in Nat
      /\ (hosts > 0 <=> Occurs(head, n, HostKinds)) /\ (own > 0 <=> Occurs(head, n, {"host"}))
      /\ (hosts > 1 <=> Twice(head, n, HostKinds)) /\ (own > 1 <=> Twice(head, n, {"host"}))
      /\ (foreign > 0 <=> Occurs(head, n, {"origin-foreign"}))
  BY <1>4 DEF HostKinds
<1> HIDE DEF bad, lengths, origins, hosts, own, foreign
<1>8. Garbled(head) <=> First \/ Occurs(head, n, {"garbled"})
  <2>1. 1 \in 1..n /\ \A i : i \in 1..n <=> i = 1 \/ i \in 2..n
    BY <1>3 DEF n
  <2>. QED BY <2>1 DEF Garbled, Occurs, n
<1>9. Occurs(head, n, {"garbled"}) => Faulty(head, n)
  BY DEF Faulty, Occurs, Broken
<1> HIDE DEF First
<1>10. CASE First
  <2>1. StatusAfter(head, seen) = 400
    BY <1>8, <1>10 DEF StatusAfter
  <2>2. Refusable
    BY <1>10
  <2>. QED BY <1>2, <1>5, <2>1, <2>2 DEF seen
<1>11. CASE Faulty(head, n)
  <2>1. seen = Refused
    BY <1>1, <1>11 DEF Remembers
  <2>2. StatusAfter(head, seen) = 400
    BY <2>1 DEF StatusAfter, Refused
  <2>3. Refusable
    BY <1>6, <1>7, <1>11
  <2>. QED BY <1>2, <1>5, <2>2, <2>3 DEF seen
<1>12. CASE ~Faulty(head, n) /\ ~First
  <2>1. Told(head, n, seen)
    BY <1>1, <1>12 DEF Remembers
  <2>2. ~Twice(head, n, HostKinds) /\ ~Twice(head, n, OriginKinds) /\ ~Twice(head, n, {"length"})
    BY <1>12 DEF Faulty
  <2>3. Refusable <=> seen.host # "host"
    <3>1. ~Twice(head, n, {"host"})
      BY <2>2 DEF Twice, HostKinds
    <3>2. seen.host = "host" => Occurs(head, n, {"host"}) /\ Occurs(head, n, HostKinds)
      BY <2>1 DEF Told, Occurs, HostKinds
    <3>3. Occurs(head, n, {"host"}) => seen.host = "host"
      BY <2>1, <2>2 DEF Told, Occurs, Twice, HostKinds
    <3>4. Refusable <=> hosts # 1 \/ own # 1
      BY <1>6, <1>12
    <3>5. hosts = 1 <=> Occurs(head, n, HostKinds)
      BY <1>7, <2>2
    <3>6. own = 1 <=> Occurs(head, n, {"host"})
      BY <1>7, <3>1
    <3>. QED BY <3>2, <3>3, <3>4, <3>5, <3>6
  <2>4. foreign > 0 <=> seen.origin = "origin-foreign"
    BY <1>7, <2>1, <2>2 DEF Told, Occurs, Twice, OriginKinds
  <2>5. Large <=> seen.value > MaxBody
    <3>1. CASE Occurs(head, n, {"length"})
      <4>1. PICK j \in 2..n : head[j].kind = "length" /\ seen.value = head[j].value
        BY <2>1, <3>1 DEF Told
      <4>2. \A k \in 2..n : head[k].kind = "length" => k = j
        BY <2>2, <4>1 DEF Twice
      <4>. QED BY <4>1, <4>2
    <3>2. CASE ~Occurs(head, n, {"length"})
      <4>1. seen.value = 0 /\ ~Large
        BY <2>1, <3>2 DEF Told, Occurs
      <4>. QED BY <1>3, <4>1
    <3>. QED BY <3>1, <3>2
  <2>6. StatusAfter(head, seen) = StatusOf(head)
    <3> HIDE DEF Refusable, Large
    <3>1. ~Garbled(head)
      BY <1>12, <1>8, <1>9
    <3>. QED BY <1>5, <2>3, <2>4, <2>5, <3>1 DEF StatusAfter
  <2>7. ASSUME StatusOf(head) = 0 PROVE seen.value <= MaxBody
    BY <1>2, <1>3, <1>5, <2>5, <2>7
  <2>8. DeclaredLength(head) = seen.value
    <3> DEFINE B == {head[i] : i \in 2..Len(head)}
    <3>1. CASE Occurs(head, n, {"length"})
      <4>1. PICK j \in 2..n : head[j].kind = "length" /\ seen.value = head[j].value
        BY <2>1, <3>1 DEF Told
      <4>2. \A k \in 2..n : head[k].kind = "length" => k = j
        BY <2>2, <4>1 DEF Twice
      <4>3. head[j] \in B /\ \A b \in B : b.kind = "length" => b = head[j]
        BY <4>1, <4>2 DEF n
      <4> HIDE DEF B
      <4>4. (CHOOSE b \in B : b.kind = "length") = head[j]
        BY <4>1, <4>3
      <4>. QED BY <4>1, <4>4 DEF DeclaredLength, B, n
    <3>2. CASE ~Occurs(head, n, {"length"})
      BY <2>1, <3>2 DEF Told, Occurs, DeclaredLength, n
    <3>. QED BY <3>1, <3>2
  <2>. QED BY <1>2, <2>6, <2>7, <2>8 DEF seen
<1>. QED BY <1>11, <1>12, <1>10

-----------------------------------------------------------------------------
\* What the provider finds in the bytes w, of which it has read n.

EndsIn(w, n) ==
  {i \in 4..n : /\ w[i - 3].kind = "cr" /\ w[i - 2].kind = "lf"
                /\ w[i - 1].kind = "cr" /\ w[i].kind = "lf"}

EndOf(w, n) == CHOOSE i \in EndsIn(w, n) : \A j \in EndsIn(w, n) : i <= j

HeadOf(w, n) == SubSeq(w, 1, EndOf(w, n))

Reply(status, body) == [status |-> status, body |-> body]

DeservedOf(w) ==
  IF EndsIn(w, Len(w)) = {} \/ EndOf(w, Len(w)) > MaxHead
  THEN Reply(IF Len(w) > MaxHead THEN 400 ELSE 0, <<>>)
  ELSE IF StatusOf(HeadOf(w, Len(w))) # 0 THEN Reply(StatusOf(HeadOf(w, Len(w))), <<>>)
  ELSE IF \/ Len(SubSeq(w, EndOf(w, Len(w)) + 1, Len(w))) < DeclaredLength(HeadOf(w, Len(w)))
          \/ HeadOf(w, Len(w))[1].kind # "request"
  THEN Reply(400, <<>>)
  ELSE Reply(200, SubSeq(SubSeq(w, EndOf(w, Len(w)) + 1, Len(w)), 1, DeclaredLength(HeadOf(w, Len(w)))))

LEMMA DeservedIs == Deserved = DeservedOf(wire)
BY DEF Deserved, DeservedOf, Terminators, HeaderEnd, EndsIn, EndOf, HeadOf, Reply

LEMMA EndIs ==
  ASSUME NEW w, NEW n \in Nat, EndsIn(w, n) # {}
  PROVE  EndOf(w, n) \in EndsIn(w, n) /\ EndOf(w, n) \in 4..n /\ \A j \in EndsIn(w, n) : EndOf(w, n) <= j
<1>1. EndsIn(w, n) \subseteq 4..n
  BY DEF EndsIn
<1>2. EndsIn(w, n) \subseteq Nat
  BY <1>1
<1>3. \E i \in EndsIn(w, n) : \A j \in EndsIn(w, n) : i <= j
  BY <1>2, LeastNumber
<1>. QED BY <1>1, <1>3 DEF EndOf

\* The first end of a head that is found stays the first.
LEMMA EndStays ==
  ASSUME NEW w, NEW v, NEW n \in Nat, NEW m \in Nat, n <= m, \A i \in 1..n : w[i] = v[i]
  PROVE  /\ \A i \in 1..n : i \in EndsIn(w, n) <=> i \in EndsIn(v, m)
         /\ EndsIn(w, n) # {} => EndsIn(v, m) # {} /\ EndOf(v, m) = EndOf(w, n)
<1>1. \A i \in 1..n : i \in EndsIn(w, n) <=> i \in EndsIn(v, m)
  BY DEF EndsIn
<1>2. ASSUME EndsIn(w, n) # {} PROVE EndsIn(v, m) # {} /\ EndOf(v, m) = EndOf(w, n)
  <2>1. EndOf(w, n) \in EndsIn(w, n) /\ EndOf(w, n) \in 4..n /\ \A j \in EndsIn(w, n) : EndOf(w, n) <= j
    BY <1>2, EndIs
  <2>2. EndOf(w, n) \in EndsIn(v, m)
    BY <1>1, <2>1
  <2>3. EndOf(v, m) \in EndsIn(v, m) /\ EndOf(v, m) \in 4..m /\ \A j \in EndsIn(v, m) : EndOf(v, m) <= j
    BY <2>2, EndIs
  <2>4. EndOf(v, m) <= EndOf(w, n)
    BY <2>2, <2>3
  <2>5. EndOf(v, m) \in EndsIn(w, n)
    BY <1>1, <2>1, <2>3, <2>4
  <2>6. EndOf(w, n) <= EndOf(v, m)
    BY <2>1, <2>5
  <2>. QED BY <2>1, <2>2, <2>3, <2>4, <2>6
<1>. QED BY <1>1, <1>2

\* The checks of a head that was found, and of its bytes.
LEMMA HeadIs ==
  ASSUME NEW w \in Seq(Byte), NEW n \in 0..Len(w), EndsIn(w, n) # {}
  PROVE  LET h == HeadOf(w, n) IN
         /\ h \in Seq(Byte) /\ Len(h) = EndOf(w, n) /\ Len(h) >= 1 /\ h[1] = w[1]
         /\ StatusAfter(h, HeadersOf(h)) = StatusOf(h)
         /\ HeadersOf(h).value \in Nat
         /\ StatusOf(h) = 0 => DeclaredLength(h) = HeadersOf(h).value /\ HeadersOf(h).value <= MaxBody
<1> DEFINE h == HeadOf(w, n)
<1>1. EndOf(w, n) \in 4..n
  BY EndIs
<1>2. h \in Seq(Byte) /\ Len(h) = EndOf(w, n) /\ Len(h) >= 1 /\ h[1] = w[1]
  BY <1>1 DEF HeadOf
<1> HIDE DEF h
<1>3. /\ StatusAfter(h, HeadersOf(h)) = StatusOf(h)
      /\ HeadersOf(h).value \in Nat
      /\ StatusOf(h) = 0 => DeclaredLength(h) = HeadersOf(h).value /\ HeadersOf(h).value <= MaxBody
  BY <1>2, StatusAgrees
<1>. QED BY <1>2, <1>3 DEF h

-----------------------------------------------------------------------------
\* The inductive invariant: in the head no end is found yet, in the body there
\* is one and it passed the checks.

Typed ==
  /\ wire \in Seq(Byte)
  /\ got \in 0..Len(wire)
  /\ stage \in {"head", "body", "routed", "done"}
  /\ outcome \in [status : {0, 200, 400, 403}, body : Seq(Byte)]

InHead == stage = "head" => got <= MaxHead /\ EndsIn(wire, got) = {}

InBody ==
  stage = "body" =>
    /\ EndsIn(wire, got) # {} /\ EndOf(wire, got) <= MaxHead
    /\ StatusOf(HeadOf(wire, got)) = 0
    /\ got < MaxHead + MaxBody + ChunkSize

IInv == Typed /\ InHead /\ InBody /\ (stage \in {"routed", "done"} => outcome = DeservedOf(wire))

\* Constants of a step.
LEMMA Limits == ChunkSize \in Nat /\ ChunkSize >= 1 /\ MaxHead \in Nat /\ MaxBody \in Nat
BY HttpAssumption

\* With the end of the head within what was read, the bytes deserve what
\* their head does.
LEMMA DeservedAfterHead ==
  ASSUME NEW w \in Seq(Byte), NEW n \in 0..Len(w), EndsIn(w, n) # {}
  PROVE  LET e == EndOf(w, n)
             h == HeadOf(w, n)
             v == HeadersOf(h).value IN
         /\ e > MaxHead => DeservedOf(w) = Reply(400, <<>>)
         /\ e <= MaxHead /\ StatusOf(h) # 0 => DeservedOf(w) = Reply(StatusOf(h), <<>>)
         /\ e <= MaxHead /\ StatusOf(h) = 0 /\ (Len(w) < e + v \/ w[1].kind # "request")
              => DeservedOf(w) = Reply(400, <<>>)
         /\ e <= MaxHead /\ StatusOf(h) = 0 /\ ~(Len(w) < e + v) /\ w[1].kind = "request"
              => DeservedOf(w) = Reply(200, SubSeq(w, e + 1, e + v))
<1> DEFINE e == EndOf(w, n)
           h == HeadOf(w, n)
           v == HeadersOf(h).value
           l == Len(w)
           rest == SubSeq(w, e + 1, l)
<1>0. n \in Nat /\ l \in Nat /\ n <= l /\ \A i \in 1..n : w[i] = w[i]
  OBVIOUS
<1>1. EndsIn(w, l) # {} /\ EndOf(w, l) = e /\ HeadOf(w, l) = h
  <2> HIDE DEF l
  <2>1. EndsIn(w, n) # {} => EndsIn(w, l) # {} /\ EndOf(w, l) = EndOf(w, n)
    BY <1>0, EndStays
  <2>. QED BY <2>1 DEF HeadOf
<1>2. e \in 4..n /\ e \in Nat /\ e <= l /\ l \in Nat
  BY EndIs
<1>3. h[1] = w[1] /\ v \in Nat /\ (StatusOf(h) = 0 => DeclaredLength(h) = v /\ v <= MaxBody)
  BY HeadIs
<1>4. rest \in Seq(Byte) /\ Len(rest) = l - e /\ \A i \in 1..Len(rest) : rest[i] = w[e + i]
  BY <1>2, SMTT(30)
<1>5. MaxHead \in Nat
  BY Limits
<1>6. DeservedOf(w) =
        IF e > MaxHead
        THEN Reply(IF l > MaxHead THEN 400 ELSE 0, <<>>)
        ELSE IF StatusOf(h) # 0 THEN Reply(StatusOf(h), <<>>)
        ELSE IF Len(rest) < DeclaredLength(h) \/ h[1].kind # "request" THEN Reply(400, <<>>)
        ELSE Reply(200, SubSeq(rest, 1, DeclaredLength(h)))
  BY <1>1, ZenonT(30) DEF DeservedOf
<1>7. ASSUME ~(l < e + v) PROVE SubSeq(rest, 1, v) = SubSeq(w, e + 1, e + v)
  <2> HIDE DEF rest, v, e, l
  <2>1. v <= Len(rest)
    BY <1>2, <1>3, <1>4, <1>7
  <2>2. SubSeq(rest, 1, v) = [i \in 1..v |-> rest[i]]
    BY <1>3, <1>4, <2>1
  <2>3. SubSeq(w, e + 1, e + v) = [i \in 1..v |-> w[e + i]]
    <3>1. e + v <= Len(w) /\ (e + v) - (e + 1) + 1 = v
      BY <1>2, <1>3, <1>7 DEF l
    <3>2. SubSeq(w, e + 1, e + v) = [i \in 1..((e + v) - (e + 1) + 1) |-> w[i + (e + 1) - 1]]
      BY <1>2, <1>3, <3>1 DEF l
    <3>3. \A i \in 1..v : i + (e + 1) - 1 = e + i
      BY <1>2, <1>3
    <3>. QED BY <3>1, <3>2, <3>3
  <2>4. \A i \in 1..v : rest[i] = w[e + i]
    BY <1>3, <1>4, <2>1
  <2>. QED BY <2>2, <2>3, <2>4
<1>8. l < e + v <=> Len(rest) < v
  BY <1>2, <1>3, <1>4
<1>9. e > MaxHead => l > MaxHead
  BY <1>2, <1>5
<1> HIDE DEF e, h, v, l, rest
<1>10. e > MaxHead => DeservedOf(w) = Reply(400, <<>>)
  BY <1>6, <1>9
<1>11. e <= MaxHead => ~(e > MaxHead)
  BY <1>2, <1>5
<1>12. e <= MaxHead /\ StatusOf(h) # 0 => DeservedOf(w) = Reply(StatusOf(h), <<>>)
  BY <1>6, <1>11
<1>13. e <= MaxHead /\ StatusOf(h) = 0 /\ (l < e + v \/ w[1].kind # "request")
         => DeservedOf(w) = Reply(400, <<>>)
  BY <1>3, <1>6, <1>8, <1>11
<1>14. e <= MaxHead /\ StatusOf(h) = 0 /\ ~(l < e + v) /\ w[1].kind = "request"
         => DeservedOf(w) = Reply(200, SubSeq(w, e + 1, e + v))
  BY <1>3, <1>6, <1>7, <1>8, <1>11
<1>. QED BY <1>10, <1>12, <1>13, <1>14, Zenon DEF e, h, v, l

\* The model's names for what it finds.
LEMMA Found ==
  ASSUME NEW n
  PROVE  /\ Terminators(n) = EndsIn(wire, n) /\ HeaderEnd(n) = EndOf(wire, n)
         /\ Headers(HeaderEnd(n)) = HeadersOf(HeadOf(wire, n))
         /\ wire \in Seq(Byte) /\ n \in 0..Len(wire) /\ EndsIn(wire, n) # {}
              => HeadStatus(HeaderEnd(n)) = StatusAfter(HeadOf(wire, n), HeadersOf(HeadOf(wire, n)))
<1>1. Terminators(n) = EndsIn(wire, n) /\ HeaderEnd(n) = EndOf(wire, n)
  BY DEF Terminators, HeaderEnd, EndsIn, EndOf
<1>2. Headers(HeaderEnd(n)) = HeadersOf(HeadOf(wire, n))
  BY <1>1, Zenon DEF Headers, HeadOf
<1>3. ASSUME wire \in Seq(Byte), n \in 0..Len(wire), EndsIn(wire, n) # {}
      PROVE  HeadStatus(HeaderEnd(n)) = StatusAfter(HeadOf(wire, n), HeadersOf(HeadOf(wire, n)))
  <2> DEFINE e == EndOf(wire, n)
             h == HeadOf(wire, n)
  <2>1. e \in 4..n
    BY <1>3, EndIs
  <2>2. Len(h) = e /\ \A i \in 1..e : h[i] = wire[i]
    BY <1>3, <2>1 DEF HeadOf
  <2> HIDE DEF e, h
  <2>3. Garbled(h) <=> \E i \in 1..e : wire[i].kind = "garbled"
    BY <2>2 DEF Garbled
  <2>4. HeaderEnd(n) = e /\ Headers(e) = HeadersOf(h)
    BY <1>1, <1>2 DEF e, h
  <2>5. HeadStatus(e) = StatusAfter(h, HeadersOf(h))
    BY <2>3, <2>4 DEF HeadStatus, StatusAfter
  <2>. QED BY <2>4, <2>5 DEF h
<1>. QED BY <1>1, <1>2, <1>3

\* An answer without a body.
LEMMA EmptyReply ==
  ASSUME NEW s \in {0, 200, 400, 403}
  PROVE  Reply(s, <<>>) \in [status : {0, 200, 400, 403}, body : Seq(Byte)]
BY DEF Reply

LEMMA StatusIs == ASSUME NEW head PROVE StatusOf(head) \in {0, 400, 403}
BY DEF StatusOf

\* No end within the bytes read, and none of the others is within the limit.
LEMMA NoEndYet ==
  ASSUME NEW w \in Seq(Byte), NEW n \in 0..Len(w), EndsIn(w, n) = {}, n = Len(w) \/ n > MaxHead
  PROVE  DeservedOf(w) = Reply(IF n > MaxHead THEN 400 ELSE 0, <<>>)
<1> DEFINE l == Len(w)
<1>1. n \in Nat /\ l \in Nat /\ n <= l /\ \A i \in 1..n : w[i] = w[i]
  OBVIOUS
<1>2. MaxHead \in Nat
  BY Limits
<1>3. CASE EndsIn(w, l) = {}
  <2>1. l > MaxHead <=> n > MaxHead
    BY <1>1, <1>2
  <2>. QED BY <1>3, <2>1 DEF DeservedOf
<1>4. CASE EndsIn(w, l) # {}
  <2>1. EndOf(w, l) \in EndsIn(w, l) /\ EndOf(w, l) \in 4..l
    BY <1>1, <1>4, EndIs
  <2>2. \A i \in 1..n : i \in EndsIn(w, n) <=> i \in EndsIn(w, l)
    <3> HIDE DEF l
    <3>. QED BY <1>1, EndStays
  <2>3. EndOf(w, l) \notin 1..n
    BY <2>1, <2>2
  <2>4. EndOf(w, l) > n /\ EndOf(w, l) <= l /\ EndOf(w, l) \in Nat
    BY <1>1, <2>1, <2>3
  <2>5. n > MaxHead
    BY <1>1, <2>4
  <2>6. EndOf(w, l) > MaxHead /\ l > MaxHead
    BY <1>1, <1>2, <2>4, <2>5
  <2> HIDE DEF l
  <2>7. DeservedOf(w) = Reply(IF l > MaxHead THEN 400 ELSE 0, <<>>)
    BY <2>6 DEF DeservedOf, l
  <2>. QED BY <2>5, <2>6, <2>7
<1>. QED BY <1>3, <1>4

-----------------------------------------------------------------------------
\* Init and the steps.

LEMMA InitInv == Init => IInv
<1>. SUFFICES ASSUME Init PROVE IInv
  OBVIOUS
<1>1. wire \in Seq(Byte) /\ got = 0 /\ stage = "head" /\ outcome = Nothing
  BY HttpAssumption DEF Init
<1>2. Len(wire) \in Nat /\ MaxHead \in Nat
  BY <1>1, Limits
<1>3. EndsIn(wire, 0) = {}
  BY DEF EndsIn
<1>4. Nothing \in [status : {0, 200, 400, 403}, body : Seq(Byte)]
  BY EmptyReply DEF Nothing, Reply
<1>5. Typed
  BY <1>1, <1>2, <1>4 DEF Typed
<1>6. InHead /\ InBody
  BY <1>1, <1>2, <1>3 DEF InHead, InBody
<1>. QED BY <1>1, <1>5, <1>6 DEF IInv

\* A read takes at least one byte and at most ChunkSize.
LEMMA Received ==
  ASSUME Typed, Receive
  PROVE  got' \in 0..Len(wire) /\ got' \in Nat /\ got \in Nat /\ got < got' /\ got' <= got + ChunkSize
BY Limits DEF Typed, Receive

LEMMA ReadHeadKeeps == ASSUME IInv, ReadHead PROVE IInv'
<1>1. Typed /\ stage = "head" /\ wire' = wire /\ Receive
  BY DEF IInv, ReadHead
<1>2. /\ got' \in 0..Len(wire) /\ got' \in Nat /\ got \in Nat /\ got < got' /\ got' <= got + ChunkSize
      /\ wire \in Seq(Byte)
  BY <1>1, Received DEF Typed
<1>3. got <= MaxHead /\ EndsIn(wire, got) = {}
  BY <1>1 DEF IInv, InHead
<1>4. /\ Terminators(got') = EndsIn(wire, got') /\ HeaderEnd(got') = EndOf(wire, got')
      /\ EndsIn(wire, got') # {} => HeadStatus(HeaderEnd(got')) =
           StatusAfter(HeadOf(wire, got'), HeadersOf(HeadOf(wire, got')))
  BY <1>2, Found
<1>5. \/ EndsIn(wire, got') = {} /\ got' <= MaxHead /\ UNCHANGED <<stage, outcome>>
      \/ EndsIn(wire, got') = {} /\ got' > MaxHead /\ End(400)
      \/ EndsIn(wire, got') # {} /\ EndOf(wire, got') > MaxHead /\ End(400)
      \/ /\ EndsIn(wire, got') # {} /\ EndOf(wire, got') <= MaxHead
         /\ HeadStatus(HeaderEnd(got')) = 0 /\ stage' = "body" /\ UNCHANGED outcome
      \/ /\ EndsIn(wire, got') # {} /\ EndOf(wire, got') <= MaxHead
         /\ HeadStatus(HeaderEnd(got')) # 0 /\ End(HeadStatus(HeaderEnd(got')))
  BY <1>4, SMT DEF ReadHead
<1>6. CASE EndsIn(wire, got') = {} /\ got' <= MaxHead /\ UNCHANGED <<stage, outcome>>
  <2>1. Typed'
    BY <1>1, <1>2, <1>6 DEF Typed
  <2>. QED BY <1>1, <1>6, <2>1 DEF IInv, InHead, InBody
<1>7. CASE EndsIn(wire, got') = {} /\ got' > MaxHead /\ End(400)
  <2>1. DeservedOf(wire) = Reply(400, <<>>)
    BY <1>2, <1>7, NoEndYet
  <2>2. stage' = "done" /\ outcome' = Reply(400, <<>>)
    BY <1>7 DEF End, Reply
  <2>3. Typed'
    BY <1>1, <1>2, <2>2, EmptyReply DEF Typed
  <2>. QED BY <1>1, <2>1, <2>2, <2>3 DEF IInv, InHead, InBody
<1>8. CASE EndsIn(wire, got') # {} /\ EndOf(wire, got') > MaxHead /\ End(400)
  <2>1. DeservedOf(wire) = Reply(400, <<>>)
    BY <1>2, <1>8, DeservedAfterHead
  <2>2. stage' = "done" /\ outcome' = Reply(400, <<>>)
    BY <1>8 DEF End, Reply
  <2>3. Typed'
    BY <1>1, <1>2, <2>2, EmptyReply DEF Typed
  <2>. QED BY <1>1, <2>1, <2>2, <2>3 DEF IInv, InHead, InBody
<1>9. ASSUME EndsIn(wire, got') # {}
      PROVE  HeadStatus(HeaderEnd(got')) = StatusOf(HeadOf(wire, got'))
  <2>1. StatusAfter(HeadOf(wire, got'), HeadersOf(HeadOf(wire, got'))) = StatusOf(HeadOf(wire, got'))
    BY <1>2, <1>9, HeadIs
  <2>. QED BY <1>4, <1>9, <2>1
<1>10. CASE /\ EndsIn(wire, got') # {} /\ EndOf(wire, got') <= MaxHead
            /\ HeadStatus(HeaderEnd(got')) = 0 /\ stage' = "body" /\ UNCHANGED outcome
  <2>1. StatusOf(HeadOf(wire, got')) = 0
    BY <1>9, <1>10
  <2>2. EndOf(wire, got') \in EndsIn(wire, got') /\ EndOf(wire, got') \in 4..got'
    BY <1>2, <1>10, EndIs
  <2>3. EndOf(wire, got') > got
    <3>1. \A i \in 1..got : i \in EndsIn(wire, got) <=> i \in EndsIn(wire, got')
      <4>1. got <= got' /\ \A i \in 1..got : wire[i] = wire[i]
        BY <1>2
      <4>. QED BY <1>2, <4>1, EndStays
    <3>. QED BY <1>2, <1>3, <2>2, <3>1
  <2>4. got' < MaxHead + MaxBody + ChunkSize
    BY <1>2, <1>10, <2>2, <2>3, Limits
  <2>5. Typed'
    BY <1>1, <1>2, <1>10 DEF Typed
  <2>. QED BY <1>1, <1>10, <2>1, <2>4, <2>5 DEF IInv, InHead, InBody
<1>11. CASE /\ EndsIn(wire, got') # {} /\ EndOf(wire, got') <= MaxHead
            /\ HeadStatus(HeaderEnd(got')) # 0 /\ End(HeadStatus(HeaderEnd(got')))
  <2> DEFINE s == StatusOf(HeadOf(wire, got'))
  <2>1. HeadStatus(HeaderEnd(got')) = s /\ s # 0
    BY <1>9, <1>11
  <2>2. s \in {0, 200, 400, 403}
    BY StatusIs
  <2>3. DeservedOf(wire) = Reply(s, <<>>)
    BY <1>2, <1>11, <2>1, DeservedAfterHead
  <2> HIDE DEF s
  <2>4. stage' = "done" /\ outcome' = Reply(s, <<>>)
    BY <1>11, <2>1 DEF End, Reply
  <2>5. Typed'
    BY <1>1, <1>2, <2>2, <2>4, EmptyReply DEF Typed
  <2>. QED BY <1>1, <2>3, <2>4, <2>5 DEF IInv, InHead, InBody
<1>. QED BY <1>5, <1>6, <1>7, <1>8, <1>10, <1>11

\* What the body loop knows.
LEMMA AtBody ==
  ASSUME IInv, stage = "body"
  PROVE  /\ wire \in Seq(Byte) /\ got \in 0..Len(wire) /\ got \in Nat /\ EndsIn(wire, got) # {}
         /\ EndOf(wire, got) \in 4..got /\ EndOf(wire, got) <= MaxHead
         /\ StatusOf(HeadOf(wire, got)) = 0
         /\ HeadersOf(HeadOf(wire, got)).value \in 0..MaxBody
         /\ Missing = EndOf(wire, got) + HeadersOf(HeadOf(wire, got)).value - got
<1>1. /\ wire \in Seq(Byte) /\ got \in 0..Len(wire) /\ EndsIn(wire, got) # {}
      /\ EndOf(wire, got) <= MaxHead /\ StatusOf(HeadOf(wire, got)) = 0
  BY DEF IInv, Typed, InBody
<1>2. got \in Nat /\ EndOf(wire, got) \in 4..got
  BY <1>1, EndIs
<1>3. HeadersOf(HeadOf(wire, got)).value \in Nat /\ HeadersOf(HeadOf(wire, got)).value <= MaxBody
  BY <1>1, HeadIs
<1>4. Missing = EndOf(wire, got) + HeadersOf(HeadOf(wire, got)).value - got
  BY Found DEF Missing
<1>. QED BY <1>1, <1>2, <1>3, <1>4, Limits

LEMMA ReadBodyKeeps == ASSUME IInv, ReadBody PROVE IInv'
<1>1. Typed /\ stage = "body" /\ UNCHANGED <<wire, stage, outcome>> /\ Receive /\ Missing > 0
  BY DEF IInv, ReadBody
<1>2. /\ got' \in 0..Len(wire) /\ got' \in Nat /\ got \in Nat /\ got < got' /\ got' <= got + ChunkSize
      /\ wire \in Seq(Byte)
  BY <1>1, Received DEF Typed
<1>3. /\ EndsIn(wire, got) # {} /\ EndOf(wire, got) \in 4..got /\ EndOf(wire, got) <= MaxHead
      /\ StatusOf(HeadOf(wire, got)) = 0 /\ HeadersOf(HeadOf(wire, got)).value \in 0..MaxBody
      /\ Missing = EndOf(wire, got) + HeadersOf(HeadOf(wire, got)).value - got
  BY <1>1, AtBody
<1>4. EndsIn(wire, got') # {} /\ EndOf(wire, got') = EndOf(wire, got)
  <2>1. got <= got' /\ \A i \in 1..got : wire[i] = wire[i]
    BY <1>2
  <2>. QED BY <1>2, <1>3, <2>1, EndStays
<1>5. HeadOf(wire, got') = HeadOf(wire, got)
  BY <1>4 DEF HeadOf
<1>6. got' < MaxHead + MaxBody + ChunkSize
  BY <1>1, <1>2, <1>3, Limits
<1>7. Typed'
  BY <1>1, <1>2 DEF Typed
<1>. QED BY <1>1, <1>3, <1>4, <1>5, <1>6, <1>7 DEF IInv, InHead, InBody

LEMMA DispatchKeeps == ASSUME IInv, Dispatch PROVE IInv'
<1> DEFINE e == EndOf(wire, got)
           v == HeadersOf(HeadOf(wire, got)).value
<1>1. Typed /\ stage = "body" /\ UNCHANGED <<wire, got>> /\ Missing <= 0
  BY DEF IInv, Dispatch
<1>2. /\ wire \in Seq(Byte) /\ got \in 0..Len(wire) /\ got \in Nat /\ EndsIn(wire, got) # {}
      /\ e \in 4..got /\ e <= MaxHead
      /\ StatusOf(HeadOf(wire, got)) = 0 /\ v \in 0..MaxBody /\ Missing = e + v - got
  BY <1>1, AtBody
<1>3. /\ wire[1].kind # "request" => DeservedOf(wire) = Reply(400, <<>>)
      /\ ~(Len(wire) < e + v) /\ wire[1].kind = "request"
           => DeservedOf(wire) = Reply(200, SubSeq(wire, e + 1, e + v))
  BY <1>2, DeservedAfterHead
<1>4. HeaderEnd(got) = e /\ Headers(HeaderEnd(got)).value = v
  BY Found
<1> HIDE DEF e, v
<1>5. ~(Len(wire) < e + v) /\ e \in Nat /\ v \in Nat /\ e + v <= Len(wire)
  BY <1>1, <1>2, Limits
<1>6. CASE RequestLineOk
  <2>1. stage' = "routed" /\ outcome' = Reply(200, SubSeq(wire, e + 1, e + v))
    BY <1>4, <1>6 DEF Dispatch, Route, Reply
  <2>2. DeservedOf(wire) = Reply(200, SubSeq(wire, e + 1, e + v))
    BY <1>3, <1>5, <1>6 DEF RequestLineOk
  <2>3. SubSeq(wire, e + 1, e + v) \in Seq(Byte)
    BY <1>2, <1>5
  <2>4. outcome' \in [status : {0, 200, 400, 403}, body : Seq(Byte)]
    BY <2>1, <2>3 DEF Reply
  <2>5. Typed'
    BY <1>1, <2>1, <2>4 DEF Typed
  <2>. QED BY <1>1, <2>1, <2>2, <2>5 DEF IInv, InHead, InBody
<1>7. CASE ~RequestLineOk
  <2>1. stage' = "done" /\ outcome' = Reply(400, <<>>)
    BY <1>7 DEF Dispatch, End, Reply
  <2>2. DeservedOf(wire) = Reply(400, <<>>)
    BY <1>3, <1>7 DEF RequestLineOk
  <2>3. Typed'
    BY <1>1, <2>1, EmptyReply DEF Typed
  <2>. QED BY <1>1, <2>1, <2>2, <2>3 DEF IInv, InHead, InBody
<1>. QED BY <1>6, <1>7

LEMMA PeerClosesKeeps == ASSUME IInv, PeerCloses PROVE IInv'
<1>1. Typed /\ got = Len(wire) /\ UNCHANGED <<wire, got>>
  BY DEF IInv, PeerCloses
<1>2. wire \in Seq(Byte) /\ got \in 0..Len(wire) /\ got \in Nat /\ MaxHead \in Nat
  BY <1>1, Limits DEF Typed
<1>3. CASE stage = "head" /\ End(0)
  <2>1. got <= MaxHead /\ EndsIn(wire, got) = {} /\ ~(got > MaxHead)
    BY <1>2, <1>3 DEF IInv, InHead
  <2>2. DeservedOf(wire) = Reply(0, <<>>)
    BY <1>1, <1>2, <2>1, NoEndYet
  <2>3. stage' = "done" /\ outcome' = Reply(0, <<>>)
    BY <1>3 DEF End, Reply
  <2>4. Typed'
    BY <1>1, <2>3, EmptyReply DEF Typed
  <2>. QED BY <1>1, <2>2, <2>3, <2>4 DEF IInv, InHead, InBody
<1>4. CASE stage = "body" /\ Missing > 0 /\ End(400)
  <2> DEFINE e == EndOf(wire, got)
             v == HeadersOf(HeadOf(wire, got)).value
  <2>1. /\ EndsIn(wire, got) # {} /\ e \in 4..got /\ e <= MaxHead
        /\ StatusOf(HeadOf(wire, got)) = 0 /\ v \in 0..MaxBody /\ Missing = e + v - got
    BY <1>4, AtBody
  <2>2. Len(wire) < e + v => DeservedOf(wire) = Reply(400, <<>>)
    BY <1>2, <2>1, DeservedAfterHead
  <2> HIDE DEF e, v
  <2>3. Len(wire) < e + v
    BY <1>1, <1>2, <1>4, <2>1, Limits
  <2>4. stage' = "done" /\ outcome' = Reply(400, <<>>)
    BY <1>4 DEF End, Reply
  <2>5. Typed'
    BY <1>1, <2>4, EmptyReply DEF Typed
  <2>. QED BY <1>1, <2>2, <2>3, <2>4, <2>5 DEF IInv, InHead, InBody
<1>. QED BY <1>3, <1>4 DEF PeerCloses

LEMMA ClientStopsKeeps == ASSUME IInv, ClientStops PROVE IInv'
<1>1. /\ Typed /\ wire' = SubSeq(wire, 1, got) /\ UNCHANGED <<got, stage, outcome>>
      /\ stage \in {"head", "body"}
  BY DEF IInv, ClientStops
<1>2. wire \in Seq(Byte) /\ got \in 0..Len(wire) /\ got \in Nat
  BY <1>1 DEF Typed
<1>3. wire' \in Seq(Byte) /\ Len(wire') = got /\ \A i \in 1..got : wire[i] = wire'[i]
  BY <1>1, <1>2
<1>4. Typed'
  BY <1>1, <1>2, <1>3 DEF Typed
<1>5. /\ \A i \in 1..got : i \in EndsIn(wire, got) <=> i \in EndsIn(wire', got)
      /\ EndsIn(wire, got) # {} => EndsIn(wire', got) # {} /\ EndOf(wire', got) = EndOf(wire, got)
  <2>1. got <= got
    BY <1>2
  <2>. QED BY <1>2, <1>3, <2>1, EndStays
<1>6. InHead'
  <2>1. \A i \in EndsIn(wire', got) : i \in 1..got
    BY <1>2 DEF EndsIn
  <2>2. EndsIn(wire, got) = {} => EndsIn(wire', got) = {}
    BY <1>5, <2>1
  <2>. QED BY <1>1, <2>2 DEF IInv, InHead
<1>7. InBody'
  <2>1. CASE stage = "body"
    <3>1. EndOf(wire, got) \in 4..got /\ EndsIn(wire, got) # {}
      BY <2>1, AtBody
    <3>2. HeadOf(wire', got) = HeadOf(wire, got)
      <4>1. EndOf(wire', got) = EndOf(wire, got)
        BY <1>5, <3>1
      <4> DEFINE e == EndOf(wire, got)
      <4>2. e \in Nat /\ e <= got
        BY <1>2, <3>1
      <4> HIDE DEF e
      <4>3. SubSeq(wire, 1, e) = [i \in 1..e |-> wire[i]] /\ SubSeq(wire', 1, e) = [i \in 1..e |-> wire'[i]]
        BY <1>2, <1>3, <4>2
      <4>4. \A i \in 1..e : wire[i] = wire'[i]
        BY <1>2, <1>3, <4>2
      <4>5. SubSeq(wire, 1, e) = SubSeq(wire', 1, e)
        BY <4>3, <4>4
      <4>. QED BY <4>1, <4>5 DEF HeadOf, e
    <3>. QED BY <1>1, <1>5, <2>1, <3>1, <3>2 DEF IInv, InBody
  <2>2. CASE stage # "body"
    BY <1>1, <2>2 DEF InBody
  <2>. QED BY <2>1, <2>2
<1>. QED BY <1>1, <1>4, <1>6, <1>7 DEF IInv

-----------------------------------------------------------------------------

\* The invariant holds of every exchange: of any bytes, cut into reads in any
\* way, by a client that may stop anywhere (handle_connection).
THEOREM Invariance == Spec => []IInv
<1>1. ASSUME IInv, [Next]_vars PROVE IInv'
  <2>1. CASE Next
    BY <1>1, <2>1, ReadHeadKeeps, ReadBodyKeeps, DispatchKeeps, PeerClosesKeeps, ClientStopsKeeps
       DEF Next, Step
  <2>2. CASE UNCHANGED vars
    BY <1>1, <2>2 DEF vars, IInv, Typed, InHead, InBody
  <2>. QED BY <1>1, <2>1, <2>2
<1>. QED BY <1>1, InitInv, PTL DEF Spec

\* Type correctness, with the bound on what one exchange buffers.
THEOREM TypeCorrect == Spec => []TypeOK
<1>1. IInv => TypeOK
  BY DEF IInv, Typed, InHead, InBody, TypeOK
<1>. QED BY <1>1, Invariance, PTL

\* Whatever reads the bytes of a request arrive in, the exchange comes to what
\* the bytes deserve: the loops of handle_connection agree with the counts of
\* the headers of the whole head.
THEOREM ChunkingInvisible == Spec => []ChunkingIsInvisible
<1>1. IInv => ChunkingIsInvisible
  BY DeservedIs DEF IInv, ChunkingIsInvisible
<1>. QED BY <1>1, Invariance, PTL

-----------------------------------------------------------------------------

\* What is left to do: bytes to read, and the loops to leave.
Left ==
  Len(wire) - got + (IF stage = "head" THEN 2 ELSE IF stage = "body" THEN 1 ELSE 0)

LEMMA LeftIs == ASSUME Typed PROVE Left \in Nat /\ Len(wire) \in Nat /\ got \in Nat
BY DEF Typed, Left

\* Every step of an exchange leaves less to do, a client that stops included:
\* no bytes, no sizes of reads and no limits keep the loops of handle_connection
\* going round for ever, which is why a fair exchange ends (ReadingEnds).
THEOREM LessIsLeft == Spec => [](Left \in Nat) /\ [][Left' < Left]_vars
<1>1. IInv => Left \in Nat
  BY LeftIs DEF IInv
<1>2. IInv /\ [Next]_vars => [Left' < Left]_vars
  <2>. SUFFICES ASSUME IInv, Next PROVE Left' < Left
    OBVIOUS
  <2>1. Typed /\ Left \in Nat /\ Len(wire) \in Nat /\ got \in Nat
    BY LeftIs DEF IInv
  <2>3. CASE ReadHead
    <3>1. wire' = wire /\ stage = "head" /\ stage' \in {"head", "body", "done"} /\ Receive
      BY <2>3 DEF ReadHead, End
    <3>2. got' \in Nat /\ got < got'
      BY <2>1, <3>1, Received
    <3>. QED BY <2>1, <3>1, <3>2 DEF Left
  <2>4. CASE ReadBody
    <3>1. wire' = wire /\ stage' = stage /\ Receive
      BY <2>4 DEF ReadBody
    <3>2. got' \in Nat /\ got < got'
      BY <2>1, <3>1, Received
    <3>. QED BY <2>1, <3>1, <3>2 DEF Left
  <2>5. CASE Dispatch \/ PeerCloses
    <3>1. wire' = wire /\ got' = got /\ stage \in {"head", "body"} /\ stage' \in {"routed", "done"}
      BY <2>5 DEF Dispatch, PeerCloses, Route, End
    <3>. QED BY <2>1, <3>1 DEF Left
  <2>6. CASE ClientStops
    <3>1. wire' = SubSeq(wire, 1, got) /\ got' = got /\ stage' = stage /\ got < Len(wire)
      BY <2>6 DEF ClientStops
    <3>2. Len(wire') = got
      BY <2>1, <3>1 DEF Typed
    <3>. QED BY <2>1, <3>1, <3>2 DEF Left
  <2>. QED BY <2>3, <2>4, <2>5, <2>6 DEF Next, Step
<1>. QED BY <1>1, <1>2, Invariance, PTL DEF Spec

=============================================================================
