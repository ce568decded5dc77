---------------------------- MODULE HttpRequest ----------------------------
(***************************************************************************)
(* How the provider takes one request off a connection                     *)
(* (handle_connection, src/provider/src/lib.rs), before it is routed: the  *)
(* client writes its bytes and closes, the provider reads them in pieces   *)
(* of any size up to its buffer's.                                         *)
(*                                                                         *)
(* A byte is "cr", "lf", a byte of the body, or stands for the whole text  *)
(* of a line: what the provider tells apart in it is its kind, and for a   *)
(* content-length its value.                                               *)
(***************************************************************************)
EXTENDS Integers, FiniteSets, Sequences

CONSTANTS
  Wires,       \* what a client may write: sequences of bytes
  ChunkSize,   \* bytes one read can return (4096)
  MaxHead,     \* bytes a head may have (65536)
  MaxBody      \* bytes a body may have (1048576)

Lines == {"request", "request-bad",        \* method, path and HTTP/1.x, or not: no header
          "host", "host-foreign",          \* a loopback authority, or not
          "origin", "origin-foreign",
          "length", "length-bad",          \* digits within usize, or not
          "transfer-encoding", "other",
          "malformed",                     \* no colon, a bad name, a control character in the value
          "garbled"}                       \* not UTF-8: the request line or a header

Byte == [kind : Lines \cup {"cr", "lf", "body"}, value : Nat]

ASSUME HttpAssumption ==
  /\ \A w \in Wires : w \in Seq(Byte)
  /\ ChunkSize \in Nat \ {0} /\ MaxHead \in Nat /\ MaxBody \in Nat

VARIABLES
  wire,        \* everything the client writes before it closes: all it
               \* means to, until it closes early
  got,         \* how much of it has been read: buf
  stage,       \* the loop the provider is in
  outcome      \* what the exchange came to

vars == <<wire, got, stage, outcome>>

----------------------------------------------------------------------------
\* The head.

\* Ends of "\r\n\r\n" within the first n bytes.
Terminators(n) ==
  {i \in 4..n : /\ wire[i - 3].kind = "cr" /\ wire[i - 2].kind = "lf"
                /\ wire[i - 1].kind = "cr" /\ wire[i].kind = "lf"}

\* find_subsequence: the first of them.
HeaderEnd(n) == CHOOSE i \in Terminators(n) : \A j \in Terminators(n) : i <= j

\* What the header loop remembers. What is Refused stays so: it has had every
\* header there can be.
NoHeaders == [host |-> "", origin |-> "", length |-> "", value |-> 0]
Refused == [host |-> "refused", origin |-> "refused", length |-> "refused", value |-> 0]

\* One header line: each of host, origin and content-length at most once, no
\* transfer-encoding, nothing malformed.
TakeHeader(seen, line) ==
  CASE line.kind \in {"other", "cr", "lf"} -> seen
    [] line.kind \in {"host", "host-foreign"} /\ seen.host = "" -> [seen EXCEPT !.host = line.kind]
    [] line.kind \in {"origin", "origin-foreign"} /\ seen.origin = "" -> [seen EXCEPT !.origin = line.kind]
    [] line.kind = "length" /\ seen.length = "" -> [seen EXCEPT !.length = "length", !.value = line.value]
    [] OTHER -> Refused

\* What the loop remembers of a head: its first line is no header.
HeadersOf(head) ==
  LET upto[i \in 0..Len(head)] == IF i <= 1 THEN NoHeaders ELSE TakeHeader(upto[i - 1], head[i])
  IN upto[Len(head)]

Headers(end) == HeadersOf(SubSeq(wire, 1, end))

\* The checks before the body is read: the status of the refusal, or 0.
HeadStatus(end) ==
  LET seen == Headers(end) IN
  IF \E i \in 1..end : wire[i].kind = "garbled" THEN 400
  ELSE IF seen.host # "host" THEN 400
  ELSE IF seen.origin = "origin-foreign" THEN 403
  ELSE IF seen.value > MaxBody THEN 400 ELSE 0

RequestLineOk == wire[1].kind = "request"

----------------------------------------------------------------------------

Nothing == [status |-> 0, body |-> <<>>]

\* respond, or a close without a word (status 0).
End(status) ==
  /\ stage' = "done"
  /\ outcome' = [status |-> status, body |-> <<>>]

\* The request goes to the routes with its body.
Route(end) ==
  /\ stage' = "routed"
  /\ outcome' = [status |-> 200, body |-> SubSeq(wire, end + 1, end + Headers(end).value)]

\* One read returns some of the bytes that have arrived.
Receive ==
  \E n \in 1..ChunkSize : got + n <= Len(wire) /\ got' = got + n

\* Mutant of ReadHead: the limit is only applied to a head that is complete.
ReadHeadWhole ==
  LET end == HeaderEnd(got') IN
  /\ stage = "head"
  /\ Receive
  /\ \/ Terminators(got') = {} /\ UNCHANGED <<stage, outcome>>
     \/ Terminators(got') # {} /\ end > MaxHead /\ End(400)
     \/ /\ Terminators(got') # {} /\ end <= MaxHead
        /\ \/ HeadStatus(end) = 0 /\ stage' = "body" /\ UNCHANGED outcome
           \/ HeadStatus(end) # 0 /\ End(HeadStatus(end))
  /\ UNCHANGED wire

\* Mutant of ReadHead: the limit is only applied while the end is missing.
ReadHeadUnlimited ==
  /\ stage = "head"
  /\ Receive
  /\ IF Terminators(got') # {}
     THEN IF HeadStatus(HeaderEnd(got')) # 0
          THEN End(HeadStatus(HeaderEnd(got')))
          ELSE stage' = "body" /\ UNCHANGED outcome
     ELSE IF got' > MaxHead THEN End(400) ELSE UNCHANGED <<stage, outcome>>
  /\ UNCHANGED wire

\* A read of the header loop; with the end of the headers come their checks.
ReadHead ==
  LET end == HeaderEnd(got') IN
  /\ stage = "head"
  /\ Receive
  /\ \/ Terminators(got') = {} /\ got' <= MaxHead /\ UNCHANGED <<stage, outcome>>
     \/ Terminators(got') = {} /\ got' > MaxHead /\ End(400)
     \/ Terminators(got') # {} /\ end > MaxHead /\ End(400)
     \/ /\ Terminators(got') # {} /\ end <= MaxHead
        /\ \/ HeadStatus(end) = 0 /\ stage' = "body" /\ UNCHANGED outcome
           \/ HeadStatus(end) # 0 /\ End(HeadStatus(end))
  /\ UNCHANGED wire

\* Bytes of the body that are still missing.
Missing == HeaderEnd(got) + Headers(HeaderEnd(got)).value - got

ReadBody ==
  /\ stage = "body"
  /\ Missing > 0
  /\ Receive
  /\ UNCHANGED <<wire, stage, outcome>>

\* The body is complete, and what follows it is cut off.
Dispatch ==
  LET end == HeaderEnd(got) IN
  /\ stage = "body"
  /\ Missing <= 0
  /\ IF RequestLineOk THEN Route(end) ELSE End(400)
  /\ UNCHANGED <<wire, got>>

\* Mutant of PeerCloses: the end of the stream is not noticed in the body loop.
PeerClosesHead ==
  /\ got = Len(wire)
  /\ stage = "head" /\ End(0)
  /\ UNCHANGED <<wire, got>>

\* A read returns nothing: the client has closed.
PeerCloses ==
  /\ got = Len(wire)
  /\ \/ stage = "head" /\ End(0)
     \/ stage = "body" /\ Missing > 0 /\ End(400)
  /\ UNCHANGED <<wire, got>>

\* The client closes, or is cut off, with less written than it meant to.
ClientStops ==
  /\ stage \in {"head", "body"} /\ got < Len(wire)
  /\ wire' = SubSeq(wire, 1, got)
  /\ UNCHANGED <<got, stage, outcome>>

Init ==
  /\ wire \in Wires
  /\ got = 0
  /\ stage = "head"
  /\ outcome = Nothing

Step == ReadHead \/ ReadBody \/ Dispatch \/ PeerCloses

Next == Step \/ ClientStops

Spec == Init /\ [][Next]_vars

\* The client writes what it has to write and closes; the provider reads on.
FairSpec == Spec /\ WF_vars(Step)

----------------------------------------------------------------------------
\* What the bytes say, however they were read.

Count(head, kinds) == Cardinality({i \in 2..Len(head) : head[i].kind \in kinds})

\* The status a head deserves, from how often each header occurs in it.
StatusOf(head) ==
  IF \/ head[1].kind = "garbled"
     \/ Count(head, {"garbled", "malformed", "length-bad", "transfer-encoding",
                     "request", "request-bad", "body"}) > 0
     \/ Count(head, {"length"}) > 1
     \/ Count(head, {"origin", "origin-foreign"}) > 1
     \/ Count(head, {"host", "host-foreign"}) # 1
     \/ Count(head, {"host"}) # 1
  THEN 400
  ELSE IF Count(head, {"origin-foreign"}) > 0 THEN 403
  ELSE IF \E i \in 2..Len(head) : head[i].kind = "length" /\ head[i].value > MaxBody THEN 400
  ELSE 0

DeclaredLength(head) ==
  IF \E i \in 2..Len(head) : head[i].kind = "length"
  THEN (CHOOSE b \in {head[i] : i \in 2..Len(head)} : b.kind = "length").value
  ELSE 0

\* The outcome of a client that writes the wire and closes.
Deserved ==
  LET end == HeaderEnd(Len(wire))
      head == SubSeq(wire, 1, end)
      rest == SubSeq(wire, end + 1, Len(wire))
      answer(status) == [status |-> status, body |-> <<>>] IN
  IF Terminators(Len(wire)) = {} \/ end > MaxHead
  THEN answer(IF Len(wire) > MaxHead THEN 400 ELSE 0)
  ELSE IF StatusOf(head) # 0 THEN answer(StatusOf(head))
  ELSE IF Len(rest) < DeclaredLength(head) \/ head[1].kind # "request" THEN answer(400)
  ELSE [status |-> 200, body |-> SubSeq(rest, 1, DeclaredLength(head))]

----------------------------------------------------------------------------
\* Properties.

\* The types, and the bound on what an exchange buffers: a head is not searched
\* past its limit, and of a body at most one read too much is kept.
TypeOK ==
  /\ wire \in Seq(Byte)
  /\ got \in 0..Len(wire)
  /\ stage \in {"head", "body", "routed", "done"}
  /\ outcome \in [status : {0, 200, 400, 403}, body : Seq(Byte)]
  /\ stage = "head" => got <= MaxHead
  /\ stage = "body" => got < MaxHead + MaxBody + ChunkSize

\* However the network cuts the bytes into reads, a terminator across two of
\* them, a limit passed in the middle of one or bytes of a next message behind
\* the body, the exchange comes to what the bytes deserve.
ChunkingIsInvisible == stage \in {"routed", "done"} => outcome = Deserved

\* A client that stops writing, in its headers or in its body, does not keep
\* the exchange reading for ever.
ReadingEnds == <>(stage \in {"routed", "done"})

=============================================================================
