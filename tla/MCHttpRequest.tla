--------------------------- MODULE MCHttpRequest ---------------------------
(***************************************************************************)
(* Instances of HttpRequest for TLC: requests of one to three header lines *)
(* and up to three bytes after the head.                                   *)
(***************************************************************************)
EXTENDS HttpRequest, SequencesExt

B(kind) == [kind |-> kind, value |-> 0]
CRLF == <<B("cr"), B("lf")>>

HeaderLines ==
  {B(k) : k \in {"host", "host-foreign", "origin", "origin-foreign",
                 "length-bad", "transfer-encoding", "other", "malformed"}}
    \cup {[kind |-> "length", value |-> n] : n \in 0..(MaxBody + 1)}

Message(request, headers, rest) ==
  FoldLeft(LAMBDA head, line : head \o <<line>> \o CRLF, <<B(request)>> \o CRLF, headers)
    \o CRLF \o rest

HeaderLists ==
  {<<h>> : h \in HeaderLines} \cup (HeaderLines \X HeaderLines)
    \cup ({B("host")} \X HeaderLines \X {B("other"), B("origin"), B("length-bad")})

Rests == {<<>>, <<B("body")>>, <<B("body"), B("body")>>, <<B("body"), B("body"), B("body")>>}

Written ==
  {Message(r, hs, rest) : r \in {"request", "request-bad", "garbled"}, hs \in HeaderLists, rest \in Rests}

=============================================================================
