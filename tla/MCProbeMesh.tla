---------------------------- MODULE MCProbeMesh ----------------------------
(***************************************************************************)
(* Instances of ProbeMesh for TLC: two services that need each other, each *)
(* possibly on the other's port, and a refused proposal whose port is      *)
(* probed only when asked for.                                             *)
(***************************************************************************)
EXTENDS ProbeMesh

Entry(id, port, status, offers, consumes) ==
  [id |-> id, port |-> port, status |-> status, offers |-> offers, consumes |-> consumes]

Three ==
  <<Entry("broker", 1, "rejected-proposal", {}, {}),
    Entry("vext", 3, "external", {"integrity"}, {"voice", "storage"}),
    Entry("burble", 2, "external", {"voice", "storage"}, {"integrity", "voice"})>>

Manifest(entry) == [id |-> entry.id, offers |-> entry.offers, consumes |-> entry.consumes]

Response(has200, text, manifest) ==
  [reply |-> "response", has200 |-> has200, text |-> text, manifest |-> {manifest}]

SomeAnswers ==
  {Nobody, [Nobody EXCEPT !.reply = "silent"],
   Response(TRUE, "no object", Manifest(Three[2])),
   Response(TRUE, "repeated key", Manifest(Three[2])),
   Response(TRUE, "ijson", Manifest(Three[2])), Response(TRUE, "ijson", Manifest(Three[3])),
   Response(FALSE, "ijson", Manifest(Three[3])),
   Response(TRUE, "ijson", [id |-> "unknown", offers |-> {}, consumes |-> {}])}

Extra == {<<>>, <<1, 3>>}

=============================================================================
