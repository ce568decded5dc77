-------------------------- MODULE MCGrooveHarness --------------------------
(***************************************************************************)
(* Instances of GrooveHarness for TLC: two partners that share a           *)
(* capability.                                                             *)
(***************************************************************************)
EXTENDS GrooveHarness, TLC

CONSTANTS p1, p2

Shared == (p1 :> {"voice"}) @@ (p2 :> {"voice", "text"})

=============================================================================
