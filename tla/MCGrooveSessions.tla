-------------------------- MODULE MCGrooveSessions --------------------------
(***************************************************************************)
(* Instances of GrooveSessions for TLC.                                    *)
(***************************************************************************)
EXTENDS GrooveSessions, TLC

\* Handles and consumers are interchangeable (safety runs only).
Symmetry == Permutations(Handles) \cup Permutations(Consumers)

=============================================================================
