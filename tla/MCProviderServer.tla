-------------------------- MODULE MCProviderServer --------------------------
(***************************************************************************)
(* Instances of ProviderServer for TLC.                                    *)
(***************************************************************************)
EXTENDS ProviderServer, TLC

\* Interchangeable (safety runs only).
Symmetry == Permutations(Handles) \cup Permutations(Exchanges) \cup Permutations(Listeners)

=============================================================================
