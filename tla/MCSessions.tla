----------------------------- MODULE MCSessions -----------------------------
(***************************************************************************)
(* An instance of Sessions for TLC.                                        *)
(***************************************************************************)
EXTENDS Sessions, TLC

\* The requests in progress differ in nothing but their names.
Symmetry == Permutations(Requests)

=============================================================================
