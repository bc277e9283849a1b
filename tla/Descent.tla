-------------------------------- MODULE Descent --------------------------------
(***************************************************************************)
(* Triples of numbers in lexicographic order.  The order has no infinite   *)
(* descent (NoInfiniteDescent in HashBuild_proofs), so a machine each of   *)
(* whose steps makes its triple smaller comes to an end.                   *)
(***************************************************************************)
EXTENDS Naturals

Triples == Nat \X Nat \X Nat

Less(a, b) ==
    \/ a[1] < b[1]
    \/ a[1] = b[1] /\ a[2] < b[2]
    \/ a[1] = b[1] /\ a[2] = b[2] /\ a[3] < b[3]

=============================================================================
