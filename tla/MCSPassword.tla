----------------------------- MODULE MCSPassword -----------------------------
(* Instances of SPasswordSystem for TLC. *)
EXTENDS LockoutRefinement, TLC

(* Requests are alike, and so are codes: nothing compares them but for      *)
(* equality.  Used by the runs without liveness.                            *)
RequestSymmetry == Permutations(Requests)
CodeSymmetry == Permutations(Codes)
Symmetry == RequestSymmetry \cup CodeSymmetry
=============================================================================
