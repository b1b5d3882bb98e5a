---------------------------- MODULE MCIdMapping ----------------------------
(* Instances of IdMapping for TLC. *)
EXTENDS IdMapping, TLC

(* Workers are alike, and so are the ways they generate ids. *)
Symmetry == Permutations(Requests) \cup Permutations(Generators)
=============================================================================
