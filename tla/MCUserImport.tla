---------------------------- MODULE MCUserImport ----------------------------
(* Instances of UserImport for TLC. *)
EXTENDS UserImport, TLC

\* Requests are alike.
RequestSymmetry == Permutations(Request)

TwoUsers == {"u1", "u2"}
TwoFiles == {{"u1"}, {"u1", "u2"}}
=============================================================================
