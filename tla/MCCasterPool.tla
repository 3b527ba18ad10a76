---------------------------- MODULE MCCasterPool ----------------------------
(* Instances of CasterPool for TLC. *)
EXTENDS CasterPool

FourSessions == {"s1", "s2", "s3", "s4"}
=============================================================================
