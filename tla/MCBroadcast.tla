---------------------------- MODULE MCBroadcast ----------------------------
(* Instances of Broadcast for TLC. *)
EXTENDS Broadcast

TwoClients == {"c1", "c2"}
=============================================================================
