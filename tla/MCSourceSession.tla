-------------------------- MODULE MCSourceSession --------------------------
(* Instances of SourceSession for TLC. *)
EXTENDS SourceSession

\* Two sources of one mount point behind one address, which is not the
\* caster's: an entry of api_initialize_mount refuses them.
TwoSessions == {"s1", "s2"}
StationIps == [s \in TwoSessions |-> "station"]
PairOnOne == [s \in TwoSessions |-> "m1"]

OneMount == {"m1"}

\* A second mount point: the table of mounts changes size.
TwoMounts == {"m1", "m2"}
=============================================================================
