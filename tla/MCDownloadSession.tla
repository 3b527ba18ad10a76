------------------------- MODULE MCDownloadSession -------------------------
(* Instances of DownloadSession for TLC. *)
EXTENDS DownloadSession

\* Two rovers of one user.
TwoSessions == {"r1", "r2"}
OneUser == {"u"}
Both == [s \in TwoSessions |-> "u"]
=============================================================================
