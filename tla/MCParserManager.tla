--------------------------- MODULE MCParserManager ---------------------------
(* Instances of ParserManager for TLC. *)
EXTENDS ParserManager

TwoMounts == {"m1", "m2"}
ThreeSessions == {"s1", "s2", "s3"}
TwoRequests == {"w1", "w2"}

\* A source that comes back, and a second mount point.
Stations == [s \in ThreeSessions |-> IF s = "s3" THEN "m2" ELSE "m1"]
=============================================================================
