--------------------------- MODULE MCParserThread ---------------------------
(* Instances of ParserThread for TLC; see MCDecoder for what is read. *)
EXTENDS ParserThread

OneMount == {"m1"}
ThreeChunks == [m \in OneMount |-> 3]
=============================================================================
