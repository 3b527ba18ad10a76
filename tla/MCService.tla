----------------------------- MODULE MCService -----------------------------
(* Service as it is: its constants are plain numbers. *)
EXTENDS Service
=============================================================================
