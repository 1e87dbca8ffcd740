--------------------------- MODULE MCControlLoop ---------------------------
(* Small instances of ControlLoop for TLC; the cfg files give the constants. *)
EXTENDS ControlLoop
=============================================================================
