----------------------------- MODULE MCUrosTask -----------------------------
(* Small instances of UrosTask for TLC; the cfg files give the constants.   *)
EXTENDS UrosTask
=============================================================================
