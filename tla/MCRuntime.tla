----------------------------- MODULE MCRuntime ------------------------------
(* Small instances of Runtime for TLC; the cfg files give the constants.    *)
EXTENDS Runtime
=============================================================================
