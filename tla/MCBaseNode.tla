----------------------------- MODULE MCBaseNode -----------------------------
(* Small instances of BaseNode for TLC; the cfg files give the constants.   *)
EXTENDS BaseNode
=============================================================================
