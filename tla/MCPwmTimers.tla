---------------------------- MODULE MCPwmTimers -----------------------------
(* Small instances of PwmTimers for TLC; the cfg files give the constants.  *)
EXTENDS PwmTimers
=============================================================================
