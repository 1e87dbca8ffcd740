--------------------------- MODULE MCWheelEncoder ---------------------------
(* Small instances of WheelEncoder for TLC; the cfg gives the constants.    *)
EXTENDS WheelEncoder
=============================================================================
