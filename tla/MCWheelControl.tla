--------------------------- MODULE MCWheelControl ---------------------------
(* Small instances of WheelControl for TLC.                                 *)
EXTENDS WheelControl

(* Reverse, stop and forward.                                               *)
MCTargets == {-2, 0, 2}

MCSpeeds == {-2, -1, 0, 1, 2}
=============================================================================
