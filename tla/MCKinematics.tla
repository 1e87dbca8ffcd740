---------------------------- MODULE MCKinematics ----------------------------
(* Small instances of Kinematics for TLC.                                   *)
EXTENDS Kinematics

(* Commands from rest to more than three times what the motors can do.      *)
MCRpms == -5 .. 5

MCBases == {"DIFFERENTIAL_DRIVE", "SKID_STEER", "MECANUM"}
=============================================================================
