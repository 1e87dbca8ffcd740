---------------------------- MODULE MCImuDriver -----------------------------
(* Small instances of ImuDriver for TLC.                                    *)
EXTENDS ImuDriver

(* Standing still, turning slowly and turning fast, either way.             *)
MCRates == {-3, 0, 1, 3}
=============================================================================
