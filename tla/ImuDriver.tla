----------------------------- MODULE ImuDriver ------------------------------
(***************************************************************************)
(* The MPU6050 driver on its I2C bus, and the IMU half of                  *)
(* control_loop_tick: start-up and gyro calibration, the two bursts of     *)
(* getData(), the health flag and the sample handed to the publisher.      *)
(* Sources: stm32_imu.h, stm32_i2c.cpp, imu_interface.h, control_loop.cpp. *)
(*                                                                         *)
(* Every I2C transfer may fail.  One axis of each sensor is modelled.  The *)
(* gyroscope reads OFFSET plus the rate of turn; its values are counted in *)
(* units of 1/N LSB, so that the average of N samples is exact.            *)
(***************************************************************************)
EXTENDS Integers

CONSTANTS
    N,          \* samples of the calibration, 40 in the code
    OFFSET,     \* what the gyroscope reads at rest
    Rates,      \* rates of turn, 0 among them
    Accels,     \* accelerometer readings
    DEADBAND,   \* getData() reports smaller rates as 0
    MAX_FAILS   \* bound: gyroscope reads that fail in a row

ASSUME ImuAssumption ==
    /\ N \in Nat \ {0} /\ OFFSET \in Int
    /\ Rates \subseteq Int /\ Accels \subseteq Int
    /\ DEADBAND \in Nat /\ MAX_FAILS \in Nat

VARIABLES
    pc,            \* bus, start, calib, idle (between ticks), accel, publish, off
    i2c_init_ok,   \* g_dbg_i2c_init_ok
    started,       \* transfers of startSensor that succeeded
    i, sum,        \* the loop of Mpu6050Imu::init
    gyro_, accel_, bias_,
    calibrated_,
    last_read_ok_,
    imu_msg_,      \* the message assembled by getData
    snap,          \* g_imu_snap
    imu_read_ok,   \* g_dbg_imu_read_ok
    rate, accel,   \* ghosts: what the device held at its last good reads
    fails,         \* ghost: failed gyroscope reads in a row
    blind,         \* ghost: calibration reads that failed before the first good
    gyroGood,      \* ghosts: did the bursts of the last tick
    accelGood      \*   succeed?

startVars == <<i2c_init_ok, started>>
initVars == <<i, sum, bias_, calibrated_, blind>>
sensorVars == <<gyro_, accel_, last_read_ok_, rate, accel, fails>>
outVars == <<imu_msg_, snap, imu_read_ok>>
goodVars == <<gyroGood, accelGood>>
vars == <<pc, startVars, initVars, sensorVars, outVars, goodVars>>

Sample == [angular : Int, linear : Int]

(* WHO_AM_I, PWR_MGMT_1, GYRO_CONFIG, ACCEL_CONFIG                          *)
StartTransfers == 4

TypeOK ==
    /\ pc \in {"bus", "start", "calib", "idle", "accel", "publish", "off"}
    /\ i2c_init_ok \in BOOLEAN /\ started \in 0 .. StartTransfers
    /\ pc \in {"bus", "start"} => started < StartTransfers
    /\ i \in 0 .. N /\ sum \in Int /\ bias_ \in Int
    /\ calibrated_ \in BOOLEAN /\ blind \in 0 .. N
    /\ gyro_ \in Int /\ accel_ \in Int /\ last_read_ok_ \in BOOLEAN
    /\ rate \in Int /\ accel \in Int /\ fails \in 0 .. MAX_FAILS
    /\ imu_msg_ \in Sample /\ snap \in Sample
    /\ imu_read_ok \in BOOLEAN
    /\ gyroGood \in BOOLEAN /\ accelGood \in BOOLEAN

Init ==
    /\ pc = "bus" /\ i2c_init_ok = FALSE /\ started = 0
    /\ i = 0 /\ sum = 0 /\ bias_ = 0
    /\ calibrated_ = FALSE /\ blind = 0
    /\ gyro_ = 0 /\ accel_ = 0 /\ last_read_ok_ = FALSE
    /\ rate = 0 /\ accel = 0 /\ fails = 0
    /\ imu_msg_ = [angular |-> 0, linear |-> 0] /\ snap = imu_msg_
    /\ imu_read_ok = FALSE /\ gyroGood = FALSE /\ accelGood = FALSE

-----------------------------------------------------------------------------
(* How a transfer of I2cBus may end: a peripheral HAL_I2C_Init has refused  *)
(* carries none.                                                            *)
Transfers == IF i2c_init_ok THEN BOOLEAN ELSE {FALSE}

(* A reading at the given rate of turn, in units of 1/N.                    *)
Raw(w) == N * (OFFSET + w)

(* What readGyroscope leaves in gyro_ and returns: the new reading, or the  *)
(* old gyro_ when the transfer failed, less the bias once calibrated.       *)
GyroAfter(ok, w) ==
    (IF ok THEN Raw(w) ELSE gyro_) - (IF calibrated_ THEN bias_ ELSE 0)

\* Mutant of AccelAfter: a failed burst still converts its buffer.
AccelAfterUnchecked(ok, a) == a

AccelAfter(ok, a) == IF ok THEN a ELSE accel_

(* getData() reports a rate inside the deadband as 0.                       *)
Dead(v) == IF v > -DEADBAND /\ v < DEADBAND THEN 0 ELSE v

-----------------------------------------------------------------------------
(* I2cBus::init.  Its result is kept for the debugger only: the driver is   *)
(* constructed and started either way.                                      *)
InitBus ==
    /\ pc = "bus"
    /\ i2c_init_ok' \in BOOLEAN
    /\ pc' = "start"
    /\ UNCHANGED <<started, initVars, sensorVars, outVars, goodVars>>

(* startSensor, one transfer after the other.  With one that fails, or an   *)
(* answer to WHO_AM_I that is not an MPU6050's, g_dbg_imu_ok stays 0 and    *)
(* the sensor is never tried again.                                         *)
StartSensor ==
    /\ pc = "start"
    /\ \E ok \in Transfers :
          /\ started' = IF ok THEN started + 1 ELSE started
          /\ pc' = IF ~ok THEN "off"
                   ELSE IF started' < StartTransfers THEN "start" ELSE "calib"
    /\ UNCHANGED <<i2c_init_ok, initVars, sensorVars, outVars, goodVars>>

\* Mutant of MoreSamples: one pass too many.
MoreSamplesOffByOne == i <= N

MoreSamples == i < N

\* Mutant of Average: the last sample is left out of the sum.
AverageShort == (sum - gyro_) \div N

Average == sum \div N

(* One pass of the calibration loop, the robot standing still.  A failed    *)
(* read contributes what gyro_ still holds.                                 *)
CalibrationRead ==
    /\ pc = "calib" /\ MoreSamples
    /\ \E ok \in Transfers :
          /\ gyro_' = GyroAfter(ok, 0)
          /\ last_read_ok_' = ok
          /\ blind' = IF ~ok /\ blind = i THEN blind + 1 ELSE blind
    /\ sum' = sum + gyro_' /\ i' = i + 1
    /\ UNCHANGED <<pc, startVars, bias_, calibrated_, accel_, rate, accel, fails,
                   outVars, goodVars>>

CalibrationDone ==
    /\ pc = "calib" /\ ~MoreSamples
    /\ bias_' = Average /\ calibrated_' = TRUE
    /\ pc' = "idle"
    /\ UNCHANGED <<startVars, i, sum, blind, sensorVars, outVars, goodVars>>

(* getData(), first burst.                                                  *)
ReadGyroscope ==
    /\ pc = "idle"
    /\ \E ok \in Transfers, w \in Rates :
          /\ ok \/ fails < MAX_FAILS
          /\ gyro_' = GyroAfter(ok, w)
          /\ last_read_ok_' = ok
          /\ fails' = IF ok THEN 0 ELSE fails + 1
          /\ rate' = IF ok THEN w ELSE rate
          /\ gyroGood' = ok
    /\ imu_msg_' = [imu_msg_ EXCEPT !.angular = Dead(gyro_')]
    /\ pc' = "accel"
    /\ UNCHANGED <<startVars, initVars, accel_, accel, snap, imu_read_ok, accelGood>>

(* getData(), second burst.                                                 *)
ReadAccelerometer ==
    /\ pc = "accel"
    /\ \E ok \in Transfers, a \in Accels :
          /\ accel_' = AccelAfter(ok, a)
          /\ accel' = IF ok THEN a ELSE accel
          /\ last_read_ok_' = ok
          /\ accelGood' = ok
    /\ imu_msg_' = [imu_msg_ EXCEPT !.linear = accel_']
    /\ pc' = "publish"
    /\ UNCHANGED <<startVars, initVars, gyro_, rate, fails, snap, imu_read_ok, gyroGood>>

(* The rest of the tick: the health flag and the snapshot.                  *)
PublishSample ==
    /\ pc = "publish"
    /\ imu_read_ok' = last_read_ok_
    /\ snap' = imu_msg_
    /\ pc' = "idle"
    /\ UNCHANGED <<startVars, initVars, sensorVars, imu_msg_, goodVars>>

(* A tick with g_dbg_imu_ok = 0 leaves the IMU alone.                       *)
SkipImu == pc = "off" /\ UNCHANGED vars

Next ==
    \/ InitBus \/ StartSensor \/ CalibrationRead \/ CalibrationDone
    \/ ReadGyroscope \/ ReadAccelerometer \/ PublishSample \/ SkipImu

Spec == Init /\ [][Next]_vars

-----------------------------------------------------------------------------
(* Correctness                                                              *)

(* End to end: a tick whose gyroscope burst succeeds hands out the robot's  *)
(* true rate of turn, whatever failed in the ticks before.  Reads that fail *)
(* during the calibration do no harm once one has succeeded; each one       *)
(* before it leaves 1/N of the offset in every rate from then on.           *)
GoodReadGivesTrueRate ==
    pc = "idle" /\ gyroGood => snap.angular = Dead(N * rate + OFFSET * blind)

(* readAccelerometer: "last-good on a transient I2C failure (see readOk())".  *)
(* What is handed out is the last good reading, and the health flag says    *)
(* whether it is of this tick - of the accelerometer: a failure of the      *)
(* gyroscope's burst is overwritten.                                        *)
FlagTellsOfAccel ==
    pc = "idle" => snap.linear = accel /\ imu_read_ok = accelGood

(* What the port's notes say of readGyroscope ("subtracts that bias"): the  *)
(* rate handed out is the last good reading less the bias.  A failed read   *)
(* subtracts the bias from gyro_ once more.                                 *)
GyroIsLastGoodLessBias ==
    pc = "publish" /\ blind = 0 => gyro_ = Raw(rate) - bias_
=============================================================================
