--------------------------- MODULE ImuDriverProofs ----------------------------
(***************************************************************************)
(* Theorems about ImuDriver, for every number of calibration samples,      *)
(* offset, deadband and set of rates and readings, whichever transfers     *)
(* fail.                                                                   *)
(***************************************************************************)
EXTENDS ImuDriver, TLAPS

USE DEF StartTransfers

(* The sum of the calibration is a multiple of N, so the average is exact.  *)
LEMMA DivExact == ASSUME NEW n \in Nat \ {0}, NEW x \in Int PROVE (n * x) \div n = x
  BY SMT

LEMMA OneMoreSample ==
  ASSUME NEW K \in Int, NEW a \in Int, NEW b \in Int
  PROVE  K * (a - b) + K = K * ((a + 1) - b)
  BY SMT

LEMMA DistributeBias ==
  ASSUME NEW n \in Int, NEW o \in Int, NEW w \in Int, NEW b \in Int
  PROVE  n * (o + w) - o * (n - b) = n * w + o * b
  BY SMT

LEMMA RawInt == ASSUME NEW w \in Int PROVE Raw(w) \in Int
  BY ImuAssumption DEF Raw

LEMMA GyroInt ==
  ASSUME TypeOK, NEW ok \in BOOLEAN, NEW w \in Int PROVE GyroAfter(ok, w) \in Int
  BY RawInt DEF TypeOK, GyroAfter

LEMMA DeadInt == ASSUME NEW v \in Int PROVE Dead(v) \in Int
  BY DEF Dead

LEMMA AverageInt == ASSUME sum \in Int PROVE Average \in Int
  BY ImuAssumption DEF Average

-----------------------------------------------------------------------------
LEMMA TypeInit == Init => TypeOK
  <1> SUFFICES ASSUME Init PROVE TypeOK
    OBVIOUS
  <1>1. imu_msg_ \in Sample /\ snap \in Sample
    BY DEF Init, Sample
  <1>2. 0 \in 0 .. N /\ 0 \in 0 .. MAX_FAILS /\ 0 \in Int
    BY ImuAssumption
  <1>3. /\ i2c_init_ok \in BOOLEAN /\ calibrated_ \in BOOLEAN
        /\ last_read_ok_ \in BOOLEAN /\ imu_read_ok \in BOOLEAN
        /\ gyroGood \in BOOLEAN /\ accelGood \in BOOLEAN
    BY Zenon DEF Init
  <1> QED
    BY <1>1, <1>2, <1>3 DEF Init, TypeOK

LEMMA TypeStep == TypeOK /\ [Next]_vars => TypeOK'
<1> SUFFICES ASSUME TypeOK, [Next]_vars PROVE TypeOK'
  OBVIOUS
<1> USE ImuAssumption
<1>1. CASE InitBus
  BY <1>1 DEF InitBus, TypeOK, initVars, sensorVars, outVars, goodVars
<1>2. CASE StartSensor
  <2>1. pc' \in {"off", "start", "calib"} /\ started' \in 0 .. StartTransfers
        /\ (pc' = "start" => started' < StartTransfers)
    BY <1>2 DEF StartSensor, TypeOK
  <2> QED
    BY <1>2, <2>1 DEF StartSensor, TypeOK, initVars, sensorVars, outVars, goodVars
<1>3. CASE CalibrationRead
  <2> PICK ok \in BOOLEAN :
        /\ gyro_' = GyroAfter(ok, 0)
        /\ last_read_ok_' = ok
        /\ blind' = IF ~ok /\ blind = i THEN blind + 1 ELSE blind
    BY <1>3 DEF CalibrationRead, Transfers
  <2>1. gyro_' \in Int
    BY GyroInt
  <2>2. sum' \in Int /\ i' \in 0 .. N /\ blind' \in 0 .. N
    BY <1>3, <2>1 DEF CalibrationRead, MoreSamples, TypeOK
  <2> QED
    BY <1>3, <2>1, <2>2 DEF CalibrationRead, TypeOK, startVars, outVars, goodVars
<1>4. CASE CalibrationDone
  BY <1>4, AverageInt DEF CalibrationDone, TypeOK, startVars, sensorVars, outVars,
                          goodVars
<1>5. CASE ReadGyroscope
  <2> PICK ok \in BOOLEAN, w \in Rates :
        /\ ok \/ fails < MAX_FAILS
        /\ gyro_' = GyroAfter(ok, w)
        /\ last_read_ok_' = ok
        /\ fails' = IF ok THEN 0 ELSE fails + 1
        /\ rate' = IF ok THEN w ELSE rate
        /\ gyroGood' = ok
    BY <1>5 DEF ReadGyroscope, Transfers
  <2>1. gyro_' \in Int /\ Dead(gyro_') \in Int
    BY GyroInt, DeadInt
  <2>2. imu_msg_' \in Sample
    BY <1>5, <2>1 DEF ReadGyroscope, TypeOK, Sample
  <2>3. fails' \in 0 .. MAX_FAILS /\ rate' \in Int
    BY DEF TypeOK
  <2> QED
    BY <1>5, <2>1, <2>2, <2>3 DEF ReadGyroscope, TypeOK, startVars, initVars
<1>6. CASE ReadAccelerometer
  <2> PICK ok \in BOOLEAN, a \in Accels :
        /\ accel_' = AccelAfter(ok, a)
        /\ accel' = IF ok THEN a ELSE accel
        /\ last_read_ok_' = ok
        /\ accelGood' = ok
    BY <1>6 DEF ReadAccelerometer, Transfers
  <2>1. accel_' \in Int /\ accel' \in Int
    BY DEF TypeOK, AccelAfter
  <2>2. imu_msg_' \in Sample
    BY <1>6, <2>1 DEF ReadAccelerometer, TypeOK, Sample
  <2> QED
    BY <1>6, <2>1, <2>2 DEF ReadAccelerometer, TypeOK, startVars, initVars
<1>7. CASE PublishSample
  BY <1>7 DEF PublishSample, TypeOK, startVars, initVars, sensorVars, goodVars
<1>8. CASE UNCHANGED vars
  BY <1>8 DEF TypeOK, vars, startVars, initVars, sensorVars, outVars, goodVars
<1> QED
  BY <1>1, <1>2, <1>3, <1>4, <1>5, <1>6, <1>7, <1>8 DEF Next, SkipImu

(* Type correctness of the driver.                                          *)
THEOREM TypeCorrect == Spec => []TypeOK
  BY TypeInit, TypeStep, PTL DEF Spec

-----------------------------------------------------------------------------
(* What a gyroscope that has been read since the blind reads holds in the   *)
(* calibration, what the bias is after it, and what the message and the     *)
(* snapshot say of a good burst.                                            *)

CalibInv ==
    pc \in {"bus", "start", "calib"} =>
      /\ ~calibrated_ /\ blind <= i
      /\ sum = Raw(0) * (i - blind)
      /\ gyro_ = IF blind = i THEN 0 ELSE Raw(0)

BeforeInv == pc \in {"bus", "start"} => i = 0

BiasInv ==
    pc \in {"idle", "accel", "publish"} =>
      calibrated_ /\ bias_ = OFFSET * (N - blind)

TrueRate == Dead(N * rate + OFFSET * blind)

RateInv ==
    /\ pc \in {"accel", "publish"} /\ gyroGood => imu_msg_.angular = TrueRate
    /\ pc = "idle" /\ gyroGood => snap.angular = TrueRate

QuietInv == pc \in {"bus", "start", "calib"} => ~gyroGood /\ ~accelGood

GyroInv == CalibInv /\ BeforeInv /\ BiasInv /\ RateInv /\ QuietInv

LEMMA RawZero == Raw(0) = N * OFFSET
  BY ImuAssumption DEF Raw

LEMMA GyroInit == Init => GyroInv
  <1> SUFFICES ASSUME Init PROVE GyroInv
    OBVIOUS
  <1>1. Raw(0) * (i - blind) = 0
    BY RawInt DEF Init
  <1> QED
    BY <1>1 DEF Init, GyroInv, CalibInv, BeforeInv, BiasInv, RateInv, QuietInv

(* The bias in the rate of a good burst cancels all of the offset but the   *)
(* share of the blind reads.                                                *)
LEMMA BiasCancels ==
  ASSUME TypeOK, BiasInv, pc = "idle", NEW w \in Int
  PROVE  GyroAfter(TRUE, w) = N * w + OFFSET * blind
  <1>1. bias_ = OFFSET * (N - blind) /\ calibrated_
    BY DEF BiasInv
  <1>2. GyroAfter(TRUE, w) = N * (OFFSET + w) - OFFSET * (N - blind)
    BY <1>1 DEF GyroAfter, Raw
  <1>3. N \in Int /\ OFFSET \in Int /\ blind \in Int
    BY ImuAssumption DEF TypeOK
  <1>4. N * (OFFSET + w) - OFFSET * (N - blind) = N * w + OFFSET * blind
    BY <1>3, DistributeBias
  <1> QED
    BY <1>2, <1>4

LEMMA CalibrationSums ==
  ASSUME TypeOK, GyroInv, CalibrationRead PROVE CalibInv'
<1> PICK ok \in BOOLEAN :
        /\ gyro_' = GyroAfter(ok, 0)
        /\ blind' = IF ~ok /\ blind = i THEN blind + 1 ELSE blind
  BY DEF CalibrationRead, Transfers
<1> DEFINE K == Raw(0)
<1>1. /\ ~calibrated_ /\ blind <= i /\ pc = "calib"
      /\ sum = K * (i - blind)
      /\ gyro_ = IF blind = i THEN 0 ELSE K
  BY DEF GyroInv, CalibInv, CalibrationRead
<1>2. /\ i' = i + 1 /\ sum' = sum + gyro_' /\ pc' = "calib"
      /\ calibrated_' = calibrated_
  BY <1>1 DEF CalibrationRead
<1>3. gyro_' = IF ok THEN K ELSE gyro_
  <2>1. K \in Int /\ gyro_ \in Int
    BY RawInt DEF TypeOK
  <2> HIDE DEF K
  <2>2. K - 0 = K /\ gyro_ - 0 = gyro_
    BY <2>1
  <2> QED
    BY <1>1, <2>2 DEF GyroAfter, K
<1>4. i \in Int /\ blind \in Int /\ K \in Int
  BY RawInt, ImuAssumption DEF TypeOK
<1>5. Raw(0)' = K
  BY DEF Raw
<1> HIDE DEF K
<1>6. CASE ~ok /\ blind = i
  <2>1. sum' = 0 /\ gyro_' = 0 /\ blind' = i'
    BY <1>1, <1>2, <1>3, <1>4, <1>6
  <2>2. K * (i' - blind') = 0
    BY <2>1, <1>2, <1>4
  <2> QED
    BY <2>1, <2>2, <1>1, <1>2, <1>5 DEF CalibInv
<1>7. CASE ok \/ blind # i
  <2>1. gyro_' = K /\ blind' = blind
    BY <1>1, <1>3, <1>7
  <2>2. sum' = K * (i' - blind')
    BY <2>1, <1>1, <1>2, <1>4, OneMoreSample
  <2>3. blind' <= i' /\ blind' # i'
    BY <2>1, <1>1, <1>2, <1>4
  <2> QED
    BY <2>1, <2>2, <2>3, <1>1, <1>2, <1>5 DEF CalibInv
<1> QED
  BY <1>6, <1>7

LEMMA AverageIsBias ==
  ASSUME TypeOK, GyroInv, CalibrationDone PROVE BiasInv'
<1>1. i = N /\ pc = "calib"
  BY ImuAssumption DEF CalibrationDone, MoreSamples, TypeOK
<1>2. sum = (N * OFFSET) * (N - blind)
  BY <1>1, RawZero DEF GyroInv, CalibInv
<1>3. N \in Nat \ {0} /\ OFFSET \in Int /\ blind \in Int
  BY ImuAssumption DEF TypeOK
<1>4. sum = N * (OFFSET * (N - blind)) /\ OFFSET * (N - blind) \in Int
  BY <1>2, <1>3, SMT
<1>5. Average = OFFSET * (N - blind)
  BY <1>3, <1>4, DivExact DEF Average
<1> QED
  BY <1>5 DEF CalibrationDone, BiasInv

LEMMA GyroStep == TypeOK /\ GyroInv /\ [Next]_vars => GyroInv'
<1> SUFFICES ASSUME TypeOK, GyroInv, [Next]_vars PROVE GyroInv'
  OBVIOUS
<1> USE DEF GyroInv
<1>1. CASE InitBus
  BY <1>1 DEF InitBus, CalibInv, BeforeInv, BiasInv, RateInv, QuietInv, Raw, initVars,
              sensorVars, outVars, goodVars
<1>2. CASE StartSensor
  <2> pc = "start" /\ pc' \in {"off", "start", "calib"}
    BY <1>2 DEF StartSensor
  <2> QED
    BY <1>2 DEF StartSensor, CalibInv, BeforeInv, BiasInv, RateInv, QuietInv, Raw,
              initVars, sensorVars, outVars, goodVars
<1>3. CASE CalibrationRead
  <2>1. CalibInv'
    BY <1>3, CalibrationSums
  <2>2. pc = "calib" /\ pc' = "calib" /\ UNCHANGED goodVars
    BY <1>3 DEF CalibrationRead
  <2> QED
    BY <2>1, <2>2 DEF BeforeInv, BiasInv, RateInv, QuietInv, goodVars
<1>4. CASE CalibrationDone
  <2>1. BiasInv'
    BY <1>4, AverageIsBias
  <2>2. pc = "calib" /\ pc' = "idle" /\ UNCHANGED goodVars
    BY <1>4 DEF CalibrationDone
  <2> QED
    BY <2>1, <2>2 DEF CalibInv, BeforeInv, RateInv, QuietInv, goodVars
<1>5. CASE ReadGyroscope
  <2> PICK ok \in BOOLEAN, w \in Rates :
        /\ gyro_' = GyroAfter(ok, w)
        /\ rate' = IF ok THEN w ELSE rate
        /\ gyroGood' = ok
    BY <1>5 DEF ReadGyroscope, Transfers
  <2>1. pc = "idle" /\ pc' = "accel" /\ UNCHANGED initVars
    BY <1>5 DEF ReadGyroscope
  <2>2. w \in Int
    BY ImuAssumption
  <2>3. gyroGood' => gyro_' = N * rate' + OFFSET * blind'
    BY <2>1, <2>2, BiasCancels DEF initVars
  <2>4. imu_msg_'.angular = Dead(gyro_')
    BY <1>5 DEF ReadGyroscope, TypeOK, Sample
  <2>5. RateInv'
    BY <2>1, <2>3, <2>4 DEF RateInv, TrueRate, Dead
  <2> QED
    BY <2>1, <2>5 DEF CalibInv, BeforeInv, BiasInv, QuietInv, initVars
<1>6. CASE ReadAccelerometer
  <2>1. /\ pc = "accel" /\ pc' = "publish" /\ UNCHANGED <<initVars, rate, gyroGood>>
        /\ imu_msg_'.angular = imu_msg_.angular
    BY <1>6 DEF ReadAccelerometer, TypeOK, Sample
  <2> QED
    BY <2>1 DEF CalibInv, BeforeInv, BiasInv, RateInv, QuietInv, TrueRate, Dead, initVars
<1>7. CASE PublishSample
  BY <1>7 DEF PublishSample, CalibInv, BeforeInv, BiasInv, RateInv, QuietInv, TrueRate,
              Dead, initVars, sensorVars, goodVars
<1>8. CASE UNCHANGED vars
  BY <1>8 DEF CalibInv, BeforeInv, BiasInv, RateInv, QuietInv, TrueRate, Dead, Raw, vars,
              startVars, initVars, sensorVars, outVars, goodVars
<1> QED
  BY <1>1, <1>2, <1>3, <1>4, <1>5, <1>6, <1>7, <1>8 DEF Next, SkipImu

(* However many samples the calibration takes and whichever transfers have  *)
(* failed, a tick whose gyroscope burst succeeds publishes the true rate,   *)
(* off by exactly the share of the calibration reads that failed before     *)
(* the first good one.                                                      *)
THEOREM RateCorrect == Spec => []GoodReadGivesTrueRate
<1>1. GyroInv => GoodReadGivesTrueRate
  BY DEF GyroInv, RateInv, TrueRate, GoodReadGivesTrueRate
<1> QED
  BY <1>1, TypeInit, TypeStep, GyroInit, GyroStep, PTL DEF Spec

-----------------------------------------------------------------------------
(* The accelerometer's last good reading on its way to the snapshot, and    *)
(* the flag behind it.                                                      *)
AccelInv ==
    /\ accel_ = accel
    /\ pc # "publish" => snap.linear = accel \/ pc = "accel"
    /\ pc = "publish" => imu_msg_.linear = accel /\ last_read_ok_ = accelGood
    /\ pc # "publish" => imu_read_ok = accelGood

LEMMA AccelInit == Init => AccelInv
  <1> SUFFICES ASSUME Init PROVE AccelInv
    OBVIOUS
  <1>1. imu_read_ok = accelGood
    BY Zenon DEF Init
  <1>2. accel_ = accel /\ snap.linear = accel /\ pc = "bus"
    BY DEF Init
  <1> QED
    BY <1>1, <1>2 DEF AccelInv

LEMMA AccelStep == TypeOK /\ AccelInv /\ [Next]_vars => AccelInv'
<1> SUFFICES ASSUME TypeOK, AccelInv, [Next]_vars PROVE AccelInv'
  OBVIOUS
<1>1. CASE InitBus
  BY <1>1 DEF InitBus, AccelInv, sensorVars, outVars, goodVars
<1>2. CASE StartSensor
  <2> pc = "start" /\ pc' \in {"off", "start", "calib"}
    BY <1>2 DEF StartSensor
  <2> QED
    BY <1>2 DEF StartSensor, AccelInv, sensorVars, outVars, goodVars
<1>3. CASE CalibrationRead
  BY <1>3 DEF CalibrationRead, AccelInv, outVars, goodVars
<1>4. CASE CalibrationDone
  BY <1>4 DEF CalibrationDone, AccelInv, sensorVars, outVars, goodVars
<1>5. CASE ReadGyroscope
  BY <1>5 DEF ReadGyroscope, AccelInv
<1>6. CASE ReadAccelerometer
  <2>1. accel_' = accel' /\ last_read_ok_' = accelGood' /\ pc = "accel" /\ pc' = "publish"
    BY <1>6 DEF ReadAccelerometer, AccelInv, AccelAfter
  <2>2. imu_msg_'.linear = accel_'
    BY <1>6 DEF ReadAccelerometer, TypeOK, Sample
  <2> QED
    BY <2>1, <2>2 DEF AccelInv
<1>7. CASE PublishSample
  BY <1>7 DEF PublishSample, AccelInv, sensorVars, goodVars
<1>8. CASE UNCHANGED vars
  BY <1>8 DEF AccelInv, vars, sensorVars, outVars, goodVars
<1> QED
  BY <1>1, <1>2, <1>3, <1>4, <1>5, <1>6, <1>7, <1>8 DEF Next, SkipImu

(* The snapshot has the accelerometer's last good reading, and the flag     *)
(* says truly whether it is of the last tick.                               *)
THEOREM FlagCorrect == Spec => []FlagTellsOfAccel
<1>1. AccelInv => FlagTellsOfAccel
  BY DEF AccelInv, FlagTellsOfAccel
<1> QED
  BY <1>1, TypeInit, TypeStep, AccelInit, AccelStep, PTL DEF Spec
=============================================================================
