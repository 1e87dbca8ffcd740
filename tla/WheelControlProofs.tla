-------------------------- MODULE WheelControlProofs --------------------------
(***************************************************************************)
(* Theorems about WheelControl, for all gains, output limits, targets and  *)
(* measured speeds.                                                        *)
(***************************************************************************)
EXTENDS WheelControl, TLAPS

LEMMA DivBelow ==
  ASSUME NEW s \in Nat \ {0}, NEW p \in Nat, NEW v \in Int, 0 <= v, v <= s * p
  PROVE  v \div s \in 0 .. p
  BY SMT

LEMMA TimesZero == ASSUME NEW k \in Int PROVE k * 0 = 0
  BY SMT

LEMMA MinusZero == \A v \in Int : -v = 0 <=> v = 0
  BY SMT

LEMMA TimesInt == ASSUME NEW k \in Int, NEW v \in Int PROVE k * v \in Int
  BY SMT

(* The output of the PID is in range, whatever has been integrated.         *)
LEMMA TruncateRange ==
  ASSUME NEW v \in Int, -(SCALE * PWM_MAX) <= v, v <= SCALE * PWM_MAX
  PROVE  Truncate(v) \in Outputs
<1>1. SCALE \in Nat \ {0} /\ PWM_MAX \in Nat
  BY WheelAssumption
<1>2. CASE v < 0
  <2>1. (-v) \div SCALE \in 0 .. PWM_MAX
    BY <1>1, <1>2, DivBelow
  <2>2. Truncate(v) = -((-v) \div SCALE)
    BY <1>2 DEF Truncate
  <2> QED
    BY <1>1, <2>1, <2>2 DEF Outputs
<1>3. CASE v >= 0
  <2>1. v \div SCALE \in 0 .. PWM_MAX
    BY <1>1, <1>3, DivBelow
  <2>2. Truncate(v) = v \div SCALE
    BY <1>3 DEF Truncate
  <2> QED
    BY <1>1, <2>1, <2>2 DEF Outputs
<1> QED
  BY <1>2, <1>3

LEMMA ConstrainRange ==
  ASSUME NEW v \in Int, NEW m \in Nat
  PROVE  /\ Constrain(v, -m, m) \in Int
         /\ -m <= Constrain(v, -m, m) /\ Constrain(v, -m, m) <= m
  BY DEF Constrain

LEMMA ComputeRange ==
  ASSUME TypeOK, NEW e \in Int, NEW t \in Int PROVE Compute(e, t) \in Outputs
<1> DEFINE v == KP * e + KI * Integral(e, t) + KD * Derivative(e, t)
<1>1. Integral(e, t) \in Int /\ Derivative(e, t) \in Int
  BY WheelAssumption DEF TypeOK, Integral, Derivative
<1>2. KP * e \in Int /\ KI * Integral(e, t) \in Int /\ KD * Derivative(e, t) \in Int
  BY <1>1, TimesInt, WheelAssumption
<1>3. v \in Int
  BY <1>2
<1>4. SCALE * PWM_MAX \in Nat /\ -SCALE * PWM_MAX = -(SCALE * PWM_MAX)
  BY WheelAssumption, SMT
<1>5. Compute(e, t) = Truncate(Constrain(v, -(SCALE * PWM_MAX), SCALE * PWM_MAX))
  BY <1>4 DEF Compute
<1> HIDE DEF v
<1> QED
  BY <1>3, <1>4, <1>5, ConstrainRange, TruncateRange

(* At rest the PID asks for nothing, whatever it has integrated before.     *)
LEMMA ComputeAtRest == Compute(0, 0) = 0
<1>1. Integral(0, 0) = 0 /\ Derivative(0, 0) = 0
  BY DEF Integral, Derivative, AtRest
<1>2. KP * 0 = 0 /\ KI * 0 = 0 /\ KD * 0 = 0
  BY TimesZero, WheelAssumption
<1>3. KP * 0 + KI * Integral(0, 0) + KD * Derivative(0, 0) = 0
  BY <1>1, <1>2
<1>4. SCALE * PWM_MAX \in Nat /\ -SCALE * PWM_MAX = -(SCALE * PWM_MAX)
  BY WheelAssumption, SMT
<1>5. Constrain(0, -(SCALE * PWM_MAX), SCALE * PWM_MAX) = 0
  BY <1>4 DEF Constrain
<1>6. 0 \div SCALE = 0
  BY WheelAssumption, SMT
<1> QED
  BY <1>3, <1>4, <1>5, <1>6 DEF Compute, Truncate

LEMMA DutyIsSize ==
  ASSUME NEW p \in Outputs
  PROVE  Duty(p) \in 0 .. PWM_MAX /\ Duty(p) = IF p < 0 THEN -p ELSE p
  BY WheelAssumption DEF Outputs, Duty, Constrain

-----------------------------------------------------------------------------
LEMMA TypeInit == Init => TypeOK
  <1> SUFFICES ASSUME Init PROVE TypeOK
    OBVIOUS
  <1>1. used_ \in BOOLEAN /\ invert_ \in BOOLEAN /\ a \in BOOLEAN /\ b \in BOOLEAN
    BY Zenon DEF Init
  <1> QED
    BY <1>1, WheelAssumption DEF Init, TypeOK, Outputs

LEMMA StepType ==
  ASSUME TypeOK, StepWheel PROVE TypeOK'
<1> PICK t \in Targets, s \in Speeds :
      /\ Integral(t - s, t) \in -MAX_INTEGRAL .. MAX_INTEGRAL
      /\ integral_' = Integral(t - s, t) /\ prev_error_' = t - s
      /\ output' = Compute(t - s, t)
      /\ target' = t /\ speed' = s
  BY DEF StepWheel
<1>1. t \in Int /\ t - s \in Int
  BY WheelAssumption
<1>2. output' \in Outputs
  BY <1>1, ComputeRange
<1>3. pwm' \in Outputs
  BY <1>2, WheelAssumption DEF StepWheel, Outputs
<1>4. pc' \in {"idle", "a", "b", "duty", "brake"}
  BY DEF StepWheel, Dispatch
<1> QED
  BY <1>1, <1>2, <1>3, <1>4 DEF StepWheel, TypeOK, board

LEMMA TypeStep == TypeOK /\ [Next]_vars => TypeOK'
<1> SUFFICES ASSUME TypeOK, [Next]_vars PROVE TypeOK'
  OBVIOUS
<1>1. CASE StepWheel
  BY <1>1, StepType
<1>2. CASE WriteA
  <2>1. a' \in BOOLEAN
    BY <1>2 DEF WriteA
  <2> QED
    BY <1>2, <2>1 DEF WriteA, TypeOK, board, pidVars
<1>3. CASE WriteB
  <2>1. b' \in BOOLEAN
    BY <1>3 DEF WriteB
  <2> QED
    BY <1>3, <2>1 DEF WriteB, TypeOK, board, pidVars
<1>4. CASE WriteDuty
  <2>1. ccr' \in 0 .. PWM_MAX
    BY <1>4, DutyIsSize DEF WriteDuty, TypeOK
  <2> QED
    BY <1>4, <2>1 DEF WriteDuty, TypeOK, board, pidVars
<1>5. CASE Brake
  <2>1. ccr' \in 0 .. PWM_MAX
    BY <1>5, WheelAssumption DEF Brake
  <2> QED
    BY <1>5, <2>1 DEF Brake, TypeOK, board, pidVars
<1>6. CASE UNCHANGED vars
  BY <1>6 DEF vars, TypeOK, board, pidVars
<1> QED
  BY <1>1, <1>2, <1>3, <1>4, <1>5, <1>6 DEF Next

(* The output of the PID stays within the limits of the register.           *)
THEOREM TypeCorrect == Spec => []TypeOK
  BY TypeInit, TypeStep, PTL DEF Spec

-----------------------------------------------------------------------------
(* What the three stores of a call have already done.  A brake writes the   *)
(* duty only, which is enough because the pins of a wheel in force are      *)
(* never equal.                                                             *)
Wanted == IF invert_ THEN -output ELSE output

PinA == IF pwm > 0 THEN a ELSE ~a

PinB == IF pwm < 0 THEN b ELSE ~b

OutputInv ==
    /\ pwm = Wanted
    /\ ~used_ => pc = "idle" /\ ~a /\ ~b /\ ccr = 0
    /\ used_ /\ pc = "idle" => Torque = pwm /\ (pwm = 0 => ccr = 0)
    /\ pc \in {"a", "b", "duty"} => pwm # 0
    /\ pc \in {"b", "duty"} => PinA
    /\ pc = "duty" => PinB
    /\ pc = "brake" => pwm = 0
    /\ target = 0 /\ speed = 0 => pwm = 0

LEMMA OutputInit == Init => OutputInv
  <1> SUFFICES ASSUME Init PROVE OutputInv
    OBVIOUS
  <1>1. ~a /\ ~b
    BY Zenon DEF Init
  <1>2. pc = "idle" /\ pwm = 0 /\ output = 0 /\ ccr = 0
    BY DEF Init
  <1>3. Torque = 0
    <2>1. a = b
      BY Zenon DEF Init
    <2> QED
      BY <2>1 DEF Torque
  <1>4. Wanted = 0
    <2>1. output \in Int
      BY <1>2
    <2>2. -output = 0 <=> output = 0
      BY <2>1, MinusZero
    <2>3. Wanted = output \/ Wanted = -output
      BY DEF Wanted
    <2> QED
      BY <1>2, <2>2, <2>3, Zenon
  <1> QED
    BY <1>1, <1>2, <1>3, <1>4 DEF OutputInv

LEMMA OutputOfStep ==
  ASSUME TypeOK, OutputInv, StepWheel PROVE OutputInv'
<1> PICK t \in Targets, s \in Speeds :
      output' = Compute(t - s, t) /\ target' = t /\ speed' = s
  BY DEF StepWheel
<1>1. output' \in Outputs
  <2>1. t \in Int /\ t - s \in Int
    BY WheelAssumption
  <2> QED
    BY <2>1, ComputeRange
<1>2. pwm' = Wanted' /\ output' \in Int
  BY <1>1, WheelAssumption DEF StepWheel, Wanted, board, Outputs
<1>3. target' = 0 /\ speed' = 0 => pwm' = 0
  BY <1>2, ComputeAtRest DEF Wanted
<1>4. UNCHANGED <<used_, a, b, ccr>> /\ pc' = Dispatch(pwm')
  BY DEF StepWheel, board
<1>5. CASE ~used_
  BY <1>2, <1>3, <1>4, <1>5 DEF OutputInv, Dispatch
<1>6. CASE used_
  <2>1. pc' = IF pwm' = 0 THEN "brake" ELSE "a"
    BY <1>4, <1>6 DEF Dispatch
  <2> QED
    BY <1>2, <1>3, <1>4, <1>6, <2>1 DEF OutputInv
<1> QED
  BY <1>5, <1>6

LEMMA OutputStep == TypeOK /\ OutputInv /\ [Next]_vars => OutputInv'
<1> SUFFICES ASSUME TypeOK, OutputInv, [Next]_vars PROVE OutputInv'
  OBVIOUS
<1>1. CASE StepWheel
  BY <1>1, OutputOfStep
<1>2. CASE WriteA
  <2>1. UNCHANGED <<used_, invert_, pwm, output, target, speed>> /\ Wanted' = Wanted
    BY <1>2 DEF WriteA, board, pidVars, Wanted
  <2>2. pc = "a" /\ pc' = "b" /\ used_ /\ PinA'
    BY <1>2, <2>1 DEF WriteA, OutputInv, PinA
  <2> QED
    BY <2>1, <2>2 DEF OutputInv
<1>3. CASE WriteB
  <2>1. UNCHANGED <<used_, invert_, pwm, output, target, speed, a>> /\ Wanted' = Wanted
    BY <1>3 DEF WriteB, board, pidVars, Wanted
  <2>2. pc = "b" /\ pc' = "duty" /\ used_ /\ pwm # 0 /\ PinA
    BY <1>3 DEF WriteB, OutputInv
  <2>3. PinA'
    BY <2>1, <2>2 DEF PinA
  <2>4. PinB'
    <3>1. b' = (pwm < 0)
      BY <1>3 DEF WriteB
    <3> QED
      BY <2>1, <3>1 DEF PinB
  <2> QED
    BY <2>1, <2>2, <2>3, <2>4 DEF OutputInv
<1>4. CASE WriteDuty
  <2>1. UNCHANGED <<used_, invert_, pwm, output, target, speed, a, b>> /\ Wanted' = Wanted
    BY <1>4 DEF WriteDuty, board, pidVars, Wanted
  <2>2. pc = "duty" /\ pc' = "idle" /\ used_ /\ PinA /\ PinB /\ pwm # 0 /\ pwm \in Int
    BY <1>4, WheelAssumption DEF WriteDuty, OutputInv, TypeOK, Outputs
  <2>3. ccr' = IF pwm < 0 THEN -pwm ELSE pwm
    BY <1>4, DutyIsSize DEF WriteDuty, TypeOK
  <2>4. Torque' = pwm
    <3>1. CASE pwm > 0
      <4>1. a' /\ ~b'
        BY <2>1, <2>2, <3>1 DEF PinA, PinB
      <4>2. a' # b'
        BY <4>1
      <4> QED
        BY <2>2, <2>3, <3>1, <4>1, <4>2 DEF Torque
    <3>2. CASE pwm < 0
      <4>1. ~a' /\ b'
        BY <2>1, <2>2, <3>2 DEF PinA, PinB
      <4>2. a' # b'
        BY <4>1
      <4> QED
        BY <2>2, <2>3, <3>2, <4>1, <4>2 DEF Torque
    <3> QED
      BY <2>2, <3>1, <3>2
  <2> QED
    BY <2>1, <2>2, <2>4 DEF OutputInv
<1>5. CASE Brake
  <2>1. UNCHANGED <<used_, invert_, pwm, output, target, speed, a, b>> /\ Wanted' = Wanted
    BY <1>5 DEF Brake, board, pidVars, Wanted
  <2>2. pc = "brake" /\ pc' = "idle" /\ used_ /\ pwm = 0 /\ ccr' = 0
    BY <1>5 DEF Brake, OutputInv
  <2>3. Torque' = 0
    <3>1. ccr' \in Int
      BY <2>2
    <3>2. -ccr' = 0
      BY <2>2, <3>1, MinusZero
    <3> QED
      BY <2>2, <3>2 DEF Torque
  <2> QED
    BY <2>1, <2>2, <2>3 DEF OutputInv
<1>6. CASE UNCHANGED vars
  BY <1>6 DEF vars, OutputInv, board, pidVars, Wanted, Torque, PinA, PinB
<1> QED
  BY <1>1, <1>2, <1>3, <1>4, <1>5, <1>6 DEF Next

(* Between two ticks the bridge does what the PID asked for, for every      *)
(* sequence of outputs.                                                     *)
THEOREM OutputCorrect == Spec => []OutputIsApplied
<1>1. OutputInv => OutputIsApplied
  BY DEF OutputInv, OutputIsApplied, Wanted, Torque
<1> QED
  BY <1>1, TypeInit, TypeStep, OutputInit, OutputStep, PTL DEF Spec

(* A wheel at rest that shall be at rest is not driven, whatever the PID    *)
(* went through.                                                            *)
THEOREM StandstillCorrect == Spec => []StandingStillIsFree
<1>1. OutputInv => StandingStillIsFree
  BY DEF OutputInv, StandingStillIsFree
<1> QED
  BY <1>1, TypeInit, TypeStep, OutputInit, OutputStep, PTL DEF Spec
=============================================================================
