---------------------------- MODULE WheelControl ----------------------------
(***************************************************************************)
(* One wheel of ControlCore::step: the PID, the sign dispatch of           *)
(* MotorInterface::spin and the stores of the Generic2 driver into the two *)
(* direction pins and the compare register of the timer (control_core.h,   *)
(* pid.cpp, motor_interface.h, stm32_motor.cpp, pwm_timing.h).             *)
(*                                                                         *)
(* The wheels of a step share no state, so one stands for all.  The gains  *)
(* and the output of the PID are counted in units of 1/SCALE, so that the  *)
(* arithmetic is exact; the measured speed is an input, because the wheel, *)
(* its load and the floor are outside the firmware.                        *)
(***************************************************************************)
EXTENDS Integers

CONSTANTS
    SCALE, KP, KI, KD,  \* K_P = 0.6, K_I = 0.8, K_D = 0.5
    PWM_MAX,            \* the output limit, and arr_: 2^PWM_BITS - 1
    Targets, Speeds,    \* requested and measured wheel speeds
    MAX_INTEGRAL        \* bound: how far the integral winds up

ASSUME WheelAssumption ==
    /\ SCALE \in Nat \ {0} /\ KP \in Nat /\ KI \in Nat /\ KD \in Nat
    /\ PWM_MAX \in Nat \ {0}
    /\ Targets \subseteq Int /\ Speeds \subseteq Int
    /\ 0 \in Targets /\ 0 \in Speeds
    /\ MAX_INTEGRAL \in Nat

VARIABLES
    used_, invert_,          \* of the board: has the wheel a motor, mounted how
    pc,                      \* idle (between ticks), or the store made next
    integral_, prev_error_,  \* the PID
    pwm,                     \* the argument of forward or reverse
    a, b, ccr,               \* direction pins and compare register
    target, speed,           \* inputs of the last step
    output                   \* ghost: the argument of spin in the last step

pidVars == <<integral_, prev_error_, target, speed, output>>
board == <<used_, invert_>>
vars == <<board, pc, pidVars, pwm, a, b, ccr>>

Outputs == -PWM_MAX .. PWM_MAX

TypeOK ==
    /\ used_ \in BOOLEAN /\ invert_ \in BOOLEAN
    /\ pc \in {"idle", "a", "b", "duty", "brake"}
    /\ integral_ \in -MAX_INTEGRAL .. MAX_INTEGRAL /\ prev_error_ \in Int
    /\ pwm \in Outputs /\ output \in Outputs
    /\ a \in BOOLEAN /\ b \in BOOLEAN /\ ccr \in 0 .. PWM_MAX
    /\ target \in Targets /\ speed \in Speeds

Init ==
    /\ used_ \in BOOLEAN /\ invert_ \in BOOLEAN
    /\ pc = "idle" /\ integral_ = 0 /\ prev_error_ = 0
    /\ pwm = 0 /\ a = FALSE /\ b = FALSE /\ ccr = 0
    /\ target = 0 /\ speed = 0 /\ output = 0

-----------------------------------------------------------------------------
(* PID::compute                                                             *)

Constrain(v, low, high) == IF v < low THEN low ELSE IF v > high THEN high ELSE v

(* The conversion of a double to int drops the fraction, towards zero.      *)
Truncate(v) == IF v < 0 THEN -((-v) \div SCALE) ELSE v \div SCALE

(* integral_ and derivative_ are reset when both arguments are zero.        *)
AtRest(e, t) == t = 0 /\ e = 0

\* Mutant of Integral: nothing is integrated at zero setpoint.
IntegralFrozen(e, t) ==
    IF AtRest(e, t) THEN 0 ELSE integral_ + (IF t = 0 THEN 0 ELSE e)

Integral(e, t) == IF AtRest(e, t) THEN 0 ELSE integral_ + e

\* Mutant of Derivative: only the integral is reset.
DerivativeKept(e, t) == e - prev_error_

Derivative(e, t) == IF AtRest(e, t) THEN 0 ELSE e - prev_error_

\* Mutant of Compute: the output is not limited.
ComputeUnlimited(e, t) ==
    Truncate(KP * e + KI * Integral(e, t) + KD * Derivative(e, t))

Compute(e, t) ==
    Truncate(Constrain(KP * e + KI * Integral(e, t) + KD * Derivative(e, t),
                       -SCALE * PWM_MAX, SCALE * PWM_MAX))

-----------------------------------------------------------------------------
(* MotorInterface::spin                                                     *)

Dispatch(p) ==
    IF ~used_ THEN "idle" ELSE IF p = 0 THEN "brake" ELSE "a"

(* The PID of the wheel, and the call of spin with its output.              *)
StepWheel ==
    /\ pc = "idle"
    /\ \E t \in Targets, s \in Speeds :
          LET e == t - s IN
          /\ Integral(e, t) \in -MAX_INTEGRAL .. MAX_INTEGRAL
          /\ integral_' = Integral(e, t) /\ prev_error_' = e
          /\ output' = Compute(e, t)
          /\ target' = t /\ speed' = s
    /\ pwm' = IF invert_ THEN -output' ELSE output'
    /\ pc' = Dispatch(pwm')
    /\ UNCHANGED <<board, a, b, ccr>>

-----------------------------------------------------------------------------
(* Generic2                                                                 *)

\* Mutant of Duty: reverse forgets abs, and pwm_clamp makes it 0.
DutySigned(p) == Constrain(p, 0, PWM_MAX)

(* pwm_clamp(pwm, arr_), pwm_clamp(abs(pwm), arr_)                          *)
Duty(p) == Constrain(IF p < 0 THEN -p ELSE p, 0, PWM_MAX)

(* forward and reverse: pin A, pin B, then the duty.                        *)
WriteA ==
    /\ pc = "a" /\ a' = (pwm > 0) /\ pc' = "b"
    /\ UNCHANGED <<board, pidVars, pwm, b, ccr>>

WriteB ==
    /\ pc = "b" /\ b' = (pwm < 0) /\ pc' = "duty"
    /\ UNCHANGED <<board, pidVars, pwm, a, ccr>>

WriteDuty ==
    /\ pc = "duty" /\ ccr' = Duty(pwm) /\ pc' = "idle"
    /\ UNCHANGED <<board, pidVars, pwm, a, b>>

(* brake: the duty alone; the pins keep the last direction.                 *)
Brake ==
    /\ pc = "brake" /\ ccr' = 0 /\ pc' = "idle"
    /\ UNCHANGED <<board, pidVars, pwm, a, b>>

Next == StepWheel \/ WriteA \/ WriteB \/ WriteDuty \/ Brake

Spec == Init /\ [][Next]_vars

(* control_task runs for ever: FreeRTOS wakes it every period.              *)
FairSpec == Spec /\ WF_vars(Next)

-----------------------------------------------------------------------------
(* Correctness                                                              *)

(* What the bridge does to the wheel: equal pins let it run free.           *)
Torque == IF a = b THEN 0 ELSE IF a THEN ccr ELSE -ccr

(* Between ticks pins and duty together say what the PID asked for, through *)
(* every reversal and every brake, which rewrites only one of the three.    *)
OutputIsApplied ==
    pc = "idle" =>
       Torque = IF ~used_ THEN 0 ELSE IF invert_ THEN -output ELSE output

(* "zero command + zero motion -> brake (deadman-safe)": whatever happened  *)
(* before, a wheel that stands still and shall stand still is not driven.   *)
StandingStillIsFree ==
    pc = "idle" /\ target = 0 /\ speed = 0 => ccr = 0

(* The wheel, asked to stop, is driven in the direction in which it turns.  *)
Pushing ==
    /\ target = 0
    /\ LET t == IF invert_ THEN -Torque ELSE Torque
       IN  (speed > 0 /\ t > 0) \/ (speed < 0 /\ t < 0)

(* The deadman only makes the target 0.  Until the integral has unwound,    *)
(* the output still drives the wheel on; this ends: while the target stays  *)
(* 0, the wheel is not pushed on for ever.                                  *)
WindupIsReleased == <>[](target = 0) => []<>~Pushing
=============================================================================
