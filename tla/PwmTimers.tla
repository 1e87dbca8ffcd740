----------------------------- MODULE PwmTimers ------------------------------
(***************************************************************************)
(* Start-up of the motors: control_loop_init calls Generic2::init once per *)
(* motor, and motors may be channels of one timer.  pwm_base_claim decides *)
(* which of them initialises the timer's time base (stm32_motor.cpp), with *)
(* the divisors of pwm_timing and the kernel clock of lino_tim_clk_hz; the *)
(* board's descriptor tables say who has which timer (f446re_config.h).    *)
(*                                                                         *)
(* The HAL is outside src/.  Its handles matter here: HAL_TIM_PWM_Init     *)
(* makes the handle it is given ready, writes PSC and ARR and resets the    *)
(* counter; HAL_TIM_PWM_Start starts a channel, or - in drivers that keep a *)
(* state per channel - refuses a handle that is not ready.  The firmware   *)
(* ignores what it returns.                                                *)
(*                                                                         *)
(* The code's quotients are doubles; here they are exact.                  *)
(***************************************************************************)
EXTENDS Integers, FiniteSets

CONSTANTS
    N,           \* motors, 4 in the code
    Timers,      \* timers of the descriptor tables
    APB1,        \* those on the slower bus
    None,        \* the timer of an unused motor
    SLOTS,       \* entries of s_pwm_base_inited, 8 in the code
    HCLK,        \* the core clock, in Hz
    Dividers,    \* settings of the two bus prescalers
    Freqs,       \* PWM_FREQUENCY
    Bits,        \* PWM_BITS
    PSC_RANGE    \* prescalers, 65536

ASSUME TimerAssumption ==
    /\ N \in Nat \ {0} /\ SLOTS \in Nat /\ N <= SLOTS
    /\ None \notin Timers /\ IsFiniteSet(Timers) /\ APB1 \subseteq Timers

ASSUME ClockAssumption ==
    /\ HCLK \in Nat \ {0} /\ Dividers \subseteq Nat \ {0}
    /\ Freqs \subseteq Int /\ Bits \subseteq Int
    /\ PSC_RANGE \in Nat \ {0}

Motors == 1 .. N

VARIABLES
    timer,       \* the board: the timer of each motor,
    div1, div2,  \*   the prescalers of the two buses,
    freq, bits,  \*   PWM_FREQUENCY and PWM_BITS,
    hal_checks,  \*   and does the HAL check the state of a handle?
    i, pc,       \* the motor in init, and the call it makes next
    inited,      \* s_pwm_base_inited, up to its first empty slot
    base,        \* the registers of each timer that was initialised
    arr,         \* arr_ of each motor, to which a duty is clamped
    ready,       \* motors whose htim_ went through HAL_TIM_PWM_Init
    running      \* motors whose channel was started

board == <<timer, div1, div2, freq, bits, hal_checks>>
vars == <<board, i, pc, inited, base, arr, ready, running>>

Base == [psc : 0 .. PSC_RANGE - 1, arr : Nat]

(* The constructor of Generic2 sets arr_ to (1u << pwm_bits) - 1u; where a  *)
(* shift by pwm_bits is undefined, the build shifts by something else.      *)
Init ==
    /\ timer \in [Motors -> Timers \cup {None}]
    /\ div1 \in Dividers /\ div2 \in Dividers
    /\ freq \in Freqs /\ bits \in Bits /\ hal_checks \in BOOLEAN
    /\ i = 1 /\ pc = "claim"
    /\ inited = {} /\ base = [t \in {} |-> None]
    /\ \E k \in 0 .. 32 : /\ bits \in 0 .. 31 => k = bits
                         /\ arr = [m \in Motors |-> 2 ^ k - 1]
    /\ ready = {} /\ running = {}

-----------------------------------------------------------------------------
(* The clock of a timer: its bus's, doubled when that is divided.           *)
TimClk(t) ==
    LET d == IF t \in APB1 THEN div1 ELSE div2
        pclk == HCLK \div d
    IN  IF d = 1 THEN pclk ELSE pclk * 2

(* pwm_timing: the width of the counter ...                                 *)
Period == LET b == IF bits < 1 THEN 1 ELSE IF bits > 32 THEN 32 ELSE bits
          IN  2 ^ b - 1

\* Mutant of Prescaler: the quotient is cut off instead of rounded.
PrescalerCut(clk) ==
    LET den == freq * (Period + 1)
    IN  CASE freq <= 0 \/ clk < den -> 0
          [] freq > 0 /\ clk > PSC_RANGE * den -> PSC_RANGE - 1
          [] OTHER -> clk \div den - 1

\* Mutant of Prescaler: not limited to the register.
PrescalerUnlimited(clk) ==
    LET den == freq * (Period + 1)
    IN  IF freq <= 0 \/ clk < den THEN 0 ELSE (2 * clk + den) \div (2 * den) - 1

(* ... and clk / (freq * (arr + 1)), clamped to [1, PSC_RANGE], rounded to   *)
(* the nearest, halves up, less 1.                                          *)
Prescaler(clk) ==
    LET den == freq * (Period + 1)
    IN  CASE freq <= 0 \/ clk < den -> 0
          [] freq > 0 /\ clk > PSC_RANGE * den -> PSC_RANGE - 1
          [] OTHER -> (2 * clk + den) \div (2 * den) - 1

Used(m) == timer[m] # None

\* Mutant of Claims: every motor initialises its timer.
ClaimsAlways(t) == TRUE

(* pwm_base_claim: the first to ask for a timer gets it, while the table    *)
(* has an empty slot.                                                       *)
Claims(t) == t \notin inited /\ Cardinality(inited) < SLOTS

NextMotor ==
    IF i < N THEN i' = i + 1 /\ pc' = "claim" ELSE i' = i /\ pc' = "done"

(* if (!used_) return                                                       *)
SkipUnused ==
    /\ pc = "claim" /\ ~Used(i)
    /\ NextMotor
    /\ UNCHANGED <<board, inited, base, arr, ready, running>>

(* The time base, and the reset of the timer's counter.                     *)
BaseInit ==
    /\ pc = "claim" /\ Used(i) /\ Claims(timer[i])
    /\ inited' = inited \cup {timer[i]}
    /\ base' = [t \in inited' |->
                  IF t = timer[i]
                  THEN [psc |-> Prescaler(TimClk(t)), arr |-> Period]
                  ELSE base[t]]
    /\ arr' = [arr EXCEPT ![i] = Period]
    /\ ready' = ready \cup {i}
    /\ pc' = "start"
    /\ UNCHANGED <<board, i, running>>

\* Mutant of BaseShared: a motor whose timer is claimed is taken for done.
BaseSharedReturns ==
    /\ pc = "claim" /\ Used(i) /\ ~Claims(timer[i])
    /\ NextMotor
    /\ UNCHANGED <<board, inited, base, arr, ready, running>>

(* A sibling has initialised it; the divisors are computed all the same.    *)
BaseShared ==
    /\ pc = "claim" /\ Used(i) /\ ~Claims(timer[i])
    /\ arr' = [arr EXCEPT ![i] = Period]
    /\ pc' = "start"
    /\ UNCHANGED <<board, i, inited, base, ready, running>>

(* HAL_TIM_PWM_Start                                                        *)
Starts(m) == ~hal_checks \/ m \in ready

(* HAL_TIM_PWM_ConfigChannel, HAL_TIM_PWM_Start and the direction pins.     *)
StartChannel ==
    /\ pc = "start"
    /\ running' = IF Starts(i) THEN running \cup {i} ELSE running
    /\ NextMotor
    /\ UNCHANGED <<board, inited, base, arr, ready>>

Done == pc = "done" /\ UNCHANGED vars

Next == SkipUnused \/ BaseInit \/ BaseShared \/ StartChannel \/ Done

Spec == Init /\ [][Next]_vars

-----------------------------------------------------------------------------
(* Correctness                                                              *)

TypeOK ==
    /\ timer \in [Motors -> Timers \cup {None}]
    /\ div1 \in Dividers /\ div2 \in Dividers
    /\ freq \in Freqs /\ bits \in Bits /\ hal_checks \in BOOLEAN
    /\ i \in Motors /\ pc \in {"claim", "start", "done"}
    /\ inited \in SUBSET Timers /\ Cardinality(inited) <= SLOTS
    /\ base \in [inited -> Base] /\ arr \in [Motors -> Nat]
    /\ ready \in SUBSET Motors /\ running \in SUBSET Motors

(* "HAL_TIM_PWM_Init forces EGR=UG (a counter reset) on every call, which   *)
(* would re-pulse an already-running shared timer": no timer is initialised *)
(* once one of its channels runs.                                           *)
NoRunningTimerIsReset ==
    [][BaseInit => \A m \in running : timer[m] # timer[i]]_vars

(* "siblings only configure + start their own channel on the shared time    *)
(* base": after start-up every motor of the board runs, on a timer that was *)
(* initialised by itself or a sibling with just the period its own duty is  *)
(* clamped to.  A HAL that checks handles starts the first motor of each    *)
(* timer only.                                                              *)
EveryMotorRuns ==
    pc = "done" =>
      /\ \A m \in running : timer[m] \in inited /\ base[timer[m]].arr = arr[m]
      /\ ~hal_checks => running = {m \in Motors : Used(m)}

Distance(a, b) == IF a >= b THEN a - b ELSE b - a

(* "the formula is the contract and self-corrects when the clock tree       *)
(* changes": whatever divides the buses, no other prescaler would bring the *)
(* PWM period of a motor closer to the one requested.                       *)
PeriodIsClosest ==
    pc = "done" /\ freq > 0 =>
      \A t \in inited :
        LET ticks(psc) == (psc + 1) * (base[t].arr + 1) * freq
        IN  \A psc \in 0 .. PSC_RANGE - 1 :
              Distance(ticks(base[t].psc), TimClk(t))
                <= Distance(ticks(psc), TimClk(t))
=============================================================================
