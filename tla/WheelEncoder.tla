---------------------------- MODULE WheelEncoder ----------------------------
(***************************************************************************)
(* One wheel encoder: the quadrature counter of a timer, and the software  *)
(* that turns it into a position and a speed (stm32_encoder.cpp,           *)
(* encoder_math.h).                                                        *)
(*                                                                         *)
(* The counter wraps at COUNT_MOD (2^16 or 2^32, by timer), the microsecond *)
(* clock at US_MOD (2^32).  The wheel turns and time passes between two    *)
(* calls of getRPM; how far and how long is bounded by MAX_MOVE and        *)
(* MAX_GAP, the limits the code's comments state for the wrap arithmetic.  *)
(* A speed is the pair of counts and microseconds it is computed from.  A  *)
(* turn of the wheel before the first update is seen by the counter only.  *)
(***************************************************************************)
EXTENDS Integers

CONSTANTS
    COUNT_MOD,   \* the counter wraps here
    US_MOD,      \* lino_micros wraps here
    MAX_MOVE,    \* bound: counts between two updates
    MAX_GAP,     \* bound: microseconds between two updates
    MAX_TURN,    \* bound: how far the wheel turns from its seed, either way
    INVERT,      \* invert_
    Positions    \* arguments of write

ASSUME EncoderAssumption ==
    /\ COUNT_MOD \in Nat \ {0} /\ MAX_MOVE \in Nat /\ 2 * MAX_MOVE < COUNT_MOD
    /\ US_MOD \in Nat \ {0} /\ MAX_GAP \in Nat /\ MAX_GAP < US_MOD
    /\ MAX_TURN \in Nat
    /\ INVERT \in BOOLEAN
    /\ Positions \subseteq Int

VARIABLES
    CNT,                 \* the counter register of the timer
    us,                  \* lino_micros
    first_, prev_cnt_, prev_us_, accum_,
    base, turned,        \* ghosts: accum_ at the seed, counts turned since
    moved, gap           \* ghosts: counts and time since the last update

mathVars == <<first_, prev_cnt_, prev_us_, accum_, base>>
vars == <<CNT, us, turned, moved, gap, mathVars>>

TypeOK ==
    /\ CNT \in 0 .. COUNT_MOD - 1 /\ us \in 0 .. US_MOD - 1
    /\ first_ \in BOOLEAN
    /\ prev_cnt_ \in 0 .. COUNT_MOD - 1 /\ prev_us_ \in 0 .. US_MOD - 1
    /\ accum_ \in Int /\ base \in Int
    /\ turned \in -MAX_TURN .. MAX_TURN
    /\ moved \in -MAX_MOVE .. MAX_MOVE /\ gap \in 0 .. MAX_GAP

(* Encoder::init: a fresh EncoderMath, on a counter that runs from then on   *)
(* over its whole range; where the wheel has taken it is arbitrary.         *)
Init ==
    /\ CNT \in 0 .. COUNT_MOD - 1 /\ us = 0
    /\ first_ = TRUE /\ prev_cnt_ = 0 /\ prev_us_ = 0 /\ accum_ = 0
    /\ base = 0 /\ turned = 0 /\ moved = 0 /\ gap = 0

-----------------------------------------------------------------------------
(* The hardware.                                                            *)

WrapCount(c) ==
    IF c < 0 THEN c + COUNT_MOD ELSE IF c >= COUNT_MOD THEN c - COUNT_MOD ELSE c

WrapUs(t) == IF t < US_MOD THEN t ELSE t - US_MOD

Turn(d) ==
    /\ CNT' = WrapCount(CNT + d)
    /\ IF first_
       THEN UNCHANGED <<turned, moved>>
       ELSE /\ moved' = moved + d /\ moved' \in -MAX_MOVE .. MAX_MOVE
            /\ turned' = turned + d /\ turned' \in -MAX_TURN .. MAX_TURN
    /\ UNCHANGED <<us, gap, mathVars>>

Microsecond ==
    /\ us' = WrapUs(us + 1)
    /\ IF first_
       THEN UNCHANGED gap
       ELSE gap < MAX_GAP /\ gap' = gap + 1
    /\ UNCHANGED <<CNT, turned, moved, mathVars>>

-----------------------------------------------------------------------------
(* EncoderMath::update                                                      *)

Sub(a, b, m) == IF a >= b THEN a - b ELSE a - b + m

\* Mutant of Delta: the difference is not folded to a signed one.
DeltaUnsigned(cnt, prev) == Sub(cnt, prev, COUNT_MOD)

(* The unsigned difference, read as a signed number of the same width.      *)
Delta(cnt, prev) ==
    LET d == Sub(cnt, prev, COUNT_MOD)
    IN  IF 2 * d < COUNT_MOD THEN d ELSE d - COUNT_MOD

Signed(d) == IF INVERT THEN -d ELSE d

(* What a call of update measures now, once seeded: the counts, and the     *)
(* speed it returns.                                                        *)
Counts == Signed(Delta(CNT, prev_cnt_))

NoSpeed == [counts |-> 0, dt |-> 0]

Rpm == LET dt == Sub(us, prev_us_, US_MOD)
       IN  IF dt = 0 THEN NoSpeed ELSE [counts |-> Counts, dt |-> dt]

(* The first call only seeds the state.                                     *)
SeedUpdate ==
    /\ first_
    /\ first_' = FALSE /\ prev_cnt_' = CNT /\ prev_us_' = us
    /\ base' = accum_ /\ turned' = 0 /\ moved' = 0 /\ gap' = 0
    /\ UNCHANGED <<CNT, us, accum_>>

\* Mutant of Update: a call without elapsed time returns before it stores the count.
UpdateEarlyReturn ==
    /\ ~first_
    /\ accum_' = accum_ + Counts
    /\ prev_cnt_' = IF Rpm = NoSpeed THEN prev_cnt_ ELSE CNT
    /\ prev_us_' = us
    /\ moved' = 0 /\ gap' = 0
    /\ UNCHANGED <<CNT, us, turned, first_, base>>

(* Every other call accumulates the counts, also when it returns no speed   *)
(* because no time has passed.                                              *)
Update ==
    /\ ~first_
    /\ accum_' = accum_ + Counts
    /\ prev_cnt_' = CNT /\ prev_us_' = us
    /\ moved' = 0 /\ gap' = 0
    /\ UNCHANGED <<CNT, us, turned, first_, base>>

(* Encoder::write: the position, a new seed, and the counter register,      *)
(* which keeps the low bits.                                                *)
Write(p) ==
    /\ accum_' = p /\ first_' = TRUE /\ CNT' = p % COUNT_MOD
    /\ turned' = 0 /\ moved' = 0 /\ gap' = 0
    /\ UNCHANGED <<us, prev_cnt_, prev_us_, base>>

Next ==
    \/ \E d \in {-1, 1} : Turn(d)
    \/ Microsecond
    \/ SeedUpdate \/ Update
    \/ \E p \in Positions : Write(p)

Spec == Init /\ [][Next]_vars

-----------------------------------------------------------------------------
(* Correctness                                                              *)

(* The header of encoder_math.h: the wrap is handled "as long as |delta| <  *)
(* 32768 per sample".  However often the counter wraps, whatever it held at *)
(* power-on or after a write, and however the wheel reverses, the position  *)
(* is the one at the seed plus what the wheel has really turned since; what *)
(* it turned after the last update is still in the counter.                 *)
PositionTracksWheel ==
    ~first_ => accum_ + Signed(moved) = base + Signed(turned)

(* A call of getRPM computes the speed from the true motion and the true    *)
(* time since the call before, across wraps of both counters, and from      *)
(* nothing when no time has passed.                                         *)
SpeedIsTrue ==
    ~first_ => Rpm = IF gap = 0 THEN NoSpeed
                     ELSE [counts |-> Signed(moved), dt |-> gap]

(* What makes the two inductive: counter and clock are the stored values    *)
(* advanced by what the wheel moved and by the time that passed.            *)
CounterInv ==
    ~first_ => /\ CNT = WrapCount(prev_cnt_ + moved)
               /\ us = WrapUs(prev_us_ + gap)
=============================================================================
