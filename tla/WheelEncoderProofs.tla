------------------------- MODULE WheelEncoderProofs -------------------------
(***************************************************************************)
(* The encoder's position and speed are right for every width of the       *)
(* counter and of the clock, as long as the wheel moves less than half the  *)
(* counter's range, and less than the clock's range passes, between two    *)
(* updates.                                                                *)
(***************************************************************************)
EXTENDS WheelEncoder, TLAPS

Cnts == 0 .. COUNT_MOD - 1

Times == 0 .. US_MOD - 1

Moves == -MAX_MOVE .. MAX_MOVE

Gaps == 0 .. MAX_GAP

(* The subtraction trick of encoder_math.h: the signed difference of two    *)
(* readings is the motion between them when it is less than half the range. *)
LEMMA DeltaIsMotion ==
    ASSUME NEW c \in Cnts, NEW m \in Moves
    PROVE  Delta(WrapCount(c + m), c) = m
BY EncoderAssumption DEF Cnts, Moves, Delta, Sub, WrapCount

(* The modular subtraction of the clock gives the time that passed.         *)
LEMMA SubIsGap ==
    ASSUME NEW t \in Times, NEW g \in Gaps
    PROVE  Sub(WrapUs(t + g), t, US_MOD) = g
BY EncoderAssumption DEF Times, Gaps, Sub, WrapUs

(* One more count, or one more microsecond, after a wrap or before.         *)
LEMMA WrapStep ==
    ASSUME NEW c \in Cnts, NEW m \in Moves, NEW d \in {-1, 1},
           m + d \in Moves
    PROVE  WrapCount(WrapCount(c + m) + d) = WrapCount(c + (m + d))
BY EncoderAssumption DEF Cnts, Moves, WrapCount

LEMMA WrapUsStep ==
    ASSUME NEW t \in Times, NEW g \in Gaps, g + 1 \in Gaps
    PROVE  WrapUs(WrapUs(t + g) + 1) = WrapUs(t + (g + 1))
BY EncoderAssumption DEF Times, Gaps, WrapUs

LEMMA WrapType ==
    /\ \A c \in Cnts, d \in {-1, 1} : WrapCount(c + d) \in Cnts
    /\ \A t \in Times : WrapUs(t + 1) \in Times
    /\ \A c \in Cnts : WrapCount(c + 0) = c
    /\ \A t \in Times : WrapUs(t + 0) = t
BY EncoderAssumption DEF Cnts, Times, WrapCount, WrapUs

LEMMA WriteType ==
    ASSUME NEW p \in Positions PROVE p \in Int /\ p % COUNT_MOD \in Cnts
BY EncoderAssumption DEF Cnts

-----------------------------------------------------------------------------
LEMMA CountsIsMotion ==
    ASSUME TypeOK, CounterInv, ~first_
    PROVE  Counts = Signed(moved)
<1>1. CNT = WrapCount(prev_cnt_ + moved) BY DEF CounterInv
<1>2. prev_cnt_ \in Cnts /\ moved \in Moves BY DEF TypeOK, Cnts, Moves
<1>3. Delta(CNT, prev_cnt_) = moved BY <1>1, <1>2, DeltaIsMotion
<1> QED BY <1>3 DEF Counts

LEMMA TypeStep == TypeOK /\ CounterInv /\ [Next]_vars => TypeOK'
<1> SUFFICES ASSUME TypeOK, CounterInv, [Next]_vars PROVE TypeOK'
  OBVIOUS
<1> USE EncoderAssumption DEF TypeOK
<1>1. ASSUME NEW d \in {-1, 1}, Turn(d) PROVE TypeOK'
  <2>1. CNT' \in Cnts BY <1>1, WrapType DEF Turn, Cnts
  <2>2. turned' \in -MAX_TURN .. MAX_TURN /\ moved' \in Moves
    BY <1>1 DEF Turn, Moves
  <2> QED BY <1>1, <2>1, <2>2 DEF Turn, mathVars, Cnts, Moves
<1>2. CASE Microsecond
  <2>1. us' \in Times BY <1>2, WrapType DEF Microsecond, Times
  <2>2. gap' \in Gaps BY <1>2 DEF Microsecond, Gaps
  <2> QED BY <1>2, <2>1, <2>2 DEF Microsecond, mathVars, Times, Gaps
<1>3. CASE SeedUpdate
  <2>1. 0 \in -MAX_TURN .. MAX_TURN /\ 0 \in Moves /\ 0 \in Gaps
    BY DEF Moves, Gaps
  <2>2. first_' \in BOOLEAN BY <1>3 DEF SeedUpdate
  <2> QED BY <1>3, <2>1, <2>2 DEF SeedUpdate, Moves, Gaps
<1>4. CASE Update
  <2>1. Counts \in Int BY <1>4, CountsIsMotion DEF Update, Signed
  <2> QED BY <1>4, <2>1 DEF Update
<1>5. ASSUME NEW p \in Positions, Write(p) PROVE TypeOK'
  BY <1>5, WriteType DEF Write, Cnts
<1>6. CASE UNCHANGED vars BY <1>6 DEF vars, mathVars
<1> QED BY <1>1, <1>2, <1>3, <1>4, <1>5, <1>6 DEF Next

LEMMA CounterStep == TypeOK /\ CounterInv /\ [Next]_vars => CounterInv'
<1> SUFFICES ASSUME TypeOK, CounterInv, [Next]_vars PROVE CounterInv'
  OBVIOUS
<1>t. /\ CNT \in Cnts /\ prev_cnt_ \in Cnts /\ moved \in Moves
      /\ us \in Times /\ prev_us_ \in Times /\ gap \in Gaps
  BY DEF TypeOK, Cnts, Moves, Times, Gaps
<1>1. ASSUME NEW d \in {-1, 1}, Turn(d) PROVE CounterInv'
  <2>1. CASE first_ BY <1>1, <2>1 DEF Turn, mathVars, CounterInv
  <2>2. CASE ~first_
    <3>1. moved' = moved + d /\ moved + d \in Moves
      BY <1>1, <2>2 DEF Turn, Moves
    <3>2. CNT' = WrapCount(prev_cnt_ + (moved + d))
      BY <1>1, <1>t, <2>2, <3>1, WrapStep DEF Turn, CounterInv
    <3> QED BY <1>1, <2>2, <3>1, <3>2 DEF Turn, mathVars, CounterInv
  <2> QED BY <2>1, <2>2
<1>2. CASE Microsecond
  <2>1. CASE first_ BY <1>2, <2>1 DEF Microsecond, mathVars, CounterInv
  <2>2. CASE ~first_
    <3>1. gap' = gap + 1 /\ gap + 1 \in Gaps
      BY <1>2, <1>t, <2>2, EncoderAssumption DEF Microsecond, Gaps
    <3>2. us' = WrapUs(prev_us_ + (gap + 1))
      BY <1>2, <1>t, <2>2, <3>1, WrapUsStep DEF Microsecond, CounterInv
    <3> QED BY <1>2, <2>2, <3>1, <3>2 DEF Microsecond, mathVars, CounterInv
  <2> QED BY <2>1, <2>2
<1>3. CASE SeedUpdate BY <1>3, <1>t, WrapType DEF SeedUpdate, CounterInv
<1>4. CASE Update BY <1>4, <1>t, WrapType DEF Update, CounterInv
<1>5. ASSUME NEW p \in Positions, Write(p) PROVE CounterInv'
  BY <1>5 DEF Write, CounterInv
<1>6. CASE UNCHANGED vars BY <1>6 DEF vars, mathVars, CounterInv
<1> QED BY <1>1, <1>2, <1>3, <1>4, <1>5, <1>6 DEF Next

LEMMA PositionStep ==
    TypeOK /\ CounterInv /\ PositionTracksWheel /\ [Next]_vars
      => PositionTracksWheel'
<1> SUFFICES ASSUME TypeOK, CounterInv, PositionTracksWheel, [Next]_vars
             PROVE  PositionTracksWheel'
  OBVIOUS
<1> USE EncoderAssumption DEF TypeOK, PositionTracksWheel, Signed
<1>1. ASSUME NEW d \in {-1, 1}, Turn(d) PROVE PositionTracksWheel'
  BY <1>1 DEF Turn, mathVars
<1>2. CASE Microsecond BY <1>2 DEF Microsecond, mathVars
<1>3. CASE SeedUpdate BY <1>3 DEF SeedUpdate
<1>4. CASE Update
  <2>1. accum_' = accum_ + Signed(moved) BY <1>4, CountsIsMotion DEF Update
  <2> QED BY <1>4, <2>1 DEF Update
<1>5. ASSUME NEW p \in Positions, Write(p) PROVE PositionTracksWheel'
  BY <1>5 DEF Write
<1>6. CASE UNCHANGED vars BY <1>6 DEF vars, mathVars
<1> QED BY <1>1, <1>2, <1>3, <1>4, <1>5, <1>6 DEF Next

LEMMA InitOK == Init => TypeOK /\ CounterInv /\ PositionTracksWheel
BY EncoderAssumption DEF Init, TypeOK, CounterInv, PositionTracksWheel

-----------------------------------------------------------------------------
(* Counter and clock stay within their widths, a position that is written   *)
(* too.                                                                     *)
THEOREM TypeCorrect == Spec => []TypeOK
<1>1. TypeOK /\ CounterInv /\ [Next]_vars => TypeOK' /\ CounterInv'
  BY TypeStep, CounterStep
<1> QED BY InitOK, <1>1, PTL DEF Spec

(* EncoderMath::update accumulates the true displacement of the wheel,      *)
(* through every wrap of the counter, for every width of it.                *)
THEOREM PositionCorrect == Spec => []PositionTracksWheel
<1>1. TypeOK /\ CounterInv /\ PositionTracksWheel /\ [Next]_vars
        => TypeOK' /\ CounterInv' /\ PositionTracksWheel'
  BY TypeStep, CounterStep, PositionStep
<1> QED BY InitOK, <1>1, PTL DEF Spec

(* getRPM computes with the true motion and the true time since the call    *)
(* before, for every width of the two counters.                             *)
THEOREM SpeedCorrect == Spec => []SpeedIsTrue
<1>1. TypeOK /\ CounterInv => SpeedIsTrue
  <2> SUFFICES ASSUME TypeOK, CounterInv, ~first_
               PROVE  Rpm = IF gap = 0 THEN NoSpeed
                            ELSE [counts |-> Signed(moved), dt |-> gap]
    BY DEF SpeedIsTrue
  <2>1. Counts = Signed(moved) BY CountsIsMotion
  <2>2. Sub(us, prev_us_, US_MOD) = gap
    BY SubIsGap DEF TypeOK, CounterInv, Times, Gaps
  <2> QED BY <2>1, <2>2 DEF Rpm
<1>2. TypeOK /\ CounterInv /\ [Next]_vars => TypeOK' /\ CounterInv'
  BY TypeStep, CounterStep
<1> QED BY InitOK, <1>1, <1>2, PTL DEF Spec
=============================================================================
