-------------------------- MODULE PwmTimersProofs ---------------------------
(***************************************************************************)
(* Theorems about PwmTimers, for every board of at most SLOTS motors, every *)
(* clock tree, frequency and resolution.                                   *)
(***************************************************************************)
EXTENDS PwmTimers, FiniteSetTheorems, TLAPS

-----------------------------------------------------------------------------
(* The divisors of pwm_timing                                               *)

(* 2 ^ n counts the subsets of a set of n elements, so it is positive.      *)
LEMMA PowerOfTwo == ASSUME NEW n \in Nat PROVE 2 ^ n \in Nat \ {0}
<1>1. IsFiniteSet(1 .. n) /\ Cardinality(1 .. n) = n
  BY FS_Interval
<1>2. IsFiniteSet(SUBSET (1 .. n)) /\ Cardinality(SUBSET (1 .. n)) = 2 ^ n
  BY <1>1, FS_SUBSET
<1>3. SUBSET (1 .. n) # {}
  OBVIOUS
<1> QED
  BY <1>2, <1>3, FS_CardinalityType, FS_EmptySet

LEMMA PeriodType == ASSUME bits \in Int PROVE Period \in Nat
<1> DEFINE b == IF bits < 1 THEN 1 ELSE IF bits > 32 THEN 32 ELSE bits
<1>1. b \in Nat
  OBVIOUS
<1>2. 2 ^ b \in Nat \ {0}
  BY <1>1, PowerOfTwo
<1> QED
  BY <1>2 DEF Period

LEMMA TimClkType ==
  ASSUME div1 \in Dividers, div2 \in Dividers, NEW t
  PROVE  TimClk(t) \in Nat
  BY ClockAssumption DEF TimClk

LEMMA Quotient ==
  ASSUME NEW a \in Nat, NEW d \in Nat \ {0}
  PROVE  /\ a \div d \in Nat
         /\ d * (a \div d) <= a
         /\ a < d * (a \div d + 1)
  BY SMT

LEMMA ProductMonotone ==
  ASSUME NEW d \in Nat, NEW k \in Nat, NEW l \in Nat, k <= l
  PROVE  k * d <= l * d
  BY SMT

(* The quotient plus one half, cut off, is no further from the exact        *)
(* quotient than any other integer.                                         *)
LEMMA Nearest ==
  ASSUME NEW clk \in Nat, NEW den \in Nat \ {0}, NEW k \in Nat
  PROVE  LET q == (2 * clk + den) \div (2 * den)
         IN  q \in Nat /\ Distance(q * den, clk) <= Distance(k * den, clk)
<1> DEFINE q == (2 * clk + den) \div (2 * den)
<1>1. /\ q \in Nat
      /\ (2 * den) * q <= 2 * clk + den
      /\ 2 * clk + den < (2 * den) * (q + 1)
  <2>1. 2 * clk + den \in Nat /\ 2 * den \in Nat \ {0}
    OBVIOUS
  <2> QED
    BY <2>1, Quotient
<1> SUFFICES Distance(q * den, clk) <= Distance(k * den, clk)
  BY <1>1
<1> HIDE DEF q
<1> DEFINE x == q * den
<1>2. x \in Nat /\ 2 * x <= 2 * clk + den /\ 2 * clk < 2 * x + den
  BY <1>1, SMT
<1>3. CASE k = q
  <2>1. k * den \in Nat
    OBVIOUS
  <2> QED
    BY <1>1, <1>2, <1>3, <2>1 DEF Distance
<1>4. CASE k < q
  <2>1. (k + 1) * den <= x
    BY <1>1, <1>4, ProductMonotone
  <2>2. k * den \in Nat /\ k * den + den = (k + 1) * den
    BY SMT
  <2> HIDE DEF x
  <2>3. Distance(x, clk) <= Distance(k * den, clk)
    BY <1>2, <2>1, <2>2, SMT DEF Distance
  <2> QED
    BY <2>3 DEF x
<1>5. CASE k > q
  <2>1. (q + 1) * den <= k * den
    BY <1>1, <1>5, ProductMonotone
  <2>2. k * den \in Nat /\ x + den = (q + 1) * den
    BY <1>1, SMT
  <2> HIDE DEF x
  <2>3. Distance(x, clk) <= Distance(k * den, clk)
    BY <1>2, <2>1, <2>2, SMT DEF Distance
  <2> QED
    BY <2>3 DEF x
<1> QED
  BY <1>1, <1>3, <1>4, <1>5

(* The prescaler fits its register, for any frequency.                      *)
LEMMA PrescalerType ==
  ASSUME bits \in Int, freq \in Int, NEW clk \in Nat
  PROVE  Prescaler(clk) \in 0 .. PSC_RANGE - 1
<1> DEFINE den == freq * (Period + 1)
           q == (2 * clk + den) \div (2 * den)
<1>0. PSC_RANGE \in Nat \ {0}
  BY ClockAssumption
<1>1. CASE freq <= 0 \/ clk < den
  BY <1>0, <1>1 DEF Prescaler
<1>2. CASE freq > 0 /\ ~(clk < den) /\ clk > PSC_RANGE * den
  BY <1>0, <1>2 DEF Prescaler
<1>3. CASE freq > 0 /\ ~(clk < den) /\ ~(clk > PSC_RANGE * den)
  <2>1. den \in Nat \ {0}
    <3>1. freq \in Nat \ {0} /\ Period + 1 \in Nat \ {0}
      BY <1>3, PeriodType
    <3> QED
      BY <3>1, SMT
  <2> HIDE DEF den
  <2>2. /\ q \in Nat
        /\ (2 * den) * q <= 2 * clk + den
        /\ 2 * clk + den < (2 * den) * (q + 1)
    <3>1. 2 * clk + den \in Nat /\ 2 * den \in Nat \ {0}
      BY <2>1
    <3> QED
      BY <3>1, Quotient
  <2> HIDE DEF q
  <2>3. q # 0
    BY <1>3, <2>1, <2>2
  <2>4. ASSUME q > PSC_RANGE PROVE FALSE
    <3>1. (PSC_RANGE + 1) * den <= q * den
      BY <1>0, <2>1, <2>2, <2>4, ProductMonotone
    <3>2. /\ (PSC_RANGE + 1) * den = PSC_RANGE * den + den
          /\ (2 * den) * q = 2 * (q * den)
          /\ PSC_RANGE * den \in Nat /\ q * den \in Nat
      BY <1>0, <2>1, <2>2, SMT
    <3> QED
      BY <1>3, <2>1, <2>2, <3>1, <3>2
  <2>5. Prescaler(clk) = q - 1
    BY <1>3, <2>1 DEF Prescaler, den, q
  <2> QED
    BY <1>0, <2>2, <2>3, <2>4, <2>5
<1> QED
  BY <1>1, <1>2, <1>3

(* No other value of the register brings the period closer.                 *)
LEMMA PrescalerNearest ==
  ASSUME bits \in Int, freq \in Nat \ {0}, NEW clk \in Nat,
         NEW psc \in 0 .. PSC_RANGE - 1
  PROVE  LET den == freq * (Period + 1)
         IN  Distance((Prescaler(clk) + 1) * den, clk)
               <= Distance((psc + 1) * den, clk)
<1> DEFINE den == freq * (Period + 1)
           q == (2 * clk + den) \div (2 * den)
<1>0. PSC_RANGE \in Nat \ {0} /\ psc + 1 \in Nat \ {0} /\ psc + 1 <= PSC_RANGE
  BY ClockAssumption
<1>1. den \in Nat \ {0}
  <2>1. Period + 1 \in Nat \ {0}
    BY PeriodType
  <2> QED
    BY <2>1, SMT
<1>2. /\ clk < den => Prescaler(clk) = 0
      /\ ~(clk < den) /\ clk > PSC_RANGE * den => Prescaler(clk) = PSC_RANGE - 1
      /\ ~(clk < den) /\ ~(clk > PSC_RANGE * den) => Prescaler(clk) = q - 1
  <2> HIDE DEF den
  <2>1. freq > 0 /\ ~(freq <= 0)
    OBVIOUS
  <2>2. Prescaler(clk) =
          CASE clk < den -> 0
            [] clk > PSC_RANGE * den -> PSC_RANGE - 1
            [] OTHER -> q - 1
    BY <2>1, Zenon DEF Prescaler, den
  <2> HIDE DEF q
  <2> QED
    BY <1>0, <1>1, <2>2
<1> SUFFICES Distance((Prescaler(clk) + 1) * den, clk)
               <= Distance((psc + 1) * den, clk)
  OBVIOUS
<1> HIDE DEF den
<1>3. (psc + 1) * den \in Nat
  BY <1>0, <1>1, SMT
<1>4. CASE clk < den
  <2>1. den <= (psc + 1) * den
    BY <1>0, <1>1, ProductMonotone
  <2>2. (Prescaler(clk) + 1) * den = den
    BY <1>1, <1>2, <1>4
  <2> QED
    BY <1>1, <1>3, <1>4, <2>1, <2>2 DEF Distance
<1>5. CASE ~(clk < den) /\ clk > PSC_RANGE * den
  <2>1. (psc + 1) * den <= PSC_RANGE * den
    BY <1>0, <1>1, ProductMonotone
  <2>2. Prescaler(clk) + 1 = PSC_RANGE
    BY <1>0, <1>2, <1>5
  <2>3. PSC_RANGE * den \in Nat
    BY <1>0, <1>1, SMT
  <2> QED
    BY <1>3, <1>5, <2>1, <2>2, <2>3 DEF Distance
<1>6. CASE ~(clk < den) /\ ~(clk > PSC_RANGE * den)
  <2>1. q \in Nat /\ Distance(q * den, clk) <= Distance((psc + 1) * den, clk)
    BY <1>0, <1>1, Nearest
  <2>2. Prescaler(clk) + 1 = q
    BY <1>2, <1>6, <2>1
  <2> QED
    BY <2>1, <2>2
<1> QED
  BY <1>4, <1>5, <1>6

-----------------------------------------------------------------------------
(* The start-up                                                             *)

(* What the calls so far have done.  Each motor adds at most one timer to   *)
(* the table, so it is never full when a motor asks.                        *)
Begun(m) == m < i \/ (m = i /\ pc # "claim")

Started(m) == m < i \/ (m = i /\ pc = "done")

ClaimInv ==
    /\ Cardinality(inited) <= IF pc = "claim" THEN i - 1 ELSE i
    /\ \A m \in Motors : Begun(m) /\ Used(m) => timer[m] \in inited /\ arr[m] = Period
    /\ \A t \in inited :
         base[t] = [psc |-> Prescaler(TimClk(t)), arr |-> Period]

RunInv ==
    /\ pc = "start" => Used(i)
    /\ pc = "done" => i = N
    /\ running \subseteq {m \in Motors : Used(m) /\ Started(m)}
    /\ ~hal_checks => \A m \in Motors : Used(m) /\ Started(m) => m \in running

StartInv == ClaimInv /\ RunInv

LEMMA BoardKept ==
  ASSUME TypeOK, UNCHANGED board
  PROVE  /\ Period' = Period /\ \A m : Used(m)' = Used(m)
         /\ \A clk : Prescaler(clk)' = Prescaler(clk)
         /\ \A t : TimClk(t)' = TimClk(t)
  BY DEF board, Period, Prescaler, Used, TimClk

LEMMA TableHasRoom ==
  ASSUME TypeOK, ClaimInv, pc = "claim"
  PROVE  Cardinality(inited) \in Nat /\ Cardinality(inited) < SLOTS
<1>1. Cardinality(inited) \in Nat
  BY TimerAssumption, FS_Subset, FS_CardinalityType DEF TypeOK
<1> QED
  BY <1>1, TimerAssumption DEF TypeOK, ClaimInv, Motors

LEMMA TypeStep == TypeOK /\ StartInv /\ [Next]_vars => TypeOK'
<1> SUFFICES ASSUME TypeOK, StartInv, [Next]_vars PROVE TypeOK'
  OBVIOUS
<1>0. N \in Nat \ {0} /\ i \in Nat
  BY TimerAssumption DEF TypeOK, Motors
<1>1. ASSUME NextMotor PROVE i' \in Motors /\ pc' \in {"claim", "start", "done"}
  BY <1>0, <1>1 DEF NextMotor, TypeOK, Motors
<1>2. CASE SkipUnused
  BY <1>1, <1>2 DEF SkipUnused, TypeOK, board
<1>3. CASE BaseInit
  <2>1. timer[i] \in Timers
    BY <1>3 DEF BaseInit, Used, TypeOK
  <2>2. inited' \in SUBSET Timers /\ Cardinality(inited') <= SLOTS
    <3>1. IsFiniteSet(inited)
      BY TimerAssumption, FS_Subset DEF TypeOK
    <3>2. Cardinality(inited) \in Nat /\ Cardinality(inited) < SLOTS
      BY <1>3, TableHasRoom DEF BaseInit, StartInv
    <3>3. Cardinality(inited') = Cardinality(inited) + 1
      BY <1>3, <3>1, FS_AddElement DEF BaseInit, Claims
    <3> QED
      BY <1>3, <2>1, <3>2, <3>3, TimerAssumption DEF BaseInit, TypeOK
  <2>3. [psc |-> Prescaler(TimClk(timer[i])), arr |-> Period] \in Base
    <3>1. freq \in Int /\ bits \in Int
      BY ClockAssumption DEF TypeOK
    <3> QED
      BY <3>1, PeriodType, TimClkType, PrescalerType DEF TypeOK, Base
  <2>4. base' \in [inited' -> Base]
    BY <1>3, <2>3 DEF BaseInit, TypeOK
  <2>5. arr' \in [Motors -> Nat]
    BY <1>3, PeriodType, ClockAssumption DEF BaseInit, TypeOK
  <2> QED
    BY <1>3, <2>2, <2>4, <2>5 DEF BaseInit, TypeOK, board
<1>4. CASE BaseShared
  <2>1. arr' \in [Motors -> Nat]
    BY <1>4, PeriodType, ClockAssumption DEF BaseShared, TypeOK
  <2> QED
    BY <1>4, <2>1 DEF BaseShared, TypeOK, board
<1>5. CASE StartChannel
  BY <1>1, <1>5 DEF StartChannel, TypeOK, board
<1>6. CASE UNCHANGED vars
  BY <1>6 DEF vars, board, TypeOK
<1> QED
  BY <1>2, <1>3, <1>4, <1>5, <1>6 DEF Next, Done

LEMMA ClaimStep == TypeOK /\ TypeOK' /\ StartInv /\ [Next]_vars => ClaimInv'
<1> SUFFICES ASSUME TypeOK, TypeOK', StartInv, [Next]_vars PROVE ClaimInv'
  OBVIOUS
<1>0. N \in Nat \ {0} /\ i \in Nat /\ Cardinality(inited) \in Nat
  BY TimerAssumption, FS_Subset, FS_CardinalityType DEF TypeOK, Motors
<1>b. UNCHANGED board
  BY DEF Next, SkipUnused, BaseInit, BaseShared, StartChannel, Done, vars
<1>u. /\ Period' = Period /\ \A m : Used(m)' = Used(m)
      /\ \A t : [psc |-> Prescaler(TimClk(t)), arr |-> Period]'
                  = [psc |-> Prescaler(TimClk(t)), arr |-> Period]
  <2>1. /\ Period' = Period /\ \A m : Used(m)' = Used(m)
        /\ \A clk : Prescaler(clk)' = Prescaler(clk)
        /\ \A t : TimClk(t)' = TimClk(t)
    BY <1>b, BoardKept
  <2> QED
    BY <1>b, <2>1 DEF board, Period, Prescaler, TimClk
(* A step that leaves table and registers alone is judged by what it leaves *)
(* begun.                                                                   *)
<1>1. ASSUME UNCHANGED <<inited, base, arr>>,
             Cardinality(inited) <= IF pc' = "claim" THEN i' - 1 ELSE i',
             \A m \in Motors : Begun(m)' /\ Used(m) => Begun(m)
      PROVE  ClaimInv'
  BY <1>1, <1>b, <1>u DEF ClaimInv, StartInv, board
<1>2. ASSUME NextMotor, Begun(i) \/ ~Used(i)
      PROVE  \A m \in Motors : Begun(m)' /\ Used(m) => Begun(m)
  BY <1>0, <1>2 DEF NextMotor, Begun, Motors
<1>3. CASE SkipUnused
  <2>1. Cardinality(inited) <= IF pc' = "claim" THEN i' - 1 ELSE i'
    BY <1>0, <1>3 DEF SkipUnused, NextMotor, StartInv, ClaimInv
  <2> QED
    BY <1>1, <1>2, <1>3, <2>1 DEF SkipUnused
<1>4. CASE BaseInit
  <2>1. IsFiniteSet(inited)
    BY TimerAssumption, FS_Subset DEF TypeOK
  <2>2. Cardinality(inited') = Cardinality(inited) + 1
    BY <1>4, <2>1, FS_AddElement DEF BaseInit, Claims
  <2>3. Cardinality(inited') <= IF pc' = "claim" THEN i' - 1 ELSE i'
    BY <1>0, <1>4, <2>2 DEF BaseInit, StartInv, ClaimInv
  <2>4. ASSUME NEW m \in Motors, Begun(m)', Used(m)
        PROVE  timer[m] \in inited' /\ arr'[m] = Period
    BY <1>0, <1>4, <2>4 DEF BaseInit, Begun, StartInv, ClaimInv, TypeOK, Motors
  <2>5. ASSUME NEW t \in inited'
        PROVE  base'[t] = [psc |-> Prescaler(TimClk(t)), arr |-> Period]
    BY <1>4, <2>5 DEF BaseInit, StartInv, ClaimInv
  <2> QED
    BY <1>b, <1>u, <2>3, <2>4, <2>5 DEF ClaimInv, board
<1>5. CASE BaseShared
  <2>1. timer[i] \in inited
    BY <1>5, TableHasRoom DEF BaseShared, Claims, StartInv
  <2>2. ASSUME NEW m \in Motors, Begun(m)', Used(m)
        PROVE  timer[m] \in inited' /\ arr'[m] = Period
    BY <1>0, <1>5, <2>1, <2>2 DEF BaseShared, Begun, StartInv, ClaimInv, TypeOK, Motors
  <2>3. Cardinality(inited') <= IF pc' = "claim" THEN i' - 1 ELSE i'
    BY <1>0, <1>5 DEF BaseShared, StartInv, ClaimInv
  <2> QED
    BY <1>5, <1>b, <1>u, <2>2, <2>3 DEF BaseShared, StartInv, ClaimInv, board
<1>6. CASE StartChannel
  <2>1. Cardinality(inited) <= IF pc' = "claim" THEN i' - 1 ELSE i'
    BY <1>0, <1>6 DEF StartChannel, NextMotor, StartInv, ClaimInv
  <2>2. Begun(i)
    BY <1>6 DEF StartChannel, Begun
  <2> QED
    BY <1>1, <1>2, <1>6, <2>1, <2>2 DEF StartChannel
<1>7. CASE UNCHANGED vars
  BY <1>1, <1>7 DEF vars, Begun, StartInv, ClaimInv
<1> QED
  BY <1>3, <1>4, <1>5, <1>6, <1>7 DEF Next, Done

LEMMA RunStep == TypeOK /\ StartInv /\ [Next]_vars => RunInv'
<1> SUFFICES ASSUME TypeOK, StartInv, [Next]_vars PROVE RunInv'
  OBVIOUS
<1>0. N \in Nat \ {0} /\ i \in Motors /\ Motors \subseteq Nat
  BY TimerAssumption DEF TypeOK, Motors
<1>u. hal_checks' = hal_checks /\ \A m : Used(m)' = Used(m)
  BY DEF Next, SkipUnused, BaseInit, BaseShared, StartChannel, Done, vars, board, Used
<1>1. ASSUME NextMotor
      PROVE  /\ pc' = "done" => i' = N
             /\ pc' # "start"
             /\ \A m \in Motors : Started(m)' <=> Started(m) \/ m = i
  BY <1>0, <1>1 DEF NextMotor, Started, Motors
<1>2. CASE SkipUnused
  BY <1>u, <1>1, <1>2 DEF SkipUnused, StartInv, RunInv
<1>3. CASE BaseInit \/ BaseShared
  <2>1. /\ pc = "claim" /\ pc' = "start" /\ i' = i /\ Used(i)
        /\ running' = running
    BY <1>3 DEF BaseInit, BaseShared
  <2>2. \A m \in Motors : Started(m)' <=> Started(m)
    BY <2>1 DEF Started
  <2> QED
    BY <1>u, <2>1, <2>2 DEF StartInv, RunInv
<1>4. CASE StartChannel
  BY <1>0, <1>u, <1>1, <1>4 DEF StartChannel, Starts, StartInv, RunInv
<1>5. CASE UNCHANGED vars
  BY <1>u, <1>5 DEF vars, Started, StartInv, RunInv
<1> QED
  BY <1>2, <1>3, <1>4, <1>5 DEF Next, Done

LEMMA StartInvInit == Init => TypeOK /\ StartInv
<1> SUFFICES ASSUME Init PROVE TypeOK /\ StartInv
  OBVIOUS
<1>1. Cardinality(inited) = 0
  BY FS_EmptySet DEF Init
<1>2. TypeOK
  <2>1. PICK k \in 0 .. 32 : arr = [m \in Motors |-> 2 ^ k - 1]
    BY DEF Init
  <2>2. 2 ^ k \in Nat \ {0}
    BY PowerOfTwo
  <2>3. arr \in [Motors -> Nat]
    <3>1. PICK w \in Nat : w = 2 ^ k - 1
      BY <2>2
    <3> QED
      BY <2>1, <3>1
  <2>4. /\ i \in Motors /\ Cardinality(inited) <= SLOTS
        /\ inited \in SUBSET Timers /\ base \in [inited -> Base]
    BY <1>1, TimerAssumption DEF Init, Motors
  <2> QED
    BY <2>3, <2>4 DEF Init, TypeOK
<1>3. \A m \in Motors : ~Begun(m) /\ ~Started(m)
  BY DEF Init, Begun, Started, Motors
<1>4. ClaimInv
  <2>1. inited = {} /\ i = 1 /\ pc = "claim"
    BY DEF Init
  <2> QED
    BY <1>1, <1>3, <2>1 DEF ClaimInv
<1>5. RunInv
  BY <1>3 DEF Init, RunInv
<1> QED
  BY <1>2, <1>4, <1>5 DEF StartInv

LEMMA StartInvariant == Spec => [](TypeOK /\ StartInv)
<1>1. TypeOK /\ StartInv /\ [Next]_vars => (TypeOK /\ StartInv)'
  BY TypeStep, ClaimStep, RunStep DEF StartInv
<1> QED
  BY <1>1, StartInvInit, PTL DEF Spec

(* Divisors, registers and the table of claimed timers stay in range.       *)
THEOREM TypeCorrect == Spec => []TypeOK
  BY StartInvariant, PTL

(* No timer is initialised once one of its channels runs.                   *)
THEOREM NoReset == Spec => NoRunningTimerIsReset
<1> DEFINE A == BaseInit => \A m \in running : timer[m] # timer[i]
<1>1. TypeOK /\ StartInv => A
  <2> SUFFICES ASSUME TypeOK, StartInv, BaseInit, NEW m \in running
               PROVE  timer[m] # timer[i]
    OBVIOUS
  <2>1. m \in Motors /\ Used(m) /\ Begun(m)
    BY DEF StartInv, RunInv, Started, Begun, TypeOK
  <2> QED
    BY <2>1 DEF StartInv, ClaimInv, BaseInit, Claims
<1>2. TypeOK /\ StartInv /\ [Next]_vars => [A]_vars
  BY <1>1
<1> QED
  BY <1>2, StartInvariant, PTL DEF Spec, NoRunningTimerIsReset

(* After start-up every motor runs, on a timer with the period its own duty *)
(* is clamped to, unless the HAL checks handles.                            *)
THEOREM MotorsRun == Spec => []EveryMotorRuns
<1>1. TypeOK /\ StartInv => EveryMotorRuns
  <2> SUFFICES ASSUME TypeOK, StartInv, pc = "done"
               PROVE  /\ \A m \in running :
                           timer[m] \in inited /\ base[timer[m]].arr = arr[m]
                      /\ ~hal_checks => running = {m \in Motors : Used(m)}
    BY DEF EveryMotorRuns
  <2>1. \A m \in Motors : Begun(m) /\ Started(m)
    BY TimerAssumption DEF StartInv, RunInv, Begun, Started, Motors
  <2>2. running \subseteq {m \in Motors : Used(m)}
    BY DEF StartInv, RunInv
  <2>3. ASSUME NEW m \in running
        PROVE  timer[m] \in inited /\ base[timer[m]].arr = arr[m]
    <3>1. timer[m] \in inited /\ arr[m] = Period
      BY <2>1, <2>2 DEF StartInv, ClaimInv
    <3>2. base[timer[m]] = [psc |-> Prescaler(TimClk(timer[m])), arr |-> Period]
      BY <3>1 DEF StartInv, ClaimInv
    <3> QED
      BY <3>1, <3>2
  <2>4. ~hal_checks => \A m \in Motors : Used(m) => m \in running
    BY <2>1 DEF StartInv, RunInv
  <2> QED
    BY <2>2, <2>3, <2>4
<1> QED
  BY <1>1, StartInvariant, PTL

(* No other prescaler would bring the period of a motor's timer closer to   *)
(* the one requested.                                                       *)
THEOREM PrescalerClosest == Spec => []PeriodIsClosest
<1>1. TypeOK /\ StartInv => PeriodIsClosest
  <2> SUFFICES ASSUME TypeOK, StartInv, freq > 0, NEW t \in inited,
                      NEW psc \in 0 .. PSC_RANGE - 1
               PROVE  Distance((base[t].psc + 1) * (base[t].arr + 1) * freq, TimClk(t))
                        <= Distance((psc + 1) * (base[t].arr + 1) * freq, TimClk(t))
    BY DEF PeriodIsClosest
  <2>1. /\ bits \in Int /\ freq \in Nat \ {0} /\ TimClk(t) \in Nat
        /\ Period \in Nat /\ psc \in Nat
    BY ClockAssumption, TimClkType, PeriodType DEF TypeOK
  <2>2. /\ base[t].psc = Prescaler(TimClk(t)) /\ base[t].arr = Period
        /\ Prescaler(TimClk(t)) \in Nat
    <3>1. base[t] = [psc |-> Prescaler(TimClk(t)), arr |-> Period]
      BY DEF StartInv, ClaimInv
    <3>2. Prescaler(TimClk(t)) \in 0 .. PSC_RANGE - 1
      BY <2>1, PrescalerType
    <3> QED
      BY <3>1, <3>2, ClockAssumption
  <2>3. \A p \in Nat : (p + 1) * (Period + 1) * freq = (p + 1) * (freq * (Period + 1))
    BY <2>1, SMT
  <2> QED
    BY <2>1, <2>2, <2>3, PrescalerNearest
<1> QED
  BY <1>1, StartInvariant, PTL
=============================================================================
