------------------------- MODULE ControlLoopProofs --------------------------
(***************************************************************************)
(* Proofs about ControlLoop, for every tick width, deadman, period and lag *)
(* bound that TimeAssumption allows (the build's 2^32, 200 and 20 among    *)
(* them).                                                                  *)
(***************************************************************************)
EXTENDS ControlLoop, TLAPS

USE TimeAssumption, CmdAssumption, WheelAssumption

-----------------------------------------------------------------------------
(* The tick arithmetic stays in range: Sub and Add are uint32_t operations. *)
LEMMA SubType == \A a, b \in Ticks : Sub(a, b) \in Ticks
  BY DEF Sub, Ticks

LEMMA SubInt == \A a, b \in Ticks : Sub(a, b) \in Int /\ Sub(a, b) >= 0
  BY DEF Sub, Ticks

LEMMA AddType == \A a \in Ticks, n \in 0 .. TICK_MOD : Add(a, n) \in Ticks
  BY DEF Add, Ticks

(* The true age of an instant saturates at one wrap of the tick.            *)
LEMMA OlderType == \A g \in TrueAges : Older(g) \in TrueAges
  BY DEF Older, TrueAges

LEMMA NextAgeType == \A g \in SampleAges : NextAge(g) \in SampleAges
  BY DEF NextAge, SampleAges, NEVER, STALE

LEMMA ZeroCmdType == ZeroCmd \in [Axis -> Values]
  BY DEF ZeroCmd, Values

(* Every step keeps every variable of the control loop in its range.        *)
LEMMA TypeStep == TypeOK /\ [Next]_vars => TypeOK'
<1> SUFFICES ASSUME TypeOK, [Next]_vars PROVE TypeOK'
  OBVIOUS
<1>0. TICK_MOD - 1 \in Nat /\ 0 \in Ticks /\ PERIOD \in 0 .. TICK_MOD
      /\ 1 \in 0 .. TICK_MOD /\ 0 \in TrueAges
  BY DEF Ticks, TrueAges
<1>d. \A t \in Ticks : t \in TrueAges
  BY DEF Ticks, TrueAges
<1>w. 1 \in Wheels /\ \A w \in Wheels : w < WHEELS => w + 1 \in Wheels
  BY DEF Wheels
<1>1. CASE TickInterrupt
  BY <1>0, <1>1, AddType, OlderType
     DEF TickInterrupt, TypeOK, odomTimeVars, snapVars, initVars, TickPc,
         BeforeDrive, UrosPc
<1>2. CASE InitSampleTime
  BY <1>2 DEF InitSampleTime, TypeOK, cmdVars, motorVars, initVars, urosVars,
              InitPc
<1>3. CASE InitStoreTime
  BY <1>3, <1>d, SubType
     DEF InitStoreTime, TypeOK, timeVars, motorVars, initVars, odomTimeVars,
         snapVars, urosVars, InitPc
<1>4. CASE InitClearWz \/ InitClearY \/ InitClearX
  BY <1>4 DEF InitClearWz, InitClearY, InitClearX, InitStore, TypeOK, timeVars,
              motorVars, odomTimeVars, snapVars, urosVars, InitPc, Values, Axis
<1>5. CASE InitReadWz \/ InitReadY
  BY <1>5 DEF InitReadWz, InitReadY, InitReadBack, TypeOK, timeVars, cmdVars,
              motorVars, odomTimeVars, snapVars, urosVars, InitPc, Values, Axis
<1>7. CASE InitLast
  BY <1>7 DEF InitLast, TypeOK, cmdVars, motorVars, odomTimeVars, snapVars,
              urosVars, TickPc, BeforeDrive
<1>8. CASE SampleNow
  BY <1>8, NextAgeType
     DEF SampleNow, TypeOK, cmdVars, motorVars, initVars, odomTimeVars,
         urosVars, TickPc, BeforeDrive
<1>9. CASE SnapshotCmd
  BY <1>9, <1>0, ZeroCmdType
     DEF SnapshotCmd, TypeOK, timeVars, cmdVars, initVars, odomTimeVars,
         snapVars, urosVars, TickPc, BeforeDrive
<1>10. CASE Measure
  BY <1>10 DEF Measure, TypeOK, timeVars, cmdVars, motorVars, initVars,
               snapVars, urosVars, TickPc, BeforeDrive
<1>11. CASE Spin
  BY <1>11, <1>0, <1>w, ZeroCmdType
     DEF Spin, TypeOK, timeVars, cmdVars, initVars, odomTimeVars, snapVars,
         urosVars, TickPc, AfterDrive
<1>12. CASE UpdateX \/ UpdateY \/ UpdateHeading
  BY <1>12 DEF UpdateX, UpdateY, UpdateHeading, UpdateOdom, TypeOK, timeVars,
               cmdVars, motorVars, initVars, odomTimeVars, urosVars, TickPc,
               AfterDrive, SampleAges, NEVER
<1>13. CASE PublishOdom
  <2>1. odomSnap' \in [OdomField -> SampleAges]
    BY <1>13 DEF PublishOdom, TypeOK, SampleAges, NEVER
  <2> QED
    BY <1>13, <2>1
       DEF PublishOdom, TypeOK, timeVars, cmdVars, motorVars, initVars,
           odomTimeVars, urosVars, TickPc, AfterDrive
<1>14. CASE ReadImu \/ PublishImu
  BY <1>14 DEF ReadImu, PublishImu, TypeOK, timeVars, cmdVars, motorVars,
               initVars, odomTimeVars, snapVars, urosVars, TickPc, AfterDrive,
               SampleAges, NEVER
<1>15. CASE DelayUntil
  BY <1>15, <1>0, AddType
     DEF DelayUntil, TypeOK, cmdVars, motorVars, initVars, odomTimeVars,
         snapVars, urosVars, TickPc, BeforeDrive
<1>16. CASE SetCmdStore
  BY <1>16, <1>0, <1>d, SubType
     DEF SetCmdStore, TypeOK, timeVars, motorVars, initVars, odomTimeVars,
         snapVars, UrosPc, Values
<1>17. CASE UrosDelay \/ SetCmdSample \/ GetOdom \/ GetImu
  BY <1>17 DEF UrosDelay, SetCmdSample, GetOdom, GetImu, TypeOK, timeVars,
               cmdVars, motorVars, initVars, odomTimeVars, snapVars, UrosPc
<1>18. CASE Publish
  BY <1>18 DEF Publish, TypeOK, timeVars, cmdVars, motorVars, initVars,
               odomTimeVars, snapVars, UrosPc, AllNever, SampleAges, NEVER
<1>19. CASE UNCHANGED vars
  BY <1>19 DEF vars, TypeOK, timeVars, cmdVars, motorVars, initVars,
               odomTimeVars, snapVars, urosVars
<1> QED
  BY <1>1, <1>2, <1>3, <1>4, <1>5, <1>7, <1>8, <1>9, <1>10, <1>11,
     <1>12, <1>13, <1>14, <1>15, <1>16, <1>17, <1>18, <1>19
     DEF Next, ControlInit, ControlTick, UrosCall

(* The state of the control loop is well typed in every reachable state.    *)
THEOREM TypeCorrect == Spec => []TypeOK
<1>0. 0 \in Ticks /\ 0 \in TrueAges /\ NEVER \in SampleAges /\ Zero \in Values
  BY DEF Ticks, TrueAges, SampleAges, NEVER, Values
<1>w. 1 \in Wheels
  BY DEF Wheels
<1>1. Init => TypeOK
  <2> SUFFICES ASSUME Init PROVE TypeOK
    OBVIOUS
  <2>1. /\ drive \in [Wheels -> [Axis -> Values]] /\ wheel \in Wheels
        /\ driveAge \in [Wheels -> TrueAges]
    BY <1>0, <1>w, ZeroCmdType DEF Init
  <2> QED
    BY <1>0, <2>1, ZeroCmdType DEF Init, TypeOK, AllNever, UrosPc, InitPc
<1> QED
  BY <1>1, TypeStep, PTL DEF Spec

-----------------------------------------------------------------------------
(* Tick arithmetic.  One tick later, an instant in the past is one older    *)
(* and an instant in the future is one nearer.                              *)
LEMMA SubLater ==
  \A a, b \in Ticks :
     Sub(Add(a, 1), b) = IF Sub(a, b) + 1 < TICK_MOD THEN Sub(a, b) + 1 ELSE 0
  BY DEF Sub, Add, Ticks

LEMMA SubNearer ==
  \A a, b \in Ticks : Sub(b, a) > 0 => Sub(b, Add(a, 1)) = Sub(b, a) - 1
  BY DEF Sub, Add, Ticks

LEMMA SubZero == \A a \in Ticks : Sub(a, a) = 0
  BY DEF Sub, Ticks

LEMMA SubDistinct == \A a, b \in Ticks : a # b => Sub(a, b) > 0
  BY DEF Sub, Ticks

(* Ages add up as long as the sum does not reach a wrap.                    *)
LEMMA SubSum ==
  \A a, b, c \in Ticks :
     Sub(a, b) + Sub(b, c) < TICK_MOD => Sub(a, c) = Sub(a, b) + Sub(b, c)
  BY DEF Sub, Ticks

(* An instant n later than b, seen from a: still n - Sub(a, b) to come, or  *)
(* already Sub(a, b) - n past.                                              *)
LEMMA SubOfAdd ==
  \A a, b \in Ticks : \A n \in 0 .. TICK_MOD - 1 :
     /\ n <= Sub(a, b) => Sub(a, Add(b, n)) = Sub(a, b) - n
     /\ n > Sub(a, b) => Sub(Add(b, n), a) = n - Sub(a, b)
  BY DEF Sub, Add, Ticks

(* The command stamp keeps telling the true age of the command.             *)
LEMMA StampStep == TypeOK /\ StampInv /\ [Next]_vars => StampInv'
<1> SUFFICES ASSUME TypeOK, StampInv, [Next]_vars PROVE StampInv'
  OBVIOUS
<1>1. CASE TickInterrupt
  <2>1. tick' = Add(tick, 1) /\ prev_cmd_ms' = prev_cmd_ms
        /\ stampAge' = Older(stampAge)
    BY <1>1 DEF TickInterrupt
  <2> QED
    BY <2>1, SubLater DEF StampInv, TypeOK, Older, TrueAges
<1>2. CASE InitStoreTime
  BY <1>2 DEF InitStoreTime, StampInv, timeVars
<1>3. CASE SetCmdStore
  BY <1>3 DEF SetCmdStore, StampInv, timeVars
<1>4. CASE UNCHANGED <<tick, prev_cmd_ms, stampAge>>
  BY <1>4 DEF StampInv
<1> QED
  BY <1>1, <1>2, <1>3, <1>4
     DEF Next, ControlInit, ControlTick, UrosCall, InitSampleTime, InitClearWz,
         InitReadWz, InitClearY, InitReadY, InitClearX, InitStore, InitReadBack,
         InitLast, SampleNow, SnapshotCmd, Measure, Spin, UpdateX, UpdateY,
         UpdateHeading, UpdateOdom, PublishOdom, ReadImu, PublishImu,
         DelayUntil, UrosDelay, SetCmdSample, GetOdom, GetImu, Publish, vars,
         timeVars, cmdVars

(* A step of control_task inside a tick, or of uros_task, that changes      *)
(* neither the times nor whether a tick is under way.                       *)
SameSchedule ==
    /\ UNCHANGED <<tick, last, now>>
    /\ \/ pc' = pc
       \/ pc \in TickPc \ {"top", "delay"} /\ pc' \in TickPc \ {"top"}

(* vTaskDelayUntil and the tick interrupt keep control_task on its schedule.*)
LEMMA ScheduleStep == TypeOK /\ ScheduleInv /\ [Next]_vars => ScheduleInv'
<1> SUFFICES ASSUME TypeOK, ScheduleInv, [Next]_vars PROVE ScheduleInv'
  OBVIOUS
<1> USE DEF ScheduleInv
<1>0. tick \in Ticks /\ last \in Ticks /\ now \in Ticks
  BY DEF TypeOK
<1>1. CASE TickInterrupt
  <2>1. /\ tick' = Add(tick, 1) /\ last' = last /\ now' = now
        /\ pc' = IF pc = "sleep" /\ tick' = last THEN "top" ELSE pc
        /\ pc \in TickPc => Sub(tick, last) < MAX_LAG
    BY <1>1 DEF TickInterrupt, Anchor, TickPc, BeforeDrive, AfterDrive, InitPc
  <2>2. CASE pc = "sleep" /\ tick' = last
    BY <1>0, <2>1, <2>2, SubZero DEF TickPc, BeforeDrive, AfterDrive
  <2>3. CASE pc = "sleep" /\ tick' # last
    <3>1. tick' \in Ticks
      BY <1>0, <2>1, AddType
    <3>2. Sub(last, tick') = Sub(last, tick) - 1 /\ Sub(last, tick') > 0
      BY <1>0, SubInt, <2>1, <2>3, <3>1, SubNearer, SubDistinct
    <3> QED
      BY <1>0, SubInt, <2>1, <2>3, <3>2 DEF TickPc, BeforeDrive, AfterDrive
  <2>4. CASE pc # "sleep"
    <3>1. pc \in TickPc =>
             Sub(tick', last) = Sub(tick, last) + 1
      BY <1>0, SubInt, <2>1, SubLater
    <3>2. pc \in TickPc \ {"top"} => Sub(tick', now) = Sub(tick, now) + 1
      BY <1>0, SubInt, <2>1, SubLater
    <3> QED
      BY <1>0, SubInt, <2>1, <2>4, <3>1, <3>2
  <2> QED
    BY <2>2, <2>3, <2>4
<1>2. CASE InitLast
  BY <1>2, <1>0, SubZero DEF InitLast, TickPc, BeforeDrive, AfterDrive
<1>3. CASE SampleNow
  BY <1>3, <1>0, SubInt, SubZero DEF SampleNow, TickPc, BeforeDrive, AfterDrive
<1>4. CASE DelayUntil
  <2>1. /\ tick' = tick /\ last' = Add(last, PERIOD) /\ now' = now
        /\ pc' = IF Sub(tick, last) < PERIOD THEN "sleep" ELSE "top"
        /\ pc \in TickPc
    BY <1>4 DEF DelayUntil, TickPc, AfterDrive
  <2>2. PERIOD \in 0 .. TICK_MOD - 1
    OBVIOUS
  <2>3. CASE Sub(tick, last) < PERIOD
    <3>1. Sub(last', tick') = PERIOD - Sub(tick, last)
      BY <1>0, SubInt, <2>1, <2>2, <2>3, SubOfAdd
    <3> QED
      BY <1>0, SubInt, <2>1, <2>3, <3>1 DEF TickPc, BeforeDrive, AfterDrive
  <2>4. CASE ~(Sub(tick, last) < PERIOD)
    <3>1. Sub(tick', last') = Sub(tick, last) - PERIOD
      BY <1>0, SubInt, <2>1, <2>2, <2>4, SubOfAdd
    <3> QED
      BY <1>0, SubInt, <2>1, <2>4, <3>1 DEF TickPc, BeforeDrive, AfterDrive
  <2> QED
    BY <2>3, <2>4
<1>5. CASE ControlInit /\ ~InitLast
  BY <1>5 DEF ControlInit, InitSampleTime, InitStoreTime, InitClearWz,
              InitReadWz, InitClearY, InitReadY, InitClearX, InitStore,
              InitReadBack, TickPc, BeforeDrive, AfterDrive
<1>6. CASE SameSchedule
  BY <1>6 DEF SameSchedule, TickPc, BeforeDrive, AfterDrive
<1>7. ControlTick => SampleNow \/ DelayUntil \/ SameSchedule
  <2> USE DEF SameSchedule, timeVars, TickPc, BeforeDrive, AfterDrive
  <2>1. SnapshotCmd \/ Measure \/ Spin => SameSchedule
    BY DEF SnapshotCmd, Measure, Spin
  <2>2. UpdateX \/ UpdateY \/ UpdateHeading => SameSchedule
    BY DEF UpdateX, UpdateY, UpdateHeading, UpdateOdom
  <2>3. PublishOdom \/ ReadImu \/ PublishImu => SameSchedule
    BY DEF PublishOdom, ReadImu, PublishImu
  <2> QED
    BY <2>1, <2>2, <2>3 DEF ControlTick
<1>8. UrosCall => SameSchedule
  BY DEF UrosCall, UrosDelay, SetCmdSample, SetCmdStore, GetOdom, GetImu,
         Publish, SameSchedule, timeVars
<1>9. UNCHANGED vars => SameSchedule
  BY DEF SameSchedule, vars, timeVars
<1> QED
  BY <1>1, <1>2, <1>3, <1>4, <1>5, <1>6, <1>7, <1>8, <1>9 DEF Next

(* What the snapshot's test of the age means in true time: a command that   *)
(* passes it was younger than the deadman when the tick sampled now.        *)
LEMMA SnapshotIsFresh ==
  ASSUME TypeOK, StampInv, ScheduleInv, pc = "snap", ~Deadman,
         stampAge < TICK_MOD
  PROVE  stampAge < CMD_TIMEOUT_MS + Sub(tick, now)
<1>1. tick \in Ticks /\ now \in Ticks /\ last \in Ticks /\ prev_cmd_ms \in Ticks
  BY DEF TypeOK
<1>2. Sub(tick, now) \in Int /\ Sub(now, prev_cmd_ms) \in Int
      /\ Sub(tick, last) \in Int
  BY <1>1, SubInt
<1>3. Sub(tick, now) <= MAX_LAG
  BY <1>2 DEF ScheduleInv, TickPc, BeforeDrive
<1>4. Sub(now, prev_cmd_ms) < CMD_TIMEOUT_MS
  BY <1>2 DEF Deadman
<1>5. Sub(tick, prev_cmd_ms) = Sub(tick, now) + Sub(now, prev_cmd_ms)
  BY <1>1, <1>2, <1>3, <1>4, SubSum
<1> QED
  BY <1>2, <1>4, <1>5 DEF StampInv

(* The copied command stays younger than the deadman, counted at now.       *)
LEMMA LcmdStep ==
  TypeOK /\ StampInv /\ ScheduleInv /\ LcmdInv /\ [Next]_vars => LcmdInv'
<1> SUFFICES ASSUME TypeOK, StampInv, ScheduleInv, LcmdInv, [Next]_vars
             PROVE  LcmdInv'
  OBVIOUS
<1>0. tick \in Ticks /\ now \in Ticks /\ last \in Ticks /\ lcmdAge \in TrueAges
  BY DEF TypeOK
<1>1. CASE TickInterrupt
  <2> SUFFICES ASSUME lcmd # ZeroCmd, lcmdAge' < TICK_MOD
               PROVE  /\ pc' \in {"measure", "drive"}
                      /\ lcmdAge' < CMD_TIMEOUT_MS + Sub(tick', now')
    BY <1>1 DEF TickInterrupt, LcmdInv
  <2>1. /\ tick' = Add(tick, 1) /\ now' = now
        /\ lcmdAge' = Older(lcmdAge)
        /\ pc \in {"measure", "drive"} /\ pc' = pc
        /\ Sub(tick, last) < MAX_LAG
    BY <1>1 DEF TickInterrupt, LcmdInv, Anchor, InitPc
  <2>2. Sub(tick, now) < MAX_LAG
    BY <1>0, SubInt, <2>1 DEF ScheduleInv, TickPc, BeforeDrive
  <2>3. Sub(tick', now') = Sub(tick, now) + 1
    BY <1>0, SubInt, <2>1, <2>2, SubLater
  <2>4. lcmdAge < TICK_MOD /\ lcmdAge' = lcmdAge + 1
    BY <1>0, <2>1 DEF Older, TrueAges
  <2> QED
    BY <1>0, SubInt, <2>1, <2>3, <2>4 DEF LcmdInv, TrueAges
<1>2. CASE SnapshotCmd
  <2>1. /\ pc = "snap" /\ pc' = "measure" /\ tick' = tick /\ now' = now
        /\ lcmd' # ZeroCmd => ~Deadman /\ lcmdAge' = stampAge
    BY <1>2 DEF SnapshotCmd, timeVars
  <2> QED
    BY <2>1, SnapshotIsFresh DEF LcmdInv
<1>3. CASE Measure
  BY <1>3 DEF Measure, LcmdInv, timeVars, motorVars
<1>4. CASE Spin
  BY <1>4 DEF Spin, LcmdInv, timeVars
<1>5. CASE lcmd = ZeroCmd /\ lcmd' = lcmd
  BY <1>5 DEF LcmdInv
<1>6. CASE UNCHANGED <<tick, now, lcmd, lcmdAge, pc>>
  BY <1>6 DEF LcmdInv
<1>7. ControlInit => lcmd = ZeroCmd /\ lcmd' = lcmd
  BY DEF ControlInit, InitSampleTime, InitStoreTime, InitClearWz, InitReadWz,
         InitClearY, InitReadY, InitClearX, InitStore, InitReadBack, InitLast,
         motorVars, LcmdInv
<1>8. ControlTick => SnapshotCmd \/ Measure \/ Spin
                     \/ (lcmd = ZeroCmd /\ lcmd' = lcmd)
  BY DEF ControlTick, SampleNow, UpdateX, UpdateY, UpdateHeading, UpdateOdom,
         PublishOdom, ReadImu, PublishImu, DelayUntil, motorVars, LcmdInv
<1>9. UrosCall => UNCHANGED <<tick, now, lcmd, lcmdAge, pc>>
  BY DEF UrosCall, UrosDelay, SetCmdSample, SetCmdStore, GetOdom, GetImu,
         Publish, timeVars, motorVars
<1>10. UNCHANGED vars => UNCHANGED <<tick, now, lcmd, lcmdAge, pc>>
  BY DEF vars, timeVars, motorVars
<1> QED
  BY <1>1, <1>2, <1>3, <1>4, <1>5, <1>6, <1>7, <1>8, <1>9, <1>10 DEF Next

(* The loop over the motors: each step extends the part of the motors that  *)
(* follows the tick's command, the last completes it.                       *)
LEMMA LoopStep == TypeOK /\ LoopInv /\ [Next]_vars => LoopInv'
<1> SUFFICES ASSUME TypeOK, LoopInv, [Next]_vars PROVE LoopInv'
  OBVIOUS
<1>0. wheel \in Wheels
      /\ \A w \in Wheels : w \in Nat /\ 1 <= w /\ w <= WHEELS
  BY DEF TypeOK, Wheels
<1>1. CASE Spin
  <2>1. /\ pc = "drive"
        /\ \A v \in Wheels : v < wheel => drive[v] = lcmd
        /\ \A v \in Wheels : drive'[v] = IF v = wheel THEN lcmd ELSE drive[v]
    BY <1>1 DEF Spin, LoopInv, TypeOK
  <2>2. CASE wheel < WHEELS
    <3>1. wheel' = wheel + 1 /\ lcmd' = lcmd /\ pc' = pc
      BY <1>1, <2>2 DEF Spin
    <3>2. \A v \in Wheels : v < wheel' => drive'[v] = lcmd'
      BY <1>0, <2>1, <3>1
    <3>3. \A v \in Wheels : Driven(v)' <=> v < wheel'
      BY <2>1, <3>1 DEF Driven, AfterDrive
    <3>4. \A v \in Wheels : ~(v < wheel')
             => ~Driven(v) /\ drive'[v] = drive[v]
      BY <1>0, <2>1, <3>1 DEF Driven, AfterDrive
    <3> QED
      BY <2>1, <3>1, <3>2, <3>3, <3>4 DEF LoopInv
  <2>3. CASE ~(wheel < WHEELS)
    <3>1. wheel' = 1 /\ pc' = "odom_x" /\ wheel = WHEELS
      BY <1>0, <1>1, <2>3 DEF Spin
    <3>2. \A v \in Wheels : drive'[v] = lcmd
      BY <1>0, <2>1, <3>1
    <3> QED
      BY <3>1, <3>2 DEF LoopInv
  <2> QED
    BY <2>2, <2>3
<1>2. CASE UNCHANGED <<wheel, drive>> /\ pc # "drive" /\ wheel = 1
  <2>1. \A v, w \in Wheels : drive[v] = drive[w]
    BY <1>2 DEF LoopInv, Driven
  <2>2. \A v \in Wheels : ~(v < wheel)
    BY <1>0, <1>2
  <2> QED
    BY <1>2, <2>1, <2>2 DEF LoopInv
<1>3. CASE UNCHANGED <<wheel, drive, lcmd, pc>>
  BY <1>3 DEF LoopInv, Driven
<1>4. TickInterrupt => \/ UNCHANGED <<wheel, drive, lcmd, pc>>
                       \/ UNCHANGED <<wheel, drive>> /\ pc = "sleep"
  BY DEF TickInterrupt
<1>5. ControlInit => UNCHANGED <<wheel, drive>> /\ pc # "drive"
  BY DEF ControlInit, InitSampleTime, InitStoreTime, InitClearWz, InitReadWz,
         InitClearY, InitReadY, InitClearX, InitStore, InitReadBack, InitLast,
         motorVars
<1>6. ControlTick => Spin \/ (UNCHANGED <<wheel, drive>> /\ pc # "drive")
  BY DEF ControlTick, SampleNow, SnapshotCmd, Measure, UpdateX, UpdateY,
         UpdateHeading, UpdateOdom, PublishOdom, ReadImu, PublishImu,
         DelayUntil, motorVars
<1>7. UrosCall \/ UNCHANGED vars => UNCHANGED <<wheel, drive, lcmd, pc>>
  BY DEF UrosCall, UrosDelay, SetCmdSample, SetCmdStore, GetOdom, GetImu,
         Publish, vars, motorVars
<1>8. pc # "drive" => wheel = 1
  BY DEF LoopInv
<1> QED
  BY <1>1, <1>2, <1>3, <1>4, <1>5, <1>6, <1>7, <1>8 DEF Next

LEMMA LoopInvariant == Spec => []LoopInv
<1>1. Init => LoopInv
  <2> SUFFICES ASSUME Init PROVE LoopInv
    OBVIOUS
  <2>1. \A v, w \in Wheels : drive[v] = drive[w]
    BY DEF Init
  <2>2. pc = "boot" /\ wheel = 1
    BY DEF Init
  <2> QED
    BY <2>1, <2>2 DEF LoopInv
<1> QED
  BY <1>1, LoopStep, TypeCorrect, PTL DEF Spec

(* The command on a motor is younger than the deadman plus the time since   *)
(* the start of the period whose tick drove it.                             *)
LEMMA DriveStep ==
  TypeOK /\ DeadmanInv /\ LoopInv /\ [Next]_vars => DriveInv'
<1> SUFFICES ASSUME TypeOK, DeadmanInv, LoopInv, [Next]_vars,
                    NEW w \in Wheels, drive'[w] # ZeroCmd
             PROVE  /\ pc' \notin InitPc
                    /\ driveAge'[w] < TICK_MOD
                         => driveAge'[w] < CMD_TIMEOUT_MS + SincePeriod(w)'
  BY DEF DriveInv
<1>0. tick \in Ticks /\ now \in Ticks /\ last \in Ticks
      /\ driveAge \in [Wheels -> TrueAges] /\ lcmdAge \in TrueAges
      /\ drive \in [Wheels -> [Axis -> Values]] /\ wheel \in Wheels
  BY DEF TypeOK
<1>a. driveAge[w] \in TrueAges
  BY <1>0
<1>l. Sub(tick, last) \in Int /\ Sub(last, tick) \in Int
  BY <1>0, SubInt
<1>i. StampInv /\ ScheduleInv /\ LcmdInv
  BY DEF DeadmanInv
<1>j. drive[w] # ZeroCmd =>
         /\ pc \notin InitPc
         /\ driveAge[w] < TICK_MOD
              => driveAge[w] < CMD_TIMEOUT_MS + SincePeriod(w)
  BY DEF DeadmanInv, DriveInv
<1>t. pc \in InitPc \/ pc \in BeforeDrive \/ pc \in AfterDrive \/ pc = "sleep"
  BY DEF TypeOK, TickPc
<1>1. CASE TickInterrupt
  <2>0. drive' = drive
    BY <1>1 DEF TickInterrupt
  <2>1. /\ tick' = Add(tick, 1) /\ last' = last /\ wheel' = wheel
        /\ driveAge'[w] = Older(driveAge[w])
        /\ pc' = IF pc = "sleep" /\ tick' = last THEN "top" ELSE pc
        /\ pc \notin InitPc
        /\ pc \in TickPc => Sub(tick, last) < MAX_LAG
    BY <1>1, <1>j, <2>0
       DEF TickInterrupt, Anchor, InitPc, TickPc, BeforeDrive, AfterDrive
  <2>2. driveAge'[w] < TICK_MOD
           => driveAge[w] < TICK_MOD /\ driveAge'[w] = driveAge[w] + 1
    BY <1>a, <2>1 DEF Older, TrueAges
  <2>3. SincePeriod(w)' = SincePeriod(w) + 1 /\ SincePeriod(w) \in Int
    <3>1. CASE pc = "sleep" /\ tick' = last
      <4>1. Sub(last, tick) = 1
        <5>1. tick' \in Ticks
          BY <1>0, <2>1, AddType
        <5>2. Sub(last, tick') = Sub(last, tick) - 1
          BY <1>0, SubInt, <1>i, <2>1, <3>1, SubNearer DEF ScheduleInv
        <5> QED
          BY <1>0, SubInt, <3>1, <5>1, <5>2, SubZero
      <4>2. Sub(tick', last') = 0
        BY <1>0, <2>1, <3>1, SubZero
      <4> QED
        BY <2>1, <3>1, <4>1, <4>2 DEF SincePeriod, Driven, AfterDrive
    <3>2. CASE pc = "sleep" /\ tick' # last
      <4>1. Sub(last', tick') = Sub(last, tick) - 1
        BY <1>0, SubInt, <1>i, <2>1, <3>2, SubNearer DEF ScheduleInv
      <4> QED
        <5>1. pc = "sleep" /\ pc' = "sleep" /\ ~Driven(w) /\ ~Driven(w)'
          BY <2>1, <3>2 DEF Driven, AfterDrive
        <5>2. /\ SincePeriod(w) = PERIOD - Sub(last, tick)
              /\ SincePeriod(w)' = PERIOD - (Sub(last, tick) - 1)
          BY <4>1, <5>1 DEF SincePeriod
        <5> QED
          BY <1>l, <5>2
    <3>3. CASE pc # "sleep"
      <4>1. pc \in TickPc /\ pc' = pc
        BY <1>t, <2>1, <3>3 DEF TickPc
      <4>2. Sub(tick', last') = Sub(tick, last) + 1
        BY <1>0, SubInt, <2>1, <4>1, SubLater
      <4> QED
        <5>1. Driven(w)' <=> Driven(w)
          BY <2>1, <4>1 DEF Driven
        <5>2. /\ SincePeriod(w) = IF Driven(w) THEN Sub(tick, last)
                                  ELSE PERIOD + Sub(tick, last)
              /\ SincePeriod(w)' = IF Driven(w) THEN Sub(tick, last) + 1
                                   ELSE PERIOD + Sub(tick, last) + 1
          BY <1>l, <3>3, <4>1, <4>2, <5>1 DEF SincePeriod
        <5> QED
          BY <1>l, <5>2
    <3> QED
      BY <3>1, <3>2, <3>3
  <2>4. pc' \notin InitPc
    BY <2>1 DEF InitPc
  <2>5. driveAge[w] < TICK_MOD
           => driveAge[w] < CMD_TIMEOUT_MS + SincePeriod(w)
    BY <1>j, <2>0
  <2> QED
    BY <1>a, <2>2, <2>3, <2>4, <2>5 DEF TrueAges
<1>2. CASE Spin
  <2>0. /\ pc = "drive" /\ tick' = tick /\ last' = last
        /\ Sub(tick, now) <= Sub(tick, last)
    BY <1>2, <1>i DEF Spin, timeVars, ScheduleInv, TickPc, BeforeDrive
  <2>n. pc' \notin InitPc
    BY <1>2 DEF Spin, InitPc
  <2>w. w \in Int /\ wheel \in Int /\ w <= WHEELS /\ wheel <= WHEELS
    BY <1>0 DEF Wheels
  <2>1. CASE w = wheel
    <3>1. drive'[w] = lcmd /\ driveAge'[w] = lcmdAge
      BY <1>2, <1>0, <2>1 DEF Spin
    <3>2. SincePeriod(w)' = Sub(tick, last)
      BY <1>2, <2>0, <2>1, <2>w DEF SincePeriod, Spin, Driven, AfterDrive
    <3> QED
      BY <1>0, SubInt, <1>i, <2>0, <2>n, <3>1, <3>2 DEF LcmdInv, TrueAges
  <2>2. CASE w # wheel
    <3>1. drive'[w] = drive[w] /\ driveAge'[w] = driveAge[w]
      BY <1>2, <1>0, <2>2 DEF Spin
    <3>2. SincePeriod(w)' = SincePeriod(w)
      BY <1>2, <2>0, <2>2, <2>w DEF SincePeriod, Spin, Driven, AfterDrive
    <3> QED
      BY <1>j, <2>n, <3>1, <3>2
  <2> QED
    BY <2>1, <2>2
<1>3. CASE DelayUntil
  <2>1. /\ tick' = tick /\ last' = Add(last, PERIOD)
        /\ pc' = IF Sub(tick, last) < PERIOD THEN "sleep" ELSE "top"
        /\ pc = "delay" /\ drive' = drive /\ driveAge' = driveAge
    BY <1>3 DEF DelayUntil, motorVars
  <2>2. PERIOD \in 0 .. TICK_MOD - 1
    OBVIOUS
  <2>3. SincePeriod(w)' = Sub(tick, last)
    <3>1. CASE Sub(tick, last) < PERIOD
      <4>1. Sub(last', tick') = PERIOD - Sub(tick, last)
        BY <1>0, SubInt, <2>1, <2>2, <3>1, SubOfAdd
      <4> QED
        BY <1>0, SubInt, <2>1, <3>1, <4>1 DEF SincePeriod, Driven, AfterDrive
    <3>2. CASE ~(Sub(tick, last) < PERIOD)
      <4>1. Sub(tick', last') = Sub(tick, last) - PERIOD
        BY <1>0, SubInt, <2>1, <2>2, <3>2, SubOfAdd
      <4> QED
        BY <1>0, SubInt, <2>1, <3>2, <4>1 DEF SincePeriod, Driven, AfterDrive
    <3> QED
      BY <3>1, <3>2
  <2>4. SincePeriod(w) = Sub(tick, last)
    BY <2>1 DEF SincePeriod, Driven, AfterDrive
  <2> QED
    BY <1>j, <2>1, <2>3, <2>4 DEF InitPc
<1>4. CASE ControlInit
  <2>1. pc \in InitPc /\ drive' = drive
    BY <1>4 DEF ControlInit, InitSampleTime, InitStoreTime, InitClearWz,
                InitReadWz, InitClearY, InitReadY, InitClearX, InitStore,
                InitReadBack, InitLast, motorVars, InitPc
  <2> QED
    BY <1>j, <2>1
<1>5. CASE /\ UNCHANGED <<tick, last, wheel, drive, driveAge>>
           /\ \/ pc' = pc
              \/ pc \in BeforeDrive /\ pc' \in BeforeDrive /\ wheel = 1
              \/ pc \in AfterDrive /\ pc' \in AfterDrive
  <2>1. pc' \in InitPc => pc' = pc
    BY <1>5 DEF InitPc, BeforeDrive, AfterDrive
  <2>2. SincePeriod(w)' = SincePeriod(w)
    <3>1. Driven(w)' <=> Driven(w)
      BY <1>5 DEF Driven, BeforeDrive, AfterDrive, Wheels
    <3>2. pc' = "sleep" <=> pc = "sleep"
      BY <1>5 DEF BeforeDrive, AfterDrive
    <3> QED
      BY <1>5, <3>1, <3>2 DEF SincePeriod
  <2> QED
    BY <1>j, <1>5, <2>1, <2>2
<1>6. SampleNow \/ SnapshotCmd \/ Measure =>
         /\ UNCHANGED <<tick, last, wheel, drive, driveAge>>
         /\ pc \in BeforeDrive /\ pc' \in BeforeDrive /\ wheel = 1
  BY DEF SampleNow, SnapshotCmd, Measure, timeVars, motorVars, BeforeDrive,
         LoopInv
<1>7. UpdateX \/ UpdateY \/ UpdateHeading \/ PublishOdom \/ ReadImu
      \/ PublishImu => /\ UNCHANGED <<tick, last, wheel, drive, driveAge>>
         /\ pc \in AfterDrive /\ pc' \in AfterDrive
  BY DEF UpdateX, UpdateY, UpdateHeading, UpdateOdom, PublishOdom, ReadImu,
         PublishImu, timeVars, motorVars, AfterDrive
<1>8. UrosCall => UNCHANGED <<tick, last, wheel, drive, driveAge, pc>>
  BY DEF UrosCall, UrosDelay, SetCmdSample, SetCmdStore, GetOdom, GetImu,
         Publish, timeVars, motorVars
<1>9. UNCHANGED vars => UNCHANGED <<tick, last, wheel, drive, driveAge, pc>>
  BY DEF vars, timeVars, motorVars
<1> QED
  BY <1>1, <1>2, <1>3, <1>4, <1>5, <1>6, <1>7, <1>8, <1>9 DEF Next, ControlTick

(* All parts of the deadman's inductive invariant hold in every reachable   *)
(* state.                                                                   *)
LEMMA DeadmanInvariant == Spec => []DeadmanInv
<1>1. Init => DeadmanInv
  BY SubZero
     DEF Init, DeadmanInv, StampInv, ScheduleInv, LcmdInv, DriveInv, Ticks,
         TickPc, BeforeDrive, AfterDrive
<1>2. TypeOK /\ LoopInv /\ DeadmanInv /\ [Next]_vars => DeadmanInv'
  BY StampStep, ScheduleStep, LcmdStep, DriveStep DEF DeadmanInv
<1> QED
  BY <1>1, <1>2, TypeCorrect, LoopInvariant, PTL DEF Spec

(* The deadman of control_loop_tick: for every schedule of the two tasks,   *)
(* the motors never follow a command for longer than                        *)
(* CMD_TIMEOUT_MS - 1 + PERIOD + MAX_LAG after control_set_cmd stamped it.  *)
THEOREM DeadmanBound == Spec => []MotorsStopInTime
<1>1. TypeOK /\ DeadmanInv => MotorsStopInTime
  <2> SUFFICES ASSUME TypeOK, DeadmanInv, NEW w \in Wheels,
                      drive[w] # ZeroCmd, driveAge[w] < TICK_MOD
               PROVE  driveAge[w] <= HoldBound
    BY DEF MotorsStopInTime
  <2>1. /\ driveAge[w] < CMD_TIMEOUT_MS + SincePeriod(w)
        /\ pc \in TickPc \/ pc = "sleep"
        /\ driveAge[w] \in Int
    BY DEF DeadmanInv, DriveInv, TypeOK, TrueAges
  <2>2. Sub(tick, last) \in Int /\ Sub(last, tick) \in Int
        /\ Sub(tick, last) >= 0 /\ Sub(last, tick) >= 0
    BY SubInt DEF TypeOK
  <2>3. SincePeriod(w) <= PERIOD + MAX_LAG /\ SincePeriod(w) \in Int
    BY <2>1, <2>2
       DEF SincePeriod, Driven, DeadmanInv, ScheduleInv, TickPc, BeforeDrive,
           AfterDrive
  <2> QED
    BY <2>1, <2>3 DEF HoldBound
<1> QED
  BY <1>1, TypeCorrect, DeadmanInvariant, PTL

(* The deadman never drops a live command by mistake, except the one that   *)
(* was stamped after the tick's own sample of the time.                     *)
THEOREM DeadmanPrecision == Spec => DeadmanOnlyWhenExpiredOrRaced
<1> DEFINE A == SnapshotCmd /\ cmd # ZeroCmd /\ lcmd' = ZeroCmd
                /\ stampAge < TICK_MOD
               => \/ stampAge >= CMD_TIMEOUT_MS + Sub(tick, now)
                  \/ stampAge < Sub(tick, now)
<1>1. TypeOK /\ DeadmanInv => A
  <2> SUFFICES ASSUME TypeOK, DeadmanInv, SnapshotCmd, cmd # ZeroCmd,
                      lcmd' = ZeroCmd, stampAge < TICK_MOD,
                      stampAge >= Sub(tick, now)
               PROVE  stampAge >= CMD_TIMEOUT_MS + Sub(tick, now)
    BY SubInt DEF TypeOK, TrueAges
  <2>1. Sub(now, prev_cmd_ms) >= CMD_TIMEOUT_MS
    BY DEF SnapshotCmd, Deadman
  <2>2. stampAge = Sub(tick, prev_cmd_ms)
    BY DEF DeadmanInv, StampInv
  <2>3. Sub(tick, prev_cmd_ms) = Sub(tick, now) + Sub(now, prev_cmd_ms)
    BY <2>2 DEF TypeOK, Ticks, Sub
  <2> QED
    BY <2>1, <2>2, <2>3, SubType DEF TypeOK, Ticks
<1>2. TypeOK /\ DeadmanInv /\ [Next]_vars => [A]_vars
  BY <1>1
<1> QED
  BY <1>2, TypeCorrect, DeadmanInvariant, PTL
     DEF Spec, DeadmanOnlyWhenExpiredOrRaced
-----------------------------------------------------------------------------
(***************************************************************************)
(* The data ControlLoop hands from one task to the other: the command, the *)
(* odometry and the IMU sample, and the two time bases of a tick.          *)
(***************************************************************************)

(* The steps of control_task whose effect none of the proofs below is about *)
(* leave the time bases alone.                                              *)
LEMMA OdomTimeStep ==
  TypeOK /\ ScheduleInv /\ OdomTimeInv /\ [Next]_vars => OdomTimeInv'
<1> SUFFICES ASSUME TypeOK, ScheduleInv, OdomTimeInv, [Next]_vars
             PROVE  OdomTimeInv'
  OBVIOUS
<1> USE DEF OdomTimeInv, OdomTimeKeepsUp
<1>1. CASE InitSampleTime
  BY <1>1 DEF InitSampleTime
<1>2. CASE Measure
  <2>1. Sub(tick, now) <= Sub(tick, last) /\ Sub(tick, last) <= MAX_LAG
    BY <1>2 DEF Measure, ScheduleInv, TickPc, BeforeDrive
  <2>2. Sub(tick, now) \in Int /\ Sub(tick, last) \in Int
    BY SubInt DEF TypeOK
  <2> QED
    BY <1>2, <2>1, <2>2 DEF Measure
<1>3. CASE UNCHANGED odomTimeVars /\ pc' # "boot"
  BY <1>3 DEF odomTimeVars
<1>4. CASE UNCHANGED <<odomTimeVars, pc>>
  BY <1>4 DEF odomTimeVars
<1>5. TickInterrupt => UNCHANGED odomTimeVars /\ (pc' = pc \/ pc' = "top")
  BY DEF TickInterrupt
<1>6. ControlInit => InitSampleTime \/ (UNCHANGED odomTimeVars /\ pc' # "boot")
  BY DEF ControlInit, InitStoreTime, InitClearWz, InitReadWz, InitClearY,
         InitReadY, InitClearX, InitStore, InitReadBack, InitLast
<1>7. ControlTick => Measure \/ (UNCHANGED odomTimeVars /\ pc' # "boot")
  BY DEF ControlTick, SampleNow, SnapshotCmd, Spin, UpdateX, UpdateY,
         UpdateHeading, UpdateOdom, PublishOdom, ReadImu, PublishImu, DelayUntil
<1>8. UrosCall => UNCHANGED <<odomTimeVars, pc>>
  BY DEF UrosCall, UrosDelay, SetCmdSample, SetCmdStore, GetOdom, GetImu,
         Publish
<1>9. UNCHANGED vars => UNCHANGED <<odomTimeVars, pc>>
  BY DEF vars
<1> QED
  BY <1>1, <1>2, <1>3, <1>4, <1>5, <1>6, <1>7, <1>8, <1>9 DEF Next

(* Odometry integrates over differences of now, the wheel speeds are taken  *)
(* over differences of a later sample; for every schedule the two sums stay *)
(* within MAX_LAG of one another.                                           *)
THEOREM OdomTimeBound == Spec => []OdomTimeKeepsUp
<1>1. Init => OdomTimeInv
  BY DEF Init, OdomTimeInv, OdomTimeKeepsUp
<1>2. TypeOK /\ DeadmanInv /\ OdomTimeInv /\ [Next]_vars => OdomTimeInv'
  BY OdomTimeStep DEF DeadmanInv
<1>3. OdomTimeInv => OdomTimeKeepsUp
  BY DEF OdomTimeInv
<1> QED
  BY <1>1, <1>2, <1>3, TypeCorrect, DeadmanInvariant, PTL DEF Spec

-----------------------------------------------------------------------------
LEMMA ZeroIsWhole == Whole(ZeroCmd)
  BY DEF Whole, ZeroCmd

(* Every step keeps the copies of the command whole, or what                *)
(* control_loop_init left of one.                                           *)
LEMMA WholeStep == TypeOK /\ WholeInv /\ [Next]_vars => WholeInv'
<1> SUFFICES ASSUME TypeOK, WholeInv, [Next]_vars PROVE WholeInv'
  OBVIOUS
<1> USE DEF WholeInv
<1>0. drive \in [Wheels -> [Axis -> Values]] /\ wheel \in Wheels
  BY DEF TypeOK
<1>1. CASE TickInterrupt
  BY <1>1 DEF TickInterrupt, OneOrInit, Whole, InitPc, initVars
<1>2. CASE InitLast
  <2>1. /\ pc \in InitPc /\ pc' \notin InitPc /\ initCmd' = cmd /\ cmd' = cmd
        /\ lcmd' = lcmd /\ drive' = drive
    BY <1>2 DEF InitLast, InitPc, cmdVars, motorVars
  <2> QED
    BY <2>1, ZeroIsWhole DEF OneOrInit, Whole
<1>3. CASE ControlInit /\ ~InitLast
  <2>1. /\ pc \in InitPc /\ pc' \in InitPc
        /\ lcmd' = lcmd /\ drive' = drive
    BY <1>3 DEF ControlInit, InitSampleTime, InitStoreTime, InitClearWz,
                InitReadWz, InitClearY, InitReadY, InitClearX, InitStore,
                InitReadBack, InitPc, motorVars
  <2> QED
    BY <2>1, ZeroIsWhole DEF OneOrInit, Whole
<1>4. CASE SnapshotCmd
  <2>1. /\ lcmd' = ZeroCmd \/ lcmd' = cmd
        /\ pc \notin InitPc /\ pc' \notin InitPc
        /\ UNCHANGED <<cmd, drive, initCmd>>
    BY <1>4 DEF SnapshotCmd, cmdVars, initVars, InitPc
  <2> QED
    BY <2>1, ZeroIsWhole DEF OneOrInit, Whole
<1>5. CASE Spin
  <2>1. /\ \A w \in Wheels : drive'[w] = IF w = wheel THEN lcmd ELSE drive[w]
        /\ lcmd' = lcmd \/ lcmd' = ZeroCmd
        /\ pc \notin InitPc /\ pc' \notin InitPc
        /\ UNCHANGED <<cmd, initCmd>>
    BY <1>0, <1>5 DEF Spin, cmdVars, initVars, InitPc
  <2> QED
    BY <2>1, ZeroIsWhole DEF OneOrInit, Whole
<1>6. CASE SetCmdStore
  <2>1. /\ Whole(cmd')
        /\ UNCHANGED <<lcmd, drive, initCmd, pc>>
    BY <1>6 DEF SetCmdStore, Whole, motorVars, initVars
  <2> QED
    BY <2>1 DEF OneOrInit, Whole
<1>7. CASE UNCHANGED <<cmd, lcmd, drive, initCmd>>
           /\ (pc' = pc \/ (pc \notin InitPc /\ pc' \notin InitPc))
  BY <1>7 DEF OneOrInit, Whole
<1>8. ControlTick => SnapshotCmd \/ Spin
         \/ (UNCHANGED <<cmd, lcmd, drive, initCmd>>
             /\ pc \notin InitPc /\ pc' \notin InitPc)
  BY DEF ControlTick, SampleNow, Measure, UpdateX, UpdateY, UpdateHeading,
         UpdateOdom, PublishOdom, ReadImu, PublishImu, DelayUntil, cmdVars,
         motorVars, initVars, InitPc
<1>9. UrosCall => SetCmdStore \/ UNCHANGED <<cmd, lcmd, drive, initCmd, pc>>
  BY DEF UrosCall, UrosDelay, SetCmdSample, GetOdom, GetImu, Publish, cmdVars,
         motorVars, initVars
<1>10. UNCHANGED vars => UNCHANGED <<cmd, lcmd, drive, initCmd, pc>>
  BY DEF vars, cmdVars, motorVars, initVars
<1> QED
  BY <1>1, <1>2, <1>3, <1>4, <1>5, <1>6, <1>7, <1>8, <1>9, <1>10 DEF Next

(* Wherever uros_task preempts control_loop_init, the snapshot of a command *)
(* or the loop over the motors, no motor is driven by axes of two commands  *)
(* other than those control_loop_init left, and after the loop all motors   *)
(* follow the same command.                                                 *)
THEOREM CommandCoherent == Spec => []MotorsFollowOneCommand
<1>1. Init => WholeInv
  BY ZeroIsWhole DEF Init, WholeInv, OneOrInit, InitPc
<1>2. TypeOK /\ WholeInv /\ [Next]_vars => WholeInv'
  BY WholeStep
<1>3. WholeInv /\ LoopInv => MotorsFollowOneCommand
  <2> SUFFICES ASSUME WholeInv, LoopInv PROVE MotorsFollowOneCommand
    OBVIOUS
  <2>1. pc # "drive" => \A v, w \in Wheels : Driven(v) <=> Driven(w)
    BY DEF Driven
  <2> QED
    BY <2>1 DEF WholeInv, LoopInv, OneOrInit, MotorsFollowOneCommand
<1> QED
  BY <1>1, <1>2, <1>3, LoopInvariant, TypeCorrect, PTL DEF Spec

-----------------------------------------------------------------------------
(* The stores of OdomIntegrator::update complete the pose before it is      *)
(* published; nothing else touches it in between.                           *)
LEMMA PoseStep == TypeOK /\ PoseInv /\ [Next]_vars => PoseInv'
<1> SUFFICES ASSUME TypeOK, PoseInv, [Next]_vars PROVE PoseInv'
  OBVIOUS
<1> USE DEF PoseInv
<1>0. pose \in [PoseField -> SampleAges]
  BY DEF TypeOK
<1>1. CASE UpdateX
  BY <1>0, <1>1 DEF UpdateX, UpdateOdom, PoseField
<1>2. CASE UpdateY
  BY <1>0, <1>2 DEF UpdateY, UpdateOdom, PoseField
<1>3. CASE UpdateHeading
  BY <1>0, <1>3 DEF UpdateHeading, UpdateOdom, PoseField
<1>4. CASE UNCHANGED <<pose, pc>>
  BY <1>4
<1>5. CASE pc' \notin {"odom_y", "odom_heading", "pub_odom"}
  BY <1>5
<1>6. TickInterrupt => UNCHANGED <<pose, pc>> \/ pc' = "top"
  BY DEF TickInterrupt, snapVars
<1>7. ControlInit => pc' \notin {"odom_y", "odom_heading", "pub_odom"}
  BY DEF ControlInit, InitSampleTime, InitStoreTime, InitClearWz, InitReadWz,
         InitClearY, InitReadY, InitClearX, InitStore, InitReadBack, InitLast
<1>8. ControlTick => UpdateX \/ UpdateY \/ UpdateHeading
         \/ pc' \notin {"odom_y", "odom_heading", "pub_odom"}
  BY DEF ControlTick, SampleNow, SnapshotCmd, Measure, Spin, PublishOdom,
         ReadImu, PublishImu, DelayUntil
<1>9. UrosCall => UNCHANGED <<pose, pc>>
  BY DEF UrosCall, UrosDelay, SetCmdSample, SetCmdStore, GetOdom, GetImu,
         Publish, snapVars
<1>10. UNCHANGED vars => UNCHANGED <<pose, pc>>
  BY DEF vars, snapVars
<1> QED
  BY <1>1, <1>2, <1>3, <1>4, <1>5, <1>6, <1>7, <1>8, <1>9, <1>10 DEF Next

(* The odometry snapshot is replaced as a whole, and the IMU sample follows *)
(* it within the tick or not at all.                                        *)
LEMMA SnapStep == TypeOK /\ PoseInv /\ SnapInv /\ [Next]_vars => SnapInv'
<1> SUFFICES ASSUME TypeOK, PoseInv, SnapInv, [Next]_vars PROVE SnapInv'
  OBVIOUS
<1> USE DEF SnapInv
<1>0. odomSnap \in [OdomField -> SampleAges] /\ "twist" \in OdomField
  BY DEF TypeOK, OdomField
<1>1. CASE SampleNow
  <2>1. /\ pc = "top" /\ pc' = "snap" /\ imu_ok' = imu_ok
        /\ odomSnap' = [f \in OdomField |-> NextAge(odomSnap[f])]
        /\ imuSnap' = NextAge(imuSnap)
    BY <1>1 DEF SampleNow
  <2>2. imuSnap' # NEVER => imuSnap # NEVER
    BY <2>1 DEF NextAge, NEVER, STALE
  <2>3. imuSnap' # NEVER => odomSnap["twist"] = 0 /\ imuSnap = 0 /\ imu_ok
    BY <2>1, <2>2
  <2>4. imuSnap' # NEVER => odomSnap'["twist"] = 1 /\ imuSnap' = 1
    BY <1>0, <2>1, <2>3 DEF NextAge, STALE
  <2> QED
    BY <2>1, <2>3, <2>4 DEF InitPc
<1>2. CASE PublishOdom
  <2>1. /\ pc = "pub_odom" /\ imu_ok' = imu_ok /\ imuSnap' = imuSnap
        /\ odomSnap' = [f \in OdomField |->
                          IF f \in PoseField THEN pose[f] ELSE 0]
        /\ pc' = IF imu_ok THEN "imu" ELSE "delay"
    BY <1>2 DEF PublishOdom
  <2>2. \A f \in OdomField : odomSnap'[f] = 0
    BY <2>1 DEF PoseInv, OdomField, PoseField
  <2>3. imuSnap # NEVER => imu_ok /\ imuSnap = 1
    BY <2>1
  <2> QED
    BY <1>0, <2>1, <2>2, <2>3 DEF InitPc
<1>3. CASE ReadImu
  BY <1>3 DEF ReadImu, snapVars, InitPc
<1>4. CASE PublishImu
  BY <1>4 DEF PublishImu, InitPc, NEVER
<1>5. CASE DelayUntil
  BY <1>5 DEF DelayUntil, snapVars, InitPc
<1>6. CASE ControlInit
  <2>1. imuSnap = NEVER /\ imuSnap' = NEVER /\ odomSnap' = odomSnap
        /\ pc' \notin {"imu", "pub_imu"}
    BY <1>6 DEF ControlInit, InitSampleTime, InitStoreTime, InitClearWz,
                InitReadWz, InitClearY, InitReadY, InitClearX, InitStore,
                InitReadBack, InitLast, InitPc, snapVars
  <2> QED
    BY <2>1
<1>7. CASE /\ UNCHANGED <<odomSnap, imu_ok, imuSnap>>
           /\ pc \in {"snap", "measure", "drive", "odom_x", "odom_y",
                      "odom_heading"}
           /\ pc' \in {"measure", "drive", "odom_x", "odom_y",
                       "odom_heading", "pub_odom"}
  BY <1>7 DEF InitPc
<1>8. CASE /\ UNCHANGED <<odomSnap, imu_ok, imuSnap>>
           /\ pc' = pc \/ (pc = "sleep" /\ pc' = "top")
  BY <1>8 DEF InitPc
<1>9. ControlTick => SampleNow \/ PublishOdom \/ ReadImu \/ PublishImu
         \/ DelayUntil
         \/ /\ UNCHANGED <<odomSnap, imu_ok, imuSnap>>
            /\ pc \in {"snap", "measure", "drive", "odom_x", "odom_y",
                       "odom_heading"}
            /\ pc' \in {"measure", "drive", "odom_x", "odom_y",
                        "odom_heading", "pub_odom"}
  BY DEF ControlTick, SnapshotCmd, Measure, Spin, UpdateX, UpdateY,
         UpdateHeading, UpdateOdom, snapVars
<1>10. TickInterrupt => /\ UNCHANGED <<odomSnap, imu_ok, imuSnap>>
                        /\ pc' = pc \/ (pc = "sleep" /\ pc' = "top")
  BY DEF TickInterrupt, snapVars
<1>11. UrosCall => UNCHANGED <<odomSnap, imu_ok, imuSnap, pc>>
  BY DEF UrosCall, UrosDelay, SetCmdSample, SetCmdStore, GetOdom, GetImu,
         Publish, snapVars
<1>12. UNCHANGED vars => UNCHANGED <<odomSnap, imu_ok, imuSnap, pc>>
  BY DEF vars, snapVars
<1> QED
  BY <1>1, <1>2, <1>3, <1>4, <1>5, <1>6, <1>7, <1>8, <1>9, <1>10, <1>11, <1>12
     DEF Next

(* control_task does not run while uros_task fills a message pair.          *)
LEMMA MessageStep == MessageInv /\ [Next]_vars => MessageInv'
<1> SUFFICES ASSUME MessageInv, [Next]_vars PROVE MessageInv'
  OBVIOUS
<1> USE DEF MessageInv
<1>1. CASE TickInterrupt
  BY <1>1 DEF TickInterrupt, snapVars
<1>2. CASE ControlInit \/ ControlTick
  BY <1>2 DEF ControlInit, InitSampleTime, InitStoreTime, InitClearWz,
              InitReadWz, InitClearY, InitReadY, InitClearX, InitStore,
              InitReadBack, InitLast, ControlTick, SampleNow, SnapshotCmd,
              Measure, Spin, UpdateX, UpdateY, UpdateHeading, UpdateOdom,
              PublishOdom, ReadImu, PublishImu, DelayUntil, ControlRuns,
              urosVars
<1>3. CASE UrosCall
  BY <1>3 DEF UrosCall, UrosDelay, SetCmdSample, SetCmdStore, GetOdom, GetImu,
              Publish, snapVars
<1>4. CASE UNCHANGED vars
  BY <1>4 DEF vars, snapVars, urosVars
<1> QED
  BY <1>1, <1>2, <1>3, <1>4 DEF Next

(* Pose, snapshots and messages are as SampleInv says in every state.       *)
LEMMA SampleInvariant == Spec => []SampleInv
<1>1. Init => SampleInv
  BY DEF Init, SampleInv, PoseInv, SnapInv, MessageInv, AllNever
<1>2. TypeOK /\ SampleInv /\ [Next]_vars => SampleInv'
  BY PoseStep, SnapStep, MessageStep DEF SampleInv
<1> QED
  BY <1>1, <1>2, TypeCorrect, PTL DEF Spec

(* The pose and the velocities of a published odometry message are of one   *)
(* control tick, wherever uros_task preempted the update.                   *)
THEOREM OdomCoherent == Spec => []PublishedOdomIsOneTick
<1>1. SampleInv => PublishedOdomIsOneTick
  BY DEF SampleInv, SnapInv, MessageInv, PublishedOdomIsOneTick
<1> QED
  BY <1>1, SampleInvariant, PTL

(* The IMU sample published with it is of the same tick or of the one       *)
(* before.                                                                  *)
THEOREM ImuCoherent == Spec => []ImuIsAtMostOneTickBehind
<1>1. SampleInv => ImuIsAtMostOneTickBehind
  <2> SUFFICES ASSUME SampleInv, uros = "send", imu_msg # NEVER
               PROVE  imu_msg - odom_msg["twist"] \in {0, 1}
    BY DEF ImuIsAtMostOneTickBehind
  <2>1. imu_msg = imuSnap /\ odom_msg = odomSnap /\ imuSnap # NEVER
    BY DEF SampleInv, MessageInv
  <2>2. \/ odomSnap["twist"] = 0 /\ imuSnap = 0
        \/ odomSnap["twist"] = 0 /\ imuSnap = 1
        \/ odomSnap["twist"] = 1 /\ imuSnap = 1
    BY <2>1 DEF SampleInv, SnapInv
  <2> QED
    BY <2>1, <2>2
<1> QED
  BY <1>1, SampleInvariant, PTL
=============================================================================
