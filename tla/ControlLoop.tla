---------------------------- MODULE ControlLoop ----------------------------
(***************************************************************************)
(* The control task and the snapshot surface it shares with the micro-ROS  *)
(* task: firmware_stm32/Src/control_loop.cpp, run by control_task of       *)
(* main.c.                                                                 *)
(*                                                                         *)
(* Two FreeRTOS tasks share one core.  uros_task has the higher priority   *)
(* and is woken only by the tick interrupt (it waits in vTaskDelay alone), *)
(* so it preempts control_task between any two of its steps, and           *)
(* control_task takes no step while uros_task is ready.  A                 *)
(* taskENTER_CRITICAL section is one action; every other store of          *)
(* control_task that uros_task can observe is an action of its own.        *)
(*                                                                         *)
(* uros_task is modelled here by the calls it makes on the surface; what   *)
(* makes it call them is module UrosTask.                                  *)
(*                                                                         *)
(* Data.  A velocity command is the triple of its axes; the three axes of  *)
(* one /cmd_vel carry the same member of Cmds, so that a triple with two   *)
(* different members is a torn one.  A pose, a body velocity or an IMU     *)
(* sample is represented by its age: how many control ticks ago it was     *)
(* computed.                                                               *)
(***************************************************************************)
EXTENDS Integers

CONSTANTS
    TICK_MOD,        \* the FreeRTOS tick count wraps here (2^32 in the build)
    CMD_TIMEOUT_MS,  \* the deadman, 200 ms
    PERIOD,          \* the period of control_task, 20 ms
    MAX_LAG,         \* bound: control_task is at most this late on its schedule
    Cmds,            \* the commands of /cmd_vel that move the base
    Zero,            \* the command that stops it
    WHEELS           \* motors of the base, 4 in the code

ASSUME TimeAssumption ==
    /\ TICK_MOD \in Nat
    /\ CMD_TIMEOUT_MS \in Nat \ {0}
    /\ PERIOD \in Nat \ {0}
    /\ MAX_LAG \in Nat
    /\ CMD_TIMEOUT_MS + PERIOD + MAX_LAG < TICK_MOD

ASSUME CmdAssumption == Zero \notin Cmds

ASSUME WheelAssumption == WHEELS \in Nat \ {0}

-----------------------------------------------------------------------------
(* The tick counter: uint32_t arithmetic, modulo TICK_MOD.                 *)

Ticks == 0 .. TICK_MOD - 1

Add(a, n) == IF a + n < TICK_MOD THEN a + n ELSE a + n - TICK_MOD

\* Mutant of Sub: signed, the difference does not wrap.
SubSigned(a, b) == a - b

Sub(a, b) == IF a >= b THEN a - b ELSE a - b + TICK_MOD

(* Time really elapsed since an event, counted up to one wrap of the tick. *)
TrueAges == 0 .. TICK_MOD

Older(age) == IF age < TICK_MOD THEN age + 1 ELSE age

-----------------------------------------------------------------------------
Axis == {"x", "y", "wz"}

Values == Cmds \cup {Zero}

ZeroCmd == [a \in Axis |-> Zero]

Whole(c) == \A a, b \in Axis : c[a] = c[b]

Wheels == 1 .. WHEELS

(* Control ticks since a sample was computed.  STALE stands for every age  *)
(* from 3 up, NEVER for a field that was never written.                    *)
STALE == 3

NEVER == 4

SampleAges == 0 .. NEVER

NextAge(a) == IF a < STALE THEN a + 1 ELSE a

PoseField == {"x", "y", "heading"}

OdomField == PoseField \cup {"twist"}

(* Where control_task is, by the store or call it makes next.              *)
InitPc == {"boot", "init_cmd_ms", "init_wz", "read_wz", "init_y", "read_y",
           "init_x", "init_last"}

BeforeDrive == {"top", "snap", "measure", "drive"}

AfterDrive == {"odom_x", "odom_y", "odom_heading", "pub_odom",
               "imu", "pub_imu", "delay"}

TickPc == BeforeDrive \cup AfterDrive

UrosPc == {"blocked", "run", "set", "pub", "send"}

-----------------------------------------------------------------------------
VARIABLES
    tick,          \* xTaskGetTickCount
    uros,          \* uros_task: blocked in vTaskDelay, running, or in a call
    setAt, setVal, \* now and the arguments in control_set_cmd
    cmd,           \* cmd_x, cmd_y, cmd_wz
    prev_cmd_ms,
    prev_odom_ms,
    pc,            \* control_task
    now,           \* now in control_loop_tick (the sample of line 103 in init)
    last,          \* last of control_task, for vTaskDelayUntil
    chain,         \* the value on its way along cmd_x = cmd_y = cmd_wz = 0
    lcmd,          \* lx, ly, lwz
    wheel,         \* i of the loop of ControlCore::step
    drive,         \* the command each motor was last driven for
    first_,        \* the encoders were not read yet
    rpmAt,         \* prev_us_ of the encoders, in ms
    pose,          \* odom.x, odom.y, odom.heading
    odomSnap,      \* last_x ... last_wz
    imu_ok,        \* g_dbg_imu_ok
    imuSnap,       \* g_imu_snap
    odom_msg, imu_msg,
    stampAge,      \* ghost: time since the instant prev_cmd_ms holds
    lcmdAge,       \* ghost: time since the command in lcmd was stamped
    driveAge,      \* ghost: time since the command in drive was stamped
    initCmd        \* ghost: the command that control_loop_init left stored

timeVars == <<tick, last, now>>
cmdVars == <<cmd, prev_cmd_ms, stampAge>>
motorVars == <<lcmd, lcmdAge, wheel, drive, driveAge>>
initVars == <<chain, initCmd>>
odomTimeVars == <<prev_odom_ms, first_, rpmAt>>
snapVars == <<pose, odomSnap, imu_ok, imuSnap>>
urosVars == <<uros, setAt, setVal, odom_msg, imu_msg>>
vars == <<timeVars, cmdVars, motorVars, initVars, odomTimeVars, snapVars,
          urosVars, pc>>

AllNever == [f \in OdomField |-> NEVER]

TypeOK ==
    /\ tick \in Ticks /\ last \in Ticks /\ now \in Ticks
    /\ cmd \in [Axis -> Values] /\ prev_cmd_ms \in Ticks
    /\ chain \in Values /\ initCmd \in [Axis -> Values]
    /\ lcmd \in [Axis -> Values] /\ wheel \in Wheels
    /\ drive \in [Wheels -> [Axis -> Values]]
    /\ stampAge \in TrueAges /\ lcmdAge \in TrueAges
    /\ driveAge \in [Wheels -> TrueAges]
    /\ prev_odom_ms \in Ticks /\ first_ \in BOOLEAN /\ rpmAt \in Ticks
    /\ pose \in [PoseField -> SampleAges]
    /\ odomSnap \in [OdomField -> SampleAges]
    /\ imu_ok \in BOOLEAN /\ imuSnap \in SampleAges
    /\ uros \in UrosPc /\ setAt \in Ticks /\ setVal \in Values
    /\ odom_msg \in [OdomField -> SampleAges] /\ imu_msg \in SampleAges
    /\ pc \in InitPc \cup TickPc \cup {"sleep"}

Init ==
    /\ tick = 0 /\ last = 0 /\ now = 0
    /\ cmd = ZeroCmd /\ prev_cmd_ms = 0 /\ stampAge = 0
    /\ chain = Zero /\ initCmd = ZeroCmd
    /\ lcmd = ZeroCmd /\ lcmdAge = 0 /\ wheel = 1
    /\ drive = [w \in Wheels |-> ZeroCmd] /\ driveAge = [w \in Wheels |-> 0]
    /\ prev_odom_ms = 0 /\ first_ = TRUE /\ rpmAt = 0
    /\ pose = [f \in PoseField |-> NEVER] /\ odomSnap = AllNever
    /\ imu_ok = FALSE /\ imuSnap = NEVER
    /\ uros = "run" /\ setAt = 0 /\ setVal = Zero
    /\ odom_msg = AllNever /\ imu_msg = NEVER
    /\ pc = "boot"

-----------------------------------------------------------------------------
(* The scheduler.  control_task runs only while uros_task is blocked.      *)

ControlRuns == uros = "blocked"

(* The instant from which the time control_task is behind is counted.      *)
Anchor == IF pc \in InitPc THEN now ELSE last

(* A tick interrupt: time advances, the ghosts age, a sleeping control_task *)
(* whose wake time has come becomes ready, and the delay of uros_task may   *)
(* expire.  MAX_LAG bounds how long either task is kept in one iteration.   *)
TickInterrupt ==
    /\ pc \notin {"boot", "sleep"} => Sub(tick, Anchor) < MAX_LAG
    /\ uros = "set" => Sub(tick, setAt) < MAX_LAG
    /\ tick' = Add(tick, 1)
    /\ stampAge' = Older(stampAge)
    /\ lcmdAge' = IF lcmd = ZeroCmd THEN lcmdAge ELSE Older(lcmdAge)
    /\ driveAge' = [w \in Wheels |-> IF drive[w] = ZeroCmd THEN driveAge[w]
                                     ELSE Older(driveAge[w])]
    /\ pc' = IF pc = "sleep" /\ tick' = last THEN "top" ELSE pc
    /\ uros' \in IF uros = "blocked" THEN {"blocked", "run"} ELSE {uros}
    /\ UNCHANGED <<last, now, cmd, prev_cmd_ms, lcmd, wheel, drive, initVars,
                   odomTimeVars, snapVars, setAt, setVal, odom_msg, imu_msg>>

-----------------------------------------------------------------------------
(* control_loop_init.  The boot step is everything up to the two plain      *)
(* assignment chains at its end; these run outside any critical section,    *)
(* and whether the session is up by then nobody waits for.                  *)

InitSampleTime ==
    /\ pc = "boot" /\ ControlRuns
    /\ imu_ok' \in BOOLEAN
    /\ now' = tick /\ prev_odom_ms' = tick
    /\ pc' = "init_cmd_ms"
    /\ UNCHANGED <<tick, last, cmdVars, motorVars, initVars, first_, rpmAt,
                   pose, odomSnap, imuSnap, urosVars>>

InitStoreTime ==
    /\ pc = "init_cmd_ms" /\ ControlRuns
    /\ prev_cmd_ms' = now /\ stampAge' = Sub(tick, now)
    /\ pc' = "init_wz"
    /\ UNCHANGED <<timeVars, cmd, motorVars, initVars, odomTimeVars, snapVars,
                   urosVars>>

(* cmd_x = cmd_y = cmd_wz = 0: three volatile stores, right to left.  The   *)
(* value stored next is the constant, or the field just stored read back.   *)
InitStore(at, a, next) ==
    /\ pc = at /\ ControlRuns
    /\ cmd' = [cmd EXCEPT ![a] = chain] /\ chain' = Zero
    /\ pc' = next
    /\ UNCHANGED <<timeVars, prev_cmd_ms, stampAge, motorVars, initCmd,
                   odomTimeVars, snapVars, urosVars>>

InitReadBack(at, a, next) ==
    /\ pc = at /\ ControlRuns
    /\ chain' \in {Zero, cmd[a]}
    /\ pc' = next
    /\ UNCHANGED <<timeVars, cmdVars, motorVars, initCmd, odomTimeVars,
                   snapVars, urosVars>>

InitClearWz == InitStore("init_wz", "wz", "read_wz")

InitReadWz == InitReadBack("read_wz", "wz", "init_y")

InitClearY == InitStore("init_y", "y", "read_y")

InitReadY == InitReadBack("read_y", "y", "init_x")

InitClearX == InitStore("init_x", "x", "init_last")

(* control_task: last = xTaskGetTickCount().                                *)
InitLast ==
    /\ pc = "init_last" /\ ControlRuns
    /\ last' = tick /\ pc' = "top"
    /\ initCmd' = cmd
    /\ UNCHANGED <<tick, now, chain, cmdVars, motorVars, odomTimeVars, snapVars,
                   urosVars>>

-----------------------------------------------------------------------------
(* control_loop_tick                                                        *)

(* now = lino_millis().  Every sample is one control tick older.            *)
SampleNow ==
    /\ pc = "top" /\ ControlRuns
    /\ now' = tick
    /\ pose' = [f \in PoseField |-> NextAge(pose[f])]
    /\ odomSnap' = [f \in OdomField |-> NextAge(odomSnap[f])]
    /\ imuSnap' = NextAge(imuSnap)
    /\ pc' = "snap"
    /\ UNCHANGED <<tick, last, cmdVars, motorVars, initVars, odomTimeVars,
                   imu_ok, urosVars>>

\* Mutants of Deadman: off by one, late and early.
DeadmanLate == Sub(now, prev_cmd_ms) > CMD_TIMEOUT_MS

DeadmanEarly == Sub(now, prev_cmd_ms) + 1 >= CMD_TIMEOUT_MS

Deadman == Sub(now, prev_cmd_ms) >= CMD_TIMEOUT_MS

\* Mutant of SnapshotCmd: cmd_x is read before the critical section.
SnapshotCmdUnlocked ==
    /\ pc = "snap" /\ ControlRuns
    /\ \/ /\ lcmd' = [lcmd EXCEPT !["x"] = cmd["x"]]
          /\ UNCHANGED <<pc, lcmdAge>>
       \/ /\ lcmd' = IF Deadman THEN ZeroCmd
                     ELSE [cmd EXCEPT !["x"] = lcmd["x"]]
          /\ lcmdAge' = IF lcmd' = ZeroCmd THEN 0 ELSE stampAge
          /\ pc' = "measure"
    /\ UNCHANGED <<timeVars, cmdVars, wheel, drive, driveAge, initVars,
                   odomTimeVars, snapVars, urosVars>>

(* The command tuple under the critical section, then the deadman.          *)
SnapshotCmd ==
    /\ pc = "snap" /\ ControlRuns
    /\ lcmd' = IF Deadman THEN ZeroCmd ELSE cmd
    /\ lcmdAge' = IF lcmd' = ZeroCmd THEN 0 ELSE stampAge
    /\ pc' = "measure"
    /\ UNCHANGED <<timeVars, cmdVars, wheel, drive, driveAge, initVars,
                   odomTimeVars, snapVars, urosVars>>

\* Mutant of Measure: prev_odom_ms is not advanced.
MeasureKeepsOdomTime ==
    /\ pc = "measure" /\ ControlRuns
    /\ first_' = FALSE /\ rpmAt' = tick
    /\ prev_odom_ms' = prev_odom_ms
    /\ pc' = "drive"
    /\ UNCHANGED <<timeVars, cmdVars, motorVars, initVars, snapVars, urosVars>>

(* now_us = lino_micros(), getRPM of the four encoders, dt, prev_odom_ms.   *)
Measure ==
    /\ pc = "measure" /\ ControlRuns
    /\ first_' = FALSE /\ rpmAt' = tick
    /\ prev_odom_ms' = now
    /\ pc' = "drive"
    /\ UNCHANGED <<timeVars, cmdVars, motorVars, initVars, snapVars, urosVars>>

(* ControlCore::step, first half: one motor after the other follows lcmd.   *)
(* lx, ly and lwz are dead after the last.                                  *)
Spin ==
    /\ pc = "drive" /\ ControlRuns
    /\ drive' = [drive EXCEPT ![wheel] = lcmd]
    /\ driveAge' = [driveAge EXCEPT ![wheel] = lcmdAge]
    /\ IF wheel < WHEELS
       THEN wheel' = wheel + 1 /\ UNCHANGED <<lcmd, lcmdAge, pc>>
       ELSE wheel' = 1 /\ lcmd' = ZeroCmd /\ lcmdAge' = 0 /\ pc' = "odom_x"
    /\ UNCHANGED <<timeVars, cmdVars, initVars, odomTimeVars, snapVars,
                   urosVars>>

(* ControlCore::step, second half: OdomIntegrator::update, store by store.  *)
UpdateOdom(at, f, next) ==
    /\ pc = at /\ ControlRuns
    /\ pose' = [pose EXCEPT ![f] = 0]
    /\ pc' = next
    /\ UNCHANGED <<timeVars, cmdVars, motorVars, initVars, odomTimeVars,
                   odomSnap, imu_ok, imuSnap, urosVars>>

UpdateX == UpdateOdom("odom_x", "x", "odom_y")

UpdateY == UpdateOdom("odom_y", "y", "odom_heading")

UpdateHeading == UpdateOdom("odom_heading", "heading", "pub_odom")

(* The pose and the velocities v of this tick, in one critical section.     *)
PublishOdom ==
    /\ pc = "pub_odom" /\ ControlRuns
    /\ odomSnap' = [f \in OdomField |-> IF f \in PoseField THEN pose[f] ELSE 0]
    /\ pc' = IF imu_ok THEN "imu" ELSE "delay"
    /\ UNCHANGED <<timeVars, cmdVars, motorVars, initVars, odomTimeVars, pose,
                   imu_ok, imuSnap, urosVars>>

(* imu->getData(): two I2C bursts, preemptible.                             *)
ReadImu ==
    /\ pc = "imu" /\ ControlRuns
    /\ pc' = "pub_imu"
    /\ UNCHANGED <<timeVars, cmdVars, motorVars, initVars, odomTimeVars,
                   snapVars, urosVars>>

\* Mutant of PublishImu: a failed read skips the snapshot.
PublishImuIfRead ==
    /\ pc = "pub_imu" /\ ControlRuns
    /\ imuSnap' \in {0, imuSnap}
    /\ pc' = "delay"
    /\ UNCHANGED <<timeVars, cmdVars, motorVars, initVars, odomTimeVars, pose,
                   odomSnap, imu_ok, urosVars>>

PublishImu ==
    /\ pc = "pub_imu" /\ ControlRuns
    /\ imuSnap' = 0
    /\ pc' = "delay"
    /\ UNCHANGED <<timeVars, cmdVars, motorVars, initVars, odomTimeVars, pose,
                   odomSnap, imu_ok, urosVars>>

(* vTaskDelayUntil(&last, PERIOD): sleep to the next period, or return at   *)
(* once when it has already begun (the late periods are caught up).         *)
DelayUntil ==
    /\ pc = "delay" /\ ControlRuns
    /\ last' = Add(last, PERIOD)
    /\ pc' = IF Sub(tick, last) < PERIOD THEN "sleep" ELSE "top"
    /\ UNCHANGED <<tick, now, cmdVars, motorVars, initVars, odomTimeVars,
                   snapVars, urosVars>>

-----------------------------------------------------------------------------
(* The calls of uros_task.                                                  *)

UrosDelay ==
    /\ uros = "run" /\ uros' = "blocked"
    /\ UNCHANGED <<timeVars, cmdVars, motorVars, initVars, odomTimeVars,
                   snapVars, pc, setAt, setVal, odom_msg, imu_msg>>

(* control_set_cmd(v): now is sampled before the critical section.          *)
SetCmdSample ==
    /\ uros = "run"
    /\ \E v \in Values : setVal' = v
    /\ setAt' = tick /\ uros' = "set"
    /\ UNCHANGED <<timeVars, cmdVars, motorVars, initVars, odomTimeVars,
                   snapVars, pc, odom_msg, imu_msg>>

SetCmdStore ==
    /\ uros = "set"
    /\ cmd' = [a \in Axis |-> setVal]
    /\ prev_cmd_ms' = setAt /\ stampAge' = Sub(tick, setAt)
    /\ uros' = "run" /\ setAt' = 0 /\ setVal' = Zero
    /\ UNCHANGED <<timeVars, motorVars, initVars, odomTimeVars, snapVars, pc,
                   odom_msg, imu_msg>>

\* Mutant of GetOdom: the pose is read live, not from the snapshot.
GetOdomLive ==
    /\ uros = "run"
    /\ odom_msg' = [f \in OdomField |->
                      IF f \in PoseField THEN pose[f] ELSE odomSnap[f]]
    /\ uros' = "pub"
    /\ UNCHANGED <<timeVars, cmdVars, motorVars, initVars, odomTimeVars,
                   snapVars, pc, setAt, setVal, imu_msg>>

(* controlPublishCallback: control_get_odom, control_get_imu, publish.  The *)
(* messages are overwritten by the next callback before they are read.      *)
GetOdom ==
    /\ uros = "run"
    /\ odom_msg' = odomSnap /\ uros' = "pub"
    /\ UNCHANGED <<timeVars, cmdVars, motorVars, initVars, odomTimeVars,
                   snapVars, pc, setAt, setVal, imu_msg>>

GetImu ==
    /\ uros = "pub"
    /\ imu_msg' = imuSnap /\ uros' = "send"
    /\ UNCHANGED <<timeVars, cmdVars, motorVars, initVars, odomTimeVars,
                   snapVars, pc, setAt, setVal, odom_msg>>

Publish ==
    /\ uros = "send"
    /\ uros' = "run" /\ odom_msg' = AllNever /\ imu_msg' = NEVER
    /\ UNCHANGED <<timeVars, cmdVars, motorVars, initVars, odomTimeVars,
                   snapVars, pc, setAt, setVal>>

-----------------------------------------------------------------------------
ControlInit ==
    \/ InitSampleTime \/ InitStoreTime
    \/ InitClearWz \/ InitReadWz \/ InitClearY \/ InitReadY \/ InitClearX
    \/ InitLast

ControlTick ==
    \/ SampleNow \/ SnapshotCmd \/ Measure \/ Spin
    \/ UpdateX \/ UpdateY \/ UpdateHeading
    \/ PublishOdom \/ ReadImu \/ PublishImu \/ DelayUntil

UrosCall ==
    \/ UrosDelay \/ SetCmdSample \/ SetCmdStore \/ GetOdom \/ GetImu \/ Publish

Next == TickInterrupt \/ ControlInit \/ ControlTick \/ UrosCall

Spec == Init /\ [][Next]_vars

-----------------------------------------------------------------------------
(* Correctness                                                              *)

(* The longest a command may drive the motors: it was younger than          *)
(* CMD_TIMEOUT_MS when a tick sampled now, and the next tick retargets the  *)
(* motors one period, and at most MAX_LAG, later.                           *)
HoldBound == CMD_TIMEOUT_MS - 1 + PERIOD + MAX_LAG

(* The deadman of control_loop_tick, end to end: whatever uros_task does,   *)
(* and wherever it preempts the control task, no motor ever follows a       *)
(* command for longer than HoldBound after it was received - unless its     *)
(* stamp is a whole wrap of the tick old (driveAge = TICK_MOD): the deadman *)
(* clears the tick's copy, and the stored command looks fresh again after a *)
(* wrap.                                                                    *)
MotorsStopInTime ==
    \A w \in Wheels :
       drive[w] # ZeroCmd /\ driveAge[w] < TICK_MOD => driveAge[w] <= HoldBound

(* The deadman drops a command only when it has expired at the tick's now,  *)
(* or when it was stamped after now (the unsigned difference wraps).        *)
DeadmanOnlyWhenExpiredOrRaced ==
    [][SnapshotCmd /\ cmd # ZeroCmd /\ lcmd' = ZeroCmd /\ stampAge < TICK_MOD
       => \/ stampAge >= CMD_TIMEOUT_MS + Sub(tick, now)
          \/ stampAge < Sub(tick, now)]_vars

(* What control_loop.h says of control_set_cmd ("resets the 200 ms deadman  *)
(* timer"): a tick never drops a command younger than the timeout.  A       *)
(* command stored between the tick's sample of now and its snapshot is      *)
(* dropped.                                                                 *)
FreshCommandIsNotDropped ==
    [][SnapshotCmd /\ cmd # ZeroCmd /\ stampAge < CMD_TIMEOUT_MS
       => lcmd' = cmd]_vars

(* The command is written and read as one tuple, but control_loop_init      *)
(* clears it field by field while uros_task may be storing one, and the     *)
(* motors are driven one by one.  What holds: no motor is ever driven by    *)
(* axes of two different commands, except by the one command that           *)
(* control_loop_init left half cleared; and once the loop over the motors   *)
(* has ended all of them follow the same command, wherever uros_task cut it *)
(* off.                                                                     *)
MotorsFollowOneCommand ==
    /\ \A w \in Wheels : Whole(drive[w]) \/ drive[w] = initCmd
    /\ pc # "drive" => \A v, w \in Wheels : drive[v] = drive[w]

(* The odometry message is one coherent 6-tuple: pose and velocities of the *)
(* same control tick, although the pose is updated outside any lock.        *)
PublishedOdomIsOneTick ==
    uros = "send" => \A f, g \in OdomField : odom_msg[f] = odom_msg[g]

(* controlPublishCallback reads the two snapshots in two critical sections: *)
(* the IMU sample of a message pair is of the odometry's tick or of the one *)
(* before, once the first samples are in.                                   *)
ImuIsAtMostOneTickBehind ==
    uros = "send" /\ imu_msg # NEVER
       => imu_msg - odom_msg["twist"] \in {0, 1}

(* The comment in control_loop_tick wants "each RPM dt" to match "the odom  *)
(* dt exactly", but the two are differences of two samples of the time, and *)
(* uros_task may run between them.  What does hold: the error does not      *)
(* accumulate.  The sum of the odometry's steps never lags more than        *)
(* MAX_LAG behind the sum of the intervals the wheel speeds are taken over. *)
OdomTimeKeepsUp == ~first_ => Sub(rpmAt, prev_odom_ms) <= MAX_LAG

-----------------------------------------------------------------------------
(* The inductive invariant behind MotorsStopInTime.                         *)

(* prev_cmd_ms tells the true age of the command for one wrap of the tick.  *)
StampInv == stampAge < TICK_MOD => Sub(tick, prev_cmd_ms) = stampAge

(* During a tick, last is the start of its period and at most MAX_LAG ago,  *)
(* and now was sampled after it; between ticks, last is the next start.     *)
ScheduleInv ==
    /\ pc \in TickPc => Sub(tick, last) <= MAX_LAG
    /\ pc \in TickPc \ {"top"} => Sub(tick, now) <= Sub(tick, last)
    /\ pc = "sleep" => Sub(last, tick) \in 1 .. PERIOD

(* The command copied by the tick was younger than the deadman at its now.  *)
LcmdInv ==
    lcmd # ZeroCmd =>
       /\ pc \in {"measure", "drive"}
       /\ lcmdAge < TICK_MOD => lcmdAge < CMD_TIMEOUT_MS + Sub(tick, now)

(* The motors that follow the command of the tick under way.                *)
Driven(w) == pc \in AfterDrive \/ (pc = "drive" /\ w < wheel)

(* Time since the start of the period whose tick drove a motor last.        *)
SincePeriod(w) ==
    CASE Driven(w)                    -> Sub(tick, last)
      [] pc = "sleep"                 -> PERIOD - Sub(last, tick)
      [] ~Driven(w) /\ pc # "sleep"   -> PERIOD + Sub(tick, last)

DriveInv ==
    \A w \in Wheels : drive[w] # ZeroCmd =>
       /\ pc \notin InitPc
       /\ driveAge[w] < TICK_MOD
            => driveAge[w] < CMD_TIMEOUT_MS + SincePeriod(w)

DeadmanInv == StampInv /\ ScheduleInv /\ LcmdInv /\ DriveInv

-----------------------------------------------------------------------------
(* The inductive invariants behind the rest.                                *)

(* prev_odom_ms is set without rpmAt only before the encoders are read.     *)
OdomTimeInv == OdomTimeKeepsUp /\ (pc = "boot" => first_)

(* A command in one of its three places is whole, or what control_loop_init *)
(* left; until it has left it, nothing drives the motors.                   *)
OneOrInit(c) == Whole(c) \/ c = initCmd

WholeInv ==
    /\ pc \in InitPc => lcmd = ZeroCmd /\ \A w \in Wheels : drive[w] = ZeroCmd
    /\ pc \notin InitPc => OneOrInit(cmd)
    /\ OneOrInit(lcmd) /\ \A w \in Wheels : OneOrInit(drive[w])

(* The loop over the motors: those before wheel follow the tick's command,  *)
(* the others still agree on the last one.                                  *)
LoopInv ==
    /\ pc # "drive" => wheel = 1
    /\ \A v, w \in Wheels :
         /\ Driven(v) <=> Driven(w) => drive[v] = drive[w]
         /\ pc = "drive" /\ v < wheel => drive[v] = lcmd

MotorInv == WholeInv /\ LoopInv

(* The pose is of one tick when it is published, whatever it is in between. *)
PoseInv ==
    /\ pc \in {"odom_y", "odom_heading", "pub_odom"} => pose["x"] = 0
    /\ pc \in {"odom_heading", "pub_odom"} => pose["y"] = 0
    /\ pc = "pub_odom" => pose["heading"] = 0

(* The two snapshots at every point of a tick.                              *)
SnapInv ==
    /\ \A f, g \in OdomField : odomSnap[f] = odomSnap[g]
    /\ pc \in {"imu", "pub_imu"} => imu_ok /\ odomSnap["twist"] = 0
    /\ imuSnap # NEVER =>
          /\ imu_ok /\ pc \notin InitPc
          /\ CASE pc \in {"delay", "sleep", "top"} ->
                     odomSnap["twist"] = 0 /\ imuSnap = 0
              [] pc \in {"imu", "pub_imu"} -> imuSnap = 1
              [] OTHER -> odomSnap["twist"] = 1 /\ imuSnap = 1

(* While uros_task fills a message pair the snapshots stand still.          *)
MessageInv ==
    /\ uros \in {"pub", "send"} => odom_msg = odomSnap
    /\ uros = "send" => imu_msg = imuSnap

SampleInv == PoseInv /\ SnapInv /\ MessageInv
=============================================================================
