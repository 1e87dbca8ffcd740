------------------------------ MODULE BaseNode ------------------------------
(***************************************************************************)
(* The two tasks of main.c on their one core: uros_task (UrosTask) above   *)
(* control_task.  uros_task polls the UART, so it keeps the core in every  *)
(* call; control_task gets it in the vTaskDelay that ends the loop.  The   *)
(* lag that ControlLoop takes as a parameter is a consequence here.        *)
(*                                                                         *)
(* Only the time in a control tick is kept: the command is read, the wheels*)
(* are driven, the IMU is read, vTaskDelayUntil.  The race between the     *)
(* tick's clock and the command, and the wrap of the clock, are those of   *)
(* ControlLoop.                                                            *)
(*                                                                         *)
(* The agent is always up but any call may fail (lossy): to the two tasks, *)
(* an agent that comes and goes looks no different.                        *)
(***************************************************************************)
EXTENDS UrosTask

CONSTANTS
    CMD_TIMEOUT,   \* CMD_TIMEOUT_MS, 200 ms
    PERIOD,        \* the period of control_task, 20 ms
    QUOTAS,        \* control ticks that a DELAY has room for, at least
    I2C_MAX,       \* the longest a tick waits for a bus that has stalled
    INIT_TIME      \* control_loop_init: 40 samples 50 ms apart

ASSUME ScheduleAssumption ==
    /\ CMD_TIMEOUT \in Nat \ {0} /\ PERIOD \in Nat \ {0}
    /\ QUOTAS \subseteq Nat \ {0} /\ I2C_MAX \in Nat /\ INIT_TIME \in Nat

VARIABLES
    cpc,       \* where control_task is
    late,      \* tick - last: how far it is behind its schedule
    spent,     \* time since it began to wait in control_loop_init or for I2C
    done,      \* ticks it has finished in this DELAY, up to the quota
    stampAge,  \* ghosts: true age of the command in the snapshot surface,
    lcmdAge,   \*   of the tick's copy,
    driveAge,  \*   of the one the wheels are driven with (OFF: none),
    gap,       \*   and the time since core->step was last run
    quota,     \* of the outside, fixed: a member of QUOTAS;
    wedged     \*   does the I2C bus stall after a good start?

outside == <<quota, wedged>>
controlVars == <<cpc, late, spent, done, lcmdAge, driveAge, gap, outside>>
baseVars == <<vars, controlVars, stampAge>>

OFF == -1

Greatest(a, b) == IF a >= b THEN a ELSE b

(* The longest uros_task keeps the core while a command can come: a ping    *)
(* and a spin in one iteration; then, without one, the release of the       *)
(* entities.                                                                *)
HogOpen == Greatest(PING_TIMEOUT + SPIN_MAX, Len(DestroyOrder) * STEP_MAX)

(* The longest it keeps the core at all: nine calls and the sync, or nine   *)
(* calls of which the last fails and the seven that clean up.               *)
Hog == Greatest(HogOpen, Len(CreateOrder) * STEP_MAX
                           + Greatest(SYNC_MAX, Len(DestroyOrder) * STEP_MAX))

(* From one turn of control_task to the end of the next.                    *)
Cycle == DELAY + IF wedged THEN Hog ELSE HogOpen

(* From a reading of the command to the end of its tick: uros_task can cut  *)
(* the reading off from the driving; a stalled bus adds its timeout and one *)
(* more wait for the core, and lasts long enough for the node to reconnect  *)
(* meanwhile.                                                               *)
TickMax == IF wedged THEN Cycle + I2C_MAX + Hog ELSE Cycle

(* How long the end of a period can find the core taken.  A command is too  *)
(* old to be in force when the entities of the next session are created,    *)
(* two DELAYs after the stop, unless a period outlasts those.               *)
WaitHog == IF wedged \/ PERIOD > 2 * DELAY THEN Hog ELSE HogOpen

(* From one reading of the command to the moment the wheels are driven by   *)
(* the next, which can be cut off from its driving as well.                 *)
ReadToDrive == Greatest(PERIOD + WaitHog, TickMax + Cycle)

StopBound == CMD_TIMEOUT - 1 + ReadToDrive

AGE_MAX == StopBound + 1

(* From the driving of the wheels to the end of the wait for the IMU, while *)
(* uros_task is in its delay.                                               *)
Stall == IF wedged THEN I2C_MAX ELSE 0

Stuck == Greatest(Stall, DELAY)

(* From one core->step to the next: the longest absence of uros_task, and   *)
(* before it the rest of a period or of the tick.  If a DELAY has room for  *)
(* one tick only, the end of the tick before can use that up.               *)
GapBound ==
    Hog + Greatest(PERIOD, IF quota = 1 THEN Stuck + Hog + DELAY ELSE Stuck)

GAP_MAX == GapBound + 1

LATE_MAX == Hog + PERIOD + 1

BaseTypeOK ==
    /\ TypeOK
    /\ cpc \in {"init", "sleep", "drive", "imu"}
    /\ late \in -PERIOD .. LATE_MAX
    /\ spent \in 0 .. Greatest(INIT_TIME, I2C_MAX) /\ done \in 0 .. quota
    /\ stampAge \in OFF .. CMD_TIMEOUT
    /\ lcmdAge \in OFF .. AGE_MAX
    /\ driveAge \in OFF .. AGE_MAX
    /\ gap \in 0 .. GAP_MAX
    /\ quota \in QUOTAS /\ wedged \in BOOLEAN

BaseInit ==
    /\ Init /\ agent = "up" /\ lossy /\ ~pingSession
    /\ cpc = "init" /\ late = 0 /\ spent = 0 /\ done = 0
    /\ stampAge = OFF /\ lcmdAge = OFF /\ driveAge = OFF /\ gap = 0
    /\ quota \in QUOTAS /\ wedged \in BOOLEAN

-----------------------------------------------------------------------------
(* The core                                                                 *)

(* The lower task runs only while the higher one is blocked.                *)
ControlRuns == pc = "delay" /\ busy < DELAY

(* With the core, control_task waits here ...                               *)
ControlWaits ==
    \/ cpc = "init" /\ spent < INIT_TIME
    \/ cpc = "sleep" /\ late < 0
    \/ cpc = "imu" /\ wedged /\ spent < I2C_MAX

Older(age, max) == IF age \in {OFF, max} THEN age ELSE age + 1

WaitLimit == IF cpc = "init" THEN INIT_TIME ELSE I2C_MAX

(* ... and computes elsewhere: once a DELAY has seen its quota, the tick may *)
(* come between any two of its steps.  HAL_Delay and the timeouts of the    *)
(* HAL compare wall-clock ticks, whoever has the core meanwhile.            *)
BaseTick ==
    /\ Tick
    /\ ControlRuns => ControlWaits \/ done = quota
    /\ late' = IF cpc = "init" \/ late = LATE_MAX THEN late ELSE late + 1
    /\ spent' = IF cpc \in {"init", "imu"} /\ spent < WaitLimit
                THEN spent + 1 ELSE spent
    /\ stampAge' = Older(stampAge, CMD_TIMEOUT)
    /\ lcmdAge' = Older(lcmdAge, AGE_MAX)
    /\ driveAge' = Older(driveAge, AGE_MAX)
    /\ gap' = IF cpc = "init" THEN gap ELSE Older(gap, GAP_MAX)
    /\ UNCHANGED <<cpc, done, outside>>

-----------------------------------------------------------------------------
(* uros_task: a callback stamps the command it stores, the native stop      *)
(* leaves none.                                                             *)

Age(c, a) == IF c = Zero THEN OFF ELSE a

StoreCommand ==
    /\ TwistCallback
    /\ stampAge' = Age(cmd', 0)
    /\ UNCHANGED controlVars

KeepCommand ==
    /\ TaskStep /\ cmd' \in {cmd, Zero}
    /\ stampAge' = Age(cmd', stampAge)
    /\ done' = IF pc = "delay" THEN 0 ELSE done
    /\ UNCHANGED <<cpc, late, spent, lcmdAge, driveAge, gap, outside>>

Answer == AgentAnswers /\ UNCHANGED <<controlVars, stampAge>>

-----------------------------------------------------------------------------
(* control_task                                                             *)

(* The end of control_loop_init clears the command; then last is sampled.   *)
InitDone ==
    /\ ControlRuns /\ cpc = "init" /\ spent = INIT_TIME
    /\ cmd' = Zero /\ stampAge' = OFF
    /\ cpc' = "sleep" /\ late' = 0 /\ spent' = 0
    /\ UNCHANGED <<state, pc, step, busy, sinceWait, sinceConn, live, framesSet,
                   offset, answered, agentVars, downFor, done, lcmdAge,
                   driveAge, gap, outside>>

\* Mutant of Deadman: a command of exactly the timeout is still taken.
DeadmanLate(age) == IF age > CMD_TIMEOUT THEN OFF ELSE age

Deadman(age) == IF age >= CMD_TIMEOUT THEN OFF ELSE age

\* Mutant of ReadCommand: the tick does not wait for its period.
ReadCommandEarly ==
    /\ ControlRuns /\ cpc = "sleep"
    /\ lcmdAge' = Deadman(stampAge)
    /\ cpc' = "drive"
    /\ UNCHANGED <<vars, late, spent, done, stampAge, driveAge, gap, outside>>

(* control_loop_tick up to the deadman.                                     *)
ReadCommand ==
    /\ ControlRuns /\ cpc = "sleep" /\ late >= 0
    /\ lcmdAge' = Deadman(stampAge)
    /\ cpc' = "drive"
    /\ UNCHANGED <<vars, late, spent, done, stampAge, driveAge, gap, outside>>

(* core->step and the odometry snapshot.                                    *)
Drive ==
    /\ ControlRuns /\ cpc = "drive"
    /\ driveAge' = lcmdAge /\ gap' = 0
    /\ lcmdAge' = OFF /\ cpc' = "imu"
    /\ UNCHANGED <<vars, late, spent, done, stampAge, outside>>

\* Mutant of ImuDone: vTaskDelay, a period from now on.
ImuDoneDelay ==
    /\ ControlRuns /\ cpc = "imu"
    /\ late' = -PERIOD
    /\ cpc' = "sleep" /\ spent' = 0
    /\ done' = IF done = quota THEN done ELSE done + 1
    /\ UNCHANGED <<vars, stampAge, lcmdAge, driveAge, gap, outside>>

(* The IMU is read; then vTaskDelayUntil adds a period to last.  A lateness *)
(* that no longer fits is one of at least LATE_MAX.                         *)
ImuDone ==
    /\ ControlRuns /\ cpc = "imu"
    /\ late' \in IF late = LATE_MAX THEN LATE_MAX - PERIOD .. LATE_MAX
                 ELSE {late - PERIOD}
    /\ cpc' = "sleep" /\ spent' = 0
    /\ done' = IF done = quota THEN done ELSE done + 1
    /\ UNCHANGED <<vars, stampAge, lcmdAge, driveAge, gap, outside>>

ControlStep == InitDone \/ ReadCommand \/ Drive \/ ImuDone

BaseNext ==
    \/ BaseTick \/ StoreCommand \/ KeepCommand \/ Answer
    \/ InitDone \/ ReadCommand \/ Drive \/ ImuDone

BaseSpec == BaseInit /\ [][BaseNext]_baseVars

(* The tick interrupt never stops, and the scheduler gives the core to the  *)
(* higher task that is ready, else to the lower one.                        *)
BaseFairSpec ==
    /\ BaseSpec
    /\ WF_baseVars(BaseTick)
    /\ WF_baseVars(StoreCommand \/ KeepCommand)
    /\ WF_baseVars(ControlStep)

-----------------------------------------------------------------------------
(* Correctness                                                              *)

(* The deadman of control_loop_tick runs only when uros_task lets it: a      *)
(* command still drives the wheels for no longer than StopBound after it    *)
(* was stored, however the calls of both tasks fall, and however far the    *)
(* control task has come to be behind its schedule.                         *)
MotorsStopOnTime == driveAge <= StopBound

(* What is left of "50 Hz": from one reading of the encoders and update of  *)
(* the wheels to the next there is at most GapBound, however the calls of   *)
(* uros_task fall on the tick, and however far behind its schedule the      *)
(* control task is.  Meanwhile the wheels are held open-loop, and the       *)
(* encoders must not turn by half their range (WheelEncoder).               *)
ControlGapIsBounded == gap <= GapBound

(* "yield so control_task (lower pri) never starves" (main.c:213): whatever *)
(* uros_task does and however long its calls are, control ticks go on,      *)
(* with a stalled bus too.                                                  *)
ControlNeverStarves == []<>(cpc = "drive") /\ []<>(cpc # "drive")

-----------------------------------------------------------------------------
(* The inductive invariant behind the timed bounds.                         *)

(* An iteration that creates entities, from its switch on.                  *)
Opening ==
    /\ pc # "delay"
    /\ \/ state = "AGENT_AVAILABLE"
       \/ state = "WAITING_AGENT" /\ pc = "destroy"

(* For how long uros_task may have had the core.                            *)
Away ==
    LET created == Len(CreateOrder) * STEP_MAX
        calls == (step - 1) * STEP_MAX + busy
    IN  CASE pc = "ping"       -> busy
          [] pc = "spin"       -> PING_TIMEOUT + busy
          [] pc = "spin_timer" -> PING_TIMEOUT + SPIN_MAX
          [] pc = "create"     -> calls
          [] pc = "frames"     -> created
          [] pc = "sync"       -> created + busy
          [] pc = "destroy"    -> IF Opening THEN created + calls ELSE calls
          [] OTHER             -> 0

(* Where control_task can be when its turn ends, and what it then knows.    *)
TurnInv ==
    /\ pc # "delay" \/ cpc = "init" => done = 0
    /\ cpc = "init" => late = 0
    /\ cpc \in {"sleep", "drive"} => spent = 0
    /\ cpc = "imu" => spent <= I2C_MAX
    /\ cpc \in {"drive", "imu"} => late >= 0
    /\ pc = "delay" /\ busy = DELAY =>
         /\ cpc = "drive" => done = quota
         /\ cpc = "imu" => done = quota \/ wedged
         /\ cpc = "sleep" => done = quota \/ late <= 0
    /\ pc = "delay" /\ cpc = "sleep" /\ done = 0 /\ late > 0 => busy = 0
    /\ pc # "delay" \/ busy = DELAY =>
         /\ cpc = "sleep" => late > -PERIOD
         /\ cpc \in {"drive", "imu"} => late > 0

(* A command accepted at most n ago.                                        *)
Within(age, n) == age <= CMD_TIMEOUT - 1 + n

(* Lateness tells the time since the reading, until it saturates.           *)
LateInv ==
    /\ cpc = "drive" => Within(lcmdAge, late) \/ late = LATE_MAX
    /\ cpc = "imu" => Within(driveAge, late) \/ late = LATE_MAX
    /\ cpc = "sleep" => Within(driveAge, PERIOD + late) \/ late > 0

(* The time since the reading of the command that waits to be driven ...    *)
ReadFor ==
    IF pc # "delay" THEN DELAY + Away ELSE IF done > 0 THEN busy ELSE Cycle

(* ... and of the one that is driven, while its tick lasts and after.       *)
TickFor ==
    IF ~wedged \/ done > 0 THEN ReadFor
    ELSE Cycle + spent + CASE spent < I2C_MAX -> 0
                           [] spent = I2C_MAX /\ pc # "delay" -> Away
                           [] spent = I2C_MAX /\ pc = "delay" ->
                                IF busy = 0 THEN Hog ELSE 0

DriveFor ==
    IF pc # "delay"
    THEN Away + IF cpc = "drive" THEN TickMax + DELAY
                ELSE Greatest(PERIOD, TickMax + DELAY)
    ELSE IF done > 0 THEN TickMax + busy ELSE ReadToDrive

AgeInv ==
    /\ cmd = Zero => stampAge = OFF
    /\ cpc # "drive" => lcmdAge = OFF
    /\ cpc = "init" => driveAge = OFF
    /\ cpc = "drive" => Within(lcmdAge, ReadFor)
    /\ cpc = "imu" => Within(driveAge, TickFor)
    /\ cpc \in {"sleep", "drive"} => Within(driveAge, DriveFor)

(* What is left of a command after the stop, on the way to the next session:*)
(* at the end of the first turn it has been driven, at the end of the next  *)
(* it has been replaced or waits for a long period to end.                  *)
OldInv ==
    LET lcmd == cpc = "drive" /\ lcmdAge # OFF
        driven(p) == cpc = p /\ driveAge # OFF
        behind(n) == late > n \/ late > 0
    IN  ~wedged =>
      /\ state = "WAITING_AGENT" /\ pc = "delay" =>
           /\ lcmd \/ driven("imu") => busy = 0 /\ done = 0 /\ late > 0
           /\ driven("sleep") => behind(busy - PERIOD)
      /\ state = "WAITING_AGENT" /\ pc \in {"switch", "ping"} =>
           /\ ~lcmd /\ ~driven("imu")
           /\ driven("sleep") => behind(DELAY - PERIOD)
      /\ state = "AGENT_AVAILABLE" /\ pc = "delay" =>
           /\ ~lcmd /\ ~driven("imu")
           /\ driven("drive") => done = 0
           /\ driven("sleep") => done = 0 /\ behind(DELAY + busy - PERIOD)
      /\ Opening /\ driveAge # OFF =>
           /\ cpc = "sleep" /\ PERIOD > 2 * DELAY
           /\ Within(driveAge, PERIOD + Away)
      /\ Opening => ~lcmd

(* How long ago the wheels were driven: while the tick lasts ...            *)
TickGap ==
    /\ gap <= late \/ late = LATE_MAX
    /\ wedged /\ spent < I2C_MAX => gap <= spent
    /\ IF pc # "delay" THEN gap <= Stuck + Away
       ELSE IF done > 0 THEN gap <= busy
       ELSE gap <= Stall \/ (busy = 0 /\ gap <= Stuck + Hog)

(* ... and until the next one drives them.                                  *)
NextGap ==
    /\ cpc = "sleep" => gap <= PERIOD + late \/ late > 0
    /\ gap <= GapBound
    /\ IF pc # "delay" THEN gap <= GapBound - Hog + Away
       ELSE /\ done >= 2 => gap <= busy
            /\ done = quota /\ quota = 1 => gap <= Stuck + Hog + busy

GapInv ==
    /\ cpc = "init" => gap = 0
    /\ cpc = "imu" => TickGap
    /\ cpc \in {"sleep", "drive"} => NextGap

BaseInv == TurnInv /\ LateInv /\ AgeInv /\ OldInv /\ GapInv
=============================================================================
