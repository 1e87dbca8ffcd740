# A TLA+ model of the linorobot2 STM32 firmware

The firmware (`src/firmware_stm32/`, with the portable libraries of
`src/firmware/lib/`) turns an STM32F446 board into the base of a mobile robot: it
receives velocity commands (`/cmd_vel`) from a micro-ROS agent over a UART, runs a 50 Hz
PID loop on up to four wheels, and publishes odometry and IMU data.  This directory holds
TLA+ modules translated from that code, the TLC instances that check them and the
theorems TLAPS proves about them.  `PROJECT.json` lists the runs, the mutants that
show that every property can fail, the source lines behind every definition, the hazards
the properties aim at, and what was found.

    tlc -workers 2 -config MCControlLoop.cfg MCControlLoop    # one run
    tlapm ControlLoopProofs.tla                               # the proofs

## 1. The system

| Component | State | Operations | Talks to |
|---|---|---|---|
| Control loop and snapshot surface (`control_loop.cpp`, `control_task` of `main.c`) | the command tuple and its stamp, the pose, the odometry and IMU snapshots, the time of the last tick | `control_loop_init`, `control_loop_tick` every 20 ms; `control_set_cmd`, `control_get_odom`, `control_get_imu` | shared statics under `taskENTER_CRITICAL`; calls the wheels, the encoders and the IMU |
| micro-ROS task (`uros_task` of `main.c`) | a four-state reconnect machine, rcl handles, the time offset of the session | ping, `createEntities`, `destroyEntities`, executor spin with two callbacks | the agent, through rcl/rmw; the snapshot surface |
| IMU driver and I2C bus (`stm32_imu.h`, `stm32_i2c.cpp`, `imu_interface.h`) | last readings, gyro bias, health flag | bus and sensor start, calibration over 40 samples, two bursts per tick | polled I2C transfers that may fail or stall |
| Wheel control (`control_core.h`, `pid.cpp`) | per wheel: integral and previous error | `step`, `compute` | kinematics, motors |
| Motor driver and PWM (`stm32_motor.cpp`, `pwm_timing.h`) | direction pins, duty, claimed timers | `init`, `spin`, `forward`, `reverse`, `brake` | timers shared between channels |
| Encoders (`stm32_encoder.cpp`, `encoder_math.h`) | last count, last time, accumulated position | `getRPM`, `read` | 16-bit hardware counters |
| Kinematics and odometry (`kinematics.cpp`, `odom_integrator.h`) | the pose | `getRPM`, `getVelocities`, `update` | pure |
| UART transport and POSIX glue (`microros_glue.c`) | none but the UART | `open`, `close`, `write`, `read`, `clock_gettime` | called by rmw inside every ping, create, spin |
| Heap (`sys_freertos.c`, `cxx_runtime.cpp`) | the break, the malloc lock | `_sbrk`, `__malloc_lock` | newlib, which both tasks call |
| 64-bit atomics (`microros_atomic64.c`) | none | `__atomic_*_8` | rcl, which only `uros_task` calls |

Two FreeRTOS tasks share one core.  `uros_task` (`configMAX_PRIORITIES - 2`) is above
`control_task` (`configMAX_PRIORITIES - 3`): when its `vTaskDelay` expires it preempts the control task at any
instruction, and the control task does not run again until it blocks.  All the agent
I/O is polled HAL, so `uros_task` keeps the core for as long as a ping, a creation or a
spin takes.  A critical section masks the tick interrupt and so the switch.

What is hard about it:

* **Preemption in the middle of a tick.**  Time is sampled, then the command is
  read; the motors are driven one after the other; the pose is updated field by field; odometry and IMU are handed over in two
  sections.  Every one of these gaps admits a whole iteration of `uros_task`.
* **Time.**  The deadman compares unsigned differences of a 32-bit millisecond counter, is
  evaluated only when the control task runs, and control ticks are late or arrive in
  bursts when `uros_task` kept the core.
* **Sessions.**  The agent appears, disappears and restarts; nine creation calls fail one by one,
  destruction ignores errors, the loss is noticed by a ping only.
* **Partial failure on I2C.**  Each of the two bursts of a tick fails by itself and
  leaves the driver's fields half updated; a bus that stalls for good takes its timeouts out of every tick.
* **Initialisation.**  It takes some 2 s in the lower task; sessions and commands do not wait for it.
* **The heap.**  Both tasks allocate, and newlib's `_sbrk` hook is two accesses to one static pointer.

The properties that make each part correct: the base stops in time when commands stop
coming (control loop) and when the agent is lost (micro-ROS task); what drives the motors is one
command, what is published is one tick; entities are neither leaked nor used after
release, in dependency order; the node comes back when the agent does; the IMU
hands out the true rate whenever its reads are good, and says so when they are not; the control task
gets the core however long the calls of the other task are; the heap stands any preemption.

## 2. Modules

| Module | Models | Runs |
|---|---|---|
| `ControlLoop` | `control_loop.cpp` and `control_task`, against a preempting caller | `control_loop`, `control_loop_race` |
| `ControlLoopProofs` | theorems about the deadman of `ControlLoop` and the data it hands over | TLAPS |
| `UrosTask` | `uros_task`, its callbacks, the agent | `uros_task`, `uros_task_offset` |
| `Session` | abstract: the life of the node from session to session; implemented by `UrosTask` | `uros_task` |
| `BaseNode` | extends `UrosTask` by `control_task` on the same core, with priorities, durations and I2C stalls | `base_node` |
| `BaseNodeProofs` | theorems about `UrosTask`, its refinement of `Session`, and the timed bounds of `BaseNode` | TLAPS |
| `ImuDriver` | `I2cBus`, `Mpu6050Imu`, `IMUInterface::getData`, the IMU half of a tick | `imu`, `imu_gyro` |
| `ImuDriverProofs` | theorems about `ImuDriver` | TLAPS |
| `WheelEncoder` | `EncoderMath` and `Encoder::write` on one timer counter | `encoder` |
| `WheelEncoderProofs` | theorems about `WheelEncoder` | TLAPS |
| `WheelControl` | one wheel of `ControlCore::step`: `PID::compute`, `MotorInterface::spin`, the stores of `Generic2` | `wheel` |
| `WheelControlProofs` | theorems about `WheelControl` | TLAPS |
| `PwmTimers` | `Generic2::init` of every motor on timers they share, `pwm_timing`, `lino_tim_clk_hz` | `pwm_timers` |
| `PwmTimersProofs` | theorems about `PwmTimers` | TLAPS |
| `Kinematics` | `Kinematics::getRPM` and `getVelocities` | `kinematics` |
| `KinematicsProofs` | theorems about `Kinematics` | TLAPS |
| `Runtime` | `_sbrk` under `__malloc_lock`, two tasks of which one preempts the other | `runtime` |
| `RuntimeProofs` | theorems about `Runtime` | TLAPS |
| `MC*` | instances for TLC | |

### 2.1 ControlLoop

*State.*  `cmd` and `prev_cmd_ms` are the shared command and its stamp; `pc`, `now`, `last`,
`lcmd` are the control task's position and locals; `wheel` is the index of the loop over the motors and `drive` the command each
motor was last given a target for; `pose`, `odomSnap`, `imuSnap` are the odometry object and the two
snapshots; `uros`, `setAt`, `setVal`, `odom_msg`, `imu_msg` belong to the caller.
`stampAge`, `lcmdAge`, `driveAge` are ghosts: the true time since the stamp of the stored
command, of the tick's copy and of the command in each motor; `initCmd` is one too, the command that
`control_loop_init` left stored.  No guard reads them.

*Steps.*  A critical section is one action (`SnapshotCmd`, `PublishOdom`, `PublishImu`,
`SetCmdStore`, `GetOdom`, `GetImu`).  Everything else that the other task can tell apart is an action of its own: the sample of
`now`, the `spin` of each motor, the three pose stores, and the stores that clear the command in
`control_loop_init` (a chained assignment to volatiles: each store takes the constant or
re-reads the field stored before it, so both are allowed, and the re-reading is a step as well).  Control steps are enabled only
while `uros` is `"blocked"`; only `TickInterrupt` unblocks it.  A command may arrive at any time, during
`control_loop_init` too: the code only assumes it does not.  `DelayUntil` is
`vTaskDelayUntil`: it sleeps to the next period or returns at once when that has passed, so late periods are
caught up in a burst.

*Data.*  The three axes of a command carry the same member of `Cmds`, so a tuple
with two different members is a torn one.  A sample is represented by its age in control ticks
(0, 1, 2, `STALE` for 3 and more, `NEVER`).  The arithmetic of the wheels does not influence any
of this control flow and is left out; so are the `g_dbg_*` mirrors that nothing reads.

*Bounds.*  `MAX_LAG` bounds how long the control task may be behind its schedule: in the build it is the longest stretch
`uros_task` keeps the core plus the tick's own I2C transfers.  The module takes it as a parameter
and states the deadman relative to it; what the build guarantees of it is the subject of `BaseNode`.  `TICK_MOD` stands for 2^32.  The instance
(tick modulo 7, timeout 2, period 2, lag 2) keeps the orders that matter:
timeout + period + lag < modulus, a lag as long as a period so that the next tick follows at once, and a modulus small enough for the tick to wrap
many times; ages saturate at one wrap.  `WHEELS = 2` motors are the smallest number between which a loop can be cut off.

### 2.2 UrosTask

*State.*  `state` is the machine's variable, `pc`/`step`/`busy` the position in the loop, in
`createEntities` or `destroyEntities`, and the time spent there; `sinceWait` and `sinceConn` are
the two `EXECUTE_EVERY_N_MS` timers; `live` is the set of rcl objects created and not released;
`offset` tells of which session `s_time_offset_ns` is.  `agent`, `session` are the
outside; `downFor` is a ghost.

*Steps.*  One action per rcl/rmw call and per state change.  Each blocking call has a longest
duration (`Limit`); time passes only there.  `createEntities` overwrites
every handle but `support`'s with its zero value before the first call, which is why a live entity at that point
would be leaked.  In `PingReturns` the timer restarts from the time sampled
before the ping, as in the macro.

*External.*  The agent answers a ping only when up; a message it has sent may be read from the buffer after it has gone; it may restart (forgetting the session) or
be unplugged (keeping it); a call that needs it fails without it and, if `lossy`, also with it.
A `_fini` always releases its handle.  Two facts about the outside are chosen in `Init` and never change:
`lossy` says whether calls may fail although the agent is up, `pingSession` whether a ping of a connected node notices that a
restarted agent has lost the session.  `main.c` depends on the second: without it the node stays
`AGENT_CONNECTED` to an agent that does not know it, as TLC shows when the premise is taken out of `Reconnects`.
The repository does not hold the library, so this is recorded as a premise of the property, not as a finding.

*Bounds.*  Ping periods 4 and 3, ping timeout 2, spin 2, creation step 1, sync 2, delay 1: in the same
order as the build's 500, 200, 100 (ping), 100 (spin), 10 ms, except for the sync (1000 ms), which is one
call on one path and only has to be longer than the delay.  Timers saturate one
past their period, where `EXECUTE_EVERY_N_MS` no longer distinguishes; the wrap of
its unsigned difference is therefore not modelled.

### 2.3 ImuDriver

*Steps.*  `InitBus`, one action per transfer of `startSensor`, one per calibration read, one per burst of a tick, one for what the tick
makes of them.  Every transfer succeeds or fails; on a bus `HAL_I2C_Init` has refused all fail.  A sensor that did not start is never tried again.

*Data.*  One axis of each sensor.  Gyroscope
values are counted in 1/N LSB, so the average over the N calibration samples is exact and the
division of the code is not an extra source of error.  `rate`, `accel`, `gyroGood`, `accelGood` and `blind` are ghosts: what the
device held at its last good reads, which bursts of the last tick succeeded, and how many calibration reads failed before the first good one.
Those contribute 0 where later failures contribute the last good value; `GoodReadGivesTrueRate` says what that costs.

*Bounds.*  `MAX_FAILS` bounds the failed gyroscope
reads in a row (the fault of `imu_gyro` grows with each, so the state would be
unbounded).  N = 3 samples are enough for a good read before, between and after failed ones.  The
rates include one inside and one outside the deadband, on both sides.

### 2.4 WheelEncoder

*State.*  `CNT` is the counter register, `us` the microsecond clock, the fields are those of `EncoderMath`; `base`,
`turned`, `moved` and `gap` are ghosts: the position at the seed, the true motion since, and motion and time since the last
update.  *Steps.*  The wheel turns one count either way, a microsecond passes, `update` runs as a seed or as a
measurement, `write` sets position, seed and register at any moment.  A speed is kept as the pair (counts, microseconds) it is
the quotient of.  *Bounds.*  `MAX_MOVE` and `MAX_GAP` per update are the code's own premise (less than half the counter's range,
less than one wrap of the clock); with the board's counter and speed this is about 230 ms between two updates of the 16-bit
wheel.  The instance (counter modulo 8, clock modulo 4, moves up to 3 and gaps up to 3, so the extreme allowed ones) wraps both
many times within `MAX_TURN = 12`; one written position lies inside the counter's range and one outside.

### 2.5 WheelControl

*State.*  The PID's `integral_` and `prev_error_`, the three registers `a`, `b`, `ccr`, the argument `pwm` on its way to them;
`used_` and `invert_` are those of the board, chosen in `Init`.  *Steps.*  `StepWheel` is the whole of `compute` with the
dispatch of `spin`; then each register store is a step, since a preemption holds the wheel in between.  The measured speed is an input: wheel, load and floor are not firmware.
*Data.*  Gains and outputs in tenths, so the build's 0.6, 0.8 and 0.5 are exact; the cast to `int` truncates.
*Bounds.*  `PWM_MAX = 7` and `MAX_INTEGRAL = 12` keep what matters: the integral alone saturates the output, and the wheel speeds allow
errors of either sign at every target.  A step that would wind the integral up further is left out.

### 2.6 PwmTimers

*State.*  The board is chosen in `Init`: the timer of each motor, what divides the two buses, `PWM_FREQUENCY` and `PWM_BITS`, and whether
the HAL checks its handles.  Each motor starts with the `arr` its constructor computes.  `inited` is the claim table, `base` the registers of each timer, `arr` the field a duty is clamped to.
*Steps.*  One action per call of the HAL that matters, motor after motor.
*Data.*  The divisor is computed as in `pwm_timing`, clamped before it is rounded, on the clock of `lino_tim_clk_hz`; quotients of the code's
doubles are exact here.
*Bounds.*  `SLOTS = 4` instead of 8 lets the claim table be exactly full; a prescaler of 4 values, two dividers and three frequencies, one of them 0, put
the divisor below, inside and above the range of the register, with remainders that round either way.

Whether `HAL_TIM_PWM_Start` refuses a handle no `HAL_TIM_PWM_Init` has seen cannot be told from the repository, the driver being a submodule: drivers
with a state per channel do.  Then only the first motor of each timer would run (both of this board are on TIM8), which `EveryMotorRuns` excepts.

### 2.7 Kinematics

A velocity is given by the wheel speed each of its three parts takes, so the robot's geometry, a common factor in both
directions, drops out; quotients are fractions over an explicit denominator, so the arithmetic is exact
where the code rounds.  The state machine is a base whose wheels turn as requested.  *Bounds.*  `MAX_RPM = 3` and parts from -5 to 5 give commands
below, at and far above the limit, with every combination of zero and non-zero parts and signs.
`Slower` and `SameDirection` compare the motion that comes out with the command part by part.  The reductions of `calculateRPM` cover the commands with no
sideways part or no rotation; a mecanum command with both, of two parts or three, is only clamped wheel by wheel.

### 2.8 Session

The life of the node as the rest of the firmware may rely on it: closed, opening, open, closing; `held` says whether none, some or all of
its entities exist, `moving` whether a command is in force.  `UrosTask` implements it under the mapping
of `Abstract` (`Phase` from the position in the loop, `Held` from `live`, `moving` from `cmd`); a loss of the agent changes nothing here until the task has noticed.

### 2.9 BaseNode

*State.*  All of `UrosTask`, and of `control_task`: `cpc`, its lag `late` (the tick minus `last`), the time `spent` waiting in
`control_loop_init` or for I2C; the ages of the stored command, of the tick's copy and of the one in the motors and the time `gap` since the wheels were last driven are ghosts.

*The core.*  Control steps are enabled while `uros_task` is in its `vTaskDelay` (`ControlRuns`).  Time passes while the
running task waits; while `control_task` computes, the tick may come only after `done` has reached `quota`, the number of control ticks
a delay has room for at least (`QUOTAS`: one, or several).  So a delay is never wasted, and how much fits in it is a parameter.  `wedged` (chosen in `Init`) makes every read of the IMU last up
to `I2C_MAX`.

*Simplifications.*  The race of `ControlLoop` between clock and command is not repeated: the command is read in one step.
The agent is always up and every call may fail: to the two tasks, that contains every behaviour with an agent that comes
and goes.  `late` saturates at `LATE_MAX`; there the next period leaves any value that saturation can stand for.  Commands may
arrive while `control_loop_init` still calibrates, although the comment at control_loop.cpp:90 says "no /cmd_vel yet"; its last stores clear them (`InitDone`), and what
happens when those are interrupted is in `ControlLoop`.  The motors are driven in one step here: a loop cut off between two of them is in `ControlLoop` too, and for
the time that passes it is the same as one cut off before the first.

*Bounds.*  Ping 2, spin 2, sync 5, delay 1, period 2, timeout 4, I2C stall 5: a stall longer than the timeout and longer than a reconnect, a
sync longer than several periods, a call of either kind as long as a period.  Creation steps take no time in this instance (their sum is one summand of `Hog`).
With creation steps of 1, periods up to 7 and below the delay, delays up to 4, spins of 4, syncs of 9 and longer stalls TLC found the same.

*The bound.*  `ReadToDrive` is the longer of two ways to keep the motors on an old target.  The next period can end while `uros_task` has the core
(`PERIOD + WaitHog`), or the tick that should replace the target can itself be cut off between reading the command and driving the wheels, after one that
was cut off in the same place (`TickMax + Cycle`).  `Hog`, the iteration that creates entities, counts only where a command can survive until then: after the stop and the release
of the entities there are two delays before the next creation, in which an unblocked control task reads the cleared command, unless the bus stalls or a period is longer than both
delays.  The build has a period of exactly two delays, so only `HogOpen` counts; the case distinction is what the proof for every period needs, and TLC shows that
without it the bound fails for longer periods.

*What the numbers say of the build.*  `MotorsStopOnTime` gives `CMD_TIMEOUT - 1` plus twice the ping, spin and delay (about 0.8 s: 100 ms of ping, 100 ms of spin and
90 ms of messages at its end, 10 ms of delay) as long as the I2C bus does not stall.
`ControlGapIsBounded` says what is left of the 50 Hz: two updates of the wheels are at most `Hog` plus a period apart (without a stall, and with room for more than one tick
in a delay, which is what `quota` counts).  `Hog` is the iteration that opens a session, with its nine calls and a sync of up to 1 s.  Within a session the longest iteration is
a ping that is not answered and a spin, at most about 290 ms, so the gap there is at most about 310 ms, and about 210 ms while pings are answered at once.  The premise of
`WheelEncoder`, less than half the counter's range between two updates, is 230 ms at this board's full speed: it is not met by every schedule.
The lag of the schedule itself, unlike the gap, has no bound: with 90 ms of messages per spin and 10 ms of delay the
control task gets a few ticks per 100 ms and falls behind for as long as messages flow; hence neither bound speaks of it.

### 2.10 Runtime

*State.*  Which task runs, whether the scheduler is suspended, each task's position in `malloc` and `_sbrk`, the break, the blocks handed out.
*Steps.*  `malloc` takes the lock, calls `_sbrk` any number of times (with 0 to learn where the heap begins, as newlib-nano does) and releases it; each read, test and write of
the break is an action, and `uros_task` preempts `control_task` between any two unless the lock forbids it.
A negative increment is never asked for, since newlib's `malloc` gives nothing back, and is left out.
*Bounds.*  8 addresses, 4 of them for the heap, requests up to 3: the heap fills and refuses.  A request that wraps the address space is possible here, not on the target, whose RAM is too far from
the top of the address space for any positive `ptrdiff_t` to reach it; the second half of the limit test is defensive there.

## 3. What the runs check

| Run | Property | Says | Result |
|---|---|---|---|
| `control_loop` (4.6 M states) | `MotorsStopInTime` | no command drives the motors for more than CMD_TIMEOUT - 1 + PERIOD + MAX_LAG after it was stamped | holds, and is tight |
| | `DeadmanOnlyWhenExpiredOrRaced` | the deadman drops only an expired command, or one stamped after the tick's `now` | holds |
| | `MotorsFollowOneCommand` | no motor mixes two commands, except the one that the initialisation left half cleared; after the loop over the motors all follow the same command | holds |
| | `PublishedOdomIsOneTick` | a published pose and twist are of one tick | holds |
| | `ImuIsAtMostOneTickBehind` | odometry and IMU of a message pair differ by at most one tick | holds |
| | `OdomTimeKeepsUp` | the time odometry integrates over and the time the wheel speeds are taken over drift apart by at most MAX_LAG | holds |
| `control_loop_race` | `FreshCommandIsNotDropped` | a fresh command is driven | violated |
| `uros_task` (69 k states) | `SpinOnlyWhenReady` | the executor spins only on a complete set of entities | holds |
| | `NoEntityLeaked` | creation never starts over live entities | holds |
| | `ParentsOutliveChildren` | node and support go last | holds |
| | `NoCommandWithoutSession` | outside a session the stored command is the stop | holds |
| | `AgentLossStopsTheBase` | the stop comes within `DetectBound` of the loss of the agent | holds, and is tight |
| | `Reconnects` | an agent that stays is connected to for good | holds, given `pingSession` and not `lossy` |
| | `ReleasesAfterLoss` | when the agent stays away everything is released | holds |
| | `ImplementsSession` | the machine implements `Session` | holds |
| | `SessionSettles` | every opening and closing comes to an end | holds |
| `uros_task_offset` | `StampsUseThisSession` | messages are stamped with this session's offset | violated |
| `base_node` (1.5 M states) | `MotorsStopOnTime` | no command drives the wheels for longer than `StopBound`, whatever the lag | holds, and is tight unless the bus stalls |
| | `ControlGapIsBounded` | two updates of the wheels are at most `GapBound` apart, however far behind the control task is | holds; tight with room for several ticks in a delay, a tick above the longest gap with room for one |
| | `ControlNeverStarves` | control ticks go on for ever | holds |
| `imu` (4.2 k states) | `GoodReadGivesTrueRate` | a good tick gives the true rate whatever failed before, but for 1/N of the offset per calibration read that failed before the first good one | holds |
| | `FlagTellsOfAccel` | the accelerometer keeps its last good value, and the flag says whether it is of this tick | holds |
| `imu_gyro` | `GyroIsLastGoodLessBias` | so does the gyroscope | violated |
| `encoder` (69 k states) | `PositionTracksWheel` | the position is the one at the seed plus the true motion since | holds |
| | `SpeedIsTrue` | the speed is computed from the true motion and the true time | holds |
| `wheel` (34 k states) | `OutputIsApplied` | between ticks pins and duty say what the PID asked for | holds |
| | `StandingStillIsFree` | a wheel that stands and shall stand is not driven | holds |
| | `WindupIsReleased` | with the target at 0 for good the wheel is not pushed on for ever | holds |
| `pwm_timers` (246 k states) | `EveryMotorRuns` | after start-up every motor runs, on a timer with the period its duty is clamped to | holds, if the HAL does not check handles |
| | `PeriodIsClosest` | no other prescaler would bring the period of the PWM closer to the one asked for | holds |
| | `NoRunningTimerIsReset` | no timer is reset under a running channel | holds |
| `kinematics` (3.1 k states) | `RoundTrip` | a command the motors can follow comes back as it was | holds |
| | `SlowedDownOnly` | no part of a command is reversed or exceeded; without sideways motion or without rotation it keeps its direction, however large; it is slowed down no more than it must | holds |
| `runtime` (1.0 M states) | `BlocksAreDisjoint` | blocks of the heap never overlap nor reach the stack | holds |

Every passing run but `encoder` also checks the type invariant of its module.

*Violated* runs state what a comment or a document of the repository says; `findings` in
`PROJECT.json` quotes it and tells what the counterexample does.  In short:

1. A command stored between the tick's sample of `now` and its snapshot is stamped later than `now`; the unsigned age is
   huge and the tick drops the command it has just received (one tick of zero setpoint).
2. A failed time sync leaves the offset of the session before.
3. A failed gyroscope read subtracts the bias again from a value already corrected.

Other places where the code does not do what it says have no run of their own.

* `control_loop_init` ends by clearing the shared command field by field, and control_loop.cpp:90 says "no /cmd_vel yet".  Nothing in the code sees to that: `uros_task` has the
  higher priority.  A command that arrives between two of the stores is left half cleared, with a fresh stamp, and driven by the first tick (TLC finds it as soon as the
  exception for `initCmd` is taken out of `MotorsFollowOneCommand`).
* main.c:58 says that the control loop is "deadman-safe even when the agent is down".  While `uros_task` polls for an agent that does not answer, the deadman is not evaluated: without a stall of the
  bus a command would otherwise drive the wheels for the timeout and two periods at most, and TLC finds longer ones.  `MotorsStopOnTime` is the bound that holds.
* kinematics.cpp:55 promises "the required motion ... just with slower speed".  A mecanum command with a sideways part and a rotation, of two parts or three, is not reduced but clamped wheel by wheel; its
  direction changes, and its rotation can be lost altogether.  `SlowedDownOnly` claims the direction for all other commands only.
* A motor that shares its timer starts its channel through a handle that was never initialised, see 2.6.

Some properties say what does hold where a comment promises more.  `MotorsStopInTime` excepts a stamp that is a whole
wrap of the tick (49.7 days) old, because the deadman clears only the tick's copy of the command.  `OdomTimeKeepsUp` bounds a difference
between rpm and odometry times that control_loop.cpp:119 says does not exist: the encoders' time base is read after `now`, several
preemptible steps later.  `WindupIsReleased` says that the wheel stops being pushed, not that the deadman brakes it, since the integral
has to unwind first and the driver's `brake` coasts.  `FlagTellsOfAccel` says that the health flag tells of the accelerometer's burst alone.

*Fairness* (`FairSpec` of `UrosTask`): weak fairness of the tick (a hardware timer), of the
task (highest priority: nothing can keep it from running) and of an agent answering a ping
it can answer.  Nothing is assumed about the agent staying up: that is the premise
of each liveness property.  Calls that may fail for ever
never connect, so `Reconnects` has the premise `~lossy`.  `FairSpec` of `WheelControl` is weak fairness of the step: `control_task` is woken every period and its stores
do not block; the target staying 0 is the premise of the property.
`BaseFairSpec` of `BaseNode` has one condition per source of steps: the tick interrupt, `uros_task`, and `control_task`.  The last is weak fairness, not
strong: a control step is continuously enabled only while `uros_task` stays blocked, and that it stays so long enough is what `quota` says of the core's speed.

*Deadlock* is checked in every run.

## 4. What is proved

`ControlLoopProofs` proves, for every modulus, timeout, period, lag, set of commands and number of motors with
`TimeAssumption` (positive timeout and period; timeout + period + lag below the modulus),
`CmdAssumption` and `WheelAssumption`:

* `TypeCorrect`: `Spec => []TypeOK`;
* `DeadmanBound`: `Spec => []MotorsStopInTime`, the end-to-end deadman, with the build's numbers among the instances;
* `DeadmanPrecision`: `Spec => DeadmanOnlyWhenExpiredOrRaced`.

`MotorsStopInTime` speaks of `drive` and its age only and is not inductive.
`DeadmanInv` adds what links them to the code's variables, and is proved conjunct by conjunct over `TypeOK`:

* `StampInv`: until one wrap has passed, `tick - prev_cmd_ms` (modulo) is the true age of the command; without it the
  deadman's comparison says nothing about time;
* `ScheduleInv`: where `last` and `now` lie relative to the tick, in each phase of the loop;
* `LcmdInv`: a command copied by the tick was younger than the timeout at that tick's `now`;
* `DriveInv`: the age in a motor is below the timeout plus the time since the period that drove
  it began (`SincePeriod`: the loop may stand between this motor and the next), which when it is driven again is at most a period plus the lag.

The arithmetic is in lemmas about `Sub` and `Add` (`SubLater`, `SubNearer`, `SubDistinct`, `SubSum`, `SubOfAdd`), where
the only case splits on a wrap occur.

About the data handed from task to task it proves, from the same assumptions:

* `CommandCoherent`: `Spec => []MotorsFollowOneCommand`, without a premise on the start-up.  `WholeInv` says of the command in each of its three places that it is
  whole or the one `control_loop_init` left; `LoopInv` that the motors before `wheel` follow the tick's command and the others still agree on the last one;
* `OdomCoherent`: `Spec => []PublishedOdomIsOneTick`, and `ImuCoherent`: `Spec => []ImuIsAtMostOneTickBehind`.  Both follow from `SampleInv`,
  which says which fields of the pose the tick has already updated (`PoseInv`), how old the two snapshots are at each point of a tick (`SnapInv`),
  and that they stand still while a message pair is being filled (`MessageInv`);
* `OdomTimeBound`: `Spec => []OdomTimeKeepsUp`, inductive with `ScheduleInv`, which bounds how far `Measure` can be from `now`.

`BaseNodeProofs` has three parts.  The first proves, for all periods, timeouts and call durations with `DurationAssumption` and
`CmdAssumption`, whatever the agent does and whichever calls fail, of `UrosTask`:

* `TypeCorrect`: `Spec => []TypeOK`;
* `SessionStops`: `Spec => []NoCommandWithoutSession`, by `StopInv`: the stop precedes every destruction;
* `SpinReady`: `Spec => []SpinOnlyWhenReady`, `ParentsFirst`: `Spec => []ParentsOutliveChildren` and `NothingLeaked`: `Spec => NoEntityLeaked`,
  by `LiveInv`: the position of the task decides what is live.  In `createEntities` it is exactly `Created(step - 1)`, in `destroyEntities` nothing of
  `Released(step - 1)`, which is weaker because a destruction may begin after any failed creation.  `StateInv` ties the position to
  the machine's state; `BusyInv` bounds the time in a call, which the type of the two timers needs.
* `AgentLossStops`: `Spec => []AgentLossStopsTheBase`, by `LossInv`: while a command is in force, or may still be read in a spin, the agent has been away for no longer than
  `LostFor`, a sum of the ping timer and the call limits on the way from the loss to the stop, at each position of the task.

The second part proves `SessionRefined`: `Spec => ImplementsSession`, from the same assumptions.  The initial state maps to the initial
state of `Session`; for each action of `UrosTask` a step shows which action of `Session` it is, or that it is a stutter.  The invariants
of the first part say what `live` is at each position, which is what the mapping of `Held` needs.

The third proves, from these and `ScheduleAssumption`, for both tasks on their core (`BaseNode`), for every period, timeout, duration and quota, and
with a bus that stalls or not:

* `BaseTypeCorrect`: `BaseSpec => []BaseTypeOK`;
* `StopOnTime`: `BaseSpec => []MotorsStopOnTime`, the deadman under the scheduler: nothing is assumed about the lag;
* `GapIsBounded`: `BaseSpec => []ControlGapIsBounded`, whatever the lag.

`BaseSteps` reduces the many actions to what they do to the core: time passes in a turn of the control task or away from it, `uros_task` returns from a call
and begins the next (`Move`), or a turn (`TurnBegins`), or ends one (`WakeUp`); or the control task takes one of its four steps.
The time bounds are not inductive, since a command's age says nothing without the position of both tasks.  `BaseInv` has five parts, each proved over these kinds of steps:

* `TurnInv`: where the control task can be when its turn ends: without its quota of ticks, only asleep or stalled on the bus;
* `LateInv`: until `late` saturates, it tells the time since the command was read;
* `AgeInv`: how long ago the command in the tick's copy (`ReadFor`) and in the motors (`TickFor`, `DriveFor`) was accepted, by the position of both tasks;
* `GapInv`: how long ago the wheels were driven, while the tick lasts (`TickGap`) and until the next one drives them (`NextGap`), by what `uros_task` has had of the
  core since it woke (`Away`).  It needs the lateness only where that is small: a control task that is late goes on as soon as it has the core;
* `OldInv`: what is left of a command between the stop and the next creation.  At the end of the first turn after the stop it has been driven, at the end of the
  second it has been replaced or waits for a long period to end.  Without it an iteration that creates entities would count in full, and the bound would not be the one the run shows to be tight.

All conjuncts were model-checked on the instances of section 3, and those of `BaseInv` also on the others named in 2.9, before they were proved.

`WheelEncoderProofs` proves, for every counter width, clock width, mounting and set of written positions with
`EncoderAssumption` (less than half the counter's range and less than one wrap of the clock between two updates):

* `PositionCorrect`: `Spec => []PositionTracksWheel`;
* `SpeedCorrect`: `Spec => []SpeedIsTrue`;
* `TypeCorrect`: `Spec => []TypeOK`.

Neither of the first two is inductive, since both speak of a difference of two registers; `CounterInv` adds that counter and clock are the
stored values advanced, modulo their widths, by what the wheel moved and the time that passed.  The arithmetic
is in `DeltaIsMotion` and `SubIsGap`: within the assumed bounds the folded difference of a wrapped sum gives the summand back.

`RuntimeProofs` proves from `HeapAssumption`, for every size of heap and request:

* `TypeCorrect`, `HeapCorrect`: `Spec => []BlocksAreDisjoint`.

The invariant says that at most one task is inside `malloc`, and then the scheduler is suspended; the break that task has read is then the break there is.

`ImuDriverProofs` proves from `ImuAssumption`:

* `TypeCorrect`; `RateCorrect`: `Spec => []GoodReadGivesTrueRate`; `FlagCorrect`: `Spec => []FlagTellsOfAccel`.

The invariant gives the sum of the calibration loop by the samples so far, `blind` among them, and the bias after it, and relates the driver's fields to the device at each point of a tick.

`WheelControlProofs` proves from `WheelAssumption`, for all gains, limits and measured speeds:

* `TypeCorrect`; `OutputCorrect`: `Spec => []OutputIsApplied`, by what the registers hold after each of the stores; `StandstillCorrect`: `Spec => []StandingStillIsFree`.

`PwmTimersProofs` proves from `TimerAssumption` and `ClockAssumption`, for every board, clock tree, frequency and resolution:

* `TypeCorrect`; `NoReset`: `Spec => NoRunningTimerIsReset`; `MotorsRun`: `Spec => []EveryMotorRuns`, by `StartInv`, which says which timers the
  motors so far have claimed and started.  The table of claimed timers holds at most one entry per motor begun, so it never fills;
* `PrescalerClosest`: `Spec => []PeriodIsClosest`, by `PrescalerNearest`, where the rounding and both clamps are.  That `2 ^ n` is positive comes from
  counting the subsets of `1 .. n`.

`KinematicsProofs` proves from `KinematicsAssumption`, for every limit of the motors, set of commands and set of platforms:

* `TypeCorrect`: `Spec => []TypeOK`, with the limit of every wheel; `RoundTripCorrect`: `Spec => []RoundTrip`; `SlowedDownCorrect`: `Spec => []SlowedDownOnly`.

`FollowInv` says that the wheels are those of the last command and the velocity is computed from them; the rest are lemmas about the
operators.  `FastestWheel`: the fastest wheel of a command without sideways motion or without rotation runs at the sum of the sizes of its two parts, which is what the code compares with the limit.
`Unclamped`: so no wheel of such a command is clamped by itself, nor one of a command the motors can follow.  `Back`: the velocity of wheels that turn in proportion to a command is in
the same proportion to it.  For a command that is clamped wheel by wheel `SlowedDownCorrect` follows from what the clamping does to a sum of wheels of either sign.

Every invariant and action property that a run checks is also proved, except those that are violated.  Only model-checked is liveness (out of this prover's reach):
`Reconnects`, `ReleasesAfterLoss`, `SessionSettles`, `ControlNeverStarves` and `WindupIsReleased`.

## 5. What is not modelled

* Floating-point rounding in PID, kinematics, encoder, PWM and odometry, the scaling of IMU registers, the trigonometry of `odom_integrator.h`.
* The bytes of the UART transport: what a lost or half-read frame costs is decided in the client library, which is not in the repository.  The models have its
  durations and failures.  `clock_gettime` has no state of its own.
* HAL bring-up, clock and pin configuration: register writes without later state.  The magnetometer is a stub nobody reads.
* `FakeIMU` (a compile-time alternative); `calibrateGyro` and `I2cBus::ping`, which nothing calls; the stack hook, which halts.
* The rmw context that `destroyEntities` sets a timeout in, which is that of a support never initialised when the first creation call failed; objects that `operator new` constructs on the NULL of a full heap.
  What happens then is decided by the library and the memory map.
* The 64-bit atomics: only rcl calls them, in `uros_task` alone, so that there is no second actor to tear a value.
* Values of memory that `new` does not clear: the IMU message is published with covariances the driver never sets (see the hazards).
* rcl, rmw, FreeRTOS and the agent, beyond the behaviour `main.c` and `control_loop.cpp` depend on.
* The host tests and Renode scripts; they were read as statements of intent.  `test_host/doctest.h`, a vendored test framework, is most of
  the repository's lines and no part of the firmware.

## 6. Plan

Done: the modules of section 2 and the theorems of section 4.  What is left, in this order:

1. An abstract deadman (a command is held for a bounded time) that both `ControlLoop` and `BaseNode` implement.
2. Lemmas the liveness arguments rest on, as far as they are invariants: that the steps of a session come to an end is a measure that each call lowers.
