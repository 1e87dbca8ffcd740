------------------------------ MODULE UrosTask ------------------------------
(***************************************************************************)
(* uros_task of firmware_stm32/Src/main.c: the four-state machine that     *)
(* connects to the micro-ROS agent, creates the node's entities, spins the *)
(* executor and tears everything down when the agent is lost.              *)
(*                                                                         *)
(* The task is alone in this module: it has the highest priority, so no    *)
(* other task delays it.  Time is counted in a unit the instance chooses;  *)
(* every blocking call has a longest duration, and time passes only in     *)
(* such a call (or in the vTaskDelay that ends the loop).                  *)
(*                                                                         *)
(* The agent and the rcl/rmw calls are outside the repository; they are    *)
(* modelled by what main.c relies on: a ping is answered only by an agent  *)
(* that is up, an entity is created only with an agent that is up and      *)
(* holds our session, and each such call may fail.                         *)
(***************************************************************************)
EXTENDS Integers, Sequences

CONSTANTS
    PING_WAIT,       \* ping period while waiting, 500 ms
    PING_CONN,       \* ping period while connected, 200 ms
    PING_TIMEOUT,    \* rmw_uros_ping_agent(100, 1)
    SPIN_MAX,        \* longest rclc_executor_spin_some
    STEP_MAX,        \* longest call that creates or destroys one entity
    SYNC_MAX,        \* rmw_uros_sync_session(1000)
    DELAY,           \* vTaskDelay(10)
    Cmds, Zero       \* commands of /cmd_vel that move the base; the stop

ASSUME DurationAssumption ==
    /\ PING_WAIT \in Nat /\ PING_CONN \in Nat /\ PING_TIMEOUT \in Nat
    /\ SPIN_MAX \in Nat /\ STEP_MAX \in Nat /\ SYNC_MAX \in Nat
    /\ DELAY \in Nat \ {0}
    /\ PING_TIMEOUT <= PING_CONN /\ PING_TIMEOUT <= PING_WAIT

ASSUME CmdAssumption == Zero \notin Cmds

-----------------------------------------------------------------------------
State == {"WAITING_AGENT", "AGENT_AVAILABLE",
          "AGENT_CONNECTED", "AGENT_DISCONNECTED"}

Values == Cmds \cup {Zero}

(* The RCCHECKed calls of createEntities, in order.  The last two add a     *)
(* handle to the executor.                                                  *)
CreateOrder == <<"support", "node", "odom_publisher", "imu_publisher",
                 "twist_subscriber", "control_timer", "executor",
                 "twist_handle", "timer_handle">>

Entities == {CreateOrder[i] : i \in DOMAIN CreateOrder}

(* The calls that need the agent's answer.                                  *)
Remote == {"support", "node", "odom_publisher", "imu_publisher",
           "twist_subscriber"}

\* Mutant of DestroyOrder: the node goes before what was created on it.
DestroyOrderNodeFirst ==
    <<{"node"}, {"odom_publisher"}, {"imu_publisher"}, {"twist_subscriber"},
      {"control_timer"}, {"executor", "twist_handle", "timer_handle"},
      {"support"}>>

(* The calls of destroyEntities, in order, by what each one releases.       *)
DestroyOrder ==
    <<{"odom_publisher"}, {"imu_publisher"}, {"twist_subscriber"},
      {"control_timer"}, {"executor", "twist_handle", "timer_handle"},
      {"node"}, {"support"}>>

(* What an entity was created on, and needs until it is released.           *)
Parent == [e \in Entities \ {"support", "twist_handle", "timer_handle"} |->
             IF e \in {"odom_publisher", "imu_publisher", "twist_subscriber"}
             THEN "node" ELSE "support"]

Pc == {"switch", "ping", "create", "frames", "sync", "stop", "destroy",
       "spin", "spin_timer", "delay"}

(* The longest time the task stays at pc.                                   *)
Limit(p) ==
    CASE p = "ping"                   -> PING_TIMEOUT
      [] p \in {"create", "destroy"}  -> STEP_MAX
      [] p = "sync"                   -> SYNC_MAX
      [] p = "spin"                   -> SPIN_MAX
      [] p = "delay"                  -> DELAY
      [] OTHER                        -> 0

(* From the loss of the agent to control_set_cmd(0, 0, 0): the ping that    *)
(* saw the agent last, the loop that was not due yet, the ping that fails.  *)
DetectBound == PING_CONN + SPIN_MAX + DELAY + PING_TIMEOUT + DELAY

VARIABLES
    state,       \* g_dbg_uros_state
    pc, step,    \* position in the loop; the call of create/destroyEntities
    busy,        \* time spent at pc
    sinceWait,   \* _now - _last of the two EXECUTE_EVERY_N_MS, up to the
    sinceConn,   \*   period plus one
    live,        \* entities created and not released
    framesSet,   \* s_frames_set
    offset,      \* s_time_offset_ns: of no, of this or of an old session
    cmd,         \* the command in the snapshot surface (see ControlLoop)
    answered,    \* the answer to the current ping has arrived
    agent,       \* can the agent be reached?
    session,     \* does the agent hold our session?
    lossy,       \* of the outside, fixed: may calls fail with the agent up?
    pingSession, \* fixed: does a ping notice that the agent lost the session?
    downFor      \* ghost: for how long the agent has been unreachable

link == <<lossy, pingSession>>
agentVars == <<agent, session, link>>
taskVars == <<state, pc, step, busy, sinceWait, sinceConn, live, framesSet,
              offset, cmd, answered>>
vars == <<taskVars, agentVars, downFor>>

TypeOK ==
    /\ state \in State /\ pc \in Pc /\ step \in 1 .. Len(CreateOrder)
    /\ busy \in Nat
    /\ sinceWait \in 0 .. PING_WAIT + 1 /\ sinceConn \in 0 .. PING_CONN + 1
    /\ live \in SUBSET Entities /\ framesSet \in BOOLEAN
    /\ offset \in {"none", "this", "old"} /\ cmd \in Values
    /\ answered \in BOOLEAN
    /\ agent \in {"up", "down"} /\ session \in BOOLEAN
    /\ lossy \in BOOLEAN /\ pingSession \in BOOLEAN
    /\ downFor \in 0 .. DetectBound + 1

Init ==
    /\ state = "WAITING_AGENT" /\ pc = "switch" /\ step = 1 /\ busy = 0
    /\ sinceWait = 0 /\ sinceConn = 0
    /\ live = {} /\ framesSet = FALSE /\ offset = "none" /\ cmd = Zero
    /\ answered = FALSE
    /\ agent \in {"up", "down"} /\ session = FALSE /\ downFor = 0
    /\ lossy \in BOOLEAN /\ pingSession \in BOOLEAN

-----------------------------------------------------------------------------
(* Time and the agent.                                                      *)

Tick ==
    /\ busy < Limit(pc)
    /\ busy' = busy + 1
    /\ sinceWait' = IF sinceWait > PING_WAIT THEN sinceWait ELSE sinceWait + 1
    /\ sinceConn' = IF sinceConn > PING_CONN THEN sinceConn ELSE sinceConn + 1
    /\ downFor' = IF agent = "up" \/ downFor > DetectBound THEN downFor
                  ELSE downFor + 1
    /\ UNCHANGED <<state, pc, step, live, framesSet, offset, cmd, answered,
                   agentVars>>

(* A restarted agent has forgotten the session, an unplugged one has not.   *)
AgentDown ==
    /\ agent = "up" /\ agent' = "down"
    /\ session' \in {FALSE, session}
    /\ UNCHANGED <<taskVars, link, downFor>>

AgentUp ==
    /\ agent = "down" /\ agent' = "up" /\ downFor' = 0
    /\ UNCHANGED <<taskVars, session, link>>

CanAnswer ==
    /\ agent = "up"
    /\ pingSession /\ state = "AGENT_CONNECTED" => session

AgentAnswers ==
    /\ pc = "ping" /\ ~answered /\ CanAnswer
    /\ answered' = TRUE
    /\ UNCHANGED <<state, pc, step, busy, sinceWait, sinceConn, live, framesSet,
                   offset, cmd, agentVars, downFor>>

-----------------------------------------------------------------------------
(* The loop of uros_task.                                                   *)

Goto(p) == pc' = p /\ busy' = 0

\* Mutant of PingDue: a connected agent is not pinged.
PingDueWaiting == state = "WAITING_AGENT" /\ sinceWait > PING_WAIT

(* EXECUTE_EVERY_N_MS, in the cases of WAITING_AGENT and AGENT_CONNECTED.   *)
PingDue ==
    \/ state = "WAITING_AGENT" /\ sinceWait > PING_WAIT
    \/ state = "AGENT_CONNECTED" /\ sinceConn > PING_CONN

(* switch (g_dbg_uros_state).  createEntities begins by overwriting every   *)
(* handle but support with its zero value.                                  *)
SwitchCase ==
    /\ pc = "switch"
    /\ CASE PingDue                               -> Goto("ping")
         [] state = "WAITING_AGENT" /\ ~PingDue   -> Goto("delay")
         [] state = "AGENT_AVAILABLE"             -> Goto("create")
         [] state = "AGENT_CONNECTED" /\ ~PingDue -> Goto("spin")
         [] state = "AGENT_DISCONNECTED"          -> Goto("stop")
    /\ live' = IF state = "AGENT_AVAILABLE" THEN live \cap {"support"} ELSE live
    /\ step' = 1 /\ answered' = FALSE
    /\ UNCHANGED <<state, sinceWait, sinceConn, framesSet, offset, cmd,
                   agentVars, downFor>>

\* Mutant of StateAfterPing: the silence of a connected agent is not noticed.
StateAfterPingIgnored(ok) ==
    IF state = "WAITING_AGENT" /\ ok THEN "AGENT_AVAILABLE" ELSE state

StateAfterPing(ok) ==
    IF state = "WAITING_AGENT"
    THEN IF ok THEN "AGENT_AVAILABLE" ELSE "WAITING_AGENT"
    ELSE IF ok THEN "AGENT_CONNECTED" ELSE "AGENT_DISCONNECTED"

\* Mutant of AfterPing: the executor spins without a look at the new state.
AfterPingSpin(ok) == IF state = "AGENT_CONNECTED" THEN "spin" ELSE "delay"

AfterPing(ok) ==
    IF StateAfterPing(ok) = "AGENT_CONNECTED" THEN "spin" ELSE "delay"

(* rmw_uros_ping_agent returns; then _last = _now, the time sampled before  *)
(* the call.                                                                *)
PingReturns(ok) ==
    /\ pc = "ping"
    /\ state' = StateAfterPing(ok)
    /\ IF state = "WAITING_AGENT"
       THEN sinceWait' = busy /\ UNCHANGED sinceConn
       ELSE sinceConn' = busy /\ UNCHANGED sinceWait
    /\ Goto(AfterPing(ok))
    /\ answered' = FALSE
    /\ UNCHANGED <<step, live, framesSet, offset, cmd, agentVars, downFor>>

PingOk == answered /\ PingReturns(TRUE)

PingTimesOut ==
    /\ ~answered /\ busy = PING_TIMEOUT
    /\ lossy \/ ~CanAnswer
    /\ PingReturns(FALSE)

-----------------------------------------------------------------------------
(* createEntities                                                           *)

Current == CreateOrder[step]

(* The agent plays its part in a call that needs it.                        *)
AgentServes == agent = "up" /\ (session \/ Current = "support")

\* Mutant of LastCall: one call too many.
LastCallOneMore == step > Len(CreateOrder)

LastCall == step = Len(CreateOrder)

CreateOk ==
    /\ pc = "create"
    /\ Current \in Remote => AgentServes
    /\ live' = live \cup {Current}
    /\ IF Current = "support"
       THEN /\ session' = TRUE
            /\ offset' = IF offset = "this" THEN "old" ELSE offset
       ELSE UNCHANGED <<session, offset>>
    /\ IF LastCall
       THEN Goto("frames") /\ step' = 1
       ELSE Goto("create") /\ step' = step + 1
    /\ UNCHANGED <<state, sinceWait, sinceConn, framesSet, cmd, answered,
                   agent, link, downFor>>

\* Mutant of CreateFails: a failed call is made again.
CreateFailsAgain ==
    /\ pc = "create"
    /\ lossy \/ (Current \in Remote /\ ~AgentServes)
    /\ Goto("create")
    /\ UNCHANGED <<state, step, sinceWait, sinceConn, live, framesSet, offset,
                   cmd, answered, agentVars, downFor>>

\* Mutant of CreateFails: the failed attempt is not cleaned up.
CreateFailsNoDestroy ==
    /\ pc = "create"
    /\ lossy \/ (Current \in Remote /\ ~AgentServes)
    /\ state' = "WAITING_AGENT" /\ Goto("delay") /\ step' = 1
    /\ UNCHANGED <<sinceWait, sinceConn, live, framesSet, offset, cmd,
                   answered, agentVars, downFor>>

(* RCCHECK returns false: back to WAITING_AGENT, through destroyEntities.   *)
CreateFails ==
    /\ pc = "create"
    /\ lossy \/ (Current \in Remote /\ ~AgentServes)
    /\ state' = "WAITING_AGENT" /\ Goto("destroy") /\ step' = 1
    /\ UNCHANGED <<sinceWait, sinceConn, live, framesSet, offset, cmd,
                   answered, agentVars, downFor>>

(* The frame_id strings and the covariances, once in the life of the node.  *)
SetFrames ==
    /\ pc = "frames"
    /\ framesSet' = TRUE /\ Goto("sync")
    /\ UNCHANGED <<state, step, sinceWait, sinceConn, live, offset, cmd,
                   answered, agentVars, downFor>>

(* rmw_uros_sync_session; whatever it returns, createEntities succeeds.     *)
Sync(ok) ==
    /\ pc = "sync"
    /\ offset' = IF ok THEN "this" ELSE offset
    /\ state' = "AGENT_CONNECTED" /\ Goto("delay")
    /\ UNCHANGED <<step, sinceWait, sinceConn, live, framesSet, cmd, answered,
                   agentVars, downFor>>

SyncOk == agent = "up" /\ session /\ Sync(TRUE)

SyncFails == (lossy \/ agent = "down" \/ ~session) /\ Sync(FALSE)

-----------------------------------------------------------------------------
(* AGENT_DISCONNECTED and destroyEntities                                   *)

\* Mutant of StopBase: the command is left to the deadman.
StopBaseNot ==
    /\ pc = "stop"
    /\ Goto("destroy")
    /\ UNCHANGED <<state, step, sinceWait, sinceConn, live, framesSet, offset,
                   cmd, answered, agentVars, downFor>>

(* control_set_cmd(0, 0, 0)                                                 *)
StopBase ==
    /\ pc = "stop"
    /\ cmd' = Zero /\ Goto("destroy")
    /\ UNCHANGED <<state, step, sinceWait, sinceConn, live, framesSet, offset,
                   answered, agentVars, downFor>>

(* One RCSOFTCHECKed fini; its failure is ignored.  The last one releases   *)
(* the session, without waiting for the agent to hear of it: that is all    *)
(* the timeout says which the first two calls set in the library's context. *)
DestroyStep ==
    /\ pc = "destroy"
    /\ live' = live \ DestroyOrder[step]
    /\ IF step = Len(DestroyOrder)
       THEN /\ state' = "WAITING_AGENT" /\ Goto("delay") /\ step' = 1
            /\ session' \in {FALSE, session}
       ELSE /\ Goto("destroy") /\ step' = step + 1
            /\ UNCHANGED <<state, session>>
    /\ UNCHANGED <<sinceWait, sinceConn, framesSet, offset, cmd, answered,
                   agent, link, downFor>>

-----------------------------------------------------------------------------
(* rclc_executor_spin_some: each handle at most once, in the order added.   *)

(* A message of this session: it may be read from the buffer when the agent *)
(* that sent it has gone.                                                   *)
TwistCallback ==
    /\ pc = "spin"
    /\ cmd' \in Values
    /\ Goto("spin_timer")
    /\ UNCHANGED <<state, step, sinceWait, sinceConn, live, framesSet, offset,
                   answered, agentVars, downFor>>

NoTwist ==
    /\ pc = "spin"
    /\ Goto("spin_timer")
    /\ UNCHANGED <<state, step, sinceWait, sinceConn, live, framesSet, offset,
                   cmd, answered, agentVars, downFor>>

\* Mutant of PublishCallback: a connected iteration does not end in a delay.
PublishCallbackNoYield ==
    /\ pc = "spin_timer"
    /\ Goto("switch")
    /\ UNCHANGED <<state, step, sinceWait, sinceConn, live, framesSet, offset,
                   cmd, answered, agentVars, downFor>>

(* controlPublishCallback: the stamp is the tick plus s_time_offset_ns.  The *)
(* time of its two publishes is part of SPIN_MAX, and spent at "spin".      *)
PublishCallback ==
    /\ pc = "spin_timer"
    /\ Goto("delay")
    /\ UNCHANGED <<state, step, sinceWait, sinceConn, live, framesSet, offset,
                   cmd, answered, agentVars, downFor>>

(* vTaskDelay ends: the next iteration of the loop.                         *)
Wake ==
    /\ pc = "delay" /\ busy = DELAY
    /\ Goto("switch")
    /\ UNCHANGED <<state, step, sinceWait, sinceConn, live, framesSet, offset,
                   cmd, answered, agentVars, downFor>>

TaskStep ==
    \/ SwitchCase \/ PingOk \/ PingTimesOut
    \/ CreateOk \/ CreateFails \/ SetFrames \/ SyncOk \/ SyncFails
    \/ StopBase \/ DestroyStep
    \/ TwistCallback \/ NoTwist \/ PublishCallback \/ Wake

Next == Tick \/ AgentDown \/ AgentUp \/ AgentAnswers \/ TaskStep

Spec == Init /\ [][Next]_vars

(* The tick interrupt never stops; the task has the highest priority, so    *)
(* it runs whenever it can; and the agent answers a ping it can answer.     *)
FairSpec == Spec /\ WF_vars(Tick) /\ WF_vars(TaskStep) /\ WF_vars(AgentAnswers)

-----------------------------------------------------------------------------
(* Correctness                                                              *)

(* "Fires inside the executor spin, so only when connected": the executor   *)
(* runs only while the agent is believed present, with every entity created *)
(* and the frame strings in place.                                          *)
SpinOnlyWhenReady ==
    pc \in {"spin", "spin_timer"} =>
       state = "AGENT_CONNECTED" /\ live = Entities /\ framesSet

(* createEntities overwrites the handles with zero values: it must never    *)
(* begin while one of them is live, or that entity is leaked.               *)
NoEntityLeaked ==
    [][pc = "switch" /\ state = "AGENT_AVAILABLE" /\ pc' = "create"
       => live = {}]_vars

(* Through every partial creation and destruction, an entity is released    *)
(* before the node or the support it was created on.                        *)
ParentsOutliveChildren == \A e \in DOMAIN Parent : e \in live => Parent[e] \in live

(* The command of a lost session does not survive it: while no session      *)
(* exists the command in the snapshot surface is the stop, so a later       *)
(* session (or a wrap of the deadman) never starts from an old command.     *)
NoCommandWithoutSession ==
    state \in {"WAITING_AGENT", "AGENT_AVAILABLE"} => cmd = Zero

(* The native stop of AGENT_DISCONNECTED comes within DetectBound of the    *)
(* loss of the agent.                                                       *)
AgentLossStopsTheBase == downFor > DetectBound => cmd = Zero

(* The comment at s_time_offset_ns: "Session-scoped -> recomputed on every  *)
(* (re)connect".  A failed sync keeps the offset of the session before.     *)
StampsUseThisSession == [][PublishCallback => offset = "this"]_vars

(* "A 4-state reconnect machine destroys + recreates the entities on agent  *)
(* loss": once the agent stays, the node is connected for good, with a      *)
(* session the agent knows - if calls to an agent that is up succeed, and   *)
(* if a ping tells that the agent has restarted meanwhile.                  *)
Reconnects ==
    ~lossy /\ pingSession /\ <>[](agent = "up")
       => <>[](state = "AGENT_CONNECTED" /\ session)

(* Once the agent is gone for good, every entity is released for good.      *)
ReleasesAfterLoss ==
    <>[](agent = "down") => <>[](state = "WAITING_AGENT" /\ live = {})

(* The abstract session the task implements.  A lost agent has not closed    *)
(* the session before the base is stopped.                                  *)
Phase ==
    CASE pc \in {"create", "frames", "sync"}                -> "opening"
      [] pc = "destroy"                                     -> "closing"
      [] state \in {"AGENT_CONNECTED", "AGENT_DISCONNECTED"}
           /\ pc # "destroy"                                -> "open"
      [] OTHER                                              -> "closed"

Held == CASE live = {}       -> "none"
          [] live = Entities -> "all"
          [] OTHER           -> "some"

Abstract == INSTANCE Session
              WITH phase <- Phase, held <- Held, moving <- cmd # Zero

(* The four-state machine of main.c, with its partial creations, ignored    *)
(* errors and lost agents, is an orderly life of sessions: the base moves   *)
(* only in an open one, stops before the first release, and what a failed   *)
(* or lost session acquired is all released before the next one begins.     *)
ImplementsSession == Abstract!Spec

(* Every opening and every closing comes to an end: createEntities and      *)
(* destroyEntities return, whatever their calls return.                     *)
SessionSettles == Abstract!Settles

-----------------------------------------------------------------------------
(* The inductive invariant behind the safety properties.                    *)

(* In which state of the machine the task is where.                         *)
StateInv ==
    /\ pc = "ping" => state \in {"WAITING_AGENT", "AGENT_CONNECTED"}
    /\ pc \in {"create", "frames", "sync"} => state = "AGENT_AVAILABLE"
    /\ pc \in {"spin", "spin_timer"} => state = "AGENT_CONNECTED"
    /\ pc = "stop" => state = "AGENT_DISCONNECTED" /\ step = 1
    /\ pc = "destroy" =>
          /\ state \in {"WAITING_AGENT", "AGENT_DISCONNECTED"}
          /\ step \in DOMAIN DestroyOrder

(* No call lasts longer than its limit.                                     *)
BusyInv == busy <= Limit(pc)

(* The stop precedes every destruction.                                     *)
StopInv == NoCommandWithoutSession /\ (pc = "destroy" => cmd = Zero)

Created(k) == {CreateOrder[i] : i \in 1 .. k}

Released(k) == UNION {DestroyOrder[i] : i \in 1 .. k}

(* What is live, by how far creation or destruction has come.               *)
LiveInv ==
    /\ state = "AGENT_CONNECTED" => live = Entities /\ framesSet
    /\ state = "AGENT_DISCONNECTED" /\ pc # "destroy" => live = Entities
    /\ state = "WAITING_AGENT" /\ pc # "destroy" => live = {}
    /\ state = "AGENT_AVAILABLE" =>
          live = CASE pc = "create"             -> Created(step - 1)
                   [] pc \in {"frames", "sync"} -> Entities
                   [] OTHER                     -> {}
    /\ pc = "sync" => framesSet
    /\ pc = "destroy" => live \cap Released(step - 1) = {}
    /\ ParentsOutliveChildren

(* How long the agent may have been lost at each place on the way to the    *)
(* stop.  An answered ping may have been answered when it began.            *)
LostFor ==
    LET connected(p) == state = "AGENT_CONNECTED" /\ pc = p
        missed == PING_CONN + SPIN_MAX + DELAY
    IN  CASE connected("spin")       -> PING_CONN + busy
          [] connected("spin_timer") -> PING_CONN + SPIN_MAX
          [] connected("delay")      -> PING_CONN + SPIN_MAX + busy
          [] connected("switch")     -> missed
          [] connected("ping")       -> IF answered THEN busy ELSE missed + busy
          [] state = "AGENT_DISCONNECTED" /\ pc = "delay"
                                     -> missed + PING_TIMEOUT + busy
          [] OTHER                   -> DetectBound

(* The agent was there at the last ping, when that was answered ...         *)
Seen ==
    \/ state = "AGENT_AVAILABLE"
    \/ state = "AGENT_CONNECTED" /\ pc # "ping"

SeenInv ==
    /\ agent = "up" => downFor = 0
    /\ pc = "ping" /\ answered => downFor <= busy
    /\ pc = "ping" /\ state = "WAITING_AGENT" /\ sinceConn <= PING_CONN
         => busy <= sinceConn
    /\ Seen /\ sinceConn <= PING_CONN => downFor <= sinceConn

(* ... so it has not been away for long while a command is or may come into *)
(* force.                                                                   *)
LossInv == SeenInv /\ (cmd # Zero \/ pc = "spin" => downFor <= LostFor)

TaskInv == StateInv /\ BusyInv /\ StopInv /\ LiveInv /\ LossInv
=============================================================================
