--------------------------- MODULE BaseNodeProofs ---------------------------
(***************************************************************************)
(* Proofs about the tasks of main.c: uros_task by itself (UrosTask), the   *)
(* session it promises (Session), and both tasks on their core (BaseNode). *)
(*                                                                         *)
(* For every period, timeout, duration of a call and quota, whatever the   *)
(* agent does and whichever calls fail, with a good bus and with one that  *)
(* stalls.                                                                 *)
(***************************************************************************)
EXTENDS BaseNode, TLAPS

USE DurationAssumption, CmdAssumption, ScheduleAssumption

-----------------------------------------------------------------------------
(* I.  uros_task by itself                                                  *)

(* The nine creation and the seven destruction calls.                       *)
LEMMA CreateCalls ==
  /\ DOMAIN CreateOrder = 1 .. 9 /\ Len(CreateOrder) = 9
  /\ \A i \in 1 .. 9 : CreateOrder[i] \in Entities
  /\ Entities = {"support", "node", "odom_publisher", "imu_publisher",
                 "twist_subscriber", "control_timer", "executor",
                 "twist_handle", "timer_handle"}
<1>1. DOMAIN CreateOrder = 1 .. 9 /\ Len(CreateOrder) = 9
  BY DEF CreateOrder
<1>2. \A i \in 1 .. 9 : CreateOrder[i] \in Entities
  BY <1>1 DEF Entities
<1>3. Entities = {CreateOrder[1], CreateOrder[2], CreateOrder[3],
                  CreateOrder[4], CreateOrder[5], CreateOrder[6],
                  CreateOrder[7], CreateOrder[8], CreateOrder[9]}
  BY <1>1 DEF Entities
<1> QED
  BY <1>1, <1>2, <1>3 DEF CreateOrder

LEMMA DestroyCalls ==
  /\ DOMAIN DestroyOrder = 1 .. 7 /\ Len(DestroyOrder) = 7
  /\ DestroyOrder[1] = {"odom_publisher"}
  /\ DestroyOrder[2] = {"imu_publisher"}
  /\ DestroyOrder[3] = {"twist_subscriber"}
  /\ DestroyOrder[4] = {"control_timer"}
  /\ DestroyOrder[5] = {"executor", "twist_handle", "timer_handle"}
  /\ DestroyOrder[6] = {"node"}
  /\ DestroyOrder[7] = {"support"}
  BY DEF DestroyOrder

-----------------------------------------------------------------------------
(* Every step keeps every variable in its range.                            *)
LEMMA TypeStep == TypeOK /\ StateInv /\ BusyInv /\ [Next]_vars => TypeOK'
<1> SUFFICES ASSUME TypeOK, StateInv, BusyInv, [Next]_vars PROVE TypeOK'
  OBVIOUS
<1>0. Len(CreateOrder) = 9 /\ Len(DestroyOrder) = 7
      /\ \A i \in 1 .. 9 : CreateOrder[i] \in Entities
      /\ DOMAIN DestroyOrder = 1 .. 7
  BY CreateCalls, DestroyCalls
<1>1. CASE Tick
  BY <1>1, <1>0 DEF Tick, TypeOK, agentVars, link, DetectBound
<1>2. CASE AgentDown
  BY <1>2, <1>0 DEF AgentDown, TypeOK, taskVars, link
<1>3. CASE AgentUp
  BY <1>3, <1>0 DEF AgentUp, TypeOK, taskVars, link, DetectBound
<1>4. CASE AgentAnswers
  BY <1>4, <1>0 DEF AgentAnswers, TypeOK, agentVars, link
<1>5. CASE SwitchCase
  <2>1. pc' \in Pc /\ busy' = 0
    BY <1>5 DEF SwitchCase, TypeOK, Goto, Pc, State
  <2>2. live' \in SUBSET Entities
    BY <1>5 DEF SwitchCase, TypeOK
  <2>3. /\ step' = 1 /\ answered' = FALSE
        /\ UNCHANGED <<state, sinceWait, sinceConn, framesSet, offset, cmd,
                       agent, session, lossy, pingSession, downFor>>
    BY <1>5 DEF SwitchCase, agentVars, link
  <2>4. step' \in 1 .. Len(CreateOrder) /\ answered' \in BOOLEAN
    <3>1. step' \in 1 .. Len(CreateOrder)
      BY <1>0, <2>3
    <3>2. answered' \in BOOLEAN
      BY <2>3
    <3> QED
      BY <3>1, <3>2
  <2>5. state' \in State /\ cmd' \in Values /\ framesSet' \in BOOLEAN
        /\ offset' \in {"none", "this", "old"}
    BY <2>3 DEF TypeOK
  <2>6. /\ sinceWait' \in 0 .. PING_WAIT + 1 /\ sinceConn' \in 0 .. PING_CONN + 1
        /\ downFor' \in 0 .. DetectBound + 1
    BY <2>3 DEF TypeOK, DetectBound
  <2>7. /\ agent' \in {"up", "down"} /\ session' \in BOOLEAN
        /\ lossy' \in BOOLEAN /\ pingSession' \in BOOLEAN
    BY <2>3 DEF TypeOK
  <2> QED
    BY <2>1, <2>2, <2>4, <2>5, <2>6, <2>7 DEF TypeOK
<1>6. CASE PingOk \/ PingTimesOut
  <2>1. PICK ok \in BOOLEAN : PingReturns(ok)
    BY <1>6 DEF PingOk, PingTimesOut
  <2>2. pc' \in Pc /\ busy' = 0 /\ state' \in State
    BY <2>1 DEF PingReturns, StateAfterPing, AfterPing, Goto, Pc, State
  <2>3. busy \in 0 .. PING_TIMEOUT
    BY <2>1 DEF PingReturns, BusyInv, Limit, TypeOK
  <2> QED
    <3>1. sinceWait' \in 0 .. PING_WAIT + 1 /\ sinceConn' \in 0 .. PING_CONN + 1
      BY <2>1, <2>3 DEF PingReturns, TypeOK
    <3>2. UNCHANGED <<step, live, framesSet, offset, cmd, agent, session, lossy,
                      pingSession, downFor>> /\ answered' = FALSE
      BY <2>1 DEF PingReturns, agentVars, link
    <3> QED
      BY <2>2, <3>1, <3>2, <1>0 DEF TypeOK
<1>7. CASE CreateOk
  <2>1. pc' \in Pc /\ busy' = 0 /\ step' \in 1 .. 9
    BY <1>7, <1>0 DEF CreateOk, LastCall, TypeOK, Goto, Pc
  <2>2. live' \in SUBSET Entities
    BY <1>7, <1>0 DEF CreateOk, Current, TypeOK
  <2>3. session' \in BOOLEAN /\ offset' \in {"none", "this", "old"}
    BY <1>7 DEF CreateOk, TypeOK
  <2> QED
    BY <1>7, <1>0, <2>1, <2>2, <2>3 DEF CreateOk, TypeOK, link
<1>8. CASE CreateFails
  BY <1>8, <1>0 DEF CreateFails, TypeOK, Goto, Pc, agentVars, link, State
<1>9. CASE SetFrames \/ SyncOk \/ SyncFails
  <2>1. CASE SetFrames
    BY <2>1, <1>0 DEF SetFrames, TypeOK, Goto, Pc, agentVars, link
  <2>2. CASE SyncOk \/ SyncFails
    <3>1. PICK ok \in BOOLEAN : Sync(ok)
      BY <2>2 DEF SyncOk, SyncFails
    <3> QED
      BY <3>1, <1>0 DEF Sync, TypeOK, Goto, Pc, agentVars, link, State
  <2> QED
    BY <1>9, <2>1, <2>2
<1>10. CASE StopBase
  BY <1>10, <1>0 DEF StopBase, TypeOK, Goto, Pc, agentVars, link, Values
<1>11. CASE DestroyStep
  <2>1. step \in 1 .. 7
    BY <1>11, <1>0 DEF DestroyStep, StateInv
  <2>2. pc' \in Pc /\ busy' = 0 /\ (step' = 1 \/ step' = step + 1)
    BY <1>11 DEF DestroyStep, Goto, Pc
  <2>3. session' \in BOOLEAN /\ state' \in State
    BY <1>11 DEF DestroyStep, TypeOK, State
  <2>4. live' \in SUBSET Entities
    BY <1>11 DEF DestroyStep, TypeOK
  <2> QED
    BY <1>11, <1>0, <2>1, <2>2, <2>3, <2>4 DEF DestroyStep, TypeOK, link
<1>12. CASE TwistCallback \/ NoTwist \/ PublishCallback \/ Wake
  BY <1>12, <1>0
     DEF TwistCallback, NoTwist, PublishCallback, Wake, TypeOK, Goto, Pc,
         agentVars, link
<1>13. CASE UNCHANGED vars
  BY <1>13 DEF vars, taskVars, agentVars, link, TypeOK
<1> QED
  BY <1>1, <1>2, <1>3, <1>4, <1>5, <1>6, <1>7, <1>8, <1>9, <1>10, <1>11, <1>12,
     <1>13 DEF Next, TaskStep

(* The task is where its state says, and the reverse.                       *)
LEMMA StateStep == TypeOK /\ StateInv /\ [Next]_vars => StateInv'
<1> SUFFICES ASSUME TypeOK, StateInv, [Next]_vars PROVE StateInv'
  OBVIOUS
<1> USE DEF StateInv
<1>0. 1 \in DOMAIN DestroyOrder /\ DOMAIN DestroyOrder = 1 .. 7
      /\ Len(DestroyOrder) = 7
  BY DestroyCalls
<1>1. CASE UNCHANGED <<state, pc, step>>
  BY <1>1
<1>2. CASE SwitchCase
  BY <1>2 DEF SwitchCase, PingDue, Goto, TypeOK, State
<1>3. CASE PingOk \/ PingTimesOut
  BY <1>3 DEF PingOk, PingTimesOut, PingReturns, StateAfterPing, AfterPing, Goto
<1>4. CASE CreateOk
  BY <1>4 DEF CreateOk, Goto
<1>5. CASE CreateFails
  BY <1>0, <1>5 DEF CreateFails, Goto
<1>6. CASE SetFrames \/ SyncOk \/ SyncFails
  BY <1>6 DEF SetFrames, SyncOk, SyncFails, Sync, Goto
<1>7. CASE StopBase
  BY <1>0, <1>7 DEF StopBase, Goto
<1>8. CASE DestroyStep
  <2>1. pc = "destroy" /\ step \in 1 .. 7
        /\ state \in {"WAITING_AGENT", "AGENT_DISCONNECTED"}
    BY <1>0, <1>8 DEF DestroyStep
  <2>2. \/ pc' = "delay"
        \/ pc' = "destroy" /\ state' = state /\ step' = step + 1 /\ step # 7
    BY <1>0, <1>8 DEF DestroyStep, Goto
  <2> QED
    BY <1>0, <2>1, <2>2
<1>9. CASE TwistCallback \/ NoTwist \/ PublishCallback \/ Wake
  BY <1>9 DEF TwistCallback, NoTwist, PublishCallback, Wake, Goto
<1> QED
  BY <1>1, <1>2, <1>3, <1>4, <1>5, <1>6, <1>7, <1>8, <1>9
     DEF Next, TaskStep, Tick, AgentDown, AgentUp, AgentAnswers, taskVars, vars

LEMMA LimitType == \A p : Limit(p) \in Nat
  BY DEF Limit

(* Time passes only up to the limit of the call the task is in.             *)
LEMMA BusyStep == TypeOK /\ BusyInv /\ [Next]_vars => BusyInv'
<1> SUFFICES ASSUME TypeOK, BusyInv, [Next]_vars PROVE BusyInv'
  OBVIOUS
<1>0. busy \in Int /\ Limit(pc) \in Int /\ Limit(pc') \in Nat
  BY LimitType DEF TypeOK
<1>1. CASE busy' = 0
  BY <1>0, <1>1 DEF BusyInv
<1>2. CASE UNCHANGED <<pc, busy>>
  BY <1>2 DEF BusyInv
<1>3. CASE Tick
  BY <1>0, <1>3 DEF Tick, BusyInv
<1>4. SwitchCase => busy' = 0
  BY DEF SwitchCase, Goto, PingDue, TypeOK, State
<1>5. TaskStep => busy' = 0
  BY <1>4
     DEF TaskStep, PingOk, PingTimesOut, PingReturns, CreateOk, CreateFails,
         SetFrames, SyncOk, SyncFails, Sync, StopBase, DestroyStep,
         TwistCallback, NoTwist, PublishCallback, Wake, Goto
<1> QED
  BY <1>1, <1>2, <1>3, <1>5
     DEF Next, AgentDown, AgentUp, AgentAnswers, taskVars, vars

(* Every reachable state is well typed, and the task is where its state     *)
(* says.                                                                    *)
LEMMA TypeInit == Init => TypeOK
<1>1. 1 \in 1 .. Len(CreateOrder)
  BY CreateCalls
<1>2. DetectBound + 1 \in Nat
  BY DEF DetectBound
<1> SUFFICES ASSUME Init PROVE TypeOK
  OBVIOUS
<1>3. state \in State /\ pc \in Pc /\ cmd \in Values
  BY DEF Init, State, Pc, Values
<1>4. sinceWait \in 0 .. PING_WAIT + 1 /\ sinceConn \in 0 .. PING_CONN + 1
  BY DEF Init
<1>5. downFor \in 0 .. DetectBound + 1
  BY <1>2 DEF Init
<1>6. step \in 1 .. Len(CreateOrder)
  BY <1>1 DEF Init
<1>7. live \in SUBSET Entities
  BY DEF Init
<1>8. framesSet \in BOOLEAN /\ answered \in BOOLEAN /\ session \in BOOLEAN
  BY DEF Init
<1> QED
  BY <1>3, <1>4, <1>5, <1>6, <1>7, <1>8 DEF Init, TypeOK

LEMMA TypeAndState == Spec => [](TypeOK /\ StateInv /\ BusyInv)
<1>1. Init => TypeOK
  BY TypeInit
<1>2. Init => StateInv
  BY DEF Init, StateInv
<1>3. Init => BusyInv
  BY LimitType DEF Init, BusyInv
<1>4. TypeOK /\ StateInv /\ BusyInv /\ [Next]_vars
         => (TypeOK /\ StateInv /\ BusyInv)'
  BY TypeStep, StateStep, BusyStep
<1> QED
  BY <1>1, <1>2, <1>3, <1>4, PTL DEF Spec

(* uros_task keeps its state machine, its timers and its set of entities in *)
(* range.                                                                   *)
THEOREM TypeCorrect == Spec => []TypeOK
  BY TypeAndState, PTL

-----------------------------------------------------------------------------
(* Every way from AGENT_CONNECTED to a state without a session passes the   *)
(* stop.                                                                    *)
LEMMA StopStep == TypeOK /\ StateInv /\ StopInv /\ [Next]_vars => StopInv'
<1> SUFFICES ASSUME TypeOK, StateInv, StopInv, [Next]_vars PROVE StopInv'
  OBVIOUS
<1> USE DEF StopInv, NoCommandWithoutSession
<1>1. CASE UNCHANGED <<state, pc, cmd>>
  BY <1>1
<1>2. CASE SwitchCase
  BY <1>2 DEF SwitchCase, PingDue, Goto, TypeOK, State
<1>3. CASE PingOk \/ PingTimesOut
  BY <1>3
     DEF PingOk, PingTimesOut, PingReturns, StateAfterPing, AfterPing, Goto,
         StateInv
<1>4. CASE CreateOk \/ CreateFails
  BY <1>4 DEF CreateOk, CreateFails, Goto, StateInv
<1>5. CASE SetFrames \/ SyncOk \/ SyncFails
  BY <1>5 DEF SetFrames, SyncOk, SyncFails, Sync, Goto
<1>6. CASE StopBase
  BY <1>6 DEF StopBase
<1>7. CASE DestroyStep
  BY <1>7 DEF DestroyStep, Goto
<1>8. CASE TwistCallback \/ NoTwist \/ PublishCallback \/ Wake
  BY <1>8 DEF TwistCallback, NoTwist, PublishCallback, Wake, Goto, StateInv
<1> QED
  BY <1>1, <1>2, <1>3, <1>4, <1>5, <1>6, <1>7, <1>8
     DEF Next, TaskStep, Tick, AgentDown, AgentUp, AgentAnswers, taskVars, vars

(* A command never outlives its session: without one, the command in the    *)
(* snapshot surface is the stop.                                            *)
THEOREM SessionStops == Spec => []NoCommandWithoutSession
<1>1. Init => StopInv
  BY DEF Init, StopInv, NoCommandWithoutSession
<1>2. TypeOK /\ StateInv /\ StopInv /\ [Next]_vars => StopInv'
  BY StopStep
<1>3. StopInv => NoCommandWithoutSession
  BY DEF StopInv
<1> QED
  BY <1>1, <1>2, <1>3, TypeAndState, PTL DEF Spec

-----------------------------------------------------------------------------
(* Creation adds one entity at a time, up to all of them.                   *)
LEMMA CreatedStep ==
  /\ Created(0) = {} /\ Created(9) = Entities
  /\ \A k \in 1 .. 9 : Created(k) = Created(k - 1) \cup {CreateOrder[k]}
<1>1. Created(0) = {}
  BY DEF Created
<1>2. Created(9) = Entities
  BY CreateCalls DEF Created, Entities
<1>3. ASSUME NEW k \in 1 .. 9
      PROVE  Created(k) = Created(k - 1) \cup {CreateOrder[k]}
  <2>1. \A i : i \in 1 .. k <=> i \in 1 .. k - 1 \/ i = k
    OBVIOUS
  <2> QED
    BY <2>1 DEF Created
<1> QED
  BY <1>1, <1>2, <1>3

LEMMA ReleasedStep ==
  /\ Released(0) = {}
  /\ \A k \in 1 .. 7 : Released(k) = Released(k - 1) \cup DestroyOrder[k]
<1>1. Released(0) = {}
  BY DEF Released
<1>2. ASSUME NEW k \in 1 .. 7
      PROVE  Released(k) = Released(k - 1) \cup DestroyOrder[k]
  <2>1. \A i : i \in 1 .. k <=> i \in 1 .. k - 1 \/ i = k
    OBVIOUS
  <2> QED
    BY <2>1 DEF Released
<1> QED
  BY <1>1, <1>2

(* What has been released before the node, and before the support.          *)
LEMMA ReleasedBy ==
  /\ {"odom_publisher", "imu_publisher", "twist_subscriber"} \subseteq Released(5)
  /\ Released(6) = {"odom_publisher", "imu_publisher", "twist_subscriber",
                    "control_timer", "executor", "twist_handle",
                    "timer_handle", "node"}
  /\ Released(7) = Entities
<1>1. /\ Released(1) = Released(0) \cup DestroyOrder[1]
      /\ Released(2) = Released(1) \cup DestroyOrder[2]
      /\ Released(3) = Released(2) \cup DestroyOrder[3]
      /\ Released(4) = Released(3) \cup DestroyOrder[4]
      /\ Released(5) = Released(4) \cup DestroyOrder[5]
      /\ Released(6) = Released(5) \cup DestroyOrder[6]
      /\ Released(7) = Released(6) \cup DestroyOrder[7]
  BY ReleasedStep
<1>2. Released(0) = {}
  BY ReleasedStep
<1>3. Released(5) = {"odom_publisher", "imu_publisher", "twist_subscriber",
                     "control_timer", "executor", "twist_handle",
                     "timer_handle"}
  BY <1>1, <1>2, DestroyCalls
<1>4. Released(6) = Released(5) \cup {"node"}
  BY <1>1, DestroyCalls
<1>5. Released(7) = Released(6) \cup {"support"}
  BY <1>1, DestroyCalls
<1> QED
  BY <1>3, <1>4, <1>5, CreateCalls

(* What an entity was created on.                                           *)
LEMMA Parents ==
  /\ \A e \in DOMAIN Parent : Parent[e] \in {"node", "support"}
  /\ \A e \in DOMAIN Parent :
        e \in {"odom_publisher", "imu_publisher", "twist_subscriber"}
           <=> Parent[e] = "node"
  /\ \A e \in DOMAIN Parent : e \in Entities /\ e # "support"
  /\ \A e \in DOMAIN Parent : Parent[e] \in Entities
  BY CreateCalls DEF Parent

(* An entity is created after what it is created on.                        *)
LEMMA ParentsFirstCreated ==
  \A k \in 1 .. 9 : CreateOrder[k] \in DOMAIN Parent
                      => Parent[CreateOrder[k]] \in Created(k - 1)
<1> SUFFICES ASSUME NEW k \in 1 .. 9, CreateOrder[k] \in DOMAIN Parent
             PROVE  Parent[CreateOrder[k]] \in Created(k - 1)
  OBVIOUS
<1>1. CreateOrder[1] = "support" /\ CreateOrder[2] = "node"
  BY DEF CreateOrder
<1>2. CASE Parent[CreateOrder[k]] = "support"
  <2>1. k # 1
    BY <1>1, Parents
  <2>2. 1 \in 1 .. k - 1
    BY <2>1
  <2> QED
    BY <1>1, <1>2, <2>2 DEF Created
<1>3. CASE Parent[CreateOrder[k]] = "node"
  <2>1. k # 1 /\ k # 2
    BY <1>1, <1>3, Parents
  <2>2. 2 \in 1 .. k - 1
    BY <2>1
  <2> QED
    BY <1>1, <1>3, <2>2 DEF Created
<1> QED
  BY <1>2, <1>3, Parents

-----------------------------------------------------------------------------
(* One call of createEntities.                                              *)
LEMMA LiveCreate == TypeOK /\ StateInv /\ LiveInv /\ CreateOk => LiveInv'
<1> SUFFICES ASSUME TypeOK, StateInv, LiveInv, CreateOk PROVE LiveInv'
  OBVIOUS
<1>1. state = "AGENT_AVAILABLE" /\ live = Created(step - 1)
      /\ state' = state /\ pc = "create"
  BY DEF LiveInv, StateInv, CreateOk
<1>2. step \in 1 .. 9
  BY CreateCalls DEF TypeOK
<1>3. live' = Created(step)
  BY <1>1, <1>2, CreatedStep DEF CreateOk, Current
<1>4. \/ pc' = "create" /\ step' = step + 1
      \/ pc' = "frames" /\ step = 9
  BY CreateCalls DEF CreateOk, LastCall, Goto
<1>5. live' = CASE pc' = "create"              -> Created(step' - 1)
                [] pc' \in {"frames", "sync"} -> Entities
                [] OTHER                      -> {}
  <2>1. CASE pc' = "create" /\ step' = step + 1
    <3>1. step' - 1 = step
      BY <1>2, <2>1
    <3> QED
      BY <1>3, <2>1, <3>1
  <2>2. CASE pc' = "frames" /\ step = 9
    BY <1>3, <2>2, CreatedStep
  <2> QED
    BY <1>4, <2>1, <2>2
<1>6. ParentsOutliveChildren'
  <2>1. live' = live \cup {CreateOrder[step]}
    BY DEF CreateOk, Current
  <2>2. CreateOrder[step] \in DOMAIN Parent => Parent[CreateOrder[step]] \in live
    BY <1>1, <1>2, ParentsFirstCreated
  <2> QED
    BY <2>1, <2>2 DEF LiveInv, ParentsOutliveChildren
<1> QED
  BY <1>1, <1>4, <1>5, <1>6 DEF LiveInv

(* One call of destroyEntities.                                             *)
LEMMA LiveDestroy == TypeOK /\ StateInv /\ LiveInv /\ DestroyStep => LiveInv'
<1> SUFFICES ASSUME TypeOK, StateInv, LiveInv, DestroyStep PROVE LiveInv'
  OBVIOUS
<1>1. /\ pc = "destroy" /\ step \in 1 .. 7
      /\ state \in {"WAITING_AGENT", "AGENT_DISCONNECTED"}
      /\ live \subseteq Entities
  BY DestroyCalls DEF DestroyStep, StateInv, TypeOK
<1>2. live \cap Released(step - 1) = {} /\ ParentsOutliveChildren
  BY <1>1 DEF LiveInv
<1>3. live' = live \ DestroyOrder[step] /\ live' \cap Released(step) = {}
  BY <1>1, <1>2, ReleasedStep DEF DestroyStep
<1>4. \/ /\ pc' = "destroy" /\ state' = state /\ step' = step + 1 /\ step # 7
      \/ /\ pc' = "delay" /\ state' = "WAITING_AGENT" /\ step = 7
  BY DestroyCalls DEF DestroyStep, Goto
<1>5. ParentsOutliveChildren'
  <2> SUFFICES ASSUME NEW e \in DOMAIN Parent, e \in live'
               PROVE  Parent[e] \in live'
    BY DEF ParentsOutliveChildren
  <2>1. e \in live /\ Parent[e] \in live
    BY <1>2, <1>3 DEF ParentsOutliveChildren
  <2>2. ASSUME Parent[e] \in DestroyOrder[step] PROVE FALSE
    <3>1. CASE Parent[e] = "node"
      <4>1. step = 6
        BY <1>1, <2>2, <3>1, DestroyCalls
      <4>2. e \in Released(5)
        BY <3>1, Parents, ReleasedBy
      <4> QED
        BY <1>2, <2>1, <4>1, <4>2
    <3>2. CASE Parent[e] = "support"
      <4>1. step = 7
        BY <1>1, <2>2, <3>2, DestroyCalls
      <4>2. e \in Released(6)
        BY <1>1, <2>1, Parents, ReleasedBy, CreateCalls
      <4> QED
        BY <1>2, <2>1, <4>1, <4>2
    <3> QED
      BY <3>1, <3>2, Parents
  <2> QED
    BY <1>3, <2>1, <2>2
<1>6. CASE pc' = "destroy" /\ state' = state /\ step' = step + 1 /\ step # 7
  <2>1. step' - 1 = step
    BY <1>1, <1>6
  <2> QED
    BY <1>1, <1>3, <1>5, <1>6, <2>1 DEF LiveInv
<1>7. CASE pc' = "delay" /\ state' = "WAITING_AGENT" /\ step = 7
  <2>1. live' = {}
    BY <1>1, <1>3, <1>7, ReleasedBy
  <2> QED
    BY <1>5, <1>7, <2>1 DEF LiveInv
<1> QED
  BY <1>4, <1>6, <1>7

(* What is live follows the position of the task in every other step too.   *)
LEMMA LiveStep == TypeOK /\ StateInv /\ LiveInv /\ [Next]_vars => LiveInv'
<1> SUFFICES ASSUME TypeOK, StateInv, LiveInv, [Next]_vars PROVE LiveInv'
  OBVIOUS
<1>1. CASE UNCHANGED <<state, pc, step, live, framesSet>>
  BY <1>1 DEF LiveInv, ParentsOutliveChildren
<1>2. CASE SwitchCase
  <2>1. UNCHANGED <<state, framesSet>> /\ step' = 1 /\ pc = "switch"
    BY <1>2 DEF SwitchCase
  <2>2. state = "AGENT_AVAILABLE" => live = {} /\ live' = {} /\ pc' = "create"
    BY <1>2 DEF SwitchCase, LiveInv, PingDue, Goto
  <2>3. state # "AGENT_AVAILABLE" =>
           live' = live /\ pc' \in {"ping", "delay", "spin", "stop"}
    BY <1>2 DEF SwitchCase, PingDue, Goto, TypeOK, State
  <2>4. CASE state = "AGENT_AVAILABLE"
    <3>1. Created(step' - 1) = {}
      BY <2>1, CreatedStep
    <3> QED
      BY <2>1, <2>2, <2>4, <3>1 DEF LiveInv, ParentsOutliveChildren
  <2>5. CASE state # "AGENT_AVAILABLE"
    BY <2>1, <2>3, <2>5 DEF LiveInv, ParentsOutliveChildren
  <2> QED
    BY <2>4, <2>5
<1>3. CASE PingOk \/ PingTimesOut
  BY <1>3
     DEF PingOk, PingTimesOut, PingReturns, StateAfterPing, AfterPing, Goto,
         StateInv, LiveInv, ParentsOutliveChildren
<1>4. CASE CreateOk
  BY <1>4, LiveCreate
<1>5. CASE CreateFails
  <2>1. /\ pc' = "destroy" /\ state' = "WAITING_AGENT" /\ step' = 1
        /\ UNCHANGED <<live, framesSet>>
    BY <1>5 DEF CreateFails, Goto
  <2>2. Released(step' - 1) = {}
    BY <2>1, ReleasedStep
  <2> QED
    BY <2>1, <2>2 DEF LiveInv, ParentsOutliveChildren
<1>6. CASE SetFrames \/ SyncOk \/ SyncFails
  BY <1>6
     DEF SetFrames, SyncOk, SyncFails, Sync, Goto, StateInv, LiveInv,
         ParentsOutliveChildren
<1>7. CASE StopBase
  <2>1. /\ pc' = "destroy" /\ state' = state /\ state = "AGENT_DISCONNECTED"
        /\ step' = 1 /\ UNCHANGED <<live, framesSet>>
    BY <1>7 DEF StopBase, StateInv, Goto
  <2>2. Released(step' - 1) = {}
    BY <2>1, ReleasedStep
  <2> QED
    BY <2>1, <2>2 DEF LiveInv, ParentsOutliveChildren
<1>8. CASE DestroyStep
  BY <1>8, LiveDestroy
<1>9. CASE TwistCallback \/ NoTwist \/ PublishCallback \/ Wake
  BY <1>9
     DEF TwistCallback, NoTwist, PublishCallback, Wake, Goto, StateInv, LiveInv,
         ParentsOutliveChildren
<1> QED
  BY <1>1, <1>2, <1>3, <1>4, <1>5, <1>6, <1>7, <1>8, <1>9
     DEF Next, TaskStep, Tick, AgentDown, AgentUp, AgentAnswers, taskVars, vars

(* What is live is decided by where the task is.                            *)
LEMMA LiveInvariant == Spec => [](TypeOK /\ StateInv /\ LiveInv)
<1>1. Init => LiveInv
  BY DEF Init, LiveInv, ParentsOutliveChildren
<1>2. TypeOK /\ StateInv /\ LiveInv /\ [Next]_vars => LiveInv'
  BY LiveStep
<1> QED
  BY <1>1, <1>2, TypeAndState, PTL DEF Spec

(* The executor spins, and controlPublishCallback stamps and publishes, only *)
(* with the agent connected and every entity created.                       *)
THEOREM SpinReady == Spec => []SpinOnlyWhenReady
<1>1. StateInv /\ LiveInv => SpinOnlyWhenReady
  BY DEF StateInv, LiveInv, SpinOnlyWhenReady
<1> QED
  BY <1>1, LiveInvariant, PTL

(* No partial creation or destruction releases the node or the support while *)
(* something created on it is live.                                         *)
THEOREM ParentsFirst == Spec => []ParentsOutliveChildren
<1>1. LiveInv => ParentsOutliveChildren
  BY DEF LiveInv
<1> QED
  BY <1>1, LiveInvariant, PTL

(* createEntities never zeroes the handle of an entity that is live.        *)
THEOREM NothingLeaked == Spec => NoEntityLeaked
<1>1. TypeOK /\ StateInv /\ LiveInv /\ [Next]_vars
         => [pc = "switch" /\ state = "AGENT_AVAILABLE" /\ pc' = "create"
             => live = {}]_vars
  BY DEF LiveInv
<1> QED
  BY <1>1, LiveInvariant, PTL DEF Spec, NoEntityLeaked

-----------------------------------------------------------------------------
LEMMA LostForType == TypeOK => LostFor \in Nat /\ DetectBound \in Nat
<1> SUFFICES ASSUME TypeOK PROVE LostFor \in Nat /\ DetectBound \in Nat
  OBVIOUS
<1>1. busy \in Nat
  BY DEF TypeOK
<1>2. DetectBound \in Nat
  BY DEF DetectBound
<1>3. LostFor \in Nat
  BY <1>1, <1>2 DEF LostFor
<1> QED
  BY <1>2, <1>3

(* A step that only the agent takes, or none.                               *)
Outside ==
    /\ UNCHANGED <<state, pc, busy, sinceConn, cmd>>
    /\ answered' = answered \/ downFor' = 0
    /\ downFor' = downFor \/ downFor' = 0

(* The time since the last ping bounds the time the agent may have been     *)
(* away, from the ping that found it to the next.                           *)
LEMMA SeenStep ==
  TypeOK /\ TypeOK' /\ StateInv /\ SeenInv /\ [Next]_vars => SeenInv'
<1> SUFFICES ASSUME TypeOK, TypeOK', StateInv, SeenInv, [Next]_vars
             PROVE  SeenInv'
  OBVIOUS
<1>1. agent' = "up" => downFor' = 0
  BY DEF SeenInv, Next, TaskStep, Tick, AgentDown, AgentUp, AgentAnswers,
         taskVars, agentVars, link, vars, SwitchCase, PingOk, PingTimesOut,
         PingReturns, CreateOk, CreateFails, SetFrames, SyncOk, SyncFails,
         Sync, StopBase, DestroyStep, TwistCallback, NoTwist,
         PublishCallback, Wake
<1>2. /\ busy \in Nat /\ downFor \in Nat /\ sinceConn \in Nat
      /\ PING_CONN \in Nat
      /\ busy' \in Nat /\ downFor' \in Nat /\ sinceConn' \in Nat
  BY DEF TypeOK
<1>3. SUFFICES
        /\ pc' = "ping" /\ answered' => downFor' <= busy'
        /\ pc' = "ping" /\ state' = "WAITING_AGENT" /\ sinceConn' <= PING_CONN
             => busy' <= sinceConn'
        /\ Seen' /\ sinceConn' <= PING_CONN => downFor' <= sinceConn'
  BY <1>1 DEF SeenInv
<1>4. CASE Tick
  <2>1. /\ busy' = busy + 1 /\ downFor' <= downFor + 1
        /\ sinceConn' = IF sinceConn > PING_CONN THEN sinceConn
                        ELSE sinceConn + 1
        /\ UNCHANGED <<state, pc, answered>>
    BY <1>2, <1>4 DEF Tick
  <2>2. Seen' <=> Seen
    BY <2>1 DEF Seen
  <2> QED
    BY <1>2, <2>1, <2>2 DEF SeenInv
<1>5. CASE Outside
  <2>1. Seen' <=> Seen
    BY <1>5 DEF Outside, Seen
  <2> QED
    BY <1>2, <1>5, <2>1 DEF SeenInv, Outside
<1>6. CASE SwitchCase
  <2>1. /\ busy' = 0 /\ answered' = FALSE /\ pc = "switch"
        /\ UNCHANGED <<state, sinceConn, downFor>>
    BY <1>6 DEF SwitchCase, PingDue, Goto, TypeOK, State
  <2>2. Seen' => Seen
    BY <2>1 DEF Seen
  <2> QED
    BY <1>2, <2>1, <2>2 DEF SeenInv
<1>7. CASE PingOk
  <2>1. /\ pc = "ping" /\ pc' # "ping" /\ downFor' = downFor
        /\ downFor <= busy
        /\ state = "WAITING_AGENT" => sinceConn' = sinceConn
        /\ state # "WAITING_AGENT" => sinceConn' = busy
    BY <1>7 DEF PingOk, PingReturns, AfterPing, Goto, SeenInv
  <2> QED
    BY <1>2, <2>1 DEF SeenInv
<1>8. CASE PingTimesOut
  <2>1. pc = "ping" /\ pc' # "ping" /\ ~Seen'
    BY <1>8 DEF PingTimesOut, PingReturns, AfterPing, StateAfterPing, Goto, Seen
  <2> QED
    BY <2>1
<1>9. CASE \/ CreateOk \/ SetFrames \/ SyncOk \/ SyncFails
           \/ TwistCallback \/ NoTwist \/ PublishCallback \/ Wake
  <2>1. pc' # "ping" /\ pc # "ping" /\ UNCHANGED <<sinceConn, downFor>>
    BY <1>9 DEF CreateOk, SetFrames, SyncOk, SyncFails, Sync, TwistCallback,
                NoTwist, PublishCallback, Wake, Goto
  <2>2. Seen' => Seen
    BY <1>9 DEF CreateOk, SetFrames, SyncOk, SyncFails, Sync, TwistCallback,
                NoTwist, PublishCallback, Wake, Goto, Seen, StateInv
  <2> QED
    BY <2>1, <2>2 DEF SeenInv
<1>10. CASE CreateFails \/ StopBase \/ DestroyStep
  <2>1. pc' # "ping" /\ ~Seen'
    BY <1>10 DEF CreateFails, StopBase, DestroyStep, Goto, Seen, StateInv
  <2> QED
    BY <2>1
<1>11. AgentDown \/ AgentUp \/ AgentAnswers \/ UNCHANGED vars => Outside
  BY DEF AgentDown, AgentUp, AgentAnswers, CanAnswer, SeenInv, Outside,
         taskVars, vars
<1> QED
  BY <1>4, <1>5, <1>6, <1>7, <1>8, <1>9, <1>10, <1>11 DEF Next, TaskStep

(* From the answer of the last ping to the stop, the time the agent may have *)
(* been away adds up call by call.                                          *)
LEMMA LossStep ==
  TypeOK /\ TypeOK' /\ StateInv /\ BusyInv /\ StopInv /\ LossInv /\ [Next]_vars
    => LossInv'
<1> SUFFICES ASSUME TypeOK, TypeOK', StateInv, BusyInv, StopInv, LossInv,
                    [Next]_vars
             PROVE  LossInv'
  OBVIOUS
<1> SUFFICES ASSUME cmd' # Zero \/ pc' = "spin", downFor' # 0
             PROVE  downFor' <= LostFor'
  <2>1. SeenInv'
    BY SeenStep DEF LossInv
  <2>2. downFor' = 0 => downFor' <= LostFor'
    <3>1. busy' \in Nat /\ DetectBound \in Nat
      BY DEF TypeOK, DetectBound
    <3>2. LostFor' \in Nat
      BY <3>1 DEF LostFor
    <3> QED
      BY <3>2
  <2> QED
    BY <2>1, <2>2 DEF LossInv
<1>6. cmd # Zero \/ pc = "spin" =>
         /\ state \in {"AGENT_CONNECTED", "AGENT_DISCONNECTED"}
         /\ pc \in {"switch", "ping", "stop", "spin", "spin_timer", "delay"}
         /\ pc = "ping" => state = "AGENT_CONNECTED"
         /\ pc \in {"spin", "spin_timer"} => state = "AGENT_CONNECTED"
         /\ pc = "stop" => state = "AGENT_DISCONNECTED"
  BY DEF TypeOK, State, Pc, StopInv, NoCommandWithoutSession, StateInv
<1>7. /\ cmd # Zero \/ pc = "spin" => downFor <= LostFor
      /\ busy <= Limit(pc)
      /\ busy \in Nat /\ downFor \in Nat /\ sinceConn \in Nat
      /\ downFor' \in Nat /\ PING_CONN \in Nat /\ LostFor \in Nat
  BY LostForType DEF LossInv, BusyInv, TypeOK
<1>9. CASE Tick
  <2>1. /\ busy < Limit(pc) /\ busy' = busy + 1
        /\ downFor' <= downFor + 1
        /\ UNCHANGED <<state, pc, answered, cmd>>
    BY <1>7, <1>9 DEF Tick
  <2>2. pc \in {"ping", "spin", "delay"}
    BY <1>6, <1>7, <2>1 DEF Limit
  <2>3. LostFor' = LostFor + 1
    BY <1>6, <1>7, <2>1, <2>2 DEF LostFor
  <2> QED
    BY <1>7, <2>1, <2>3
<1>10. CASE Outside
  <2>1. CASE downFor' = 0
    BY <2>1
  <2>2. CASE downFor' # 0
    <3>1. UNCHANGED <<state, pc, busy, cmd, answered, downFor>>
      BY <1>10, <2>2 DEF Outside
    <3>2. LostFor' = LostFor
      BY <3>1 DEF LostFor
    <3> QED
      BY <1>7, <3>1, <3>2
  <2> QED
    BY <2>1, <2>2
<1>11. CASE SwitchCase
  <2>1. /\ pc = "switch" /\ busy' = 0 /\ answered' = FALSE
        /\ UNCHANGED <<state, sinceConn, downFor, cmd>>
    BY <1>11 DEF SwitchCase, PingDue, Goto, TypeOK, State
  <2>2. CASE state = "AGENT_CONNECTED" /\ sinceConn > PING_CONN
    <3>1. pc' = "ping" /\ cmd # Zero
      BY <1>11, <2>1, <2>2 DEF SwitchCase, PingDue, Goto
    <3> QED
      BY <1>7, <2>1, <2>2, <3>1 DEF LostFor
  <2>3. CASE state = "AGENT_CONNECTED" /\ ~(sinceConn > PING_CONN)
    <3>1. pc' = "spin"
      BY <1>11, <2>3 DEF SwitchCase, PingDue, Goto
    <3>2. downFor <= sinceConn
      BY <1>7, <2>1, <2>3 DEF LossInv, SeenInv, Seen
    <3> QED
      BY <1>7, <2>1, <2>3, <3>1, <3>2 DEF LostFor
  <2>4. CASE state = "AGENT_DISCONNECTED"
    <3>1. pc' = "stop" /\ cmd # Zero
      BY <1>11, <2>1, <2>4 DEF SwitchCase, PingDue, Goto
    <3> QED
      BY <1>7, <2>1, <2>4, <3>1 DEF LostFor
  <2>5. CASE state \in {"WAITING_AGENT", "AGENT_AVAILABLE"}
    <3>1. pc' # "spin"
      BY <1>11, <2>5 DEF SwitchCase, PingDue, Goto
    <3> QED
      BY <1>6, <2>1, <2>5, <3>1
  <2> QED
    BY <2>2, <2>3, <2>4, <2>5 DEF TypeOK, State
<1>12. CASE PingOk
  <2>1. /\ pc = "ping" /\ answered /\ cmd' = cmd /\ downFor' = downFor
        /\ downFor <= busy /\ busy <= PING_TIMEOUT /\ busy' = 0
    BY <1>7, <1>12
       DEF PingOk, PingReturns, Goto, LossInv, SeenInv, Limit
  <2>2. state = "AGENT_CONNECTED"
    BY <1>6, <1>12, <2>1 DEF PingOk, PingReturns, StateAfterPing, AfterPing,
                             Goto, StateInv
  <2>3. state' = "AGENT_CONNECTED" /\ pc' = "spin"
    BY <1>12, <2>2 DEF PingOk, PingReturns, StateAfterPing, AfterPing, Goto
  <2> QED
    BY <1>7, <2>1, <2>3 DEF LostFor
<1>13. CASE PingTimesOut
  <2>1. /\ pc = "ping" /\ ~answered /\ busy = PING_TIMEOUT /\ cmd' = cmd
        /\ state = "AGENT_CONNECTED" => state' = "AGENT_DISCONNECTED"
        /\ pc' = "delay" /\ busy' = 0 /\ downFor' = downFor
    BY <1>13
       DEF PingTimesOut, PingReturns, StateAfterPing, AfterPing, Goto, StateInv
  <2> QED
    BY <1>6, <1>7, <2>1 DEF LostFor
<1>14. CASE TwistCallback \/ NoTwist
  <2>1. /\ pc = "spin" /\ pc' = "spin_timer" /\ busy' = 0
        /\ UNCHANGED <<state, sinceConn, downFor>>
    BY <1>14 DEF TwistCallback, NoTwist, Goto
  <2> QED
    BY <1>6, <1>7, <2>1 DEF LostFor, Limit
<1>15. CASE PublishCallback
  <2>1. /\ pc = "spin_timer" /\ pc' = "delay" /\ busy' = 0
        /\ UNCHANGED <<state, sinceConn, downFor, cmd>>
    BY <1>15 DEF PublishCallback, Goto
  <2> QED
    BY <1>6, <1>7, <2>1 DEF LostFor
<1>16. CASE Wake
  <2>1. /\ pc = "delay" /\ pc' = "switch" /\ busy = DELAY
        /\ UNCHANGED <<state, sinceConn, downFor, cmd>>
    BY <1>16 DEF Wake, Goto
  <2> QED
    BY <1>6, <1>7, <2>1 DEF LostFor, DetectBound
<1>17. ~(CreateOk \/ CreateFails \/ SetFrames \/ SyncOk \/ SyncFails
           \/ DestroyStep)
  BY <1>6 DEF CreateOk, CreateFails, SetFrames, SyncOk, SyncFails, Sync,
              DestroyStep, Goto
<1>18. ~StopBase
  BY DEF StopBase, Goto
<1>19. AgentDown \/ AgentUp \/ AgentAnswers \/ UNCHANGED vars => Outside
  BY DEF AgentDown, AgentUp, AgentAnswers, CanAnswer, LossInv, SeenInv, Outside,
         taskVars, vars
<1> QED
  BY <1>9, <1>10, <1>11, <1>12, <1>13, <1>14, <1>15, <1>16, <1>17, <1>18, <1>19
     DEF Next, TaskStep

(* For all periods, timeouts and durations: a command is in force for at    *)
(* most DetectBound after the agent is lost.                                *)
THEOREM AgentLossStops == Spec => []AgentLossStopsTheBase
<1>1. Init => StopInv /\ LossInv
  BY DEF Init, TypeOK, StopInv, NoCommandWithoutSession, LossInv, SeenInv, Seen
<1>2. TypeOK /\ StateInv /\ StopInv /\ [Next]_vars => StopInv'
  BY StopStep
<1>3. TypeOK /\ TypeOK' /\ StateInv /\ BusyInv /\ StopInv /\ LossInv
        /\ [Next]_vars => LossInv'
  BY LossStep
<1>4. TypeOK /\ StateInv /\ BusyInv /\ StopInv /\ LossInv
        => AgentLossStopsTheBase
  <2> SUFFICES ASSUME TypeOK, StateInv, BusyInv, StopInv, LossInv, cmd # Zero
               PROVE  downFor <= DetectBound
    BY LostForType DEF AgentLossStopsTheBase, TypeOK
  <2>1. downFor <= LostFor /\ busy <= Limit(pc) /\ busy \in Nat
    BY DEF LossInv, BusyInv, TypeOK
  <2>2. LostFor <= DetectBound
    BY <2>1 DEF LostFor, Limit, DetectBound
  <2> QED
    BY <2>1, <2>2, LostForType DEF TypeOK
<1> QED
  BY <1>1, <1>2, <1>3, <1>4, TypeAndState, PTL DEF Spec

-----------------------------------------------------------------------------
(* II.  UrosTask implements Session: the mapped initial state is one of the *)
(* abstract specification, and every step maps to a step or to none.        *)

(* What the refinement needs to know of the states of UrosTask.             *)
Reached == TypeOK /\ StateInv /\ LiveInv /\ StopInv

LEMMA ReachedInvariant == Spec => []Reached
<1>1. Init => StopInv
  BY DEF Init, StopInv, NoCommandWithoutSession
<1>2. TypeOK /\ StateInv /\ StopInv /\ [Next]_vars => StopInv'
  BY StopStep
<1> QED
  BY <1>1, <1>2, TypeAndState, LiveInvariant, PTL DEF Spec, Reached

LEMMA HeldStates ==
  /\ Held = "none" <=> live = {}
  /\ Held = "all" <=> live = Entities
  /\ Held \in {"none", "some", "all"}
<1>1. Entities # {}
  BY CreateCalls
<1> QED
  BY <1>1 DEF Held

-----------------------------------------------------------------------------
(* One call of createEntities acquires.                                     *)
LEMMA CreateAcquires ==
  Reached /\ CreateOk => [Abstract!Acquire]_(Abstract!sessionVars)
<1> SUFFICES ASSUME Reached, CreateOk
             PROVE  [Abstract!Acquire]_(Abstract!sessionVars)
  OBVIOUS
<1>1. /\ pc = "create" /\ pc' \in {"create", "frames"}
      /\ state = "AGENT_AVAILABLE" /\ UNCHANGED <<state, cmd>>
  BY DEF CreateOk, Goto, Reached, StateInv
<1>2. Phase = "opening" /\ Phase' = "opening"
  BY <1>1 DEF Phase
<1>3. step \in 1 .. 9 /\ live = Created(step - 1)
  BY <1>1, CreateCalls DEF Reached, TypeOK, LiveInv
<1>4. live' = live \cup {CreateOrder[step]}
  BY DEF CreateOk, Current
<1>5. live' # {}
  BY <1>4
<1>6. CASE live = Entities
  <2>1. live' = live
    BY <1>3, <1>4, <1>6, CreateCalls
  <2> QED
    BY <1>1, <1>2, <2>1 DEF Abstract!sessionVars, Held
<1>7. CASE live # Entities
  <2>1. Held # "all"
    BY <1>7, HeldStates
  <2>2. Held' \in {"some", "all"}
    BY <1>5 DEF Held
  <2> QED
    BY <1>1, <1>2, <2>1, <2>2 DEF Abstract!Acquire
<1> QED
  BY <1>6, <1>7

(* One call of destroyEntities releases; the last one closes.               *)
LEMMA DestroyReleases ==
  Reached /\ DestroyStep
    => [Abstract!Release \/ Abstract!Close]_(Abstract!sessionVars)
<1> SUFFICES ASSUME Reached, DestroyStep
             PROVE  [Abstract!Release \/ Abstract!Close]_(Abstract!sessionVars)
  OBVIOUS
<1>1. pc = "destroy" /\ step \in 1 .. 7 /\ live \subseteq Entities
      /\ UNCHANGED cmd
  BY DestroyCalls DEF DestroyStep, Reached, StateInv, TypeOK
<1>2. Phase = "closing"
  BY <1>1 DEF Phase
<1>3. live \cap Released(step - 1) = {}
  BY <1>1 DEF Reached, LiveInv
<1>4. live' = live \ DestroyOrder[step] /\ live' \cap Released(step) = {}
  BY <1>1, <1>3, ReleasedStep DEF DestroyStep
<1>5. CASE step = 7
  <2>1. pc' = "delay" /\ state' = "WAITING_AGENT"
    BY <1>5, DestroyCalls DEF DestroyStep, Goto
  <2>2. live' = {}
    BY <1>1, <1>4, <1>5, ReleasedBy
  <2>3. Phase' = "closed"
    BY <2>1 DEF Phase
  <2>4. Held' = "none"
    BY <2>2, CreateCalls DEF Held
  <2> QED
    BY <1>1, <1>2, <2>3, <2>4 DEF Abstract!Close
<1>6. CASE step # 7
  <2>1. pc' = "destroy"
    BY <1>6, DestroyCalls DEF DestroyStep, Goto
  <2>2. Phase' = "closing"
    BY <2>1 DEF Phase
  <2>3. CASE live' = live
    BY <1>1, <1>2, <2>2, <2>3 DEF Abstract!sessionVars, Held
  <2>4. CASE live' # live
    <3>1. live # {} /\ live' # Entities
      BY <1>1, <1>4, <2>4
    <3>2. Held # "none"
      BY <3>1, HeldStates
    <3>3. Held' \in {"some", "none"}
      BY <3>1 DEF Held
    <3> QED
      BY <1>1, <1>2, <2>2, <3>2, <3>3 DEF Abstract!Release
  <2> QED
    BY <2>3, <2>4
<1> QED
  BY <1>5, <1>6

(* The other steps of the task that change the phase or the command.        *)
LEMMA SwitchBegins ==
  Reached /\ SwitchCase => [Abstract!Begin]_(Abstract!sessionVars)
<1> SUFFICES ASSUME Reached, SwitchCase
             PROVE  [Abstract!Begin]_(Abstract!sessionVars)
  OBVIOUS
<1>1. pc = "switch" /\ UNCHANGED <<state, cmd>>
  BY DEF SwitchCase
<1>2. CASE state = "AGENT_AVAILABLE"
  <2>1. live = {} /\ live' = {} /\ pc' = "create"
    BY <1>1, <1>2 DEF SwitchCase, Reached, LiveInv, PingDue, Goto
  <2>2. Phase = "closed" /\ Phase' = "opening" /\ Held' = Held
    BY <1>1, <1>2, <2>1 DEF Phase, Held
  <2> QED
    BY <1>1, <2>2 DEF Abstract!Begin
<1>3. CASE state # "AGENT_AVAILABLE"
  <2>1. live' = live /\ pc' \in {"ping", "delay", "spin", "stop"}
    BY <1>1, <1>3 DEF SwitchCase, PingDue, Goto, Reached, TypeOK, State
  <2>2. Phase' = Phase /\ Held' = Held
    BY <1>1, <2>1 DEF Phase, Held
  <2> QED
    BY <1>1, <2>2 DEF Abstract!sessionVars
<1> QED
  BY <1>2, <1>3

LEMMA FailureAbandons == Reached /\ CreateFails => Abstract!Abandon
<1> SUFFICES ASSUME Reached, CreateFails PROVE Abstract!Abandon
  OBVIOUS
<1>1. /\ pc = "create" /\ pc' = "destroy" /\ state = "AGENT_AVAILABLE"
      /\ UNCHANGED <<live, cmd>>
  BY DEF CreateFails, Goto, Reached, StateInv
<1>2. Phase = "opening" /\ Phase' = "closing"
  BY <1>1 DEF Phase
<1>3. Held' = Held
  BY <1>1 DEF Held
<1> QED
  BY <1>1, <1>2, <1>3 DEF Abstract!Abandon

LEMMA SyncOpens == Reached /\ (SyncOk \/ SyncFails) => Abstract!Open
<1> SUFFICES ASSUME Reached, SyncOk \/ SyncFails PROVE Abstract!Open
  OBVIOUS
<1>1. /\ pc = "sync" /\ pc' = "delay" /\ state' = "AGENT_CONNECTED"
      /\ state = "AGENT_AVAILABLE" /\ UNCHANGED <<live, cmd>>
  BY DEF SyncOk, SyncFails, Sync, Goto, Reached, StateInv
<1>2. live = Entities
  BY <1>1 DEF Reached, StateInv, LiveInv
<1>3. Phase = "opening" /\ Phase' = "open"
  BY <1>1 DEF Phase
<1>4. Held = "all"
  BY <1>2, HeldStates
<1>5. Held' = Held
  BY <1>1 DEF Held
<1> QED
  BY <1>1, <1>3, <1>4, <1>5 DEF Abstract!Open

LEMMA StopLoses == Reached /\ StopBase => Abstract!Lose
<1> SUFFICES ASSUME Reached, StopBase PROVE Abstract!Lose
  OBVIOUS
<1>1. /\ pc = "stop" /\ pc' = "destroy" /\ state = "AGENT_DISCONNECTED"
      /\ live' = live /\ cmd' = Zero
  BY DEF StopBase, Goto, Reached, StateInv
<1>2. Phase = "open" /\ Phase' = "closing" /\ Held' = Held
  BY <1>1 DEF Phase, Held
<1> QED
  BY <1>1, <1>2 DEF Abstract!Lose

LEMMA CallbackCommands ==
  Reached /\ TwistCallback => Abstract!Command
<1> SUFFICES ASSUME Reached, TwistCallback PROVE Abstract!Command
  OBVIOUS
<1>1. /\ pc = "spin" /\ pc' = "spin_timer" /\ state = "AGENT_CONNECTED"
      /\ UNCHANGED <<state, live>>
  BY DEF TwistCallback, Goto, Reached, StateInv
<1>2. Phase = "open" /\ Phase' = Phase /\ Held' = Held
  BY <1>1 DEF Phase, Held
<1> QED
  BY <1>2 DEF Abstract!Command

(* A ping moves the machine without beginning or ending a session; the rest *)
(* does not move it at all.                                                 *)
LEMMA OthersStutter ==
  Reached /\ (\/ PingOk \/ PingTimesOut \/ SetFrames \/ NoTwist
              \/ PublishCallback \/ Wake \/ Tick \/ AgentDown \/ AgentUp
              \/ AgentAnswers \/ UNCHANGED vars)
    => UNCHANGED Abstract!sessionVars
<1> SUFFICES ASSUME Reached
             PROVE  (\/ PingOk \/ PingTimesOut \/ SetFrames \/ NoTwist
                     \/ PublishCallback \/ Wake \/ Tick \/ AgentDown \/ AgentUp
                     \/ AgentAnswers \/ UNCHANGED vars)
                      => UNCHANGED <<Phase, live, cmd>>
  BY DEF Abstract!sessionVars, Held
<1>1. PingOk \/ PingTimesOut => UNCHANGED <<Phase, live, cmd>>
  <2> SUFFICES ASSUME NEW ok \in BOOLEAN, PingReturns(ok)
               PROVE  UNCHANGED <<Phase, live, cmd>>
    BY DEF PingOk, PingTimesOut
  <2>1. /\ pc = "ping" /\ pc' \in {"spin", "delay"} /\ UNCHANGED <<live, cmd>>
        /\ state \in {"WAITING_AGENT", "AGENT_CONNECTED"}
    BY DEF PingReturns, AfterPing, Goto, Reached, StateInv
  <2>2. state = "WAITING_AGENT"
          => state' \in {"WAITING_AGENT", "AGENT_AVAILABLE"}
    BY DEF PingReturns, StateAfterPing
  <2>3. state = "AGENT_CONNECTED"
          => state' \in {"AGENT_CONNECTED", "AGENT_DISCONNECTED"}
    BY DEF PingReturns, StateAfterPing
  <2> QED
    BY <2>1, <2>2, <2>3 DEF Phase
<1>2. SetFrames \/ NoTwist \/ PublishCallback \/ Wake
        => UNCHANGED <<Phase, live, cmd>>
  BY DEF SetFrames, NoTwist, PublishCallback, Wake, Goto, Phase
<1>3. Tick \/ AgentDown \/ AgentUp \/ AgentAnswers \/ UNCHANGED vars
        => UNCHANGED <<Phase, live, cmd>>
  BY DEF Tick, AgentDown, AgentUp, AgentAnswers, taskVars, vars, Phase
<1> QED
  BY <1>1, <1>2, <1>3

-----------------------------------------------------------------------------
(* The micro-ROS task is an implementation of the abstract session, for all *)
(* durations, whatever the agent does and whichever calls fail.             *)
THEOREM SessionRefined == Spec => ImplementsSession
<1>1. Init => Abstract!Init
  <2> SUFFICES ASSUME Init PROVE Abstract!Init
    OBVIOUS
  <2>1. Phase = "closed"
    BY DEF Init, Phase
  <2>2. Held = "none"
    BY CreateCalls DEF Init, Held
  <2>3. (cmd # Zero) = FALSE
    BY DEF Init
  <2> QED
    BY <2>1, <2>2, <2>3 DEF Abstract!Init
<1>2. Reached /\ [Next]_vars => [Abstract!Next]_(Abstract!sessionVars)
  BY CreateAcquires, DestroyReleases, SwitchBegins, FailureAbandons, SyncOpens,
     StopLoses, CallbackCommands, OthersStutter
     DEF Next, TaskStep, Abstract!Next
<1> QED
  BY <1>1, <1>2, ReachedInvariant, PTL DEF Spec, ImplementsSession, Abstract!Spec

-----------------------------------------------------------------------------
(* III.  Both tasks on their core                                           *)

-----------------------------------------------------------------------------
(* The bounds, and how they compare.                                        *)

LEMMA HogBounds ==
  /\ Hog \in Nat /\ HogOpen \in Nat /\ HogOpen <= Hog
  /\ PING_TIMEOUT + SPIN_MAX <= HogOpen /\ 7 * STEP_MAX <= HogOpen
  /\ 9 * STEP_MAX + SYNC_MAX <= Hog /\ 16 * STEP_MAX <= Hog
  /\ LATE_MAX = Hog + PERIOD + 1
<1>1. Len(CreateOrder) = 9 /\ Len(DestroyOrder) = 7
  BY CreateCalls, DestroyCalls
<1>2. 7 * STEP_MAX \in Nat /\ 9 * STEP_MAX \in Nat
  OBVIOUS
<1>3. HogOpen = Greatest(PING_TIMEOUT + SPIN_MAX, 7 * STEP_MAX)
  BY <1>1 DEF HogOpen
<1>4. /\ HogOpen \in Nat
      /\ PING_TIMEOUT + SPIN_MAX <= HogOpen /\ 7 * STEP_MAX <= HogOpen
  BY <1>2, <1>3 DEF Greatest
<1>5. Hog = Greatest(HogOpen, 9 * STEP_MAX + Greatest(SYNC_MAX, 7 * STEP_MAX))
  BY <1>1 DEF Hog
<1> QED
  BY <1>2, <1>4, <1>5 DEF Greatest, LATE_MAX

(* What is known of the bounds that depend on the bus.                      *)
Compared ==
    /\ Hog \in Nat /\ HogOpen \in Nat /\ HogOpen <= Hog
    /\ LATE_MAX = Hog + PERIOD + 1
    /\ Cycle = DELAY + IF wedged THEN Hog ELSE HogOpen
    /\ TickMax = IF wedged THEN Cycle + I2C_MAX + Hog ELSE Cycle
    /\ WaitHog = IF wedged \/ PERIOD > 2 * DELAY THEN Hog ELSE HogOpen
    /\ ReadToDrive \in Nat
    /\ PERIOD + WaitHog <= ReadToDrive /\ TickMax + Cycle <= ReadToDrive
    /\ StopBound = CMD_TIMEOUT - 1 + ReadToDrive
    /\ AGE_MAX = StopBound + 1

LEMMA Compare == Compared
<1>1. Hog \in Nat /\ HogOpen \in Nat /\ HogOpen <= Hog /\ LATE_MAX = Hog + PERIOD + 1
  BY HogBounds
<1>2. /\ Cycle \in Nat /\ TickMax \in Nat /\ WaitHog \in Nat
      /\ Cycle = DELAY + IF wedged THEN Hog ELSE HogOpen
      /\ TickMax = IF wedged THEN Cycle + I2C_MAX + Hog ELSE Cycle
      /\ WaitHog = IF wedged \/ PERIOD > 2 * DELAY THEN Hog ELSE HogOpen
  <2>1. /\ Cycle = DELAY + IF wedged THEN Hog ELSE HogOpen
        /\ TickMax = IF wedged THEN Cycle + I2C_MAX + Hog ELSE Cycle
        /\ WaitHog = IF wedged \/ PERIOD > 2 * DELAY THEN Hog ELSE HogOpen
    BY DEF Cycle, TickMax, WaitHog
  <2> QED
    BY <1>1, <2>1
<1>3. /\ ReadToDrive \in Nat
      /\ PERIOD + WaitHog <= ReadToDrive /\ TickMax + Cycle <= ReadToDrive
  BY <1>2 DEF ReadToDrive, Greatest
<1> QED
  BY <1>1, <1>2, <1>3 DEF Compared, StopBound, AGE_MAX

LEMMA BoundsKept ==
  ASSUME UNCHANGED wedged
  PROVE  /\ Compared' = Compared
         /\ Cycle' = Cycle /\ TickMax' = TickMax /\ WaitHog' = WaitHog
         /\ ReadToDrive' = ReadToDrive /\ AGE_MAX' = AGE_MAX /\ StopBound' = StopBound
  BY DEF Compared, Cycle, TickMax, WaitHog, ReadToDrive, AGE_MAX, StopBound

(* What is known of the bound of the gap between two control ticks.         *)
Bounded ==
    /\ Hog \in Nat /\ LATE_MAX = Hog + PERIOD + 1
    /\ Stall = IF wedged THEN I2C_MAX ELSE 0
    /\ Stall \in Nat /\ Stuck \in Nat /\ GapBound \in Nat
    /\ Stall <= Stuck /\ DELAY <= Stuck
    /\ Hog + PERIOD <= GapBound /\ Hog + Stuck <= GapBound
    /\ quota = 1 => Hog + (Stuck + Hog + DELAY) <= GapBound
    /\ GAP_MAX = GapBound + 1 /\ GAP_MAX \in Nat

LEMMA GapBounds == Bounded
<1>1. Hog \in Nat /\ LATE_MAX = Hog + PERIOD + 1
  BY HogBounds
<1>2. /\ Stall = IF wedged THEN I2C_MAX ELSE 0
      /\ Stall \in Nat
  BY DEF Stall
<1>3. /\ Stuck \in Nat /\ Stall <= Stuck /\ DELAY <= Stuck
  BY <1>2 DEF Stuck, Greatest
<1>4. /\ GapBound \in Nat
      /\ Hog + PERIOD <= GapBound /\ Hog + Stuck <= GapBound
      /\ quota = 1 => Hog + (Stuck + Hog + DELAY) <= GapBound
  <2> DEFINE tail == IF quota = 1 THEN Stuck + Hog + DELAY ELSE Stuck
  <2>1. GapBound = Hog + Greatest(PERIOD, tail)
    BY DEF GapBound
  <2>2. tail \in Nat /\ Stuck <= tail
    BY <1>1, <1>3
  <2>3. quota = 1 => tail = Stuck + Hog + DELAY
    OBVIOUS
  <2> HIDE DEF tail
  <2> QED
    BY <1>1, <1>3, <2>1, <2>2, <2>3 DEF Greatest
<1> QED
  BY <1>1, <1>2, <1>3, <1>4 DEF Bounded, GAP_MAX

LEMMA GapBoundsKept ==
  ASSUME UNCHANGED <<quota, wedged>>
  PROVE  /\ Hog' = Hog /\ LATE_MAX' = LATE_MAX
         /\ Stall' = Stall /\ Stuck' = Stuck
         /\ GapBound' = GapBound /\ GAP_MAX' = GAP_MAX
  BY DEF Hog, HogOpen, LATE_MAX, Stall, Stuck, GapBound, GAP_MAX

-----------------------------------------------------------------------------
(* What the steps of uros_task do to the core.                              *)

Known == TypeOK /\ StateInv /\ BusyInv /\ StopInv

LEMMA Product ==
  ASSUME NEW a \in Nat, NEW b \in Nat, NEW c \in Nat, a <= b
  PROVE  a * c \in Nat /\ a * c <= b * c /\ (a + 1) * c = a * c + c
  BY SMT

(* The time in createEntities and destroyEntities so far.                   *)
LEMMA Calls ==
  ASSUME Known
  PROVE  /\ (step - 1) * STEP_MAX \in Nat
         /\ pc = "create" => (step - 1) * STEP_MAX + STEP_MAX <= 9 * STEP_MAX
         /\ pc = "destroy" => (step - 1) * STEP_MAX + STEP_MAX <= 7 * STEP_MAX
         /\ (step + 1 - 1) * STEP_MAX = (step - 1) * STEP_MAX + STEP_MAX
<1>1. step \in 1 .. 9 /\ (pc = "destroy" => step \in 1 .. 7)
  BY CreateCalls, DestroyCalls DEF Known, TypeOK, StateInv
<1>2. /\ (step - 1) * STEP_MAX \in Nat
      /\ (step - 1 + 1) * STEP_MAX = (step - 1) * STEP_MAX + STEP_MAX
  <2>1. step - 1 \in Nat
    BY <1>1
  <2> QED
    BY <2>1, Product
<1>3. (step - 1 + 1) = step /\ step + 1 - 1 = step /\ step \in Nat
  BY <1>1
<1>4. step * STEP_MAX <= 9 * STEP_MAX
  BY <1>1, <1>3, Product
<1>5. pc = "destroy" => step * STEP_MAX <= 7 * STEP_MAX
  BY <1>1, <1>3, Product
<1> QED
  BY <1>2, <1>3, <1>4, <1>5

LEMMA AwayBounds ==
  ASSUME Known
  PROVE  /\ Away \in Nat /\ busy \in Nat
         /\ Away <= Hog
         /\ ~Opening => Away <= HogOpen
<1> USE HogBounds
<1>1. Len(CreateOrder) = 9
  BY CreateCalls
<1>2. busy \in Nat /\ busy <= Limit(pc)
  BY DEF Known, TypeOK, BusyInv
<1>3. CASE pc \in {"create", "frames", "sync"}
  <2>1. Opening
    BY <1>3 DEF Known, StateInv, Opening
  <2> QED
    BY <1>1, <1>2, <1>3, <2>1, Calls DEF Away, Limit
<1>4. CASE pc = "destroy"
  BY <1>1, <1>2, <1>4, Calls DEF Away, Limit
<1>5. CASE pc \in {"ping", "spin", "spin_timer"}
  <2>1. /\ pc = "ping" => Away = busy /\ busy <= PING_TIMEOUT
        /\ pc = "spin" => Away = PING_TIMEOUT + busy /\ busy <= SPIN_MAX
        /\ pc = "spin_timer" => Away = PING_TIMEOUT + SPIN_MAX
    BY <1>2 DEF Away, Limit
  <2> QED
    BY <1>2, <1>5, <2>1
<1>6. CASE pc \in {"switch", "stop", "delay"}
  <2>1. Away = 0
    BY <1>6 DEF Away
  <2> QED
    BY <1>2, <2>1
<1> QED
  BY <1>3, <1>4, <1>5, <1>6 DEF Known, TypeOK, Pc

LEMMA AwayType == Known => Away \in Nat /\ Away <= Hog
  BY AwayBounds

(* A tick outside the delay counts.                                         *)
LEMMA AwayTicks ==
  ASSUME Known, Tick, pc # "delay"
  PROVE  Away' = Away + 1 /\ Opening' = Opening
<1>1. busy' = busy + 1 /\ UNCHANGED <<state, pc, step>> /\ busy < Limit(pc) /\ busy \in Nat
  BY DEF Tick, Known, TypeOK
<1>2. Opening' = Opening
  BY <1>1 DEF Opening
<1>3. pc \in {"ping", "create", "sync", "spin", "destroy"}
  BY <1>1 DEF Limit, Known, TypeOK, Pc
<1>4. (step - 1) * STEP_MAX \in Nat /\ 9 * STEP_MAX \in Nat /\ Len(CreateOrder) = 9
  BY Calls, CreateCalls
<1> QED
  BY <1>1, <1>2, <1>3, <1>4 DEF Away

(* The end of the delay, ...                                                *)
WakeUp ==
    /\ pc = "delay" /\ busy = DELAY
    /\ pc' = "switch" /\ busy' = 0 /\ state' = state

(* ... a return from a call that does not lead there, ...                   *)
Move ==
    /\ pc # "delay" /\ pc' # "delay" /\ busy' = 0
    /\ Away <= Away' /\ Opening' = Opening
    /\ state' = "WAITING_AGENT" /\ pc' \in {"switch", "ping"}
         => state = state' /\ pc \in {"switch", "ping"}

(* ... and its beginning.                                                   *)
TurnBegins ==
    /\ pc # "delay" /\ pc' = "delay" /\ busy' = 0
    /\ state' = "AGENT_AVAILABLE" => state = "WAITING_AGENT" /\ pc = "ping"

LEMMA TaskMoves ==
  ASSUME Known, TaskStep
  PROVE  WakeUp \/ Move \/ TurnBegins
<1>0. /\ Len(CreateOrder) = 9 /\ Len(DestroyOrder) = 7 /\ 9 * STEP_MAX \in Nat
      /\ 7 * STEP_MAX \in Nat
  BY CreateCalls, DestroyCalls
<1>1. /\ busy \in Nat /\ busy <= Limit(pc) /\ Away \in Nat /\ state \in State
  BY AwayBounds DEF Known, TypeOK, BusyInv
<1>2. /\ (step - 1) * STEP_MAX \in Nat
      /\ pc = "create" => (step - 1) * STEP_MAX + STEP_MAX <= 9 * STEP_MAX
      /\ (step + 1 - 1) * STEP_MAX = (step - 1) * STEP_MAX + STEP_MAX
  BY Calls
<1>3a. step \in Nat
  BY DEF Known, TypeOK
<1>3. CASE SwitchCase
  <2>1. /\ pc = "switch" /\ busy' = 0 /\ state' = state /\ Away = 0
        /\ pc' \in {"ping", "delay", "create", "spin", "stop"}
        /\ pc' = "delay" => state = "WAITING_AGENT"
        /\ pc' = "create" => state = "AGENT_AVAILABLE"
        /\ pc' = "ping" => state # "AGENT_AVAILABLE"
        /\ pc' = "stop" => state = "AGENT_DISCONNECTED"
        /\ pc' = "spin" => state = "AGENT_CONNECTED"
        /\ step' = 1
    BY <1>1, <1>3 DEF SwitchCase, Goto, State, PingDue, Away
  <2>2. pc' # "delay" => Away' \in Nat
    BY <2>1, <1>0 DEF Away
  <2> QED
    BY <1>1, <2>1, <2>2 DEF Move, TurnBegins, Opening
<1>4. CASE PingOk \/ PingTimesOut
  <2>1. PICK ok \in BOOLEAN : PingReturns(ok)
    BY <1>4 DEF PingOk, PingTimesOut
  <2>2. /\ pc = "ping" /\ busy' = 0 /\ busy <= PING_TIMEOUT /\ Away = busy
        /\ state \in {"WAITING_AGENT", "AGENT_CONNECTED"}
    BY <2>1, <1>1 DEF PingReturns, Goto, Limit, Known, StateInv, Away
  <2>3. \/ /\ pc' = "delay"
           /\ state' = "AGENT_AVAILABLE" => state = "WAITING_AGENT"
        \/ pc' = "spin" /\ state = "AGENT_CONNECTED" /\ state' = "AGENT_CONNECTED"
    BY <2>1, <2>2 DEF PingReturns, AfterPing, StateAfterPing, Goto
  <2> QED
    BY <1>1, <2>2, <2>3 DEF Move, TurnBegins, Opening, Away
<1>5. CASE CreateOk
  <2>1. /\ pc = "create" /\ busy' = 0 /\ state' = state /\ busy <= STEP_MAX
        /\ state = "AGENT_AVAILABLE"
        /\ \/ pc' = "frames"
           \/ pc' = "create" /\ step' = step + 1
    BY <1>5, <1>1 DEF CreateOk, LastCall, Goto, Limit, Known, StateInv
  <2>a. Away = (step - 1) * STEP_MAX + busy
    BY <2>1 DEF Away
  <2>2. Away <= Away'
    <3>1. CASE pc' = "frames"
      <4>1. Away' = 9 * STEP_MAX
        BY <1>0, <3>1 DEF Away
      <4> QED
        BY <1>0, <1>1, <1>2, <2>1, <2>a, <4>1
    <3>2. CASE pc' = "create" /\ step' = step + 1
      <4>1. Away' = (step + 1 - 1) * STEP_MAX
        <5>1. Away' = (step' - 1) * STEP_MAX + busy'
          BY <3>2 DEF Away
        <5>2. (step' - 1) * STEP_MAX = (step + 1 - 1) * STEP_MAX
          BY <1>3a, <3>2, SMT
        <5> QED
          BY <1>2, <2>1, <5>1, <5>2
      <4> QED
        BY <1>0, <1>1, <1>2, <2>1, <2>a, <4>1
    <3> QED
      BY <2>1, <3>1, <3>2
  <2> QED
    BY <2>1, <2>2 DEF Move, Opening
<1>6. CASE CreateFails
  <2>1. /\ pc = "create" /\ busy' = 0 /\ state' = "WAITING_AGENT" /\ busy <= STEP_MAX
        /\ state = "AGENT_AVAILABLE" /\ pc' = "destroy" /\ step' = 1
        /\ Away = (step - 1) * STEP_MAX + busy
    BY <1>6, <1>1 DEF CreateFails, Goto, Limit, Known, StateInv, Away
  <2>2. Opening' /\ Opening
    BY <2>1 DEF Opening
  <2>3. Away' = 9 * STEP_MAX
    BY <1>0, <2>1, <2>2 DEF Away
  <2> QED
    BY <1>0, <1>1, <1>2, <2>1, <2>2, <2>3 DEF Move
<1>7. CASE SetFrames
  <2>1. /\ pc = "frames" /\ busy' = 0 /\ state' = state /\ pc' = "sync"
        /\ state = "AGENT_AVAILABLE"
    BY <1>7 DEF SetFrames, Goto, Known, StateInv
  <2> QED
    BY <1>0, <2>1 DEF Move, Opening, Away
<1>8. CASE SyncOk \/ SyncFails
  BY <1>8 DEF SyncOk, SyncFails, Sync, Goto, TurnBegins
<1>9. CASE StopBase
  <2>1. /\ pc = "stop" /\ busy' = 0 /\ state' = state /\ pc' = "destroy" /\ step' = step
        /\ state = "AGENT_DISCONNECTED"
    BY <1>9 DEF StopBase, Goto, Known, StateInv
  <2>2. Away = 0 /\ Away' = (step - 1) * STEP_MAX
    BY <1>2, <2>1 DEF Away, Opening
  <2> QED
    BY <1>2, <2>1, <2>2 DEF Move, Opening
<1>10. CASE DestroyStep
  <2>1. /\ pc = "destroy" /\ busy' = 0 /\ busy <= STEP_MAX
        /\ \/ pc' = "delay" /\ state' = "WAITING_AGENT"
           \/ pc' = "destroy" /\ state' = state /\ step' = step + 1
    BY <1>10, <1>1 DEF DestroyStep, Goto, Limit
  <2>2. pc' = "destroy" => Away <= Away' /\ Opening' = Opening
    <3> SUFFICES ASSUME pc' = "destroy" PROVE Away <= Away' /\ Opening' = Opening
      OBVIOUS
    <3>1. Opening' = Opening
      BY <2>1 DEF Opening
    <3>2. step' = step + 1 /\ state' = state /\ busy' = 0
      BY <2>1
    <3>3. Away = (step - 1) * STEP_MAX + busy + IF Opening THEN 9 * STEP_MAX ELSE 0
      BY <1>0, <1>1, <1>2, <2>1 DEF Away
    <3>4. Away' = (step + 1 - 1) * STEP_MAX + IF Opening THEN 9 * STEP_MAX ELSE 0
      <4>1. Away' = IF Opening THEN 9 * STEP_MAX + ((step' - 1) * STEP_MAX + busy')
                    ELSE (step' - 1) * STEP_MAX + busy'
        BY <1>0, <3>1 DEF Away
      <4>2. (step' - 1) * STEP_MAX = (step + 1 - 1) * STEP_MAX
        BY <1>3a, <3>2, SMT
      <4> QED
        BY <1>0, <1>2, <3>2, <4>1, <4>2
    <3> QED
      BY <1>0, <1>1, <1>2, <2>1, <3>1, <3>3, <3>4
  <2> QED
    BY <2>1, <2>2 DEF Move, TurnBegins
<1>11. CASE TwistCallback \/ NoTwist
  <2>1. /\ pc = "spin" /\ busy' = 0 /\ state' = state /\ pc' = "spin_timer"
        /\ state = "AGENT_CONNECTED" /\ busy <= SPIN_MAX
    BY <1>1, <1>11 DEF TwistCallback, NoTwist, Goto, Known, StateInv, Limit
  <2> QED
    BY <1>1, <2>1 DEF Move, Opening, Away
<1>12. CASE PublishCallback
  <2>1. state = "AGENT_CONNECTED" /\ state' = state
    BY <1>12 DEF PublishCallback, Known, StateInv
  <2> QED
    BY <1>12, <2>1 DEF PublishCallback, Goto, TurnBegins
<1>13. CASE Wake
  BY <1>13 DEF Wake, Goto, WakeUp
<1> QED
  BY <1>3, <1>4, <1>5, <1>6, <1>7, <1>8, <1>9, <1>10, <1>11, <1>12, <1>13 DEF TaskStep

-----------------------------------------------------------------------------
(* The steps of BaseNode, by what they do to the core and the ages.         *)

(* Time passes for both tasks.                                              *)
Passes ==
    /\ busy' = busy + 1
    /\ late' = IF cpc = "init" \/ late = LATE_MAX THEN late ELSE late + 1
    /\ spent' = IF cpc \in {"init", "imu"} /\ spent < WaitLimit
                THEN spent + 1 ELSE spent
    /\ stampAge' = Older(stampAge, CMD_TIMEOUT)
    /\ lcmdAge' = Older(lcmdAge, AGE_MAX)
    /\ driveAge' = Older(driveAge, AGE_MAX)
    /\ gap' = IF cpc = "init" THEN gap ELSE Older(gap, GAP_MAX)
    /\ UNCHANGED <<state, pc, step, cmd, cpc, done, quota, wedged>>

TurnTick == pc = "delay" /\ busy < DELAY /\ (ControlWaits \/ done = quota) /\ Passes

AwayTick == pc # "delay" /\ Passes /\ Away' = Away + 1 /\ Opening' = Opening

(* control_task stands still while uros_task returns from a call.           *)
Kept ==
    /\ UNCHANGED <<cpc, late, spent, lcmdAge, driveAge, gap, quota, wedged>>
    /\ done' = IF pc = "delay" THEN 0 ELSE done
    /\ stampAge' \in {OFF, 0, stampAge} /\ (cmd' = Zero => stampAge' = OFF)

Idle ==
    UNCHANGED <<state, pc, step, busy, cmd, cpc, late, spent, done,
                stampAge, lcmdAge, driveAge, gap, quota, wedged>>

LEMMA BaseSteps ==
  ASSUME Known, [BaseNext]_baseVars
  PROVE  \/ TurnTick \/ AwayTick
         \/ WakeUp /\ Kept
         \/ Move /\ Kept
         \/ TurnBegins /\ Kept
         \/ Idle \/ InitDone \/ ReadCommand \/ Drive \/ ImuDone
<1>1. CASE BaseTick
  <2>1. Tick /\ Passes
    BY <1>1 DEF BaseTick, Tick, Passes, outside
  <2>2. pc # "delay" => AwayTick
    BY <2>1, AwayTicks DEF AwayTick
  <2>3. pc = "delay" => TurnTick
    BY <1>1, <2>1 DEF BaseTick, Tick, TurnTick, Limit, ControlRuns
  <2> QED
    BY <2>2, <2>3
<1>2. CASE StoreCommand
  <2>1. TaskStep /\ pc = "spin"
    BY <1>2 DEF StoreCommand, TaskStep, TwistCallback
  <2>2. Kept
    BY <1>2, <2>1 DEF StoreCommand, Kept, controlVars, outside, Age
  <2> QED
    BY <2>1, <2>2, TaskMoves
<1>3. CASE KeepCommand
  <2>1. TaskStep /\ Kept
    BY <1>3 DEF KeepCommand, Kept, outside, Age
  <2> QED
    BY <2>1, TaskMoves
<1>4. CASE Answer
  BY <1>4 DEF Answer, AgentAnswers, Idle, controlVars, outside
<1>5. CASE UNCHANGED baseVars
  BY <1>5 DEF baseVars, vars, taskVars, controlVars, outside, Idle
<1> QED
  BY <1>1, <1>2, <1>3, <1>4, <1>5 DEF BaseNext

(* BaseNode keeps what UrosTask knows of itself; that control_loop_init     *)
(* clears the command changes nothing but the command.                      *)
LEMMA KnownStep == Known /\ [BaseNext]_baseVars => Known'
<1> SUFFICES ASSUME Known, [BaseNext]_baseVars PROVE Known'
  OBVIOUS
<1>1. ASSUME [Next]_vars PROVE Known'
  BY <1>1, TypeStep, StateStep, BusyStep, StopStep DEF Known
<1>2. CASE BaseTick \/ StoreCommand \/ KeepCommand \/ Answer
  BY <1>1, <1>2
     DEF BaseTick, StoreCommand, KeepCommand, Answer, Next, TaskStep
<1>3. CASE InitDone
  <2>1. cmd' = Zero /\ UNCHANGED <<state, pc, step, busy>>
    BY <1>3 DEF InitDone
  <2>2. TypeOK'
    BY <1>3 DEF InitDone, Known, TypeOK, agentVars, link, Values, DetectBound
  <2>3. StateInv' /\ BusyInv' /\ StopInv'
    BY <2>1 DEF Known, StateInv, BusyInv, StopInv, NoCommandWithoutSession, Limit
  <2> QED
    BY <2>2, <2>3 DEF Known
<1>4. CASE ReadCommand \/ Drive \/ ImuDone
  BY <1>1, <1>4 DEF ReadCommand, Drive, ImuDone
<1>5. CASE UNCHANGED baseVars
  BY <1>1, <1>5 DEF baseVars
<1> QED
  BY <1>2, <1>3, <1>4, <1>5 DEF BaseNext

LEMMA KnownInit == BaseInit => Known
<1> SUFFICES ASSUME BaseInit PROVE Known
  OBVIOUS
<1>1. Init
  BY DEF BaseInit
<1>2. TypeOK
  BY <1>1, TypeInit
<1> QED
  BY <1>1, <1>2 DEF Init, Known, StateInv, BusyInv, StopInv, Limit, NoCommandWithoutSession

-----------------------------------------------------------------------------
(* Types                                                                    *)

(* What the steps need of the types of the control variables.               *)
Typed ==
    /\ busy \in Nat
    /\ cpc \in {"init", "sleep", "drive", "imu"}
    /\ late \in Int /\ -PERIOD <= late /\ late <= LATE_MAX
    /\ spent \in Nat /\ spent <= Greatest(INIT_TIME, I2C_MAX)
    /\ done \in Nat /\ done <= quota
    /\ stampAge \in Int /\ OFF <= stampAge /\ stampAge <= CMD_TIMEOUT
    /\ lcmdAge \in Int /\ OFF <= lcmdAge /\ lcmdAge <= AGE_MAX
    /\ driveAge \in Int /\ OFF <= driveAge /\ driveAge <= AGE_MAX
    /\ gap \in Nat /\ gap <= GAP_MAX
    /\ quota \in Nat /\ quota > 0 /\ quota \in QUOTAS /\ wedged \in BOOLEAN

LEMMA BaseTypes == Known => (BaseTypeOK <=> Typed)
<1> SUFFICES ASSUME Known PROVE BaseTypeOK <=> Typed
  OBVIOUS
<1>1. busy \in Nat /\ TypeOK
  BY DEF Known, TypeOK
<1>2. /\ LATE_MAX \in Nat /\ AGE_MAX \in Nat
      /\ Greatest(INIT_TIME, I2C_MAX) \in Nat
  <2>1. LATE_MAX \in Nat
    BY HogBounds
  <2>2. AGE_MAX \in Nat
    BY Compare DEF Compared
  <2> QED
    BY <2>1, <2>2 DEF Greatest
<1>3. quota \in QUOTAS => quota \in Nat /\ quota > 0
  OBVIOUS
<1>4. wedged \in BOOLEAN => GAP_MAX \in Nat
  BY GapBounds DEF Bounded
<1>5. BaseTypeOK => Typed
  BY <1>1, <1>2, <1>3, <1>4 DEF BaseTypeOK, Typed, OFF
<1>6. Typed => BaseTypeOK
  BY <1>1, <1>2, <1>3, <1>4 DEF BaseTypeOK, Typed, OFF
<1> QED
  BY <1>5, <1>6

LEMMA OlderType ==
  ASSUME NEW max \in Nat, NEW age \in Int, OFF <= age, age <= max
  PROVE  /\ Older(age, max) \in Int
         /\ OFF <= Older(age, max) /\ Older(age, max) <= max
         /\ Older(age, max) <= age + 1
         /\ age = OFF => Older(age, max) = OFF
         /\ age # OFF => Older(age, max) # OFF
  BY DEF Older, OFF

LEMMA TypedStep == Known /\ Typed /\ TurnInv /\ [BaseNext]_baseVars => Typed'
<1> SUFFICES ASSUME Known, Typed, TurnInv, [BaseNext]_baseVars PROVE Typed'
  OBVIOUS
<1>1. LATE_MAX \in Nat /\ LATE_MAX >= PERIOD /\ AGE_MAX \in Nat
      /\ CMD_TIMEOUT - 1 <= AGE_MAX
      /\ Greatest(INIT_TIME, I2C_MAX) \in Nat
      /\ WaitLimit \in Nat /\ WaitLimit <= Greatest(INIT_TIME, I2C_MAX)
  <2>1. LATE_MAX \in Nat /\ LATE_MAX >= PERIOD
    BY HogBounds
  <2>2. AGE_MAX \in Nat /\ CMD_TIMEOUT - 1 <= AGE_MAX
    BY Compare DEF Compared
  <2> QED
    BY <2>1, <2>2 DEF Greatest, WaitLimit
<1>2. UNCHANGED <<quota, wedged>>
  BY BaseSteps DEF TurnTick, AwayTick, Passes, Kept, Idle, InitDone, ReadCommand,
                   Drive, ImuDone, outside
<1>3. /\ AGE_MAX' = AGE_MAX /\ LATE_MAX' = LATE_MAX /\ GAP_MAX' = GAP_MAX
      /\ GAP_MAX \in Nat
  BY <1>2, BoundsKept, GapBounds, GapBoundsKept DEF Bounded
<1>4. busy' \in Nat
  BY KnownStep DEF Known, TypeOK
<1>5. CASE Passes
  <2>1. /\ Older(stampAge, CMD_TIMEOUT) \in Int
        /\ OFF <= Older(stampAge, CMD_TIMEOUT)
        /\ Older(stampAge, CMD_TIMEOUT) <= CMD_TIMEOUT
    BY OlderType DEF Typed
  <2>2. /\ Older(lcmdAge, AGE_MAX) \in Int
        /\ OFF <= Older(lcmdAge, AGE_MAX) /\ Older(lcmdAge, AGE_MAX) <= AGE_MAX
    BY <1>1, OlderType DEF Typed
  <2>3. /\ Older(driveAge, AGE_MAX) \in Int
        /\ OFF <= Older(driveAge, AGE_MAX) /\ Older(driveAge, AGE_MAX) <= AGE_MAX
    BY <1>1, OlderType DEF Typed
  <2>4. late' \in Int /\ -PERIOD <= late' /\ late' <= LATE_MAX
    BY <1>1, <1>5 DEF Passes, Typed
  <2>5. spent' \in Nat /\ spent' <= Greatest(INIT_TIME, I2C_MAX)
    BY <1>1, <1>5 DEF Passes, Typed
  <2>6. gap' \in Nat /\ gap' <= GAP_MAX
    <3>1. Older(gap, GAP_MAX) \in Nat /\ Older(gap, GAP_MAX) <= GAP_MAX
      BY <1>3 DEF Older, OFF, Typed
    <3> QED
      BY <1>5, <3>1 DEF Passes, Typed
  <2> QED
    BY <1>3, <1>4, <1>5, <2>1, <2>2, <2>3, <2>4, <2>5, <2>6 DEF Passes, Typed
<1>6. CASE Kept
  <2>1. stampAge' \in Int /\ OFF <= stampAge' /\ stampAge' <= CMD_TIMEOUT
    BY <1>6 DEF Kept, Typed, OFF
  <2> QED
    BY <1>3, <1>4, <1>6, <2>1 DEF Kept, Typed
<1>7. CASE Idle
  BY <1>3, <1>4, <1>7 DEF Idle, Typed
<1>8. CASE InitDone
  BY <1>1, <1>3, <1>4, <1>8 DEF InitDone, Typed, OFF, outside
<1>9. CASE ReadCommand
  BY <1>1, <1>3, <1>4, <1>9 DEF ReadCommand, Deadman, Typed, OFF, outside
<1>10. CASE Drive
  BY <1>1, <1>3, <1>4, <1>10 DEF Drive, Typed, OFF, outside
<1>11. CASE ImuDone
  <2>1. late >= 0
    BY <1>11 DEF ImuDone, TurnInv
  <2>2. late' \in Int /\ -PERIOD <= late' /\ late' <= LATE_MAX
    BY <1>1, <1>11, <2>1 DEF ImuDone, Typed
  <2> QED
    BY <1>1, <1>3, <1>4, <1>11, <2>2 DEF ImuDone, Typed, OFF, outside
<1> QED
  BY <1>5, <1>6, <1>7, <1>8, <1>9, <1>10, <1>11, BaseSteps DEF TurnTick, AwayTick

-----------------------------------------------------------------------------
(* The turns of control_task                                                *)

LEMMA TurnStep == Known /\ Typed /\ TurnInv /\ [BaseNext]_baseVars => TurnInv'
<1> SUFFICES ASSUME Known, Typed, TurnInv, [BaseNext]_baseVars PROVE TurnInv'
  OBVIOUS
<1>0. LATE_MAX \in Nat /\ LATE_MAX > PERIOD
  BY HogBounds
<1>1. CASE TurnTick
  <2>1. /\ late' = IF cpc = "init" \/ late = LATE_MAX THEN late ELSE late + 1
        /\ busy' = busy + 1 /\ busy < DELAY
        /\ UNCHANGED <<pc, cpc, done, quota, wedged>> /\ pc = "delay"
        /\ spent' = IF cpc \in {"init", "imu"} /\ spent < WaitLimit
                    THEN spent + 1 ELSE spent
        /\ ControlWaits \/ done = quota
    BY <1>1 DEF TurnTick, Passes
  <2>2. /\ cpc = "imu" => spent' <= I2C_MAX
        /\ cpc \in {"sleep", "drive"} => spent' = 0
    BY <2>1 DEF TurnInv, Typed, WaitLimit
  <2>3. /\ cpc = "init" => done = 0 /\ late' = 0
        /\ cpc \in {"drive", "imu"} => late' > 0
        /\ cpc = "sleep" => late' > -PERIOD
    BY <1>0, <2>1 DEF TurnInv, Typed
  <2>4. /\ cpc = "drive" => done = quota
        /\ cpc = "imu" => done = quota \/ wedged
        /\ cpc = "sleep" => done = quota \/ late' <= 0
    BY <1>0, <2>1 DEF ControlWaits, Typed
  <2> QED
    BY <2>1, <2>2, <2>3, <2>4 DEF TurnInv, Typed
<1>2. CASE AwayTick
  <2>1. /\ late' = IF cpc = "init" \/ late = LATE_MAX THEN late ELSE late + 1
        /\ UNCHANGED <<pc, cpc, done, quota, wedged>> /\ pc # "delay"
        /\ spent' = IF cpc \in {"init", "imu"} /\ spent < WaitLimit
                    THEN spent + 1 ELSE spent
    BY <1>2 DEF AwayTick, Passes
  <2>2. /\ cpc = "imu" => spent' <= I2C_MAX
        /\ cpc \in {"sleep", "drive"} => spent' = 0
    BY <2>1 DEF TurnInv, Typed, WaitLimit
  <2>3. /\ cpc = "init" => done = 0 /\ late' = 0
        /\ cpc \in {"drive", "imu"} => late' > 0
        /\ cpc = "sleep" => late' > -PERIOD
    BY <1>0, <2>1 DEF TurnInv, Typed
  <2> QED
    BY <2>1, <2>2, <2>3 DEF TurnInv, Typed
<1>3. CASE WakeUp /\ Kept
  BY <1>3 DEF WakeUp, Kept, TurnInv, Typed
<1>4. CASE Move /\ Kept
  BY <1>4 DEF Move, Kept, TurnInv, Typed
<1>5. CASE TurnBegins /\ Kept
  BY <1>5 DEF TurnBegins, Kept, TurnInv, Typed
<1>6. CASE Idle
  BY <1>6 DEF Idle, TurnInv
<1>7. CASE InitDone
  BY <1>7 DEF InitDone, ControlRuns, TurnInv, Typed, outside
<1>8. CASE ReadCommand
  BY <1>8 DEF ReadCommand, ControlRuns, vars, taskVars, TurnInv, Typed, outside
<1>9. CASE Drive
  BY <1>9 DEF Drive, ControlRuns, vars, taskVars, TurnInv, Typed, outside
<1>10. CASE ImuDone
  BY <1>0, <1>10 DEF ImuDone, ControlRuns, vars, taskVars, TurnInv, Typed, outside
<1> QED
  BY <1>1, <1>2, <1>3, <1>4, <1>5, <1>6, <1>7, <1>8, <1>9, <1>10, BaseSteps

-----------------------------------------------------------------------------
(* What lateness and the core tell of the age of a command                  *)

Ready == Known /\ Typed /\ TurnInv

(* A step of time makes an age older by no more than that; OFF stays OFF.   *)
LEMMA AgesPass ==
  ASSUME Ready, Passes
  PROVE  /\ lcmdAge' <= lcmdAge + 1 /\ (lcmdAge' = OFF <=> lcmdAge = OFF)
         /\ driveAge' <= driveAge + 1 /\ (driveAge' = OFF <=> driveAge = OFF)
         /\ stampAge = OFF => stampAge' = OFF
         /\ lcmdAge' \in Int /\ driveAge' \in Int
<1>1. AGE_MAX \in Nat
  BY Compare DEF Compared
<1> QED
  BY <1>1, OlderType DEF Ready, Passes, Typed

LEMMA LateStep == Ready /\ LateInv /\ AgeInv /\ [BaseNext]_baseVars => LateInv'
<1> SUFFICES ASSUME Ready, LateInv, AgeInv, [BaseNext]_baseVars PROVE LateInv'
  OBVIOUS
<1>0. LATE_MAX \in Nat /\ LATE_MAX > PERIOD /\ LATE_MAX' = LATE_MAX
  BY HogBounds DEF LATE_MAX, Hog, HogOpen
<1>1. CASE Passes
  <2>1. lcmdAge' <= lcmdAge + 1 /\ driveAge' <= driveAge + 1
        /\ lcmdAge' \in Int /\ driveAge' \in Int
    BY <1>1, AgesPass
  <2>2. /\ late' = IF cpc = "init" \/ late = LATE_MAX THEN late ELSE late + 1
        /\ cpc' = cpc
    BY <1>1 DEF Passes
  <2> QED
    BY <1>0, <2>1, <2>2 DEF LateInv, Within, Ready, Typed
<1>2. CASE Kept
  BY <1>0, <1>2 DEF Kept, LateInv, Within
<1>3. CASE Idle
  BY <1>0, <1>3 DEF Idle, LateInv, Within
<1>4. CASE InitDone
  BY <1>4 DEF InitDone, LateInv, AgeInv, Within, OFF
<1>5. CASE ReadCommand
  BY <1>5 DEF ReadCommand, Deadman, LateInv, Within, OFF, Ready, Typed
<1>6. CASE Drive
  BY <1>0, <1>6 DEF Drive, LateInv, Within
<1>7. CASE ImuDone
  <2>1. /\ cpc = "imu" /\ cpc' = "sleep" /\ driveAge' = driveAge
        /\ late' \in IF late = LATE_MAX THEN LATE_MAX - PERIOD .. LATE_MAX
                     ELSE {late - PERIOD}
    BY <1>7 DEF ImuDone
  <2>2. late = LATE_MAX => late' > 0
    BY <1>0, <2>1
  <2>3. late # LATE_MAX => late' = late - PERIOD /\ driveAge <= CMD_TIMEOUT - 1 + late
    BY <2>1 DEF LateInv, Within
  <2>4. late # LATE_MAX => driveAge' <= CMD_TIMEOUT - 1 + (PERIOD + late')
    BY <2>1, <2>3 DEF Ready, Typed
  <2> QED
    BY <2>1, <2>2, <2>4 DEF LateInv, Within
<1> QED
  BY <1>1, <1>2, <1>3, <1>4, <1>5, <1>6, <1>7, BaseSteps
     DEF TurnTick, AwayTick, Ready

-----------------------------------------------------------------------------
(* How long ago the wheels were driven                                      *)

(* What a step of time does to the gap, wherever the core is.               *)
LEMMA GapPasses ==
  ASSUME Ready, GapInv, Passes
  PROVE  /\ gap' \in Nat /\ gap' <= gap + 1
         /\ cpc = "init" => gap' = gap
         /\ cpc = "imu" => /\ gap' <= late' \/ late' = LATE_MAX
                           /\ wedged /\ spent' < I2C_MAX => gap' <= spent'
         /\ cpc = "sleep" => gap' <= PERIOD + late' \/ late' > 0
<1>1. GAP_MAX \in Nat /\ LATE_MAX \in Nat /\ LATE_MAX > 0
  BY GapBounds DEF Bounded
<1>2. gap' \in Nat /\ gap' <= gap + 1 /\ (cpc = "init" => gap' = gap)
  BY <1>1 DEF Passes, Older, OFF, Ready, Typed
<1>3. /\ late' = IF cpc = "init" \/ late = LATE_MAX THEN late ELSE late + 1
      /\ spent' = IF cpc \in {"init", "imu"} /\ spent < WaitLimit
                  THEN spent + 1 ELSE spent
  BY DEF Passes
<1>4. cpc = "imu" => /\ gap' <= late' \/ late' = LATE_MAX
                     /\ wedged /\ spent' < I2C_MAX => gap' <= spent'
  BY <1>1, <1>2, <1>3 DEF GapInv, TickGap, WaitLimit, Ready, Typed
<1>5. cpc = "sleep" => gap' <= PERIOD + late' \/ late' > 0
  BY <1>1, <1>2, <1>3 DEF GapInv, NextGap, Ready, Typed
<1> QED
  BY <1>2, <1>4, <1>5

LEMMA GapTurnTick == Ready /\ GapInv /\ TurnTick => GapInv'
<1> SUFFICES ASSUME Ready, GapInv, TurnTick PROVE GapInv'
  OBVIOUS
<1>0. Bounded
  BY GapBounds
<1>1. /\ pc = "delay" /\ busy' = busy + 1 /\ busy < DELAY /\ busy \in Nat
      /\ UNCHANGED <<pc, cpc, done, quota, wedged>>
      /\ ControlWaits \/ done = quota
  BY DEF TurnTick, Passes, Ready, Typed
<1>2. Stall' = Stall /\ Stuck' = Stuck /\ Hog' = Hog /\ GapBound' = GapBound
      /\ LATE_MAX' = LATE_MAX
  BY <1>1, GapBoundsKept
<1>3. /\ gap' \in Nat /\ gap' <= gap + 1
      /\ cpc = "init" => gap' = gap
      /\ cpc = "imu" => /\ gap' <= late' \/ late' = LATE_MAX
                        /\ wedged /\ spent' < I2C_MAX => gap' <= spent'
      /\ cpc = "sleep" => gap' <= PERIOD + late' \/ late' > 0
  BY GapPasses DEF TurnTick
<1>4. gap \in Nat /\ done \in Nat /\ quota \in Nat /\ quota > 0 /\ late \in Int
  BY DEF Ready, Typed
<1>5. ASSUME cpc = "imu" PROVE TickGap'
  <2>1. done > 0 => gap' <= busy'
    BY <1>1, <1>3, <1>4, <1>5 DEF GapInv, TickGap
  <2>2. done = 0 => gap' <= Stall
    <3> SUFFICES ASSUME done = 0 PROVE gap' <= Stall
      OBVIOUS
    <3>1. wedged /\ spent < I2C_MAX /\ spent \in Nat
      BY <1>1, <1>4, <1>5 DEF ControlWaits, Ready, Typed
    <3>2. gap <= spent
      BY <1>5, <3>1 DEF GapInv, TickGap
    <3> QED
      BY <1>0, <1>3, <1>4, <3>1, <3>2 DEF Bounded
  <2> QED
    BY <1>1, <1>2, <1>3, <1>4, <1>5, <2>1, <2>2 DEF TickGap
<1>6. ASSUME cpc \in {"sleep", "drive"} PROVE NextGap'
  <2>1. done >= 2 => gap' <= busy'
    BY <1>1, <1>3, <1>4, <1>6 DEF GapInv, NextGap
  <2>2. done = quota /\ quota = 1 => gap' <= Stuck + Hog + busy'
    BY <1>0, <1>1, <1>3, <1>4, <1>6 DEF GapInv, NextGap, Bounded
  <2>3. gap' <= GapBound
    <3>1. CASE done = quota
      BY <1>0, <1>1, <1>3, <1>4, <2>1, <2>2, <3>1 DEF Bounded
    <3>2. CASE ControlWaits
      <4>1. cpc = "sleep" /\ late < 0
        BY <1>6, <3>2 DEF ControlWaits
      <4>2. gap <= PERIOD + late
        BY <1>4, <1>6, <4>1 DEF GapInv, NextGap
      <4> QED
        BY <1>0, <1>3, <1>4, <4>1, <4>2 DEF Bounded
    <3> QED
      BY <1>1, <3>1, <3>2
  <2> QED
    BY <1>1, <1>2, <1>3, <2>1, <2>2, <2>3 DEF NextGap
<1>7. cpc = "init" => gap' = 0
  BY <1>3 DEF GapInv
<1> QED
  BY <1>1, <1>5, <1>6, <1>7 DEF GapInv

LEMMA GapAwayTick == Ready /\ GapInv /\ AwayTick /\ Known' => GapInv'
<1> SUFFICES ASSUME Ready, GapInv, AwayTick, Known' PROVE GapInv'
  OBVIOUS
<1>0. Bounded /\ Away \in Nat
  BY GapBounds, AwayBounds DEF Ready
<1>1. /\ pc # "delay" /\ Away' = Away + 1
      /\ UNCHANGED <<pc, cpc, done, quota, wedged>>
  BY DEF AwayTick, Passes
<1>2. Stall' = Stall /\ Stuck' = Stuck /\ Hog' = Hog /\ GapBound' = GapBound
      /\ LATE_MAX' = LATE_MAX
  BY <1>1, GapBoundsKept
<1>3. /\ gap' \in Nat /\ gap' <= gap + 1
      /\ cpc = "init" => gap' = gap
      /\ cpc = "imu" => /\ gap' <= late' \/ late' = LATE_MAX
                        /\ wedged /\ spent' < I2C_MAX => gap' <= spent'
      /\ cpc = "sleep" => gap' <= PERIOD + late' \/ late' > 0
  BY GapPasses DEF AwayTick
<1>4. (Away \in Nat /\ Away <= Hog)'
  BY AwayType, PTL
<1>5. Away + 1 <= Hog /\ gap \in Nat
  BY <1>1, <1>2, <1>4 DEF Ready, Typed
<1>6. ASSUME cpc = "imu" PROVE TickGap'
  <2>1. gap' <= Stuck + (Away + 1)
    BY <1>0, <1>1, <1>3, <1>5, <1>6 DEF GapInv, TickGap, Bounded
  <2>2. (gap <= Stuck + Away)'
    BY <1>1, <1>2, <2>1
  <2> QED
    BY <1>1, <1>2, <1>3, <1>6, <2>2 DEF TickGap
<1>7. ASSUME cpc \in {"sleep", "drive"} PROVE NextGap'
  <2>1. gap' <= GapBound - Hog + (Away + 1)
    BY <1>0, <1>1, <1>3, <1>5, <1>7 DEF GapInv, NextGap, Bounded
  <2>2. gap' <= GapBound
    BY <1>0, <1>3, <1>5, <2>1 DEF Bounded
  <2>3. (gap <= GapBound - Hog + Away)'
    BY <1>1, <1>2, <2>1
  <2> QED
    BY <1>1, <1>2, <1>3, <2>2, <2>3 DEF NextGap
<1>8. cpc = "init" => gap' = 0
  BY <1>3 DEF GapInv
<1> QED
  BY <1>1, <1>6, <1>7, <1>8 DEF GapInv

LEMMA GapTask ==
  Ready /\ GapInv /\ (WakeUp \/ Move \/ TurnBegins) /\ Kept /\ Known' => GapInv'
<1> SUFFICES ASSUME Ready, GapInv, WakeUp \/ Move \/ TurnBegins, Kept, Known'
             PROVE  GapInv'
  OBVIOUS
<1>0. Bounded /\ Away \in Nat /\ Away <= Hog
  BY GapBounds, AwayBounds DEF Ready
<1>1. /\ UNCHANGED <<cpc, late, spent, gap, quota, wedged>>
      /\ done' = IF pc = "delay" THEN 0 ELSE done
  BY DEF Kept
<1>2. Stall' = Stall /\ Stuck' = Stuck /\ Hog' = Hog /\ GapBound' = GapBound
      /\ LATE_MAX' = LATE_MAX
  BY <1>1, GapBoundsKept
<1>3. /\ gap \in Nat /\ done \in Nat /\ quota \in Nat /\ quota > 0
      /\ late \in Int /\ done <= quota
  BY DEF Ready, Typed
<1>4. CASE WakeUp
  <2>1. pc = "delay" /\ busy = DELAY /\ pc' = "switch"
    BY <1>4 DEF WakeUp
  <2>2. Away' = 0
    BY <2>1 DEF Away
  <2>3. /\ cpc = "drive" => done = quota
        /\ cpc = "imu" => done = quota \/ wedged
        /\ cpc = "sleep" => done = quota \/ late <= 0
    BY <2>1 DEF Ready, TurnInv
  <2>4. cpc = "imu" => gap <= Stuck
    BY <1>0, <1>3, <2>1, <2>3 DEF GapInv, TickGap, Bounded
  <2>5. cpc \in {"sleep", "drive"} => gap <= GapBound - Hog
    <3>1. done = quota /\ cpc \in {"sleep", "drive"} => gap <= GapBound - Hog
      BY <1>0, <1>3, <2>1 DEF GapInv, NextGap, Bounded
    <3>2. cpc = "sleep" /\ late <= 0 => gap <= GapBound - Hog
      BY <1>0, <1>3 DEF GapInv, NextGap, Bounded
    <3> QED
      BY <2>3, <3>1, <3>2
  <2>6. cpc = "imu" => (gap <= Stuck + Away)'
    BY <1>0, <1>1, <1>2, <1>3, <2>2, <2>4 DEF Bounded
  <2>7. cpc \in {"sleep", "drive"} => (gap <= GapBound - Hog + Away)'
    BY <1>0, <1>1, <1>2, <1>3, <2>2, <2>5 DEF Bounded
  <2> QED
    BY <1>1, <1>2, <2>1, <2>6, <2>7 DEF GapInv, TickGap, NextGap
<1>5. CASE Move
  <2>1. (Away \in Nat /\ Away <= Hog)'
    BY AwayType, PTL
  <2>2. PICK later \in Nat : later = Away'
    BY <2>1
  <2>3. pc # "delay" /\ pc' # "delay" /\ Away <= later /\ done' = done
    BY <1>1, <1>5, <2>2 DEF Move
  <2>4. /\ cpc = "imu" => gap <= Stuck + later
        /\ cpc \in {"sleep", "drive"} => gap <= GapBound - Hog + later
    BY <1>0, <1>3, <2>3 DEF GapInv, TickGap, NextGap, Bounded
  <2>5. /\ cpc = "imu" => (gap <= Stuck + Away)'
        /\ cpc \in {"sleep", "drive"} => (gap <= GapBound - Hog + Away)'
    BY <1>1, <1>2, <2>2, <2>4
  <2> QED
    BY <1>1, <1>2, <2>3, <2>5 DEF GapInv, TickGap, NextGap
<1>6. CASE TurnBegins
  <2>1. pc # "delay" /\ pc' = "delay" /\ busy' = 0 /\ done' = 0
    BY <1>1, <1>6 DEF TurnBegins, Ready, TurnInv
  <2>2. cpc = "imu" => gap <= Stuck + Hog
    BY <1>0, <1>3, <2>1 DEF GapInv, TickGap, Bounded
  <2> QED
    BY <1>1, <1>2, <1>3, <2>1, <2>2 DEF GapInv, TickGap, NextGap
<1> QED
  BY <1>4, <1>5, <1>6

LEMMA GapControl ==
  Ready /\ GapInv /\ (InitDone \/ ReadCommand \/ Drive \/ ImuDone) => GapInv'
<1> SUFFICES ASSUME Ready, GapInv, InitDone \/ ReadCommand \/ Drive \/ ImuDone
             PROVE  GapInv'
  OBVIOUS
<1>0. Bounded
  BY GapBounds
<1>1. /\ pc = "delay" /\ UNCHANGED <<pc, busy, quota, wedged>> /\ busy < DELAY
  BY DEF InitDone, ReadCommand, Drive, ImuDone, ControlRuns, vars, taskVars, outside
<1>2. Stall' = Stall /\ Stuck' = Stuck /\ Hog' = Hog /\ GapBound' = GapBound
      /\ LATE_MAX' = LATE_MAX
  BY <1>1, GapBoundsKept
<1>3. /\ gap \in Nat /\ done \in Nat /\ quota \in Nat /\ quota > 0
      /\ late \in Int /\ busy \in Nat /\ spent \in Nat
  BY DEF Ready, Typed
<1>4. CASE InitDone
  <2>1. cpc' = "sleep" /\ late' = 0 /\ gap' = 0 /\ done' = 0
    BY <1>4 DEF InitDone, GapInv, Ready, TurnInv
  <2> QED
    BY <1>0, <1>1, <1>2, <1>3, <2>1 DEF GapInv, NextGap, Bounded
<1>5. CASE ReadCommand
  <2>1. cpc = "sleep" /\ cpc' = "drive" /\ UNCHANGED <<gap, done>>
    BY <1>5 DEF ReadCommand
  <2> QED
    BY <1>1, <1>2, <2>1 DEF GapInv, NextGap
<1>6. CASE Drive
  <2>1. cpc' = "imu" /\ gap' = 0 /\ UNCHANGED <<late, spent, done>> /\ late >= 0
    BY <1>6 DEF Drive, Ready, TurnInv
  <2> QED
    BY <1>0, <1>1, <1>2, <1>3, <2>1 DEF GapInv, TickGap, Bounded
<1>7. CASE ImuDone
  <2>1. /\ cpc = "imu" /\ cpc' = "sleep" /\ gap' = gap
        /\ done' = IF done = quota THEN done ELSE done + 1
        /\ late' \in IF late = LATE_MAX THEN LATE_MAX - PERIOD .. LATE_MAX
                     ELSE {late - PERIOD}
    BY <1>7 DEF ImuDone
  <2>2. TickGap
    BY <2>1 DEF GapInv
  <2>3. gap <= PERIOD + late' \/ late' > 0
    <3>1. LATE_MAX \in Nat /\ LATE_MAX > PERIOD
      BY <1>0 DEF Bounded
    <3>2. late = LATE_MAX => late' > 0
      BY <2>1, <3>1
    <3>3. late # LATE_MAX => late' = late - PERIOD /\ gap <= late
      BY <2>1, <2>2 DEF TickGap
    <3> QED
      BY <1>3, <3>2, <3>3
  <2>4. done > 0 => gap <= busy
    BY <1>1, <2>2 DEF TickGap
  <2>5. done = 0 => gap <= Stuck + Hog
    BY <1>0, <1>1, <1>3, <2>2 DEF TickGap, Bounded
  <2>6. gap <= GapBound /\ gap <= Stuck + Hog + busy
    BY <1>0, <1>1, <1>3, <2>4, <2>5 DEF Bounded
  <2>7. done' >= 2 => gap <= busy
    BY <1>3, <2>1, <2>4
  <2> QED
    BY <1>1, <1>2, <2>1, <2>3, <2>6, <2>7 DEF GapInv, NextGap
<1> QED
  BY <1>4, <1>5, <1>6, <1>7

LEMMA GapStep == Ready /\ GapInv /\ [BaseNext]_baseVars => GapInv'
<1> SUFFICES ASSUME Ready, GapInv, [BaseNext]_baseVars PROVE GapInv'
  OBVIOUS
<1>1. Known'
  BY KnownStep DEF Ready
<1>2. CASE Idle
  <2>1. Away' = Away
    BY <1>2 DEF Idle, Opening, Away
  <2>2. Stall' = Stall /\ Stuck' = Stuck /\ Hog' = Hog /\ GapBound' = GapBound
        /\ LATE_MAX' = LATE_MAX
    BY <1>2, GapBoundsKept DEF Idle
  <2> QED
    BY <1>2, <2>1, <2>2 DEF Idle, GapInv, TickGap, NextGap
<1> QED
  BY <1>1, <1>2, BaseSteps, GapTurnTick, GapAwayTick, GapTask, GapControl DEF Ready

-----------------------------------------------------------------------------
(* The ages of the command at the places it passes                          *)

LEMMA AgeTurnTick == Ready /\ LateInv /\ AgeInv /\ TurnTick => AgeInv'
<1> SUFFICES ASSUME Ready, LateInv, AgeInv, TurnTick PROVE AgeInv'
  OBVIOUS
<1>0. Compared /\ Compared'
  BY Compare, BoundsKept DEF TurnTick, Passes
<1>1. /\ pc = "delay" /\ busy' = busy + 1 /\ busy < DELAY
      /\ UNCHANGED <<state, pc, step, cmd, cpc, done, quota, wedged>>
      /\ ControlWaits \/ done = quota
      /\ spent' = IF cpc \in {"init", "imu"} /\ spent < WaitLimit
                  THEN spent + 1 ELSE spent
  BY DEF TurnTick, Passes
<1>2. /\ lcmdAge' <= lcmdAge + 1 /\ (lcmdAge' = OFF <=> lcmdAge = OFF)
      /\ driveAge' <= driveAge + 1 /\ (driveAge' = OFF <=> driveAge = OFF)
      /\ stampAge = OFF => stampAge' = OFF
      /\ lcmdAge' \in Int /\ driveAge' \in Int
  BY AgesPass DEF TurnTick
<1>3. Cycle' = Cycle /\ TickMax' = TickMax /\ ReadToDrive' = ReadToDrive
  BY <1>1, BoundsKept
<1>4. cpc = "drive" => Within(lcmdAge, ReadFor)'
  BY <1>1, <1>2 DEF ControlWaits, Within, ReadFor, AgeInv, Ready, Typed
<1>5. ASSUME cpc = "imu" PROVE Within(driveAge, TickFor)'
  <2>1. CASE done > 0
    BY <1>1, <1>2, <1>5, <2>1 DEF Within, TickFor, ReadFor, AgeInv, Ready, Typed
  <2>2. CASE done = 0
    <3>1. wedged /\ spent < I2C_MAX /\ spent' = spent + 1
      BY <1>1, <1>5, <2>2 DEF ControlWaits, WaitLimit, Ready, Typed
    <3>2. TickFor = Cycle + spent /\ TickFor' = Cycle + spent + 1
      BY <1>0, <1>1, <1>3, <2>2, <3>1 DEF TickFor, Ready, Typed, Compared
    <3> QED
      BY <1>0, <1>2, <1>5, <3>1, <3>2 DEF Within, AgeInv, Ready, Typed, Compared
  <2> QED
    BY <2>1, <2>2 DEF Ready, Typed
<1>6. ASSUME cpc \in {"sleep", "drive"} PROVE Within(driveAge, DriveFor)'
  <2>1. CASE done > 0
    BY <1>0, <1>1, <1>2, <1>3, <1>6, <2>1
       DEF Within, DriveFor, AgeInv, Ready, Typed, Compared
  <2>2. CASE done = 0
    <3>1. cpc = "sleep" /\ late < 0
      BY <1>1, <1>6, <2>2 DEF ControlWaits, Ready, Typed
    <3>2. driveAge <= CMD_TIMEOUT - 1 + PERIOD + late
      BY <3>1 DEF LateInv, Within, Ready, Typed
    <3>3. DriveFor' = ReadToDrive /\ PERIOD <= ReadToDrive
      BY <1>0, <1>1, <1>3, <2>2 DEF DriveFor, Compared
    <3> QED
      BY <1>0, <1>2, <3>1, <3>2, <3>3 DEF Within, Ready, Typed, Compared
  <2> QED
    BY <2>1, <2>2 DEF Ready, Typed
<1> QED
  BY <1>1, <1>2, <1>4, <1>5, <1>6 DEF AgeInv

LEMMA AgeAwayTick == Ready /\ AgeInv /\ AwayTick => AgeInv'
<1> SUFFICES ASSUME Ready, AgeInv, AwayTick PROVE AgeInv'
  OBVIOUS
<1>0. Compared /\ Away \in Nat
  BY Compare, AwayBounds DEF Ready
<1>1. /\ pc # "delay" /\ Away' = Away + 1
      /\ UNCHANGED <<state, pc, step, cmd, cpc, done, quota, wedged>>
      /\ spent' = IF cpc \in {"init", "imu"} /\ spent < WaitLimit
                  THEN spent + 1 ELSE spent
      /\ done = 0
  BY DEF AwayTick, Passes, Ready, TurnInv
<1>2. /\ lcmdAge' <= lcmdAge + 1 /\ (lcmdAge' = OFF <=> lcmdAge = OFF)
      /\ driveAge' <= driveAge + 1 /\ (driveAge' = OFF <=> driveAge = OFF)
      /\ stampAge = OFF => stampAge' = OFF
      /\ lcmdAge' \in Int /\ driveAge' \in Int
  BY AgesPass DEF AwayTick
<1>3. Cycle' = Cycle /\ TickMax' = TickMax /\ ReadToDrive' = ReadToDrive
  BY <1>1, BoundsKept
<1>4. cpc = "drive" => Within(lcmdAge, ReadFor)'
  BY <1>0, <1>1, <1>2 DEF Within, ReadFor, AgeInv, Ready, Typed
<1>5. ASSUME cpc = "imu" PROVE Within(driveAge, TickFor)'
  <2>1. CASE ~wedged
    BY <1>0, <1>1, <1>2, <1>5, <2>1 DEF Within, TickFor, ReadFor, AgeInv, Ready, Typed
  <2>2. CASE wedged /\ spent < I2C_MAX
    <3>1. spent' = spent + 1
      BY <1>1, <1>5, <2>2 DEF WaitLimit
    <3>2. /\ TickFor = Cycle + spent
          /\ \/ TickFor' = Cycle + spent + 1
             \/ TickFor' = Cycle + spent + 1 + (Away + 1)
      BY <1>0, <1>1, <1>3, <2>2, <3>1 DEF TickFor, Ready, Typed, Compared
    <3>3. driveAge <= CMD_TIMEOUT - 1 + TickFor
      BY <1>5 DEF Within, AgeInv
    <3>4. Cycle \in Int /\ spent \in Int /\ driveAge \in Int
      BY <1>0, <2>2 DEF Ready, Typed, Compared
    <3>5. /\ driveAge' <= CMD_TIMEOUT - 1 + (Cycle + spent + 1)
          /\ driveAge' <= CMD_TIMEOUT - 1 + (Cycle + spent + 1 + (Away + 1))
      BY <1>0, <1>2, <3>2, <3>3, <3>4
    <3> QED
      BY <3>2, <3>5 DEF Within
  <2>3. CASE wedged /\ spent = I2C_MAX
    <3>1. spent' = spent
      BY <1>1, <1>5, <2>3 DEF WaitLimit
    <3>2. TickFor = Cycle + spent + Away /\ TickFor' = Cycle + spent + Away + 1
      BY <1>0, <1>1, <1>3, <2>3, <3>1 DEF TickFor, Ready, Typed, Compared
    <3>3. driveAge <= CMD_TIMEOUT - 1 + TickFor
      BY <1>5 DEF Within, AgeInv
    <3>4. Cycle + spent + Away \in Int /\ driveAge \in Int
      BY <1>0, <2>3 DEF Ready, Typed, Compared
    <3>5. driveAge' <= CMD_TIMEOUT - 1 + (Cycle + spent + Away + 1)
      BY <1>2, <3>2, <3>3, <3>4
    <3> QED
      BY <3>2, <3>5 DEF Within
  <2> QED
    BY <1>5, <2>1, <2>2, <2>3 DEF Ready, Typed, TurnInv
<1>6. ASSUME cpc \in {"sleep", "drive"} PROVE Within(driveAge, DriveFor)'
  <2>1. DriveFor' = DriveFor + 1 /\ DriveFor \in Int
    BY <1>0, <1>1, <1>3 DEF DriveFor, Greatest, Compared, Ready, Typed
  <2> QED
    BY <1>2, <1>6, <2>1 DEF Within, AgeInv, Ready, Typed
<1> QED
  BY <1>1, <1>2, <1>4, <1>5, <1>6 DEF AgeInv

(* While uros_task runs, control_task has done nothing yet in this turn.    *)
LEMMA AgeWake == Ready /\ LateInv /\ AgeInv /\ WakeUp /\ Kept => AgeInv'
<1> SUFFICES ASSUME Ready, LateInv, AgeInv, WakeUp, Kept PROVE AgeInv'
  OBVIOUS
<1>0. Compared
  BY Compare
<1>1. /\ pc = "delay" /\ busy = DELAY /\ pc' = "switch" /\ busy' = 0 /\ done' = 0
      /\ UNCHANGED <<cpc, late, spent, lcmdAge, driveAge, quota, wedged>>
  BY DEF WakeUp, Kept
<1>2. Away' = 0
  BY <1>1 DEF Away
<1>3. Cycle' = Cycle /\ TickMax' = TickMax /\ ReadToDrive' = ReadToDrive
  BY <1>1, BoundsKept
<1>4. /\ cpc = "drive" => done = quota
      /\ cpc = "imu" => done = quota \/ wedged
      /\ cpc = "sleep" /\ done = 0 => late <= 0
      /\ quota > 0 /\ done \in Nat
  BY <1>1 DEF Ready, TurnInv, Typed
<1>5. cpc = "drive" => Within(lcmdAge, ReadFor)'
  BY <1>1, <1>2, <1>4 DEF Within, ReadFor, AgeInv
<1>6. ASSUME cpc = "imu" PROVE Within(driveAge, TickFor)'
  <2>1. ReadFor' = DELAY
    BY <1>1, <1>2 DEF ReadFor
  <2>2. CASE ~wedged
    BY <1>1, <1>4, <1>6, <2>1, <2>2 DEF Within, TickFor, ReadFor, AgeInv
  <2>3. CASE wedged
    <3>1. spent \in Nat /\ spent <= I2C_MAX /\ Cycle \in Nat /\ Cycle >= DELAY
      BY <1>0, <1>6, <2>3 DEF Compared, Ready, Typed, TurnInv
    <3>2. TickFor' = Cycle + spent
      BY <1>1, <1>2, <1>3, <2>3, <3>1 DEF TickFor
    <3>3. Within(driveAge, TickFor)
      BY <1>6 DEF AgeInv
    <3>4. CASE done > 0
      <4>1. TickFor = DELAY
        BY <1>1, <3>4 DEF TickFor, ReadFor
      <4> QED
        BY <1>1, <3>1, <3>2, <3>3, <4>1 DEF Within, Ready, Typed
    <3>5. CASE done = 0
      <4>1. TickFor = Cycle + spent
        BY <1>1, <2>3, <3>1, <3>5 DEF TickFor
      <4> QED
        BY <1>1, <3>2, <3>3, <4>1 DEF Within
    <3> QED
      BY <1>4, <3>4, <3>5
  <2> QED
    BY <2>2, <2>3
<1>7. ASSUME cpc \in {"sleep", "drive"} PROVE Within(driveAge, DriveFor)'
  <2>1. Within(driveAge, DriveFor) /\ TickMax \in Nat
    BY <1>0, <1>7 DEF AgeInv, Compared, Ready, Typed
  <2>2. DriveFor' = IF cpc = "drive" THEN TickMax + DELAY
                    ELSE Greatest(PERIOD, TickMax + DELAY)
    BY <1>1, <1>2, <1>3, <2>1 DEF DriveFor, Greatest
  <2>3. CASE done > 0
    <3>1. DriveFor = TickMax + DELAY
      BY <1>1, <2>3 DEF DriveFor
    <3> QED
      BY <1>1, <2>1, <2>2, <3>1 DEF Within, Greatest, Ready, Typed
  <2>4. CASE done = 0
    <3>1. cpc = "sleep" /\ late <= 0
      BY <1>4, <1>7, <2>4
    <3>2. driveAge <= CMD_TIMEOUT - 1 + PERIOD
      BY <3>1 DEF LateInv, Within, Ready, Typed
    <3> QED
      BY <1>1, <2>1, <2>2, <3>1, <3>2 DEF Within, Greatest, Ready, Typed
  <2> QED
    BY <1>4, <2>3, <2>4
<1>8. stampAge' = OFF \/ cmd' # Zero
  BY DEF Kept
<1> QED
  BY <1>1, <1>5, <1>6, <1>7, <1>8 DEF AgeInv

LEMMA AgeMove == Ready /\ AgeInv /\ Move /\ Kept /\ Away' \in Nat => AgeInv'
<1> SUFFICES ASSUME Ready, AgeInv, Move, Kept, Away' \in Nat PROVE AgeInv'
  OBVIOUS
<1>0. Compared /\ Away \in Nat
  BY Compare, AwayBounds DEF Ready
<1>p. PICK later \in Nat : later = Away'
  OBVIOUS
<1>q. later \in Nat /\ Away <= later
  BY <1>p DEF Move
<1>1. /\ pc # "delay" /\ pc' # "delay" /\ done = 0 /\ done' = 0
      /\ UNCHANGED <<cpc, late, spent, lcmdAge, driveAge, quota, wedged>>
  BY DEF Move, Kept, Ready, TurnInv
<1>2. Cycle' = Cycle /\ TickMax' = TickMax /\ ReadToDrive' = ReadToDrive
  BY <1>1, BoundsKept
<1>3. ASSUME cpc = "drive" PROVE Within(lcmdAge, ReadFor)'
  <2>1. ReadFor = DELAY + Away /\ ReadFor' = DELAY + later
    BY <1>p, <1>1 DEF ReadFor
  <2>2. Within(lcmdAge, ReadFor)
    BY <1>3 DEF AgeInv
  <2> QED
    BY <1>0, <1>q, <1>1, <2>1, <2>2 DEF Within, Ready, Typed
<1>4. ASSUME cpc = "imu" PROVE Within(driveAge, TickFor)'
  <2>1. CASE ~wedged
    <3>1. TickFor = DELAY + Away /\ TickFor' = DELAY + later
      BY <1>p, <1>1, <2>1 DEF TickFor, ReadFor
    <3>2. Within(driveAge, TickFor)
      BY <1>4 DEF AgeInv
    <3> QED
      BY <1>0, <1>q, <1>1, <3>1, <3>2 DEF Within, Ready, Typed
  <2>2. CASE wedged
    <3>1. spent \in Nat /\ spent <= I2C_MAX /\ Cycle \in Nat
      BY <1>0, <1>4, <2>2 DEF Compared, Ready, Typed, TurnInv
    <3>2. Within(driveAge, TickFor)
      BY <1>4 DEF AgeInv
    <3>3. CASE spent < I2C_MAX
      <4>1. TickFor = Cycle + spent /\ TickFor' = Cycle + spent
        BY <1>1, <1>2, <2>2, <3>1, <3>3 DEF TickFor
      <4> QED
        BY <1>1, <3>2, <4>1 DEF Within
    <3>4. CASE spent = I2C_MAX
      <4>1. TickFor = Cycle + spent + Away /\ TickFor' = Cycle + spent + later
        BY <1>p, <1>1, <1>2, <2>2, <3>1, <3>4 DEF TickFor
      <4> QED
        BY <1>0, <1>q, <1>1, <3>1, <3>2, <4>1 DEF Within, Ready, Typed
    <3> QED
      BY <3>1, <3>3, <3>4
  <2> QED
    BY <2>1, <2>2
<1>5. ASSUME cpc \in {"sleep", "drive"} PROVE Within(driveAge, DriveFor)'
  <2>1. PICK n \in Nat : n = IF cpc = "drive" THEN TickMax + DELAY
                             ELSE Greatest(PERIOD, TickMax + DELAY)
    BY <1>0 DEF Compared, Greatest, Ready, Typed
  <2>2. DriveFor = Away + n /\ DriveFor' = later + n
    <3>1. DriveFor = Away + n
      BY <1>1, <2>1 DEF DriveFor
    <3>2. DriveFor' = later + n
      BY <1>p, <1>1, <1>2, <2>1 DEF DriveFor, Greatest
    <3> QED
      BY <3>1, <3>2
  <2>3. Within(driveAge, DriveFor)
    BY <1>5 DEF AgeInv
  <2> QED
    BY <1>0, <1>q, <1>1, <2>1, <2>2, <2>3 DEF Within, Ready, Typed
<1>6. stampAge' = OFF \/ cmd' # Zero
  BY DEF Kept
<1> QED
  BY <1>1, <1>3, <1>4, <1>5, <1>6 DEF AgeInv

(* The turn comes after the longest iteration, and after the longest one    *)
(* that creates no entities while a command is on its way.                  *)
LEMMA AgeTurn == Ready /\ AgeInv /\ OldInv /\ TurnBegins /\ Kept => AgeInv'
<1> SUFFICES ASSUME Ready, AgeInv, OldInv, TurnBegins, Kept PROVE AgeInv'
  OBVIOUS
<1>0. /\ Compared /\ Away \in Nat /\ Away <= Hog
      /\ ~Opening => Away <= HogOpen
  BY Compare, AwayBounds DEF Ready
<1>1. /\ pc # "delay" /\ pc' = "delay" /\ busy' = 0 /\ done = 0 /\ done' = 0
      /\ UNCHANGED <<cpc, late, spent, lcmdAge, driveAge, quota, wedged>>
  BY DEF TurnBegins, Kept, Ready, TurnInv
<1>2. Cycle' = Cycle /\ TickMax' = TickMax /\ ReadToDrive' = ReadToDrive
  BY <1>1, BoundsKept
<1>3. ASSUME ~wedged, Opening
      PROVE  /\ driveAge # OFF =>
                  /\ cpc = "sleep" /\ PERIOD > 2 * DELAY
                  /\ Within(driveAge, PERIOD + Away)
             /\ cpc = "drive" => lcmdAge = OFF
  BY <1>3 DEF OldInv
<1>4. Within(OFF, Cycle) /\ Within(OFF, ReadToDrive)
  BY <1>0 DEF Within, OFF, Compared
<1>5. ASSUME cpc = "drive" PROVE Within(lcmdAge, ReadFor)'
  <2>1. ReadFor' = Cycle /\ ReadFor = DELAY + Away
    BY <1>1, <1>2 DEF ReadFor
  <2>2. Within(lcmdAge, ReadFor)
    BY <1>5 DEF AgeInv
  <2>3. CASE wedged \/ ~Opening
    <3>1. ReadFor <= Cycle /\ ReadFor \in Int /\ Cycle \in Int
      BY <1>0, <2>1, <2>3 DEF Compared
    <3>2. Within(lcmdAge, Cycle)
      BY <2>2, <3>1 DEF Within, Ready, Typed
    <3> QED
      BY <1>1, <2>1, <3>2 DEF Within
  <2>4. CASE ~wedged /\ Opening
    BY <1>1, <1>3, <1>4, <1>5, <2>1, <2>4 DEF Within
  <2> QED
    BY <2>3, <2>4 DEF Ready, Typed
<1>6. ASSUME cpc = "imu" PROVE Within(driveAge, TickFor)'
  <2>1. Within(driveAge, TickFor)
    BY <1>6 DEF AgeInv
  <2>2. CASE wedged
    <3>1. spent \in Nat /\ spent <= I2C_MAX /\ Cycle \in Nat
      BY <1>0, <1>6, <2>2 DEF Compared, Ready, Typed, TurnInv
    <3>2. CASE spent < I2C_MAX
      <4>1. TickFor = Cycle + spent /\ TickFor' = Cycle + spent
        BY <1>1, <1>2, <2>2, <3>1, <3>2 DEF TickFor
      <4> QED
        BY <1>1, <2>1, <4>1 DEF Within
    <3>3. CASE spent = I2C_MAX
      <4>1. TickFor = Cycle + spent + Away
        BY <1>1, <2>2, <3>1, <3>3 DEF TickFor
      <4>2. TickFor' = Cycle + spent + Hog
        BY <1>1, <1>2, <2>2, <3>1, <3>3 DEF TickFor, Hog, HogOpen
      <4> QED
        BY <1>0, <1>1, <2>1, <3>1, <4>1, <4>2 DEF Within, Ready, Typed, Compared
    <3> QED
      BY <3>1, <3>2, <3>3
  <2>3. CASE ~wedged
    <3>1. TickFor' = Cycle /\ TickFor = DELAY + Away
      BY <1>1, <1>2, <2>3 DEF TickFor, ReadFor
    <3>2. CASE ~Opening
      <4>1. TickFor <= Cycle /\ TickFor \in Int /\ Cycle \in Int
        BY <1>0, <2>3, <3>1, <3>2 DEF Compared
      <4>2. Within(driveAge, Cycle)
        BY <2>1, <4>1 DEF Within, Ready, Typed
      <4> QED
        BY <1>1, <3>1, <4>2 DEF Within
    <3>3. CASE Opening
      BY <1>1, <1>3, <1>4, <1>6, <2>3, <3>1, <3>3 DEF Within
    <3> QED
      BY <3>2, <3>3
  <2> QED
    BY <2>2, <2>3 DEF Ready, Typed
<1>7. ASSUME cpc \in {"sleep", "drive"} PROVE Within(driveAge, DriveFor)'
  <2>1. DriveFor' = ReadToDrive
    BY <1>1, <1>2 DEF DriveFor
  <2>2. CASE wedged \/ ~Opening
    <3>1. /\ Away + DELAY <= Cycle /\ Away <= WaitHog /\ TickMax \in Nat
          /\ Cycle \in Nat /\ WaitHog \in Nat
      BY <1>0, <2>2 DEF Compared
    <3>2. DriveFor <= ReadToDrive /\ DriveFor \in Int /\ ReadToDrive \in Int
      BY <1>0, <1>1, <3>1 DEF DriveFor, Greatest, Compared
    <3>3. Within(driveAge, ReadToDrive)
      BY <1>7, <3>2 DEF AgeInv, Within, Ready, Typed
    <3> QED
      BY <1>1, <2>1, <3>3 DEF Within
  <2>3. CASE ~wedged /\ Opening
    <3>1. CASE driveAge = OFF
      BY <1>1, <1>4, <2>1, <3>1 DEF Within
    <3>2. CASE driveAge # OFF
      <4>1. PERIOD > 2 * DELAY /\ Within(driveAge, PERIOD + Away)
        BY <1>3, <2>3, <3>2
      <4>2. PERIOD + Away <= ReadToDrive /\ ReadToDrive \in Nat
        BY <1>0, <4>1 DEF Compared
      <4>3. Within(driveAge, ReadToDrive)
        BY <1>0, <4>1, <4>2 DEF Within, Ready, Typed
      <4> QED
        BY <1>1, <2>1, <4>3 DEF Within
    <3> QED
      BY <3>1, <3>2
  <2> QED
    BY <2>2, <2>3 DEF Ready, Typed
<1>8. stampAge' = OFF \/ cmd' # Zero
  BY DEF Kept
<1> QED
  BY <1>1, <1>5, <1>6, <1>7, <1>8 DEF AgeInv

LEMMA AgeIdle == AgeInv /\ Idle => AgeInv'
<1> SUFFICES ASSUME AgeInv, Idle PROVE AgeInv'
  OBVIOUS
<1>1. Cycle' = Cycle /\ TickMax' = TickMax /\ ReadToDrive' = ReadToDrive
  BY BoundsKept DEF Idle
<1>2. Away' = Away /\ Hog' = Hog
  BY DEF Idle, Away, Opening, Hog, HogOpen
<1>3. ReadFor' = ReadFor
  BY <1>1, <1>2 DEF Idle, ReadFor
<1>4. TickFor' = TickFor
  BY <1>1, <1>2, <1>3 DEF Idle, TickFor
<1>5. DriveFor' = DriveFor
  BY <1>1, <1>2 DEF Idle, DriveFor, Greatest
<1> QED
  BY <1>3, <1>4, <1>5 DEF Idle, AgeInv, Within

(* control_task reads the command and hands it on.                          *)
LEMMA AgeControl ==
  Ready /\ AgeInv /\ (InitDone \/ ReadCommand \/ Drive \/ ImuDone) => AgeInv'
<1> SUFFICES ASSUME Ready, AgeInv, InitDone \/ ReadCommand \/ Drive \/ ImuDone
             PROVE  AgeInv'
  OBVIOUS
<1>0. Compared
  BY Compare
<1>1. pc = "delay" /\ pc' = "delay" /\ busy' = busy /\ UNCHANGED <<quota, wedged>>
  BY DEF InitDone, ReadCommand, Drive, ImuDone, ControlRuns, vars, taskVars, outside
<1>2. Cycle' = Cycle /\ TickMax' = TickMax /\ ReadToDrive' = ReadToDrive
  BY <1>1, BoundsKept
<1>3. Cycle \in Nat /\ TickMax \in Nat /\ ReadToDrive \in Nat /\ Cycle <= TickMax
  BY <1>0 DEF Compared, Ready, Typed
<1>4. CASE InitDone
  <2>1. /\ cmd' = Zero /\ stampAge' = OFF /\ cpc' = "sleep" /\ done' = 0
        /\ lcmdAge' = OFF /\ driveAge' = OFF
    BY <1>4 DEF InitDone, AgeInv, Ready, TurnInv
  <2>2. DriveFor' = ReadToDrive
    BY <1>1, <1>2, <2>1 DEF DriveFor
  <2> QED
    BY <1>3, <2>1, <2>2 DEF AgeInv, Within, OFF
<1>5. CASE ReadCommand
  <2>1. /\ cpc = "sleep" /\ cpc' = "drive" /\ lcmdAge' = Deadman(stampAge)
        /\ UNCHANGED <<cmd, done, stampAge, driveAge>>
    BY <1>5 DEF ReadCommand, vars, taskVars
  <2>2. lcmdAge' \in Int /\ lcmdAge' <= CMD_TIMEOUT - 1
    BY <2>1 DEF Deadman, OFF, Ready, Typed
  <2>3. PICK n \in Nat : n = ReadFor'
    BY <1>1, <1>2, <1>3 DEF ReadFor, Ready, Typed
  <2>4. n \in Nat
    BY <2>3
  <2>5. lcmdAge' <= CMD_TIMEOUT - 1 + n
    BY <2>2, <2>4
  <2>6. Within(lcmdAge, ReadFor)'
    BY <2>3, <2>5 DEF Within
  <2>7. DriveFor' = DriveFor
    BY <1>1, <1>2, <2>1 DEF DriveFor
  <2>8. Within(driveAge, DriveFor)'
    BY <2>1, <2>7 DEF AgeInv, Within
  <2> QED
    BY <2>1, <2>6, <2>8 DEF AgeInv
<1>6. CASE Drive
  <2>1. /\ cpc = "drive" /\ cpc' = "imu" /\ driveAge' = lcmdAge /\ lcmdAge' = OFF
        /\ UNCHANGED <<cmd, done, stampAge, spent>>
    BY <1>6 DEF Drive, vars, taskVars
  <2>2. Within(lcmdAge, ReadFor) /\ spent = 0
    BY <2>1 DEF AgeInv, Ready, TurnInv
  <2>3. CASE ~wedged \/ done > 0
    <3>1. TickFor' = ReadFor
      BY <1>1, <1>2, <2>1, <2>3 DEF TickFor, ReadFor
    <3> QED
      BY <2>1, <2>2, <3>1 DEF AgeInv, Within
  <2>4. CASE wedged /\ done = 0
    <3>1. ReadFor = Cycle
      BY <1>1, <2>4 DEF ReadFor
    <3>2. PICK n \in Nat : TickFor' = Cycle + n
      <4>1. Hog' \in Nat /\ I2C_MAX \in Nat
        BY HogBounds DEF Hog, HogOpen
      <4> QED
        BY <1>1, <1>2, <1>3, <2>1, <2>2, <2>4, <4>1 DEF TickFor
    <3>3. lcmdAge <= CMD_TIMEOUT - 1 + (Cycle + n)
      BY <1>3, <2>2, <3>1 DEF Within, Ready, Typed
    <3> QED
      BY <2>1, <3>2, <3>3 DEF AgeInv, Within
  <2> QED
    BY <2>3, <2>4 DEF Ready, Typed
<1>7. CASE ImuDone
  <2>1. /\ cpc = "imu" /\ cpc' = "sleep" /\ UNCHANGED <<cmd, stampAge, lcmdAge, driveAge>>
        /\ done' = IF done = quota THEN done ELSE done + 1
    BY <1>7 DEF ImuDone, vars, taskVars
  <2>2. DriveFor' = TickMax + busy /\ busy \in Nat
    BY <1>1, <1>2, <2>1 DEF DriveFor, Ready, Typed
  <2>3. TickFor <= TickMax + busy /\ TickFor \in Int
    <3>1. CASE ~wedged \/ done > 0
      BY <1>1, <1>3, <2>2, <3>1 DEF TickFor, ReadFor
    <3>2. CASE wedged /\ done = 0
      <4>1. /\ spent \in Nat /\ spent <= I2C_MAX /\ Hog \in Nat
            /\ TickMax = Cycle + I2C_MAX + Hog
        BY <1>0, <2>1, <3>2 DEF Compared, Ready, Typed, TurnInv
      <4>2. \/ TickFor = Cycle + spent
            \/ TickFor = Cycle + spent + Hog
        BY <1>1, <1>3, <3>2, <4>1 DEF TickFor
      <4> QED
        BY <1>3, <2>2, <4>1, <4>2
    <3> QED
      BY <3>1, <3>2 DEF Ready, Typed
  <2>4. driveAge <= CMD_TIMEOUT - 1 + (TickMax + busy)
    BY <1>3, <2>1, <2>2, <2>3 DEF AgeInv, Within, Ready, Typed
  <2> QED
    BY <2>1, <2>2, <2>4 DEF AgeInv, Within
<1> QED
  BY <1>4, <1>5, <1>6, <1>7

LEMMA AgeStep ==
  Ready /\ LateInv /\ AgeInv /\ OldInv /\ [BaseNext]_baseVars => AgeInv'
<1> SUFFICES ASSUME Ready, LateInv, AgeInv, OldInv, [BaseNext]_baseVars
             PROVE  AgeInv'
  OBVIOUS
<1>1. Known'
  BY KnownStep DEF Ready
<1>2. (Away \in Nat /\ Away <= Hog)'
  BY <1>1, AwayType, PTL
<1> QED
  BY <1>2, BaseSteps, AgeTurnTick, AgeAwayTick, AgeWake, AgeMove, AgeTurn, AgeIdle,
     AgeControl DEF Ready


-----------------------------------------------------------------------------
(* What is left of a command after the stop                                 *)

LEMMA OldTurnTick == Ready /\ OldInv /\ TurnTick => OldInv'
<1> SUFFICES ASSUME Ready, OldInv, TurnTick, ~wedged' PROVE OldInv'
  BY DEF OldInv
<1>1. /\ pc = "delay" /\ busy' = busy + 1 /\ ~wedged /\ busy \in Nat
      /\ UNCHANGED <<state, pc, cpc, done, quota>>
      /\ ControlWaits \/ done = quota
      /\ late' = IF cpc = "init" \/ late = LATE_MAX THEN late ELSE late + 1
      /\ late \in Int /\ quota > 0 /\ LATE_MAX > 0
  BY HogBounds DEF TurnTick, Passes, Ready, Typed
<1>2. /\ lcmdAge' = OFF <=> lcmdAge = OFF
      /\ driveAge' = OFF <=> driveAge = OFF
  BY AgesPass DEF TurnTick
<1>3. cpc \in {"drive", "imu"} => done = quota
  BY <1>1 DEF ControlWaits
<1>4. cpc = "sleep" /\ done = 0 => late' = late + 1
  BY <1>1 DEF ControlWaits
<1>5. cpc = "sleep" => late' = late + 1 \/ late' > 0
  BY <1>1
<1>6. ASSUME state = "WAITING_AGENT"
      PROVE  /\ ~(cpc = "drive" /\ lcmdAge # OFF) /\ ~(cpc = "imu" /\ driveAge # OFF)
             /\ cpc = "sleep" /\ driveAge # OFF =>
                  late' > busy' - PERIOD \/ late' > 0
  <2>1. /\ ~(cpc = "drive" /\ lcmdAge # OFF) /\ ~(cpc = "imu" /\ driveAge # OFF)
    BY <1>1, <1>3, <1>6 DEF OldInv
  <2>2. cpc = "sleep" /\ driveAge # OFF => late > busy - PERIOD \/ late > 0
    BY <1>1, <1>6 DEF OldInv
  <2> QED
    BY <1>1, <1>5, <2>1, <2>2
<1>7. ASSUME state = "AGENT_AVAILABLE"
      PROVE  /\ ~(cpc = "drive" /\ lcmdAge # OFF) /\ ~(cpc = "imu" /\ driveAge # OFF)
             /\ cpc \in {"sleep", "drive"} /\ driveAge # OFF => done = 0
             /\ cpc = "sleep" /\ driveAge # OFF =>
                  late' > DELAY + busy' - PERIOD \/ late' > 0
  <2>1. /\ ~(cpc = "drive" /\ lcmdAge # OFF) /\ ~(cpc = "imu" /\ driveAge # OFF)
        /\ cpc \in {"sleep", "drive"} /\ driveAge # OFF => done = 0
    BY <1>1, <1>7 DEF OldInv
  <2>2. cpc = "sleep" /\ driveAge # OFF =>
          late > DELAY + busy - PERIOD \/ late > 0
    BY <1>1, <1>7 DEF OldInv
  <2> QED
    BY <1>1, <1>4, <2>1, <2>2
<1>8. ~Opening'
  BY <1>1 DEF Opening
<1> QED
  BY <1>1, <1>2, <1>6, <1>7, <1>8 DEF OldInv

LEMMA OldAwayTick == Ready /\ OldInv /\ AwayTick => OldInv'
<1> SUFFICES ASSUME Ready, OldInv, AwayTick, ~wedged' PROVE OldInv'
  BY DEF OldInv
<1>1. /\ pc # "delay" /\ ~wedged /\ UNCHANGED <<state, pc, cpc>>
      /\ late' = IF cpc = "init" \/ late = LATE_MAX THEN late ELSE late + 1
      /\ late \in Int /\ late' \in Int /\ late' >= late
      /\ Opening' = Opening
  BY HogBounds DEF AwayTick, Passes, Ready, Typed
<1>2. /\ lcmdAge' = OFF <=> lcmdAge = OFF
      /\ driveAge' = OFF <=> driveAge = OFF
      /\ driveAge' <= driveAge + 1 /\ driveAge \in Int /\ driveAge' \in Int
  BY AgesPass DEF AwayTick, Ready, Typed
<1>3. Away \in Nat /\ Away' = Away + 1
  BY AwayBounds DEF Ready, AwayTick
<1>4. Within(driveAge, PERIOD + Away) => Within(driveAge, PERIOD + Away)'
  BY <1>2, <1>3 DEF Within
<1>5. Opening' /\ driveAge' # OFF =>
         /\ cpc' = "sleep" /\ PERIOD > 2 * DELAY
         /\ Within(driveAge, PERIOD + Away)'
  BY <1>1, <1>2, <1>4 DEF OldInv
<1>6. Opening' => ~(cpc' = "drive" /\ lcmdAge' # OFF)
  BY <1>1, <1>2 DEF OldInv
<1>7. ASSUME state = "WAITING_AGENT", pc \in {"switch", "ping"}
      PROVE  /\ ~(cpc = "drive" /\ lcmdAge # OFF) /\ ~(cpc = "imu" /\ driveAge # OFF)
             /\ cpc = "sleep" /\ driveAge # OFF =>
                  late' > DELAY - PERIOD \/ late' > 0
  <2>1. /\ ~(cpc = "drive" /\ lcmdAge # OFF) /\ ~(cpc = "imu" /\ driveAge # OFF)
        /\ cpc = "sleep" /\ driveAge # OFF => late > DELAY - PERIOD \/ late > 0
    BY <1>1, <1>7 DEF OldInv
  <2> QED
    BY <1>1, <2>1
<1> QED
  BY <1>1, <1>2, <1>5, <1>6, <1>7 DEF OldInv, Within

(* Two turns after the stop nothing is left of a command, or its period is  *)
(* longer than those.                                                       *)
LEMMA OldWake == Ready /\ LateInv /\ AgeInv /\ OldInv /\ WakeUp /\ Kept => OldInv'
<1> SUFFICES ASSUME Ready, LateInv, AgeInv, OldInv, WakeUp, Kept, ~wedged'
             PROVE  OldInv'
  BY DEF OldInv
<1>1. /\ pc = "delay" /\ busy = DELAY /\ pc' = "switch" /\ state' = state /\ ~wedged
      /\ UNCHANGED <<cpc, late, lcmdAge, driveAge>>
      /\ late \in Int /\ driveAge \in Int
  BY DEF WakeUp, Kept, Ready, Typed
<1>2. Away' = 0
  BY <1>1 DEF Away
<1>3. /\ cpc = "drive" => done = quota
      /\ cpc = "sleep" /\ done = 0 => late <= 0
      /\ quota > 0
  BY <1>1 DEF Ready, TurnInv, Typed
<1>4. ASSUME state = "WAITING_AGENT"
      PROVE  /\ ~(cpc = "drive" /\ lcmdAge # OFF) /\ ~(cpc = "imu" /\ driveAge # OFF)
             /\ cpc = "sleep" /\ driveAge # OFF =>
                  late > DELAY - PERIOD \/ late > 0
  BY <1>1, <1>4 DEF OldInv
<1>5. ASSUME state = "AGENT_AVAILABLE"
      PROVE  /\ ~(cpc = "drive" /\ lcmdAge # OFF)
             /\ driveAge # OFF =>
                  /\ cpc = "sleep" /\ PERIOD > 2 * DELAY
                  /\ driveAge <= CMD_TIMEOUT - 1 + (PERIOD + 0)
  <2>1. ~(cpc = "drive" /\ lcmdAge # OFF)
    BY <1>1, <1>5 DEF OldInv
  <2>2. ASSUME driveAge # OFF
        PROVE  /\ cpc = "sleep" /\ PERIOD > 2 * DELAY
               /\ driveAge <= CMD_TIMEOUT - 1 + (PERIOD + 0)
    <3>1. cpc # "imu" /\ (cpc = "drive" => done = 0)
      BY <1>1, <1>5, <2>2 DEF OldInv
    <3>2. cpc # "init"
      BY <2>2 DEF AgeInv
    <3>3. cpc = "sleep"
      BY <1>3, <3>1, <3>2 DEF Ready, Typed
    <3>4. done = 0 /\ (late > DELAY + DELAY - PERIOD \/ late > 0)
      BY <1>1, <1>5, <2>2, <3>3 DEF OldInv
    <3>5. late <= 0
      BY <1>3, <3>3, <3>4
    <3>6. driveAge <= CMD_TIMEOUT - 1 + (PERIOD + late)
      BY <1>1, <3>3, <3>5 DEF LateInv, Within
    <3> QED
      BY <1>1, <3>3, <3>4, <3>5, <3>6
  <2> QED
    BY <2>1, <2>2
<1>6. Opening' => state = "AGENT_AVAILABLE"
  BY <1>1 DEF Opening
<1>7. Opening' /\ driveAge # OFF => Within(driveAge, PERIOD + Away)'
  BY <1>1, <1>2, <1>5, <1>6 DEF Within
<1> QED
  BY <1>1, <1>4, <1>5, <1>6, <1>7 DEF OldInv

LEMMA OldMove == Ready /\ OldInv /\ Move /\ Kept /\ Away' \in Nat => OldInv'
<1> SUFFICES ASSUME Ready, OldInv, Move, Kept, Away' \in Nat, ~wedged'
             PROVE  OldInv'
  BY DEF OldInv
<1>1. PICK later \in Nat : later = Away'
  OBVIOUS
<1>2. later \in Nat /\ Away <= later /\ Away \in Nat
  BY <1>1, AwayBounds DEF Move, Ready
<1>3. /\ pc # "delay" /\ pc' # "delay" /\ Opening' = Opening /\ ~wedged
      /\ state' = "WAITING_AGENT" /\ pc' \in {"switch", "ping"}
           => state = state' /\ pc \in {"switch", "ping"}
      /\ UNCHANGED <<cpc, late, lcmdAge, driveAge>> /\ driveAge \in Int
  BY DEF Move, Kept, Ready, Typed
<1>4. Within(driveAge, PERIOD + Away) => driveAge <= CMD_TIMEOUT - 1 + (PERIOD + later)
  BY <1>2, <1>3 DEF Within
<1>5. Within(driveAge, PERIOD + Away) => Within(driveAge, PERIOD + Away)'
  BY <1>1, <1>3, <1>4 DEF Within
<1>6. Opening' /\ driveAge # OFF =>
         /\ cpc = "sleep" /\ PERIOD > 2 * DELAY
         /\ Within(driveAge, PERIOD + Away)'
  BY <1>3, <1>5 DEF OldInv
<1>7. Opening' => ~(cpc = "drive" /\ lcmdAge # OFF)
  BY <1>3 DEF OldInv
<1>8. ASSUME state = "WAITING_AGENT", pc \in {"switch", "ping"}
      PROVE  /\ ~(cpc = "drive" /\ lcmdAge # OFF) /\ ~(cpc = "imu" /\ driveAge # OFF)
             /\ cpc = "sleep" /\ driveAge # OFF =>
                  late > DELAY - PERIOD \/ late > 0
  BY <1>3, <1>8 DEF OldInv
<1> QED
  BY <1>3, <1>6, <1>7, <1>8 DEF OldInv

LEMMA OldTurn == Ready /\ AgeInv /\ OldInv /\ TurnBegins /\ Kept => OldInv'
<1> SUFFICES ASSUME Ready, AgeInv, OldInv, TurnBegins, Kept, ~wedged' PROVE OldInv'
  BY DEF OldInv
<1>1. /\ pc # "delay" /\ pc' = "delay" /\ busy' = 0 /\ done' = 0 /\ ~wedged
      /\ state' = "AGENT_AVAILABLE" => state = "WAITING_AGENT" /\ pc = "ping"
      /\ UNCHANGED <<cpc, late, lcmdAge, driveAge>> /\ late \in Int
  BY DEF TurnBegins, Kept, Ready, TurnInv, Typed
<1>2. /\ cpc \in {"drive", "imu"} => late > 0
      /\ cpc = "sleep" => late > 0 - PERIOD
  BY <1>1 DEF Ready, TurnInv
<1>3. ASSUME state' = "AGENT_AVAILABLE"
      PROVE  /\ ~(cpc = "drive" /\ lcmdAge # OFF) /\ ~(cpc = "imu" /\ driveAge # OFF)
             /\ cpc = "sleep" /\ driveAge # OFF =>
                  late > DELAY + 0 - PERIOD \/ late > 0
  <2>1. /\ ~(cpc = "drive" /\ lcmdAge # OFF) /\ ~(cpc = "imu" /\ driveAge # OFF)
        /\ cpc = "sleep" /\ driveAge # OFF => late > DELAY - PERIOD \/ late > 0
    BY <1>1, <1>3 DEF OldInv
  <2> QED
    BY <1>1, <2>1
<1>4. ~Opening'
  BY <1>1 DEF Opening
<1> QED
  BY <1>1, <1>2, <1>3, <1>4 DEF OldInv

LEMMA OldControl ==
  Ready /\ AgeInv /\ OldInv /\ (InitDone \/ ReadCommand \/ Drive \/ ImuDone)
    => OldInv'
<1> SUFFICES ASSUME Ready, AgeInv, OldInv, ~wedged',
                    InitDone \/ ReadCommand \/ Drive \/ ImuDone
             PROVE  OldInv'
  BY DEF OldInv
<1>1. /\ pc = "delay" /\ ~wedged /\ UNCHANGED <<state, pc, busy>>
  BY DEF InitDone, ReadCommand, Drive, ImuDone, ControlRuns, vars, taskVars, outside
<1>2. ~Opening'
  BY <1>1 DEF Opening
<1>3. state \in {"WAITING_AGENT", "AGENT_AVAILABLE"} => stampAge = OFF
  BY DEF Ready, Known, StopInv, NoCommandWithoutSession, AgeInv
<1>4. CASE InitDone
  <2>1. lcmdAge' = OFF /\ driveAge' = OFF
    BY <1>4 DEF InitDone, AgeInv
  <2> QED
    BY <1>1, <1>2, <2>1 DEF OldInv
<1>5. CASE ReadCommand
  <2>1. /\ cpc = "sleep" /\ cpc' = "drive" /\ lcmdAge' = Deadman(stampAge)
        /\ UNCHANGED <<done, driveAge>>
    BY <1>5 DEF ReadCommand
  <2>2. state \in {"WAITING_AGENT", "AGENT_AVAILABLE"} => lcmdAge' = OFF
    BY <1>3, <2>1 DEF Deadman
  <2> QED
    BY <1>1, <1>2, <2>1, <2>2 DEF OldInv
<1>6. CASE Drive
  <2>1. /\ cpc = "drive" /\ cpc' = "imu" /\ lcmdAge' = OFF /\ driveAge' = lcmdAge
        /\ UNCHANGED <<done, late>>
    BY <1>6 DEF Drive
  <2> QED
    BY <1>1, <1>2, <2>1 DEF OldInv
<1>7. CASE ImuDone
  <2>1. /\ cpc = "imu" /\ cpc' = "sleep" /\ UNCHANGED <<lcmdAge, driveAge>>
        /\ late' \in IF late = LATE_MAX THEN LATE_MAX - PERIOD .. LATE_MAX
                     ELSE {late - PERIOD}
    BY <1>7 DEF ImuDone
  <2>2. late > 0 => late' > 0 - PERIOD
    BY <2>1, HogBounds DEF Ready, Typed
  <2>3. state = "WAITING_AGENT" /\ driveAge # OFF => busy = 0 /\ late > 0
    BY <1>1, <2>1 DEF OldInv
  <2>4. state = "AGENT_AVAILABLE" => driveAge = OFF
    BY <1>1, <2>1 DEF OldInv
  <2> QED
    BY <1>1, <1>2, <2>1, <2>2, <2>3, <2>4 DEF OldInv
<1> QED
  BY <1>4, <1>5, <1>6, <1>7

LEMMA OldStep ==
  Ready /\ LateInv /\ AgeInv /\ OldInv /\ [BaseNext]_baseVars => OldInv'
<1> SUFFICES ASSUME Ready, LateInv, AgeInv, OldInv, [BaseNext]_baseVars
             PROVE  OldInv'
  OBVIOUS
<1>1. Known'
  BY KnownStep DEF Ready
<1>2. (Away \in Nat /\ Away <= Hog)'
  BY <1>1, AwayType, PTL
<1>3. CASE Idle
  <2>1. Opening' = Opening /\ Away' = Away
    BY <1>3 DEF Idle, Opening, Away
  <2> QED
    BY <1>3, <2>1 DEF Idle, OldInv, Within
<1> QED
  BY <1>2, <1>3, BaseSteps, OldTurnTick, OldAwayTick, OldWake, OldMove, OldTurn,
     OldControl DEF Ready


-----------------------------------------------------------------------------
(* The invariant and what follows from it                                   *)

LEMMA BaseInvInit == BaseInit => Ready /\ BaseInv
<1> SUFFICES ASSUME BaseInit PROVE Ready /\ BaseInv
  OBVIOUS
<1>1. /\ state = "WAITING_AGENT" /\ pc = "switch" /\ busy = 0
      /\ cpc = "init" /\ late = 0 /\ spent = 0 /\ done = 0
      /\ stampAge = OFF /\ lcmdAge = OFF /\ driveAge = OFF /\ gap = 0
      /\ quota \in QUOTAS /\ wedged \in BOOLEAN
  BY DEF BaseInit, Init
<1>2. /\ LATE_MAX \in Nat /\ AGE_MAX \in Nat /\ GAP_MAX \in Nat
      /\ Greatest(INIT_TIME, I2C_MAX) \in Nat
  BY HogBounds, Compare, GapBounds DEF Compared, Bounded, Greatest
<1>3. Typed
  BY <1>1, <1>2 DEF Typed, OFF
<1>4. TurnInv
  BY <1>1 DEF TurnInv
<1>5. GapInv
  BY <1>1 DEF GapInv
<1>6. LateInv /\ AgeInv
  BY <1>1 DEF LateInv, AgeInv
<1>7. ~Opening
  BY <1>1 DEF Opening
<1>8. OldInv
  BY <1>1, <1>7 DEF OldInv
<1> QED
  BY KnownInit, <1>3, <1>4, <1>5, <1>6, <1>8 DEF Ready, BaseInv

LEMMA BaseInvStep == Ready /\ BaseInv /\ [BaseNext]_baseVars => (Ready /\ BaseInv)'
<1> SUFFICES ASSUME Ready, BaseInv, [BaseNext]_baseVars PROVE (Ready /\ BaseInv)'
  OBVIOUS
<1>1. Known' /\ Typed' /\ TurnInv'
  BY KnownStep, TypedStep, TurnStep DEF Ready
<1>2. GapInv'
  BY GapStep DEF BaseInv
<1>3. LateInv' /\ AgeInv' /\ OldInv'
  BY LateStep, AgeStep, OldStep DEF BaseInv
<1> QED
  BY <1>1, <1>2, <1>3 DEF Ready, BaseInv

LEMMA BaseInvariant == BaseSpec => [](Ready /\ BaseInv)
<1>1. BaseInit => Ready /\ BaseInv
  BY BaseInvInit
<1>2. Ready /\ BaseInv /\ [BaseNext]_baseVars => (Ready /\ BaseInv)'
  BY BaseInvStep
<1> QED
  BY <1>1, <1>2, PTL DEF BaseSpec

(* The variables of both tasks keep their types: the control ticks of one   *)
(* DELAY are counted up to the quota only, control_loop_init and a stalled  *)
(* bus keep control_task no longer than INIT_TIME and I2C_MAX.              *)
THEOREM BaseTypeCorrect == BaseSpec => []BaseTypeOK
<1>1. Ready /\ BaseInv => BaseTypeOK
  BY BaseTypes DEF Ready
<1> QED
  BY <1>1, BaseInvariant, PTL

(* A command drives the wheels for no longer than StopBound after its       *)
(* callback stored it, whatever the durations of the calls, the periods and *)
(* the quota are, with a bus that stalls too.                               *)
THEOREM StopOnTime == BaseSpec => []MotorsStopOnTime
<1>1. Ready /\ BaseInv => MotorsStopOnTime
  <2> SUFFICES ASSUME Ready, BaseInv PROVE MotorsStopOnTime
    OBVIOUS
  <2>0. /\ Compared /\ Away \in Nat /\ Away <= Hog
        /\ ~Opening => Away <= HogOpen
        /\ pc = "delay" => busy <= DELAY
    BY Compare, AwayBounds DEF Ready, Known, BusyInv, Limit
  <2>1. /\ Cycle \in Nat /\ TickMax \in Nat /\ WaitHog \in Nat /\ Cycle <= TickMax
        /\ ReadToDrive \in Nat /\ busy \in Nat /\ driveAge \in Int
    BY <2>0 DEF Compared, Ready, Typed
  <2> SUFFICES Within(driveAge, ReadToDrive)
    BY <2>0 DEF Within, MotorsStopOnTime, Compared
  <2>2. driveAge = OFF => Within(driveAge, ReadToDrive)
    BY <2>1 DEF Within, OFF
  <2>3. CASE ~wedged /\ Opening
    <3>1. driveAge # OFF => PERIOD > 2 * DELAY /\ Within(driveAge, PERIOD + Away)
      BY <2>3 DEF BaseInv, OldInv
    <3>2. PERIOD > 2 * DELAY => PERIOD + Away <= ReadToDrive
      BY <2>0, <2>1 DEF Compared
    <3> QED
      BY <2>0, <2>1, <2>2, <3>1, <3>2 DEF Within
  <2>4. CASE wedged \/ ~Opening
    <3>1. Away + DELAY <= Cycle /\ Away <= WaitHog /\ TickMax + Cycle <= ReadToDrive
          /\ PERIOD + WaitHog <= ReadToDrive
      BY <2>0, <2>4 DEF Compared
    <3>2. CASE cpc = "init"
      BY <2>2, <3>2 DEF BaseInv, AgeInv
    <3>3. CASE cpc = "imu"
      <4>1. Within(driveAge, TickFor)
        BY <3>3 DEF BaseInv, AgeInv
      <4>2. TickFor \in Int /\ TickFor <= ReadToDrive
        <5>1. CASE ~wedged \/ done > 0
          BY <2>0, <2>1, <3>1, <5>1 DEF TickFor, ReadFor
        <5>2. CASE wedged /\ done = 0
          <6>1. /\ spent \in Nat /\ spent <= I2C_MAX /\ Hog \in Nat
                /\ TickMax = Cycle + I2C_MAX + Hog
            BY <2>0, <3>3, <5>2 DEF Compared, Ready, Typed, TurnInv
          <6>2. \/ TickFor = Cycle + spent
                \/ TickFor = Cycle + spent + Hog
                \/ TickFor = Cycle + spent + Away
            BY <2>0, <2>1, <5>2, <6>1 DEF TickFor
          <6> QED
            BY <2>0, <2>1, <3>1, <6>1, <6>2
        <5> QED
          BY <5>1, <5>2 DEF Ready, Typed
      <4> QED
        BY <2>1, <4>1, <4>2 DEF Within
    <3>4. CASE cpc \in {"sleep", "drive"}
      <4>1. Within(driveAge, DriveFor)
        BY <3>4 DEF BaseInv, AgeInv
      <4>2. DriveFor \in Int /\ DriveFor <= ReadToDrive
        BY <2>0, <2>1, <3>1 DEF DriveFor, Greatest
      <4> QED
        BY <2>1, <4>1, <4>2 DEF Within
    <3> QED
      BY <3>2, <3>3, <3>4 DEF Ready, Typed
  <2> QED
    BY <2>3, <2>4 DEF Ready, Typed
<1> QED
  BY <1>1, BaseInvariant, PTL

(* From one update of the wheels to the next there is at most GapBound,     *)
(* whatever the durations of the calls, the periods and the quota are, with *)
(* a bus that stalls too, and however far behind its schedule control_task  *)
(* has come to be.                                                          *)
THEOREM GapIsBounded == BaseSpec => []ControlGapIsBounded
<1>1. Ready /\ BaseInv => ControlGapIsBounded
  <2> SUFFICES ASSUME Ready, BaseInv PROVE gap <= GapBound
    BY DEF ControlGapIsBounded
  <2>0. Bounded /\ gap \in Nat
    BY GapBounds DEF Ready, Typed
  <2>1. CASE cpc = "init"
    BY <2>0, <2>1 DEF BaseInv, GapInv, Bounded
  <2>2. CASE cpc = "imu"
    <3>1. TickGap
      BY <2>2 DEF BaseInv, GapInv
    <3>2. Away \in Nat /\ Away <= Hog /\ busy \in Nat
      BY AwayBounds DEF Ready
    <3>3. pc = "delay" => busy <= DELAY
      BY DEF Ready, Known, BusyInv, Limit
    <3> QED
      BY <2>0, <3>1, <3>2, <3>3 DEF TickGap, Bounded
  <2>3. CASE cpc \in {"sleep", "drive"}
    BY <2>3 DEF BaseInv, GapInv, NextGap
  <2> QED
    BY <2>1, <2>2, <2>3 DEF Ready, Typed
<1> QED
  BY <1>1, BaseInvariant, PTL
=============================================================================
