---------------------------- MODULE RuntimeProofs -----------------------------
(***************************************************************************)
(* Theorems about Runtime, for every layout of the memory and every set of *)
(* requests.                                                               *)
(***************************************************************************)
EXTENDS Runtime, TLAPS

LEMMA ModOnce ==
  ASSUME NEW m \in Nat \ {0}, NEW x \in 0 .. 2 * m - 1
  PROVE  (x < m => x % m = x) /\ (x >= m => x % m = x - m)
  BY SMT

HeapPc == {"malloc", "load_end", "test", "grow"}

(* A task is inside malloc only while it cannot be switched away from.      *)
CoreInv ==
    /\ running \in Tasks /\ suspended \in BOOLEAN
    /\ pc \in [Tasks -> Pc]
    /\ suspended <=> pc[running] \in HeapPc
    /\ \A t \in Tasks : t # running => pc[t] = "idle"

LEMMA CoreInit == Init => CoreInv
  <1> SUFFICES ASSUME Init PROVE CoreInv
    OBVIOUS
  <1>1. suspended \in BOOLEAN /\ ~suspended
    BY Zenon DEF Init
  <1> QED
    BY <1>1 DEF Init, CoreInv, Tasks, Pc, HeapPc

(* A step of a task that leaves the lock alone, within malloc.              *)
LEMMA GotoKeepsCore ==
  ASSUME CoreInv, NEW t \in Tasks, NEW from \in HeapPc, NEW to \in HeapPc,
         Goto(t, from, to), UNCHANGED coreVars
  PROVE  CoreInv'
  BY DEF CoreInv, Goto, coreVars, HeapPc, Pc

LEMMA CoreStep == CoreInv /\ [Next]_vars => CoreInv'
<1> SUFFICES ASSUME CoreInv, [Next]_vars PROVE CoreInv'
  OBVIOUS
<1>1. CASE Preempt \/ Block
  <2>1. /\ pc[running] = "idle" /\ UNCHANGED <<pc, suspended>>
        /\ running' \in Tasks
    BY <1>1 DEF Preempt, Block, CoreInv, Tasks, Pc, HeapPc
  <2>2. \A t \in Tasks : pc[t] = "idle"
    BY <2>1 DEF CoreInv
  <2> QED
    BY <2>1, <2>2 DEF CoreInv, HeapPc
<1>2. ASSUME NEW t \in Tasks, Malloc(t) PROVE CoreInv'
  <2>1. CASE MallocLock(t)
    BY <2>1 DEF MallocLock, Goto, CoreInv, HeapPc, Pc
  <2>2. ASSUME NEW n \in Requests, CallSbrk(t, n) PROVE CoreInv'
    BY <2>2, GotoKeepsCore DEF CallSbrk, HeapPc
  <2>3. CASE LoadEnd(t)
    BY <2>3, GotoKeepsCore DEF LoadEnd, HeapPc
  <2>4. CASE TestLimit(t)
    BY <2>4, GotoKeepsCore DEF TestLimit, HeapPc
  <2>5. CASE Grow(t)
    BY <2>5, GotoKeepsCore DEF Grow, HeapPc
  <2>6. CASE MallocUnlock(t)
    BY <2>6 DEF MallocUnlock, Goto, CoreInv, HeapPc, Pc
  <2> QED
    BY <1>2, <2>1, <2>2, <2>3, <2>4, <2>5, <2>6 DEF Malloc
<1>3. CASE UNCHANGED vars
  BY <1>3 DEF vars, coreVars, CoreInv
<1> QED
  BY <1>1, <1>2, <1>3 DEF Next

(* The task of a step has the core, before and after.                       *)
LEMMA StepOfRunning ==
  ASSUME NEW t \in Tasks, NEW from, NEW to, Goto(t, from, to), running' = running,
         CoreInv
  PROVE  running = t /\ running' = t /\ pc[t] = from /\ pc'[t] = to
  BY DEF Goto, CoreInv

-----------------------------------------------------------------------------
(* The heap                                                                 *)

Blocks == [owner : Tasks, from : Nat, size : Nat]

(* Everything handed out lies below heap_end, and a test that has passed    *)
(* still holds when the heap grows: nobody has moved heap_end meanwhile.    *)
HeapInv ==
    /\ heap_end \in END .. LIMIT /\ blocks \subseteq Blocks
    /\ size \in [Tasks -> Requests \cup {0}] /\ prev \in [Tasks -> END .. LIMIT]
    /\ pc[running] \in {"test", "grow"} => prev[running] = heap_end
    /\ pc[running] = "grow" => Fits(running)
    /\ \A b \in blocks : END <= b.from /\ b.from + b.size <= heap_end

LEMMA HeapInit == Init => HeapInv
  BY HeapAssumption DEF Init, HeapInv, Tasks

(* A sum that passes the test has not wrapped.                              *)
LEMMA FitsMeansBelow ==
  ASSUME NEW p \in END .. LIMIT, NEW n \in Requests \cup {0},
         n > 0 => (p + n) % SPACE <= LIMIT /\ (p + n) % SPACE >= p
  PROVE  (p + n) % SPACE = p + n /\ p + n <= LIMIT
  <1>1. p \in Nat /\ p < SPACE /\ n \in Nat /\ n < SPACE /\ SPACE \in Nat \ {0}
    BY HeapAssumption
  <1>2. p + n \in 0 .. 2 * SPACE - 1
    BY <1>1
  <1> DEFINE x == p + n
  <1>3. x \in 0 .. 2 * SPACE - 1
    BY <1>2
  <1> HIDE DEF x
  <1>4. (x < SPACE => x % SPACE = x) /\ (x >= SPACE => x % SPACE = x - SPACE)
    BY <1>1, <1>3, ModOnce
  <1>5. CASE n = 0
    BY <1>1, <1>4, <1>5, HeapAssumption DEF x
  <1>6. CASE n > 0 /\ x < SPACE
    BY <1>4, <1>6 DEF x
  <1>7. CASE n > 0 /\ x >= SPACE
    <2>1. x % SPACE = x - SPACE /\ x - SPACE < p
      BY <1>1, <1>4, <1>7 DEF x
    <2>2. x % SPACE >= p /\ x \in Int
      BY <1>1, <1>7 DEF x
    <2> QED
      BY <1>1, <2>1, <2>2
  <1> QED
    BY <1>1, <1>3, <1>5, <1>6, <1>7

LEMMA GrownEnd ==
  ASSUME HeapInv, CoreInv, pc[running] = "grow"
  PROVE  /\ prev[running] = heap_end
         /\ NewEnd(running) = heap_end + size[running]
         /\ NewEnd(running) <= LIMIT
         /\ size[running] \in Nat
  <1>1. prev[running] \in END .. LIMIT /\ size[running] \in Requests \cup {0}
    BY DEF HeapInv, CoreInv
  <1>2. Fits(running) /\ prev[running] = heap_end
    BY DEF HeapInv
  <1>3. NewEnd(running) = prev[running] + size[running] /\ NewEnd(running) <= LIMIT
    BY <1>1, <1>2, FitsMeansBelow DEF Fits, NewEnd
  <1>4. \A n \in Requests \cup {0} : n \in Nat
    BY HeapAssumption
  <1> QED
    BY <1>1, <1>2, <1>3, <1>4

(* The block that a call of _sbrk hands out.                                *)
NewBlock == [owner |-> running, from |-> prev[running], size |-> size[running]]

LEMMA HeapGrows ==
  ASSUME HeapInv, CoreInv, NEW t \in Tasks, Grow(t)
  PROVE  HeapInv' /\ blocks' = blocks \cup {NewBlock} /\ NewBlock.from = heap_end
<1>1. running = t /\ running' = t /\ pc[t] = "grow" /\ pc'[t] = "malloc"
  BY StepOfRunning DEF Grow, coreVars
<1>2. blocks' = blocks \cup {NewBlock} /\ NewBlock.from = heap_end
  BY <1>1, GrownEnd DEF Grow, NewBlock
<1>3. heap_end' = heap_end + size[t] /\ heap_end' <= LIMIT /\ size[t] \in Nat
  BY <1>1, GrownEnd DEF Grow
<1>4. heap_end' \in END .. LIMIT /\ heap_end \in Int
  BY <1>3, HeapAssumption DEF HeapInv
<1>5. blocks' \subseteq Blocks
  BY <1>1, <1>2, <1>3, HeapAssumption DEF HeapInv, Blocks, NewBlock
<1>6. \A b \in blocks' : END <= b.from /\ b.from + b.size <= heap_end'
  <2> SUFFICES ASSUME NEW b \in blocks'
               PROVE  END <= b.from /\ b.from + b.size <= heap_end'
    OBVIOUS
  <2>1. CASE b \in blocks
    <3>1. b.from \in Nat /\ b.size \in Nat /\ END <= b.from
          /\ b.from + b.size <= heap_end
      BY <2>1 DEF HeapInv, Blocks
    <3> QED
      BY <3>1, <1>3, <1>4
  <2>2. CASE b = NewBlock
    <3>1. b.from = heap_end /\ b.size = size[t]
      BY <1>1, <1>2, <2>2 DEF NewBlock
    <3> QED
      BY <3>1, <1>3, HeapAssumption DEF HeapInv
  <2> QED
    BY <1>2, <2>1, <2>2
<1> QED
  BY <1>1, <1>2, <1>4, <1>5, <1>6 DEF HeapInv, Grow

LEMMA HeapStep == HeapInv /\ CoreInv /\ [Next]_vars => HeapInv'
<1> SUFFICES ASSUME HeapInv, CoreInv, [Next]_vars PROVE HeapInv'
  OBVIOUS
<1>1. CASE Preempt \/ Block
  <2>1. pc'[running'] \in {"idle"} /\ UNCHANGED heapVars
    BY <1>1 DEF Preempt, Block, CoreInv, Tasks, Pc, HeapPc
  <2> QED
    BY <2>1 DEF HeapInv, heapVars
<1>2. ASSUME NEW t \in Tasks, Malloc(t) PROVE HeapInv'
  <2>1. CASE MallocLock(t)
    <3>1. pc'[running'] = "malloc"
      BY <2>1, StepOfRunning DEF MallocLock
    <3> QED
      BY <2>1, <3>1 DEF MallocLock, heapVars, HeapInv
  <2>2. ASSUME NEW n \in Requests, CallSbrk(t, n) PROVE HeapInv'
    <3>1. pc'[running'] = "load_end"
      BY <2>2, StepOfRunning DEF CallSbrk, coreVars
    <3> QED
      BY <2>2, <3>1 DEF CallSbrk, HeapInv
  <2>3. CASE LoadEnd(t)
    <3>1. running = t /\ running' = t /\ pc'[t] = "test"
      BY <2>3, StepOfRunning DEF LoadEnd, coreVars
    <3>2. prev' \in [Tasks -> END .. LIMIT] /\ prev'[t] = heap_end
      BY <2>3 DEF LoadEnd, HeapInv
    <3> QED
      BY <2>3, <3>1, <3>2 DEF LoadEnd, HeapInv
  <2>4. CASE TestLimit(t)
    <3>1. running = t /\ running' = t /\ pc[t] = "test"
          /\ pc'[t] = IF Fits(t) THEN "grow" ELSE "malloc"
      BY <2>4, StepOfRunning DEF TestLimit, coreVars
    <3>2. UNCHANGED heapVars /\ Fits(t)' = Fits(t)
      BY <2>4 DEF TestLimit, heapVars, Fits, NewEnd
    <3> QED
      BY <3>1, <3>2 DEF HeapInv, heapVars
  <2>5. CASE Grow(t)
    BY <2>5, HeapGrows
  <2>6. CASE MallocUnlock(t)
    <3>1. pc'[running'] = "idle"
      BY <2>6, StepOfRunning DEF MallocUnlock
    <3>2. size' \in [Tasks -> Requests \cup {0}] /\ prev' \in [Tasks -> END .. LIMIT]
      BY <2>6, HeapAssumption DEF MallocUnlock, HeapInv
    <3> QED
      BY <2>6, <3>1, <3>2 DEF MallocUnlock, HeapInv
  <2> QED
    BY <1>2, <2>1, <2>2, <2>3, <2>4, <2>5, <2>6 DEF Malloc
<1>3. CASE UNCHANGED vars
  BY <1>3 DEF vars, coreVars, heapVars, HeapInv, Fits, NewEnd
<1> QED
  BY <1>1, <1>2, <1>3 DEF Next

LEMMA BlocksChangeInGrow ==
  ASSUME [Next]_vars PROVE UNCHANGED blocks \/ \E t \in Tasks : Grow(t)
<1>1. CASE Preempt \/ Block
  BY <1>1 DEF Preempt, Block, heapVars
<1>2. ASSUME NEW t \in Tasks, Malloc(t) PROVE UNCHANGED blocks \/ Grow(t)
  BY <1>2 DEF Malloc, MallocLock, CallSbrk, LoadEnd, TestLimit, MallocUnlock,
              heapVars
<1>3. CASE UNCHANGED vars
  BY <1>3 DEF vars, heapVars
<1> QED
  BY <1>1, <1>2, <1>3 DEF Next

LEMMA DisjointStep ==
    HeapInv /\ CoreInv /\ BlocksAreDisjoint /\ [Next]_vars => BlocksAreDisjoint'
<1> SUFFICES ASSUME HeapInv, CoreInv, BlocksAreDisjoint, [Next]_vars
             PROVE  BlocksAreDisjoint'
  OBVIOUS
<1>1. CASE UNCHANGED blocks
  BY <1>1 DEF BlocksAreDisjoint
<1>2. ASSUME NEW t \in Tasks, Grow(t) PROVE BlocksAreDisjoint'
  <2>1. HeapInv' /\ blocks' = blocks \cup {NewBlock} /\ NewBlock.from = heap_end
    BY <1>2, HeapGrows
  <2>2. \A b \in blocks' : END <= b.from /\ b.from + b.size <= LIMIT
    <3> SUFFICES ASSUME NEW b \in blocks'
                 PROVE  END <= b.from /\ b.from + b.size <= LIMIT
      OBVIOUS
    <3>1. /\ b.from \in Nat /\ b.size \in Nat /\ heap_end' \in END .. LIMIT
          /\ END <= b.from /\ b.from + b.size <= heap_end'
      BY <2>1 DEF HeapInv, Blocks
    <3> QED
      BY <3>1, HeapAssumption
  <2>3. ASSUME NEW b \in blocks, NEW c \in blocks, b # c
        PROVE  b.from + b.size <= c.from \/ c.from + c.size <= b.from
    BY <2>3 DEF BlocksAreDisjoint
  <2>4. ASSUME NEW b \in blocks PROVE b.from + b.size <= NewBlock.from
    BY <2>1, <2>4 DEF HeapInv
  <2> QED
    BY <2>1, <2>2, <2>3, <2>4 DEF BlocksAreDisjoint
<1> QED
  BY <1>1, <1>2, BlocksChangeInGrow

(* _sbrk never hands out memory twice, nor memory above the limit, whatever *)
(* the tasks ask for and however they are scheduled.                        *)
THEOREM HeapCorrect == Spec => []BlocksAreDisjoint
<1>1. Init => BlocksAreDisjoint
  BY DEF Init, BlocksAreDisjoint
<1> QED
  BY <1>1, CoreInit, CoreStep, HeapInit, HeapStep, DisjointStep, PTL DEF Spec

(* Type correctness: the break stays between the start of the heap and the  *)
(* limit.                                                                   *)
THEOREM TypeCorrect == Spec => []TypeOK
<1>1. CoreInv /\ HeapInv => TypeOK
  BY DEF CoreInv, HeapInv, TypeOK
<1> QED
  BY <1>1, CoreInit, CoreStep, HeapInit, HeapStep, PTL DEF Spec
=============================================================================
