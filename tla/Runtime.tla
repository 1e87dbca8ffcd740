------------------------------- MODULE Runtime -------------------------------
(***************************************************************************)
(* What the tasks share below the application: newlib's heap, grown by     *)
(* _sbrk under __malloc_lock (sys_freertos.c).                             *)
(*                                                                         *)
(* uros_task interrupts control_task between any two steps, unless the     *)
(* scheduler is suspended.  malloc is newlib-nano's (-specs=nano.specs):   *)
(* it asks _sbrk(0) for the start of the heap, then for what its free list *)
(* lacks, any number of times under one lock, and never gives memory back. *)
(***************************************************************************)
EXTENDS Integers

CONSTANTS
    SPACE,       \* addresses, 2^32
    END,         \* end: the first address of the heap
    LIMIT,       \* _estack - LINO_STACK_RESERVE
    Requests     \* what malloc asks _sbrk for, as a ptrdiff_t never negative

ASSUME HeapAssumption ==
    /\ SPACE \in Nat /\ END \in Nat /\ LIMIT \in Nat
    /\ END <= LIMIT /\ LIMIT < SPACE
    /\ Requests \subseteq 0 .. SPACE - 1

Tasks == {"ctrl", "uros"}

Pc == {"idle", "malloc", "load_end", "test", "grow"}

VARIABLES
    running,     \* the task that has the core
    suspended,   \* vTaskSuspendAll without its xTaskResumeAll
    pc,          \* of each task
    size, prev,  \* of each task: incr and prev of its _sbrk
    heap_end,
    blocks       \* what _sbrk has handed out

coreVars == <<running, suspended>>
heapVars == <<size, prev, heap_end, blocks>>
vars == <<coreVars, pc, heapVars>>

TypeOK ==
    /\ running \in Tasks /\ suspended \in BOOLEAN
    /\ pc \in [Tasks -> Pc]
    /\ size \in [Tasks -> Requests \cup {0}] /\ prev \in [Tasks -> END .. LIMIT]
    /\ heap_end \in END .. LIMIT

Init ==
    /\ running = "uros" /\ suspended = FALSE
    /\ pc = [t \in Tasks |-> "idle"]
    /\ size = [t \in Tasks |-> 0] /\ prev = [t \in Tasks |-> END]
    /\ heap_end = END /\ blocks = {}

Goto(t, from, to) ==
    /\ running = t /\ pc[t] = from
    /\ pc' = [pc EXCEPT ![t] = to]

-----------------------------------------------------------------------------
(* The tick interrupt switches to uros_task when its delay is over.         *)
Preempt ==
    /\ running = "ctrl" /\ ~suspended
    /\ running' = "uros"
    /\ UNCHANGED <<suspended, pc, heapVars>>

Block ==
    /\ running = "uros" /\ pc["uros"] = "idle"
    /\ running' = "ctrl"
    /\ UNCHANGED <<suspended, pc, heapVars>>

-----------------------------------------------------------------------------
(* malloc: __malloc_lock, calls of _sbrk, __malloc_unlock.                  *)

\* Mutant of MallocLock: newlib's default, which does nothing.
MallocLockNothing(t) ==
    /\ Goto(t, "idle", "malloc")
    /\ UNCHANGED <<coreVars, heapVars>>

MallocLock(t) ==
    /\ Goto(t, "idle", "malloc")
    /\ suspended' = TRUE
    /\ UNCHANGED <<running, heapVars>>

CallSbrk(t, n) ==
    /\ Goto(t, "malloc", "load_end")
    /\ size' = [size EXCEPT ![t] = n]
    /\ UNCHANGED <<coreVars, prev, heap_end, blocks>>

LoadEnd(t) ==
    /\ Goto(t, "load_end", "test")
    /\ prev' = [prev EXCEPT ![t] = heap_end]
    /\ UNCHANGED <<coreVars, size, heap_end, blocks>>

NewEnd(t) == (prev[t] + size[t]) % SPACE

\* Mutant of Fits: the sum is not tested for a wrap of the address space.
FitsNoWrap(t) == size[t] > 0 => NewEnd(t) <= LIMIT

Fits(t) == size[t] > 0 => NewEnd(t) <= LIMIT /\ NewEnd(t) >= prev[t]

(* ENOMEM: nothing changes.                                                 *)
TestLimit(t) ==
    /\ Goto(t, "test", IF Fits(t) THEN "grow" ELSE "malloc")
    /\ UNCHANGED <<coreVars, heapVars>>

Grow(t) ==
    /\ Goto(t, "grow", "malloc")
    /\ heap_end' = NewEnd(t)
    /\ blocks' = blocks \cup {[owner |-> t, from |-> prev[t], size |-> size[t]]}
    /\ UNCHANGED <<coreVars, size, prev>>

MallocUnlock(t) ==
    /\ Goto(t, "malloc", "idle")
    /\ suspended' = FALSE
    /\ size' = [size EXCEPT ![t] = 0] /\ prev' = [prev EXCEPT ![t] = END]
    /\ UNCHANGED <<running, heap_end, blocks>>

-----------------------------------------------------------------------------
Malloc(t) ==
    \/ MallocLock(t) \/ \E n \in Requests : CallSbrk(t, n)
    \/ LoadEnd(t) \/ TestLimit(t) \/ Grow(t) \/ MallocUnlock(t)

Next == Preempt \/ Block \/ \E t \in Tasks : Malloc(t)

Spec == Init /\ [][Next]_vars

-----------------------------------------------------------------------------
(* Correctness                                                              *)

(* No two blocks _sbrk has handed out overlap, and none reaches into the    *)
(* stack above the limit, for requests of any size from either task: "so    *)
(* the static heap_end needs no extra guard" (sys_freertos.c:46).           *)
BlocksAreDisjoint ==
    /\ \A b \in blocks : END <= b.from /\ b.from + b.size <= LIMIT
    /\ \A b, c \in blocks :
          b # c => b.from + b.size <= c.from \/ c.from + c.size <= b.from
=============================================================================
