------------------------------- MODULE Session -------------------------------
(***************************************************************************)
(* What the micro-ROS task owes the rest of the firmware, whichever calls  *)
(* fail: the life of the node from one session to the next.  A base that   *)
(* moves has an open session with all its entities; whatever was begun to  *)
(* be acquired is released; and the task never stays half way.  UrosTask   *)
(* implements it.                                                          *)
(***************************************************************************)
VARIABLES
    phase,    \* of the node
    held,     \* how many of its entities exist
    moving    \* is a command in force?

sessionVars == <<phase, held, moving>>

Init == phase = "closed" /\ held = "none" /\ moving = FALSE

(* An agent is there: entities are acquired, from none to all ...           *)
Begin ==
    /\ phase = "closed" /\ phase' = "opening"
    /\ UNCHANGED <<held, moving>>

Acquire ==
    /\ phase = "opening" /\ held # "all"
    /\ held' \in {"some", "all"}
    /\ UNCHANGED <<phase, moving>>

Open ==
    /\ phase = "opening" /\ held = "all"
    /\ phase' = "open"
    /\ UNCHANGED <<held, moving>>

(* ... or an attempt is given up.                                           *)
Abandon ==
    /\ phase = "opening" /\ phase' = "closing"
    /\ UNCHANGED <<held, moving>>

Command ==
    /\ phase = "open" /\ moving' \in BOOLEAN
    /\ UNCHANGED <<phase, held>>

(* The agent is lost: the base is stopped before anything is released.      *)
Lose ==
    /\ phase = "open" /\ phase' = "closing"
    /\ moving' = FALSE
    /\ UNCHANGED held

Release ==
    /\ phase = "closing" /\ held # "none"
    /\ held' \in {"some", "none"}
    /\ UNCHANGED <<phase, moving>>

Close ==
    /\ phase = "closing" /\ phase' = "closed"
    /\ held' = "none"
    /\ UNCHANGED moving

Next ==
    \/ Begin \/ Acquire \/ Open \/ Abandon \/ Command \/ Lose
    \/ Release \/ Close

Spec == Init /\ [][Next]_sessionVars

(* Opening and closing come to an end.                                      *)
Settles ==
    phase \in {"opening", "closing"} ~> phase \in {"open", "closed"}
=============================================================================
