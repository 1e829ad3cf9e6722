-------------------------- MODULE EventQueueRefines ---------------------------
(* The delta list of EventQueue implements the due times of EventQueueAbs.   *)
EXTENDS EventQueue

CONSTANT MaxDelay   \* bound: longest delay a unit is asked to wait

ASSUME MaxDelayAssumption ==
    /\ MaxDelay \in Nat \ {0}
    /\ ExecDelays \cup ActionDelays \subseteq -1..MaxDelay

Routine == pc = "action" \/ (pc = "search" /\ act.ret = "action")

\* What is left until each unit on the list is due, as sim_activate_time says,
\* and the unit whose action routine runs.
Togos == [u \in Unit |-> IF u \in Queued THEN QueueTime(u) ELSE 0]
Running == IF Routine THEN cur ELSE NoUnit

Abs == INSTANCE EventQueueAbs WITH
    waiting <- Queued, togo <- Togos, running <- Running

\* _sim_activate, sim_cancel and sim_process_event, which patch relative times
\* on a list, give every unit the due time it was asked to have and dispatch it
\* then, one at a time.
ImplementsDueTimes == Abs!Spec
=============================================================================
