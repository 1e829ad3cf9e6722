---------------------------- MODULE EventQueueAbs -----------------------------
(***************************************************************************)
(* What the event queue promises to the rest of the framework: every unit  *)
(* that waits has a due time of its own, time passes no further than the   *)
(* earliest of them, and a unit is dispatched when its time has come and   *)
(* at no other moment.  There is no list, no relative time and no counter. *)
(***************************************************************************)
EXTENDS Integers

CONSTANTS
    Unit,
    NoUnit,     \* no action routine is running
    MaxDelay    \* bound: longest delay a unit is asked to wait

VARIABLES
    waiting,
    togo,       \* togo[u]: instructions until u is due
    running     \* the unit whose action routine runs

avars == <<waiting, togo, running>>

Init == waiting = {} /\ togo = [u \in Unit |-> 0] /\ running = NoUnit

\* sim_activate of a unit that does not wait
Schedule(u, d) ==
    /\ u \notin waiting
    /\ waiting' = waiting \cup {u}
    /\ togo' = [togo EXCEPT ![u] = d]
    /\ UNCHANGED running

Leave(u) ==
    /\ u \in waiting
    /\ waiting' = waiting \ {u}
    /\ togo' = [togo EXCEPT ![u] = 0]

\* sim_cancel, and the first half of sim_activate_abs
Withdraw(u) == Leave(u) /\ UNCHANGED running

\* The action routine of u is called: only when u is due, and by nothing else
\* while another routine runs.
Fire(u) == running = NoUnit /\ togo[u] = 0 /\ Leave(u) /\ running' = u

Finish == running # NoUnit /\ running' = NoUnit /\ UNCHANGED <<waiting, togo>>

Pass(n) ==
    /\ \A u \in waiting : togo[u] >= n
    /\ togo' = [u \in Unit |-> IF u \in waiting THEN togo[u] - n ELSE togo[u]]
    /\ UNCHANGED <<waiting, running>>

Next ==
    \/ \E u \in Unit, d \in 0..MaxDelay : Schedule(u, d)
    \/ \E u \in Unit : Withdraw(u) \/ Fire(u)
    \/ Finish
    \/ \E n \in 1..MaxDelay : Pass(n)

Spec == Init /\ [][Next]_avars
=============================================================================
