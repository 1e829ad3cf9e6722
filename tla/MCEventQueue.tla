----------------------------- MODULE MCEventQueue -----------------------------
(* Sets for the runs of EventQueue: delays as a .cfg cannot write them.      *)
EXTENDS EventQueue

\* Any delay, with the push to the head (-1) and "now" (0).
MCAnyDelay == {-1, 0, 2}

\* The same for the late runs, with a delay longer than a poll can be late.
MCLateDelay == {-1, 0, 3}

\* Bound of the late run: how far the present may run away from a waiting unit.
MCMaxShift == 4
MCBoundedShift == \A u \in Unit : left[u] >= -MCMaxShift
===============================================================================
