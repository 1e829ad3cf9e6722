------------------------------- MODULE Coschedule -------------------------------
(***************************************************************************)
(* Units that run with a tick of a clock (sim_timer.c: the coschedule      *)
(* queue of one rtc). Like on the event queue a unit's time is relative to *)
(* the unit in front; the head's is kept in cosched_interval as well, and  *)
(* copied to the head whenever it matters.                                 *)
(*                                                                         *)
(* A tick runs the clock's own unit first, whose requests therefore count  *)
(* from before the tick, and moves the units due to the event queue, in    *)
(* order. When a run ends the timer services stop: all units move to the   *)
(* event queue, with the ticks they still have to wait in usecs_remaining. *)
(*                                                                         *)
(* due, asked and hurried are history.                                     *)
(***************************************************************************)
EXTENDS Integers, SequencesExt

CONSTANTS
    Unit,
    Steady,     \* units that nobody cancels once they wait
    MaxTicks    \* bound on the ticks a caller asks for

ASSUME UnitAssumption == Steady \subseteq Unit
ASSUME BoundAssumption == MaxTicks \in Nat

VARIABLES
    rtc,        \* clock_cosched_queue, cosched_interval and the times of units
    ready,      \* units on the event queue, until the clock's next tick at most
    usecs_remaining,    \* what a unit on the event queue waits after it, in ticks
    sim_is_running,     \* whether a run is in progress
    due,        \* history: ticks left of those a unit that waits asked for
    asked,      \* history: the pairs of units that wait, first who asked first
    hurried     \* history: units behind a first one cancelled before its tick

vars == <<rtc, ready, usecs_remaining, sim_is_running, due, asked, hurried>>

Waiting == ToSet(rtc.clock_cosched_queue)
-----------------------------------------------------------------------------
(* The queue *)

Position(s, u) == CHOOSE i \in 1..Len(s) : s[i] = u

\* The list s when u, if it is there, has left it.
Unlinked(s, u) == IF u \in ToSet(s) THEN RemoveAt(s, Position(s, u)) ELSE s

\* Mutant of Synced: the time of the head is left as it was.
SyncedNot(r, interval) == r.time

\* The head's time is brought up to date.
Synced(r, interval) ==
    IF r.clock_cosched_queue = <<>> THEN r.time
    ELSE [r.time EXCEPT ![Head(r.clock_cosched_queue)] = interval]

\* The tick, from now, of each unit of list s.
Ticks(s, time) ==
    LET at[i \in 0..Len(s)] == IF i = 0 THEN 0 ELSE at[i - 1] + time[s[i]]
    IN  at

\* Mutant of Place: in front of the units for the same tick.
PlaceBeforeEqual(s, at, ticks) ==
    Min({i \in 1..Len(s) : ticks <= at[i]} \cup {Len(s) + 1})

\* The place of a unit in list s: behind the units for the same tick.
Place(s, at, ticks) ==
    Min({i \in 1..Len(s) : ticks < at[i]} \cup {Len(s) + 1})

\* The queue after sim_clock_coschedule_tmr of a unit that is not on it.
Inserted(r, u, ticks) ==
    LET s == r.clock_cosched_queue
        synced == Synced(r, r.cosched_interval)
        at == Ticks(s, synced)
        i == Place(s, at, ticks)
        new == InsertAt(s, i, u)
        rest == [synced EXCEPT ![u] = ticks - at[i - 1]]
        time == IF i > Len(s) THEN rest
                ELSE [rest EXCEPT ![s[i]] = @ - rest[u]]
    IN  [clock_cosched_queue |-> new, time |-> time,
         cosched_interval |-> time[Head(new)]]

\* The queue after _sim_coschedule_cancel: cosched_interval is set before the
\* unit behind is given the time.
Cancelled(r, u) ==
    LET s == r.clock_cosched_queue
        i == Position(s, u)
        rest == [r.time EXCEPT ![u] = 0]
    IN  IF u \notin ToSet(s) THEN r
        ELSE [clock_cosched_queue |-> RemoveAt(s, i),
              time |-> IF i = Len(s) THEN rest
                       ELSE [rest EXCEPT ![s[i + 1]] = @ + r.time[u]],
              cosched_interval |->
                 IF i = 1 /\ Len(s) > 1 THEN r.time[s[2]] ELSE r.cosched_interval]
-----------------------------------------------------------------------------
(* History *)

\* The pairs of units that wait once those of a set no longer do.
Asked(units) == {p \in asked : p[1] \notin units /\ p[2] \notin units}

Ask(u, ticks) ==
    /\ due' = [due EXCEPT ![u] = ticks]
    /\ asked' = Asked({u}) \cup (Waiting \ {u}) \X {u}

\* A cancelled first unit u leaves those behind it on other ticks.
Disturb(u) ==
    hurried' = (hurried \cup
                IF u \in Waiting /\ u = Head(rtc.clock_cosched_queue)
                   /\ rtc.cosched_interval > 0
                THEN Waiting ELSE {}) \ {u}

Forget(units) ==
    /\ due' = [u \in Unit |-> IF u \in units THEN 0 ELSE due[u] - 1]
    /\ asked' = Asked(units)
    /\ hurried' = hurried \ units
-----------------------------------------------------------------------------
IsActive(u) == u \in Waiting \/ u \in ToSet(ready)

Cancellable(u) == u \in Steady => u \notin Waiting

\* Mutant of Coschedule: a unit that is active is queued again.
CoscheduleAgain(u, ticks) ==
    /\ u \notin ToSet(ready) /\ Cancellable(u)
    /\ rtc' = Inserted(rtc, u, ticks)
    /\ UNCHANGED <<ready, usecs_remaining, sim_is_running, hurried>>
    /\ Ask(u, ticks)

\* sim_clock_coschedule_tmr; of a unit that is active it does nothing.
Coschedule(u, ticks) ==
    /\ ~IsActive(u)
    /\ rtc' = Inserted(rtc, u, ticks)
    /\ UNCHANGED <<ready, usecs_remaining, sim_is_running, hurried>>
    /\ Ask(u, ticks)

\* sim_clock_coschedule_tmr_abs: sim_cancel comes first.
CoscheduleAbs(u, ticks) ==
    /\ Cancellable(u)
    /\ rtc' = Inserted(Cancelled(rtc, u), u, ticks)
    /\ ready' = Unlinked(ready, u)
    /\ usecs_remaining' = [usecs_remaining EXCEPT ![u] = 0]
    /\ Disturb(u) /\ Ask(u, ticks)
    /\ UNCHANGED sim_is_running

\* sim_cancel
Cancel(u) ==
    /\ IsActive(u) /\ Cancellable(u)
    /\ rtc' = Cancelled(rtc, u)
    /\ ready' = Unlinked(ready, u)
    /\ usecs_remaining' = [usecs_remaining EXCEPT ![u] = 0]
    /\ Disturb(u)
    /\ due' = [due EXCEPT ![u] = 0] /\ asked' = Asked({u})
    /\ UNCHANGED sim_is_running

\* Mutant of Gathered: only the first unit is gathered.
GatheredFirst(s, at) == 1

\* Mutant of Gathered: the loop goes on while the next unit is due in a tick.
GatheredOneMore(s, at) == Min({i \in 1..(Len(s) - 1) : at[i + 1] > 1} \cup {Len(s)})

\* How many units of list s the loop gathers, at least one.
Gathered(s, at) == Min({i \in 1..(Len(s) - 1) : at[i + 1] > 0} \cup {Len(s)})

\* sim_timer_tick_svc: the units due move to the event queue.
TickDue ==
    LET s == rtc.clock_cosched_queue
        interval == rtc.cosched_interval - 1
        at == Ticks(s, Synced(rtc, interval))
        n == Gathered(s, at)
        left == SubSeq(s, n + 1, Len(s))
        units == ToSet(SubSeq(s, 1, n))
    IN  /\ sim_is_running /\ s # <<>> /\ interval <= 0
        /\ rtc' = [clock_cosched_queue |-> left,
                   cosched_interval |-> IF left = <<>> THEN 0 ELSE at[n + 1],
                   time |-> [u \in Unit |->
                               IF u \in units THEN 0
                               ELSE IF left # <<>> /\ u = Head(left) THEN at[n + 1]
                               ELSE rtc.time[u]]]
        /\ ready' = ready \o SubSeq(s, 1, n)
        /\ Forget(units \cup (Unit \ Waiting))
        /\ UNCHANGED <<usecs_remaining, sim_is_running>>

\* Mutant of TickOnly: only ticks that move units are counted.
TickOnlyUncounted ==
    /\ rtc.clock_cosched_queue # <<>> => rtc.cosched_interval > 1
    /\ UNCHANGED vars

\* sim_timer_tick_svc when no unit is due.
TickOnly ==
    LET interval == rtc.cosched_interval - 1 IN
    /\ sim_is_running
    /\ rtc.clock_cosched_queue # <<>> => interval > 0
    /\ rtc' = [rtc EXCEPT !.time = Synced(rtc, interval),
                          !.cosched_interval =
                             IF rtc.clock_cosched_queue = <<>> THEN 0 ELSE interval]
    /\ Forget(Unit \ Waiting)
    /\ UNCHANGED <<ready, usecs_remaining, sim_is_running>>

\* The service of the clock's unit never ends the run ("Ticks should never return
\* a non-success status").
Tick == TickDue \/ TickOnly

\* The event queue's turn; the unit's service may ask again, and so does
\* sim_timer_activate_after for one with usecs_remaining.
Run ==
    /\ sim_is_running /\ ready # <<>>
    /\ ready' = Tail(ready)
    /\ usecs_remaining' = [usecs_remaining EXCEPT ![Head(ready)] = 0]
    /\ UNCHANGED <<rtc, sim_is_running, due, asked, hurried>>

\* sim_start_timer_services
StartServices ==
    /\ ~sim_is_running
    /\ sim_is_running' = TRUE
    /\ UNCHANGED <<rtc, ready, usecs_remaining, due, asked, hurried>>

\* sim_stop_timer_services: the sum begins with cosched_interval, to which the
\* time of the first unit is added like the others'.
StopServices ==
    LET s == rtc.clock_cosched_queue
        at == Ticks(s, rtc.time)
        accum(u) == rtc.cosched_interval + at[Position(s, u)]
    IN  /\ sim_is_running
        /\ sim_is_running' = FALSE
        /\ rtc' = [clock_cosched_queue |-> <<>>, cosched_interval |-> 0,
                   time |-> [u \in Unit |-> 0]]
        /\ ready' = ready \o s
        /\ usecs_remaining' =
              [u \in Unit |->
                 usecs_remaining[u] +
                 IF u \in Waiting THEN Max({accum(u) - 1, 0}) ELSE 0]
        /\ due' = [u \in Unit |-> 0] /\ asked' = {} /\ hurried' = {}
-----------------------------------------------------------------------------
Init ==
    /\ rtc = [clock_cosched_queue |-> <<>>, cosched_interval |-> 0,
              time |-> [u \in Unit |-> 0]]
    /\ ready = <<>> /\ usecs_remaining = [u \in Unit |-> 0]
    /\ sim_is_running = FALSE
    /\ due = [u \in Unit |-> 0] /\ asked = {} /\ hurried = {}

Next ==
    \/ \E u \in Unit, n \in 0..MaxTicks : Coschedule(u, n) \/ CoscheduleAbs(u, n)
    \/ \E u \in Unit : Cancel(u)
    \/ Tick \/ Run
    \/ StartServices \/ StopServices

Spec == Init /\ [][Next]_vars

\* While the simulator runs the clock's unit keeps itself on the event queue, and
\* the event queue gets its turn. The operator need not start it again.
FairSpec == Spec /\ WF_vars(Tick) /\ WF_vars(Run)
-----------------------------------------------------------------------------
(* Properties *)

TypeOK ==
    /\ rtc \in [clock_cosched_queue : Seq(Unit), time : [Unit -> Int],
               cosched_interval : 0..MaxTicks]
    /\ IsInjective(rtc.clock_cosched_queue)
    /\ ready \in Seq(Unit) /\ IsInjective(ready) /\ ToSet(ready) \cap Waiting = {}
    /\ usecs_remaining \in [Unit -> Nat] /\ sim_is_running \in BOOLEAN
    /\ due \in [Unit -> Int] /\ asked \subseteq Waiting \X Waiting
    /\ hurried \subseteq Waiting

\* After a tick no unit waits on the clock's queue past the tick it asked for,
\* however units were added and cancelled around it since it asked.
NeverLate == [][Tick => \A u \in Waiting' : due'[u] > 0]_vars

\* When the services stop no unit is given more to wait than it had left, by more
\* than the first unit of the queue had left, which the sum counts twice; that sum
\* is taken over times that were changed by every request and cancel since.
LateByFirst ==
    [][StopServices =>
          \A u \in Waiting :
             usecs_remaining'[u] <=
                Max({due[u] - 1 + due[Head(rtc.clock_cosched_queue)], 0})]_vars

\* A unit that asked for n ticks is not run before n of them, or one for 0: when
\* it is moved to the event queue, by a tick or because the services stop, the
\* coming tick and what usecs_remaining adds make up what it had to wait. Only
\* the cancelling of a first unit in front of it can take some of that away.
NeverEarly ==
    [][\A u \in Waiting \ hurried :
          u \in ToSet(ready') => due[u] <= 1 + usecs_remaining'[u]]_vars

\* Units go to the event queue by the tick they asked for, and those for the
\* same tick in the order they asked.
InOrder ==
    [][\A i, j \in DOMAIN ready' :
          /\ {ready'[i], ready'[j]} \subseteq Waiting \ hurried
          /\ i < j
          => \/ due[ready'[i]] < due[ready'[j]]
             \/ /\ due[ready'[i]] = due[ready'[j]]
                /\ <<ready'[i], ready'[j]>> \in asked]_vars

\* A unit that nobody cancels gets its turn, whatever is coscheduled in front of
\* it or cancelled, unless the run ends.
CoscheduledRuns ==
    \A u \in Steady : u \in Waiting ~> (u \in ToSet(ready) \/ ~sim_is_running)
=================================================================================
