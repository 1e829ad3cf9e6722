------------------------------ MODULE EventQueue ------------------------------
(***************************************************************************)
(* The clock queue of the simulator framework (scp.c): UNITs waiting for   *)
(* their action routine to be called, kept as a delta list, and the main   *)
(* loop that counts instructions down in sim_interval and dispatches the   *)
(* units that are due.                                                     *)
(*                                                                         *)
(* The list that starts at sim_clock_queue is the sequence  queue.  A unit *)
(* is on the list iff its "next" is not NULL, so  u \in Queued  stands for *)
(* that test.  time[u] is uptr->time, the delay of u after the unit before *)
(* it.  sim_time and sim_rtime always change by the same amounts; the      *)
(* model keeps sim_rtime, whose width matters, and the amounts.            *)
(*                                                                         *)
(* left and drift are history variables: they record what was asked for,   *)
(* and no step of the program reads them.                                  *)
(***************************************************************************)
EXTENDS Integers, Sequences, SequencesExt

CONSTANTS
    Unit,           \* the units
    NoUnit,         \* "no unit is being dispatched"
    Steady,         \* units no one cancels or reschedules, only activates
    ExecDelays,     \* delays an instruction may pass to sim_activate
    ActionDelays,   \* delays an action routine may pass to sim_activate
    Deadlines,      \* absolute times passed to sim_activate_notbefore
    ActionResults,  \* what an action routine may return, "ERR" for any error
    MaxStep,        \* most that one instruction counts, sim_idle included
    MaxCalls,       \* bound: queue calls per instruction or action routine
    RMod,           \* 2 to the width of sim_rtime
    NOQUEUE_WAIT,   \* the interval counted while nothing is queued
    DriftCap,       \* bound: where the history variable drift saturates
    Interrupts      \* whether the operator ever types ^C

ASSUME UnitAssumption == NoUnit \notin Unit /\ Steady \subseteq Unit
ASSUME DelayAssumption ==
    /\ ExecDelays \cup ActionDelays \subseteq Nat \cup {-1}
    /\ Deadlines \subseteq Nat
ASSUME BoundAssumption ==
    /\ MaxStep \in Nat \ {0} /\ MaxCalls \in Nat \ {0}
    /\ RMod \in Nat \ {0} /\ NOQUEUE_WAIT \in Nat \ {0} /\ DriftCap \in Nat
ASSUME ResultAssumption == ActionResults \subseteq {"OK", "ERR"}

VARIABLES
    queue,          \* the list from sim_clock_queue to QUEUE_LIST_END
    time,           \* uptr->time
    sim_interval,
    noqueue_time,
    sim_rtime,
    stop_cpu,
    pc,             \* where the main thread is
    cur,            \* sim_process_event: uptr
    catchup,        \* sim_process_event: sim_interval_catchup
    reason,         \* sim_process_event: reason
    act,            \* _sim_activate: its arguments and loop variables
    calls,          \* queue calls this instruction or routine still makes
    left,           \* history: due time of each queued unit minus sim_time
    drift           \* history: sim_time so far minus instructions executed

clock == <<queue, time, sim_interval, noqueue_time>>
local == <<cur, catchup, reason>>
vars == <<clock, sim_rtime, stop_cpu, pc, local, act, calls, left, drift>>

Queued == {queue[i] : i \in 1..Len(queue)}
Position(u) == CHOOSE i \in 1..Len(queue) : queue[i] = u
-----------------------------------------------------------------------------
(* UPDATE_SIM_TIME *)

HeadTime == IF queue = <<>> THEN noqueue_time ELSE time[Head(queue)]

\* What UPDATE_SIM_TIME adds to sim_time and sim_rtime.
Elapsed == HeadTime - sim_interval

\* Mutant of TimeNow: the head keeps the time it had.
TimeNowNotStored == time

\* The times of the units, and noqueue_time, after UPDATE_SIM_TIME.
TimeNow ==
    IF queue = <<>> THEN time ELSE [time EXCEPT ![Head(queue)] = sim_interval]
NoqueueNow == IF queue = <<>> THEN sim_interval ELSE noqueue_time

LeftAfter(d) == [u \in Unit |-> IF u \in Queued THEN left[u] - d ELSE 0]

\* Mutant of AdvanceClock: sim_rtime does not wrap.
AdvanceClockUnbounded(d) == sim_rtime' = sim_rtime + d

\* sim_time += d; sim_rtime += d
AdvanceClock(d) == sim_rtime' = (sim_rtime + d) % RMod

Clamp(n) == IF n > DriftCap THEN DriftCap
            ELSE IF n < -DriftCap THEN -DriftCap ELSE n

\* Follows the present (sim_time plus what is not yet added to it) over a step
\* that adds d to sim_time and executes no instruction.
Drift(d) == drift' = Clamp(drift + d + Elapsed' - Elapsed)

UpdateSimTime ==
    /\ time' = TimeNow
    /\ noqueue_time' = NoqueueNow
    /\ left' = LeftAfter(Elapsed)
    /\ AdvanceClock(Elapsed)
-----------------------------------------------------------------------------
(* The queue calls, made by instructions and by action routines *)

NoCall == [unit |-> NoUnit, delay |-> 0, pos |-> 1, accum |-> 0, ret |-> "exec"]

MayCall == pc \in {"exec", "action"} /\ calls > 0

Delays == IF pc = "exec" THEN ExecDelays ELSE ActionDelays

\* Mutant of TimesWithout: the unit behind u does not take over u's time.
TimesWithoutHandover(u) == [TimeNow EXCEPT ![u] = 0]

\* The times once u is off the list: the unit behind u takes over u's time.
TimesWithout(u) ==
    [w \in Unit |->
        IF w = u THEN 0
        ELSE IF Position(u) < Len(queue) /\ w = queue[Position(u) + 1]
             THEN TimeNow[w] + TimeNow[u]
             ELSE TimeNow[w]]

\* sim_cancel of a unit that is on the list.
Dequeue(u) ==
    /\ queue' = RemoveAt(queue, Position(u))
    /\ time' = TimesWithout(u)
    /\ IF queue' = <<>>
       THEN sim_interval' = NOQUEUE_WAIT /\ noqueue_time' = NOQUEUE_WAIT
       ELSE sim_interval' = time'[Head(queue')] /\ UNCHANGED noqueue_time
    /\ left' = [LeftAfter(Elapsed) EXCEPT ![u] = 0]
    /\ AdvanceClock(Elapsed)

\* The part of a call before _sim_activate searches the list: the unit leaves
\* the list if it is there, and sim_time is brought up to date either way.
Prepare(u) ==
    \/ u \in Queued /\ Dequeue(u)
    \/ u \notin Queued /\ UpdateSimTime /\ UNCHANGED <<queue, sim_interval>>

\* _sim_activate starts its search at the head of the list.
Search(u, delay) ==
    /\ act' = [unit |-> u, delay |-> delay, pos |-> 1, accum |-> 0, ret |-> pc]
    /\ pc' = "search"

\* Mutant of SimActivate: a unit that is already active is rescheduled.
SimActivateReschedules(u, delay) ==
    /\ MayCall /\ calls' = calls - 1
    /\ Prepare(u) /\ Search(u, delay)
    /\ UNCHANGED <<stop_cpu, local, drift>>

SimActivate(u, delay) ==
    /\ MayCall /\ calls' = calls - 1
    /\ \/ /\ u \in Queued                       \* already active
          /\ UNCHANGED <<clock, sim_rtime, pc, act, left>>
       \/ u \notin Queued /\ Prepare(u) /\ Search(u, delay)
    /\ UNCHANGED <<stop_cpu, local, drift>>

SimActivateAbs(u, delay) ==
    /\ MayCall /\ calls' = calls - 1
    /\ Prepare(u) /\ Search(u, delay)
    /\ UNCHANGED <<stop_cpu, local, drift>>

\* The deadline is compared with sim_rtime in unsigned arithmetic.
SimActivateNotBefore(u, deadline) ==
    /\ MayCall /\ calls' = calls - 1
    /\ Prepare(u)
    /\ LET ahead == (deadline - sim_rtime') % RMod
       IN  Search(u, IF 2 * ahead >= RMod THEN 0 ELSE ahead)
    /\ UNCHANGED <<stop_cpu, local, drift>>

SimCancel(u) ==
    /\ MayCall /\ calls' = calls - 1
    /\ \/ u \in Queued /\ Dequeue(u)
       \/ u \notin Queued /\ UNCHANGED <<clock, sim_rtime, left>>
    /\ UNCHANGED <<stop_cpu, pc, local, act, drift>>

\* The delay -1 pushes the unit in front of everything else.
ActivateAtHead ==
    /\ pc = "search" /\ act.delay = -1
    /\ queue' = <<act.unit>> \o queue
    /\ time' = [time EXCEPT ![act.unit] = 0]
    /\ sim_interval' = 0
    /\ left' = [left EXCEPT ![act.unit] = 0]
    /\ pc' = act.ret /\ act' = NoCall
    /\ UNCHANGED <<noqueue_time, sim_rtime, stop_cpu, local, calls>>
    /\ Drift(0)

\* Mutant of PlaceFound: in front of the units due at the same time.
PlaceFoundInFront ==
    act.pos <= Len(queue) => act.delay <= act.accum + time[queue[act.pos]]

\* The search stops at the first unit that is due later, or at the end.
PlaceFound ==
    act.pos <= Len(queue) => act.delay < act.accum + time[queue[act.pos]]

SearchOn ==
    /\ pc = "search" /\ act.delay # -1 /\ ~PlaceFound
    /\ act' = [act EXCEPT !.pos = @ + 1, !.accum = @ + time[queue[act.pos]]]
    /\ UNCHANGED <<clock, sim_rtime, stop_cpu, pc, local, calls, left, drift>>

Insert ==
    /\ pc = "search" /\ act.delay # -1 /\ PlaceFound
    /\ LET own == act.delay - act.accum
       IN  time' = [w \in Unit |->
                      IF w = act.unit THEN own
                      ELSE IF act.pos <= Len(queue) /\ w = queue[act.pos]
                           THEN time[w] - own
                           ELSE time[w]]
    /\ queue' = InsertAt(queue, act.pos, act.unit)
    /\ sim_interval' = time'[Head(queue')]
    /\ left' = [left EXCEPT ![act.unit] = act.delay]
    /\ pc' = act.ret /\ act' = NoCall
    /\ UNCHANGED <<noqueue_time, sim_rtime, stop_cpu, local, calls>>
    /\ Drift(0)
-----------------------------------------------------------------------------
(* sim_process_event *)

\* Mutant of NoticeStop: the request is cleared and the dispatch goes on.
NoticeStopIgnored ==
    /\ pc = "poll" /\ stop_cpu
    /\ stop_cpu' = FALSE
    /\ UNCHANGED <<clock, sim_rtime, pc, local, act, calls, left, drift>>

\* A stop request is noticed before anything is dispatched.
NoticeStop ==
    /\ pc = "poll" /\ stop_cpu
    /\ stop_cpu' = FALSE
    /\ pc' = "return"
    /\ UNCHANGED <<clock, sim_rtime, local, act, calls, left, drift>>

QueueEmpty ==
    /\ pc = "poll" /\ ~stop_cpu /\ queue = <<>>
    /\ AdvanceClock(Elapsed)
    /\ sim_interval' = NOQUEUE_WAIT /\ noqueue_time' = NOQUEUE_WAIT
    /\ pc' = "exec" /\ calls' = MaxCalls
    /\ UNCHANGED <<queue, time, stop_cpu, local, act, left>>
    /\ Drift(Elapsed)

\* Time is brought up to date and, when the poll comes late, backed up to when
\* the first unit was due.
StartDispatch ==
    /\ pc = "poll" /\ ~stop_cpu /\ queue # <<>>
    /\ AdvanceClock(HeadTime) /\ left' = LeftAfter(HeadTime)
    /\ time' = [time EXCEPT ![Head(queue)] = 0]
    /\ catchup' = sim_interval
    /\ sim_interval' = 0
    /\ pc' = "pop"
    /\ UNCHANGED <<queue, noqueue_time, stop_cpu, cur, reason, act, calls>>
    /\ Drift(HeadTime)

PopHead ==
    /\ pc = "pop"
    /\ cur' = Head(queue) /\ queue' = Tail(queue)
    /\ time' = [time EXCEPT ![Head(queue)] = 0]
    /\ left' = [left EXCEPT ![Head(queue)] = 0]
    /\ IF Tail(queue) = <<>>
       THEN sim_interval' = NOQUEUE_WAIT /\ noqueue_time' = NOQUEUE_WAIT
       ELSE /\ sim_interval' = time[queue[2]]
                               + IF catchup < 0 THEN 0 ELSE sim_interval + catchup
            /\ UNCHANGED noqueue_time
    /\ pc' = "action" /\ calls' = MaxCalls
    /\ UNCHANGED <<sim_rtime, stop_cpu, catchup, reason, act>>
    /\ Drift(0)

ActionReturns(r) ==
    /\ pc = "action"
    /\ pc' = "after" /\ reason' = r
    /\ UNCHANGED <<clock, sim_rtime, stop_cpu, cur, catchup, act, calls,
                   left, drift>>

\* There is more to catch up than the code ignores.
Behind == catchup < -1

\* The condition of the do-while loop, read when catchup has been updated.
Goes == /\ reason = "OK" /\ sim_interval + catchup' <= 0
        /\ queue # <<>> /\ ~stop_cpu

CatchUp ==
    /\ pc = "after" /\ Behind /\ queue # <<>>
    /\ catchup' = catchup + HeadTime
    /\ AdvanceClock(HeadTime) /\ left' = LeftAfter(HeadTime)
    /\ pc' = IF Goes THEN "pop" ELSE "exit"
    /\ UNCHANGED <<clock, stop_cpu, cur, reason, act, calls>>
    /\ Drift(HeadTime)

CaughtUp ==
    /\ pc = "after" /\ ~Behind
    /\ catchup' = 0
    /\ pc' = IF Goes THEN "pop" ELSE "exit"
    /\ UNCHANGED <<clock, sim_rtime, stop_cpu, cur, reason, act, calls,
                   left, drift>>

\* sim_clock_queue->time where sim_clock_queue is QUEUE_LIST_END: the address
\* is not one the program can read.
ReadPastEnd ==
    /\ pc = "after" /\ Behind /\ queue = <<>>
    /\ pc' = "crash"
    /\ UNCHANGED <<clock, sim_rtime, stop_cpu, local, act, calls, left, drift>>

EndDispatch ==
    /\ pc = "exit"
    /\ IF queue = <<>>
       THEN sim_interval' = NOQUEUE_WAIT /\ noqueue_time' = NOQUEUE_WAIT
       ELSE UNCHANGED <<sim_interval, noqueue_time>>
    /\ \/ /\ reason = "OK" /\ ~stop_cpu
          /\ pc' = "exec" /\ calls' = MaxCalls /\ UNCHANGED stop_cpu
       \/ /\ reason = "OK" /\ stop_cpu
          /\ pc' = "return" /\ stop_cpu' = FALSE /\ UNCHANGED calls
       \/ /\ reason # "OK"
          /\ pc' = "return" /\ UNCHANGED <<stop_cpu, calls>>
    /\ cur' = NoUnit /\ catchup' = 0 /\ reason' = "OK"
    /\ UNCHANGED <<queue, time, sim_rtime, act, left>>
    /\ Drift(0)
-----------------------------------------------------------------------------
(* The instruction loop, the operator and run_cmd *)

\* An instruction counts n, 1 by the loop and the rest by sim_idle or by a slow
\* instruction; the queue is polled when the interval runs out. Of a ^C between
\* the read and the store of sim_interval only stop_cpu remains.
CountDown(n) ==
    /\ pc = "exec"
    /\ stop_cpu' = stop_cpu \/ (Interrupts /\ stop_cpu' = TRUE)
    /\ sim_interval' = sim_interval - n
    /\ pc' = IF sim_interval' <= 0 THEN "poll" ELSE "exec"
    /\ calls' = MaxCalls
    /\ UNCHANGED <<queue, time, noqueue_time, sim_rtime, local, act, left, drift>>

\* The instruction, a breakpoint or a runaway PC ends the run, and no poll has
\* to be due: nothing is counted for it.
Halt ==
    /\ pc = "exec"
    /\ pc' = "return"
    /\ UNCHANGED <<clock, sim_rtime, stop_cpu, local, act, calls, left, drift>>

\* int_handler, between any two steps of the main thread.
Interrupt ==
    /\ Interrupts /\ ~stop_cpu /\ pc \notin {"scp", "crash"}
    /\ stop_cpu' = TRUE
    /\ sim_interval' = 0
    /\ UNCHANGED <<queue, time, noqueue_time, sim_rtime, pc, local, act, calls,
                   left>>
    /\ Drift(0)

\* run_cmd after sim_instr returned: sim_stop_timer_services forgets what is
\* still to be caught up, then sim_time is brought up to date.
EndRun ==
    /\ pc = "return"
    /\ sim_interval' = IF sim_interval < 0 THEN 0 ELSE sim_interval
    /\ time' = IF queue = <<>> THEN time
                               ELSE [time EXCEPT ![Head(queue)] = sim_interval']
    /\ noqueue_time' = IF queue = <<>> THEN sim_interval' ELSE noqueue_time
    /\ LET gone == HeadTime - sim_interval'
       IN  AdvanceClock(gone) /\ left' = LeftAfter(gone)
    /\ pc' = "scp"
    /\ UNCHANGED <<queue, stop_cpu, local, act, calls>>
    /\ Drift(HeadTime - sim_interval')

\* The operator continues.
Continue ==
    /\ pc = "scp"
    /\ stop_cpu' = FALSE
    /\ pc' = IF sim_interval <= 0 THEN "poll" ELSE "exec"
    /\ calls' = MaxCalls
    /\ UNCHANGED <<clock, sim_rtime, local, act, left, drift>>
-----------------------------------------------------------------------------
Init ==
    /\ queue = <<>> /\ time = [u \in Unit |-> 0]
    /\ sim_interval = 0 /\ noqueue_time = 0 /\ sim_rtime = 0
    /\ stop_cpu = FALSE /\ pc = "scp"
    /\ cur = NoUnit /\ catchup = 0 /\ reason = "OK"
    /\ act = NoCall /\ calls = MaxCalls
    /\ left = [u \in Unit |-> 0] /\ drift = 0

Call ==
    \/ \E u \in Unit, d \in Delays : SimActivate(u, d)
    \/ \E u \in Unit \ Steady :
          \/ SimCancel(u)
          \/ \E d \in Delays : SimActivateAbs(u, d)
          \/ \E r \in Deadlines : SimActivateNotBefore(u, r)

SearchStep == ActivateAtHead \/ SearchOn \/ Insert

ProcessStep ==
    \/ NoticeStop \/ QueueEmpty \/ StartDispatch \/ PopHead
    \/ \E r \in ActionResults : ActionReturns(r)
    \/ CatchUp \/ CaughtUp \/ ReadPastEnd \/ EndDispatch

RunStep == \E n \in 1..MaxStep : CountDown(n)

Next == Call \/ SearchStep \/ ProcessStep \/ RunStep \/ Halt \/ Interrupt
        \/ EndRun \/ Continue

\* _sim_activate_queue_time less the 1 it adds: instructions until a unit on the
\* list is due. While the list is searched sim_interval is dead, and the head's
\* time stands for it.
QueueTime(u) ==
    LET first == IF pc = "search" THEN HeadTime
                 ELSE IF sim_interval > 0 THEN sim_interval ELSE 0
        accum[i \in 1..Len(queue)] ==
            IF i = 1 THEN first ELSE accum[i - 1] + time[queue[i]]
    IN  accum[Position(u)]

Spec == Init /\ [][Next]_vars

\* The main thread keeps running. Nothing obliges it to make queue calls or to
\* halt, nor the operator to type ^C or to continue.
MainStep == SearchStep \/ ProcessStep \/ RunStep \/ EndRun

FairSpec == Spec /\ WF_vars(MainStep)
-----------------------------------------------------------------------------
(* Properties *)

TypeOK ==
    /\ queue \in Seq(Unit)
    /\ time \in [Unit -> Int] /\ left \in [Unit -> Int]
    /\ sim_interval \in Int /\ noqueue_time \in Int
    /\ sim_rtime \in 0..(RMod - 1)
    /\ stop_cpu \in BOOLEAN
    /\ pc \in {"scp", "exec", "poll", "pop", "action", "after", "exit",
               "return", "search", "crash"}
    /\ cur \in Unit \cup {NoUnit} /\ catchup \in Int
    /\ reason \in {"OK", "ERR"}
    /\ act \in [unit : Unit \cup {NoUnit}, delay : Int, pos : Nat, accum : Int,
                ret : {"exec", "action"}]
    /\ calls \in Nat
    /\ drift \in Int

\* The list is what sim_activate was asked for: the relative times that
\* insertion, removal and dispatch patch add up to the due time of every unit,
\* and no unit is on the list twice.
DeltasAreDueTimes ==
    /\ \A i, j \in 1..Len(queue) : queue[i] = queue[j] => i = j
    /\ \A i \in 1..Len(queue) :
          left[queue[i]] =
              time[queue[i]] + IF i = 1 THEN 0 ELSE left[queue[i - 1]]

Dispatch == pc = "pop" /\ pc' = "action"

\* PopHead dispatches a unit exactly when simulated time, as its action routine
\* reads it, is the time the unit was scheduled for.
OnTime == [][Dispatch => left[Head(queue)] = Elapsed']_vars

\* However late the poll comes, PopHead never dispatches a unit before simulated
\* time has reached the time it was scheduled for.
NeverEarly == [][Dispatch => left[Head(queue)] <= Elapsed']_vars

Before(x, y) == \E i, j \in 1..Len(queue) :
                    i < j /\ queue[i] = x /\ queue[j] = y

\* _sim_activate puts a unit behind exactly the units that are due no later, so
\* units due together are dispatched in the order they were activated, and no
\* call or dispatch ever swaps two units that wait.
Inserts(v) == pc = "search" /\ pc' # "search" /\ act.unit = v /\ act.delay # -1

ArrivalOrder ==
    [][ /\ \A v \in Unit : Inserts(v) =>
             \A w \in Queued : Before(w, v)' <=> left[w] <= act.delay
        /\ \A x, y \in Queued :
             Before(x, y) /\ {x, y} \subseteq Queued' => Before(x, y)' ]_vars

\* "We backup time to when the first event was supposed to fire and advance it
\* from there until things have caught up" (scp.c, sim_process_event): catching
\* up takes simulated time as far as it was backed up, and no further.
CatchUpEndsAtPresent == catchup <= 0

\* The time sim_gtime returns is the number of instructions or cycles executed
\* (scp.c: "%%SIM_RUNTIME%% The Number of simulated instructions or cycles
\* performed"), whatever is scheduled, cancelled and dispatched in between.
RuntimeCountsInstructions == drift = 0

\* ^C stops the run, whatever the action routines do, as long as a unit that no
\* one reschedules (a clock) is on the list. int_handler zeroes sim_interval,
\* but a queue call it interrupts overwrites that; without such a unit the stop
\* would wait for units that can be pushed off for ever.
StopHonoured ==
    (stop_cpu /\ pc # "scp" /\ Steady \cap Queued # {}) ~> (pc = "scp")

\* A unit that is on the list and that no one reschedules is dispatched, as long
\* as the simulator runs and instructions keep being executed: routines that
\* schedule each other without delay keep the time from passing.
EventsFire ==
    []<>(pc = "exec") =>
        \A u \in Steady : u \in Queued ~> (cur = u \/ pc = "scp")
=============================================================================
