------------------------------ MODULE AsyncQueue ------------------------------
(***************************************************************************)
(* The asynchronous event queue (scp.c, SIM_ASYNCH_IO): threads that did   *)
(* an I/O operation or read a packet activate units, and the main thread,  *)
(* which alone owns the clock queue, migrates them to it.                  *)
(*                                                                         *)
(* A unit is linked through a_next, which is NULL while it is on no list.  *)
(* The list at sim_asynch_queue is the sequence  asynq,  and the private   *)
(* list that an invocation of sim_aio_update_queue walks is part of that   *)
(* invocation's frame: the main thread's activations call                  *)
(* sim_aio_update_queue again while an outer invocation is half way.       *)
(* sim_asynch_lock is held for the whole of Post and of Grab and Take and  *)
(* never across them, so each is one step.                                 *)
(*                                                                         *)
(* The clock queue is taken at what it promises: wait[u] is the number of  *)
(* instructions until u is due.  asked, unseen, waited and late are history. *)
(***************************************************************************)
EXTENDS Integers, Sequences, SequencesExt, Functions

CONSTANTS
    Unit,
    NoUnit,
    Steady,         \* units the main thread never reschedules
    Thread,         \* threads other than the main thread
    PostCalls,      \* what threads call: "activate", "abs"
    PostDelays,     \* the delays they pass
    MainCalls,      \* what the main thread calls: "activate", "abs", "cancel"
    MainDelays,
    INST_LATENCY,   \* sim_asynch_inst_latency
    MaxIdle,        \* bound: instructions one sleep may stand for, 0: no idling
    MaxPosts        \* bound: calls all threads make together

NotQueued == -1     \* of wait: not on the clock queue
NoDelay == -1       \* of a call: sim_cancel alone

ASSUME UnitAssumption == NoUnit \notin Unit /\ Steady \subseteq Unit
ASSUME CallAssumption ==
    /\ PostCalls \subseteq {"activate", "abs"}
    /\ MainCalls \subseteq {"activate", "abs", "cancel"}
ASSUME NumberAssumption ==
    /\ PostDelays \subseteq Nat /\ MainDelays \subseteq Nat
    /\ INST_LATENCY \in Nat \ {0} /\ MaxIdle \in Nat /\ MaxPosts \in Nat

VARIABLES
    asynq,          \* the list from sim_asynch_queue to QUEUE_LIST_END
    a_time,         \* uptr->a_event_time
    a_call,         \* uptr->a_activate_call
    wait,           \* the clock queue
    check,          \* sim_asynch_check
    loaded,         \* the value of sim_asynch_check that --  has read
    pc,             \* where the instruction loop is
    stack,          \* queue calls of the main thread, innermost first
    woken,          \* sim_asynch_wake was signalled during the sleep
    tpc,            \* where each thread is in sim_aio_activate
    posts,          \* calls threads still make
    asked,          \* history: units threads activated, not dispatched since
    unseen,         \* history: instructions run past a non-empty asynq
    waited,         \* history: units on the clock queue when the sleep began
    late            \* history: units posted since the main thread's sim_cancel began

posted == <<asynq, a_time, a_call>>
history == <<asked, unseen, waited, late>>
loop == <<check, loaded, pc, woken>>
vars == <<posted, wait, loop, stack, tpc, posts, history>>
-----------------------------------------------------------------------------
AtLeast0(n) == IF n < 0 THEN 0 ELSE n

\* a_next is not NULL.
Listed(u) == \/ u \in ToSet(asynq)
             \/ \E i \in DOMAIN stack : u \in ToSet(stack[i].list)

OnClock(u) == wait[u] # NotQueued

\* sim_is_active, once it has updated the queue.
IsActive(u) == OnClock(u) \/ Listed(u)

Frame(at, u, d, list) == [at |-> at, unit |-> u, delay |-> d, list |-> list]

\* A call of the main thread, at its first step.
Called(call, u, d) ==
    CASE call = "activate" -> Frame("drain", u, d, <<>>)
      [] call = "abs"      -> Frame("cancel", u, d, <<>>)
      [] call = "cancel"   -> Frame("cancel", u, NoDelay, <<>>)

UpdateQueue == Frame("grab", NoUnit, 0, <<>>)

Top == Head(stack)
At(place) == stack # <<>> /\ Top.at = place
Return == stack' = Tail(stack)
Become(f) == stack' = <<f>> \o Tail(stack)
CallThen(f, place) == stack' = <<f, [Top EXCEPT !.at = place]>> \o Tail(stack)
Cancelling == stack # <<>> /\ Last(stack).delay = NoDelay
-----------------------------------------------------------------------------
(* sim_aio_activate, in another thread *)

\* Mutant of Enqueue: the lock does not cover the test of a_next.
EnqueueTwice(u, call, n) ==
    /\ asynq' = <<u>> \o asynq
    /\ a_time' = [a_time EXCEPT ![u] = n]
    /\ a_call' = [a_call EXCEPT ![u] = call]

\* A unit that is listed keeps its place and gets the earlier time.
Enqueue(u, call, n) ==
    IF Listed(u)
    THEN /\ a_call' = [a_call EXCEPT ![u] = "abs"]
         /\ a_time' = [a_time EXCEPT ![u] = IF n < @ THEN n ELSE @]
         /\ UNCHANGED asynq
    ELSE /\ a_call' = [a_call EXCEPT ![u] = call]
         /\ a_time' = [a_time EXCEPT ![u] = n]
         /\ asynq' = <<u>> \o asynq

Post(t, u, call, n) ==
    /\ tpc[t] = "work" /\ posts > 0
    /\ Enqueue(u, call, n)
    /\ tpc' = [tpc EXCEPT ![t] = "force"]
    /\ posts' = posts - 1
    /\ asked' = asked \cup {u}
    /\ late' = IF Cancelling THEN late \cup {u} ELSE late
    /\ UNCHANGED <<wait, loop, stack, unseen, waited>>

\* The lock is released; the next check of the main thread is to look.
ForceCheck(t) ==
    /\ tpc[t] = "force"
    /\ check' = 0
    /\ tpc' = [tpc EXCEPT ![t] = "look"]
    /\ UNCHANGED <<posted, wait, loaded, pc, woken, stack, posts, history>>

\* sim_idle_wait is TRUE while the main thread sleeps.
LookForSleeper(t) ==
    /\ tpc[t] = "look"
    /\ tpc' = [tpc EXCEPT ![t] = IF pc = "sleep" THEN "signal" ELSE "work"]
    /\ UNCHANGED <<posted, wait, loop, stack, posts, history>>

Signal(t) ==
    /\ tpc[t] = "signal"
    /\ woken' = (woken \/ pc = "sleep")
    /\ tpc' = [tpc EXCEPT ![t] = "work"]
    /\ UNCHANGED <<posted, wait, check, loaded, pc, stack, posts, history>>
-----------------------------------------------------------------------------
(* sim_aio_update_queue, in the main thread *)

\* The delay less half the time the event is expected to have waited.
Granted(u) == AtLeast0(a_time[u] - (INST_LATENCY + 1) \div 2)

\* Mutant of TakeFirst: a_next is cleared before it is followed.
TakeFirstUnlinked(list) == Frame("apply", Head(list), Granted(Head(list)), <<>>)

TakeFirst(list) ==
    Frame("apply", Head(list), Granted(Head(list)), Tail(list))

\* The whole list is taken, and its first unit.
Grab ==
    /\ At("grab")
    /\ IF asynq = <<>> THEN Return ELSE Become(TakeFirst(asynq))
    /\ asynq' = <<>> /\ unseen' = 0
    /\ UNCHANGED <<a_time, a_call, wait, loop, tpc, posts, asked, waited,
                   late>>

\* a_activate_call is read after the lock is released.
Apply ==
    /\ At("apply")
    /\ stack' = <<Called(a_call[Top.unit], Top.unit, Top.delay),
                  Frame("take", NoUnit, 0, Top.list)>> \o Tail(stack)
    /\ UNCHANGED <<posted, wait, loop, tpc, posts, history>>

\* The lock is taken again for the next unit of the private list.
Take ==
    /\ At("take")
    /\ IF Top.list = <<>> THEN Return ELSE Become(TakeFirst(Top.list))
    /\ UNCHANGED <<posted, wait, loop, tpc, posts, history>>
-----------------------------------------------------------------------------
(* _sim_activate, sim_activate_abs and sim_cancel, in the main thread *)

\* Mutant of Cancel: what threads have posted is not migrated first.
CancelUndrained ==
    /\ At("cancel")
    /\ Become([Top EXCEPT !.at = "clock"])
    /\ UNCHANGED <<posted, wait, loop, tpc, posts, history>>

Cancel ==
    /\ At("cancel")
    /\ CallThen(UpdateQueue, "clock")
    /\ UNCHANGED <<posted, wait, loop, tpc, posts, history>>

\* sim_cancel is done: sim_activate_abs goes on to _sim_activate.
AfterCancel ==
    IF Top.delay = NoDelay
    THEN /\ Return
         /\ asked' = IF Listed(Top.unit) THEN asked ELSE asked \ {Top.unit}
    ELSE Become([Top EXCEPT !.at = "drain"]) /\ UNCHANGED asked

\* With nothing on the clock queue there is nothing to cancel; otherwise
\* sim_is_active updates the queue once more.
LookAtClock ==
    /\ At("clock")
    /\ IF \E u \in Unit : OnClock(u)
       THEN CallThen(UpdateQueue, "remove") /\ UNCHANGED asked
       ELSE AfterCancel
    /\ UNCHANGED <<posted, wait, loop, tpc, posts, unseen, waited, late>>

Withdraw ==
    /\ At("remove")
    /\ wait' = [wait EXCEPT ![Top.unit] = NotQueued]
    /\ AfterCancel
    /\ UNCHANGED <<posted, loop, tpc, posts, unseen, waited, late>>

\* _sim_activate: sim_is_active updates the queue before it looks.
Drain ==
    /\ At("drain")
    /\ CallThen(UpdateQueue, "insert")
    /\ UNCHANGED <<posted, wait, loop, tpc, posts, history>>

\* A unit that is already active keeps the time it has.
Insert ==
    /\ At("insert")
    /\ wait' = IF IsActive(Top.unit) THEN wait
               ELSE [wait EXCEPT ![Top.unit] = Top.delay]
    /\ Return
    /\ UNCHANGED <<posted, loop, tpc, posts, history>>
-----------------------------------------------------------------------------
(* The instruction loop and sim_idle, in the main thread *)

AtLoop(place) == stack = <<>> /\ pc = place

\* AIO_CHECK_EVENT: --sim_asynch_check reads, then writes.
CheckLoad ==
    /\ AtLoop("check")
    /\ loaded' = check
    /\ pc' = "store"
    /\ UNCHANGED <<posted, wait, check, woken, stack, tpc, posts, history>>

\* Mutant of Overdue: the test after the decrement is for zero.
OverdueAtZero == loaded - 1 = 0

Overdue == loaded - 1 < 0

CheckStore ==
    /\ AtLoop("store")
    /\ check' = loaded - 1
    /\ IF Overdue THEN stack' = <<UpdateQueue>> /\ pc' = "migrated"
                  ELSE pc' = "poll" /\ UNCHANGED stack
    /\ loaded' = 0
    /\ UNCHANGED <<posted, wait, woken, tpc, posts, history>>

Rearm ==
    /\ AtLoop("migrated")
    /\ check' = INST_LATENCY
    /\ pc' = "poll"
    /\ UNCHANGED <<posted, wait, loaded, woken, stack, tpc, posts, history>>

Due == {u \in Unit : wait[u] = 0}

\* sim_process_event is called only when a unit is due, and updates the queue.
Poll ==
    /\ AtLoop("poll")
    /\ IF Due = {} THEN pc' = "instr" /\ UNCHANGED stack
       ELSE stack' = <<UpdateQueue>> /\ pc' = "dispatch"
    /\ UNCHANGED <<posted, wait, check, loaded, woken, tpc, posts, history>>

Dispatch(u) ==
    /\ AtLoop("dispatch") /\ u \in Due
    /\ wait' = [wait EXCEPT ![u] = NotQueued]
    /\ asked' = IF Listed(u) THEN asked ELSE asked \ {u}
    /\ pc' = "action"
    /\ UNCHANGED <<posted, check, loaded, woken, stack, tpc, posts, unseen,
                   waited, late>>

DispatchDone ==
    /\ AtLoop("dispatch") /\ Due = {}
    /\ pc' = "instr"
    /\ UNCHANGED <<posted, wait, check, loaded, woken, stack, tpc, posts,
                   history>>

\* An action routine, or the device registers an instruction writes, make at
\* most one queue call.
MainCall(u, call, d) ==
    /\ \/ AtLoop("action") /\ pc' = "dispatch"
       \/ AtLoop("instr") /\ pc' = "count"
    /\ stack' = <<Called(call, u, d)>> /\ late' = {}
    /\ UNCHANGED <<posted, wait, check, loaded, woken, tpc, posts, asked,
                   unseen, waited>>

ActionReturns ==
    /\ AtLoop("action") /\ pc' = "dispatch"
    /\ UNCHANGED <<posted, wait, check, loaded, woken, stack, tpc, posts,
                   history>>

\* n instructions pass for every unit on the clock queue.
Elapse(n) ==
    wait' = [u \in Unit |->
               IF OnClock(u) THEN AtLeast0(wait[u] - n) ELSE NotQueued]

Execute ==
    /\ stack = <<>> /\ pc \in {"instr", "count"}
    /\ Elapse(1)
    /\ unseen' = IF asynq = <<>> THEN 0 ELSE unseen + 1
    /\ pc' = "check"
    /\ UNCHANGED <<posted, check, loaded, woken, stack, tpc, posts, asked,
                   waited, late>>

\* sim_idle: the next event is far enough off to sleep until it.
Sleep ==
    /\ AtLoop("instr") /\ MaxIdle > 0
    /\ Due = {} /\ \E u \in Unit : OnClock(u)
    /\ pc' = "sleep" /\ woken' = FALSE
    /\ waited' = {u \in Unit : OnClock(u)}
    /\ UNCHANGED <<posted, wait, check, loaded, stack, tpc, posts, asked,
                   unseen, late>>

Wake ==
    /\ AtLoop("sleep") /\ woken
    /\ check' = 0
    /\ stack' = <<UpdateQueue>> /\ pc' = "slept"
    /\ UNCHANGED <<posted, wait, loaded, woken, tpc, posts, history>>

Timeout ==
    /\ AtLoop("sleep") /\ ~woken
    /\ pc' = "slept"
    /\ UNCHANGED <<posted, wait, check, loaded, woken, stack, tpc, posts,
                   history>>

\* sim_interval is counted down by the instructions the sleep stands for.
Slept(n) ==
    /\ AtLoop("slept")
    /\ woken \/ n > 0
    /\ Elapse(n)
    /\ pc' = "check" /\ woken' = FALSE /\ waited' = {}
    /\ UNCHANGED <<posted, check, loaded, stack, tpc, posts, asked, unseen,
                   late>>
-----------------------------------------------------------------------------
Init ==
    /\ asynq = <<>>
    /\ a_time = [u \in Unit |-> 0] /\ a_call = [u \in Unit |-> "activate"]
    /\ wait = [u \in Unit |-> NotQueued]
    /\ check = 0 /\ loaded = 0 /\ pc = "check" /\ woken = FALSE
    /\ stack = <<>>
    /\ tpc = [t \in Thread |-> "work"] /\ posts = MaxPosts
    /\ asked = {} /\ unseen = 0 /\ waited = {}
    /\ late = {}

Announce(t) == ForceCheck(t) \/ LookForSleeper(t) \/ Signal(t)

ThreadStep ==
    \E t \in Thread :
        \/ \E u \in Unit, c \in PostCalls, n \in PostDelays : Post(t, u, c, n)
        \/ Announce(t)

QueueStep ==
    Grab \/ Apply \/ Take \/ Cancel \/ LookAtClock \/ Withdraw \/ Drain \/ Insert

Calls ==
    \E u \in Unit :
        \/ "activate" \in MainCalls /\ \E d \in MainDelays : MainCall(u, "activate", d)
        \/ /\ "abs" \in MainCalls /\ u \notin Steady
           /\ \E d \in MainDelays : MainCall(u, "abs", d)
        \/ "cancel" \in MainCalls /\ MainCall(u, "cancel", NoDelay)

LoopStep ==
    \/ CheckLoad \/ CheckStore \/ Rearm \/ Poll
    \/ \E u \in Unit : Dispatch(u)
    \/ DispatchDone \/ ActionReturns \/ Execute
    \/ Sleep \/ Wake \/ Timeout \/ \E n \in 0..MaxIdle : Slept(n)

Next == ThreadStep \/ QueueStep \/ Calls \/ LoopStep

Spec == Init /\ [][Next]_vars

\* Both the main thread and a thread inside sim_aio_activate keep running.
\* Nothing obliges a thread to post nor a routine to call.
FairSpec ==
    /\ Spec
    /\ WF_vars(QueueStep \/ LoopStep)
    /\ \A t \in Thread : WF_vars(Announce(t))
-----------------------------------------------------------------------------
(* Properties *)

Frames ==
    [at : {"grab", "apply", "take", "cancel", "clock", "remove", "drain", "insert"},
     unit : Unit \cup {NoUnit}, delay : Nat \cup {NoDelay}, list : Seq(Unit)]

TypeOK ==
    /\ asynq \in Seq(Unit) /\ stack \in Seq(Frames)
    /\ a_time \in [Unit -> Nat] /\ a_call \in [Unit -> {"activate", "abs"}]
    /\ wait \in [Unit -> Nat \cup {NotQueued}]
    /\ check \in -1..INST_LATENCY /\ loaded \in -1..INST_LATENCY
    /\ pc \in {"check", "store", "migrated", "poll", "dispatch", "action",
               "instr", "count", "sleep", "slept"}
    /\ woken \in BOOLEAN
    /\ tpc \in [Thread -> {"work", "force", "look", "signal"}]
    /\ posts \in 0..MaxPosts
    /\ asked \cup waited \cup late \subseteq Unit /\ unseen \in Nat

\* a_next links a unit into one list at most, and once: a thread that activates
\* a unit while the main thread walks the private list it is on must not move
\* it (sim_aio_activate, sim_aio_update_queue).
OneListAtATime ==
    /\ IsInjective(asynq)
    /\ \A i \in DOMAIN stack :
          /\ IsInjective(stack[i].list)
          /\ ToSet(stack[i].list) \cap ToSet(asynq) = {}
          /\ \A j \in DOMAIN stack \ {i} :
                ToSet(stack[i].list) \cap ToSet(stack[j].list) = {}

\* The unit is in the hands of an invocation that is to put it on the clock queue.
InTransit(u) ==
    \E i \in DOMAIN stack : stack[i].unit = u /\ stack[i].delay # NoDelay

\* What a thread asked for is never forgotten: until its routine is called or
\* the main thread cancels it, the unit is on a list, on the clock queue or in
\* transit between them, however sim_aio_update_queue is re-entered.
NoPostLost ==
    \A u \in Unit :
        u \in asked => OnClock(u) \/ Listed(u) \/ InTransit(u)

CancelReturns(u) ==
    Len(stack) = 1 /\ Top.unit = u /\ Top.delay = NoDelay /\ stack' = <<>>

\* When sim_cancel returns the unit is off the clock queue, and active only if a
\* thread activated it after the call began.
CancelHolds ==
    [][\A u \in Unit :
          CancelReturns(u) => ~OnClock(u)' /\ (Listed(u)' => u \in late)]_vars

\* However the decrement of sim_asynch_check and the store that forces a check
\* race, the main thread looks at the list within the interrupt latency.
SeenWithinLatency == unseen <= INST_LATENCY + 1

\* "Any operation which would have been scheduled to occur in 'n' instructions
\* will still occur [...] at least 'n' instructions after it was initiated"
\* (0readmeAsynchIO.txt): what a sleep stands for is not taken off the delay of
\* a unit that is scheduled when the sleep ends.
IdleKeepsDelays ==
    [][pc = "slept" /\ pc' = "check" =>
          \A u \in Unit \ waited : wait'[u] = wait[u]]_vars

\* Every unit a thread activates has its routine called or is cancelled, whether
\* the simulator executes instructions or idles, unless the main thread itself
\* puts it off for ever.
PostsServed == \A u \in Steady : u \in asked ~> u \notin asked
=============================================================================
