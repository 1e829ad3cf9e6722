------------------------------- MODULE DiskUnit -------------------------------
(***************************************************************************)
(* A disk unit that does its transfers in a thread of its own              *)
(* (sim_disk.c, SIM_ASYNCH_IO), with the device that uses it: an MSCP      *)
(* controller (PDP11/pdp11_rq.c).  The service routine of the unit is      *)
(* called twice for a transfer: its top half hands the request to the I/O  *)
(* thread, and its bottom half completes the command when the callback has *)
(* rescheduled the unit.                                                   *)
(*                                                                         *)
(* The main thread is a stack of places: the first is where it is, each of *)
(* the others is where a call returns to.  The I/O thread is a place of    *)
(* its own, "none" while there is no thread.  A thread that holds io_lock  *)
(* across more than one step is named by  lock;  a section of code that    *)
(* takes and drops the lock is one step.                                   *)
(*                                                                         *)
(* The asynchronous event queue is taken at what AsyncQueue shows of it:   *)
(* posted  is a_next being set.  wait is the time of the unit on the clock *)
(* queue. moved is history.                                                *)
(***************************************************************************)
EXTENDS Integers, Sequences

CONSTANTS
    Packet,         \* commands of the guest
    NoPacket,       \* cpkt = 0
    MaxTransfers,   \* bound: transfers one command is split into
    MaxDelay,       \* bound: instructions sim_activate_notbefore waits
    Stops,          \* whether the operator stops the run
    NoMemory,       \* whether a command names memory that does not exist
    Cancels         \* what cancels the unit: "abort", "reset"

NotQueued == -1

ASSUME PacketAssumption == NoPacket \notin Packet
ASSUME BoundAssumption == MaxTransfers \in Nat \ {0} /\ MaxDelay \in Nat
ASSUME ChoiceAssumption ==
    Cancels \subseteq {"abort", "reset"} /\ {Stops, NoMemory} \subseteq BOOLEAN

VARIABLES
    main,           \* the main thread
    io,             \* the I/O thread
    lock,           \* who holds ctx->io_lock between steps
    dop,            \* ctx->io_dop # DOP_DONE
    callback,       \* ctx->callback # NULL
    asynch_io,      \* ctx->asynch_io
    request,        \* the command ctx->lba and ctx->buf belong to
    enabled,        \* sim_asynch_enabled
    posted,         \* the unit is on sim_asynch_queue
    wait,           \* the unit's place on the clock queue
    cpkt,           \* uptr->cpkt
    todo,           \* transfers the command still needs
    io_complete,    \* uptr->io_complete
    moved           \* history: command whose transfer ended last

ctx == <<dop, callback, asynch_io, request>>
queues == <<posted, wait>>
unit == <<cpkt, todo, io_complete>>
vars == <<main, io, lock, ctx, enabled, queues, unit, moved>>

At(place) == main # <<>> /\ Head(main) = place
Goto(place) == main' = <<place>> \o Tail(main)
Call(place, then) == main' = <<place, then>> \o Tail(main)
Return == main' = Tail(main)

IOGoto(place) == io' = place

\* sim_is_active, once it has updated the queue: _disk_is_active reads io_dop
\* without the lock.
IsActive == wait # NotQueued \/ dop \/ posted

Activated(d) == wait' = IF IsActive THEN wait ELSE d
-----------------------------------------------------------------------------
(* _disk_io, the I/O thread *)

\* The thread tells set_async that it is there, and waits for a request.
Startup ==
    /\ io = "start" /\ lock = "none"
    /\ IOGoto(IF asynch_io THEN "wait" ELSE "none")
    /\ UNCHANGED <<main, lock, ctx, enabled, queues, unit, moved>>

\* Signalled, it wakes when the lock is free: the end is asked for by a signal
\* without a request.
Wake ==
    /\ io = "signalled" /\ lock = "none"
    /\ IOGoto(IF dop THEN "transfer" ELSE "none")
    /\ UNCHANGED <<main, lock, ctx, enabled, queues, unit, moved>>

Transfer ==
    /\ io = "transfer"
    /\ moved' = request
    /\ IOGoto("done")
    /\ UNCHANGED <<main, lock, ctx, enabled, queues, unit>>

\* Mutant of Done: the lock is not taken.
DoneUnlocked ==
    /\ io = "done"
    /\ dop' = FALSE
    /\ IOGoto("post")
    /\ UNCHANGED <<main, lock, callback, asynch_io, request, enabled, queues, unit,
                   moved>>

\* io_dop is DONE, and io_done signalled, while the thread holds the lock.
Done ==
    /\ io = "done" /\ lock = "none"
    /\ lock' = "io"
    /\ dop' = FALSE
    /\ IOGoto("post")
    /\ UNCHANGED <<main, callback, asynch_io, request, enabled, queues, unit,
                   moved>>

\* sim_activate in this thread is sim_aio_activate, which stops the simulator
\* when asynchronous operation is disabled.
Post ==
    /\ io = "post"
    /\ IF enabled THEN posted' = TRUE /\ UNCHANGED main
                  ELSE main' = <<"abort">> /\ UNCHANGED posted
    /\ IOGoto("again")
    /\ UNCHANGED <<lock, ctx, enabled, wait, unit, moved>>

\* The loop condition; pthread_cond_wait drops the lock as the wait begins.
Again ==
    /\ io = "again"
    /\ lock' = "none"
    /\ IOGoto(IF asynch_io THEN "wait" ELSE "none")
    /\ UNCHANGED <<main, ctx, enabled, queues, unit, moved>>

\* pthread_cond_signal on io_cond.
Signal == io' = IF io = "wait" THEN "signalled" ELSE io
-----------------------------------------------------------------------------
(* sim_aio_update_queue and the completion of a transfer, main thread *)

Grab ==
    /\ At("grab")
    /\ IF posted THEN Call("grab", "migrate") ELSE Return
    /\ posted' = FALSE
    /\ UNCHANGED <<io, lock, ctx, enabled, wait, unit, moved>>

\* a_activate_call, whose sim_is_active has updated the queue once more, then
\* a_check_completion.
Migrate ==
    /\ At("migrate")
    /\ Activated(0)
    /\ Goto("dispatch")
    /\ UNCHANGED <<io, lock, ctx, enabled, posted, unit, moved>>

\* Mutant of CompletionDispatch: the callback is called and left set.
CompletionDispatchLeft ==
    /\ At("dispatch")
    /\ main' = IF dop THEN <<"abort">>
                ELSE (IF callback THEN <<"callback">> ELSE <<>>) \o Tail(main)
    /\ UNCHANGED <<io, lock, ctx, enabled, queues, unit, moved>>

\* _disk_completion_dispatch
CompletionDispatch ==
    /\ At("dispatch")
    /\ main' = IF dop THEN <<"abort">>
                ELSE (IF callback THEN <<"callback">> ELSE <<>>) \o Tail(main)
    /\ callback' = FALSE
    /\ UNCHANGED <<io, lock, dop, asynch_io, request, enabled, queues, unit,
                   moved>>

\* Mutant of Callback: the unit is left where it is.
CallbackOnly ==
    /\ At("callback")
    /\ io_complete' = TRUE
    /\ Return
    /\ UNCHANGED <<io, lock, ctx, enabled, queues, cpkt, todo, moved>>

\* rq_io_complete: sim_activate_notbefore cancels the unit and activates it.
Callback ==
    /\ At("callback")
    /\ io_complete' = TRUE
    /\ Call("cancel", "again")
    /\ UNCHANGED <<io, lock, ctx, enabled, queues, cpkt, todo, moved>>

CancelAgain ==
    /\ At("again")
    /\ Call("cancel", "later")
    /\ UNCHANGED <<io, lock, ctx, enabled, queues, unit, moved>>
-----------------------------------------------------------------------------
(* sim_cancel and sim_activate in the main thread *)

\* Mutant of Cancel: the queue is not updated.
CancelNoUpdate ==
    /\ At("cancel")
    /\ asynch_io => lock = "none" /\ ~dop
    /\ Goto("remove")
    /\ UNCHANGED <<io, lock, ctx, enabled, queues, unit, moved>>

\* uptr->cancel is _disk_cancel, which waits on io_done until io_dop is DONE and
\* looks at it with the lock held.
Cancel ==
    /\ At("cancel")
    /\ asynch_io => lock = "none" /\ ~dop
    /\ Call("grab", "clock")
    /\ UNCHANGED <<io, lock, ctx, enabled, queues, unit, moved>>

\* sim_is_active updates the queue once more.
LookAtClock ==
    /\ At("clock")
    /\ Call("grab", "remove")
    /\ UNCHANGED <<io, lock, ctx, enabled, queues, unit, moved>>

Remove ==
    /\ At("remove")
    /\ wait' = NotQueued
    /\ Return
    /\ UNCHANGED <<io, lock, ctx, enabled, posted, unit, moved>>

\* sim_activate with no delay, and at the end of sim_activate_notbefore.
Activate(place, then) ==
    /\ At(place)
    /\ Call("grab", then)
    /\ UNCHANGED <<io, lock, ctx, enabled, queues, unit, moved>>

Insert(place, d) ==
    /\ At(place)
    /\ Activated(d)
    /\ Return
    /\ UNCHANGED <<io, lock, ctx, enabled, posted, unit, moved>>
-----------------------------------------------------------------------------
(* rq_svc, the service routine of the unit *)

\* A command that has nothing to transfer (no data, a unit that is not attached,
\* a write to a protected one) ends at once; with no command the run stops
\* (STOP_RQ).
NothingToDo ==
    /\ At("service") /\ todo = 0
    /\ main' = IF cpkt = NoPacket THEN <<"flush", "stopped">> ELSE Tail(main)
    /\ cpkt' = NoPacket
    /\ UNCHANGED <<io, lock, ctx, enabled, queues, todo, io_complete, moved>>

\* The top half asks for the transfer: AIO_CALL. "horrible mistake, stop" when
\* the callback of another request is still set.
TopHalf ==
    /\ At("service") /\ todo > 0 /\ ~io_complete
    /\ asynch_io /\ lock = "none"
    /\ IF callback THEN main' = <<"abort">> /\ UNCHANGED <<io, ctx>>
       ELSE /\ dop' = TRUE /\ callback' = TRUE /\ request' = cpkt
            /\ Signal
            /\ Return
            /\ UNCHANGED asynch_io
    /\ UNCHANGED <<lock, enabled, queues, unit, moved>>

\* A write whose memory does not exist has nothing to transfer: the top half
\* returns.
TopHalfNoMemory ==
    /\ At("service") /\ todo > 0 /\ ~io_complete
    /\ NoMemory
    /\ Return
    /\ UNCHANGED <<io, lock, ctx, enabled, queues, unit, moved>>

\* Without asynchronous operation the main thread does the transfer, and calls
\* the callback.
TopHalfHere ==
    /\ At("service") /\ todo > 0 /\ ~io_complete
    /\ ~asynch_io
    /\ moved' = cpkt
    /\ Goto("callback")
    /\ UNCHANGED <<io, lock, ctx, enabled, queues, unit>>

MoreToDo == todo > 1

\* The bottom half goes on to the next transfer, or ends the command (rq_rw_end).
BottomHalf ==
    /\ At("service") /\ todo > 0 /\ io_complete
    /\ io_complete' = FALSE
    /\ todo' = todo - 1
    /\ IF MoreToDo THEN Goto("activate") /\ UNCHANGED cpkt
                   ELSE Return /\ cpkt' = NoPacket
    /\ UNCHANGED <<io, lock, ctx, enabled, queues, moved>>

\* The command ends early: missing memory and a failed comparison are told to
\* the guest, a failed transfer stops the run too (SCPE_IOERR).
BottomHalfFails ==
    /\ At("service") /\ todo > 0 /\ io_complete
    /\ io_complete' = FALSE /\ cpkt' = NoPacket /\ todo' = 0
    /\ \E then \in {Tail(main), <<"flush", "stopped">>} : main' = then
    /\ UNCHANGED <<io, lock, ctx, enabled, queues, moved>>
-----------------------------------------------------------------------------
(* _sim_disk_io_flush *)

\* Mutant of Flush: the thread is told to end and not joined.
FlushUnjoined ==
    /\ At("flush")
    /\ asynch_io => lock = "none"
    /\ asynch_io' = FALSE
    /\ IF asynch_io THEN Signal ELSE UNCHANGED io
    /\ Goto("fflush")
    /\ UNCHANGED <<lock, dop, callback, request, enabled, queues, unit, moved>>

\* sim_disk_clr_async tells the thread to end.
Flush ==
    /\ At("flush")
    /\ asynch_io => lock = "none"
    /\ asynch_io' = FALSE
    /\ IF asynch_io THEN Signal /\ Goto("join")
                    ELSE UNCHANGED io /\ Goto("restart")
    /\ UNCHANGED <<lock, dop, callback, request, enabled, queues, unit, moved>>

Join ==
    /\ At("join") /\ io = "none"
    /\ Goto("restart")
    /\ UNCHANGED <<io, lock, ctx, enabled, queues, unit, moved>>

\* sim_disk_set_async makes a new thread.
Restart ==
    /\ At("restart")
    /\ IF enabled
       THEN asynch_io' = TRUE /\ IOGoto("start") /\ Goto("startup")
       ELSE UNCHANGED <<asynch_io, io>> /\ Goto("fflush")
    /\ UNCHANGED <<lock, dop, callback, request, enabled, queues, unit, moved>>

\* It waits until the thread waits.
Started ==
    /\ At("startup") /\ io # "start" /\ lock = "none"
    /\ Goto("fflush")
    /\ UNCHANGED <<io, lock, ctx, enabled, queues, unit, moved>>

\* The file is flushed.
FileFlush ==
    /\ At("fflush")
    /\ Return
    /\ UNCHANGED <<io, lock, ctx, enabled, queues, unit, moved>>
-----------------------------------------------------------------------------
(* The instruction loop, the guest and the operator *)

\* AIO_CHECK_EVENT
CheckEvent ==
    /\ At("check")
    /\ Call("grab", "poll")
    /\ UNCHANGED <<io, lock, ctx, enabled, queues, unit, moved>>

\* sim_process_event updates the queue, and calls the unit when it is due.
Poll ==
    /\ At("poll")
    /\ IF wait = 0 THEN Call("grab", "due") ELSE Goto("instr")
    /\ UNCHANGED <<io, lock, ctx, enabled, queues, unit, moved>>

Due ==
    /\ At("due")
    /\ IF wait = 0 THEN Call("service", "instr") /\ wait' = NotQueued
                   ELSE Goto("instr") /\ UNCHANGED wait
    /\ UNCHANGED <<io, lock, ctx, enabled, posted, unit, moved>>

\* Mutant of Execute: a unit that is not queued is counted down too.
ExecuteAlways ==
    /\ At("instr")
    /\ wait' = IF wait # 0 THEN wait - 1 ELSE wait
    /\ Goto("check")
    /\ UNCHANGED <<io, lock, ctx, enabled, posted, unit, moved>>

Execute ==
    /\ At("instr")
    /\ wait' = IF wait > 0 THEN wait - 1 ELSE wait
    /\ Goto("check")
    /\ UNCHANGED <<io, lock, ctx, enabled, posted, unit, moved>>

\* rq_rw: the unit takes the next command, which n transfers serve.
Command(p, n) ==
    /\ At("instr") /\ cpkt = NoPacket
    /\ cpkt' = p /\ todo' = n
    /\ moved' = IF moved = p THEN NoPacket ELSE moved
    /\ Call("activate", "check")
    /\ UNCHANGED <<io, lock, ctx, enabled, queues, io_complete>>

\* rq_abo
Abort ==
    /\ At("instr") /\ "abort" \in Cancels /\ cpkt # NoPacket
    /\ cpkt' = NoPacket /\ todo' = 0
    /\ Call("cancel", "check")
    /\ UNCHANGED <<io, lock, ctx, enabled, queues, io_complete, moved>>

\* rq_reset, when the guest initialises the controller and by the RESET command:
\* sim_cancel, sim_disk_reset, and the command is forgotten.
Reset(place, then) ==
    /\ At(place) /\ "reset" \in Cancels
    /\ main' = <<"cancel", "flush", "update", "forget", then>>
    /\ UNCHANGED <<io, lock, ctx, enabled, queues, unit, moved>>

Update ==
    /\ At("update")
    /\ Goto("grab")
    /\ UNCHANGED <<io, lock, ctx, enabled, queues, unit, moved>>

Forget ==
    /\ At("forget")
    /\ cpkt' = NoPacket /\ todo' = 0
    /\ Return
    /\ UNCHANGED <<io, lock, ctx, enabled, queues, io_complete, moved>>

\* The end of run_cmd: buffered files are flushed.
Stop ==
    /\ At("instr") /\ Stops
    /\ main' = <<"flush", "stopped">>
    /\ UNCHANGED <<io, lock, ctx, enabled, queues, unit, moved>>

Stopped ==
    /\ At("stopped")
    /\ Call("grab", "scp")
    /\ UNCHANGED <<io, lock, ctx, enabled, queues, unit, moved>>

\* SET ASYNCH and SET NOASYNCH: the mode is changed, then the unit is flushed.
SetAsynch ==
    /\ At("scp")
    /\ enabled' = ~enabled
    /\ Call("flush", "scp")
    /\ UNCHANGED <<io, lock, ctx, queues, unit, moved>>

Continue ==
    /\ At("scp")
    /\ Goto("check")
    /\ UNCHANGED <<io, lock, ctx, enabled, queues, unit, moved>>
-----------------------------------------------------------------------------
Init ==
    /\ main = <<"check">> /\ io = "wait" /\ lock = "none"
    /\ dop = FALSE /\ callback = FALSE /\ asynch_io = TRUE /\ request = NoPacket
    /\ enabled = TRUE
    /\ posted = FALSE /\ wait = NotQueued
    /\ cpkt = NoPacket /\ todo = 0 /\ io_complete = FALSE
    /\ moved = NoPacket

IOStep == Startup \/ Wake \/ Transfer \/ Done \/ Post \/ Again

CallStep ==
    \/ Grab \/ Migrate \/ CompletionDispatch \/ Callback \/ CancelAgain
    \/ Cancel \/ LookAtClock \/ Remove
    \/ Activate("activate", "insert") \/ Insert("insert", 0)
    \/ Activate("later", "insert later")
    \/ \E d \in 0..MaxDelay : Insert("insert later", d)

ServiceStep == NothingToDo \/ TopHalf \/ TopHalfHere \/ BottomHalf

FlushStep == Flush \/ Join \/ Restart \/ Started \/ FileFlush

LoopStep == CheckEvent \/ Poll \/ Due \/ Execute \/ Update \/ Forget \/ Stopped

\* What the guest, the operator and the host's disk decide.
Choice ==
    \/ \E p \in Packet, n \in 0..MaxTransfers : Command(p, n)
    \/ Abort \/ Reset("instr", "check") \/ Reset("scp", "scp")
    \/ Stop \/ SetAsynch \/ Continue \/ BottomHalfFails \/ TopHalfNoMemory

Next == IOStep \/ CallStep \/ ServiceStep \/ FlushStep \/ LoopStep \/ Choice

Spec == Init /\ [][Next]_vars

\* Both threads keep running. Nothing obliges the operator to continue.
FairSpec ==
    /\ Spec
    /\ WF_vars(IOStep)
    /\ WF_vars(CallStep \/ ServiceStep \/ FlushStep \/ LoopStep)
-----------------------------------------------------------------------------
(* Properties *)

MainPlaces == {"check", "grab", "migrate", "dispatch", "callback", "cancel",
    "again", "later", "insert later", "clock", "remove", "activate", "insert",
    "poll", "due", "service", "instr", "flush", "join", "restart", "startup",
    "fflush", "update", "forget", "stopped", "scp", "abort"}

TypeOK ==
    /\ main \in Seq(MainPlaces) /\ main # <<>>
    /\ io \in {"none", "start", "wait", "signalled", "transfer", "done", "post",
               "again"}
    /\ lock \in {"none", "io"}
    /\ {dop, callback, asynch_io, enabled, posted, io_complete} \subseteq BOOLEAN
    /\ {request, cpkt, moved} \subseteq Packet \cup {NoPacket}
    /\ wait \in NotQueued..MaxDelay
    /\ todo \in 0..MaxTransfers

\* None of the tests that stop the simulator succeeds: a request while the
\* callback of another is set (AIO_CALL), a completion that is not complete
\* (_disk_completion_dispatch), an activation by a thread while asynchronous
\* operation is disabled (sim_aio_activate).
NoAbort == ~At("abort")

\* rq_svc is never called without a command: a unit whose command was aborted
\* or whose controller was reset is not on its way back to the clock queue.
ServiceHasCommand == At("service") => cpkt # NoPacket

\* When sim_cancel returns the unit is at rest: no transfer is asked for, under
\* way, or on its way back.
CancelQuiesces ==
    [][At("remove") =>
          /\ ~dop /\ ~callback /\ ~posted /\ wait' = NotQueued
          /\ io \in {"none", "wait"}]_vars

\* The main thread uses the file (_sim_disk_io_flush) and the buffer of the
\* transfer (rq_svc, and rq_reset that moves it) only while the I/O thread does
\* not: stdio "doesn't have an atomic seek+(read|write) operation".
TransferUndisturbed ==
    At("fflush") \/ At("forget") \/ (At("service") /\ cpkt # NoPacket) =>
        io # "transfer"

\* The bottom half completes a command with what a transfer for that command
\* read or wrote: "Bottom End (After I/O processing)" (pdp11_rq.c).
BottomAfterOwnIO ==
    At("service") /\ cpkt # NoPacket /\ io_complete => moved = cpkt

\* "The callback is invoked when the desired I/O operation has completed", even
\* when the run stops or asynchronous operation is disabled meanwhile; and the
\* bottom half follows, as long as the simulator runs and nothing cancels the
\* command.
TransfersEnd ==
    callback \/ io_complete ~>
        /\ ~callback
        /\ ~io_complete \/ cpkt = NoPacket \/ At("scp")

\* A command of the guest ends, as long as the simulator runs: after its top half
\* it is "done for now until callback" (pdp11_rq.c).
CommandsEnd == cpkt # NoPacket ~> (cpkt = NoPacket \/ At("scp"))
=============================================================================
