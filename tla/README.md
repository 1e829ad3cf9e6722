# A TLA+ verification of the SIMH framework

This directory holds TLA+ models of the core of this SIMH tree, TLC runs that
check them on small instances, and TLAPS proofs for every instance. The subject
is the framework that all the simulators share, `scp.c` and the `sim_*.c`
libraries, with the BESM-6 and PDP-11 instruction loops as the processors that
drive it, and the memory path of the BESM-6, the one machine of the tree whose
memory has a write-back cache.

## 1. The system

A simulator is one process. Its *main thread* runs either the command processor
or `sim_instr`, the instruction loop of the machine. Every instruction counts
`sim_interval` down; when it runs out the loop calls `sim_process_event`, which
calls the action routines of the UNITs that are due. Devices do everything in
these routines: they schedule their units with `sim_activate`, which puts them
on the *event queue*. Other threads, one per disk or tape unit, two per Ethernet
and one for the wall clock, do slow operations and activate a unit when they are
done; since the main thread alone owns the event queue they leave the unit on
the *asynchronous event queue*, from which the main thread takes it. ^C is a
signal handler in the middle of anything.

| Component | State | Operations | Interacts through | What is hard | What makes it correct |
|---|---|---|---|---|---|
| Event queue (`scp.c`) | `sim_clock_queue`, `uptr->time`, `sim_interval`, `noqueue_time`, `sim_time`, `sim_rtime` | `sim_activate`, `_abs`, `_notbefore`, `sim_cancel`, `sim_process_event`, `UPDATE_SIM_TIME` | called by every device and by itself from action routines | relative times patched by every operation; late polls; ^C | each unit is dispatched at its due time, in order, exactly once; time is what was executed |
| Asynchronous queue (`scp.c`, `sim_scp_private.h`) | `sim_asynch_queue`, `a_next`, `a_event_time`, `a_activate_call`, `sim_asynch_check`, `sim_idle_wait` | `sim_aio_activate`, `sim_aio_update_queue`, `sim_aio_check_event`, the sleep of `sim_idle` | threads push, the main thread migrates to the event queue | re-entry, unlocked counters, wake-ups before the sleep | no activation lost or linked twice, none unseen for long |
| Disk and tape I/O (`sim_disk.c`, `sim_tape.c`) | `io_dop`, `callback`, `io_status`, the I/O thread | `*_a` calls, completion dispatch, cancel, flush, attach, detach | lock and two conditions with the I/O thread, then the asynchronous queue | order of completion, activation and callback; cancel and flush in flight | one callback per operation; no second operation before it |
| Coscheduling (`sim_timer.c`) | `clock_cosched_queue`, `cosched_interval`, per-unit tick counts | `sim_clock_coschedule`, `sim_timer_tick_svc`, cancel | tick of a clock unit | counts relative to the unit in front | every unit fires on its tick |
| Clock ticks (`sim_timer.c`) | `currd`, catch-up counters | `sim_rtcn_calb`, catch-up check, acknowledgement | guest acknowledges ticks | missed ticks made up, never doubled | ticks delivered match wall time |
| Wall clock thread (`sim_timer.c`) | `sim_wallclock_queue`, `sim_wallclock_entry` | `sim_activate_after`, cancel, start and stop of the services | `sim_timer_lock`, asynchronous queue | cancel against the thread | no timer lost |
| Multiplexer lines (`sim_tmxr.c`) | `rxb`, `txb` and their indices, `conn` | `tmxr_poll_rx`, `_getc_ln`, `_putc_ln`, `_send_buffered_data` | devices and sockets | full buffers, partial writes, disconnection | no character lost, doubled or reordered |
| Console, EXPECT, SEND, breakpoints (`sim_console.c`, `scp.c`) | rule lists, match buffers, pending actions | check, send, remote commands | event queue at its head | matches across buffer wraps | a rule fires iff its text was output |
| BESM-6 write cache (`BESM6/besm6_mmu.c`) | `BRZ`, `BAZ`, `TABST`, `OLDEST`, `TLB`, `memory` | `mmu_store`, `mmu_load`, `mmu_setrp`, `mmu_sync`, `mmu_reset`, SET MMU [NO]CACHE | instructions in front of it; devices, DEPOSIT and LOAD behind it | words in registers that nothing writes back; one word under two addresses | with the OS's rules it is one memory |
| Other devices of a machine (`BESM6/`, `SVS/`, ...) | registers, interrupt words | instruction set, device registers | event queue | 48-bit data | architecture manuals |

`PROJECT.json` lists every component, the ones that are not modelled with the
reason, and under `hazards` the places where this code can go wrong in ways a
test would hardly reach.

## 2. The plan

In order of importance:

1. `EventQueue`: what everything else stands on. Done, with its abstract
   specification `EventQueueAbs`, the mapping between them `EventQueueRefines`,
   and the proofs `EventQueue_proofs`, `EventQueueRefines_proofs` and
   `EventQueueLate_proofs`.
2. `AsyncQueue`: how other threads reach it. Done, with its proofs
   `AsyncQueue_proofs`.
3. `DiskUnit`: the handshake of `_disk_io` with `AIO_CALL`, completion dispatch,
   cancel and flush, and the MSCP controller that uses it. Done, on top of what
   `AsyncQueue` shows (a unit is posted or it is not), with its proofs
   `DiskUnit_proofs`. To add: DETACH of a unit in transfer.
4. `WriteCache`: done, with its abstract specification `BackedMemory` and the
   proof of the refinement, `WriteCache_proofs`.
5. `Coschedule`: the tick queue of a clock unit. Done for requests, cancels,
   ticks and the move of the whole queue when the timer services stop, with its
   proofs `Coschedule_proofs`. To add: the like moves when a clock is
   deregistered and when another one becomes the calibrated one.
6. `TapeUnit`: the thread of `sim_tape.c:252` loops without the test of
   `asynch_io` that `sim_disk.c:282` has; whether the join of a flush in the
   middle of an operation ends is the question to settle.
7. `TmxrLine`: the buffers of a line against a channel of characters.

`DeltaList` has the lemmas about lists of relative times that the proofs of
`EventQueue` and of `Coschedule` share; it models nothing itself.

The modules of the components do not compose into one specification: each takes
its neighbour by the neighbour's promise. `AsyncQueue` and `DiskUnit` keep the
event queue as `EventQueueAbs` describes it, `DiskUnit` the asynchronous queue
as `AsyncQueue` shows it, `Coschedule` the event queue as units that get their
turn in order.

## 3. EventQueue

`EventQueue.tla` models `scp.c` from `sim_activate` to `sim_process_event`, the
`UPDATE_SIM_TIME` macro, the countdown of the instruction loop as the BESM-6
has it, `int_handler` and the parts of `run_cmd` that begin, end and continue a
run.

| Model | Code |
|---|---|
| `queue` | the list from `sim_clock_queue` to `QUEUE_LIST_END`; membership stands for `uptr->next != NULL` |
| `time`, `sim_interval`, `noqueue_time`, `stop_cpu` | the variables of the same names |
| `sim_rtime` modulo `RMod` | `sim_rtime`, 32 bits; `sim_time` changes by the same amounts and is not kept |
| `pc` | "exec" in an instruction, "search" inside `_sim_activate`, "poll" to "exit" inside `sim_process_event`, "return" and "scp" in `run_cmd` |
| `cur`, `catchup`, `reason` | the locals `uptr`, `sim_interval_catchup`, `reason` |
| `act` | arguments and loop variables of `_sim_activate` |
| `left`, `drift` | history: what was asked for, and how far simulated time is from executed instructions. No step reads them |

One action stands for one operation, except that `_sim_activate` searches the
list one unit per step and `sim_process_event` is cut where an action routine or
the operator's ^C comes in between. Instructions and routines make any queue
calls, `MaxCalls` each. A call made while no unit is late sees exactly what the
code sees. `Halt` is an instruction, a breakpoint or a runaway PC that ends the
run; a trap that the loop handles itself counts nothing and changes nothing
here.

An instruction counts between 1 and `MaxStep`. `MaxStep = 1` is a processor that
counts one per instruction and never idles, such as the GRI and the ALTAIR. It is
*not* the BESM-6 or the SVS: their waiting loops call `sim_idle(0, TRUE)`
(`besm6_cpu.c:1739`, `svs_cpu.c:2081`), which takes a count or a whole sleep off
`sim_interval` (`sim_timer.c:1897`, `1974`) before the loop takes its own.
These, and every processor with long instructions, are `MaxStep > 1`, where a
poll may be late.

^C is possible between any two steps and inside the decrement of `sim_interval`,
where the decrement stores over the zero of `int_handler` and only `stop_cpu`
remains. `UPDATE_SIM_TIME` is one step: a ^C inside it is not modelled (see
section 8).

`EventQueueAbs.tla` says what the queue promises: every waiting unit has its own
count of instructions to go, time passes no further than the smallest, and a
routine runs when its unit's count is zero. `EventQueueRefines` instantiates it
with `QueueTime`, the sum that `_sim_activate_queue_time` computes, and with
`MaxDelay`, the longest delay anyone asks for.

Left out: the timer units (`UNIT_TMR_UNIT`) that `sim_activate` hands to
`sim_timer.c`, the debug output, and `usecs_remaining`.

### What the runs show

| Run | Instance | Result |
|---|---|---|
| `EventQueue_single` | three units, one of which nobody reschedules, delays -1 (head), 0 and 2, deadlines, failing routines, halts, ^C, one count per instruction | the relative times add up to the due times (`DeltasAreDueTimes`), units are dispatched when due (`OnTime`) and in order (`ArrivalOrder`), and ^C ends the run (`StopHonoured`) |
| `EventQueue_refines` | three units, no ^C, delays with which no call makes a poll late | `ImplementsDueTimes`: the list implements `EventQueueAbs`; `RuntimeCountsInstructions`: simulated time is the number of instructions executed; `EventsFire`: a unit nobody reschedules is dispatched |
| `EventQueue_late` | two units, polls up to three late | `NeverEarly`: nothing is dispatched before its time |
| `EventQueue_catchup` | the same without ^C | violated, see section 8 |

Three units are the fewest with a head, an inner and a last unit, so that every
case of insertion and removal occurs with something before and behind it. A
delay of 2 leaves room for a unit in between, -1 and 0 are the special cases of
the code, and `RMod = 4` wraps `sim_rtime` many times. `EventQueue_late` limits
with `MCBoundedShift` how far the present may run away, because catching up is
unbounded (section 8); deadlock is off there and in `EventQueue_catchup` because
the program ends when it reads past the list (`ReadPastEnd`).

Fairness: `FairSpec` has weak fairness of the main thread's own steps and
nothing else. The main thread is a loop that never blocks, so it does take
steps; queue calls, ^C and CONTINUE are up to the guest program and the operator
and are never forced. `StopHonoured` asks for one queued unit that nobody
reschedules, a clock: a queue call that ^C interrupts overwrites the
`sim_interval = 0` of the handler, and the stop then waits for the next poll.

### What is proved

Every safety property that a passing run checks is proved, for all sets of units
and all values of the constants that the following assumes nothing about.

With no assumption:

- `TypeCorrect`: `Spec => []TypeOK`. The strengthening `Ready` says what the
  dispatch steps need: the list is not empty where its head is taken.
- `DispatchedNeverEarly` (`NeverEarly`): however many instructions are counted
  at a time, however late polls come and whenever ^C is typed.

For `MaxStep = 1`, with ^C, halts and deadlines: `ListCorrect`
(`DeltasAreDueTimes`), `DispatchedOnTime` (`OnTime`) and `DispatchedInOrder`
(`ArrivalOrder`).

"Whenever ^C is typed" is outside `UPDATE_SIM_TIME`, one step of the
specification that is proved about. Inside it, in a build that loads
`sim_interval` at each use, even `NeverEarly` would fail (section 8).

For `Punctual`, `MaxStep = 1` and nothing that makes a poll late, which is the
instance of `EventQueue_refines`: `TimeIsInstructions`
(`RuntimeCountsInstructions`) and `ListImplementsDueTimes`
(`ImplementsDueTimes`).

*The list.* `ListCorrect` and its neighbours rest on one inductive invariant,
`Inv`. `DeltasAreDueTimes` alone is not inductive: an insertion is right only if
the search stopped at the right place, and a dispatch is on time only if the
interval agrees with the head. So `Inv` has three parts. `ListInv`: the list is
a `Chain`, without repetition, relative times natural and due times
nondecreasing. `SearchInv`: while `_sim_activate` searches, the accumulated time
is the due time of the unit before the place reached and does not exceed the
delay asked for. `IntervalInv`: what `sim_interval` may be at each place of the
main loop, that `catchup` is 0 or -1, and that a unit is taken off only when its
time is zero. The lemmas `ChainRemove` and `ChainInsert` of `DeltaList` say what
taking a unit out and putting one in do to a chain; the action lemmas apply
them, one per action. `MaxStep = 1` is needed: with late polls the catch-up code
is entered, and `EventQueue_catchup` shows that the invariant is then false.

*Late polls.* Catching up moves simulated time past what it should be, so the
relative times no longer add up to the due times that were asked for. But they
add up to due times that are no earlier, and this is the invariant of
`EventQueueLate_proofs`: *there is* an `l` that the list is a chain for, with
`left[u] <= l[u]` for every unit on it (`Late`). Each action lemma says what `l`
becomes: it comes nearer by what `UPDATE_SIM_TIME` took from the head, the unit
inserted has the delay asked for, the others keep theirs. `Moved` is the time of
the head while it is about to be dispatched, which simulated time has already
been moved by, and `PollInv` says that `sim_process_event` goes on to a further
unit only when that unit is due or overdue.

*The refinement.* `TimeInv` adds to `Inv` that no executed instruction is
missing from simulated time while the list is worked on. `QueueTimeIs` shows
that the sum of `sim_activate_time` is then what is left until the unit's due
time, and with it every step maps to the step of `EventQueueAbs` that its action
is, or to a stutter, as the steps of the search are. `Punctual` is as weak as
this code allows: an instruction that asks for a delay of 0 or -1 makes the next
poll late by one, since the count is taken down before it is tested; a deadline
of `sim_activate_notbefore` may be that near; and ^C takes instructions still to
run for executed ones (section 8). Routines may ask for any delay.

`QueueTime` is a sum over the list, written as a recursive function. What it
returns is shown by the least position where two such sums differ
(`LeastPosition`, `SumsAgree`): the positions of a list are a finite set of
numbers, and a nonempty one has a least element. The library's induction
theorems, which take an operator, are not needed.

## 4. AsyncQueue

`AsyncQueue.tla` models `sim_aio_activate`, `sim_aio_update_queue`,
`sim_aio_check_event`, the calls of the main thread that re-enter the update,
and the sleep of `sim_idle_ms_sleep`.

| Model | Code |
|---|---|
| `asynq` | the list at `sim_asynch_queue` |
| `stack` | the calls of the main thread that are in progress, innermost first; `at` is where each one is, `list` the rest of the private list of a `sim_aio_update_queue` |
| `a_time`, `a_call` | `a_event_time`, `a_activate_call` |
| `wait` | the event queue, as `EventQueueAbs` promises it: instructions until each unit is due |
| `check`, `loaded` | `sim_asynch_check`, and the value its decrement has read |
| `pc` | the instruction loop, from `AIO_CHECK_EVENT` to the end of the instruction; "sleep" is where `sim_idle_wait` is TRUE |
| `tpc` | where each thread is in `sim_aio_activate` |
| `asked`, `unseen`, `waited`, `late` | history |

`sim_asynch_lock` covers the link of a unit in `sim_aio_activate` and the unlink
in `sim_aio_update_queue`, and nothing in between, so these are one step each:
`Post`, `Grab`, `Take`. What happens outside the lock has steps of its own: the
store to `sim_asynch_check` and its two-part decrement, the test of
`sim_idle_wait` and the signal, the read of `a_activate_call`, and the tests of
`a_next` in `sim_is_active`. Threads call `sim_activate` (disk, tape, wall
clock) and `sim_activate_abs` (Ethernet). No thread of the tree calls
`sim_activate_notbefore`, and it is left out; so is `a_check_completion`, which
belongs to the disk and tape handshake (section 5).

| Run | Instance | Result |
|---|---|---|
| `AsyncQueue_safe` | two units, one of which (`Steady`) the main thread neither reschedules nor cancels, one thread, two activations by it, idling; the main thread activates, reactivates and cancels | `OneListAtATime`, `NoPostLost`, `CancelHolds`, `SeenWithinLatency`, `PostsServed` |
| `AsyncQueue_idle` | a thread activates a unit during a sleep | violated, see section 8 |

Two activations and two units give a re-entry with a private list in progress
and another one behind it; the threads only compete for the lock, so a second
one adds no new case. A latency of 1 is the smallest the code allows.
Fairness is that of the main thread and of a thread inside `sim_aio_activate`:
neither blocks, and the timeout of the sleep is a step of the main thread. A
thread need not activate anything. Without the timeout `PostsServed` would be
false: a thread may look for the sleeper before the sleep begins.

`AsyncQueue_proofs.tla` proves every safety property of the table for any number
of units, threads and activations, any delays and any latency: `TypeCorrect`,
`ListedOnce` (`OneListAtATime`), `NothingLost` (`NoPostLost`), `LookedAtInTime`
(`SeenWithinLatency`) and `CancelComplete` (`CancelHolds`). The inductive
invariant has, beside the types,

- `ListsInv` and `KeptInv`, the first two properties, in terms of the whole
  stack: the units of all private lists, and the units some call has in hand;
- `Ordered`: a frame has a unit unless it updates the queue, only a frame of
  `sim_aio_update_queue` has a private list, and only the outermost frame is a
  `sim_cancel` of its own. Without it a return could drop a private list;
- `LateInv`: in a `sim_cancel` that has updated the queue once, what is listed
  was posted after the call began;
- `SeenInv`: at each place of the loop, the sum of `unseen` and of
  `sim_asynch_check`, or of the value its decrement has read, is at most the
  latency. The store of a thread only lowers the counter, and that the decrement
  may overwrite it is harmless because the bound never relied on it.

A step changes only the first frames of the stack, so the lemmas about stacks
(`PartsOf`, `TwoFrames`) say what the invariant is in terms of the head and the
tail. The invariant was checked with TLC on `AsyncQueue_safe` before it was
proved. `PostsServed` stays with TLC.

## 5. DiskUnit

`DiskUnit.tla` models one disk unit with asynchronous I/O: the thread of
`_disk_io` and the functions of `sim_disk.c` that talk to it, the calls of
`scp.c` they make, and the client in `PDP11/pdp11_rq.c`, whose `rq_svc` is
called twice for every transfer.

| Model | Code |
|---|---|
| `main` | the main thread: where it is, and where each call in progress returns to. "check", "poll", "due" and "instr" are the instruction loop, "scp" the command processor, "abort" `SIM_SCP_ABORT` |
| `io` | where the I/O thread is: "wait" in `pthread_cond_wait`, "signalled" from the signal until it holds the lock again, "transfer" without the lock, "none" before it is made and after its end |
| `lock` | who holds `io_lock` from one step to the next: the I/O thread, from `io_dop = DOP_DONE` through `sim_activate` until it waits |
| `dop`, `callback`, `asynch_io` | the fields of the disk context, the first two as "is set" |
| `request`, `moved` | the command `ctx->lba` and `ctx->buf` are for; history: the command whose transfer ended last |
| `posted`, `wait` | the unit on the asynchronous queue, and on the event queue with its delay |
| `cpkt`, `todo`, `io_complete` | `uptr->cpkt`, how many transfers its byte count still takes, `uptr->io_complete` |
| `enabled` | `sim_asynch_enabled` |

Whatever updates the asynchronous queue (`AIO_CHECK_EVENT`, `sim_process_event`,
`sim_cancel`, `sim_is_active`, `sim_disk_reset`, the end of `run_cmd`) calls
"grab", and from there the completion callback may run, which cancels and
activates the unit and so calls "grab" again. The two halves of `rq_svc` are
`TopHalf` (or `TopHalfHere` when I/O is synchronous) and `BottomHalf`.
`rq_abo` is `Abort`; `rq_reset`, by the guest or by RESET, is `Reset`, which
cancels, flushes and forgets the packet. The guest, the operator and the host's
disk choose in `Choice`.

| Run | Instance | Result |
|---|---|---|
| `DiskUnit_disk` | two commands, up to two transfers each, aborts, resets, stops, SET [NO]ASYNCH | `NoAbort`: none of the library's assertions fires; `ServiceHasCommand`: `rq_svc` is never called without a packet; `CancelQuiesces`: `sim_cancel` leaves no transfer asked for, under way or on its way back; `TransferUndisturbed`: file and buffer are never shared; `TransfersEnd` |
| `DiskUnit_stale` | resets only | violated, see section 8 |
| `DiskUnit_hang` | writes from missing memory | violated, see section 8 |

Two commands are what it takes for one to see what another left behind; two
transfers make a bottom half that goes on to a top half; delays of 0 and 1 let
`rq_io_complete` reschedule the unit at once or after an instruction. Nothing
else grows: the counts of stops, resets and commands are not bounded. Fairness
is that of the two threads. The operator never has to continue a stopped run,
which is why the second half of `TransfersEnd` and `CommandsEnd` end at "scp";
a condition variable may be signalled only by the program.

`DiskUnit_proofs.tla` proves for any commands, transfers and delays, with and
without stops, resets, aborts and missing memory: `TypeCorrect`,
`AssertionsHold` (`NoAbort`), `ServiceWithCommand` (`ServiceHasCommand`),
`FileUndisturbed` (`TransferUndisturbed`) and `CancelRests` (`CancelQuiesces`).
None of the five is inductive, because what may happen at a place depends on the
calls that are in progress below it. So the inductive invariant `Inv` has

- `Chained`: which call may be in progress below which (`Over`); with it the
  stack is never deeper than this code can make it, and a call of `sim_cancel`
  or of the flush is known by who made it;
- `ThreadInv` and `EnabledInv`: where the I/O thread is when it has a request,
  when it holds the lock, and when it was told to end; that there is none with a
  request while the operator has the word;
- `TokenInv`, the centre of it: a callback that is set has exactly one request,
  which is with the thread, about to be posted, on the asynchronous queue, or
  taken from it and not yet called back;
- `QuietInv` and `CommandInv`: inside `rq_svc`, the callback and an activation
  no callback is set, after `sim_cancel` has waited the thread is at rest, and a
  unit without a command is on no queue, except while an abort cancels it.

The first lemmas say how a sequence `s` relates to `Tail(s)` in these terms, so
that each action lemma looks only at the places it moves between: `Here` is what
is known of the two innermost places. The invariant was checked with TLC on the
instance of `DiskUnit_disk` before it was proved. `TransfersEnd`, and that the
two violated properties fail, stay with TLC.

The early ends of `rq_svc`, of a unit that is not attached or is protected from
a write, are commands with nothing to transfer: `TopHalf` ends them at once.

Left out: DETACH, SET LOCKED between the two halves of a command, the packets
queued behind the current one, `rq_fatal`, the container formats.

## 6. WriteCache

`WriteCache.tla` models what `BESM6/besm6_mmu.c` does to memory. A store of the
BESM-6 goes to one of eight buffer registers; a register is written to memory
when it becomes the oldest and another is needed. Devices, DEPOSIT and LOAD
reach memory behind the registers.

| Model | Code |
|---|---|
| `BRZ`, `BAZ`, `OLDEST`, `memory` | the variables of the same names |
| `TABST` | the bits of `TABST`, one for each pair of registers; `SetWins` is `set_wins`, `UpdateOldest` is `mmu_update_oldest` |
| `TLB` | the paging registers, as the map from a mapped address to a word or to a switch register |
| an address | mapped, or the address of a word or a switch register with the bit 0100000, which bypasses the mapping |
| `mode` | the unit flag `CACHE_ENB` |
| `StoreCached`, `StoreThrough` | `mmu_store` with and without the cache |
| `LoadCached`, `LoadMemory`, `LoadSwitch` | `mmu_load`: a register, memory, the panel |
| `SetMap`, `DeviceWrite` | `mmu_setrp`; the disk, drum and tape controllers |
| `Deposit` | `cpu_deposit` and `sim_load` after `mmu_sync` |
| `got`, `pushed` | the value returned by the last load; history: stores to switch registers in a row |

The comparison that finds a register compares the addresses as the program wrote
them, not those of the words. So a word stored under two addresses may be in two
registers, new paging registers make a register stand for another word, and what
a device reads or replaces is unknown to the registers. The operating system
knows this and "pushes the BRZ out with eight stores" to the switch registers
(`ЕСМЛ.md:293`) before a transfer. The constant `Careful` stands for that
program: it uses one address for a word while a register holds it, empties the
registers before it changes the paging registers, and before a device touches a
word that is in a register; the operator changes the mode with the registers
empty.

`BackedMemory.tla` says what the cache promises to a program that keeps these
rules: one memory, and a copy behind it that falls behind and is brought up to
date one word at a time. `Logical`, the refinement mapping, is the word a load
would return by the address that is in use.

| Run | Instance | Result |
|---|---|---|
| `WriteCache_rules` | three registers, three words of two values, one address that is mapped to either of two words or to a switch register, cache on or off | `ImplementsMemory`; `OneRegister`: no word is in two registers; `OldestWritten`: the register that is given up is in memory; `AgesOrdered`: the pairwise bits make a chain that ends at `OLDEST`; `PushesWriteBack` and `PushesEmpty`: what the stores to switch registers achieve, N - 1 and N of them |
| `WriteCache_deposit` | two registers, cache off, no rules | violated, see section 8 |

Three registers are the fewest for which an age table can fail to be a chain.
The values and the two words the address may be on are symmetric. The count
`pushed` takes the stores under a physical address of a switch register only; a
mapped page 0 pushes too, and counts as no push.

`WriteCache_proofs.tla` proves every property of the table for any number of
registers, words, addresses and maps.

For `Careful`: `TypeCorrect`, `NoWordTwice` (`OneRegister`), `EvictionSafe`
(`OldestWritten`) and `CacheIsMemory` (`ImplementsMemory`). The inductive
invariant is the conjunction of the first three: an evicted word is safe only if
no other register holds it as well, and one register for a word is kept only
because a store looks for its address. Each action lemma shows the invariant of
the next state and the step of `BackedMemory` the action is: a store is a
`Store` in front whose write-back is the register that is oldest next. The
proof does not use that the ages make a chain: whichever register
`mmu_update_oldest` finds is written, and keeps its word if it finds none.

For any program: `AgesCorrect` (`AgesOrdered`) and `PushesForget`
(`PushesEmpty`). The bits of `TABST` say which of two registers is younger
(`Wins`). `AgeInv` is that this relation is transitive and `OLDEST` loses to
all; a store makes its register the youngest and leaves the others as they are,
and a finite set on which the relation is transitive has an oldest member. That
is shown by a smallest set of registers that has none (`WFMin`, proper inclusion
of finite sets being well founded). `PushInv` says what a row of pushes has
done: there is a set of `pushed` registers that are younger than all others and
hold the address of a switch register or none; each push takes the oldest
register, which is none of them until all are. `PushesReachMemory`
(`PushesWriteBack`), for `Careful`: after N - 1 pushes the one register left is
the oldest, and its word is in memory.

Left out: what an access may raise (protection, watchpoints, parity), the
instruction buffer `BRS`, which holds copies of words fetched and never writes
any, and `mmu_setcache` and `mmu_getcache`, with which the OS writes and reads a
register directly. EXAMINE shows memory without the registers.

## 7. Coschedule

`Coschedule.tla` models the queue of the units that want to run with a tick of
one clock: `sim_clock_coschedule_tmr`, `_abs`, the cancel, the part of
`sim_timer_tick_svc` that serves the queue, and `sim_stop_timer_services`, which
empties it when a run ends. Terminal multiplexers and the console poll from it.

| Model | Code |
|---|---|
| `rtc.clock_cosched_queue`, `rtc.cosched_interval` | the fields of `RTC` |
| `rtc.time` | `uptr->time` of the units, in ticks relative to the unit in front |
| `ready` | units that a tick, or the end of a run, put on the event queue |
| `usecs_remaining` | what a unit on the event queue waits after the clock's next tick, in whole ticks |
| `sim_is_running` | a run is in progress |
| `Coschedule`, `CoscheduleAbs`, `Cancel` | `sim_clock_coschedule_tmr`, `..._tmr_abs`, `sim_cancel` of a unit that is on either queue |
| `TickDue`, `TickOnly` | `sim_timer_tick_svc` |
| `Run` | the event queue takes the next unit of `ready` |
| `StartServices`, `StopServices` | the start of a run, and `sim_stop_timer_services` at its end |
| `due`, `asked`, `hurried` | history: ticks left of those asked for, the order of asking, and the units that the cancel of a first unit moved to another tick |

The count of the first unit is in `cosched_interval` and, when it was last
brought up to date, in the unit as well. The clock's own unit runs first on a
tick; its service never ends the run ("Ticks should never return a non-success
status", `sim_timer.c:2457-2458`). Every end of a run reaches `run_cmd`, which
stops the timer services (`scp.c:10447`): all units move to the event queue, the
clock's next tick ahead of them, with the ticks they still have to wait in
`usecs_remaining`, and `cosched_interval` is zero.

`_sim_coschedule_cancel` sets `cosched_interval` before it adds the ticks of the
cancelled first unit to the next one, so the units behind come early by what the
first still had to wait. This is what the code does; the properties set the
units it happened to apart (`hurried`).

| Run | Instance | Result |
|---|---|---|
| `Coschedule_ticks` | three units, one of which nobody cancels while it waits, 0 to 3 ticks, runs that end and begin at any point | `NeverLate`: after a tick no unit is left on the clock's queue that was due on it; `NeverEarly`: no unit goes to the event queue with less to wait than it asked for, by a tick or at the end of a run, but for the hurried ones; `InOrder`: they go in the order of their ticks, those of one tick in the order in which they asked; `LateByFirst`: the end of a run makes a unit late by no more than what the first unit still had to wait; `CoscheduledRuns`: a unit that waits gets its turn or the run ends |

Three units are the fewest with a unit in front and one behind the place of an
insertion or removal, and three ticks leave a place between two units on
different ticks. `NeverLate` says nothing of units that the end of a run moved:
these do come late, because `sim_stop_timer_services` adds the ticks of the
first unit twice (section 8). `LateByFirst` bounds by how much. All count as the
code does, where a unit that asks for one tick runs with the next; the comment
counts otherwise (section 8). Fairness is that of ticks and of the event queue
while a run lasts: the clock's unit reschedules itself in every simulator. Queue
calls are never forced, and the operator need not start the machine again, so
`CoscheduledRuns` may end with the run.

`Coschedule_proofs.tla` proves for any units and any bounds, with no assumption
on the program: `TypeCorrect` (`TypeOK`), `UnitsNeverLate` (`NeverLate`),
`UnitsLateByFirst` (`LateByFirst`), `UnitsNeverEarly` (`NeverEarly`) and
`UnitsInOrder` (`InOrder`). None of them is inductive. What is, `IInv`, says
that *there are* ticks `l`, one for each unit, such that

- `Holds`: the relative times, `cosched_interval` counting for the head, add up
  to `l` along the queue, which is a `Chain` as in `EventQueue`;
- `QueueOK`: neither `cosched_interval` nor any tick of `l` is more than a caller
  may ask for, no unit is behind its tick, and the time the head carries itself,
  which the end of a run adds to what the others have to wait, is not negative;
- `SpareOK`: with that time in place of `cosched_interval` the times still add up
  to no more than was asked for. After the cancel of a first unit the two differ;
  the difference is what the cancel took from `l`;
- `HistoryOK`: a unit that is not hurried is due on the tick it asked for, a
  hurried one not after it, and of two on one tick that no cancel moved, the
  first in the queue asked first.

`IdleOK` says that only a unit on the event queue has `usecs_remaining`. The
chain need not start at the present, and that makes one formula do for units
that are hurried and units that are not: each has some tick that the queue gives
it. An insertion keeps `l` and gives the new unit the ticks it asked for; a tick
brings `l` one nearer; the cancel of a first unit shifts `l` for all units
behind by what the first still had to wait; the end of a run empties the queue.
How far the loop of `sim_timer_tick_svc` gathers follows from the sums being
nondecreasing, and what `sim_stop_timer_services` leaves in `usecs_remaining` is
`l` plus the head's own time, less the coming tick (`AccumIs`), which is enough
for `NeverEarly` and not too much for `LateByFirst`. `asked` is a relation, the
pairs of units in the order they asked, rather than a list: only the pairs are
ever looked at.

Left out: `sim_clock_coschedule` for a clock that does not exist (it becomes
`sim_activate`), the moves of the whole queue when a clock is deregistered or
the calibrated clock changes, and what of `usecs_remaining` is below a tick.

## 8. Where the code and its documentation disagree

- `EventQueue_catchup`: "we backup time to when the first event was supposed to
  fire and advance it from there until things have caught up"
  (`scp.c:13156-13158`). The code adds the whole delay of the next unit, also
  when it is due after the present, so simulated time gains with every late
  tick. The HP 2100 reports lost clock ticks whenever `sim_idle` leaves
  `sim_interval` negative, and works around it (`hp2100_cpu.c:928-932`).
- `AsyncQueue_idle`: `0readmeAsynchIO.txt:17-21` promises every operation at
  least its n instructions; a unit scheduled when an event ends a sleep is
  charged with the whole sleep.
- `DiskUnit_stale`: "Bottom End (After I/O processing)" (`pdp11_rq.c:2341`). A
  reset or an abort after the transfer ended, and before its bottom half,
  leaves `io_complete` set: `sim_cancel` itself drains the completion, whose
  callback sets it. The next command of the unit then takes the bottom half
  first. `pdp11_rp.c` has the same flag and sets and clears it alike.
- `DiskUnit_hang`: "done for now until callback" (`pdp11_rq.c:2339`). A write
  whose first word cannot be fetched asks for no transfer; no callback comes,
  and the command never ends.
- `WriteCache_deposit`: the comment at `besm6_mmu.c:354-357` has `mmu_sync`
  write the registers so that old stores do not land over new contents. With
  the cache off, the default, stores are written at once and leave their word in
  a register that nothing keeps true; a deposit of any word then writes the old
  contents of up to eight registers over memory.

Met while modelling, and not the subject of a run:

- `QUEUE_LIST_END` is "not a valid/possible pointer" (`sim_defs.h:449`). A
  dispatch that is two or more late, and whose routine leaves the list empty,
  evaluates `sim_clock_queue->time` at it (`scp.c:13198`): the test before it is
  of the count and not of the list. `ReadPastEnd` is this step.
- `sim_gtime` is "the Number of simulated instructions or cycles performed"
  (`scp.c:1883-1884`). ^C zeroes `sim_interval` (`int_handler`), and the next
  `UPDATE_SIM_TIME` takes the instructions still to run until the next event for
  executed ones. `EventQueue_refines` therefore has no ^C.
- `UPDATE_SIM_TIME` reads `sim_interval` three times. In a build that loads it
  each time, as with `-O0` (`DEBUG=1`), a ^C between the reads that advance
  `sim_time` and the one that is stored (`scp.c:279-283`) makes the first unit
  due at once, and what it still had to wait is lost.
- Coscheduled units are to fire with the clock's unit "with excess time reflected
  in the unit usecs_remaining value" (`sim_timer.c:3048-3051`) when the services
  stop. The loop adds the ticks of the first unit twice, once as
  `cosched_interval` and once as its time, so all units come late by them after
  every end of a run. `StopServices` is this loop.
- "ticks - 0 means on the next tick, 1 means the second tick"
  (`sim_timer.c:3425`): the code runs a unit that asked for 0 and one that asked
  for 1 on the same tick, the next.
- A coscheduled unit's time reflects its "currently scheduled firing time"
  (`sim_timer.c:2927-2930`) except behind a first unit that was cancelled
  (`sim_timer.c:3501-3502`, section 7).
- `Memory_Mapping.md:812-818` speaks of a FLUSH counter and of nine consecutive
  stores; there is no counter in the code, and `ЕСМЛ.md:293` says eight.

## 9. Only model-checked

Every safety property and every refinement that a passing run checks is proved.
What stays with TLC is liveness under fairness: `StopHonoured`, `EventsFire`,
`PostsServed`, `TransfersEnd` and `CoscheduledRuns`. Their proofs need ENABLED of
whole actions, which the installed provers do not expand, and rules for fairness
on top of it. The runs of section 8 are counterexamples, and TLC's by nature.

Where a theorem has an assumption, the properties are checked outside of it as
follows. `NeverEarly` of the event queue has none but that `UPDATE_SIM_TIME` is
one step. `OnTime` and `DeltasAreDueTimes` are not claimed where polls come late:
catching up then goes past the present (`EventQueue_catchup`). The properties of
`WriteCache` that assume `Careful` fail for a program that breaks the rules, and
so they should; the run checks them for one that keeps them.

## 10. Not modelled

- The wall clock thread (`_timer_thread`): since `usec_delay` is set to zero
  before the test for every other unit (`sim_timer.c:3278`), only a unit with
  more than 2^31 instructions to go reaches it.
- Calibration, throttling and idling of `sim_timer.c`: floating-point control
  loops over host time.
- The tape unit and the multiplexer lines: planned, see section 2.
- Instruction sets, container and tape formats, code conversions: data, not
  control.
- Sockets, serial lines, files, displays, the vendored TCP/IP stack: I/O.
- Command parsing, SAVE and RESTORE, SHOW and help: text.
