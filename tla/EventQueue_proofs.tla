-------------------------- MODULE EventQueue_proofs ---------------------------
(***************************************************************************)
(* Proofs about EventQueue.                                                *)
(***************************************************************************)
EXTENDS EventQueue, DeltaList

\* What _sim_activate knows while it searches: the units it has passed are due
\* no later than the unit it has to place, and their times add up to accum.
SearchInv ==
    /\ act.unit \in Unit \ Queued
    /\ act.delay \in Nat \cup {-1}
    /\ act.pos \in 1..(Len(queue) + 1)
    /\ act.accum = IF act.pos = 1 THEN 0 ELSE left[queue[act.pos - 1]]
    /\ act.pos > 1 => act.accum <= act.delay

\* When an instruction counts 1 the poll comes at most one instruction late, and
\* while units are dispatched sim_interval is the head's time.
IntervalInv ==
    /\ sim_interval >= IF pc \in {"poll", "return"} THEN -1 ELSE 0
    /\ pc = "poll" => sim_interval <= 0
    /\ catchup \in {-1, 0}
    /\ pc \in {"action", "after"} /\ ~stop_cpu /\ queue # <<>>
          => sim_interval = time[Head(queue)]
    /\ pc = "pop" => /\ queue # <<>> /\ sim_interval = 0
                     /\ time[Head(queue)] = 0
    /\ pc # "crash"

\* The inductive invariant, for a processor that counts one per instruction and
\* never idles (GRI, ALTAIR): MaxStep = 1.
ListInv ==
    /\ Chain(queue, time, left)
    /\ time \in [Unit -> Nat] /\ noqueue_time \in Nat

Inv == ListInv /\ (pc = "search" => SearchInv) /\ IntervalInv

\* A remainder.
LEMMA ModType ==
  ASSUME NEW a \in Int, NEW n \in Nat \ {0}
  PROVE  a % n \in 0..(n - 1)
  OBVIOUS
-----------------------------------------------------------------------------
(* Types *)

\* The types of the list and the clock, and of the rest.
ListOK == /\ queue \in Seq(Unit)
          /\ time \in [Unit -> Int] /\ left \in [Unit -> Int]
          /\ sim_interval \in Int /\ noqueue_time \in Int
          /\ sim_rtime \in 0..(RMod - 1)

ActOK == act \in [unit : Unit \cup {NoUnit}, delay : Int, pos : Nat,
                  accum : Int, ret : {"exec", "action"}]

ThreadOK == /\ stop_cpu \in BOOLEAN
            /\ pc \in {"scp", "exec", "poll", "pop", "action", "after", "exit",
                       "return", "search", "crash"}
            /\ cur \in Unit \cup {NoUnit} /\ catchup \in Int
            /\ reason \in {"OK", "ERR"}
            /\ calls \in Nat
            /\ drift \in Int

\* A search has a unit to place, a dispatch has one to take off the list.
Ready == /\ pc = "search" => /\ act.unit \in Unit
                             /\ act.pos \in 1..(Len(queue) + 1)
         /\ pc = "pop" => queue # <<>>

\* The type invariant, in the parts the proofs use.
LEMMA TypeParts == TypeOK <=> ListOK /\ ActOK /\ ThreadOK
  BY DEF TypeOK, ListOK, ActOK, ThreadOK


\* The time of the head of the list is a number.
LEMMA HeadTimeType ==
  ASSUME queue \in Seq(Unit), time \in [Unit -> Int], noqueue_time \in Int
  PROVE  /\ HeadTime \in Int
         /\ queue # <<>> => Head(queue) \in Unit
  BY DEF HeadTime

\* What UPDATE_SIM_TIME is to add is a number, before a step and after it.
LEMMA ElapsedType ==
  ASSUME TypeOK
  PROVE  HeadTime \in Int /\ Elapsed \in Int
  BY HeadTimeType DEF Elapsed, TypeOK

LEMMA ElapsedTypeNext ==
  ASSUME queue' \in Seq(Unit), time' \in [Unit -> Int], noqueue_time' \in Int,
         sim_interval' \in Int
  PROVE  Elapsed' \in Int
  BY DEF HeadTime, Elapsed

\* The histories of the clock stay numbers.
LEMMA DriftType ==
  ASSUME TypeOK, NEW d \in Int, Drift(d), Elapsed' \in Int
  PROVE  drift' \in Int
  BY ElapsedType, BoundAssumption DEF TypeOK, Drift, Clamp

LEMMA ClockType ==
  ASSUME TypeOK, NEW d \in Int, AdvanceClock(d)
  PROVE  sim_rtime' \in 0..(RMod - 1)
  <1>1. sim_rtime + d \in Int
    BY BoundAssumption DEF TypeOK
  <1> QED BY <1>1, ModType, BoundAssumption DEF AdvanceClock

\* Bringing the time up to date keeps every type.
LEMMA NowType ==
  ASSUME TypeOK
  PROVE  /\ TimeNow \in [Unit -> Int] /\ NoqueueNow \in Int
         /\ \A d \in Int : LeftAfter(d) \in [Unit -> Int]
  BY DEF TypeOK, TimeNow, NoqueueNow, LeftAfter

\* A unit on the list has a position.
LEMMA PositionType ==
  ASSUME NEW u \in Queued
  PROVE  Position(u) \in 1..Len(queue) /\ queue[Position(u)] = u
  <1>1. \E i \in 1..Len(queue) : queue[i] = u
    BY DEF Queued
  <1> QED BY <1>1 DEF Position

\* The units on the list are units.
LEMMA QueuedUnits ==
  ASSUME TypeOK
  PROVE  /\ Queued \subseteq Unit
         /\ \A u \in Queued : left[u] \in Int
         /\ queue = <<>> <=> Queued = {}
  <1>1. queue \in Seq(Unit) /\ left \in [Unit -> Int]
    BY DEF TypeOK
  <1>2. queue # <<>> => queue[1] \in Queued
    BY <1>1 DEF Queued
  <1>3. queue = <<>> => Queued = {}
    BY DEF Queued
  <1>4. ASSUME NEW u \in Queued PROVE u \in Unit /\ left[u] \in Int
    BY <1>1 DEF Queued
  <1> QED BY <1>2, <1>3, <1>4

\* Taking a unit off the list keeps the types.
LEMMA DequeueType ==
  ASSUME TypeOK, NEW u \in Queued, Dequeue(u)
  PROVE  ListOK'
  <1>1. queue \in Seq(Unit) /\ Position(u) \in 1..Len(queue)
    BY PositionType DEF TypeOK
  <1>2. queue' \in Seq(Unit)
    BY <1>1, RemovedAt DEF Dequeue
  <1>3. u \in Unit
    BY <1>1, PositionType
  <1>4. time' \in [Unit -> Int]
    <2>1. ASSUME NEW w \in Unit PROVE time'[w] \in Int
      BY <1>3, NowType DEF Dequeue, TimesWithout
    <2> QED BY <2>1 DEF Dequeue, TimesWithout
  <1>5. sim_interval' \in Int /\ noqueue_time' \in Int
    <2>1. CASE queue' = <<>>
      BY <2>1, BoundAssumption DEF Dequeue
    <2>2. CASE queue' # <<>>
      <3>1. Head(queue') \in Unit
        BY <2>2, <1>2
      <3>2. sim_interval' = time'[Head(queue')] /\ noqueue_time' = noqueue_time
        BY <2>2 DEF Dequeue
      <3> QED BY <3>1, <3>2, <1>4 DEF TypeOK
    <2> QED BY <2>1, <2>2
  <1>6. left' \in [Unit -> Int]
    <2> DEFINE l == LeftAfter(Elapsed)
    <2>1. l \in [Unit -> Int]
      BY NowType, ElapsedType
    <2>2. left' = [l EXCEPT ![u] = 0]
      BY DEF Dequeue
    <2> HIDE DEF l
    <2> QED BY <1>3, <2>1, <2>2
  <1>7. sim_rtime' \in 0..(RMod - 1)
    BY ClockType, ElapsedType DEF Dequeue
  <1> QED BY <1>2, <1>4, <1>5, <1>6, <1>7 DEF ListOK

\* What a call does before the search keeps the types.
LEMMA PrepareType ==
  ASSUME TypeOK, NEW u \in Unit, Prepare(u)
  PROVE  ListOK'
  <1>1. CASE u \in Queued /\ Dequeue(u)
    BY <1>1, DequeueType
  <1>2. CASE u \notin Queued /\ UpdateSimTime /\ UNCHANGED <<queue, sim_interval>>
    <2>1. sim_rtime' \in 0..(RMod - 1)
      BY <1>2, ClockType, ElapsedType DEF UpdateSimTime
    <2>2. time' \in [Unit -> Int] /\ noqueue_time' \in Int /\ left' \in [Unit -> Int]
      BY <1>2, NowType, ElapsedType DEF UpdateSimTime
    <2> QED BY <1>2, <2>1, <2>2 DEF ListOK, TypeOK
  <1> QED BY <1>1, <1>2 DEF Prepare

\* The search starts with a unit and a delay.
LEMMA SearchType ==
  ASSUME NEW u \in Unit, NEW d \in Int, pc \in {"exec", "action"}, Search(u, d)
  PROVE  ActOK' /\ pc' = "search"
  BY DEF Search, ActOK

\* A call leaves the thread as it is, but for the number of calls it may make.
LEMMA CallType ==
  ASSUME TypeOK, MayCall, calls' = calls - 1,
         UNCHANGED <<stop_cpu, local, drift>>,
         pc' = pc \/ pc' = "search"
  PROVE  ThreadOK' /\ pc \in {"exec", "action"}
  <1>1. calls' \in Nat
    BY DEF TypeOK, MayCall
  <1> QED BY <1>1 DEF MayCall, TypeOK, ThreadOK, local

\* The delays passed by instructions and routines.
LEMMA DelayType ==
  ASSUME NEW d \in Delays
  PROVE  d \in Nat \cup {-1}
  BY DelayAssumption DEF Delays

\* The initial state has the types.
LEMMA TypeInit == Init => TypeOK
  <1> SUFFICES ASSUME Init PROVE TypeOK
    OBVIOUS
  <1>1. ListOK
    BY BoundAssumption DEF Init, ListOK
  <1>2. ActOK
    BY DEF Init, NoCall, ActOK
  <1>3. ThreadOK
    <2>1. calls \in Nat /\ stop_cpu \in BOOLEAN
      BY BoundAssumption DEF Init
    <2>2. cur \in Unit \cup {NoUnit} /\ reason \in {"OK", "ERR"} /\ pc = "scp"
      BY DEF Init
    <2>3. catchup \in Int /\ drift \in Int
      BY DEF Init
    <2> QED BY <2>1, <2>2, <2>3 DEF ThreadOK
  <1> QED BY <1>1, <1>2, <1>3, TypeParts

\* Every step keeps the types.
LEMMA TypeStep == TypeOK /\ Ready /\ [Next]_vars => TypeOK'
  <1> SUFFICES ASSUME TypeOK, Ready, [Next]_vars PROVE ListOK' /\ ActOK' /\ ThreadOK'
    BY TypeParts DEF TypeOK, ListOK, ActOK, ThreadOK
  <1> DEFINE Typed == ListOK' /\ ActOK' /\ ThreadOK'
  <1>1. ASSUME NEW u \in Unit, NEW d \in Delays, SimActivate(u, d) PROVE Typed
    <2>1. CASE u \in Queued
      <3>1. ListOK' /\ ActOK'
        BY <1>1, <2>1, TypeParts DEF SimActivate, ListOK, ActOK, clock
      <3> QED BY <1>1, <2>1, <3>1, CallType DEF SimActivate
    <2>2. CASE u \notin Queued
      <3>1. MayCall /\ Prepare(u) /\ Search(u, d)
        BY <1>1, <2>2 DEF SimActivate
      <3>2. ListOK' /\ ActOK' /\ pc' = "search"
        BY <3>1, PrepareType, SearchType, DelayType DEF MayCall
      <3> QED BY <1>1, <3>2, CallType DEF SimActivate
    <2> QED BY <2>1, <2>2
  <1>2. ASSUME NEW u \in Unit, SimCancel(u) PROVE Typed
    <2>1. ThreadOK' /\ ActOK'
      BY <1>2, CallType, TypeParts DEF SimCancel, ActOK
    <2>2. CASE u \in Queued
      BY <1>2, <2>1, <2>2, DequeueType DEF SimCancel
    <2>3. CASE u \notin Queued
      BY <1>2, <2>1, <2>3, TypeParts DEF SimCancel, ListOK, clock
    <2> QED BY <2>2, <2>3
  <1>3. ASSUME NEW u \in Unit, NEW d \in Delays, SimActivateAbs(u, d) PROVE Typed
    <2>1. ListOK' /\ ActOK' /\ pc' = "search"
      BY <1>3, PrepareType, SearchType, DelayType DEF SimActivateAbs, MayCall
    <2> QED BY <1>3, <2>1, CallType DEF SimActivateAbs
  <1>4. ASSUME NEW u \in Unit, NEW r \in Deadlines, SimActivateNotBefore(u, r)
        PROVE  Typed
    <2>1. ListOK'
      BY <1>4, PrepareType DEF SimActivateNotBefore
    <2> DEFINE ahead == (r - sim_rtime') % RMod
    <2>2. ahead \in Int
      BY <2>1, DelayAssumption, BoundAssumption, ModType DEF ListOK
    <2>3. Search(u, IF 2 * ahead >= RMod THEN 0 ELSE ahead)
      BY <1>4 DEF SimActivateNotBefore
    <2> HIDE DEF ahead
    <2>4. ActOK' /\ pc' = "search"
      <3>1. (IF 2 * ahead >= RMod THEN 0 ELSE ahead) \in Int
        BY <2>2
      <3> QED BY <1>4, <2>3, <3>1, SearchType DEF SimActivateNotBefore, MayCall
    <2> QED BY <1>4, <2>1, <2>4, CallType DEF SimActivateNotBefore
  <1>5. CASE ActivateAtHead
    <2>1. act.unit \in Unit /\ act.ret \in {"exec", "action"}
      BY <1>5, TypeParts DEF ActivateAtHead, Ready, ActOK
    <2>2. ListOK'
      <3>1. queue' \in Seq(Unit)
        BY <1>5, <2>1, TypeParts DEF ActivateAtHead, ListOK
      <3> QED BY <1>5, <2>1, <3>1, TypeParts DEF ActivateAtHead, ListOK
    <2>3. drift' \in Int
      BY <1>5, <2>2, DriftType, ElapsedTypeNext DEF ActivateAtHead, ListOK
    <2>4. ActOK'
      BY <1>5 DEF ActivateAtHead, NoCall, ActOK
    <2> QED BY <1>5, <2>1, <2>2, <2>3, <2>4, TypeParts
            DEF ActivateAtHead, ThreadOK, local
  <1>6. CASE SearchOn
    <2>1. ActOK'
      <3>1. act.pos \in 1..Len(queue)
        BY <1>6, TypeParts DEF SearchOn, PlaceFound, Ready, ActOK, ListOK
      <3>2. time[queue[act.pos]] \in Int
        BY <3>1, TypeParts DEF ListOK
      <3> DEFINE x == act.pos + 1
                 y == act.accum + time[queue[act.pos]]
      <3>3. x \in Nat /\ y \in Int
        BY <3>1, <3>2, TypeParts DEF ActOK
      <3>4. act' = [act EXCEPT !.pos = x, !.accum = y]
        BY <1>6 DEF SearchOn
      <3> HIDE DEF x, y
      <3> QED BY <3>3, <3>4, TypeParts DEF ActOK
    <2> QED BY <1>6, <2>1, TypeParts DEF SearchOn, ListOK, ThreadOK, clock, local
  <1>7. CASE Insert
    <2>1. act.unit \in Unit /\ act.ret \in {"exec", "action"} /\ act.delay \in Int
      BY <1>7, TypeParts DEF Insert, Ready, ActOK
    <2>2. act.accum \in Int /\ act.pos \in 1..(Len(queue) + 1)
      BY <1>7, TypeParts DEF Insert, Ready, ActOK
    <2>3. queue' \in Seq(Unit) /\ queue' # <<>>
      <3>1. queue' \in Seq(Unit) /\ Len(queue') = Len(queue) + 1
        BY <1>7, <2>1, <2>2, InsertedAt, TypeParts DEF Insert, ListOK
      <3> QED BY <3>1, TypeParts DEF ListOK
    <2>4. time' \in [Unit -> Int]
      <3>1. ASSUME NEW w \in Unit PROVE time'[w] \in Int
        <4> DEFINE own == act.delay - act.accum
        <4>1. own \in Int
          BY <2>1, <2>2
        <4>2. time'[w] = IF w = act.unit THEN own
                         ELSE IF act.pos <= Len(queue) /\ w = queue[act.pos]
                              THEN time[w] - own ELSE time[w]
          BY <1>7 DEF Insert
        <4> HIDE DEF own
        <4> QED BY <4>1, <4>2, TypeParts DEF ListOK
      <3> QED BY <1>7, <3>1 DEF Insert
    <2>5. ListOK'
      <3>1. left' \in [Unit -> Int]
        BY <1>7, <2>1, TypeParts DEF Insert, ListOK
      <3>2. noqueue_time' = noqueue_time /\ sim_rtime' = sim_rtime
        BY <1>7 DEF Insert
      <3>3. sim_interval' \in Int
        <4>1. sim_interval' = time'[Head(queue')]
          BY <1>7 DEF Insert
        <4>2. Head(queue') \in Unit
          BY <2>3
        <4> QED BY <2>4, <4>1, <4>2
      <3> QED BY <2>3, <2>4, <3>1, <3>2, <3>3, TypeParts DEF ListOK
    <2>6. drift' \in Int
      BY <1>7, <2>5, DriftType, ElapsedTypeNext DEF Insert, ListOK
    <2>7. ActOK'
      BY <1>7 DEF Insert, NoCall, ActOK
    <2> QED BY <1>7, <2>1, <2>5, <2>6, <2>7, TypeParts DEF Insert, ThreadOK, local
  <1>8. CASE NoticeStop
    BY <1>8, TypeParts DEF NoticeStop, ListOK, ActOK, ThreadOK, clock, local
  <1>9. CASE QueueEmpty
    <2>1. ListOK'
      BY <1>9, TypeParts, ClockType, ElapsedType, BoundAssumption
         DEF QueueEmpty, ListOK
    <2>2. drift' \in Int
      BY <1>9, <2>1, DriftType, ElapsedType, ElapsedTypeNext DEF QueueEmpty, ListOK
    <2> QED BY <1>9, <2>1, <2>2, TypeParts, BoundAssumption
            DEF QueueEmpty, ActOK, ThreadOK, local
  <1>10. CASE StartDispatch
    <2>1. ListOK'
      <3>1. sim_rtime' \in 0..(RMod - 1)
        BY <1>10, ClockType, ElapsedType DEF StartDispatch
      <3>2. left' \in [Unit -> Int]
        BY <1>10, NowType, ElapsedType DEF StartDispatch
      <3> QED BY <1>10, <3>1, <3>2, TypeParts DEF StartDispatch, ListOK
    <2>2. drift' \in Int
      BY <1>10, <2>1, DriftType, ElapsedType, ElapsedTypeNext
         DEF StartDispatch, ListOK
    <2> QED BY <1>10, <2>1, <2>2, TypeParts
            DEF StartDispatch, ListOK, ActOK, ThreadOK
  <1>11. CASE PopHead
    <2>1. queue # <<>> /\ Head(queue) \in Unit /\ Tail(queue) \in Seq(Unit)
      BY <1>11, TypeParts DEF PopHead, Ready, ListOK
    <2>2. sim_interval' \in Int /\ noqueue_time' \in Int
      <3>1. CASE Tail(queue) = <<>>
        BY <1>11, <3>1, BoundAssumption DEF PopHead
      <3>2. CASE Tail(queue) # <<>>
        <4>1. queue[2] \in Unit
          BY <2>1, <3>2, TypeParts DEF ListOK
        <4> DEFINE late == IF catchup < 0 THEN 0 ELSE sim_interval + catchup
        <4>2. late \in Int
          BY TypeParts DEF ListOK, ThreadOK
        <4>3. sim_interval' = time[queue[2]] + late /\ noqueue_time' = noqueue_time
          BY <1>11, <3>2 DEF PopHead
        <4> HIDE DEF late
        <4> QED BY <4>1, <4>2, <4>3, TypeParts DEF ListOK
      <3> QED BY <3>1, <3>2
    <2>3. ListOK'
      <3> DEFINE first == Head(queue)
      <3>4. /\ time' = [time EXCEPT ![first] = 0]
            /\ left' = [left EXCEPT ![first] = 0]
        BY <1>11 DEF PopHead
      <3>5. time \in [Unit -> Int] /\ left \in [Unit -> Int]
        BY TypeParts DEF ListOK
      <3>6. first \in Unit
        BY <2>1
      <3> HIDE DEF first
      <3>1. time' \in [Unit -> Int]
        BY <3>4, <3>5, <3>6
      <3>2. left' \in [Unit -> Int]
        BY <3>4, <3>5, <3>6
      <3>3. queue' = Tail(queue) /\ sim_rtime' = sim_rtime
        BY <1>11 DEF PopHead
      <3> QED BY <2>1, <2>2, <3>1, <3>2, <3>3, TypeParts DEF ListOK
    <2>4. drift' \in Int
      BY <1>11, <2>3, DriftType, ElapsedTypeNext DEF PopHead, ListOK
    <2> QED BY <1>11, <2>1, <2>3, <2>4, TypeParts, BoundAssumption
            DEF PopHead, ActOK, ThreadOK
  <1>12. ASSUME NEW r \in ActionResults, ActionReturns(r) PROVE Typed
    BY <1>12, TypeParts, ResultAssumption
       DEF ActionReturns, ListOK, ActOK, ThreadOK, clock
  <1>13. CASE CatchUp
    <2>1. ListOK'
      BY <1>13, TypeParts, ClockType, NowType, ElapsedType
         DEF CatchUp, ListOK, clock
    <2>2. drift' \in Int
      BY <1>13, <2>1, DriftType, ElapsedType, ElapsedTypeNext DEF CatchUp, ListOK
    <2>3. catchup' \in Int
      BY <1>13, TypeParts, ElapsedType DEF CatchUp, ThreadOK
    <2> QED BY <1>13, <2>1, <2>2, <2>3, TypeParts DEF CatchUp, ActOK, ThreadOK
  <1>14. CASE CaughtUp
    BY <1>14, TypeParts DEF CaughtUp, ListOK, ActOK, ThreadOK, clock
  <1>15. CASE ReadPastEnd
    BY <1>15, TypeParts DEF ReadPastEnd, ListOK, ActOK, ThreadOK, clock, local
  <1>16. CASE EndDispatch
    <2>1. ListOK'
      BY <1>16, TypeParts, BoundAssumption DEF EndDispatch, ListOK
    <2>2. drift' \in Int
      BY <1>16, <2>1, DriftType, ElapsedTypeNext DEF EndDispatch, ListOK
    <2>3. pc' \in {"exec", "return"} /\ stop_cpu' \in BOOLEAN /\ calls' \in Nat
      BY <1>16, TypeParts, BoundAssumption DEF EndDispatch, ThreadOK
    <2> QED BY <1>16, <2>1, <2>2, <2>3, TypeParts DEF EndDispatch, ActOK, ThreadOK
  <1>17. ASSUME NEW n \in 1..MaxStep, CountDown(n) PROVE Typed
    <2>1. ListOK'
      BY <1>17, TypeParts, BoundAssumption DEF CountDown, ListOK
    <2> QED BY <1>17, <2>1, TypeParts, BoundAssumption
            DEF CountDown, ActOK, ThreadOK, local
  <1>h. CASE Halt
    BY <1>h, TypeParts DEF Halt, ListOK, ActOK, ThreadOK, clock, local
  <1>18. CASE Interrupt
    <2>1. ListOK'
      BY <1>18, TypeParts DEF Interrupt, ListOK
    <2>2. drift' \in Int
      BY <1>18, <2>1, DriftType, ElapsedTypeNext DEF Interrupt, ListOK
    <2> QED BY <1>18, <2>1, <2>2, TypeParts DEF Interrupt, ActOK, ThreadOK, local
  <1>19. CASE EndRun
    <2>1. sim_interval' \in Int /\ HeadTime \in Int /\ drift' = drift'
      BY <1>19, TypeParts, ElapsedType DEF EndRun, ListOK
    <2>2. HeadTime - sim_interval' \in Int
      BY <2>1
    <2>3. ListOK'
      <3>1. sim_rtime' \in 0..(RMod - 1) /\ left' \in [Unit -> Int]
        BY <1>19, <2>2, ClockType, NowType DEF EndRun
      <3> QED BY <1>19, <2>1, <3>1, TypeParts DEF EndRun, ListOK
    <2>4. drift' \in Int
      BY <1>19, <2>2, <2>3, DriftType, ElapsedTypeNext DEF EndRun, ListOK
    <2> QED BY <1>19, <2>3, <2>4, TypeParts DEF EndRun, ActOK, ThreadOK, local
  <1>20. CASE Continue
    BY <1>20, TypeParts, BoundAssumption DEF Continue, ListOK, ActOK, ThreadOK, clock, local
  <1>21. CASE UNCHANGED vars
    BY <1>21, TypeParts DEF vars, clock, local, ListOK, ActOK, ThreadOK
  <1> QED BY <1>1, <1>2, <1>3, <1>4, <1>5, <1>6, <1>7, <1>8, <1>9, <1>10, <1>11,
             <1>12, <1>13, <1>14, <1>15, <1>16, <1>17, <1>h, <1>18, <1>19, <1>20, <1>21
          DEF Next, Call, SearchStep, ProcessStep, RunStep

\* Every step keeps what a search and a dispatch need.
LEMMA ReadyStep == TypeOK /\ TypeOK' /\ Ready /\ [Next]_vars => Ready'
  <1> SUFFICES ASSUME TypeOK, TypeOK', Ready, [Next]_vars PROVE Ready'
    OBVIOUS
  <1> USE DEF Ready
  <1>1. CASE Call
    <2>1. CASE pc' = "search"
      <3>1. \E u \in Unit : act'.unit = u /\ act'.pos = 1
        BY <1>1, <2>1
           DEF Call, SimActivate, SimActivateAbs, SimActivateNotBefore,
               SimCancel, Search, MayCall
      <3> QED BY <2>1, <3>1 DEF TypeOK
    <2>2. CASE pc' # "search"
      BY <1>1, <2>2
         DEF Call, SimActivate, SimActivateAbs, SimActivateNotBefore, SimCancel,
             Search, MayCall
    <2> QED BY <2>1, <2>2
  <1>2. CASE SearchOn
    <2>1. act.pos \in 1..Len(queue)
      BY <1>2 DEF SearchOn, PlaceFound, TypeOK
    <2>2. act'.pos = act.pos + 1 /\ act'.unit = act.unit
      BY <1>2 DEF SearchOn, TypeOK
    <2>3. Len(queue) \in Nat /\ queue' = queue /\ pc = "search" /\ pc' = pc
      BY <1>2 DEF SearchOn, clock, TypeOK
    <2>4. act.unit \in Unit
      BY <2>3
    <2> QED BY <2>1, <2>2, <2>3, <2>4
  <1>3. CASE ActivateAtHead \/ Insert
    BY <1>3 DEF ActivateAtHead, Insert, TypeOK
  <1>4. CASE CatchUp \/ CaughtUp
    BY <1>4 DEF CatchUp, CaughtUp, Goes, clock
  <1>5. CASE StartDispatch
    BY <1>5 DEF StartDispatch
  <1>6. CASE NoticeStop \/ QueueEmpty \/ PopHead \/ ReadPastEnd \/ EndDispatch
             \/ \E r \in ActionResults : ActionReturns(r)
    BY <1>6
       DEF NoticeStop, QueueEmpty, PopHead, ReadPastEnd, EndDispatch, ActionReturns
  <1>7. CASE RunStep \/ Halt \/ EndRun \/ Continue
    BY <1>7 DEF RunStep, CountDown, Halt, EndRun, Continue
  <1>8. CASE Interrupt
    BY <1>8 DEF Interrupt
  <1>9. CASE UNCHANGED vars
    BY <1>9 DEF vars, clock
  <1> QED BY <1>1, <1>2, <1>3, <1>4, <1>5, <1>6, <1>7, <1>8, <1>9
          DEF Next, SearchStep, ProcessStep

\* The types hold for every set of units, delays, deadlines and results, however
\* late the polls come.
THEOREM TypeCorrect == Spec => []TypeOK
  <1>1. Init => TypeOK /\ Ready
    BY TypeInit DEF Init, Ready
  <1>2. TypeOK /\ Ready /\ [Next]_vars => (TypeOK /\ Ready)'
    BY TypeStep, ReadyStep
  <1> QED BY <1>1, <1>2, PTL DEF Spec
-----------------------------------------------------------------------------
(* The list of EventQueue *)

\* The head's time is set to v, and due times come nearer by what it lost.
LEMMA HeadSet ==
  ASSUME NEW v \in Int
  PROVE  /\ TypeOK /\ Chain(queue, time, left) /\ queue # <<>>
         => Chain(queue, [time EXCEPT ![Head(queue)] = v],
                  LeftAfter(time[Head(queue)] - v))
  <1>1. SUFFICES ASSUME TypeOK, Chain(queue, time, left), queue # <<>>
                 PROVE  Chain(queue, [time EXCEPT ![Head(queue)] = v],
                              LeftAfter(time[Head(queue)] - v))
    OBVIOUS
  <1>2. queue \in Seq(Unit) /\ time \in [Unit -> Int] /\ left \in [Unit -> Int]
    BY <1>1 DEF TypeOK
  <1>3. Head(queue) = queue[1]
    BY <1>1, <1>2
  <1>4. Nearer(LeftAfter(time[queue[1]] - v), left, queue, time[queue[1]] - v)
    <2>1. ASSUME NEW i \in 1..Len(queue) PROVE queue[i] \in Queued /\ queue[i] \in Unit
      BY <1>2 DEF Queued
    <2> QED BY <2>1 DEF Nearer, LeftAfter
  <1> QED BY <1>1, <1>2, <1>3, <1>4, ChainNow

\* UPDATE_SIM_TIME.
LEMMA NowChain ==
  TypeOK /\ Chain(queue, time, left) => Chain(queue, TimeNow, LeftAfter(Elapsed))
  <1>1. SUFFICES ASSUME TypeOK, Chain(queue, time, left)
                 PROVE  Chain(queue, TimeNow, LeftAfter(Elapsed))
    OBVIOUS
  <1>2. CASE queue = <<>>
    BY <1>2, EmptyChain
  <1>3. CASE queue # <<>>
    <2>1. sim_interval \in Int
      BY <1>1 DEF TypeOK
    <2>2. TimeNow = [time EXCEPT ![Head(queue)] = sim_interval]
      BY <1>3 DEF TimeNow
    <2>3. Elapsed = time[Head(queue)] - sim_interval
      BY <1>3 DEF Elapsed, HeadTime
    <2> QED BY <1>1, <1>3, <2>1, <2>2, <2>3, HeadSet
  <1> QED BY <1>2, <1>3

\* No time becomes negative when it is brought up to date.
LEMMA NowNat ==
  ASSUME time \in [Unit -> Nat], noqueue_time \in Nat, sim_interval \in Nat
  PROVE  TimeNow \in [Unit -> Nat] /\ NoqueueNow \in Nat
  BY DEF TimeNow, NoqueueNow

\* A unit leaves the list: it stays in order, and sim_interval is the head's time.
LEMMA DequeueChain ==
  ASSUME NEW u \in Queued
  PROVE  /\ TypeOK /\ Chain(queue, time, left)
         /\ time \in [Unit -> Nat] /\ noqueue_time \in Nat /\ sim_interval \in Nat
         /\ Dequeue(u)
         => /\ Chain(queue', time', left') /\ u \notin Queued'
            /\ time' \in [Unit -> Nat] /\ noqueue_time' \in Nat
            /\ sim_interval' \in Nat
            /\ queue' # <<>> => sim_interval' = time'[Head(queue')]
  <1>1. SUFFICES ASSUME TypeOK, Chain(queue, time, left),
                        time \in [Unit -> Nat], noqueue_time \in Nat,
                        sim_interval \in Nat, Dequeue(u)
                 PROVE  /\ Chain(queue', time', left') /\ u \notin Queued'
                        /\ time' \in [Unit -> Nat] /\ noqueue_time' \in Nat
                        /\ sim_interval' \in Nat
                        /\ queue' # <<>> => sim_interval' = time'[Head(queue')]
    OBVIOUS
  <1> DEFINE p == Position(u)
             t == TimeNow
             l == LeftAfter(Elapsed)
  <1>2. queue \in Seq(Unit) /\ p \in 1..Len(queue) /\ queue[p] = u
    BY <1>1, PositionType DEF TypeOK
  <1>3. u \in Unit
    BY <1>2
  <1>4. t \in [Unit -> Nat] /\ l \in [Unit -> Int] /\ Chain(queue, t, l)
    BY <1>1, NowNat, NowType, NowChain, ElapsedType
  <1>5. queue' \in Seq(Unit) /\ Without(queue', queue, p)
    BY <1>1, <1>2, RemovedAt DEF Dequeue, Without
  <1>6. left' = [l EXCEPT ![u] = 0]
    BY <1>1 DEF Dequeue
  <1>7. time' = [w \in Unit |->
                    IF w = u THEN 0
                    ELSE IF p < Len(queue) /\ w = queue[p + 1]
                         THEN t[w] + t[u] ELSE t[w]]
    BY <1>1 DEF Dequeue, TimesWithout
  <1>8. /\ IF queue' = <<>>
           THEN sim_interval' = NOQUEUE_WAIT /\ noqueue_time' = NOQUEUE_WAIT
           ELSE sim_interval' = time'[Head(queue')] /\ UNCHANGED noqueue_time
    BY <1>1 DEF Dequeue
  <1> HIDE DEF p, t, l
  <1>9. SameBut(left', l, Unit, queue[p])
    BY <1>2, <1>4, <1>6 DEF SameBut
  <1>10. GainsAt(time', t, Unit, queue[p], queue, p + 1, t[queue[p]])
    <2>1. p + 1 \in 1..Len(queue) <=> p < Len(queue)
      BY <1>2
    <2> QED BY <2>1, <1>2, <1>7 DEF GainsAt
  <1>11. Chain(queue', time', left') /\ \A i \in 1..Len(queue') : queue'[i] # queue[p]
    <2>1. t \in [Unit -> Int]
      BY <1>4
    <2> QED BY <2>1, <1>2, <1>4, <1>5, <1>9, <1>10, ChainRemove
  <1>12. u \notin Queued'
    BY <1>2, <1>11 DEF Queued
  <1>13. time' \in [Unit -> Nat]
    BY <1>3, <1>4, <1>7
  <1>14. noqueue_time' \in Nat /\ sim_interval' \in Nat
    <2>1. queue' # <<>> => Head(queue') \in Unit
      BY <1>5
    <2> QED BY <1>1, <1>8, <1>13, <2>1, BoundAssumption
  <1> QED BY <1>8, <1>11, <1>12, <1>13, <1>14

\* What a call does before the search keeps the list in order, without the unit.
LEMMA PrepareChain ==
  ASSUME NEW u \in Unit
  PROVE  /\ TypeOK /\ Chain(queue, time, left)
         /\ time \in [Unit -> Nat] /\ noqueue_time \in Nat /\ sim_interval \in Nat
         /\ Prepare(u)
         => /\ Chain(queue', time', left') /\ u \notin Queued'
            /\ time' \in [Unit -> Nat] /\ noqueue_time' \in Nat
            /\ sim_interval' \in Nat
  <1>1. SUFFICES ASSUME TypeOK, Chain(queue, time, left),
                        time \in [Unit -> Nat], noqueue_time \in Nat,
                        sim_interval \in Nat, Prepare(u)
                 PROVE  /\ Chain(queue', time', left') /\ u \notin Queued'
                        /\ time' \in [Unit -> Nat] /\ noqueue_time' \in Nat
                        /\ sim_interval' \in Nat
    OBVIOUS
  <1>2. CASE u \in Queued
    BY <1>1, <1>2, DequeueChain DEF Prepare
  <1>3. CASE u \notin Queued
    <2>1. UpdateSimTime /\ UNCHANGED <<queue, sim_interval>>
      BY <1>1, <1>3 DEF Prepare
    <2>2. Chain(queue', time', left')
      BY <1>1, <2>1, NowChain DEF UpdateSimTime
    <2>3. u \notin Queued'
      BY <1>3, <2>1 DEF Queued
    <2> QED BY <1>1, <2>1, <2>2, <2>3, NowNat DEF UpdateSimTime
  <1> QED BY <1>2, <1>3
-----------------------------------------------------------------------------
(* The inductive invariant *)

\* The inductive invariant holds initially.
LEMMA InvInit == Init => Inv
  <1> SUFFICES ASSUME Init PROVE Inv
    OBVIOUS
  <1>1. ListInv
    BY EmptyChain DEF Init, ListInv
  <1>2. pc # "search" /\ IntervalInv
    BY DEF Init, IntervalInv
  <1> QED BY <1>1, <1>2 DEF Inv

\* Steps that leave the list and its times alone leave it in order.
LEMMA SameList ==
  ASSUME ListInv, UNCHANGED <<queue, time, left>>, noqueue_time' \in Nat
  PROVE  ListInv'
  BY DEF ListInv

\* A call that reaches the search leaves it all it relies on.
LEMMA SearchStarts ==
  ASSUME NEW u \in Unit, NEW d \in Nat \cup {-1}
  PROVE  /\ TypeOK /\ Inv /\ MayCall /\ Prepare(u) /\ Search(u, d)
         /\ UNCHANGED <<stop_cpu, local, drift>> /\ queue' \in Seq(Unit)
         => Inv'
  <1>1. SUFFICES ASSUME TypeOK, Inv, MayCall, Prepare(u), Search(u, d),
                        UNCHANGED <<stop_cpu, local, drift>>, queue' \in Seq(Unit)
                 PROVE  Inv'
    OBVIOUS
  <1>2. sim_interval \in Nat /\ ListInv
    BY <1>1 DEF Inv, IntervalInv, MayCall, TypeOK
  <1>3. /\ Chain(queue', time', left') /\ u \notin Queued'
        /\ time' \in [Unit -> Nat] /\ noqueue_time' \in Nat
        /\ sim_interval' \in Nat
    BY <1>1, <1>2, PrepareChain DEF ListInv
  <1>4. ListInv'
    BY <1>3 DEF ListInv
  <1>5. SearchInv'
    <2>1. act'.unit = u /\ act'.delay = d /\ act'.pos = 1 /\ act'.accum = 0
      BY <1>1 DEF Search
    <2>2. 1 \in 1..(Len(queue') + 1)
      BY <1>1
    <2> QED BY <1>3, <2>1, <2>2 DEF SearchInv
  <1>6. IntervalInv'
    <2>1. pc' = "search" /\ catchup' = catchup
      BY <1>1 DEF Search, local
    <2> QED BY <1>1, <1>3, <2>1 DEF IntervalInv, Inv
  <1> QED BY <1>4, <1>5, <1>6 DEF Inv

\* The search passes a unit that is due no later.
LEMMA SearchGoesOn ==
  TypeOK /\ Inv /\ SearchOn => Inv'
  <1>1. SUFFICES ASSUME TypeOK, Inv, SearchOn PROVE Inv'
    OBVIOUS
  <1>2. /\ pc = "search" /\ pc' = "search" /\ catchup' = catchup
        /\ UNCHANGED <<queue, time, left, sim_interval, noqueue_time>>
        /\ act.delay # -1
    BY <1>1 DEF SearchOn, clock, local
  <1>3. SearchInv /\ IntervalInv /\ ListInv
    BY <1>1, <1>2 DEF Inv
  <1>4. /\ act.pos \in 1..(Len(queue) + 1) /\ act.delay \in Nat
        /\ act.unit \in Unit \ Queued /\ queue \in Seq(Unit)
        /\ act.accum \in Int /\ act.accum = IF act.pos = 1 THEN 0
                                            ELSE left[queue[act.pos - 1]]
    BY <1>1, <1>2, <1>3 DEF SearchInv, TypeOK
  <1> DEFINE p == act.pos
             a == act.accum
  <1>5. p \in 1..Len(queue) /\ ~(act.delay < a + time[queue[p]])
    BY <1>1, <1>4 DEF SearchOn, PlaceFound
  <1>6. /\ act'.unit = act.unit /\ act'.delay = act.delay /\ act'.pos = p + 1
        /\ act'.accum = a + time[queue[p]]
    BY <1>1 DEF SearchOn, TypeOK
  <1>7. left[queue[p]] = time[queue[p]] + a /\ time[queue[p]] \in Int
    <2>1. left[queue[p]] = time[queue[p]] + IF p = 1 THEN 0 ELSE left[queue[p - 1]]
      BY <1>3, <1>5 DEF ListInv, Chain
    <2>2. time[queue[p]] \in Int
      BY <1>1, <1>4, <1>5 DEF TypeOK
    <2> QED BY <2>1, <2>2, <1>4
  <1>8. SearchInv'
    <2>1. /\ act'.pos \in 1..(Len(queue') + 1) /\ act'.pos # 1 /\ act'.pos - 1 = p
      BY <1>2, <1>4, <1>5, <1>6
    <2>2. act'.accum = left'[queue'[act'.pos - 1]]
      BY <1>2, <1>4, <1>6, <1>7, <2>1
    <2>3. act'.accum <= act'.delay
      BY <1>4, <1>5, <1>6, <1>7
    <2>4. act'.unit \in Unit \ Queued' /\ act'.delay \in Nat \cup {-1}
      BY <1>2, <1>4, <1>6 DEF Queued
    <2> QED BY <2>1, <2>2, <2>3, <2>4 DEF SearchInv
  <1>9. IntervalInv'
    BY <1>2, <1>3 DEF IntervalInv
  <1>10. ListInv'
    BY <1>2, <1>3, SameList DEF ListInv
  <1> QED BY <1>8, <1>9, <1>10 DEF Inv

\* The push to the head is an insertion at the head, due now.
LEMMA HeadPush ==
  TypeOK /\ TypeOK' /\ Inv /\ ActivateAtHead => Inv'
  <1>1. SUFFICES ASSUME TypeOK, TypeOK', Inv, ActivateAtHead PROVE Inv'
    OBVIOUS
  <1>2. /\ pc = "search" /\ pc' = act.ret /\ catchup' = catchup
        /\ queue' = <<act.unit>> \o queue
        /\ time' = [time EXCEPT ![act.unit] = 0]
        /\ left' = [left EXCEPT ![act.unit] = 0]
        /\ sim_interval' = 0 /\ noqueue_time' = noqueue_time
    BY <1>1 DEF ActivateAtHead, local
  <1>3. SearchInv /\ ListInv
    BY <1>1, <1>2 DEF Inv
  <1> DEFINE e == act.unit
  <1>4. e \in Unit /\ \A k \in 1..Len(queue) : queue[k] # e
    BY <1>3 DEF SearchInv, Queued
  <1>5. queue \in Seq(Unit) /\ time \in [Unit -> Int] /\ left \in [Unit -> Int]
    BY <1>1 DEF TypeOK
  <1>6. With(queue', queue, 1, e) /\ queue' # <<>> /\ Head(queue') = e
    BY <1>2, <1>4, <1>5 DEF With
  <1>7. SameBut(left', left, Unit, e)
    BY <1>2, <1>4, <1>5 DEF SameBut
  <1>8. GainsAt(time', time, Unit, e, queue, 1, 0 - 0)
    BY <1>2, <1>4, <1>5 DEF GainsAt
  <1>9. time'[e] = 0 - 0 /\ left'[e] = 0 /\ time'[e] = 0
    BY <1>2, <1>4, <1>5
  <1>10. 1 <= Len(queue) => 0 <= 0 + time[queue[1]]
    BY <1>3, <1>5 DEF ListInv
  <1>11. Chain(queue', time', left')
    <2> HIDE DEF e
    <2>1. Fits(Unit, queue, time, left, 1, e, 0, 0)
      BY <1>4, <1>5, <1>10 DEF Fits
    <2>2. Takes(Unit, queue, time, left, 1, e, 0, 0, time', left')
      BY <1>7, <1>8, <1>9 DEF Takes
    <2>3. Chain(queue, time, left) /\ With(queue', queue, 1, e)
      BY <1>3, <1>6 DEF ListInv
    <2> QED BY <1>5, <2>1, <2>2, <2>3, ChainInsert
  <1>12. ListInv'
    BY <1>2, <1>3, <1>4, <1>11 DEF ListInv
  <1>13. IntervalInv'
    <2>1. pc' \in {"exec", "action"}
      BY <1>1, <1>2 DEF TypeOK
    <2> QED BY <1>1, <1>2, <1>6, <1>9, <2>1 DEF Inv, IntervalInv
  <1> QED BY <1>1, <1>2, <1>12, <1>13 DEF Inv, TypeOK

\* The unit goes in where the search stopped.
LEMMA InsertKeeps ==
  TypeOK /\ TypeOK' /\ Inv /\ Insert => Inv'
  <1>1. SUFFICES ASSUME TypeOK, TypeOK', Inv, Insert PROVE Inv'
    OBVIOUS
  <1> DEFINE e == act.unit
             p == act.pos
             a == act.accum
             d == act.delay
  <1>2. /\ pc = "search" /\ pc' = act.ret /\ catchup' = catchup
        /\ queue' = InsertAt(queue, p, e)
        /\ time' = [w \in Unit |->
                      IF w = e THEN d - a
                      ELSE IF p <= Len(queue) /\ w = queue[p]
                           THEN time[w] - (d - a) ELSE time[w]]
        /\ left' = [left EXCEPT ![e] = d]
        /\ sim_interval' = time'[Head(queue')] /\ noqueue_time' = noqueue_time
        /\ d # -1
    BY <1>1 DEF Insert, local
  <1>3. SearchInv /\ ListInv
    BY <1>1, <1>2 DEF Inv
  <1>4. e \in Unit /\ \A k \in 1..Len(queue) : queue[k] # e
    BY <1>3 DEF SearchInv, Queued
  <1>5. queue \in Seq(Unit) /\ time \in [Unit -> Int] /\ left \in [Unit -> Int]
    BY <1>1 DEF TypeOK
  <1>6. /\ p \in 1..(Len(queue) + 1) /\ d \in Nat /\ a \in Int
        /\ a = IF p = 1 THEN 0 ELSE left[queue[p - 1]]
        /\ p > 1 => a <= d
    BY <1>1, <1>2, <1>3 DEF SearchInv, TypeOK
  <1>7. p <= Len(queue) => d < a + time[queue[p]]
    BY <1>1 DEF Insert, PlaceFound
  <1>8. With(queue', queue, p, e) /\ queue' \in Seq(Unit)
    <2> HIDE DEF e, p
    <2>1. /\ InsertAt(queue, p, e) \in Seq(Unit)
          /\ With(InsertAt(queue, p, e), queue, p, e)
      BY <1>4, <1>5, <1>6, InsertedAt DEF With
    <2> QED BY <1>2, <2>1
  <1> HIDE DEF e, p, a, d
  <1>9. queue' # <<>> /\ Head(queue') \in Unit
    <2>1. Len(queue') = Len(queue) + 1 /\ Len(queue) \in Nat
      BY <1>5, <1>8 DEF With
    <2> QED BY <1>8, <2>1
  <1>10. SameBut(left', left, Unit, e)
    BY <1>2, <1>4, <1>5 DEF SameBut
  <1>11. GainsAt(time', time, Unit, e, queue, p, a - d)
    <2>1. ASSUME NEW w \in Unit \ {e}
          PROVE  time'[w] = IF p \in 1..Len(queue) /\ w = queue[p]
                            THEN time[w] + (a - d) ELSE time[w]
      <3>1. p \in 1..Len(queue) <=> p <= Len(queue)
        BY <1>5, <1>6
      <3>2. time[w] - (d - a) = time[w] + (a - d)
        <4>1. time[w] \in Int
          BY <1>5
        <4> QED BY <4>1, <1>6
      <3>3. time'[w] = IF p <= Len(queue) /\ w = queue[p]
                       THEN time[w] - (d - a) ELSE time[w]
        BY <1>2
      <3> QED BY <3>1, <3>2, <3>3
    <2> QED BY <2>1 DEF GainsAt
  <1>12. time'[e] = d - a /\ left'[e] = d
    BY <1>2, <1>4, <1>5
  <1>13. p <= Len(queue) => d <= a + time[queue[p]]
    <2>1. p <= Len(queue) => time[queue[p]] \in Int
      BY <1>5, <1>6
    <2> QED BY <2>1, <1>6, <1>7
  <1>14. d \in Int
    BY <1>6
  <1>15. Chain(queue', time', left')
    <2>1. Chain(queue, time, left)
      BY <1>3 DEF ListInv
    <2>2. Fits(Unit, queue, time, left, p, e, d, a)
      BY <1>4, <1>6, <1>13, <1>14 DEF Fits
    <2>3. Takes(Unit, queue, time, left, p, e, d, a, time', left')
      BY <1>10, <1>11, <1>12 DEF Takes
    <2> QED BY <2>1, <2>2, <2>3, <1>5, <1>8, ChainInsert
  <1>16. time' \in [Unit -> Nat]
    <2>1. d - a \in Nat
      BY <1>6
    <2>2. ASSUME NEW w \in Unit PROVE time'[w] \in Nat
      <3>1. time[w] \in Nat
        BY <1>3 DEF ListInv
      <3>2. CASE p <= Len(queue) /\ w = queue[p] /\ w # e
        <4>1. time'[w] = time[w] - (d - a)
          BY <1>2, <3>2
        <4>2. d < a + time[w]
          BY <1>7, <3>2
        <4> QED BY <4>1, <4>2, <3>1, <1>6
      <3>3. CASE ~(p <= Len(queue) /\ w = queue[p] /\ w # e)
        BY <1>2, <2>1, <3>1, <3>3
      <3> QED BY <3>2, <3>3
    <2> QED BY <1>2, <2>2
  <1>17. ListInv'
    BY <1>2, <1>3, <1>15, <1>16 DEF ListInv
  <1>18. pc' \in {"exec", "action"}
    BY <1>1, <1>2 DEF TypeOK
  <1>19. IntervalInv'
    <2>1. sim_interval' \in Nat /\ sim_interval' = time'[Head(queue')]
      BY <1>2, <1>9, <1>16
    <2>2. catchup' \in {-1, 0}
      BY <1>1, <1>2 DEF Inv, IntervalInv
    <2> QED BY <1>18, <2>1, <2>2 DEF IntervalInv
  <1> QED BY <1>17, <1>18, <1>19 DEF Inv

\* The head is dispatched: it is due now, and the unit behind it is the head.
LEMMA PopKeeps ==
  TypeOK /\ TypeOK' /\ Inv /\ PopHead
     => Inv' /\ left[Head(queue)] = 0 /\ Elapsed' = 0
  <1>1. SUFFICES ASSUME TypeOK, TypeOK', Inv, PopHead
                 PROVE  Inv' /\ left[Head(queue)] = 0 /\ Elapsed' = 0
    OBVIOUS
  <1>2. /\ queue # <<>> /\ sim_interval = 0 /\ time[Head(queue)] = 0
        /\ catchup \in {-1, 0} /\ pc = "pop" /\ ListInv
    BY <1>1 DEF PopHead, Inv, IntervalInv
  <1>3. /\ pc' = "action" /\ queue' = Tail(queue) /\ catchup' = catchup
        /\ time' = [time EXCEPT ![Head(queue)] = 0]
        /\ left' = [left EXCEPT ![Head(queue)] = 0]
    BY <1>1 DEF PopHead
  <1>4. queue \in Seq(Unit) /\ time \in [Unit -> Int] /\ left \in [Unit -> Int]
    BY <1>1 DEF TypeOK
  <1>5. /\ Head(queue) = queue[1] /\ queue[1] \in Unit /\ 1 \in 1..Len(queue)
        /\ Tail(queue) \in Seq(Unit)
    BY <1>2, <1>4
  <1>6. Without(Tail(queue), queue, 1)
    BY <1>2, <1>4 DEF Without
  <1>7. SameBut(left', left, Unit, queue[1])
    BY <1>3, <1>4, <1>5 DEF SameBut
  <1>8. GainsAt(time', time, Unit, queue[1], queue, 1 + 1, time[queue[1]])
    BY <1>2, <1>3, <1>4, <1>5 DEF GainsAt
  <1>9. Chain(queue', time', left')
    <2>1. Chain(queue, time, left) /\ Without(queue', queue, 1)
      BY <1>2, <1>3, <1>6 DEF ListInv
    <2> QED BY <2>1, <1>4, <1>5, <1>7, <1>8, ChainRemove
  <1>10. time' \in [Unit -> Nat]
    BY <1>2, <1>3, <1>5 DEF ListInv
  <1>11. /\ sim_interval' \in Nat /\ noqueue_time' \in Nat
         /\ queue' # <<>> => sim_interval' = time'[Head(queue')]
    <2>1. CASE Tail(queue) = <<>>
      BY <1>1, <1>3, <2>1, BoundAssumption DEF PopHead
    <2>2. CASE Tail(queue) # <<>>
      <3>1. /\ Head(Tail(queue)) = queue[2] /\ queue[2] \in Unit /\ 2 \in 1..Len(queue)
        BY <1>4, <2>2
      <3>2. queue[2] # queue[1]
        BY <1>2, <1>5, <3>1 DEF ListInv, Chain
      <3>3. /\ sim_interval' = time[queue[2]]
                               + IF catchup < 0 THEN 0 ELSE sim_interval + catchup
            /\ noqueue_time' = noqueue_time
        BY <1>1, <2>2 DEF PopHead
      <3>4. (IF catchup < 0 THEN 0 ELSE sim_interval + catchup) = 0
        BY <1>2
      <3>5. time[queue[2]] \in Nat /\ noqueue_time \in Nat
        BY <1>2, <3>1 DEF ListInv
      <3>6. sim_interval' = time[queue[2]]
        BY <3>3, <3>4, <3>5
      <3>7. time'[queue[2]] = time[queue[2]]
        BY <1>3, <1>4, <1>5, <3>1, <3>2
      <3> QED BY <1>3, <3>1, <3>3, <3>5, <3>6, <3>7
    <2> QED BY <2>1, <2>2
  <1>12. IntervalInv'
    BY <1>2, <1>3, <1>11 DEF IntervalInv
  <1>13. left[Head(queue)] = 0
    BY <1>2, <1>5 DEF ListInv, Chain
  <1>14. Elapsed' = 0
    <2>1. CASE queue' = <<>>
      BY <1>1, <1>3, <2>1, BoundAssumption DEF PopHead, Elapsed, HeadTime
    <2>2. CASE queue' # <<>>
      BY <1>11, <2>2 DEF Elapsed, HeadTime
    <2> QED BY <2>1, <2>2
  <1> QED BY <1>3, <1>9, <1>10, <1>11, <1>12, <1>13, <1>14 DEF Inv, ListInv

\* The invariant is inductive, one step per action.
LEMMA InvStep == MaxStep = 1 /\ TypeOK /\ TypeOK' /\ Inv /\ [Next]_vars => Inv'
  <1>0. SUFFICES ASSUME MaxStep = 1, TypeOK, TypeOK', Inv, [Next]_vars PROVE Inv'
    OBVIOUS
  <1>1. ASSUME NEW u \in Unit, NEW d \in Delays, SimActivate(u, d) PROVE Inv'
    <2>1. CASE u \in Queued
      <3>1. UNCHANGED <<clock, sim_rtime, pc, act, left, stop_cpu, local>>
        BY <1>1, <2>1 DEF SimActivate
      <3>2. ListInv'
        BY <1>0, <3>1, SameList DEF Inv, ListInv, clock
      <3>3. SearchInv' <=> SearchInv
        BY <3>1 DEF SearchInv, clock, Queued
      <3>4. IntervalInv'
        BY <1>0, <3>1 DEF Inv, IntervalInv, clock, local
      <3> QED BY <1>0, <3>1, <3>2, <3>3, <3>4 DEF Inv
    <2>2. CASE u \notin Queued
      BY <1>0, <1>1, <2>2, SearchStarts, DelayType DEF SimActivate, TypeOK
    <2> QED BY <2>1, <2>2
  <1>2. ASSUME NEW u \in Unit, SimCancel(u) PROVE Inv'
    <2>1. CASE u \in Queued
      <3>1. /\ Dequeue(u) /\ pc' = pc /\ pc \in {"exec", "action"}
            /\ catchup' = catchup
        BY <1>2, <2>1 DEF SimCancel, MayCall, local
      <3>2. sim_interval \in Nat
        <4>1. sim_interval \in Int /\ pc \notin {"poll", "return"}
          BY <1>0, <3>1 DEF TypeOK
        <4>2. sim_interval >= IF pc \in {"poll", "return"} THEN -1 ELSE 0
          BY <1>0 DEF Inv, IntervalInv
        <4> QED BY <4>1, <4>2
      <3>3. /\ Chain(queue', time', left')
            /\ time' \in [Unit -> Nat] /\ noqueue_time' \in Nat
            /\ sim_interval' \in Nat
            /\ queue' # <<>> => sim_interval' = time'[Head(queue')]
        BY <1>0, <2>1, <3>1, <3>2, DequeueChain DEF Inv, ListInv
      <3>4. ListInv'
        BY <3>3 DEF ListInv
      <3>5. IntervalInv'
        BY <1>0, <3>1, <3>3 DEF Inv, IntervalInv
      <3> QED BY <3>1, <3>4, <3>5 DEF Inv
    <2>2. CASE u \notin Queued
      <3>1. UNCHANGED <<clock, left, pc, stop_cpu, local>> /\ pc # "search"
        BY <1>2, <2>2 DEF SimCancel, MayCall
      <3>2. ListInv'
        BY <1>0, <3>1, SameList DEF Inv, ListInv, clock
      <3>3. IntervalInv'
        BY <1>0, <3>1 DEF Inv, IntervalInv, clock, local
      <3> QED BY <3>1, <3>2, <3>3 DEF Inv
    <2> QED BY <2>1, <2>2
  <1>3. ASSUME NEW u \in Unit, NEW d \in Delays, SimActivateAbs(u, d) PROVE Inv'
    BY <1>0, <1>3, SearchStarts, DelayType DEF SimActivateAbs, TypeOK
  <1>4. ASSUME NEW u \in Unit, NEW r \in Deadlines, SimActivateNotBefore(u, r)
        PROVE  Inv'
    <2> DEFINE ahead == (r - sim_rtime') % RMod
               d == IF 2 * ahead >= RMod THEN 0 ELSE ahead
    <2>1. ahead \in Nat
      <3>1. r - sim_rtime' \in Int
        BY <1>0, DelayAssumption, BoundAssumption DEF TypeOK
      <3>2. ahead \in 0..(RMod - 1)
        BY <3>1, ModType, BoundAssumption
      <3> QED BY <3>2, BoundAssumption
    <2>2. d \in Nat \cup {-1}
      BY <2>1
    <2>3. /\ MayCall /\ Prepare(u) /\ Search(u, d)
          /\ UNCHANGED <<stop_cpu, local, drift>>
      BY <1>4 DEF SimActivateNotBefore
    <2> HIDE DEF d
    <2> QED BY <1>0, <2>2, <2>3, SearchStarts DEF TypeOK
  <1>5. CASE ActivateAtHead
    BY <1>0, <1>5, HeadPush
  <1>6. CASE SearchOn
    BY <1>0, <1>6, SearchGoesOn
  <1>7. CASE Insert
    BY <1>0, <1>7, InsertKeeps
  <1>8. CASE NoticeStop
    <2>1. ListInv'
      BY <1>0, <1>8, SameList DEF NoticeStop, Inv, ListInv, clock
    <2> QED BY <1>0, <1>8, <2>1 DEF NoticeStop, Inv, IntervalInv, clock, local
  <1>9. CASE QueueEmpty
    <2>1. ListInv'
      BY <1>0, <1>9, SameList, BoundAssumption DEF QueueEmpty, Inv
    <2> QED BY <1>0, <1>9, <2>1, BoundAssumption
            DEF QueueEmpty, Inv, IntervalInv, local
  <1>10. CASE StartDispatch
    <2>1. /\ queue # <<>> /\ queue' = queue /\ noqueue_time' = noqueue_time
          /\ time' = [time EXCEPT ![Head(queue)] = 0]
          /\ left' = LeftAfter(HeadTime)
          /\ pc = "poll" /\ pc' = "pop" /\ sim_interval' = 0 /\ catchup' = sim_interval
      BY <1>10 DEF StartDispatch
    <2>2. Head(queue) \in Unit /\ HeadTime = time[Head(queue)]
      BY <1>0, <2>1 DEF TypeOK, HeadTime
    <2>3. left' = LeftAfter(time[Head(queue)] - 0)
      <3>1. time[Head(queue)] \in Int
        BY <1>0, <2>2 DEF TypeOK
      <3>2. time[Head(queue)] - 0 = HeadTime
        BY <2>2, <3>1
      <3> QED BY <2>1, <3>2
    <2>4. Chain(queue', time', left')
      <3>1. Chain(queue, time, left)
        BY <1>0 DEF Inv, ListInv
      <3>2. 0 \in Int
        OBVIOUS
      <3> QED BY <1>0, <2>1, <2>3, <3>1, <3>2, HeadSet
    <2>5. time' \in [Unit -> Nat] /\ noqueue_time' \in Nat
      BY <1>0, <2>1 DEF Inv, ListInv
    <2>6. time'[Head(queue')] = 0
      BY <1>0, <2>1, <2>2 DEF TypeOK
    <2>7. catchup' \in {-1, 0}
      <3>1. sim_interval \in Int /\ sim_interval >= -1 /\ sim_interval <= 0
        BY <1>0, <2>1 DEF Inv, IntervalInv, TypeOK
      <3> QED BY <2>1, <3>1
    <2> QED BY <2>1, <2>4, <2>5, <2>6, <2>7 DEF Inv, ListInv, IntervalInv
  <1>11. CASE PopHead
    BY <1>0, <1>11, PopKeeps
  <1>12. ASSUME NEW r \in ActionResults, ActionReturns(r) PROVE Inv'
    <2>1. ListInv'
      BY <1>0, <1>12, SameList DEF ActionReturns, Inv, ListInv, clock
    <2> QED BY <1>0, <1>12, <2>1 DEF ActionReturns, Inv, IntervalInv, clock
  <1>13. CASE CatchUp \/ ReadPastEnd
    BY <1>0, <1>13 DEF CatchUp, ReadPastEnd, Behind, Inv, IntervalInv
  <1>14. CASE CaughtUp
    <2>1. ListInv'
      BY <1>0, <1>14, SameList DEF CaughtUp, Inv, ListInv, clock
    <2>2. sim_interval' = sim_interval /\ queue' = queue /\ time' = time
          /\ catchup' = 0 /\ stop_cpu' = stop_cpu /\ sim_interval \in Int
      BY <1>0, <1>14 DEF CaughtUp, clock, TypeOK
    <2>3. sim_interval >= 0 /\ pc = "after"
      BY <1>0, <1>14 DEF CaughtUp, Inv, IntervalInv
    <2>4. CASE Goes
      <3>1. pc' = "pop" /\ queue # <<>> /\ ~stop_cpu /\ sim_interval + 0 <= 0
        BY <1>14, <2>2, <2>4 DEF CaughtUp, Goes
      <3>2. sim_interval = time[Head(queue)]
        BY <1>0, <2>3, <3>1 DEF Inv, IntervalInv
      <3>3. sim_interval = 0
        BY <2>2, <2>3, <3>1
      <3> QED BY <2>1, <2>2, <3>1, <3>2, <3>3 DEF Inv, IntervalInv
    <2>5. CASE ~Goes
      <3>1. pc' = "exit"
        BY <1>14, <2>5 DEF CaughtUp
      <3> QED BY <2>1, <2>2, <2>3, <3>1 DEF Inv, IntervalInv
    <2> QED BY <2>4, <2>5
  <1>15. CASE EndDispatch
    <2>1. ListInv'
      BY <1>0, <1>15, SameList, BoundAssumption DEF EndDispatch, Inv, ListInv
    <2>2. /\ pc = "exit" /\ pc' \in {"exec", "return"} /\ catchup' = 0
          /\ sim_interval' \in {sim_interval, NOQUEUE_WAIT}
      BY <1>15 DEF EndDispatch
    <2>3. sim_interval' \in Nat
      BY <1>0, <2>2, BoundAssumption DEF Inv, IntervalInv, TypeOK
    <2> QED BY <2>1, <2>2, <2>3 DEF Inv, IntervalInv
  <1>16. ASSUME NEW n \in 1..MaxStep, CountDown(n) PROVE Inv'
    <2>1. ListInv'
      BY <1>0, <1>16, SameList DEF CountDown, Inv, ListInv
    <2> QED BY <1>0, <1>16, <2>1 DEF CountDown, Inv, IntervalInv, local, TypeOK
  <1>h. CASE Halt
    <2>1. ListInv'
      BY <1>0, <1>h, SameList DEF Halt, Inv, ListInv, clock
    <2>2. /\ pc = "exec" /\ pc' = "return"
          /\ sim_interval' = sim_interval /\ catchup' = catchup
      BY <1>h DEF Halt, clock, local
    <2>3. sim_interval \in Nat /\ catchup \in {-1, 0}
      BY <1>0, <2>2 DEF Inv, IntervalInv, TypeOK
    <2> QED BY <2>1, <2>2, <2>3 DEF Inv, IntervalInv
  <1>17. CASE Interrupt
    <2>1. ListInv'
      BY <1>0, <1>17, SameList DEF Interrupt, Inv, ListInv
    <2>2. SearchInv' <=> SearchInv
      BY <1>17 DEF Interrupt, SearchInv, Queued
    <2>3. IntervalInv'
      BY <1>0, <1>17 DEF Interrupt, Inv, IntervalInv, local
    <2> QED BY <1>0, <1>17, <2>1, <2>2, <2>3 DEF Interrupt, Inv
  <1>18. CASE EndRun
    <2>1. pc = "return" /\ pc' = "scp" /\ queue' = queue /\ catchup' = catchup
      BY <1>18 DEF EndRun, local
    <2>2. sim_interval' \in Nat
      BY <1>0, <1>18 DEF EndRun, TypeOK
    <2>3. time' \in [Unit -> Nat] /\ noqueue_time' \in Nat
      BY <1>0, <1>18, <2>2 DEF EndRun, Inv, ListInv
    <2>4. Chain(queue', time', left')
      <3>1. CASE queue = <<>>
        BY <2>1, <3>1, EmptyChain
      <3>2. CASE queue # <<>>
        <4>1. /\ time' = [time EXCEPT ![Head(queue)] = sim_interval']
              /\ left' = LeftAfter(time[Head(queue)] - sim_interval')
          BY <1>18, <3>2 DEF EndRun, HeadTime
        <4>2. sim_interval' \in Int
          BY <2>2
        <4> QED BY <1>0, <2>1, <3>2, <4>1, <4>2, HeadSet DEF Inv, ListInv
      <3> QED BY <3>1, <3>2
    <2>5. IntervalInv'
      BY <1>0, <2>1, <2>2 DEF Inv, IntervalInv
    <2> QED BY <2>1, <2>3, <2>4, <2>5 DEF Inv, ListInv
  <1>19. CASE Continue
    <2>1. ListInv'
      BY <1>0, <1>19, SameList DEF Continue, Inv, ListInv, clock
    <2>2. /\ sim_interval' = sim_interval /\ catchup' = catchup /\ pc = "scp"
          /\ pc' = IF sim_interval <= 0 THEN "poll" ELSE "exec"
      BY <1>19 DEF Continue, clock, local
    <2>3. sim_interval \in Nat /\ catchup \in {-1, 0}
      BY <1>0, <2>2 DEF Inv, IntervalInv, TypeOK
    <2> QED BY <2>1, <2>2, <2>3 DEF Inv, IntervalInv
  <1>20. CASE UNCHANGED vars
    <2>1. ListInv'
      BY <1>0, <1>20, SameList DEF vars, Inv, ListInv, clock
    <2>2. SearchInv' <=> SearchInv
      BY <1>20 DEF vars, clock, SearchInv, Queued
    <2> QED BY <1>0, <1>20, <2>1, <2>2 DEF vars, clock, local, Inv, IntervalInv
  <1> QED BY <1>0, <1>1, <1>2, <1>3, <1>4, <1>5, <1>6, <1>7, <1>8, <1>9, <1>10,
             <1>11, <1>12, <1>13, <1>14, <1>15, <1>16, <1>17, <1>h, <1>18, <1>19, <1>20
          DEF Next, Call, SearchStep, ProcessStep, RunStep

-----------------------------------------------------------------------------
(* Order: what each way to change the list does to units that stay on it *)

InOrder(s, x, y) == \E i, j \in 1..Len(s) : i < j /\ s[i] = x /\ s[j] = y

\* Taking an element out of a list, or putting one in, keeps the order of the others.
LEMMA OrderWithout ==
  ASSUME NEW s, NEW r, NEW p, NEW x, NEW y,
         Len(s) \in Nat, p \in 1..Len(s), Without(r, s, p),
         \A i, j \in 1..Len(s) : s[i] = s[j] => i = j,
         InOrder(s, x, y),
         \E i \in 1..Len(r) : r[i] = x, \E i \in 1..Len(r) : r[i] = y
  PROVE  InOrder(r, x, y)
  <1>1. PICK i \in 1..Len(s), j \in 1..Len(s) : i < j /\ s[i] = x /\ s[j] = y
    BY DEF InOrder
  <1>2. ASSUME NEW k \in 1..Len(r) PROVE r[k] # s[p]
    BY <1>2 DEF Without
  <1>3. i # p /\ j # p
    BY <1>1, <1>2
  <1> DEFINE new(k) == IF k < p THEN k ELSE k - 1
  <1>4. ASSUME NEW k \in 1..Len(s), k # p
        PROVE  new(k) \in 1..Len(r) /\ r[new(k)] = s[k]
    BY <1>4 DEF Without
  <1>5. new(i) \in 1..Len(r) /\ r[new(i)] = x
    BY <1>1, <1>3, <1>4
  <1>6. new(j) \in 1..Len(r) /\ r[new(j)] = y
    BY <1>1, <1>3, <1>4
  <1>7. new(i) < new(j)
    BY <1>1, <1>3
  <1> QED BY <1>5, <1>6, <1>7 DEF InOrder

LEMMA OrderWith ==
  ASSUME NEW s, NEW r, NEW p, NEW e, NEW x, NEW y,
         Len(s) \in Nat, p \in 1..(Len(s) + 1), With(r, s, p, e),
         InOrder(s, x, y)
  PROVE  InOrder(r, x, y)
  <1>1. PICK i \in 1..Len(s), j \in 1..Len(s) : i < j /\ s[i] = x /\ s[j] = y
    BY DEF InOrder
  <1> DEFINE new(k) == IF k < p THEN k ELSE k + 1
  <1>2. ASSUME NEW k \in 1..Len(s)
        PROVE  new(k) \in 1..Len(r) /\ r[new(k)] = s[k]
    BY DEF With
  <1>3. new(i) \in 1..Len(r) /\ r[new(i)] = x
    BY <1>1, <1>2
  <1>4. new(j) \in 1..Len(r) /\ r[new(j)] = y
    BY <1>1, <1>2
  <1>5. new(i) < new(j)
    BY <1>1
  <1> QED BY <1>3, <1>4, <1>5 DEF InOrder

OrderKept == \A x, y \in Queued :
                Before(x, y) /\ {x, y} \subseteq Queued' => Before(x, y)'

\* The same for the units on the queue, and when it does not change.
LEMMA KeptWithout ==
  ASSUME TypeOK, Inv, NEW p \in 1..Len(queue), Without(queue', queue, p)
  PROVE  OrderKept
  <1>1. Len(queue) \in Nat
    BY DEF TypeOK
  <1>2. \A i, j \in 1..Len(queue) : queue[i] = queue[j] => i = j
    BY DEF Inv, ListInv, Chain
  <1>3. SUFFICES ASSUME NEW x \in Queued, NEW y \in Queued, Before(x, y),
                        x \in Queued', y \in Queued'
                 PROVE  Before(x, y)'
    BY DEF OrderKept
  <1>4. InOrder(queue, x, y)
    BY <1>3 DEF Before, InOrder
  <1>5. /\ \E i \in 1..Len(queue') : queue'[i] = x
        /\ \E i \in 1..Len(queue') : queue'[i] = y
    BY <1>3 DEF Queued
  <1>6. InOrder(queue', x, y)
    BY <1>1, <1>2, <1>4, <1>5, OrderWithout
  <1> QED BY <1>6 DEF Before, InOrder

LEMMA KeptWith ==
  ASSUME TypeOK, NEW p \in 1..(Len(queue) + 1), NEW e, With(queue', queue, p, e)
  PROVE  OrderKept
  <1>1. Len(queue) \in Nat
    BY DEF TypeOK
  <1>2. SUFFICES ASSUME NEW x \in Queued, NEW y \in Queued, Before(x, y)
                 PROVE  Before(x, y)'
    BY DEF OrderKept
  <1>3. InOrder(queue, x, y)
    BY <1>2 DEF Before, InOrder
  <1>4. InOrder(queue', x, y)
    BY <1>1, <1>3, OrderWith
  <1> QED BY <1>4 DEF Before, InOrder

LEMMA KeptSame ==
  ASSUME UNCHANGED queue
  PROVE  OrderKept
  BY DEF OrderKept, Before

\* sim_cancel takes one element out; _sim_activate puts one in.
LEMMA DequeueWithout ==
  ASSUME TypeOK, NEW u \in Queued, Dequeue(u)
  PROVE  Position(u) \in 1..Len(queue) /\ Without(queue', queue, Position(u))
  <1>1. queue \in Seq(Unit) /\ Position(u) \in 1..Len(queue)
    BY PositionType DEF TypeOK
  <1> QED BY <1>1, RemovedAt DEF Dequeue, Without

LEMMA InsertWith ==
  ASSUME TypeOK, Inv, Insert
  PROVE  /\ act.pos \in 1..(Len(queue) + 1)
         /\ With(queue', queue, act.pos, act.unit)
  <1> DEFINE p == act.pos
             e == act.unit
  <1>1. queue \in Seq(Unit) /\ p \in 1..(Len(queue) + 1) /\ e \in Unit
    BY DEF TypeOK, Inv, Insert, SearchInv
  <1>2. queue' = InsertAt(queue, p, e)
    BY DEF Insert
  <1> HIDE DEF p, e
  <1>3. With(InsertAt(queue, p, e), queue, p, e)
    <2>1. /\ Len(InsertAt(queue, p, e)) = Len(queue) + 1
          /\ \A i \in 1..(Len(queue) + 1) :
                InsertAt(queue, p, e)[i] = IF i < p THEN queue[i]
                                           ELSE IF i = p THEN e ELSE queue[i - 1]
      BY <1>1, InsertedAt
    <2> QED BY <2>1 DEF With
  <1>4. With(queue', queue, p, e)
    BY <1>2, <1>3
  <1> QED BY <1>1, <1>4 DEF p, e

\* No step swaps two units that stay on the queue.
LEMMA OrderStep == TypeOK /\ Inv /\ [Next]_vars => OrderKept
  <1>0. SUFFICES ASSUME TypeOK, Inv, [Next]_vars PROVE OrderKept
    OBVIOUS
  <1>1. ASSUME NEW u \in Unit, Dequeue(u), u \in Queued PROVE OrderKept
    BY <1>0, <1>1, DequeueWithout, KeptWithout
  <1>2. ASSUME NEW u \in Unit, Prepare(u) PROVE OrderKept
    BY <1>1, <1>2, KeptSame DEF Prepare
  <1>3. CASE Call
    <2>1. \/ UNCHANGED queue
          \/ \E u \in Unit : Prepare(u) \/ (u \in Queued /\ Dequeue(u))
      BY <1>3
         DEF Call, SimActivate, SimActivateAbs, SimActivateNotBefore, SimCancel,
             clock
    <2> QED BY <2>1, <1>1, <1>2, KeptSame
  <1>4. CASE Insert
    BY <1>0, <1>4, InsertWith, KeptWith
  <1>5. CASE ActivateAtHead
    <2>1. queue \in Seq(Unit) /\ act.unit \in Unit
      BY <1>0, <1>5 DEF ActivateAtHead, TypeOK, Inv, SearchInv
    <2>2. With(queue', queue, 1, act.unit) /\ 1 \in 1..(Len(queue) + 1)
      BY <1>5, <2>1 DEF ActivateAtHead, With
    <2> QED BY <1>0, <2>2, KeptWith
  <1>6. CASE PopHead
    <2>1. queue \in Seq(Unit) /\ queue # <<>>
      BY <1>0, <1>6 DEF PopHead, TypeOK, Inv, IntervalInv
    <2>2. 1 \in 1..Len(queue) /\ Without(queue', queue, 1)
      BY <1>6, <2>1 DEF PopHead, Without
    <2> QED BY <1>0, <2>2, KeptWithout
  <1>7. CASE SearchOn \/ NoticeStop \/ QueueEmpty \/ StartDispatch \/ CatchUp
             \/ CaughtUp \/ ReadPastEnd \/ EndDispatch \/ RunStep \/ Halt
             \/ Interrupt \/ EndRun \/ Continue \/ UNCHANGED vars
             \/ \E r \in ActionResults : ActionReturns(r)
    <2>1. UNCHANGED queue
      BY <1>7
         DEF SearchOn, NoticeStop, QueueEmpty, StartDispatch, CatchUp, CaughtUp,
             ReadPastEnd, EndDispatch, RunStep, CountDown, Halt, Interrupt,
             EndRun, Continue, ActionReturns, vars, clock
    <2> QED BY <2>1, KeptSame
  <1> QED BY <1>0, <1>3, <1>4, <1>5, <1>6, <1>7
          DEF Next, SearchStep, ProcessStep

\* The unit a search places comes behind exactly the units due no later.
LEMMA PlacedStep ==
  ASSUME TypeOK, TypeOK', Inv, Inv', Insert, NEW w \in Queued, NEW e, e = act.unit
  PROVE  Before(w, e)' <=> left[w] <= act.delay
  <1> DEFINE p == act.pos
             d == act.delay
  <1>1. /\ p \in 1..(Len(queue) + 1) /\ With(queue', queue, p, e)
    BY InsertWith
  <1>2. /\ Len(queue) \in Nat /\ d \in Int
        /\ \A i \in 1..Len(queue) : left[queue[i]] \in Int
        /\ \A i \in 1..Len(queue) : time[queue[i]] \in Int
    <2>1. /\ queue \in Seq(Unit) /\ d \in Int
          /\ left \in [Unit -> Int] /\ time \in [Unit -> Int]
      BY DEF TypeOK
    <2> HIDE DEF d
    <2> QED BY <2>1, Members
  <1>3. PICK k \in 1..Len(queue) : queue[k] = w
    BY DEF Queued
  <1>4. /\ \A i, j \in 1..Len(queue) : i < j => left[queue[i]] <= left[queue[j]]
        /\ \A i \in 1..Len(queue) :
              left[queue[i]] = time[queue[i]] + IF i = 1 THEN 0 ELSE left[queue[i - 1]]
    BY DEF Inv, ListInv, Chain
  <1>5. \A i, j \in 1..Len(queue') : queue'[i] = queue'[j] => i = j
    BY DEF Inv, ListInv, Chain
  <1>6. /\ p > 1 => left[queue[p - 1]] <= d
        /\ act.accum = IF p = 1 THEN 0 ELSE left[queue[p - 1]]
        /\ p <= Len(queue) => d < act.accum + time[queue[p]]
    <2>1. SearchInv
      BY DEF Inv, Insert
    <2>2. p <= Len(queue) => d < act.accum + time[queue[p]]
      BY DEF Insert, PlaceFound
    <2>3. act.accum = IF p = 1 THEN 0 ELSE left[queue[p - 1]]
      BY <2>1 DEF SearchInv
    <2>4. p > 1 => act.accum <= d
      BY <2>1 DEF SearchInv
    <2>5. p > 1 => p # 1
      BY <1>1
    <2> QED BY <2>2, <2>3, <2>4, <2>5
  <1> HIDE DEF p, d
  <1>7. CASE k < p
    <2>1. k \in 1..Len(queue') /\ p \in 1..Len(queue') /\ queue'[k] = w /\ queue'[p] = e
      BY <1>1, <1>2, <1>3, <1>7 DEF With
    <2>2. Before(w, e)'
      BY <1>7, <2>1 DEF Before
    <2>3. left[w] <= d
      <3>1. p > 1 /\ p - 1 \in 1..Len(queue) /\ k <= p - 1 /\ left[queue[p - 1]] <= d
        BY <1>1, <1>2, <1>6, <1>7
      <3>2. left[queue[k]] \in Int /\ left[queue[p - 1]] \in Int
        BY <1>2, <3>1
      <3>3. k = p - 1 \/ left[queue[k]] <= left[queue[p - 1]]
        BY <1>4, <3>1
      <3>4. left[queue[k]] <= d
        BY <3>1, <3>2, <3>3, <1>2
      <3> QED BY <3>4, <1>3
    <2> QED BY <2>2, <2>3 DEF d
  <1>8. CASE k >= p
    <2>1. k + 1 \in 1..Len(queue') /\ p \in 1..Len(queue')
          /\ queue'[k + 1] = w /\ queue'[p] = e /\ k + 1 > p
      <3>1. /\ k + 1 \in 1..(Len(queue) + 1) /\ p \in 1..(Len(queue) + 1)
            /\ k + 1 > p /\ (k + 1) - 1 = k /\ Len(queue') = Len(queue) + 1
        BY <1>1, <1>2, <1>8 DEF With
      <3>2. queue'[k + 1] = queue[k] /\ queue'[p] = e
        BY <3>1, <1>1 DEF With
      <3> QED BY <3>1, <3>2, <1>3
    <2>2. ~Before(w, e)'
      BY <2>1, <1>5 DEF Before
    <2>3. ~(left[w] <= d)
      <3>1. p \in 1..Len(queue) /\ p <= k /\ d < act.accum + time[queue[p]]
        BY <1>1, <1>2, <1>6, <1>8
      <3>2. left[queue[p]] = time[queue[p]] + act.accum
        BY <3>1, <1>4, <1>6
      <3>3. left[queue[p]] \in Int /\ left[queue[k]] \in Int /\ time[queue[p]] \in Int
        BY <3>1, <1>2
      <3>4. p = k \/ left[queue[p]] <= left[queue[k]]
        BY <3>1, <1>4
      <3>5. act.accum \in Int
        BY DEF TypeOK
      <3>6. d < left[queue[p]]
        BY <3>1, <3>2, <3>3, <3>5
      <3>7. d < left[queue[k]]
        BY <3>3, <3>4, <3>6, <1>2
      <3> QED BY <3>3, <3>7, <1>2, <1>3
    <2> QED BY <2>2, <2>3 DEF d
  <1>9. k < p \/ k >= p
    BY <1>1
  <1> QED BY <1>7, <1>8, <1>9

-----------------------------------------------------------------------------
(* Theorems *)

\* The invariant holds in every behaviour.
LEMMA SpecInv == MaxStep = 1 => (Spec => [](TypeOK /\ Inv))
  <1>1. SUFFICES ASSUME MaxStep = 1 PROVE Spec => [](TypeOK /\ Inv)
    OBVIOUS
  <1>2. Init => TypeOK /\ Ready /\ Inv
    BY TypeInit, InvInit DEF Init, Ready
  <1>3. (TypeOK /\ Ready /\ Inv) /\ [Next]_vars => (TypeOK /\ Ready /\ Inv)'
    BY <1>1, TypeStep, ReadyStep, InvStep
  <1> QED BY <1>2, <1>3, PTL DEF Spec

\* On a processor that counts one per instruction and never idles the list is
\* always what the queue calls asked for, whatever calls are made and whenever ^C
\* comes between two steps of the model or inside the decrement of sim_interval.
THEOREM ListCorrect == MaxStep = 1 => (Spec => []DeltasAreDueTimes)
  <1>1. SUFFICES ASSUME MaxStep = 1 PROVE Spec => []DeltasAreDueTimes
    OBVIOUS
  <1>2. TypeOK /\ Inv => DeltasAreDueTimes
    BY DEF Inv, ListInv, Chain, DeltasAreDueTimes
  <1>3. Spec => [](TypeOK /\ Inv)
    BY <1>1, SpecInv
  <1> QED BY <1>2, <1>3, PTL

\* A dispatch is a PopHead step.
LEMMA DispatchPops == Dispatch /\ [Next]_vars => PopHead
  <1>1. SUFFICES ASSUME Dispatch, [Next]_vars PROVE PopHead
    OBVIOUS
  <1>2. pc = "pop" /\ pc' = "action"
    BY <1>1 DEF Dispatch
  <1>3. ~Call
    BY <1>2 DEF Call, SimActivate, SimActivateAbs, SimActivateNotBefore,
                SimCancel, MayCall
  <1>4. ~SearchStep /\ ~RunStep /\ ~Halt /\ ~EndRun /\ ~Continue
    BY <1>2 DEF SearchStep, ActivateAtHead, SearchOn, Insert, RunStep, CountDown,
                Halt, EndRun, Continue
  <1>5. ~Interrupt /\ ~UNCHANGED vars
    BY <1>2 DEF Interrupt, vars
  <1>6. ProcessStep => PopHead
    BY <1>2 DEF ProcessStep, NoticeStop, QueueEmpty, StartDispatch, ActionReturns,
                CatchUp, CaughtUp, ReadPastEnd, EndDispatch
  <1> QED BY <1>1, <1>3, <1>4, <1>5, <1>6 DEF Next

\* PopHead finds the head due.
LEMMA OnTimeStep ==
  ASSUME TypeOK, TypeOK', Inv, [Next]_vars
  PROVE  [Dispatch => left[Head(queue)] = Elapsed']_vars
  BY DispatchPops, PopKeeps

\* On such a processor every unit is dispatched at the simulated time it was
\* scheduled for.
THEOREM DispatchedOnTime == MaxStep = 1 => (Spec => OnTime)
  <1>1. SUFFICES ASSUME MaxStep = 1 PROVE Spec => OnTime
    OBVIOUS
  <1>2. Spec => [](TypeOK /\ Inv)
    BY <1>1, SpecInv
  <1>3. (TypeOK /\ Inv) /\ (TypeOK /\ Inv)' /\ [Next]_vars
           => [Dispatch => left[Head(queue)] = Elapsed']_vars
    BY OnTimeStep
  <1> QED BY <1>2, <1>3, PTL DEF Spec, OnTime

\* An insertion is an Insert step, which puts the unit in its place.
LEMMA InsertsStep ==
  ASSUME TypeOK, TypeOK', Inv, Inv', [Next]_vars, NEW v \in Unit, Inserts(v)
  PROVE  \A w \in Queued : Before(w, v)' <=> left[w] <= act.delay
  <1>1. pc = "search" /\ pc' # "search" /\ act.unit = v /\ act.delay # -1
    BY DEF Inserts
  <1>2. ~Call /\ ~ProcessStep
    BY <1>1 DEF Call, SimActivate, SimActivateAbs, SimActivateNotBefore,
                SimCancel, MayCall, ProcessStep, NoticeStop, QueueEmpty,
                StartDispatch, PopHead, ActionReturns, CatchUp, CaughtUp,
                ReadPastEnd, EndDispatch
  <1>3. /\ ~RunStep /\ ~Halt /\ ~EndRun /\ ~Continue /\ ~Interrupt
        /\ ~UNCHANGED vars
    BY <1>1 DEF RunStep, CountDown, Halt, EndRun, Continue, Interrupt, vars
  <1>4. Insert
    BY <1>1, <1>2, <1>3 DEF Next, SearchStep, ActivateAtHead, SearchOn
  <1> QED BY <1>1, <1>4, PlacedStep

\* On such a processor units due at the same time are dispatched in the order
\* they were activated, and units that stay on the list stay in their order.
THEOREM DispatchedInOrder == MaxStep = 1 => (Spec => ArrivalOrder)
  <1>1. SUFFICES ASSUME MaxStep = 1 PROVE Spec => ArrivalOrder
    OBVIOUS
  <1>2. Spec => [](TypeOK /\ Inv)
    BY <1>1, SpecInv
  <1>3. (TypeOK /\ Inv) /\ (TypeOK /\ Inv)' /\ [Next]_vars
           => [ /\ \A v \in Unit : Inserts(v) =>
                      \A w \in Queued : Before(w, v)' <=> left[w] <= act.delay
                /\ \A x, y \in Queued :
                      Before(x, y) /\ {x, y} \subseteq Queued' => Before(x, y)' ]_vars
    BY InsertsStep, OrderStep DEF OrderKept
  <1> QED BY <1>2, <1>3, PTL DEF Spec, ArrivalOrder
=============================================================================
