----------------------- MODULE EventQueueRefines_proofs -----------------------
(***************************************************************************)
(* Proofs about EventQueueRefines, and about simulated time in EventQueue, *)
(* for a processor that counts one per instruction and never idles, whose  *)
(* instructions ask for a delay of at least one, and that nobody           *)
(* interrupts.                                                             *)
(***************************************************************************)
EXTENDS EventQueueRefines, EventQueue_proofs

\* No poll comes late on such a processor.
Punctual ==
    /\ MaxStep = 1 /\ ~Interrupts /\ Deadlines = {}
    /\ ExecDelays \subseteq Nat \ {0}

\* Between two instructions sim_interval is at least 1, and sim_process_event
\* comes back to them only with the interval used up and renewed. While the
\* list is worked on no instruction is executed that sim_time lacks.
TimeInv ==
    /\ drift = 0 /\ ~stop_cpu
    /\ sim_interval >= IF pc = "exec" THEN 1 ELSE 0
    /\ pc \in {"search", "pop", "action", "after", "exit"} => Elapsed = 0
    /\ pc = "search" => /\ act.delay <= MaxDelay
                        /\ act.ret = "exec" => act.delay >= 1 /\ HeadTime >= 1
    /\ pc = "exit" /\ reason = "OK" => queue = <<>> \/ sim_interval >= 1
    /\ Routine => cur \in Unit
-----------------------------------------------------------------------------
(* The time until a unit is due *)

\* _sim_activate_queue_time returns what is left until the unit's due time.
LEMMA QueueTimeIs ==
  ASSUME TypeOK, Inv, TimeInv, NEW u \in Queued
  PROVE  QueueTime(u) = left[u] - Elapsed
  <1> DEFINE n == Len(queue)
             first == IF pc = "search" THEN HeadTime
                      ELSE IF sim_interval > 0 THEN sim_interval ELSE 0
             Eqn(s) == s = [i \in 1..n |-> IF i = 1 THEN first
                                            ELSE s[i - 1] + time[queue[i]]]
             accum == CHOOSE s : Eqn(s)
             f == [i \in 1..n |-> left[queue[i]] - Elapsed]
  <1>1. Position(u) \in 1..n /\ queue[Position(u)] = u
    BY PositionType
  <1>2. /\ n \in Nat /\ queue # <<>> /\ Head(queue) = queue[1] /\ 1 \in 1..n
        /\ \A i \in 1..n : left[queue[i]] \in Int /\ time[queue[i]] \in Int
        /\ sim_interval \in Int /\ Elapsed \in Int
    <2>1. queue \in Seq(Unit) /\ left \in [Unit -> Int] /\ time \in [Unit -> Int]
      BY DEF TypeOK
    <2>2. sim_interval \in Int /\ Elapsed \in Int
      BY ElapsedType DEF TypeOK
    <2>3. /\ n \in Nat
          /\ \A i \in 1..n : left[queue[i]] \in Int /\ time[queue[i]] \in Int
      BY <2>1, Members
    <2>4. n # 0 /\ 1 \in 1..n
      BY <1>1, <2>3
    <2> QED BY <2>1, <2>2, <2>3, <2>4
  <1>3. Elapsed = time[queue[1]] - sim_interval
    BY <1>2 DEF Elapsed, HeadTime
  <1>4. \A i \in 1..n : left[queue[i]] = time[queue[i]]
                           + IF i = 1 THEN 0 ELSE left[queue[i - 1]]
    BY DEF Inv, ListInv, Chain
  <1>5. first = left[queue[1]] - Elapsed
    <2>1. left[queue[1]] = time[queue[1]]
      BY <1>2, <1>4
    <2>2. sim_interval >= 0 /\ pc = "search" => Elapsed = 0
      BY DEF TimeInv
    <2>3. sim_interval >= 0
      BY <1>2 DEF TimeInv
    <2>4. pc = "search" => HeadTime = time[queue[1]]
      BY <1>2 DEF HeadTime
    <2> QED BY <1>2, <1>3, <2>1, <2>2, <2>3, <2>4
  <1>6. \A i \in 1..n : f[i] = IF i = 1 THEN first ELSE f[i - 1] + time[queue[i]]
    <2>1. ASSUME NEW i \in 1..n, i # 1
          PROVE  f[i] = f[i - 1] + time[queue[i]]
      <3>1. i - 1 \in 1..n
        BY <2>1, <1>2
      <3>2. left[queue[i]] = time[queue[i]] + left[queue[i - 1]]
        BY <2>1, <1>4
      <3>3. /\ f[i] = left[queue[i]] - Elapsed
            /\ f[i - 1] = left[queue[i - 1]] - Elapsed
        BY <3>1
      <3>4. left[queue[i - 1]] \in Int /\ time[queue[i]] \in Int
        BY <3>1, <1>2
      <3>5. \A x, y, z \in Int : (x + y) - z = (y - z) + x
        OBVIOUS
      <3> HIDE DEF f
      <3> QED BY <3>2, <3>3, <3>4, <3>5, <1>2
    <2>2. f[1] = first
      BY <1>2, <1>5
    <2> HIDE DEF f, first
    <2> QED BY <2>1, <2>2
  <1>7. Eqn(f)
    <2>1. f = [i \in 1..n |-> f[i]]
      OBVIOUS
    <2> HIDE DEF f, first
    <2> QED BY <1>6, <2>1
  <1>8. Eqn(accum)
    BY <1>7
  <1>9. QueueTime(u) = accum[Position(u)]
    BY DEF QueueTime
  <1> HIDE DEF accum
  <1>10. \A i \in 1..n : accum[i] = IF i = 1 THEN first
                                    ELSE accum[i - 1] + time[queue[i]]
    <2> HIDE DEF first
    <2> QED BY <1>8
  <1>11. \A i \in 1..n : f[i] = accum[i]
    <2> DEFINE t == [i \in 1..n |-> time[queue[i]]]
    <2>1. \A i \in 1..n : t[i] = time[queue[i]]
      OBVIOUS
    <2> HIDE DEF f, first, t, n
    <2>2. Sums(f, n, first, t) /\ Sums(accum, n, first, t)
      BY <2>1, <1>6, <1>10 DEF Sums
    <2> QED BY <2>2, <1>2, SumsAgree
  <1> QED BY <1>1, <1>9, <1>11
-----------------------------------------------------------------------------
(* What the changes of the list do to what is left until a due time *)

\* No unit waits for a due time before that of the head.
LEMMA HeadFirst ==
  ASSUME TypeOK, Inv, NEW u \in Queued
  PROVE  left[u] >= HeadTime
  <1>1. PICK i \in 1..Len(queue) : queue[i] = u
    BY DEF Queued
  <1>2. queue \in Seq(Unit) /\ left \in [Unit -> Int] /\ time \in [Unit -> Int]
    BY DEF TypeOK
  <1>3. 1 \in 1..Len(queue) /\ Head(queue) = queue[1] /\ queue # <<>>
    BY <1>1, <1>2
  <1>4. left[queue[1]] = time[queue[1]]
    <2>1. left[queue[1]] = time[queue[1]] + IF 1 = 1 THEN 0 ELSE left[queue[0]]
      BY <1>3 DEF Inv, ListInv, Chain
    <2> QED BY <2>1, <1>2, <1>3
  <1>5. i = 1 \/ left[queue[1]] <= left[queue[i]]
    BY <1>1, <1>3 DEF Inv, ListInv, Chain
  <1>6. left[queue[i]] \in Int /\ left[queue[1]] \in Int
    BY <1>1, <1>2, <1>3
  <1> QED BY <1>1, <1>3, <1>4, <1>5, <1>6 DEF HeadTime

\* sim_cancel brings sim_time to the present, and the due times of the other
\* units stay. The new head is due no earlier than the old one.
LEMMA DequeueTime ==
  ASSUME TypeOK, ListOK', Inv, sim_interval \in Nat, NEW u \in Queued, Dequeue(u)
  PROVE  /\ Elapsed' = 0 /\ sim_interval' = HeadTime'
         /\ sim_interval >= 1 => HeadTime' >= 1
         /\ Queued' = Queued \ {u}
         /\ \A w \in Queued' : left'[w] = left[w] - Elapsed
  <1> DEFINE p == Position(u)
  <1>1. queue \in Seq(Unit) /\ p \in 1..Len(queue) /\ queue[p] = u
    BY PositionType DEF TypeOK
  <1>2. Without(queue', queue, p) /\ queue' \in Seq(Unit)
    BY DequeueWithout DEF ListOK
  <1>3. time \in [Unit -> Nat] /\ noqueue_time \in Nat
    BY DEF Inv, ListInv
  <1>4. TimeNow \in [Unit -> Nat]
    BY <1>3, NowNat
  <1>5. \A i, j \in 1..Len(queue) : queue[i] = queue[j] => i = j
    BY DEF Inv, ListInv, Chain
  <1>6. Len(queue) \in Nat /\ Len(queue') = Len(queue) - 1
    BY <1>1, <1>2 DEF Without
  <1>7. Queued' = Queued \ {u}
    <2>1. ASSUME NEW w \in Queued' PROVE w \in Queued /\ w # u
      <3>1. PICK i \in 1..Len(queue') : queue'[i] = w
        BY DEF Queued
      <3>2. queue'[i] = IF i < p THEN queue[i] ELSE queue[i + 1]
        BY <1>2, <1>6 DEF Without
      <3>3. CASE i < p
        <4>1. i \in 1..Len(queue) /\ i # p /\ queue[i] = w
          BY <3>1, <3>2, <3>3, <1>6
        <4> QED BY <4>1, <1>1, <1>5 DEF Queued
      <3>4. CASE ~(i < p)
        <4>1. i + 1 \in 1..Len(queue) /\ i + 1 # p /\ queue[i + 1] = w
          BY <3>1, <3>2, <3>4, <1>6, <1>1
        <4> QED BY <4>1, <1>1, <1>5 DEF Queued
      <3> QED BY <3>3, <3>4
    <2>2. ASSUME NEW w \in Queued, w # u PROVE w \in Queued'
      <3>1. PICK k \in 1..Len(queue) : queue[k] = w
        BY DEF Queued
      <3>2. k # p
        BY <3>1, <2>2, <1>1
      <3> DEFINE i == IF k < p THEN k ELSE k - 1
      <3>3. i \in 1..Len(queue') /\ queue'[i] = w
        BY <3>1, <3>2, <1>1, <1>2, <1>6 DEF Without
      <3> QED BY <3>3 DEF Queued
    <2> QED BY <2>1, <2>2
  <1>8. \A w \in Queued' : left'[w] = left[w] - Elapsed
    <2>1. Queued \subseteq Unit
      BY QueuedUnits
    <2>2. left' = [LeftAfter(Elapsed) EXCEPT ![u] = 0]
      BY DEF Dequeue
    <2>3. ASSUME NEW w \in Queued, w # u PROVE left'[w] = left[w] - Elapsed
      BY <2>1, <2>2, <2>3 DEF LeftAfter
    <2> QED BY <2>3, <1>7
  <1>9. HeadTime' = sim_interval'
    BY DEF Dequeue, HeadTime
  <1>10. Elapsed' = 0
    <2>1. sim_interval' \in Int
      BY DEF ListOK
    <2>2. Elapsed' = HeadTime' - sim_interval'
      BY DEF Elapsed
    <2>3. \A x \in Int : x - x = 0
      OBVIOUS
    <2> QED BY <2>1, <2>2, <2>3, <1>9
  <1>11. ASSUME sim_interval >= 1 PROVE HeadTime' >= 1
    <2>1. CASE queue' = <<>>
      <3>1. sim_interval' = NOQUEUE_WAIT
        BY <2>1 DEF Dequeue
      <3> QED BY <3>1, <1>9, BoundAssumption
    <2>2. CASE queue' # <<>>
      <3>1. HeadTime' = time'[queue'[1]] /\ 1 \in 1..Len(queue')
        BY <1>2, <2>2 DEF HeadTime
      <3>2. TimeNow[queue[1]] = sim_interval /\ queue[1] \in Unit
        <4>1. queue # <<>> /\ Head(queue) = queue[1] /\ queue[1] \in Unit
          BY <1>1
        <4> QED BY <4>1, <1>3 DEF TimeNow
      <3>3. time' = TimesWithout(u)
        BY DEF Dequeue
      <3>4. CASE p = 1
        <4>1. queue'[1] = queue[2] /\ 2 \in 1..Len(queue) /\ queue[2] \in Unit
          BY <3>1, <3>4, <1>1, <1>2, <1>6 DEF Without
        <4>2. queue[2] # u
          BY <4>1, <3>4, <1>1, <1>5
        <4>3. time'[queue[2]] = TimeNow[queue[2]] + TimeNow[queue[1]]
          BY <4>1, <4>2, <3>3, <3>4, <1>1 DEF TimesWithout
        <4>4. TimeNow[queue[2]] \in Nat
          BY <4>1, <1>4
        <4> QED BY <4>1, <4>3, <4>4, <3>1, <3>2, <1>11
      <3>5. CASE p # 1
        <4>1. queue'[1] = queue[1] /\ 1 \in 1..Len(queue)
          BY <3>1, <3>5, <1>1, <1>2, <1>6 DEF Without
        <4>2. queue[1] # u
          BY <4>1, <3>5, <1>1, <1>5
        <4>3. u \in Unit /\ TimeNow[u] \in Nat
          BY <1>1, <1>4
        <4>4. time'[queue[1]] \in {TimeNow[queue[1]], TimeNow[queue[1]] + TimeNow[u]}
          BY <4>2, <3>2, <3>3 DEF TimesWithout
        <4> QED BY <4>1, <4>3, <4>4, <3>1, <3>2, <1>11
      <3> QED BY <3>4, <3>5
    <2> QED BY <2>1, <2>2
  <1> QED BY <1>7, <1>8, <1>9, <1>10, <1>11

\* The same for all that a call does before the search.
LEMMA PrepareTime ==
  ASSUME TypeOK, ListOK', Inv, sim_interval \in Nat, NEW u \in Unit, Prepare(u)
  PROVE  /\ Elapsed' = 0 /\ sim_interval' = HeadTime'
         /\ sim_interval >= 1 => HeadTime' >= 1
         /\ Queued' = Queued \ {u}
         /\ \A w \in Queued' : left'[w] = left[w] - Elapsed
  <1>1. CASE u \in Queued
    BY <1>1, DequeueTime DEF Prepare
  <1>2. CASE u \notin Queued
    <2>1. UpdateSimTime /\ UNCHANGED <<queue, sim_interval>>
      BY <1>2 DEF Prepare
    <2>2. Queued' = Queued
      BY <2>1 DEF Queued
    <2>3. HeadTime' = sim_interval
      <3>1. queue # <<>> => Head(queue) \in Unit
        BY DEF TypeOK
      <3> QED BY <2>1, <3>1
              DEF UpdateSimTime, TimeNow, NoqueueNow, HeadTime, TypeOK
    <2>4. Elapsed' = 0
      BY <2>1, <2>3 DEF Elapsed
    <2>5. \A w \in Queued : left'[w] = left[w] - Elapsed
      BY <2>1, QueuedUnits DEF UpdateSimTime, LeftAfter
    <2> QED BY <1>2, <2>1, <2>2, <2>3, <2>4, <2>5
  <1> QED BY <1>1, <1>2
-----------------------------------------------------------------------------
(* The inductive invariant *)

\* A step that brings what is added to sim_time and what is still to be added
\* to the same sum leaves no drift.
LEMMA NoDrift ==
  ASSUME TypeOK, TypeOK', drift = 0, NEW d \in Int, Drift(d), d + Elapsed' = Elapsed
  PROVE  drift' = 0
  <1>1. Elapsed \in Int
    BY ElapsedType
  <1>2. Elapsed' \in Int
    BY ElapsedTypeNext DEF TypeOK
  <1>3. drift + d + Elapsed' - Elapsed = 0
    <2>1. \A x, y, z \in Int : x + y = z => 0 + x + y - z = 0
      OBVIOUS
    <2> QED BY <1>1, <1>2, <2>1
  <1>4. Clamp(0) = 0
    BY BoundAssumption DEF Clamp
  <1> QED BY <1>3, <1>4 DEF Drift

\* Steps that leave all that the invariant is about keep it.
LEMMA SameTime ==
  ASSUME TimeInv, UNCHANGED <<clock, stop_cpu, pc, local, act, drift>>
  PROVE  TimeInv'
  <1>1. Elapsed' = Elapsed /\ HeadTime' = HeadTime
    BY DEF clock, Elapsed, HeadTime
  <1>2. Routine' <=> Routine
    BY DEF Routine
  <1> QED BY <1>1, <1>2 DEF TimeInv, clock, local

\* The interval is never negative.
LEMMA IntervalNat ==
  ASSUME TypeOK, TimeInv
  PROVE  sim_interval \in Nat
  BY DEF TypeOK, TimeInv

\* A call that goes on to the search.
LEMMA SearchTime ==
  ASSUME Punctual, TypeOK, TypeOK', Inv, Inv', TimeInv, NEW u \in Unit,
         NEW d \in Delays, MayCall, Prepare(u), Search(u, d),
         UNCHANGED <<stop_cpu, local, drift>>
  PROVE  TimeInv'
  <1>1. sim_interval \in Nat
    BY IntervalNat
  <1>2. Elapsed' = 0 /\ (sim_interval >= 1 => HeadTime' >= 1)
    BY <1>1, PrepareTime, TypeParts DEF TypeOK, ListOK
  <1>3. /\ pc' = "search" /\ act'.delay = d /\ act'.ret = pc
        /\ pc \in {"exec", "action"} /\ cur' = cur
    BY DEF Search, MayCall, local
  <1>4. d <= MaxDelay
    BY MaxDelayAssumption DEF Delays
  <1>5. pc = "exec" => d >= 1 /\ sim_interval >= 1
    BY DEF Delays, Punctual, TimeInv
  <1>6. sim_interval' >= 0
    BY <1>3 DEF Inv, IntervalInv
  <1>7. Routine' => cur' \in Unit
    BY <1>3 DEF Routine, TimeInv
  <1> QED BY <1>2, <1>3, <1>4, <1>5, <1>6, <1>7 DEF TimeInv

\* The unit that is put on the list comes to its head only if it is due first.
LEMMA InsertTime ==
  ASSUME TypeOK, TypeOK', Inv, Inv', TimeInv, Insert
  PROVE  /\ Elapsed' = 0 /\ Elapsed = 0
         /\ act.ret = "exec" => sim_interval' >= 1
         /\ Queued' = Queued \cup {act.unit}
         /\ act.unit \in Unit \ Queued
         /\ left'[act.unit] = act.delay
         /\ \A w \in Queued : left'[w] = left[w]
  <1> DEFINE p == act.pos
             e == act.unit
  <1>1. /\ p \in 1..(Len(queue) + 1) /\ With(queue', queue, p, e)
    BY InsertWith
  <1>2. pc = "search" /\ SearchInv
    BY DEF Insert, Inv
  <1>3. e \in Unit \ Queued
    BY <1>2 DEF SearchInv
  <1>4. Len(queue) \in Nat /\ queue \in Seq(Unit) /\ queue' \in Seq(Unit)
    BY DEF TypeOK
  <1>5. queue' # <<>> /\ Head(queue') = queue'[1] /\ queue'[1] \in Unit
    BY <1>1, <1>4 DEF With
  <1>6. sim_interval' = HeadTime'
    BY <1>5 DEF Insert, HeadTime
  <1>7. Elapsed' = 0
    <2>1. sim_interval' \in Int
      BY DEF TypeOK
    <2>2. Elapsed' = HeadTime' - sim_interval'
      BY DEF Elapsed
    <2>3. \A x \in Int : x - x = 0
      OBVIOUS
    <2> QED BY <2>1, <2>2, <2>3, <1>6
  <1>8. Elapsed = 0
    BY <1>2 DEF TimeInv
  <1>9. ASSUME act.ret = "exec" PROVE sim_interval' >= 1
    <2>1. act.delay >= 1 /\ HeadTime >= 1 /\ act.delay \in Int
      BY <1>2, <1>9 DEF TimeInv, TypeOK
    <2>2. time' = [w \in Unit |->
                      IF w = e THEN act.delay - act.accum
                      ELSE IF p <= Len(queue) /\ w = queue[p]
                           THEN time[w] - (act.delay - act.accum) ELSE time[w]]
      BY DEF Insert
    <2>3. HeadTime' = time'[queue'[1]]
      BY <1>5 DEF HeadTime
    <2>4. CASE p = 1
      <3>1. queue'[1] = e /\ act.accum = 0
        BY <2>4, <1>1, <1>2, <1>4 DEF With, SearchInv
      <3>2. time'[e] = act.delay
        BY <3>1, <2>1, <2>2, <1>3
      <3> QED BY <3>1, <3>2, <2>1, <2>3, <1>6
    <2>5. CASE p # 1
      <3>1. queue'[1] = queue[1] /\ 1 \in 1..Len(queue)
        BY <2>5, <1>1, <1>4 DEF With
      <3>2. queue[1] # e /\ queue[1] \in Unit
        BY <3>1, <1>3, <1>4 DEF Queued
      <3>3. p <= Len(queue) => queue[1] # queue[p]
        BY <2>5, <3>1, <1>1 DEF Inv, ListInv, Chain
      <3>4. time'[queue[1]] = time[queue[1]]
        BY <2>2, <3>2, <3>3
      <3>5. HeadTime = time[queue[1]]
        BY <3>1, <1>4 DEF HeadTime
      <3> QED BY <3>1, <3>4, <3>5, <2>1, <2>3, <1>6
    <2> QED BY <2>4, <2>5
  <1>10. Queued' = Queued \cup {e}
    <2>1. ASSUME NEW w \in Queued' PROVE w \in Queued \cup {e}
      <3>1. PICK i \in 1..Len(queue') : queue'[i] = w
        BY DEF Queued
      <3> QED BY <3>1, <1>1, <1>4 DEF With, Queued
    <2>2. ASSUME NEW w \in Queued PROVE w \in Queued'
      <3>1. PICK k \in 1..Len(queue) : queue[k] = w
        BY DEF Queued
      <3> DEFINE i == IF k < p THEN k ELSE k + 1
      <3>2. i \in 1..Len(queue') /\ queue'[i] = w
        BY <3>1, <1>1, <1>4 DEF With
      <3> QED BY <3>2 DEF Queued
    <2>3. e \in Queued'
      <3>1. p \in 1..Len(queue') /\ queue'[p] = e
        BY <1>1, <1>4 DEF With
      <3> QED BY <3>1 DEF Queued
    <2> QED BY <2>1, <2>2, <2>3
  <1>11. left' = [left EXCEPT ![e] = act.delay] /\ left \in [Unit -> Int]
    BY DEF Insert, TypeOK
  <1>12. left'[e] = act.delay /\ \A w \in Queued : left'[w] = left[w]
    BY <1>3, <1>11, QueuedUnits
  <1> QED BY <1>3, <1>7, <1>8, <1>9, <1>10, <1>12

\* The same for the push to the head, which only routines ask for.
LEMMA HeadTimes ==
  ASSUME TypeOK, TypeOK', Inv, TimeInv, ActivateAtHead
  PROVE  /\ Elapsed' = 0 /\ Elapsed = 0 /\ act.ret = "action"
         /\ Queued' = Queued \cup {act.unit}
         /\ act.unit \in Unit \ Queued
         /\ left'[act.unit] = 0
         /\ \A w \in Queued : left'[w] = left[w]
  <1> DEFINE e == act.unit
  <1>1. pc = "search" /\ SearchInv /\ act.delay = -1
    BY DEF ActivateAtHead, Inv
  <1>2. e \in Unit \ Queued
    BY <1>1 DEF SearchInv
  <1>3. act.ret = "action"
    <2>1. act.ret \in {"exec", "action"}
      BY DEF TypeOK
    <2>2. act.ret = "exec" => act.delay >= 1
      BY <1>1 DEF TimeInv
    <2> QED BY <2>1, <2>2, <1>1
  <1>4. queue \in Seq(Unit) /\ Len(queue) \in Nat
    BY DEF TypeOK
  <1>5. /\ queue' # <<>> /\ Head(queue') = e /\ Len(queue') = Len(queue) + 1
        /\ \A i \in 1..(Len(queue) + 1) :
              queue'[i] = IF i = 1 THEN e ELSE queue[i - 1]
    BY <1>2, <1>4 DEF ActivateAtHead
  <1>6. Elapsed' = 0
    <2>1. time' = [time EXCEPT ![e] = 0] /\ time \in [Unit -> Int] /\ sim_interval' = 0
      BY DEF ActivateAtHead, TypeOK
    <2>2. time'[e] = 0
      BY <2>1, <1>2
    <2>3. HeadTime' = 0
      BY <2>2, <1>5 DEF HeadTime
    <2> QED BY <2>1, <2>3 DEF Elapsed
  <1>7. Elapsed = 0
    BY <1>1 DEF TimeInv
  <1>8. Queued' = Queued \cup {e}
    <2>1. ASSUME NEW w \in Queued' PROVE w \in Queued \cup {e}
      <3>1. PICK i \in 1..Len(queue') : queue'[i] = w
        BY DEF Queued
      <3> QED BY <3>1, <1>4, <1>5 DEF Queued
    <2>2. ASSUME NEW w \in Queued PROVE w \in Queued'
      <3>1. PICK k \in 1..Len(queue) : queue[k] = w
        BY DEF Queued
      <3>2. k + 1 \in 1..Len(queue') /\ queue'[k + 1] = w
        BY <3>1, <1>4, <1>5
      <3> QED BY <3>2 DEF Queued
    <2>3. e \in Queued'
      <3>1. 1 \in 1..Len(queue') /\ queue'[1] = e
        BY <1>4, <1>5
      <3> QED BY <3>1 DEF Queued
    <2> QED BY <2>1, <2>2, <2>3
  <1>9. left' = [left EXCEPT ![e] = 0] /\ left \in [Unit -> Int]
    BY DEF ActivateAtHead, TypeOK
  <1>10. left'[e] = 0 /\ \A w \in Queued : left'[w] = left[w]
    BY <1>2, <1>9, QueuedUnits
  <1> QED BY <1>2, <1>3, <1>6, <1>7, <1>8, <1>10

\* The units start with no time counted and no routine running.
LEMMA TimeInit == Init => TimeInv
  <1> SUFFICES ASSUME Init PROVE TimeInv
    OBVIOUS
  <1>1. Elapsed = 0 /\ pc = "scp" /\ sim_interval = 0
    BY DEF Init, Elapsed, HeadTime
  <1>2. ~Routine
    BY <1>1 DEF Routine
  <1> QED BY <1>1, <1>2 DEF Init, TimeInv

\* The invariant is inductive, one step per action.
LEMMA TimeStep ==
  /\ Punctual /\ TypeOK /\ TypeOK' /\ Inv /\ Inv' /\ TimeInv /\ [Next]_vars
  => TimeInv'
  <1>0. SUFFICES ASSUME Punctual, TypeOK, TypeOK', Inv, Inv', TimeInv, [Next]_vars
                 PROVE  TimeInv'
    OBVIOUS
  <1>a. sim_interval \in Nat /\ ~stop_cpu /\ drift = 0
    BY <1>0, IntervalNat DEF TimeInv
  <1>b. sim_interval' \in Int /\ (pc' \notin {"poll", "return"} => sim_interval' >= 0)
    BY <1>0 DEF TypeOK, Inv, IntervalInv
  <1>c. Elapsed \in Int /\ HeadTime \in Int
    BY <1>0, ElapsedType
  <1>1. ASSUME NEW u \in Unit, NEW d \in Delays, SimActivate(u, d) PROVE TimeInv'
    <2>1. CASE u \in Queued
      <3>1. UNCHANGED <<clock, stop_cpu, pc, local, act, drift>>
        BY <1>1, <2>1 DEF SimActivate
      <3> QED BY <1>0, <3>1, SameTime
    <2>2. CASE u \notin Queued
      BY <1>0, <1>1, <2>2, SearchTime DEF SimActivate
    <2> QED BY <2>1, <2>2
  <1>2. ASSUME NEW u \in Unit, SimCancel(u) PROVE TimeInv'
    <2>1. CASE u \in Queued
      <3>1. /\ Dequeue(u) /\ pc' = pc /\ pc \in {"exec", "action"}
            /\ UNCHANGED <<stop_cpu, act, drift, cur, reason>>
        BY <1>2, <2>1 DEF SimCancel, MayCall, local
      <3>2. /\ Elapsed' = 0 /\ sim_interval' = HeadTime'
            /\ sim_interval >= 1 => HeadTime' >= 1
        BY <1>0, <1>a, <2>1, <3>1, DequeueTime, TypeParts DEF TypeOK, ListOK
      <3>3. pc = "exec" => sim_interval' >= 1
        BY <1>0, <3>2 DEF TimeInv
      <3>4. Routine' => cur' \in Unit
        BY <1>0, <3>1 DEF Routine, TimeInv
      <3> QED BY <1>0, <1>b, <3>1, <3>2, <3>3, <3>4 DEF TimeInv
    <2>2. CASE u \notin Queued
      <3>1. UNCHANGED <<clock, stop_cpu, pc, local, act, drift>>
        BY <1>2, <2>2 DEF SimCancel
      <3> QED BY <1>0, <3>1, SameTime
    <2> QED BY <2>1, <2>2
  <1>3. ASSUME NEW u \in Unit, NEW d \in Delays, SimActivateAbs(u, d) PROVE TimeInv'
    BY <1>0, <1>3, SearchTime DEF SimActivateAbs
  <1>4. ASSUME NEW u \in Unit, NEW r \in Deadlines PROVE FALSE
    BY <1>0, <1>4 DEF Punctual
  <1>5. CASE ActivateAtHead
    <2>1. Elapsed' = 0 /\ Elapsed = 0 /\ act.ret = "action"
      BY <1>0, <1>5, HeadTimes
    <2>2. /\ pc = "search" /\ pc' = "action" /\ Drift(0) /\ sim_interval' = 0
          /\ UNCHANGED <<stop_cpu, cur, reason>>
      BY <1>5, <2>1 DEF ActivateAtHead, local
    <2>3. drift' = 0
      <3>1. 0 + Elapsed' = Elapsed
        BY <2>1
      <3> QED BY <1>0, <1>a, <2>2, <3>1, NoDrift
    <2>4. cur' \in Unit
      BY <1>0, <2>1, <2>2 DEF Routine, TimeInv
    <2> QED BY <1>a, <2>1, <2>2, <2>3, <2>4 DEF TimeInv
  <1>6. CASE SearchOn
    <2>1. /\ pc = "search" /\ pc' = "search" /\ act'.ret = act.ret
          /\ act'.delay = act.delay
          /\ UNCHANGED <<clock, stop_cpu, cur, reason, drift>>
      BY <1>0, <1>6 DEF SearchOn, TypeOK, local
    <2>2. Elapsed' = Elapsed /\ HeadTime' = HeadTime /\ sim_interval' = sim_interval
      BY <2>1 DEF clock, Elapsed, HeadTime
    <2>3. Routine' <=> Routine
      BY <2>1 DEF Routine
    <2> QED BY <1>0, <2>1, <2>2, <2>3 DEF TimeInv
  <1>7. CASE Insert
    <2>1. Elapsed' = 0 /\ Elapsed = 0 /\ (act.ret = "exec" => sim_interval' >= 1)
      BY <1>0, <1>7, InsertTime
    <2>2. /\ pc = "search" /\ pc' = act.ret /\ Drift(0)
          /\ UNCHANGED <<stop_cpu, cur, reason>> /\ act.ret \in {"exec", "action"}
      BY <1>0, <1>7 DEF Insert, local, TypeOK
    <2>3. drift' = 0
      <3>1. 0 + Elapsed' = Elapsed
        BY <2>1
      <3> QED BY <1>0, <1>a, <2>2, <3>1, NoDrift
    <2>4. Routine' => cur' \in Unit
      BY <1>0, <2>2 DEF Routine, TimeInv
    <2> QED BY <1>a, <1>b, <2>1, <2>2, <2>3, <2>4 DEF TimeInv
  <1>8. CASE NoticeStop
    BY <1>a, <1>8 DEF NoticeStop
  <1>9. CASE QueueEmpty
    <2>1. /\ pc' = "exec" /\ sim_interval' = NOQUEUE_WAIT /\ stop_cpu' = stop_cpu
          /\ queue' = <<>> /\ noqueue_time' = NOQUEUE_WAIT /\ Drift(Elapsed)
      BY <1>9 DEF QueueEmpty
    <2>2. Elapsed' = 0 /\ Elapsed + 0 = Elapsed
      BY <1>c, <2>1, BoundAssumption DEF Elapsed, HeadTime
    <2>3. drift' = 0
      <3>1. Elapsed + Elapsed' = Elapsed
        BY <2>2
      <3> QED BY <1>0, <1>a, <1>c, <2>1, <3>1, NoDrift
    <2>4. ~Routine'
      BY <2>1 DEF Routine
    <2> QED BY <1>a, <2>1, <2>3, <2>4, BoundAssumption DEF TimeInv
  <1>10. CASE StartDispatch
    <2>1. /\ pc = "poll" /\ pc' = "pop" /\ queue' = queue /\ queue # <<>>
          /\ time' = [time EXCEPT ![Head(queue)] = 0] /\ sim_interval' = 0
          /\ stop_cpu' = stop_cpu /\ Drift(HeadTime)
      BY <1>10 DEF StartDispatch
    <2>2. sim_interval = 0
      BY <1>0, <1>a, <2>1 DEF Inv, IntervalInv
    <2>3. HeadTime' = 0
      <3>1. Head(queue) \in Unit
        BY <1>0, <2>1 DEF TypeOK
      <3>2. time'[Head(queue)] = 0
        BY <1>0, <2>1, <3>1 DEF TypeOK
      <3> QED BY <2>1, <3>2 DEF HeadTime
    <2>4. Elapsed' = 0 /\ Elapsed = HeadTime
      BY <1>c, <2>1, <2>2, <2>3 DEF Elapsed
    <2>5. drift' = 0
      <3>1. HeadTime + Elapsed' = Elapsed
        <4>1. \A x \in Int : x + 0 = x
          OBVIOUS
        <4> QED BY <1>c, <2>4, <4>1
      <3> QED BY <1>0, <1>a, <1>c, <2>1, <3>1, NoDrift
    <2>6. ~Routine'
      BY <2>1 DEF Routine
    <2> QED BY <1>a, <2>1, <2>4, <2>5, <2>6 DEF TimeInv
  <1>11. CASE PopHead
    <2>1. Elapsed' = 0 /\ Elapsed = 0
      BY <1>0, <1>11, PopKeeps DEF TimeInv, PopHead
    <2>2. /\ pc = "pop" /\ pc' = "action" /\ Drift(0) /\ stop_cpu' = stop_cpu
          /\ cur' = Head(queue)
      BY <1>11 DEF PopHead
    <2>3. cur' \in Unit
      BY <1>0, <2>2 DEF TypeOK, Inv, IntervalInv
    <2>4. drift' = 0
      <3>1. 0 + Elapsed' = Elapsed
        BY <2>1
      <3> QED BY <1>0, <1>a, <2>2, <3>1, NoDrift
    <2> QED BY <1>a, <1>b, <2>1, <2>2, <2>3, <2>4 DEF TimeInv
  <1>12. ASSUME NEW r \in ActionResults, ActionReturns(r) PROVE TimeInv'
    <2>1. /\ pc = "action" /\ pc' = "after"
          /\ UNCHANGED <<clock, stop_cpu, drift>>
      BY <1>12 DEF ActionReturns
    <2>2. Elapsed' = Elapsed /\ sim_interval' = sim_interval
      BY <2>1 DEF clock, Elapsed, HeadTime
    <2>3. ~Routine'
      BY <2>1 DEF Routine
    <2> QED BY <1>0, <2>1, <2>2, <2>3 DEF TimeInv
  <1>13. CASE CatchUp \/ ReadPastEnd
    BY <1>0, <1>13 DEF CatchUp, ReadPastEnd, Behind, Inv, IntervalInv
  <1>14. CASE CaughtUp
    <2>1. /\ pc = "after" /\ catchup' = 0 /\ pc' = IF Goes THEN "pop" ELSE "exit"
          /\ UNCHANGED <<clock, stop_cpu, cur, reason, drift>>
      BY <1>14 DEF CaughtUp
    <2>2. /\ Elapsed' = Elapsed /\ sim_interval' = sim_interval /\ queue' = queue
          /\ Elapsed = 0
      BY <1>0, <2>1 DEF clock, Elapsed, HeadTime, TimeInv
    <2>3. ~Goes /\ reason = "OK" => queue = <<>> \/ sim_interval >= 1
      BY <1>a, <2>1 DEF Goes
    <2>4. ~Routine' /\ pc' \in {"pop", "exit"} /\ (pc' = "exit" => ~Goes)
      BY <2>1 DEF Routine
    <2> QED BY <1>a, <2>1, <2>2, <2>3, <2>4 DEF TimeInv
  <1>15. CASE EndDispatch
    <2>1. /\ pc = "exit" /\ queue' = queue /\ time' = time /\ Drift(0)
          /\ pc' \in {"exec", "return"} /\ (pc' = "exec" => reason = "OK")
          /\ ~stop_cpu'
      BY <1>a, <1>15 DEF EndDispatch
    <2>2. Elapsed = 0
      BY <1>0, <2>1 DEF TimeInv
    <2>3. Elapsed' = 0
      <3>1. CASE queue = <<>>
        BY <1>15, <2>1, <3>1, BoundAssumption DEF EndDispatch, Elapsed, HeadTime
      <3>2. CASE queue # <<>>
        <4>1. Elapsed' = Elapsed
          BY <1>15, <2>1, <3>2 DEF EndDispatch, Elapsed, HeadTime
        <4> QED BY <4>1, <2>2
      <3> QED BY <3>1, <3>2
    <2>4. drift' = 0
      <3>1. 0 + Elapsed' = Elapsed
        BY <2>2, <2>3
      <3> QED BY <1>0, <1>a, <2>1, <3>1, NoDrift
    <2>5. pc' = "exec" => sim_interval' >= 1
      BY <1>0, <1>15, <2>1, BoundAssumption DEF EndDispatch, TimeInv
    <2>6. sim_interval' >= 0
      BY <1>a, <1>15, BoundAssumption DEF EndDispatch
    <2>7. ~Routine'
      BY <2>1 DEF Routine
    <2> QED BY <2>1, <2>4, <2>5, <2>6, <2>7 DEF TimeInv
  <1>16. ASSUME NEW n \in 1..MaxStep, CountDown(n) PROVE TimeInv'
    <2>1. /\ pc = "exec" /\ sim_interval' = sim_interval - 1 /\ drift' = drift
          /\ stop_cpu' = stop_cpu
          /\ pc' = IF sim_interval' <= 0 THEN "poll" ELSE "exec"
      <3>1. n = 1
        BY <1>0 DEF Punctual
      <3>2. stop_cpu' = stop_cpu
        BY <1>0, <1>16 DEF CountDown, Punctual
      <3> QED BY <1>16, <3>1, <3>2 DEF CountDown
    <2>2. sim_interval >= 1
      BY <1>0, <2>1 DEF TimeInv
    <2>3. ~Routine'
      BY <2>1 DEF Routine
    <2> QED BY <1>a, <2>1, <2>2, <2>3 DEF TimeInv
  <1>h. CASE Halt
    <2>1. /\ pc = "exec" /\ pc' = "return" /\ queue' = queue /\ time' = time
          /\ sim_interval' = sim_interval /\ noqueue_time' = noqueue_time
          /\ stop_cpu' = stop_cpu /\ drift' = drift
      BY <1>h DEF Halt, clock
    <2>2. ~Routine'
      BY <2>1 DEF Routine
    <2> QED BY <1>a, <2>1, <2>2 DEF TimeInv
  <1>17. CASE Interrupt
    BY <1>0, <1>17 DEF Interrupt, Punctual
  <1>18. CASE EndRun
    <2>1. /\ pc = "return" /\ pc' = "scp" /\ queue' = queue /\ stop_cpu' = stop_cpu
          /\ sim_interval' = sim_interval
      BY <1>a, <1>18 DEF EndRun
    <2>2. HeadTime' = sim_interval'
      <3>1. queue # <<>> => Head(queue) \in Unit
        BY <1>0 DEF TypeOK
      <3> QED BY <1>0, <1>18, <2>1, <3>1 DEF EndRun, HeadTime, TypeOK
    <2>3. Elapsed' = 0
      <3>1. Elapsed' = HeadTime' - sim_interval'
        BY DEF Elapsed
      <3>2. \A x \in Int : x - x = 0
        OBVIOUS
      <3> QED BY <1>b, <2>2, <3>1, <3>2
    <2>4. Drift(Elapsed)
      BY <1>18, <2>1 DEF EndRun, Elapsed
    <2>5. drift' = 0
      <3>1. Elapsed + Elapsed' = Elapsed
        <4>1. \A x \in Int : x + 0 = x
          OBVIOUS
        <4> QED BY <1>c, <2>3, <4>1
      <3> QED BY <1>0, <1>a, <1>c, <2>4, <3>1, NoDrift
    <2>6. ~Routine'
      BY <2>1 DEF Routine
    <2> QED BY <1>a, <2>1, <2>5, <2>6 DEF TimeInv
  <1>19. CASE Continue
    <2>1. /\ sim_interval' = sim_interval /\ ~stop_cpu' /\ drift' = drift
          /\ pc' = IF sim_interval <= 0 THEN "poll" ELSE "exec"
      BY <1>19 DEF Continue, clock
    <2>2. ~Routine'
      BY <2>1 DEF Routine
    <2> QED BY <1>a, <2>1, <2>2 DEF TimeInv
  <1>20. CASE UNCHANGED vars
    BY <1>0, <1>20, SameTime DEF vars
  <1> QED BY <1>0, <1>1, <1>2, <1>3, <1>4, <1>5, <1>6, <1>7, <1>8, <1>9, <1>10,
             <1>11, <1>12, <1>13, <1>14, <1>15, <1>16, <1>17, <1>h, <1>18, <1>19, <1>20
          DEF Next, Call, SearchStep, ProcessStep, RunStep
-----------------------------------------------------------------------------
(* The refinement *)

Good == TypeOK /\ Inv /\ TimeInv

\* The due times the refinement mapping computes from the list.
Due == [u \in Unit |-> IF u \in Queued THEN left[u] - Elapsed ELSE 0]

TogosDue == Togos = Due

LEMMA MappingIs == Good => TogosDue
  <1>1. SUFFICES ASSUME Good PROVE Togos = Due
    BY DEF TogosDue
  <1>2. \A u \in Queued : QueueTime(u) = left[u] - Elapsed
    BY <1>1, QueueTimeIs DEF Good
  <1> QED BY <1>2 DEF Togos, Due

LEMMA MappingIsNext == Good' => TogosDue'
  BY MappingIs, PTL

AbsStep == [Abs!Next]_(Abs!avars)

\* A step that leaves every due time and the routine is a stutter.
LEMMA Stutters ==
  ASSUME Good, Good', Queued' = Queued, Running' = Running,
         \A u \in Queued : left'[u] - Elapsed' = left[u] - Elapsed
  PROVE  AbsStep
  <1>1. Togos = Due /\ Togos' = Due'
    BY MappingIs, MappingIsNext DEF TogosDue
  <1>2. Due' = Due
    BY DEF Due
  <1> QED BY <1>1, <1>2 DEF AbsStep, Abs!avars

\* A unit that leaves the list, and nothing else, is withdrawn.
LEMMA Withdraws ==
  ASSUME Good, Good', NEW u \in Queued, Queued' = Queued \ {u}, Running' = Running,
         \A w \in Queued' : left'[w] - Elapsed' = left[w] - Elapsed
  PROVE  AbsStep
  <1>1. Togos = Due /\ Togos' = Due'
    BY MappingIs, MappingIsNext DEF TogosDue
  <1>2. u \in Unit
    BY QueuedUnits DEF Good
  <1>3. Due' = [Due EXCEPT ![u] = 0]
    BY DEF Due
  <1>4. Abs!Withdraw(u)
    BY <1>1, <1>3 DEF Abs!Withdraw, Abs!Leave
  <1> QED BY <1>2, <1>4 DEF AbsStep, Abs!Next

\* A unit that enters the list is scheduled.
LEMMA Schedules ==
  ASSUME Good, Good', NEW u \in Unit \ Queued, NEW d \in 0..MaxDelay,
         Queued' = Queued \cup {u}, Running' = Running,
         left'[u] - Elapsed' = d,
         \A w \in Queued : left'[w] - Elapsed' = left[w] - Elapsed
  PROVE  AbsStep
  <1>1. Togos = Due /\ Togos' = Due'
    BY MappingIs, MappingIsNext DEF TogosDue
  <1>2. Due' = [Due EXCEPT ![u] = d]
    BY DEF Due
  <1>3. Abs!Schedule(u, d)
    BY <1>1, <1>2 DEF Abs!Schedule
  <1> QED BY <1>3 DEF AbsStep, Abs!Next

\* The call of an action routine fires a unit that is due.
LEMMA Fires ==
  ASSUME Good, Good', NEW u \in Queued, Queued' = Queued \ {u},
         Running = NoUnit, Running' = u, left[u] - Elapsed = 0,
         \A w \in Queued' : left'[w] - Elapsed' = left[w] - Elapsed
  PROVE  AbsStep
  <1>1. Togos = Due /\ Togos' = Due'
    BY MappingIs, MappingIsNext DEF TogosDue
  <1>2. u \in Unit
    BY QueuedUnits DEF Good
  <1>3. Due' = [Due EXCEPT ![u] = 0] /\ Due[u] = 0
    BY <1>2 DEF Due
  <1>4. Abs!Fire(u)
    BY <1>1, <1>3 DEF Abs!Fire, Abs!Leave
  <1> QED BY <1>2, <1>4 DEF AbsStep, Abs!Next

\* A routine returns.
LEMMA Finishes ==
  ASSUME Good, Good', Queued' = Queued, Running # NoUnit, Running' = NoUnit,
         \A u \in Queued : left'[u] - Elapsed' = left[u] - Elapsed
  PROVE  AbsStep
  <1>1. Togos = Due /\ Togos' = Due'
    BY MappingIs, MappingIsNext DEF TogosDue
  <1>2. Due' = Due
    BY DEF Due
  <1>3. Abs!Finish
    BY <1>1, <1>2 DEF Abs!Finish
  <1> QED BY <1>3 DEF AbsStep, Abs!Next

\* An instruction lets one unit of time pass, which every waiting unit has left.
LEMMA Passes ==
  ASSUME Good, Good', Queued' = Queued, Running' = Running,
         \A u \in Queued : left[u] - Elapsed \in Int /\ left[u] - Elapsed >= 1,
         \A u \in Queued : left'[u] - Elapsed' = (left[u] - Elapsed) - 1
  PROVE  AbsStep
  <1>1. Togos = Due /\ Togos' = Due'
    BY MappingIs, MappingIsNext DEF TogosDue
  <1>2. Queued \subseteq Unit
    BY QueuedUnits DEF Good
  <1>3. \A u \in Queued : Due[u] >= 1
    BY <1>2 DEF Due
  <1>4. Due' = [u \in Unit |-> IF u \in Queued THEN Due[u] - 1 ELSE Due[u]]
    BY <1>2 DEF Due
  <1>5. Abs!Pass(1)
    BY <1>1, <1>3, <1>4 DEF Abs!Pass
  <1>6. 1 \in 1..MaxDelay
    BY MaxDelayAssumption
  <1> QED BY <1>5, <1>6 DEF AbsStep, Abs!Next

\* A step after which all is in sim_time leaves the due times if sim_time grew
\* by what it lacked.
LEMMA NowAll ==
  ASSUME TypeOK, NEW S \in SUBSET Queued, NEW m, Elapsed' = 0,
         \A u \in S : m[u] = left[u] - Elapsed
  PROVE  \A u \in S : m[u] - Elapsed' = left[u] - Elapsed
  <1>1. \A x, y \in Int : (x - y) - 0 = x - y
    OBVIOUS
  <1>2. Elapsed \in Int /\ \A u \in S : left[u] \in Int
    BY ElapsedType, QueuedUnits
  <1> QED BY <1>1, <1>2

\* A call that goes on to the search withdraws the unit if it waits.
LEMMA SearchRefines ==
  ASSUME Good, Good', NEW u \in Unit, NEW d, MayCall, Prepare(u), Search(u, d),
         UNCHANGED <<stop_cpu, local, drift>>
  PROVE  AbsStep
  <1>1. /\ Elapsed' = 0 /\ Queued' = Queued \ {u}
        /\ \A w \in Queued' : left'[w] = left[w] - Elapsed
    BY PrepareTime, IntervalNat, TypeParts DEF Good, TypeOK, ListOK
  <1>2. \A w \in Queued' : left'[w] - Elapsed' = left[w] - Elapsed
    BY <1>1, NowAll DEF Good
  <1>3. Running' = Running
    BY DEF Search, MayCall, local, Running, Routine
  <1>4. CASE u \in Queued
    BY <1>1, <1>2, <1>3, <1>4, Withdraws
  <1>5. CASE u \notin Queued
    BY <1>1, <1>2, <1>3, <1>5, Stutters
  <1> QED BY <1>4, <1>5

\* Every step of the event queue is one of the abstract specification's, or none.
LEMMA RefineStep == Punctual /\ Good /\ Good' /\ [Next]_vars => AbsStep
  <1>0. SUFFICES ASSUME Punctual, Good, Good', [Next]_vars PROVE AbsStep
    OBVIOUS
  <1>a. TypeOK /\ Inv /\ TimeInv /\ TypeOK' /\ Inv' /\ TimeInv'
    BY <1>0 DEF Good
  <1>b. Elapsed \in Int /\ HeadTime \in Int /\ sim_interval \in Nat
    BY <1>a, ElapsedType, IntervalNat
  <1>s. ASSUME UNCHANGED <<clock, left>>, Running' = Running PROVE AbsStep
    <2>1. Queued' = Queued /\ Elapsed' = Elapsed /\ left' = left
      BY <1>s DEF clock, Queued, Elapsed, HeadTime
    <2> QED BY <1>0, <1>s, <2>1, Stutters
  <1>e. ASSUME queue = <<>>, queue' = <<>>, Running' = Running PROVE AbsStep
    <2>1. Queued = {} /\ Queued' = {}
      BY <1>e DEF Queued
    <2> QED BY <1>0, <1>e, <2>1, Stutters
  <1>1. ASSUME NEW u \in Unit, NEW d \in Delays, SimActivate(u, d) PROVE AbsStep
    <2>1. CASE u \in Queued
      <3>1. UNCHANGED <<clock, left>> /\ Running' = Running
        BY <1>1, <2>1 DEF SimActivate, Running, Routine, local
      <3> QED BY <3>1, <1>s
    <2>2. CASE u \notin Queued
      BY <1>0, <1>1, <2>2, SearchRefines DEF SimActivate
    <2> QED BY <2>1, <2>2
  <1>2. ASSUME NEW u \in Unit, SimCancel(u) PROVE AbsStep
    <2>0. Running' = Running
      BY <1>2 DEF SimCancel, Running, Routine, local
    <2>1. CASE u \in Queued
      <3>1. Dequeue(u)
        BY <1>2, <2>1 DEF SimCancel
      <3>2. /\ Elapsed' = 0 /\ Queued' = Queued \ {u}
            /\ \A w \in Queued' : left'[w] = left[w] - Elapsed
        BY <1>a, <1>b, <2>1, <3>1, DequeueTime, TypeParts DEF TypeOK, ListOK
      <3>3. \A w \in Queued' : left'[w] - Elapsed' = left[w] - Elapsed
        BY <1>a, <3>2, NowAll
      <3> QED BY <1>0, <2>0, <2>1, <3>2, <3>3, Withdraws
    <2>2. CASE u \notin Queued
      <3>1. UNCHANGED <<clock, left>>
        BY <1>2, <2>2 DEF SimCancel
      <3> QED BY <2>0, <3>1, <1>s
    <2> QED BY <2>1, <2>2
  <1>3. ASSUME NEW u \in Unit, NEW d \in Delays, SimActivateAbs(u, d) PROVE AbsStep
    BY <1>0, <1>3, SearchRefines DEF SimActivateAbs
  <1>4. ASSUME NEW r \in Deadlines PROVE FALSE
    BY <1>0, <1>4 DEF Punctual
  <1>5. CASE ActivateAtHead
    <2>1. /\ Elapsed' = 0 /\ Elapsed = 0 /\ act.ret = "action"
          /\ Queued' = Queued \cup {act.unit} /\ act.unit \in Unit \ Queued
          /\ left'[act.unit] = 0 /\ \A w \in Queued : left'[w] = left[w]
      BY <1>a, <1>5, HeadTimes
    <2>2. Running' = Running
      BY <1>5, <2>1 DEF ActivateAtHead, Running, Routine, local
    <2>3. 0 \in 0..MaxDelay /\ left'[act.unit] - Elapsed' = 0
      BY <2>1, MaxDelayAssumption
    <2> QED BY <1>0, <2>1, <2>2, <2>3, Schedules
  <1>6. CASE SearchOn
    <2>1. UNCHANGED <<clock, left, pc, cur>> /\ act'.ret = act.ret
      BY <1>a, <1>6 DEF SearchOn, TypeOK, local
    <2>2. Running' = Running
      BY <2>1 DEF Running, Routine
    <2> QED BY <2>1, <2>2, <1>s
  <1>7. CASE Insert
    <2>1. /\ Elapsed' = 0 /\ Elapsed = 0
          /\ Queued' = Queued \cup {act.unit} /\ act.unit \in Unit \ Queued
          /\ left'[act.unit] = act.delay /\ \A w \in Queued : left'[w] = left[w]
      BY <1>a, <1>7, InsertTime
    <2>2. Running' = Running
      <3>1. act.ret \in {"exec", "action"}
        BY <1>a DEF TypeOK
      <3> QED BY <1>7, <3>1 DEF Insert, Running, Routine, local
    <2>3. act.delay \in 0..MaxDelay
      BY <1>a, <1>7, MaxDelayAssumption DEF Insert, TimeInv, Inv, SearchInv
    <2>4. left'[act.unit] - Elapsed' = act.delay
      <3>1. \A x \in Int : x - 0 = x
        OBVIOUS
      <3> QED BY <2>1, <2>3, <3>1
    <2> QED BY <1>0, <2>1, <2>2, <2>3, <2>4, Schedules
  <1>8. CASE NoticeStop
    BY <1>a, <1>8 DEF NoticeStop, TimeInv
  <1>9. CASE QueueEmpty
    <2>1. queue = <<>> /\ queue' = <<>> /\ Running' = Running
      BY <1>9 DEF QueueEmpty, Running, Routine
    <2> QED BY <2>1, <1>e
  <1>10. CASE StartDispatch
    <2>1. /\ pc = "poll" /\ pc' = "pop" /\ queue' = queue /\ queue # <<>>
          /\ time' = [time EXCEPT ![Head(queue)] = 0] /\ sim_interval' = 0
          /\ left' = LeftAfter(HeadTime)
      BY <1>10 DEF StartDispatch
    <2>2. sim_interval = 0 /\ Elapsed' = 0 /\ Queued' = Queued
      BY <1>a, <1>b, <2>1 DEF Inv, IntervalInv, TimeInv, Queued
    <2>3. Elapsed = HeadTime
      BY <1>b, <2>2 DEF Elapsed
    <2>4. \A w \in Queued : left'[w] = left[w] - Elapsed
      BY <1>a, <2>1, <2>3, QueuedUnits DEF LeftAfter
    <2>5. \A w \in Queued : left'[w] - Elapsed' = left[w] - Elapsed
      BY <1>a, <2>2, <2>4, NowAll
    <2>6. Running' = Running
      BY <2>1 DEF Running, Routine
    <2> QED BY <1>0, <2>2, <2>5, <2>6, Stutters
  <1>11. CASE PopHead
    <2> DEFINE u == Head(queue)
    <2>1. /\ pc = "pop" /\ pc' = "action" /\ queue' = Tail(queue) /\ cur' = u
          /\ left' = [left EXCEPT ![u] = 0]
      BY <1>11 DEF PopHead
    <2>2. left[u] = 0 /\ Elapsed' = 0 /\ Elapsed = 0
      BY <1>a, <1>11, <2>1, PopKeeps DEF TimeInv
    <2>3. queue # <<>> /\ queue \in Seq(Unit) /\ left \in [Unit -> Int]
      BY <1>a, <2>1 DEF Inv, IntervalInv, TypeOK
    <2>4. u = queue[1] /\ 1 \in 1..Len(queue) /\ u \in Queued
      BY <2>3 DEF Queued
    <2>5. Queued' = Queued \ {u}
      <3>1. /\ Len(queue') = Len(queue) - 1 /\ Len(queue) \in Nat
            /\ \A i \in 1..(Len(queue) - 1) : queue'[i] = queue[i + 1]
        BY <2>1, <2>3
      <3>2. \A i, j \in 1..Len(queue) : queue[i] = queue[j] => i = j
        BY <1>a DEF Inv, ListInv, Chain
      <3>3. ASSUME NEW w \in Queued' PROVE w \in Queued \ {u}
        <4>1. PICK i \in 1..Len(queue') : queue'[i] = w
          BY DEF Queued
        <4>2. i + 1 \in 1..Len(queue) /\ i + 1 # 1 /\ queue[i + 1] = w
          BY <4>1, <3>1
        <4> QED BY <4>2, <3>2, <2>4 DEF Queued
      <3>4. ASSUME NEW w \in Queued, w # u PROVE w \in Queued'
        <4>1. PICK k \in 1..Len(queue) : queue[k] = w
          BY DEF Queued
        <4>2. k # 1
          BY <4>1, <3>4, <2>4
        <4>3. k - 1 \in 1..Len(queue') /\ queue'[k - 1] = w
          BY <4>1, <4>2, <3>1
        <4> QED BY <4>3 DEF Queued
      <3> QED BY <3>3, <3>4
    <2>6. \A w \in Queued' : left'[w] - Elapsed' = left[w] - Elapsed
      <3>1. \A w \in Queued : w # u => left'[w] = left[w]
        BY <1>a, <2>1, <2>3, QueuedUnits
      <3> QED BY <3>1, <2>2, <2>5
    <2>7. Running = NoUnit /\ Running' = u
      BY <2>1 DEF Running, Routine
    <2>8. left[u] - Elapsed = 0
      BY <2>2
    <2> HIDE DEF u
    <2> QED BY <1>0, <2>4, <2>5, <2>6, <2>7, <2>8, Fires
  <1>12. ASSUME NEW r \in ActionResults, ActionReturns(r) PROVE AbsStep
    <2>1. /\ pc = "action" /\ pc' = "after" /\ UNCHANGED <<clock, left, cur>>
      BY <1>12 DEF ActionReturns
    <2>2. Queued' = Queued /\ Elapsed' = Elapsed /\ left' = left
      BY <2>1 DEF clock, Queued, Elapsed, HeadTime
    <2>3. Running # NoUnit /\ Running' = NoUnit
      BY <1>a, <2>1, UnitAssumption DEF Running, Routine, TimeInv
    <2> QED BY <1>0, <2>2, <2>3, Finishes
  <1>13. CASE CatchUp \/ ReadPastEnd
    BY <1>a, <1>13 DEF CatchUp, ReadPastEnd, Behind, Inv, IntervalInv
  <1>14. CASE CaughtUp
    <2>1. UNCHANGED <<clock, left>> /\ Running' = Running
      BY <1>14 DEF CaughtUp, Running, Routine
    <2> QED BY <2>1, <1>s
  <1>15. CASE EndDispatch
    <2>1. /\ queue' = queue /\ time' = time /\ left' = left
          /\ pc = "exit" /\ pc' \in {"exec", "return"}
      BY <1>15 DEF EndDispatch
    <2>2. Running' = Running
      BY <2>1 DEF Running, Routine
    <2>3. CASE queue = <<>>
      BY <2>1, <2>2, <2>3, <1>e
    <2>4. CASE queue # <<>>
      <3>1. UNCHANGED <<clock, left>>
        BY <1>15, <2>1, <2>4 DEF EndDispatch, clock
      <3> QED BY <2>2, <3>1, <1>s
    <2> QED BY <2>3, <2>4
  <1>16. ASSUME NEW n \in 1..MaxStep, CountDown(n) PROVE AbsStep
    <2>1. /\ pc = "exec" /\ pc' \in {"exec", "poll"} /\ sim_interval' = sim_interval - 1
          /\ UNCHANGED <<queue, time, noqueue_time, left>>
      <3>1. n = 1
        BY <1>0 DEF Punctual
      <3> QED BY <1>16, <3>1 DEF CountDown
    <2>2. sim_interval >= 1
      BY <1>a, <2>1 DEF TimeInv
    <2>3. Queued' = Queued /\ HeadTime' = HeadTime
      BY <2>1 DEF Queued, HeadTime
    <2>4. Elapsed' = Elapsed + 1 /\ Elapsed = HeadTime - sim_interval
      <3>1. Elapsed = HeadTime - sim_interval /\ Elapsed' = HeadTime' - sim_interval'
        BY DEF Elapsed
      <3>2. \A x, y \in Int : x - (y - 1) = (x - y) + 1
        OBVIOUS
      <3> QED BY <3>1, <3>2, <2>1, <2>3, <1>b
    <2>5. \A u \in Queued : left[u] \in Int /\ left[u] >= HeadTime
      BY <1>a, QueuedUnits, HeadFirst
    <2>6. \A u \in Queued : left[u] - Elapsed \in Int /\ left[u] - Elapsed >= 1
      <3>1. \A x, y, z \in Int : x >= y /\ z >= 1 => x - (y - z) >= 1
        OBVIOUS
      <3> QED BY <3>1, <2>2, <2>4, <2>5, <1>b
    <2>7. \A u \in Queued : left'[u] - Elapsed' = (left[u] - Elapsed) - 1
      <3>1. \A x, y \in Int : x - (y + 1) = (x - y) - 1
        OBVIOUS
      <3> QED BY <3>1, <2>1, <2>4, <2>5, <1>b
    <2>8. Running' = Running
      BY <2>1 DEF Running, Routine
    <2> QED BY <1>0, <2>3, <2>6, <2>7, <2>8, Passes
  <1>h. CASE Halt
    <2>1. UNCHANGED <<clock, left>> /\ Running' = Running
      BY <1>h DEF Halt, Running, Routine
    <2> QED BY <2>1, <1>s
  <1>17. CASE Interrupt
    BY <1>0, <1>17 DEF Interrupt, Punctual
  <1>18. CASE EndRun
    <2>1. /\ pc = "return" /\ pc' = "scp" /\ queue' = queue
          /\ sim_interval' = sim_interval /\ left' = LeftAfter(Elapsed)
      BY <1>b, <1>18 DEF EndRun, Elapsed
    <2>2. Running' = Running
      BY <2>1 DEF Running, Routine
    <2>3. CASE queue = <<>>
      BY <2>1, <2>2, <2>3, <1>e
    <2>4. CASE queue # <<>>
      <3>1. HeadTime' = sim_interval
        BY <1>a, <1>18, <2>1, <2>4 DEF EndRun, HeadTime, TypeOK
      <3>2. Elapsed' = 0
        <4>1. Elapsed' = HeadTime' - sim_interval'
          BY DEF Elapsed
        <4>2. \A x \in Int : x - x = 0
          OBVIOUS
        <4> QED BY <1>b, <2>1, <3>1, <4>1, <4>2
      <3>3. Queued' = Queued
        BY <2>1 DEF Queued
      <3>4. \A w \in Queued : left'[w] = left[w] - Elapsed
        BY <1>a, <2>1, QueuedUnits DEF LeftAfter
      <3>5. \A w \in Queued : left'[w] - Elapsed' = left[w] - Elapsed
        BY <1>a, <3>2, <3>4, NowAll
      <3> QED BY <1>0, <2>2, <3>3, <3>5, Stutters
    <2> QED BY <2>3, <2>4
  <1>19. CASE Continue
    <2>1. UNCHANGED <<clock, left>> /\ Running' = Running
      BY <1>19 DEF Continue, Running, Routine
    <2> QED BY <2>1, <1>s
  <1>20. CASE UNCHANGED vars
    <2>1. UNCHANGED <<clock, left>> /\ Running' = Running
      BY <1>20 DEF vars, local, Running, Routine
    <2> QED BY <2>1, <1>s
  <1> QED BY <1>0, <1>1, <1>2, <1>3, <1>4, <1>5, <1>6, <1>7, <1>8, <1>9, <1>10,
             <1>11, <1>12, <1>13, <1>14, <1>15, <1>16, <1>17, <1>h, <1>18, <1>19, <1>20
          DEF Next, Call, SearchStep, ProcessStep, RunStep
-----------------------------------------------------------------------------
(* Theorems *)

LEMMA SpecTime == Punctual => (Spec => []Good)
  <1>1. SUFFICES ASSUME Punctual PROVE Spec => []Good
    OBVIOUS
  <1>2. Spec => [](TypeOK /\ Inv)
    <2>1. MaxStep = 1
      BY <1>1 DEF Punctual
    <2> QED BY <2>1, SpecInv
  <1>3. Init => TimeInv
    BY TimeInit
  <1>4. (TypeOK /\ Inv) /\ (TypeOK /\ Inv)' /\ TimeInv /\ [Next]_vars => TimeInv'
    BY <1>1, TimeStep
  <1>5. Good <=> (TypeOK /\ Inv) /\ TimeInv
    BY DEF Good
  <1> QED BY <1>2, <1>3, <1>4, <1>5, PTL DEF Spec

\* Where no poll comes late, the time sim_gtime returns is the number of
\* instructions executed, whatever calls instructions and routines make.
THEOREM TimeIsInstructions == Punctual => (Spec => []RuntimeCountsInstructions)
  <1>1. SUFFICES ASSUME Punctual PROVE Spec => []RuntimeCountsInstructions
    OBVIOUS
  <1>2. Spec => []Good
    BY <1>1, SpecTime
  <1>3. Good => RuntimeCountsInstructions
    BY DEF Good, TimeInv, RuntimeCountsInstructions
  <1> QED BY <1>2, <1>3, PTL

\* There the delta list implements the due times of EventQueueAbs, for any
\* units and delays: sim_activate_time is the refinement mapping.
THEOREM ListImplementsDueTimes == Punctual => (Spec => ImplementsDueTimes)
  <1>1. SUFFICES ASSUME Punctual PROVE Spec => ImplementsDueTimes
    OBVIOUS
  <1>2. Spec => []Good
    BY <1>1, SpecTime
  <1>3. Init => Abs!Init
    <2>1. SUFFICES ASSUME Init PROVE Abs!Init
      OBVIOUS
    <2>2. Queued = {}
      BY <2>1 DEF Init, Queued
    <2>3. Running = NoUnit
      BY <2>1 DEF Init, Running, Routine
    <2>4. Togos = [u \in Unit |-> 0]
      BY <2>2 DEF Togos
    <2> QED BY <2>2, <2>3, <2>4 DEF Abs!Init
  <1>4. Good /\ Good' /\ [Next]_vars => [Abs!Next]_(Abs!avars)
    BY <1>1, RefineStep DEF AbsStep
  <1> QED BY <1>2, <1>3, <1>4, PTL DEF Spec, ImplementsDueTimes, Abs!Spec
=============================================================================
