------------------------ MODULE EventQueueLate_proofs -------------------------
(***************************************************************************)
(* Proofs about EventQueue that assume nothing of the processor: polls     *)
(* come as late as they may and ^C whenever it may.                        *)
(*                                                                         *)
(* When polls are late, catching up moves sim_time past what it should be  *)
(* and the times on the list no longer add up to the due times asked for,  *)
(* but they add up to due times that are no earlier. The invariant says    *)
(* that there are such due times l.                                        *)
(***************************************************************************)
EXTENDS EventQueue_proofs

\* What _sim_activate knows while it searches a list whose times add up to l.
SearchFor(l) ==
    /\ act.unit \in Unit \ Queued
    /\ act.delay \in Nat \cup {-1}
    /\ act.pos \in 1..(Len(queue) + 1)
    /\ act.accum = IF act.pos = 1 THEN 0 ELSE l[queue[act.pos - 1]]
    /\ act.pos > 1 => act.accum <= act.delay

\* While the head is about to be dispatched sim_time has moved by its time.
Moved == IF pc = "pop" THEN HeadTime ELSE 0

\* The times on the list add up to l, and no unit was to be due after that.
Late(l) ==
    /\ Chain(queue, time, l)
    /\ \A u \in Queued : left[u] <= l[u] - Moved
    /\ pc = "search" => SearchFor(l)

\* Whatever is late was late before the poll: sim_process_event starts with no
\* interval left, and goes on to the next unit only while it is behind, or with
\* that unit due now.
PollInv ==
    /\ pc \notin {"poll", "return"} => sim_interval >= 0
    /\ pc = "poll" => sim_interval <= 0
    /\ pc \in {"action", "after"} /\ ~stop_cpu /\ queue # <<>>
          => sim_interval = time[Head(queue)]
    /\ pc = "pop" => /\ queue # <<>>
                     /\ catchup < 0 \/ (catchup = 0 /\ sim_interval = 0)

TimesNat == time \in [Unit -> Nat] /\ noqueue_time \in Nat

LateInv == TimesNat /\ PollInv /\ \E l \in [Unit -> Int] : Late(l)

\* The due times l come nearer by d.
Sooner(l, d) == [w \in Unit |-> l[w] - d]
-----------------------------------------------------------------------------
(* What the changes of the list do, for any due times its times add up to *)

\* The head's time is set to v.
LEMMA SetHead ==
  ASSUME NEW v \in Int, NEW l \in [Unit -> Int], TypeOK, Chain(queue, time, l),
         queue # <<>>
  PROVE  /\ Chain(queue, [time EXCEPT ![Head(queue)] = v],
                  Sooner(l, time[Head(queue)] - v))
         /\ Sooner(l, time[Head(queue)] - v) \in [Unit -> Int]
         /\ l[Head(queue)] = time[Head(queue)]
  <1>1. /\ queue \in Seq(Unit) /\ time \in [Unit -> Int]
        /\ Head(queue) = queue[1] /\ queue[1] \in Unit /\ 1 \in 1..Len(queue)
    BY DEF TypeOK
  <1>2. Nearer(Sooner(l, time[queue[1]] - v), l, queue, time[queue[1]] - v)
    BY <1>1 DEF Nearer, Sooner
  <1>3. Sooner(l, time[queue[1]] - v) \in [Unit -> Int]
    BY <1>1 DEF Sooner
  <1>4. l[queue[1]] = time[queue[1]]
    <2>1. l[queue[1]] = time[queue[1]] + IF 1 = 1 THEN 0 ELSE l[queue[0]]
      BY <1>1 DEF Chain
    <2> QED BY <2>1, <1>1
  <1> QED BY <1>1, <1>2, <1>3, <1>4, ChainNow

\* UPDATE_SIM_TIME.
LEMMA NowFor ==
  ASSUME NEW l \in [Unit -> Int], TypeOK, Chain(queue, time, l)
  PROVE  Chain(queue, TimeNow, Sooner(l, Elapsed)) /\ Sooner(l, Elapsed) \in [Unit -> Int]
  <1>1. Sooner(l, Elapsed) \in [Unit -> Int]
    BY ElapsedType DEF Sooner
  <1>2. CASE queue = <<>>
    BY <1>1, <1>2, EmptyChain
  <1>3. CASE queue # <<>>
    <2>1. /\ TimeNow = [time EXCEPT ![Head(queue)] = sim_interval]
          /\ Elapsed = time[Head(queue)] - sim_interval /\ sim_interval \in Int
      BY <1>3 DEF TimeNow, Elapsed, HeadTime, TypeOK
    <2> QED BY <1>1, <1>3, <2>1, SetHead
  <1> QED BY <1>2, <1>3

\* A unit leaves the list.
LEMMA DequeueFor ==
  ASSUME TypeOK, TimesNat, sim_interval \in Nat, NEW l \in [Unit -> Int],
         Chain(queue, time, l), NEW u \in Queued, Dequeue(u)
  PROVE  /\ Chain(queue', time', Sooner(l, Elapsed))
         /\ Sooner(l, Elapsed) \in [Unit -> Int]
         /\ Queued' = Queued \ {u}
         /\ TimesNat' /\ sim_interval' \in Nat
         /\ queue' # <<>> => sim_interval' = time'[Head(queue')]
         /\ \A w \in Queued' : left'[w] = left[w] - Elapsed
  <1> DEFINE p == Position(u)
             t == TimeNow
             m == Sooner(l, Elapsed)
  <1>1. queue \in Seq(Unit) /\ p \in 1..Len(queue) /\ queue[p] = u /\ u \in Unit
    <2>1. queue \in Seq(Unit) /\ p \in 1..Len(queue) /\ queue[p] = u
      BY PositionType DEF TypeOK
    <2> QED BY <2>1
  <1>2. queue' \in Seq(Unit) /\ Without(queue', queue, p)
    BY <1>1, RemovedAt DEF Dequeue, Without
  <1>3. t \in [Unit -> Nat] /\ m \in [Unit -> Int] /\ Chain(queue, t, m)
    BY NowNat, NowFor DEF TimesNat
  <1>4. time' = [w \in Unit |->
                    IF w = u THEN 0
                    ELSE IF p < Len(queue) /\ w = queue[p + 1]
                         THEN t[w] + t[u] ELSE t[w]]
    BY DEF Dequeue, TimesWithout
  <1>5. left' = [LeftAfter(Elapsed) EXCEPT ![u] = 0]
    BY DEF Dequeue
  <1>6. IF queue' = <<>>
        THEN sim_interval' = NOQUEUE_WAIT /\ noqueue_time' = NOQUEUE_WAIT
        ELSE sim_interval' = time'[Head(queue')] /\ UNCHANGED noqueue_time
    BY DEF Dequeue
  <1>m. m \in [Unit -> Int] /\ m = Sooner(l, Elapsed)
    BY <1>3
  <1> HIDE DEF p, t, m
  <1>7. SameBut(m, m, Unit, queue[p])
    BY DEF SameBut
  <1>8. GainsAt(time', t, Unit, queue[p], queue, p + 1, t[queue[p]])
    <2>1. p + 1 \in 1..Len(queue) <=> p < Len(queue)
      BY <1>1
    <2> QED BY <2>1, <1>1, <1>4 DEF GainsAt
  <1>9. Chain(queue', time', m) /\ \A i \in 1..Len(queue') : queue'[i] # queue[p]
    <2>1. t \in [Unit -> Int]
      BY <1>3
    <2> QED BY <2>1, <1>1, <1>2, <1>3, <1>7, <1>8, ChainRemove
  <1>10. Len(queue) \in Nat /\ Len(queue') = Len(queue) - 1
    BY <1>1, <1>2 DEF Without
  <1>11. Queued' = Queued \ {u}
    <2>1. ASSUME NEW w \in Queued' PROVE w \in Queued /\ w # u
      <3>1. PICK i \in 1..Len(queue') : queue'[i] = w
        BY DEF Queued
      <3>2. w # u
        BY <3>1, <1>1, <1>9
      <3>3. queue'[i] = IF i < p THEN queue[i] ELSE queue[i + 1]
        BY <1>2, <1>10 DEF Without
      <3>4. i \in 1..Len(queue) /\ i + 1 \in 1..Len(queue)
        BY <1>10
      <3> QED BY <3>1, <3>2, <3>3, <3>4 DEF Queued
    <2>2. ASSUME NEW w \in Queued, w # u PROVE w \in Queued'
      <3>1. PICK k \in 1..Len(queue) : queue[k] = w
        BY DEF Queued
      <3>2. k # p
        BY <3>1, <2>2, <1>1
      <3>3. CASE k < p
        <4>1. k \in 1..(Len(queue) - 1) /\ k \in 1..Len(queue')
          BY <3>3, <1>1, <1>10
        <4>2. queue'[k] = queue[k]
          BY <3>3, <4>1, <1>2 DEF Without
        <4> QED BY <3>1, <4>1, <4>2 DEF Queued
      <3>4. CASE k > p
        <4>1. /\ k - 1 \in 1..(Len(queue) - 1) /\ k - 1 \in 1..Len(queue')
              /\ ~(k - 1 < p) /\ (k - 1) + 1 = k
          BY <3>4, <1>1, <1>10
        <4>2. queue'[k - 1] = queue[k]
          BY <4>1, <1>2 DEF Without
        <4> QED BY <3>1, <4>1, <4>2 DEF Queued
      <3> QED BY <3>1, <3>2, <3>3, <3>4, <1>1
    <2> QED BY <2>1, <2>2
  <1>12. \A w \in Queued' : left'[w] = left[w] - Elapsed
    <2>1. ASSUME NEW w \in Queued PROVE w \in Unit
      BY <1>1 DEF Queued
    <2>2. ASSUME NEW w \in Queued, w # u PROVE left'[w] = left[w] - Elapsed
      BY <2>1, <2>2, <1>5 DEF LeftAfter
    <2> QED BY <2>2, <1>11
  <1>13. time' \in [Unit -> Nat]
    <2>1. ASSUME NEW w \in Unit PROVE time'[w] \in Nat
      <3>1. t[w] \in Nat /\ t[u] \in Nat
        BY <1>1, <1>3
      <3> QED BY <3>1, <1>4
    <2> QED BY <2>1, <1>4
  <1>14. noqueue_time' \in Nat /\ sim_interval' \in Nat
    <2>1. queue' # <<>> => Head(queue') \in Unit
      BY <1>2
    <2> QED BY <1>6, <1>13, <2>1, BoundAssumption DEF TimesNat
  <1> QED BY <1>m, <1>6, <1>9, <1>11, <1>12, <1>13, <1>14 DEF TimesNat

\* All that a call does before the search.
LEMMA PrepareFor ==
  ASSUME TypeOK, TimesNat, sim_interval \in Nat, NEW l \in [Unit -> Int],
         Chain(queue, time, l), NEW u \in Unit, Prepare(u)
  PROVE  /\ Chain(queue', time', Sooner(l, Elapsed))
         /\ Sooner(l, Elapsed) \in [Unit -> Int]
         /\ Queued' = Queued \ {u}
         /\ TimesNat' /\ sim_interval' \in Nat
         /\ \A w \in Queued' : left'[w] = left[w] - Elapsed
  <1>1. CASE u \in Queued
    BY <1>1, DequeueFor DEF Prepare
  <1>2. CASE u \notin Queued
    <2>1. UpdateSimTime /\ UNCHANGED <<queue, sim_interval>>
      BY <1>2 DEF Prepare
    <2>2. Chain(queue', time', Sooner(l, Elapsed)) /\ Sooner(l, Elapsed) \in [Unit -> Int]
      BY <2>1, NowFor DEF UpdateSimTime
    <2>3. Queued' = Queued
      BY <2>1 DEF Queued
    <2>4. TimesNat'
      BY <2>1, NowNat DEF UpdateSimTime, TimesNat
    <2>5. \A w \in Queued : w \in Unit
      BY DEF TypeOK, Queued
    <2>6. \A w \in Queued : left'[w] = left[w] - Elapsed
      BY <2>1, <2>5 DEF UpdateSimTime, LeftAfter
    <2> QED BY <1>2, <2>1, <2>2, <2>3, <2>4, <2>6
  <1> QED BY <1>1, <1>2

\* Steps that do not touch the list keep what its times add up to.
LEMMA SameLate ==
  ASSUME NEW l \in [Unit -> Int], Late(l), UNCHANGED <<queue, time, left>>,
         pc # "pop", pc' # "pop", pc' # "search"
  PROVE  Late(l)'
  <1>1. Queued' = Queued /\ Moved = 0 /\ Moved' = 0
    BY DEF Queued, Moved
  <1> QED BY <1>1 DEF Late

\* Units whose due times and whose times on the list come nearer by the same
\* stay due no later.
LEMMA StaysLate ==
  ASSUME TypeOK, NEW S \in SUBSET Queued, NEW l \in [Unit -> Int], NEW d \in Int,
         NEW k, NEW m, m = Sooner(l, d),
         \A w \in S : left[w] <= l[w] - 0, \A w \in S : k[w] = left[w] - d
  PROVE  \A w \in S : k[w] <= m[w] - 0
  <1>1. \A w \in S : w \in Unit
    BY QueuedUnits
  <1>2. \A w \in S : left[w] \in Int /\ l[w] \in Int /\ m[w] = l[w] - d
    BY <1>1 DEF TypeOK, Sooner
  <1>3. \A x, y \in Int : x <= y - 0 => x - d <= (y - d) - 0
    OBVIOUS
  <1> QED BY <1>2, <1>3

\* A call that goes on to the search.
LEMMA SearchLate ==
  ASSUME TypeOK, TypeOK', TimesNat, PollInv, NEW l \in [Unit -> Int], Late(l),
         NEW u \in Unit, NEW d \in Nat \cup {-1}, MayCall, Prepare(u), Search(u, d),
         UNCHANGED <<stop_cpu, local, drift>>
  PROVE  LateInv'
  <1>1. /\ pc \in {"exec", "action"} /\ pc' = "search"
        /\ act'.unit = u /\ act'.delay = d /\ act'.pos = 1 /\ act'.accum = 0
    BY DEF MayCall, Search
  <1>2. sim_interval \in Nat
    <2>1. sim_interval >= 0 /\ sim_interval \in Int
      BY <1>1 DEF PollInv, TypeOK
    <2> QED BY <2>1
  <1>3. /\ Chain(queue', time', Sooner(l, Elapsed))
        /\ Sooner(l, Elapsed) \in [Unit -> Int]
        /\ Queued' = Queued \ {u} /\ TimesNat' /\ sim_interval' \in Nat
        /\ \A w \in Queued' : left'[w] = left[w] - Elapsed
    BY <1>2, PrepareFor DEF Late
  <1>4. PICK m \in [Unit -> Int] : m = Sooner(l, Elapsed)
    BY <1>3
  <1>5. \A w \in Queued' : left'[w] <= m[w] - 0
    <2>1. \A w \in Queued' : left[w] <= l[w] - 0
      BY <1>1, <1>3 DEF Late, Moved
    <2>2. Elapsed \in Int /\ Queued' \in SUBSET Queued
      BY <1>3, ElapsedType
    <2> QED BY <1>3, <1>4, <2>1, <2>2, StaysLate
  <1>6. SearchFor(m)'
    <2>1. 1 \in 1..(Len(queue') + 1)
      BY DEF TypeOK
    <2> QED BY <1>1, <1>3, <2>1 DEF SearchFor
  <1>7. Moved' = 0
    BY <1>1 DEF Moved
  <1>8. Late(m)'
    BY <1>3, <1>4, <1>5, <1>6, <1>7 DEF Late
  <1>9. PollInv'
    BY <1>1, <1>3 DEF PollInv
  <1> QED BY <1>3, <1>8, <1>9 DEF LateInv

\* The search passes a unit that is due no later.
LEMMA SearchOnLate ==
  ASSUME TypeOK, TimesNat, PollInv, NEW l \in [Unit -> Int], Late(l), SearchOn
  PROVE  LateInv'
  <1> DEFINE p == act.pos
             a == act.accum
  <1>1. /\ pc = "search" /\ pc' = "search" /\ act.delay # -1
        /\ UNCHANGED <<queue, time, left, sim_interval, noqueue_time>>
    BY DEF SearchOn, clock
  <1>2. SearchFor(l)
    BY <1>1 DEF Late
  <1>3. /\ p \in 1..(Len(queue) + 1) /\ act.delay \in Nat
        /\ act.unit \in Unit \ Queued /\ queue \in Seq(Unit)
        /\ a \in Int /\ a = IF p = 1 THEN 0 ELSE l[queue[p - 1]]
    BY <1>1, <1>2 DEF SearchFor, TypeOK
  <1>4. p \in 1..Len(queue) /\ ~(act.delay < a + time[queue[p]])
    BY <1>3 DEF SearchOn, PlaceFound
  <1>5. /\ act'.unit = act.unit /\ act'.delay = act.delay /\ act'.pos = p + 1
        /\ act'.accum = a + time[queue[p]]
    BY DEF SearchOn, TypeOK
  <1>6. l[queue[p]] = time[queue[p]] + a /\ time[queue[p]] \in Int
    <2>1. l[queue[p]] = time[queue[p]] + IF p = 1 THEN 0 ELSE l[queue[p - 1]]
      BY <1>4 DEF Late, Chain
    <2>2. time[queue[p]] \in Int
      BY <1>3, <1>4 DEF TypeOK
    <2> QED BY <2>1, <2>2, <1>3
  <1> HIDE DEF p, a
  <1>7. SearchFor(l)'
    <2>1. act'.pos \in 1..(Len(queue') + 1) /\ act'.pos # 1 /\ act'.pos - 1 = p
      BY <1>1, <1>3, <1>4, <1>5
    <2>2. act'.accum = l[queue'[act'.pos - 1]]
      <3>1. \A x, y \in Int : x + y = y + x
        OBVIOUS
      <3>2. l[queue[p]] = a + time[queue[p]]
        BY <3>1, <1>3, <1>6
      <3> QED BY <1>1, <1>5, <2>1, <3>2
    <2>3. act'.accum <= act'.delay
      <3>1. \A x, y, z \in Int : ~(x < y + z) => y + z <= x
        OBVIOUS
      <3>2. act.delay \in Int
        BY <1>3
      <3>3. a + time[queue[p]] <= act.delay
        BY <3>1, <3>2, <1>3, <1>4, <1>6
      <3> QED BY <1>5, <3>3
    <2>4. act'.unit \in Unit \ Queued' /\ act'.delay \in Nat \cup {-1}
      BY <1>1, <1>3, <1>5 DEF Queued
    <2> QED BY <2>1, <2>2, <2>3, <2>4 DEF SearchFor
  <1>8. Queued' = Queued /\ Moved = 0 /\ Moved' = 0
    BY <1>1 DEF Queued, Moved
  <1>9. Late(l)'
    BY <1>1, <1>7, <1>8 DEF Late
  <1>10. PollInv' /\ TimesNat'
    BY <1>1 DEF PollInv, TimesNat
  <1> QED BY <1>9, <1>10 DEF LateInv

\* A unit that enters the list where it belongs keeps the others as they are.
LEMMA EnterLate ==
  ASSUME TypeOK, TypeOK', NEW l \in [Unit -> Int], Late(l), pc = "search",
         NEW p, NEW e, NEW d \in Int, NEW a, With(queue', queue, p, e),
         Fits(Unit, queue, time, l, p, e, d, a),
         GainsAt(time', time, Unit, e, queue, p, a - d), time'[e] = d - a,
         left' = [left EXCEPT ![e] = d], pc' \in {"exec", "action"}
  PROVE  \E m \in [Unit -> Int] : Late(m)'
  <1>1. e \in Unit /\ p \in 1..(Len(queue) + 1)
    BY DEF Fits
  <1>2. PICK m \in [Unit -> Int] : m = [l EXCEPT ![e] = d]
    OBVIOUS
  <1>3. m[e] = d /\ \A w \in Unit \ {e} : m[w] = l[w]
    BY <1>1, <1>2
  <1>4. queue \in Seq(Unit) /\ time \in [Unit -> Int] /\ left \in [Unit -> Int]
    BY DEF TypeOK
  <1>5. Takes(Unit, queue, time, l, p, e, d, a, time', m)
    BY <1>3 DEF Takes, SameBut
  <1>6. Chain(queue', time', m)
    <2>1. /\ queue \in Seq(Unit) /\ time \in [Unit -> Int] /\ l \in [Unit -> Int]
          /\ Chain(queue, time, l) /\ With(queue', queue, p, e)
          /\ Fits(Unit, queue, time, l, p, e, d, a)
          /\ Takes(Unit, queue, time, l, p, e, d, a, time', m)
      BY <1>4, <1>5 DEF Late
    <2> QED BY <2>1, ChainInsert
  <1>7. Moved = 0 /\ Moved' = 0
    BY DEF Moved
  <1>o. ASSUME NEW w \in Queued, w # e PROVE left'[w] <= m[w] - Moved'
    <2>1. w \in Unit
      BY QueuedUnits
    <2>2. left'[w] = left[w] /\ m[w] = l[w]
      BY <1>o, <2>1, <1>3, <1>4
    <2>3. left[w] <= l[w] - Moved
      BY DEF Late
    <2> QED BY <2>2, <2>3, <1>7
  <1>8. ASSUME NEW w \in Queued' PROVE left'[w] <= m[w] - Moved'
    <2>1. CASE w = e
      <3>1. left'[e] = d
        BY <1>1, <1>4
      <3>2. \A x \in Int : x <= x - 0
        OBVIOUS
      <3> QED BY <2>1, <3>1, <3>2, <1>3, <1>7
    <2>2. CASE w # e
      <3>1. PICK i \in 1..Len(queue') : queue'[i] = w
        BY DEF Queued
      <3>2. Len(queue) \in Nat /\ Len(queue') = Len(queue) + 1
        BY <1>4 DEF With
      <3>3. queue'[i] = IF i < p THEN queue[i] ELSE IF i = p THEN e ELSE queue[i - 1]
        BY <3>2 DEF With
      <3>4. CASE i < p
        <4>1. i \in 1..Len(queue) /\ queue[i] = w
          BY <3>1, <3>2, <3>3, <3>4, <1>1
        <4>2. w \in Queued
          BY <4>1 DEF Queued
        <4> QED BY <4>2, <2>2, <1>o
      <3>5. CASE i > p
        <4>1. i - 1 \in 1..Len(queue) /\ queue[i - 1] = w
          BY <3>1, <3>2, <3>3, <3>5, <1>1
        <4>2. w \in Queued
          BY <4>1 DEF Queued
        <4> QED BY <4>2, <2>2, <1>o
      <3>6. i # p
        BY <3>1, <3>3, <2>2
      <3> QED BY <3>2, <3>4, <3>5, <3>6, <1>1
    <2> QED BY <2>1, <2>2
  <1>9. Late(m)'
    BY <1>6, <1>8 DEF Late
  <1> QED BY <1>9

\* The push to the head.
LEMMA HeadPushLate ==
  ASSUME TypeOK, TypeOK', TimesNat, PollInv, NEW l \in [Unit -> Int], Late(l),
         ActivateAtHead
  PROVE  LateInv'
  <1> DEFINE e == act.unit
  <1>1. /\ pc = "search" /\ pc' = act.ret /\ queue' = <<e>> \o queue
        /\ time' = [time EXCEPT ![e] = 0] /\ left' = [left EXCEPT ![e] = 0]
        /\ sim_interval' = 0 /\ noqueue_time' = noqueue_time
    BY DEF ActivateAtHead
  <1>2. SearchFor(l)
    BY <1>1 DEF Late
  <1>3. /\ e \in Unit /\ queue \in Seq(Unit) /\ time \in [Unit -> Int]
        /\ pc' \in {"exec", "action"}
        /\ \A k \in 1..Len(queue) : queue[k] # e
    BY <1>1, <1>2 DEF TypeOK, SearchFor, Queued
  <1>4. With(queue', queue, 1, e) /\ queue' # <<>> /\ Head(queue') = e
    BY <1>1, <1>3 DEF With
  <1>5. GainsAt(time', time, Unit, e, queue, 1, 0 - 0) /\ time'[e] = 0 - 0
    BY <1>1, <1>3 DEF GainsAt
  <1>6. 1 <= Len(queue) => 0 <= 0 + time[queue[1]]
    BY <1>3 DEF TimesNat
  <1> HIDE DEF e
  <1>7. Fits(Unit, queue, time, l, 1, e, 0, 0)
    BY <1>3, <1>6 DEF Fits
  <1>8. \E m \in [Unit -> Int] : Late(m)'
    <2>1. 0 \in Int
      OBVIOUS
    <2> QED BY <2>1, <1>1, <1>3, <1>4, <1>5, <1>7, EnterLate
  <1>9. TimesNat'
    BY <1>1, <1>3 DEF TimesNat
  <1>10. PollInv'
    <2>1. time'[Head(queue')] = 0
      BY <1>4, <1>5
    <2> QED BY <1>1, <1>3, <2>1 DEF PollInv
  <1> QED BY <1>8, <1>9, <1>10 DEF LateInv

\* The unit goes in where the search stopped.
LEMMA InsertLate ==
  ASSUME TypeOK, TypeOK', TimesNat, PollInv, NEW l \in [Unit -> Int], Late(l), Insert
  PROVE  LateInv'
  <1> DEFINE e == act.unit
             p == act.pos
             a == act.accum
             d == act.delay
  <1>1. /\ pc = "search" /\ pc' = act.ret /\ queue' = InsertAt(queue, p, e)
        /\ time' = [w \in Unit |->
                      IF w = e THEN d - a
                      ELSE IF p <= Len(queue) /\ w = queue[p]
                           THEN time[w] - (d - a) ELSE time[w]]
        /\ left' = [left EXCEPT ![e] = d] /\ d # -1
        /\ sim_interval' = time'[Head(queue')] /\ noqueue_time' = noqueue_time
        /\ p <= Len(queue) => d < a + time[queue[p]]
    BY DEF Insert, PlaceFound
  <1>2. SearchFor(l)
    BY <1>1 DEF Late
  <1>3. /\ e \in Unit /\ queue \in Seq(Unit) /\ time \in [Unit -> Int]
        /\ pc' \in {"exec", "action"} /\ \A k \in 1..Len(queue) : queue[k] # e
    BY <1>1, <1>2 DEF TypeOK, SearchFor, Queued
  <1>4. /\ p \in 1..(Len(queue) + 1) /\ d \in Nat /\ a \in Int
        /\ a = IF p = 1 THEN 0 ELSE l[queue[p - 1]]
        /\ p > 1 => a <= d
    BY <1>1, <1>2 DEF SearchFor, TypeOK
  <1> HIDE DEF e, p, a, d
  <1>5. With(queue', queue, p, e) /\ queue' \in Seq(Unit)
    <2>1. /\ InsertAt(queue, p, e) \in Seq(Unit)
          /\ With(InsertAt(queue, p, e), queue, p, e)
      BY <1>3, <1>4, InsertedAt DEF With
    <2> QED BY <1>1, <2>1
  <1>6. queue' # <<>> /\ Head(queue') \in Unit
    <2>1. Len(queue') = Len(queue) + 1 /\ Len(queue) \in Nat
      BY <1>3, <1>5 DEF With
    <2> QED BY <1>5, <2>1
  <1>7. d - a \in Nat
    <2>1. p = 1 => a = 0
      BY <1>4
    <2> QED BY <2>1, <1>4
  <1>8. GainsAt(time', time, Unit, e, queue, p, a - d)
    <2>1. ASSUME NEW w \in Unit \ {e}
          PROVE  time'[w] = IF p \in 1..Len(queue) /\ w = queue[p]
                            THEN time[w] + (a - d) ELSE time[w]
      <3>1. p \in 1..Len(queue) <=> p <= Len(queue)
        BY <1>3, <1>4
      <3>2. time[w] - (d - a) = time[w] + (a - d)
        <4>1. time[w] \in Int
          BY <1>3
        <4> QED BY <4>1, <1>4
      <3>3. time'[w] = IF p <= Len(queue) /\ w = queue[p]
                       THEN time[w] - (d - a) ELSE time[w]
        BY <1>1
      <3> QED BY <3>1, <3>2, <3>3
    <2> QED BY <2>1 DEF GainsAt
  <1>9. p <= Len(queue) => d <= a + time[queue[p]]
    <2>1. p <= Len(queue) => time[queue[p]] \in Int
      BY <1>3, <1>4
    <2>2. \A x, y, z \in Int : x < y + z => x <= y + z
      OBVIOUS
    <2>3. d \in Int
      BY <1>4
    <2> QED BY <2>1, <2>2, <2>3, <1>1, <1>4
  <1>10. Fits(Unit, queue, time, l, p, e, d, a) /\ d \in Int
    BY <1>3, <1>4, <1>9 DEF Fits
  <1>11. time'[e] = d - a
    BY <1>1, <1>3
  <1>12. \E m \in [Unit -> Int] : Late(m)'
    BY <1>1, <1>3, <1>5, <1>8, <1>10, <1>11, EnterLate
  <1>13. time' \in [Unit -> Nat]
    <2>1. ASSUME NEW w \in Unit PROVE time'[w] \in Nat
      <3>1. time[w] \in Nat
        BY DEF TimesNat
      <3>2. CASE p <= Len(queue) /\ w = queue[p] /\ w # e
        <4>1. time'[w] = time[w] - (d - a) /\ d < a + time[w]
          BY <1>1, <3>2
        <4>2. \A x \in Nat, y, z \in Int : y < z + x => x - (y - z) \in Nat
          OBVIOUS
        <4>3. d \in Int /\ a \in Int
          BY <1>4
        <4> QED BY <4>1, <4>2, <4>3, <3>1
      <3>3. CASE ~(p <= Len(queue) /\ w = queue[p] /\ w # e)
        BY <1>1, <1>7, <3>1, <3>3
      <3> QED BY <3>2, <3>3
    <2> QED BY <1>1, <2>1
  <1>14. sim_interval' \in Nat /\ sim_interval' = time'[Head(queue')]
    BY <1>1, <1>6, <1>13
  <1>15. PollInv' /\ TimesNat'
    BY <1>1, <1>3, <1>13, <1>14 DEF PollInv, TimesNat
  <1> QED BY <1>12, <1>15 DEF LateInv

\* Units are due sooner by the same amount as sim_time moves.
LEMMA MovesOn ==
  ASSUME TypeOK, NEW l \in [Unit -> Int], NEW d \in Int, NEW m, m = Sooner(l, d),
         NEW c \in Int, \A w \in Queued : left[w] <= l[w] - c
  PROVE  \A w \in Queued : LeftAfter(d)[w] <= m[w] - c
  <1>1. ASSUME NEW w \in Queued PROVE LeftAfter(d)[w] <= m[w] - c
    <2>1. w \in Unit
      BY QueuedUnits
    <2>2. LeftAfter(d)[w] = left[w] - d /\ m[w] = l[w] - d
      BY <2>1 DEF LeftAfter, Sooner
    <2>3. left[w] \in Int /\ l[w] \in Int
      BY <2>1 DEF TypeOK
    <2>4. \A x, y, z, e \in Int : x <= y - e => x - z <= (y - z) - e
      OBVIOUS
    <2> QED BY <2>2, <2>3, <2>4
  <1> QED BY <1>1

\* A cancel.
LEMMA CancelLate ==
  ASSUME TypeOK, TypeOK', LateInv, NEW u \in Unit, SimCancel(u)
  PROVE  LateInv'
  <1>1. PICK l \in [Unit -> Int] : Late(l)
    BY DEF LateInv
  <1>2. pc \in {"exec", "action"} /\ pc' = pc /\ stop_cpu' = stop_cpu
    BY DEF SimCancel, MayCall
  <1>3. CASE u \in Queued
    <2>1. Dequeue(u)
      BY <1>3 DEF SimCancel
    <2>2. sim_interval \in Nat
      <3>1. sim_interval >= 0 /\ sim_interval \in Int
        BY <1>2 DEF LateInv, PollInv, TypeOK
      <3> QED BY <3>1
    <2>3. /\ Chain(queue', time', Sooner(l, Elapsed))
          /\ Sooner(l, Elapsed) \in [Unit -> Int]
          /\ Queued' = Queued \ {u} /\ TimesNat' /\ sim_interval' \in Nat
          /\ queue' # <<>> => sim_interval' = time'[Head(queue')]
          /\ \A w \in Queued' : left'[w] = left[w] - Elapsed
      <3>1. Chain(queue, time, l) /\ TimesNat
        BY <1>1 DEF Late, LateInv
      <3> QED BY <3>1, <1>3, <2>1, <2>2, DequeueFor
    <2>4. PICK m \in [Unit -> Int] : m = Sooner(l, Elapsed)
      BY <2>3
    <2>5. \A w \in Queued' : left'[w] <= m[w] - 0
      <3>1. \A w \in Queued' : left[w] <= l[w] - 0
        BY <1>1, <1>2, <2>3 DEF Late, Moved
      <3>2. Elapsed \in Int /\ Queued' \in SUBSET Queued
        BY <2>3, ElapsedType
      <3>3. \A w \in Queued' : left'[w] = left[w] - Elapsed
        BY <2>3
      <3> QED BY <2>4, <3>1, <3>2, <3>3, StaysLate
    <2>6. Moved' = 0
      BY <1>2 DEF Moved
    <2>7. Late(m)'
      BY <1>2, <2>3, <2>4, <2>5, <2>6 DEF Late
    <2>8. PollInv'
      BY <1>2, <2>3 DEF PollInv
    <2> QED BY <2>3, <2>7, <2>8 DEF LateInv
  <1>4. CASE u \notin Queued
    <2>1. UNCHANGED <<clock, left, stop_cpu>>
      BY <1>4 DEF SimCancel
    <2>2. Late(l)'
      BY <1>1, <1>2, <2>1, SameLate DEF clock
    <2>3. PollInv' /\ TimesNat'
      BY <1>2, <2>1 DEF PollInv, TimesNat, LateInv, clock
    <2> QED BY <2>2, <2>3 DEF LateInv
  <1> QED BY <1>3, <1>4

\* The dispatch begins: sim_time moves to when the first unit is due.
LEMMA StartLate ==
  ASSUME TypeOK, TypeOK', LateInv, StartDispatch
  PROVE  LateInv'
  <1>1. PICK l \in [Unit -> Int] : Late(l)
    BY DEF LateInv
  <1>2. /\ pc = "poll" /\ queue # <<>> /\ queue' = queue /\ pc' = "pop"
        /\ time' = [time EXCEPT ![Head(queue)] = 0]
        /\ left' = LeftAfter(HeadTime) /\ catchup' = sim_interval
        /\ sim_interval' = 0 /\ noqueue_time' = noqueue_time
    BY DEF StartDispatch
  <1>3. /\ HeadTime = time[Head(queue)] /\ Head(queue) \in Unit
        /\ time[Head(queue)] \in Int /\ time[Head(queue)] - 0 = HeadTime
    <2>1. HeadTime = time[Head(queue)] /\ Head(queue) \in Unit
      BY <1>2 DEF HeadTime, TypeOK
    <2> QED BY <2>1 DEF TypeOK
  <1>4. /\ Chain(queue, time', Sooner(l, HeadTime))
        /\ Sooner(l, HeadTime) \in [Unit -> Int]
    <2>1. 0 \in Int /\ Chain(queue, time, l)
      BY <1>1 DEF Late
    <2> QED BY <1>2, <1>3, <2>1, SetHead
  <1>5. PICK m \in [Unit -> Int] : m = Sooner(l, HeadTime)
    BY <1>4
  <1>6. Moved = 0 /\ Moved' = 0
    <2>1. time'[Head(queue)] = 0
      BY <1>2, <1>3 DEF TypeOK
    <2> QED BY <1>2, <2>1 DEF Moved, HeadTime
  <1>7. \A w \in Queued : left'[w] <= m[w] - 0
    <2>1. \A w \in Queued : left[w] <= l[w] - 0
      BY <1>1, <1>6 DEF Late
    <2>2. HeadTime \in Int /\ 0 \in Int
      BY <1>3
    <2> QED BY <1>2, <1>5, <2>1, <2>2, MovesOn
  <1>8. Queued' = Queued
    BY <1>2 DEF Queued
  <1>9. Late(m)'
    BY <1>2, <1>4, <1>5, <1>6, <1>7, <1>8 DEF Late
  <1>10. TimesNat'
    BY <1>2, <1>3 DEF LateInv, TimesNat
  <1>11. PollInv'
    <2>1. sim_interval <= 0 /\ sim_interval \in Int
      BY <1>2 DEF LateInv, PollInv, TypeOK
    <2>2. catchup' < 0 \/ catchup' = 0
      BY <1>2, <2>1
    <2> QED BY <1>2, <2>2 DEF PollInv
  <1> QED BY <1>9, <1>10, <1>11 DEF LateInv

\* The head is dispatched, at a time that is not before the one it was due at.
LEMMA PopLate ==
  ASSUME TypeOK, TypeOK', LateInv, PopHead
  PROVE  LateInv' /\ left[Head(queue)] <= Elapsed'
  <1>1. PICK l \in [Unit -> Int] : Late(l)
    BY DEF LateInv
  <1>2. /\ catchup < 0 \/ (catchup = 0 /\ sim_interval = 0)
        /\ queue # <<>> /\ pc = "pop" /\ sim_interval >= 0 /\ sim_interval \in Int
    BY DEF PopHead, LateInv, PollInv, TypeOK
  <1>3. /\ pc' = "action" /\ queue' = Tail(queue)
        /\ time' = [time EXCEPT ![Head(queue)] = 0]
        /\ left' = [left EXCEPT ![Head(queue)] = 0]
    BY DEF PopHead
  <1>4. queue \in Seq(Unit) /\ time \in [Unit -> Int] /\ left \in [Unit -> Int]
    BY DEF TypeOK
  <1>5. /\ queue # <<>> /\ Head(queue) = queue[1] /\ queue[1] \in Unit
        /\ 1 \in 1..Len(queue) /\ Tail(queue) \in Seq(Unit)
    BY <1>2, <1>4
  <1>6. /\ HeadTime = time[queue[1]] /\ time[queue[1]] \in Int
        /\ time[queue[1]] - 0 = HeadTime
    BY <1>4, <1>5 DEF HeadTime
  <1>7. /\ Chain(queue, time', Sooner(l, HeadTime))
        /\ Sooner(l, HeadTime) \in [Unit -> Int] /\ l[queue[1]] = time[queue[1]]
    <2>1. 0 \in Int /\ Chain(queue, time, l)
      BY <1>1 DEF Late
    <2> QED BY <1>3, <1>5, <1>6, <2>1, SetHead
  <1>8. PICK m \in [Unit -> Int] : m = Sooner(l, HeadTime)
    BY <1>7
  <1>9. Without(Tail(queue), queue, 1)
    BY <1>4, <1>5 DEF Without
  <1>10. /\ Chain(queue', time', m)
         /\ \A i \in 1..Len(queue') : queue'[i] # queue[1]
    <2>1. Chain(queue, time', m) /\ Without(queue', queue, 1)
      BY <1>3, <1>7, <1>8, <1>9
    <2>2. SameBut(m, m, Unit, queue[1])
      BY DEF SameBut
    <2>3. GainsAt(time', time', Unit, queue[1], queue, 1 + 1, time'[queue[1]])
      <3>1. time'[queue[1]] = 0
        BY <1>3, <1>4, <1>5
      <3>2. \A w \in Unit : time'[w] = time'[w] + 0
        BY DEF TypeOK
      <3> QED BY <3>1, <3>2 DEF GainsAt
    <2>4. time' \in [Unit -> Int]
      BY DEF TypeOK
    <2> QED BY <2>1, <2>2, <2>3, <2>4, <1>4, <1>5, ChainRemove
  <1>11. ASSUME NEW w \in Queued'
         PROVE  w \in Queued /\ w # queue[1] /\ w \in Unit
    <2>1. PICK i \in 1..Len(queue') : queue'[i] = w
      BY DEF Queued
    <2>2. i + 1 \in 1..Len(queue) /\ queue'[i] = queue[i + 1]
      BY <1>3, <1>4, <1>5
    <2>3. w = queue[i + 1] /\ w # queue[1]
      BY <2>1, <2>2, <1>10
    <2> QED BY <2>2, <2>3, QueuedUnits DEF Queued
  <1>12. ASSUME NEW w \in Queued' PROVE left'[w] <= m[w] - 0
    <2>1. left'[w] = left[w]
      BY <1>3, <1>4, <1>11
    <2>2. left[w] <= l[w] - HeadTime
      BY <1>1, <1>2, <1>11 DEF Late, Moved
    <2>3. m[w] = l[w] - HeadTime
      BY <1>8, <1>11 DEF Sooner
    <2>4. m[w] \in Int
      BY <1>11
    <2>5. \A x \in Int : x - 0 = x
      OBVIOUS
    <2> QED BY <2>1, <2>2, <2>3, <2>4, <2>5
  <1>13. Late(m)'
    <2>1. Moved' = 0
      BY <1>3 DEF Moved
    <2> QED BY <1>3, <1>10, <1>12, <2>1 DEF Late
  <1>14. time' \in [Unit -> Nat]
    BY <1>3, <1>5 DEF LateInv, TimesNat
  <1>15. /\ sim_interval' \in Nat /\ noqueue_time' \in Nat
         /\ queue' # <<>> => sim_interval' = time'[Head(queue')]
         /\ queue' = <<>> => sim_interval' = noqueue_time'
    <2>1. CASE Tail(queue) = <<>>
      BY <1>3, <2>1, BoundAssumption DEF PopHead
    <2>2. CASE Tail(queue) # <<>>
      <3>1. Head(Tail(queue)) = queue[2] /\ queue[2] \in Unit /\ 2 \in 1..Len(queue)
        <4>1. Tail(queue) \in Seq(Unit) /\ Len(Tail(queue)) = Len(queue) - 1
          BY <1>4, <1>5
        <4>2. Len(Tail(queue)) >= 1 /\ Tail(queue)[1] = queue[2]
          BY <1>4, <1>5, <2>2, <4>1
        <4> QED BY <1>4, <2>2, <4>1, <4>2
      <3>2. queue[2] # queue[1]
        BY <1>1, <1>5, <3>1 DEF Late, Chain
      <3>3. /\ sim_interval' = time[queue[2]]
                               + IF catchup < 0 THEN 0 ELSE sim_interval + catchup
            /\ noqueue_time' = noqueue_time
        BY <2>2 DEF PopHead
      <3>4. (IF catchup < 0 THEN 0 ELSE sim_interval + catchup) = 0
        BY <1>2
      <3>5. time[queue[2]] \in Nat /\ noqueue_time \in Nat
        BY <3>1 DEF LateInv, TimesNat
      <3>6. sim_interval' = time[queue[2]]
        BY <3>3, <3>4, <3>5
      <3>7. time'[queue[2]] = time[queue[2]]
        BY <1>3, <1>4, <1>5, <3>1, <3>2
      <3> QED BY <1>3, <2>2, <3>1, <3>3, <3>5, <3>6, <3>7
    <2> QED BY <2>1, <2>2
  <1>16. PollInv' /\ TimesNat'
    BY <1>3, <1>14, <1>15 DEF PollInv, TimesNat
  <1>17. Elapsed' = 0
    <2>1. Elapsed' = HeadTime' - sim_interval'
      BY DEF Elapsed
    <2>2. HeadTime' = IF queue' = <<>> THEN noqueue_time' ELSE time'[Head(queue')]
      BY DEF HeadTime
    <2>3. HeadTime' = sim_interval'
      BY <1>15, <2>2
    <2>4. \A x \in Nat : x - x = 0
      OBVIOUS
    <2> QED BY <1>15, <2>1, <2>3, <2>4
  <1>18. left[queue[1]] <= 0
    <2>1. queue[1] \in Queued
      BY <1>5 DEF Queued
    <2>2. left[queue[1]] <= l[queue[1]] - HeadTime
      BY <1>1, <1>2, <2>1 DEF Late, Moved
    <2> QED BY <1>6, <1>7, <2>2
  <1> QED BY <1>5, <1>13, <1>16, <1>17, <1>18 DEF LateInv

\* sim_time catches up, and no unit is due sooner.
LEMMA CatchUpLate ==
  ASSUME TypeOK, TypeOK', LateInv, CatchUp
  PROVE  LateInv'
  <1>1. PICK l \in [Unit -> Int] : Late(l)
    BY DEF LateInv
  <1>2. /\ pc = "after" /\ queue # <<>> /\ catchup' = catchup + HeadTime
        /\ UNCHANGED <<queue, time, sim_interval, noqueue_time, stop_cpu>>
        /\ left' = LeftAfter(HeadTime) /\ pc' = IF Goes THEN "pop" ELSE "exit"
    BY DEF CatchUp, clock
  <1>3. HeadTime = time[Head(queue)] /\ HeadTime \in Nat /\ HeadTime' = HeadTime
    <2>1. HeadTime = time[Head(queue)] /\ HeadTime' = time'[Head(queue')]
      BY <1>2 DEF HeadTime
    <2>2. Head(queue) \in Unit
      BY <1>2 DEF TypeOK
    <2> QED BY <1>2, <2>1, <2>2 DEF LateInv, TimesNat
  <1>4. Moved = 0 /\ Moved' \in {0, HeadTime}
    BY <1>2, <1>3 DEF Moved
  <1>5. ASSUME NEW w \in Queued PROVE left'[w] <= l[w] - Moved'
    <2>1. w \in Unit
      BY QueuedUnits
    <2>2. left'[w] = left[w] - HeadTime /\ left[w] \in Int /\ l[w] \in Int
      BY <1>2, <2>1 DEF LeftAfter, TypeOK
    <2>3. left[w] <= l[w] - 0
      BY <1>1, <1>4 DEF Late
    <2>4. \A x, y \in Int, h \in Nat :
             x <= y - 0 => x - h <= y - 0 /\ x - h <= y - h
      OBVIOUS
    <2> QED BY <1>3, <1>4, <2>2, <2>3, <2>4
  <1>6. Queued' = Queued /\ pc' # "search"
    BY <1>2 DEF Queued
  <1>7. Late(l)'
    BY <1>1, <1>2, <1>5, <1>6 DEF Late
  <1>8. TimesNat'
    BY <1>2 DEF LateInv, TimesNat
  <1>9. sim_interval >= 0 /\ sim_interval \in Int
    BY <1>2 DEF LateInv, PollInv, TypeOK
  <1>10. PollInv'
    <2>1. CASE Goes
      <3>1. sim_interval + catchup' <= 0 /\ catchup' \in Int
        BY <2>1 DEF Goes, TypeOK
      <3>2. \A x, y \in Int : x >= 0 /\ x + y <= 0 => y < 0 \/ (y = 0 /\ x = 0)
        OBVIOUS
      <3>3. catchup' < 0 \/ (catchup' = 0 /\ sim_interval = 0)
        BY <1>9, <3>1, <3>2
      <3> QED BY <1>2, <1>9, <2>1, <3>3 DEF PollInv
    <2>2. CASE ~Goes
      BY <1>2, <1>9, <2>2 DEF PollInv
    <2> QED BY <2>1, <2>2
  <1> QED BY <1>7, <1>8, <1>10 DEF LateInv

\* There is nothing left to catch up.
LEMMA CaughtUpLate ==
  ASSUME TypeOK, TypeOK', LateInv, CaughtUp
  PROVE  LateInv'
  <1>1. PICK l \in [Unit -> Int] : Late(l)
    BY DEF LateInv
  <1>2. /\ pc = "after" /\ catchup' = 0 /\ pc' = IF Goes THEN "pop" ELSE "exit"
        /\ UNCHANGED <<queue, time, sim_interval, noqueue_time, stop_cpu, left>>
    BY DEF CaughtUp, clock
  <1>3. sim_interval >= 0 /\ sim_interval \in Int
    BY <1>2 DEF LateInv, PollInv, TypeOK
  <1>4. Goes => queue # <<>> /\ sim_interval = 0 /\ time[Head(queue)] = 0
    <2>1. ASSUME Goes PROVE queue # <<>> /\ ~stop_cpu /\ sim_interval + 0 <= 0
      BY <1>2, <2>1 DEF Goes
    <2>2. ASSUME Goes PROVE sim_interval = time[Head(queue)]
      BY <1>2, <2>1, <2>2 DEF LateInv, PollInv
    <2> QED BY <1>3, <2>1, <2>2
  <1>5. Moved = 0 /\ Moved' = 0 /\ Queued' = Queued /\ pc' # "search"
    BY <1>2, <1>4 DEF Moved, HeadTime, Queued
  <1>6. Late(l)'
    BY <1>1, <1>2, <1>5 DEF Late
  <1>7. TimesNat' /\ PollInv'
    BY <1>2, <1>3, <1>4 DEF LateInv, TimesNat, PollInv
  <1> QED BY <1>6, <1>7 DEF LateInv

\* run_cmd forgets what is still to be caught up.
LEMMA EndRunLate ==
  ASSUME TypeOK, TypeOK', LateInv, EndRun
  PROVE  LateInv'
  <1>1. PICK l \in [Unit -> Int] : Late(l)
    BY DEF LateInv
  <1> DEFINE gone == HeadTime - sim_interval'
  <1>2. /\ pc = "return" /\ pc' = "scp" /\ queue' = queue
        /\ time' = IF queue = <<>> THEN time
                   ELSE [time EXCEPT ![Head(queue)] = sim_interval']
        /\ noqueue_time' = IF queue = <<>> THEN sim_interval' ELSE noqueue_time
        /\ left' = LeftAfter(gone)
    BY DEF EndRun
  <1>3. sim_interval' \in Nat
    BY DEF EndRun, TypeOK
  <1>4. gone \in Int
    <2>1. HeadTime \in Int
      BY ElapsedType
    <2>2. \A x \in Int, y \in Nat : x - y \in Int
      OBVIOUS
    <2> QED BY <1>3, <2>1, <2>2
  <1>5. Chain(queue, time', Sooner(l, gone)) /\ Sooner(l, gone) \in [Unit -> Int]
    <2>1. CASE queue = <<>>
      BY <1>4, <2>1, EmptyChain DEF Sooner
    <2>2. CASE queue # <<>>
      <3>1. /\ time' = [time EXCEPT ![Head(queue)] = sim_interval']
            /\ gone = time[Head(queue)] - sim_interval'
        BY <1>2, <2>2 DEF HeadTime
      <3>2. sim_interval' \in Int /\ Chain(queue, time, l)
        BY <1>1, <1>3 DEF Late
      <3> HIDE DEF gone
      <3> QED BY <2>2, <3>1, <3>2, SetHead
    <2> QED BY <2>1, <2>2
  <1>6. PICK m \in [Unit -> Int] : m = Sooner(l, gone)
    BY <1>5
  <1>7. Moved = 0 /\ Moved' = 0
    BY <1>2 DEF Moved
  <1> HIDE DEF gone
  <1>8. \A w \in Queued : left'[w] <= m[w] - 0
    <2>1. \A w \in Queued : left[w] <= l[w] - 0
      BY <1>1, <1>7 DEF Late
    <2>2. 0 \in Int
      OBVIOUS
    <2> QED BY <1>2, <1>4, <1>6, <2>1, <2>2, MovesOn
  <1>9. Queued' = Queued
    BY <1>2 DEF Queued
  <1>10. Late(m)'
    BY <1>2, <1>5, <1>6, <1>7, <1>8, <1>9 DEF Late
  <1>11. TimesNat'
    BY <1>2, <1>3 DEF LateInv, TimesNat
  <1>12. PollInv'
    BY <1>2, <1>3 DEF PollInv
  <1> QED BY <1>10, <1>11, <1>12 DEF LateInv
-----------------------------------------------------------------------------
(* The invariant, and the theorem *)

\* Init is a state of the monitor with nothing on the list.
LEMMA LateInit == Init => LateInv
  <1>1. SUFFICES ASSUME Init PROVE LateInv
    OBVIOUS
  <1>2. /\ queue = <<>> /\ time = [u \in Unit |-> 0] /\ noqueue_time = 0
        /\ sim_interval = 0 /\ pc = "scp"
    BY <1>1 DEF Init
  <1>3. PICK l \in [Unit -> Int] : l = time
    <2>1. time \in [Unit -> Int]
      BY <1>2
    <2> QED BY <2>1
  <1>4. Late(l)
    BY <1>2, EmptyChain DEF Late, Queued
  <1>5. TimesNat /\ PollInv
    BY <1>2 DEF TimesNat, PollInv
  <1> QED BY <1>4, <1>5 DEF LateInv

\* The invariant is inductive, one step per action.
LEMMA LateStep == TypeOK /\ TypeOK' /\ LateInv /\ [Next]_vars => LateInv'
  <1>0. SUFFICES ASSUME TypeOK, TypeOK', LateInv, [Next]_vars PROVE LateInv'
    OBVIOUS
  <1>l. PICK l \in [Unit -> Int] : Late(l)
    BY <1>0 DEF LateInv
  <1>p. TimesNat /\ PollInv
    BY <1>0 DEF LateInv
  <1>1. ASSUME NEW u \in Unit, NEW d \in Delays, SimActivate(u, d) PROVE LateInv'
    <2>1. CASE u \in Queued
      <3>1. UNCHANGED <<clock, left, pc, stop_cpu, local>> /\ pc \in {"exec", "action"}
        BY <1>1, <2>1 DEF SimActivate, MayCall
      <3>2. Late(l)'
        BY <1>l, <3>1, SameLate DEF clock
      <3>3. PollInv' /\ TimesNat'
        BY <1>p, <3>1 DEF PollInv, TimesNat, clock
      <3> QED BY <3>2, <3>3 DEF LateInv
    <2>2. CASE u \notin Queued
      <3>1. MayCall /\ Prepare(u) /\ Search(u, d) /\ UNCHANGED <<stop_cpu, local, drift>>
        BY <1>1, <2>2 DEF SimActivate
      <3>2. d \in Nat \cup {-1}
        BY DelayType
      <3> QED BY <1>0, <1>l, <1>p, <3>1, <3>2, SearchLate
    <2> QED BY <2>1, <2>2
  <1>2. ASSUME NEW u \in Unit, SimCancel(u) PROVE LateInv'
    BY <1>0, <1>2, CancelLate
  <1>3. ASSUME NEW u \in Unit, NEW d \in Delays, SimActivateAbs(u, d) PROVE LateInv'
    <2>1. MayCall /\ Prepare(u) /\ Search(u, d) /\ UNCHANGED <<stop_cpu, local, drift>>
      BY <1>3 DEF SimActivateAbs
    <2>2. d \in Nat \cup {-1}
      BY DelayType
    <2> QED BY <1>0, <1>l, <1>p, <2>1, <2>2, SearchLate
  <1>4. ASSUME NEW u \in Unit, NEW r \in Deadlines, SimActivateNotBefore(u, r)
        PROVE  LateInv'
    <2> DEFINE ahead == (r - sim_rtime') % RMod
               d == IF 2 * ahead >= RMod THEN 0 ELSE ahead
    <2>1. ahead \in Nat
      <3>1. r - sim_rtime' \in Int
        BY <1>0, DelayAssumption, BoundAssumption DEF TypeOK
      <3>2. ahead \in 0..(RMod - 1)
        BY <3>1, ModType, BoundAssumption
      <3> QED BY <3>2, BoundAssumption
    <2>2. d \in Nat \cup {-1}
      BY <2>1
    <2>3. MayCall /\ Prepare(u) /\ Search(u, d) /\ UNCHANGED <<stop_cpu, local, drift>>
      BY <1>4 DEF SimActivateNotBefore
    <2> HIDE DEF d
    <2> QED BY <1>0, <1>l, <1>p, <2>2, <2>3, SearchLate
  <1>5. CASE ActivateAtHead
    BY <1>0, <1>l, <1>p, <1>5, HeadPushLate
  <1>6. CASE SearchOn
    BY <1>0, <1>l, <1>p, <1>6, SearchOnLate
  <1>7. CASE Insert
    BY <1>0, <1>l, <1>p, <1>7, InsertLate
  <1>8. CASE NoticeStop
    <2>1. Late(l)'
      BY <1>l, <1>8, SameLate DEF NoticeStop, clock
    <2>2. PollInv' /\ TimesNat'
      BY <1>p, <1>8 DEF NoticeStop, PollInv, TimesNat, clock
    <2> QED BY <2>1, <2>2 DEF LateInv
  <1>9. CASE QueueEmpty
    <2>1. Late(l)'
      BY <1>l, <1>9, SameLate DEF QueueEmpty
    <2>2. PollInv' /\ TimesNat'
      BY <1>p, <1>9, BoundAssumption DEF QueueEmpty, PollInv, TimesNat
    <2> QED BY <2>1, <2>2 DEF LateInv
  <1>10. CASE StartDispatch
    BY <1>0, <1>10, StartLate
  <1>11. CASE PopHead
    BY <1>0, <1>11, PopLate
  <1>12. ASSUME NEW r \in ActionResults, ActionReturns(r) PROVE LateInv'
    <2>1. Late(l)'
      BY <1>l, <1>12, SameLate DEF ActionReturns, clock
    <2>2. PollInv' /\ TimesNat'
      BY <1>p, <1>12 DEF ActionReturns, PollInv, TimesNat, clock
    <2> QED BY <2>1, <2>2 DEF LateInv
  <1>13. CASE CatchUp
    BY <1>0, <1>13, CatchUpLate
  <1>14. CASE CaughtUp
    BY <1>0, <1>14, CaughtUpLate
  <1>15. CASE ReadPastEnd
    <2>1. Late(l)'
      BY <1>l, <1>15, SameLate DEF ReadPastEnd, clock
    <2>2. PollInv' /\ TimesNat'
      BY <1>p, <1>15 DEF ReadPastEnd, PollInv, TimesNat, clock
    <2> QED BY <2>1, <2>2 DEF LateInv
  <1>16. CASE EndDispatch
    <2>1. /\ pc = "exit" /\ pc' \in {"exec", "return"}
          /\ UNCHANGED <<queue, time, left>>
          /\ \/ sim_interval' = NOQUEUE_WAIT /\ noqueue_time' = NOQUEUE_WAIT
             \/ UNCHANGED <<sim_interval, noqueue_time>>
      BY <1>16 DEF EndDispatch
    <2>2. Late(l)'
      BY <1>l, <2>1, SameLate
    <2>3. PollInv' /\ TimesNat'
      BY <1>p, <2>1, BoundAssumption DEF PollInv, TimesNat
    <2> QED BY <2>2, <2>3 DEF LateInv
  <1>17. ASSUME NEW n \in 1..MaxStep, CountDown(n) PROVE LateInv'
    <2>1. Late(l)'
      BY <1>l, <1>17, SameLate DEF CountDown
    <2>2. /\ pc' = IF sim_interval' <= 0 THEN "poll" ELSE "exec"
          /\ UNCHANGED <<queue, time, noqueue_time>> /\ sim_interval' \in Int
      BY <1>0, <1>17 DEF CountDown, TypeOK
    <2>3. PollInv' /\ TimesNat'
      BY <1>p, <2>2 DEF PollInv, TimesNat
    <2> QED BY <2>1, <2>3 DEF LateInv
  <1>h. CASE Halt
    <2>1. Late(l)'
      BY <1>l, <1>h, SameLate DEF Halt, clock, local
    <2>2. pc' = "return" /\ UNCHANGED <<queue, time, noqueue_time, sim_interval>>
      BY <1>h DEF Halt, clock
    <2>3. PollInv' /\ TimesNat'
      BY <1>p, <2>2 DEF PollInv, TimesNat
    <2> QED BY <2>1, <2>3 DEF LateInv
  <1>18. CASE Interrupt
    <2>1. UNCHANGED <<queue, time, noqueue_time, pc, catchup, act, left>>
          /\ sim_interval' = 0 /\ stop_cpu' = TRUE
      BY <1>18 DEF Interrupt, local
    <2>2. Late(l)'
      <3>1. Queued' = Queued /\ Moved' = Moved /\ (SearchFor(l)' <=> SearchFor(l))
        BY <2>1 DEF Queued, Moved, HeadTime, SearchFor
      <3> QED BY <1>l, <2>1, <3>1 DEF Late
    <2>3. PollInv' /\ TimesNat'
      BY <1>p, <2>1 DEF PollInv, TimesNat
    <2> QED BY <2>2, <2>3 DEF LateInv
  <1>19. CASE EndRun
    BY <1>0, <1>19, EndRunLate
  <1>20. CASE Continue
    <2>1. Late(l)'
      BY <1>l, <1>20, SameLate DEF Continue, clock
    <2>2. /\ pc' = IF sim_interval <= 0 THEN "poll" ELSE "exec"
          /\ UNCHANGED <<queue, time, noqueue_time, sim_interval>>
          /\ sim_interval \in Int
      BY <1>0, <1>20 DEF Continue, clock, TypeOK
    <2>3. PollInv' /\ TimesNat'
      BY <1>p, <2>2 DEF PollInv, TimesNat
    <2> QED BY <2>1, <2>3 DEF LateInv
  <1>21. CASE UNCHANGED vars
    <2>1. UNCHANGED <<queue, time, noqueue_time, pc, catchup, act, left,
                      sim_interval, stop_cpu>>
      BY <1>21 DEF vars, clock, local
    <2>2. Late(l)'
      <3>1. Queued' = Queued /\ Moved' = Moved /\ (SearchFor(l)' <=> SearchFor(l))
        BY <2>1 DEF Queued, Moved, HeadTime, SearchFor
      <3> QED BY <1>l, <2>1, <3>1 DEF Late
    <2>3. PollInv' /\ TimesNat'
      BY <1>p, <2>1 DEF PollInv, TimesNat
    <2> QED BY <2>2, <2>3 DEF LateInv
  <1> QED BY <1>0, <1>1, <1>2, <1>3, <1>4, <1>5, <1>6, <1>7, <1>8, <1>9, <1>10,
             <1>11, <1>12, <1>13, <1>14, <1>15, <1>16, <1>17, <1>h, <1>18, <1>19,
             <1>20, <1>21
          DEF Next, Call, SearchStep, ProcessStep, RunStep

LEMMA SpecLate == Spec => [](TypeOK /\ LateInv)
  <1>1. Init => TypeOK /\ Ready /\ LateInv
    BY TypeInit, LateInit DEF Init, Ready
  <1>2. (TypeOK /\ Ready /\ LateInv) /\ [Next]_vars => (TypeOK /\ Ready /\ LateInv)'
    BY TypeStep, ReadyStep, LateStep
  <1> QED BY <1>1, <1>2, PTL DEF Spec

\* However many instructions a step counts, and whenever the operator types ^C,
\* no unit is dispatched before sim_time has reached the time it was scheduled
\* for.
THEOREM DispatchedNeverEarly == Spec => NeverEarly
  <1>1. (TypeOK /\ LateInv) /\ (TypeOK /\ LateInv)' /\ [Next]_vars
           => [Dispatch => left[Head(queue)] <= Elapsed']_vars
    BY DispatchPops, PopLate
  <1> QED BY <1>1, SpecLate, PTL DEF Spec, NeverEarly
=============================================================================
