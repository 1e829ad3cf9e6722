-------------------------- MODULE Coschedule_proofs ---------------------------
(***************************************************************************)
(* Proofs about Coschedule, for any units and any bounds.                  *)
(*                                                                         *)
(* The invariant: there are ticks l, one for each unit, that the           *)
(* relative times on the queue add up to, the head's counted by            *)
(* cosched_interval. They do not decrease along the queue. They are the    *)
(* ticks left of those a unit asked for, or fewer if the cancel of a       *)
(* first unit hurried it; and units on the same tick are in the order in   *)
(* which they asked. The time the head itself carries may be another than  *)
(* cosched_interval, but it is never negative, and what it is more than    *)
(* cosched_interval is not more than the cancels of first units took from  *)
(* the others: the stop of the services adds it to what they still have to *)
(* wait.                                                                   *)
(***************************************************************************)
EXTENDS Coschedule, DeltaList

\* What the queue of a clock is made of.
Rtc == [clock_cosched_queue : Seq(Unit), time : [Unit -> Int],
        cosched_interval : Int]

On(r) == ToSet(r.clock_cosched_queue)

\* The times on the queue, with cosched_interval for the head's, add up to l.
Holds(r, l) == Chain(r.clock_cosched_queue, Synced(r, r.cosched_interval), l)

\* Nobody is on the list s twice.
Unique(s) == \A i, j \in 1..Len(s) : s[i] = s[j] => i = j

\* The ticks l come nearer by d.
Sooner(l, d) == [w \in Unit |-> l[w] - d]
-----------------------------------------------------------------------------
(* Lists *)

\* The elements of a list are those at its positions.
LEMMA OnList ==
  ASSUME NEW s \in Seq(Unit)
  PROVE  /\ Len(s) \in Nat /\ DOMAIN s = 1..Len(s) /\ ToSet(s) \subseteq Unit
         /\ \A i \in 1..Len(s) : s[i] \in ToSet(s) /\ s[i] \in Unit
         /\ \A u \in ToSet(s) : \E i \in 1..Len(s) : s[i] = u
  BY DEF ToSet

\* A list with a unit at p: there is a first unit, and another one unless p is 1
\* and the list ends there.
LEMMA HasFirst ==
  ASSUME NEW s \in Seq(Unit), NEW p \in 1..Len(s)
  PROVE  /\ s # <<>> /\ 1 \in 1..Len(s)
         /\ Len(s) # 1 => Len(s) > 1 /\ 2 \in 1..Len(s)
         /\ p # 1 => 1 \in 1..(Len(s) - 1) /\ 1 < p /\ Len(s) - 1 # 0
  <1>1. \A n \in Nat : \A k \in 1..n :
           /\ n # 0 /\ 1 \in 1..n
           /\ n # 1 => n > 1 /\ 2 \in 1..n
           /\ k # 1 => 1 \in 1..(n - 1) /\ 1 < k /\ n - 1 # 0
    OBVIOUS
  <1>2. Len(s) \in Nat
    OBVIOUS
  <1>3. s = <<>> => Len(s) = 0
    OBVIOUS
  <1> QED BY <1>1, <1>2, <1>3

\* Where a unit is that is on a list.
LEMMA PositionIs ==
  ASSUME NEW s \in Seq(Unit), NEW u \in ToSet(s)
  PROVE  Position(s, u) \in 1..Len(s) /\ s[Position(s, u)] = u
  BY OnList DEF Position

\* A list that a unit left, or that it was not on.
LEMMA UnlinkedIs ==
  ASSUME NEW s \in Seq(Unit), IsInjective(s), NEW u \in Unit
  PROVE  /\ Unlinked(s, u) \in Seq(Unit) /\ IsInjective(Unlinked(s, u))
         /\ ToSet(Unlinked(s, u)) = ToSet(s) \ {u}
         /\ u \in ToSet(s) => Without(Unlinked(s, u), s, Position(s, u))
  <1>1. CASE u \notin ToSet(s)
    BY <1>1 DEF Unlinked
  <1>2. CASE u \in ToSet(s)
    <2> DEFINE p == Position(s, u)
               r == Unlinked(s, u)
    <2>1. p \in 1..Len(s) /\ s[p] = u /\ Len(s) \in Nat
      BY <1>2, PositionIs, OnList
    <2>2. r = RemoveAt(s, p)
      BY <1>2 DEF Unlinked
    <2> HIDE DEF p
    <2>3. r \in Seq(Unit) /\ Without(r, s, p)
      BY <2>1, <2>2, RemovedAt DEF Without
    <2> HIDE DEF r
    <2>4. \A i \in 1..Len(s), j \in 1..Len(s) : s[i] = s[j] => i = j
      BY OnList DEF IsInjective
    <2>5. Len(r) = Len(s) - 1 /\ \A i \in 1..Len(r) : r[i] = IF i < p THEN s[i] ELSE s[i + 1]
      BY <2>1, <2>3 DEF Without
    <2>6. ASSUME NEW i \in 1..Len(r), NEW j \in 1..Len(r), r[i] = r[j] PROVE i = j
      BY <2>1, <2>4, <2>5, <2>6
    <2>7. ASSUME NEW i \in 1..Len(r) PROVE r[i] \in ToSet(s) \ {u}
      <3>1. CASE i < p
        BY <3>1, <2>1, <2>4, <2>5, OnList
      <3>2. CASE ~(i < p)
        <4>1. i + 1 \in 1..Len(s) /\ i + 1 # p /\ r[i] = s[i + 1]
          BY <3>2, <2>1, <2>5
        <4> QED BY <4>1, <2>1, <2>4, OnList
      <3> QED BY <3>1, <3>2
    <2>8. ASSUME NEW w \in ToSet(s) \ {u} PROVE \E i \in 1..Len(r) : r[i] = w
      <3>1. PICK k \in 1..Len(s) : s[k] = w
        BY OnList
      <3>2. CASE k < p
        BY <3>1, <3>2, <2>1, <2>5
      <3>3. CASE k > p
        <4>1. k - 1 \in 1..Len(r) /\ ~(k - 1 < p) /\ (k - 1) + 1 = k
          BY <3>3, <2>1, <2>5
        <4> QED BY <4>1, <3>1, <2>5
      <3>4. k # p
        BY <3>1, <2>1
      <3> QED BY <3>2, <3>3, <3>4, <2>1
    <2>9. DOMAIN r = 1..Len(r)
      BY <2>3
    <2>10. IsInjective(r)
      BY <2>6, <2>9 DEF IsInjective
    <2>11. ToSet(r) = ToSet(s) \ {u}
      <3>1. ToSet(r) = {r[i] : i \in 1..Len(r)}
        BY <2>9 DEF ToSet
      <3> QED BY <3>1, <2>7, <2>8
    <2> QED BY <1>2, <2>3, <2>10, <2>11 DEF r, p
  <1> QED BY <1>1, <1>2

\* r is the list s without its first n units, and x has its times.
RestOf(r, s, n) == Len(r) = Len(s) - n /\ \A i \in 1..Len(r) : r[i] = s[i + n]
RestTimes(r, x, t, l) ==
    \A i \in 1..Len(r) : x[r[i]] = IF i = 1 THEN l[r[i]] ELSE t[r[i]]

\* The rest of a list, its first time made absolute, adds up to the same ticks.
LEMMA ChainFrom ==
  ASSUME NEW S, NEW s \in Seq(S), NEW t \in [S -> Int], NEW l \in [S -> Int],
         Chain(s, t, l), NEW n \in 0..Len(s), NEW r, NEW x,
         RestOf(r, s, n), RestTimes(r, x, t, l)
  PROVE  Chain(r, x, l)
  <1>a. Len(r) = Len(s) - n /\ \A i \in 1..Len(r) : r[i] = s[i + n]
    BY DEF RestOf
  <1>b. \A i \in 1..Len(r) : x[r[i]] = IF i = 1 THEN l[r[i]] ELSE t[r[i]]
    BY DEF RestTimes
  <1>1. Len(s) \in Nat /\ \A i \in 1..Len(s) : s[i] \in S /\ t[s[i]] \in Int /\ l[s[i]] \in Int
    BY Members
  <1>2. \A i \in 1..Len(r) : i + n \in 1..Len(s) /\ i + n \in Int
    BY <1>1, <1>a
  <1>3. \A i, j \in 1..Len(r) : r[i] = r[j] => i = j
    <2>1. \A i, j \in 1..Len(s) : s[i] = s[j] => i = j
      BY DEF Chain
    <2>2. ASSUME NEW i \in 1..Len(r), NEW j \in 1..Len(r), r[i] = r[j]
          PROVE  i = j
      <3>1. s[i + n] = s[j + n]
        BY <2>2, <1>a
      <3>2. i + n = j + n
        BY <2>1, <3>1, <1>2
      <3> QED BY <3>2, <1>1, <1>a
    <2> QED BY <2>2
  <1>4. ASSUME NEW i \in 1..Len(r)
        PROVE  l[r[i]] = x[r[i]] + IF i = 1 THEN 0 ELSE l[r[i - 1]]
    <2>1. CASE i = 1
      <3>1. x[r[i]] = l[r[i]] /\ l[r[i]] \in Int
        BY <2>1, <1>1, <1>2, <1>a, <1>b
      <3> QED BY <3>1, <2>1
    <2>2. CASE i # 1
      <3>1. /\ i - 1 \in 1..Len(r) /\ i + n # 1 /\ (i - 1) + n = (i + n) - 1
        BY <2>2, <1>1, <1>a
      <3>2. l[s[i + n]] = t[s[i + n]] + l[s[(i + n) - 1]]
        BY <3>1, <1>2 DEF Chain
      <3>3. r[i] = s[i + n] /\ r[i - 1] = s[(i + n) - 1] /\ x[r[i]] = t[r[i]]
        BY <3>1, <2>2, <1>a, <1>b
      <3> QED BY <3>2, <3>3, <2>2
    <2> QED BY <2>1, <2>2
  <1>5. ASSUME NEW i \in 1..Len(r), NEW j \in 1..Len(r), i < j
        PROVE  l[r[i]] <= l[r[j]]
    <2>1. i + n < j + n
      BY <1>5, <1>1, <1>a
    <2>2. l[s[i + n]] <= l[s[j + n]]
      BY <2>1, <1>2 DEF Chain
    <2> QED BY <2>2, <1>a
  <1> QED BY <1>3, <1>4, <1>5 DEF Chain

\* What a list adds up to does not depend on units that are not on it.
LEMMA ChainSame ==
  ASSUME NEW s, NEW t, NEW l, NEW x, NEW m, Chain(s, t, l), Len(s) \in Nat,
         \A i \in 1..Len(s) : x[s[i]] = t[s[i]] /\ m[s[i]] = l[s[i]]
  PROVE  Chain(s, x, m)
  <1>1. \A i \in 1..Len(s) : i # 1 => i - 1 \in 1..Len(s)
    OBVIOUS
  <1> QED BY <1>1 DEF Chain
-----------------------------------------------------------------------------
(* The loops *)

\* The loop of sim_clock_coschedule_tmr adds up the times to the ticks.
LEMMA TicksAre ==
  ASSUME NEW s \in Seq(Unit), NEW t \in [Unit -> Int], NEW l \in [Unit -> Int],
         Chain(s, t, l)
  PROVE  \A i \in 0..Len(s) : Ticks(s, t)[i] = IF i = 0 THEN 0 ELSE l[s[i]]
  <1> DEFINE n == Len(s)
             Eqn(f) == f = [i \in 0..n |-> IF i = 0 THEN 0
                                           ELSE f[i - 1] + t[s[i]]]
             at == CHOOSE f : Eqn(f)
             g == [i \in 0..n |-> IF i = 0 THEN 0 ELSE l[s[i]]]
  <1>1. n \in Nat /\ \A i \in 1..n : s[i] \in Unit /\ t[s[i]] \in Int /\ l[s[i]] \in Int
    BY Members
  <1>2. \A i \in 1..n : l[s[i]] = t[s[i]] + IF i = 1 THEN 0 ELSE l[s[i - 1]]
    BY DEF Chain
  <1>3. \A i \in 0..n : g[i] = IF i = 0 THEN 0 ELSE g[i - 1] + t[s[i]]
    <2>1. ASSUME NEW i \in 0..n, i # 0 PROVE g[i] = g[i - 1] + t[s[i]]
      <3>1. i \in 1..n /\ i - 1 \in 0..n /\ (i - 1 = 0 <=> i = 1)
        BY <2>1, <1>1
      <3>2. g[i] = l[s[i]] /\ g[i - 1] = IF i = 1 THEN 0 ELSE l[s[i - 1]]
        BY <3>1, <2>1
      <3>3. \A x, y \in Int : x + y = y + x
        OBVIOUS
      <3>4. g[i - 1] \in Int
        <4>1. i # 1 => i - 1 \in 1..n
          BY <3>1
        <4> QED BY <4>1, <3>2, <1>1
      <3> HIDE DEF g
      <3> QED BY <3>1, <3>2, <3>3, <3>4, <1>1, <1>2
    <2>2. 0 \in 0..n => g[0] = 0
      OBVIOUS
    <2> HIDE DEF g
    <2> QED BY <2>1, <2>2
  <1>4. Eqn(g)
    <2>1. g = [i \in 0..n |-> g[i]]
      OBVIOUS
    <2> HIDE DEF g
    <2> QED BY <1>3, <2>1
  <1>5. Eqn(at)
    BY <1>4
  <1>6. Ticks(s, t) = at
    BY DEF Ticks
  <1> HIDE DEF at
  <1>7. \A i \in 0..n : at[i] = IF i = 0 THEN 0 ELSE at[i - 1] + t[s[i]]
    BY <1>5
  <1>8. \A i \in 1..n : g[i] = at[i]
    <2> DEFINE d == [i \in 1..n |-> t[s[i]]]
               first == 0 + d[1]
    <2>1. \A i \in 1..n : d[i] = t[s[i]] /\ i \in 0..n /\ i # 0
      BY <1>1
    <2> HIDE DEF g, d, n
    <2>2. \A f : (\A i \in 0..n : f[i] = IF i = 0 THEN 0 ELSE f[i - 1] + t[s[i]])
                 => Sums(f, n, first, d)
      <3> TAKE f
      <3> HAVE \A i \in 0..n : f[i] = IF i = 0 THEN 0 ELSE f[i - 1] + t[s[i]]
      <3>1. 0 \in 0..n => f[0] = 0
        OBVIOUS
      <3>2. ASSUME NEW i \in 1..n
            PROVE  f[i] = IF i = 1 THEN first ELSE f[i - 1] + d[i]
        <4>1. f[i] = f[i - 1] + d[i]
          BY <2>1
        <4>2. i = 1 => i - 1 = 0 /\ f[0] = 0
          BY <3>1, <1>1
        <4> QED BY <4>1, <4>2
      <3> HIDE DEF first
      <3> QED BY <3>2 DEF Sums
    <2> HIDE DEF first
    <2>3. Sums(g, n, first, d) /\ Sums(at, n, first, d)
      BY <2>2, <1>3, <1>7
    <2> QED BY <2>3, <1>1, SumsAgree
  <1>9. ASSUME NEW i \in 0..n PROVE at[i] = g[i]
    <2>1. CASE i = 0
      BY <2>1, <1>3, <1>7
    <2>2. CASE i # 0
      <3>1. i \in 1..n
        BY <2>2, <1>1
      <3> HIDE DEF g
      <3> QED BY <3>1, <1>8
    <2> QED BY <2>1, <2>2
  <1> QED BY <1>6, <1>9

\* The least number of a set of positions.
LEMMA MinIs ==
  ASSUME NEW n \in Nat, NEW T \in SUBSET (1..n), T # {}
  PROVE  Min(T) \in T /\ \A j \in T : Min(T) <= j
  <1>1. \E i \in T : \A j \in T : i <= j
    BY LeastPosition
  <1> QED BY <1>1 DEF Min

\* The loop stops at the first unit on a later tick.
LEMMA PlaceIs ==
  ASSUME NEW s \in Seq(Unit), NEW at, NEW ticks \in Int,
         \A i \in 1..Len(s) : at[i] \in Int
  PROVE  /\ Place(s, at, ticks) \in 1..(Len(s) + 1)
         /\ \A i \in 1..Len(s) : i < Place(s, at, ticks) => at[i] <= ticks
         /\ Place(s, at, ticks) <= Len(s) => ticks < at[Place(s, at, ticks)]
  <1> DEFINE T == {i \in 1..Len(s) : ticks < at[i]} \cup {Len(s) + 1}
             p == Place(s, at, ticks)
  <1>1. Len(s) \in Nat
    OBVIOUS
  <1>2. T \in SUBSET (1..(Len(s) + 1)) /\ T # {}
    BY <1>1
  <1>3. p = Min(T)
    BY DEF Place
  <1> HIDE DEF p
  <1>4. p \in T /\ \A j \in T : p <= j
    <2>1. Len(s) + 1 \in Nat
      BY <1>1
    <2> HIDE DEF T
    <2> QED BY <1>2, <1>3, <2>1, MinIs
  <1>5. p \in 1..(Len(s) + 1) /\ (p <= Len(s) => ticks < at[p])
    BY <1>1, <1>4
  <1>6. ASSUME NEW i \in 1..Len(s), i < p PROVE at[i] <= ticks
    <2>1. i \notin T
      <3> HIDE DEF T
      <3>1. ~(p <= i)
        BY <1>5, <1>6
      <3> QED BY <3>1, <1>4
    <2>2. ~(ticks < at[i])
      BY <2>1
    <2> QED BY <2>2
  <1> QED BY <1>5, <1>6 DEF p

\* The loop of sim_timer_tick_svc stops in front of the first unit on a later
\* tick, and takes one unit at least.
LEMMA GatheredIs ==
  ASSUME NEW s \in Seq(Unit), s # <<>>, NEW at,
         \A i \in 1..Len(s) : at[i] \in Int
  PROVE  /\ Gathered(s, at) \in 1..Len(s)
         /\ \A i \in 2..Len(s) : i <= Gathered(s, at) => at[i] <= 0
         /\ Gathered(s, at) < Len(s) => at[Gathered(s, at) + 1] > 0
  <1> DEFINE T == {i \in 1..(Len(s) - 1) : at[i + 1] > 0} \cup {Len(s)}
             n == Gathered(s, at)
  <1>1. Len(s) \in Nat /\ Len(s) >= 1
    OBVIOUS
  <1>2. T \in SUBSET (1..Len(s)) /\ T # {}
    BY <1>1
  <1>3. n = Min(T)
    BY DEF Gathered
  <1> HIDE DEF n
  <1>4. n \in T /\ \A j \in T : n <= j
    <2> HIDE DEF T
    <2> QED BY <1>1, <1>2, <1>3, MinIs
  <1>5. n \in 1..Len(s) /\ (n < Len(s) => at[n + 1] > 0)
    BY <1>1, <1>4
  <1>6. ASSUME NEW i \in 2..Len(s), i <= n PROVE at[i] <= 0
    <2>1. i - 1 \in 1..(Len(s) - 1) /\ (i - 1) + 1 = i /\ i \in 1..Len(s)
      BY <1>1
    <2>2. i - 1 \notin T
      <3> HIDE DEF T
      <3>1. ~(n <= i - 1)
        BY <1>5, <1>6
      <3> QED BY <3>1, <1>4
    <2>3. ~(at[i] > 0)
      BY <2>1, <2>2
    <2> QED BY <2>1, <2>3
  <1> QED BY <1>5, <1>6 DEF n
-----------------------------------------------------------------------------
(* The queue of a clock *)

\* The head's time brought up to date: types, and the time of the head.
LEMMA SyncedIs ==
  ASSUME NEW r \in Rtc, NEW v \in Int
  PROVE  /\ Synced(r, v) \in [Unit -> Int]
         /\ r.clock_cosched_queue # <<>> =>
               Synced(r, v) = [r.time EXCEPT ![r.clock_cosched_queue[1]] = v]
  BY DEF Rtc, Synced

\* The first unit runs after cosched_interval ticks, and no unit before it.
LEMMA FirstIs ==
  ASSUME NEW r \in Rtc, NEW l \in [Unit -> Int], Holds(r, l),
         r.clock_cosched_queue # <<>>
  PROVE  /\ 1 \in 1..Len(r.clock_cosched_queue)
         /\ r.clock_cosched_queue[1] \in Unit
         /\ l[r.clock_cosched_queue[1]] = r.cosched_interval
         /\ \A u \in On(r) : l[u] >= r.cosched_interval
  <1> DEFINE s == r.clock_cosched_queue
  <1>1. s \in Seq(Unit) /\ r.time \in [Unit -> Int] /\ r.cosched_interval \in Int
    BY DEF Rtc
  <1>2. 1 \in 1..Len(s) /\ s[1] \in Unit
    BY <1>1
  <1>3. Synced(r, r.cosched_interval)[s[1]] = r.cosched_interval
    <2>1. Synced(r, r.cosched_interval) = [r.time EXCEPT ![s[1]] = r.cosched_interval]
      BY <1>1, SyncedIs
    <2> QED BY <2>1, <1>1, <1>2
  <1>4. l[s[1]] = Synced(r, r.cosched_interval)[s[1]]
                  + IF 1 = 1 THEN 0 ELSE l[s[1 - 1]]
    BY <1>2 DEF Holds, Chain
  <1>5. l[s[1]] = r.cosched_interval
    BY <1>1, <1>3, <1>4
  <1>6. ASSUME NEW u \in On(r) PROVE l[u] >= r.cosched_interval
    <2>1. PICK i \in 1..Len(s) : s[i] = u
      BY <1>1, OnList DEF On
    <2>2. i = 1 \/ l[s[1]] <= l[s[i]]
      BY <1>2, <2>1 DEF Holds, Chain
    <2>3. l[s[i]] \in Int
      BY <1>1, <2>1, OnList
    <2> QED BY <1>1, <1>5, <2>1, <2>2, <2>3
  <1> QED BY <1>2, <1>5, <1>6

\* Where sim_clock_coschedule_tmr puts unit u that waits for so many ticks.
PutAt(r, n, u, ticks, l, p) ==
    /\ p \in 1..(Len(r.clock_cosched_queue) + 1)
    /\ With(n.clock_cosched_queue, r.clock_cosched_queue, p, u)
    /\ \A i \in 1..Len(r.clock_cosched_queue) :
          i < p <=> l[r.clock_cosched_queue[i]] <= ticks

\* The place found by adding up times is behind the units for the same tick or
\* sooner, and in front of the others.
LEMMA PlaceFits ==
  ASSUME NEW r \in Rtc, NEW l \in [Unit -> Int], Holds(r, l),
         NEW u \in Unit \ On(r), NEW ticks \in Nat, NEW p, NEW a, NEW at,
         at = Ticks(r.clock_cosched_queue, Synced(r, r.cosched_interval)),
         p = Place(r.clock_cosched_queue, at, ticks), a = at[p - 1]
  PROVE  /\ Fits(Unit, r.clock_cosched_queue, Synced(r, r.cosched_interval), l,
                 p, u, ticks, a)
         /\ \A i \in 1..Len(r.clock_cosched_queue) :
               i < p <=> l[r.clock_cosched_queue[i]] <= ticks
  <1> DEFINE s == r.clock_cosched_queue
             t == Synced(r, r.cosched_interval)
  <1>1. s \in Seq(Unit) /\ t \in [Unit -> Int] /\ Chain(s, t, l)
    BY SyncedIs DEF Rtc, Holds
  <1>2. \A i \in 0..Len(s) : at[i] = IF i = 0 THEN 0 ELSE l[s[i]]
    BY <1>1, TicksAre
  <1> HIDE DEF s, t
  <1>3. /\ Len(s) \in Nat
        /\ \A i \in 1..Len(s) : s[i] \in Unit /\ t[s[i]] \in Int /\ l[s[i]] \in Int
    BY <1>1, Members
  <1>4. \A i \in 1..Len(s) : at[i] = l[s[i]] /\ at[i] \in Int
    <2>1. \A i \in 1..Len(s) : i \in 0..Len(s) /\ i # 0
      BY <1>3
    <2> QED BY <2>1, <1>2, <1>3
  <1>5. /\ p \in 1..(Len(s) + 1)
        /\ \A i \in 1..Len(s) : i < p => at[i] <= ticks
        /\ p <= Len(s) => ticks < at[p]
    <2>1. ticks \in Int /\ p = Place(s, at, ticks)
      BY DEF s
    <2>2. /\ Place(s, at, ticks) \in 1..(Len(s) + 1)
          /\ \A i \in 1..Len(s) : i < Place(s, at, ticks) => at[i] <= ticks
          /\ Place(s, at, ticks) <= Len(s) => ticks < at[Place(s, at, ticks)]
      BY <2>1, <1>1, <1>4, PlaceIs
    <2> QED BY <2>1, <2>2
  <1>6. a = IF p = 1 THEN 0 ELSE l[s[p - 1]]
    <2>1. p - 1 \in 0..Len(s) /\ (p - 1 = 0 <=> p = 1)
      BY <1>3, <1>5
    <2> QED BY <2>1, <1>2
  <1>7. p # 1 => p - 1 \in 1..Len(s) /\ p - 1 < p
    BY <1>3, <1>5
  <1>8. a \in Int /\ (p > 1 => a <= ticks)
    <2>1. CASE p = 1
      BY <2>1, <1>6
    <2>2. CASE p # 1
      BY <2>2, <1>4, <1>5, <1>6, <1>7
    <2> QED BY <2>1, <2>2
  <1>9. p <= Len(s) => p \in 1..Len(s) /\ l[s[p]] = t[s[p]] + a
    <2>1. p <= Len(s) => p \in 1..Len(s)
      BY <1>3, <1>5
    <2> QED BY <2>1, <1>1, <1>6 DEF Chain
  <1>10. p <= Len(s) => ticks <= a + t[s[p]]
    <2>1. \A x, y, z, w \in Int : x < y /\ y = z + w => x <= w + z
      OBVIOUS
    <2>2. ticks \in Int
      OBVIOUS
    <2> QED BY <2>1, <2>2, <1>3, <1>4, <1>5, <1>8, <1>9
  <1>11. \A k \in 1..Len(s) : s[k] # u
    BY <1>1, OnList DEF On, s
  <1>12. ASSUME NEW i \in 1..Len(s) PROVE i < p <=> l[s[i]] <= ticks
    <2>1. CASE i < p
      BY <2>1, <1>4, <1>5
    <2>2. CASE ~(i < p)
      <3>1. p \in 1..Len(s) /\ ticks < l[s[p]]
        BY <2>2, <1>3, <1>4, <1>5
      <3>2. p = i \/ l[s[p]] <= l[s[i]]
        <4>1. p = i \/ p < i
          BY <2>2, <3>1, <1>3
        <4> QED BY <4>1, <3>1, <1>1 DEF Chain
      <3>3. \A x, y, z \in Int : x < y /\ y <= z => ~(z <= x)
        OBVIOUS
      <3>4. l[s[p]] \in Int /\ l[s[i]] \in Int /\ ticks \in Int
        BY <1>3, <3>1
      <3> QED BY <2>2, <3>1, <3>2, <3>3, <3>4
    <2> QED BY <2>1, <2>2
  <1> QED BY <1>5, <1>6, <1>8, <1>10, <1>11, <1>12 DEF Fits, s, t

\* sim_clock_coschedule_tmr: the unit waits for its ticks, the others for theirs.
LEMMA InsertedIs ==
  ASSUME NEW r \in Rtc, NEW l \in [Unit -> Int], NEW u \in Unit \ On(r),
         NEW ticks \in Nat, NEW n, NEW m
  PROVE  Holds(r, l) /\ n = Inserted(r, u, ticks) /\ m = [l EXCEPT ![u] = ticks]
         => /\ n \in Rtc /\ Holds(n, m) /\ m \in [Unit -> Int]
            /\ \E p : PutAt(r, n, u, ticks, l, p)
  <1> DEFINE s == r.clock_cosched_queue
             t == Synced(r, r.cosched_interval)
             at == Ticks(s, t)
             p == Place(s, at, ticks)
             a == at[p - 1]
             q == InsertAt(s, p, u)
             x == n.time
  <1>0. SUFFICES ASSUME Holds(r, l), n = Inserted(r, u, ticks),
                        m = [l EXCEPT ![u] = ticks]
                 PROVE  /\ n \in Rtc /\ Holds(n, m) /\ m \in [Unit -> Int]
                        /\ \E k : PutAt(r, n, u, ticks, l, k)
    OBVIOUS
  <1>1. s \in Seq(Unit) /\ t \in [Unit -> Int] /\ Chain(s, t, l) /\ Len(s) \in Nat
    BY <1>0, SyncedIs, OnList DEF Rtc, Holds
  <1>2. /\ Fits(Unit, s, t, l, p, u, ticks, a)
        /\ \A i \in 1..Len(s) : i < p <=> l[s[i]] <= ticks
    BY <1>0, PlaceFits
  <1>3. /\ n.clock_cosched_queue = q /\ n.cosched_interval = x[Head(q)]
        /\ x = LET rest == [t EXCEPT ![u] = ticks - a]
               IN  IF p > Len(s) THEN rest ELSE [rest EXCEPT ![s[p]] = @ - rest[u]]
        /\ n = [clock_cosched_queue |-> q, time |-> x,
                cosched_interval |-> x[Head(q)]]
    BY <1>0 DEF Inserted
  <1>e. q = InsertAt(s, p, u) /\ On(r) = ToSet(s)
    BY DEF On
  <1> HIDE DEF s, t, at, p, a, q, x
  <1>4. /\ p \in 1..(Len(s) + 1) /\ ticks \in Int /\ a \in Int /\ u \in Unit
        /\ \A k \in 1..Len(s) : s[k] # u
        /\ \A k \in 1..Len(s) : s[k] \in Unit
    BY <1>1, <1>2, OnList DEF Fits
  <1>5. q \in Seq(Unit) /\ With(q, s, p, u)
    <2>1. s \in Seq(Unit) /\ p \in 1..(Len(s) + 1) /\ u \in Unit
      BY <1>1, <1>4
    <2>2. /\ InsertAt(s, p, u) \in Seq(Unit)
          /\ Len(InsertAt(s, p, u)) = Len(s) + 1
          /\ \A i \in 1..(Len(s) + 1) :
                InsertAt(s, p, u)[i] = IF i < p THEN s[i]
                                       ELSE IF i = p THEN u ELSE s[i - 1]
      BY <2>1, InsertedAt
    <2> QED BY <2>2, <1>e DEF With
  <1>6. q # <<>> /\ Head(q) = q[1] /\ q[1] \in Unit /\ 1 \in 1..Len(q)
    <2>1. Len(q) = Len(s) + 1
      BY <1>5 DEF With
    <2> QED BY <2>1, <1>1, <1>5
  <1>7. ASSUME NEW w \in Unit
        PROVE  x[w] = IF w = u THEN ticks - a
                      ELSE IF p \in 1..Len(s) /\ w = s[p] THEN t[w] + (a - ticks)
                      ELSE t[w]
    <2> DEFINE rest == [t EXCEPT ![u] = ticks - a]
    <2>1. rest \in [Unit -> Int] /\ rest[u] = ticks - a /\ (w # u => rest[w] = t[w])
      <3>1. ticks - a \in Int
        BY <1>4
      <3> QED BY <3>1, <1>1, <1>4
    <2>2. CASE p > Len(s)
      <3>1. p \notin 1..Len(s) /\ x = rest
        BY <2>2, <1>1, <1>3
      <3> QED BY <3>1, <2>1
    <2>3. CASE ~(p > Len(s))
      <3>1. p \in 1..Len(s) /\ s[p] # u /\ s[p] \in Unit
        BY <2>3, <1>1, <1>4
      <3>2. x = [rest EXCEPT ![s[p]] = @ - rest[u]]
        BY <2>3, <1>3
      <3> HIDE DEF rest
      <3>3. x[w] = IF w = s[p] THEN rest[w] - (ticks - a) ELSE rest[w]
        BY <2>1, <3>1, <3>2
      <3>4. \A y, z, v \in Int : y - (z - v) = y + (v - z)
        OBVIOUS
      <3>5. t[w] \in Int
        BY <1>1
      <3>6. CASE w = u
        BY <2>1, <3>1, <3>3, <3>6
      <3>7. CASE w # u
        BY <2>1, <3>1, <3>3, <3>4, <3>5, <3>7, <1>4
      <3> QED BY <3>6, <3>7
    <2> QED BY <2>2, <2>3
  <1>8. x \in [Unit -> Int]
    <2>1. \A w \in Unit : x[w] \in Int
      <3> SUFFICES ASSUME NEW w \in Unit PROVE x[w] \in Int
        OBVIOUS
      <3>1. t[w] \in Int
        BY <1>1
      <3> QED BY <3>1, <1>4, <1>7
    <2>2. DOMAIN x = Unit /\ x = [w \in DOMAIN x |-> x[w]]
      BY <1>1, <1>3
    <2> QED BY <2>1, <2>2
  <1>9. n \in Rtc
    <2>1. q \in Seq(Unit) /\ x[Head(q)] \in Int
      BY <1>5, <1>6, <1>8
    <2>2. n = [clock_cosched_queue |-> q, time |-> x,
               cosched_interval |-> x[Head(q)]]
      BY <1>3
    <2> QED BY <2>1, <2>2, <1>8 DEF Rtc
  <1>10. Synced(n, n.cosched_interval) = x
    <2>1. n.clock_cosched_queue = q /\ n.time = x /\ n.cosched_interval = x[q[1]]
      BY <1>3, <1>6
    <2>2. Synced(n, n.cosched_interval) = [x EXCEPT ![q[1]] = x[q[1]]]
      <3>1. x[q[1]] \in Int
        BY <1>6, <1>8
      <3>2. Synced(n, x[q[1]]) = [n.time EXCEPT ![n.clock_cosched_queue[1]] = x[q[1]]]
        BY <2>1, <3>1, <1>6, <1>9, SyncedIs
      <3> QED BY <2>1, <3>2
    <2> QED BY <2>2, <1>6, <1>8
  <1>11. Takes(Unit, s, t, l, p, u, ticks, a, x, m)
    <2>1. SameBut(m, l, Unit, u) /\ m[u] = ticks
      BY <1>0, <1>4 DEF SameBut
    <2>2. GainsAt(x, t, Unit, u, s, p, a - ticks) /\ x[u] = ticks - a
      BY <1>4, <1>7 DEF GainsAt
    <2> QED BY <2>1, <2>2 DEF Takes
  <1>12. Chain(q, x, m)
    BY <1>1, <1>2, <1>5, <1>11, ChainInsert
  <1>13. Holds(n, m)
    BY <1>3, <1>10, <1>12 DEF Holds
  <1>14. m \in [Unit -> Int]
    BY <1>0, <1>4
  <1>15. PutAt(r, n, u, ticks, l, p)
    BY <1>2, <1>3, <1>4, <1>5 DEF PutAt, s
  <1> QED BY <1>9, <1>13, <1>14, <1>15

\* By what the units behind u come nearer when u is cancelled.
Gone(r, u) == IF u = r.clock_cosched_queue[1] THEN r.cosched_interval ELSE 0

\* What becomes of cosched_interval: a new first unit starts with its own time.
Renewed(r, u, n, m) ==
    \/ n.cosched_interval = r.cosched_interval
       /\ (u # r.clock_cosched_queue[1] \/ On(n) = {})
    \/ /\ u = r.clock_cosched_queue[1] /\ n.cosched_interval >= 0
       /\ \E w \in On(n) : n.cosched_interval = m[w]

\* _sim_coschedule_cancel gives the time of the unit to the one behind it.
LEMMA CancelledTimes ==
  ASSUME NEW r \in Rtc, NEW u \in On(r), NEW p, NEW w \in Unit,
         p = Position(r.clock_cosched_queue, u), Unique(r.clock_cosched_queue)
  PROVE  Cancelled(r, u).time[w]
            = IF p # Len(r.clock_cosched_queue) /\ w = r.clock_cosched_queue[p + 1]
              THEN r.time[w] + r.time[u]
              ELSE IF w = u THEN 0 ELSE r.time[w]
  <1> DEFINE s == r.clock_cosched_queue
             x == Cancelled(r, u).time
             rest == [r.time EXCEPT ![u] = 0]
  <1>1. s \in Seq(Unit) /\ r.time \in [Unit -> Int] /\ On(r) = ToSet(s)
    BY DEF Rtc, On
  <1>2. /\ p \in 1..Len(s) /\ s[p] = u /\ u \in Unit /\ Len(s) \in Nat
        /\ \A i \in 1..Len(s) : s[i] \in Unit
    BY <1>1, PositionIs, OnList
  <1>3. x = IF p = Len(s) THEN rest ELSE [rest EXCEPT ![s[p + 1]] = @ + r.time[u]]
    BY <1>1 DEF Cancelled
  <1>4. \A i, j \in 1..Len(s) : s[i] = s[j] => i = j
    BY DEF Unique
  <1> HIDE DEF s, x
  <1>5. rest \in [Unit -> Int] /\ rest[u] = 0 /\ (w # u => rest[w] = r.time[w])
    BY <1>1, <1>2
  <1>6. CASE p = Len(s)
    BY <1>5, <1>6, <1>3 DEF s, x
  <1>7. CASE p # Len(s)
    <2>1. p + 1 \in 1..Len(s) /\ p + 1 # p
      BY <1>2, <1>7
    <2>2. s[p + 1] \in Unit /\ s[p + 1] # u
      BY <2>1, <1>2, <1>4
    <2>3. x = [rest EXCEPT ![s[p + 1]] = @ + r.time[u]]
      BY <1>3, <1>7
    <2> HIDE DEF rest
    <2>4. x[w] = IF w = s[p + 1] THEN rest[w] + r.time[u] ELSE rest[w]
      BY <2>2, <2>3, <1>5
    <2> QED BY <2>2, <2>4, <1>5, <1>7 DEF s, x
  <1> QED BY <1>6, <1>7

\* _sim_coschedule_cancel. The units behind a first unit come nearer by what was
\* left of cosched_interval; no other cancel moves a unit to another tick.
LEMMA CancelledIs ==
  ASSUME NEW r \in Rtc, NEW l \in [Unit -> Int], NEW u \in On(r), NEW n, NEW c,
         NEW m, NEW p
  PROVE  /\ Holds(r, l) /\ n = Cancelled(r, u) /\ c = Gone(r, u)
         /\ m = Sooner(l, c) /\ p = Position(r.clock_cosched_queue, u)
         => /\ n \in Rtc /\ Holds(n, m) /\ m \in [Unit -> Int] /\ c \in Int
            /\ p \in 1..Len(r.clock_cosched_queue) /\ r.clock_cosched_queue[p] = u
            /\ Without(n.clock_cosched_queue, r.clock_cosched_queue, p)
            /\ On(n) = On(r) \ {u}
            /\ Renewed(r, u, n, m)
  <1> DEFINE s == r.clock_cosched_queue
             v == r.cosched_interval
             t == Synced(r, v)
             q == RemoveAt(s, p)
             x == n.time
  <1>0. SUFFICES ASSUME Holds(r, l), n = Cancelled(r, u), c = Gone(r, u),
                        m = Sooner(l, c), p = Position(s, u)
                 PROVE  /\ n \in Rtc /\ Holds(n, m) /\ m \in [Unit -> Int] /\ c \in Int
                        /\ p \in 1..Len(s) /\ s[p] = u
                        /\ Without(n.clock_cosched_queue, s, p)
                        /\ On(n) = On(r) \ {u}
                        /\ Renewed(r, u, n, m)
    OBVIOUS
  <1>1. /\ s \in Seq(Unit) /\ t \in [Unit -> Int] /\ Chain(s, t, l) /\ Len(s) \in Nat
        /\ r.time \in [Unit -> Int] /\ v \in Int
    BY <1>0, SyncedIs, OnList DEF Rtc, Holds
  <1>h. s # <<>> => t = [r.time EXCEPT ![s[1]] = v]
    BY <1>1, SyncedIs
  <1>c. c \in Int /\ c = IF u = s[1] THEN v ELSE 0
    BY <1>0, <1>1 DEF Gone
  <1>2. /\ p \in 1..Len(s) /\ s[p] = u /\ u \in Unit
        /\ \A i \in 1..Len(s) : s[i] \in Unit
    BY <1>0, <1>1, PositionIs, OnList DEF On
  <1>3. \A i, j \in 1..Len(s) : s[i] = s[j] => i = j
    BY <1>1 DEF Chain
  <1>4. /\ n.clock_cosched_queue = q
        /\ x = LET rest == [r.time EXCEPT ![u] = 0]
               IN  IF p = Len(s) THEN rest
                   ELSE [rest EXCEPT ![s[p + 1]] = @ + r.time[u]]
        /\ n.cosched_interval = IF p = 1 /\ Len(s) > 1 THEN r.time[s[2]] ELSE v
        /\ n = [clock_cosched_queue |-> q, time |-> x,
                cosched_interval |-> n.cosched_interval]
    BY <1>0 DEF Cancelled, On
  <1>e. q = RemoveAt(s, p) /\ On(r) = ToSet(s) /\ q = Unlinked(s, u) /\ On(n) = ToSet(q)
    BY <1>0, <1>4 DEF On, Unlinked
  <1> HIDE DEF s, q, x, t, v
  <1>5. q \in Seq(Unit) /\ Without(q, s, p)
    <2>1. RemoveAt(s, p) \in Seq(Unit) /\ Without(RemoveAt(s, p), s, p)
      BY <1>1, <1>2, RemovedAt DEF Without
    <2> QED BY <2>1, <1>e
  <1>6. m \in [Unit -> Int] /\ \A w \in Unit : m[w] = l[w] - c
    BY <1>0, <1>c DEF Sooner
  <1>7. On(n) = On(r) \ {u}
    <2>1. IsInjective(s)
      BY <1>1, <1>3, OnList DEF IsInjective
    <2>2. ToSet(Unlinked(s, u)) = ToSet(s) \ {u}
      BY <2>1, <1>1, <1>2, UnlinkedIs
    <2> QED BY <2>2, <1>e
  <1>8. p + 1 \in 1..Len(s) <=> p # Len(s)
    BY <1>1, <1>2
  <1>9. \A w \in Unit :
           x[w] = IF p # Len(s) /\ w = s[p + 1] THEN r.time[w] + r.time[u]
                  ELSE IF w = u THEN 0 ELSE r.time[w]
    <2>1. Unique(s)
      BY <1>3 DEF Unique
    <2> QED BY <2>1, <1>0, CancelledTimes DEF s, x
  <1>10. x \in [Unit -> Int]
    <2>1. \A w \in Unit : x[w] \in Int
      <3> SUFFICES ASSUME NEW w \in Unit PROVE x[w] \in Int
        OBVIOUS
      <3>1. r.time[w] \in Int /\ r.time[u] \in Int
        BY <1>1, <1>2
      <3> QED BY <3>1, <1>9
    <2>2. DOMAIN x = Unit /\ x = [w \in DOMAIN x |-> x[w]]
      BY <1>1, <1>4
    <2> QED BY <2>1, <2>2
  <1>11. n.cosched_interval \in Int
    <2>1. Len(s) > 1 => 2 \in 1..Len(s)
      BY <1>1
    <2> QED BY <2>1, <1>1, <1>2, <1>4
  <1>12. n \in Rtc
    <2>1. n = [clock_cosched_queue |-> q, time |-> x,
               cosched_interval |-> n.cosched_interval]
      BY <1>4
    <2>2. q \in Seq(Unit)
      BY <1>5
    <2> QED BY <2>1, <2>2, <1>10, <1>11 DEF Rtc
  <1>13. CASE p = 1
    <2>1. u = s[1] /\ c = v
      BY <1>2, <1>c, <1>13
    <2>2. Chain(s, [t EXCEPT ![s[1]] = 0], m)
      <3>1. t[s[1]] = v
        BY <1>1, <1>2, <1>h, <1>13
      <3>2. Nearer(m, l, s, t[s[1]] - 0)
        BY <3>1, <2>1, <1>1, <1>2, <1>6 DEF Nearer
      <3>3. s # <<>> /\ 0 \in Int
        BY <1>1, <1>2
      <3> QED BY <3>2, <3>3, <1>1, ChainNow
    <2>3. PICK y \in [Unit -> Int] : y = [t EXCEPT ![s[1]] = 0]
      <3>1. t \in [Unit -> Int] /\ 0 \in Int
        BY <1>1
      <3> QED BY <3>1
    <2>4. \A w \in Unit : y[w] = IF w = u THEN 0 ELSE r.time[w]
      BY <2>1, <2>3, <1>h, <1>1, <1>2
    <2>5. Chain(q, y, m)
      <3>1. SameBut(m, m, Unit, s[p])
        BY DEF SameBut
      <3>2. GainsAt(y, y, Unit, s[p], s, p + 1, y[s[p]])
        <4>1. y[s[p]] = 0
          BY <2>4, <1>2
        <4>2. \A w \in Unit : y[w] = y[w] + 0
          BY <2>3
        <4> QED BY <4>1, <4>2 DEF GainsAt
      <3>3. Chain(s, y, m)
        BY <2>2, <2>3
      <3>4. s \in Seq(Unit) /\ m \in [Unit -> Int] /\ p \in 1..Len(s)
        BY <1>1, <1>2, <1>6
      <3>5. Without(q, s, p)
        BY <1>5
      <3>6. y \in [Unit -> Int]
        OBVIOUS
      <3> QED BY <3>1, <3>2, <3>3, <3>4, <3>5, <3>6, ChainRemove
    <2>6. CASE Len(s) = 1
      <3>1. q = <<>> /\ n.cosched_interval = v
        BY <2>6, <1>1, <1>4, <1>5 DEF Without
      <3>2. On(n) = {}
        BY <3>1, <1>e DEF ToSet
      <3>3. Holds(n, m)
        BY <3>1, <1>4, EmptyChain DEF Holds
      <3>4. Renewed(r, u, n, m)
        BY <3>1, <3>2 DEF Renewed, v
      <3> QED BY <3>3, <3>4, <1>2, <1>4, <1>5, <1>6, <1>7, <1>12, <1>c
    <2>7. CASE Len(s) # 1
      <3>0. Len(s) > 1 /\ 2 \in 1..Len(s) /\ Len(q) = Len(s) - 1 /\ Len(s) \in Nat
        <4>1. s \in Seq(Unit) /\ p \in 1..Len(s) /\ Len(s) \in Nat
          BY <1>1, <1>2
        <4>2. Len(s) > 1 /\ 2 \in 1..Len(s)
          BY <4>1, <2>7, HasFirst
        <4>3. Len(q) = Len(s) - 1
          BY <1>5 DEF Without
        <4> QED BY <4>1, <4>2, <4>3
      <3>b. 1 \in 1..(Len(s) - 1) /\ ~(1 < p) /\ 1 + 1 = 2
        BY <3>0, <1>13
      <3>q. q[1] = s[2]
        BY <3>b, <1>5 DEF Without
      <3>1. /\ Len(s) > 1 /\ q[1] = s[2] /\ 2 \in 1..Len(s) /\ 1 \in 1..Len(q)
            /\ q # <<>> /\ s[2] \in Unit /\ s[2] # u
        <4>1. 2 # p /\ p \in 1..Len(s) /\ s[p] = u
          BY <1>2, <1>13
        <4>2. s[2] # u /\ s[2] \in Unit
          BY <4>1, <3>0, <1>2, <1>3
        <4>3. q # <<>>
          BY <3>0
        <4> QED BY <4>2, <4>3, <3>0, <3>b, <3>q
      <3>2. n.cosched_interval = r.time[s[2]]
        BY <3>1, <1>4, <1>13
      <3>3. ASSUME NEW i \in 1..Len(q)
            PROVE  Synced(n, n.cosched_interval)[q[i]] = y[q[i]]
        <4>1. /\ q[i] = s[i + 1] /\ i + 1 \in 1..Len(s) /\ i + 1 # 1 /\ q[i] \in Unit
              /\ q[i] # u /\ (i # 1 => s[i + 1] # s[2]) /\ q[i] = q[i]
          <5>1. q[i] = s[i + 1] /\ i + 1 \in 1..Len(s) /\ i + 1 # 1
            <6>1. i \in 1..(Len(s) - 1) /\ ~(i < 1) /\ i + 1 \in 1..Len(s) /\ i + 1 # 1
              BY <3>0
            <6> QED BY <6>1, <1>5, <1>13 DEF Without
          <5>2. i # 1 => i + 1 # 2
            OBVIOUS
          <5> QED BY <5>1, <5>2, <3>1, <1>2, <1>3, <1>13
        <4>2. Synced(n, n.cosched_interval) = [x EXCEPT ![q[1]] = r.time[s[2]]]
          <5>1. Synced(n, n.cosched_interval)
                   = [n.time EXCEPT ![n.clock_cosched_queue[1]] = n.cosched_interval]
            BY <3>1, <1>4, <1>11, <1>12, SyncedIs
          <5> QED BY <5>1, <3>2, <1>4 DEF x
        <4>3. i = 1 => y[q[i]] = r.time[s[2]]
          BY <4>1, <3>1, <2>4
        <4>4. i # 1 => x[q[i]] = r.time[q[i]] /\ q[i] # q[1]
          BY <4>1, <3>1, <1>9, <1>13
        <4> QED BY <4>1, <4>2, <4>3, <4>4, <2>4, <3>1, <1>10
      <3>4. Chain(q, Synced(n, n.cosched_interval), m)
        <4>1. Len(q) \in Nat
          BY <1>5
        <4> QED BY <4>1, <3>3, <2>5, ChainSame
      <3>5. Holds(n, m)
        BY <3>4, <1>4 DEF Holds
      <3>6. n.cosched_interval = m[s[2]] /\ s[2] \in On(n) /\ m[s[2]] >= 0
        <4>1. n.cosched_interval = m[q[1]]
          BY <3>1, <3>5, <1>4, <1>6, <1>12, FirstIs
        <4>2. s[2] \in On(n)
          BY <3>1, <1>e, <1>5, OnList
        <4>3. l[s[1]] <= l[s[2]] /\ l[s[1]] = v
          <5>1. l[s[1]] <= l[s[2]]
            BY <3>1, <1>1, <1>2, <1>13 DEF Chain
          <5>2. l[s[1]] = v
            BY <1>0, <1>1, <1>2, <1>13, FirstIs DEF s, v
          <5> QED BY <5>1, <5>2
        <4>4. m[s[2]] = l[s[2]] - v
          BY <3>1, <2>1, <1>6
        <4>5. l[s[2]] \in Int
          BY <3>1
        <4> QED BY <4>1, <4>2, <4>3, <4>4, <4>5, <3>1, <1>1
      <3>7. Renewed(r, u, n, m)
        BY <3>6, <2>1 DEF Renewed, s
      <3> QED BY <3>5, <3>7, <1>2, <1>4, <1>5, <1>6, <1>7, <1>12, <1>c
    <2> QED BY <2>6, <2>7
  <1>14. CASE p # 1
    <2>1. u # s[1] /\ c = 0 /\ n.cosched_interval = v
      <3>1. 1 \in 1..Len(s)
        BY <1>1, <1>2
      <3> QED BY <3>1, <1>2, <1>3, <1>4, <1>c, <1>14
    <2>2. \A w \in Unit : m[w] = l[w]
      BY <2>1, <1>6
    <2>3. SameBut(m, l, Unit, s[p])
      BY <2>2 DEF SameBut
    <2>4. PICK y \in [Unit -> Int] : y = [x EXCEPT ![s[1]] = v]
      <3>1. v \in Int
        BY <1>1
      <3> QED BY <3>1, <1>10
    <2>t. \A w \in Unit : t[w] = IF w = s[1] THEN v ELSE r.time[w]
      <3>0. s \in Seq(Unit) /\ p \in 1..Len(s)
        BY <1>1, <1>2
      <3>a. s # <<>>
        BY <3>0, HasFirst
      <3>1. s # <<>> /\ r.time \in [Unit -> Int] /\ v \in Int
        BY <3>a, <1>1
      <3>2. t = [r.time EXCEPT ![s[1]] = v]
        BY <3>1, <1>h
      <3>3. PICK z \in [Unit -> Int] : z = r.time
        BY <3>1
      <3>4. \A w \in Unit : t[w] = IF w = s[1] THEN v ELSE z[w]
        BY <3>2, <3>3
      <3> QED BY <3>3, <3>4
    <2>y. \A w \in Unit : y[w] = IF w = s[1] THEN v ELSE x[w]
      BY <2>4, <1>10
    <2>5. GainsAt(y, t, Unit, s[p], s, p + 1, t[s[p]])
      <3>1. ASSUME NEW w \in Unit \ {s[p]}
            PROVE  y[w] = IF p + 1 \in 1..Len(s) /\ w = s[p + 1]
                          THEN t[w] + t[s[p]] ELSE t[w]
        <4>1. t[s[p]] = r.time[u] /\ s[1] \in Unit
          <5>1. 1 \in 1..Len(s)
            BY <1>1, <1>2
          <5> QED BY <5>1, <2>1, <2>t, <1>2
        <4>2. p # Len(s) => s[p + 1] # s[1]
          <5>1. p # Len(s) => p + 1 \in 1..Len(s) /\ p + 1 # 1 /\ 1 \in 1..Len(s)
            <6>1. Len(s) \in Nat /\ p \in 1..Len(s)
              BY <1>1, <1>2
            <6> QED BY <6>1
          <5> QED BY <5>1, <1>3
        <4>3. CASE w = s[1]
          BY <4>1, <4>2, <4>3, <2>t, <2>y, <1>8
        <4>4. CASE w # s[1]
          <5>1. y[w] = x[w] /\ t[w] = r.time[w] /\ w # u
            BY <4>1, <4>4, <2>t, <2>y, <1>2
          <5> QED BY <4>1, <5>1, <1>8, <1>9
        <4> QED BY <4>3, <4>4
      <3> QED BY <3>1 DEF GainsAt
    <2>6. Chain(q, y, m)
      <3>1. /\ s \in Seq(Unit) /\ m \in [Unit -> Int] /\ p \in 1..Len(s)
            /\ t \in [Unit -> Int] /\ l \in [Unit -> Int] /\ Chain(s, t, l)
            /\ Without(q, s, p)
        BY <1>1, <1>2, <1>5, <1>6
      <3> QED BY <3>1, <2>3, <2>5, ChainRemove
    <2>7. q # <<>> /\ q[1] = s[1]
      <3>1. s \in Seq(Unit) /\ p \in 1..Len(s) /\ Len(q) = Len(s) - 1 /\ q \in Seq(Unit)
        BY <1>1, <1>2, <1>5 DEF Without
      <3>2. 1 \in 1..(Len(s) - 1) /\ 1 < p /\ Len(s) - 1 # 0
        BY <3>1, <1>14, HasFirst
      <3>3. q[1] = s[1]
        BY <3>2, <1>5 DEF Without
      <3>4. Len(q) # 0
        BY <3>1, <3>2
      <3> QED BY <3>1, <3>3, <3>4
    <2>8. Synced(n, n.cosched_interval) = y
      <3>1. Synced(n, n.cosched_interval)
               = [n.time EXCEPT ![n.clock_cosched_queue[1]] = n.cosched_interval]
        BY <2>7, <1>4, <1>11, <1>12, SyncedIs
      <3> QED BY <3>1, <2>1, <2>4, <2>7, <1>4 DEF x
    <2>9. Holds(n, m)
      BY <2>6, <2>8, <1>4 DEF Holds
    <2>10. Renewed(r, u, n, m)
      BY <2>1 DEF Renewed, s, v
    <2> QED BY <2>9, <2>10, <1>2, <1>4, <1>5, <1>6, <1>7, <1>12, <1>c
  <1> QED BY <1>13, <1>14
-----------------------------------------------------------------------------
(* The invariant *)

\* Unit x is in front of unit y on list s.
Before(s, x, y) == \E i, j \in 1..Len(s) : i < j /\ s[i] = x /\ s[j] = y

\* The units of list q are in the order of list s.
SameOrder(q, s) == \A x, y \in Unit : Before(q, x, y) => Before(s, x, y)

\* On q unit u has joined those of s, behind the units due on the same tick.
JoinsBehind(q, s, u, ticks, l) ==
    \A x, y \in Unit :
       Before(q, x, y) => \/ Before(s, x, y)
                          \/ y = u /\ x \in ToSet(s)
                          \/ x = u /\ y \in ToSet(s) /\ l[y] > ticks

\* The queue of a clock adds up to the ticks l, no unit is behind its tick and
\* none waits for more than MaxTicks.
QueueOK(r, l) ==
    /\ r \in Rtc /\ l \in [Unit -> Int] /\ Holds(r, l)
    /\ r.cosched_interval \in 0..MaxTicks
    /\ \A u \in On(r) : l[u] <= MaxTicks
    /\ On(r) # {} => r.time[r.clock_cosched_queue[1]] >= 0

\* The history agrees with the ticks l: a unit is due on the tick it asked for or,
\* when hurried, before it, and units due on one tick are in the order they asked.
HistoryOK(s, d, a, h, l) ==
    /\ d \in [Unit -> Int] /\ a \subseteq ToSet(s) \X ToSet(s) /\ h \subseteq ToSet(s)
    /\ \A u \in ToSet(s) : l[u] <= d[u] /\ (u \notin h => l[u] = d[u])
    /\ \A u, v \in Unit \ h : Before(s, u, v) /\ l[u] = l[v] => <<u, v>> \in a

\* With the time the head itself carries in place of cosched_interval the times
\* add up to no more than was asked for.
SpareOK(r, d, l) ==
    \A u \in On(r) :
       l[u] + (r.time[r.clock_cosched_queue[1]] - r.cosched_interval) <= d[u]

Agrees(r, d, a, h, l) ==
    /\ QueueOK(r, l) /\ HistoryOK(r.clock_cosched_queue, d, a, h, l)
    /\ SpareOK(r, d, l)

ReadyOK ==
    /\ ready \in Seq(Unit) /\ IsInjective(ready) /\ ToSet(ready) \cap Waiting = {}

\* There are ticks that the relative times add up to and the history agrees with.
QueuesOK == ReadyOK /\ \E l : Agrees(rtc, due, asked, hurried, l)

ExcessOK == usecs_remaining \in [Unit -> Nat] /\ sim_is_running \in BOOLEAN

\* Only a unit on the event queue has something to wait after its turn.
IdleOK == \A u \in Unit \ ToSet(ready) : usecs_remaining[u] = 0

\* The inductive invariant.
IInv == QueuesOK /\ ExcessOK /\ IdleOK
-----------------------------------------------------------------------------
(* Insertion *)

\* Who is on a list with one more unit, and in which order.
LEMMA WithIs ==
  ASSUME NEW s \in Seq(Unit), NEW q \in Seq(Unit), NEW u \in Unit,
         NEW p \in 1..(Len(s) + 1), With(q, s, p, u)
  PROVE  /\ ToSet(q) = ToSet(s) \cup {u}
         /\ \A x, y \in Unit :
               Before(q, x, y) => \/ Before(s, x, y)
                                  \/ y = u /\ x \in ToSet(s)
                                  \/ x = u /\ \E j \in p..Len(s) : s[j] = y
  <1>1. Len(s) \in Nat /\ Len(q) = Len(s) + 1
    BY OnList DEF With
  <1>2. \A i \in 1..Len(q) : q[i] = IF i < p THEN s[i] ELSE IF i = p THEN u ELSE s[i - 1]
    BY <1>1 DEF With
  <1>3. ASSUME NEW i \in 1..Len(q), i # p
        PROVE  /\ (IF i < p THEN i ELSE i - 1) \in 1..Len(s)
               /\ q[i] = s[IF i < p THEN i ELSE i - 1]
    <2>1. CASE i < p
      BY <2>1, <1>1, <1>2
    <2>2. CASE ~(i < p)
      <3>1. i - 1 \in 1..Len(s)
        BY <2>2, <1>1, <1>3
      <3> QED BY <3>1, <2>2, <1>2, <1>3
    <2> QED BY <2>1, <2>2
  <1>4. q[p] = u /\ p \in 1..Len(q)
    <2>1. p \in 1..Len(q) /\ ~(p < p)
      BY <1>1
    <2> QED BY <2>1, <1>2
  <1>5. ASSUME NEW w \in ToSet(q) PROVE w \in ToSet(s) \cup {u}
    <2>1. PICK i \in 1..Len(q) : q[i] = w
      BY OnList
    <2> QED BY <2>1, <1>3, <1>4, OnList
  <1>6. ASSUME NEW w \in ToSet(s) PROVE w \in ToSet(q)
    <2>1. PICK i \in 1..Len(s) : s[i] = w
      BY OnList
    <2>2. CASE i < p
      <3>1. i \in 1..Len(q) /\ q[i] = w
        BY <2>1, <2>2, <1>1, <1>2
      <3> QED BY <3>1, OnList
    <2>3. CASE ~(i < p)
      <3>1. i + 1 \in 1..Len(q) /\ ~(i + 1 < p) /\ i + 1 # p /\ (i + 1) - 1 = i
        BY <2>3, <1>1
      <3>2. q[i + 1] = w
        BY <3>1, <2>1, <1>2
      <3> QED BY <3>1, <3>2, OnList
    <2> QED BY <2>2, <2>3
  <1>7. u \in ToSet(q)
    BY <1>4, OnList
  <1>8. ASSUME NEW x \in Unit, NEW y \in Unit, Before(q, x, y)
        PROVE  \/ Before(s, x, y)
               \/ y = u /\ x \in ToSet(s)
               \/ x = u /\ \E j \in p..Len(s) : s[j] = y
    <2>1. PICK i \in 1..Len(q), j \in 1..Len(q) : i < j /\ q[i] = x /\ q[j] = y
      BY <1>8 DEF Before
    <2>2. CASE i = p
      <3>1. j # p /\ ~(j < p)
        BY <2>1, <2>2, <1>1
      <3>2. j - 1 \in 1..Len(s) /\ q[j] = s[j - 1]
        BY <3>1, <1>3
      <3>3. j - 1 \in p..Len(s)
        BY <3>1, <3>2, <1>1
      <3> QED BY <3>2, <3>3, <2>1, <2>2, <1>4
    <2>3. CASE j = p
      <3>1. i # p /\ i < p
        BY <2>1, <2>3, <1>1
      <3>2. i \in 1..Len(s) /\ q[i] = s[i]
        BY <3>1, <1>3
      <3> QED BY <3>2, <2>1, <2>3, <1>4, OnList
    <2>4. CASE i # p /\ j # p
      <3> DEFINE a == IF i < p THEN i ELSE i - 1
                 b == IF j < p THEN j ELSE j - 1
      <3>1. a \in 1..Len(s) /\ q[i] = s[a] /\ b \in 1..Len(s) /\ q[j] = s[b]
        BY <2>4, <1>3
      <3>2. a < b
        BY <2>1, <2>4, <1>1
      <3> HIDE DEF a, b
      <3> QED BY <3>1, <3>2, <2>1 DEF Before
    <2> QED BY <2>2, <2>3, <2>4
  <1> QED BY <1>5, <1>6, <1>7, <1>8

\* Who is on a list with one unit less, and in which order.
LEMMA WithoutIs ==
  ASSUME NEW s \in Seq(Unit), NEW q \in Seq(Unit), NEW p \in 1..Len(s),
         Without(q, s, p), NEW x \in Unit, NEW y \in Unit, Before(q, x, y)
  PROVE  Before(s, x, y)
  <1>1. Len(s) \in Nat /\ Len(q) = Len(s) - 1
    BY OnList DEF Without
  <1>2. \A i \in 1..Len(q) : q[i] = IF i < p THEN s[i] ELSE s[i + 1]
    BY <1>1 DEF Without
  <1>3. PICK i \in 1..Len(q), j \in 1..Len(q) : i < j /\ q[i] = x /\ q[j] = y
    BY DEF Before
  <1> DEFINE a == IF i < p THEN i ELSE i + 1
             b == IF j < p THEN j ELSE j + 1
  <1>4. a \in 1..Len(s) /\ b \in 1..Len(s) /\ a < b
    BY <1>1, <1>3
  <1>5. q[i] = s[a] /\ q[j] = s[b]
    BY <1>2
  <1> HIDE DEF a, b
  <1> QED BY <1>3, <1>4, <1>5 DEF Before

\* n is the queue r of the ticks l after a request, and m its ticks.
Requested(r, l, u, ticks, n, m) ==
    /\ QueueOK(r, l) /\ u \notin On(r) /\ n = Inserted(r, u, ticks)
    /\ m = [l EXCEPT ![u] = ticks]

\* sim_clock_coschedule_tmr keeps the queue in order.
LEMMA InsertQueue ==
  ASSUME NEW r, NEW l, NEW u \in Unit, NEW ticks \in 0..MaxTicks, NEW n, NEW m
  PROVE  Requested(r, l, u, ticks, n, m)
         => /\ QueueOK(n, m) /\ On(n) = On(r) \cup {u}
            /\ JoinsBehind(n.clock_cosched_queue, r.clock_cosched_queue, u, ticks, l)
  <1> DEFINE s == r.clock_cosched_queue
             q == n.clock_cosched_queue
  <1>0. SUFFICES ASSUME QueueOK(r, l), u \notin On(r), n = Inserted(r, u, ticks),
                        m = [l EXCEPT ![u] = ticks]
                 PROVE  /\ QueueOK(n, m) /\ On(n) = On(r) \cup {u}
                        /\ JoinsBehind(q, s, u, ticks, l)
    BY DEF Requested
  <1>1. /\ r \in Rtc /\ l \in [Unit -> Int] /\ Holds(r, l)
        /\ r.cosched_interval \in 0..MaxTicks /\ \A w \in On(r) : l[w] <= MaxTicks
    BY <1>0 DEF QueueOK
  <1>2. u \in Unit \ On(r) /\ ticks \in Nat
    BY <1>0, BoundAssumption
  <1>3. n \in Rtc /\ Holds(n, m) /\ m \in [Unit -> Int] /\ \E p : PutAt(r, n, u, ticks, l, p)
    <2> HIDE DEF s, q
    <2> QED BY <1>0, <1>1, <1>2, InsertedIs
  <1>4. PICK p : PutAt(r, n, u, ticks, l, p)
    BY <1>3
  <1>5. s \in Seq(Unit) /\ q \in Seq(Unit) /\ On(r) = ToSet(s) /\ On(n) = ToSet(q)
    BY <1>1, <1>3 DEF Rtc, On
  <1>6. /\ p \in 1..(Len(s) + 1) /\ With(q, s, p, u)
        /\ \A i \in 1..Len(s) : i < p <=> l[s[i]] <= ticks
    BY <1>4 DEF PutAt
  <1> HIDE DEF s, q
  <1>7. On(n) = On(r) \cup {u}
    BY <1>5, <1>6, WithIs
  <1>b. ASSUME NEW x \in Unit, NEW y \in Unit, Before(q, x, y)
        PROVE  \/ Before(s, x, y)
               \/ y = u /\ x \in On(r)
               \/ x = u /\ y \in On(r) /\ l[y] > ticks
    <2>1. \/ Before(s, x, y)
          \/ y = u /\ x \in ToSet(s)
          \/ x = u /\ \E j \in p..Len(s) : s[j] = y
      BY <1>5, <1>6, <1>b, WithIs
    <2>2. ASSUME x = u, NEW j \in p..Len(s), s[j] = y
          PROVE  y \in On(r) /\ l[y] > ticks
      <3>1. j \in 1..Len(s) /\ ~(j < p)
        BY <1>5, <1>6, OnList
      <3>2. ~(l[s[j]] <= ticks) /\ s[j] \in ToSet(s)
        BY <3>1, <1>5, <1>6, OnList
      <3>3. l[s[j]] \in Int /\ ticks \in Int
        BY <3>1, <1>1, <1>2, <1>5, OnList
      <3> QED BY <3>2, <3>3, <2>2, <1>5
    <2> QED BY <2>1, <2>2, <1>5
  <1>8. JoinsBehind(q, s, u, ticks, l)
    BY <1>b, <1>5 DEF JoinsBehind
  <1>9. ASSUME NEW w \in On(n)
        PROVE  m[w] = IF w = u THEN ticks ELSE l[w]
    <2>1. w \in Unit
      BY <1>5, OnList
    <2> QED BY <2>1, <1>0, <1>1
  <1>10. q # <<>> /\ q[1] \in On(n)
    <2>1. Len(s) \in Nat /\ Len(q) = Len(s) + 1
      BY <1>5, <1>6, OnList DEF With
    <2>2. 1 \in 1..Len(q)
      BY <2>1
    <2> QED BY <2>2, <1>5, OnList, HasFirst
  <1>11. /\ n.cosched_interval = m[q[1]]
         /\ \A w \in On(n) : m[w] >= n.cosched_interval
    BY <1>3, <1>10, FirstIs DEF q
  <1>12. /\ MaxTicks \in Nat /\ ticks \in Int /\ 0 <= ticks /\ ticks <= MaxTicks
         /\ r.cosched_interval \in Int
    BY <1>1, BoundAssumption
  <1>13. n.cosched_interval \in 0..MaxTicks
    <2>1. CASE q[1] = u
      <3>1. n.cosched_interval = ticks
        BY <2>1, <1>9, <1>10, <1>11
      <3> QED BY <3>1, <1>12
    <2>2. CASE q[1] # u
      <3>1. q[1] \in On(r)
        BY <2>2, <1>7, <1>10
      <3>2. n.cosched_interval = l[q[1]] /\ l[q[1]] <= MaxTicks
        BY <2>2, <3>1, <1>1, <1>9, <1>10, <1>11
      <3>3. l[q[1]] >= r.cosched_interval
        <4>1. s # <<>>
          BY <3>1, <1>5 DEF ToSet
        <4> QED BY <3>1, <4>1, <1>1, FirstIs DEF s
      <3>4. l[q[1]] \in Int
        BY <3>1, <1>1, <1>5, OnList
      <3> QED BY <3>2, <3>3, <3>4, <1>1, <1>12
    <2> QED BY <2>1, <2>2
  <1>14. \A w \in On(n) : m[w] <= MaxTicks
    BY <1>1, <1>7, <1>9, <1>12
  <1>15. n.time[q[1]] >= 0
    <2>1. n.cosched_interval = n.time[Head(q)]
      BY <1>0 DEF Inserted, q
    <2>2. Head(q) = q[1]
      BY <1>5, <1>10
    <2> QED BY <2>1, <2>2, <1>12, <1>13
  <1>16. QueueOK(n, m)
    BY <1>3, <1>13, <1>14, <1>15 DEF QueueOK, q
  <1> QED BY <1>7, <1>8, <1>16 DEF q, s
-----------------------------------------------------------------------------
(* Removal *)

\* n is the queue r of the ticks l after a cancel, and m its ticks.
Cut(r, l, u, n, c, m) ==
    /\ QueueOK(r, l) /\ u \in On(r) /\ n = Cancelled(r, u) /\ c = Gone(r, u)
    /\ m = Sooner(l, c)

\* _sim_coschedule_cancel keeps the queue in order, and no unit behind its tick.
LEMMA CancelQueue ==
  ASSUME NEW r, NEW l, NEW u \in Unit, NEW n, NEW c, NEW m
  PROVE  Cut(r, l, u, n, c, m)
         => /\ QueueOK(n, m) /\ On(n) = On(r) \ {u}
            /\ SameOrder(n.clock_cosched_queue, r.clock_cosched_queue)
  <1> DEFINE s == r.clock_cosched_queue
             q == n.clock_cosched_queue
             p == Position(s, u)
             v == r.cosched_interval
             e == n.cosched_interval
  <1>0. SUFFICES ASSUME QueueOK(r, l), u \in On(r), n = Cancelled(r, u),
                        c = Gone(r, u), m = Sooner(l, c)
                 PROVE  QueueOK(n, m) /\ On(n) = On(r) \ {u} /\ SameOrder(q, s)
    BY DEF Cut
  <1>1. /\ r \in Rtc /\ l \in [Unit -> Int] /\ Holds(r, l)
        /\ v \in 0..MaxTicks /\ \A w \in On(r) : l[w] <= MaxTicks
        /\ r.time[s[1]] >= 0
    BY <1>0 DEF QueueOK
  <1>2. /\ n \in Rtc /\ Holds(n, m) /\ m \in [Unit -> Int] /\ c \in Int
        /\ p \in 1..Len(s) /\ s[p] = u /\ Without(q, s, p)
        /\ On(n) = On(r) \ {u} /\ Renewed(r, u, n, m)
    <2> HIDE DEF s, q, p
    <2>1. p = Position(r.clock_cosched_queue, u)
      BY DEF p, s
    <2> QED BY <1>0, <1>1, <2>1, CancelledIs DEF s, q
  <1>3. s \in Seq(Unit) /\ q \in Seq(Unit) /\ On(r) = ToSet(s)
    BY <1>1, <1>2 DEF Rtc, On
  <1>4. c = IF u = s[1] THEN v ELSE 0
    BY <1>0 DEF Gone
  <1>5. \/ e = v /\ (u # s[1] \/ On(n) = {})
        \/ u = s[1] /\ e >= 0 /\ \E w \in On(n) : e = m[w]
    BY <1>2 DEF Renewed
  <1>6. \A w \in On(n) : w \in On(r) /\ w \in Unit /\ m[w] = l[w] - c /\ l[w] \in Int
    BY <1>0, <1>1, <1>2, <1>3, OnList DEF Sooner
  <1> HIDE DEF s, q, p, v, e
  <1>7. SameOrder(q, s)
    BY <1>2, <1>3, WithoutIs DEF SameOrder
  <1>8. MaxTicks \in Nat /\ v \in Int /\ c \in Int /\ c >= 0
    BY <1>1, <1>4, BoundAssumption
  <1>9. ASSUME NEW w \in On(n) PROVE m[w] <= MaxTicks
    <2>1. m[w] = l[w] - c /\ l[w] \in Int /\ l[w] <= MaxTicks
      BY <1>1, <1>6
    <2> QED BY <2>1, <1>8
  <1>10. e \in 0..MaxTicks
    <2>1. CASE e = v
      BY <2>1, <1>1
    <2>2. CASE e >= 0 /\ \E w \in On(n) : e = m[w]
      <3>1. e <= MaxTicks
        BY <2>2, <1>9
      <3>2. e \in Int
        BY <1>2 DEF Rtc, e
      <3> QED BY <2>2, <3>1, <3>2, <1>8
    <2> QED BY <2>1, <2>2, <1>5
  <1>11. ASSUME On(n) # {} PROVE n.time[q[1]] >= 0
    <2>1. /\ Unique(s) /\ Len(s) \in Nat /\ r.time \in [Unit -> Int]
          /\ \A i \in 1..Len(s) : s[i] \in Unit
      BY <1>1, <1>3, OnList DEF Unique, Holds, Chain, s, Rtc
    <2>2. Len(q) = Len(s) - 1 /\ \A i \in 1..(Len(s) - 1) : q[i] = IF i < p THEN s[i] ELSE s[i + 1]
      BY <1>2 DEF Without
    <2>3. Len(q) # 0
      <3>1. q # <<>>
        BY <1>11 DEF On, q, ToSet
      <3> QED BY <3>1, <1>3
    <2>4. /\ Len(s) > 1 /\ 1 \in 1..(Len(s) - 1) /\ 1 \in 1..Len(s) /\ 2 \in 1..Len(s)
          /\ s # <<>>
      BY <2>1, <2>2, <2>3
    <2>5. \A w \in Unit :
             n.time[w] = IF p # Len(s) /\ w = s[p + 1] THEN r.time[w] + r.time[u]
                         ELSE IF w = u THEN 0 ELSE r.time[w]
      BY <2>1, <1>0, <1>1, CancelledTimes DEF s, p
    <2>6. CASE p = 1
      <3>1. q[1] = s[2] /\ s[2] \in Unit /\ u = s[1]
        BY <2>1, <2>2, <2>4, <2>6, <1>2
      <3>2. n.time[s[2]] = r.time[s[2]] + r.time[s[1]]
        BY <2>4, <2>5, <2>6, <3>1
      <3>3. r.time[s[2]] >= 0
        <4>1. Synced(r, v)[s[2]] = r.time[s[2]]
          <5>1. Synced(r, v) = [r.time EXCEPT ![s[1]] = v]
            BY <2>4, <1>1, <1>8, SyncedIs DEF s
          <5>2. s[1] # s[2]
            BY <2>1, <2>4 DEF Unique
          <5> QED BY <5>1, <5>2, <2>1, <3>1
        <4>2. Chain(s, Synced(r, v), l)
          BY <1>1 DEF Holds, s, v
        <4>3. l[s[2]] = Synced(r, v)[s[2]] + l[s[1]] /\ l[s[1]] <= l[s[2]]
          <5>1. 2 # 1 /\ 2 - 1 = 1 /\ 1 < 2
            OBVIOUS
          <5> QED BY <5>1, <4>2, <2>4 DEF Chain
        <4>4. l[s[1]] \in Int /\ l[s[2]] \in Int /\ r.time[s[2]] \in Int
          BY <2>1, <2>4, <1>1
        <4> QED BY <4>1, <4>3, <4>4
      <3>4. r.time[s[2]] \in Int /\ r.time[s[1]] \in Int
        BY <2>1, <2>4
      <3> QED BY <3>1, <3>2, <3>3, <3>4, <1>1
    <2>7. CASE p # 1
      <3>1. q[1] = s[1] /\ s[1] \in Unit /\ s[1] # u
        BY <2>1, <2>2, <2>4, <2>7, <1>2 DEF Unique
      <3>2. p # Len(s) => s[1] # s[p + 1]
        <4>1. p # Len(s) => p + 1 \in 1..Len(s) /\ p + 1 # 1
          BY <2>1, <1>2
        <4> QED BY <4>1, <2>1, <2>4 DEF Unique
      <3>3. n.time[s[1]] = r.time[s[1]]
        BY <2>5, <3>1, <3>2
      <3> QED BY <3>1, <3>3, <1>1
    <2> QED BY <2>6, <2>7
  <1>12. QueueOK(n, m)
    BY <1>2, <1>9, <1>10, <1>11 DEF QueueOK, e, q
  <1> QED BY <1>2, <1>7, <1>12 DEF q, s
-----------------------------------------------------------------------------
(* The history of requests and cancels *)

\* A request changes list, ticks and history.
RequestNoted(s, d, a, h, l, u, ticks, q, m, d2, a2) ==
    /\ HistoryOK(s, d, a, h, l) /\ u \notin ToSet(s) /\ l \in [Unit -> Int]
    /\ m = [l EXCEPT ![u] = ticks]
    /\ s \in Seq(Unit) /\ ToSet(q) = ToSet(s) \cup {u}
    /\ JoinsBehind(q, s, u, ticks, l)
    /\ d2 = [d EXCEPT ![u] = ticks]
    /\ a2 = a \cup ToSet(s) \X {u}

\* A request: the unit waits for its ticks, behind those who asked for the same.
LEMMA AskHistory ==
  ASSUME NEW s, NEW d, NEW a, NEW h, NEW l, NEW u \in Unit,
         NEW ticks \in Int, NEW q, NEW m, NEW d2, NEW a2
  PROVE  RequestNoted(s, d, a, h, l, u, ticks, q, m, d2, a2)
         => HistoryOK(q, d2, a2, h, m)
  <1>0. SUFFICES ASSUME HistoryOK(s, d, a, h, l), u \notin ToSet(s),
                        l \in [Unit -> Int], m = [l EXCEPT ![u] = ticks],
                        s \in Seq(Unit), ToSet(q) = ToSet(s) \cup {u},
                        JoinsBehind(q, s, u, ticks, l),
                        d2 = [d EXCEPT ![u] = ticks],
                        a2 = a \cup ToSet(s) \X {u}
                 PROVE  HistoryOK(q, d2, a2, h, m)
    BY DEF RequestNoted
  <1>1. /\ d \in [Unit -> Int] /\ a \subseteq ToSet(s) \X ToSet(s)
        /\ h \subseteq ToSet(s)
        /\ \A v \in ToSet(s) : l[v] <= d[v] /\ (v \notin h => l[v] = d[v])
        /\ \A v, w \in Unit \ h : Before(s, v, w) /\ l[v] = l[w] => <<v, w>> \in a
    BY <1>0 DEF HistoryOK
  <1>s. ToSet(s) \subseteq Unit
    BY <1>0, OnList
  <1>2. d2 \in [Unit -> Int] /\ \A v \in Unit : d2[v] = IF v = u THEN ticks ELSE d[v]
    BY <1>0, <1>1
  <1>3. \A v \in Unit : m[v] = IF v = u THEN ticks ELSE l[v]
    BY <1>0
  <1>4. a2 \subseteq ToSet(q) \X ToSet(q) /\ h \subseteq ToSet(q)
    BY <1>0, <1>1
  <1>5. ASSUME NEW v \in ToSet(q)
        PROVE  m[v] <= d2[v] /\ (v \notin h => m[v] = d2[v])
    <2>1. v \in Unit
      BY <1>0, <1>s
    <2>2. CASE v = u
      BY <2>1, <2>2, <1>2, <1>3
    <2>3. CASE v # u
      BY <2>1, <2>3, <1>0, <1>1, <1>2, <1>3
    <2> QED BY <2>2, <2>3
  <1>6. ASSUME NEW v \in Unit \ h, NEW w \in Unit \ h,
               Before(q, v, w), m[v] = m[w]
        PROVE  <<v, w>> \in a2
    <2>1. CASE w = u /\ v \in ToSet(s)
      BY <2>1, <1>0
    <2>2. CASE v = u /\ w \in ToSet(s) /\ l[w] > ticks
      <3>1. m[v] = ticks /\ m[w] = l[w] /\ l[w] \in Int
        BY <2>2, <1>0, <1>3
      <3> QED BY <2>2, <3>1, <1>6
    <2>3. CASE Before(s, v, w) /\ v # u /\ w # u
      <3>1. l[v] = l[w]
        BY <2>3, <1>3, <1>6
      <3> QED BY <2>3, <3>1, <1>0, <1>1
    <2>4. ASSUME Before(s, v, w) PROVE v # u /\ w # u
      BY <2>4, <1>0, OnList DEF Before
    <2>5. \/ Before(s, v, w)
          \/ w = u /\ v \in ToSet(s)
          \/ v = u /\ w \in ToSet(s) /\ l[w] > ticks
      BY <1>0, <1>6 DEF JoinsBehind
    <2> QED BY <2>1, <2>2, <2>3, <2>4, <2>5
  <1> QED BY <1>2, <1>4, <1>5, <1>6 DEF HistoryOK

\* The pairs of a relation that name no unit of a set.
PairsWithout(a, units) == {p \in a : p[1] \notin units /\ p[2] \notin units}

\* Pairs of units that are left on a list are kept.
LEMMA PairsKept ==
  ASSUME NEW a, NEW T, NEW units, a \subseteq T \X T
  PROVE  /\ PairsWithout(a, units) \subseteq (T \ units) \X (T \ units)
         /\ \A v, w : <<v, w>> \in a /\ v \notin units /\ w \notin units
                      => <<v, w>> \in PairsWithout(a, units)
  <1>1. ASSUME NEW p \in PairsWithout(a, units)
        PROVE  p \in (T \ units) \X (T \ units)
    <2>1. p \in a /\ p[1] \notin units /\ p[2] \notin units
      BY DEF PairsWithout
    <2>2. PICK v \in T, w \in T : p = <<v, w>>
      BY <2>1
    <2> QED BY <2>1, <2>2
  <1>2. ASSUME NEW v, NEW w, <<v, w>> \in a, v \notin units, w \notin units
        PROVE  <<v, w>> \in PairsWithout(a, units)
    BY <1>2 DEF PairsWithout
  <1> QED BY <1>1, <1>2

\* A cancel changes list, ticks and history; the units f become hurried.
CancelNoted(s, d, a, h, l, u, c, q, f, m, d2, a2, h2) ==
    /\ HistoryOK(s, d, a, h, l) /\ l \in [Unit -> Int] /\ c \in Nat
    /\ m = Sooner(l, c) /\ s \in Seq(Unit) /\ q \in Seq(Unit)
    /\ ToSet(q) = ToSet(s) \ {u}
    /\ SameOrder(q, s)
    /\ f \subseteq ToSet(s) \ {u} /\ (c > 0 => f = ToSet(s) \ {u})
    /\ d2 = [d EXCEPT ![u] = 0]
    /\ a2 = PairsWithout(a, {u}) /\ h2 = (h \cup f) \ {u}

\* A cancel that makes the others come nearer by c: all of them count as hurried.
LEMMA CancelHistory ==
  ASSUME NEW s, NEW d, NEW a, NEW h, NEW l, NEW u \in Unit, NEW c, NEW q,
         NEW f, NEW m, NEW d2, NEW a2, NEW h2
  PROVE  CancelNoted(s, d, a, h, l, u, c, q, f, m, d2, a2, h2)
         => HistoryOK(q, d2, a2, h2, m)
  <1>0. SUFFICES ASSUME HistoryOK(s, d, a, h, l), l \in [Unit -> Int], c \in Nat,
                        m = Sooner(l, c), s \in Seq(Unit), q \in Seq(Unit),
                        ToSet(q) = ToSet(s) \ {u},
                        SameOrder(q, s),
                        f \subseteq ToSet(s) \ {u},
                        c > 0 => f = ToSet(s) \ {u},
                        d2 = [d EXCEPT ![u] = 0],
                        a2 = PairsWithout(a, {u}),
                        h2 = (h \cup f) \ {u}
                 PROVE  HistoryOK(q, d2, a2, h2, m)
    BY DEF CancelNoted
  <1>1. /\ d \in [Unit -> Int] /\ a \subseteq ToSet(s) \X ToSet(s)
        /\ h \subseteq ToSet(s)
        /\ \A v \in ToSet(s) : l[v] <= d[v] /\ (v \notin h => l[v] = d[v])
        /\ \A v, w \in Unit \ h : Before(s, v, w) /\ l[v] = l[w] => <<v, w>> \in a
    BY <1>0 DEF HistoryOK
  <1>s. ToSet(s) \subseteq Unit
    BY <1>0, OnList
  <1>2. d2 \in [Unit -> Int] /\ \A v \in Unit : v # u => d2[v] = d[v]
    BY <1>0, <1>1
  <1>3. \A v \in Unit : m[v] = l[v] - c /\ l[v] \in Int
    BY <1>0 DEF Sooner
  <1>4. a2 \subseteq ToSet(q) \X ToSet(q) /\ h2 \subseteq ToSet(q)
    <2>1. PairsWithout(a, {u}) \subseteq (ToSet(s) \ {u}) \X (ToSet(s) \ {u})
      BY <1>1, PairsKept
    <2>2. (h \cup f) \ {u} \subseteq ToSet(s) \ {u}
      BY <1>0, <1>1
    <2> QED BY <2>1, <2>2, <1>0
  <1>5. ASSUME NEW v \in ToSet(q)
        PROVE  m[v] <= d2[v] /\ (v \notin h2 => m[v] = d2[v])
    <2>1. v \in Unit /\ v \in ToSet(s) /\ v # u /\ d2[v] = d[v]
      BY <1>0, <1>s, <1>2
    <2>2. l[v] <= d[v] /\ (v \notin h => l[v] = d[v])
      BY <2>1, <1>1
    <2>3. m[v] = l[v] - c /\ l[v] \in Int /\ d[v] \in Int /\ c \in Nat
      BY <2>1, <1>0, <1>1, <1>3
    <2>4. CASE c > 0
      <3>1. v \in h2
        BY <2>1, <2>4, <1>0
      <3> QED BY <3>1, <2>1, <2>2, <2>3, <2>4
    <2>5. CASE c = 0
      <3>1. v \notin h2 => v \notin h
        BY <2>1, <1>0
      <3> QED BY <3>1, <2>1, <2>2, <2>3, <2>5
    <2> QED BY <2>3, <2>4, <2>5
  <1>6. ASSUME NEW v \in Unit \ h2, NEW w \in Unit \ h2,
               Before(q, v, w), m[v] = m[w]
        PROVE  <<v, w>> \in a2
    <2>1. v \in ToSet(q) /\ w \in ToSet(q)
      <3>1. q \in Seq(Unit) /\ Before(q, v, w)
        BY <1>0, <1>6
      <3> QED BY <3>1, OnList DEF Before
    <2>2. \A i, j \in Int : i - c = j - c => i = j
      BY <1>0
    <2>3. l[v] = l[w]
      BY <2>2, <1>3, <1>6
    <2>4. v # u /\ w # u /\ Before(s, v, w)
      BY <2>1, <1>0, <1>6 DEF SameOrder
    <2>5. v \notin h /\ w \notin h
      BY <2>4, <1>0
    <2>6. <<v, w>> \in a
      BY <2>3, <2>4, <2>5, <1>1
    <2> QED BY <2>4, <2>6, <1>0, <1>1, PairsKept
  <1> QED BY <1>2, <1>4, <1>5, <1>6 DEF HistoryOK

\* A tick changes list, ticks and history; some units leave.
TickNoted(s, d, a, h, l, units, q, m, d2, a2, h2) ==
    /\ HistoryOK(s, d, a, h, l) /\ l \in [Unit -> Int]
    /\ m = Sooner(l, 1) /\ s \in Seq(Unit) /\ q \in Seq(Unit)
    /\ ToSet(q) = ToSet(s) \ units
    /\ SameOrder(q, s)
    /\ d2 = [v \in Unit |-> IF v \in units THEN 0 ELSE d[v] - 1]
    /\ a2 = PairsWithout(a, units) /\ h2 = h \ units

\* A tick: it comes off what every unit that stays is waiting for.
LEMMA TickHistory ==
  ASSUME NEW s, NEW d, NEW a, NEW h, NEW l, NEW units, NEW q,
         NEW m, NEW d2, NEW a2, NEW h2
  PROVE  TickNoted(s, d, a, h, l, units, q, m, d2, a2, h2)
         => HistoryOK(q, d2, a2, h2, m)
  <1>0. SUFFICES ASSUME HistoryOK(s, d, a, h, l), l \in [Unit -> Int],
                        m = Sooner(l, 1), s \in Seq(Unit), q \in Seq(Unit),
                        ToSet(q) = ToSet(s) \ units,
                        SameOrder(q, s),
                        d2 = [v \in Unit |-> IF v \in units THEN 0 ELSE d[v] - 1],
                        a2 = PairsWithout(a, units), h2 = h \ units
                 PROVE  HistoryOK(q, d2, a2, h2, m)
    BY DEF TickNoted
  <1>1. /\ d \in [Unit -> Int] /\ a \subseteq ToSet(s) \X ToSet(s)
        /\ h \subseteq ToSet(s)
        /\ \A v \in ToSet(s) : l[v] <= d[v] /\ (v \notin h => l[v] = d[v])
        /\ \A v, w \in Unit \ h : Before(s, v, w) /\ l[v] = l[w] => <<v, w>> \in a
    BY <1>0 DEF HistoryOK
  <1>s. ToSet(s) \subseteq Unit
    BY <1>0, OnList
  <1>2. /\ d2 \in [Unit -> Int]
        /\ \A v \in Unit : v \notin units => d2[v] = d[v] - 1
    <2>1. \A v \in Unit : (IF v \in units THEN 0 ELSE d[v] - 1) \in Int
      BY <1>1
    <2>2. d2 = [v \in Unit |-> IF v \in units THEN 0 ELSE d[v] - 1]
      BY <1>0
    <2> QED BY <2>1, <2>2
  <1>3. \A v \in Unit : m[v] = l[v] - 1 /\ l[v] \in Int
    BY <1>0 DEF Sooner
  <1>4. a2 \subseteq ToSet(q) \X ToSet(q) /\ h2 \subseteq ToSet(q)
    <2>1. PairsWithout(a, units) \subseteq (ToSet(s) \ units) \X (ToSet(s) \ units)
      BY <1>1, PairsKept
    <2>2. h \ units \subseteq ToSet(s) \ units
      BY <1>1
    <2> QED BY <2>1, <2>2, <1>0
  <1>5. ASSUME NEW v \in ToSet(q)
        PROVE  m[v] <= d2[v] /\ (v \notin h2 => m[v] = d2[v])
    <2>1. v \in Unit /\ v \in ToSet(s) /\ d2[v] = d[v] - 1 /\ (v \notin h2 => v \notin h)
      <3>1. v \in ToSet(s) /\ v \notin units /\ (v \notin h2 => v \notin h)
        BY <1>0
      <3> QED BY <3>1, <1>s, <1>2
    <2>2. l[v] <= d[v] /\ (v \notin h => l[v] = d[v])
      BY <2>1, <1>1
    <2>3. m[v] = l[v] - 1 /\ l[v] \in Int /\ d[v] \in Int
      BY <2>1, <1>1, <1>3
    <2> QED BY <2>1, <2>2, <2>3
  <1>6. ASSUME NEW v \in Unit \ h2, NEW w \in Unit \ h2,
               Before(q, v, w), m[v] = m[w]
        PROVE  <<v, w>> \in a2
    <2>1. v \in ToSet(q) /\ w \in ToSet(q)
      <3>1. q \in Seq(Unit) /\ Before(q, v, w)
        BY <1>0, <1>6
      <3> QED BY <3>1, OnList DEF Before
    <2>2. l[v] = l[w]
      BY <1>3, <1>6
    <2>3. v \notin units /\ w \notin units /\ Before(s, v, w)
      BY <2>1, <1>0, <1>6 DEF SameOrder
    <2>4. v \notin h /\ w \notin h
      BY <2>3, <1>0
    <2>5. <<v, w>> \in a
      BY <2>2, <2>3, <2>4, <1>1
    <2> QED BY <2>3, <2>5, <1>0, <1>1, PairsKept
  <1> QED BY <1>2, <1>4, <1>5, <1>6 DEF HistoryOK
-----------------------------------------------------------------------------
(* A tick *)

\* a and b are the first k units of list s and the rest.
Split(s, k, a, b) == a = SubSeq(s, 1, k) /\ b = SubSeq(s, k + 1, Len(s))

\* The units gathered by a tick, and those that are left.
LEMMA SplitIs ==
  ASSUME NEW s \in Seq(Unit), NEW k \in 1..Len(s), NEW a, NEW b,
         Unique(s), Split(s, k, a, b)
  PROVE  /\ a \in Seq(Unit) /\ Len(a) = k /\ \A i \in 1..k : a[i] = s[i]
         /\ b \in Seq(Unit) /\ Len(b) = Len(s) - k
         /\ \A i \in 1..(Len(s) - k) : b[i] = s[i + k]
         /\ ToSet(a) \subseteq ToSet(s) /\ ToSet(b) = ToSet(s) \ ToSet(a)
         /\ IsInjective(a)
         /\ SameOrder(b, s)
  <1>1. Len(s) \in Nat
    BY OnList
  <1>2. a \in Seq(Unit) /\ Len(a) = k /\ \A i \in 1..k : a[i] = s[i]
    <2>1. k + 1 \in 1..(Len(s) + 1) /\ (k + 1) - 1 = k
      BY <1>1
    <2>2. /\ SubSeq(s, 1, (k + 1) - 1) \in Seq(Unit)
          /\ Len(SubSeq(s, 1, (k + 1) - 1)) = (k + 1) - 1
          /\ \A i \in 1..((k + 1) - 1) : SubSeq(s, 1, (k + 1) - 1)[i] = s[i]
      BY <2>1, InFrontOf
    <2>3. a = SubSeq(s, 1, k)
      BY DEF Split
    <2> QED BY <2>1, <2>2, <2>3
  <1>3. /\ b \in Seq(Unit) /\ Len(b) = Len(s) - k
        /\ \A i \in 1..(Len(s) - k) : b[i] = s[i + k]
    <2>1. k + 1 \in 1..(Len(s) + 1)
      BY <1>1
    <2>2. /\ SubSeq(s, k + 1, Len(s)) \in Seq(Unit)
          /\ Len(SubSeq(s, k + 1, Len(s))) = Len(s) - (k + 1) + 1
          /\ \A i \in 1..(Len(s) - (k + 1) + 1) :
                SubSeq(s, k + 1, Len(s))[i] = s[(k + 1) + i - 1]
      BY <2>1, FromOn
    <2>3. /\ Len(s) - (k + 1) + 1 = Len(s) - k
          /\ \A i \in 1..(Len(s) - k) : (k + 1) + i - 1 = i + k
      BY <1>1
    <2>4. b = SubSeq(s, k + 1, Len(s))
      BY DEF Split
    <2>5. /\ b \in Seq(Unit) /\ Len(b) = Len(s) - (k + 1) + 1
          /\ \A i \in 1..(Len(s) - (k + 1) + 1) : b[i] = s[(k + 1) + i - 1]
      BY <2>2, <2>4, Zenon
    <2> QED BY <2>3, <2>5
  <1>4. ToSet(a) = {s[i] : i \in 1..k}
    <2>1. DOMAIN a = 1..k
      BY <1>2
    <2>2. ToSet(a) = {a[i] : i \in 1..k}
      BY <2>1 DEF ToSet
    <2> QED BY <2>2, <1>2
  <1>5. ToSet(b) = {s[i + k] : i \in 1..(Len(s) - k)}
    <2> DEFINE T == 1..(Len(s) - k)
    <2>1. DOMAIN b = T
      BY <1>3
    <2>2. ToSet(b) = {b[i] : i \in T}
      BY <2>1 DEF ToSet
    <2>3. \A i \in T : b[i] = s[i + k]
      BY <1>3
    <2> HIDE DEF T
    <2>4. ASSUME NEW w
          PROVE  w \in ToSet(b) <=> \E i \in T : w = s[i + k]
      <3>1. ASSUME w \in ToSet(b) PROVE \E i \in T : w = s[i + k]
        <4>1. PICK i \in T : w = b[i]
          BY <2>2, <3>1
        <4>2. b[i] = s[i + k]
          BY <2>3
        <4> QED BY <4>1, <4>2
      <3>2. ASSUME NEW i \in T, w = s[i + k] PROVE w \in ToSet(b)
        <4>1. b[i] = s[i + k]
          BY <2>3
        <4>2. b[i] \in ToSet(b)
          BY <2>2
        <4> QED BY <4>1, <4>2, <3>2
      <3> QED BY <3>1, <3>2
    <2>5. ToSet(b) = {s[i + k] : i \in T}
      BY <2>4
    <2> QED BY <2>5 DEF T
  <1>6. ToSet(s) = {s[i] : i \in 1..Len(s)}
    BY OnList DEF ToSet
  <1>7. ToSet(a) \subseteq ToSet(s)
    <2>1. \A i \in 1..k : i \in 1..Len(s)
      BY <1>1
    <2> QED BY <2>1, <1>4, <1>6
  <1>8. ASSUME NEW w \in ToSet(b) PROVE w \in ToSet(s) \ ToSet(a)
    <2>1. PICK i \in 1..(Len(s) - k) : w = s[i + k]
      BY <1>5
    <2>2. i + k \in 1..Len(s) /\ \A j \in 1..k : j \in 1..Len(s) /\ i + k # j
      BY <1>1
    <2> QED BY <2>1, <2>2, <1>4, <1>6 DEF Unique
  <1>9. ASSUME NEW w \in ToSet(s) \ ToSet(a) PROVE w \in ToSet(b)
    <2>1. PICK i \in 1..Len(s) : w = s[i]
      BY <1>6
    <2>2. i \notin 1..k
      BY <2>1, <1>4
    <2>3. i - k \in 1..(Len(s) - k) /\ (i - k) + k = i
      BY <2>2, <1>1
    <2> QED BY <2>1, <2>3, <1>5
  <1>10. IsInjective(a)
    <2>1. DOMAIN a = 1..k /\ \A i \in 1..k : i \in 1..Len(s)
      BY <1>1, <1>2, OnList
    <2> QED BY <2>1, <1>2 DEF IsInjective, Unique
  <1>11. ASSUME NEW x \in Unit, NEW y \in Unit, Before(b, x, y)
         PROVE  Before(s, x, y)
    <2>1. PICK i \in 1..(Len(s) - k), j \in 1..(Len(s) - k) :
             i < j /\ b[i] = x /\ b[j] = y
      BY <1>3, <1>11 DEF Before
    <2>2. i + k \in 1..Len(s) /\ j + k \in 1..Len(s) /\ i + k < j + k
      BY <2>1, <1>1
    <2>3. s[i + k] = x /\ s[j + k] = y
      BY <2>1, <1>3
    <2> QED BY <2>2, <2>3 DEF Before
  <1> QED BY <1>2, <1>3, <1>7, <1>8, <1>9, <1>10, <1>11 DEF SameOrder

\* The head's time set to one tick less: every unit is due a tick sooner.
LEMMA TickTimes ==
  ASSUME NEW r, NEW l, NEW t
  PROVE  /\ QueueOK(r, l) /\ r.clock_cosched_queue # <<>>
         /\ t = Synced(r, r.cosched_interval - 1)
         => t \in [Unit -> Int] /\ Chain(r.clock_cosched_queue, t, Sooner(l, 1))
  <1> DEFINE s == r.clock_cosched_queue
             v == r.cosched_interval
             o == Synced(r, v)
             m == Sooner(l, 1)
  <1>0. SUFFICES ASSUME QueueOK(r, l), s # <<>>, t = Synced(r, v - 1)
                 PROVE  t \in [Unit -> Int] /\ Chain(s, t, m)
    OBVIOUS
  <1>1. r \in Rtc /\ l \in [Unit -> Int] /\ Holds(r, l)
    BY <1>0 DEF QueueOK
  <1>2. v \in Int /\ v - 1 \in Int /\ s \in Seq(Unit) /\ r.time \in [Unit -> Int]
    BY <1>1 DEF Rtc
  <1>3. /\ o \in [Unit -> Int] /\ o = [r.time EXCEPT ![s[1]] = v]
        /\ t \in [Unit -> Int] /\ t = [r.time EXCEPT ![s[1]] = v - 1]
    BY <1>0, <1>1, <1>2, SyncedIs
  <1>4. Chain(s, o, l) /\ 1 \in 1..Len(s) /\ s[1] \in Unit
    BY <1>0, <1>1, FirstIs DEF Holds
  <1>5. m \in [Unit -> Int] /\ \A w \in Unit : m[w] = l[w] - 1
    BY <1>1 DEF Sooner
  <1> HIDE DEF s, v, o, m
  <1>6. o[s[1]] = v /\ t = [o EXCEPT ![s[1]] = v - 1]
    <2>1. o[s[1]] = v
      BY <1>2, <1>3, <1>4
    <2>2. \A w \in Unit : t[w] = [o EXCEPT ![s[1]] = v - 1][w]
      BY <1>2, <1>3, <1>4
    <2> QED BY <2>1, <2>2, <1>3
  <1>7. Nearer(m, l, s, o[s[1]] - (v - 1))
    <2>1. o[s[1]] - (v - 1) = 1
      BY <1>2, <1>6
    <2>2. \A i \in 1..Len(s) : s[i] \in Unit
      BY <1>2, OnList
    <2> QED BY <2>1, <2>2, <1>5 DEF Nearer
  <1>8. Chain(s, [o EXCEPT ![s[1]] = v - 1], m)
    <2>1. s # <<>>
      BY <1>0 DEF s
    <2>2. o \in [Unit -> Int]
      BY <1>3
    <2> QED BY <2>1, <2>2, <1>1, <1>2, <1>4, <1>7, ChainNow
  <1> QED BY <1>3, <1>6, <1>8

\* What a tick that moves no unit does to the queue.
TickOnlyStep(r, l, n, e) ==
    /\ QueueOK(r, l)
    /\ e = IF r.clock_cosched_queue = <<>> THEN 0 ELSE r.cosched_interval - 1
    /\ e >= 0
    /\ n = [r EXCEPT !.time = Synced(r, r.cosched_interval - 1),
                     !.cosched_interval = e]

\* A tick that moves no unit.
LEMMA TickOnlyQueue ==
  ASSUME NEW r, NEW l, NEW n, NEW e
  PROVE  TickOnlyStep(r, l, n, e)
         => /\ QueueOK(n, Sooner(l, 1)) /\ n.cosched_interval = e
            /\ n.clock_cosched_queue = r.clock_cosched_queue
  <1> DEFINE s == r.clock_cosched_queue
             v == r.cosched_interval
             t == Synced(r, v - 1)
             m == Sooner(l, 1)
  <1>0. SUFFICES ASSUME QueueOK(r, l), e = IF s = <<>> THEN 0 ELSE v - 1, e >= 0,
                        n = [r EXCEPT !.time = t, !.cosched_interval = e]
                 PROVE  QueueOK(n, m) /\ n.cosched_interval = e /\ n.clock_cosched_queue = s
    BY DEF TickOnlyStep
  <1>1. /\ r \in Rtc /\ l \in [Unit -> Int] /\ v \in 0..MaxTicks
        /\ \A u \in On(r) : l[u] <= MaxTicks
    BY <1>0 DEF QueueOK
  <1>2. MaxTicks \in Nat
    BY BoundAssumption
  <1>3. v \in Int /\ v - 1 \in Int /\ e \in Int /\ s \in Seq(Unit)
    BY <1>0, <1>1, <1>2 DEF Rtc
  <1>4. t \in [Unit -> Int]
    BY <1>1, <1>3, SyncedIs
  <1>5. n = [clock_cosched_queue |-> s, time |-> t, cosched_interval |-> e]
    BY <1>0, <1>1 DEF Rtc
  <1>6. n \in Rtc /\ n.clock_cosched_queue = s /\ n.time = t /\ n.cosched_interval = e
    <2> HIDE DEF s, t
    <2> QED BY <1>3, <1>4, <1>5 DEF Rtc
  <1>7. m \in [Unit -> Int] /\ \A u \in Unit : m[u] = l[u] - 1 /\ l[u] \in Int
    BY <1>1 DEF Sooner
  <1>h. s # <<>> => t[s[1]] = e
    <2>1. SUFFICES ASSUME s # <<>> PROVE t[s[1]] = e
      OBVIOUS
    <2>2. t = [r.time EXCEPT ![s[1]] = v - 1] /\ e = v - 1
      BY <2>1, <1>0, <1>1, <1>3, SyncedIs
    <2>3. 1 \in 1..Len(s)
      BY <2>1, <1>3
    <2>4. s[1] \in Unit /\ r.time \in [Unit -> Int]
      BY <2>3, <1>1 DEF Rtc
    <2> QED BY <2>2, <2>4
  <1>8. Holds(n, m)
    <2>1. CASE s = <<>>
      BY <2>1, <1>6, EmptyChain DEF Holds
    <2>2. CASE s # <<>>
      <3>1. Chain(s, t, m)
        BY <2>2, <1>0, TickTimes
      <3>2. Synced(n, e) = [t EXCEPT ![s[1]] = e]
        BY <2>2, <1>3, <1>6, SyncedIs
      <3>3. Synced(n, e) = t
        BY <2>2, <3>2, <1>4, <1>h
      <3> QED BY <3>1, <3>3, <1>6 DEF Holds
    <2> QED BY <2>1, <2>2
  <1>9. On(n) = On(r) /\ On(r) \subseteq Unit /\ On(r) = ToSet(s)
    BY <1>3, <1>6, OnList DEF On
  <1>10. On(n) # {} => n.time[n.clock_cosched_queue[1]] >= 0
    <2>1. On(n) # {} => s # <<>>
      BY <1>9 DEF ToSet
    <2> QED BY <2>1, <1>0, <1>6, <1>h
  <1>11. e \in 0..MaxTicks
    BY <1>0, <1>1, <1>2
  <1> HIDE DEF s, t, v, m
  <1>12. ASSUME NEW u \in On(n) PROVE m[u] <= MaxTicks
    <2>1. m[u] = l[u] - 1 /\ l[u] \in Int /\ l[u] <= MaxTicks
      BY <1>1, <1>7, <1>9
    <2> QED BY <2>1, <1>2
  <1>13. QueueOK(n, m)
    BY <1>6, <1>7, <1>8, <1>10, <1>11, <1>12 DEF QueueOK
  <1> QED BY <1>6, <1>13

\* What a tick that moves the units a does to the queue.
TickDueStep(r, l, n, at, k, a, b) ==
    /\ QueueOK(r, l) /\ r.clock_cosched_queue # <<>>
    /\ r.cosched_interval - 1 <= 0
    /\ at = Ticks(r.clock_cosched_queue, Synced(r, r.cosched_interval - 1))
    /\ k = Gathered(r.clock_cosched_queue, at)
    /\ a = SubSeq(r.clock_cosched_queue, 1, k)
    /\ b = SubSeq(r.clock_cosched_queue, k + 1, Len(r.clock_cosched_queue))
    /\ n = [clock_cosched_queue |-> b,
            cosched_interval |-> IF b = <<>> THEN 0 ELSE at[k + 1],
            time |-> [u \in Unit |->
                        IF u \in ToSet(a) THEN 0
                        ELSE IF b # <<>> /\ u = Head(b) THEN at[k + 1]
                        ELSE r.time[u]]]

\* A tick that moves units: those due on it, and those it left behind, go; the
\* first one left is due on a later tick.
LEMMA TickDueQueue ==
  ASSUME NEW r, NEW l, NEW n, NEW at, NEW k, NEW a, NEW b
  PROVE  TickDueStep(r, l, n, at, k, a, b)
         => /\ QueueOK(n, Sooner(l, 1)) /\ k \in 1..Len(r.clock_cosched_queue)
            /\ \A i \in 1..k : Sooner(l, 1)[r.clock_cosched_queue[i]] <= 0
            /\ b # <<>> => n.cosched_interval > 0
  <1> DEFINE s == r.clock_cosched_queue
             v == r.cosched_interval
             t == Synced(r, v - 1)
             m == Sooner(l, 1)
             e == IF b = <<>> THEN 0 ELSE at[k + 1]
             x == [u \in Unit |-> IF u \in ToSet(a) THEN 0
                                  ELSE IF b # <<>> /\ u = Head(b) THEN at[k + 1]
                                  ELSE r.time[u]]
  <1>0. SUFFICES ASSUME QueueOK(r, l), s # <<>>, v - 1 <= 0,
                        at = Ticks(s, t), k = Gathered(s, at),
                        a = SubSeq(s, 1, k), b = SubSeq(s, k + 1, Len(s)),
                        n = [clock_cosched_queue |-> b, cosched_interval |-> e,
                             time |-> x]
                 PROVE  /\ QueueOK(n, m) /\ k \in 1..Len(s)
                        /\ \A i \in 1..k : m[s[i]] <= 0
                        /\ b # <<>> => n.cosched_interval > 0
    BY DEF TickDueStep
  <1>1. /\ r \in Rtc /\ l \in [Unit -> Int] /\ Holds(r, l)
        /\ v \in 0..MaxTicks /\ \A u \in On(r) : l[u] <= MaxTicks
    BY <1>0 DEF QueueOK
  <1>2. MaxTicks \in Nat
    BY BoundAssumption
  <1>3. v \in Int /\ v - 1 \in Int /\ s \in Seq(Unit) /\ r.time \in [Unit -> Int]
    BY <1>1 DEF Rtc
  <1>4. t \in [Unit -> Int] /\ Chain(s, t, m)
    BY <1>0, TickTimes
  <1>5. t = [r.time EXCEPT ![s[1]] = v - 1]
    BY <1>0, <1>1, <1>3, SyncedIs
  <1>6. m \in [Unit -> Int] /\ \A u \in Unit : m[u] = l[u] - 1 /\ l[u] \in Int
    BY <1>1 DEF Sooner
  <1>7. /\ 1 \in 1..Len(s) /\ s[1] \in Unit /\ l[s[1]] = v
    BY <1>0, <1>1, FirstIs
  <1>8. n.clock_cosched_queue = b /\ n.cosched_interval = e /\ n.time = x
    BY <1>0
  <1>9. On(r) = ToSet(s) /\ On(n) = ToSet(b)
    BY <1>8 DEF On
  <1>10. e = IF b = <<>> THEN 0 ELSE at[k + 1]
    OBVIOUS
  <1>11. \A u \in Unit : x[u] = IF u \in ToSet(a) THEN 0
                                ELSE IF b # <<>> /\ u = Head(b) THEN at[k + 1]
                                ELSE r.time[u]
    OBVIOUS
  <1>12. x = [u \in Unit |-> x[u]]
    OBVIOUS
  <1>13. at = Ticks(s, t) /\ k = Gathered(s, at) /\ s # <<>> /\ v - 1 <= 0
    BY <1>0
  <1>14. a = SubSeq(s, 1, k) /\ b = SubSeq(s, k + 1, Len(s))
    BY <1>0
  <1>15. n = [clock_cosched_queue |-> b, cosched_interval |-> e, time |-> x]
    BY <1>0
  <1> HIDE DEF s, v, t, m, e, x
  <1>16. \A i \in 1..Len(s) : s[i] \in Unit /\ at[i] = m[s[i]] /\ at[i] \in Int
    <2>1. \A i \in 0..Len(s) : Ticks(s, t)[i] = IF i = 0 THEN 0 ELSE m[s[i]]
      BY <1>3, <1>4, <1>6, TicksAre
    <2>2. \A i \in 1..Len(s) : i \in 0..Len(s) /\ i # 0
      OBVIOUS
    <2>3. \A i \in 1..Len(s) : s[i] \in Unit
      BY <1>3, OnList
    <2>4. \A i \in 1..Len(s) : at[i] = m[s[i]]
      BY <2>1, <2>2, <1>13
    <2> QED BY <2>3, <2>4, <1>6
  <1>17. /\ k \in 1..Len(s)
         /\ \A i \in 2..Len(s) : i <= k => at[i] <= 0
         /\ k < Len(s) => at[k + 1] > 0
    <2>1. \A i \in 1..Len(s) : at[i] \in Int
      BY <1>16
    <2>2. s # <<>> /\ k = Gathered(s, at)
      BY <1>13
    <2> QED BY <2>1, <2>2, <1>3, GatheredIs
  <1>18. ASSUME NEW i \in 1..k PROVE m[s[i]] <= 0
    <2>1. CASE i = 1
      <3>1. m[s[1]] = v - 1
        BY <1>6, <1>7
      <3> QED BY <2>1, <3>1, <1>13
    <2>2. CASE i # 1
      <3>1. i \in 2..Len(s) /\ i \in 1..Len(s) /\ i <= k
        BY <2>2, <1>17
      <3> QED BY <3>1, <1>16, <1>17
    <2> QED BY <2>1, <2>2
  <1>19. Unique(s)
    BY <1>4 DEF Chain, Unique
  <1>20. /\ a \in Seq(Unit) /\ Len(a) = k /\ \A i \in 1..k : a[i] = s[i]
         /\ b \in Seq(Unit) /\ Len(b) = Len(s) - k
         /\ \A i \in 1..(Len(s) - k) : b[i] = s[i + k]
         /\ ToSet(a) \subseteq ToSet(s) /\ ToSet(b) = ToSet(s) \ ToSet(a)
    <2>1. s \in Seq(Unit) /\ k \in 1..Len(s)
      BY <1>3, <1>17
    <2>2. Split(s, k, a, b)
      BY <1>14 DEF Split
    <2> QED BY <2>1, <2>2, <1>19, SplitIs
  <1>21. Len(s) \in Nat /\ k \in Nat
    BY <1>3, <1>17, OnList
  <1>22. b # <<>> => /\ k < Len(s) /\ k + 1 \in 1..Len(s) /\ b[1] = s[k + 1]
                     /\ Head(b) = b[1] /\ b[1] \in Unit /\ e = at[k + 1]
    <2>1. SUFFICES ASSUME b # <<>>
                   PROVE  /\ k < Len(s) /\ k + 1 \in 1..Len(s) /\ b[1] = s[k + 1]
                          /\ Head(b) = b[1] /\ b[1] \in Unit /\ e = at[k + 1]
      OBVIOUS
    <2>2. Len(b) # 0 /\ Head(b) = b[1]
      <3>1. b \in Seq(Unit)
        BY <1>20
      <3> QED BY <2>1, <3>1
    <2>3. k < Len(s) /\ k + 1 \in 1..Len(s) /\ 1 \in 1..(Len(s) - k) /\ 1 + k = k + 1
      <3>1. Len(s) - k # 0
        BY <2>2, <1>20
      <3> QED BY <3>1, <1>17, <1>21
    <2>4. b[1] = s[k + 1]
      BY <2>3, <1>20
    <2>5. s[k + 1] \in Unit
      BY <2>3, <1>16
    <2> QED BY <2>1, <2>2, <2>3, <2>4, <2>5, <1>10
  <1>23. b # <<>> => e > 0 /\ e = m[b[1]] /\ e \in Int
    BY <1>16, <1>17, <1>22
  <1>24. e \in Int /\ e >= 0
    <2>1. b = <<>> => e = 0
      BY <1>10
    <2> QED BY <2>1, <1>23
  <1>25. x \in [Unit -> Int]
    <2>1. ASSUME NEW u \in Unit PROVE x[u] \in Int
      <3>1. b # <<>> => at[k + 1] \in Int
        BY <1>22, <1>23
      <3>2. r.time[u] \in Int
        BY <1>3
      <3> QED BY <3>1, <3>2, <1>11
    <2> QED BY <2>1, <1>12
  <1>26. n \in Rtc
    <2>1. b \in Seq(Unit)
      BY <1>20
    <2> QED BY <2>1, <1>15, <1>24, <1>25 DEF Rtc
  <1>27. ASSUME NEW i \in 1..Len(b), b # <<>>
         PROVE  Synced(n, e)[b[i]] = IF i = 1 THEN m[b[i]] ELSE t[b[i]]
    <2>1. Synced(n, e) = [x EXCEPT ![b[1]] = e]
      BY <1>8, <1>24, <1>26, <1>27, SyncedIs
    <2>2. /\ i \in 1..(Len(s) - k) /\ i + k \in 1..Len(s) /\ i + k # 1
          /\ i # 1 => i + k # k + 1
      BY <1>17, <1>20, <1>21
    <2>3. b[i] = s[i + k] /\ b[i] \in Unit
      BY <2>2, <1>16, <1>20
    <2>4. CASE i = 1
      <3>1. Synced(n, e)[b[1]] = e
        BY <2>1, <2>3, <2>4, <1>25
      <3> QED BY <2>4, <3>1, <1>23, <1>27
    <2>5. CASE i # 1
      <3>1. b[i] # b[1] /\ b[i] # s[1]
        BY <2>2, <2>3, <2>5, <1>7, <1>19, <1>22, <1>27 DEF Unique
      <3>2. b[i] \notin ToSet(a)
        <4>1. b[i] \in ToSet(b)
          BY <1>20, OnList
        <4> QED BY <4>1, <1>20
      <3>3. x[b[i]] = r.time[b[i]]
        BY <2>3, <3>1, <3>2, <1>11, <1>22, <1>27
      <3>4. Synced(n, e)[b[i]] = x[b[i]]
        BY <2>1, <2>3, <3>1, <1>25
      <3>5. t[b[i]] = r.time[b[i]]
        BY <2>3, <3>1, <1>3, <1>5
      <3> QED BY <2>5, <3>3, <3>4, <3>5
    <2> QED BY <2>4, <2>5
  <1>28. Holds(n, m)
    <2>1. CASE b = <<>>
      BY <2>1, <1>8, EmptyChain DEF Holds
    <2>2. CASE b # <<>>
      <3>1. Chain(b, Synced(n, e), m)
        <4>1. k \in 0..Len(s)
          BY <1>17
        <4>2. RestOf(b, s, k)
          BY <1>20 DEF RestOf
        <4>3. RestTimes(b, Synced(n, e), t, m)
          BY <2>2, <1>27 DEF RestTimes
        <4> QED BY <4>1, <4>2, <4>3, <1>3, <1>4, <1>6, ChainFrom
      <3> QED BY <3>1, <1>8 DEF Holds
    <2> QED BY <2>1, <2>2
  <1>29. ASSUME NEW u \in On(n) PROVE m[u] <= MaxTicks
    <2>1. u \in On(r) /\ u \in Unit
      BY <1>3, <1>9, <1>20, OnList
    <2> QED BY <2>1, <1>1, <1>2, <1>6
  <1>30. e \in 0..MaxTicks
    <2>1. CASE b = <<>>
      BY <2>1, <1>2, <1>10
    <2>2. CASE b # <<>>
      <3>1. b[1] \in On(n)
        <4>1. 1 \in 1..Len(b)
          BY <1>20, <1>21, <1>22, <2>2
        <4> QED BY <4>1, <1>9, <1>20, OnList
      <3>2. e <= MaxTicks
        BY <2>2, <3>1, <1>23, <1>29
      <3> QED BY <3>2, <1>2, <1>24
    <2> QED BY <2>1, <2>2
  <1>31. ASSUME On(n) # {} PROVE n.time[n.clock_cosched_queue[1]] >= 0
    <2>1. b # <<>>
      BY <1>9, <1>31 DEF ToSet
    <2>2. b[1] \in ToSet(b)
      <3>1. 1 \in 1..Len(b)
        BY <2>1, <1>20, <1>21, <1>22
      <3> QED BY <3>1, <1>20, OnList
    <2>3. b[1] \notin ToSet(a)
      BY <2>2, <1>20
    <2>4. x[b[1]] = e
      BY <2>1, <2>3, <1>11, <1>22
    <2> QED BY <2>4, <1>8, <1>24
  <1>32. QueueOK(n, m)
    BY <1>6, <1>8, <1>26, <1>28, <1>29, <1>30, <1>31 DEF QueueOK
  <1> QED BY <1>8, <1>17, <1>18, <1>23, <1>32
-----------------------------------------------------------------------------
(* Every step keeps the invariant *)

\* Where the head's time is cosched_interval there is nothing to spare.
LEMMA SpareNone ==
  ASSUME NEW n, NEW m, NEW d, NEW a, NEW h, QueueOK(n, m),
         HistoryOK(n.clock_cosched_queue, d, a, h, m),
         n.clock_cosched_queue # <<>>
            => n.time[n.clock_cosched_queue[1]] = n.cosched_interval
  PROVE  SpareOK(n, d, m)
  <1>1. /\ n.cosched_interval \in Int /\ m \in [Unit -> Int] /\ On(n) \subseteq Unit
        /\ n.clock_cosched_queue \in Seq(Unit)
    BY OnList DEF QueueOK, Rtc, On
  <1>2. \A u \in On(n) : m[u] <= d[u]
    BY DEF HistoryOK, On
  <1>3. ASSUME NEW u \in On(n)
        PROVE  m[u] + (n.time[n.clock_cosched_queue[1]] - n.cosched_interval) <= d[u]
    <2>1. n.clock_cosched_queue # <<>>
      BY DEF On, ToSet
    <2>2. n.time[n.clock_cosched_queue[1]] - n.cosched_interval = 0
      BY <2>1, <1>1
    <2>3. m[u] \in Int /\ m[u] <= d[u]
      BY <1>1, <1>2
    <2> QED BY <2>2, <2>3
  <1> QED BY <1>3 DEF SpareOK

\* n is the queue r of the ticks l after a cancel, m its ticks, and d2 what was
\* asked for.
SpareCut(r, l, d, u, n, m, d2) ==
    /\ QueueOK(r, l) /\ QueueOK(n, m) /\ SpareOK(r, d, l) /\ u \in On(r)
    /\ n = Cancelled(r, u) /\ m = Sooner(l, Gone(r, u)) /\ On(n) = On(r) \ {u}
    /\ d \in [Unit -> Int] /\ d2 = [d EXCEPT ![u] = 0]

\* A cancel leaves what there is to spare; a cancelled first unit adds what it
\* took from the others.
LEMMA SpareCancelled ==
  ASSUME NEW r, NEW l, NEW d, NEW u, NEW n, NEW m, NEW d2
  PROVE  SpareCut(r, l, d, u, n, m, d2) => SpareOK(n, d2, m)
  <1> DEFINE s == r.clock_cosched_queue
             q == n.clock_cosched_queue
             v == r.cosched_interval
             e == n.cosched_interval
             c == Gone(r, u)
             x == n.time
  <1>0. SUFFICES ASSUME QueueOK(r, l), QueueOK(n, m), SpareOK(r, d, l), u \in On(r),
                        n = Cancelled(r, u), m = Sooner(l, Gone(r, u)),
                        On(n) = On(r) \ {u},
                        d \in [Unit -> Int], d2 = [d EXCEPT ![u] = 0]
                 PROVE  SpareOK(n, d2, m)
    BY DEF SpareCut
  <1>1. /\ r \in Rtc /\ n \in Rtc /\ l \in [Unit -> Int] /\ v \in Int /\ e \in Int
        /\ Unique(s) /\ s \in Seq(Unit) /\ q \in Seq(Unit) /\ r.time \in [Unit -> Int]
        /\ On(r) = ToSet(s) /\ On(n) = ToSet(q)
    BY <1>0 DEF QueueOK, Rtc, Holds, Chain, Unique, On
  <1>a. PICK p : p = Position(s, u)
    OBVIOUS
  <1>2. p \in 1..Len(s) /\ s[p] = u /\ u \in Unit /\ Len(s) \in Nat
    <2> HIDE DEF s
    <2>1. s \in Seq(Unit) /\ u \in ToSet(s)
      BY <1>0, <1>1
    <2>2. p \in 1..Len(s) /\ s[p] = u
      BY <2>1, <1>a, PositionIs
    <2> QED BY <2>1, <2>2, OnList
  <1>3. /\ q = RemoveAt(s, p)
        /\ e = IF p = 1 /\ Len(s) > 1 THEN r.time[s[2]] ELSE v
    BY <1>0, <1>1, <1>a DEF Cancelled
  <1>4. \A w \in Unit : x[w] = IF p # Len(s) /\ w = s[p + 1] THEN r.time[w] + r.time[u]
                               ELSE IF w = u THEN 0 ELSE r.time[w]
    <2>1. u \in On(r) /\ r \in Rtc /\ Unique(s)
      BY <1>0, <1>1
    <2>2. x = Cancelled(r, u).time
      BY <1>0
    <2> QED BY <2>1, <2>2, <1>a, CancelledTimes
  <1>5. Without(q, s, p)
    <2> HIDE DEF s, q
    <2> QED BY <1>1, <1>2, <1>3, RemovedAt DEF Without
  <1>6. c = IF u = s[1] THEN v ELSE 0
    BY DEF Gone
  <1>7. m = Sooner(l, c)
    BY <1>0
  <1>8. \A w \in On(r) : l[w] + (r.time[s[1]] - v) <= d[w]
    BY <1>0 DEF SpareOK
  <1> HIDE DEF s, q, v, e, c, x
  <1>9. ASSUME NEW w \in On(n) PROVE m[w] + (x[q[1]] - e) <= d2[w]
    <2>1. w \in On(r) /\ w # u /\ w \in Unit
      BY <1>0, <1>1, <1>9, OnList
    <2>2. d2[w] = d[w] /\ d[w] \in Int /\ l[w] \in Int
      BY <2>1, <1>0, <1>1
    <2>3. PICK k \in 1..Len(s) : s[k] = w
      BY <2>1, <1>1, OnList
    <2>4. Len(s) > 1 /\ Len(q) = Len(s) - 1 /\ q[1] = IF 1 < p THEN s[1] ELSE s[2]
      <3>1. Len(s) > 1
        BY <2>1, <2>3, <1>2
      <3>2. Len(q) = Len(s) - 1 /\ 1 \in 1..Len(q)
        BY <3>1, <1>2, <1>5 DEF Without
      <3> QED BY <3>1, <3>2, <1>2, <1>5 DEF Without
    <2>5. /\ 1 \in 1..Len(s) /\ 2 \in 1..Len(s) /\ s[1] \in Unit /\ s[2] \in Unit
          /\ s[1] # s[2]
      <3>1. 1 \in 1..Len(s) /\ 2 \in 1..Len(s)
        BY <2>4, <1>2
      <3>2. s[1] \in Unit /\ s[2] \in Unit
        BY <3>1, <1>1, OnList
      <3>3. s[1] # s[2]
        BY <3>1, <1>1 DEF Unique
      <3> QED BY <3>1, <3>2, <3>3
    <2>6. /\ r.time[s[1]] \in Int /\ r.time[s[2]] \in Int
          /\ l[w] + (r.time[s[1]] - v) <= d[w]
      BY <2>1, <2>5, <1>1, <1>8
    <2>7. CASE p = 1
      <3>1. u = s[1] /\ c = v /\ e = r.time[s[2]] /\ q[1] = s[2]
        BY <2>4, <2>7, <1>2, <1>3, <1>6
      <3>2. x[s[2]] = r.time[s[2]] + r.time[s[1]]
        BY <2>4, <2>5, <2>7, <3>1, <1>4
      <3>3. m[w] = l[w] - v
        BY <2>1, <3>1, <1>7 DEF Sooner
      <3>4. x[q[1]] - e = r.time[s[1]]
        BY <2>6, <3>1, <3>2
      <3>5. \A y, z, f, g \in Int : y + (z - f) <= g => y - f + z <= g
        OBVIOUS
      <3> QED BY <2>2, <2>6, <3>3, <3>4, <3>5, <1>1
    <2>8. CASE p # 1
      <3>1. u # s[1]
        BY <2>5, <2>8, <1>1, <1>2 DEF Unique
      <3>2. c = 0 /\ e = v /\ q[1] = s[1]
        BY <2>4, <2>8, <3>1, <1>2, <1>3, <1>6
      <3>3. p # Len(s) => s[p + 1] # s[1]
        <4>1. p # Len(s) => p + 1 \in 1..Len(s) /\ p + 1 # 1
          BY <1>2
        <4> QED BY <4>1, <2>5, <1>1 DEF Unique
      <3>4. x[s[1]] = r.time[s[1]]
        BY <2>5, <3>1, <3>3, <1>4
      <3>5. m[w] = l[w]
        BY <2>1, <2>2, <3>2, <1>7 DEF Sooner
      <3> QED BY <2>2, <2>6, <3>2, <3>4, <3>5
    <2> QED BY <2>7, <2>8
  <1> QED BY <1>9 DEF SpareOK, q, x, e

\* What a request does to queue and history.
AskStep(r, d, a, h, l, u, ticks, n, d2, a2) ==
    /\ Agrees(r, d, a, h, l) /\ u \notin On(r) /\ n = Inserted(r, u, ticks)
    /\ d2 = [d EXCEPT ![u] = ticks]
    /\ a2 = a \cup On(r) \X {u}

\* A request keeps queue and history together.
LEMMA AskKeeps ==
  ASSUME NEW r, NEW d, NEW a, NEW h, NEW l, NEW u \in Unit,
         NEW ticks \in 0..MaxTicks, NEW n, NEW d2, NEW a2
  PROVE  AskStep(r, d, a, h, l, u, ticks, n, d2, a2)
         => (\E m : Agrees(n, d2, a2, h, m)) /\ On(n) = On(r) \cup {u}
  <1> DEFINE s == r.clock_cosched_queue
             q == n.clock_cosched_queue
             m == [l EXCEPT ![u] = ticks]
  <1>0. SUFFICES ASSUME Agrees(r, d, a, h, l), u \notin On(r),
                        n = Inserted(r, u, ticks),
                        d2 = [d EXCEPT ![u] = ticks],
                        a2 = a \cup On(r) \X {u}
                 PROVE  (\E o : Agrees(n, d2, a2, h, o)) /\ On(n) = On(r) \cup {u}
    BY DEF AskStep
  <1>1. QueueOK(r, l) /\ HistoryOK(s, d, a, h, l)
    BY <1>0 DEF Agrees
  <1>2. /\ QueueOK(n, m) /\ On(n) = On(r) \cup {u}
        /\ JoinsBehind(q, s, u, ticks, l)
    <2> HIDE DEF m
    <2>1. m = [l EXCEPT ![u] = ticks]
      BY DEF m
    <2>2. Requested(r, l, u, ticks, n, m)
      BY <2>1, <1>0, <1>1 DEF Requested
    <2>3. /\ QueueOK(n, m) /\ On(n) = On(r) \cup {u}
          /\ JoinsBehind(n.clock_cosched_queue, r.clock_cosched_queue, u, ticks, l)
      BY <2>2, InsertQueue
    <2> QED BY <2>3
  <1>3. l \in [Unit -> Int] /\ s \in Seq(Unit) /\ On(r) = ToSet(s) /\ On(n) = ToSet(q)
    BY <1>1 DEF QueueOK, Rtc, On
  <1>4. ticks \in Int
    BY BoundAssumption
  <1> HIDE DEF s, q
  <1>5. HistoryOK(q, d2, a2, h, m)
    <2>1. u \notin ToSet(s) /\ a2 = a \cup ToSet(s) \X {u} /\ ToSet(q) = ToSet(s) \cup {u}
      BY <1>0, <1>2, <1>3
    <2>2. m = [l EXCEPT ![u] = ticks]
      OBVIOUS
    <2>3. d2 = [d EXCEPT ![u] = ticks]
      BY <1>0
    <2> HIDE DEF m
    <2>4. RequestNoted(s, d, a, h, l, u, ticks, q, m, d2, a2)
      BY <2>1, <2>2, <2>3, <1>1, <1>2, <1>3 DEF RequestNoted
    <2> QED BY <2>4, <1>4, AskHistory
  <1>6. SpareOK(n, d2, m)
    <2>1. n.cosched_interval = n.time[Head(q)]
      BY <1>0 DEF Inserted, q
    <2>2. q \in Seq(Unit)
      BY <1>2 DEF QueueOK, Rtc, q
    <2>3. q # <<>> => Head(q) = q[1]
      BY <2>2
    <2>4. q # <<>> => n.time[q[1]] = n.cosched_interval
      BY <2>1, <2>3
    <2> HIDE DEF m
    <2> QED BY <2>4, <1>2, <1>5, SpareNone DEF q
  <1>7. Agrees(n, d2, a2, h, m)
    BY <1>2, <1>5, <1>6 DEF Agrees, q
  <1> QED BY <1>2, <1>7

\* The units that a cancelled first unit u leaves on sooner ticks.
HurriedOn(r, u) ==
    IF u \in On(r) /\ u = r.clock_cosched_queue[1] /\ r.cosched_interval > 0
    THEN On(r) \ {u} ELSE {}

\* What a cancel does to queue and history.
CancelStep(r, d, a, h, l, u, n, d2, a2, h2) ==
    /\ Agrees(r, d, a, h, l) /\ n = Cancelled(r, u)
    /\ d2 = [d EXCEPT ![u] = 0]
    /\ a2 = PairsWithout(a, {u})
    /\ h2 = (h \cup HurriedOn(r, u)) \ {u}

\* A cancel keeps queue and history together.
LEMMA CancelKeeps ==
  ASSUME NEW r, NEW d, NEW a, NEW h, NEW l, NEW u \in Unit,
         NEW n, NEW d2, NEW a2, NEW h2
  PROVE  CancelStep(r, d, a, h, l, u, n, d2, a2, h2)
         => (\E m : Agrees(n, d2, a2, h2, m)) /\ On(n) = On(r) \ {u}
  <1> DEFINE s == r.clock_cosched_queue
             q == n.clock_cosched_queue
             c == IF u \in On(r) THEN Gone(r, u) ELSE 0
             f == HurriedOn(r, u)
             m == Sooner(l, c)
  <1>0. SUFFICES ASSUME Agrees(r, d, a, h, l), n = Cancelled(r, u),
                        d2 = [d EXCEPT ![u] = 0],
                        a2 = PairsWithout(a, {u}),
                        h2 = (h \cup f) \ {u}
                 PROVE  (\E o : Agrees(n, d2, a2, h2, o)) /\ On(n) = On(r) \ {u}
    BY DEF CancelStep
  <1>1. QueueOK(r, l) /\ HistoryOK(s, d, a, h, l)
    BY <1>0 DEF Agrees
  <1>2. /\ l \in [Unit -> Int] /\ s \in Seq(Unit) /\ On(r) = ToSet(s)
        /\ r.cosched_interval \in 0..MaxTicks /\ On(n) = ToSet(q)
    BY <1>1 DEF QueueOK, Rtc, On
  <1>3. c \in Nat
    BY <1>2, BoundAssumption DEF Gone
  <1>4. /\ QueueOK(n, m) /\ On(n) = On(r) \ {u}
        /\ SameOrder(q, s)
    <2>1. CASE u \in On(r)
      <3>1. c = Gone(r, u)
        BY <2>1
      <3>2. m = Sooner(l, c)
        OBVIOUS
      <3> HIDE DEF c, m
      <3>3. Cut(r, l, u, n, c, m)
        BY <2>1, <3>1, <3>2, <1>0, <1>1 DEF Cut
      <3> QED BY <3>3, CancelQueue
    <2>2. CASE u \notin On(r)
      <3>1. n = r
        BY <2>2, <1>0 DEF Cancelled, On
      <3>2. m = l
        <4>1. m = [w \in Unit |-> l[w] - 0]
          BY <2>2 DEF Sooner
        <4>2. \A w \in Unit : l[w] - 0 = l[w]
          BY <1>2
        <4> QED BY <4>1, <4>2, <1>2
      <3> HIDE DEF m
      <3>3. SameOrder(q, s)
        BY <3>1 DEF SameOrder
      <3> QED BY <2>2, <3>1, <3>2, <3>3, <1>1
    <2> QED BY <2>1, <2>2
  <1>5. q \in Seq(Unit)
    BY <1>4 DEF QueueOK, Rtc
  <1>6. f \subseteq ToSet(s) \ {u} /\ (c > 0 => f = ToSet(s) \ {u})
    BY <1>2 DEF HurriedOn, Gone
  <1>7. m = Sooner(l, c)
    OBVIOUS
  <1>8. d2 = [d EXCEPT ![u] = 0] /\ a2 = PairsWithout(a, {u}) /\ h2 = (h \cup f) \ {u}
    BY <1>0
  <1> HIDE DEF s, q, c, f, m
  <1>9. HistoryOK(q, d2, a2, h2, m)
    <2>1. ToSet(q) = ToSet(s) \ {u}
      BY <1>2, <1>4
    <2>2. CancelNoted(s, d, a, h, l, u, c, q, f, m, d2, a2, h2)
      BY <2>1, <1>1, <1>2, <1>3, <1>4, <1>5, <1>6, <1>7, <1>8 DEF CancelNoted
    <2> QED BY <2>2, CancelHistory
  <1>10. SpareOK(n, d2, m)
    <2>1. SpareOK(r, d, l) /\ d \in [Unit -> Int]
      BY <1>0, <1>1 DEF Agrees, HistoryOK
    <2>2. CASE u \in On(r)
      <3>1. m = Sooner(l, Gone(r, u))
        BY <2>2, <1>7 DEF c
      <3>2. SpareCut(r, l, d, u, n, m, d2)
        BY <2>1, <2>2, <3>1, <1>0, <1>1, <1>4, <1>8 DEF SpareCut
      <3> QED BY <3>2, SpareCancelled
    <2>3. CASE u \notin On(r)
      <3>1. n = r /\ c = 0
        BY <2>3, <1>0 DEF Cancelled, On, c
      <3>2. ASSUME NEW w \in On(r) PROVE m[w] = l[w] /\ d2[w] = d[w]
        <4>1. w \in Unit /\ w # u
          BY <3>2, <2>3, <1>2, OnList
        <4> QED BY <4>1, <3>1, <2>1, <1>2, <1>7, <1>8 DEF Sooner
      <3> QED BY <2>1, <3>1, <3>2 DEF SpareOK
    <2> QED BY <2>2, <2>3
  <1>11. Agrees(n, d2, a2, h2, m)
    BY <1>4, <1>9, <1>10 DEF Agrees, q
  <1> QED BY <1>4, <1>11

\* Nothing is forgotten of a relation among units that all are left.
LEMMA PairsAll ==
  ASSUME NEW a, NEW T, NEW units, a \subseteq T \X T, T \cap units = {}
  PROVE  PairsWithout(a, units) = a
  <1>1. ASSUME NEW p \in a PROVE p \in PairsWithout(a, units)
    <2>1. PICK v \in T, w \in T : p = <<v, w>>
      OBVIOUS
    <2>2. v \notin units /\ w \notin units
      OBVIOUS
    <2> QED BY <2>1, <2>2 DEF PairsWithout
  <1>2. PairsWithout(a, units) \subseteq a
    BY DEF PairsWithout
  <1> QED BY <1>1, <1>2

\* One list behind another.
LEMMA ConcatIs ==
  ASSUME NEW s \in Seq(Unit), NEW q \in Seq(Unit), IsInjective(s), IsInjective(q),
         ToSet(s) \cap ToSet(q) = {}
  PROVE  /\ s \o q \in Seq(Unit) /\ IsInjective(s \o q)
         /\ ToSet(s \o q) = ToSet(s) \cup ToSet(q)
         /\ Len(s \o q) = Len(s) + Len(q)
         /\ \A i \in 1..(Len(s) + Len(q)) :
               (s \o q)[i] = IF i <= Len(s) THEN s[i] ELSE q[i - Len(s)]
  <1> DEFINE r == s \o q
  <1>1. Len(s) \in Nat /\ Len(q) \in Nat
    BY OnList
  <1>2. /\ r \in Seq(Unit) /\ Len(r) = Len(s) + Len(q)
        /\ \A i \in 1..(Len(s) + Len(q)) :
              r[i] = IF i <= Len(s) THEN s[i] ELSE q[i - Len(s)]
    BY ConcatProperties
  <1> HIDE DEF r
  <1>3. DOMAIN r = 1..(Len(s) + Len(q))
    BY <1>2, OnList
  <1>4. ASSUME NEW i \in 1..(Len(s) + Len(q))
        PROVE  /\ i <= Len(s) => i \in 1..Len(s) /\ r[i] = s[i] /\ r[i] \in ToSet(s)
               /\ ~(i <= Len(s)) => /\ i - Len(s) \in 1..Len(q)
                                    /\ r[i] = q[i - Len(s)] /\ r[i] \in ToSet(q)
    <2>1. CASE i <= Len(s)
      <3>1. i \in 1..Len(s) /\ r[i] = s[i]
        BY <2>1, <1>1, <1>2
      <3> QED BY <2>1, <3>1, OnList
    <2>2. CASE ~(i <= Len(s))
      <3>1. i - Len(s) \in 1..Len(q) /\ r[i] = q[i - Len(s)]
        BY <2>2, <1>1, <1>2
      <3> QED BY <2>2, <3>1, OnList
    <2> QED BY <2>1, <2>2
  <1>5. ASSUME NEW i \in 1..(Len(s) + Len(q)), NEW j \in 1..(Len(s) + Len(q)),
               r[i] = r[j]
        PROVE  i = j
    <2>1. \A x, z \in 1..Len(s) : s[x] = s[z] => x = z
      BY OnList DEF IsInjective
    <2>2. \A x, z \in 1..Len(q) : q[x] = q[z] => x = z
      BY OnList DEF IsInjective
    <2>3. CASE i <= Len(s) /\ j <= Len(s)
      BY <2>1, <2>3, <1>4, <1>5
    <2>4. CASE ~(i <= Len(s)) /\ ~(j <= Len(s))
      <3>1. i - Len(s) = j - Len(s)
        BY <2>2, <2>4, <1>4, <1>5
      <3> QED BY <3>1, <1>1
    <2>5. CASE (i <= Len(s)) # (j <= Len(s))
      BY <2>5, <1>4, <1>5
    <2> QED BY <2>3, <2>4, <2>5
  <1>6. IsInjective(r)
    BY <1>3, <1>5 DEF IsInjective
  <1>7. ASSUME NEW w \in ToSet(r) PROVE w \in ToSet(s) \cup ToSet(q)
    <2>1. PICK i \in 1..(Len(s) + Len(q)) : r[i] = w
      BY <1>2, OnList
    <2> QED BY <2>1, <1>4
  <1>8. ASSUME NEW w \in ToSet(s) \cup ToSet(q) PROVE w \in ToSet(r)
    <2>1. \E i \in 1..(Len(s) + Len(q)) : r[i] = w
      <3>1. CASE w \in ToSet(s)
        <4>1. PICK i \in 1..Len(s) : s[i] = w
          BY <3>1, OnList
        <4>2. i \in 1..(Len(s) + Len(q)) /\ i <= Len(s)
          BY <1>1
        <4> QED BY <4>1, <4>2, <1>2
      <3>2. CASE w \in ToSet(q)
        <4>1. PICK i \in 1..Len(q) : q[i] = w
          BY <3>2, OnList
        <4>2. /\ i + Len(s) \in 1..(Len(s) + Len(q)) /\ ~(i + Len(s) <= Len(s))
              /\ (i + Len(s)) - Len(s) = i
          BY <1>1
        <4>3. r[i + Len(s)] = w
          BY <4>1, <4>2, <1>2
        <4> QED BY <4>2, <4>3
      <3> QED BY <3>1, <3>2
    <2> QED BY <2>1, <1>2, OnList
  <1>9. r \in Seq(Unit) /\ IsInjective(r) /\ ToSet(r) = ToSet(s) \cup ToSet(q)
    BY <1>2, <1>6, <1>7, <1>8
  <1> QED BY <1>2, <1>9 DEF r
-----------------------------------------------------------------------------
(* The steps of the specification *)

\* The queues of the next state, from their parts.
LEMMA Keeps ==
  ASSUME ReadyOK', NEW l, Agrees(rtc', due', asked', hurried', l)
  PROVE  QueuesOK'
  BY DEF QueuesOK

\* Units left on the event queue, when some leave it and one joins the clock's.
LEMMA ReadyKept ==
  ASSUME ReadyOK, NEW u \in Unit, On(rtc') \subseteq Waiting \cup {u},
         ready' = Unlinked(ready, u)
  PROVE  ReadyOK'
  <1>1. /\ ready' \in Seq(Unit) /\ IsInjective(ready')
        /\ ToSet(ready') = ToSet(ready) \ {u}
    BY UnlinkedIs DEF ReadyOK
  <1>2. ToSet(ready) \cap Waiting = {} /\ On(rtc') = Waiting'
    BY DEF ReadyOK, Waiting, On
  <1>3. ToSet(ready') \cap Waiting' = {}
    BY <1>1, <1>2
  <1> QED BY <1>1, <1>3 DEF ReadyOK

\* The queue starts empty.
LEMMA InitKeeps == Init => IInv
  <1> SUFFICES ASSUME Init PROVE IInv
    OBVIOUS
  <1> DEFINE l == [u \in Unit |-> 0]
             s == rtc.clock_cosched_queue
  <1>1. /\ rtc = [clock_cosched_queue |-> <<>>, cosched_interval |-> 0,
                  time |-> [u \in Unit |-> 0]]
        /\ ready = <<>> /\ due = [u \in Unit |-> 0] /\ asked = {}
        /\ hurried = {} /\ usecs_remaining = [u \in Unit |-> 0]
        /\ sim_is_running = FALSE
    BY DEF Init
  <1>2. s = <<>> /\ rtc.cosched_interval = 0 /\ l \in [Unit -> Int]
    BY <1>1
  <1>3. <<>> \in Seq(Unit) /\ ToSet(<<>>) = {} /\ IsInjective(<<>>) /\ Len(<<>>) = 0
    BY DEF ToSet, IsInjective
  <1>4. rtc \in Rtc
    <2>1. [u \in Unit |-> 0] \in [Unit -> Int]
      OBVIOUS
    <2> QED BY <2>1, <1>1, <1>3 DEF Rtc
  <1>5. On(rtc) = {} /\ Waiting = {}
    BY <1>2, <1>3 DEF On, Waiting
  <1> HIDE DEF l
  <1>6. Holds(rtc, l)
    BY <1>2, EmptyChain DEF Holds
  <1>7. 0 \in 0..MaxTicks
    BY BoundAssumption
  <1>8. QueueOK(rtc, l)
    BY <1>2, <1>4, <1>5, <1>6, <1>7 DEF QueueOK
  <1>9. HistoryOK(s, due, asked, hurried, l)
    <2>1. due \in [Unit -> Int]
      BY <1>1
    <2>2. \A x, y : ~Before(<<>>, x, y)
      BY <1>3 DEF Before
    <2>3. ToSet(s) = {}
      BY <1>2, <1>3
    <2> QED BY <2>1, <2>2, <2>3, <1>1, <1>2 DEF HistoryOK
  <1>10. ReadyOK
    BY <1>1, <1>3 DEF ReadyOK
  <1>11. ExcessOK
    <2>1. [u \in Unit |-> 0] \in [Unit -> Nat]
      OBVIOUS
    <2> QED BY <2>1, <1>1 DEF ExcessOK
  <1>12. SpareOK(rtc, due, l)
    BY <1>5 DEF SpareOK
  <1>13. IdleOK
    BY <1>1 DEF IdleOK
  <1> QED BY <1>8, <1>9, <1>10, <1>11, <1>12, <1>13 DEF IInv, QueuesOK, Agrees

\* sim_clock_coschedule_tmr
LEMMA CoscheduleKeeps ==
  ASSUME ReadyOK, NEW l, Agrees(rtc, due, asked, hurried, l),
         NEW u \in Unit, NEW ticks \in 0..MaxTicks, Coschedule(u, ticks)
  PROVE  QueuesOK'
  <1>1. /\ u \notin Waiting /\ u \notin ToSet(ready)
        /\ rtc' = Inserted(rtc, u, ticks)
        /\ ready' = ready /\ hurried' = hurried
        /\ Ask(u, ticks)
    BY DEF Coschedule, IsActive
  <1>2. asked \subseteq Waiting \X Waiting /\ u \notin On(rtc) /\ Waiting = On(rtc)
    BY <1>1 DEF Agrees, HistoryOK, Waiting, On
  <1>3. asked' = asked \cup On(rtc) \X {u}
    <2>a. Waiting \cap {u} = {} /\ asked \subseteq Waiting \X Waiting
      BY <1>1, <1>2
    <2>1. PairsWithout(asked, {u}) = asked
      <3> HIDE <1>1, <1>2
      <3> QED BY <2>a, PairsAll
    <2>2. Asked({u}) = PairsWithout(asked, {u})
      BY DEF Asked, PairsWithout
    <2>3. asked' = Asked({u}) \cup (Waiting \ {u}) \X {u}
      BY <1>1 DEF Ask
    <2>4. Waiting \ {u} = On(rtc)
      BY <1>2
    <2> QED BY <2>1, <2>2, <2>3, <2>4
  <1>4. due' = [due EXCEPT ![u] = ticks]
    BY <1>1 DEF Ask
  <1>5. AskStep(rtc, due, asked, hurried, l, u, ticks, rtc', due', asked')
    BY <1>1, <1>2, <1>3, <1>4 DEF AskStep
  <1>6. /\ \E m : Agrees(rtc', due', asked', hurried, m)
        /\ On(rtc') = On(rtc) \cup {u}
    BY <1>5, AskKeeps
  <1>7. ReadyOK'
    <2>1. ready' \in Seq(Unit) /\ IsInjective(ready') /\ ToSet(ready') \cap Waiting = {}
      BY <1>1 DEF ReadyOK
    <2>2. Waiting' = Waiting \cup {u} /\ u \notin ToSet(ready')
      BY <1>1, <1>2, <1>6 DEF Waiting, On
    <2>3. ToSet(ready') \cap Waiting' = {}
      BY <2>1, <2>2
    <2> QED BY <2>1, <2>3 DEF ReadyOK
  <1>8. PICK m : Agrees(rtc', due', asked', hurried', m)
    BY <1>1, <1>6
  <1> QED BY <1>7, <1>8, Keeps

\* What Disturb and sim_cancel leave of queue and history.
LEMMA CancelledKeeps ==
  ASSUME NEW l, Agrees(rtc, due, asked, hurried, l),
         NEW u \in Unit, Disturb(u), NEW n, n = Cancelled(rtc, u), NEW d, NEW a,
         d = [due EXCEPT ![u] = 0], a = Asked({u})
  PROVE  /\ \E m : Agrees(n, d, a, hurried', m)
         /\ On(n) = Waiting \ {u}
  <1>1. u \in Waiting => Head(rtc.clock_cosched_queue) = rtc.clock_cosched_queue[1]
    <2>1. rtc.clock_cosched_queue \in Seq(Unit)
      BY DEF Agrees, QueueOK, Rtc
    <2> QED BY <2>1, OnList, HasFirst DEF Waiting
  <1>2. Waiting = On(rtc)
    BY DEF Waiting, On
  <1>3. hurried' = (hurried \cup HurriedOn(rtc, u)) \ {u}
    BY <1>1, <1>2 DEF Disturb, HurriedOn
  <1>4. a = PairsWithout(asked, {u})
    BY DEF Asked, PairsWithout
  <1>5. CancelStep(rtc, due, asked, hurried, l, u, n, d, a, hurried')
    BY <1>3, <1>4 DEF CancelStep
  <1>6. /\ \E m : Agrees(n, d, a, hurried', m)
        /\ On(n) = On(rtc) \ {u}
    BY <1>5, CancelKeeps
  <1> QED BY <1>2, <1>6

\* sim_clock_coschedule_tmr_abs
LEMMA CoscheduleAbsKeeps ==
  ASSUME ReadyOK, NEW l, Agrees(rtc, due, asked, hurried, l),
         NEW u \in Unit, NEW ticks \in 0..MaxTicks, CoscheduleAbs(u, ticks)
  PROVE  QueuesOK'
  <1>1. /\ rtc' = Inserted(Cancelled(rtc, u), u, ticks)
        /\ ready' = Unlinked(ready, u) /\ Disturb(u) /\ Ask(u, ticks)
    BY DEF CoscheduleAbs
  <1>2. PICK n : n = Cancelled(rtc, u)
    OBVIOUS
  <1>3. PICK d : d = [due EXCEPT ![u] = 0]
    OBVIOUS
  <1>4. PICK a : a = Asked({u})
    OBVIOUS
  <1>5. /\ \E m : Agrees(n, d, a, hurried', m)
        /\ On(n) = Waiting \ {u}
    BY <1>1, <1>2, <1>3, <1>4, CancelledKeeps
  <1>6. PICK m : Agrees(n, d, a, hurried', m)
    BY <1>5
  <1>7. asked' = a \cup On(n) \X {u}
    BY <1>1, <1>4, <1>5 DEF Ask
  <1>8. due' = [d EXCEPT ![u] = ticks]
    <2>1. due' = [due EXCEPT ![u] = ticks] /\ due \in [Unit -> Int]
      BY <1>1 DEF Ask, Agrees, HistoryOK
    <2> QED BY <2>1, <1>3
  <1>9. u \notin On(n) /\ rtc' = Inserted(n, u, ticks)
    BY <1>1, <1>2, <1>5
  <1>10. AskStep(n, d, a, hurried', m, u, ticks, rtc', due', asked')
    BY <1>6, <1>7, <1>8, <1>9 DEF AskStep
  <1>11. /\ \E o : Agrees(rtc', due', asked', hurried', o)
         /\ On(rtc') = On(n) \cup {u}
    BY <1>10, AskKeeps
  <1>12. ReadyOK'
    BY <1>1, <1>5, <1>11, ReadyKept
  <1>13. PICK o : Agrees(rtc', due', asked', hurried', o)
    BY <1>11
  <1> QED BY <1>12, <1>13, Keeps

\* sim_cancel
LEMMA CancelActionKeeps ==
  ASSUME ReadyOK, NEW l, Agrees(rtc, due, asked, hurried, l),
         NEW u \in Unit, Cancel(u)
  PROVE  QueuesOK'
  <1>1. /\ rtc' = Cancelled(rtc, u)
        /\ ready' = Unlinked(ready, u) /\ Disturb(u)
        /\ due' = [due EXCEPT ![u] = 0]
        /\ asked' = Asked({u})
    BY DEF Cancel
  <1>2. /\ \E m : Agrees(rtc', due', asked', hurried', m)
        /\ On(rtc') = Waiting \ {u}
    BY <1>1, CancelledKeeps
  <1>3. ReadyOK'
    BY <1>1, <1>2, ReadyKept
  <1>4. PICK m : Agrees(rtc', due', asked', hurried', m)
    BY <1>2
  <1> QED BY <1>3, <1>4, Keeps

\* The first unit of a list.
LEMMA HeadIs ==
  ASSUME NEW s \in Seq(Unit), s # <<>>
  PROVE  Head(s) = s[1] /\ s[1] \in Unit /\ s[1] \in ToSet(s)
  <1>1. Head(s) = s[1] /\ 1 \in 1..Len(s)
    OBVIOUS
  <1> QED BY <1>1, OnList

\* A tick takes one off what the units that stay wait for.
LEMMA ForgetKeeps ==
  ASSUME NEW l, Agrees(rtc, due, asked, hurried, l),
         NEW units, Forget(units), QueueOK(rtc', Sooner(l, 1)),
         On(rtc') = On(rtc) \ units,
         SameOrder(rtc'.clock_cosched_queue, rtc.clock_cosched_queue),
         rtc'.clock_cosched_queue # <<>>
            => rtc'.time[rtc'.clock_cosched_queue[1]] = rtc'.cosched_interval
  PROVE  Agrees(rtc', due', asked', hurried', Sooner(l, 1))
  <1>1. /\ due' = [u \in Unit |-> IF u \in units THEN 0 ELSE due[u] - 1]
        /\ asked' = PairsWithout(asked, units)
        /\ hurried' = hurried \ units
    BY DEF Forget, Asked, PairsWithout
  <1>2. /\ HistoryOK(rtc.clock_cosched_queue, due, asked, hurried, l)
        /\ l \in [Unit -> Int] /\ rtc.clock_cosched_queue \in Seq(Unit)
        /\ rtc'.clock_cosched_queue \in Seq(Unit)
    BY DEF Agrees, QueueOK, Rtc
  <1>3. TickNoted(rtc.clock_cosched_queue, due, asked, hurried, l, units,
                  rtc'.clock_cosched_queue, Sooner(l, 1), due', asked', hurried')
    BY <1>1, <1>2 DEF TickNoted, On
  <1>4. HistoryOK(rtc'.clock_cosched_queue, due', asked', hurried',
                  Sooner(l, 1))
    BY <1>3, TickHistory
  <1>5. SpareOK(rtc', due', Sooner(l, 1))
    BY <1>4, SpareNone
  <1> QED BY <1>4, <1>5 DEF Agrees

\* sim_timer_tick_svc without a unit to move: the first unit of the queue still
\* has a tick to wait.
LEMMA TickOnlyKeeps ==
  ASSUME NEW l, Agrees(rtc, due, asked, hurried, l), TickOnly
  PROVE  /\ Agrees(rtc', due', asked', hurried', Sooner(l, 1))
         /\ On(rtc') = On(rtc)
         /\ On(rtc') # {} => rtc'.cosched_interval > 0
  <1> DEFINE s == rtc.clock_cosched_queue
             v == rtc.cosched_interval
             e == IF s = <<>> THEN 0 ELSE v - 1
  <1>1. /\ s # <<>> => v - 1 > 0
        /\ rtc' = [rtc EXCEPT !.time = Synced(rtc, v - 1), !.cosched_interval = e]
        /\ Forget(Unit \ Waiting)
    BY DEF TickOnly
  <1>2. QueueOK(rtc, l) /\ rtc \in Rtc /\ v \in Int /\ s \in Seq(Unit)
    BY DEF Agrees, QueueOK, Rtc
  <1>3. e >= 0 /\ (s # <<>> => e > 0)
    BY <1>1, <1>2
  <1>4. TickOnlyStep(rtc, l, rtc', e)
    BY <1>1, <1>2, <1>3 DEF TickOnlyStep
  <1>5. /\ QueueOK(rtc', Sooner(l, 1)) /\ rtc'.cosched_interval = e
        /\ rtc'.clock_cosched_queue = s
    BY <1>4, TickOnlyQueue
  <1>6. On(rtc') = On(rtc) /\ On(rtc) \subseteq Unit /\ Waiting = On(rtc)
    BY <1>2, <1>5, OnList DEF On, Waiting
  <1>7. On(rtc') = On(rtc) \ (Unit \ Waiting)
    BY <1>6
  <1>8. SameOrder(rtc'.clock_cosched_queue, rtc.clock_cosched_queue)
    BY <1>5 DEF SameOrder
  <1>9. Agrees(rtc', due', asked', hurried', Sooner(l, 1))
    <2>1. ASSUME s # <<>> PROVE rtc'.time[s[1]] = e
      <3>1. Head(s) = s[1] /\ s[1] \in Unit
        BY <2>1, <1>2, HeadIs
      <3>2. rtc.time \in [Unit -> Int] /\ rtc'.time = Synced(rtc, v - 1)
        BY <1>1, <1>2 DEF Rtc
      <3>3. rtc'.time = [rtc.time EXCEPT ![Head(s)] = v - 1]
        BY <2>1, <3>2 DEF Synced
      <3> QED BY <2>1, <3>1, <3>2, <3>3
    <2> QED BY <2>1, <1>1, <1>5, <1>7, <1>8, ForgetKeeps
  <1>10. ASSUME s = <<>> PROVE On(rtc') = {}
    <2>1. On(rtc') = ToSet(<<>>)
      BY <1>5, <1>10 DEF On
    <2> QED BY <2>1 DEF ToSet
  <1> QED BY <1>3, <1>5, <1>6, <1>9, <1>10

\* The first k units of the queue, list a, move to the event queue.
Moves(k, a) ==
    /\ k \in 0..Len(rtc.clock_cosched_queue)
    /\ a \in Seq(Unit) /\ Len(a) = k /\ IsInjective(a)
    /\ \A i \in 1..k : a[i] = rtc.clock_cosched_queue[i]
    /\ ToSet(a) \subseteq On(rtc) /\ On(rtc') = On(rtc) \ ToSet(a)
    /\ ready' = ready \o a

\* sim_timer_tick_svc with units to move.
LEMMA TickDueKeeps ==
  ASSUME NEW l, Agrees(rtc, due, asked, hurried, l), TickDue
  PROVE  /\ Agrees(rtc', due', asked', hurried', Sooner(l, 1))
         /\ On(rtc') # {} => rtc'.cosched_interval > 0
         /\ \E k, a : Moves(k, a) /\ \A i \in 1..k : l[a[i]] <= 1
  <1> DEFINE s == rtc.clock_cosched_queue
             v == rtc.cosched_interval
             at == Ticks(s, Synced(rtc, v - 1))
             k == Gathered(s, at)
             a == SubSeq(s, 1, k)
             b == SubSeq(s, k + 1, Len(s))
             m == Sooner(l, 1)
  <1>1. /\ s # <<>> /\ v - 1 <= 0
        /\ rtc' = [clock_cosched_queue |-> b,
                   cosched_interval |-> IF b = <<>> THEN 0 ELSE at[k + 1],
                   time |-> [u \in Unit |->
                               IF u \in ToSet(a) THEN 0
                               ELSE IF b # <<>> /\ u = Head(b) THEN at[k + 1]
                               ELSE rtc.time[u]]]
        /\ ready' = ready \o a
        /\ Forget(ToSet(a) \cup (Unit \ Waiting))
    BY DEF TickDue
  <1>2. /\ QueueOK(rtc, l) /\ rtc \in Rtc /\ s \in Seq(Unit) /\ l \in [Unit -> Int]
        /\ Unique(s)
    BY DEF Agrees, QueueOK, Rtc, Holds, Chain, Unique
  <1>3. TickDueStep(rtc, l, rtc', at, k, a, b)
    BY <1>1, <1>2 DEF TickDueStep
  <1>4. Split(s, k, a, b)
    BY DEF Split
  <1>5. rtc'.clock_cosched_queue = b
    BY <1>1
  <1>6. /\ s = rtc.clock_cosched_queue /\ On(rtc) = ToSet(s) /\ Waiting = On(rtc)
        /\ On(rtc') = ToSet(b)
    BY <1>5 DEF On, Waiting
  <1>7. m = Sooner(l, 1) /\ \A u \in Unit : m[u] = l[u] - 1
    BY <1>2 DEF Sooner
  <1>8. ready' = ready \o a /\ Forget(ToSet(a) \cup (Unit \ Waiting))
    BY <1>1
  <1> HIDE DEF s, v, at, k, a, b, m
  <1>9. /\ QueueOK(rtc', m) /\ k \in 1..Len(s) /\ \A i \in 1..k : m[s[i]] <= 0
        /\ b # <<>> => rtc'.cosched_interval > 0
    BY <1>3, TickDueQueue DEF s, m
  <1>10. /\ a \in Seq(Unit) /\ Len(a) = k /\ \A i \in 1..k : a[i] = s[i]
         /\ b \in Seq(Unit) /\ Len(b) = Len(s) - k
         /\ ToSet(a) \subseteq ToSet(s) /\ ToSet(b) = ToSet(s) \ ToSet(a)
         /\ IsInjective(a) /\ SameOrder(b, s)
    BY <1>2, <1>4, <1>9, SplitIs
  <1>11. On(rtc') = On(rtc) \ ToSet(a)
    BY <1>6, <1>10
  <1>12. Agrees(rtc', due', asked', hurried', m)
    <2>1. On(rtc') = On(rtc) \ (ToSet(a) \cup (Unit \ Waiting))
      <3>1. On(rtc) \subseteq Unit
        BY <1>2, <1>6, OnList
      <3> QED BY <3>1, <1>6, <1>11
    <2>2. SameOrder(rtc'.clock_cosched_queue, rtc.clock_cosched_queue)
      BY <1>5, <1>10 DEF s
    <2>3. QueueOK(rtc', Sooner(l, 1))
      BY <1>7, <1>9
    <2>4. ASSUME b # <<>> PROVE rtc'.time[b[1]] = rtc'.cosched_interval
      <3>1. Head(b) = b[1] /\ b[1] \in Unit /\ b[1] \in ToSet(b)
        BY <2>4, <1>10, HeadIs
      <3>2. b[1] \notin ToSet(a)
        BY <3>1, <1>10
      <3>3. rtc'.cosched_interval = at[k + 1]
        BY <2>4, <1>1 DEF s, v, at, k, a, b
      <3>4. rtc'.time[b[1]] = IF b[1] \in ToSet(a) THEN 0
                              ELSE IF b # <<>> /\ b[1] = Head(b) THEN at[k + 1]
                              ELSE rtc.time[b[1]]
        BY <3>1, <1>1 DEF s, v, at, k, a, b
      <3> QED BY <2>4, <3>1, <3>2, <3>3, <3>4
    <2>5. Agrees(rtc', due', asked', hurried', Sooner(l, 1))
      BY <2>1, <2>2, <2>3, <2>4, <1>5, <1>8, ForgetKeeps
    <2> QED BY <2>5, <1>7
  <1>13. On(rtc') # {} => b # <<>>
    BY <1>6 DEF ToSet
  <1>14. ASSUME NEW i \in 1..k PROVE a[i] = s[i] /\ l[a[i]] <= 1
    <2>1. a[i] = s[i] /\ m[s[i]] <= 0
      BY <1>9, <1>10
    <2>2. i \in 1..Len(s)
      BY <1>2, <1>9, OnList
    <2>3. s[i] \in Unit
      BY <2>2, <1>2, OnList
    <2>4. m[s[i]] = l[s[i]] - 1 /\ l[s[i]] \in Int
      BY <2>3, <1>2, <1>7
    <2> QED BY <2>1, <2>4
  <1>15. Moves(k, a)
    <2>1. k \in 0..Len(s)
      BY <1>9
    <2> QED BY <2>1, <1>6, <1>8, <1>10, <1>11 DEF Moves, s
  <1> QED BY <1>9, <1>12, <1>13, <1>14, <1>15 DEF m

\* The event queue after units moved there: they are behind those it had.
LEMMA MovedReady ==
  ASSUME ReadyOK, NEW k, NEW a, Moves(k, a)
  PROVE  /\ ReadyOK' /\ ToSet(ready') = ToSet(ready) \cup ToSet(a)
         /\ \A i \in DOMAIN ready' :
               /\ i \in 1..(Len(ready) + k) /\ Len(ready) \in Nat /\ k \in Nat
               /\ i <= Len(ready) => ready'[i] \in ToSet(ready)
               /\ i > Len(ready) => /\ i - Len(ready) \in 1..k
                                    /\ ready'[i] = a[i - Len(ready)]
  <1>1. /\ ready \in Seq(Unit) /\ IsInjective(ready) /\ ToSet(ready) \cap On(rtc) = {}
        /\ a \in Seq(Unit) /\ Len(a) = k /\ IsInjective(a)
        /\ ToSet(a) \subseteq On(rtc) /\ ready' = ready \o a
    BY DEF ReadyOK, Moves, Waiting, On
  <1>2. /\ ready' \in Seq(Unit) /\ IsInjective(ready')
        /\ ToSet(ready') = ToSet(ready) \cup ToSet(a)
        /\ Len(ready') = Len(ready) + Len(a)
        /\ \A i \in 1..(Len(ready) + Len(a)) :
              ready'[i] = IF i <= Len(ready) THEN ready[i] ELSE a[i - Len(ready)]
    BY <1>1, ConcatIs
  <1>3. ReadyOK'
    <2>1. Waiting' = On(rtc) \ ToSet(a)
      BY DEF Moves, Waiting, On
    <2>2. ToSet(ready') \cap Waiting' = {}
      BY <2>1, <1>1, <1>2
    <2> QED BY <2>2, <1>2 DEF ReadyOK
  <1>4. Len(ready) \in Nat /\ k \in Nat /\ DOMAIN ready' = 1..(Len(ready) + k)
    BY <1>1, <1>2, OnList
  <1>5. ASSUME NEW i \in 1..(Len(ready) + k)
        PROVE  /\ i <= Len(ready) => ready'[i] \in ToSet(ready)
               /\ i > Len(ready) => /\ i - Len(ready) \in 1..k
                                    /\ ready'[i] = a[i - Len(ready)]
    <2>1. CASE i <= Len(ready)
      <3>1. i \in 1..Len(ready) /\ ready'[i] = ready[i]
        BY <2>1, <1>1, <1>2, <1>4
      <3> QED BY <2>1, <3>1, <1>1, <1>4, OnList
    <2>2. CASE i > Len(ready)
      BY <2>2, <1>1, <1>2, <1>4
    <2> QED BY <2>1, <2>2, <1>4
  <1> QED BY <1>2, <1>3, <1>4, <1>5

\* The event queue's turn.
LEMMA RunKeeps ==
  ASSUME ReadyOK, Run
  PROVE  /\ ReadyOK' /\ ToSet(ready') \subseteq ToSet(ready)
         /\ ToSet(ready) \subseteq ToSet(ready') \cup {Head(ready)}
  <1>1. /\ ready \in Seq(Unit) /\ ready # <<>> /\ ready' = Tail(ready) /\ rtc' = rtc
        /\ IsInjective(ready) /\ ToSet(ready) \cap Waiting = {}
    BY DEF ReadyOK, Run
  <1>2. /\ ready' \in Seq(Unit) /\ Len(ready) \in Nat /\ Len(ready') = Len(ready) - 1
        /\ \A i \in 1..(Len(ready) - 1) : ready'[i] = ready[i + 1]
    BY <1>1
  <1>3. DOMAIN ready' = 1..(Len(ready) - 1) /\ DOMAIN ready = 1..Len(ready)
    BY <1>1, <1>2, OnList
  <1>4. \A i \in 1..(Len(ready) - 1) : i + 1 \in 1..Len(ready)
    BY <1>2
  <1>5. ToSet(ready') \subseteq ToSet(ready)
    <2>1. ASSUME NEW w \in ToSet(ready') PROVE w \in ToSet(ready)
      <3>1. PICK i \in 1..(Len(ready) - 1) : ready'[i] = w
        BY <1>3 DEF ToSet
      <3>2. ready[i + 1] = w /\ i + 1 \in 1..Len(ready)
        BY <3>1, <1>2, <1>4
      <3> QED BY <3>2, <1>1, OnList
    <2> QED BY <2>1
  <1>6. IsInjective(ready')
    <2>1. ASSUME NEW i \in 1..(Len(ready) - 1), NEW j \in 1..(Len(ready) - 1),
                 ready'[i] = ready'[j]
          PROVE  i = j
      <3>1. ready[i + 1] = ready[j + 1]
        BY <2>1, <1>2
      <3>2. i + 1 = j + 1
        BY <3>1, <1>1, <1>3, <1>4 DEF IsInjective
      <3> QED BY <3>2, <1>2
    <2> QED BY <2>1, <1>3 DEF IsInjective
  <1>7. Waiting' = Waiting
    BY <1>1 DEF Waiting
  <1>8. ToSet(ready) \subseteq ToSet(ready') \cup {Head(ready)}
    <2>1. ASSUME NEW w \in ToSet(ready), w # Head(ready) PROVE w \in ToSet(ready')
      <3>1. PICK i \in 1..Len(ready) : ready[i] = w
        BY <1>1, OnList
      <3>2. i # 1
        BY <2>1, <3>1, <1>1
      <3>3. i - 1 \in 1..(Len(ready) - 1) /\ (i - 1) + 1 = i
        BY <3>2, <1>2
      <3>4. ready'[i - 1] = w
        BY <3>1, <3>3, <1>2
      <3> QED BY <3>3, <3>4, <1>3 DEF ToSet
    <2> QED BY <2>1
  <1> QED BY <1>1, <1>2, <1>5, <1>6, <1>7, <1>8 DEF ReadyOK

\* The greater of a number and zero.
LEMMA MaxIs ==
  ASSUME NEW n \in Int
  PROVE  /\ Max({n, 0}) \in Nat /\ Max({n, 0}) \in {n, 0}
         /\ n <= Max({n, 0}) /\ (n <= 0 => Max({n, 0}) = 0)
  <1> DEFINE T == {n, 0}
             P(x) == x \in T /\ \A y \in T : y <= x
             k == IF n > 0 THEN n ELSE 0
             o == CHOOSE x : P(x)
  <1>1. P(k)
    OBVIOUS
  <1>2. P(o)
    BY <1>1
  <1>3. Max({n, 0}) = CHOOSE x \in T : \A y \in T : x >= y
    BY DEF Max
  <1>4. \A y \in T : y <= Max({n, 0})
    <2>1. k \in T /\ \A y \in T : k >= y
      OBVIOUS
    <2>2. Max({n, 0}) \in T /\ \A y \in T : Max({n, 0}) >= y
      BY <2>1, <1>3
    <2> QED BY <2>2
  <1>5. Max({n, 0}) \in T
    <2>1. k \in T /\ \A y \in T : k >= y
      OBVIOUS
    <2> QED BY <2>1, <1>3
  <1> QED BY <1>4, <1>5

\* The sum of sim_stop_timer_services when it comes to unit u: the time of the
\* first unit is in it twice, once as cosched_interval.
Accum(u) ==
    rtc.cosched_interval
    + Ticks(rtc.clock_cosched_queue, rtc.time)[Position(rtc.clock_cosched_queue, u)]

\* The sum is the ticks that a unit still has to wait and the time of the head.
LEMMA AccumIs ==
  ASSUME NEW l, QueueOK(rtc, l), NEW u \in Waiting
  PROVE  /\ Accum(u) \in Int /\ Accum(u) >= l[u]
         /\ Accum(u) = l[u] + rtc.time[rtc.clock_cosched_queue[1]]
         /\ rtc.time[rtc.clock_cosched_queue[1]] \in Int
  <1> DEFINE s == rtc.clock_cosched_queue
             v == rtc.cosched_interval
             t == rtc.time
             o == Synced(rtc, v)
             p == Position(s, u)
             m == Sooner(l, v - t[s[1]])
  <1>1. /\ rtc \in Rtc /\ l \in [Unit -> Int] /\ Chain(s, o, l) /\ v \in 0..MaxTicks
        /\ On(rtc) = ToSet(s) /\ Waiting = ToSet(s)
        /\ On(rtc) # {} => t[s[1]] >= 0
    BY DEF QueueOK, Holds, On, Waiting
  <1>2. /\ s \in Seq(Unit) /\ t \in [Unit -> Int] /\ p \in 1..Len(s) /\ s[p] = u
        /\ u \in Unit /\ Len(s) \in Nat
    BY <1>1, PositionIs, OnList DEF Rtc
  <1>3. s # <<>> /\ 1 \in 1..Len(s) /\ s[1] \in Unit /\ t[s[1]] \in Int /\ v \in Int
    BY <1>1, <1>2, HasFirst, OnList
  <1>4. o \in [Unit -> Int] /\ o = [t EXCEPT ![s[1]] = v]
    BY <1>1, <1>3, SyncedIs
  <1>5. t[s[1]] >= 0
    BY <1>1, <1>2
  <1>6. m \in [Unit -> Int] /\ \A w \in Unit : m[w] = l[w] - (v - t[s[1]])
    <2>1. v - t[s[1]] \in Int
      BY <1>3
    <2> QED BY <2>1, <1>1 DEF Sooner
  <1> HIDE DEF s, v, t, o, p, m
  <1>7. Chain(s, t, m)
    <2>1. o[s[1]] = v
      BY <1>2, <1>3, <1>4
    <2>2. \A w \in Unit : t[w] = [o EXCEPT ![s[1]] = t[s[1]]][w]
      BY <1>2, <1>3, <1>4
    <2>3. t = [o EXCEPT ![s[1]] = t[s[1]]]
      BY <2>2, <1>2, <1>4
    <2>4. Nearer(m, l, s, o[s[1]] - t[s[1]])
      BY <2>1, <1>2, <1>6, OnList DEF Nearer
    <2>5. Chain(s, [o EXCEPT ![s[1]] = t[s[1]]], m)
      BY <2>4, <1>1, <1>2, <1>3, <1>4, ChainNow
    <2> QED BY <2>3, <2>5
  <1>8. Ticks(s, t)[p] = m[u]
    <2>1. p \in 0..Len(s) /\ p # 0
      BY <1>2
    <2> QED BY <2>1, <1>2, <1>6, <1>7, TicksAre
  <1>9. Accum(u) = v + (l[u] - (v - t[s[1]]))
    BY <1>2, <1>6, <1>8 DEF Accum, s, v, t, p
  <1>10. l[u] \in Int
    BY <1>1, <1>2
  <1>11. Accum(u) = l[u] + t[s[1]]
    BY <1>3, <1>9, <1>10
  <1> QED BY <1>3, <1>5, <1>10, <1>11 DEF t, s

\* What sim_stop_timer_services adds to usecs_remaining.
LEMMA StopAdds ==
  ASSUME StopServices, NEW l, QueueOK(rtc, l), ExcessOK
  PROVE  /\ ExcessOK'
         /\ \A u \in Waiting : u \in Unit /\ l[u] <= 1 + usecs_remaining'[u]
  <1>1. /\ sim_is_running' = FALSE
        /\ usecs_remaining' = [u \in Unit |-> usecs_remaining[u] +
                                  IF u \in Waiting THEN Max({Accum(u) - 1, 0}) ELSE 0]
    BY DEF StopServices, Accum
  <1>2. Waiting \subseteq Unit /\ l \in [Unit -> Int]
    BY OnList DEF QueueOK, Rtc, Waiting
  <1>3. usecs_remaining \in [Unit -> Nat]
    BY DEF ExcessOK
  <1>4. ASSUME NEW u \in Waiting
        PROVE  /\ Max({Accum(u) - 1, 0}) \in Nat
               /\ l[u] <= 1 + Max({Accum(u) - 1, 0})
    <2>1. Accum(u) \in Int /\ Accum(u) >= l[u] /\ l[u] \in Int
      BY <1>2, AccumIs
    <2> DEFINE i == Accum(u)
    <2>2. i \in Int /\ i >= l[u] /\ i - 1 \in Int
      BY <2>1
    <2> HIDE DEF i
    <2>3. Max({i - 1, 0}) \in Nat /\ i - 1 <= Max({i - 1, 0})
      BY <2>2, MaxIs
    <2>4. l[u] <= 1 + Max({i - 1, 0})
      BY <2>1, <2>2, <2>3
    <2> QED BY <2>3, <2>4 DEF i
  <1>5. ASSUME NEW u \in Unit
        PROVE  /\ usecs_remaining'[u] \in Nat
               /\ u \in Waiting => l[u] <= 1 + usecs_remaining'[u]
    <2>1. CASE u \in Waiting
      <3>1. usecs_remaining'[u] = usecs_remaining[u] + Max({Accum(u) - 1, 0})
        BY <2>1, <1>1
      <3> QED BY <2>1, <3>1, <1>2, <1>3, <1>4
    <2>2. CASE u \notin Waiting
      <3>1. usecs_remaining'[u] = usecs_remaining[u] + 0
        BY <2>2, <1>1
      <3> QED BY <2>2, <3>1, <1>3
    <2> QED BY <2>1, <2>2
  <1>6. usecs_remaining' \in [Unit -> Nat]
    <2>1. usecs_remaining' = [u \in Unit |-> usecs_remaining'[u]]
      BY <1>1
    <2> QED BY <2>1, <1>5
  <1> QED BY <1>1, <1>2, <1>5, <1>6 DEF ExcessOK

\* sim_stop_timer_services leaves the clock's queue empty.
LEMMA StopKeeps ==
  ASSUME NEW l, Agrees(rtc, due, asked, hurried, l), StopServices
  PROVE  /\ Agrees(rtc', due', asked', hurried', l)
         /\ Moves(Len(rtc.clock_cosched_queue), rtc.clock_cosched_queue)
  <1> DEFINE s == rtc.clock_cosched_queue
             z == [u \in Unit |-> 0]
  <1>1. /\ rtc' = [clock_cosched_queue |-> <<>>, cosched_interval |-> 0, time |-> z]
        /\ ready' = ready \o s /\ due' = z /\ asked' = {} /\ hurried' = {}
    BY DEF StopServices
  <1>2. /\ rtc \in Rtc /\ l \in [Unit -> Int] /\ Chain(s, Synced(rtc, rtc.cosched_interval), l)
    BY DEF Agrees, QueueOK, Holds
  <1>3. s \in Seq(Unit) /\ Len(s) \in Nat /\ Unique(s)
    BY <1>2, OnList DEF Rtc, Unique, Chain
  <1>4. <<>> \in Seq(Unit) /\ ToSet(<<>>) = {} /\ Len(<<>>) = 0
    BY DEF ToSet
  <1>5. z \in [Unit -> Int]
    OBVIOUS
  <1> HIDE DEF s, z
  <1>6. rtc' \in Rtc /\ rtc'.clock_cosched_queue = <<>> /\ rtc'.cosched_interval = 0
    BY <1>1, <1>4, <1>5 DEF Rtc
  <1>7. On(rtc') = {}
    BY <1>4, <1>6 DEF On
  <1>8. Holds(rtc', l)
    BY <1>6, EmptyChain DEF Holds
  <1>9. 0 \in 0..MaxTicks
    BY BoundAssumption
  <1>10. QueueOK(rtc', l)
    BY <1>2, <1>6, <1>7, <1>8, <1>9 DEF QueueOK
  <1>11. HistoryOK(<<>>, due', asked', hurried', l)
    <2>1. \A x, y : ~Before(<<>>, x, y)
      BY <1>4 DEF Before
    <2> QED BY <2>1, <1>1, <1>4, <1>5 DEF HistoryOK
  <1>12. Agrees(rtc', due', asked', hurried', l)
    <2>1. SpareOK(rtc', due', l)
      BY <1>7 DEF SpareOK
    <2> QED BY <2>1, <1>6, <1>10, <1>11 DEF Agrees
  <1>13. Moves(Len(s), s)
    <2>1. Len(s) \in 0..Len(s) /\ ToSet(s) = On(rtc)
      BY <1>3 DEF On, s
    <2>2. IsInjective(s)
      BY <1>3, OnList DEF IsInjective, Unique
    <2> QED BY <2>1, <2>2, <1>1, <1>3, <1>7 DEF Moves, s
  <1> QED BY <1>12, <1>13 DEF s

\* Every step keeps the queues in order.
LEMMA StepKeepsQueues == QueuesOK /\ [Next]_vars => QueuesOK'
  <1> SUFFICES ASSUME QueuesOK, [Next]_vars PROVE QueuesOK'
    OBVIOUS
  <1>1. ReadyOK
    BY DEF QueuesOK
  <1>2. PICK l : Agrees(rtc, due, asked, hurried, l)
    BY DEF QueuesOK
  <1>3. ASSUME NEW u \in Unit, NEW ticks \in 0..MaxTicks, Coschedule(u, ticks)
        PROVE  QueuesOK'
    BY <1>1, <1>2, <1>3, CoscheduleKeeps
  <1>4. ASSUME NEW u \in Unit, NEW ticks \in 0..MaxTicks, CoscheduleAbs(u, ticks)
        PROVE  QueuesOK'
    BY <1>1, <1>2, <1>4, CoscheduleAbsKeeps
  <1>5. ASSUME NEW u \in Unit, Cancel(u) PROVE QueuesOK'
    BY <1>1, <1>2, <1>5, CancelActionKeeps
  <1>6. CASE TickDue
    <2>1. Agrees(rtc', due', asked', hurried', Sooner(l, 1))
      BY <1>2, <1>6, TickDueKeeps
    <2>2. PICK k, a : Moves(k, a)
      BY <1>2, <1>6, TickDueKeeps
    <2>3. ReadyOK'
      BY <1>1, <2>2, MovedReady
    <2> QED BY <2>1, <2>3, Keeps
  <1>7. CASE TickOnly
    <2>1. /\ Agrees(rtc', due', asked', hurried', Sooner(l, 1))
          /\ On(rtc') = On(rtc)
      BY <1>2, <1>7, TickOnlyKeeps
    <2>2. ReadyOK'
      <3>1. ready' = ready
        BY <1>7 DEF TickOnly
      <3>2. Waiting' = Waiting
        BY <2>1 DEF Waiting, On
      <3> QED BY <3>1, <3>2, <1>1 DEF ReadyOK
    <2> QED BY <2>1, <2>2, Keeps
  <1>8. CASE Run
    <2>1. ReadyOK'
      BY <1>1, <1>8, RunKeeps
    <2>2. Agrees(rtc', due', asked', hurried', l)
      BY <1>2, <1>8 DEF Run
    <2> QED BY <2>1, <2>2, Keeps
  <1>9. CASE StopServices
    <2>1. /\ Agrees(rtc', due', asked', hurried', l)
          /\ Moves(Len(rtc.clock_cosched_queue), rtc.clock_cosched_queue)
      BY <1>2, <1>9, StopKeeps
    <2>2. ReadyOK'
      BY <1>1, <2>1, MovedReady
    <2> QED BY <2>1, <2>2, Keeps
  <1>10. CASE StartServices \/ UNCHANGED vars
    <2>1. Waiting' = Waiting /\ ready' = ready
      BY <1>10 DEF vars, Waiting, StartServices
    <2>2. ReadyOK'
      BY <2>1, <1>1 DEF ReadyOK
    <2>3. Agrees(rtc', due', asked', hurried', l)
      BY <1>2, <1>10 DEF vars, StartServices
    <2> QED BY <2>2, <2>3, Keeps
  <1> QED BY <1>3, <1>4, <1>5, <1>6, <1>7, <1>8, <1>9, <1>10 DEF Next, Tick

\* usecs_remaining never gets negative.
LEMMA StepKeepsExcess == IInv /\ [Next]_vars => ExcessOK'
  <1> SUFFICES ASSUME IInv, [Next]_vars PROVE ExcessOK'
    OBVIOUS
  <1>1. ExcessOK /\ \E l : QueueOK(rtc, l)
    BY DEF IInv, QueuesOK, Agrees
  <1>2. CASE StopServices
    BY <1>1, <1>2, StopAdds
  <1>3. CASE /\ \/ usecs_remaining' = usecs_remaining
                \/ \E u : usecs_remaining' = [usecs_remaining EXCEPT ![u] = 0]
             /\ sim_is_running' \in {sim_is_running, TRUE}
    <2>1. sim_is_running' \in BOOLEAN
      BY <1>1, <1>3 DEF ExcessOK
    <2>2. ASSUME NEW u, usecs_remaining' = [usecs_remaining EXCEPT ![u] = 0]
          PROVE  usecs_remaining' \in [Unit -> Nat]
      <3>1. usecs_remaining \in [Unit -> Nat] /\ 0 \in Nat
        BY <1>1 DEF ExcessOK
      <3> QED BY <2>2, <3>1
    <2> QED BY <1>1, <1>3, <2>1, <2>2 DEF ExcessOK
  <1> QED BY <1>2, <1>3
          DEF Next, Tick, vars, Coschedule, CoscheduleAbs, Cancel, TickDue, TickOnly,
              Run, StartServices

\* A unit that leaves the event queue leaves its usecs_remaining behind.
LEMMA StepKeepsIdle == IInv /\ [Next]_vars => IdleOK'
  <1> SUFFICES ASSUME IInv, [Next]_vars PROVE IdleOK'
    OBVIOUS
  <1>1. /\ ReadyOK /\ usecs_remaining \in [Unit -> Nat]
        /\ \A u \in Unit \ ToSet(ready) : usecs_remaining[u] = 0
    BY DEF IInv, QueuesOK, ExcessOK, IdleOK
  <1>2. PICK l : Agrees(rtc, due, asked, hurried, l)
    BY DEF IInv, QueuesOK
  <1>3. CASE UNCHANGED usecs_remaining /\ ToSet(ready) \subseteq ToSet(ready')
    BY <1>1, <1>3 DEF IdleOK
  <1>4. ASSUME NEW u, usecs_remaining' = [usecs_remaining EXCEPT ![u] = 0],
               ToSet(ready) \subseteq ToSet(ready') \cup {u}
        PROVE  IdleOK'
    <2>1. ASSUME NEW w \in Unit \ ToSet(ready') PROVE usecs_remaining'[w] = 0
      <3>1. CASE w = u
        BY <3>1, <1>1, <1>4
      <3>2. CASE w # u
        BY <3>2, <2>1, <1>1, <1>4
      <3> QED BY <3>1, <3>2
    <2> QED BY <2>1 DEF IdleOK
  <1>5. ASSUME NEW u \in Unit, NEW ticks \in 0..MaxTicks,
               Cancel(u) \/ CoscheduleAbs(u, ticks)
        PROVE  IdleOK'
    <2>1. /\ usecs_remaining' = [usecs_remaining EXCEPT ![u] = 0]
          /\ ready' = Unlinked(ready, u)
      BY <1>5 DEF Cancel, CoscheduleAbs
    <2>2. ToSet(ready') = ToSet(ready) \ {u}
      BY <2>1, <1>1, UnlinkedIs DEF ReadyOK
    <2> QED BY <2>1, <2>2, <1>4
  <1>6. CASE TickDue
    <2>1. PICK k, a : Moves(k, a)
      BY <1>2, <1>6, TickDueKeeps
    <2>2. ToSet(ready') = ToSet(ready) \cup ToSet(a)
      BY <2>1, <1>1, MovedReady
    <2>3. usecs_remaining' = usecs_remaining
      BY <1>6 DEF TickDue
    <2> QED BY <2>2, <2>3, <1>3
  <1>7. CASE Run
    <2>1. usecs_remaining' = [usecs_remaining EXCEPT ![Head(ready)] = 0]
      BY <1>7 DEF Run
    <2>2. ToSet(ready) \subseteq ToSet(ready') \cup {Head(ready)}
      BY <1>1, <1>7, RunKeeps
    <2> QED BY <2>1, <2>2, <1>4
  <1>8. CASE StopServices
    <2>1. Moves(Len(rtc.clock_cosched_queue), rtc.clock_cosched_queue)
      BY <1>2, <1>8, StopKeeps
    <2>2. ToSet(ready') = ToSet(ready) \cup Waiting
      BY <2>1, <1>1, MovedReady DEF Waiting
    <2>3. usecs_remaining' = [u \in Unit |-> usecs_remaining[u] +
                                IF u \in Waiting THEN Max({Accum(u) - 1, 0}) ELSE 0]
      BY <1>8 DEF StopServices, Accum
    <2>4. ASSUME NEW u \in Unit \ ToSet(ready') PROVE usecs_remaining'[u] = 0
      <3>1. u \notin Waiting /\ usecs_remaining[u] = 0
        BY <2>2, <1>1
      <3>2. usecs_remaining'[u] = usecs_remaining[u] + 0
        BY <3>1, <2>3
      <3> QED BY <3>1, <3>2
    <2> QED BY <2>4 DEF IdleOK
  <1>9. CASE ready' = ready /\ usecs_remaining' = usecs_remaining
    BY <1>3, <1>9
  <1>10. ASSUME NEW u \in Unit, NEW ticks \in 0..MaxTicks, Coschedule(u, ticks)
         PROVE  IdleOK'
    BY <1>9, <1>10 DEF Coschedule
  <1>11. CASE TickOnly
    BY <1>9, <1>11 DEF TickOnly
  <1>12. CASE StartServices \/ UNCHANGED vars
    BY <1>9, <1>12 DEF StartServices, vars
  <1>13. 0 \in 0..MaxTicks
    BY BoundAssumption
  <1> QED BY <1>5, <1>6, <1>7, <1>8, <1>10, <1>11, <1>12, <1>13 DEF Next, Tick

\* Every step keeps the invariant.
LEMMA StepKeeps == IInv /\ [Next]_vars => IInv'
  BY StepKeepsQueues, StepKeepsExcess, StepKeepsIdle DEF IInv

\* The invariant holds of every behaviour.
THEOREM Invariance == Spec => []IInv
  BY InitKeeps, StepKeeps, PTL DEF Spec
-----------------------------------------------------------------------------
(* Theorems *)

\* What the invariant says of types and of cosched_interval.
LEMMA IInvTypes == IInv => TypeOK
  <1> SUFFICES ASSUME IInv PROVE TypeOK
    OBVIOUS
  <1>1. PICK l : Agrees(rtc, due, asked, hurried, l)
    BY DEF IInv, QueuesOK
  <1> DEFINE s == rtc.clock_cosched_queue
  <1>2. /\ rtc \in Rtc /\ rtc.cosched_interval \in 0..MaxTicks /\ Unique(s)
    BY <1>1 DEF Agrees, QueueOK, Holds, Chain, Unique
  <1>3. s \in Seq(Unit)
    BY <1>2 DEF Rtc
  <1>4. IsInjective(s)
    <2> HIDE DEF s
    <2> QED BY <1>2, <1>3, OnList DEF IsInjective, Unique, s
  <1>5. rtc \in [clock_cosched_queue : Seq(Unit), time : [Unit -> Int],
                 cosched_interval : 0..MaxTicks]
    BY <1>2 DEF Rtc
  <1>6. /\ due \in [Unit -> Int] /\ asked \subseteq Waiting \X Waiting
        /\ hurried \subseteq Waiting
    BY <1>1 DEF Agrees, HistoryOK, Waiting
  <1>7. ReadyOK /\ ExcessOK
    BY DEF IInv, QueuesOK
  <1> QED BY <1>4, <1>5, <1>6, <1>7 DEF TypeOK, ReadyOK, ExcessOK

\* No unit is on a list twice or on both, and cosched_interval stays within the
\* ticks asked for, whatever is added and cancelled and however often runs end.
THEOREM TypeCorrect == Spec => []TypeOK
  BY Invariance, IInvTypes, PTL

\* After a tick no unit that waits is due any more.
LEMMA TickNotLate ==
  ASSUME IInv, Tick
  PROVE  \A u \in Waiting' : due'[u] > 0
  <1>1. PICK l : Agrees(rtc, due, asked, hurried, l)
    BY DEF IInv, QueuesOK
  <1> DEFINE m == Sooner(l, 1)
  <1>2. /\ Agrees(rtc', due', asked', hurried', m)
        /\ On(rtc') # {} => rtc'.cosched_interval > 0
    <2>1. CASE TickDue
      BY <2>1, <1>1, TickDueKeeps
    <2>2. CASE TickOnly
      BY <2>2, <1>1, TickOnlyKeeps
    <2> QED BY <2>1, <2>2 DEF Tick
  <1> HIDE DEF m
  <1>3. PICK r : r = rtc'
    OBVIOUS
  <1>4. /\ r \in Rtc /\ m \in [Unit -> Int] /\ Holds(r, m) /\ On(r) = Waiting'
        /\ r.cosched_interval \in Int
    BY <1>2, <1>3 DEF Agrees, QueueOK, Rtc, On, Waiting
  <1>5. ASSUME NEW u \in Waiting' PROVE due'[u] > 0
    <2>1. m[u] <= due'[u] /\ due'[u] \in Int /\ m[u] \in Int
      <3>1. /\ due' \in [Unit -> Int]
            /\ \A w \in Waiting' : m[w] <= due'[w]
        BY <1>2, <1>3 DEF Agrees, HistoryOK, Waiting
      <3>2. u \in Unit
        BY <1>4, OnList DEF Rtc, On
      <3> QED BY <3>1, <3>2, <1>4
    <2>2. m[u] >= r.cosched_interval
      <3>1. r.clock_cosched_queue # <<>>
        BY <1>4 DEF On, ToSet
      <3> QED BY <3>1, <1>4, FirstIs
    <2>3. r.cosched_interval > 0
      BY <1>2, <1>3, <1>4
    <2> QED BY <2>1, <2>2, <2>3, <1>4
  <1> QED BY <1>5

\* No unit waits on the clock's queue past the tick it asked for, whatever was
\* added and cancelled around it, even where a cancelled first unit left it on
\* other ticks. A unit that the stop of the services moved is no longer there.
THEOREM UnitsNeverLate == Spec => NeverLate
  <1>1. IInv => [Tick => \A u \in Waiting' : due'[u] > 0]_vars
    BY TickNotLate
  <1> QED BY <1>1, Invariance, PTL DEF NeverLate

\* What a unit is given to wait when the services stop.
LEMMA StopNotLater ==
  ASSUME IInv, StopServices, NEW u \in Waiting
  PROVE  usecs_remaining'[u]
            <= Max({due[u] - 1 + due[Head(rtc.clock_cosched_queue)], 0})
  <1> DEFINE s == rtc.clock_cosched_queue
             v == rtc.cosched_interval
             x == rtc.time[s[1]]
  <1>1. PICK l : Agrees(rtc, due, asked, hurried, l)
    BY DEF IInv, QueuesOK
  <1>2. QueueOK(rtc, l) /\ HistoryOK(s, due, asked, hurried, l) /\ SpareOK(rtc, due, l)
    BY <1>1 DEF Agrees
  <1>3. /\ s \in Seq(Unit) /\ l \in [Unit -> Int] /\ due \in [Unit -> Int] /\ v \in Nat
        /\ Waiting = ToSet(s) /\ Waiting = On(rtc) /\ rtc \in Rtc /\ Holds(rtc, l)
    BY <1>2, BoundAssumption DEF QueueOK, HistoryOK, Rtc, Waiting, On
  <1>4. s # <<>> /\ u \in Unit
    BY <1>3, OnList DEF ToSet
  <1>5. Head(s) = s[1] /\ s[1] \in Unit /\ s[1] \in Waiting
    BY <1>3, <1>4, HeadIs
  <1>6. Accum(u) \in Int /\ Accum(u) = l[u] + x /\ x \in Int
    BY <1>2, AccumIs
  <1>7. usecs_remaining'[u] = usecs_remaining[u] + Max({Accum(u) - 1, 0})
    BY <1>4 DEF StopServices, Accum
  <1>8. usecs_remaining[u] = 0
    <2>1. u \notin ToSet(ready)
      BY DEF IInv, QueuesOK, ReadyOK
    <2> QED BY <2>1, <1>4 DEF IInv, IdleOK
  <1>9. l[u] + (x - v) <= due[u]
    BY <1>2, <1>3 DEF SpareOK
  <1>10. v <= due[s[1]]
    <2>1. l[s[1]] <= due[s[1]]
      BY <1>2, <1>3, <1>5 DEF HistoryOK
    <2>2. l[s[1]] >= v
      <3>1. s[1] \in On(rtc)
        BY <1>3, <1>5
      <3> QED BY <3>1, <1>3, <1>4, FirstIs
    <2> QED BY <2>1, <2>2, <1>3, <1>5
  <1>a. PICK k \in Int : k = Accum(u)
    BY <1>6
  <1>11. PICK i \in Int : i = k - 1
    OBVIOUS
  <1>12. PICK j \in Int : j = due[u] - 1 + due[s[1]]
    <2>1. due[u] \in Int /\ due[s[1]] \in Int
      BY <1>3, <1>4, <1>5
    <2>2. \A y, z \in Int : y - 1 + z \in Int
      OBVIOUS
    <2> QED BY <2>1, <2>2
  <1> HIDE DEF s, v, x
  <1>13. i <= j
    <2>1. due[u] \in Int /\ due[s[1]] \in Int /\ l[u] \in Int
      BY <1>3, <1>4, <1>5
    <2>2. \A y, z, g, f, h \in Int :
             y + (z - h) <= g /\ h <= f => y + z - 1 <= g - 1 + f
      OBVIOUS
    <2>3. l[u] + x - 1 <= due[u] - 1 + due[s[1]]
      BY <2>1, <2>2, <1>3, <1>6, <1>9, <1>10
    <2>4. i = l[u] + x - 1
      <3>1. k = l[u] + x
        BY <1>6, <1>a
      <3> QED BY <3>1, <2>1, <1>6, <1>11
    <2>5. j = due[u] - 1 + due[s[1]]
      BY <1>12
    <2> QED BY <2>3, <2>4, <2>5
  <1>14. Max({i, 0}) <= Max({j, 0})
    <2>1. /\ Max({i, 0}) \in {i, 0} /\ Max({j, 0}) \in Nat
          /\ j <= Max({j, 0})
      BY MaxIs
    <2> QED BY <2>1, <1>13
  <1>15. Max({i, 0}) \in Nat
    BY MaxIs
  <1> QED BY <1>5, <1>7, <1>8, <1>a, <1>11, <1>12, <1>14, <1>15 DEF s

\* The end of a run makes a unit late by no more than what the first unit of the
\* queue still had to wait, whatever was asked and cancelled before: the sums that
\* sim_stop_timer_services takes over the queue count nothing else twice.
THEOREM UnitsLateByFirst == Spec => LateByFirst
  <1>1. IInv => [StopServices =>
                   \A u \in Waiting :
                      usecs_remaining'[u]
                         <= Max({due[u] - 1 + due[Head(rtc.clock_cosched_queue)], 0})]_vars
    BY StopNotLater
  <1> QED BY <1>1, Invariance, PTL DEF LateByFirst

\* Who newly comes to the event queue: only a tick and the stop of the services
\* move units there.
LEMMA NewlyReady ==
  ASSUME IInv, Next
  PROVE  TickDue \/ StopServices \/ ToSet(ready') \cap Waiting = {}
  <1>1. ReadyOK
    BY DEF IInv, QueuesOK
  <1>2. ready \in Seq(Unit) /\ IsInjective(ready) /\ ToSet(ready) \cap Waiting = {}
    BY <1>1 DEF ReadyOK
  <1>3. CASE ready' = ready
    BY <1>2, <1>3
  <1>4. ASSUME NEW u \in Unit, ready' = Unlinked(ready, u)
        PROVE  ToSet(ready') \cap Waiting = {}
    BY <1>2, <1>4, UnlinkedIs
  <1>5. CASE Run
    BY <1>1, <1>2, <1>5, RunKeeps
  <1> QED BY <1>3, <1>4, <1>5
          DEF Next, Tick, Coschedule, CoscheduleAbs, Cancel, TickOnly, StartServices

\* A unit that moves and was on the clock's queue is among those moved.
LEMMA AmongMoved ==
  ASSUME ReadyOK, NEW k, NEW a, Moves(k, a), NEW u \in Waiting, u \in ToSet(ready')
  PROVE  u \in ToSet(a)
  <1>1. /\ ready \in Seq(Unit) /\ IsInjective(ready) /\ ToSet(ready) \cap Waiting = {}
        /\ a \in Seq(Unit) /\ IsInjective(a) /\ ToSet(a) \subseteq Waiting
        /\ ready' = ready \o a
    BY DEF ReadyOK, Moves, On, Waiting
  <1>2. ToSet(ready \o a) = ToSet(ready) \cup ToSet(a)
    BY <1>1, ConcatIs
  <1> QED BY <1>1, <1>2

\* No unit moves before the tick it asked for, but for what usecs_remaining adds.
LEMMA StepNotEarly ==
  ASSUME IInv, Next
  PROVE  \A u \in Waiting \ hurried :
            u \in ToSet(ready') => due[u] <= 1 + usecs_remaining'[u]
  <1>1. PICK l : Agrees(rtc, due, asked, hurried, l)
    BY DEF IInv, QueuesOK
  <1>2. ReadyOK /\ ExcessOK /\ QueueOK(rtc, l) /\ l \in [Unit -> Int]
    BY <1>1 DEF IInv, QueuesOK, Agrees, QueueOK
  <1>3. \A u \in Waiting \ hurried : u \in Unit /\ l[u] = due[u]
    BY <1>1, OnList DEF Agrees, QueueOK, Rtc, HistoryOK, Waiting
  <1>4. CASE ToSet(ready') \cap Waiting = {}
    BY <1>4
  <1>5. CASE StopServices
    BY <1>2, <1>3, <1>5, StopAdds
  <1>6. ASSUME TickDue, NEW u \in Waiting \ hurried, u \in ToSet(ready')
        PROVE  due[u] <= 1 + usecs_remaining'[u]
    <2>1. PICK k, a : Moves(k, a) /\ \A i \in 1..k : l[a[i]] <= 1
      BY <1>1, <1>6, TickDueKeeps
    <2>2. u \in ToSet(a)
      BY <2>1, <1>2, <1>6, AmongMoved
    <2>3. a \in Seq(Unit) /\ Len(a) = k
      BY <2>1 DEF Moves
    <2>4. l[u] <= 1
      BY <2>1, <2>2, <2>3, OnList
    <2>5. usecs_remaining'[u] \in Nat
      BY <1>2, <1>3, <1>6 DEF TickDue, ExcessOK
    <2> QED BY <2>4, <2>5, <1>2, <1>3
  <1> QED BY <1>4, <1>5, <1>6, NewlyReady

\* A unit that asked for n ticks does not run before n of them, unless the
\* cancelling of a first unit in front of it moved it: when the services stop the
\* ticks that are left are in usecs_remaining, all but the coming one.
THEOREM UnitsNeverEarly == Spec => NeverEarly
  <1>1. IInv /\ [Next]_vars
        => [\A u \in Waiting \ hurried :
               u \in ToSet(ready') => due[u] <= 1 + usecs_remaining'[u]]_vars
    BY StepNotEarly
  <1> QED BY <1>1, Invariance, PTL DEF NeverEarly, Spec

\* Units move by tick, and on one tick in the order they asked.
LEMMA StepInOrder ==
  ASSUME IInv, Next
  PROVE  \A i, j \in DOMAIN ready' :
            /\ {ready'[i], ready'[j]} \subseteq Waiting \ hurried
            /\ i < j
            => \/ due[ready'[i]] < due[ready'[j]]
               \/ /\ due[ready'[i]] = due[ready'[j]]
                  /\ <<ready'[i], ready'[j]>> \in asked
  <1>1. PICK l : Agrees(rtc, due, asked, hurried, l)
    BY DEF IInv, QueuesOK
  <1>2. ASSUME NEW i \in DOMAIN ready', NEW j \in DOMAIN ready',
               {ready'[i], ready'[j]} \subseteq Waiting \ hurried,
               i < j
        PROVE  \/ due[ready'[i]] < due[ready'[j]]
               \/ /\ due[ready'[i]] = due[ready'[j]]
                  /\ <<ready'[i], ready'[j]>> \in asked
    <2> DEFINE s == rtc.clock_cosched_queue
    <2>1. CASE ToSet(ready') \cap Waiting = {}
      <3>1. ready'[i] \in ToSet(ready')
        BY DEF ToSet
      <3> QED BY <2>1, <3>1, <1>2
    <2>2. ASSUME NEW k, NEW a, Moves(k, a)
          PROVE  \/ due[ready'[i]] < due[ready'[j]]
                 \/ /\ due[ready'[i]] = due[ready'[j]]
                    /\ <<ready'[i], ready'[j]>> \in asked
      <3>1. /\ Len(ready) \in Nat /\ k \in Nat
            /\ i \in 1..(Len(ready) + k) /\ j \in 1..(Len(ready) + k)
            /\ i <= Len(ready) => ready'[i] \in ToSet(ready)
            /\ i > Len(ready) => /\ i - Len(ready) \in 1..k
                                 /\ ready'[i] = a[i - Len(ready)]
            /\ j > Len(ready) => /\ j - Len(ready) \in 1..k
                                 /\ ready'[j] = a[j - Len(ready)]
        BY <2>2, MovedReady DEF IInv, QueuesOK
      <3>2. ToSet(ready) \cap Waiting = {} /\ ready'[i] \in Waiting
        BY <1>2 DEF IInv, QueuesOK, ReadyOK
      <3>3. i > Len(ready) /\ j > Len(ready)
        BY <3>1, <3>2, <1>2
      <3> DEFINE x == i - Len(ready)
                 y == j - Len(ready)
                 v == ready'[i]
                 w == ready'[j]
      <3>4. x \in 1..k /\ y \in 1..k /\ x < y /\ v = a[x] /\ w = a[y]
        BY <3>1, <3>3, <1>2
      <3>5. v \in Waiting \ hurried /\ w \in Waiting \ hurried
        BY <1>2
      <3> HIDE DEF x, y, v, w
      <3>6. /\ k \in 0..Len(s) /\ \A n \in 1..k : a[n] = s[n]
        BY <2>2 DEF Moves
      <3>7. /\ s \in Seq(Unit) /\ l \in [Unit -> Int] /\ due \in [Unit -> Int]
            /\ \A n, o \in 1..Len(s) : n < o => l[s[n]] <= l[s[o]]
            /\ \A u \in Waiting : u \notin hurried => l[u] = due[u]
            /\ \A t, u \in Unit \ hurried :
                  Before(s, t, u) /\ l[t] = l[u] => <<t, u>> \in asked
        BY <1>1 DEF Agrees, QueueOK, HistoryOK, Holds, Chain, Rtc, Waiting
      <3>8. x \in 1..Len(s) /\ y \in 1..Len(s) /\ v = s[x] /\ w = s[y]
        <4>1. x \in 1..Len(s) /\ y \in 1..Len(s)
          BY <3>4, <3>6, <3>7, OnList
        <4> QED BY <4>1, <3>4, <3>6
      <3>9. l[v] <= l[w] /\ Before(s, v, w)
        BY <3>4, <3>7, <3>8 DEF Before
      <3>10. v \in Unit /\ w \in Unit
        BY <3>7, <3>8, OnList
      <3>11. l[v] = due[v] /\ l[w] = due[w] /\ due[v] \in Int /\ due[w] \in Int
        BY <3>5, <3>7, <3>10
      <3>12. l[v] = l[w] => <<v, w>> \in asked
        BY <3>5, <3>7, <3>9, <3>10
      <3>13. due[v] < due[w] \/ (due[v] = due[w] /\ <<v, w>> \in asked)
        BY <3>9, <3>11, <3>12
      <3> QED BY <3>13 DEF v, w
    <2>3. TickDue \/ StopServices => \E k, a : Moves(k, a)
      BY <1>1, TickDueKeeps, StopKeeps
    <2> QED BY <2>1, <2>2, <2>3, NewlyReady
  <1> QED BY <1>2

\* Units go to the event queue in the order of the ticks they asked for, and
\* those for one tick in the order of their requests, by a tick or at the stop.
THEOREM UnitsInOrder == Spec => InOrder
  <1>1. IInv /\ [Next]_vars
        => [\A i, j \in DOMAIN ready' :
               /\ {ready'[i], ready'[j]} \subseteq Waiting \ hurried
               /\ i < j
               => \/ due[ready'[i]] < due[ready'[j]]
                  \/ /\ due[ready'[i]] = due[ready'[j]]
                     /\ <<ready'[i], ready'[j]>> \in asked]_vars
    BY StepInOrder
  <1> QED BY <1>1, Invariance, PTL DEF InOrder, Spec
=============================================================================
