------------------------------ MODULE DeltaList -------------------------------
(***************************************************************************)
(* Lists on which a unit's time is relative to the unit in front of it:    *)
(* what insertion, removal and a new time of the head do to the due times  *)
(* that the relative times add up to. The clock queue of scp.c and the     *)
(* coschedule queues of sim_timer.c are such lists.                        *)
(***************************************************************************)
EXTENDS Integers, Sequences, SequencesExt, SequenceTheorems, FiniteSetTheorems,
        TLAPS

\* The list s with the times t is in order: no unit is on it twice, the times
\* add up to the due times l, and these do not decrease along it.
Chain(s, t, l) ==
    /\ \A i, j \in 1..Len(s) : s[i] = s[j] => i = j
    /\ \A i \in 1..Len(s) : l[s[i]] = t[s[i]] + IF i = 1 THEN 0 ELSE l[s[i - 1]]
    /\ \A i, j \in 1..Len(s) : i < j => l[s[i]] <= l[s[j]]

-----------------------------------------------------------------------------
(* Sequences *)

\* The part of a list in front of a position, and the part from it on.
LEMMA InFrontOf ==
  ASSUME NEW S, NEW s \in Seq(S), NEW p \in 1..(Len(s) + 1)
  PROVE  /\ SubSeq(s, 1, p - 1) \in Seq(S) /\ Len(SubSeq(s, 1, p - 1)) = p - 1
         /\ \A i \in 1..(p - 1) : SubSeq(s, 1, p - 1)[i] = s[i]
  OBVIOUS

\* The elements from a position on.
LEMMA FromOn ==
  ASSUME NEW S, NEW s \in Seq(S), NEW p \in 1..(Len(s) + 1)
  PROVE  /\ SubSeq(s, p, Len(s)) \in Seq(S)
         /\ Len(SubSeq(s, p, Len(s))) = Len(s) - p + 1
         /\ \A i \in 1..(Len(s) - p + 1) :
               SubSeq(s, p, Len(s))[i] = s[p + i - 1]
  OBVIOUS

\* What sim_activate does to the list: an element goes in at a position.
LEMMA InsertedAt ==
  ASSUME NEW S, NEW s \in Seq(S), NEW p \in 1..(Len(s) + 1), NEW e \in S
  PROVE  /\ InsertAt(s, p, e) \in Seq(S)
         /\ Len(InsertAt(s, p, e)) = Len(s) + 1
         /\ \A i \in 1..(Len(s) + 1) :
               InsertAt(s, p, e)[i] = IF i < p THEN s[i]
                                      ELSE IF i = p THEN e ELSE s[i - 1]
  <1> DEFINE a == SubSeq(s, 1, p - 1)
             c == a \o <<e>>
             b == SubSeq(s, p, Len(s))
  <1>1. /\ a \in Seq(S) /\ Len(a) = p - 1
        /\ \A i \in 1..(p - 1) : a[i] = s[i]
    BY InFrontOf
  <1>2. /\ b \in Seq(S) /\ Len(b) = Len(s) - p + 1
        /\ \A i \in 1..(Len(s) - p + 1) : b[i] = s[p + i - 1]
    BY FromOn
  <1> HIDE DEF a, b
  <1>3. /\ c \in Seq(S) /\ Len(c) = p
        /\ \A i \in 1..p : c[i] = IF i <= Len(a) THEN a[i] ELSE e
    <2>1. <<e>> \in Seq(S) /\ Len(<<e>>) = 1 /\ <<e>>[1] = e
      OBVIOUS
    <2> QED BY <1>1, <2>1, ConcatProperties
  <1> HIDE DEF c
  <1>4. /\ c \o b \in Seq(S) /\ Len(c \o b) = Len(c) + Len(b)
        /\ \A i \in 1..(Len(c) + Len(b)) :
              (c \o b)[i] = IF i <= Len(c) THEN c[i] ELSE b[i - Len(c)]
    BY <1>2, <1>3, ConcatProperties
  <1>5. Len(c) + Len(b) = Len(s) + 1
    BY <1>2, <1>3
  <1>6. ASSUME NEW i \in 1..(Len(s) + 1)
        PROVE  (c \o b)[i] = IF i < p THEN s[i] ELSE IF i = p THEN e ELSE s[i - 1]
    <2>1. CASE i <= p
      BY <2>1, <1>1, <1>3, <1>4, <1>5
    <2>2. CASE i > p
      <3>1. (c \o b)[i] = b[i - p]
        BY <2>2, <1>3, <1>4, <1>5
      <3>2. b[i - p] = s[p + (i - p) - 1]
        BY <2>2, <1>2
      <3> QED BY <2>2, <3>1, <3>2
    <2>3. i <= p \/ i > p
      OBVIOUS
    <2> QED BY <2>1, <2>2, <2>3
  <1>7. InsertAt(s, p, e) = c \o b
    BY DEF InsertAt, a, b, c
  <1> QED BY <1>4, <1>5, <1>6, <1>7

\* What sim_cancel does to the list: the element at a position goes.
LEMMA RemovedAt ==
  ASSUME NEW S, NEW s \in Seq(S), NEW p \in 1..Len(s)
  PROVE  /\ RemoveAt(s, p) \in Seq(S)
         /\ Len(RemoveAt(s, p)) = Len(s) - 1
         /\ \A i \in 1..(Len(s) - 1) :
               RemoveAt(s, p)[i] = IF i < p THEN s[i] ELSE s[i + 1]
  <1> DEFINE a == SubSeq(s, 1, p - 1)
             b == SubSeq(s, p + 1, Len(s))
  <1>1. /\ a \in Seq(S) /\ Len(a) = p - 1
        /\ \A i \in 1..(p - 1) : a[i] = s[i]
    BY InFrontOf
  <1>2. /\ b \in Seq(S) /\ Len(b) = Len(s) - p
        /\ \A i \in 1..(Len(s) - p) : b[i] = s[p + i]
    OBVIOUS
  <1> HIDE DEF a, b
  <1>3. /\ a \o b \in Seq(S) /\ Len(a \o b) = Len(a) + Len(b)
        /\ \A i \in 1..(Len(a) + Len(b)) :
              (a \o b)[i] = IF i <= Len(a) THEN a[i] ELSE b[i - Len(a)]
    BY <1>1, <1>2, ConcatProperties
  <1>4. Len(a) + Len(b) = Len(s) - 1
    BY <1>1, <1>2
  <1>5. ASSUME NEW i \in 1..(Len(s) - 1)
        PROVE  (a \o b)[i] = IF i < p THEN s[i] ELSE s[i + 1]
    <2>1. CASE i < p
      BY <2>1, <1>1, <1>3, <1>4
    <2>2. CASE i >= p
      <3>1. (a \o b)[i] = b[i - (p - 1)]
        BY <2>2, <1>1, <1>3, <1>4
      <3>2. b[i - (p - 1)] = s[p + (i - (p - 1))]
        BY <2>2, <1>2
      <3> QED BY <2>2, <3>1, <3>2
    <2>3. i < p \/ i >= p
      OBVIOUS
    <2> QED BY <2>1, <2>2, <2>3
  <1>6. RemoveAt(s, p) = a \o b
    BY DEF RemoveAt, a, b
  <1> QED BY <1>3, <1>4, <1>5, <1>6

-----------------------------------------------------------------------------
(* The list: what each way to change it does to the order and to the times *)

\* r is the list s without its element at p; with e put in at p.
Without(r, s, p) ==
    /\ Len(r) = Len(s) - 1
    /\ \A i \in 1..(Len(s) - 1) : r[i] = IF i < p THEN s[i] ELSE s[i + 1]

With(r, s, p, e) ==
    /\ Len(r) = Len(s) + 1
    /\ \A i \in 1..(Len(s) + 1) :
          r[i] = IF i < p THEN s[i] ELSE IF i = p THEN e ELSE s[i - 1]

\* The due times l come nearer by d on the list s.
Nearer(m, l, s, d) == \A i \in 1..Len(s) : m[s[i]] = l[s[i]] - d

\* Except for e, the due times stay; the times do, but for the unit at p,
\* which gains d.
SameBut(m, l, S, e) == \A w \in S \ {e} : m[w] = l[w]
GainsAt(x, t, S, e, s, p, d) ==
    \A w \in S \ {e} :
        x[w] = IF p \in 1..Len(s) /\ w = s[p] THEN t[w] + d ELSE t[w]

\* The elements of a list, and their times.
LEMMA Members ==
  ASSUME NEW S, NEW s \in Seq(S), NEW t \in [S -> Int]
  PROVE  /\ Len(s) \in Nat
         /\ \A i \in 1..Len(s) : s[i] \in S /\ t[s[i]] \in Int
  OBVIOUS

\* UPDATE_SIM_TIME: the head's time becomes v, and every due time comes nearer by
\* what the head's time lost.
LEMMA ChainNow ==
  ASSUME NEW S, NEW s, NEW t, NEW l, NEW v \in Int, NEW m
  PROVE  /\ s \in Seq(S) /\ t \in [S -> Int] /\ l \in [S -> Int]
         /\ Chain(s, t, l) /\ s # <<>> /\ Nearer(m, l, s, t[s[1]] - v)
         => Chain(s, [t EXCEPT ![s[1]] = v], m)
  <1> DEFINE x == [t EXCEPT ![s[1]] = v]
  <1>1. SUFFICES ASSUME s \in Seq(S), t \in [S -> Int], l \in [S -> Int],
                        Chain(s, t, l), s # <<>>, Nearer(m, l, s, t[s[1]] - v)
                 PROVE  Chain(s, x, m)
    OBVIOUS
  <1>2. Len(s) \in Nat /\ Len(s) >= 1 /\ \A i \in 1..Len(s) : s[i] \in S
    BY <1>1
  <1>3. \A i \in 1..Len(s) : t[s[i]] \in Int /\ l[s[i]] \in Int
    BY <1>1, Members
  <1>4. \A i, j \in 1..Len(s) : s[i] = s[j] => i = j
    BY <1>1 DEF Chain
  <1>5. x[s[1]] = v /\ \A i \in 2..Len(s) : x[s[i]] = t[s[i]]
    BY <1>1, <1>2, <1>4
  <1> HIDE DEF x
  <1>6. ASSUME NEW i \in 1..Len(s) PROVE m[s[i]] = l[s[i]] - (t[s[1]] - v)
    BY <1>1 DEF Nearer
  <1>7. ASSUME NEW i \in 1..Len(s)
        PROVE  m[s[i]] = x[s[i]] + IF i = 1 THEN 0 ELSE m[s[i - 1]]
    <2>1. l[s[i]] = t[s[i]] + IF i = 1 THEN 0 ELSE l[s[i - 1]]
      BY <1>1 DEF Chain
    <2>2. CASE i = 1
      BY <2>1, <2>2, <1>2, <1>3, <1>5, <1>6
    <2>3. CASE i # 1
      <3>1. i \in 2..Len(s) /\ i - 1 \in 1..Len(s) /\ 1 \in 1..Len(s)
        BY <2>3, <1>2
      <3>2. x[s[i]] = t[s[i]]
        BY <3>1, <1>5
      <3>3. /\ m[s[i]] = l[s[i]] - (t[s[1]] - v)
            /\ m[s[i - 1]] = l[s[i - 1]] - (t[s[1]] - v)
        BY <3>1, <1>6
      <3>4. t[s[1]] \in Int /\ t[s[i]] \in Int /\ l[s[i - 1]] \in Int
        BY <3>1, <1>3
      <3> QED BY <2>1, <2>3, <3>2, <3>3, <3>4
    <2> QED BY <2>2, <2>3
  <1>8. ASSUME NEW i \in 1..Len(s), NEW j \in 1..Len(s), i < j
        PROVE  m[s[i]] <= m[s[j]]
    <2>1. l[s[i]] <= l[s[j]]
      BY <1>1, <1>8 DEF Chain
    <2>2. t[s[1]] \in Int /\ l[s[i]] \in Int /\ l[s[j]] \in Int
      BY <1>2, <1>3
    <2>3. /\ m[s[i]] = l[s[i]] - (t[s[1]] - v)
          /\ m[s[j]] = l[s[j]] - (t[s[1]] - v)
      BY <1>6
    <2> QED BY <2>1, <2>2, <2>3
  <1> QED BY <1>4, <1>7, <1>8 DEF Chain

\* A unit leaves the list, from the middle or from the head: the unit behind it
\* takes over its time.
LEMMA ChainRemove ==
  ASSUME NEW S, NEW s, NEW t, NEW l, NEW p, NEW x, NEW m, NEW r
  PROVE  /\ s \in Seq(S) /\ t \in [S -> Int] /\ l \in [S -> Int] /\ p \in 1..Len(s)
         /\ Chain(s, t, l) /\ Without(r, s, p) /\ SameBut(m, l, S, s[p])
         /\ GainsAt(x, t, S, s[p], s, p + 1, t[s[p]])
         => Chain(r, x, m) /\ \A i \in 1..Len(r) : r[i] # s[p]
  <1>1. SUFFICES ASSUME s \in Seq(S), t \in [S -> Int], l \in [S -> Int],
                        p \in 1..Len(s),
                        Chain(s, t, l), Without(r, s, p), SameBut(m, l, S, s[p]),
                        GainsAt(x, t, S, s[p], s, p + 1, t[s[p]])
                 PROVE  Chain(r, x, m) /\ \A i \in 1..Len(r) : r[i] # s[p]
    OBVIOUS
  <1>w. Without(r, s, p)
    BY <1>1
  <1>2. Len(s) \in Nat /\ p \in 1..Len(s) /\ Len(r) = Len(s) - 1
    <2>1. Len(s) \in Nat /\ p \in 1..Len(s)
      BY <1>1, Members
    <2> QED BY <1>w, <2>1 DEF Without
  <1>3. \A i \in 1..Len(s) : s[i] \in S /\ t[s[i]] \in Int /\ l[s[i]] \in Int
    BY <1>1, Members
  <1>4. \A i, j \in 1..Len(s) : s[i] = s[j] => i = j
    BY <1>1 DEF Chain
  <1> DEFINE old(i) == IF i < p THEN i ELSE i + 1
  <1>5. ASSUME NEW i \in 1..Len(r)
        PROVE  old(i) \in 1..Len(s) /\ old(i) # p /\ r[i] = s[old(i)]
    BY <1>w, <1>2 DEF Without
  <1>6. ASSUME NEW i \in 1..Len(r), NEW j \in 1..Len(r)
        PROVE  /\ old(i) = old(j) => i = j
               /\ i < j => old(i) < old(j)
    BY <1>2
  <1>7. ASSUME NEW i \in 1..Len(r)
        PROVE  r[i] \in S \ {s[p]} /\ m[r[i]] = l[r[i]]
    <2> HIDE DEF old
    <2>1. r[i] \in S \ {s[p]}
      BY <1>2, <1>3, <1>4, <1>5
    <2> QED BY <2>1, <1>1 DEF SameBut
  <1>8. ASSUME NEW k \in 1..Len(s), k # p
        PROVE  x[s[k]] = IF k = p + 1 THEN t[s[k]] + t[s[p]] ELSE t[s[k]]
    <2>1. s[k] \in S \ {s[p]}
      BY <1>2, <1>3, <1>4, <1>8
    <2>2. x[s[k]] = IF p + 1 \in 1..Len(s) /\ s[k] = s[p + 1]
                    THEN t[s[k]] + t[s[p]] ELSE t[s[k]]
      BY <2>1, <1>1 DEF GainsAt
    <2>3. (p + 1 \in 1..Len(s) /\ s[k] = s[p + 1]) <=> k = p + 1
      BY <1>2, <1>4
    <2> QED BY <2>2, <2>3
  <1>9. ASSUME NEW k \in 1..Len(s)
        PROVE  l[s[k]] = t[s[k]] + IF k = 1 THEN 0 ELSE l[s[k - 1]]
    BY <1>1 DEF Chain
  <1>10. ASSUME NEW i \in 1..Len(r)
         PROVE  m[r[i]] = x[r[i]] + IF i = 1 THEN 0 ELSE m[r[i - 1]]
    <2>1. i \in Int /\ 1 <= i /\ i <= Len(s) - 1
      BY <1>2
    <2>2. i # 1 => i - 1 \in 1..Len(r)
      BY <2>1
    <2>3. m[r[i]] = l[s[old(i)]] /\ x[r[i]] = x[s[old(i)]]
      BY <1>5, <1>7
    <2>4. i # 1 => m[r[i - 1]] = l[s[old(i - 1)]]
      BY <2>2, <1>5, <1>7
    <2>5. CASE i < p
      <3>1. i \in 1..Len(s) /\ i # p /\ i # p + 1 /\ old(i) = i /\ old(i - 1) = i - 1
        BY <2>1, <2>5, <1>2
      <3> QED BY <3>1, <2>3, <2>4, <1>8, <1>9
    <2>6. CASE i = p
      <3>1. p + 1 \in 1..Len(s) /\ p + 1 # p /\ old(i) = p + 1 /\ p + 1 # 1
        BY <2>1, <2>6, <1>2
      <3>2. i # 1 => old(i - 1) = p - 1 /\ p - 1 \in 1..Len(s)
        BY <2>1, <2>6, <1>2
      <3>3. x[s[p + 1]] = t[s[p + 1]] + t[s[p]]
        BY <3>1, <1>8
      <3>4. l[s[p + 1]] = t[s[p + 1]] + l[s[p]]
        <4>1. (p + 1) - 1 = p
          BY <1>2
        <4> QED BY <3>1, <4>1, <1>9
      <3>5. l[s[p]] = t[s[p]] + IF p = 1 THEN 0 ELSE l[s[p - 1]]
        BY <1>2, <1>9
      <3>6. t[s[p]] \in Int /\ t[s[p + 1]] \in Int /\ (i # 1 => l[s[p - 1]] \in Int)
        BY <3>1, <3>2, <1>2, <1>3
      <3> HIDE DEF old
      <3>7. m[r[i]] = l[s[p + 1]] /\ x[r[i]] = x[s[p + 1]]
        BY <3>1, <2>3
      <3>8. i # 1 => m[r[i - 1]] = l[s[p - 1]]
        BY <3>2, <2>4
      <3> QED BY <3>3, <3>4, <3>5, <3>6, <3>7, <3>8, <2>6
    <2>7. CASE i > p
      <3>1. /\ i + 1 \in 1..Len(s) /\ i + 1 # p /\ i + 1 # p + 1 /\ i + 1 # 1
            /\ i # 1 /\ old(i) = i + 1 /\ old(i - 1) = i
        BY <2>1, <2>7, <1>2
      <3>2. l[s[i + 1]] = t[s[i + 1]] + l[s[i]]
        <4>1. (i + 1) - 1 = i
          BY <2>1
        <4> QED BY <3>1, <4>1, <1>9
      <3> QED BY <3>1, <3>2, <2>3, <2>4, <1>8
    <2> QED BY <2>1, <2>5, <2>6, <2>7, <1>2
  <1>11. ASSUME NEW i \in 1..Len(r), NEW j \in 1..Len(r), i < j
         PROVE  m[r[i]] <= m[r[j]]
    <2>1. m[r[i]] = l[s[old(i)]] /\ m[r[j]] = l[s[old(j)]]
      BY <1>5, <1>7
    <2>2. l[s[old(i)]] <= l[s[old(j)]]
      BY <1>1, <1>5, <1>6, <1>11 DEF Chain
    <2> QED BY <2>1, <2>2
  <1>12. ASSUME NEW i \in 1..Len(r), NEW j \in 1..Len(r), r[i] = r[j]
         PROVE  i = j
    BY <1>4, <1>5, <1>6, <1>12
  <1> HIDE DEF old
  <1> QED BY <1>7, <1>10, <1>11, <1>12 DEF Chain

\* A unit e due d from now belongs at p: the units in front of p, whose times
\* add up to a, are due no later and the unit at p is due no earlier.
Fits(S, s, t, l, p, e, d, a) ==
    /\ p \in 1..(Len(s) + 1) /\ e \in S /\ d \in Int /\ a \in Int
    /\ \A k \in 1..Len(s) : s[k] # e
    /\ a = IF p = 1 THEN 0 ELSE l[s[p - 1]]
    /\ p > 1 => a <= d
    /\ p <= Len(s) => d <= a + t[s[p]]

\* e gets its time, and the unit at p loses it.
Takes(S, s, t, l, p, e, d, a, x, m) ==
    /\ SameBut(m, l, S, e) /\ GainsAt(x, t, S, e, s, p, a - d)
    /\ x[e] = d - a /\ m[e] = d

\* A unit enters the list where it belongs.
LEMMA ChainInsert ==
  ASSUME NEW S, NEW s, NEW t, NEW l, NEW p, NEW e, NEW d, NEW a,
         NEW x, NEW m, NEW r
  PROVE  /\ s \in Seq(S) /\ t \in [S -> Int] /\ l \in [S -> Int]
         /\ Chain(s, t, l) /\ With(r, s, p, e)
         /\ Fits(S, s, t, l, p, e, d, a) /\ Takes(S, s, t, l, p, e, d, a, x, m)
         => Chain(r, x, m)
  <1>0. SUFFICES ASSUME s \in Seq(S), t \in [S -> Int], l \in [S -> Int],
                        Chain(s, t, l), With(r, s, p, e),
                        Fits(S, s, t, l, p, e, d, a),
                        Takes(S, s, t, l, p, e, d, a, x, m)
                 PROVE  Chain(r, x, m)
    OBVIOUS
  <1>1. /\ s \in Seq(S) /\ t \in [S -> Int] /\ l \in [S -> Int]
        /\ p \in 1..(Len(s) + 1) /\ e \in S /\ d \in Int /\ a \in Int
        /\ Chain(s, t, l) /\ With(r, s, p, e) /\ SameBut(m, l, S, e)
        /\ GainsAt(x, t, S, e, s, p, a - d)
        /\ \A k \in 1..Len(s) : s[k] # e
        /\ a = IF p = 1 THEN 0 ELSE l[s[p - 1]]
        /\ p > 1 => a <= d
        /\ p <= Len(s) => d <= a + t[s[p]]
        /\ x[e] = d - a /\ m[e] = d
    BY <1>0 DEF Fits, Takes
  <1>w. With(r, s, p, e)
    BY <1>1
  <1>c. Chain(s, t, l)
    BY <1>1
  <1>2. Len(s) \in Nat /\ p \in 1..(Len(s) + 1) /\ Len(r) = Len(s) + 1
    <2>1. Len(s) \in Nat /\ p \in 1..(Len(s) + 1)
      BY <1>1, Members
    <2> QED BY <1>w, <2>1 DEF With
  <1>3. \A i \in 1..Len(s) : s[i] \in S \ {e} /\ t[s[i]] \in Int /\ l[s[i]] \in Int
    BY <1>1, Members
  <1>4. \A i, j \in 1..Len(s) : s[i] = s[j] => i = j
    BY <1>c DEF Chain
  <1>5. d \in Int /\ a \in Int /\ a = IF p = 1 THEN 0 ELSE l[s[p - 1]]
    BY <1>1
  <1>6. (p > 1 => a <= d) /\ (p <= Len(s) => d <= a + t[s[p]])
    BY <1>1
  <1>7. x[e] = d - a /\ m[e] = d
    BY <1>1
  <1> DEFINE old(i) == IF i < p THEN i ELSE i - 1
  <1>8. r[p] = e
    BY <1>w, <1>2 DEF With
  <1>9. ASSUME NEW i \in 1..Len(r), i # p
        PROVE  old(i) \in 1..Len(s) /\ r[i] = s[old(i)]
    BY <1>w, <1>2, <1>9 DEF With
  <1>10. ASSUME NEW i \in 1..Len(r), NEW j \in 1..Len(r), i # p, j # p
         PROVE  /\ old(i) = old(j) => i = j
                /\ i < j => old(i) < old(j)
    BY <1>2, <1>10
  <1>11. ASSUME NEW i \in 1..Len(r), i # p
         PROVE  r[i] \in S \ {e} /\ m[r[i]] = l[s[old(i)]]
    <2> HIDE DEF old
    <2>1. r[i] = s[old(i)] /\ r[i] \in S \ {e}
      BY <1>3, <1>9, <1>11
    <2>2. SameBut(m, l, S, e)
      BY <1>1
    <2> QED BY <2>1, <2>2 DEF SameBut
  <1>12. ASSUME NEW k \in 1..Len(s)
         PROVE  x[s[k]] = IF k = p THEN t[s[k]] + (a - d) ELSE t[s[k]]
    <2>1. GainsAt(x, t, S, e, s, p, a - d)
      BY <1>1
    <2>2. x[s[k]] = IF p \in 1..Len(s) /\ s[k] = s[p] THEN t[s[k]] + (a - d)
                    ELSE t[s[k]]
      BY <2>1, <1>3 DEF GainsAt
    <2>3. (p \in 1..Len(s) /\ s[k] = s[p]) <=> k = p
      BY <1>4
    <2> QED BY <2>2, <2>3
  <1>13. ASSUME NEW k \in 1..Len(s)
         PROVE  l[s[k]] = t[s[k]] + IF k = 1 THEN 0 ELSE l[s[k - 1]]
    BY <1>c DEF Chain
  <1>14. ASSUME NEW i \in 1..Len(r)
         PROVE  m[r[i]] = x[r[i]] + IF i = 1 THEN 0 ELSE m[r[i - 1]]
    <2>1. i \in Int /\ 1 <= i /\ i <= Len(s) + 1 /\ p \in Int
      BY <1>2
    <2>2. CASE i < p
      <3>1. /\ i \in 1..Len(s) /\ i # p /\ old(i) = i
            /\ i # 1 => /\ i - 1 \in 1..Len(r) /\ i - 1 # p /\ old(i - 1) = i - 1
        BY <2>1, <2>2, <1>2
      <3> HIDE DEF old
      <3>2. /\ m[r[i]] = l[s[i]] /\ x[r[i]] = t[s[i]]
            /\ i # 1 => m[r[i - 1]] = l[s[i - 1]]
        BY <3>1, <1>9, <1>11, <1>12
      <3> QED BY <3>1, <3>2, <1>13
    <2>3. CASE i = p
      <3>1. i # 1 => i - 1 \in 1..Len(r) /\ i - 1 # p /\ old(i - 1) = p - 1
        BY <2>1, <2>3, <1>2
      <3> HIDE DEF old
      <3>2. i # 1 => m[r[i - 1]] = l[s[p - 1]]
        BY <3>1, <1>11
      <3>3. m[r[i]] = d /\ x[r[i]] = d - a
        BY <2>3, <1>7, <1>8
      <3>4. CASE p = 1
        BY <3>3, <3>4, <2>3, <1>5
      <3>5. CASE p # 1
        <4>1. m[r[i - 1]] = a /\ i # 1
          BY <3>2, <3>5, <2>3, <1>5
        <4> QED BY <4>1, <3>3, <1>5
      <3> QED BY <3>4, <3>5
    <2>4. CASE i = p + 1
      <3>1. /\ i # p /\ i # 1 /\ old(i) = p /\ i - 1 = p /\ p \in 1..Len(s)
        BY <2>1, <2>4, <1>2
      <3> HIDE DEF old
      <3>2. m[r[i]] = l[s[p]] /\ x[r[i]] = t[s[p]] + (a - d)
        BY <3>1, <1>9, <1>11, <1>12
      <3>3. l[s[p]] = t[s[p]] + a
        BY <3>1, <1>5, <1>13
      <3>4. t[s[p]] \in Int
        BY <3>1, <1>3
      <3>5. m[r[i - 1]] = d
        BY <3>1, <1>7, <1>8
      <3>6. d \in Int /\ a \in Int
        BY <1>5
      <3> QED BY <3>1, <3>2, <3>3, <3>4, <3>5, <3>6
    <2>5. CASE i > p + 1
      <3>1. /\ i # p /\ i # 1 /\ old(i) = i - 1 /\ i - 1 \in 1..Len(s)
            /\ i - 1 # p /\ i - 1 # 1 /\ (i - 1) - 1 = i - 2
            /\ i - 1 \in 1..Len(r) /\ old(i - 1) = i - 2
        BY <2>1, <2>5, <1>2
      <3> HIDE DEF old
      <3>2. /\ m[r[i]] = l[s[i - 1]] /\ x[r[i]] = t[s[i - 1]]
            /\ m[r[i - 1]] = l[s[i - 2]]
        BY <3>1, <1>9, <1>11, <1>12
      <3>3. l[s[i - 1]] = t[s[i - 1]] + l[s[i - 2]]
        BY <3>1, <1>13
      <3> QED BY <3>1, <3>2, <3>3
    <2>6. i < p \/ i = p \/ i = p + 1 \/ i > p + 1
      BY <2>1
    <2> QED BY <2>2, <2>3, <2>4, <2>5, <2>6
  <1>15. ASSUME NEW i \in 1..Len(r), NEW j \in 1..Len(r), i < j
         PROVE  m[r[i]] <= m[r[j]]
    <2>1. \A k, n \in 1..Len(s) : k < n => l[s[k]] <= l[s[n]]
      BY <1>c DEF Chain
    <2>2. CASE i # p /\ j # p
      <3>1. old(i) \in 1..Len(s) /\ old(j) \in 1..Len(s) /\ old(i) < old(j)
        BY <2>2, <1>9, <1>10, <1>15
      <3> HIDE DEF old
      <3> QED BY <2>1, <2>2, <3>1, <1>11
    <2>3. CASE i = p
      <3>1. j # p /\ p \in 1..Len(s) /\ old(j) \in 1..Len(s) /\ p <= old(j)
        BY <2>3, <1>2, <1>15
      <3> HIDE DEF old
      <3>2. l[s[p]] = t[s[p]] + a
        BY <3>1, <1>5, <1>13
      <3>3. l[s[p]] <= l[s[old(j)]]
        <4>1. old(j) \in Int /\ p \in Int /\ l[s[p]] \in Int
          BY <3>1, <1>3
        <4>2. CASE p = old(j)
          BY <4>1, <4>2
        <4>3. CASE p < old(j)
          BY <3>1, <4>3, <2>1
        <4> QED BY <3>1, <4>1, <4>2, <4>3
      <3>4. m[r[j]] = l[s[old(j)]] /\ m[r[i]] = d
        BY <2>3, <3>1, <1>7, <1>8, <1>11
      <3>5. d <= l[s[p]]
        BY <3>1, <3>2, <1>2, <1>3, <1>5, <1>6
      <3>6. l[s[p]] \in Int /\ l[s[old(j)]] \in Int
        BY <3>1, <1>3
      <3> QED BY <3>3, <3>4, <3>5, <3>6, <1>5
    <2>4. CASE j = p
      <3>1. i # p /\ p > 1 /\ old(i) = i /\ i \in 1..Len(s) /\ p - 1 \in 1..Len(s)
            /\ i <= p - 1
        BY <2>4, <1>2, <1>15
      <3> HIDE DEF old
      <3>2. l[s[i]] <= l[s[p - 1]]
        <4>1. i \in Int /\ p - 1 \in Int /\ l[s[i]] \in Int
          BY <3>1, <1>3
        <4>2. CASE i = p - 1
          BY <4>1, <4>2
        <4>3. CASE i < p - 1
          BY <3>1, <4>3, <2>1
        <4> QED BY <3>1, <4>1, <4>2, <4>3
      <3>3. m[r[i]] = l[s[i]] /\ m[r[j]] = d
        BY <2>4, <3>1, <1>7, <1>8, <1>11
      <3>4. l[s[p - 1]] = a /\ a <= d /\ l[s[i]] \in Int
        BY <3>1, <1>3, <1>5, <1>6
      <3> QED BY <3>2, <3>3, <3>4, <1>5
    <2> QED BY <2>2, <2>3, <2>4
  <1>16. ASSUME NEW i \in 1..Len(r), NEW j \in 1..Len(r), r[i] = r[j]
         PROVE  i = j
    <2>1. CASE i # p /\ j # p
      BY <2>1, <1>4, <1>9, <1>10, <1>16
    <2>2. CASE i = p \/ j = p
      BY <2>2, <1>8, <1>11, <1>16
    <2> QED BY <2>1, <2>2
  <1> HIDE DEF old
  <1> QED BY <1>14, <1>15, <1>16 DEF Chain
\* The empty list is in order.
LEMMA EmptyChain ==
  ASSUME NEW t, NEW l
  PROVE  Chain(<<>>, t, l)
  BY DEF Chain

-----------------------------------------------------------------------------
(* Sums along the list *)

\* A set of positions has a least one.
LEMMA LeastPosition ==
  ASSUME NEW n \in Nat, NEW T \in SUBSET (1..n), T # {}
  PROVE  \E i \in T : \A j \in T : i <= j
  <1> DEFINE Below(i) == 1..(i - 1)
             U == {Below(i) : i \in T}
  <1>1. IsFiniteSet(1..n)
    BY FS_Interval
  <1>2. U \subseteq FiniteSubsetsOf(1..n) /\ U # {}
    <2>1. \A i \in T : Below(i) \subseteq 1..n
      OBVIOUS
    <2>2. \A i \in T : IsFiniteSet(Below(i))
      BY <1>1, <2>1, FS_Subset
    <2> HIDE DEF Below
    <2> QED BY <2>1, <2>2 DEF FiniteSubsetsOf
  <1>3. PICK A \in U : \A B \in U : ~(<<B, A>> \in StrictSubsetOrdering(1..n))
    <2> HIDE DEF U
    <2>1. IsWellFoundedOn(StrictSubsetOrdering(1..n), FiniteSubsetsOf(1..n))
      BY FS_StrictSubsetOrderingWellFounded
    <2> QED BY <1>2, <2>1, WFMin
  <1>4. PICK i \in T : A = Below(i)
    BY <1>3
  <1>5. ASSUME NEW j \in T, j < i PROVE FALSE
    <2>1. /\ Below(j) \subseteq Below(i) /\ Below(j) # Below(i)
          /\ Below(i) \subseteq 1..n
      <3>1. j \in Below(i) /\ j \notin Below(j) BY <1>5
      <3> QED BY <3>1, <1>5
    <2>2. <<Below(j), Below(i)>> \in StrictSubsetOrdering(1..n)
      BY <2>1 DEF StrictSubsetOrdering
    <2> QED BY <2>2, <1>3, <1>4
  <1> QED BY <1>5

\* f[i] is first plus the times t of the positions from 2 to i.
Sums(f, n, first, t) ==
    \A i \in 1..n : f[i] = IF i = 1 THEN first ELSE f[i - 1] + t[i]

\* What a loop that adds up the times of a list computes is what satisfies its
\* equations: two functions that do differ at no least position.
LEMMA SumsAgree ==
  ASSUME NEW n \in Nat, NEW first, NEW t, NEW f, NEW g,
         Sums(f, n, first, t), Sums(g, n, first, t)
  PROVE  \A i \in 1..n : f[i] = g[i]
  <1> DEFINE T == {i \in 1..n : f[i] # g[i]}
  <1>1. SUFFICES ASSUME T # {} PROVE FALSE
    OBVIOUS
  <1>2. PICK i \in T : \A j \in T : i <= j
    <2>1. T \in SUBSET (1..n)
      OBVIOUS
    <2> HIDE DEF T
    <2> QED BY <1>1, <2>1, LeastPosition
  <1>3. i # 1
    BY <1>2 DEF Sums
  <1>4. i - 1 \in 1..n /\ i - 1 \notin T
    BY <1>2, <1>3
  <1>5. f[i - 1] = g[i - 1]
    BY <1>4
  <1> QED BY <1>2, <1>3, <1>5 DEF Sums
=============================================================================
