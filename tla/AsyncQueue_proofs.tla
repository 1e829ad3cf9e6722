--------------------------- MODULE AsyncQueue_proofs ---------------------------
(***************************************************************************)
(* What AsyncQueue does for any number of units, threads, activations and  *)
(* delays, and for any interrupt latency.                                  *)
(*                                                                         *)
(* The private lists and the units in transit are looked for in the whole  *)
(* stack, and a step changes only its first frames: the first lemmas say   *)
(* what the stack shows in terms of its head and its tail.                 *)
(***************************************************************************)
EXTENDS AsyncQueue, SequenceTheorems, TLAPS

\* A private list with u on it.
InLists(s, u) == \E i \in DOMAIN s : u \in ToSet(s[i].list)

\* An invocation that is to put u on the clock queue.
InHands(s, u) == \E i \in DOMAIN s : s[i].unit = u /\ s[i].delay # NoDelay

\* The private lists have no unit in common.
Separate(s) ==
    \A i \in DOMAIN s :
        /\ IsInjective(s[i].list)
        /\ \A j \in DOMAIN s \ {i} : ToSet(s[i].list) \cap ToSet(s[j].list) = {}

FrameOK(f) ==
    /\ f.at \in {"grab", "take"} <=> f.unit = NoUnit
    /\ f.list # <<>> => f.at \in {"apply", "take"}
    /\ f.delay = NoDelay => f.at \in {"cancel", "clock", "remove"}

\* Only the outermost call is a sim_cancel of its own.
Ordered(s) ==
    \A i \in DOMAIN s : FrameOK(s[i]) /\ (i # Len(s) => s[i].delay # NoDelay)

Ending(s) == s # <<>> /\ s[Len(s)].delay = NoDelay

Parts(s) ==
    LET h == Head(s)
        r == Tail(s)
    IN  /\ \A u \in Unit :
              InLists(s, u) <=> u \in ToSet(h.list) \/ InLists(r, u)
        /\ \A u \in Unit :
              InHands(s, u) <=>
                  (h.unit = u /\ h.delay # NoDelay) \/ InHands(r, u)
        /\ Separate(s) <=>
              /\ IsInjective(h.list) /\ Separate(r)
              /\ \A u \in Unit : u \in ToSet(h.list) => ~InLists(r, u)
        /\ Ordered(s) <=>
              FrameOK(h) /\ Ordered(r) /\ (r # <<>> => h.delay # NoDelay)
        /\ Ending(s) <=> IF r = <<>> THEN h.delay = NoDelay ELSE Ending(r)

LEMMA Empty ==
    /\ <<>> \in Seq(Frames)
    /\ \A u \in Unit : ~InLists(<<>>, u) /\ ~InHands(<<>>, u)
    /\ Separate(<<>>) /\ Ordered(<<>>) /\ ~Ending(<<>>)
  BY DEF InLists, InHands, Separate, Ordered, Ending

\* The units of a list.
LEMMA Members ==
    ASSUME NEW q \in Seq(Unit)
    PROVE  /\ ToSet(q) \subseteq Unit
           /\ q = <<>> => ToSet(q) = {} /\ IsInjective(q)
           /\ q # <<>> =>
                 /\ Head(q) \in Unit /\ Tail(q) \in Seq(Unit)
                 /\ ToSet(q) = {Head(q)} \cup ToSet(Tail(q))
                 /\ IsInjective(q) =>
                       IsInjective(Tail(q)) /\ Head(q) \notin ToSet(Tail(q))
<1>1. ToSet(q) \subseteq Unit
  BY DEF ToSet
<1>2. q = <<>> => ToSet(q) = {} /\ IsInjective(q)
  BY DEF ToSet, IsInjective
<1>3. ASSUME q # <<>>
      PROVE  /\ Head(q) \in Unit /\ Tail(q) \in Seq(Unit)
             /\ ToSet(q) = {Head(q)} \cup ToSet(Tail(q))
             /\ IsInjective(q) =>
                   IsInjective(Tail(q)) /\ Head(q) \notin ToSet(Tail(q))
  <2> DEFINE h == Head(q)
             r == Tail(q)
  <2>1. /\ h \in Unit /\ r \in Seq(Unit) /\ h = q[1] /\ Len(q) \in Nat \ {0}
        /\ Len(r) = Len(q) - 1 /\ \A i \in 1..Len(r) : r[i] = q[i + 1]
    BY <1>3
  <2>2. DOMAIN q = 1..Len(q) /\ DOMAIN r = 1..Len(r) /\ Len(r) \in Nat
    BY <2>1
  <2> HIDE DEF h, r
  <2>3. ASSUME NEW i \in 1..Len(r)
        PROVE  i + 1 \in 1..Len(q) /\ r[i] = q[i + 1] /\ i + 1 # 1
    BY <2>1
  <2>4. ASSUME NEW i \in 1..Len(q), i # 1
        PROVE  i - 1 \in 1..Len(r) /\ q[i] = r[i - 1]
    BY <2>1, <2>4
  <2>5. ToSet(q) \subseteq {h} \cup ToSet(r)
    <3> SUFFICES ASSUME NEW i \in 1..Len(q) PROVE q[i] \in {h} \cup ToSet(r)
      BY <2>2 DEF ToSet
    <3>1. CASE i = 1
      BY <2>1, <3>1
    <3>2. CASE i # 1
      BY <2>2, <2>4, <3>2 DEF ToSet
    <3> QED
      BY <3>1, <3>2
  <2>6. h \in ToSet(q) /\ ToSet(r) \subseteq ToSet(q)
    <3>1. h \in ToSet(q)
      BY <2>1, <2>2 DEF ToSet
    <3>2. ASSUME NEW i \in 1..Len(r) PROVE r[i] \in ToSet(q)
      BY <2>2, <2>3 DEF ToSet
    <3> QED
      BY <2>2, <3>1, <3>2 DEF ToSet
  <2>7. ASSUME IsInjective(q) PROVE IsInjective(r) /\ h \notin ToSet(r)
    <3>1. \A a, b \in 1..Len(q) : q[a] = q[b] => a = b
      BY <2>2, <2>7 DEF IsInjective
    <3>2. ASSUME NEW a \in 1..Len(r), NEW b \in 1..Len(r), r[a] = r[b]
          PROVE  a = b
      <4>1. a + 1 = b + 1
        BY <2>3, <3>1, <3>2
      <4> QED
        BY <4>1
    <3>3. ASSUME NEW a \in 1..Len(r), r[a] = h PROVE FALSE
      <4>1. a + 1 = 1
        BY <2>1, <2>3, <3>1, <3>3
      <4> QED
        BY <2>3, <4>1
    <3> QED
      BY <2>2, <3>2, <3>3 DEF IsInjective, ToSet
  <2> QED
    BY <2>1, <2>5, <2>6, <2>7 DEF h, r
<1> QED
  BY <1>1, <1>2, <1>3

\* A thread pushes a unit on the list.
LEMMA Pushed ==
    ASSUME NEW q \in Seq(Unit), NEW u \in Unit
    PROVE  /\ <<u>> \o q \in Seq(Unit) /\ ToSet(<<u>> \o q) = {u} \cup ToSet(q)
           /\ IsInjective(q) /\ u \notin ToSet(q) => IsInjective(<<u>> \o q)
<1> DEFINE t == <<u>> \o q
<1>1. /\ t \in Seq(Unit) /\ t # <<>> /\ Head(t) = u /\ Tail(t) = q
      /\ Len(t) = Len(q) + 1 /\ t[1] = u /\ \A i \in 1..Len(q) : t[i + 1] = q[i]
  OBVIOUS
<1> HIDE DEF t
<1>2. ToSet(t) = {u} \cup ToSet(q)
  BY <1>1, Members
<1>3. ASSUME IsInjective(q), u \notin ToSet(q) PROVE IsInjective(t)
  <2>1. DOMAIN q = 1..Len(q) /\ DOMAIN t = 1..Len(t) /\ Len(q) \in Nat
    BY <1>1
  <2>2. ASSUME NEW i \in 1..Len(t), i # 1
        PROVE  i - 1 \in 1..Len(q) /\ t[i] = q[i - 1] /\ t[i] # u
    <3>1. i - 1 \in 1..Len(q) /\ t[i - 1 + 1] = q[i - 1] /\ i - 1 + 1 = i
      BY <1>1, <2>1, <2>2
    <3> QED
      BY <1>3, <2>1, <3>1 DEF ToSet
  <2>3. ASSUME NEW a \in 1..Len(t), NEW b \in 1..Len(t), t[a] = t[b] PROVE a = b
    <3>1. CASE a = 1 \/ b = 1
      BY <1>1, <2>2, <2>3, <3>1
    <3>2. CASE a # 1 /\ b # 1
      <4>1. a - 1 = b - 1
        BY <1>3, <2>1, <2>2, <2>3, <3>2 DEF IsInjective
      <4> QED
        BY <4>1
    <3> QED
      BY <3>1, <3>2
  <2> QED
    BY <2>1, <2>3 DEF IsInjective
<1> QED
  BY <1>1, <1>2, <1>3 DEF t

LEMMA LastOne ==
    ASSUME NEW s \in Seq(Frames), s # <<>>
    PROVE  Tail(s) = <<>> <=> Len(s) = 1
<1>1. Tail(s) \in Seq(Frames) /\ Len(s) \in Nat \ {0}
  OBVIOUS
<1>2. Len(Tail(s)) = Len(s) - 1
  OBVIOUS
<1>3. ASSUME NEW t \in Seq(Frames) PROVE t = <<>> <=> Len(t) = 0
  OBVIOUS
<1> QED
  BY <1>1, <1>2, <1>3

LEMMA PartsOf == ASSUME NEW s \in Seq(Frames), s # <<>> PROVE Parts(s)
<1> DEFINE h == Head(s)
           r == Tail(s)
<1>1. /\ h \in Frames /\ r \in Seq(Frames) /\ h = s[1] /\ Len(s) \in Nat \ {0}
      /\ Len(r) = Len(s) - 1 /\ \A i \in 1..Len(r) : r[i] = s[i + 1]
  OBVIOUS
<1>2. /\ DOMAIN s = 1..Len(s) /\ DOMAIN r = 1..Len(r) /\ Len(r) \in Nat
      /\ 1 \in DOMAIN s
  BY <1>1
<1>3. r = <<>> <=> Len(s) = 1
  BY LastOne
<1> HIDE DEF h, r
<1>4. ASSUME NEW i \in DOMAIN r
      PROVE  i + 1 \in DOMAIN s /\ r[i] = s[i + 1] /\ i + 1 # 1
  BY <1>1, <1>2
<1>5. ASSUME NEW i \in DOMAIN s, i # 1
      PROVE  i - 1 \in DOMAIN r /\ s[i] = r[i - 1]
  <2>1. i - 1 \in 1..Len(r) /\ i - 1 + 1 = i
    BY <1>1, <1>2, <1>5
  <2> QED
    BY <1>1, <1>2, <2>1
<1>6. ASSUME NEW u
      PROVE  InLists(s, u) <=> u \in ToSet(h.list) \/ InLists(r, u)
  <2>1. ASSUME InLists(s, u), u \notin ToSet(h.list) PROVE InLists(r, u)
    BY <1>1, <1>5, <2>1 DEF InLists
  <2>2. ASSUME u \in ToSet(h.list) \/ InLists(r, u) PROVE InLists(s, u)
    BY <1>1, <1>2, <1>4, <2>2 DEF InLists
  <2> QED
    BY <2>1, <2>2
<1>7. ASSUME NEW u
      PROVE  InHands(s, u) <=>
                 (h.unit = u /\ h.delay # NoDelay) \/ InHands(r, u)
  <2>1. ASSUME InHands(s, u), ~(h.unit = u /\ h.delay # NoDelay)
        PROVE  InHands(r, u)
    BY <1>1, <1>5, <2>1 DEF InHands
  <2>2. ASSUME (h.unit = u /\ h.delay # NoDelay) \/ InHands(r, u)
        PROVE  InHands(s, u)
    BY <1>1, <1>2, <1>4, <2>2 DEF InHands
  <2> QED
    BY <2>1, <2>2
<1>8. \A i \in DOMAIN s : ToSet(s[i].list) \subseteq Unit
  <2> SUFFICES ASSUME NEW i \in DOMAIN s PROVE ToSet(s[i].list) \subseteq Unit
    OBVIOUS
  <2>1. s[i] \in Frames
    OBVIOUS
  <2>2. s[i].list \in Seq(Unit)
    BY <2>1 DEF Frames
  <2> QED
    BY <2>2, Members
<1>9. Separate(s) <=>
          /\ IsInjective(h.list) /\ Separate(r)
          /\ \A u \in Unit : u \in ToSet(h.list) => ~InLists(r, u)
  <2>1. ASSUME Separate(s)
        PROVE  /\ IsInjective(h.list) /\ Separate(r)
               /\ \A u \in Unit : u \in ToSet(h.list) => ~InLists(r, u)
    <3>1. IsInjective(h.list)
      BY <1>1, <1>2, <2>1 DEF Separate
    <3>2. ASSUME NEW i \in DOMAIN r
          PROVE  /\ IsInjective(r[i].list)
                 /\ ToSet(h.list) \cap ToSet(r[i].list) = {}
                 /\ \A j \in DOMAIN r \ {i} :
                       ToSet(r[i].list) \cap ToSet(r[j].list) = {}
      <4>1. /\ IsInjective(s[i + 1].list)
            /\ ToSet(s[1].list) \cap ToSet(s[i + 1].list) = {}
        BY <1>2, <1>4, <2>1 DEF Separate
      <4>2. ASSUME NEW j \in DOMAIN r \ {i}
            PROVE  ToSet(r[i].list) \cap ToSet(r[j].list) = {}
        <5>1. j + 1 # i + 1
          BY <1>2
        <5> QED
          BY <1>4, <2>1, <5>1 DEF Separate
      <4> QED
        BY <1>1, <1>4, <4>1, <4>2
    <3> QED
      BY <3>1, <3>2 DEF Separate, InLists
  <2>2. ASSUME IsInjective(h.list), Separate(r),
               \A u \in Unit : u \in ToSet(h.list) => ~InLists(r, u)
        PROVE  Separate(s)
    <3> SUFFICES ASSUME NEW i \in DOMAIN s
                 PROVE  /\ IsInjective(s[i].list)
                        /\ \A j \in DOMAIN s \ {i} :
                              ToSet(s[i].list) \cap ToSet(s[j].list) = {}
      BY DEF Separate
    <3>1. ASSUME NEW j \in DOMAIN s, j # 1
          PROVE  ToSet(h.list) \cap ToSet(s[j].list) = {}
      BY <1>1, <1>2, <1>5, <1>8, <2>2, <3>1 DEF InLists
    <3>2. CASE i = 1
      BY <1>1, <2>2, <3>1, <3>2
    <3>3. CASE i # 1
      <4>1. i - 1 \in DOMAIN r /\ s[i] = r[i - 1]
        BY <1>5, <3>3
      <4>2. ASSUME NEW j \in DOMAIN s \ {i}
            PROVE  ToSet(s[i].list) \cap ToSet(s[j].list) = {}
        <5>1. CASE j = 1
          BY <1>1, <3>1, <3>3, <5>1
        <5>2. CASE j # 1
          <6>1. j - 1 \in DOMAIN r /\ s[j] = r[j - 1]
            BY <1>5, <5>2
          <6>2. j - 1 # i - 1
            BY <1>2
          <6> QED
            BY <2>2, <4>1, <6>1, <6>2 DEF Separate
        <5> QED
          BY <5>1, <5>2
      <4> QED
        BY <2>2, <4>1, <4>2 DEF Separate
    <3> QED
      BY <3>2, <3>3
  <2> QED
    BY <2>1, <2>2
<1>10. Ordered(s) <=>
          FrameOK(h) /\ Ordered(r) /\ (r # <<>> => h.delay # NoDelay)
  <2>1. ASSUME Ordered(s)
        PROVE  FrameOK(h) /\ Ordered(r) /\ (r # <<>> => h.delay # NoDelay)
    <3>1. ASSUME NEW i \in DOMAIN r
          PROVE  FrameOK(r[i]) /\ (i # Len(r) => r[i].delay # NoDelay)
      <4>1. i # Len(r) => i + 1 # Len(s)
        BY <1>1, <1>2
      <4> QED
        BY <1>4, <2>1, <4>1 DEF Ordered
    <3> QED
      BY <1>1, <1>2, <1>3, <2>1, <3>1 DEF Ordered
  <2>2. ASSUME FrameOK(h), Ordered(r), r # <<>> => h.delay # NoDelay
        PROVE  Ordered(s)
    <3> SUFFICES ASSUME NEW i \in DOMAIN s
                 PROVE  FrameOK(s[i]) /\ (i # Len(s) => s[i].delay # NoDelay)
      BY DEF Ordered
    <3>1. CASE i = 1
      BY <1>1, <1>3, <2>2, <3>1
    <3>2. CASE i # 1
      <4>1. i # Len(s) => i - 1 # Len(r)
        BY <1>1, <1>2
      <4> QED
        BY <1>5, <2>2, <3>2, <4>1 DEF Ordered
    <3> QED
      BY <3>1, <3>2
  <2> QED
    BY <2>1, <2>2
<1>11. Ending(s) <=> IF r = <<>> THEN h.delay = NoDelay ELSE Ending(r)
  <2>1. CASE r = <<>>
    BY <1>1, <1>3, <2>1 DEF Ending
  <2>2. CASE r # <<>>
    <3>1. Len(r) \in 1..Len(r) /\ Len(r) + 1 = Len(s)
      BY <1>1, <1>2, <1>3, <2>2
    <3>2. s[Len(s)] = r[Len(r)]
      BY <1>1, <3>1
    <3> QED
      BY <2>2, <3>2 DEF Ending
  <2> QED
    BY <2>1, <2>2
<1> QED
  BY <1>6, <1>7, <1>9, <1>10, <1>11 DEF Parts, h, r

LEMMA PushRight ==
    ASSUME NEW f \in Frames, NEW r \in Seq(Frames)
    PROVE  /\ <<f>> \o r \in Seq(Frames) /\ <<f>> \o r # <<>>
           /\ Head(<<f>> \o r) = f /\ Tail(<<f>> \o r) = r
           /\ Parts(<<f>> \o r)
<1>1. /\ <<f>> \o r \in Seq(Frames) /\ <<f>> \o r # <<>>
      /\ Head(<<f>> \o r) = f
  OBVIOUS
<1>2. Tail(<<f>> \o r) = r
  OBVIOUS
<1> QED
  BY <1>1, <1>2, PartsOf

LEMMA OneFrame ==
    ASSUME NEW f \in Frames
    PROVE  /\ <<f>> \in Seq(Frames) /\ <<f>> # <<>> /\ Parts(<<f>>)
           /\ Head(<<f>>) = f /\ Tail(<<f>>) = <<>>
<1> DEFINE s == <<f>>
<1>1. s \in Seq(Frames) /\ s # <<>> /\ Head(s) = f /\ Len(s) = 1
  OBVIOUS
<1> HIDE DEF s
<1>2. Tail(s) = <<>> /\ Parts(s)
  BY <1>1, LastOne, PartsOf
<1> QED
  BY <1>1, <1>2 DEF s

TwoOn(s, f, g, r) ==
    /\ s \in Seq(Frames) /\ s # <<>> /\ Parts(s)
    /\ Head(s) = f /\ Tail(s) # <<>> /\ Head(Tail(s)) = g
    /\ Tail(Tail(s)) = r /\ Parts(Tail(s))

LEMMA TwoFrames ==
    ASSUME NEW f \in Frames, NEW g \in Frames, NEW r \in Seq(Frames),
           NEW s, s = <<f, g>> \o r
    PROVE  TwoOn(s, f, g, r)
<1> DEFINE t == <<g>> \o r
<1>1. t \in Seq(Frames) /\ t # <<>> /\ Parts(t) /\ Head(t) = g /\ Tail(t) = r
  BY PushRight
<1>2. s = <<f>> \o t
  <2>1. <<f>> \in Seq(Frames) /\ <<g>> \in Seq(Frames)
    OBVIOUS
  <2>2. <<f, g>> = <<f>> \o <<g>>
    <3>1. /\ <<f>> \o <<g>> \in Seq(Frames) /\ Len(<<f>> \o <<g>>) = 2
          /\ (<<f>> \o <<g>>)[1] = f /\ (<<f>> \o <<g>>)[2] = g
      OBVIOUS
    <3>2. /\ <<f, g>> \in Seq(Frames) /\ Len(<<f, g>>) = 2
          /\ <<f, g>>[1] = f /\ <<f, g>>[2] = g
      OBVIOUS
    <3>3. \A i \in 1..Len(<<f, g>>) : <<f, g>>[i] = (<<f>> \o <<g>>)[i]
      <4>1. \A i \in 1..Len(<<f, g>>) : i = 1 \/ i = 2
        BY <3>2
      <4> QED
        BY <3>1, <3>2, <4>1
    <3> QED
      BY <3>1, <3>2, <3>3, SeqEqual
  <2>3. (<<f>> \o <<g>>) \o r = <<f>> \o t
    BY <2>1, ConcatAssociative
  <2> QED
    BY <2>2, <2>3
<1> HIDE DEF t
<1> QED
  BY <1>1, <1>2, PushRight DEF TwoOn
-----------------------------------------------------------------------------
(* The inductive invariant *)

\* The main thread's sim_cancel has not migrated what was posted before it.
Starting(s) ==
    IF Tail(s) = <<>> THEN Head(s).at = "cancel"
    ELSE /\ Tail(Tail(s)) = <<>>
         /\ Head(s).at = "grab" /\ Head(Tail(s)).at = "clock"

\* No unit is on two lists.
ListsInv ==
    /\ IsInjective(asynq) /\ Separate(stack)
    /\ \A u \in Unit : u \in ToSet(asynq) => ~InLists(stack, u)

\* No activation is lost.
KeptInv ==
    \A u \in Unit :
        u \in asked =>
            \/ OnClock(u) \/ u \in ToSet(asynq)
            \/ InLists(stack, u) \/ InHands(stack, u)

\* During a sim_cancel the list holds what was posted since it began.
LateInv == Ending(stack) => Starting(stack) \/ ToSet(asynq) \subseteq late

\* At each place of the loop check, or the value its decrement has read, bounds
\* the instructions left until the main thread looks at the list.
SeenInv ==
    /\ pc = "check" => check >= 0 /\ unseen + check <= INST_LATENCY + 1
    /\ pc = "store" => loaded >= 0 /\ unseen + loaded <= INST_LATENCY + 1
    /\ pc = "migrated" =>
          /\ unseen <= INST_LATENCY + 1
          /\ \/ unseen = 0
             \/ stack # <<>> /\ Tail(stack) = <<>> /\ Head(stack).at = "grab"
    /\ pc \notin {"check", "store", "migrated"} =>
          check >= 0 /\ unseen + check <= INST_LATENCY

Inv == TypeOK /\ ListsInv /\ Ordered(stack) /\ KeptInv /\ LateInv /\ SeenInv
-----------------------------------------------------------------------------
(* What a step starts from *)

LEMMA Numbers ==
    /\ NoDelay \notin Nat /\ NotQueued \notin Nat /\ 0 # NoDelay
    /\ NotQueued \in Int
  BY DEF NoDelay, NotQueued

\* What Members says of a list.
Known(q) ==
    /\ ToSet(q) \subseteq Unit
    /\ q = <<>> => ToSet(q) = {} /\ IsInjective(q)
    /\ q # <<>> =>
          /\ Head(q) \in Unit /\ Tail(q) \in Seq(Unit)
          /\ ToSet(q) = {Head(q)} \cup ToSet(Tail(q))
          /\ IsInjective(q) =>
                IsInjective(Tail(q)) /\ Head(q) \notin ToSet(Tail(q))

\* The list, and the first frames of the stack.
Here ==
    /\ Known(asynq) /\ Known(<<>>) /\ <<>> \in Seq(Unit) /\ asynq \in Seq(Unit)
    /\ stack \in Seq(Frames)
    /\ stack # <<>> =>
          /\ Parts(stack) /\ Head(stack) \in Frames
          /\ Tail(stack) \in Seq(Frames)
          /\ Known(Head(stack).list)
          /\ Tail(stack) # <<>> =>
                Parts(Tail(stack)) /\ Tail(Tail(stack)) \in Seq(Frames)

LEMMA HereHolds == ASSUME TypeOK PROVE Here
<1>1. asynq \in Seq(Unit) /\ stack \in Seq(Frames) /\ <<>> \in Seq(Unit)
  BY DEF TypeOK
<1>2. Known(asynq) /\ Known(<<>>)
  BY <1>1, Members DEF Known
<1>3. ASSUME stack # <<>>
      PROVE  /\ Head(stack) \in Frames /\ Tail(stack) \in Seq(Frames)
             /\ Parts(stack)
  BY <1>1, <1>3, PartsOf
<1>4. ASSUME stack # <<>> PROVE Known(Head(stack).list)
  <2>1. Head(stack).list \in Seq(Unit)
    BY <1>3, <1>4 DEF Frames
  <2> QED
    BY <2>1, Members DEF Known
<1>5. ASSUME stack # <<>>, Tail(stack) # <<>>
      PROVE  Parts(Tail(stack)) /\ Tail(Tail(stack)) \in Seq(Frames)
  <2> DEFINE r == Tail(stack)
  <2>1. r \in Seq(Frames)
    BY <1>3, <1>5
  <2> HIDE DEF r
  <2>2. r # <<>> => Parts(r) /\ Tail(r) \in Seq(Frames)
    BY <2>1, PartsOf
  <2> QED
    BY <1>5, <2>2 DEF r
<1> QED
  BY <1>1, <1>2, <1>3, <1>4, <1>5 DEF Here

\* The operators of AsyncQueue that look at the whole stack.
LEMMA Views ==
    ASSUME Here
    PROVE  /\ \A u : Listed(u) <=> u \in ToSet(asynq) \/ InLists(stack, u)
           /\ Cancelling <=> Ending(stack)
  BY DEF Listed, InLists, Cancelling, Ending, Last

IsFrame(f, at, u, d, q) ==
    /\ f \in Frames
    /\ f.at = at /\ f.unit = u /\ f.delay = d /\ f.list = q

LEMMA FrameRight ==
    \A at \in {"grab", "apply", "take", "cancel", "drain"},
       u \in Unit \cup {NoUnit}, d \in Nat \cup {NoDelay}, q \in Seq(Unit) :
       IsFrame(Frame(at, u, d, q), at, u, d, q)
  BY DEF Frame, Frames, IsFrame

LEMMA UpdateQueueRight ==
    /\ UpdateQueue \in Frames /\ UpdateQueue.at = "grab"
    /\ UpdateQueue.unit = NoUnit /\ UpdateQueue.delay = 0
    /\ UpdateQueue.list = <<>>
<1>1. /\ NoUnit \in Unit \cup {NoUnit} /\ 0 \in Nat \cup {NoDelay}
      /\ <<>> \in Seq(Unit)
  OBVIOUS
<1>2. IsFrame(UpdateQueue, "grab", NoUnit, 0, <<>>)
  BY <1>1, FrameRight DEF UpdateQueue
<1> QED
  BY <1>2 DEF IsFrame

\* A frame that goes on to another place.
LEMMA MovedRight ==
    ASSUME Here, stack # <<>>,
           NEW p \in {"clock", "remove", "drain", "insert"}
    PROVE  LET g == [Top EXCEPT !.at = p] IN
           /\ g \in Frames /\ g.at = p /\ g.unit = Head(stack).unit
           /\ g.delay = Head(stack).delay /\ g.list = Head(stack).list
  BY DEF Here, Top, Frames

IsCalled(f, u, d) ==
    /\ f \in Frames /\ f.unit = u /\ f.delay = d /\ f.list = <<>>
    /\ f.at \in {"drain", "cancel"} /\ (d = NoDelay => f.at = "cancel")

LEMMA CalledRight ==
    ASSUME NEW c \in {"activate", "abs", "cancel"}, NEW u \in Unit,
           NEW d \in Nat \cup {NoDelay}, c = "cancel" <=> d = NoDelay
    PROVE  IsCalled(Called(c, u, d), u, d)
<1>1. u \in Unit \cup {NoUnit} /\ <<>> \in Seq(Unit)
  OBVIOUS
<1>2. IsFrame(Frame("drain", u, d, <<>>), "drain", u, d, <<>>)
  BY <1>1, FrameRight
<1>3. IsFrame(Frame("cancel", u, d, <<>>), "cancel", u, d, <<>>)
  BY <1>1, FrameRight
<1>4. CASE c = "activate"
  <2>1. Called(c, u, d) = Frame("drain", u, d, <<>>)
    BY <1>4 DEF Called
  <2> QED
    BY <1>2, <1>4, <2>1 DEF IsFrame, IsCalled
<1>5. CASE c = "abs"
  <2>1. Called(c, u, d) = Frame("cancel", u, d, <<>>)
    BY <1>5 DEF Called
  <2> QED
    BY <1>3, <2>1 DEF IsFrame, IsCalled
<1>6. CASE c = "cancel"
  <2>1. Called(c, u, d) = Frame("cancel", u, d, <<>>)
    BY <1>6 DEF Called
  <2> QED
    BY <1>3, <1>6, <2>1 DEF IsFrame, IsCalled
<1> QED
  BY <1>4, <1>5, <1>6

\* The first unit of a list is applied, and the others wait.
LEMMA TakeFirstRight ==
    ASSUME a_time \in [Unit -> Nat], NEW q \in Seq(Unit), q # <<>>
    PROVE  LET f == TakeFirst(q) IN
           /\ f \in Frames /\ f.at = "apply" /\ f.unit = Head(q)
           /\ f.delay \in Nat /\ f.list = Tail(q)
<1>1. Head(q) \in Unit /\ Tail(q) \in Seq(Unit)
  OBVIOUS
<1>2. Granted(Head(q)) \in Nat
  <2>1. a_time[Head(q)] \in Nat /\ INST_LATENCY \in Nat
    BY <1>1, NumberAssumption
  <2> QED
    BY <2>1 DEF Granted, AtLeast0
<1> QED
  <2>1. IsFrame(TakeFirst(q), "apply", Head(q), Granted(Head(q)), Tail(q))
    BY <1>1, <1>2, FrameRight DEF TakeFirst
  <2> QED
    BY <1>2, <2>1 DEF IsFrame

LEMMA ElapseRight ==
    ASSUME wait \in [Unit -> Nat \cup {NotQueued}], NEW n \in Nat, Elapse(n)
    PROVE  /\ wait' \in [Unit -> Nat \cup {NotQueued}]
           /\ \A u \in Unit : wait[u] # NotQueued => wait'[u] # NotQueued
<1>1. ASSUME NEW w \in Nat PROVE AtLeast0(w - n) \in Nat
  BY DEF AtLeast0
<1> QED
  BY <1>1, Numbers DEF Elapse, OnClock
-----------------------------------------------------------------------------
(* Every action keeps the invariant *)

USE DEF At, AtLoop, Top, posted, loop, history

LEMMA PostRight ==
    ASSUME Inv, Here, NEW t \in Thread, NEW u \in Unit, NEW c \in PostCalls,
           NEW n \in PostDelays, Post(t, u, c, n)
    PROVE  Inv'
<1>1. n \in Nat /\ c \in {"activate", "abs"}
  BY NumberAssumption, CallAssumption
<1>2. /\ asynq' \in Seq(Unit) /\ stack' = stack
      /\ ToSet(asynq') = ToSet(asynq) \/ ToSet(asynq') = ToSet(asynq) \cup {u}
      /\ u \in ToSet(asynq') \/ InLists(stack, u)
      /\ IsInjective(asynq)  => IsInjective(asynq')
      /\ u \in ToSet(asynq') => ~InLists(stack, u) \/ u \in ToSet(asynq)
  <2>1. CASE Listed(u)
    BY <2>1, Views DEF Here, Post, Enqueue
  <2>2. CASE ~Listed(u)
    BY <2>2, Views, Pushed DEF Here, Post, Enqueue
  <2> QED
    BY <2>1, <2>2
<1>3. a_time' \in [Unit -> Nat] /\ a_call' \in [Unit -> {"activate", "abs"}]
  BY <1>1 DEF Inv, TypeOK, Post, Enqueue
<1>4. TypeOK'
  BY <1>1, <1>2, <1>3, NumberAssumption DEF Inv, TypeOK, Post
<1>5. ListsInv'
  BY <1>1, <1>2, <1>3 DEF Inv, ListsInv, Post
<1>6. Ordered(stack)'
  BY <1>1, <1>2, <1>3 DEF Inv, Post
<1>7. KeptInv'
  BY <1>2 DEF Inv, KeptInv, OnClock, Post
<1>8. LateInv'
  BY <1>1, <1>2, <1>3, Views DEF Inv, LateInv, Post
<1>9. SeenInv'
  BY <1>1, <1>2, <1>3 DEF Inv, SeenInv, Post
<1> QED
  BY <1>4, <1>5, <1>6, <1>7, <1>8, <1>9 DEF Inv

LEMMA ForceCheckRight ==
    ASSUME Inv, Here, NEW t \in Thread, ForceCheck(t) PROVE Inv'
<1>1. TypeOK'
  BY NumberAssumption DEF Inv, TypeOK, ForceCheck
<1>2. ListsInv'
  BY DEF Inv, ListsInv, ForceCheck
<1>3. Ordered(stack)'
  BY DEF Inv, ForceCheck
<1>4. KeptInv'
  BY DEF Inv, KeptInv, OnClock, ForceCheck
<1>5. LateInv'
  BY DEF Inv, LateInv, ForceCheck
<1>6. SeenInv'
  BY NumberAssumption DEF Inv, TypeOK, SeenInv, ForceCheck
<1> QED
  BY <1>1, <1>2, <1>3, <1>4, <1>5, <1>6 DEF Inv

LEMMA LookForSleeperRight ==
    ASSUME Inv, Here, NEW t \in Thread, LookForSleeper(t) PROVE Inv'
<1>1. TypeOK'
  BY DEF Inv, TypeOK, LookForSleeper
<1>2. ListsInv'
  BY DEF Inv, ListsInv, LookForSleeper
<1>3. Ordered(stack)'
  BY DEF Inv, LookForSleeper
<1>4. KeptInv'
  BY DEF Inv, KeptInv, OnClock, LookForSleeper
<1>5. LateInv'
  BY DEF Inv, LateInv, LookForSleeper
<1>6. SeenInv'
  BY DEF Inv, SeenInv, LookForSleeper
<1> QED
  BY <1>1, <1>2, <1>3, <1>4, <1>5, <1>6 DEF Inv

LEMMA SignalRight ==
    ASSUME Inv, Here, NEW t \in Thread, Signal(t) PROVE Inv'
<1>1. TypeOK'
  BY DEF Inv, TypeOK, Signal
<1>2. ListsInv'
  BY DEF Inv, ListsInv, Signal
<1>3. Ordered(stack)'
  BY DEF Inv, Signal
<1>4. KeptInv'
  BY DEF Inv, KeptInv, OnClock, Signal
<1>5. LateInv'
  BY DEF Inv, LateInv, Signal
<1>6. SeenInv'
  BY DEF Inv, SeenInv, Signal
<1> QED
  BY <1>1, <1>2, <1>3, <1>4, <1>5, <1>6 DEF Inv

LEMMA GrabRight == ASSUME Inv, Here, Grab PROVE Inv'
<1>1. CASE asynq = <<>>
  <2>1. stack # <<>> /\ stack' = Tail(stack)
    BY <1>1 DEF Grab, Return
  <2>2. TypeOK'
    BY <1>1, <2>1 DEF Inv, TypeOK, Grab
  <2>3. ListsInv'
    BY <1>1, <2>1 DEF Inv, Here, Parts, ListsInv, Grab
  <2>4. Ordered(stack)'
    BY <1>1, <2>1 DEF Inv, Here, Parts, Grab
  <2>5. KeptInv'
    BY <1>1, <2>1, UnitAssumption
    DEF Inv, Here, Parts, FrameOK, KeptInv, OnClock, Grab
  <2>6. LateInv'
    BY <1>1, <2>1 DEF Inv, Here, Known, LateInv, Grab
  <2>7. SeenInv'
    BY <1>1, <2>1, NumberAssumption DEF Inv, TypeOK, SeenInv, Grab
  <2> QED
    BY <2>2, <2>3, <2>4, <2>5, <2>6, <2>7 DEF Inv
<1>2. CASE asynq # <<>>
  <2>1. /\ stack # <<>> /\ stack' \in Seq(Frames) /\ stack' # <<>>
        /\ Parts(stack')
        /\ Tail(stack') = Tail(stack) /\ Head(stack').at = "apply"
        /\ Head(stack').unit = Head(asynq) /\ Head(stack').delay \in Nat
        /\ Head(stack').list = Tail(asynq)
    <3> DEFINE f == TakeFirst(asynq)
    <3>1. stack # <<>> /\ stack' = <<f>> \o Tail(stack)
      BY <1>2 DEF Grab, Become
    <3>2. /\ f \in Frames /\ f.at = "apply" /\ f.unit = Head(asynq)
          /\ f.delay \in Nat /\ f.list = Tail(asynq)
      BY <3>1, <1>2, TakeFirstRight DEF Inv, TypeOK
    <3> HIDE DEF f
    <3>3. Tail(stack) \in Seq(Frames)
      BY <3>1 DEF Here
    <3> QED
      BY <3>1, <3>2, <3>3, PushRight
  <2>2. TypeOK'
    BY <1>2, <2>1 DEF Inv, TypeOK, Grab
  <2>3. ListsInv'
    BY <1>2, <2>1 DEF Inv, Here, Known, Parts, ListsInv, Grab
  <2>4. Ordered(stack)'
    BY <1>2, <2>1, Numbers, UnitAssumption
    DEF Inv, Here, Known, Parts, FrameOK, Grab
  <2>5. KeptInv'
    BY <1>2, <2>1, Numbers, UnitAssumption
    DEF Inv, Here, Known, Parts, FrameOK, KeptInv, OnClock, Grab
  <2>6. LateInv'
    BY <1>2, <2>1 DEF Inv, Here, Known, LateInv, Grab
  <2>7. SeenInv'
    BY <1>2, <2>1, NumberAssumption DEF Inv, TypeOK, SeenInv, Grab
  <2> QED
    BY <2>2, <2>3, <2>4, <2>5, <2>6, <2>7 DEF Inv
<1> QED
  BY <1>1, <1>2 DEF Grab

LEMMA ApplyRight == ASSUME Inv, Here, Apply PROVE Inv'
<1>1. /\ stack # <<>> /\ Head(stack).unit \in Unit /\ Head(stack).delay \in Nat
      /\ Head(stack).list \in Seq(Unit)
  BY DEF Apply, Inv, Here, Parts, FrameOK, Frames
<1>2. /\ stack' \in Seq(Frames) /\ stack' # <<>> /\ Parts(stack')
      /\ Head(stack').unit = Head(stack).unit
      /\ Head(stack').delay = Head(stack).delay /\ Head(stack').list = <<>>
      /\ Head(stack').at \in {"drain", "cancel"}
      /\ Tail(stack') # <<>> /\ Parts(Tail(stack'))
      /\ Tail(Tail(stack')) = Tail(stack) /\ Head(Tail(stack')).at = "take"
      /\ Head(Tail(stack')).unit = NoUnit /\ Head(Tail(stack')).delay = 0
      /\ Head(Tail(stack')).list = Head(stack).list
  <2> DEFINE f == Called(a_call[Top.unit], Top.unit, Top.delay)
             g == Frame("take", NoUnit, 0, Top.list)
  <2>1. stack' = <<f, g>> \o Tail(stack)
    BY DEF Apply
  <2>2. a_call[Head(stack).unit] \in {"activate", "abs"}
    BY <1>1 DEF Inv, TypeOK
  <2>3. /\ f \in Frames /\ f.unit = Head(stack).unit
        /\ f.delay = Head(stack).delay /\ f.list = <<>>
        /\ f.at \in {"drain", "cancel"}
    <3>1. IsCalled(f, Head(stack).unit, Head(stack).delay)
      BY <1>1, <2>2, Numbers, CalledRight
    <3> QED
      BY <3>1 DEF IsCalled
  <2>4. /\ g \in Frames /\ g.at = "take" /\ g.unit = NoUnit /\ g.delay = 0
        /\ g.list = Head(stack).list
    <3>1. IsFrame(g, "take", NoUnit, 0, Head(stack).list)
      BY <1>1, FrameRight
    <3> QED
      BY <3>1 DEF IsFrame
  <2> HIDE DEF f, g
  <2>5. Tail(stack) \in Seq(Frames)
    BY <1>1 DEF Here
  <2>6. TwoOn(stack', f, g, Tail(stack))
    BY <2>1, <2>3, <2>4, <2>5, TwoFrames
  <2> QED
    BY <2>3, <2>4, <2>6 DEF TwoOn
<1>3. TypeOK'
  BY <1>1, <1>2 DEF Inv, TypeOK, Apply
<1>4. ListsInv'
  BY <1>1, <1>2 DEF Inv, Here, Known, Parts, ListsInv, Apply
<1>5. Ordered(stack)'
  BY <1>1, <1>2, Numbers DEF Inv, Here, Parts, FrameOK, Apply
<1>6. KeptInv'
  BY <1>1, <1>2 DEF Inv, Here, Parts, KeptInv, OnClock, Apply
<1>7. LateInv'
  BY <1>1, <1>2, Numbers DEF Inv, Here, Parts, LateInv, Starting, Apply
<1>8. SeenInv'
  BY <1>1, <1>2 DEF Inv, SeenInv, Apply
<1> QED
  BY <1>3, <1>4, <1>5, <1>6, <1>7, <1>8 DEF Inv

LEMMA TakeRight == ASSUME Inv, Here, Take PROVE Inv'
<1>1. CASE Head(stack).list = <<>>
  <2>1. stack # <<>> /\ stack' = Tail(stack)
    BY <1>1 DEF Take, Return
  <2>2. TypeOK'
    BY <1>1, <2>1 DEF Inv, TypeOK, Take
  <2>3. ListsInv'
    BY <1>1, <2>1 DEF Inv, Here, Parts, ListsInv, Take
  <2>4. Ordered(stack)'
    BY <1>1, <2>1 DEF Inv, Here, Parts, Take
  <2>5. KeptInv'
    BY <1>1, <2>1, UnitAssumption
    DEF Inv, Here, Known, Parts, FrameOK, KeptInv, OnClock, Take
  <2>6. LateInv'
    BY <1>1, <2>1, Empty DEF Inv, Here, Parts, LateInv, Starting, Take
  <2>7. SeenInv'
    BY <1>1, <2>1 DEF Inv, SeenInv, Take
  <2> QED
    BY <2>2, <2>3, <2>4, <2>5, <2>6, <2>7 DEF Inv
<1>2. CASE Head(stack).list # <<>>
  <2>1. /\ stack # <<>> /\ stack' \in Seq(Frames) /\ stack' # <<>>
        /\ Parts(stack')
        /\ Tail(stack') = Tail(stack) /\ Head(stack').at = "apply"
        /\ Head(stack').unit = Head(Head(stack).list)
        /\ Head(stack').delay \in Nat
        /\ Head(stack').list = Tail(Head(stack).list)
    <3> DEFINE f == TakeFirst(Head(stack).list)
    <3>1. stack # <<>> /\ stack' = <<f>> \o Tail(stack)
      BY <1>2 DEF Take, Become
    <3>2. /\ f \in Frames /\ f.at = "apply" /\ f.unit = Head(Head(stack).list)
          /\ f.delay \in Nat /\ f.list = Tail(Head(stack).list)
      BY <3>1, <1>2, TakeFirstRight DEF Inv, TypeOK, Here, Frames
    <3> HIDE DEF f
    <3>3. Tail(stack) \in Seq(Frames)
      BY <3>1 DEF Here
    <3> QED
      BY <3>1, <3>2, <3>3, PushRight
  <2>2. TypeOK'
    BY <1>2, <2>1 DEF Inv, TypeOK, Take
  <2>3. ListsInv'
    BY <1>2, <2>1 DEF Inv, Here, Known, Parts, ListsInv, Take
  <2>4. Ordered(stack)'
    BY <1>2, <2>1, Numbers, UnitAssumption
    DEF Inv, Here, Known, Parts, FrameOK, Take
  <2>5. KeptInv'
    BY <1>2, <2>1, Numbers, UnitAssumption
    DEF Inv, Here, Known, Parts, FrameOK, KeptInv, OnClock, Take
  <2>6. LateInv'
    BY <1>2, <2>1, Numbers DEF Inv, Here, Parts, LateInv, Starting, Take
  <2>7. SeenInv'
    BY <1>2, <2>1 DEF Inv, SeenInv, Take
  <2> QED
    BY <2>2, <2>3, <2>4, <2>5, <2>6, <2>7 DEF Inv
<1> QED
  BY <1>1, <1>2 DEF Take

LEMMA CancelRight == ASSUME Inv, Here, Cancel PROVE Inv'
<1>1. /\ stack' \in Seq(Frames) /\ stack' # <<>> /\ Parts(stack')
      /\ Head(stack') = UpdateQueue /\ Tail(stack') # <<>>
      /\ Parts(Tail(stack'))
      /\ Tail(Tail(stack')) = Tail(stack) /\ Head(Tail(stack')).at = "clock"
      /\ Head(Tail(stack')).unit = Head(stack).unit
      /\ Head(Tail(stack')).delay = Head(stack).delay
      /\ Head(Tail(stack')).list = Head(stack).list
  <2> DEFINE g == [Top EXCEPT !.at = "clock"]
  <2>1. stack # <<>> /\ stack' = <<UpdateQueue, g>> \o Tail(stack)
    BY DEF Cancel, CallThen
  <2>2. /\ g \in Frames /\ g.at = "clock" /\ g.unit = Head(stack).unit
        /\ g.delay = Head(stack).delay /\ g.list = Head(stack).list
    BY <2>1, MovedRight
  <2> HIDE DEF g
  <2>3. Tail(stack) \in Seq(Frames) /\ UpdateQueue \in Frames
    BY <2>1, UpdateQueueRight DEF Here
  <2>4. TwoOn(stack', UpdateQueue, g, Tail(stack))
    BY <2>1, <2>2, <2>3, TwoFrames
  <2> QED
    BY <2>2, <2>4 DEF TwoOn
<1>2. TypeOK'
  BY <1>1 DEF Inv, TypeOK, Cancel
<1>3. ListsInv'
  BY <1>1, UpdateQueueRight DEF Inv, Here, Known, Parts, ListsInv, Cancel
<1>4. Ordered(stack)'
  BY <1>1, UpdateQueueRight, Numbers DEF Inv, Here, Parts, FrameOK, Cancel
<1>5. KeptInv'
  BY <1>1 DEF Inv, Here, Parts, KeptInv, OnClock, Cancel
<1>6. LateInv'
  BY <1>1, UpdateQueueRight DEF Inv, Here, Parts, LateInv, Starting, Cancel
<1>7. SeenInv'
  BY <1>1 DEF Inv, SeenInv, Cancel
<1> QED
  BY <1>2, <1>3, <1>4, <1>5, <1>6, <1>7 DEF Inv

LEMMA LookAtClockRight == ASSUME Inv, Here, LookAtClock PROVE Inv'
<1>1. CASE \E u \in Unit : OnClock(u)
  <2>1. /\ stack' \in Seq(Frames) /\ stack' # <<>> /\ Parts(stack')
        /\ Head(stack') = UpdateQueue /\ Tail(stack') # <<>>
        /\ Parts(Tail(stack'))
        /\ Tail(Tail(stack')) = Tail(stack) /\ Head(Tail(stack')).at = "remove"
        /\ Head(Tail(stack')).unit = Head(stack).unit
        /\ Head(Tail(stack')).delay = Head(stack).delay
        /\ Head(Tail(stack')).list = Head(stack).list
    <3> DEFINE g == [Top EXCEPT !.at = "remove"]
    <3>1. stack # <<>> /\ stack' = <<UpdateQueue, g>> \o Tail(stack)
      BY <1>1 DEF LookAtClock, CallThen
    <3>2. /\ g \in Frames /\ g.at = "remove" /\ g.unit = Head(stack).unit
          /\ g.delay = Head(stack).delay /\ g.list = Head(stack).list
      BY <3>1, MovedRight
    <3> HIDE DEF g
    <3>3. Tail(stack) \in Seq(Frames) /\ UpdateQueue \in Frames
      BY <3>1, UpdateQueueRight DEF Here
    <3>4. TwoOn(stack', UpdateQueue, g, Tail(stack))
      BY <3>1, <3>2, <3>3, TwoFrames
    <3> QED
      BY <3>2, <3>4 DEF TwoOn
  <2>2. TypeOK'
    BY <1>1, <2>1 DEF Inv, TypeOK, LookAtClock, AfterCancel
  <2>3. ListsInv'
    BY <1>1, <2>1, UpdateQueueRight
    DEF Inv, Here, Known, Parts, ListsInv, LookAtClock, AfterCancel
  <2>4. Ordered(stack)'
    BY <1>1, <2>1, Numbers, UpdateQueueRight
    DEF Inv, Here, Parts, FrameOK, LookAtClock, AfterCancel
  <2>5. KeptInv'
    BY <1>1, <2>1
    DEF Inv, Here, Parts, KeptInv, OnClock, LookAtClock, AfterCancel
  <2>6. LateInv'
    BY <1>1, <2>1
    DEF Inv, Here, Parts, LateInv, Starting, LookAtClock, AfterCancel
  <2>7. SeenInv'
    BY <1>1, <2>1 DEF Inv, SeenInv, LookAtClock, AfterCancel
  <2> QED
    BY <2>2, <2>3, <2>4, <2>5, <2>6, <2>7 DEF Inv
<1>2. CASE (\A u \in Unit : ~OnClock(u)) /\ Head(stack).delay = NoDelay
  <2>1. stack # <<>> /\ stack' = Tail(stack)
    BY <1>2 DEF LookAtClock, AfterCancel, Return
  <2>2. TypeOK'
    BY <1>2, <2>1 DEF Inv, TypeOK, LookAtClock, AfterCancel
  <2>3. ListsInv'
    BY <1>2, <2>1 DEF Inv, Here, Parts, ListsInv, LookAtClock, AfterCancel
  <2>4. Ordered(stack)'
    BY <1>2, <2>1 DEF Inv, Here, Parts, LookAtClock, AfterCancel
  <2>5. KeptInv'
    BY <1>2, <2>1
    DEF Inv, Here, Known, Parts, FrameOK, KeptInv, LookAtClock, AfterCancel
  <2>6. LateInv'
    BY <1>2, <2>1
    DEF Inv, Here, Parts, LateInv, Starting, LookAtClock, AfterCancel
  <2>7. SeenInv'
    BY <1>2, <2>1 DEF Inv, SeenInv, LookAtClock, AfterCancel
  <2> QED
    BY <2>2, <2>3, <2>4, <2>5, <2>6, <2>7 DEF Inv
<1>3. CASE (\A u \in Unit : ~OnClock(u)) /\ Head(stack).delay # NoDelay
  <2>1. /\ stack # <<>> /\ stack' \in Seq(Frames) /\ stack' # <<>>
        /\ Parts(stack')
        /\ Tail(stack') = Tail(stack) /\ Head(stack').at = "drain"
        /\ Head(stack').unit = Head(stack).unit
        /\ Head(stack').delay = Head(stack).delay
        /\ Head(stack').list = Head(stack).list
    <3> DEFINE f == [Top EXCEPT !.at = "drain"]
    <3>1. stack # <<>> /\ stack' = <<f>> \o Tail(stack)
      BY <1>3 DEF LookAtClock, AfterCancel, Become
    <3>2. /\ f \in Frames /\ f.at = "drain" /\ f.unit = Head(stack).unit
          /\ f.delay = Head(stack).delay /\ f.list = Head(stack).list
      BY <3>1, MovedRight
    <3> HIDE DEF f
    <3>3. Tail(stack) \in Seq(Frames)
      BY <3>1 DEF Here
    <3> QED
      BY <3>1, <3>2, <3>3, PushRight
  <2>2. TypeOK'
    BY <1>3, <2>1 DEF Inv, TypeOK, LookAtClock, AfterCancel
  <2>3. ListsInv'
    BY <1>3, <2>1 DEF Inv, Here, Parts, ListsInv, LookAtClock, AfterCancel
  <2>4. Ordered(stack)'
    BY <1>3, <2>1 DEF Inv, Here, Parts, FrameOK, LookAtClock, AfterCancel
  <2>5. KeptInv'
    BY <1>3, <2>1 DEF Inv, Here, Parts, KeptInv, LookAtClock, AfterCancel
  <2>6. LateInv'
    BY <1>3, <2>1
    DEF Inv, Here, Parts, LateInv, Starting, LookAtClock, AfterCancel
  <2>7. SeenInv'
    BY <1>3, <2>1 DEF Inv, SeenInv, LookAtClock, AfterCancel
  <2> QED
    BY <2>2, <2>3, <2>4, <2>5, <2>6, <2>7 DEF Inv
<1> QED
  BY <1>1, <1>2, <1>3 DEF LookAtClock

LEMMA WithdrawRight == ASSUME Inv, Here, Withdraw PROVE Inv'
<1>1. CASE Head(stack).delay = NoDelay
  <2>1. stack # <<>> /\ stack' = Tail(stack)
    BY <1>1 DEF Withdraw, AfterCancel, Return
  <2>2. TypeOK'
    BY <1>1, <2>1 DEF Inv, Here, TypeOK, Withdraw, AfterCancel
  <2>3. ListsInv'
    BY <1>1, <2>1 DEF Inv, Here, Parts, ListsInv, Withdraw, AfterCancel
  <2>4. Ordered(stack)'
    BY <1>1, <2>1 DEF Inv, Here, Parts, Withdraw, AfterCancel
  <2>5. KeptInv'
    BY <1>1, <2>1, Views
    DEF Inv, Here, Known, Parts, FrameOK, KeptInv, OnClock, Withdraw,
        AfterCancel
  <2>6. LateInv'
    BY <1>1, <2>1
    DEF Inv, Here, Parts, LateInv, Starting, Withdraw, AfterCancel
  <2>7. SeenInv'
    BY <1>1, <2>1 DEF Inv, SeenInv, Withdraw, AfterCancel
  <2> QED
    BY <2>2, <2>3, <2>4, <2>5, <2>6, <2>7 DEF Inv
<1>2. CASE Head(stack).delay # NoDelay
  <2>1. /\ stack # <<>> /\ stack' \in Seq(Frames) /\ stack' # <<>>
        /\ Parts(stack')
        /\ Tail(stack') = Tail(stack) /\ Head(stack').at = "drain"
        /\ Head(stack').unit = Head(stack).unit
        /\ Head(stack').delay = Head(stack).delay
        /\ Head(stack').list = Head(stack).list
    <3> DEFINE f == [Top EXCEPT !.at = "drain"]
    <3>1. stack # <<>> /\ stack' = <<f>> \o Tail(stack)
      BY <1>2 DEF Withdraw, AfterCancel, Become
    <3>2. /\ f \in Frames /\ f.at = "drain" /\ f.unit = Head(stack).unit
          /\ f.delay = Head(stack).delay /\ f.list = Head(stack).list
      BY <3>1, MovedRight
    <3> HIDE DEF f
    <3>3. Tail(stack) \in Seq(Frames)
      BY <3>1 DEF Here
    <3> QED
      BY <3>1, <3>2, <3>3, PushRight
  <2>2. TypeOK'
    BY <1>2, <2>1 DEF Inv, TypeOK, Withdraw, AfterCancel
  <2>3. ListsInv'
    BY <1>2, <2>1 DEF Inv, Here, Parts, ListsInv, Withdraw, AfterCancel
  <2>4. Ordered(stack)'
    BY <1>2, <2>1 DEF Inv, Here, Parts, FrameOK, Withdraw, AfterCancel
  <2>5. KeptInv'
    BY <1>2, <2>1
    DEF Inv, Here, Parts, TypeOK, KeptInv, OnClock, Withdraw, AfterCancel
  <2>6. LateInv'
    BY <1>2, <2>1
    DEF Inv, Here, Parts, LateInv, Starting, Withdraw, AfterCancel
  <2>7. SeenInv'
    BY <1>2, <2>1 DEF Inv, SeenInv, Withdraw, AfterCancel
  <2> QED
    BY <2>2, <2>3, <2>4, <2>5, <2>6, <2>7 DEF Inv
<1> QED
  BY <1>1, <1>2 DEF Withdraw

LEMMA DrainRight == ASSUME Inv, Here, Drain PROVE Inv'
<1>1. /\ stack' \in Seq(Frames) /\ stack' # <<>> /\ Parts(stack')
      /\ Head(stack') = UpdateQueue /\ Tail(stack') # <<>>
      /\ Parts(Tail(stack'))
      /\ Tail(Tail(stack')) = Tail(stack) /\ Head(Tail(stack')).at = "insert"
      /\ Head(Tail(stack')).unit = Head(stack).unit
      /\ Head(Tail(stack')).delay = Head(stack).delay
      /\ Head(Tail(stack')).list = Head(stack).list
  <2> DEFINE g == [Top EXCEPT !.at = "insert"]
  <2>1. stack # <<>> /\ stack' = <<UpdateQueue, g>> \o Tail(stack)
    BY DEF Drain, CallThen
  <2>2. /\ g \in Frames /\ g.at = "insert" /\ g.unit = Head(stack).unit
        /\ g.delay = Head(stack).delay /\ g.list = Head(stack).list
    BY <2>1, MovedRight
  <2> HIDE DEF g
  <2>3. Tail(stack) \in Seq(Frames) /\ UpdateQueue \in Frames
    BY <2>1, UpdateQueueRight DEF Here
  <2>4. TwoOn(stack', UpdateQueue, g, Tail(stack))
    BY <2>1, <2>2, <2>3, TwoFrames
  <2> QED
    BY <2>2, <2>4 DEF TwoOn
<1>2. TypeOK'
  BY <1>1 DEF Inv, TypeOK, Drain
<1>3. ListsInv'
  BY <1>1, UpdateQueueRight DEF Inv, Here, Known, Parts, ListsInv, Drain
<1>4. Ordered(stack)'
  BY <1>1, UpdateQueueRight, Numbers DEF Inv, Here, Parts, FrameOK, Drain
<1>5. KeptInv'
  BY <1>1 DEF Inv, Here, Parts, KeptInv, OnClock, Drain
<1>6. LateInv'
  BY <1>1 DEF Inv, Here, Parts, LateInv, Starting, Drain
<1>7. SeenInv'
  BY <1>1 DEF Inv, SeenInv, Drain
<1> QED
  BY <1>2, <1>3, <1>4, <1>5, <1>6, <1>7 DEF Inv

LEMMA InsertRight == ASSUME Inv, Here, Insert PROVE Inv'
<1>1. stack # <<>> /\ stack' = Tail(stack)
  BY DEF Insert, Return
<1>2. /\ Head(stack).unit \in Unit /\ Head(stack).delay \in Nat
      /\ Head(stack).list = <<>>
  BY <1>1 DEF Insert, Inv, Here, Parts, FrameOK, Frames
<1>3. /\ wait' \in [Unit -> Nat \cup {NotQueued}]
      /\ \A u \in Unit : wait[u] # NotQueued => wait'[u] # NotQueued
      /\ wait'[Head(stack).unit] # NotQueued \/ Listed(Head(stack).unit)
  <2>1. wait \in [Unit -> Nat \cup {NotQueued}]
    BY DEF Inv, TypeOK
  <2>2. CASE IsActive(Head(stack).unit)
    BY <2>1, <2>2 DEF Insert, IsActive, OnClock
  <2>3. CASE ~IsActive(Head(stack).unit)
    BY <1>2, <2>1, <2>3, Numbers DEF Insert, IsActive
  <2> QED
    BY <2>2, <2>3
<1>4. TypeOK'
  BY <1>1, <1>2, <1>3 DEF Inv, TypeOK, Insert
<1>5. ListsInv'
  BY <1>1, <1>2, <1>3 DEF Inv, Here, Parts, ListsInv, Insert
<1>6. Ordered(stack)'
  BY <1>1, <1>2, <1>3 DEF Inv, Here, Parts, Insert
<1>7. KeptInv'
  <2> SUFFICES ASSUME NEW u \in Unit, u \in asked
               PROVE  \/ wait'[u] # NotQueued \/ u \in ToSet(asynq)
                      \/ InLists(stack', u) \/ InHands(stack', u)
    BY DEF KeptInv, OnClock, Insert
  <2>1. CASE u = Head(stack).unit
    BY <1>1, <1>2, <1>3, <2>1, Views DEF Here, Known, Parts
  <2>2. CASE u # Head(stack).unit
    BY <1>1, <1>2, <1>3, <2>2 DEF Inv, Here, Known, Parts, KeptInv, OnClock
  <2> QED
    BY <2>1, <2>2
<1>8. LateInv'
  BY <1>1, <1>2, <1>3, Empty DEF Inv, Here, Parts, LateInv, Starting, Insert
<1>9. SeenInv'
  BY <1>1, <1>2, <1>3 DEF Inv, SeenInv, Insert
<1> QED
  BY <1>4, <1>5, <1>6, <1>7, <1>8, <1>9 DEF Inv

LEMMA CheckLoadRight == ASSUME Inv, Here, CheckLoad PROVE Inv'
<1>1. TypeOK'
  BY DEF Inv, TypeOK, CheckLoad
<1>2. ListsInv'
  BY DEF Inv, ListsInv, CheckLoad
<1>3. Ordered(stack)'
  BY DEF Inv, CheckLoad
<1>4. KeptInv'
  BY DEF Inv, KeptInv, OnClock, CheckLoad
<1>5. LateInv'
  BY DEF Inv, LateInv, CheckLoad
<1>6. SeenInv'
  BY DEF Inv, SeenInv, CheckLoad
<1> QED
  BY <1>1, <1>2, <1>3, <1>4, <1>5, <1>6 DEF Inv

LEMMA CheckStoreRight == ASSUME Inv, Here, CheckStore PROVE Inv'
<1>1. CASE Overdue
  <2>1. /\ stack = <<>> /\ stack' \in Seq(Frames) /\ stack' # <<>>
        /\ Parts(stack')
        /\ Tail(stack') = <<>> /\ Head(stack').at = "grab"
        /\ Head(stack').unit = NoUnit /\ Head(stack').delay = 0
        /\ Head(stack').list = <<>>
    <3> DEFINE f == UpdateQueue
    <3>1. stack = <<>> /\ stack' = <<f>>
      BY <1>1 DEF CheckStore
    <3>2. /\ f \in Frames /\ f.at = "grab" /\ f.unit = NoUnit /\ f.delay = 0
          /\ f.list = <<>>
      BY UpdateQueueRight
    <3> HIDE DEF f
    <3> QED
      BY <3>1, <3>2, OneFrame
  <2>2. TypeOK'
    BY <1>1, <2>1, NumberAssumption
    DEF Inv, TypeOK, CheckStore, Overdue, SeenInv
  <2>3. ListsInv'
    BY <1>1, <2>1 DEF Inv, Here, Known, Parts, ListsInv, CheckStore, Overdue
  <2>4. Ordered(stack)'
    BY <1>1, <2>1, Numbers DEF Inv, Parts, FrameOK, CheckStore, Overdue
  <2>5. KeptInv'
    BY <1>1, <2>1 DEF Inv, Parts, KeptInv, OnClock, CheckStore, Overdue
  <2>6. LateInv'
    BY <1>1, <2>1, Numbers DEF Inv, Parts, LateInv, CheckStore, Overdue
  <2>7. SeenInv'
    <3>1. /\ loaded \in Int /\ unseen \in Nat /\ loaded < 1
          /\ pc = "store" /\ unseen' = unseen /\ pc' = "migrated"
      BY <1>1 DEF Inv, TypeOK, CheckStore, Overdue
    <3>2. unseen <= INST_LATENCY + 1
      BY <3>1, NumberAssumption DEF Inv, SeenInv
    <3> QED
      BY <2>1, <3>1, <3>2 DEF SeenInv
  <2> QED
    BY <2>2, <2>3, <2>4, <2>5, <2>6, <2>7 DEF Inv
<1>2. CASE ~Overdue
  <2>1. stack = <<>> /\ stack' = <<>>
    BY <1>2 DEF CheckStore
  <2>2. TypeOK'
    BY <1>2, <2>1, NumberAssumption
    DEF Inv, TypeOK, CheckStore, Overdue, SeenInv
  <2>3. ListsInv'
    BY <1>2, <2>1 DEF Inv, ListsInv, CheckStore, Overdue
  <2>4. Ordered(stack)'
    BY <1>2, <2>1 DEF Inv, CheckStore, Overdue
  <2>5. KeptInv'
    BY <1>2, <2>1 DEF Inv, KeptInv, OnClock, CheckStore, Overdue
  <2>6. LateInv'
    BY <1>2, <2>1 DEF Inv, LateInv, CheckStore, Overdue
  <2>7. SeenInv'
    BY <1>2, <2>1, NumberAssumption
    DEF Inv, TypeOK, SeenInv, CheckStore, Overdue
  <2> QED
    BY <2>2, <2>3, <2>4, <2>5, <2>6, <2>7 DEF Inv
<1> QED
  BY <1>1, <1>2 DEF CheckStore

LEMMA RearmRight == ASSUME Inv, Here, Rearm PROVE Inv'
<1>1. TypeOK'
  BY NumberAssumption DEF Inv, TypeOK, Rearm
<1>2. ListsInv'
  BY DEF Inv, ListsInv, Rearm
<1>3. Ordered(stack)'
  BY DEF Inv, Rearm
<1>4. KeptInv'
  BY DEF Inv, KeptInv, OnClock, Rearm
<1>5. LateInv'
  BY DEF Inv, LateInv, Rearm
<1>6. SeenInv'
  BY NumberAssumption DEF Inv, SeenInv, Rearm
<1> QED
  BY <1>1, <1>2, <1>3, <1>4, <1>5, <1>6 DEF Inv

LEMMA PollRight == ASSUME Inv, Here, Poll PROVE Inv'
<1>1. CASE Due # {}
  <2>1. /\ stack = <<>> /\ stack' \in Seq(Frames) /\ stack' # <<>>
        /\ Parts(stack')
        /\ Tail(stack') = <<>> /\ Head(stack').at = "grab"
        /\ Head(stack').unit = NoUnit /\ Head(stack').delay = 0
        /\ Head(stack').list = <<>>
    <3> DEFINE f == UpdateQueue
    <3>1. stack = <<>> /\ stack' = <<f>>
      BY <1>1 DEF Poll
    <3>2. /\ f \in Frames /\ f.at = "grab" /\ f.unit = NoUnit /\ f.delay = 0
          /\ f.list = <<>>
      BY UpdateQueueRight
    <3> HIDE DEF f
    <3> QED
      BY <3>1, <3>2, OneFrame
  <2>2. TypeOK'
    BY <1>1, <2>1 DEF Inv, TypeOK, Poll
  <2>3. ListsInv'
    BY <1>1, <2>1 DEF Inv, Here, Known, Parts, ListsInv, Poll
  <2>4. Ordered(stack)'
    BY <1>1, <2>1, Numbers DEF Inv, Parts, FrameOK, Poll
  <2>5. KeptInv'
    BY <1>1, <2>1 DEF Inv, Parts, KeptInv, OnClock, Poll
  <2>6. LateInv'
    BY <1>1, <2>1, Numbers DEF Inv, Parts, LateInv, Poll
  <2>7. SeenInv'
    BY <1>1, <2>1 DEF Inv, SeenInv, Poll
  <2> QED
    BY <2>2, <2>3, <2>4, <2>5, <2>6, <2>7 DEF Inv
<1>2. CASE Due = {}
  <2>1. stack = <<>> /\ stack' = <<>>
    BY <1>2 DEF Poll
  <2>2. TypeOK'
    BY <1>2, <2>1 DEF Inv, TypeOK, Poll
  <2>3. ListsInv'
    BY <1>2, <2>1 DEF Inv, ListsInv, Poll
  <2>4. Ordered(stack)'
    BY <1>2, <2>1 DEF Inv, Poll
  <2>5. KeptInv'
    BY <1>2, <2>1 DEF Inv, KeptInv, OnClock, Poll
  <2>6. LateInv'
    BY <1>2, <2>1 DEF Inv, LateInv, Poll
  <2>7. SeenInv'
    BY <1>2, <2>1 DEF Inv, SeenInv, Poll
  <2> QED
    BY <2>2, <2>3, <2>4, <2>5, <2>6, <2>7 DEF Inv
<1> QED
  BY <1>1, <1>2 DEF Poll

LEMMA DispatchRight ==
    ASSUME Inv, Here, NEW u \in Unit, Dispatch(u) PROVE Inv'
<1>1. TypeOK'
  BY DEF Inv, TypeOK, Dispatch
<1>2. ListsInv'
  BY DEF Inv, ListsInv, Dispatch
<1>3. Ordered(stack)'
  BY DEF Inv, Dispatch
<1>4. KeptInv'
  BY Views DEF Inv, KeptInv, OnClock, Dispatch
<1>5. LateInv'
  BY DEF Inv, LateInv, Dispatch
<1>6. SeenInv'
  BY DEF Inv, SeenInv, Dispatch
<1> QED
  BY <1>1, <1>2, <1>3, <1>4, <1>5, <1>6 DEF Inv

LEMMA DispatchDoneRight == ASSUME Inv, Here, DispatchDone PROVE Inv'
<1>1. TypeOK'
  BY DEF Inv, TypeOK, DispatchDone
<1>2. ListsInv'
  BY DEF Inv, ListsInv, DispatchDone
<1>3. Ordered(stack)'
  BY DEF Inv, DispatchDone
<1>4. KeptInv'
  BY DEF Inv, KeptInv, OnClock, DispatchDone
<1>5. LateInv'
  BY DEF Inv, LateInv, DispatchDone
<1>6. SeenInv'
  BY DEF Inv, SeenInv, DispatchDone
<1> QED
  BY <1>1, <1>2, <1>3, <1>4, <1>5, <1>6 DEF Inv

LEMMA MainCallRight ==
    ASSUME Inv, Here, NEW u \in Unit, NEW c \in {"activate", "abs", "cancel"},
           NEW d \in Nat \cup {NoDelay}, c = "cancel" <=> d = NoDelay,
           MainCall(u, c, d)
    PROVE  Inv'
<1>1. /\ stack = <<>> /\ stack' \in Seq(Frames) /\ stack' # <<>>
      /\ Parts(stack')
      /\ Tail(stack') = <<>> /\ Head(stack').unit = u
      /\ Head(stack').delay = d /\ Head(stack').list = <<>>
      /\ Head(stack').at \in {"drain", "cancel"}
      /\ (d = NoDelay => Head(stack').at = "cancel")
  <2> DEFINE f == Called(c, u, d)
  <2>1. stack = <<>> /\ stack' = <<f>>
    BY DEF MainCall
  <2>2. /\ f \in Frames /\ f.unit = u /\ f.delay = d /\ f.list = <<>>
        /\ f.at \in {"drain", "cancel"} /\ (d = NoDelay => f.at = "cancel")
    <3>1. IsCalled(f, u, d)
      BY CalledRight
    <3> QED
      BY <3>1 DEF IsCalled
  <2> HIDE DEF f
  <2> QED
    BY <2>1, <2>2, OneFrame
<1>2. TypeOK'
  BY <1>1 DEF Inv, TypeOK, MainCall
<1>3. ListsInv'
  BY <1>1 DEF Inv, Here, Known, Parts, ListsInv, MainCall
<1>4. Ordered(stack)'
  BY <1>1, UnitAssumption DEF Inv, Parts, FrameOK, MainCall
<1>5. KeptInv'
  BY <1>1 DEF Inv, Parts, KeptInv, OnClock, MainCall
<1>6. LateInv'
  BY <1>1 DEF Inv, Parts, LateInv, Starting, MainCall
<1>7. SeenInv'
  BY <1>1 DEF Inv, SeenInv, MainCall
<1> QED
  BY <1>2, <1>3, <1>4, <1>5, <1>6, <1>7 DEF Inv

LEMMA ActionReturnsRight == ASSUME Inv, Here, ActionReturns PROVE Inv'
<1>1. TypeOK'
  BY DEF Inv, TypeOK, ActionReturns
<1>2. ListsInv'
  BY DEF Inv, ListsInv, ActionReturns
<1>3. Ordered(stack)'
  BY DEF Inv, ActionReturns
<1>4. KeptInv'
  BY DEF Inv, KeptInv, OnClock, ActionReturns
<1>5. LateInv'
  BY DEF Inv, LateInv, ActionReturns
<1>6. SeenInv'
  BY DEF Inv, SeenInv, ActionReturns
<1> QED
  BY <1>1, <1>2, <1>3, <1>4, <1>5, <1>6 DEF Inv

LEMMA ExecuteRight == ASSUME Inv, Here, Execute PROVE Inv'
<1>1. /\ wait' \in [Unit -> Nat \cup {NotQueued}]
      /\ \A u \in Unit : wait[u] # NotQueued => wait'[u] # NotQueued
  BY ElapseRight DEF Inv, TypeOK, Execute
<1>2. TypeOK'
  BY <1>1 DEF Inv, TypeOK, Execute
<1>3. ListsInv'
  BY <1>1 DEF Inv, ListsInv, Execute
<1>4. Ordered(stack)'
  BY <1>1 DEF Inv, Execute
<1>5. KeptInv'
  BY <1>1 DEF Inv, KeptInv, OnClock, Execute
<1>6. LateInv'
  BY <1>1 DEF Inv, LateInv, Execute
<1>7. SeenInv'
  BY <1>1, NumberAssumption DEF Inv, TypeOK, SeenInv, Execute
<1> QED
  BY <1>2, <1>3, <1>4, <1>5, <1>6, <1>7 DEF Inv

LEMMA SleepRight == ASSUME Inv, Here, Sleep PROVE Inv'
<1>1. TypeOK'
  BY DEF Inv, TypeOK, Sleep
<1>2. ListsInv'
  BY DEF Inv, ListsInv, Sleep
<1>3. Ordered(stack)'
  BY DEF Inv, Sleep
<1>4. KeptInv'
  BY DEF Inv, KeptInv, OnClock, Sleep
<1>5. LateInv'
  BY DEF Inv, LateInv, Sleep
<1>6. SeenInv'
  BY DEF Inv, SeenInv, Sleep
<1> QED
  BY <1>1, <1>2, <1>3, <1>4, <1>5, <1>6 DEF Inv

LEMMA WakeRight == ASSUME Inv, Here, Wake PROVE Inv'
<1>1. /\ stack = <<>> /\ stack' \in Seq(Frames) /\ stack' # <<>>
      /\ Parts(stack')
      /\ Tail(stack') = <<>> /\ Head(stack').at = "grab"
      /\ Head(stack').unit = NoUnit /\ Head(stack').delay = 0
      /\ Head(stack').list = <<>>
  <2> DEFINE f == UpdateQueue
  <2>1. stack = <<>> /\ stack' = <<f>>
    BY DEF Wake
  <2>2. /\ f \in Frames /\ f.at = "grab" /\ f.unit = NoUnit /\ f.delay = 0
        /\ f.list = <<>>
    BY UpdateQueueRight
  <2> HIDE DEF f
  <2> QED
    BY <2>1, <2>2, OneFrame
<1>2. TypeOK'
  BY <1>1, NumberAssumption DEF Inv, TypeOK, Wake
<1>3. ListsInv'
  BY <1>1 DEF Inv, Here, Known, Parts, ListsInv, Wake
<1>4. Ordered(stack)'
  BY <1>1, Numbers DEF Inv, Parts, FrameOK, Wake
<1>5. KeptInv'
  BY <1>1 DEF Inv, Parts, KeptInv, OnClock, Wake
<1>6. LateInv'
  BY <1>1, Numbers DEF Inv, Parts, LateInv, Wake
<1>7. SeenInv'
  BY <1>1, NumberAssumption DEF Inv, TypeOK, SeenInv, Wake
<1> QED
  BY <1>2, <1>3, <1>4, <1>5, <1>6, <1>7 DEF Inv

LEMMA TimeoutRight == ASSUME Inv, Here, Timeout PROVE Inv'
<1>1. TypeOK'
  BY DEF Inv, TypeOK, Timeout
<1>2. ListsInv'
  BY DEF Inv, ListsInv, Timeout
<1>3. Ordered(stack)'
  BY DEF Inv, Timeout
<1>4. KeptInv'
  BY DEF Inv, KeptInv, OnClock, Timeout
<1>5. LateInv'
  BY DEF Inv, LateInv, Timeout
<1>6. SeenInv'
  BY DEF Inv, SeenInv, Timeout
<1> QED
  BY <1>1, <1>2, <1>3, <1>4, <1>5, <1>6 DEF Inv

LEMMA SleptRight ==
    ASSUME Inv, Here, NEW n \in 0..MaxIdle, Slept(n) PROVE Inv'
<1>1. /\ wait' \in [Unit -> Nat \cup {NotQueued}]
      /\ \A u \in Unit : wait[u] # NotQueued => wait'[u] # NotQueued
  BY ElapseRight DEF Inv, TypeOK, Slept
<1>2. TypeOK'
  BY <1>1 DEF Inv, TypeOK, Slept
<1>3. ListsInv'
  BY <1>1 DEF Inv, ListsInv, Slept
<1>4. Ordered(stack)'
  BY <1>1 DEF Inv, Slept
<1>5. KeptInv'
  BY <1>1 DEF Inv, KeptInv, OnClock, Slept
<1>6. LateInv'
  BY <1>1 DEF Inv, LateInv, Slept
<1>7. SeenInv'
  BY <1>1, NumberAssumption DEF Inv, TypeOK, SeenInv, Slept
<1> QED
  BY <1>2, <1>3, <1>4, <1>5, <1>6, <1>7 DEF Inv

LEMMA InitRight == Init => Inv
<1> SUFFICES ASSUME Init PROVE Inv
  OBVIOUS
<1>1. TypeOK
  <2>1. /\ a_time \in [Unit -> Nat] /\ a_call \in [Unit -> {"activate", "abs"}]
        /\ wait \in [Unit -> Nat \cup {NotQueued}]
        /\ tpc \in [Thread -> {"work", "force", "look", "signal"}]
    BY DEF Init
  <2>2. asynq \in Seq(Unit) /\ stack \in Seq(Frames)
    BY Empty DEF Init
  <2>3. /\ check \in -1..INST_LATENCY /\ loaded \in -1..INST_LATENCY
        /\ unseen \in Nat
    BY NumberAssumption DEF Init
  <2>4. posts \in 0..MaxPosts
    BY NumberAssumption DEF Init
  <2> QED
    BY <2>1, <2>2, <2>3, <2>4 DEF Init, TypeOK
<1>2. asynq = <<>> /\ stack = <<>> /\ Here
  BY <1>1, HereHolds DEF Init
<1> QED
  BY <1>1, <1>2, Empty, NumberAssumption
  DEF Init, Inv, Here, Known, ListsInv, KeptInv, LateInv, SeenInv

LEMMA StepRight == Inv /\ [Next]_vars => Inv'
<1> SUFFICES ASSUME Inv, [Next]_vars PROVE Inv'
  OBVIOUS
<1>1. Here
  BY HereHolds DEF Inv
<1>2. CASE ThreadStep
  BY <1>1, <1>2, PostRight, ForceCheckRight, LookForSleeperRight, SignalRight
  DEF ThreadStep, Announce
<1>3. CASE QueueStep
  BY <1>1, <1>3, GrabRight, ApplyRight, TakeRight, CancelRight,
     LookAtClockRight,
     WithdrawRight, DrainRight, InsertRight
  DEF QueueStep
<1>4. CASE Calls
  <2>1. /\ MainDelays \subseteq Nat \cup {NoDelay}
        /\ \A d \in MainDelays : d # NoDelay
    BY Numbers, NumberAssumption
  <2>2. PICK u \in Unit :
          \/ \E d \in MainDelays : MainCall(u, "activate", d)
          \/ \E d \in MainDelays : MainCall(u, "abs", d)
          \/ MainCall(u, "cancel", NoDelay)
    BY <1>4 DEF Calls
  <2>3. ASSUME NEW d \in MainDelays, MainCall(u, "activate", d) PROVE Inv'
    BY <1>1, <2>1, <2>3, MainCallRight
  <2>4. ASSUME NEW d \in MainDelays, MainCall(u, "abs", d) PROVE Inv'
    BY <1>1, <2>1, <2>4, MainCallRight
  <2>5. ASSUME MainCall(u, "cancel", NoDelay) PROVE Inv'
    BY <1>1, <2>5, MainCallRight
  <2> QED
    BY <2>2, <2>3, <2>4, <2>5
<1>5. CASE LoopStep
  BY <1>1, <1>5, CheckLoadRight, CheckStoreRight, RearmRight, PollRight,
     DispatchRight, DispatchDoneRight, ActionReturnsRight, ExecuteRight,
     SleepRight, WakeRight, TimeoutRight, SleptRight
  DEF LoopStep
<1>6. CASE UNCHANGED vars
  BY <1>6 DEF vars, Inv, TypeOK, ListsInv, KeptInv, LateInv, SeenInv, OnClock
<1> QED
  BY <1>2, <1>3, <1>4, <1>5, <1>6 DEF Next

LEMMA Invariance == Spec => []Inv
  BY InitRight, StepRight, PTL DEF Spec
-----------------------------------------------------------------------------
(* The theorems *)

\* The variables have their types; the stack is one of calls of this code.
THEOREM TypeCorrect == Spec => []TypeOK
<1>1. Inv => TypeOK
  BY DEF Inv
<1> QED
  BY <1>1, Invariance, PTL

\* A unit is on one list at most, and once: what a thread activates while the
\* main thread walks a private list is linked through a_next only if it is on
\* none.
THEOREM ListedOnce == Spec => []OneListAtATime
<1>1. Inv => OneListAtATime
  <2> SUFFICES ASSUME Inv PROVE OneListAtATime
    OBVIOUS
  <2>1. \A i \in DOMAIN stack : ToSet(stack[i].list) \subseteq Unit
    <3> SUFFICES ASSUME NEW i \in DOMAIN stack
                 PROVE  ToSet(stack[i].list) \subseteq Unit
      OBVIOUS
    <3>1. stack[i] \in Frames
      BY DEF Inv, TypeOK
    <3>2. stack[i].list \in Seq(Unit)
      BY <3>1 DEF Frames
    <3> QED
      BY <3>2, Members
  <2> QED
    BY <2>1 DEF Inv, ListsInv, Separate, InLists, OneListAtATime
<1> QED
  BY <1>1, Invariance, PTL

\* No activation by a thread is forgotten, however the update of the queue is
\* re-entered.
THEOREM NothingLost == Spec => []NoPostLost
<1>1. Inv => NoPostLost
  <2> SUFFICES ASSUME Inv PROVE NoPostLost
    OBVIOUS
  <2>1. \A u \in Unit : InHands(stack, u) => InTransit(u)
    BY DEF InHands, InTransit
  <2> QED
    BY <2>1 DEF Inv, KeptInv, NoPostLost, Listed, InLists
<1> QED
  BY <1>1, Invariance, PTL

\* The main thread looks at the list within the interrupt latency, however the
\* unlocked decrement and the threads' stores to sim_asynch_check interleave.
THEOREM LookedAtInTime == Spec => []SeenWithinLatency
<1>1. Inv => SeenWithinLatency
  BY NumberAssumption DEF Inv, TypeOK, SeenInv, SeenWithinLatency
<1> QED
  BY <1>1, Invariance, PTL

\* When sim_cancel returns the unit is off the clock queue, and on the list only
\* if a thread activated it after the call began.
THEOREM CancelComplete == Spec => CancelHolds
<1> DEFINE Holds ==
      \A u \in Unit :
          CancelReturns(u) => ~OnClock(u)' /\ (Listed(u)' => u \in late)
<1>1. Inv /\ [Next]_vars => [Holds]_vars
  <2> SUFFICES ASSUME Inv, Next, NEW u \in Unit, CancelReturns(u)
               PROVE  ~OnClock(u)' /\ (Listed(u)' => u \in late)
    BY DEF Holds
  <2>1. Here
    BY HereHolds DEF Inv
  <2>2. /\ stack # <<>> /\ stack' = <<>> /\ Head(stack).unit = u
        /\ Head(stack).delay = NoDelay
    <3>1. Len(stack) = 1 /\ Len(<<>>) = 0
      BY DEF CancelReturns
    <3>2. stack # <<>>
      <4> SUFFICES ASSUME stack = <<>> PROVE FALSE
        OBVIOUS
      <4>1. Len(stack) = 0
        BY <3>1
      <4> QED
        BY <3>1, <4>1
    <3>3. stack' = <<>> /\ Head(stack).unit = u /\ Head(stack).delay = NoDelay
      BY DEF CancelReturns
    <3> QED
      BY <3>2, <3>3
  <2>3. Tail(stack) = <<>> /\ Ending(stack)
    <3>1. Tail(stack) = <<>>
      BY <2>1, <2>2, LastOne DEF CancelReturns, Here
    <3> QED
      BY <2>1, <2>2, <3>1 DEF Here, Parts
  <2>4. ASSUME NEW p \in {"clock", "remove", "insert"}, CallThen(UpdateQueue, p)
        PROVE  FALSE
    <3> DEFINE g == [Top EXCEPT !.at = p]
    <3>1. g \in Frames /\ stack' = <<UpdateQueue, g>> \o Tail(stack)
      BY <2>1, <2>2, <2>4, MovedRight DEF CallThen
    <3> HIDE DEF g
    <3>2. TwoOn(stack', UpdateQueue, g, Tail(stack))
      BY <2>1, <2>2, <3>1, TwoFrames, UpdateQueueRight DEF Here
    <3> QED
      BY <2>2, <3>2 DEF TwoOn
  <2>5. Head(stack).at \in {"cancel", "clock", "remove"}
    BY <2>1, <2>2 DEF Inv, Here, Parts, FrameOK
  <2>6. LookAtClock \/ Withdraw
    <3>1. ~ThreadStep /\ ~LoopStep /\ ~Calls
      BY <2>2
      DEF ThreadStep, Post, Announce, ForceCheck, LookForSleeper, Signal,
         LoopStep, CheckLoad, CheckStore, Rearm, Poll, Dispatch, DispatchDone,
         ActionReturns, Execute, Sleep, Wake, Timeout, Slept, Calls, MainCall
    <3>2. ~Cancel /\ ~Grab /\ ~Apply /\ ~Take /\ ~Drain /\ ~Insert
      BY <2>4, <2>5 DEF Cancel, Grab, Apply, Take, Drain, Insert
    <3> QED
      BY <3>1, <3>2 DEF Next, QueueStep
  <2>7. wait'[u] = NotQueued /\ asynq' = asynq /\ Head(stack).at # "cancel"
    <3>1. CASE LookAtClock
      BY <2>4, <3>1 DEF LookAtClock, OnClock
    <3>2. CASE Withdraw
      BY <2>2, <3>2 DEF Inv, TypeOK, Withdraw
    <3> QED
      BY <2>6, <3>1, <3>2
  <2>8. ToSet(asynq) \subseteq late
    BY <2>2, <2>3, <2>7 DEF Inv, LateInv, Starting
  <2>9. Listed(u)' => u \in ToSet(asynq)
    BY <2>2, <2>7, Empty DEF Listed, InLists
  <2> QED
    BY <2>7, <2>8, <2>9 DEF OnClock
<1> QED
  BY <1>1, Invariance, PTL DEF Spec, CancelHolds

================================================================================
