---------------------------- MODULE DiskUnit_proofs ----------------------------
(***************************************************************************)
(* What DiskUnit does for any number of commands, transfers and delays.    *)
(*                                                                         *)
(* The inductive invariant says which call the main thread may be in at    *)
(* each place of its stack, where the I/O thread is, and that a callback   *)
(* that is set has one request in one place: asked for, at its end, on the *)
(* asynchronous queue, or taken from it.                                   *)
(***************************************************************************)
EXTENDS DiskUnit, SequenceTheorems, TLAPS

(* The stack of the main thread *)

\* Places with no call in progress.
Bottom == {"check", "poll", "due", "instr", "stopped", "scp"}

CancelPlaces == {"cancel", "clock", "remove"}

FlushPlaces == {"flush", "join", "restart", "startup", "fflush"}

GrabPlaces == {"grab", "migrate", "dispatch", "callback", "again", "later",
               "insert later"}

\* A call that is at place a may return to place b.
Over(a, b) ==
    \/ a \in GrabPlaces /\ b \in {"clock", "poll", "due", "scp"}
    \/ a = "grab"
       /\ b \in {"migrate", "remove", "insert", "insert later", "forget"}
    \/ a \in CancelPlaces /\ b \in {"again", "later", "flush", "check"}
    \/ a \in FlushPlaces /\ b \in {"update", "stopped", "scp"}
    \/ a = "update" /\ b = "forget"
    \/ a = "forget" /\ b \in {"check", "scp"}
    \/ a \in {"activate", "insert"} /\ b \in {"check", "instr"}
    \/ a \in {"service", "callback", "again", "later", "insert later"}
       /\ b = "instr"

Chained(s) ==
    /\ s # <<>> /\ s[Len(s)] \in Bottom
    /\ \A i \in 1..(Len(s) - 1) : Over(s[i], s[i + 1])

Inside(s, S) == \E i \in 1..Len(s) : s[i] \in S

Ends(s, b) == s # <<>> /\ s[Len(s)] = b

\* The guest aborts a command: its cancel is in progress.
Aborting(s) == Len(s) > 1 /\ Ends(s, "check") /\ s[Len(s) - 1] \in CancelPlaces

\* Calls that are made for a command.
Work == {"service", "activate", "insert", "callback", "again", "later",
         "insert later"}

\* Places inside which nothing is asked of the I/O thread.
Quiet == Work \cup {"remove"}

Cancelled == {"clock", "remove"}

\* How these depend on the place of the call and on the calls below.
Parts(s) ==
    LET h == Head(s)
        r == Tail(s)
    IN  /\ Chained(s) <=> IF r = <<>> THEN h \in Bottom
                          ELSE Over(h, Head(r)) /\ Chained(r)
        /\ Inside(s, Work) <=> h \in Work \/ Inside(r, Work)
        /\ Inside(s, Quiet) <=> h \in Quiet \/ Inside(r, Quiet)
        /\ Inside(s, Cancelled) <=> h \in Cancelled \/ Inside(r, Cancelled)
        /\ Ends(s, "scp") <=> IF r = <<>> THEN h = "scp" ELSE Ends(r, "scp")
        /\ Aborting(s) <=> \/ Aborting(r)
                           \/ /\ r # <<>> /\ Tail(r) = <<>>
                              /\ Head(r) = "check" /\ h \in CancelPlaces

LEMMA Empty ==
    /\ <<>> \in Seq(MainPlaces)
    /\ ~Inside(<<>>, Work) /\ ~Inside(<<>>, Quiet) /\ ~Inside(<<>>, Cancelled)
    /\ ~Aborting(<<>>) /\ ~Chained(<<>>)
  BY DEF Inside, Aborting, Chained

LEMMA LastOne ==
    ASSUME NEW s \in Seq(MainPlaces), s # <<>>
    PROVE  Tail(s) = <<>> <=> Len(s) = 1
<1>1. Tail(s) \in Seq(MainPlaces) /\ Len(s) \in Nat \ {0}
  OBVIOUS
<1>2. Len(Tail(s)) = Len(s) - 1
  OBVIOUS
<1>3. ASSUME NEW t \in Seq(MainPlaces) PROVE t = <<>> <=> Len(t) = 0
  OBVIOUS
<1> QED
  BY <1>1, <1>2, <1>3

LEMMA PartsOf == ASSUME NEW s \in Seq(MainPlaces), s # <<>> PROVE Parts(s)
<1> DEFINE h == Head(s)
           r == Tail(s)
<1>0. Len(s) \in Nat \ {0} /\ Len(r) \in Nat /\ Len(r) = Len(s) - 1
  OBVIOUS
<1>1. /\ r \in Seq(MainPlaces) /\ Len(s) \in Nat \ {0} /\ Len(r) = Len(s) - 1
      /\ s[1] = h /\ \A i \in 1..Len(r) : s[i + 1] = r[i]
  OBVIOUS
<1>2. r = <<>> <=> Len(s) = 1
  BY <1>1
<1> HIDE DEF h, r
<1>3. ASSUME NEW S PROVE Inside(s, S) <=> h \in S \/ Inside(r, S)
  <2>1. ASSUME Inside(s, S), h \notin S PROVE Inside(r, S)
    <3>1. PICK i \in 1..Len(s) : s[i] \in S
      BY <2>1 DEF Inside
    <3>2. i # 1
      BY <1>1, <2>1, <3>1
    <3>3. i - 1 \in 1..Len(r) /\ r[i - 1] = s[i]
      BY <1>1, <3>2
    <3> QED
      BY <3>1, <3>3 DEF Inside
  <2>2. ASSUME h \in S PROVE Inside(s, S)
    BY <1>1, <2>2 DEF Inside
  <2>3. ASSUME Inside(r, S) PROVE Inside(s, S)
    <3>1. PICK i \in 1..Len(r) : r[i] \in S
      BY <2>3 DEF Inside
    <3>2. i + 1 \in 1..Len(s) /\ s[i + 1] = r[i]
      BY <1>1, <3>1
    <3> QED
      BY <3>1, <3>2 DEF Inside
  <2> QED
    BY <2>1, <2>2, <2>3
<1>4. CASE r = <<>>
  <2>1. Chained(s) <=> h \in Bottom
    <3>1. Len(s) = 1 /\ s[1] = h
      BY <1>1, <1>2, <1>4
    <3>2. \A i \in 1..(Len(s) - 1) : FALSE
      BY <3>1
    <3> QED
      BY <1>4, <3>1, <3>2 DEF Chained
  <2>2. Ends(s, "scp") <=> h = "scp"
    BY <1>1, <1>2, <1>4 DEF Ends
  <2>3. ~Aborting(s) /\ ~Aborting(r)
    <3>1. ~(Len(s) > 1)
      BY <1>2, <1>4
    <3> QED
      BY <1>4, <3>1, Empty DEF Aborting
  <2> QED
    BY <1>3, <1>4, <2>1, <2>2, <2>3 DEF Parts, h, r
<1>5. CASE r # <<>>
  <2>1. Len(r) \in Nat \ {0} /\ s[Len(s)] = r[Len(r)] /\ Head(r) = r[1]
    BY <1>1, <1>2, <1>5
  <2>2. s # <<>> /\ s[2] = r[1]
    BY <1>1, <2>1
  <2>3. Chained(s) <=> Over(h, Head(r)) /\ Chained(r)
    <3>1. ASSUME Chained(s) PROVE Over(h, Head(r)) /\ Chained(r)
      <4>1. Over(s[1], s[2])
        BY <1>1, <2>1, <3>1 DEF Chained
      <4>2. ASSUME NEW i \in 1..(Len(r) - 1) PROVE Over(r[i], r[i + 1])
        <5>1. Over(s[i + 1], s[i + 2])
          BY <1>1, <3>1, i + 1 \in 1..(Len(s) - 1), i + 1 + 1 = i + 2
          DEF Chained
        <5>2. s[i + 1] = r[i] /\ s[i + 2] = r[i + 1]
          BY <1>1, i \in 1..Len(r), i + 1 \in 1..Len(r), i + 1 + 1 = i + 2
        <5> QED
          BY <5>1, <5>2
      <4> QED
        BY <1>1, <1>5, <2>1, <2>2, <3>1, <4>1, <4>2 DEF Chained
    <3>2. ASSUME Over(h, Head(r)), Chained(r) PROVE Chained(s)
      <4>1. ASSUME NEW i \in 1..(Len(s) - 1) PROVE Over(s[i], s[i + 1])
        <5>1. CASE i = 1
          BY <1>1, <2>1, <2>2, <3>2, <5>1
        <5>2. CASE i # 1
          <6>1. /\ i - 1 \in 1..(Len(r) - 1)
                /\ i - 1 \in 1..Len(r) /\ i \in 1..Len(r)
            BY <1>1, <5>2
          <6>2. Over(r[i - 1], r[i - 1 + 1])
            BY <3>2, <6>1 DEF Chained
          <6>3. s[i] = r[i - 1] /\ s[i + 1] = r[i] /\ i - 1 + 1 = i
            BY <1>1, <6>1
          <6> QED
            BY <6>2, <6>3
        <5> QED
          BY <5>1, <5>2
      <4> QED
        BY <1>1, <2>1, <3>2, <4>1 DEF Chained
    <3> QED
      BY <3>1, <3>2
  <2>4. Ends(s, "scp") <=> Ends(r, "scp")
    BY <1>5, <2>1, <2>2 DEF Ends
  <2>5. Aborting(s) <=>
          \/ Aborting(r)
          \/ Tail(r) = <<>> /\ Head(r) = "check" /\ h \in CancelPlaces
    <3>1. Tail(r) = <<>> <=> Len(r) = 1
      BY <1>1, <1>5, LastOne
    <3>0. Len(r) = 1 <=> Len(s) = 2
      BY <1>0
    <3>2. CASE Len(r) = 1
      <4>1. Len(s) > 1 /\ Len(s) - 1 = 1 /\ Len(s) = 2
        BY <3>0, <3>2
      <4>2. s[Len(s)] = Head(r) /\ s[Len(s) - 1] = h
        BY <1>1, <2>1, <3>2, <4>1
      <4>3. ~Aborting(r)
        BY <3>2 DEF Aborting
      <4> QED
        BY <1>5, <2>2, <3>0, <3>1, <3>2, <4>1, <4>2, <4>3 DEF Aborting, Ends
    <3>3. CASE Len(r) # 1
      <4>1. s[Len(s) - 1] = r[Len(r) - 1]
        BY <1>1, <2>1, <3>3
      <4> QED
        BY <1>1, <1>5, <2>1, <2>2, <3>1, <3>3, <4>1 DEF Aborting, Ends
    <3> QED
      BY <3>2, <3>3
  <2> QED
    BY <1>3, <1>5, <2>3, <2>4, <2>5 DEF Parts, h, r
<1> QED
  BY <1>4, <1>5

LEMMA RestOf ==
    \A s \in Seq(MainPlaces) :
       s # <<>> => Tail(s) \in Seq(MainPlaces) /\ Parts(s)
<1> SUFFICES ASSUME NEW s \in Seq(MainPlaces), s # <<>>
             PROVE  Tail(s) \in Seq(MainPlaces) /\ Parts(s)
  OBVIOUS
<1>1. Tail(s) \in Seq(MainPlaces)
  OBVIOUS
<1> QED
  BY <1>1, PartsOf

LEMMA LowOf ==
    ASSUME NEW s \in Seq(MainPlaces), Chained(s)
    PROVE  /\ Head(s) \in Bottom => Tail(s) = <<>>
           /\ Head(s) \in Bottom \cup {"forget", "update", "flush"} =>
                 ~Inside(s, Work) /\ ~Inside(s, Quiet) /\ ~Inside(s, Cancelled)
<1>1. s # <<>>
  BY DEF Chained
<1> DEFINE r == Tail(s)
           q == Tail(r)
           t == Tail(q)
<1>2. r \in Seq(MainPlaces) /\ Parts(s)
  BY <1>1, RestOf
<1>3. ASSUME r # <<>> PROVE q \in Seq(MainPlaces) /\ Parts(r)
  BY <1>2, <1>3, RestOf
<1>4. ASSUME r # <<>>, q # <<>> PROVE t \in Seq(MainPlaces) /\ Parts(q)
  BY <1>3, <1>4, RestOf
<1>5. ASSUME r # <<>>, q # <<>>, t # <<>> PROVE Parts(t)
  BY <1>4, <1>5, RestOf
<1> HIDE DEF r, q, t
<1>6. Head(s) \in Bottom => r = <<>>
  BY <1>2 DEF Parts, Over, Bottom, GrabPlaces, CancelPlaces, FlushPlaces, r
<1>7. ASSUME r # <<>>, Head(r) \in Bottom, Chained(r) PROVE q = <<>>
  BY <1>3, <1>7
  DEF Parts, Over, Bottom, GrabPlaces, CancelPlaces, FlushPlaces, q
<1>8. ASSUME r # <<>>, q # <<>>, Head(q) \in Bottom, Chained(q) PROVE t = <<>>
  BY <1>4, <1>8
  DEF Parts, Over, Bottom, GrabPlaces, CancelPlaces, FlushPlaces, t
<1>9. ASSUME r # <<>>, q # <<>>, t # <<>>, Head(t) \in Bottom, Chained(t)
      PROVE Tail(t) = <<>>
  BY <1>5, <1>9 DEF Parts, Over, Bottom, GrabPlaces, CancelPlaces, FlushPlaces
<1> QED
  BY <1>2, <1>3, <1>4, <1>5, <1>6, <1>7, <1>8, <1>9, Empty
  DEF Parts, Over, Bottom, GrabPlaces, CancelPlaces, FlushPlaces, Work, Quiet,
      Cancelled, r, q, t
-----------------------------------------------------------------------------
(* The inductive invariant *)

Caller(s) == IF Tail(s) = <<>> THEN "nothing" ELSE Head(Tail(s))

\* The main thread has taken the unit from the asynchronous queue, and has not
\* called the callback.
Draining ==
    At("migrate") \/ At("dispatch") \/ (At("grab") /\ Caller(main) = "migrate")

\* A request finds the thread waiting; a thread that is not there was told to
\* end.
ThreadInv ==
    /\ lock = "io" <=> io \in {"post", "again"}
    /\ io \in {"transfer", "done"} => dop
    /\ dop => io \in {"signalled", "transfer", "done"}
    /\ io = "signalled" /\ ~dop => ~asynch_io
    /\ io = "start" => At("startup")
    /\ At("startup") => asynch_io /\ io \in {"start", "wait"}
    /\ io = "none" => ~asynch_io
    /\ ~asynch_io => io = "none" \/ At("join")
    /\ At("join") \/ At("restart") => ~asynch_io
    /\ At("fflush") => io \in {"none", "wait"}

\* While the operator has the word no request is in the thread.
EnabledInv ==
    /\ ~enabled \/ Ends(main, "scp") \/ At("stopped") => ~dop /\ io # "post"
    /\ ~enabled /\ asynch_io => At("flush") /\ Caller(main) = "scp"

\* A callback that is set has one request, in one place.
TokenInv ==
    /\ callback <=> dop \/ io = "post" \/ posted \/ Draining
    /\ ~(dop /\ posted) /\ ~(dop /\ Draining) /\ ~(posted /\ Draining)
    /\ io = "post" => ~posted /\ ~Draining
    /\ callback /\ wait # NotQueued => At("dispatch")

QuietInv ==
    /\ Inside(main, Quiet) \/ At("clock") => ~callback
    /\ At("service") => wait = NotQueued
    /\ At("update") \/ At("forget") \/ Caller(main) \in {"update", "forget"} =>
          ~callback /\ wait = NotQueued
    /\ Inside(main, Cancelled) => ~dop /\ io \in {"none", "wait"}

\* Without a command the unit is at rest, or being cancelled.
CommandInv ==
    cpkt = NoPacket /\ ~Aborting(main) =>
        wait = NotQueued /\ ~callback /\ ~Inside(main, Work)

Inv ==
    /\ TypeOK /\ Chained(main)
    /\ ThreadInv /\ EnabledInv /\ TokenInv /\ QuietInv /\ CommandInv
-----------------------------------------------------------------------------
(* The bounds *)

Numbers ==
    /\ NotQueued \in NotQueued..MaxDelay /\ 0 \in NotQueued..MaxDelay
    /\ 0..MaxDelay \subseteq NotQueued..MaxDelay
    /\ NotQueued # 0 /\ ~(NotQueued > 0)
    /\ \A w \in NotQueued..MaxDelay :
          w > 0 => /\ w - 1 \in NotQueued..MaxDelay
                   /\ w - 1 # NotQueued /\ w # NotQueued
    /\ 0 \in 0..MaxTransfers
    /\ \A n \in 0..MaxTransfers : n > 0 => n - 1 \in 0..MaxTransfers

LEMMA NumbersHold == Numbers
  BY BoundAssumption DEF Numbers, NotQueued
-----------------------------------------------------------------------------
(* What a step does to the stack *)

\* The place of the main thread and what is below it.
Here ==
    /\ main \in Seq(MainPlaces) /\ main # <<>> /\ Parts(main)
    /\ Head(main) \in MainPlaces /\ Tail(main) \in Seq(MainPlaces)
    /\ Head(main) \in Bottom => Tail(main) = <<>>
    /\ Tail(main) # <<>> =>
          /\ Parts(Tail(main)) /\ Tail(Tail(main)) \in Seq(MainPlaces)
          /\ Head(Tail(main)) \in Bottom => Tail(Tail(main)) = <<>>
          /\ Head(Tail(main)) \in Bottom \cup {"forget", "update", "flush"} =>
                /\ ~Inside(Tail(main), Work) /\ ~Inside(Tail(main), Quiet)
                /\ ~Inside(Tail(main), Cancelled)

LEMMA HereHolds == ASSUME TypeOK, Chained(main) PROVE Here
<1>1. main \in Seq(MainPlaces) /\ main # <<>>
  BY DEF TypeOK
<1>2. Head(main) \in MainPlaces
  BY <1>1
<1>3. Tail(main) \in Seq(MainPlaces) /\ Parts(main)
  BY <1>1, RestOf
<1>4. Head(main) \in Bottom => Tail(main) = <<>>
  BY <1>1, LowOf
<1>5. ASSUME Tail(main) # <<>>
      PROVE  /\ Parts(Tail(main)) /\ Tail(Tail(main)) \in Seq(MainPlaces)
             /\ Chained(Tail(main))
  BY <1>3, <1>5, RestOf DEF Parts
<1> QED
  BY <1>1, <1>2, <1>3, <1>4, <1>5, LowOf DEF Here

LEMMA PushRight ==
    ASSUME NEW p \in MainPlaces, NEW r \in Seq(MainPlaces)
    PROVE  /\ <<p>> \o r \in Seq(MainPlaces) /\ <<p>> \o r # <<>>
           /\ Head(<<p>> \o r) = p /\ Tail(<<p>> \o r) = r
           /\ Parts(<<p>> \o r)
<1>1. /\ <<p>> \o r \in Seq(MainPlaces) /\ <<p>> \o r # <<>>
      /\ Head(<<p>> \o r) = p
  OBVIOUS
<1>2. Tail(<<p>> \o r) = r
  OBVIOUS
<1> QED
  BY <1>1, <1>2, PartsOf

LEMMA GotoRight ==
    ASSUME Here, NEW p \in MainPlaces, Goto(p)
    PROVE  /\ main' \in Seq(MainPlaces) /\ main' # <<>> /\ Parts(main')
           /\ Head(main') = p /\ Tail(main') = Tail(main)
  BY PushRight DEF Goto, Here

LEMMA CallRight ==
    ASSUME Here, NEW p \in MainPlaces, NEW t \in MainPlaces, Call(p, t)
    PROVE  /\ main' \in Seq(MainPlaces) /\ main' # <<>> /\ Parts(main')
           /\ Head(main') = p
           /\ Tail(main') # <<>> /\ Head(Tail(main')) = t
           /\ Tail(Tail(main')) = Tail(main) /\ Parts(Tail(main'))
<1> DEFINE r == <<t>> \o Tail(main)
<1>1. /\ r \in Seq(MainPlaces) /\ r # <<>> /\ Parts(r)
      /\ Head(r) = t /\ Tail(r) = Tail(main)
  BY PushRight DEF Here
<1>2. main' = <<p>> \o r
  <2>1. <<p>> \in Seq(MainPlaces) /\ <<t>> \in Seq(MainPlaces)
    OBVIOUS
  <2>2. <<p, t>> = <<p>> \o <<t>>
    <3>1. /\ <<p>> \o <<t>> \in Seq(MainPlaces) /\ Len(<<p>> \o <<t>>) = 2
          /\ (<<p>> \o <<t>>)[1] = p /\ (<<p>> \o <<t>>)[2] = t
      OBVIOUS
    <3>2. /\ <<p, t>> \in Seq(MainPlaces) /\ Len(<<p, t>>) = 2
          /\ <<p, t>>[1] = p /\ <<p, t>>[2] = t
      OBVIOUS
    <3>3. \A i \in 1..2 : <<p, t>>[i] = (<<p>> \o <<t>>)[i]
      BY <3>1, <3>2
    <3> QED
      BY <3>1, <3>2, <3>3, SeqEqual
  <2>3. (<<p>> \o <<t>>) \o Tail(main) = <<p>> \o r
    BY <2>1, ConcatAssociative DEF Here
  <2> QED
    BY <2>2, <2>3 DEF Call
<1> HIDE DEF r
<1> QED
  BY <1>1, <1>2, PushRight

LEMMA FreshRight ==
    ASSUME NEW p \in MainPlaces, NEW t \in MainPlaces
    PROVE  LET s == <<p, t>> IN
           /\ s \in Seq(MainPlaces) /\ s # <<>> /\ Parts(s) /\ Head(s) = p
           /\ Tail(s) # <<>> /\ Head(Tail(s)) = t /\ Tail(Tail(s)) = <<>>
           /\ Parts(Tail(s))
<1> DEFINE s == <<p, t>>
<1>1. s \in Seq(MainPlaces) /\ s # <<>> /\ Head(s) = p /\ Len(s) = 2 /\ s[2] = t
  OBVIOUS
<1>2. /\ Tail(s) \in Seq(MainPlaces) /\ Len(Tail(s)) = 1 /\ Tail(s)[1] = t
  OBVIOUS
<1>3. Tail(s) # <<>> /\ Head(Tail(s)) = t
  BY <1>2
<1>4. Tail(Tail(s)) = <<>>
  BY <1>2, <1>3, LastOne
<1> QED
  BY <1>1, <1>2, <1>3, <1>4, PartsOf

LEMMA ResetStack ==
    ASSUME NEW then \in {"check", "scp"}
    PROVE  LET s == <<"cancel", "flush", "update", "forget", then>> IN
           /\ s \in Seq(MainPlaces) /\ s # <<>> /\ Chained(s)
           /\ Head(s) = "cancel" /\ Tail(s) # <<>> /\ Head(Tail(s)) = "flush"
           /\ ~Inside(s, Work) /\ ~Inside(s, Quiet) /\ ~Inside(s, Cancelled)
           /\ Ends(s, "scp") <=> then = "scp"
           /\ ~Aborting(s)
<1> DEFINE s == <<"cancel", "flush", "update", "forget", then>>
<1>1. s \in Seq(MainPlaces) /\ s # <<>> /\ Head(s) = "cancel" /\ Len(s) = 5
  <2>1. {"cancel", "flush", "update", "forget", then} \subseteq MainPlaces
    BY DEF MainPlaces
  <2> QED
    BY <2>1
<1>2. /\ s[1] = "cancel" /\ s[2] = "flush" /\ s[3] = "update" /\ s[4] = "forget"
      /\ s[5] = then
  OBVIOUS
<1>3. Tail(s) # <<>> /\ Head(Tail(s)) = "flush"
  OBVIOUS
<1> HIDE DEF s
<1>4. \A i \in 1..Len(s) : i \in {1, 2, 3, 4, 5}
  BY <1>1
<1>5. \A i \in 1..(Len(s) - 1) : i \in {1, 2, 3, 4}
  BY <1>1
<1>6. Chained(s)
  <2>1. s[Len(s)] \in Bottom
    BY <1>1, <1>2 DEF Bottom
  <2>2. /\ Over("cancel", "flush") /\ Over("flush", "update")
        /\ Over("update", "forget")
    BY DEF Over, CancelPlaces, FlushPlaces
  <2>3. Over("forget", then)
    BY DEF Over
  <2>4. /\ Over(s[1], s[1 + 1]) /\ Over(s[2], s[2 + 1])
        /\ Over(s[3], s[3 + 1]) /\ Over(s[4], s[4 + 1])
    BY <1>2, <2>2, <2>3
  <2> QED
    BY <1>1, <1>5, <2>1, <2>4 DEF Chained
<1>7. ~Inside(s, Work) /\ ~Inside(s, Quiet) /\ ~Inside(s, Cancelled)
  BY <1>1, <1>2, <1>4 DEF Inside, Work, Quiet, Cancelled
<1>8. Ends(s, "scp") <=> then = "scp"
  BY <1>1, <1>2 DEF Ends
<1>9. ~Aborting(s)
  BY <1>1, <1>2 DEF Aborting, CancelPlaces
<1> QED
  BY <1>1, <1>3, <1>6, <1>7, <1>8, <1>9 DEF s
-----------------------------------------------------------------------------
(* Every action keeps the invariant *)

USE DEF At, Caller, Draining, Over, Bottom, CancelPlaces, FlushPlaces,
        GrabPlaces, Work, Quiet, Cancelled, ctx, queues, unit, Numbers

LEMMA AgainRight == ASSUME Inv, Here, Again PROVE Inv'
<1>2. TypeOK'
  BY DEF Inv, TypeOK, Again, IOGoto
<1>3. Chained(main)'
  BY DEF Inv, Again
<1>4. ThreadInv'
  BY DEF Inv, ThreadInv, Again, IOGoto
<1>5. EnabledInv'
  BY DEF Inv, EnabledInv, Again, IOGoto
<1>6. TokenInv'
  BY DEF Inv, TokenInv, Again, IOGoto
<1>7. QuietInv'
  BY DEF Inv, QuietInv, Again
<1>8. CommandInv'
  BY DEF Inv, CommandInv, Again
<1> QED
  BY <1>2, <1>3, <1>4, <1>5, <1>6, <1>7, <1>8 DEF Inv

LEMMA PostRight == ASSUME Inv, Here, Post PROVE Inv'
<1>1. enabled /\ main' = main /\ posted' = TRUE /\ io' = "again"
  BY DEF Inv, EnabledInv, Post, IOGoto
<1>2. TypeOK'
  BY <1>1 DEF Inv, TypeOK, Post
<1>3. Chained(main)'
  BY <1>1 DEF Inv, Post
<1>4. ThreadInv'
  BY <1>1 DEF Inv, ThreadInv, Post
<1>5. EnabledInv'
  BY <1>1 DEF Inv, EnabledInv, Post
<1>6. TokenInv'
  BY <1>1 DEF Inv, ThreadInv, TokenInv, Post
<1>7. QuietInv'
  BY <1>1 DEF Inv, QuietInv, Post
<1>8. CommandInv'
  BY <1>1 DEF Inv, CommandInv, Post
<1> QED
  BY <1>2, <1>3, <1>4, <1>5, <1>6, <1>7, <1>8 DEF Inv

LEMMA StartupRight == ASSUME Inv, Here, Startup PROVE Inv'
  BY DEF Inv, TypeOK, ThreadInv, EnabledInv, TokenInv, QuietInv, CommandInv,
         Startup, IOGoto

LEMMA WakeRight == ASSUME Inv, Here, Wake PROVE Inv'
  BY DEF Inv, TypeOK, ThreadInv, EnabledInv, TokenInv, QuietInv, CommandInv,
         Wake, IOGoto

LEMMA TransferRight == ASSUME Inv, Here, Transfer PROVE Inv'
  BY DEF Inv, TypeOK, ThreadInv, EnabledInv, TokenInv, QuietInv, CommandInv,
         Transfer, IOGoto

LEMMA DoneRight == ASSUME Inv, Here, Done PROVE Inv'
  BY DEF Inv, TypeOK, ThreadInv, EnabledInv, TokenInv, QuietInv, CommandInv,
         Done, IOGoto

LEMMA GrabRight == ASSUME Inv, Here, Grab PROVE Inv'
<1>1. CASE posted
  <2>1. /\ main' \in Seq(MainPlaces) /\ main' # <<>> /\ Parts(main')
        /\ Head(main') = "grab" /\ Tail(main') # <<>>
        /\ Head(Tail(main')) = "migrate"
        /\ Tail(Tail(main')) = Tail(main) /\ Parts(Tail(main'))
    <3>1. "grab" \in MainPlaces /\ "migrate" \in MainPlaces
      BY DEF MainPlaces
    <3>2. Call("grab", "migrate")
      BY <1>1 DEF Grab
    <3> QED
      BY <3>1, <3>2, CallRight
  <2>2. TypeOK'
    BY <1>1, <2>1 DEF Inv, TypeOK, Grab
  <2>3. Chained(main)'
    <3>1. Head(Tail(main)) \in {"clock", "poll", "due", "scp"}
      BY <1>1 DEF Inv, Here, Parts, TokenInv, QuietInv, Grab
    <3> QED
      BY <1>1, <2>1, <3>1 DEF Inv, Here, Parts, Grab
  <2>4. ThreadInv'
    BY <1>1, <2>1 DEF Inv, ThreadInv, Grab
  <2>5. EnabledInv'
    BY <1>1, <2>1 DEF Inv, Here, Parts, EnabledInv, Grab
  <2>6. TokenInv'
    BY <1>1, <2>1 DEF Inv, TokenInv, Grab
  <2>7. QuietInv'
    BY <1>1, <2>1 DEF Inv, Here, Parts, QuietInv, Grab
  <2>8. CommandInv'
    BY <1>1, <2>1 DEF Inv, Here, Parts, CommandInv, Grab
  <2> QED
    BY <2>2, <2>3, <2>4, <2>5, <2>6, <2>7, <2>8 DEF Inv
<1>2. CASE ~posted
  <2>1. Tail(main) # <<>> /\ main' = Tail(main)
    BY <1>2 DEF Grab, Return, Inv, Here, Parts
  <2>2. TypeOK'
    BY <1>2, <2>1 DEF Inv, Here, TypeOK, Grab
  <2>3. Chained(main)'
    BY <1>2, <2>1 DEF Inv, Here, Parts, Grab
  <2>4. ThreadInv'
    BY <1>2, <2>1 DEF Inv, Here, Parts, ThreadInv, Grab
  <2>5. EnabledInv'
    BY <1>2, <2>1 DEF Inv, Here, Parts, EnabledInv, Grab
  <2>6. TokenInv'
    BY <1>2, <2>1 DEF Inv, Here, Parts, TokenInv, Grab
  <2>7. QuietInv'
    BY <1>2, <2>1 DEF Inv, Here, Parts, TokenInv, QuietInv, Grab
  <2>8. CommandInv'
    BY <1>2, <2>1 DEF Inv, Here, Parts, CommandInv, Grab
  <2> QED
    BY <2>2, <2>3, <2>4, <2>5, <2>6, <2>7, <2>8 DEF Inv
<1> QED
  BY <1>1, <1>2 DEF Grab

LEMMA MigrateRight == ASSUME Inv, Here, Migrate PROVE Inv'
<1>1. /\ main' \in Seq(MainPlaces) /\ main' # <<>> /\ Parts(main')
      /\ Head(main') = "dispatch" /\ Tail(main') = Tail(main)
  <2>1. "dispatch" \in MainPlaces
    BY DEF MainPlaces
  <2> QED
    BY <2>1, GotoRight DEF Migrate
<1>2. TypeOK'
  BY <1>1, NumbersHold DEF Inv, TypeOK, Migrate, Activated, IsActive
<1>3. Chained(main)'
  BY <1>1 DEF Inv, Here, Parts, Migrate, Activated, IsActive
<1>4. ThreadInv'
  BY <1>1 DEF Inv, ThreadInv, Migrate, Activated, IsActive
<1>5. EnabledInv'
  BY <1>1 DEF Inv, Here, Parts, EnabledInv, Migrate, Activated, IsActive
<1>6. TokenInv'
  BY <1>1 DEF Inv, TokenInv, Migrate, Activated, IsActive
<1>7. QuietInv'
  BY <1>1 DEF Inv, Here, Parts, QuietInv, Migrate, Activated, IsActive
<1>8. CommandInv'
  BY <1>1
  DEF Inv, Here, Parts, TokenInv, CommandInv, Migrate, Activated, IsActive
<1> QED
  BY <1>2, <1>3, <1>4, <1>5, <1>6, <1>7, <1>8 DEF Inv

LEMMA CompletionDispatchRight == ASSUME Inv, Here, CompletionDispatch PROVE Inv'
<1>1. CASE callback
  <2>1. /\ main' \in Seq(MainPlaces) /\ main' # <<>> /\ Parts(main')
        /\ Head(main') = "callback" /\ Tail(main') = Tail(main)
    <3>1. "callback" \in MainPlaces
      BY DEF MainPlaces
    <3> QED
      BY <3>1, <1>1, GotoRight DEF CompletionDispatch, Goto, Inv, TokenInv
  <2>2. TypeOK'
    BY <1>1, <2>1 DEF Inv, TypeOK, CompletionDispatch
  <2>3. Chained(main)'
    BY <1>1, <2>1 DEF Inv, Here, Parts, CompletionDispatch
  <2>4. ThreadInv'
    BY <1>1, <2>1 DEF Inv, ThreadInv, CompletionDispatch
  <2>5. EnabledInv'
    BY <1>1, <2>1 DEF Inv, Here, Parts, EnabledInv, CompletionDispatch
  <2>6. TokenInv'
    BY <1>1, <2>1 DEF Inv, TokenInv, CompletionDispatch
  <2>7. QuietInv'
    BY <1>1, <2>1 DEF Inv, Here, Parts, QuietInv, CompletionDispatch
  <2>8. CommandInv'
    BY <1>1, <2>1 DEF Inv, Here, Parts, CommandInv, CompletionDispatch
  <2> QED
    BY <2>2, <2>3, <2>4, <2>5, <2>6, <2>7, <2>8 DEF Inv
<1>2. CASE ~callback
  <2>1. Tail(main) # <<>> /\ main' = Tail(main)
    BY <1>2 DEF CompletionDispatch, TokenInv, Inv
  <2>2. TypeOK'
    BY <1>2, <2>1 DEF Inv, Here, TypeOK, CompletionDispatch
  <2>3. Chained(main)'
    BY <1>2, <2>1 DEF Inv, Here, Parts, CompletionDispatch
  <2>4. ThreadInv'
    BY <1>2, <2>1 DEF Inv, Here, Parts, ThreadInv, CompletionDispatch
  <2>5. EnabledInv'
    BY <1>2, <2>1 DEF Inv, Here, Parts, EnabledInv, CompletionDispatch
  <2>6. TokenInv'
    BY <1>2, <2>1 DEF Inv, TokenInv, CompletionDispatch
  <2>7. QuietInv'
    BY <1>2, <2>1 DEF Inv, Here, Parts, QuietInv, CompletionDispatch
  <2>8. CommandInv'
    BY <1>2, <2>1 DEF Inv, TokenInv, CompletionDispatch
  <2> QED
    BY <2>2, <2>3, <2>4, <2>5, <2>6, <2>7, <2>8 DEF Inv
<1> QED
  BY <1>1, <1>2 DEF CompletionDispatch

LEMMA CallbackRight == ASSUME Inv, Here, Callback PROVE Inv'
<1>1. /\ main' \in Seq(MainPlaces) /\ main' # <<>> /\ Parts(main')
      /\ Head(main') = "cancel" /\ Tail(main') # <<>>
      /\ Head(Tail(main')) = "again"
      /\ Tail(Tail(main')) = Tail(main) /\ Parts(Tail(main'))
  <2>1. "cancel" \in MainPlaces /\ "again" \in MainPlaces
    BY DEF MainPlaces
  <2>2. Call("cancel", "again")
    BY DEF Callback
  <2> QED
    BY <2>1, <2>2, CallRight
<1>2. TypeOK'
  BY <1>1 DEF Inv, TypeOK, Callback
<1>3. Chained(main)'
  BY <1>1 DEF Inv, Here, Parts, Callback
<1>4. ThreadInv'
  BY <1>1 DEF Inv, ThreadInv, Callback
<1>5. EnabledInv'
  BY <1>1 DEF Inv, Here, Parts, EnabledInv, Callback
<1>6. TokenInv'
  BY <1>1 DEF Inv, TokenInv, Callback
<1>7. QuietInv'
  BY <1>1 DEF Inv, Here, Parts, QuietInv, Callback
<1>8. CommandInv'
  BY <1>1 DEF Inv, Here, Parts, CommandInv, Callback
<1> QED
  BY <1>2, <1>3, <1>4, <1>5, <1>6, <1>7, <1>8 DEF Inv

LEMMA CancelAgainRight == ASSUME Inv, Here, CancelAgain PROVE Inv'
<1>1. /\ main' \in Seq(MainPlaces) /\ main' # <<>> /\ Parts(main')
      /\ Head(main') = "cancel" /\ Tail(main') # <<>>
      /\ Head(Tail(main')) = "later"
      /\ Tail(Tail(main')) = Tail(main) /\ Parts(Tail(main'))
  <2>1. "cancel" \in MainPlaces /\ "later" \in MainPlaces
    BY DEF MainPlaces
  <2>2. Call("cancel", "later")
    BY DEF CancelAgain
  <2> QED
    BY <2>1, <2>2, CallRight
<1>2. TypeOK'
  BY <1>1 DEF Inv, TypeOK, CancelAgain
<1>3. Chained(main)'
  BY <1>1 DEF Inv, Here, Parts, CancelAgain
<1>4. ThreadInv'
  BY <1>1 DEF Inv, ThreadInv, CancelAgain
<1>5. EnabledInv'
  BY <1>1 DEF Inv, Here, Parts, EnabledInv, CancelAgain
<1>6. TokenInv'
  BY <1>1 DEF Inv, TokenInv, CancelAgain
<1>7. QuietInv'
  BY <1>1 DEF Inv, Here, Parts, QuietInv, CancelAgain
<1>8. CommandInv'
  BY <1>1 DEF Inv, Here, Parts, CommandInv, CancelAgain
<1> QED
  BY <1>2, <1>3, <1>4, <1>5, <1>6, <1>7, <1>8 DEF Inv

LEMMA CancelRight == ASSUME Inv, Here, Cancel PROVE Inv'
<1>1. /\ main' \in Seq(MainPlaces) /\ main' # <<>> /\ Parts(main')
      /\ Head(main') = "grab" /\ Tail(main') # <<>>
      /\ Head(Tail(main')) = "clock"
      /\ Tail(Tail(main')) = Tail(main) /\ Parts(Tail(main'))
  <2>1. "grab" \in MainPlaces /\ "clock" \in MainPlaces
    BY DEF MainPlaces
  <2>2. Call("grab", "clock")
    BY DEF Cancel
  <2> QED
    BY <2>1, <2>2, CallRight
<1>2. TypeOK'
  BY <1>1 DEF Inv, TypeOK, Cancel
<1>3. Chained(main)'
  BY <1>1 DEF Inv, Here, Parts, Cancel
<1>4. ThreadInv'
  BY <1>1 DEF Inv, ThreadInv, Cancel
<1>5. EnabledInv'
  BY <1>1 DEF Inv, Here, Parts, EnabledInv, Cancel
<1>6. TokenInv'
  BY <1>1 DEF Inv, TokenInv, Cancel
<1>7. QuietInv'
  BY <1>1 DEF Inv, Here, Parts, TypeOK, ThreadInv, QuietInv, Cancel
<1>8. CommandInv'
  BY <1>1 DEF Inv, Here, Parts, CommandInv, Cancel
<1> QED
  BY <1>2, <1>3, <1>4, <1>5, <1>6, <1>7, <1>8 DEF Inv

LEMMA LookAtClockRight == ASSUME Inv, Here, LookAtClock PROVE Inv'
<1>1. /\ main' \in Seq(MainPlaces) /\ main' # <<>> /\ Parts(main')
      /\ Head(main') = "grab" /\ Tail(main') # <<>>
      /\ Head(Tail(main')) = "remove"
      /\ Tail(Tail(main')) = Tail(main) /\ Parts(Tail(main'))
  <2>1. "grab" \in MainPlaces /\ "remove" \in MainPlaces
    BY DEF MainPlaces
  <2>2. Call("grab", "remove")
    BY DEF LookAtClock
  <2> QED
    BY <2>1, <2>2, CallRight
<1>2. TypeOK'
  BY <1>1 DEF Inv, TypeOK, LookAtClock
<1>3. Chained(main)'
  BY <1>1 DEF Inv, Here, Parts, LookAtClock
<1>4. ThreadInv'
  BY <1>1 DEF Inv, ThreadInv, LookAtClock
<1>5. EnabledInv'
  BY <1>1 DEF Inv, Here, Parts, EnabledInv, LookAtClock
<1>6. TokenInv'
  BY <1>1 DEF Inv, TokenInv, LookAtClock
<1>7. QuietInv'
  BY <1>1 DEF Inv, Here, Parts, QuietInv, LookAtClock
<1>8. CommandInv'
  BY <1>1 DEF Inv, Here, Parts, CommandInv, LookAtClock
<1> QED
  BY <1>2, <1>3, <1>4, <1>5, <1>6, <1>7, <1>8 DEF Inv

LEMMA RemoveRight == ASSUME Inv, Here, Remove PROVE Inv'
<1>1. Tail(main) # <<>> /\ main' = Tail(main)
  BY DEF Remove, Return, Inv, Here, Parts
<1>2. TypeOK'
  BY <1>1, NumbersHold DEF Inv, TypeOK, Remove
<1>3. Chained(main)'
  BY <1>1 DEF Inv, Here, Parts, Remove
<1>4. ThreadInv'
  BY <1>1 DEF Inv, Here, Parts, ThreadInv, Remove
<1>5. EnabledInv'
  BY <1>1 DEF Inv, Here, Parts, EnabledInv, Remove
<1>6. TokenInv'
  BY <1>1 DEF Inv, Here, Parts, TokenInv, Remove
<1>7. QuietInv'
  BY <1>1 DEF Inv, Here, Parts, QuietInv, Remove
<1>8. CommandInv'
  BY <1>1 DEF Inv, Here, Parts, QuietInv, CommandInv, Remove
<1> QED
  BY <1>2, <1>3, <1>4, <1>5, <1>6, <1>7, <1>8 DEF Inv

LEMMA ActivateCommandRight ==
    ASSUME Inv, Here, Activate("activate", "insert")
    PROVE  Inv'
<1>1. /\ main' \in Seq(MainPlaces) /\ main' # <<>> /\ Parts(main')
      /\ Head(main') = "grab" /\ Tail(main') # <<>>
      /\ Head(Tail(main')) = "insert"
      /\ Tail(Tail(main')) = Tail(main) /\ Parts(Tail(main'))
  <2>1. "grab" \in MainPlaces /\ "insert" \in MainPlaces
    BY DEF MainPlaces
  <2>2. Call("grab", "insert")
    BY DEF Activate
  <2> QED
    BY <2>1, <2>2, CallRight
<1>2. TypeOK'
  BY <1>1 DEF Inv, TypeOK, Activate
<1>3. Chained(main)'
  BY <1>1 DEF Inv, Here, Parts, Activate
<1>4. ThreadInv'
  BY <1>1 DEF Inv, ThreadInv, Activate
<1>5. EnabledInv'
  BY <1>1 DEF Inv, Here, Parts, EnabledInv, Activate
<1>6. TokenInv'
  BY <1>1 DEF Inv, TokenInv, Activate
<1>7. QuietInv'
  BY <1>1 DEF Inv, Here, Parts, QuietInv, Activate
<1>8. CommandInv'
  BY <1>1 DEF Inv, Here, Parts, CommandInv, Activate
<1> QED
  BY <1>2, <1>3, <1>4, <1>5, <1>6, <1>7, <1>8 DEF Inv

LEMMA ActivateLaterRight ==
    ASSUME Inv, Here, Activate("later", "insert later")
    PROVE  Inv'
<1>1. /\ main' \in Seq(MainPlaces) /\ main' # <<>> /\ Parts(main')
      /\ Head(main') = "grab" /\ Tail(main') # <<>>
      /\ Head(Tail(main')) = "insert later"
      /\ Tail(Tail(main')) = Tail(main) /\ Parts(Tail(main'))
  <2>1. "grab" \in MainPlaces /\ "insert later" \in MainPlaces
    BY DEF MainPlaces
  <2>2. Call("grab", "insert later")
    BY DEF Activate
  <2> QED
    BY <2>1, <2>2, CallRight
<1>2. TypeOK'
  BY <1>1 DEF Inv, TypeOK, Activate
<1>3. Chained(main)'
  BY <1>1 DEF Inv, Here, Parts, Activate
<1>4. ThreadInv'
  BY <1>1 DEF Inv, ThreadInv, Activate
<1>5. EnabledInv'
  BY <1>1 DEF Inv, Here, Parts, EnabledInv, Activate
<1>6. TokenInv'
  BY <1>1 DEF Inv, TokenInv, Activate
<1>7. QuietInv'
  BY <1>1 DEF Inv, Here, Parts, QuietInv, Activate
<1>8. CommandInv'
  BY <1>1 DEF Inv, Here, Parts, CommandInv, Activate
<1> QED
  BY <1>2, <1>3, <1>4, <1>5, <1>6, <1>7, <1>8 DEF Inv

LEMMA InsertCommandRight == ASSUME Inv, Here, Insert("insert", 0) PROVE Inv'
<1>1. Tail(main) # <<>> /\ main' = Tail(main)
  BY DEF Insert, Return, Inv, Here, Parts, Activated, IsActive
<1>2. TypeOK'
  BY <1>1, NumbersHold DEF Inv, TypeOK, Insert, Activated, IsActive
<1>3. Chained(main)'
  BY <1>1 DEF Inv, Here, Parts, Insert, Activated, IsActive
<1>4. ThreadInv'
  BY <1>1 DEF Inv, Here, Parts, ThreadInv, Insert, Activated, IsActive
<1>5. EnabledInv'
  BY <1>1 DEF Inv, Here, Parts, EnabledInv, Insert, Activated, IsActive
<1>6. TokenInv'
  BY <1>1
  DEF Inv, Here, Parts, TokenInv, QuietInv, Insert, Activated, IsActive
<1>7. QuietInv'
  BY <1>1 DEF Inv, Here, Parts, QuietInv, Insert, Activated, IsActive
<1>8. CommandInv'
  BY <1>1 DEF Inv, Here, Parts, CommandInv, Insert, Activated, IsActive
<1> QED
  BY <1>2, <1>3, <1>4, <1>5, <1>6, <1>7, <1>8 DEF Inv

LEMMA InsertLaterRight ==
    ASSUME Inv, Here, NEW d \in 0..MaxDelay, Insert("insert later", d)
    PROVE  Inv'
<1>1. Tail(main) # <<>> /\ main' = Tail(main)
  BY DEF Insert, Return, Inv, Here, Parts, Activated, IsActive
<1>2. TypeOK'
  BY <1>1, NumbersHold DEF Inv, Here, TypeOK, Insert, Activated, IsActive
<1>3. Chained(main)'
  BY <1>1 DEF Inv, Here, Parts, Insert, Activated, IsActive
<1>4. ThreadInv'
  BY <1>1 DEF Inv, Here, Parts, ThreadInv, Insert, Activated, IsActive
<1>5. EnabledInv'
  BY <1>1 DEF Inv, Here, Parts, EnabledInv, Insert, Activated, IsActive
<1>6. TokenInv'
  BY <1>1
  DEF Inv, Here, Parts, TokenInv, QuietInv, Insert, Activated, IsActive
<1>7. QuietInv'
  BY <1>1 DEF Inv, Here, Parts, QuietInv, Insert, Activated, IsActive
<1>8. CommandInv'
  BY <1>1 DEF Inv, Here, Parts, CommandInv, Insert, Activated, IsActive
<1> QED
  BY <1>2, <1>3, <1>4, <1>5, <1>6, <1>7, <1>8 DEF Inv

LEMMA NothingToDoRight == ASSUME Inv, Here, NothingToDo PROVE Inv'
<1>1. Tail(main) # <<>> /\ main' = Tail(main)
  BY Empty DEF NothingToDo, Inv, Here, Parts, CommandInv
<1>2. TypeOK'
  BY <1>1 DEF Inv, TypeOK, NothingToDo
<1>3. Chained(main)'
  BY <1>1 DEF Inv, Here, Parts, NothingToDo
<1>4. ThreadInv'
  BY <1>1 DEF Inv, Here, Parts, ThreadInv, NothingToDo
<1>5. EnabledInv'
  BY <1>1 DEF Inv, Here, Parts, EnabledInv, NothingToDo
<1>6. TokenInv'
  BY <1>1 DEF Inv, Here, Parts, TokenInv, NothingToDo, QuietInv
<1>7. QuietInv'
  BY <1>1 DEF Inv, Here, Parts, NothingToDo, QuietInv
<1>8. CommandInv'
  BY <1>1 DEF Inv, Here, Parts, NothingToDo, CommandInv, QuietInv
<1> QED
  BY <1>2, <1>3, <1>4, <1>5, <1>6, <1>7, <1>8 DEF Inv

LEMMA TopHalfRight == ASSUME Inv, Here, TopHalf PROVE Inv'
<1>1. ~callback /\ io = "wait" /\ Tail(main) # <<>> /\ main' = Tail(main)
  BY DEF TopHalf, Return, Inv, Here, Parts, TypeOK, ThreadInv, TokenInv,
         QuietInv
<1>2. TypeOK'
  BY <1>1 DEF Inv, TopHalf, Signal, TypeOK
<1>3. Chained(main)'
  BY <1>1 DEF Inv, Here, Parts, TopHalf
<1>4. ThreadInv'
  BY <1>1 DEF Inv, Here, Parts, TopHalf, Signal, ThreadInv
<1>5. EnabledInv'
  BY <1>1 DEF Inv, Here, Parts, EnabledInv, TopHalf, ThreadInv
<1>6. TokenInv'
  BY <1>1 DEF Inv, Here, Parts, TopHalf, TypeOK, ThreadInv, TokenInv, QuietInv
<1>7. QuietInv'
  BY <1>1 DEF Inv, Here, Parts, TopHalf, TypeOK, ThreadInv, TokenInv, QuietInv
<1>8. CommandInv'
  BY <1>1
  DEF Inv, Here, Parts, CommandInv, TopHalf, TypeOK, TokenInv, QuietInv
<1> QED
  BY <1>2, <1>3, <1>4, <1>5, <1>6, <1>7, <1>8 DEF Inv

LEMMA TopHalfNoMemoryRight == ASSUME Inv, Here, TopHalfNoMemory PROVE Inv'
<1>1. Tail(main) # <<>> /\ main' = Tail(main)
  BY DEF TopHalfNoMemory, Return, Inv, Here, Parts
<1>2. TypeOK'
  BY <1>1 DEF Inv, TypeOK, TopHalfNoMemory
<1>3. Chained(main)'
  BY <1>1 DEF Inv, Here, Parts, TopHalfNoMemory
<1>4. ThreadInv'
  BY <1>1 DEF Inv, Here, Parts, ThreadInv, TopHalfNoMemory
<1>5. EnabledInv'
  BY <1>1 DEF Inv, Here, Parts, EnabledInv, TopHalfNoMemory
<1>6. TokenInv'
  BY <1>1 DEF Inv, Here, Parts, TokenInv, TopHalfNoMemory
<1>7. QuietInv'
  BY <1>1 DEF Inv, Here, Parts, QuietInv, TopHalfNoMemory
<1>8. CommandInv'
  BY <1>1 DEF Inv, Here, Parts, CommandInv, TopHalfNoMemory
<1> QED
  BY <1>2, <1>3, <1>4, <1>5, <1>6, <1>7, <1>8 DEF Inv

LEMMA TopHalfHereRight == ASSUME Inv, Here, TopHalfHere PROVE Inv'
<1>1. /\ main' \in Seq(MainPlaces) /\ main' # <<>> /\ Parts(main')
      /\ Head(main') = "callback" /\ Tail(main') = Tail(main)
  <2>1. "callback" \in MainPlaces
    BY DEF MainPlaces
  <2> QED
    BY <2>1, GotoRight DEF TopHalfHere
<1>2. TypeOK'
  BY <1>1 DEF Inv, TypeOK, TopHalfHere
<1>3. Chained(main)'
  BY <1>1 DEF Inv, Here, Parts, TopHalfHere
<1>4. ThreadInv'
  BY <1>1 DEF Inv, ThreadInv, TopHalfHere
<1>5. EnabledInv'
  BY <1>1 DEF Inv, Here, Parts, EnabledInv, TopHalfHere
<1>6. TokenInv'
  BY <1>1 DEF Inv, TokenInv, TopHalfHere
<1>7. QuietInv'
  BY <1>1 DEF Inv, Here, Parts, QuietInv, TopHalfHere
<1>8. CommandInv'
  BY <1>1 DEF Inv, Here, Parts, CommandInv, TopHalfHere
<1> QED
  BY <1>2, <1>3, <1>4, <1>5, <1>6, <1>7, <1>8 DEF Inv

LEMMA BottomHalfRight == ASSUME Inv, Here, BottomHalf PROVE Inv'
<1>1. CASE MoreToDo
  <2>1. /\ main' \in Seq(MainPlaces) /\ main' # <<>> /\ Parts(main')
        /\ Head(main') = "activate" /\ Tail(main') = Tail(main)
    <3>1. "activate" \in MainPlaces
      BY DEF MainPlaces
    <3> QED
      BY <3>1, <1>1, GotoRight DEF BottomHalf
  <2>2. TypeOK'
    BY <1>1, <2>1, NumbersHold DEF Inv, TypeOK, BottomHalf
  <2>3. Chained(main)'
    BY <1>1, <2>1 DEF Inv, Here, Parts, BottomHalf
  <2>4. ThreadInv'
    BY <1>1, <2>1 DEF Inv, ThreadInv, BottomHalf
  <2>5. EnabledInv'
    BY <1>1, <2>1 DEF Inv, Here, Parts, EnabledInv, BottomHalf
  <2>6. TokenInv'
    BY <1>1, <2>1 DEF Inv, TokenInv, BottomHalf
  <2>7. QuietInv'
    BY <1>1, <2>1 DEF Inv, Here, Parts, QuietInv, BottomHalf
  <2>8. CommandInv'
    BY <1>1, <2>1 DEF Inv, Here, Parts, CommandInv, BottomHalf
  <2> QED
    BY <2>2, <2>3, <2>4, <2>5, <2>6, <2>7, <2>8 DEF Inv
<1>2. CASE ~MoreToDo
  <2>1. Tail(main) # <<>> /\ main' = Tail(main)
    BY <1>2 DEF BottomHalf, Return, Inv, Here, Parts
  <2>2. TypeOK'
    BY <1>2, <2>1, NumbersHold DEF Inv, Here, TypeOK, BottomHalf
  <2>3. Chained(main)'
    BY <1>2, <2>1 DEF Inv, Here, Parts, BottomHalf
  <2>4. ThreadInv'
    BY <1>2, <2>1 DEF Inv, Here, Parts, ThreadInv, BottomHalf
  <2>5. EnabledInv'
    BY <1>2, <2>1 DEF Inv, Here, Parts, EnabledInv, BottomHalf
  <2>6. TokenInv'
    BY <1>2, <2>1 DEF Inv, Here, Parts, TokenInv, BottomHalf
  <2>7. QuietInv'
    BY <1>2, <2>1 DEF Inv, Here, Parts, QuietInv, BottomHalf
  <2>8. CommandInv'
    BY <1>2, <2>1 DEF Inv, Here, Parts, QuietInv, CommandInv, BottomHalf
  <2> QED
    BY <2>2, <2>3, <2>4, <2>5, <2>6, <2>7, <2>8 DEF Inv
<1> QED
  BY <1>1, <1>2 DEF BottomHalf

LEMMA BottomHalfFailsRight == ASSUME Inv, Here, BottomHalfFails PROVE Inv'
<1>1. CASE main' = Tail(main)
  <2>1. Tail(main) # <<>> /\ main' = Tail(main)
    BY <1>1 DEF BottomHalfFails, Inv, Here, Parts
  <2>2. TypeOK'
    BY <1>1, <2>1, NumbersHold DEF Inv, Here, TypeOK, BottomHalfFails
  <2>3. Chained(main)'
    BY <1>1, <2>1 DEF Inv, Here, Parts, BottomHalfFails
  <2>4. ThreadInv'
    BY <1>1, <2>1 DEF Inv, Here, Parts, ThreadInv, BottomHalfFails
  <2>5. EnabledInv'
    BY <1>1, <2>1 DEF Inv, Here, Parts, EnabledInv, BottomHalfFails
  <2>6. TokenInv'
    BY <1>1, <2>1 DEF Inv, Here, Parts, TokenInv, BottomHalfFails
  <2>7. QuietInv'
    BY <1>1, <2>1 DEF Inv, Here, Parts, QuietInv, BottomHalfFails
  <2>8. CommandInv'
    BY <1>1, <2>1 DEF Inv, Here, Parts, QuietInv, CommandInv, BottomHalfFails
  <2> QED
    BY <2>2, <2>3, <2>4, <2>5, <2>6, <2>7, <2>8 DEF Inv
<1>2. CASE main' = <<"flush", "stopped">>
  <2>1. /\ main' \in Seq(MainPlaces) /\ main' # <<>> /\ Parts(main')
        /\ Head(main') = "flush" /\ Tail(main') # <<>>
        /\ Head(Tail(main')) = "stopped"
        /\ Tail(Tail(main')) = <<>> /\ Parts(Tail(main'))
    <3>1. "flush" \in MainPlaces /\ "stopped" \in MainPlaces
      BY DEF MainPlaces
    <3> QED
      BY <3>1, <1>2, FreshRight
  <2>2. TypeOK'
    BY <1>2, <2>1, NumbersHold DEF Inv, TypeOK, BottomHalfFails
  <2>3. Chained(main)'
    BY <1>2, <2>1 DEF Inv, Parts, BottomHalfFails
  <2>4. ThreadInv'
    BY <1>2, <2>1 DEF Inv, ThreadInv, BottomHalfFails
  <2>5. EnabledInv'
    BY <1>2, <2>1 DEF Inv, Parts, EnabledInv, BottomHalfFails
  <2>6. TokenInv'
    BY <1>2, <2>1 DEF Inv, TokenInv, BottomHalfFails
  <2>7. QuietInv'
    BY <1>2, <2>1 DEF Inv, Here, Parts, QuietInv, BottomHalfFails
  <2>8. CommandInv'
    BY <1>2, <2>1 DEF Inv, Here, Parts, QuietInv, CommandInv, BottomHalfFails
  <2> QED
    BY <2>2, <2>3, <2>4, <2>5, <2>6, <2>7, <2>8 DEF Inv
<1> QED
  BY <1>1, <1>2 DEF BottomHalfFails

LEMMA FlushRight == ASSUME Inv, Here, Flush PROVE Inv'
<1>1. CASE asynch_io
  <2>1. /\ main' \in Seq(MainPlaces) /\ main' # <<>> /\ Parts(main')
        /\ Head(main') = "join" /\ Tail(main') = Tail(main)
    <3>1. "join" \in MainPlaces
      BY DEF MainPlaces
    <3> QED
      BY <3>1, <1>1, GotoRight DEF Flush
  <2>2. TypeOK'
    BY <1>1, <2>1 DEF Inv, TypeOK, Flush, Signal
  <2>3. Chained(main)'
    BY <1>1, <2>1 DEF Inv, Here, Parts, Flush
  <2>4. ThreadInv'
    BY <1>1, <2>1 DEF Inv, ThreadInv, Flush, Signal
  <2>5. EnabledInv'
    BY <1>1, <2>1 DEF Inv, Here, Parts, EnabledInv, Flush, Signal
  <2>6. TokenInv'
    BY <1>1, <2>1 DEF Inv, TokenInv, Flush, Signal
  <2>7. QuietInv'
    BY <1>1, <2>1 DEF Inv, Here, Parts, QuietInv, Flush
  <2>8. CommandInv'
    BY <1>1, <2>1 DEF Inv, Here, Parts, CommandInv, Flush
  <2> QED
    BY <2>2, <2>3, <2>4, <2>5, <2>6, <2>7, <2>8 DEF Inv
<1>2. CASE ~asynch_io
  <2>1. /\ main' \in Seq(MainPlaces) /\ main' # <<>> /\ Parts(main')
        /\ Head(main') = "restart" /\ Tail(main') = Tail(main)
    <3>1. "restart" \in MainPlaces
      BY DEF MainPlaces
    <3> QED
      BY <3>1, <1>2, GotoRight DEF Flush
  <2>2. TypeOK'
    BY <1>2, <2>1 DEF Inv, TypeOK, Flush
  <2>3. Chained(main)'
    BY <1>2, <2>1 DEF Inv, Here, Parts, Flush
  <2>4. ThreadInv'
    BY <1>2, <2>1 DEF Inv, ThreadInv, Flush
  <2>5. EnabledInv'
    BY <1>2, <2>1 DEF Inv, Here, Parts, EnabledInv, Flush
  <2>6. TokenInv'
    BY <1>2, <2>1 DEF Inv, TokenInv, Flush
  <2>7. QuietInv'
    BY <1>2, <2>1 DEF Inv, Here, Parts, QuietInv, Flush
  <2>8. CommandInv'
    BY <1>2, <2>1 DEF Inv, Here, Parts, CommandInv, Flush
  <2> QED
    BY <2>2, <2>3, <2>4, <2>5, <2>6, <2>7, <2>8 DEF Inv
<1> QED
  BY <1>1, <1>2 DEF Flush

LEMMA JoinRight == ASSUME Inv, Here, Join PROVE Inv'
<1>1. /\ main' \in Seq(MainPlaces) /\ main' # <<>> /\ Parts(main')
      /\ Head(main') = "restart" /\ Tail(main') = Tail(main)
  <2>1. "restart" \in MainPlaces
    BY DEF MainPlaces
  <2> QED
    BY <2>1, GotoRight DEF Join
<1>2. TypeOK'
  BY <1>1 DEF Inv, TypeOK, Join
<1>3. Chained(main)'
  BY <1>1 DEF Inv, Here, Parts, Join
<1>4. ThreadInv'
  BY <1>1 DEF Inv, ThreadInv, Join
<1>5. EnabledInv'
  BY <1>1 DEF Inv, Here, Parts, EnabledInv, Join
<1>6. TokenInv'
  BY <1>1 DEF Inv, TokenInv, Join
<1>7. QuietInv'
  BY <1>1 DEF Inv, Here, Parts, QuietInv, Join
<1>8. CommandInv'
  BY <1>1 DEF Inv, Here, Parts, CommandInv, Join
<1> QED
  BY <1>2, <1>3, <1>4, <1>5, <1>6, <1>7, <1>8 DEF Inv

LEMMA RestartRight == ASSUME Inv, Here, Restart PROVE Inv'
<1>1. CASE enabled
  <2>1. /\ main' \in Seq(MainPlaces) /\ main' # <<>> /\ Parts(main')
        /\ Head(main') = "startup" /\ Tail(main') = Tail(main)
    <3>1. "startup" \in MainPlaces
      BY DEF MainPlaces
    <3> QED
      BY <3>1, <1>1, GotoRight DEF Restart
  <2>2. TypeOK'
    BY <1>1, <2>1 DEF Inv, TypeOK, Restart, IOGoto
  <2>3. Chained(main)'
    BY <1>1, <2>1 DEF Inv, Here, Parts, Restart
  <2>4. ThreadInv'
    BY <1>1, <2>1 DEF Inv, ThreadInv, Restart, IOGoto
  <2>5. EnabledInv'
    BY <1>1, <2>1 DEF Inv, Here, Parts, EnabledInv, Restart, IOGoto
  <2>6. TokenInv'
    BY <1>1, <2>1 DEF Inv, ThreadInv, TokenInv, Restart, IOGoto
  <2>7. QuietInv'
    BY <1>1, <2>1 DEF Inv, Here, Parts, QuietInv, Restart
  <2>8. CommandInv'
    BY <1>1, <2>1 DEF Inv, Here, Parts, CommandInv, Restart
  <2> QED
    BY <2>2, <2>3, <2>4, <2>5, <2>6, <2>7, <2>8 DEF Inv
<1>2. CASE ~enabled
  <2>1. /\ main' \in Seq(MainPlaces) /\ main' # <<>> /\ Parts(main')
        /\ Head(main') = "fflush" /\ Tail(main') = Tail(main)
    <3>1. "fflush" \in MainPlaces
      BY DEF MainPlaces
    <3> QED
      BY <3>1, <1>2, GotoRight DEF Restart
  <2>2. TypeOK'
    BY <1>2, <2>1 DEF Inv, TypeOK, Restart
  <2>3. Chained(main)'
    BY <1>2, <2>1 DEF Inv, Here, Parts, Restart
  <2>4. ThreadInv'
    BY <1>2, <2>1 DEF Inv, ThreadInv, Restart
  <2>5. EnabledInv'
    BY <1>2, <2>1 DEF Inv, EnabledInv, Restart
  <2>6. TokenInv'
    BY <1>2, <2>1 DEF Inv, TokenInv, Restart
  <2>7. QuietInv'
    BY <1>2, <2>1 DEF Inv, Here, Parts, QuietInv, Restart
  <2>8. CommandInv'
    BY <1>2, <2>1 DEF Inv, Here, Parts, CommandInv, Restart
  <2> QED
    BY <2>2, <2>3, <2>4, <2>5, <2>6, <2>7, <2>8 DEF Inv
<1> QED
  BY <1>1, <1>2 DEF Restart

LEMMA StartedRight == ASSUME Inv, Here, Started PROVE Inv'
<1>1. /\ main' \in Seq(MainPlaces) /\ main' # <<>> /\ Parts(main')
      /\ Head(main') = "fflush" /\ Tail(main') = Tail(main)
  <2>1. "fflush" \in MainPlaces
    BY DEF MainPlaces
  <2> QED
    BY <2>1, GotoRight DEF Started
<1>2. TypeOK'
  BY <1>1 DEF Inv, TypeOK, Started
<1>3. Chained(main)'
  BY <1>1 DEF Inv, Here, Parts, Started
<1>4. ThreadInv'
  BY <1>1 DEF Inv, ThreadInv, Started
<1>5. EnabledInv'
  BY <1>1 DEF Inv, Here, Parts, EnabledInv, Started
<1>6. TokenInv'
  BY <1>1 DEF Inv, TokenInv, Started
<1>7. QuietInv'
  BY <1>1 DEF Inv, Here, Parts, QuietInv, Started
<1>8. CommandInv'
  BY <1>1 DEF Inv, Here, Parts, CommandInv, Started
<1> QED
  BY <1>2, <1>3, <1>4, <1>5, <1>6, <1>7, <1>8 DEF Inv

LEMMA FileFlushRight == ASSUME Inv, Here, FileFlush PROVE Inv'
<1>1. Tail(main) # <<>> /\ main' = Tail(main)
  BY DEF FileFlush, Return, Inv, Here, Parts
<1>2. TypeOK'
  BY <1>1 DEF Inv, TypeOK, FileFlush
<1>3. Chained(main)'
  BY <1>1 DEF Inv, Here, Parts, FileFlush
<1>4. ThreadInv'
  BY <1>1 DEF Inv, Here, Parts, ThreadInv, FileFlush
<1>5. EnabledInv'
  BY <1>1 DEF Inv, ThreadInv, EnabledInv, FileFlush
<1>6. TokenInv'
  BY <1>1 DEF Inv, Here, Parts, TokenInv, FileFlush
<1>7. QuietInv'
  BY <1>1 DEF Inv, Here, Parts, QuietInv, FileFlush
<1>8. CommandInv'
  BY <1>1 DEF Inv, Here, Parts, CommandInv, FileFlush
<1> QED
  BY <1>2, <1>3, <1>4, <1>5, <1>6, <1>7, <1>8 DEF Inv

LEMMA CheckEventRight == ASSUME Inv, Here, CheckEvent PROVE Inv'
<1>1. /\ main' \in Seq(MainPlaces) /\ main' # <<>> /\ Parts(main')
      /\ Head(main') = "grab" /\ Tail(main') # <<>>
      /\ Head(Tail(main')) = "poll"
      /\ Tail(Tail(main')) = Tail(main) /\ Parts(Tail(main'))
  <2>1. "grab" \in MainPlaces /\ "poll" \in MainPlaces
    BY DEF MainPlaces
  <2>2. Call("grab", "poll")
    BY DEF CheckEvent
  <2> QED
    BY <2>1, <2>2, CallRight
<1>2. TypeOK'
  BY <1>1 DEF Inv, TypeOK, CheckEvent
<1>3. Chained(main)'
  BY <1>1 DEF Inv, Here, Parts, CheckEvent
<1>4. ThreadInv'
  BY <1>1 DEF Inv, ThreadInv, CheckEvent
<1>5. EnabledInv'
  BY <1>1 DEF Inv, Here, Parts, EnabledInv, CheckEvent
<1>6. TokenInv'
  BY <1>1 DEF Inv, TokenInv, CheckEvent
<1>7. QuietInv'
  BY <1>1 DEF Inv, Here, Parts, QuietInv, CheckEvent
<1>8. CommandInv'
  BY <1>1 DEF Inv, Here, Parts, CommandInv, CheckEvent
<1> QED
  BY <1>2, <1>3, <1>4, <1>5, <1>6, <1>7, <1>8 DEF Inv

LEMMA PollRight == ASSUME Inv, Here, Poll PROVE Inv'
<1>1. CASE wait = 0
  <2>1. /\ main' \in Seq(MainPlaces) /\ main' # <<>> /\ Parts(main')
        /\ Head(main') = "grab" /\ Tail(main') # <<>>
        /\ Head(Tail(main')) = "due"
        /\ Tail(Tail(main')) = Tail(main) /\ Parts(Tail(main'))
    <3>1. "grab" \in MainPlaces /\ "due" \in MainPlaces
      BY DEF MainPlaces
    <3>2. Call("grab", "due")
      BY <1>1 DEF Poll
    <3> QED
      BY <3>1, <3>2, CallRight
  <2>2. TypeOK'
    BY <1>1, <2>1 DEF Inv, TypeOK, Poll
  <2>3. Chained(main)'
    BY <1>1, <2>1 DEF Inv, Here, Parts, Poll
  <2>4. ThreadInv'
    BY <1>1, <2>1 DEF Inv, ThreadInv, Poll
  <2>5. EnabledInv'
    BY <1>1, <2>1 DEF Inv, Here, Parts, EnabledInv, Poll
  <2>6. TokenInv'
    BY <1>1, <2>1 DEF Inv, TokenInv, Poll
  <2>7. QuietInv'
    BY <1>1, <2>1 DEF Inv, Here, Parts, QuietInv, Poll
  <2>8. CommandInv'
    BY <1>1, <2>1 DEF Inv, Here, Parts, CommandInv, Poll
  <2> QED
    BY <2>2, <2>3, <2>4, <2>5, <2>6, <2>7, <2>8 DEF Inv
<1>2. CASE wait # 0
  <2>1. /\ main' \in Seq(MainPlaces) /\ main' # <<>> /\ Parts(main')
        /\ Head(main') = "instr" /\ Tail(main') = Tail(main)
    <3>1. "instr" \in MainPlaces
      BY DEF MainPlaces
    <3> QED
      BY <3>1, <1>2, GotoRight DEF Poll
  <2>2. TypeOK'
    BY <1>2, <2>1 DEF Inv, TypeOK, Poll
  <2>3. Chained(main)'
    BY <1>2, <2>1 DEF Inv, Here, Parts, Poll
  <2>4. ThreadInv'
    BY <1>2, <2>1 DEF Inv, ThreadInv, Poll
  <2>5. EnabledInv'
    BY <1>2, <2>1 DEF Inv, Here, Parts, EnabledInv, Poll
  <2>6. TokenInv'
    BY <1>2, <2>1 DEF Inv, TokenInv, Poll
  <2>7. QuietInv'
    BY <1>2, <2>1 DEF Inv, Here, Parts, QuietInv, Poll
  <2>8. CommandInv'
    BY <1>2, <2>1 DEF Inv, Here, Parts, CommandInv, Poll
  <2> QED
    BY <2>2, <2>3, <2>4, <2>5, <2>6, <2>7, <2>8 DEF Inv
<1> QED
  BY <1>1, <1>2 DEF Poll

LEMMA DueRight == ASSUME Inv, Here, Due PROVE Inv'
<1>1. CASE wait = 0
  <2>1. /\ main' \in Seq(MainPlaces) /\ main' # <<>> /\ Parts(main')
        /\ Head(main') = "service" /\ Tail(main') # <<>>
        /\ Head(Tail(main')) = "instr"
        /\ Tail(Tail(main')) = Tail(main) /\ Parts(Tail(main'))
    <3>1. "service" \in MainPlaces /\ "instr" \in MainPlaces
      BY DEF MainPlaces
    <3>2. Call("service", "instr")
      BY <1>1 DEF Due
    <3> QED
      BY <3>1, <3>2, CallRight
  <2>2. TypeOK'
    BY <1>1, <2>1, NumbersHold DEF Inv, TypeOK, Due
  <2>3. Chained(main)'
    BY <1>1, <2>1 DEF Inv, Here, Parts, Due
  <2>4. ThreadInv'
    BY <1>1, <2>1 DEF Inv, ThreadInv, Due
  <2>5. EnabledInv'
    BY <1>1, <2>1 DEF Inv, Here, Parts, EnabledInv, Due
  <2>6. TokenInv'
    BY <1>1, <2>1 DEF Inv, TokenInv, Due
  <2>7. QuietInv'
    BY <1>1, <2>1, NumbersHold DEF Inv, Here, Parts, TokenInv, QuietInv, Due
  <2>8. CommandInv'
    BY <1>1, <2>1, NumbersHold DEF Inv, Here, Parts, CommandInv, Due
  <2> QED
    BY <2>2, <2>3, <2>4, <2>5, <2>6, <2>7, <2>8 DEF Inv
<1>2. CASE wait # 0
  <2>1. /\ main' \in Seq(MainPlaces) /\ main' # <<>> /\ Parts(main')
        /\ Head(main') = "instr" /\ Tail(main') = Tail(main)
    <3>1. "instr" \in MainPlaces
      BY DEF MainPlaces
    <3> QED
      BY <3>1, <1>2, GotoRight DEF Due
  <2>2. TypeOK'
    BY <1>2, <2>1 DEF Inv, TypeOK, Due
  <2>3. Chained(main)'
    BY <1>2, <2>1 DEF Inv, Here, Parts, Due
  <2>4. ThreadInv'
    BY <1>2, <2>1 DEF Inv, ThreadInv, Due
  <2>5. EnabledInv'
    BY <1>2, <2>1 DEF Inv, Here, Parts, EnabledInv, Due
  <2>6. TokenInv'
    BY <1>2, <2>1 DEF Inv, TokenInv, Due
  <2>7. QuietInv'
    BY <1>2, <2>1 DEF Inv, Here, Parts, QuietInv, Due
  <2>8. CommandInv'
    BY <1>2, <2>1 DEF Inv, Here, Parts, CommandInv, Due
  <2> QED
    BY <2>2, <2>3, <2>4, <2>5, <2>6, <2>7, <2>8 DEF Inv
<1> QED
  BY <1>1, <1>2 DEF Due

LEMMA ExecuteRight == ASSUME Inv, Here, Execute PROVE Inv'
<1>1. /\ main' \in Seq(MainPlaces) /\ main' # <<>> /\ Parts(main')
      /\ Head(main') = "check" /\ Tail(main') = Tail(main)
  <2>1. "check" \in MainPlaces
    BY DEF MainPlaces
  <2> QED
    BY <2>1, GotoRight DEF Execute
<1>2. TypeOK'
  BY <1>1, NumbersHold DEF Inv, TypeOK, Execute
<1>3. Chained(main)'
  BY <1>1 DEF Inv, Here, Parts, Execute
<1>4. ThreadInv'
  BY <1>1 DEF Inv, ThreadInv, Execute
<1>5. EnabledInv'
  BY <1>1 DEF Inv, Here, Parts, EnabledInv, Execute
<1>6. TokenInv'
  BY <1>1, NumbersHold DEF Inv, TokenInv, Execute
<1>7. QuietInv'
  BY <1>1 DEF Inv, Here, Parts, QuietInv, Execute
<1>8. CommandInv'
  BY <1>1, NumbersHold DEF Inv, Here, Parts, CommandInv, Execute
<1> QED
  BY <1>2, <1>3, <1>4, <1>5, <1>6, <1>7, <1>8 DEF Inv

LEMMA CommandRight ==
    ASSUME Inv, Here, NEW p \in Packet, NEW n \in 0..MaxTransfers,
           Command(p, n)
    PROVE  Inv'
<1>1. /\ main' \in Seq(MainPlaces) /\ main' # <<>> /\ Parts(main')
      /\ Head(main') = "activate" /\ Tail(main') # <<>>
      /\ Head(Tail(main')) = "check"
      /\ Tail(Tail(main')) = Tail(main) /\ Parts(Tail(main'))
  <2>1. "activate" \in MainPlaces /\ "check" \in MainPlaces
    BY DEF MainPlaces
  <2>2. Call("activate", "check")
    BY DEF Command
  <2> QED
    BY <2>1, <2>2, CallRight
<1>2. TypeOK'
  BY <1>1 DEF Inv, TypeOK, Command
<1>3. Chained(main)'
  BY <1>1 DEF Inv, Here, Parts, Command
<1>4. ThreadInv'
  BY <1>1 DEF Inv, ThreadInv, Command
<1>5. EnabledInv'
  BY <1>1 DEF Inv, Here, Parts, EnabledInv, Command
<1>6. TokenInv'
  BY <1>1 DEF Inv, TokenInv, Command
<1>7. QuietInv'
  BY <1>1, Empty DEF Inv, Here, Parts, QuietInv, CommandInv, Command
<1>8. CommandInv'
  BY <1>1, PacketAssumption DEF Inv, CommandInv, Command
<1> QED
  BY <1>2, <1>3, <1>4, <1>5, <1>6, <1>7, <1>8 DEF Inv

LEMMA AbortRight == ASSUME Inv, Here, Abort PROVE Inv'
<1>1. /\ main' \in Seq(MainPlaces) /\ main' # <<>> /\ Parts(main')
      /\ Head(main') = "cancel" /\ Tail(main') # <<>>
      /\ Head(Tail(main')) = "check"
      /\ Tail(Tail(main')) = Tail(main) /\ Parts(Tail(main'))
  <2>1. "cancel" \in MainPlaces /\ "check" \in MainPlaces
    BY DEF MainPlaces
  <2>2. Call("cancel", "check")
    BY DEF Abort
  <2> QED
    BY <2>1, <2>2, CallRight
<1>2. TypeOK'
  BY <1>1, NumbersHold DEF Inv, TypeOK, Abort
<1>3. Chained(main)'
  BY <1>1 DEF Inv, Here, Parts, Abort
<1>4. ThreadInv'
  BY <1>1 DEF Inv, ThreadInv, Abort
<1>5. EnabledInv'
  BY <1>1 DEF Inv, Here, Parts, EnabledInv, Abort
<1>6. TokenInv'
  BY <1>1 DEF Inv, TokenInv, Abort
<1>7. QuietInv'
  BY <1>1 DEF Inv, Here, Parts, QuietInv, Abort
<1>8. CommandInv'
  BY <1>1 DEF Inv, Here, Parts, CommandInv, Abort
<1> QED
  BY <1>2, <1>3, <1>4, <1>5, <1>6, <1>7, <1>8 DEF Inv

LEMMA ResetRight ==
    ASSUME Inv, Here, NEW place \in {"instr", "scp"},
           NEW then \in {"check", "scp"}, (place = "scp") <=> (then = "scp"),
           Reset(place, then)
    PROVE  Inv'
<1>1. /\ main' \in Seq(MainPlaces) /\ main' # <<>> /\ Chained(main')
      /\ Head(main') = "cancel" /\ Tail(main') # <<>>
      /\ Head(Tail(main')) = "flush"
      /\ ~Inside(main', Work) /\ ~Inside(main', Quiet)
      /\ ~Inside(main', Cancelled)
      /\ Ends(main', "scp") <=> then = "scp"
      /\ ~Aborting(main')
  BY ResetStack DEF Reset
<1>2. TypeOK'
  BY <1>1 DEF Inv, TypeOK, Reset
<1>3. Chained(main)'
  BY <1>1 DEF Inv, Reset
<1>4. ThreadInv'
  BY <1>1 DEF Inv, ThreadInv, Reset
<1>5. EnabledInv'
  BY <1>1 DEF Inv, Here, Parts, EnabledInv, Reset
<1>6. TokenInv'
  BY <1>1 DEF Inv, TokenInv, Reset
<1>7. QuietInv'
  BY <1>1 DEF Inv, QuietInv, Reset
<1>8. CommandInv'
  BY <1>1, Empty DEF Inv, Here, Parts, CommandInv, Reset
<1> QED
  BY <1>2, <1>3, <1>4, <1>5, <1>6, <1>7, <1>8 DEF Inv

LEMMA UpdateRight == ASSUME Inv, Here, Update PROVE Inv'
<1>1. /\ main' \in Seq(MainPlaces) /\ main' # <<>> /\ Parts(main')
      /\ Head(main') = "grab" /\ Tail(main') = Tail(main)
  <2>1. "grab" \in MainPlaces
    BY DEF MainPlaces
  <2> QED
    BY <2>1, GotoRight DEF Update
<1>2. TypeOK'
  BY <1>1 DEF Inv, TypeOK, Update
<1>3. Chained(main)'
  BY <1>1 DEF Inv, Here, Parts, Update
<1>4. ThreadInv'
  BY <1>1 DEF Inv, ThreadInv, Update
<1>5. EnabledInv'
  BY <1>1 DEF Inv, Here, Parts, EnabledInv, Update
<1>6. TokenInv'
  BY <1>1 DEF Inv, Here, Parts, TokenInv, Update
<1>7. QuietInv'
  BY <1>1 DEF Inv, Here, Parts, QuietInv, Update
<1>8. CommandInv'
  BY <1>1 DEF Inv, Here, Parts, CommandInv, Update
<1> QED
  BY <1>2, <1>3, <1>4, <1>5, <1>6, <1>7, <1>8 DEF Inv

LEMMA ForgetRight == ASSUME Inv, Here, Forget PROVE Inv'
<1>1. Tail(main) # <<>> /\ main' = Tail(main)
  BY DEF Forget, Return, Inv, Here, Parts
<1>2. TypeOK'
  BY <1>1, NumbersHold DEF Inv, TypeOK, Forget
<1>3. Chained(main)'
  BY <1>1 DEF Inv, Here, Parts, Forget
<1>4. ThreadInv'
  BY <1>1 DEF Inv, Here, Parts, ThreadInv, Forget
<1>5. EnabledInv'
  BY <1>1 DEF Inv, Here, Parts, EnabledInv, Forget
<1>6. TokenInv'
  BY <1>1 DEF Inv, Here, Parts, TokenInv, Forget
<1>7. QuietInv'
  BY <1>1 DEF Inv, Here, Parts, QuietInv, Forget
<1>8. CommandInv'
  BY <1>1 DEF Inv, Here, Parts, QuietInv, CommandInv, Forget
<1> QED
  BY <1>2, <1>3, <1>4, <1>5, <1>6, <1>7, <1>8 DEF Inv

LEMMA StopRight == ASSUME Inv, Here, Stop PROVE Inv'
<1>1. /\ main' \in Seq(MainPlaces) /\ main' # <<>> /\ Parts(main')
      /\ Head(main') = "flush" /\ Tail(main') # <<>>
      /\ Head(Tail(main')) = "stopped"
      /\ Tail(Tail(main')) = <<>> /\ Parts(Tail(main'))
  <2>1. "flush" \in MainPlaces /\ "stopped" \in MainPlaces
    BY DEF MainPlaces
  <2> QED
    BY <2>1, FreshRight DEF Stop
<1>2. TypeOK'
  BY <1>1 DEF Inv, TypeOK, Stop
<1>3. Chained(main)'
  BY <1>1 DEF Inv, Parts, Stop
<1>4. ThreadInv'
  BY <1>1 DEF Inv, ThreadInv, Stop
<1>5. EnabledInv'
  BY <1>1 DEF Inv, Parts, EnabledInv, Stop
<1>6. TokenInv'
  BY <1>1 DEF Inv, TokenInv, Stop
<1>7. QuietInv'
  BY <1>1 DEF Inv, Here, Parts, QuietInv, Stop
<1>8. CommandInv'
  BY <1>1 DEF Inv, Here, Parts, CommandInv, Stop
<1> QED
  BY <1>2, <1>3, <1>4, <1>5, <1>6, <1>7, <1>8 DEF Inv

LEMMA StoppedRight == ASSUME Inv, Here, Stopped PROVE Inv'
<1>1. /\ main' \in Seq(MainPlaces) /\ main' # <<>> /\ Parts(main')
      /\ Head(main') = "grab" /\ Tail(main') # <<>> /\ Head(Tail(main')) = "scp"
      /\ Tail(Tail(main')) = Tail(main) /\ Parts(Tail(main'))
  <2>1. "grab" \in MainPlaces /\ "scp" \in MainPlaces
    BY DEF MainPlaces
  <2>2. Call("grab", "scp")
    BY DEF Stopped
  <2> QED
    BY <2>1, <2>2, CallRight
<1>2. TypeOK'
  BY <1>1 DEF Inv, TypeOK, Stopped
<1>3. Chained(main)'
  BY <1>1 DEF Inv, Here, Parts, Stopped
<1>4. ThreadInv'
  BY <1>1 DEF Inv, ThreadInv, Stopped
<1>5. EnabledInv'
  BY <1>1 DEF Inv, EnabledInv, Stopped
<1>6. TokenInv'
  BY <1>1 DEF Inv, TokenInv, Stopped
<1>7. QuietInv'
  BY <1>1 DEF Inv, Here, Parts, QuietInv, Stopped
<1>8. CommandInv'
  BY <1>1 DEF Inv, Here, Parts, CommandInv, Stopped
<1> QED
  BY <1>2, <1>3, <1>4, <1>5, <1>6, <1>7, <1>8 DEF Inv

LEMMA SetAsynchRight == ASSUME Inv, Here, SetAsynch PROVE Inv'
<1>1. /\ main' \in Seq(MainPlaces) /\ main' # <<>> /\ Parts(main')
      /\ Head(main') = "flush" /\ Tail(main') # <<>>
      /\ Head(Tail(main')) = "scp"
      /\ Tail(Tail(main')) = Tail(main) /\ Parts(Tail(main'))
  <2>1. "flush" \in MainPlaces /\ "scp" \in MainPlaces
    BY DEF MainPlaces
  <2>2. Call("flush", "scp")
    BY DEF SetAsynch
  <2> QED
    BY <2>1, <2>2, CallRight
<1>2. TypeOK'
  BY <1>1 DEF Inv, TypeOK, SetAsynch
<1>3. Chained(main)'
  BY <1>1 DEF Inv, Here, Parts, SetAsynch
<1>4. ThreadInv'
  BY <1>1 DEF Inv, ThreadInv, SetAsynch
<1>5. EnabledInv'
  BY <1>1 DEF Inv, Here, Parts, EnabledInv, SetAsynch
<1>6. TokenInv'
  BY <1>1 DEF Inv, TokenInv, SetAsynch
<1>7. QuietInv'
  BY <1>1 DEF Inv, Here, Parts, QuietInv, SetAsynch
<1>8. CommandInv'
  BY <1>1 DEF Inv, Here, Parts, CommandInv, SetAsynch
<1> QED
  BY <1>2, <1>3, <1>4, <1>5, <1>6, <1>7, <1>8 DEF Inv

LEMMA ContinueRight == ASSUME Inv, Here, Continue PROVE Inv'
<1>1. /\ main' \in Seq(MainPlaces) /\ main' # <<>> /\ Parts(main')
      /\ Head(main') = "check" /\ Tail(main') = Tail(main)
  <2>1. "check" \in MainPlaces
    BY DEF MainPlaces
  <2> QED
    BY <2>1, GotoRight DEF Continue
<1>2. TypeOK'
  BY <1>1 DEF Inv, TypeOK, Continue
<1>3. Chained(main)'
  BY <1>1 DEF Inv, Here, Parts, Continue
<1>4. ThreadInv'
  BY <1>1 DEF Inv, ThreadInv, Continue
<1>5. EnabledInv'
  BY <1>1 DEF Inv, Here, Parts, EnabledInv, Continue
<1>6. TokenInv'
  BY <1>1 DEF Inv, TokenInv, Continue
<1>7. QuietInv'
  BY <1>1 DEF Inv, Here, Parts, QuietInv, Continue
<1>8. CommandInv'
  BY <1>1 DEF Inv, Here, Parts, CommandInv, Continue
<1> QED
  BY <1>2, <1>3, <1>4, <1>5, <1>6, <1>7, <1>8 DEF Inv

LEMMA InitRight == Init => Inv
<1> SUFFICES ASSUME Init PROVE Inv
  OBVIOUS
<1>1. /\ main \in Seq(MainPlaces) /\ main # <<>> /\ Head(main) = "check"
      /\ Tail(main) = <<>> /\ Parts(main)
  <2>1. "check" \in MainPlaces /\ main = <<"check">>
    BY DEF MainPlaces, Init
  <2>2. /\ main \in Seq(MainPlaces) /\ main # <<>> /\ Head(main) = "check"
        /\ Len(main) = 1
    BY <2>1
  <2> QED
    BY <2>2, LastOne, PartsOf
<1>2. TypeOK
  BY <1>1, NumbersHold DEF Init, TypeOK
<1>3. /\ Chained(main) /\ ~Inside(main, Work) /\ ~Inside(main, Quiet)
      /\ ~Inside(main, Cancelled) /\ ~Ends(main, "scp")
  BY <1>1, Empty DEF Parts
<1> QED
  BY <1>1, <1>2, <1>3, NumbersHold
  DEF Init, Inv, ThreadInv, EnabledInv, TokenInv, QuietInv, CommandInv

LEMMA StepRight == Inv /\ [Next]_vars => Inv'
<1> SUFFICES ASSUME Inv, [Next]_vars PROVE Inv'
  OBVIOUS
<1>1. Here
  BY HereHolds DEF Inv
<1>2. CASE IOStep
  BY <1>1, <1>2, StartupRight, WakeRight, TransferRight, DoneRight, PostRight,
     AgainRight
  DEF IOStep
<1>3. CASE CallStep
  BY <1>1, <1>3, GrabRight, MigrateRight, CompletionDispatchRight,
     CallbackRight,
     CancelAgainRight, CancelRight, LookAtClockRight, RemoveRight,
     ActivateCommandRight, ActivateLaterRight, InsertCommandRight,
     InsertLaterRight
  DEF CallStep
<1>4. CASE ServiceStep
  BY <1>1, <1>4, NothingToDoRight, TopHalfRight, TopHalfHereRight,
     BottomHalfRight
  DEF ServiceStep
<1>5. CASE FlushStep
  BY <1>1, <1>5, FlushRight, JoinRight, RestartRight, StartedRight,
     FileFlushRight
  DEF FlushStep
<1>6. CASE LoopStep
  BY <1>1, <1>6, CheckEventRight, PollRight, DueRight, ExecuteRight,
     UpdateRight,
     ForgetRight, StoppedRight
  DEF LoopStep
<1>7. CASE Choice
  <2>1. CASE Reset("instr", "check")
    BY <1>1, <2>1, ResetRight
  <2>2. CASE Reset("scp", "scp")
    BY <1>1, <2>2, ResetRight
  <2> QED
    BY <1>1, <1>7, <2>1, <2>2, CommandRight, AbortRight, StopRight,
       SetAsynchRight,
       ContinueRight, BottomHalfFailsRight, TopHalfNoMemoryRight
    DEF Choice
<1>8. CASE UNCHANGED vars
  BY <1>8 DEF vars, Inv, TypeOK, ThreadInv, EnabledInv, TokenInv, QuietInv,
     CommandInv
<1> QED
  BY <1>2, <1>3, <1>4, <1>5, <1>6, <1>7, <1>8 DEF Next

LEMMA Invariance == Spec => []Inv
  BY InitRight, StepRight, PTL DEF Spec
-----------------------------------------------------------------------------
(* The theorems *)

\* The variables have their types, and the stack of the main thread is one of
\* the calls this code makes.
THEOREM TypeCorrect == Spec => []TypeOK
<1>1. Inv => TypeOK
  BY DEF Inv
<1> QED
  BY <1>1, Invariance, PTL

\* None of the tests in AIO_CALL, _disk_completion_dispatch and sim_aio_activate
\* that stop the simulator succeeds.
THEOREM AssertionsHold == Spec => []NoAbort
<1>1. Inv => NoAbort
  <2> SUFFICES ASSUME Inv, At("abort") PROVE FALSE
    BY DEF NoAbort
  <2>1. Here
    BY HereHolds DEF Inv
  <2> QED
    BY <2>1 DEF Inv, Here, Parts
<1> QED
  BY <1>1, Invariance, PTL

\* rq_svc has a command whenever it is called: STOP_RQ is not reached.
THEOREM ServiceWithCommand == Spec => []ServiceHasCommand
<1>1. Inv => ServiceHasCommand
  <2> SUFFICES ASSUME Inv, At("service"), cpkt = NoPacket PROVE FALSE
    BY DEF ServiceHasCommand
  <2>1. Here
    BY HereHolds DEF Inv
  <2> QED
    BY <2>1, Empty DEF Inv, Here, Parts, CommandInv
<1> QED
  BY <1>1, Invariance, PTL

\* The main thread leaves the file and the buffer alone while the I/O thread
\* uses them.
THEOREM FileUndisturbed == Spec => []TransferUndisturbed
<1>1. Inv => TransferUndisturbed
  <2> SUFFICES ASSUME Inv, io = "transfer",
                      At("fflush") \/ At("forget") \/ At("service")
               PROVE  FALSE
    BY DEF TransferUndisturbed
  <2>1. Here
    BY HereHolds DEF Inv
  <2>2. dop /\ callback
    BY DEF Inv, ThreadInv, TokenInv
  <2>3. ~At("service")
    BY <2>1, <2>2 DEF Inv, Here, Parts, QuietInv
  <2> QED
    BY <2>2, <2>3 DEF Inv, ThreadInv, QuietInv
<1> QED
  BY <1>1, Invariance, PTL

\* When sim_cancel returns nothing of the unit is asked for, under way, or on
\* its way back.
THEOREM CancelRests == Spec => CancelQuiesces
<1> DEFINE Rests ==
      At("remove") => /\ ~dop /\ ~callback /\ ~posted /\ wait' = NotQueued
                      /\ io \in {"none", "wait"}
<1>1. Inv /\ [Next]_vars => [Rests]_vars
  <2> SUFFICES ASSUME Inv, Next, At("remove") PROVE Rests \/ UNCHANGED vars
    BY DEF Rests
  <2>1. Here
    BY HereHolds DEF Inv
  <2>2. Inside(main, Quiet) /\ Inside(main, Cancelled)
    BY <2>1 DEF Here, Parts
  <2>3. /\ ~callback /\ ~dop /\ ~posted /\ io \in {"none", "wait"}
    BY <2>2 DEF Inv, QuietInv, TokenInv
  <2>4. ~IOStep
    BY <2>3
    DEF Inv, ThreadInv, IOStep, Startup, Wake, Transfer, Done, Post, Again
  <2>5. wait' = NotQueued
    BY <2>4 DEF Next, CallStep, ServiceStep, FlushStep, LoopStep, Choice, Grab,
       Migrate, CompletionDispatch, Callback, CancelAgain, Cancel, LookAtClock,
       Remove, Activate, Insert, NothingToDo, TopHalf, TopHalfHere, BottomHalf,
       Flush, Join, Restart, Started, FileFlush, CheckEvent, Poll, Due, Execute,
       Update, Forget, Stopped, Command, Abort, Reset, Stop, SetAsynch,
       Continue, BottomHalfFails, TopHalfNoMemory
  <2> QED
    BY <2>3, <2>5 DEF Rests
<1> QED
  BY <1>1, Invariance, PTL DEF Spec, CancelQuiesces

================================================================================
