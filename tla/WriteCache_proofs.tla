--------------------------- MODULE WriteCache_proofs ---------------------------
(***************************************************************************)
(* Proofs about WriteCache, for any number of registers.                   *)
(***************************************************************************)
EXTENDS WriteCache, FiniteSetTheorems, TLAPS

USE SizeAssumption, AddressAssumption, ValueAssumption, ModeAssumption

\* The inductive invariant: loads see the right word because no word is in two
\* registers, and evictions lose none because the oldest register is written.
Inv == TypeOK /\ OneRegister /\ OldestWritten

\* What Logical is, without a choice.
LogicalRight ==
    /\ Logical = [p \in Word |-> Logical[p]]
    /\ mode = "CACHE" =>
          \A p \in Word, i \in Reg : Holds(i, p) => Logical[p] = BRZ[i]
    /\ \A p \in Word :
          mode # "CACHE" \/ (\A i \in Reg : ~Holds(i, p)) => Logical[p] = memory[p]

LEMMA LogicalIsRight == Inv => LogicalRight
  <1> SUFFICES ASSUME Inv PROVE LogicalRight OBVIOUS
  <1>1. ASSUME NEW p \in Word PROVE Logical[p] =
           IF mode = "CACHE" /\ \E i \in Reg : Holds(i, p)
           THEN BRZ[CHOOSE i \in Reg : Holds(i, p)] ELSE memory[p]
    BY DEF Logical
  <1>2. ASSUME mode = "CACHE", NEW p \in Word, NEW i \in Reg, Holds(i, p)
        PROVE  Logical[p] = BRZ[i]
    <2>1. Holds(CHOOSE j \in Reg : Holds(j, p), p)
          /\ (CHOOSE j \in Reg : Holds(j, p)) \in Reg
      BY <1>2
    <2> QED BY <2>1, <1>1, <1>2 DEF Inv, OneRegister
  <1>3. ASSUME NEW p \in Word, mode # "CACHE" \/ \A i \in Reg : ~Holds(i, p)
        PROVE  Logical[p] = memory[p]
    BY <1>1, <1>3
  <1>4. Logical = [p \in Word |-> Logical[p]]
    BY DEF Logical
  <1> QED BY <1>2, <1>3, <1>4 DEF LogicalRight

LEMMA LogicalIsRightNext == Inv' => LogicalRight'
  BY LogicalIsRight, PTL

\* An address is that of one word or switch register.
LEMMA Physical ==
  ASSUME TypeOK, NEW a \in Addr PROVE physaddr(a) \in Word \cup Switch
  BY DEF TypeOK, physaddr, Addr

\* What writing a register does to memory.
LEMMA Flushed ==
  ASSUME NEW mem \in [Word -> Val], NEW a, NEW v, a # NoAddr => v \in Val
  PROVE  /\ FlushOne(mem, a, v) \in [Word -> Val]
         /\ \A q \in Word : FlushOne(mem, a, v)[q] =
               IF a # NoAddr /\ physaddr(a) = q THEN v ELSE mem[q]
         /\ \/ FlushOne(mem, a, v) = mem
            \/ \E q \in Word : /\ a # NoAddr /\ physaddr(a) = q
                               /\ FlushOne(mem, a, v) = [mem EXCEPT ![q] = v]
  BY DEF FlushOne

\* Under the rules one register at most matches, so that mmu_match finds it.
LEMMA MatchIsOne ==
  ASSUME Inv, mode = "CACHE", NEW a \in Addr, ~IsSwitch(a),
         NEW fail \in Reg
  PROVE  /\ Matches(a) = {} => Match(a, fail) = fail
         /\ \A i \in Matches(a) : Match(a, fail) = i /\ i \in Reg
  <1>1. physaddr(a) \in Word
    BY Physical DEF IsSwitch, Inv
  <1>2. a # NoAddr OBVIOUS
  <1>3. \A i \in Matches(a) : i \in Reg /\ Holds(i, physaddr(a))
    BY <1>2 DEF Matches, Holds
  <1>4. \A i, j \in Matches(a) : i = j
    BY <1>1, <1>3 DEF Inv, OneRegister
  <1>5. ASSUME NEW i \in Matches(a)
        PROVE  Match(a, fail) = i /\ i \in Reg
    <2>1. i \in Int BY <1>3 DEF Reg
    <2>2. \A j \in Matches(a) : i <= j BY <1>4, <2>1
    <2>3. (CHOOSE k \in Matches(a) : \A j \in Matches(a) : k <= j) = i
      BY <2>2, <1>4
    <2>4. Matches(a) # {} OBVIOUS
    <2> QED BY <2>3, <2>4, <1>3 DEF Match
  <1> QED BY <1>5 DEF Match

\* The register a store takes: no other holds the word, and what it loses is
\* that word itself or what memory has already.
LEMMA Taken ==
  ASSUME Careful, Inv, mode = "CACHE", NEW a \in Addr, SoleAddress(a)
  PROVE  /\ Matching(a) \in Reg
         /\ \A p \in Word, j \in Reg :
               Holds(j, p) /\ p = physaddr(a) => j = Matching(a)
         /\ \A p \in Word :
               Holds(Matching(a), p) => p = physaddr(a) \/ memory[p] = BRZ[Matching(a)]
  <1>0. OLDEST \in Reg BY DEF Inv, TypeOK
  <1>1. CASE IsSwitch(a)
    <2>1. Matching(a) = OLDEST BY <1>1 DEF Matching
    <2>2. physaddr(a) \notin Word BY <1>1 DEF IsSwitch
    <2> QED BY <1>0, <2>1, <2>2 DEF Inv, OldestWritten
  <1>2. CASE ~IsSwitch(a)
    <2>1. Matching(a) = Match(a, OLDEST) BY <1>2 DEF Matching
    <2>2. \A j \in Reg : Holds(j, physaddr(a)) => j \in Matches(a)
      BY <1>2 DEF SoleAddress, Matches
    <2>3. CASE Matches(a) = {}
      <3>1. Matching(a) = OLDEST BY <2>1, <2>3, <1>0, <1>2, MatchIsOne
      <3> QED BY <3>1, <2>2, <2>3, <1>0 DEF Inv, OldestWritten
    <2>4. ASSUME NEW i \in Matches(a) PROVE Matching(a) = i /\ i \in Reg
      BY <2>1, <1>0, <1>2, MatchIsOne
    <2>5. \A i \in Matches(a) : BAZ[i] = a BY DEF Matches
    <2> QED BY <2>2, <2>3, <2>4, <2>5 DEF Holds
  <1> QED BY <1>1, <1>2

\* The bits of the age table name pairs of registers, and OLDEST a register.
LEMMA Ages ==
  ASSUME TypeOK, NEW i \in Reg
  PROVE  /\ SetWins(i) \subseteq Reg \X Reg
         /\ \A table : UpdateOldest(table) \in Reg
  <1>1. SetWins(i) \subseteq Reg \X Reg
    BY DEF TypeOK, SetWins, win_mask, lose_mask
  <1>2. ASSUME NEW table PROVE UpdateOldest(table) \in Reg
    BY DEF TypeOK, UpdateOldest
  <1> QED BY <1>1, <1>2

LEMMA StoreCachedRight ==
  ASSUME Careful, Inv, NEW a \in Addr, NEW v \in Val, StoreCached(a, v)
  PROVE  Inv' /\ Backed!Next
  <1> DEFINE i == Matching(a)
  <1> USE DEF StoreCached
  <1>1. i \in Reg /\ mode = "CACHE" /\ mode' = "CACHE"
    BY Taken
  <1>2. /\ BRZ' = [BRZ EXCEPT ![i] = v] /\ BAZ' = [BAZ EXCEPT ![i] = a]
        /\ BAZ'[i] = a /\ BRZ'[i] = v
        /\ \A j \in Reg \ {i} : BAZ'[j] = BAZ[j] /\ BRZ'[j] = BRZ[j]
    BY <1>1 DEF TakeRegister, Inv, TypeOK
  <1>3. \A j \in Reg, p \in Word :
           Holds(j, p)' <=> IF j = i THEN p = physaddr(a) ELSE Holds(j, p)
    BY <1>1, <1>2 DEF Holds, physaddr
  <1>4. OLDEST' \in Reg
    BY <1>1, Ages DEF Inv, TypeOK
  <1>5. \/ i # OLDEST /\ memory' = memory /\ OLDEST' = OLDEST
        \/ /\ i = OLDEST
           /\ memory' = FlushOne(memory, BAZ'[OLDEST'], BRZ'[OLDEST'])
    OBVIOUS
  <1>6. /\ BRZ' \in [Reg -> Val \cup {NoVal}] /\ BAZ' \in [Reg -> Addr \cup {NoAddr}]
        /\ \A j \in Reg : BAZ'[j] # NoAddr => BRZ'[j] \in Val
    BY <1>1, <1>2 DEF Inv, TypeOK
  <1>7. /\ memory' \in [Word -> Val]
        /\ i = OLDEST => \A q \in Word :
              memory'[q] = IF Holds(OLDEST, q)' THEN BRZ'[OLDEST'] ELSE memory[q]
        /\ \/ memory' = memory
           \/ \E q \in Word : /\ Holds(OLDEST, q)'
                              /\ memory' = [memory EXCEPT ![q] = BRZ'[OLDEST']]
    <2>1. memory \in [Word -> Val] BY DEF Inv, TypeOK
    <2>2. BAZ'[OLDEST'] # NoAddr => BRZ'[OLDEST'] \in Val BY <1>4, <1>6
    <2>3. \A q \in Word :
             Holds(OLDEST, q)' <=> BAZ'[OLDEST'] # NoAddr /\ physaddr(BAZ'[OLDEST']) = q
      BY DEF Holds, physaddr
    <2>4. CASE i # OLDEST BY <2>1, <2>4
    <2>5. CASE i = OLDEST BY <2>1, <2>2, <2>3, <2>5, Flushed
    <2> QED BY <2>4, <2>5
  <1>8. TypeOK'
    <2>1. TABST' \subseteq Reg \X Reg
      BY <1>1, Ages DEF Inv
    <2>2. pushed' \in 0..N
      BY DEF Inv, TypeOK, Pushes
    <2> QED BY <1>4, <1>6, <1>7, <2>1, <2>2 DEF Inv, TypeOK
  <1>9. OneRegister'
    <2>1. \A j \in Reg, p \in Word : Holds(j, p) /\ p = physaddr(a) => j = i
      BY <1>1, Taken
    <2> QED BY <1>1, <1>3, <2>1 DEF Inv, OneRegister
  <1>10. OldestWritten'
    <2>1. CASE i # OLDEST
      <3>1. OLDEST' = OLDEST /\ memory' = memory BY <2>1, <1>5
      <3> QED BY <3>1, <2>1, <1>1, <1>2, <1>3, <1>4 DEF Inv, OldestWritten
    <2>2. CASE i = OLDEST BY <2>2, <1>7 DEF OldestWritten
    <2> QED BY <2>1, <2>2
  <1>11. Inv' BY <1>8, <1>9, <1>10 DEF Inv
  <1>12. LogicalRight BY LogicalIsRight
  <1>13. LogicalRight' BY <1>11, LogicalIsRightNext
  <1>14. \A q \in Word : Logical'[q] = IF q = physaddr(a) THEN v ELSE Logical[q]
    <2> TAKE q \in Word
    <2>1. CASE q = physaddr(a)
      BY <2>1, <1>1, <1>2, <1>3, <1>13 DEF LogicalRight
    <2>2. CASE q # physaddr(a)
      <3>1. ASSUME NEW j \in Reg \ {i}, Holds(j, q)
            PROVE  Logical'[q] = Logical[q]
        BY <3>1, <2>2, <1>1, <1>2, <1>3, <1>12, <1>13 DEF LogicalRight
      <3>2. CASE \A j \in Reg \ {i} : ~Holds(j, q)
        <4>1. Logical'[q] = memory'[q]
          BY <3>2, <2>2, <1>3, <1>13 DEF LogicalRight
        <4>2. memory'[q] = memory[q]
          BY <3>2, <2>2, <1>3, <1>4, <1>5, <1>7
        <4>3. Logical[q] = memory[q]
          <5>1. CASE Holds(i, q)
            <6>1. memory[q] = BRZ[i] BY <5>1, <2>2, <1>1, Taken
            <6> QED BY <6>1, <5>1, <1>1, <1>12 DEF LogicalRight
          <5>2. CASE ~Holds(i, q)
            BY <5>2, <3>2, <1>12 DEF LogicalRight
          <5> QED BY <5>1, <5>2
        <4> QED BY <4>1, <4>2, <4>3, <2>2
      <3> QED BY <3>1, <3>2, <2>2
    <2> QED BY <2>1, <2>2
  <1>15. Backed!WriteBack
    <2>1. CASE memory' = memory BY <2>1 DEF Backed!WriteBack
    <2>2. ASSUME NEW q \in Word, Holds(OLDEST, q)',
                 memory' = [memory EXCEPT ![q] = BRZ'[OLDEST']]
          PROVE  Backed!WriteBack
      <3>1. Logical'[q] = BRZ'[OLDEST']
        BY <2>2, <1>1, <1>4, <1>13 DEF LogicalRight
      <3> QED BY <3>1, <2>2 DEF Backed!WriteBack
    <2> QED BY <2>1, <2>2, <1>7
  <1>16. got' = got OBVIOUS
  <1>17. CASE physaddr(a) \in Word
    <2>1. Logical' = [Logical EXCEPT ![physaddr(a)] = v]
      BY <1>12, <1>13, <1>14 DEF LogicalRight
    <2>2. Backed!Store(physaddr(a), v)
      BY <2>1, <1>15, <1>16 DEF Backed!Store
    <2> QED BY <2>2, <1>17, <1>11 DEF Backed!Next
  <1>18. CASE physaddr(a) \notin Word
    <2>1. Logical' = Logical
      BY <1>18, <1>12, <1>13, <1>14 DEF LogicalRight
    <2>2. Backed!Push
      BY <2>1, <1>15, <1>16 DEF Backed!Push
    <2> QED BY <2>2, <1>11 DEF Backed!Next
  <1> QED BY <1>17, <1>18

LEMMA StoreThroughRight ==
  ASSUME Careful, Inv, NEW a \in Addr, NEW v \in Val, StoreThrough(a, v)
  PROVE  Inv' /\ Backed!Next
  <1> USE DEF StoreThrough
  <1>1. PICK i \in Reg : TakeRegister(i, a, v)
    OBVIOUS
  <1>2. /\ BRZ' \in [Reg -> Val \cup {NoVal}] /\ BAZ' \in [Reg -> Addr \cup {NoAddr}]
        /\ \A j \in Reg : BAZ'[j] # NoAddr => BRZ'[j] \in Val
    BY <1>1 DEF Inv, TypeOK, TakeRegister
  <1>3. /\ memory' \in [Word -> Val]
        /\ \A q \in Word : memory'[q] = IF physaddr(a) = q THEN v ELSE memory[q]
        /\ \/ memory' = memory
           \/ \E q \in Word : q = physaddr(a) /\ memory' = [memory EXCEPT ![q] = v]
    BY Flushed DEF Inv, TypeOK
  <1>4. Inv' BY <1>2, <1>3 DEF Inv, TypeOK, OneRegister, OldestWritten
  <1>5. LogicalRight /\ LogicalRight'
    BY <1>4, LogicalIsRight, LogicalIsRightNext
  <1>6. \A q \in Word : Logical[q] = memory[q] /\ Logical'[q] = memory'[q]
    BY <1>5 DEF LogicalRight
  <1>7. CASE physaddr(a) \in Word
    <2>1. Logical' = [Logical EXCEPT ![physaddr(a)] = v]
      BY <1>3, <1>5, <1>6 DEF LogicalRight
    <2>2. Backed!WriteBack BY <1>3, <1>6 DEF Backed!WriteBack
    <2>3. Backed!Store(physaddr(a), v) BY <2>1, <2>2 DEF Backed!Store
    <2> QED BY <2>3, <1>4, <1>7 DEF Backed!Next
  <1>8. CASE physaddr(a) \notin Word
    <2>1. Logical' = Logical BY <1>3, <1>5, <1>6, <1>8 DEF LogicalRight
    <2>2. Backed!Push
      BY <2>1, <1>3, <1>8 DEF Backed!Push, Backed!WriteBack
    <2> QED BY <2>2, <1>4 DEF Backed!Next
  <1> QED BY <1>7, <1>8

LEMMA LoadCachedRight ==
  ASSUME Careful, Inv, NEW a \in Addr, LoadCached(a)
  PROVE  Inv' /\ Backed!Next
  <1> USE DEF LoadCached
  <1> DEFINE i == Match(a, OLDEST)
  <1>1. OLDEST \in Reg BY DEF Inv, TypeOK
  <1>2. i \in Matches(a) /\ i \in Reg
    BY <1>1, MatchIsOne
  <1>3. BAZ[i] = a /\ Holds(i, physaddr(a)) /\ physaddr(a) \in Word
    BY <1>2, Physical DEF Matches, Holds, IsSwitch, Inv
  <1>4. got' = BRZ[i] /\ BRZ[i] \in Val
    BY <1>2, <1>3 DEF Inv, TypeOK
  <1>5. TABST' \subseteq Reg \X Reg
    BY <1>2, Ages DEF Inv, TypeOK
  <1>6. 0 \in 0..N OBVIOUS
  <1>7. Inv'
    BY <1>4, <1>5, <1>6
    DEF Inv, TypeOK, OneRegister, OldestWritten, Holds, physaddr
  <1>8. Logical' = Logical BY DEF Logical, Holds, physaddr
  <1>9. Logical[physaddr(a)] = BRZ[i]
    BY <1>2, <1>3, LogicalIsRight DEF LogicalRight
  <1>10. Backed!Load(physaddr(a))
    BY <1>4, <1>8, <1>9 DEF Backed!Load
  <1> QED BY <1>3, <1>7, <1>10 DEF Backed!Next

\* Nothing that Inv or Logical depends on changes.
LEMMA StateStays ==
  ASSUME Inv, UNCHANGED <<memory, registers, TLB, mode>>,
         got' \in Val \cup {NoVal}, pushed' \in 0..N
  PROVE  Inv' /\ Logical' = Logical
  BY DEF Inv, TypeOK, OneRegister, OldestWritten, Holds, physaddr, Logical, registers

LEMMA LoadMemoryRight ==
  ASSUME Careful, Inv, NEW a \in Addr, LoadMemory(a)
  PROVE  Inv' /\ Backed!Next
  <1>1. physaddr(a) \in Word
    BY Physical DEF Inv, IsSwitch, LoadMemory
  <1>2. Inv' /\ Logical' = Logical
    BY <1>1, StateStays DEF Inv, TypeOK, LoadMemory
  <1>3. mode = "CACHE" => \A i \in Reg : ~Holds(i, physaddr(a))
    BY DEF LoadMemory, SoleAddress, Matches
  <1>4. Logical[physaddr(a)] = memory[physaddr(a)]
    BY <1>1, <1>3, LogicalIsRight DEF LogicalRight
  <1>5. Backed!Load(physaddr(a))
    BY <1>2, <1>4 DEF Backed!Load, LoadMemory
  <1> QED BY <1>1, <1>2, <1>5 DEF Backed!Next

LEMMA LoadSwitchRight ==
  ASSUME Inv, NEW a \in Addr, LoadSwitch(a)
  PROVE  Inv' /\ Backed!Next
  <1>1. Inv' /\ Logical' = Logical
    BY StateStays DEF Inv, TypeOK, LoadSwitch
  <1>2. Backed!LoadNothing BY <1>1 DEF Backed!LoadNothing, LoadSwitch
  <1> QED BY <1>1, <1>2 DEF Backed!Next

\* A register that is emptied holds no word, whatever the paging registers are.
LEMMA EmptiedHoldNothing ==
  ASSUME Emptied, NEW p \in Word, NEW i \in Reg PROVE ~Holds(i, p)
  BY DEF Emptied, Holds, physaddr, Addr

\* Where no register holds a word, what a program sees is memory.
LEMMA NothingHeld ==
  ASSUME Inv, mode = "CACHE" => \A i \in Reg, p \in Word : ~Holds(i, p)
  PROVE  Logical = memory
  <1>1. \A p \in Word : Logical[p] = memory[p]
    BY LogicalIsRight DEF LogicalRight
  <1> QED BY <1>1, LogicalIsRight DEF LogicalRight, Inv, TypeOK

LEMMA SetMapRight ==
  ASSUME Careful, Inv, NEW m \in Maps, SetMap(m)
  PROVE  Inv' /\ UNCHANGED Backed!vars
  <1> USE DEF SetMap, registers
  <1>1. mode = "CACHE" => \A i \in Reg, p \in Word : ~Holds(i, p) /\ ~Holds(i, p)'
    BY EmptiedHoldNothing DEF Emptied, Holds, physaddr, Addr
  <1>2. OLDEST \in Reg BY DEF Inv, TypeOK
  <1>3. Inv'
    BY <1>1, <1>2 DEF Inv, TypeOK, OneRegister, OldestWritten
  <1>4. Logical = memory BY <1>1, NothingHeld
  <1>5. \A p \in Word : Logical'[p] = memory'[p]
    BY <1>1, <1>3, LogicalIsRightNext DEF LogicalRight
  <1>6. Logical' = memory'
    BY <1>3, <1>5, LogicalIsRightNext DEF LogicalRight, Inv, TypeOK
  <1> QED BY <1>3, <1>4, <1>6 DEF Backed!vars

LEMMA SetModeRight ==
  ASSUME Careful, Inv, NEW m \in Modes, SetMode(m)
  PROVE  Inv' /\ UNCHANGED Backed!vars
  <1> USE DEF SetMode, registers
  <1>1. \A i \in Reg, p \in Word : ~Holds(i, p) /\ ~Holds(i, p)'
    BY EmptiedHoldNothing DEF Emptied, Holds, physaddr, Addr
  <1>2. OLDEST \in Reg /\ 0 \in 0..N BY DEF Inv, TypeOK
  <1>3. Inv'
    BY <1>1, <1>2 DEF Inv, TypeOK, OneRegister, OldestWritten
  <1>4. Logical = memory BY <1>1, NothingHeld
  <1>5. \A p \in Word : Logical'[p] = memory'[p]
    BY <1>1, <1>3, LogicalIsRightNext DEF LogicalRight
  <1>6. Logical' = memory'
    BY <1>3, <1>5, LogicalIsRightNext DEF LogicalRight, Inv, TypeOK
  <1> QED BY <1>3, <1>4, <1>6 DEF Backed!vars

LEMMA DeviceWriteRight ==
  ASSUME Careful, Inv, NEW p \in Word, NEW v \in Val, DeviceWrite(p, v)
  PROVE  Inv' /\ Backed!Next
  <1> USE DEF DeviceWrite, registers
  <1>1. \A i \in Reg, q \in Word : Holds(i, q)' <=> Holds(i, q)
    BY DEF Holds, physaddr
  <1>2. /\ memory' \in [Word -> Val] /\ memory'[p] = v
        /\ \A q \in Word \ {p} : memory'[q] = memory[q]
    BY DEF Inv, TypeOK
  <1>3. OLDEST \in Reg BY DEF Inv, TypeOK
  <1>4. TypeOK' BY <1>2 DEF Inv, TypeOK
  <1>5. OneRegister' BY <1>1 DEF Inv, OneRegister
  <1>6. OldestWritten'
    BY <1>2, <1>3 DEF Inv, OldestWritten, Holds, physaddr
  <1>7. Inv' BY <1>4, <1>5, <1>6 DEF Inv
  <1>8. LogicalRight /\ LogicalRight'
    BY <1>7, LogicalIsRight, LogicalIsRightNext
  <1>9. Logical'[p] = v
    BY <1>1, <1>2, <1>8 DEF LogicalRight
  <1>10. \A q \in Word \ {p} : Logical'[q] = Logical[q]
    <2> TAKE q \in Word \ {p}
    <2>1. ASSUME mode = "CACHE", NEW i \in Reg, Holds(i, q)
          PROVE  Logical'[q] = Logical[q]
      BY <2>1, <1>1, <1>8 DEF LogicalRight
    <2>2. CASE mode # "CACHE" \/ \A i \in Reg : ~Holds(i, q)
      BY <2>2, <1>1, <1>2, <1>8 DEF LogicalRight
    <2> QED BY <2>1, <2>2
  <1>11. Logical' = [Logical EXCEPT ![p] = v]
    BY <1>8, <1>9, <1>10 DEF LogicalRight
  <1>12. Backed!DeviceWrite(p, v) BY <1>11 DEF Backed!DeviceWrite
  <1> QED BY <1>7, <1>12 DEF Backed!Next

\* Under the rules mmu_sync writes to memory what a program sees.
LEMMA SyncedRight ==
  ASSUME Careful, Inv, mode = "CACHE" \/ Emptied
  PROVE  /\ Synced = Logical /\ Synced \in [Word -> Val]
  <1>1. ASSUME NEW p \in Word
        PROVE  Synced[p] = Logical[p] /\ Synced[p] \in Val
    <2>0. Synced[p] = IF Latest(p) = {} THEN memory[p]
                      ELSE BRZ[CHOOSE i \in Reg : i \in Latest(p)]
      BY DEF Synced
    <2>1. ASSUME NEW i \in Reg, Holds(i, p)
          PROVE  Synced[p] = Logical[p] /\ Synced[p] \in Val
      <3>1. mode = "CACHE" BY <2>1, EmptiedHoldNothing
      <3>2. \A j \in Reg : Holds(j, p) => j = i
        BY <2>1, <3>1 DEF Inv, OneRegister
      <3>3. i <= i BY DEF Reg
      <3>4. Latest(p) = {i} BY <2>1, <3>2, <3>3 DEF Latest
      <3>5. (CHOOSE j \in Reg : j \in Latest(p)) = i BY <3>4
      <3>6. Synced[p] = BRZ[i] BY <2>0, <3>4, <3>5
      <3>7. Logical[p] = BRZ[i]
        BY <2>1, <3>1, LogicalIsRight DEF LogicalRight
      <3>8. BRZ[i] \in Val BY <2>1 DEF Inv, TypeOK, Holds
      <3> QED BY <3>6, <3>7, <3>8
    <2>2. CASE \A i \in Reg : ~Holds(i, p)
      <3>1. Latest(p) = {} BY <2>2 DEF Latest
      <3>2. Logical[p] = memory[p]
        BY <2>2, LogicalIsRight DEF LogicalRight
      <3> QED BY <2>0, <3>1, <3>2 DEF Inv, TypeOK
    <2> QED BY <2>1, <2>2
  <1>2. Synced = [p \in Word |-> Synced[p]] BY DEF Synced
  <1>3. Logical = [p \in Word |-> Logical[p]]
    BY LogicalIsRight DEF LogicalRight
  <1> HIDE DEF Synced
  <1>4. Synced = Logical BY <1>1, <1>2, <1>3
  <1>5. Synced \in [Word -> Val] BY <1>1, <1>2
  <1> QED BY <1>4, <1>5

LEMMA DepositRight ==
  ASSUME Careful, Inv, NEW p \in Word \cup Switch, NEW v \in Val, Deposit(p, v)
  PROVE  Inv' /\ Backed!Next
  <1> USE DEF Deposit
  <1>1. Synced = Logical /\ Synced \in [Word -> Val]
    BY SyncedRight
  <1>2. BAZ' \in [Reg -> {NoAddr}] BY DEF Clear
  <1>3. memory' \in [Word -> Val] BY <1>1
  <1>4. \A i \in Reg, q \in Word : ~Holds(i, q)'
    BY <1>2 DEF Holds
  <1>5. OLDEST \in Reg BY DEF Inv, TypeOK
  <1>6. Inv'
    BY <1>2, <1>3, <1>4, <1>5 DEF Inv, TypeOK, OneRegister, OldestWritten
  <1>7. Logical' = memory'
    <2>1. \A q \in Word : Logical'[q] = memory'[q]
      BY <1>4, <1>6, LogicalIsRightNext DEF LogicalRight
    <2> QED BY <1>3, <1>6, <2>1, LogicalIsRightNext DEF LogicalRight
  <1>8. CASE p \in Word
    <2>1. Backed!Deposit(p, v) BY <1>1, <1>7, <1>8 DEF Backed!Deposit
    <2> QED BY <2>1, <1>6, <1>8 DEF Backed!Next
  <1>9. CASE p \notin Word
    <2>1. Backed!Sync BY <1>1, <1>7, <1>9 DEF Backed!Sync
    <2> QED BY <2>1, <1>6 DEF Backed!Next
  <1> QED BY <1>8, <1>9

LEMMA ResetRight ==
  ASSUME Inv, Reset PROVE Inv' /\ Backed!Next
  <1> USE DEF Reset
  <1>1. BAZ' \in [Reg -> {NoAddr}] /\ BRZ' \in [Reg -> {NoVal}] BY DEF Clear
  <1>2. \A i \in Reg, q \in Word : ~Holds(i, q)' BY <1>1 DEF Holds
  <1>3. OLDEST' \in Reg /\ 0 \in 0..N BY DEF Reg
  <1>4. TypeOK'
    BY <1>1, <1>3 DEF Inv, TypeOK
  <1>5. Inv'
    BY <1>2, <1>3, <1>4 DEF Inv, OneRegister, OldestWritten
  <1>6. Logical' = memory'
    <2>1. \A q \in Word : Logical'[q] = memory'[q]
      BY <1>2, <1>5, LogicalIsRightNext DEF LogicalRight
    <2> QED BY <1>5, <2>1, LogicalIsRightNext DEF LogicalRight, Inv, TypeOK
  <1>7. Backed!Reset BY <1>6 DEF Backed!Reset
  <1> QED BY <1>5, <1>7 DEF Backed!Next

LEMMA InitRight ==
  ASSUME Init PROVE Inv /\ Backed!Init
  <1> USE DEF Init
  <1>1. 0 \in Reg /\ 0 \in 0..N BY DEF Reg
  <1>2. \A i \in Reg, p \in Word : ~Holds(i, p) BY DEF Holds
  <1>3. Inv BY <1>1, <1>2 DEF Inv, TypeOK, OneRegister, OldestWritten
  <1>4. Logical = memory BY <1>2, <1>3, NothingHeld
  <1> QED BY <1>3, <1>4 DEF Backed!Init

\* Every step of the cache keeps the invariant, and is one of memory or none.
LEMMA StepRight ==
  ASSUME Careful, Inv, [Next]_vars
  PROVE  Inv' /\ [Backed!Next]_(Backed!vars)
  <1>1. ASSUME NEW a \in Addr, NEW v \in Val, StoreCached(a, v) \/ StoreThrough(a, v)
        PROVE  Inv' /\ Backed!Next
    BY <1>1, StoreCachedRight, StoreThroughRight
  <1>2. ASSUME NEW a \in Addr, LoadCached(a) \/ LoadMemory(a) \/ LoadSwitch(a)
        PROVE  Inv' /\ Backed!Next
    BY <1>2, LoadCachedRight, LoadMemoryRight, LoadSwitchRight
  <1>3. ASSUME NEW m \in Maps, SetMap(m) PROVE Inv' /\ UNCHANGED Backed!vars
    BY <1>3, SetMapRight
  <1>4. ASSUME NEW p \in Word, NEW v \in Val, DeviceWrite(p, v)
        PROVE  Inv' /\ Backed!Next
    BY <1>4, DeviceWriteRight
  <1>5. ASSUME NEW p \in Word \cup Switch, NEW v \in Val, Deposit(p, v)
        PROVE  Inv' /\ Backed!Next
    BY <1>5, DepositRight
  <1>6. ASSUME NEW m \in Modes, SetMode(m) PROVE Inv' /\ UNCHANGED Backed!vars
    BY <1>6, SetModeRight
  <1>7. CASE Reset BY <1>7, ResetRight
  <1>8. CASE UNCHANGED vars
    BY <1>8, StateStays DEF vars, registers, Backed!vars, Inv, TypeOK
  <1> QED BY <1>1, <1>2, <1>3, <1>4, <1>5, <1>6, <1>7, <1>8 DEF Next

LEMMA Invariance == ASSUME Careful PROVE Spec => []Inv
  <1>1. Init => Inv BY InitRight
  <1>2. Inv /\ [Next]_vars => Inv' BY StepRight
  <1> QED BY <1>1, <1>2, PTL DEF Spec

\* Registers, ages, paging registers and memory keep their types; a register
\* that has an address has a word.
THEOREM TypeCorrect == ASSUME Careful PROVE Spec => []TypeOK
  <1>1. Inv => TypeOK BY DEF Inv
  <1> QED BY <1>1, Invariance, PTL

\* Under the rules no word is ever in two of the buffer registers.
THEOREM NoWordTwice == ASSUME Careful PROVE Spec => []OneRegister
  <1>1. Inv => OneRegister BY DEF Inv
  <1> QED BY <1>1, Invariance, PTL

\* Under the rules the register that mmu_store takes next is in memory.
THEOREM EvictionSafe == ASSUME Careful PROVE Spec => []OldestWritten
  <1>1. Inv => OldestWritten BY DEF Inv
  <1> QED BY <1>1, Invariance, PTL

\* Under the rules the write cache is invisible: it implements one memory with
\* a copy behind it, for any number of registers, words and mapped addresses.
THEOREM CacheIsMemory == ASSUME Careful PROVE Spec => ImplementsMemory
  <1>1. Init => Backed!Init BY InitRight
  <1>2. Inv /\ [Next]_vars => [Backed!Next]_(Backed!vars) BY StepRight
  <1> QED BY <1>1, <1>2, Invariance, PTL DEF Spec, ImplementsMemory, Backed!Spec
-----------------------------------------------------------------------------
(* The age table *)

\* Register i is younger than j by a table.
Wins(i, j, table) == IF i < j THEN <<i, j>> \in table ELSE <<j, i>> \notin table

\* Of two registers just one is the younger.
LEMMA OneWins ==
  ASSUME NEW table, NEW i \in Reg, NEW j \in Reg, i # j
  PROVE  Wins(i, j, table) <=> ~Wins(j, i, table)
  BY DEF Wins, Reg

\* The oldest register is the one that all others are younger than.
LEMMA LosesIsOldest ==
  ASSUME NEW table, NEW i \in Reg
  PROVE  LosesToAll(i, table) <=> \A j \in Reg \ {i} : Wins(j, i, table)
  <1>1. ASSUME NEW j \in Reg \ {i}
        PROVE  /\ i < j => (Wins(j, i, table) <=> <<i, j>> \notin table)
               /\ j < i => (Wins(j, i, table) <=> <<j, i>> \in table)
               /\ i < j \/ j < i
    BY DEF Wins, Reg
  <1>2. LosesToAll(i, table) <=>
           /\ \A j \in Reg : i < j => <<i, j>> \notin table
           /\ \A j \in Reg : j < i => <<j, i>> \in table
    BY DEF LosesToAll, win_mask, lose_mask
  <1>3. ~(i < i) BY DEF Reg
  <1> QED BY <1>1, <1>2, <1>3

\* SetWins makes register i the youngest, and the ages of the others stay.
LEMMA WinsNow ==
  ASSUME NEW i \in Reg, NEW j \in Reg, NEW k \in Reg, j # k
  PROVE  Wins(j, k, SetWins(i)) <=>
            IF j = i THEN TRUE ELSE IF k = i THEN FALSE ELSE Wins(j, k, TABST)
  <1>1. ASSUME NEW m \in Reg, NEW n \in Reg, m < n
        PROVE  <<m, n>> \in SetWins(i) <=>
                  \/ m = i
                  \/ n # i /\ <<m, n>> \in TABST
    BY <1>1 DEF SetWins, win_mask, lose_mask, Reg
  <1>2. j < k \/ k < j BY DEF Reg
  <1>3. CASE j < k BY <1>3, <1>1 DEF Wins
  <1>4. CASE k < j
    <2>1. ~(j < k) BY <1>4 DEF Reg
    <2> QED BY <2>1, <1>4, <1>1 DEF Wins
  <1> QED BY <1>2, <1>3, <1>4

\* The ages of registers in a table make a chain.
Ordered(table) ==
    \A i, j, k \in Reg :
       /\ i # j /\ j # k /\ i # k
       /\ Wins(i, j, table) /\ Wins(j, k, table)
       => Wins(i, k, table)

\* A chain has an end: of the sets of registers older than a given one, take a
\* least one; the register it belongs to has none older than itself, else that
\* one's set would be smaller.
LEMMA ChainEnds ==
  ASSUME NEW table, Ordered(table)
  PROVE  \E i \in Reg : LosesToAll(i, table)
  <1> DEFINE Older(i) == {j \in Reg \ {i} : Wins(i, j, table)}
             T == {Older(i) : i \in Reg}
  <1>1. IsFiniteSet(Reg)
    BY FS_Interval DEF Reg
  <1>2. T \subseteq FiniteSubsetsOf(Reg) /\ T # {}
    <2>1. 0 \in Reg BY DEF Reg
    <2>2. \A i \in Reg : Older(i) \subseteq Reg /\ IsFiniteSet(Older(i))
      BY <1>1, FS_Subset
    <2> HIDE DEF Older
    <2>3. \A i \in Reg : Older(i) \in FiniteSubsetsOf(Reg)
      BY <2>2 DEF FiniteSubsetsOf
    <2> QED BY <2>1, <2>3
  <1>3. PICK A \in T : \A B \in T : ~(<<B, A>> \in StrictSubsetOrdering(Reg))
    <2> HIDE DEF T
    <2>1. IsWellFoundedOn(StrictSubsetOrdering(Reg), FiniteSubsetsOf(Reg))
      BY FS_StrictSubsetOrderingWellFounded
    <2> QED BY <1>2, <2>1, WFMin
  <1>4. PICK i \in Reg : A = Older(i)
    BY <1>3
  <1>5. ASSUME NEW j \in Reg \ {i}, ~Wins(j, i, table) PROVE FALSE
    <2>1. Wins(i, j, table) BY <1>5, OneWins
    <2>2. j \in Older(i) /\ j \notin Older(j) BY <2>1
    <2>3. ASSUME NEW k \in Older(j) PROVE k \in Older(i)
      <3>1. k \in Reg /\ k # j /\ Wins(j, k, table) BY <2>3
      <3>2. k # i BY <3>1, <1>5
      <3> QED BY <2>1, <3>1, <3>2 DEF Ordered
    <2>4. <<Older(j), Older(i)>> \in StrictSubsetOrdering(Reg)
      BY <2>2, <2>3 DEF StrictSubsetOrdering
    <2> QED BY <2>4, <1>3, <1>4
  <1>6. LosesToAll(i, table) BY <1>5, LosesIsOldest
  <1> QED BY <1>6

\* mmu_update_oldest finds the oldest register of a chain.
LEMMA OldestFound ==
  ASSUME NEW table, Ordered(table)
  PROVE  LosesToAll(UpdateOldest(table), table) /\ UpdateOldest(table) \in Reg
  BY ChainEnds DEF UpdateOldest

\* Registers, too, have a least one.
LEMMA LeastRegister ==
  ASSUME NEW T \in SUBSET Reg, T # {}
  PROVE  \E i \in T : \A j \in T : i <= j
  <1> DEFINE Below(i) == 0..(i - 1)
             U == {Below(i) : i \in T}
  <1>1. IsFiniteSet(Reg)
    BY FS_Interval DEF Reg
  <1>2. U \subseteq FiniteSubsetsOf(Reg) /\ U # {}
    <2>1. \A i \in T : Below(i) \subseteq Reg
      BY DEF Reg
    <2>2. \A i \in T : IsFiniteSet(Below(i))
      BY <1>1, <2>1, FS_Subset
    <2> HIDE DEF Below
    <2> QED BY <2>1, <2>2 DEF FiniteSubsetsOf
  <1>3. PICK A \in U : \A B \in U : ~(<<B, A>> \in StrictSubsetOrdering(Reg))
    <2> HIDE DEF U
    <2>1. IsWellFoundedOn(StrictSubsetOrdering(Reg), FiniteSubsetsOf(Reg))
      BY FS_StrictSubsetOrderingWellFounded
    <2> QED BY <1>2, <2>1, WFMin
  <1>4. PICK i \in T : A = Below(i)
    BY <1>3
  <1>5. ASSUME NEW j \in T, j < i PROVE FALSE
    <2>1. /\ Below(j) \subseteq Below(i) /\ Below(j) # Below(i)
          /\ Below(i) \subseteq Reg
      <3>1. j \in Below(i) /\ j \notin Below(j) BY <1>5 DEF Reg
      <3> QED BY <3>1, <1>5 DEF Reg
    <2>2. <<Below(j), Below(i)>> \in StrictSubsetOrdering(Reg)
      BY <2>1 DEF StrictSubsetOrdering
    <2> QED BY <2>2, <1>3, <1>4
  <1> QED BY <1>5 DEF Reg

LEMMA MatchIsRegister ==
  ASSUME OLDEST \in Reg, NEW a \in Addr
  PROVE  Matching(a) \in Reg
  <1>1. Matches(a) \subseteq Reg BY DEF Matches
  <1>2. Match(a, OLDEST) \in Reg
    <2>1. CASE Matches(a) = {} BY <2>1 DEF Match
    <2>2. CASE Matches(a) # {}
      <3>1. \E i \in Matches(a) : \A j \in Matches(a) : i <= j
        BY <1>1, <2>2, LeastRegister
      <3> QED BY <3>1, <2>2, <1>1 DEF Match
    <2> QED BY <2>1, <2>2
  <1> QED BY <1>2 DEF Matching

\* The ages make a chain with the oldest register at its end, whatever the
\* guest and the operator do.
AgeInv == OLDEST \in Reg /\ Ordered(TABST) /\ LosesToAll(OLDEST, TABST)

\* The register stored to is the youngest then: the chain stays one, and its
\* end, unless that was the register.
LEMMA YoungestNow ==
  ASSUME AgeInv, NEW i \in Reg
  PROVE  /\ Ordered(SetWins(i))
         /\ i # OLDEST => LosesToAll(OLDEST, SetWins(i))
  <1>1. ASSUME NEW m \in Reg, NEW n \in Reg, NEW k \in Reg,
               m # n, n # k, m # k,
               Wins(m, n, SetWins(i)), Wins(n, k, SetWins(i))
        PROVE  Wins(m, k, SetWins(i))
    BY <1>1, WinsNow DEF AgeInv, Ordered
  <1>2. Ordered(SetWins(i)) BY <1>1 DEF Ordered
  <1>3. ASSUME i # OLDEST PROVE LosesToAll(OLDEST, SetWins(i))
    <2>1. OLDEST \in Reg BY DEF AgeInv
    <2>2. \A j \in Reg \ {OLDEST} : Wins(j, OLDEST, TABST)
      BY <2>1, LosesIsOldest DEF AgeInv
    <2>3. \A j \in Reg \ {OLDEST} : Wins(j, OLDEST, SetWins(i))
      BY <1>3, <2>1, <2>2, WinsNow
    <2> QED BY <2>1, <2>3, LosesIsOldest
  <1> QED BY <1>2, <1>3

LEMMA AgeInit == Init => AgeInv
  <1> SUFFICES ASSUME Init PROVE AgeInv OBVIOUS
  <1>1. 0 \in Reg /\ OLDEST = 0 /\ TABST = {} BY DEF Init, Reg
  <1>2. \A i, j \in Reg : Wins(i, j, TABST) <=> ~(i < j)
    BY <1>1 DEF Wins
  <1>3. Ordered(TABST) BY <1>2 DEF Ordered, Reg
  <1>4. LosesToAll(0, TABST)
    <2>1. \A j \in Reg \ {0} : Wins(j, 0, TABST) BY <1>1, <1>2 DEF Reg
    <2> QED BY <1>1, <2>1, LosesIsOldest
  <1> QED BY <1>1, <1>3, <1>4 DEF AgeInv

LEMMA AgeStep == AgeInv /\ [Next]_vars => AgeInv'
  <1> SUFFICES ASSUME AgeInv, [Next]_vars PROVE AgeInv' OBVIOUS
  <1>1. ASSUME NEW a \in Addr, NEW v \in Val, StoreCached(a, v)
        PROVE  AgeInv'
    <2> DEFINE i == Matching(a)
    <2>1. i \in Reg BY MatchIsRegister DEF AgeInv
    <2>2. TABST' = SetWins(i) /\ Ordered(TABST')
      BY <1>1, <2>1, YoungestNow DEF StoreCached
    <2>3. CASE i = OLDEST
      <3>1. OLDEST' = UpdateOldest(TABST') BY <1>1, <2>3 DEF StoreCached
      <3> QED BY <2>2, <3>1, OldestFound DEF AgeInv
    <2>4. CASE i # OLDEST
      <3>1. OLDEST' = OLDEST BY <1>1, <2>4 DEF StoreCached
      <3> QED BY <2>1, <2>2, <2>4, <3>1, YoungestNow DEF AgeInv
    <2> QED BY <2>3, <2>4
  <1>2. ASSUME NEW a \in Addr, LoadCached(a)
        PROVE  AgeInv'
    <2> DEFINE i == Match(a, OLDEST)
    <2>1. i \in Reg /\ OLDEST' = OLDEST
      BY <1>2, MatchIsRegister DEF AgeInv, LoadCached, Matching
    <2>2. TABST' = IF i = OLDEST THEN TABST ELSE SetWins(i)
      BY <1>2 DEF LoadCached
    <2> HIDE DEF i
    <2> QED BY <2>1, <2>2, YoungestNow DEF AgeInv
  <1>3. CASE Reset
    <2>1. 0 \in Reg /\ OLDEST' = 0 /\ TABST' = {} BY <1>3 DEF Reset, Reg
    <2>2. \A i, j \in Reg : Wins(i, j, {}) <=> ~(i < j)
      BY DEF Wins
    <2>3. Ordered({}) BY <2>2 DEF Ordered, Reg
    <2>4. LosesToAll(0, {})
      <3>1. \A j \in Reg \ {0} : Wins(j, 0, {}) BY <2>1, <2>2 DEF Reg
      <3> QED BY <2>1, <3>1, LosesIsOldest
    <2> QED BY <2>1, <2>3, <2>4 DEF AgeInv
  <1>4. ASSUME UNCHANGED <<TABST, OLDEST>> PROVE AgeInv'
    BY <1>4 DEF AgeInv
  <1>5. ASSUME NEW a \in Addr, NEW v \in Val, StoreThrough(a, v)
        PROVE  AgeInv'
    BY <1>4, <1>5 DEF StoreThrough
  <1>6. ASSUME NEW a \in Addr, LoadMemory(a) \/ LoadSwitch(a)
        PROVE  AgeInv'
    BY <1>4, <1>6 DEF LoadMemory, LoadSwitch, registers
  <1>7. ASSUME NEW m \in Maps, SetMap(m) PROVE AgeInv'
    BY <1>4, <1>7 DEF SetMap, registers
  <1>8. ASSUME NEW p \in Word, NEW v \in Val, DeviceWrite(p, v) PROVE AgeInv'
    BY <1>4, <1>8 DEF DeviceWrite, registers
  <1>9. ASSUME NEW p \in Word \cup Switch, NEW v \in Val, Deposit(p, v)
        PROVE  AgeInv'
    BY <1>4, <1>9 DEF Deposit
  <1>10. ASSUME NEW m \in Modes, SetMode(m) PROVE AgeInv'
    BY <1>4, <1>10 DEF SetMode, registers
  <1>11. CASE UNCHANGED vars BY <1>4, <1>11 DEF vars, registers
  <1> QED
    BY <1>1, <1>2, <1>3, <1>5, <1>6, <1>7, <1>8, <1>9, <1>10, <1>11 DEF Next

LEMMA AgesAlways == Spec => []AgeInv
  BY AgeInit, AgeStep, PTL DEF Spec

\* The bits of TABST always order the registers by age, with OLDEST at the end,
\* so that mmu_update_oldest finds exactly one register.
THEOREM AgesCorrect == Spec => []AgesOrdered
  <1>1. AgeInv => AgesOrdered
    BY DEF AgeInv, AgesOrdered, Ordered, Younger, Wins
  <1> QED BY <1>1, AgesAlways, PTL
-----------------------------------------------------------------------------
(* Stores to switch registers *)

\* The registers in S hold nothing but what pushed them, and are the youngest.
Pushed(S) ==
    /\ Cardinality(S) = pushed
    /\ \A i \in S : BAZ[i] \in Switch \cup {NoAddr}
    /\ \A i \in S, j \in Reg \ S : Wins(i, j, TABST)

PushTypes ==
    /\ BAZ \in [Reg -> Addr \cup {NoAddr}] /\ pushed \in 0..N
    /\ mode # "CACHE" => pushed = 0

\* The last stores to switch registers have the youngest registers: as many as
\* there were such stores in a row.
PushInv == PushTypes /\ \E S \in SUBSET Reg : Pushed(S)

\* A row of pushes has ended.
Ended == BAZ \in [Reg -> Addr \cup {NoAddr}] /\ pushed = 0

LEMMA NothingPushed == Ended => PushInv
  <1>1. {} \in SUBSET Reg /\ Cardinality({}) = 0 BY FS_EmptySet
  <1>2. 0 \in 0..N OBVIOUS
  <1> QED BY <1>1, <1>2 DEF Ended, PushInv, PushTypes, Pushed

LEMMA NothingPushedNext == Ended' => PushInv'
  BY NothingPushed, PTL

\* The registers, and the sets of them.
LEMMA Registers ==
  ASSUME NEW S \in SUBSET Reg
  PROVE  /\ IsFiniteSet(S) /\ Cardinality(S) \in 0..N
         /\ Cardinality(S) = N => S = Reg
         /\ \A i \in Reg \ S : /\ Cardinality(S \cup {i}) = Cardinality(S) + 1
                                /\ Cardinality(S \cup {i}) \in 0..N
  <1>1. IsFiniteSet(Reg) /\ Cardinality(Reg) = N BY FS_Interval DEF Reg
  <1>2. ASSUME NEW T \in SUBSET Reg
        PROVE  /\ IsFiniteSet(T) /\ Cardinality(T) \in 0..N
               /\ Cardinality(T) = N => T = Reg
    BY <1>1, FS_Subset, FS_CardinalityType
  <1>3. ASSUME NEW i \in Reg \ S
        PROVE  /\ Cardinality(S \cup {i}) = Cardinality(S) + 1
               /\ Cardinality(S \cup {i}) \in 0..N
    BY <1>2, FS_AddElement
  <1> QED BY <1>2, <1>3

\* A push takes the oldest register, and that is not one of those pushed before
\* unless all of them were.
LEMMA OldestLast ==
  ASSUME AgeInv, NEW S \in SUBSET Reg, Pushed(S), OLDEST \in S
  PROVE  S = Reg
  <1>1. ASSUME NEW j \in Reg \ S PROVE FALSE
    <2>1. Wins(OLDEST, j, TABST) BY DEF Pushed
    <2>2. Wins(j, OLDEST, TABST) BY LosesIsOldest DEF AgeInv
    <2> QED BY <2>1, <2>2, OneWins DEF AgeInv
  <1> QED BY <1>1

LEMMA StorePushes ==
  ASSUME AgeInv, PushInv, NEW a \in Addr, NEW v \in Val, StoreCached(a, v)
  PROVE  PushInv'
  <1> DEFINE i == Matching(a)
  <1>1. i \in Reg /\ OLDEST \in Reg BY MatchIsRegister DEF AgeInv
  <1>2. /\ BAZ' \in [Reg -> Addr \cup {NoAddr}] /\ BAZ'[i] = a
        /\ \A j \in Reg \ {i} : BAZ'[j] = BAZ[j]
        /\ TABST' = SetWins(i) /\ pushed' = Pushes(a) /\ mode' = "CACHE"
    BY <1>1 DEF StoreCached, TakeRegister, PushInv, PushTypes
  <1>3. CASE a \notin Switch
    <2>1. pushed' = 0 BY <1>2, <1>3 DEF Pushes
    <2> QED BY <1>2, <2>1, NothingPushedNext DEF Ended
  <1>4. CASE a \in Switch
    <2>1. i = OLDEST BY <1>4 DEF Matching, IsSwitch, physaddr
    <2>2. PICK S \in SUBSET Reg : Pushed(S) BY DEF PushInv
    <2>3. Cardinality(S) = pushed /\ pushed \in 0..N
      BY <2>2 DEF Pushed, PushInv, PushTypes
    <2>4. pushed' = IF pushed < N THEN pushed + 1 ELSE N
      BY <1>2, <1>4 DEF Pushes
    <2>5. PICK T \in SUBSET Reg : T = S \cup {i} BY <1>1
    <2>6. Cardinality(T) = pushed'
      <3>1. CASE i \in S
        <4>1. S = Reg /\ T = S BY <2>1, <2>2, <2>5, <3>1, OldestLast
        <4>2. Cardinality(Reg) = N BY FS_Interval DEF Reg
        <4> QED BY <2>3, <2>4, <4>1, <4>2
      <3>2. CASE i \notin S
        <4>1. Cardinality(T) = Cardinality(S) + 1 /\ Cardinality(T) \in 0..N
          BY <1>1, <2>5, <3>2, Registers
        <4> QED BY <2>3, <2>4, <4>1
      <3> QED BY <3>1, <3>2
    <2>7. \A j \in T : BAZ'[j] \in Switch \cup {NoAddr}
      BY <1>1, <1>2, <1>4, <2>2, <2>5 DEF Pushed
    <2>8. \A j \in T, k \in Reg \ T : Wins(j, k, TABST')
      <3> TAKE j \in T, k \in Reg \ T
      <3>1. j \in Reg /\ k \in Reg /\ j # k /\ k # i /\ (j = i \/ j \in S)
        BY <1>1, <2>5
      <3>2. j # i => Wins(j, k, TABST) BY <2>2, <2>5, <3>1 DEF Pushed
      <3> HIDE DEF i
      <3> QED BY <1>1, <1>2, <3>1, <3>2, WinsNow
    <2>9. Pushed(T)' BY <2>6, <2>7, <2>8 DEF Pushed
    <2>10. pushed' \in 0..N BY <2>3, <2>4
    <2> QED BY <1>2, <2>9, <2>10 DEF PushInv, PushTypes
  <1> QED BY <1>3, <1>4

LEMMA PushInit == Init => PushInv
  BY NothingPushed DEF Ended, Init

LEMMA PushStep == AgeInv /\ PushInv /\ [Next]_vars => PushInv'
  <1> SUFFICES ASSUME AgeInv, PushInv, [Next]_vars PROVE PushInv' OBVIOUS
  <1>0. BAZ \in [Reg -> Addr \cup {NoAddr}] BY DEF PushInv, PushTypes
  <1>1. ASSUME UNCHANGED <<BAZ, TABST, mode, pushed>> PROVE PushInv'
    BY <1>1 DEF PushInv, PushTypes, Pushed
  <1>2. ASSUME NEW a \in Addr, NEW v \in Val, StoreCached(a, v)
        PROVE  PushInv'
    BY <1>2, StorePushes
  <1>3. ASSUME NEW a \in Addr, NEW v \in Val, StoreThrough(a, v)
        PROVE  PushInv'
    <2>1. pushed' = 0 /\ BAZ' \in [Reg -> Addr \cup {NoAddr}]
      BY <1>0, <1>3 DEF StoreThrough, TakeRegister, PushInv, PushTypes
    <2> QED BY <2>1, NothingPushedNext DEF Ended
  <1>4. ASSUME NEW a \in Addr, LoadCached(a)
        PROVE  PushInv'
    BY <1>0, <1>4, NothingPushedNext DEF Ended, LoadCached
  <1>5. ASSUME NEW a \in Addr, LoadMemory(a) \/ LoadSwitch(a)
        PROVE  PushInv'
    BY <1>1, <1>5 DEF LoadMemory, LoadSwitch, registers
  <1>6. ASSUME NEW m \in Maps, SetMap(m) PROVE PushInv'
    BY <1>1, <1>6 DEF SetMap, registers
  <1>7. ASSUME NEW p \in Word, NEW v \in Val, DeviceWrite(p, v) PROVE PushInv'
    BY <1>1, <1>7 DEF DeviceWrite, registers
  <1>8. ASSUME NEW p \in Word \cup Switch, NEW v \in Val, Deposit(p, v)
        PROVE  PushInv'
    <2>1. BAZ' = [i \in Reg |-> NoAddr] /\ UNCHANGED <<TABST, mode, pushed>>
      BY <1>8 DEF Deposit, Clear
    <2>2. PICK S \in SUBSET Reg : Pushed(S) BY DEF PushInv
    <2>3. Pushed(S)' BY <2>1, <2>2 DEF Pushed
    <2> QED BY <2>1, <2>3 DEF PushInv, PushTypes
  <1>9. ASSUME NEW m \in Modes, SetMode(m) PROVE PushInv'
    BY <1>0, <1>9, NothingPushedNext DEF Ended, SetMode, registers
  <1>10. CASE Reset
    BY <1>10, NothingPushedNext DEF Ended, Reset, Clear
  <1>11. CASE UNCHANGED vars BY <1>1, <1>11 DEF vars, registers
  <1> QED
    BY <1>2, <1>3, <1>4, <1>5, <1>6, <1>7, <1>8, <1>9, <1>10, <1>11 DEF Next

LEMMA PushesAlways == Spec => [](AgeInv /\ PushInv)
  <1>1. Init => AgeInv /\ PushInv BY AgeInit, PushInit
  <1>2. AgeInv /\ PushInv /\ [Next]_vars => (AgeInv /\ PushInv)'
    BY AgeStep, PushStep
  <1> QED BY <1>1, <1>2, PTL DEF Spec

\* Stores to switch registers empty the write cache: after as many in a row as
\* there are registers, none holds an address that may match.
THEOREM PushesForget == Spec => []PushesEmpty
  <1>1. PushInv => PushesEmpty
    <2> SUFFICES ASSUME PushInv, pushed >= N PROVE Emptied
      BY DEF PushesEmpty
    <2>1. PICK S \in SUBSET Reg : Pushed(S) BY DEF PushInv
    <2>2. Cardinality(S) = N BY <2>1 DEF Pushed, PushInv, PushTypes
    <2>3. S = Reg BY <2>2, Registers
    <2> QED BY <2>1, <2>3 DEF Pushed, Emptied
  <1> QED BY <1>1, PushesAlways, PTL

\* One fewer leave the oldest register, and the word in it is in memory: memory
\* then is what a program sees.
THEOREM PushesReachMemory == ASSUME Careful PROVE Spec => []PushesWriteBack
  <1>1. Inv /\ AgeInv /\ PushInv => PushesWriteBack
    <2> SUFFICES ASSUME Inv, AgeInv, PushInv, mode = "CACHE", pushed >= N - 1
                 PROVE  memory = Logical
      BY DEF PushesWriteBack
    <2>1. PICK S \in SUBSET Reg : Pushed(S) BY DEF PushInv
    <2>2. Cardinality(S) = pushed /\ pushed \in 0..N
      BY <2>1 DEF Pushed, PushInv, PushTypes
    <2>3. \A i \in S, p \in Word : ~Holds(i, p)
      BY <2>1 DEF Pushed, Holds, physaddr
    <2>4. \A i \in Reg : i \in S \/ i = OLDEST
      <3>1. CASE OLDEST \in S BY <3>1, <2>1, OldestLast
      <3>2. CASE OLDEST \notin S
        <4>1. OLDEST \in Reg BY DEF AgeInv
        <4>2. Cardinality(S \cup {OLDEST}) = N
          <5>1. /\ Cardinality(S \cup {OLDEST}) = Cardinality(S) + 1
                /\ Cardinality(S \cup {OLDEST}) \in 0..N
            BY <3>2, <4>1, Registers
          <5> QED BY <5>1, <2>2
        <4>3. S \cup {OLDEST} \in SUBSET Reg BY <4>1
        <4>4. S \cup {OLDEST} = Reg BY <4>2, <4>3, Registers
        <4> QED BY <4>4
      <3> QED BY <3>1, <3>2
    <2>5. LogicalRight BY LogicalIsRight
    <2>6. \A p \in Word : Logical[p] = memory[p]
      <3> TAKE p \in Word
      <3>1. CASE Holds(OLDEST, p)
        <4>1. memory[p] = BRZ[OLDEST] /\ OLDEST \in Reg
          BY <3>1 DEF Inv, OldestWritten, AgeInv
        <4> QED BY <3>1, <4>1, <2>5 DEF LogicalRight
      <3>2. CASE ~Holds(OLDEST, p)
        BY <3>2, <2>3, <2>4, <2>5 DEF LogicalRight
      <3> QED BY <3>1, <3>2
    <2> QED BY <2>5, <2>6 DEF LogicalRight, Inv, TypeOK
  <1> QED BY <1>1, Invariance, PushesAlways, PTL
================================================================================
