------------------------------ MODULE WriteCache ------------------------------
(***************************************************************************)
(* The write cache of the BESM-6 (BESM6/besm6_mmu.c): buffer registers BRZ *)
(* with the addresses BAZ of the words stored, an age table, and the       *)
(* paging registers that turn an address into that of a word of memory.    *)
(*                                                                         *)
(* An address is a mapped one, or that of a word or of a switch register   *)
(* with the bit 0100000 that bypasses the mapping: those stand for         *)
(* themselves. TABST holds a bit for each pair of registers, the lower     *)
(* numbered first: set when it wins, that is, is younger. A device and the *)
(* operator reach memory behind the cache.                                 *)
(*                                                                         *)
(* The guest and the operator may be Careful: to use one address for a     *)
(* word while a register holds it, and to empty the registers before what  *)
(* the registers cannot know of. pushed is history.                        *)
(***************************************************************************)
EXTENDS Integers

CONSTANTS
    N,          \* the number of registers, 8
    Mapped,     \* addresses that are mapped
    Word,       \* words of memory
    Switch,     \* the switch registers, physical addresses 1 to 7
    NoAddr,     \* BAZ of a register that is empty
    Val,        \* what a word may hold
    NoVal,      \* what the switch registers and an empty register hold
    Maps,       \* contents of the paging registers
    ResetMap,   \* their contents after a reset
    Modes,      \* the modes the operator may set: "CACHE", "NOCACHE"
    Careful     \* whether the guest and the operator keep to the rules

Reg == 0..(N - 1)
Addr == Mapped \cup Word \cup Switch

ASSUME SizeAssumption == N \in Nat \ {0}
ASSUME AddressAssumption ==
    /\ Mapped \cap (Word \cup Switch) = {} /\ Word \cap Switch = {}
    /\ NoAddr \notin Addr
    /\ Maps \subseteq [Mapped -> Word \cup Switch] /\ ResetMap \in Maps
ASSUME ValueAssumption == NoVal \notin Val
ASSUME ModeAssumption ==
    /\ Modes \subseteq {"CACHE", "NOCACHE"} /\ Modes # {}
    /\ Careful \in BOOLEAN

VARIABLES
    memory,
    BRZ, BAZ,
    TABST,
    OLDEST,
    TLB,
    mode,       \* the unit flag CACHE_ENB
    got,        \* what the last mmu_load returned
    pushed      \* history: stores to switch registers in a row, at most N

registers == <<BRZ, BAZ, TABST, OLDEST>>
vars == <<memory, registers, TLB, mode, got, pushed>>
-----------------------------------------------------------------------------
(* The age table *)

win_mask(i) == {<<i, j>> : j \in {k \in Reg : i < k}}
lose_mask(i) == {<<j, i>> : j \in {k \in Reg : k < i}}

\* Mutant of SetWins: the older registers' bits stay.
SetWinsKeeps(i) == TABST \cup win_mask(i)

\* The table once register i is the youngest.
SetWins(i) == (TABST \ lose_mask(i)) \cup win_mask(i)

LosesToAll(i, table) ==
    table \cap win_mask(i) = {} /\ lose_mask(i) \subseteq table

\* mmu_update_oldest. Of two registers one loses, so there is one at most.
UpdateOldest(table) ==
    IF \E i \in Reg : LosesToAll(i, table)
    THEN CHOOSE i \in Reg : LosesToAll(i, table)
    ELSE OLDEST
-----------------------------------------------------------------------------
(* Addresses *)

physaddr(a) == IF a \in Mapped THEN TLB[a] ELSE a

IsSwitch(a) == physaddr(a) \in Switch

Matches(a) == {i \in Reg : BAZ[i] = a}

\* mmu_match
Match(a, fail) ==
    IF Matches(a) = {} THEN fail
    ELSE CHOOSE i \in Matches(a) : \A j \in Matches(a) : i <= j

\* Memory after mmu_flush of a register that holds v for address a.
FlushOne(mem, a, v) ==
    IF a # NoAddr /\ physaddr(a) \in Word THEN [mem EXCEPT ![physaddr(a)] = v]
    ELSE mem

\* Register i holds the word p.
Holds(i, p) == BAZ[i] # NoAddr /\ physaddr(BAZ[i]) = p

\* What mmu_load would return for each word by the address that is in use.
Logical ==
    [p \in Word |->
        IF mode = "CACHE" /\ \E i \in Reg : Holds(i, p)
        THEN BRZ[CHOOSE i \in Reg : Holds(i, p)]
        ELSE memory[p]]
-----------------------------------------------------------------------------
(* The rules *)

\* No other address of the word is in a register.
SoleAddress(a) ==
    Careful /\ ~IsSwitch(a) => \A i \in Reg : Holds(i, physaddr(a)) => BAZ[i] = a

\* No register holds an address that may match.
Emptied == \A i \in Reg : BAZ[i] \in Switch \cup {NoAddr}
-----------------------------------------------------------------------------
(* mmu_store *)

\* Mutant of Matching: the comparison recognises the switch registers too.
MatchingSwitches(a) == Match(a, OLDEST)

\* Mutant of Matching: a store always takes a new register.
MatchingNever(a) == OLDEST

\* The register a store takes: the one with its address, else the oldest.
Matching(a) == IF IsSwitch(a) THEN OLDEST ELSE Match(a, OLDEST)

Pushes(a) ==
    IF a \notin Switch THEN 0 ELSE IF pushed < N THEN pushed + 1 ELSE N

TakeRegister(i, a, v) ==
    /\ BRZ' = [BRZ EXCEPT ![i] = v]
    /\ BAZ' = [BAZ EXCEPT ![i] = a]

\* Mutant of StoreCached: the register that is taken is written, late.
StoreCachedLate(a, v) ==
    /\ mode = "CACHE" /\ SoleAddress(a)
    /\ LET i == Matching(a) IN
          /\ TakeRegister(i, a, v)
          /\ TABST' = SetWins(i)
          /\ IF i = OLDEST
             THEN /\ OLDEST' = UpdateOldest(TABST')
                  /\ memory' = FlushOne(memory, BAZ[i], BRZ[i])
             ELSE UNCHANGED <<OLDEST, memory>>
    /\ pushed' = Pushes(a)
    /\ UNCHANGED <<TLB, mode, got>>

\* A store that takes the oldest register, whose word is in memory, makes
\* another the oldest, and writes that one's word to memory.
StoreCached(a, v) ==
    /\ mode = "CACHE" /\ SoleAddress(a)
    /\ LET i == Matching(a) IN
          /\ TakeRegister(i, a, v)
          /\ TABST' = SetWins(i)
          /\ IF i = OLDEST
             THEN /\ OLDEST' = UpdateOldest(TABST')
                  /\ memory' = FlushOne(memory, BAZ'[OLDEST'], BRZ'[OLDEST'])
             ELSE UNCHANGED <<OLDEST, memory>>
    /\ pushed' = Pushes(a)
    /\ UNCHANGED <<TLB, mode, got>>

\* Without the cache any register is used, for the lamps, and written at once.
StoreThrough(a, v) ==
    /\ mode = "NOCACHE" /\ a \notin Switch
    /\ \E i \in Reg : TakeRegister(i, a, v)
    /\ memory' = FlushOne(memory, a, v)
    /\ UNCHANGED <<TABST, OLDEST, TLB, mode, got, pushed>>
-----------------------------------------------------------------------------
(* mmu_load *)

\* Mutant of LoadCached: a hit makes the register the youngest, the oldest too.
LoadCachedPromotes(a) ==
    /\ mode = "CACHE" /\ SoleAddress(a) /\ ~IsSwitch(a) /\ Matches(a) # {}
    /\ LET i == Match(a, OLDEST) IN
          got' = BRZ[i] /\ TABST' = SetWins(i)
    /\ pushed' = 0
    /\ UNCHANGED <<memory, BRZ, BAZ, OLDEST, TLB, mode>>

\* A register that matches is the youngest then, unless it is the oldest.
LoadCached(a) ==
    /\ mode = "CACHE" /\ SoleAddress(a) /\ ~IsSwitch(a) /\ Matches(a) # {}
    /\ LET i == Match(a, OLDEST) IN
          got' = BRZ[i] /\ TABST' = IF i = OLDEST THEN TABST ELSE SetWins(i)
    /\ pushed' = 0
    /\ UNCHANGED <<memory, BRZ, BAZ, OLDEST, TLB, mode>>

LoadMemory(a) ==
    /\ ~IsSwitch(a)
    /\ mode = "CACHE" => SoleAddress(a) /\ Matches(a) = {}
    /\ got' = memory[physaddr(a)]
    /\ UNCHANGED <<memory, registers, TLB, mode, pushed>>

\* The switch registers are always read from the panel.
LoadSwitch(a) ==
    /\ IsSwitch(a)
    /\ got' = NoVal
    /\ UNCHANGED <<memory, registers, TLB, mode, pushed>>
-----------------------------------------------------------------------------
(* Paging registers, devices and the operator *)

\* mmu_setrp
SetMap(m) ==
    /\ Careful /\ mode = "CACHE" => Emptied
    /\ TLB' = m
    /\ UNCHANGED <<memory, registers, mode, got, pushed>>

\* A drum, disk or tape controller fills memory.
DeviceWrite(p, v) ==
    /\ Careful /\ mode = "CACHE" => \A i \in Reg : ~Holds(i, p)
    /\ memory' = [memory EXCEPT ![p] = v]
    /\ UNCHANGED <<registers, TLB, mode, got, pushed>>

Latest(p) == {i \in Reg : Holds(i, p) /\ \A j \in Reg : Holds(j, p) => j <= i}

\* Mutant of Synced: the registers are emptied without being written.
SyncedEmpty == memory

\* Memory after mmu_sync wrote the registers in turn.
Synced ==
    [p \in Word |->
        IF Latest(p) = {} THEN memory[p]
        ELSE BRZ[CHOOSE i \in Reg : i \in Latest(p)]]

Clear == BAZ' = [i \in Reg |-> NoAddr]

\* cpu_deposit, and sim_load of one word: mmu_sync comes first.
Deposit(p, v) ==
    /\ Careful => mode = "CACHE" \/ Emptied
    /\ Clear
    /\ memory' = IF p \in Word THEN [Synced EXCEPT ![p] = v] ELSE Synced
    /\ UNCHANGED <<BRZ, TABST, OLDEST, TLB, mode, got, pushed>>

\* SET MMU CACHE, SET MMU NOCACHE: only the flag changes.
SetMode(m) ==
    /\ m # mode /\ (Careful => Emptied)
    /\ mode' = m /\ pushed' = 0
    /\ UNCHANGED <<memory, registers, TLB, got>>

\* Mutant of Reset: the addresses stay.
ResetKeepsAddresses ==
    /\ BRZ' = [i \in Reg |-> NoVal] /\ UNCHANGED BAZ
    /\ TABST' = {} /\ OLDEST' = 0
    /\ TLB' = ResetMap /\ pushed' = 0
    /\ UNCHANGED <<memory, mode, got>>

\* mmu_reset, and mmu_setup when the processor starts again.
Reset ==
    /\ BRZ' = [i \in Reg |-> NoVal] /\ Clear
    /\ TABST' = {} /\ OLDEST' = 0
    /\ TLB' = ResetMap /\ pushed' = 0
    /\ UNCHANGED <<memory, mode, got>>
-----------------------------------------------------------------------------
Init ==
    /\ memory \in [Word -> Val]
    /\ BRZ = [i \in Reg |-> NoVal] /\ BAZ = [i \in Reg |-> NoAddr]
    /\ TABST = {} /\ OLDEST = 0
    /\ TLB = ResetMap /\ mode \in Modes
    /\ got = NoVal /\ pushed = 0

Next ==
    \/ \E a \in Addr, v \in Val : StoreCached(a, v) \/ StoreThrough(a, v)
    \/ \E a \in Addr : LoadCached(a) \/ LoadMemory(a) \/ LoadSwitch(a)
    \/ \E m \in Maps : SetMap(m)
    \/ \E p \in Word, v \in Val : DeviceWrite(p, v)
    \/ \E p \in Word \cup Switch, v \in Val : Deposit(p, v)
    \/ \E m \in Modes : SetMode(m)
    \/ Reset

Spec == Init /\ [][Next]_vars
-----------------------------------------------------------------------------
(* Properties *)

TypeOK ==
    /\ memory \in [Word -> Val]
    /\ BRZ \in [Reg -> Val \cup {NoVal}] /\ BAZ \in [Reg -> Addr \cup {NoAddr}]
    /\ \A i \in Reg : BAZ[i] # NoAddr => BRZ[i] \in Val
    /\ TABST \subseteq Reg \X Reg
    /\ OLDEST \in Reg /\ TLB \in Maps
    /\ mode \in Modes
    /\ got \in Val \cup {NoVal} /\ pushed \in 0..N

\* No word is in two registers, so neither a load nor the order in which
\* registers are written to memory can bring an old value of it back (mmu_match
\* takes the first register that matches).
OneRegister ==
    mode = "CACHE" =>
        \A p \in Word : \A i, j \in Reg : Holds(i, p) /\ Holds(j, p) => i = j

\* mmu_store takes the oldest register without writing it: its word is in memory
\* already, through hits that change the ages, pushes and new paging registers.
OldestWritten ==
    mode = "CACHE" =>
        \A p \in Word : Holds(OLDEST, p) => memory[p] = BRZ[OLDEST]

Younger(i, j) == IF i < j THEN <<i, j>> \in TABST ELSE <<j, i>> \notin TABST

\* The pairwise bits of TABST always make a chain, at whose end OLDEST is, so
\* that mmu_update_oldest finds exactly one register.
AgesOrdered ==
    /\ \A i, j, k \in Reg :
          i # j /\ j # k /\ i # k /\ Younger(i, j) /\ Younger(j, k) => Younger(i, k)
    /\ LosesToAll(OLDEST, TABST)

\* "the test, like the OS, pushes the BRZ out with eight stores" (ЕСМЛ.md:293):
\* after N - 1 stores to switch registers a device finds in memory all that was
\* stored, and after N no register answers a load with what the device replaces.
PushesWriteBack == mode = "CACHE" /\ pushed >= N - 1 => memory = Logical

PushesEmpty == mode = "CACHE" /\ pushed >= N => Emptied

Backed == INSTANCE BackedMemory WITH mem <- Logical, core <- memory

\* Under the rules the registers, the age table and the paging registers are
\* one memory for the guest, whatever is stored, loaded, evicted, remapped,
\* written by devices or deposited, and with the cache on or off.
ImplementsMemory == Backed!Spec

\* mmu_sync writes the registers "so that old stores do not land over the new
\* contents" (besm6_mmu.c:354): a deposit changes nothing the guest would load
\* but the word deposited.
DepositsOneWord ==
    [][\A p \in Word, v \in Val :
          Deposit(p, v) => \A q \in Word \ {p} : Logical'[q] = Logical[q]]_vars
===============================================================================
