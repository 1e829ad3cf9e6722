----------------------------- MODULE BackedMemory -----------------------------
(***************************************************************************)
(* What a write-back cache promises: one memory, which loads and stores    *)
(* use, and a copy behind it, which devices and a reset see and to which   *)
(* stores find their way one word at a time.                               *)
(***************************************************************************)
CONSTANTS Word, Val, NoVal

VARIABLES
    mem,    \* what a program sees
    core,   \* what is behind it
    got     \* what the last load returned

vars == <<mem, core, got>>

Init == mem \in [Word -> Val] /\ core = mem /\ got = NoVal

\* At most one word finds its way to the copy.
WriteBack ==
    \/ core' = core
    \/ \E p \in Word : core' = [core EXCEPT ![p] = mem'[p]]

Store(p, v) == UNCHANGED got /\ mem' = [mem EXCEPT ![p] = v] /\ WriteBack

\* A store that has no word in memory may still push one out.
Push == UNCHANGED <<got, mem>> /\ WriteBack

Load(p) == got' = mem[p] /\ UNCHANGED <<core, mem>>

LoadNothing == got' = NoVal /\ UNCHANGED <<core, mem>>

\* A device writes the copy, and only what a program sees of that word changes.
DeviceWrite(p, v) ==
    /\ UNCHANGED got
    /\ core' = [core EXCEPT ![p] = v] /\ mem' = [mem EXCEPT ![p] = v]

\* The operator changes a word, and the copy is brought up to date.
Deposit(p, v) ==
    /\ UNCHANGED got
    /\ core' = [mem EXCEPT ![p] = v] /\ mem' = core'

\* The same where there is no such word.
Sync == core' = mem /\ UNCHANGED <<mem, got>>

\* What has not reached the copy is lost.
Reset == mem' = core /\ UNCHANGED <<core, got>>

Next ==
    \/ LoadNothing \/ Push
    \/ \E p \in Word : Load(p)
    \/ \E p \in Word, v \in Val : DeviceWrite(p, v) \/ Store(p, v) \/ Deposit(p, v)
    \/ Sync \/ Reset

Spec == Init /\ [][Next]_vars
===============================================================================
