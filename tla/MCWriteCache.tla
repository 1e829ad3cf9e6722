----------------------------- MODULE MCWriteCache -----------------------------
(* Contents of the paging registers for the runs of WriteCache, and the      *)
(* symmetry they leave.                                                      *)
EXTENDS WriteCache, TLC

CONSTANTS v1, w1, w2, s1

\* One mapped address, on either of two words or on a switch register.
MCMaps == {v1 :> w1, v1 :> w2, v1 :> s1}
MCResetMap == v1 :> s1

\* The same for a guest that never changes them.
MCOneMap == {v1 :> w1}
MCFixedMap == v1 :> w1

\* The values, and the two words the mapped address may be on.
MCSymmetry == Permutations(Val) \cup Permutations({w1, w2})
===============================================================================
