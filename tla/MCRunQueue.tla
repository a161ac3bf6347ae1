----------------------------- MODULE MCRunQueue -----------------------------
(* Small instances of RunQueue for TLC. *)
EXTENDS RunQueue, TLC

CONSTANTS r1, r2, r3, s1, s2

OneSession == [r \in Runs |-> s1]
TwoSessions == [r \in Runs |-> IF r = r2 THEN s2 ELSE s1]

\* Runs of one session are interchangeable.
RunSymmetry == Permutations(Runs)
=============================================================================
