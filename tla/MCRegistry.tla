----------------------------- MODULE MCRegistry -----------------------------
(***************************************************************************)
(* Three threads, two of which serve the same user and are interchangeable.*)
(***************************************************************************)
EXTENDS Registry, TLC

CONSTANTS t1, t2, t3, u1, u2

MCThreads == {t1, t2, t3}
MCUsers == {u1, u2}
MCUserOf == [t \in MCThreads |-> IF t = t3 THEN u2 ELSE u1]

MCSymmetry == Permutations({t1, t2})

=============================================================================
