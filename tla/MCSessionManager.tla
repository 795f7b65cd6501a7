-------------------------- MODULE MCSessionManager ---------------------------
(***************************************************************************)
(* A few accounts and descriptors, and a table smaller than the number of  *)
(* accounts so that it fills up; accounts and descriptors are each         *)
(* interchangeable.                                                        *)
(***************************************************************************)
EXTENDS SessionManager, TLC

Symmetry == Permutations(Users) \cup Permutations(Sockets)

=============================================================================
