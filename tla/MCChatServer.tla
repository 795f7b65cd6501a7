---------------------------- MODULE MCChatServer -----------------------------
(***************************************************************************)
(* Every account is a member of the group; accounts and descriptors are    *)
(* each interchangeable.                                                   *)
(***************************************************************************)
EXTENDS ChatServer, TLC

Symmetry == Permutations(Sockets) \cup Permutations(Users)

=============================================================================
