------------------------------- MODULE MCLogin -------------------------------
(***************************************************************************)
(* Two clients, two accounts and two descriptors, each interchangeable.    *)
(***************************************************************************)
EXTENDS Login, TLC

Symmetry == Permutations(Clients) \cup Permutations(Usernames) \cup Permutations(Sockets)
               \cup Permutations(Passwords)

=============================================================================
