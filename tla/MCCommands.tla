------------------------------ MODULE MCCommands -----------------------------
(***************************************************************************)
(* A command of each shape: with and without a session, asking for no, one *)
(* or two arguments, sent with as many, with fewer and with more; and the  *)
(* right and wrong credentials of two accounts.  Descriptors are           *)
(* interchangeable.                                                        *)
(***************************************************************************)
EXTENDS Commands, TLC

CONSTANTS u1, u2

MCUsers == {u1, u2}

Sent(command, fields) == [command |-> command, fields |-> fields]

MCMessages ==
    {Sent("LOGIN", <<u, u>>) : u \in MCUsers}
    \cup {Sent("LOGIN", <<u1, u2>>), Sent("REGISTER", <<u1>>), Sent("", <<>>),
          Sent("SEND_DM", <<u1, u2, u1>>), Sent("GET_DM_HISTORY", <<u2>>),
          Sent("GET_CONTACTS", <<u1>>), Sent("SEARCH_USER", <<>>)}

Symmetry == Permutations(Sockets)

=============================================================================
