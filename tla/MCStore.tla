------------------------------- MODULE MCStore -------------------------------
(***************************************************************************)
(* Two of the five collections: one that is there and one yet to come.     *)
(***************************************************************************)
EXTENDS Store

MCOrder == <<"user", "messages">>

=============================================================================
