-------------------------- MODULE MCClientRequests ---------------------------
(***************************************************************************)
(* A login, or a few, followed by a few requests of the chat screen.  The  *)
(* history stands for all of them: it is the one whose answer may arrive   *)
(* in two parts, and whole it is like the short answers of the others.     *)
(* Four requests let the second part of a history shift the answers.       *)
(***************************************************************************)
EXTENDS ClientRequests

=============================================================================
