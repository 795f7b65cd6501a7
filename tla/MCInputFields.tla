---------------------------- MODULE MCInputFields -----------------------------
(***************************************************************************)
(* Two characters at a time, and two in all the fields together: enough    *)
(* for a field drawn twice, and for two that listen.                       *)
(***************************************************************************)
EXTENDS InputFields
=============================================================================
