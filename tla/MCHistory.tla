------------------------------ MODULE MCHistory ------------------------------
(***************************************************************************)
(* Two users and two rooms; plain texts and texts with each separator at   *)
(* the start, inside, at the end, and in the shape of an entry.            *)
(***************************************************************************)
EXTENDS History

MCUsers == {"1", "2"}
MCRooms == {"7", "8"}
MCTexts == {<<"x">>, <<"y", "x", "y">>, <<",">>, <<"x", ",", "y">>, <<";", "x">>,
            <<"x", ";">>, <<"x", ";", "2", ",", "y", ",">>}

=============================================================================
