---------------------------- MODULE MCChatScreen -----------------------------
EXTENDS ChatScreen

\* One message of the first user, one in the room, or one that the user has sent to
\* himself.
OneMessage == {<<Message(1, 1, DM(1))>>, <<Message(1, 1, Room(1))>>, <<Message(1, Me, DM(Me))>>}

\* Nothing yet, or one message of the first user.
OneOrNone == {<<>>, <<Message(1, 1, DM(1))>>}

=============================================================================
