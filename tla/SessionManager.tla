--------------------------- MODULE SessionManager ---------------------------
(***************************************************************************)
(* The session table of the server and the handlers that use it.           *)
(*                                                                         *)
(* g_sessions is a sequence of entries (the array up to g_session_count).  *)
(* The handler thread of a connection adds an entry when a LOGIN command   *)
(* succeeds and removes one when recv tells that the client is gone.  The  *)
(* calls of the manager are atomic here, one at a time.                    *)
(*                                                                         *)
(* A handler serves any number of LOGIN commands on one connection, also   *)
(* for a second account after a LOGIN_SUCCESS for a first one: the server  *)
(* lets it, and a client does it when the answer to its first attempt came *)
(* too late.                                                               *)
(***************************************************************************)
EXTENDS Naturals, Sequences

CONSTANTS Users, Sockets, NoUser, NoSocket, MaxSessions

ASSUME SessionAssumption ==
    /\ NoUser \notin Users
    /\ NoSocket \notin Sockets
    /\ MaxSessions \in Nat

VARIABLES sessions,   \* the table
          conn,       \* the connection behind each file descriptor
          acked       \* history: the user of the last LOGIN_SUCCESS sent on it

vars == <<sessions, conn, acked>>

\* An entry; username is a copy of the name of some user, known by that user.
UserSession == [userId : Users, socket_fd : Sockets, username : Users]

TypeOK == /\ sessions \in Seq(UserSession)
          /\ Len(sessions) <= MaxSessions
          /\ conn \in [Sockets -> {"closed", "open", "removed"}]
          /\ acked \in [Sockets -> Users \cup {NoUser}]

-----------------------------------------------------------------------------
(***************************************************************************)
(* The operations of sessionManager.c.  Each of them stops at the first    *)
(* entry that matches.                                                     *)
(***************************************************************************)
First(S) == CHOOSE i \in S : \A j \in S : i <= j

OfUser(s, u) == {i \in DOMAIN s : s[i].userId = u}
OfSocket(s, fd) == {i \in DOMAIN s : s[i].socket_fd = fd}

\* SessionManager_get_socket
GetSocket(s, u) == IF OfUser(s, u) = {} THEN NoSocket
                   ELSE s[First(OfUser(s, u))].socket_fd

\* SessionManager_get_user
GetUser(s, fd) == IF OfSocket(s, fd) = {} THEN NoUser
                  ELSE s[First(OfSocket(s, fd))].userId

NewSession(u, fd) == [userId |-> u, socket_fd |-> fd, username |-> u]

\* Variants with a bug each: entries matched by socket only; an update that
\* writes the whole entry; a full table that still takes one; a removal that
\* forgets the swap.
AddMatchingSocketOnly(s, u, fd) ==
    IF Len(s) >= MaxSessions THEN s
    ELSE IF OfSocket(s, fd) # {}
         THEN [s EXCEPT ![First(OfSocket(s, fd))].username = u]
         ELSE Append(s, NewSession(u, fd))

AddOverwriting(s, u, fd) ==
    LET match == OfUser(s, u) \cup OfSocket(s, fd)
    IN  IF Len(s) >= MaxSessions THEN s
        ELSE IF match # {} THEN [s EXCEPT ![First(match)] = NewSession(u, fd)]
             ELSE Append(s, NewSession(u, fd))

AddOneTooMany(s, u, fd) ==
    LET match == OfUser(s, u) \cup OfSocket(s, fd)
    IN  IF Len(s) > MaxSessions THEN s
        ELSE IF match # {}
             THEN [s EXCEPT ![First(match)].socket_fd = fd,
                            ![First(match)].username = u]
             ELSE Append(s, NewSession(u, fd))

RemoveWithoutSwap(s, fd) ==
    IF OfSocket(s, fd) = {} THEN s ELSE SubSeq(s, 1, Len(s) - 1)

\* SessionManager_add: the full table refuses even a user it already holds; an
\* entry with the same user or the same socket gets the new socket and name and
\* keeps its userId; otherwise the entry goes to the end.
Add(s, u, fd) ==
    LET match == OfUser(s, u) \cup OfSocket(s, fd)
    IN  IF Len(s) >= MaxSessions THEN s
        ELSE IF match # {}
             THEN [s EXCEPT ![First(match)].socket_fd = fd,
                            ![First(match)].username = u]
             ELSE Append(s, NewSession(u, fd))

\* SessionManager_remove_by_socket: the last entry takes the place of the
\* first one with this socket.
RemoveBySocket(s, fd) ==
    IF OfSocket(s, fd) = {} THEN s
    ELSE SubSeq([s EXCEPT ![First(OfSocket(s, fd))] = s[Len(s)]], 1, Len(s) - 1)

-----------------------------------------------------------------------------
(***************************************************************************)
(* The connections                                                         *)
(***************************************************************************)
Init == /\ sessions = <<>>
        /\ conn = [fd \in Sockets |-> "closed"]
        /\ acked = [fd \in Sockets |-> NoUser]

\* accept() returns a descriptor that is not in use; a handler thread starts.
Accept(fd) ==
    /\ conn[fd] = "closed"
    /\ conn' = [conn EXCEPT ![fd] = "open"]
    /\ UNCHANGED <<sessions, acked>>

\* A LOGIN command with the right password.  The result of SessionManager_add
\* is not looked at: the client is told LOGIN_SUCCESS.
Login(u, fd) ==
    /\ conn[fd] = "open"
    /\ sessions' = Add(sessions, u, fd)
    /\ acked' = [acked EXCEPT ![fd] = u]
    /\ UNCHANGED conn

\* recv returned 0 or -1: the handler removes the session of the socket ...
Disconnect(fd) ==
    /\ conn[fd] = "open"
    /\ sessions' = RemoveBySocket(sessions, fd)
    /\ conn' = [conn EXCEPT ![fd] = "removed"]
    /\ acked' = [acked EXCEPT ![fd] = NoUser]

\* ... and closes the socket, whose descriptor accept() may return again.
Close(fd) ==
    /\ conn[fd] = "removed"
    /\ conn' = [conn EXCEPT ![fd] = "closed"]
    /\ UNCHANGED <<sessions, acked>>

Next == \E fd \in Sockets : \/ Accept(fd)
                            \/ \E u \in Users : Login(u, fd)
                            \/ Disconnect(fd)
                            \/ Close(fd)

Spec == Init /\ [][Next]_vars

-----------------------------------------------------------------------------
(***************************************************************************)
(* Properties                                                              *)
(***************************************************************************)

\* No user has two entries, whatever logins and disconnections came before, so
\* the linear searches for a user have one answer.
UsersDistinct ==
    \A i, j \in DOMAIN sessions : sessions[i].userId = sessions[j].userId => i = j

\* The sockets in use and the socket of each user, as the table tells it.
online == [u \in Users |-> GetSocket(sessions, u)]
connected == {fd \in Sockets : conn[fd] = "open"}

\* The table is the map of Presence from users to sockets: swap-remove, updates in
\* place and the full table included.  So a login moves its own user or nobody, and
\* the end of a connection takes one user of that socket off line, or nobody, and
\* the entry moved into the freed place is still found.
P == INSTANCE Presence
ImplementsPresence == P!Spec

=============================================================================
