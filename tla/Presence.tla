------------------------------ MODULE Presence ------------------------------
(***************************************************************************)
(* What sessionManager.h promises the rest of the server: who is online,   *)
(* and on which socket.  A user who logs in is found at the socket of that *)
(* login, wherever the user was before; a connection that ends takes a     *)
(* user off line; when as many users are online as the manager can hold, a *)
(* login changes nothing.                                                  *)
(*                                                                         *)
(* With connections that switch accounts the promise is weaker.  Several   *)
(* users may then be at one socket: a login there may change nothing, and  *)
(* the end of the connection takes only one of them off line.              *)
(***************************************************************************)
EXTENDS Naturals, FiniteSets

CONSTANTS Users,        \* the accounts
          Sockets,      \* the file descriptors of connections
          NoSocket,     \* the answer for a user who is not online (-1)
          MaxSessions   \* how many users the manager can hold

VARIABLES online,     \* the socket of each user
          connected   \* the sockets of the connections being served

vars == <<online, connected>>

TypeOK == /\ online \in [Users -> Sockets \cup {NoSocket}]
          /\ connected \subseteq Sockets

OnlineUsers == {u \in Users : online[u] # NoSocket}

Init == /\ online = [u \in Users |-> NoSocket]
        /\ connected = {}

Connect(fd) == /\ fd \notin connected
               /\ connected' = connected \cup {fd}
               /\ UNCHANGED online

At(fd) == {u \in Users : online[u] = fd}

Login(u, fd) == /\ fd \in connected
                /\ Cardinality(OnlineUsers) < MaxSessions
                /\ \/ online' = [online EXCEPT ![u] = fd]
                   \/ At(fd) \ {u} # {} /\ UNCHANGED online
                /\ UNCHANGED connected

Disconnect(fd) == /\ fd \in connected
                  /\ connected' = connected \ {fd}
                  /\ \/ \E u \in At(fd) : online' = [online EXCEPT ![u] = NoSocket]
                     \/ At(fd) = {} /\ UNCHANGED online

Next == \E fd \in Sockets : \/ Connect(fd)
                            \/ \E u \in Users : Login(u, fd)
                            \/ Disconnect(fd)

Spec == Init /\ [][Next]_vars

=============================================================================
