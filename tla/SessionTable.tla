---------------------------- MODULE SessionTable -----------------------------
(***************************************************************************)
(* The session table as the threads really share it: g_sessions and        *)
(* g_session_count have no lock, and SessionManager_add and                *)
(* SessionManager_remove_by_socket run in the thread of their connection,  *)
(* any number of them at once.                                             *)
(*                                                                         *)
(* A step is one turn of a search loop or one store, with the loads that   *)
(* it needs.  The count is loaded anew each time the code names it, and    *)
(* g_session_count++ is a load and a store.  What is found or hit outside  *)
(* the array is up to the build: the model stops at such an access.        *)
(***************************************************************************)
EXTENDS Integers, Sequences, FiniteSets

CONSTANTS Users, Sockets, NoUser, NoSocket, MaxSessions

ASSUME TableAssumption ==
    /\ NoUser \notin Users
    /\ IsFiniteSet(Sockets) /\ NoSocket \notin Sockets
    /\ MaxSessions \in Nat

VARIABLES table,    \* g_sessions
          count,    \* g_session_count
          call,     \* the call in progress in the thread of each connection
          most,     \* history: the most calls that were in progress at once
          outside   \* the array was left by a load or a store

tableVars == <<table, count, call, most, outside>>

Places == 0..MaxSessions - 1
Entry == [userId : Users \cup {NoUser}, socket_fd : Sockets \cup {NoSocket},
          username : Users \cup {NoUser}]
Zero == [userId |-> NoUser, socket_fd |-> NoSocket, username |-> NoUser]

NoCall == [pc |-> "none", user |-> NoUser, i |-> 0, last |-> 0]

TableInit == /\ table = [p \in Places |-> Zero]
             /\ count = 0
             /\ call = [fd \in Sockets |-> NoCall]
             /\ most = 0
             /\ outside = FALSE

TableTypeOK == /\ table \in [Places -> Entry]
               /\ count \in Int
               /\ \A fd \in Sockets : call[fd].i \in 0..MaxSessions /\ call[fd].last \in Int
               /\ most \in 0..Cardinality(Sockets)
               /\ outside \in BOOLEAN

Calling == {fd \in Sockets : call[fd].pc # "none"}
AtOnce(n) == IF n > most THEN n ELSE most

\* The table as a sequence, for a moment at which no call is in progress.
Contents == [i \in {n \in 1..MaxSessions : n <= count} |-> table[i - 1]]

-----------------------------------------------------------------------------
(***************************************************************************)
(* The steps of a call                                                     *)
(***************************************************************************)
Goto(fd, pc) == call' = [call EXCEPT ![fd].pc = pc]

\* One store of value v to the field f of place p.
Store(p, f, v) ==
    /\ IF p \in Places
       THEN table' = [table EXCEPT ![p][f] = v] /\ UNCHANGED outside
       ELSE outside' = TRUE /\ UNCHANGED table
    /\ UNCHANGED <<count, most>>

\* SessionManager_add is entered: a full table refuses.
BeginAdd(fd, u) ==
    /\ call[fd] = NoCall
    /\ call' = [call EXCEPT ![fd] =
          [NoCall EXCEPT !.user = u,
                         !.pc = IF count >= MaxSessions THEN "return" ELSE "match"]]
    /\ most' = AtOnce(Cardinality(Calling) + 1)
    /\ UNCHANGED <<table, count, outside>>

\* A turn of the loop that looks for an entry of the user or of the socket.
Match(fd) ==
    LET c == call[fd]
    IN  /\ c.pc = "match"
        /\ \/ /\ c.i >= count
              /\ call' = [call EXCEPT ![fd].pc = "user"]
              /\ UNCHANGED outside
           \/ /\ c.i < count /\ c.i \in Places
              /\ call' = [call EXCEPT ![fd] =
                    IF table[c.i].userId = c.user \/ table[c.i].socket_fd = fd
                    THEN [c EXCEPT !.pc = "update"]
                    ELSE [c EXCEPT !.i = @ + 1]]
              /\ UNCHANGED outside
           \/ c.i < count /\ c.i \notin Places /\ outside' = TRUE /\ UNCHANGED call
        /\ UNCHANGED <<table, count, most>>

\* An entry that matches gets the socket and the name, and keeps its userId.
Update(fd) == /\ call[fd].pc = "update"
              /\ Store(call[fd].i, "socket_fd", fd)
              /\ Goto(fd, "rename")
Rename(fd) == /\ call[fd].pc = "rename"
              /\ Store(call[fd].i, "username", call[fd].user)
              /\ Goto(fd, "return")

\* No entry matches: the three stores to the place after the last one ...
AddUser(fd) == /\ call[fd].pc = "user"
               /\ Store(count, "userId", call[fd].user)
               /\ Goto(fd, "socket")
AddSocket(fd) == /\ call[fd].pc = "socket"
                 /\ Store(count, "socket_fd", fd)
                 /\ Goto(fd, "name")
AddName(fd) == /\ call[fd].pc = "name"
               /\ Store(count, "username", call[fd].user)
               /\ Goto(fd, "increment")

\* ... and the two halves of g_session_count++.
LoadCount(fd, by) ==
    /\ call[fd].pc = by
    /\ call' = [call EXCEPT ![fd].pc = "count",
                            ![fd].last = count + (IF by = "increment" THEN 1 ELSE -1)]
    /\ UNCHANGED <<table, count, most, outside>>
StoreCount(fd) ==
    /\ call[fd].pc = "count"
    /\ count' = call[fd].last
    /\ Goto(fd, "return")
    /\ UNCHANGED <<table, most, outside>>

\* SessionManager_remove_by_socket is entered.
BeginRemove(fd) ==
    /\ call[fd] = NoCall
    /\ call' = [call EXCEPT ![fd].pc = "find"]
    /\ most' = AtOnce(Cardinality(Calling) + 1)
    /\ UNCHANGED <<table, count, outside>>

\* A variant with a bug: the count goes down when no entry was found, too.
FindOrCountDown(fd) ==
    LET c == call[fd]
    IN  /\ c.pc = "find"
        /\ call' = [call EXCEPT ![fd] =
              IF c.i >= count THEN [c EXCEPT !.pc = "decrement"]
              ELSE IF table[c.i].socket_fd = fd THEN [c EXCEPT !.pc = "move"]
              ELSE [c EXCEPT !.i = @ + 1]]
        /\ UNCHANGED <<table, count, most, outside>>

\* A turn of its loop, which looks for an entry of the socket.
Find(fd) ==
    LET c == call[fd]
    IN  /\ c.pc = "find"
        /\ \/ /\ c.i >= count
              /\ call' = [call EXCEPT ![fd].pc = "return"]
              /\ UNCHANGED outside
           \/ /\ c.i < count /\ c.i \in Places
              /\ call' = [call EXCEPT ![fd] = IF table[c.i].socket_fd = fd
                                              THEN [c EXCEPT !.pc = "move"]
                                              ELSE [c EXCEPT !.i = @ + 1]]
              /\ UNCHANGED outside
           \/ c.i < count /\ c.i \notin Places /\ outside' = TRUE /\ UNCHANGED call
        /\ UNCHANGED <<table, count, most>>

\* The last entry is copied over the one that was found: its first half, ...
Move(fd) ==
    LET last == count - 1
    IN  /\ call[fd].pc = "move"
        /\ IF last \in Places
           THEN /\ table' = [table EXCEPT ![call[fd].i].userId = table[last].userId]
                /\ UNCHANGED outside
           ELSE outside' = TRUE /\ UNCHANGED table
        /\ call' = [call EXCEPT ![fd].pc = "moving", ![fd].last = last]
        /\ UNCHANGED <<count, most>>

\* ... and its second half.
Moving(fd) ==
    LET c == call[fd]
    IN  /\ c.pc = "moving"
        /\ table' = [table EXCEPT ![c.i] = [table[c.last] EXCEPT !.userId = table[c.i].userId]]
        /\ Goto(fd, "clear")
        /\ UNCHANGED <<count, most, outside>>

\* A variant with a bug: the entry that was found cleared, not the last one.
ClearFound(fd) ==
    /\ call[fd].pc = "clear"
    /\ table' = [table EXCEPT ![call[fd].i] = Zero]
    /\ Goto(fd, "decrement")
    /\ UNCHANGED <<count, most, outside>>

\* memset of the last entry.
Clear(fd) ==
    LET last == count - 1
    IN  /\ call[fd].pc = "clear"
        /\ IF last \in Places
           THEN table' = [table EXCEPT ![last] = Zero] /\ UNCHANGED outside
           ELSE outside' = TRUE /\ UNCHANGED table
        /\ Goto(fd, "decrement")
        /\ UNCHANGED <<count, most>>

TableStep(fd) ==
    /\ ~outside
    /\ \/ Match(fd) \/ Update(fd) \/ Rename(fd)
       \/ AddUser(fd) \/ AddSocket(fd) \/ AddName(fd)
       \/ LoadCount(fd, "increment") \/ StoreCount(fd)
       \/ Find(fd) \/ Move(fd) \/ Moving(fd) \/ Clear(fd)
       \/ LoadCount(fd, "decrement")

\* The call returns to the handler.
Return(fd) == /\ ~outside
              /\ call[fd].pc = "return"
              /\ call' = [call EXCEPT ![fd] = NoCall]
              /\ UNCHANGED <<table, count, most, outside>>

-----------------------------------------------------------------------------
\* The array is left only after two calls were in progress at once: two logins
\* that both found the last place free, or two removals of the same entry.
OutsideNeedsOverlap == outside => most > 1

=============================================================================
