----------------------------- MODULE ChatServer ------------------------------
(***************************************************************************)
(* The handler threads of the server sending direct and group messages.    *)
(*                                                                         *)
(* A handler serves one connection.  For SEND_DM and SEND_GROUP_MSG it     *)
(* looks its session up and keeps a POINTER into g_sessions, saves the     *)
(* message, looks up the socket of each receiver, writes the message to    *)
(* it, and at last writes the reply to its own client.  Between any two of *)
(* these steps other handlers may log users in, remove sessions (which     *)
(* moves the last entry of the table) and close sockets (whose descriptors *)
(* accept() hands out again).  The sender's id is read through the pointer *)
(* each time it is needed.                                                 *)
(*                                                                         *)
(* The session table is that of SessionManager, with clients that log in   *)
(* to a second account on the same connection: their entry keeps the first *)
(* account, and one of their entries may stay when the connection ends, at *)
(* a descriptor that the next client gets.                                 *)
(*                                                                         *)
(* Saving is the insert of Store, reduced to its outcome: the record is    *)
(* added; or it is not, on a key that another handler took or a file that  *)
(* cannot be opened; or it is added under the key 0, as the highest key    *)
(* could not be read, and the caller takes the 0 for a failure.            *)
(***************************************************************************)
EXTENDS Naturals, Sequences

CONSTANTS Users, Sockets, NoUser, NoSocket, MaxSessions,
          Members,         \* the members of the group
          MaxMessages,     \* bound: how many messages the clients send
          MaxLogins,       \* bound: how many logins succeed
          MaxConnections   \* bound: how many connections are accepted

ASSUME ChatAssumption == /\ NoUser \notin Users
                         /\ NoSocket \notin Sockets
                         /\ MaxSessions \in Nat
                         /\ Members \subseteq Users
                         /\ MaxMessages \in Nat
                         /\ MaxLogins \in Nat
                         /\ MaxConnections \in Nat

VARIABLES
    sessions, conn, acked,   \* as in SessionManager
    switched,   \* history: the descriptors on which a client has logged in to
                \* another account, as long as entries with them are left
    gone,       \* the sockets whose client has closed its end
    alive,      \* FALSE once the process was killed by SIGPIPE
    accepted,   \* how many connections were accepted
    logins,     \* how many logins have succeeded
    sent,       \* how many messages the clients have sent
    handler,    \* the thread of each connection
    store,      \* the records of messages and groupmessages
    inbox       \* what the client now on each socket has been sent

vars == <<sessions, conn, acked, switched, gone, alive, accepted, logins, sent,
          handler, store, inbox>>

SM == INSTANCE SessionManager

Kinds == {"dm", "group"}

(***************************************************************************)
(* The locals of client_handler and, after the history comment, what the   *)
(* properties need to know about the command being served:                 *)
(*   by        the user the client of this connection is logged in as      *)
(*   calm      the client had not switched accounts when its command came, *)
(*             and no session was removed since the lookup of the pointer    *)
(*   fresh     the target's socket was not closed since its lookup         *)
(*   listed    the list of members, if there was one to read, was read     *)
(*   steady    the users on line, undisturbed, since the message was saved *)
(***************************************************************************)
Idle == [pc |-> "idle", id |-> 0, kind |-> "dm", to |-> NoUser,
         ptr |-> 0, from |-> NoUser, todo |-> {}, target |-> NoSocket,
         reply |-> "none",
         \* history
         by |-> NoUser, calm |-> TRUE, fresh |-> TRUE,
         listed |-> TRUE, steady |-> {}]

Init == /\ SM!Init
        /\ switched = {}
        /\ gone = {}
        /\ alive = TRUE
        /\ accepted = 0
        /\ logins = 0
        /\ sent = 0
        /\ handler = [fd \in Sockets |-> Idle]
        /\ store = <<>>
        /\ inbox = [fd \in Sockets |-> <<>>]

-----------------------------------------------------------------------------
(***************************************************************************)
(* Connections and sessions                                                *)
(***************************************************************************)
Busy(fd) == handler[fd].pc # "idle"

\* The users whom the table has on this socket.
OnlineAt(fd) == {u \in Users : SM!GetSocket(sessions, u) = fd}

Accept(fd) ==
    /\ alive /\ accepted < MaxConnections
    /\ SM!Accept(fd)
    /\ accepted' = accepted + 1
    /\ inbox' = [inbox EXCEPT ![fd] = <<>>]
    /\ UNCHANGED <<switched, gone, alive, logins, sent, handler, store>>

Login(u, fd) ==
    /\ alive /\ ~Busy(fd) /\ logins < MaxLogins
    /\ SM!Login(u, fd)
    /\ logins' = logins + 1
    /\ switched' = IF acked[fd] \in {NoUser, u} THEN switched ELSE switched \cup {fd}
    /\ handler' = [h \in Sockets |-> [handler[h] EXCEPT !.steady = @ \ {u}]]
    /\ UNCHANGED <<gone, alive, accepted, sent, store, inbox>>

\* The client closes its end; the handler finds out from recv once it has read
\* the commands that were sent before.
ClientCloses(fd) ==
    /\ alive /\ conn[fd] = "open" /\ fd \notin gone
    /\ gone' = gone \cup {fd}
    /\ handler' = [h \in Sockets |-> [handler[h] EXCEPT !.steady = @ \ OnlineAt(fd)]]
    /\ UNCHANGED <<sessions, conn, acked, switched, alive, accepted, logins, sent, store, inbox>>

\* A variant with a bug: the session left in the table.
DisconnectKeepingSession(fd) ==
    /\ alive /\ ~Busy(fd) /\ fd \in gone
    /\ conn[fd] = "open"
    /\ conn' = [conn EXCEPT ![fd] = "removed"]
    /\ acked' = [acked EXCEPT ![fd] = NoUser]
    /\ UNCHANGED <<sessions, switched, gone, alive, accepted, logins, sent, handler, store, inbox>>

Disconnect(fd) ==
    /\ alive /\ ~Busy(fd) /\ fd \in gone
    /\ SM!Disconnect(fd)
    /\ switched' = IF SM!OfSocket(sessions', fd) = {} THEN switched \ {fd} ELSE switched
    /\ handler' = [h \in Sockets |-> IF Busy(h) /\ sessions' # sessions
                                     THEN [handler[h] EXCEPT !.calm = FALSE]
                                     ELSE handler[h]]
    /\ UNCHANGED <<gone, alive, accepted, logins, sent, store, inbox>>

Close(fd) ==
    /\ alive
    /\ SM!Close(fd)
    /\ gone' = gone \ {fd}
    /\ handler' = [h \in Sockets |-> IF handler[h].target = fd
                                     THEN [handler[h] EXCEPT !.fresh = FALSE]
                                     ELSE handler[h]]
    /\ UNCHANGED <<switched, alive, accepted, logins, sent, store, inbox>>

-----------------------------------------------------------------------------
(***************************************************************************)
(* Sending a message                                                       *)
(***************************************************************************)
\* SessionManager_get_session_by_socket: the place of the entry, 0 for NULL.
SessionOf(fd) == IF SM!OfSocket(sessions, fd) = {} THEN 0
                 ELSE SM!First(SM!OfSocket(sessions, fd))

\* A variant with a bug: the pointer taken for one to the first entry.
FirstUser(fd) == IF sessions = <<>> THEN NoUser ELSE sessions[1].userId

\* sender_session->userId: whatever entry is there now.  The places after the
\* last entry are zeroed, and no user has the id 0.
CurrentUser(fd) == IF handler[fd].ptr \in DOMAIN sessions
                   THEN sessions[handler[fd].ptr].userId
                   ELSE NoUser

\* recv, strtok and the session lookup of SEND_DM or SEND_GROUP_MSG.
Receive(fd, kind, to) ==
    /\ alive /\ ~Busy(fd) /\ conn[fd] = "open"
    /\ sent < MaxMessages
    /\ sent' = sent + 1
    /\ handler' = [handler EXCEPT ![fd] =
          [Idle EXCEPT !.pc = IF SessionOf(fd) = 0 THEN "respond" ELSE "read",
                       !.reply = IF SessionOf(fd) = 0 THEN "not_logged_in" ELSE "none",
                       !.id = sent', !.kind = kind, !.to = to,
                       !.ptr = SessionOf(fd), !.by = acked[fd],
                       !.calm = fd \notin switched]]
    /\ UNCHANGED <<sessions, conn, acked, switched, gone, alive, accepted, logins, store, inbox>>

\* The first argument of the save: sender_session->userId.
ReadSender(fd) ==
    /\ alive /\ handler[fd].pc = "read"
    /\ handler' = [handler EXCEPT ![fd].pc = "save", ![fd].from = CurrentUser(fd)]
    /\ UNCHANGED <<sessions, conn, acked, switched, gone, alive, accepted, logins, sent, store, inbox>>

\* The users whom the table has on a connection whose client is still there.
Reachable == {u \in Users : \E s \in Sockets \ gone : /\ conn[s] = "open"
                                                      /\ u \in OnlineAt(s)}

\* What is stored of a message, and whether under a key of its own.
Record(h, keyed) == [id |-> h.id, kind |-> h.kind, from |-> h.from, by |-> h.by,
                     calm |-> h.calm, keyed |-> keyed]

\* MessageService_save_dm or GroupService_save_group_message succeeds.
Save(fd) ==
    LET me == handler[fd]
    IN  /\ alive /\ me.pc = "save"
        /\ store' = Append(store, Record(me, TRUE))
        /\ handler' = [handler EXCEPT ![fd] =
              [me EXCEPT !.pc = IF me.kind = "dm" THEN "next" ELSE "members",
                         !.reply = "success", !.todo = {me.to} \ {NoUser},
                         !.steady = Reachable]]
        /\ UNCHANGED <<sessions, conn, acked, switched, gone, alive, accepted, logins, sent, inbox>>

\* A variant with a bug: the result of the save not looked at.
SaveFailsUnnoticed(fd) ==
    /\ alive /\ handler[fd].pc = "save"
    /\ handler' = [handler EXCEPT ![fd].pc = "respond", ![fd].reply = "success"]
    /\ UNCHANGED <<sessions, conn, acked, switched, gone, alive, accepted, logins, sent, store, inbox>>

\* It returns -1 and stores nothing: COULD_NOT_SAVE, and nobody is written to.
SaveFails(fd) ==
    /\ alive /\ handler[fd].pc = "save"
    /\ handler' = [handler EXCEPT ![fd].pc = "respond", ![fd].reply = "fail"]
    /\ UNCHANGED <<sessions, conn, acked, switched, gone, alive, accepted, logins, sent, store, inbox>>

\* It returns 0, one more than the -1 of Peach_get_highest_key, and has stored the
\* message under that key: COULD_NOT_SAVE as well.  (A second record with the key 0
\* is refused unless two threads look for it at the same time.)
SaveUnderKeyZero(fd) ==
    LET me == handler[fd]
    IN  /\ alive /\ me.pc = "save"
        /\ store' = Append(store, Record(me, FALSE))
        /\ handler' = [handler EXCEPT ![fd].pc = "respond", ![fd].reply = "fail"]
        /\ UNCHANGED <<sessions, conn, acked, switched, gone, alive, accepted, logins, sent, inbox>>

\* GroupService_get_group_members, which gives NULL when the file cannot be opened:
\* then nobody is written to, and the reply is that of success all the same.
ReadMembers(fd) ==
    /\ alive /\ handler[fd].pc = "members"
    /\ \E listed \in BOOLEAN :
          handler' = [handler EXCEPT ![fd] =
             [@ EXCEPT !.pc = "next", !.listed = listed,
                       !.todo = IF listed THEN Members ELSE {}]]
    /\ UNCHANGED <<sessions, conn, acked, switched, gone, alive, accepted, logins, sent, store, inbox>>

\* The next receiver, in any order.  The members of a group are compared with
\* the sender first.
NextReceiver(fd, u) ==
    LET me == handler[fd]
    IN  /\ alive /\ me.pc = "next" /\ u \in me.todo
        /\ handler' = [handler EXCEPT ![fd] =
              IF me.kind = "group" /\ u = CurrentUser(fd)
              THEN [me EXCEPT !.todo = @ \ {u}]
              ELSE [me EXCEPT !.pc = "lookup", !.to = u, !.todo = @ \ {u}]]
        /\ UNCHANGED <<sessions, conn, acked, switched, gone, alive, accepted, logins, sent, store, inbox>>

\* A variant with a bug: the loop left at the first receiver who is not on line.
FindSocketOrStop(fd) ==
    LET me == handler[fd]
        s  == SM!GetSocket(sessions, me.to)
    IN  /\ alive /\ me.pc = "lookup"
        /\ handler' = [handler EXCEPT ![fd] =
              IF s = NoSocket THEN [me EXCEPT !.pc = "next", !.todo = {}]
              ELSE [me EXCEPT !.pc = "forward", !.target = s, !.fresh = TRUE]]
        /\ UNCHANGED <<sessions, conn, acked, switched, gone, alive, accepted, logins, sent, store, inbox>>

\* SessionManager_get_socket: a receiver who is not on line is passed over.
FindSocket(fd) ==
    LET me == handler[fd]
        s  == SM!GetSocket(sessions, me.to)
    IN  /\ alive /\ me.pc = "lookup"
        /\ handler' = [handler EXCEPT ![fd] =
              IF s = NoSocket THEN [me EXCEPT !.pc = "next"]
              ELSE [me EXCEPT !.pc = "forward", !.target = s, !.fresh = TRUE]]
        /\ UNCHANGED <<sessions, conn, acked, switched, gone, alive, accepted, logins, sent, store, inbox>>

\* write() of a line to a socket: to a closed descriptor it fails, to a client
\* that is gone it is lost or kills the process (SIGPIPE is not ignored).
Write(s, line) ==
    \/ /\ conn[s] = "open" /\ s \notin gone
       /\ inbox' = [inbox EXCEPT ![s] = Append(@, line)]
       /\ UNCHANGED alive
    \/ /\ conn[s] # "open" \/ s \in gone
       /\ UNCHANGED <<inbox, alive>>
    \/ /\ s \in gone
       /\ alive' = FALSE
       /\ UNCHANGED inbox

\* RECEIVE_DM or RECEIVE_GROUP_MSG with the sender's id, read once more.
Forward(fd) ==
    LET me == handler[fd]
    IN  /\ alive /\ me.pc = "forward"
        /\ Write(me.target, [what |-> me.kind, id |-> me.id, from |-> CurrentUser(fd),
                             by |-> me.by, calm |-> me.calm,
                             to |-> me.to, reader |-> acked[me.target],
                             fresh |-> me.fresh /\ me.target \notin switched])
        /\ handler' = [handler EXCEPT ![fd].pc = "next", ![fd].target = NoSocket]
        /\ UNCHANGED <<sessions, conn, acked, switched, gone, accepted, logins, sent, store>>

\* Nobody is left to be written to, or nobody was to be.
Done(h) == h.pc = "respond" \/ (h.pc = "next" /\ h.todo = {})

\* The reply to the client, after all the forwards.
Respond(fd) ==
    LET me == handler[fd]
    IN  /\ alive /\ Done(me)
        /\ Write(fd, [what |-> me.reply, id |-> me.id])
        /\ handler' = [handler EXCEPT ![fd] = Idle]
        /\ UNCHANGED <<sessions, conn, acked, switched, gone, accepted, logins, sent, store>>

Step(fd) == \/ ReadSender(fd) \/ Save(fd) \/ SaveFails(fd) \/ SaveUnderKeyZero(fd)
            \/ ReadMembers(fd)
            \/ \E u \in Users : NextReceiver(fd, u)
            \/ FindSocket(fd) \/ Forward(fd) \/ Respond(fd)

Next == \E fd \in Sockets :
           \/ Accept(fd) \/ ClientCloses(fd) \/ Disconnect(fd) \/ Close(fd)
           \/ \E u \in Users : Login(u, fd) \/ Receive(fd, "dm", u)
           \/ Receive(fd, "group", NoUser)
           \/ Step(fd)

Spec == Init /\ [][Next]_vars

-----------------------------------------------------------------------------
(***************************************************************************)
(* Properties                                                              *)
(***************************************************************************)
Lines(fd) == {inbox[fd][i] : i \in DOMAIN inbox[fd]}
Forwards(fd) == {l \in Lines(fd) : l.what \in Kinds}
Replies(fd) == Lines(fd) \ Forwards(fd)
Stored == {store[i].id : i \in DOMAIN store}
Keyed == {store[i].id : i \in {j \in DOMAIN store : store[j].keyed}}

\* A client that reads SUCCESS has its message in the store under a key of its own.
\* One that reads COULD_NOT_SAVE finds it there under the key 0 at most, and one that
\* reads NOT_LOGGED_IN nowhere; neither has been forwarded to anybody.
ReplyTellsTheTruth ==
    /\ \A fd \in Sockets : \A l \in Replies(fd) :
          /\ l.what = "success" <=> l.id \in Keyed
          /\ l.what = "not_logged_in" => l.id \notin Stored
    /\ \A fd \in Sockets : \A l \in Forwards(fd) : l.id \in Keyed

\* A message is stored, or forwarded, under another user than the one its client was
\* last told to be only when that client had switched accounts (or its descriptor
\* is one with an entry left over from a client that had), or when a session was
\* removed between the lookup of the pointer and its use: no login of another
\* client, switching or not, moves an entry or changes its user.
AttributionNeedsRemovalOrSwitch ==
    /\ \A i \in DOMAIN store : store[i].calm => store[i].from = store[i].by
    /\ \A fd \in Sockets : \A l \in Forwards(fd) : l.calm => l.from = l.by

\* A forwarded message reaches another user than its receiver only when the
\* receiver's socket was closed between its lookup and the write, or when a client of
\* that descriptor had switched accounts.
MisdeliveryNeedsReuseOrSwitch ==
    \A fd \in Sockets : \A l \in Forwards(fd) : l.fresh => l.reader = l.to

\* When a client is told that its message was sent, every receiver who was on
\* line when the message was saved, and stayed on that connection, has been
\* sent it.  For a group this needs that the list of members could be read, that
\* the sender had not switched accounts, and that no session was removed meanwhile:
\* a member may otherwise be taken for the sender.
SteadyReceiversReached ==
    \A fd \in Sockets :
       LET me == handler[fd]
           reached == me.steady \cap (IF me.kind = "dm" THEN {me.to} ELSE Members \ {me.by})
       IN  Done(me) /\ me.reply = "success" /\ (me.kind = "dm" \/ (me.calm /\ me.listed)) =>
              \A u \in reached : \E l \in Forwards(SM!GetSocket(sessions, u)) :
                                     l.id = me.id /\ l.to = u

=============================================================================
