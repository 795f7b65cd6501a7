------------------------------ MODULE Commands -------------------------------
(***************************************************************************)
(* How the handler threads of the server read commands: client_handler     *)
(* from recv to the reply, for every command.                              *)
(*                                                                         *)
(* A message is its command and the fields after it, none of them empty:   *)
(* strtok passes over the separators.  What follows the last field that    *)
(* the command asks for is never looked at.                                *)
(*                                                                         *)
(* strtok(msg_copy, "^") starts a parse and strtok(NULL, "^") goes on with *)
(* the one started last, by ANY thread: the position is a static variable  *)
(* of the C library, read at the start of the call and written at its end. *)
(* Two parses that overlap take fields from each other's messages, and may *)
(* be left with pointers into a copy that the other thread has freed.      *)
(*                                                                         *)
(* LOGIN and the end of a connection call the session manager, here the    *)
(* unlocked one of SessionTable.  The other services only report their     *)
(* outcome; ChatServer, Registry and PeachCollection have their insides.   *)
(***************************************************************************)
EXTENDS SessionTable

CONSTANTS
    Messages,     \* what the clients send: [command, fields]
    MaxCommands   \* bound: how many commands are received

VARIABLES
    conn,         \* the connection behind each descriptor, as in SessionManager
    acked,        \* history: the user of the last LOGIN_SUCCESS sent on it
    handler,      \* the thread of each connection
    cut,          \* per copy, the fields that a parse has cut off after
    olds,         \* the position that strtok keeps
    received,     \* how many commands were received
    sessions      \* history: the table when no call was last in progress

handlerVars == <<conn, acked, handler, cut, olds, received, sessions>>
vars == <<tableVars, handlerVars>>

-----------------------------------------------------------------------------
(***************************************************************************)
(* The commands, and what the handler does with each before it serves it   *)
(***************************************************************************)
Silent == {"", "UNKNOWN"}     \* no command at all, and one not in the list
Open == {"REGISTER", "LOGIN", "GET_USER_INFO", "SEARCH_USER"}
ForUsers == {"SEND_DM", "CREATE_GROUP", "JOIN_GROUP", "GET_MY_GROUPS",
             "GET_GROUP_HISTORY", "SEND_GROUP_MSG", "GET_DM_HISTORY", "GET_CONTACTS"}

\* How often the handler calls strtok(NULL, "^").
Arity(command) ==
    IF command \in {"REGISTER", "LOGIN", "SEND_DM", "SEND_GROUP_MSG"} THEN 2
    ELSE IF command \in Silent \cup {"GET_MY_GROUPS", "GET_CONTACTS"} THEN 0
    ELSE 1

\* What the client may be answered when the service has run.  The queries that
\* send their data themselves answer nothing else.
Outcomes(command) ==
    IF command \in Silent THEN {"error"}
    ELSE IF command \in {"GET_MY_GROUPS", "GET_GROUP_HISTORY", "GET_DM_HISTORY", "GET_CONTACTS"}
         THEN {"data"}
    ELSE {"success", "fail"}

\* Pointers that strtok returned: into the copy of a handler, at a field; into
\* memory that was freed; or NULL.
At(fd, n) == [copy |-> fd, field |-> n]
Freed == [copy |-> NoSocket, field |-> 0]
Null == [copy |-> NoSocket, field |-> -1]
Fields == UNION {{m.fields[i] : i \in DOMAIN m.fields} : m \in Messages}

ASSUME CommandsAssumption ==
    /\ Messages \subseteq [command : Silent \cup Open \cup ForUsers, fields : Seq(Fields)]
    /\ MaxCommands \in Nat

Idle == [pc |-> "idle", message |-> [command |-> "", fields |-> <<>>],
         pos |-> Null, got |-> <<>>, used |-> <<>>, reply |-> "none",
         mixed |-> FALSE]   \* history: another thread parsed meanwhile

Init == /\ TableInit
        /\ conn = [fd \in Sockets |-> "closed"]
        /\ acked = [fd \in Sockets |-> NoUser]
        /\ handler = [fd \in Sockets |-> Idle]
        /\ cut = [fd \in Sockets |-> {}]
        /\ olds = Null
        /\ received = 0
        /\ sessions = <<>>

-----------------------------------------------------------------------------
(***************************************************************************)
(* Parsing                                                                 *)
(***************************************************************************)
Parsing(fd) == handler[fd].pc \in {"session", "load", "take"}

\* What handler becomes when fd has called strtok: the parses of the others
\* are no longer their own.
Mixing(fd, new) ==
    [h \in Sockets |-> IF h = fd THEN new
                       ELSE [handler[h] EXCEPT !.mixed = @ \/ Parsing(h)]]

\* A variant with a bug: the last call of strtok left out.
NextPcShort(command, got) == IF Len(got) + 1 < Arity(command) THEN "load" ELSE "serve"

\* What comes after the arguments that were parsed so far.
NextPc(command, got) == IF Len(got) < Arity(command) THEN "load" ELSE "serve"

\* accept() and the start of the thread.
Accept(fd) ==
    /\ conn[fd] = "closed"
    /\ conn' = [conn EXCEPT ![fd] = "open"]
    /\ UNCHANGED <<acked, handler, cut, olds, received, sessions, tableVars>>

\* recv, strdup and strtok(msg_copy, "^"): the parse stands at the first field.
Receive(fd, m) ==
    /\ conn[fd] = "open" /\ handler[fd].pc = "idle"
    /\ received < MaxCommands
    /\ received' = received + 1
    /\ olds' = At(fd, 1)
    /\ cut' = [cut EXCEPT ![fd] = {}]
    /\ handler' = Mixing(fd,
          [Idle EXCEPT !.message = m,
                       !.pc = IF m.command \in ForUsers THEN "session"
                              ELSE NextPc(m.command, <<>>)])
    /\ UNCHANGED <<conn, acked, sessions, tableVars>>

\* SessionManager_get_session_by_socket, before the arguments are looked at.
HasSession(fd) == \E p \in Places : p < count /\ table[p].socket_fd = fd

LookUp(fd) ==
    LET me == handler[fd]
    IN  /\ me.pc = "session" /\ ~outside
        /\ handler' = [handler EXCEPT ![fd] =
              IF HasSession(fd) THEN [me EXCEPT !.pc = NextPc(me.message.command, <<>>)]
              ELSE [me EXCEPT !.pc = "reply", !.reply = "not_logged_in"]]
        /\ outside' = (~HasSession(fd) /\ count > MaxSessions)
        /\ UNCHANGED <<conn, acked, cut, olds, received, sessions, table, count, call, most>>

\* strtok(NULL, "^") is entered: it reads the position.
LoadPosition(fd) ==
    /\ handler[fd].pc = "load"
    /\ handler' = Mixing(fd, [handler[fd] EXCEPT !.pc = "take", !.pos = olds])
    /\ UNCHANGED <<conn, acked, cut, olds, received, sessions, tableVars>>

\* A variant with a bug: the end of the message missed.
TakenFromPastEnd(pos) ==
    IF pos = Freed THEN {[token |-> t, next |-> Freed] : t \in {Null, Freed}}
    ELSE LET done == Len(handler[pos.copy].message.fields) + 1
         IN  IF pos.field > done THEN {[token |-> Null, next |-> pos]}
             ELSE {[token |-> pos, next |-> At(pos.copy, pos.field + 1)]}

\* What it returns from a position, and where it leaves the position: NULL at the
\* end of a message, which is also where an earlier call has cut it.
TakenFrom(pos) ==
    IF pos = Freed THEN {[token |-> t, next |-> Freed] : t \in {Null, Freed}}
    ELSE LET fields == handler[pos.copy].message.fields
             done == Len(fields) + 1
         IN  IF pos.field >= done THEN {[token |-> Null, next |-> pos]}
             ELSE IF pos.field \in cut[pos.copy]
                  THEN {[token |-> pos, next |-> At(pos.copy, done)]}
             ELSE {[token |-> pos, next |-> At(pos.copy, pos.field + 1)]}

\* It returns: the field ends here now, and the position is written.
TakeField(fd) ==
    LET me == handler[fd]
    IN  /\ me.pc = "take"
        /\ \E taken \in TakenFrom(me.pos) :
              LET got == Append(me.got, taken.token)
              IN  /\ olds' = taken.next
                  /\ handler' = Mixing(fd, [me EXCEPT !.got = got, !.pos = Null,
                                                      !.pc = NextPc(me.message.command, got)])
                  /\ IF taken.token.field > 0
                     THEN cut' = [cut EXCEPT ![taken.token.copy] = @ \cup {taken.token.field}]
                     ELSE UNCHANGED cut
        /\ UNCHANGED <<conn, acked, received, sessions, tableVars>>

-----------------------------------------------------------------------------
(***************************************************************************)
(* Serving                                                                 *)
(***************************************************************************)
\* The strings that a pointer may point to now.
Strings(p) == IF p = Freed THEN Fields ELSE {handler[p.copy].message.fields[p.field]}

\* An argument is missing: INSUFFICIENT_ARGS.
Refuse(fd) ==
    LET me == handler[fd]
    IN  /\ me.pc = "serve"
        /\ \E i \in DOMAIN me.got : me.got[i] = Null
        /\ handler' = [handler EXCEPT ![fd].pc = "reply", ![fd].reply = "insufficient"]
        /\ UNCHANGED <<conn, acked, cut, olds, received, sessions, tableVars>>

\* The service runs, on the strings that the pointers point to now.  LOGIN calls
\* the session manager when the name and the password are those of one user.
Serve(fd) ==
    LET me == handler[fd]
        command == me.message.command
    IN  /\ me.pc = "serve"
        /\ \A i \in DOMAIN me.got : me.got[i] # Null
        /\ \E used \in {s \in [DOMAIN me.got -> Fields] :
                           \A i \in DOMAIN me.got : s[i] \in Strings(me.got[i])} :
              IF command = "LOGIN" /\ used[1] = used[2] /\ used[1] \in Users
              THEN /\ BeginAdd(fd, used[1])
                   /\ handler' = [handler EXCEPT ![fd].pc = "call", ![fd].used = used,
                                                 ![fd].reply = "success"]
              ELSE /\ \E outcome \in IF command = "LOGIN" THEN {"fail"} ELSE Outcomes(command) :
                         handler' = [handler EXCEPT ![fd].pc = "reply", ![fd].used = used,
                                                    ![fd].reply = outcome]
                   /\ UNCHANGED tableVars
        /\ UNCHANGED <<conn, acked, cut, olds, received, sessions>>

\* A step of a call to the session manager.
InCall(fd) == TableStep(fd) /\ UNCHANGED handlerVars

Returned(fd) == /\ Return(fd)
                /\ sessions' = IF Calling = {fd} THEN Contents ELSE sessions

\* The login is over; the result of SessionManager_add is not looked at.
LoggedIn(fd) ==
    /\ handler[fd].pc = "call" /\ Returned(fd)
    /\ acked' = [acked EXCEPT ![fd] = handler[fd].used[1]]
    /\ handler' = [handler EXCEPT ![fd].pc = "reply"]
    /\ UNCHANGED <<conn, cut, olds, received>>

\* free(msg_copy) and the reply.  Whoever points into the copy points into freed
\* memory now.
Without(fd, p) == IF p.copy = fd THEN Freed ELSE p

Reply(fd) ==
    /\ handler[fd].pc = "reply"
    /\ olds' = Without(fd, olds)
    /\ handler' = [h \in Sockets |->
          IF h = fd THEN Idle
          ELSE [handler[h] EXCEPT !.pos = Without(fd, @),
                                  !.got = [i \in DOMAIN @ |-> Without(fd, @[i])]]]
    /\ UNCHANGED <<conn, acked, cut, received, sessions, tableVars>>

\* recv tells that the client is gone: the session is removed ...
ClientGone(fd) ==
    /\ conn[fd] = "open" /\ handler[fd].pc = "idle"
    /\ BeginRemove(fd)
    /\ handler' = [handler EXCEPT ![fd].pc = "leaving"]
    /\ UNCHANGED <<conn, acked, cut, olds, received, sessions>>

Disconnected(fd) ==
    /\ handler[fd].pc = "leaving" /\ Returned(fd)
    /\ conn' = [conn EXCEPT ![fd] = "removed"]
    /\ acked' = [acked EXCEPT ![fd] = NoUser]
    /\ handler' = [handler EXCEPT ![fd] = Idle]
    /\ UNCHANGED <<cut, olds, received>>

\* ... and the socket is closed.
Close(fd) ==
    /\ conn[fd] = "removed"
    /\ conn' = [conn EXCEPT ![fd] = "closed"]
    /\ UNCHANGED <<acked, handler, cut, olds, received, sessions, tableVars>>

Next == \E fd \in Sockets :
           \/ Accept(fd) \/ ClientGone(fd) \/ Disconnected(fd) \/ Close(fd)
           \/ \E m \in Messages : Receive(fd, m)
           \/ LookUp(fd) \/ LoadPosition(fd) \/ TakeField(fd)
           \/ Refuse(fd) \/ Serve(fd) \/ LoggedIn(fd) \/ Reply(fd)
           \/ InCall(fd)

Spec == Init /\ [][Next]_vars

-----------------------------------------------------------------------------
(***************************************************************************)
(* Properties                                                              *)
(***************************************************************************)

\* The type invariant.
TypeOK ==
    /\ TableTypeOK
    /\ \A fd \in Sockets :
          /\ conn[fd] \in {"closed", "open", "removed"}
          /\ handler[fd].message \in Messages \cup {Idle.message}
          /\ handler[fd].used \in Seq(Fields)
          /\ call[fd] # NoCall => handler[fd].pc \in {"call", "leaving"}
          /\ handler[fd].pc # "idle" => conn[fd] = "open"
          \* no field is ever read behind the end of a message
          /\ \A i \in DOMAIN handler[fd].got :
                LET p == handler[fd].got[i]
                IN  p \in {Null, Freed} \/ p.field \in DOMAIN handler[p.copy].message.fields
    \* and strtok stands in a message, at the latest at its end
    /\ olds \in {Null, Freed} \/ olds.field \in 1..Len(handler[olds.copy].message.fields) + 1

\* A command is served with the fields its own client sent, and is refused for
\* want of arguments exactly when its client sent too few, unless another
\* thread called strtok between the first and the last call of its parse.
ServedAsSent ==
    \A fd \in Sockets :
       LET me == handler[fd]
           n == Arity(me.message.command)
       IN  me.pc \in {"call", "reply"} /\ ~me.mixed /\ me.reply # "not_logged_in" =>
              IF me.reply = "insufficient" THEN Len(me.message.fields) < n
              ELSE /\ Len(me.message.fields) >= n
                   /\ me.used = SubSeq(me.message.fields, 1, n)

\* As long as no two calls were in progress at once, the loads and stores of the
\* session manager amount to the operations of SessionManager, one at a time, on
\* the entries up to the count.
SM == INSTANCE SessionManager
ImplementsSessions == SM!Init /\ [][most' <= 1 => SM!Next \/ UNCHANGED SM!vars]_vars

=============================================================================
