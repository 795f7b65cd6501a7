-------------------------------- MODULE Login --------------------------------
(***************************************************************************)
(* Who a client believes to be, and who the server takes it for.           *)
(*                                                                         *)
(* Each client process has a login screen and a register screen.  Their    *)
(* buttons send a request and poll the response slot for two seconds: any  *)
(* line found there is the answer.  A login whose answer starts with       *)
(* LOGIN_SUCCESS sets the client's user id and opens the chat screen, for  *)
(* good.  A listener thread puts what arrives into the slot; lines that    *)
(* arrive together are one string, of which only the first is understood.  *)
(* So are requests that arrive together at the server.                     *)
(*                                                                         *)
(* The server's table is that of SessionManager, whose update keeps the    *)
(* userId of the entry: a connection that logs in twice stays the first    *)
(* user, and its LOGIN_SUCCESS names the second.                           *)
(***************************************************************************)
EXTENDS Naturals, Sequences

CONSTANTS Usernames,     \* who has an account; a name stands for its id, too
          Sockets, NoUser, NoSocket, MaxSessions,   \* as in SessionManager
          Clients,       \* the client processes
          Passwords,     \* what a user may type into a password field
          MaxRequests,   \* bound: how many requests the clients make
          MaxPushes,     \* bound: how many messages are forwarded
          MaxStarts      \* bound: how many times a client is started

ASSUME LoginAssumption == /\ NoUser \notin Usernames
                          /\ NoSocket \notin Sockets
                          /\ MaxSessions \in Nat

VARIABLES
    sessions, conn, acked,   \* as in SessionManager
    accounts,   \* the password of each user in user.lpdb, as words run together
    up, down,   \* the two directions of each connection
    serving,    \* the reply that the handler of each connection has still to write
    app,        \* the client processes
    lost,       \* history: a request ended without the answer to it
    requests, pushes, starts   \* the counters of the bounds

loginVars == <<sessions, conn, acked, accounts, up, down, serving, app, lost,
               requests, pushes, starts>>
server == <<sessions, conn, acked, accounts, serving>>
counters == <<requests, pushes, starts>>

SM == INSTANCE SessionManager WITH Users <- Usernames

NoRequest == [kind |-> "none", id |-> 0, user |-> NoUser, password |-> <<>>]
NoLine == [what |-> "none", id |-> 0, user |-> NoUser]

\* A process that does not run, and one that has just connected.  typed is
\* history: the credentials its user has entered on the login screen.
Off == [fd |-> NoSocket, screen |-> "LOGIN", current_user_id |-> NoUser,
        ask |-> NoRequest, slot |-> NoLine, typed |-> {}]
Fresh(fd) == [Off EXCEPT !.fd = fd]

Running(c) == app[c].fd # NoSocket
PeerOf(fd) == {c \in Clients : app[c].fd = fd}

LoginInit == /\ SM!Init
             \* user.lpdb may hold accounts from earlier
             /\ accounts \in [Usernames -> {<<>>} \cup {<<p>> : p \in Passwords}]
             /\ up = [fd \in Sockets |-> <<>>]
             /\ down = [fd \in Sockets |-> <<>>]
             /\ serving = [fd \in Sockets |-> NoLine]
             /\ app = [c \in Clients |-> Off]
             /\ lost = FALSE
             /\ requests = 0 /\ pushes = 0 /\ starts = 0

-----------------------------------------------------------------------------
(***************************************************************************)
(* The client                                                              *)
(***************************************************************************)
\* main: connect, which the server accepts, and the listener thread.
Start(c, fd) ==
    /\ ~Running(c) /\ starts < MaxStarts
    /\ starts' = starts + 1
    /\ SM!Accept(fd)
    /\ app' = [app EXCEPT ![c] = Fresh(fd)]
    /\ up' = [up EXCEPT ![fd] = <<>>]
    /\ down' = [down EXCEPT ![fd] = <<>>]
    /\ UNCHANGED <<accounts, serving, lost, requests, pushes>>

\* The buttons that lead from one screen to the other.
SwitchScreen(c, to) ==
    /\ Running(c) /\ app[c].ask = NoRequest
    /\ <<app[c].screen, to>> \in {<<"LOGIN", "REGISTER">>, <<"REGISTER", "LOGIN">>}
    /\ app' = [app EXCEPT ![c].screen = to]
    /\ UNCHANGED <<server, up, down, lost, counters>>

\* The Login or the Register button, with a name and a password in the fields:
\* the slot is cleared and the request sent.
Press(c, u, p) ==
    LET fd == app[c].fd
        request == [kind |-> app[c].screen, id |-> requests + 1, user |-> u,
                    password |-> <<p>>]
    IN  /\ Running(c) /\ app[c].ask = NoRequest
        /\ app[c].screen \in {"LOGIN", "REGISTER"}
        /\ requests < MaxRequests
        /\ requests' = requests + 1
        /\ app' = [app EXCEPT ![c].ask = request, ![c].slot = NoLine,
                              ![c].typed = IF app[c].screen = "LOGIN"
                                           THEN @ \cup {<<u, p>>} ELSE @]
        /\ up' = [up EXCEPT ![fd] = Append(@, request)]
        /\ UNCHANGED <<server, down, lost, pushes, starts>>

\* The listener: one recv takes one or more lines.  Once the chat screen has set
\* its handler a pushed message no longer goes to the slot.
Listen(c) ==
    LET fd == app[c].fd
    IN  /\ Running(c)
        /\ \E n \in DOMAIN down[fd] :
              /\ down' = [down EXCEPT ![fd] = SubSeq(@, n + 1, Len(@))]
              /\ app' = IF app[c].screen = "CHAT" /\ Head(down[fd]).what = "RECEIVE"
                        THEN app
                        ELSE [app EXCEPT ![c].slot = Head(down[fd])]
        /\ UNCHANGED <<server, up, lost, counters>>

\* A variant with a bug: any line that begins with LOGIN taken for the success.
AnsweredLoosely(a) ==
    IF a.ask.kind = "LOGIN" /\ a.slot.what \in {"LOGIN_SUCCESS", "LOGIN_FAIL"}
    THEN [a EXCEPT !.screen = "CHAT", !.current_user_id = a.slot.user, !.ask = NoRequest]
    ELSE IF a.ask.kind = "REGISTER" /\ a.slot.what = "REGISTER_SUCCESS"
    THEN [a EXCEPT !.screen = "LOGIN", !.ask = NoRequest]
    ELSE [a EXCEPT !.ask = NoRequest]

\* What the screen does with the line in the slot: a login that succeeds opens the
\* chat screen, a registration the login screen; anything else is a failure.
Answered(a) ==
    IF a.ask.kind = "LOGIN" /\ a.slot.what = "LOGIN_SUCCESS"
    THEN [a EXCEPT !.screen = "CHAT", !.current_user_id = a.slot.user, !.ask = NoRequest]
    ELSE IF a.ask.kind = "REGISTER" /\ a.slot.what = "REGISTER_SUCCESS"
    THEN [a EXCEPT !.screen = "LOGIN", !.ask = NoRequest]
    ELSE [a EXCEPT !.ask = NoRequest]

\* A poll finds a line.
Poll(c) ==
    /\ app[c].ask # NoRequest /\ app[c].slot # NoLine
    /\ app' = [app EXCEPT ![c] = Answered(@)]
    /\ lost' = (lost \/ app[c].slot.id # app[c].ask.id)
    /\ UNCHANGED <<server, up, down, counters>>

\* The last poll finds none.
TimeOut(c) ==
    /\ app[c].ask # NoRequest /\ app[c].slot = NoLine
    /\ app' = [app EXCEPT ![c].ask = NoRequest]
    /\ lost' = TRUE
    /\ UNCHANGED <<server, up, down, counters>>

\* The window is closed, between two frames, and with it the connection.
Quit(c) ==
    /\ Running(c) /\ app[c].ask = NoRequest
    /\ app' = [app EXCEPT ![c] = Off]
    /\ UNCHANGED <<server, up, down, lost, counters>>

-----------------------------------------------------------------------------
(***************************************************************************)
(* The server                                                              *)
(***************************************************************************)
\* What n requests read by one recv amount to: the first one, with the command
\* of the next at the end of its password.
Understood(queue, n) ==
    IF n = 1 THEN queue[1]
    ELSE [queue[1] EXCEPT !.password = Append(@, queue[2].kind)]

\* The reply is prepared; a push may still come before it.
Prepare(fd, what, request, u) ==
    serving' = [serving EXCEPT ![fd] = [what |-> what, id |-> request.id, user |-> u]]

\* A variant with a bug: the session added before the password is compared.
ServeLoginAddingFirst(fd, r) ==
    /\ r.kind = "LOGIN"
    /\ SM!Login(r.user, fd)
    /\ IF accounts[r.user] = r.password THEN Prepare(fd, "LOGIN_SUCCESS", r, r.user)
       ELSE Prepare(fd, "LOGIN_FAIL", r, NoUser)
    /\ UNCHANGED accounts

\* LOGIN: UserService_login compares the password, SessionManager_add follows.
ServeLogin(fd, r) ==
    /\ r.kind = "LOGIN"
    /\ \/ /\ accounts[r.user] = r.password
          /\ SM!Login(r.user, fd)
          /\ Prepare(fd, "LOGIN_SUCCESS", r, r.user)
       \/ /\ accounts[r.user] # r.password
          /\ Prepare(fd, "LOGIN_FAIL", r, NoUser)
          /\ UNCHANGED <<sessions, conn, acked>>
    /\ UNCHANGED accounts

\* REGISTER: a name that is taken is refused.
ServeRegister(fd, r) ==
    /\ r.kind = "REGISTER"
    /\ \/ /\ accounts[r.user] = <<>>
          /\ accounts' = [accounts EXCEPT ![r.user] = r.password]
          /\ Prepare(fd, "REGISTER_SUCCESS", r, r.user)
       \/ /\ accounts[r.user] # <<>>
          /\ Prepare(fd, "REGISTER_FAIL", r, NoUser)
          /\ UNCHANGED accounts
    /\ UNCHANGED <<sessions, conn, acked>>

Serve(fd) ==
    /\ conn[fd] = "open" /\ serving[fd] = NoLine
    /\ \E n \in DOMAIN up[fd] :
          /\ up' = [up EXCEPT ![fd] = SubSeq(@, n + 1, Len(@))]
          /\ \/ ServeLogin(fd, Understood(up[fd], n))
             \/ ServeRegister(fd, Understood(up[fd], n))
    /\ UNCHANGED <<down, app, lost, counters>>

\* A line is written; to a client that is gone it is lost.
WriteTo(fd, line) ==
    down' = IF PeerOf(fd) = {} THEN down ELSE [down EXCEPT ![fd] = Append(@, line)]

Reply(fd) ==
    /\ serving[fd] # NoLine
    /\ WriteTo(fd, serving[fd])
    /\ serving' = [serving EXCEPT ![fd] = NoLine]
    /\ UNCHANGED <<sessions, conn, acked, accounts, up, app, lost, counters>>

\* The handler of somebody else forwards a message to the user found on fd.
Push(fd) ==
    /\ pushes < MaxPushes
    /\ pushes' = pushes + 1
    /\ conn[fd] = "open" /\ SM!OfSocket(sessions, fd) # {}
    /\ WriteTo(fd, [NoLine EXCEPT !.what = "RECEIVE"])
    /\ UNCHANGED <<server, up, app, lost, requests, starts>>

\* recv tells that the client is gone, at the end of what it sent or before:
\* the requests not yet read may be lost.
Disconnect(fd) ==
    /\ serving[fd] = NoLine /\ PeerOf(fd) = {}
    /\ SM!Disconnect(fd)
    /\ up' = [up EXCEPT ![fd] = <<>>]
    /\ UNCHANGED <<accounts, down, serving, app, lost, counters>>

Close(fd) ==
    /\ SM!Close(fd)
    /\ UNCHANGED <<accounts, up, down, serving, app, lost, counters>>

LoginNext == \/ \E c \in Clients :
                   \/ \E fd \in Sockets : Start(c, fd)
                   \/ \E to \in {"LOGIN", "REGISTER"} : SwitchScreen(c, to)
                   \/ \E u \in Usernames, p \in Passwords : Press(c, u, p)
                   \/ Listen(c) \/ Poll(c) \/ TimeOut(c) \/ Quit(c)
             \/ \E fd \in Sockets :
                   \/ Serve(fd) \/ Reply(fd) \/ Push(fd) \/ Disconnect(fd) \/ Close(fd)

LoginSpec == LoginInit /\ [][LoginNext]_loginVars

-----------------------------------------------------------------------------
(***************************************************************************)
(* Properties                                                              *)
(***************************************************************************)
\* While the chat screen is open the server takes the client for the user it
\* believes to be, or for nobody, unless some request ended without the answer to
\* it: a timeout, or a pushed message found in the slot.
IdentityNeedsLostAnswer ==
    \A c \in Clients : app[c].screen = "CHAT" /\ ~lost =>
        SM!GetUser(sessions, app[c].fd) \in {app[c].current_user_id, NoUser}

\* The chat screen opens as a user only for somebody who typed, on the login screen
\* of this process, the password that was typed when that user was registered, however late the
\* answers come and whatever runs together.
ChatNeedsCredentials ==
    \A c \in Clients : app[c].screen = "CHAT" =>
        LET u == app[c].current_user_id
        IN  u \in Usernames /\ accounts[u] # <<>> /\ <<u, Head(accounts[u])>> \in app[c].typed

=============================================================================
