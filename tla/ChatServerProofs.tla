-------------------------- MODULE ChatServerProofs ---------------------------
(***************************************************************************)
(* Proofs about messages to users and to rooms, for every number of        *)
(* clients, rooms and messages.                                            *)
(*                                                                         *)
(* A handler looks its client up once and works with a pointer into the    *)
(* table while others change it.  The argument says what stays true of     *)
(* that pointer, of the target of a message and of the receivers still to  *)
(* be visited, as long as no session was removed or moved meanwhile, and   *)
(* it follows each message by its identifier.                              *)
(***************************************************************************)
EXTENDS ChatServer, TLAPS

\* What is proved of the session table.
Table == INSTANCE SessionManagerProofs

-----------------------------------------------------------------------------
(***************************************************************************)
(* The session table                                                       *)
(***************************************************************************)

\* The handlers use the table as SessionManager has it.
LEMMA TableStep == [Next]_vars => [Table!Next]_(Table!vars)
<1> SUFFICES ASSUME [Next]_vars PROVE [Table!Next]_(Table!vars)
  OBVIOUS
<1>1. CASE UNCHANGED vars
  BY <1>1 DEF vars, Table!vars
<1>2. ASSUME NEW fd \in Sockets, Accept(fd) \/ Disconnect(fd) \/ Close(fd)
      PROVE  Table!Next
  BY <1>2 DEF Accept, Disconnect, Close, SM!Accept, SM!Disconnect, SM!Close,
     Table!Next, Table!Accept, Table!Disconnect, Table!Close,
     SM!RemoveBySocket, SM!OfSocket, SM!First,
     Table!RemoveBySocket, Table!OfSocket, Table!First
<1>3. ASSUME NEW fd \in Sockets, NEW u \in Users, Login(u, fd)
      PROVE  Table!Next
  BY <1>3 DEF Login, SM!Login, Table!Next, Table!Login,
     SM!Add, SM!OfSocket, SM!OfUser, SM!First, SM!NewSession,
     Table!Add, Table!OfSocket, Table!OfUser, Table!First, Table!NewSession
<1>4. ASSUME NEW fd \in Sockets,
             \/ ClientCloses(fd) \/ Step(fd)
             \/ \E kind, u : Receive(fd, kind, u)
      PROVE  UNCHANGED Table!vars
  BY <1>4 DEF ClientCloses, Receive, Step, ReadSender, Save, SaveFails, SaveUnderKeyZero,
     ReadMembers, NextReceiver, FindSocket, Forward, Respond, Table!vars
<1> QED
  BY <1>1, <1>2, <1>3, <1>4 DEF Next

\* The table has the types of SessionManager, and no user has two entries.
TableTyped ==
    /\ sessions \in Seq(SM!UserSession)
    /\ conn \in [Sockets -> {"closed", "open", "removed"}]
    /\ acked \in [Sockets -> Users \cup {NoUser}]
    /\ switched \subseteq Sockets
    /\ \A i, j \in DOMAIN sessions : sessions[i].userId = sessions[j].userId => i = j

\* What the table says of the connections: unless a client has switched accounts on
\* its descriptor, an entry is of an open connection that was told that its user is
\* logged in.
OwnEntries ==
    \A i \in DOMAIN sessions :
       sessions[i].socket_fd \notin switched => /\ conn[sessions[i].socket_fd] = "open"
                                               /\ acked[sessions[i].socket_fd] = sessions[i].userId

TableOK == TableTyped /\ OwnEntries

\* A step keeps the switched descriptors among the descriptors.
SwitchedTyped == switched \subseteq Sockets
LEMMA SwitchedStep == SwitchedTyped /\ [Next]_vars => SwitchedTyped'
<1> SUFFICES ASSUME switched \subseteq Sockets, [Next]_vars
             PROVE  switched' \subseteq Sockets
  BY DEF SwitchedTyped
<1>1. ASSUME NEW fd \in Sockets, NEW u \in Users, Login(u, fd)
      PROVE  switched' \subseteq Sockets
  BY <1>1 DEF Login
<1>2. ASSUME NEW fd \in Sockets, Disconnect(fd)
      PROVE  switched' \subseteq Sockets
  BY <1>2 DEF Disconnect
<1>3. ASSUME NEW fd \in Sockets,
             \/ Accept(fd) \/ ClientCloses(fd) \/ Close(fd) \/ Step(fd)
             \/ \E kind, u : Receive(fd, kind, u)
      PROVE  UNCHANGED switched
  BY <1>3 DEF Accept, ClientCloses, Close, Receive, Step, ReadSender, Save, SaveFails,
     SaveUnderKeyZero, ReadMembers, NextReceiver, FindSocket, Forward, Respond
<1> QED
  BY <1>1, <1>2, <1>3 DEF Next, vars

\* The table is that of SessionManager, with its invariant.
LEMMA AlwaysTableTyped == Spec => []TableTyped
<1>1. Table!SessionAssumption
  BY ChatAssumption DEF Table!SessionAssumption
<1>2. Spec => Table!Spec
  <2>1. Init => Table!Init
    BY DEF Init, SM!Init, Table!Init
  <2> QED
    BY <2>1, TableStep, PTL DEF Spec, Table!Spec
<1>3. Table!Spec => []Table!IInv
  BY <1>1, Table!Inductive
<1>4. Spec => []SwitchedTyped
  <2>1. Init => SwitchedTyped
    BY DEF Init, SwitchedTyped
  <2> QED
    BY <2>1, SwitchedStep, PTL DEF Spec
<1>5. Table!IInv /\ SwitchedTyped => TableTyped
  BY DEF Table!IInv, Table!TypeOK, Table!UserSession, Table!Distinct, TableTyped,
         SwitchedTyped,         SM!UserSession
<1> QED
  BY <1>2, <1>3, <1>4, <1>5, PTL

\* The operations have the facts that SessionManagerProofs proves of them.
LEMMA SameTable ==
    /\ Table!SessionAssumption
    /\ SM!UserSession = Table!UserSession
    /\ \A s, u, fd : SM!Add(s, u, fd) = Table!Add(s, u, fd)
    /\ \A s, fd : SM!RemoveBySocket(s, fd) = Table!RemoveBySocket(s, fd)
    /\ \A s, u : SM!OfUser(s, u) = Table!OfUser(s, u)
    /\ \A s, fd : SM!OfSocket(s, fd) = Table!OfSocket(s, fd)
<1>1. Table!SessionAssumption
  BY ChatAssumption DEF Table!SessionAssumption
<1> QED
  BY <1>1 DEF SM!UserSession, Table!UserSession, SM!Add, Table!Add,
     SM!RemoveBySocket, Table!RemoveBySocket, SM!OfUser, Table!OfUser,
     SM!OfSocket, Table!OfSocket, SM!First, Table!First, SM!NewSession, Table!NewSession

\* What a login does to the entries: it changes no user, and an entry that it moves,
\* or adds, comes to the socket of the login.
LEMMA EntriesAfterLogin ==
    ASSUME TableTyped, TableTyped', NEW fd \in Sockets, NEW u \in Users, Login(u, fd)
    PROVE  /\ \A i \in DOMAIN sessions : /\ i \in DOMAIN sessions'
                                         /\ sessions'[i].userId = sessions[i].userId
                                         /\ \/ sessions'[i] = sessions[i]
                                            \/ /\ sessions'[i].socket_fd = fd
                                               /\ \/ sessions[i].userId = u
                                                  \/ sessions[i].socket_fd = fd
           /\ \A i \in DOMAIN sessions' \ DOMAIN sessions :
                 sessions'[i].userId = u /\ sessions'[i].socket_fd = fd
<1>0. PICK old, new : old = sessions /\ new = sessions'
  OBVIOUS
<1>1. /\ old \in Seq(Table!UserSession) /\ new \in Seq(Table!UserSession)
      /\ new = Table!Add(old, u, fd)
  BY <1>0, SameTable DEF TableTyped, Login, SM!Login
<1> DEFINE Fate(i) == /\ i \in DOMAIN new
                      /\ new[i].userId = old[i].userId
                      /\ \/ new[i] = old[i]
                         \/ /\ new[i].socket_fd = fd
                            /\ old[i].userId = u \/ old[i].socket_fd = fd
           Added(i) == new[i].userId = u /\ new[i].socket_fd = fd
<1>2. (\A i \in DOMAIN old : Fate(i)) /\ (\A i \in DOMAIN new \ DOMAIN old : Added(i))
  <2>1. CASE ~(Len(old) < MaxSessions)
    BY <1>1, <2>1, SameTable, Table!FullFacts
  <2>2. CASE /\ Len(old) < MaxSessions
             /\ Table!OfUser(old, u) \cup Table!OfSocket(old, fd) # {}
    <3>1. PICK k \in DOMAIN old :
             /\ old[k].userId = u \/ old[k].socket_fd = fd
             /\ Len(new) = Len(old)
             /\ \A i \in DOMAIN old : new[i].userId = old[i].userId
             /\ \A i \in DOMAIN old \ {k} : new[i] = old[i]
             /\ new[k].socket_fd = fd
      BY <1>1, <2>2, SameTable, Table!UpdateFacts
    <3>2. DOMAIN new = DOMAIN old
      BY <1>1, <3>1
    <3> QED
      BY <3>1, <3>2
  <2>3. CASE /\ Len(old) < MaxSessions
             /\ Table!OfUser(old, u) \cup Table!OfSocket(old, fd) = {}
    <3>1. /\ Len(new) = Len(old) + 1
          /\ \A i \in DOMAIN old : new[i] = old[i]
          /\ new[Len(old) + 1].userId = u
          /\ new[Len(old) + 1].socket_fd = fd
      BY <1>1, <2>3, SameTable, Table!AppendFacts
    <3>2. DOMAIN new = DOMAIN old \cup {Len(old) + 1}
      BY <1>1, <3>1
    <3> QED
      BY <3>1, <3>2
  <2> QED
    BY <2>1, <2>2, <2>3
<1> QED
  BY <1>0, <1>2

\* What the end of a connection does to the entries: those that are left were there
\* before, and if one of this socket was there, one of this socket has gone.
LEMMA EntriesAfterDisconnect ==
    ASSUME TableTyped, NEW fd \in Sockets, SM!Disconnect(fd)
    PROVE  \/ sessions' = sessions /\ \A i \in DOMAIN sessions : sessions[i].socket_fd # fd
           \/ \E k \in DOMAIN sessions :
                 /\ sessions[k].socket_fd = fd
                 /\ \A i \in DOMAIN sessions' :
                       \E j \in DOMAIN sessions \ {k} : sessions'[i] = sessions[j]
<1>0. PICK old, new : old = sessions /\ new = sessions'
  OBVIOUS
<1>1. old \in Seq(Table!UserSession) /\ new = Table!RemoveBySocket(old, fd)
  BY <1>0, SameTable DEF TableTyped, SM!Disconnect
<1>2. CASE Table!OfSocket(old, fd) = {}
  BY <1>0, <1>1, <1>2 DEF Table!RemoveBySocket, Table!OfSocket
<1>3. CASE Table!OfSocket(old, fd) # {}
  <2>1. PICK k \in DOMAIN old :
           /\ old[k].socket_fd = fd
           /\ new \in Seq(Table!UserSession)
           /\ Len(new) = Len(old) - 1
           /\ \A j \in 1..Len(old) - 1 : new[j] = old[IF j = k THEN Len(old) ELSE j]
    BY <1>1, <1>3, SameTable, Table!RemoveFacts
  <2>2. DOMAIN new = 1..Len(old) - 1 /\ DOMAIN old = 1..Len(old) /\ Len(old) \in Nat
    BY <1>1, <2>1
  <2>3. ASSUME NEW i \in DOMAIN new PROVE \E j \in DOMAIN old \ {k} : new[i] = old[j]
    <3>1. CASE i = k
      <4>1. Len(old) \in DOMAIN old \ {k} /\ new[i] = old[Len(old)]
        BY <2>1, <2>2, <2>3, <3>1
      <4> QED
        BY <4>1
    <3>2. CASE i # k
      <4>1. i \in DOMAIN old \ {k} /\ new[i] = old[i]
        BY <2>1, <2>2, <2>3, <3>2
      <4> QED
        BY <4>1
    <3> QED
      BY <3>1, <3>2
  <2> QED
    BY <1>0, <2>1, <2>3
<1> QED
  BY <1>2, <1>3

\* Any step keeps that an entry belongs to the connection on its descriptor, if no
\* client has switched accounts there.
LEMMA NextOwn == TableTyped /\ TableTyped' /\ OwnEntries /\ [Next]_vars => OwnEntries'
<1> SUFFICES ASSUME TableTyped, TableTyped', OwnEntries, [Next]_vars,
                    NEW i \in DOMAIN sessions', sessions'[i].socket_fd \notin switched'
             PROVE  /\ conn'[sessions'[i].socket_fd] = "open"
                    /\ acked'[sessions'[i].socket_fd] = sessions'[i].userId
  BY DEF OwnEntries
<1>1. /\ conn \in [Sockets -> {"closed", "open", "removed"}] /\ DOMAIN acked = Sockets
      /\ \A j \in DOMAIN sessions : sessions[j] \in SM!UserSession
      /\ \A j \in DOMAIN sessions : sessions[j].userId \in Users
      /\ \A j, k \in DOMAIN sessions : sessions[j].userId = sessions[k].userId => j = k
  <2>1. \A j \in DOMAIN sessions : sessions[j] \in SM!UserSession
    BY DEF TableTyped
  <2>2. \A j \in DOMAIN sessions : sessions[j].userId \in Users
    BY <2>1 DEF SM!UserSession
  <2> QED
    BY <2>1, <2>2 DEF TableTyped
<1>2. CASE UNCHANGED <<sessions, conn, acked, switched>>
  BY <1>2 DEF OwnEntries
<1>3. ASSUME NEW fd \in Sockets, Accept(fd) \/ Close(fd)
      PROVE  /\ conn'[sessions'[i].socket_fd] = "open"
             /\ acked'[sessions'[i].socket_fd] = sessions'[i].userId
  <2>1. /\ UNCHANGED <<sessions, acked, switched>> /\ conn[fd] # "open"
        /\ \A t \in Sockets \ {fd} : conn'[t] = conn[t]
    BY <1>1, <1>3 DEF Accept, Close, SM!Accept, SM!Close
  <2>2. sessions[i].socket_fd \in Sockets
    BY <1>1, <2>1 DEF SM!UserSession
  <2> QED
    BY <2>1, <2>2 DEF OwnEntries
<1>4. ASSUME NEW fd \in Sockets, NEW u \in Users, Login(u, fd)
      PROVE  /\ conn'[sessions'[i].socket_fd] = "open"
             /\ acked'[sessions'[i].socket_fd] = sessions'[i].userId
  <2>1. /\ UNCHANGED conn /\ conn[fd] = "open" /\ acked'[fd] = u
        /\ \A t \in Sockets \ {fd} : acked'[t] = acked[t]
        /\ switched \subseteq switched'
        /\ fd \notin switched' => acked[fd] \in {NoUser, u}
    BY <1>1, <1>4 DEF Login, SM!Login
  <2>2. CASE i \notin DOMAIN sessions
    <3>1. sessions'[i].userId = u /\ sessions'[i].socket_fd = fd
      BY <1>4, <2>2, EntriesAfterLogin
    <3> QED
      BY <2>1, <3>1
  <2>3. CASE i \in DOMAIN sessions
    <3>1. /\ sessions'[i].userId = sessions[i].userId
          /\ \/ sessions'[i] = sessions[i]
             \/ /\ sessions'[i].socket_fd = fd
                /\ sessions[i].userId = u \/ sessions[i].socket_fd = fd
      BY <1>4, <2>3, EntriesAfterLogin
    <3>2. CASE sessions'[i].socket_fd = fd
      <4>1. fd \notin switched /\ acked[fd] \in {NoUser, u}
        BY <2>1, <3>2
      <4>2. sessions[i].userId = u \/ sessions[i].socket_fd = fd
        BY <3>1, <3>2
      <4>3. sessions[i].userId = u
        BY <1>1, <2>3, <4>1, <4>2, ChatAssumption DEF OwnEntries
      <4> QED
        BY <2>1, <3>1, <3>2, <4>3
    <3>3. CASE sessions'[i].socket_fd # fd
      <4>1. sessions'[i] = sessions[i] /\ sessions[i].socket_fd \in Sockets \ {fd}
        BY <1>1, <2>3, <3>1, <3>3 DEF SM!UserSession
      <4> QED
        BY <2>1, <2>3, <4>1 DEF OwnEntries
    <3> QED
      BY <3>2, <3>3
  <2> QED
    BY <2>2, <2>3
<1>5. ASSUME NEW fd \in Sockets, Disconnect(fd)
      PROVE  /\ conn'[sessions'[i].socket_fd] = "open"
             /\ acked'[sessions'[i].socket_fd] = sessions'[i].userId
  <2>1. /\ \A t \in Sockets \ {fd} : conn'[t] = conn[t] /\ acked'[t] = acked[t]
        /\ SM!Disconnect(fd)
        /\ switched \ {fd} \subseteq switched'
        /\ SM!OfSocket(sessions', fd) # {} => switched' = switched
    BY <1>1, <1>5 DEF Disconnect, SM!Disconnect
  <2>2. PICK j \in DOMAIN sessions :
           /\ sessions'[i] = sessions[j]
           /\ sessions[j].socket_fd = fd =>
                 \E k \in DOMAIN sessions \ {j} : sessions[k].socket_fd = fd
    BY <2>1, EntriesAfterDisconnect
  <2>3. sessions[j].socket_fd # fd
    <3> SUFFICES ASSUME sessions[j].socket_fd = fd PROVE FALSE
      OBVIOUS
    <3>1. SM!OfSocket(sessions', fd) # {}
      BY <2>2 DEF SM!OfSocket
    <3>2. fd \notin switched
      BY <2>1, <2>2, <3>1
    <3>3. PICK k \in DOMAIN sessions \ {j} : sessions[k].socket_fd = fd
      BY <2>2
    <3>4. sessions[j].userId = acked[fd] /\ sessions[k].userId = acked[fd]
      BY <3>2, <3>3 DEF OwnEntries
    <3> QED
      BY <1>1, <3>3, <3>4
  <2>4. sessions[j].socket_fd \in Sockets \ {fd}
    BY <1>1, <2>3 DEF SM!UserSession
  <2> QED
    BY <2>1, <2>2, <2>4 DEF OwnEntries
<1>6. ASSUME NEW fd \in Sockets,
             \/ ClientCloses(fd) \/ Step(fd)
             \/ \E kind, u : Receive(fd, kind, u)
      PROVE  UNCHANGED <<sessions, conn, acked, switched>>
  BY <1>6 DEF ClientCloses, Receive, Step, ReadSender, Save, SaveFails,
     SaveUnderKeyZero, ReadMembers, NextReceiver, FindSocket, Forward, Respond
<1>7. UNCHANGED vars => UNCHANGED <<sessions, conn, acked, switched>>
  BY DEF vars
<1> QED
  BY <1>2, <1>3, <1>4, <1>5, <1>6, <1>7 DEF Next

\* An entry of a descriptor is of the client that is there, and of the account which
\* that client was last told it is logged in to, unless a client has switched accounts
\* on the descriptor: however many clients do so on others, and however often
\* descriptors are used again.
THEOREM EntriesTellTheTruth == Spec => []TableOK
<1>1. Init => OwnEntries
  BY DEF Init, SM!Init, OwnEntries
<1> QED
  BY <1>1, AlwaysTableTyped, NextOwn, PTL DEF Spec, TableOK

-----------------------------------------------------------------------------
(***************************************************************************)
(* Types                                                                   *)
(***************************************************************************)
HandlerState ==
    [pc : {"idle", "respond", "read", "save", "members", "next", "lookup", "forward"},
     id : Nat, kind : Kinds, to : Users \cup {NoUser},
     ptr : Nat, from : Users \cup {NoUser}, todo : SUBSET (Users \cup {NoUser}),
     target : Sockets \cup {NoSocket},
     reply : {"none", "success", "fail", "not_logged_in"},
     by : Users \cup {NoUser}, calm : BOOLEAN, fresh : BOOLEAN,
     listed : BOOLEAN, steady : SUBSET Users]

StoredMessage == [id : Nat, kind : Kinds, from : Users \cup {NoUser},
                  by : Users \cup {NoUser}, calm : BOOLEAN, keyed : BOOLEAN]

Line == [what : Kinds, id : Nat, from : Users \cup {NoUser}, by : Users \cup {NoUser},
         calm : BOOLEAN, to : Users \cup {NoUser}, reader : Users \cup {NoUser},
         fresh : BOOLEAN]
        \cup [what : {"none", "success", "fail", "not_logged_in"}, id : Nat]

Typed ==
    /\ gone \subseteq Sockets
    /\ sent \in Nat
    /\ handler \in [Sockets -> HandlerState]
    /\ \A fd \in Sockets : handler[fd].pc = "forward" => handler[fd].target \in Sockets
    /\ store \in Seq(StoredMessage)
    /\ inbox \in [Sockets -> Seq(Line)]

\* The line of a forward and the line of a reply.
Forwarded(fd) == LET me == handler[fd]
                 IN  [what |-> me.kind, id |-> me.id, from |-> CurrentUser(fd),
                      by |-> me.by, calm |-> me.calm, to |-> me.to,
                      reader |-> acked[me.target],
                      fresh |-> me.fresh /\ me.target \notin switched]
Reply(fd) == [what |-> handler[fd].reply, id |-> handler[fd].id]

\* A write adds its line to what was sent on the socket, or nothing; it does add
\* it when the client is there.
LEMMA WriteFacts ==
    ASSUME inbox \in [Sockets -> Seq(Line)], NEW s \in Sockets, NEW line \in Line,
           Write(s, line)
    PROVE  /\ inbox' \in [Sockets -> Seq(Line)]
           /\ \A f \in Sockets : /\ Lines(f)' \subseteq Lines(f) \cup {line}
                                 /\ Lines(f) \subseteq Lines(f)'
           /\ conn[s] = "open" /\ s \notin gone => line \in Lines(s)'
<1> HIDE DEF Line
<1>1. CASE UNCHANGED inbox /\ (conn[s] # "open" \/ s \in gone)
  BY <1>1 DEF Lines
<1>2. CASE conn[s] = "open" /\ s \notin gone /\ inbox' = [inbox EXCEPT ![s] = Append(@, line)]
  <2>1. PICK q \in Seq(Line) : q = inbox[s]
    OBVIOUS
  <2>2. /\ Append(q, line) \in Seq(Line)
        /\ DOMAIN Append(q, line) = DOMAIN q \cup {Len(q) + 1}
        /\ \A i \in DOMAIN q : Append(q, line)[i] = q[i]
        /\ Append(q, line)[Len(q) + 1] = line
    OBVIOUS
  <2>3. /\ inbox' \in [Sockets -> Seq(Line)]
        /\ inbox'[s] = Append(q, line)
        /\ \A f \in Sockets \ {s} : inbox'[f] = inbox[f]
    BY <1>2, <2>1, <2>2
  <2>4. Lines(s)' = Lines(s) \cup {line}
    BY <2>1, <2>2, <2>3 DEF Lines
  <2> QED
    BY <2>3, <2>4 DEF Lines
<1> QED
  BY <1>1, <1>2 DEF Write

\* The user a handler reads through its pointer is a user of the table, or none.
LEMMA CurrentUserTyped ==
    ASSUME TableOK, NEW fd
    PROVE  CurrentUser(fd) \in Users \cup {NoUser}
<1>1. \A i \in DOMAIN sessions : sessions[i] \in SM!UserSession
  BY DEF TableOK, TableTyped
<1> QED
  BY <1>1 DEF CurrentUser, SM!UserSession

\* The lookup of a session gives the place of an entry of the socket, or 0.
LEMMA SessionOfFacts ==
    ASSUME TableOK, NEW fd
    PROVE  \/ SessionOf(fd) = 0
           \/ SessionOf(fd) \in DOMAIN sessions /\ sessions[SessionOf(fd)].socket_fd = fd
<1>0. Table!SessionAssumption
  BY ChatAssumption DEF Table!SessionAssumption
<1>1. SM!OfSocket(sessions, fd) \in SUBSET Nat
  BY DEF TableOK, TableTyped, SM!OfSocket
<1>2. CASE SM!OfSocket(sessions, fd) # {}
  <2>1. SM!First(SM!OfSocket(sessions, fd)) \in SM!OfSocket(sessions, fd)
    BY <1>0, <1>1, <1>2, Table!FirstIsLeast DEF SM!First, Table!First
  <2> QED
    BY <2>1, <1>2 DEF SessionOf, SM!OfSocket
<1> QED
  BY <1>2 DEF SessionOf

\* The lookup of a user gives the socket of the user's entry, or NoSocket.
LEMMA LookupFacts ==
    ASSUME NEW s \in Seq(SM!UserSession),
           \A i, j \in DOMAIN s : s[i].userId = s[j].userId => i = j,
           NEW u
    PROVE  /\ \A i \in DOMAIN s : s[i].userId = u => SM!GetSocket(s, u) = s[i].socket_fd
           /\ \/ SM!GetSocket(s, u) = NoSocket
              \/ \E i \in DOMAIN s : /\ s[i].userId = u
                                     /\ s[i].socket_fd = SM!GetSocket(s, u)
           /\ SM!GetSocket(s, u) \in Sockets \cup {NoSocket}
<1>1. s \in Seq(Table!UserSession) /\ Table!Distinct(s)
  BY DEF SM!UserSession, Table!UserSession, Table!Distinct
<1>2. Table!SessionAssumption
  BY ChatAssumption DEF Table!SessionAssumption
<1>3. SM!GetSocket(s, u) = Table!GetSocket(s, u)
  BY DEF SM!GetSocket, Table!GetSocket, SM!OfUser, Table!OfUser, SM!First, Table!First
<1>4. /\ \A i \in DOMAIN s : s[i].userId = u => SM!GetSocket(s, u) = s[i].socket_fd
      /\ \/ SM!GetSocket(s, u) = NoSocket
         \/ \E i \in DOMAIN s : /\ s[i].userId = u
                                /\ s[i].socket_fd = SM!GetSocket(s, u)
  BY <1>1, <1>2, <1>3, Table!GetSocketFacts
<1>5. \A i \in DOMAIN s : s[i] \in SM!UserSession
  OBVIOUS
<1> QED
  BY <1>4, <1>5 DEF SM!UserSession

\* So it does in the table.
LEMMA SocketFacts ==
    ASSUME TableOK, NEW u
    PROVE  /\ \A i \in DOMAIN sessions :
                 sessions[i].userId = u => SM!GetSocket(sessions, u) = sessions[i].socket_fd
           /\ \/ SM!GetSocket(sessions, u) = NoSocket
              \/ \E i \in DOMAIN sessions : /\ sessions[i].userId = u
                                            /\ sessions[i].socket_fd = SM!GetSocket(sessions, u)
           /\ SM!GetSocket(sessions, u) \in Sockets \cup {NoSocket}
BY LookupFacts DEF TableOK, TableTyped

-----------------------------------------------------------------------------
(***************************************************************************)
(* The invariants                                                          *)
(***************************************************************************)
Working(h) == h.pc \in {"read", "save", "members", "next", "lookup", "forward"}
Forwarding(h) == h.pc \in {"members", "next", "lookup", "forward"}

\* As long as no session is removed the pointer of a handler stays on the entry
\* of the client it serves.
PointerOfClient ==
    \A fd \in Sockets :
       LET me == handler[fd]
       IN  /\ Working(me) /\ me.calm => /\ me.ptr \in DOMAIN sessions
                                        /\ sessions[me.ptr].userId = me.by
           /\ me.pc = "save" /\ me.calm => me.from = me.by

\* A socket that a handler has looked up is its receiver's until the receiver's
\* connection ends.
TargetOfReceiver ==
    \A fd \in Sockets :
       LET me == handler[fd]
       IN  me.pc = "forward" /\ me.fresh /\ me.target \notin switched =>
              \/ conn[me.target] = "removed"
              \/ /\ conn[me.target] = "open"
                 /\ acked[me.target] = me.to
                 /\ me.to \in Users

\* A receiver who stays on line is in front of the loop, in its body, or served.
Awaited(h) == IF h.kind = "dm" THEN {h.to} ELSE Members \ {h.by}
SocketOf(u) == SM!GetSocket(sessions, u)
Served(id, u) == \E l \in Forwards(SocketOf(u)) : l.id = id /\ l.to = u

Live(s) == s \in Sockets \ gone /\ conn[s] = "open"

Kept(h) ==
    Forwarding(h) =>
       /\ h.pc = "members" => h.kind = "group"
       /\ \A u \in h.steady : Live(SocketOf(u))
       /\ h.kind = "dm" => h.todo \subseteq {h.to}
       /\ h.pc = "forward" /\ h.to \in h.steady => h.target = SocketOf(h.to)
       /\ h.kind = "dm" \/ (h.calm /\ h.listed) =>
             \A u \in h.steady \cap Awaited(h) : \/ h.pc = "members" \/ u \in h.todo
                                                 \/ h.pc \in {"lookup", "forward"} /\ h.to = u
                                                 \/ Served(h.id, u)

NobodySkipped == \A fd \in Sockets : Kept(handler[fd])

-----------------------------------------------------------------------------
(***************************************************************************)
(* Type correctness                                                        *)
(***************************************************************************)

\* Nobody is served, stored or written to before the first connection.
LEMMA InitTyped == Init => Typed
BY DEF Init, Typed, HandlerState, Idle, Kinds

\* What the two kinds of lines are made of.
LEMMA LinesTyped ==
    ASSUME TableOK, Typed, NEW fd \in Sockets
    PROVE  /\ handler[fd].pc = "forward" => Forwarded(fd) \in Line
           /\ Reply(fd) \in Line
<1>1. handler[fd] \in HandlerState
  BY DEF Typed
<1>2. CurrentUser(fd) \in Users \cup {NoUser}
  BY CurrentUserTyped
<1>3. handler[fd].pc = "forward" => acked[handler[fd].target] \in Users \cup {NoUser}
  BY DEF Typed, TableOK, TableTyped
<1>4. handler[fd].pc = "forward" => Forwarded(fd) \in Line
  BY <1>1, <1>2, <1>3 DEF HandlerState, Forwarded, Line
<1>5. Reply(fd) \in Line
  BY <1>1 DEF HandlerState, Reply, Line
<1> QED
  BY <1>4, <1>5

\* Every handler is in one of its states after a step as before it.
LEMMA HandlersTyped ==
    ASSUME TableOK, Typed, [Next]_vars
    PROVE  /\ handler' \in [Sockets -> HandlerState]
           /\ \A fd \in Sockets : handler'[fd].pc = "forward" => handler'[fd].target \in Sockets
<1> DEFINE Good(h) == h \in HandlerState /\ (h.pc = "forward" => h.target \in Sockets)
<1>1. \A fd \in Sockets : Good(handler[fd])
  BY DEF Typed
<1>2. handler \in [Sockets -> HandlerState]
  BY DEF Typed
<1> DEFINE AllGood(f) == f \in [Sockets -> HandlerState] /\ \A g \in Sockets : Good(f[g])
<1> SUFFICES AllGood(handler')
  OBVIOUS
<1>3. CASE UNCHANGED handler
  BY <1>1, <1>3 DEF Typed
<1>4. ASSUME NEW fd \in Sockets, NEW u \in Users, Login(u, fd)
      PROVE  AllGood(handler')
  BY <1>1, <1>4 DEF Login, HandlerState
<1>5. ASSUME NEW fd \in Sockets, ClientCloses(fd) \/ Disconnect(fd) \/ Close(fd)
      PROVE  AllGood(handler')
  <2> DEFINE out(g) == [handler[g] EXCEPT !.steady = @ \ OnlineAt(fd)]
             moved(g) == IF Busy(g) /\ sessions' # sessions
                         THEN [handler[g] EXCEPT !.calm = FALSE] ELSE handler[g]
             stale(g) == IF handler[g].target = fd
                         THEN [handler[g] EXCEPT !.fresh = FALSE] ELSE handler[g]
  <2>1. ASSUME NEW m \in HandlerState, Good(m), NEW U
        PROVE  /\ Good([m EXCEPT !.steady = @ \ U])
               /\ Good([m EXCEPT !.calm = FALSE])
               /\ Good([m EXCEPT !.fresh = FALSE])
    <3>1. Good([m EXCEPT !.steady = @ \ U])
      BY <2>1 DEF HandlerState
    <3>2. Good([m EXCEPT !.calm = FALSE])
      BY <2>1 DEF HandlerState
    <3>3. Good([m EXCEPT !.fresh = FALSE])
      BY <2>1 DEF HandlerState
    <3> QED
      BY <3>1, <3>2, <3>3
  <2>3. \A g \in Sockets : Good(out(g)) /\ Good(moved(g)) /\ Good(stale(g))
    <3> HIDE DEF Good
    <3> TAKE g \in Sockets
    <3>1. handler[g] \in HandlerState /\ Good(handler[g])
      BY <1>1 DEF Good
    <3> QED
      BY <2>1, <3>1
  <2>2. \/ handler' = [g \in Sockets |-> out(g)]
        \/ handler' = [g \in Sockets |-> moved(g)]
        \/ handler' = [g \in Sockets |-> stale(g)]
    BY <1>5 DEF ClientCloses, Disconnect, Close
  <2> HIDE DEF out, moved, stale
  <2> QED
    BY <2>3, <2>2
<1>6. ASSUME NEW fd \in Sockets, NEW h, Good(h), handler' = [handler EXCEPT ![fd] = h]
      PROVE  AllGood(handler')
  BY <1>1, <1>6 DEF Typed
<1>7. ASSUME NEW fd \in Sockets, NEW kind \in Kinds, NEW to \in Users \cup {NoUser},
             Receive(fd, kind, to)
      PROVE  \E h : Good(h) /\ handler' = [handler EXCEPT ![fd] = h]
  <2>1. SessionOf(fd) \in Nat
    BY SessionOfFacts DEF TableOK, TableTyped
  <2>2. acked[fd] \in Users \cup {NoUser} /\ sent' \in Nat
    BY <1>7 DEF TableOK, TableTyped, Typed, Receive
  <2> DEFINE h == [Idle EXCEPT !.pc = IF SessionOf(fd) = 0 THEN "respond" ELSE "read",
                       !.reply = IF SessionOf(fd) = 0 THEN "not_logged_in" ELSE "none",
                       !.id = sent', !.kind = kind, !.to = to,
                       !.ptr = SessionOf(fd), !.by = acked[fd],
                       !.calm = fd \notin switched]
  <2>3. Good(h)
    BY <2>1, <2>2 DEF Idle, HandlerState, Kinds
  <2>4. handler' = [handler EXCEPT ![fd] = h]
    BY <1>7 DEF Receive
  <2> QED
    BY <2>3, <2>4
<1>8. ASSUME NEW fd \in Sockets, Step(fd)
      PROVE  \E h : Good(h) /\ handler' = [handler EXCEPT ![fd] = h]
  <2> DEFINE me == handler[fd]
  <2>1. me \in HandlerState /\ Good(me)
    BY <1>1
  <2>2. CurrentUser(fd) \in Users \cup {NoUser}
    BY CurrentUserTyped
  <2>3. CASE ReadSender(fd)
    <3>1. Good([me EXCEPT !.pc = "save", !.from = CurrentUser(fd)])
      BY <2>1, <2>2 DEF HandlerState
    <3> QED
      BY <3>1, <2>3 DEF ReadSender
  <2>4. CASE Save(fd)
    <3>1. {me.to} \ {NoUser} \subseteq Users \cup {NoUser} /\ Reachable \subseteq Users
      BY <2>1 DEF Reachable, HandlerState
    <3>2. \A p \in {"next", "members"} :
             Good([me EXCEPT !.pc = p, !.reply = "success", !.todo = {me.to} \ {NoUser},
                             !.steady = Reachable])
      BY <2>1, <3>1 DEF HandlerState
    <3>3. PICK p \in {"next", "members"} : p = IF me.kind = "dm" THEN "next" ELSE "members"
      OBVIOUS
    <3>4. handler' = [handler EXCEPT ![fd] =
             [me EXCEPT !.pc = p, !.reply = "success", !.todo = {me.to} \ {NoUser},
                        !.steady = Reachable]]
      BY <2>4, <3>3 DEF Save
    <3> QED
      BY <3>2, <3>4
  <2>5. CASE SaveFails(fd)
    <3>1. Good([me EXCEPT !.pc = "respond", !.reply = "fail"])
      BY <2>1 DEF HandlerState
    <3> QED
      BY <3>1, <2>5 DEF SaveFails
  <2>10. CASE SaveUnderKeyZero(fd)
    <3>1. Good([me EXCEPT !.pc = "respond", !.reply = "fail"])
      BY <2>1 DEF HandlerState
    <3> QED
      BY <3>1, <2>10 DEF SaveUnderKeyZero
  <2>11. CASE ReadMembers(fd)
    <3>1. PICK listed \in BOOLEAN :
             handler' = [handler EXCEPT ![fd] =
                [me EXCEPT !.pc = "next", !.listed = listed,
                           !.todo = IF listed THEN Members ELSE {}]]
      BY <2>11 DEF ReadMembers
    <3>2. Good([me EXCEPT !.pc = "next", !.listed = listed,
                          !.todo = IF listed THEN Members ELSE {}])
      BY <2>1, ChatAssumption DEF HandlerState
    <3> QED
      BY <3>1, <3>2
  <2>6. ASSUME NEW u \in Users, NextReceiver(fd, u)
        PROVE  \E h : Good(h) /\ handler' = [handler EXCEPT ![fd] = h]
    <3>1. /\ Good([me EXCEPT !.todo = @ \ {u}])
          /\ Good([me EXCEPT !.pc = "lookup", !.to = u, !.todo = @ \ {u}])
      BY <2>1 DEF HandlerState
    <3> QED
      BY <3>1, <2>6 DEF NextReceiver
  <2>7. CASE FindSocket(fd)
    <3>1. SM!GetSocket(sessions, me.to) \in Sockets \cup {NoSocket}
      BY SocketFacts
    <3>2. /\ Good([me EXCEPT !.pc = "next"])
          /\ SM!GetSocket(sessions, me.to) # NoSocket =>
               Good([me EXCEPT !.pc = "forward",
                               !.target = SM!GetSocket(sessions, me.to), !.fresh = TRUE])
      BY <2>1, <3>1 DEF HandlerState
    <3> QED
      BY <3>2, <2>7 DEF FindSocket
  <2>8. CASE Forward(fd)
    <3>1. Good([me EXCEPT !.pc = "next", !.target = NoSocket])
      BY <2>1 DEF HandlerState
    <3> QED
      BY <3>1, <2>8 DEF Forward
  <2>9. CASE Respond(fd)
    <3>1. Good(Idle)
      BY DEF Idle, HandlerState, Kinds
    <3> QED
      BY <3>1, <2>9 DEF Respond
  <2> QED
    BY <1>8, <2>3, <2>4, <2>5, <2>6, <2>7, <2>8, <2>9, <2>10, <2>11 DEF Step
<1>9. ASSUME NEW fd \in Sockets, Accept(fd)
      PROVE  UNCHANGED handler
  BY <1>9 DEF Accept
<1>10. UNCHANGED vars => UNCHANGED handler
  BY DEF vars
<1>11. "dm" \in Kinds /\ "group" \in Kinds /\ Users \subseteq Users \cup {NoUser}
       /\ NoUser \in Users \cup {NoUser}
  BY DEF Kinds
<1> HIDE DEF Good
<1> QED
  BY <1>3, <1>4, <1>5, <1>6, <1>7, <1>8, <1>9, <1>10, <1>11 DEF Next

\* Any step keeps the types.
LEMMA NextTyped == TableOK /\ Typed /\ [Next]_vars => Typed'
<1> SUFFICES ASSUME TableOK, Typed, [Next]_vars PROVE Typed'
  OBVIOUS
<1>1. /\ handler' \in [Sockets -> HandlerState]
      /\ \A fd \in Sockets : handler'[fd].pc = "forward" => handler'[fd].target \in Sockets
  BY HandlersTyped
<1> SUFFICES /\ gone' \subseteq Sockets
             /\ sent' \in Nat
             /\ store' \in Seq(StoredMessage)
             /\ inbox' \in [Sockets -> Seq(Line)]
  BY <1>1 DEF Typed
<1>2. /\ gone \subseteq Sockets
      /\ sent \in Nat
      /\ store \in Seq(StoredMessage)
      /\ inbox \in [Sockets -> Seq(Line)]
  BY DEF Typed
<1>3. CASE UNCHANGED vars
  BY <1>2, <1>3 DEF vars
<1>4. ASSUME NEW fd \in Sockets, Accept(fd)
      PROVE  /\ UNCHANGED <<gone, sent, store>>
             /\ inbox' \in [Sockets -> Seq(Line)]
  <2>1. <<>> \in Seq(Line)
    OBVIOUS
  <2> QED
    BY <1>2, <1>4, <2>1 DEF Accept
<1>5. ASSUME NEW fd \in Sockets, ClientCloses(fd) \/ Disconnect(fd) \/ Close(fd)
      PROVE  UNCHANGED <<sent, store, inbox>> /\ gone' \subseteq Sockets
  BY <1>2, <1>5 DEF ClientCloses, Disconnect, Close
<1>6. ASSUME NEW fd \in Sockets,
             (\E u \in Users : Login(u, fd)) \/ \E kind, to : Receive(fd, kind, to)
      PROVE  UNCHANGED <<gone, store, inbox>> /\ sent' \in Nat
  <2>1. ASSUME NEW u, Login(u, fd)
        PROVE  UNCHANGED <<gone, store, inbox, sent>>
    BY <2>1 DEF Login
  <2>2. ASSUME NEW kind, NEW to, Receive(fd, kind, to)
        PROVE  UNCHANGED <<gone, store, inbox>> /\ sent' = sent + 1
    BY <2>2 DEF Receive
  <2> QED
    BY <1>2, <1>6, <2>1, <2>2
<1>7. ASSUME NEW fd \in Sockets, Save(fd) \/ SaveUnderKeyZero(fd)
      PROVE  UNCHANGED <<gone, sent, inbox>> /\ store' \in Seq(StoredMessage)
  <2>1. handler[fd] \in HandlerState
    BY DEF Typed
  <2>2. \A keyed \in BOOLEAN : Record(handler[fd], keyed) \in StoredMessage
    BY <2>1 DEF HandlerState, StoredMessage, Record
  <2>3. PICK keyed \in BOOLEAN : store' = Append(store, Record(handler[fd], keyed))
    BY <1>7 DEF Save, SaveUnderKeyZero
  <2>4. store' \in Seq(StoredMessage)
    BY <1>2, <2>2, <2>3
  <2> QED
    BY <1>7, <2>4 DEF Save, SaveUnderKeyZero
<1>8. ASSUME NEW fd \in Sockets,
             \/ ReadSender(fd) \/ SaveFails(fd) \/ ReadMembers(fd) \/ FindSocket(fd)
             \/ \E u \in Users : NextReceiver(fd, u)
      PROVE  UNCHANGED <<gone, sent, store, inbox>>
  BY <1>8 DEF ReadSender, SaveFails, ReadMembers, FindSocket, NextReceiver
<1>9. ASSUME NEW fd \in Sockets, Forward(fd)
      PROVE  UNCHANGED <<gone, sent, store>> /\ inbox' \in [Sockets -> Seq(Line)]
  <2>1. handler[fd].target \in Sockets /\ Forwarded(fd) \in Line
    BY <1>9, LinesTyped DEF Forward, Typed
  <2>2. Write(handler[fd].target, Forwarded(fd))
    BY <1>9 DEF Forward, Forwarded
  <2> QED
    BY <1>2, <1>9, <2>1, <2>2, WriteFacts DEF Forward
<1>10. ASSUME NEW fd \in Sockets, Respond(fd)
       PROVE  UNCHANGED <<gone, sent, store>> /\ inbox' \in [Sockets -> Seq(Line)]
  <2>1. Reply(fd) \in Line
    BY LinesTyped
  <2>2. Write(fd, Reply(fd))
    BY <1>10 DEF Respond, Reply
  <2> QED
    BY <1>2, <1>10, <2>1, <2>2, WriteFacts DEF Respond
<1> QED
  BY <1>2, <1>3, <1>4, <1>5, <1>6, <1>7, <1>8, <1>9, <1>10 DEF Next, Step

\* The handlers, the records and the lines are what the model takes them for, in
\* every reachable state.
THEOREM TypeCorrect == Spec => [](TableOK /\ Typed)
BY EntriesTellTheTruth, InitTyped, NextTyped, PTL DEF Spec

-----------------------------------------------------------------------------
(***************************************************************************)
(* What the other handlers can do to the table                             *)
(***************************************************************************)

\* A login leaves every entry its user, and moves no other user: if the entry that it
\* finds is one of its socket it stays there.
LEMMA LoginFacts ==
    ASSUME TableOK, TableOK', NEW fd \in Sockets, NEW u \in Users, Login(u, fd)
    PROVE  /\ \A i \in DOMAIN sessions : /\ i \in DOMAIN sessions'
                                         /\ sessions'[i].userId = sessions[i].userId
           /\ \A v \in Users \ {u} :
                 SM!GetSocket(sessions, v)' = SM!GetSocket(sessions, v)
<1>0. PICK new : new = sessions'
  OBVIOUS
<1>3. /\ \A i \in DOMAIN sessions : /\ i \in DOMAIN new
                                    /\ new[i].userId = sessions[i].userId
                                    /\ sessions[i].userId # u =>
                                         new[i].socket_fd = sessions[i].socket_fd
      /\ \A i \in DOMAIN new : i \in DOMAIN sessions \/ new[i].userId = u
  BY <1>0, EntriesAfterLogin DEF TableOK
<1>4. ASSUME NEW v \in Users \ {u}
      PROVE  SM!GetSocket(new, v) = SM!GetSocket(sessions, v)
  <2>1. /\ \A i \in DOMAIN sessions :
             sessions[i].userId = v => SM!GetSocket(sessions, v) = sessions[i].socket_fd
        /\ \A i \in DOMAIN new :
             new[i].userId = v => SM!GetSocket(new, v) = new[i].socket_fd
    <3>1. /\ sessions \in Seq(SM!UserSession) /\ new \in Seq(SM!UserSession)
          /\ \A i, j \in DOMAIN sessions : sessions[i].userId = sessions[j].userId => i = j
          /\ \A i, j \in DOMAIN new : new[i].userId = new[j].userId => i = j
      BY <1>0 DEF TableOK, TableTyped
    <3> QED
      BY <3>1, LookupFacts
  <2>2. CASE \E i \in DOMAIN sessions : sessions[i].userId = v
    <3>1. PICK i \in DOMAIN sessions : sessions[i].userId = v
      BY <2>2
    <3>2. i \in DOMAIN new /\ new[i].userId = v /\ new[i].socket_fd = sessions[i].socket_fd
      BY <1>3, <3>1
    <3> QED
      BY <2>1, <3>1, <3>2
  <2>3. CASE \A i \in DOMAIN sessions : sessions[i].userId # v
    <3>1. SM!OfUser(sessions, v) = {} /\ SM!OfUser(new, v) = {}
      BY <1>3, <2>3 DEF SM!OfUser
    <3> QED
      BY <3>1 DEF SM!GetSocket
  <2> QED
    BY <2>2, <2>3
<1>5. \A i \in DOMAIN sessions : /\ i \in DOMAIN sessions'
                                 /\ sessions'[i].userId = sessions[i].userId
  BY <1>0, <1>3
<1>6. ASSUME NEW v \in Users \ {u}
      PROVE  SM!GetSocket(sessions, v)' = SM!GetSocket(sessions, v)
  <2>1. SM!GetSocket(new, v) = SM!GetSocket(sessions, v)
    BY <1>4
  <2> QED
    BY <1>0, <2>1 DEF SM!GetSocket, SM!OfUser, SM!First
<1> QED
  BY <1>5, <1>6

\* The end of a connection takes nobody off line who is not on its socket.
LEMMA DisconnectFacts ==
    ASSUME TableOK, TableOK', NEW fd \in Sockets, SM!Disconnect(fd),
           NEW v, SM!GetSocket(sessions, v) \in Sockets \ {fd}
    PROVE  SM!GetSocket(sessions, v)' = SM!GetSocket(sessions, v)
<1>0. PICK new : new = sessions'
  OBVIOUS
<1>1. /\ sessions \in Seq(Table!UserSession)
      /\ new = Table!RemoveBySocket(sessions, fd)
  BY <1>0, SameTable DEF TableOK, TableTyped, SM!Disconnect
<1>2. PICK i \in DOMAIN sessions : /\ sessions[i].userId = v
                                   /\ sessions[i].socket_fd = SM!GetSocket(sessions, v)
  BY SocketFacts, ChatAssumption
<1>3. \E j \in DOMAIN new : new[j] = sessions[i]
  <2>1. CASE Table!OfSocket(sessions, fd) = {}
    BY <1>1, <2>1 DEF Table!RemoveBySocket
  <2>2. CASE Table!OfSocket(sessions, fd) # {}
    <3>1. PICK k \in DOMAIN sessions :
             /\ sessions[k].socket_fd = fd
             /\ new \in Seq(Table!UserSession)
             /\ Len(new) = Len(sessions) - 1
             /\ \A j \in 1..Len(sessions) - 1 :
                  new[j] = sessions[IF j = k THEN Len(sessions) ELSE j]
      BY <1>1, <2>2, SameTable, Table!RemoveFacts
    <3>2. DOMAIN new = 1..Len(sessions) - 1 /\ DOMAIN sessions = 1..Len(sessions)
          /\ Len(sessions) \in Nat
      BY <1>1, <3>1
    <3>3. i # k
      BY <1>2, <3>1
    <3>4. CASE i = Len(sessions)
      BY <3>1, <3>2, <3>3, <3>4
    <3>5. CASE i # Len(sessions)
      BY <3>1, <3>2, <3>3, <3>5
    <3> QED
      BY <3>4, <3>5
  <2> QED
    BY <2>1, <2>2
<1>4. \A j \in DOMAIN new : new[j].userId = v => SM!GetSocket(new, v) = new[j].socket_fd
  <2>1. /\ new \in Seq(SM!UserSession)
        /\ \A j, k \in DOMAIN new : new[j].userId = new[k].userId => j = k
    BY <1>0 DEF TableOK, TableTyped
  <2> QED
    BY <2>1, LookupFacts
<1> QED
  BY <1>0, <1>2, <1>3, <1>4 DEF SM!GetSocket, SM!OfUser, SM!First

-----------------------------------------------------------------------------
(***************************************************************************)
(* Who a message is attributed to                                          *)
(***************************************************************************)
\* A step adds the line of a forward or of a reply to the lines there are, or none.
LEMMA NewLines ==
    ASSUME TableOK, Typed, [Next]_vars, NEW f \in Sockets, NEW l \in Lines(f)'
    PROVE  \/ l \in Lines(f)
           \/ \E fd \in Sockets : Forward(fd) /\ l = Forwarded(fd)
           \/ \E fd \in Sockets : Respond(fd) /\ l = Reply(fd)
<1>1. ASSUME UNCHANGED inbox PROVE l \in Lines(f)
  BY <1>1 DEF Lines
<1>2. ASSUME NEW fd \in Sockets, Accept(fd) PROVE l \in Lines(f)
  BY <1>2 DEF Accept, Lines, Typed
<1>3. ASSUME NEW fd \in Sockets, Forward(fd)
      PROVE  l \in Lines(f) \cup {Forwarded(fd)}
  <2>1. handler[fd].target \in Sockets /\ Forwarded(fd) \in Line
    BY <1>3, LinesTyped DEF Forward, Typed
  <2>2. Write(handler[fd].target, Forwarded(fd))
    BY <1>3 DEF Forward, Forwarded
  <2>3. Lines(f)' \subseteq Lines(f) \cup {Forwarded(fd)}
    BY <2>1, <2>2, WriteFacts DEF Typed
  <2> QED
    BY <2>3
<1>4. ASSUME NEW fd \in Sockets, Respond(fd)
      PROVE  l \in Lines(f) \cup {Reply(fd)}
  <2>1. Reply(fd) \in Line
    BY LinesTyped
  <2>2. Write(fd, Reply(fd))
    BY <1>4 DEF Respond, Reply
  <2>3. Lines(f)' \subseteq Lines(f) \cup {Reply(fd)}
    BY <2>1, <2>2, WriteFacts DEF Typed
  <2> QED
    BY <2>3
<1>5. ASSUME NEW fd \in Sockets,
             \/ ClientCloses(fd) \/ Disconnect(fd) \/ Close(fd)
             \/ \E u \in Users : Login(u, fd)
             \/ \E kind, to : Receive(fd, kind, to)
             \/ ReadSender(fd) \/ Save(fd) \/ SaveFails(fd) \/ SaveUnderKeyZero(fd)
             \/ ReadMembers(fd) \/ \E u \in Users : NextReceiver(fd, u)
             \/ FindSocket(fd)
      PROVE  UNCHANGED inbox
  BY <1>5 DEF ClientCloses, Disconnect, Close, Login, Receive, ReadSender, Save, SaveFails,
     SaveUnderKeyZero, ReadMembers, NextReceiver, FindSocket
<1>6. UNCHANGED vars => UNCHANGED inbox
  BY DEF vars
<1> QED
  BY <1>1, <1>2, <1>3, <1>4, <1>5, <1>6 DEF Next, Step

\* A reply is no forward, and a forward no reply.
LEMMA KindsOfLines ==
    ASSUME Typed, NEW fd \in Sockets
    PROVE  /\ Reply(fd).what \notin Kinds
           /\ Forwarded(fd).what \in Kinds
<1>1. handler[fd] \in HandlerState
  BY DEF Typed
<1> QED
  BY <1>1 DEF HandlerState, Kinds, Reply, Forwarded

\* Any step keeps the pointer of a calm handler at the session of its client.
LEMMA NextPointer == TableOK /\ TableOK' /\ Typed /\ PointerOfClient /\ [Next]_vars
                        => PointerOfClient'
<1> SUFFICES ASSUME TableOK, TableOK', Typed, PointerOfClient, [Next]_vars
             PROVE  PointerOfClient'
  OBVIOUS
<1> DEFINE Held(h) == Working(h) /\ h.calm => /\ h.ptr \in DOMAIN sessions
                                              /\ sessions[h.ptr].userId = h.by
           Taken(h) == h.pc = "save" /\ h.calm => h.from = h.by
           HeldNext(h) == Working(h) /\ h.calm => /\ h.ptr \in DOMAIN sessions'
                                                  /\ sessions'[h.ptr].userId = h.by
<1>1. \A fd \in Sockets : Held(handler[fd]) /\ Taken(handler[fd])
  BY DEF PointerOfClient
<1>2. \A fd \in Sockets : handler[fd] \in HandlerState
  BY DEF Typed
<1> SUFFICES ASSUME NEW g \in Sockets
             PROVE  HeldNext(handler'[g]) /\ Taken(handler'[g])
  BY DEF PointerOfClient
<1>3. CASE UNCHANGED <<sessions, handler>>
  BY <1>1, <1>3
<1>4. ASSUME NEW fd \in Sockets, NEW u \in Users, Login(u, fd)
      PROVE  HeldNext(handler'[g]) /\ Taken(handler'[g])
  <2>1. handler'[g] = [handler[g] EXCEPT !.steady = @ \ {u}]
    BY <1>4 DEF Login
  <2>2. /\ Working(handler'[g]) = Working(handler[g])
        /\ handler'[g].pc = handler[g].pc
        /\ handler'[g].calm = handler[g].calm /\ handler'[g].ptr = handler[g].ptr
        /\ handler'[g].by = handler[g].by /\ handler'[g].from = handler[g].from
    BY <1>2, <2>1 DEF Working, HandlerState
  <2> QED
    BY <1>1, <1>4, <2>2, LoginFacts
<1>5. ASSUME NEW fd \in Sockets, ClientCloses(fd) \/ Close(fd)
      PROVE  HeldNext(handler'[g]) /\ Taken(handler'[g])
  <2>1. \/ handler'[g] = [handler[g] EXCEPT !.steady = @ \ OnlineAt(fd)]
        \/ handler'[g] = [handler[g] EXCEPT !.fresh = FALSE]
        \/ handler'[g] = handler[g]
    BY <1>5 DEF ClientCloses, Close
  <2>2. /\ Working(handler'[g]) = Working(handler[g])
        /\ handler'[g].pc = handler[g].pc
        /\ handler'[g].calm = handler[g].calm /\ handler'[g].ptr = handler[g].ptr
        /\ handler'[g].by = handler[g].by /\ handler'[g].from = handler[g].from
    BY <1>2, <2>1 DEF Working, HandlerState
  <2>3. UNCHANGED sessions
    BY <1>5 DEF ClientCloses, Close, SM!Close
  <2> QED
    BY <1>1, <2>2, <2>3
<1>6. ASSUME NEW fd \in Sockets, Disconnect(fd)
      PROVE  HeldNext(handler'[g]) /\ Taken(handler'[g])
  <2>1. CASE Busy(g) /\ sessions' # sessions
    <3>1. handler'[g] = [handler[g] EXCEPT !.calm = FALSE]
      BY <1>6, <2>1 DEF Disconnect
    <3> QED
      BY <1>2, <3>1 DEF HandlerState
  <2>2. CASE Busy(g) /\ sessions' = sessions
    BY <1>1, <1>6, <2>2 DEF Disconnect
  <2>3. CASE ~Busy(g)
    BY <1>1, <1>6, <2>3 DEF Disconnect, Busy, Working
  <2> QED
    BY <2>1, <2>2, <2>3
<1>7. ASSUME NEW fd \in Sockets, NEW h, handler' = [handler EXCEPT ![fd] = h],
             UNCHANGED sessions, Held(h), Taken(h)
      PROVE  HeldNext(handler'[g]) /\ Taken(handler'[g])
  <2>1. handler'[g] = h \/ handler'[g] = handler[g]
    BY <1>7 DEF Typed
  <2> QED
    BY <1>1, <1>7, <2>1
<1>8. ASSUME NEW fd \in Sockets, NEW kind, NEW to, Receive(fd, kind, to)
      PROVE  \E h : /\ handler' = [handler EXCEPT ![fd] = h]
                    /\ UNCHANGED sessions /\ Held(h) /\ Taken(h)
  <2> DEFINE h == [Idle EXCEPT !.pc = IF SessionOf(fd) = 0 THEN "respond" ELSE "read",
                       !.reply = IF SessionOf(fd) = 0 THEN "not_logged_in" ELSE "none",
                       !.id = sent', !.kind = kind, !.to = to,
                       !.ptr = SessionOf(fd), !.by = acked[fd],
                       !.calm = fd \notin switched]
  <2>1. handler' = [handler EXCEPT ![fd] = h] /\ UNCHANGED sessions
    BY <1>8 DEF Receive
  <2>2. /\ h.pc = (IF SessionOf(fd) = 0 THEN "respond" ELSE "read")
        /\ h.ptr = SessionOf(fd) /\ h.by = acked[fd]
        /\ h.calm => fd \notin switched
    BY DEF Idle
  <2>3. SessionOf(fd) # 0 /\ fd \notin switched
           => /\ SessionOf(fd) \in DOMAIN sessions
              /\ sessions[SessionOf(fd)].userId = acked[fd]
    BY SessionOfFacts DEF TableOK, OwnEntries
  <2>4. Held(h) /\ Taken(h)
    BY <2>2, <2>3 DEF Working
  <2> QED
    BY <2>1, <2>4
<1>9. ASSUME NEW fd \in Sockets, Step(fd)
      PROVE  \E h : /\ handler' = [handler EXCEPT ![fd] = h]
                    /\ UNCHANGED sessions /\ Held(h) /\ Taken(h)
  <2> DEFINE me == handler[fd]
  <2>1. me \in HandlerState /\ Held(me) /\ Taken(me)
    BY <1>1, <1>2
  <2>2. CASE ReadSender(fd)
    <3> DEFINE h == [me EXCEPT !.pc = "save", !.from = CurrentUser(fd)]
    <3>1. handler' = [handler EXCEPT ![fd] = h] /\ UNCHANGED sessions /\ me.pc = "read"
      BY <2>2 DEF ReadSender
    <3>2. Held(h)
      BY <2>1, <3>1 DEF Working, HandlerState
    <3>3. Taken(h)
      BY <2>1, <3>1 DEF Working, HandlerState, CurrentUser
    <3> QED
      BY <3>1, <3>2, <3>3
  <2>3. ASSUME NEW h, handler' = [handler EXCEPT ![fd] = h], UNCHANGED sessions,
               Working(me), h.pc # "save",
               h.ptr = me.ptr, h.by = me.by, h.calm = me.calm
        PROVE  \E x : /\ handler' = [handler EXCEPT ![fd] = x]
                      /\ UNCHANGED sessions /\ Held(x) /\ Taken(x)
    BY <2>1, <2>3
  <2>4. CASE Save(fd)
    <3> DEFINE h == [me EXCEPT !.pc = IF me.kind = "dm" THEN "next" ELSE "members",
                          !.reply = "success", !.todo = {me.to} \ {NoUser},
                          !.steady = Reachable]
    <3>1. handler' = [handler EXCEPT ![fd] = h] /\ UNCHANGED sessions /\ me.pc = "save"
      BY <2>4 DEF Save
    <3>2. h.pc # "save" /\ h.ptr = me.ptr /\ h.by = me.by /\ h.calm = me.calm
      BY <2>1 DEF HandlerState
    <3> QED
      BY <2>3, <3>1, <3>2 DEF Working
  <2>5. CASE SaveFails(fd)
    <3> DEFINE h == [me EXCEPT !.pc = "respond", !.reply = "fail"]
    <3>1. handler' = [handler EXCEPT ![fd] = h] /\ UNCHANGED sessions /\ me.pc = "save"
      BY <2>5 DEF SaveFails
    <3>2. h.pc # "save" /\ h.ptr = me.ptr /\ h.by = me.by /\ h.calm = me.calm
      BY <2>1 DEF HandlerState
    <3> QED
      BY <2>3, <3>1, <3>2 DEF Working
  <2>10. CASE SaveUnderKeyZero(fd)
    <3> DEFINE h == [me EXCEPT !.pc = "respond", !.reply = "fail"]
    <3>1. handler' = [handler EXCEPT ![fd] = h] /\ UNCHANGED sessions /\ me.pc = "save"
      BY <2>10 DEF SaveUnderKeyZero
    <3>2. h.pc # "save" /\ h.ptr = me.ptr /\ h.by = me.by /\ h.calm = me.calm
      BY <2>1 DEF HandlerState
    <3> QED
      BY <2>3, <3>1, <3>2 DEF Working
  <2>11. CASE ReadMembers(fd)
    <3>1. PICK listed \in BOOLEAN :
             handler' = [handler EXCEPT ![fd] =
                [me EXCEPT !.pc = "next", !.listed = listed,
                           !.todo = IF listed THEN Members ELSE {}]]
      BY <2>11 DEF ReadMembers
    <3> DEFINE h == [me EXCEPT !.pc = "next", !.listed = listed,
                               !.todo = IF listed THEN Members ELSE {}]
    <3>2. handler' = [handler EXCEPT ![fd] = h] /\ UNCHANGED sessions /\ me.pc = "members"
      BY <2>11, <3>1 DEF ReadMembers
    <3>3. h.pc # "save" /\ h.ptr = me.ptr /\ h.by = me.by /\ h.calm = me.calm
      BY <2>1 DEF HandlerState
    <3> QED
      BY <2>3, <3>2, <3>3 DEF Working
  <2>6. ASSUME NEW u \in Users, NextReceiver(fd, u)
        PROVE  \E h : /\ handler' = [handler EXCEPT ![fd] = h]
                      /\ UNCHANGED sessions /\ Held(h) /\ Taken(h)
    <3> DEFINE h == IF me.kind = "group" /\ u = CurrentUser(fd)
                    THEN [me EXCEPT !.todo = @ \ {u}]
                    ELSE [me EXCEPT !.pc = "lookup", !.to = u, !.todo = @ \ {u}]
    <3>1. handler' = [handler EXCEPT ![fd] = h] /\ UNCHANGED sessions /\ me.pc = "next"
      BY <2>6 DEF NextReceiver
    <3>2. h.pc # "save" /\ h.ptr = me.ptr /\ h.by = me.by /\ h.calm = me.calm
      BY <2>1, <3>1 DEF HandlerState
    <3> QED
      BY <2>3, <3>1, <3>2 DEF Working
  <2>7. CASE FindSocket(fd)
    <3> DEFINE s == SM!GetSocket(sessions, me.to)
               h == IF s = NoSocket THEN [me EXCEPT !.pc = "next"]
                    ELSE [me EXCEPT !.pc = "forward", !.target = s, !.fresh = TRUE]
    <3>1. handler' = [handler EXCEPT ![fd] = h] /\ UNCHANGED sessions /\ me.pc = "lookup"
      BY <2>7 DEF FindSocket
    <3>2. h.pc # "save" /\ h.ptr = me.ptr /\ h.by = me.by /\ h.calm = me.calm
      BY <2>1 DEF HandlerState
    <3> QED
      BY <2>3, <3>1, <3>2 DEF Working
  <2>8. CASE Forward(fd)
    <3> DEFINE h == [me EXCEPT !.pc = "next", !.target = NoSocket]
    <3>1. handler' = [handler EXCEPT ![fd] = h] /\ UNCHANGED sessions /\ me.pc = "forward"
      BY <2>8 DEF Forward
    <3>2. h.pc # "save" /\ h.ptr = me.ptr /\ h.by = me.by /\ h.calm = me.calm
      BY <2>1 DEF HandlerState
    <3> QED
      BY <2>3, <3>1, <3>2 DEF Working
  <2>9. CASE Respond(fd)
    <3>1. handler' = [handler EXCEPT ![fd] = Idle] /\ UNCHANGED sessions
      BY <2>9 DEF Respond
    <3>2. Held(Idle) /\ Taken(Idle)
      BY DEF Idle, Working
    <3> QED
      BY <3>1, <3>2
  <2> QED
    BY <1>9, <2>2, <2>4, <2>5, <2>6, <2>7, <2>8, <2>9, <2>10, <2>11 DEF Step
<1>10. ASSUME NEW fd \in Sockets, Accept(fd)
       PROVE  UNCHANGED <<sessions, handler>>
  BY <1>10 DEF Accept, SM!Accept
<1>11. UNCHANGED vars => UNCHANGED <<sessions, handler>>
  BY DEF vars
<1> HIDE DEF Held, Taken, HeldNext
<1> QED
  BY <1>3, <1>4, <1>5, <1>6, <1>7, <1>8, <1>9, <1>10, <1>11 DEF Next

\* Any step stores the message of a calm handler under the user who sent it.
LEMMA NextAttribution ==
    TableOK /\ Typed /\ PointerOfClient /\ AttributionNeedsRemovalOrSwitch /\ [Next]_vars
      => AttributionNeedsRemovalOrSwitch'
<1> SUFFICES ASSUME TableOK, Typed, PointerOfClient, AttributionNeedsRemovalOrSwitch, [Next]_vars
             PROVE  AttributionNeedsRemovalOrSwitch'
  OBVIOUS
<1>1. ASSUME NEW i \in DOMAIN store'
      PROVE  store'[i].calm => store'[i].from = store'[i].by
  <2>1. CASE UNCHANGED store
    BY <2>1 DEF AttributionNeedsRemovalOrSwitch
  <2>2. ASSUME NEW fd \in Sockets, Save(fd) \/ SaveUnderKeyZero(fd)
        PROVE  store'[i].calm => store'[i].from = store'[i].by
    <3> DEFINE me == handler[fd]
    <3>1. PICK r : /\ store' = Append(store, r) /\ me.pc = "save"
                   /\ r = Record(me, TRUE) \/ r = Record(me, FALSE)
      BY <2>2 DEF Save, SaveUnderKeyZero
    <3>2. r.calm => r.from = r.by
      BY <3>1 DEF PointerOfClient, Record
    <3>3. store'[i] = r \/ (i \in DOMAIN store /\ store'[i] = store[i])
      BY <3>1 DEF Typed
    <3> QED
      BY <3>2, <3>3 DEF AttributionNeedsRemovalOrSwitch
  <2>3. ASSUME NEW fd \in Sockets,
               \/ Accept(fd) \/ ClientCloses(fd) \/ Disconnect(fd) \/ Close(fd)
               \/ \E u \in Users : Login(u, fd)
               \/ \E kind, to : Receive(fd, kind, to)
               \/ ReadSender(fd) \/ SaveFails(fd) \/ ReadMembers(fd)
               \/ \E u \in Users : NextReceiver(fd, u)
               \/ FindSocket(fd) \/ Forward(fd) \/ Respond(fd)
        PROVE  UNCHANGED store
    BY <2>3 DEF Accept, ClientCloses, Disconnect, Close, Login, Receive, ReadSender, SaveFails,
       ReadMembers, NextReceiver, FindSocket, Forward, Respond
  <2>4. UNCHANGED vars => UNCHANGED store
    BY DEF vars
  <2> QED
    BY <2>1, <2>2, <2>3, <2>4 DEF Next, Step
<1>2. ASSUME NEW f \in Sockets, NEW l \in Lines(f)', l.what \in Kinds, l.calm
      PROVE  l.from = l.by
  <2>1. CASE l \in Lines(f)
    BY <1>2, <2>1 DEF AttributionNeedsRemovalOrSwitch, Forwards
  <2>2. ASSUME NEW fd \in Sockets, Forward(fd), l = Forwarded(fd)
        PROVE  l.from = l.by
    <3>1. Working(handler[fd]) /\ handler[fd].calm
      BY <1>2, <2>2 DEF Forward, Forwarded, Working
    <3>2. CurrentUser(fd) = handler[fd].by
      BY <3>1 DEF PointerOfClient, CurrentUser
    <3> QED
      BY <2>2, <3>2 DEF Forwarded
  <2>3. ASSUME NEW fd \in Sockets, l = Reply(fd)
        PROVE  FALSE
    BY <1>2, <2>3, KindsOfLines
  <2> QED
    BY <2>1, <2>2, <2>3, NewLines
<1> QED
  BY <1>1, <1>2 DEF AttributionNeedsRemovalOrSwitch, Forwards

\* A message is stored and forwarded under the user who sent it unless its client had
\* switched accounts or a session was removed between the lookup of the pointer and
\* its use, for every number of users, connections and messages.
THEOREM SenderIsRight == Spec => []AttributionNeedsRemovalOrSwitch
<1>1. Init => PointerOfClient /\ AttributionNeedsRemovalOrSwitch
  BY DEF Init, Idle, PointerOfClient, Working, AttributionNeedsRemovalOrSwitch, Forwards, Lines
<1> QED
  BY <1>1, TypeCorrect, NextPointer, NextAttribution, PTL DEF Spec

-----------------------------------------------------------------------------
(***************************************************************************)
(* Whom a message reaches                                                  *)
(***************************************************************************)
LEMMA NextTarget == TableOK /\ Typed /\ TargetOfReceiver /\ [Next]_vars
                       => TargetOfReceiver'
<1> SUFFICES ASSUME TableOK, Typed, TargetOfReceiver, [Next]_vars
             PROVE  TargetOfReceiver'
  OBVIOUS
<1> DEFINE Sound(h, c, a, w) == h.pc = "forward" /\ h.fresh /\ h.target \notin w =>
                                   \/ c[h.target] = "removed"
                                   \/ /\ c[h.target] = "open"
                                      /\ a[h.target] = h.to
                                      /\ h.to \in Users
<1>1. \A fd \in Sockets : Sound(handler[fd], conn, acked, switched)
  BY DEF TargetOfReceiver
<1>2. \A fd \in Sockets : /\ handler[fd] \in HandlerState
                          /\ handler[fd].pc = "forward" => handler[fd].target \in Sockets
  BY DEF Typed
<1>3. conn \in [Sockets -> {"closed", "open", "removed"}] /\ DOMAIN acked = Sockets
  BY DEF TableOK, TableTyped
<1> SUFFICES ASSUME NEW g \in Sockets
             PROVE  Sound(handler'[g], conn', acked', switched')
  BY DEF TargetOfReceiver
<1>4. CASE UNCHANGED <<handler, conn, acked, switched>>
  BY <1>1, <1>4
<1>5. ASSUME NEW fd \in Sockets, Accept(fd)
      PROVE  Sound(handler'[g], conn', acked', switched')
  <2>1. /\ conn[fd] = "closed" /\ UNCHANGED <<handler, acked, switched>>
        /\ \A t \in Sockets \ {fd} : conn'[t] = conn[t]
    BY <1>3, <1>5 DEF Accept, SM!Accept
  <2> QED
    BY <1>1, <1>2, <2>1
<1>6. ASSUME NEW fd \in Sockets, NEW u \in Users, Login(u, fd)
      PROVE  Sound(handler'[g], conn', acked', switched')
  <2>1. handler'[g] = [handler[g] EXCEPT !.steady = @ \ {u}]
    BY <1>6 DEF Login
  <2>2. /\ handler'[g].pc = handler[g].pc /\ handler'[g].to = handler[g].to
        /\ handler'[g].target = handler[g].target /\ handler'[g].fresh = handler[g].fresh
    BY <1>2, <2>1 DEF HandlerState
  <2>3. /\ UNCHANGED conn /\ switched \subseteq switched'
        /\ fd \notin switched' => acked[fd] \in {NoUser, u}
        /\ \A t \in Sockets : acked'[t] = IF t = fd THEN u ELSE acked[t]
    BY <1>3, <1>6 DEF Login, SM!Login
  <2> SUFFICES ASSUME handler[g].pc = "forward", handler[g].fresh,
                      handler[g].target \notin switched'
               PROVE  LET t == handler[g].target
                      IN  \/ conn'[t] = "removed"
                          \/ /\ conn'[t] = "open" /\ acked'[t] = handler[g].to
                             /\ handler[g].to \in Users
    BY <2>2
  <2>4. PICK t \in Sockets : t = handler[g].target
    BY <1>2
  <2>5. acked'[t] = IF t = fd THEN u ELSE acked[t]
    BY <2>3
  <2>6. \/ conn[t] = "removed"
        \/ conn[t] = "open" /\ acked[t] = handler[g].to /\ handler[g].to \in Users
    BY <1>1, <2>3, <2>4
  <2> QED
    BY <2>3, <2>4, <2>5, <2>6, ChatAssumption
<1>7. ASSUME NEW fd \in Sockets, ClientCloses(fd)
      PROVE  Sound(handler'[g], conn', acked', switched')
  <2>1. handler'[g] = [handler[g] EXCEPT !.steady = @ \ OnlineAt(fd)]
    BY <1>7 DEF ClientCloses
  <2>2. /\ handler'[g].pc = handler[g].pc /\ handler'[g].to = handler[g].to
        /\ handler'[g].target = handler[g].target /\ handler'[g].fresh = handler[g].fresh
    BY <1>2, <2>1 DEF HandlerState
  <2>3. UNCHANGED <<conn, acked, switched>>
    BY <1>7 DEF ClientCloses
  <2> QED
    BY <1>1, <2>2, <2>3
<1>8. ASSUME NEW fd \in Sockets, Disconnect(fd)
      PROVE  Sound(handler'[g], conn', acked', switched')
  <2>1. handler'[g] = handler[g] \/ handler'[g] = [handler[g] EXCEPT !.calm = FALSE]
    BY <1>8 DEF Disconnect
  <2>2. /\ handler'[g].pc = handler[g].pc /\ handler'[g].to = handler[g].to
        /\ handler'[g].target = handler[g].target /\ handler'[g].fresh = handler[g].fresh
    BY <1>2, <2>1 DEF HandlerState
  <2>3. /\ conn'[fd] = "removed"
        /\ \A t \in Sockets \ {fd} : conn'[t] = conn[t] /\ acked'[t] = acked[t]
        /\ switched \ {fd} \subseteq switched'
    BY <1>3, <1>8 DEF Disconnect, SM!Disconnect
  <2> SUFFICES ASSUME handler[g].pc = "forward", handler[g].fresh,
                      handler[g].target \notin switched'
               PROVE  LET t == handler[g].target
                      IN  \/ conn'[t] = "removed"
                          \/ /\ conn'[t] = "open" /\ acked'[t] = handler[g].to
                             /\ handler[g].to \in Users
    BY <2>2
  <2>4. PICK t \in Sockets : t = handler[g].target
    BY <1>2
  <2>5. \/ t = fd
        \/ conn[t] = "removed"
        \/ conn[t] = "open" /\ acked[t] = handler[g].to /\ handler[g].to \in Users
    BY <1>1, <2>3, <2>4
  <2>6. t = fd \/ (conn'[t] = conn[t] /\ acked'[t] = acked[t])
    BY <2>3
  <2> QED
    BY <2>3, <2>4, <2>5, <2>6
<1>9. ASSUME NEW fd \in Sockets, Close(fd)
      PROVE  Sound(handler'[g], conn', acked', switched')
  <2>1. UNCHANGED <<acked, switched>> /\ \A t \in Sockets \ {fd} : conn'[t] = conn[t]
    BY <1>3, <1>9 DEF Close, SM!Close
  <2>2. CASE handler[g].target = fd
    <3>1. handler'[g] = [handler[g] EXCEPT !.fresh = FALSE]
      BY <1>9, <2>2 DEF Close
    <3> QED
      BY <1>2, <3>1 DEF HandlerState
  <2>3. CASE handler[g].target # fd
    <3>1. handler'[g] = handler[g]
      BY <1>9, <2>3 DEF Close
    <3> QED
      BY <1>1, <1>2, <2>1, <2>3, <3>1
  <2> QED
    BY <2>2, <2>3
<1>10. ASSUME NEW fd \in Sockets, NEW h, handler' = [handler EXCEPT ![fd] = h],
              UNCHANGED <<conn, acked, switched>>, Sound(h, conn, acked, switched)
       PROVE  Sound(handler'[g], conn', acked', switched')
  <2>1. handler'[g] = h \/ handler'[g] = handler[g]
    BY <1>10 DEF Typed
  <2> QED
    BY <1>1, <1>10, <2>1
<1>11. ASSUME NEW fd \in Sockets,
              (\E kind, to : Receive(fd, kind, to)) \/ Step(fd)
       PROVE  \E h : /\ handler' = [handler EXCEPT ![fd] = h]
                     /\ UNCHANGED <<conn, acked, switched>> /\ Sound(h, conn, acked, switched)
  <2> DEFINE me == handler[fd]
  <2>1. me \in HandlerState
    BY <1>2
  <2>2. ASSUME NEW h, handler' = [handler EXCEPT ![fd] = h], UNCHANGED <<conn, acked, switched>>,
               h.pc # "forward"
        PROVE  \E x : /\ handler' = [handler EXCEPT ![fd] = x]
                      /\ UNCHANGED <<conn, acked, switched>> /\ Sound(x, conn, acked, switched)
    BY <2>2
  <2>3. ASSUME NEW kind, NEW to, Receive(fd, kind, to)
        PROVE  \E h : /\ handler' = [handler EXCEPT ![fd] = h]
                      /\ UNCHANGED <<conn, acked, switched>> /\ h.pc # "forward"
    <3> DEFINE h == [Idle EXCEPT !.pc = IF SessionOf(fd) = 0 THEN "respond" ELSE "read",
                       !.reply = IF SessionOf(fd) = 0 THEN "not_logged_in" ELSE "none",
                       !.id = sent', !.kind = kind, !.to = to,
                       !.ptr = SessionOf(fd), !.by = acked[fd],
                       !.calm = fd \notin switched]
    <3>1. handler' = [handler EXCEPT ![fd] = h] /\ UNCHANGED <<conn, acked, switched>>
      BY <2>3 DEF Receive
    <3>2. h.pc # "forward"
      BY DEF Idle
    <3> QED
      BY <3>1, <3>2
  <2>4. CASE \/ ReadSender(fd) \/ Save(fd) \/ SaveFails(fd) \/ SaveUnderKeyZero(fd)
             \/ ReadMembers(fd) \/ Forward(fd) \/ Respond(fd)
    <3>1. UNCHANGED <<conn, acked, switched>>
      BY <2>4 DEF ReadSender, Save, SaveFails, SaveUnderKeyZero, ReadMembers, Forward,
         Respond
    <3>2. CASE ReadSender(fd)
      <4>1. [me EXCEPT !.pc = "save", !.from = CurrentUser(fd)].pc # "forward"
        BY <2>1 DEF HandlerState
      <4> QED
        BY <2>2, <3>1, <3>2, <4>1 DEF ReadSender
    <3>3. CASE Save(fd)
      <4>1. [me EXCEPT !.pc = IF me.kind = "dm" THEN "next" ELSE "members",
                          !.reply = "success", !.todo = {me.to} \ {NoUser},
                          !.steady = Reachable].pc # "forward"
        BY <2>1 DEF HandlerState
      <4> QED
        BY <2>2, <3>1, <3>3, <4>1 DEF Save
    <3>7. CASE SaveUnderKeyZero(fd)
      <4>1. [me EXCEPT !.pc = "respond", !.reply = "fail"].pc # "forward"
        BY <2>1 DEF HandlerState
      <4> QED
        BY <2>2, <3>1, <3>7, <4>1 DEF SaveUnderKeyZero
    <3>8. CASE ReadMembers(fd)
      <4>1. PICK listed \in BOOLEAN :
               handler' = [handler EXCEPT ![fd] =
                  [me EXCEPT !.pc = "next", !.listed = listed,
                             !.todo = IF listed THEN Members ELSE {}]]
        BY <3>8 DEF ReadMembers
      <4>2. [me EXCEPT !.pc = "next", !.listed = listed,
                       !.todo = IF listed THEN Members ELSE {}].pc # "forward"
        BY <2>1 DEF HandlerState
      <4> QED
        BY <2>2, <3>1, <4>1, <4>2
    <3>4. CASE SaveFails(fd)
      <4>1. [me EXCEPT !.pc = "respond", !.reply = "fail"].pc # "forward"
        BY <2>1 DEF HandlerState
      <4> QED
        BY <2>2, <3>1, <3>4, <4>1 DEF SaveFails
    <3>5. CASE Forward(fd)
      <4>1. [me EXCEPT !.pc = "next", !.target = NoSocket].pc # "forward"
        BY <2>1 DEF HandlerState
      <4> QED
        BY <2>2, <3>1, <3>5, <4>1 DEF Forward
    <3>6. CASE Respond(fd)
      <4>1. Idle.pc # "forward"
        BY DEF Idle
      <4> QED
        BY <2>2, <3>1, <3>6, <4>1 DEF Respond
    <3> QED
      BY <2>4, <3>2, <3>3, <3>4, <3>5, <3>6, <3>7, <3>8
  <2>5. ASSUME NEW u \in Users, NextReceiver(fd, u)
        PROVE  \E h : /\ handler' = [handler EXCEPT ![fd] = h]
                      /\ UNCHANGED <<conn, acked, switched>> /\ h.pc # "forward"
    <3> DEFINE h == IF me.kind = "group" /\ u = CurrentUser(fd)
                    THEN [me EXCEPT !.todo = @ \ {u}]
                    ELSE [me EXCEPT !.pc = "lookup", !.to = u, !.todo = @ \ {u}]
    <3>1. handler' = [handler EXCEPT ![fd] = h] /\ UNCHANGED <<conn, acked, switched>> /\ me.pc = "next"
      BY <2>5 DEF NextReceiver
    <3>2. h.pc # "forward"
      BY <2>1, <3>1 DEF HandlerState
    <3> QED
      BY <3>1, <3>2
  <2>6. CASE FindSocket(fd)
    <3> DEFINE s == SM!GetSocket(sessions, me.to)
               h == IF s = NoSocket THEN [me EXCEPT !.pc = "next"]
                    ELSE [me EXCEPT !.pc = "forward", !.target = s, !.fresh = TRUE]
    <3>1. handler' = [handler EXCEPT ![fd] = h] /\ UNCHANGED <<conn, acked, switched>>
      BY <2>6 DEF FindSocket
    <3>2. CASE s = NoSocket
      <4>1. h.pc # "forward"
        BY <2>1, <3>2 DEF HandlerState
      <4> QED
        BY <2>2, <3>1, <4>1
    <3>3. CASE s # NoSocket
      <4>1. PICK i \in DOMAIN sessions :
               sessions[i].userId = me.to /\ sessions[i].socket_fd = s
        BY <3>3, SocketFacts
      <4>2. sessions[i] \in SM!UserSession
        BY DEF TableOK, TableTyped
      <4>3. /\ s \notin switched => conn[s] = "open" /\ acked[s] = me.to
            /\ me.to \in Users
        <5>1. s \notin switched => conn[s] = "open" /\ acked[s] = me.to
          BY <4>1 DEF TableOK, OwnEntries
        <5> QED
          BY <4>1, <4>2, <5>1 DEF SM!UserSession
      <4>4. h.target = s /\ h.to = me.to
        BY <2>1, <3>3 DEF HandlerState
      <4>5. Sound(h, conn, acked, switched)
        BY <4>3, <4>4
      <4> QED
        BY <3>1, <4>5
    <3> QED
      BY <3>2, <3>3
  <2> HIDE DEF Sound
  <2> QED
    BY <1>11, <2>2, <2>3, <2>4, <2>5, <2>6 DEF Step
<1>12. UNCHANGED vars => UNCHANGED <<handler, conn, acked, switched>>
  BY DEF vars
<1> HIDE DEF Sound
<1> QED
  BY <1>4, <1>5, <1>6, <1>7, <1>8, <1>9, <1>10, <1>11, <1>12 DEF Next

\* Any step sends a message to the socket of its receiver, if its target is fresh.
LEMMA NextDelivery ==
    TableOK /\ Typed /\ TargetOfReceiver /\ MisdeliveryNeedsReuseOrSwitch /\ [Next]_vars
      => MisdeliveryNeedsReuseOrSwitch'
<1> SUFFICES ASSUME TableOK, Typed, TargetOfReceiver, MisdeliveryNeedsReuseOrSwitch, [Next]_vars,
                    NEW f \in Sockets, NEW l \in Lines(f)', l.what \in Kinds, l.fresh
             PROVE  l.reader = l.to
  BY DEF MisdeliveryNeedsReuseOrSwitch, Forwards
<1>1. CASE l \in Lines(f)
  BY <1>1 DEF MisdeliveryNeedsReuseOrSwitch, Forwards
<1>2. ASSUME NEW fd \in Sockets, Forward(fd), l = Forwarded(fd), l \notin Lines(f)
      PROVE  l.reader = l.to
  <2> DEFINE me == handler[fd]
  <2>1. /\ me.pc = "forward" /\ me.fresh /\ me.target \notin switched
        /\ Write(me.target, l)
    BY <1>2 DEF Forward, Forwarded
  <2>2. CASE conn[me.target] = "removed"
    <3>1. UNCHANGED inbox
      BY <2>1, <2>2 DEF Write
    <3> QED
      BY <1>2, <3>1 DEF Lines
  <2>3. CASE acked[me.target] = me.to
    BY <1>2, <2>3 DEF Forwarded
  <2> QED
    BY <2>1, <2>2, <2>3 DEF TargetOfReceiver
<1>3. ASSUME NEW fd \in Sockets, l = Reply(fd)
      PROVE  FALSE
  BY <1>3, KindsOfLines
<1> QED
  BY <1>1, <1>2, <1>3, NewLines

\* A forwarded message reaches its receiver and nobody else unless the receiver's
\* socket was closed between its lookup and the write, or a client of that descriptor
\* had switched accounts.
THEOREM ReceiverIsRight == Spec => []MisdeliveryNeedsReuseOrSwitch
<1>1. Init => TargetOfReceiver /\ MisdeliveryNeedsReuseOrSwitch
  BY DEF Init, Idle, TargetOfReceiver, MisdeliveryNeedsReuseOrSwitch, Forwards, Lines
<1> QED
  BY <1>1, TypeCorrect, NextTarget, NextDelivery, PTL DEF Spec

-----------------------------------------------------------------------------
(***************************************************************************)
(* What a reply tells                                                      *)
(*                                                                         *)
(* For the identities of messages a step is one of seven: nothing happens  *)
(* to a message, one is received, passes the save without a record, is     *)
(* saved, is saved under the key 0, goes round the loop of the receivers,  *)
(* or is answered.                                                         *)
(***************************************************************************)
Same(g) == /\ handler'[g].pc = handler[g].pc
           /\ handler'[g].id = handler[g].id
           /\ handler'[g].reply = handler[g].reply

SameRecords == Stored' = Stored /\ Keyed' = Keyed
NoNewLine == \A f \in Sockets : Lines(f)' \subseteq Lines(f)
NewLine(what, id) ==
    \A f \in Sockets : \A l \in Lines(f)' \ Lines(f) : l.what = what /\ l.id = id

Quiet == /\ \A g \in Sockets : Same(g)
         /\ NoNewLine /\ SameRecords /\ sent' = sent
Received(fd) == /\ handler[fd].pc = "idle"
                /\ \/ handler'[fd].pc = "respond" /\ handler'[fd].reply = "not_logged_in"
                   \/ handler'[fd].pc = "read"
                /\ handler'[fd].id = sent + 1 /\ sent' = sent + 1
                /\ NoNewLine /\ SameRecords
Passed(fd) == /\ \/ handler[fd].pc = "read" /\ handler'[fd].pc = "save"
                 \/ /\ handler[fd].pc = "save"
                    /\ handler'[fd].pc = "respond" /\ handler'[fd].reply = "fail"
              /\ handler'[fd].id = handler[fd].id
              /\ NoNewLine /\ SameRecords /\ sent' = sent
Saved(fd) == /\ handler[fd].pc = "save"
             /\ handler'[fd].pc \in {"next", "members"} /\ handler'[fd].reply = "success"
             /\ handler'[fd].id = handler[fd].id
             /\ NoNewLine /\ sent' = sent
             /\ Stored' = Stored \cup {handler[fd].id}
             /\ Keyed' = Keyed \cup {handler[fd].id}
Disowned(fd) == /\ handler[fd].pc = "save"
                /\ handler'[fd].pc = "respond" /\ handler'[fd].reply = "fail"
                /\ handler'[fd].id = handler[fd].id
                /\ NoNewLine /\ sent' = sent
                /\ Stored' = Stored \cup {handler[fd].id} /\ Keyed' = Keyed
Looped(fd) == /\ Forwarding(handler[fd]) /\ Forwarding(handler'[fd])
              /\ handler'[fd].id = handler[fd].id /\ handler'[fd].reply = handler[fd].reply
              /\ NewLine(handler[fd].kind, handler[fd].id)
              /\ SameRecords /\ sent' = sent
Answered(fd) == /\ handler[fd].pc \in {"respond", "next"}
                /\ handler'[fd].pc = "idle"
                /\ NewLine(handler[fd].reply, handler[fd].id)
                /\ SameRecords /\ sent' = sent

\* The connections and the table have nothing to do with the messages.
LEMMA ConnectionsQuiet ==
    ASSUME TableOK, Typed, [Next]_vars,
           \/ UNCHANGED vars
           \/ \E fd \in Sockets : \/ Accept(fd) \/ ClientCloses(fd)
                                  \/ Disconnect(fd) \/ Close(fd)
                                  \/ \E u \in Users : Login(u, fd)
    PROVE  Quiet
<1>1. \A g \in Sockets : handler[g] \in HandlerState
  BY DEF Typed
<1>2. CASE UNCHANGED vars
  BY <1>2 DEF vars, Quiet, Same, NoNewLine, Lines, SameRecords, Stored, Keyed
<1>3. ASSUME NEW fd \in Sockets, Accept(fd) PROVE Quiet
  <2>1. NoNewLine
    BY <1>3 DEF Accept, NoNewLine, Lines, Typed
  <2> QED
    BY <1>3, <2>1 DEF Accept, Quiet, Same, SameRecords, Stored, Keyed
<1>4. ASSUME NEW fd \in Sockets, UNCHANGED <<sent, store, inbox>>,
             \A g \in Sockets : Same(g)
      PROVE  Quiet
  BY <1>4 DEF Quiet, NoNewLine, Lines, SameRecords, Stored, Keyed
<1>5. ASSUME NEW fd \in Sockets, ClientCloses(fd) PROVE Quiet
  <2>1. \A g \in Sockets : handler'[g] = [handler[g] EXCEPT !.steady = @ \ OnlineAt(fd)]
    BY <1>5 DEF ClientCloses
  <2>2. \A g \in Sockets : Same(g)
    BY <1>1, <2>1 DEF Same, HandlerState
  <2> QED
    BY <1>4, <1>5, <2>2 DEF ClientCloses
<1>6. ASSUME NEW fd \in Sockets, Disconnect(fd) PROVE Quiet
  <2>1. \A g \in Sockets :
           handler'[g] = handler[g] \/ handler'[g] = [handler[g] EXCEPT !.calm = FALSE]
    BY <1>6 DEF Disconnect
  <2>2. \A g \in Sockets : Same(g)
    BY <1>1, <2>1 DEF Same, HandlerState
  <2> QED
    BY <1>4, <1>6, <2>2 DEF Disconnect
<1>7. ASSUME NEW fd \in Sockets, Close(fd) PROVE Quiet
  <2>1. \A g \in Sockets :
           handler'[g] = handler[g] \/ handler'[g] = [handler[g] EXCEPT !.fresh = FALSE]
    BY <1>7 DEF Close
  <2>2. \A g \in Sockets : Same(g)
    BY <1>1, <2>1 DEF Same, HandlerState
  <2> QED
    BY <1>4, <1>7, <2>2 DEF Close
<1>8. ASSUME NEW fd \in Sockets, NEW u \in Users, Login(u, fd) PROVE Quiet
  <2>1. \A g \in Sockets : handler'[g] = [handler[g] EXCEPT !.steady = @ \ {u}]
    BY <1>8 DEF Login
  <2>2. \A g \in Sockets : Same(g)
    BY <1>1, <2>1 DEF Same, HandlerState
  <2> QED
    BY <1>4, <1>8, <2>2 DEF Login
<1> QED
  BY <1>2, <1>3, <1>5, <1>6, <1>7, <1>8

\* A save adds its message to those that are stored, and to those that have a key.
LEMMA StoreGrows ==
    ASSUME Typed, NEW r, store' = Append(store, r)
    PROVE  /\ Stored' = Stored \cup {r.id}
           /\ r.keyed = TRUE => Keyed' = Keyed \cup {r.id}
           /\ r.keyed = FALSE => Keyed' = Keyed
<1>1. /\ DOMAIN store' = DOMAIN store \cup {Len(store) + 1}
      /\ Len(store) + 1 \notin DOMAIN store
      /\ store'[Len(store) + 1] = r
      /\ \A i \in DOMAIN store : store'[i] = store[i]
  BY DEF Typed
<1>2. Stored' = Stored \cup {r.id}
  BY <1>1 DEF Stored
<1>3. CASE r.keyed = TRUE
  BY <1>1, <1>2, <1>3 DEF Keyed
<1>4. CASE r.keyed = FALSE
  BY <1>1, <1>2, <1>4 DEF Keyed
<1> QED
  BY <1>2, <1>3, <1>4

\* A step leaves every handler alone, or takes one of them one stage further.
LEMMA Stages ==
    ASSUME TableOK, Typed, [Next]_vars
    PROVE  \/ Quiet
           \/ \E fd \in Sockets :
                 /\ \A g \in Sockets \ {fd} : Same(g)
                 /\ \/ Received(fd) \/ Passed(fd) \/ Saved(fd) \/ Disowned(fd)
                    \/ Looped(fd) \/ Answered(fd)
<1>1. \A g \in Sockets : handler[g] \in HandlerState
  BY DEF Typed
<1>2. ASSUME NEW fd \in Sockets, NEW h, handler' = [handler EXCEPT ![fd] = h]
      PROVE  handler'[fd] = h /\ \A g \in Sockets \ {fd} : Same(g)
  BY <1>2 DEF Typed, Same
<1>3. UNCHANGED inbox => NoNewLine
  BY DEF NoNewLine, Lines
<1>4. UNCHANGED store => SameRecords
  BY DEF SameRecords, Stored, Keyed
<1>5. ASSUME NEW fd \in Sockets, NEW kind, NEW to, Receive(fd, kind, to)
      PROVE  Received(fd) /\ \A g \in Sockets \ {fd} : Same(g)
  <2> DEFINE h == [Idle EXCEPT !.pc = IF SessionOf(fd) = 0 THEN "respond" ELSE "read",
                       !.reply = IF SessionOf(fd) = 0 THEN "not_logged_in" ELSE "none",
                       !.id = sent', !.kind = kind, !.to = to,
                       !.ptr = SessionOf(fd), !.by = acked[fd],
                       !.calm = fd \notin switched]
  <2>1. handler' = [handler EXCEPT ![fd] = h] /\ UNCHANGED <<store, inbox>>
        /\ sent' = sent + 1 /\ handler[fd].pc = "idle"
    BY <1>5 DEF Receive, Busy
  <2>2. /\ h.id = sent'
        /\ \/ h.pc = "respond" /\ h.reply = "not_logged_in"
           \/ h.pc = "read"
    BY DEF Idle
  <2> HIDE DEF h
  <2> QED
    BY <1>2, <1>3, <1>4, <2>1, <2>2 DEF Received
<1>6. ASSUME NEW fd \in Sockets, ReadSender(fd) \/ SaveFails(fd)
      PROVE  Passed(fd) /\ \A g \in Sockets \ {fd} : Same(g)
  <2>1. CASE ReadSender(fd)
    <3> DEFINE h == [handler[fd] EXCEPT !.pc = "save", !.from = CurrentUser(fd)]
    <3>1. handler' = [handler EXCEPT ![fd] = h] /\ UNCHANGED <<sent, store, inbox>>
          /\ handler[fd].pc = "read"
      BY <2>1 DEF ReadSender
    <3>2. h.pc = "save" /\ h.id = handler[fd].id
      BY <1>1 DEF HandlerState
    <3> HIDE DEF h
    <3> QED
      BY <1>2, <1>3, <1>4, <3>1, <3>2 DEF Passed
  <2>2. CASE SaveFails(fd)
    <3> DEFINE h == [handler[fd] EXCEPT !.pc = "respond", !.reply = "fail"]
    <3>1. handler' = [handler EXCEPT ![fd] = h] /\ UNCHANGED <<sent, store, inbox>>
          /\ handler[fd].pc = "save"
      BY <2>2 DEF SaveFails
    <3>2. h.pc = "respond" /\ h.reply = "fail" /\ h.id = handler[fd].id
      BY <1>1 DEF HandlerState
    <3> HIDE DEF h
    <3> QED
      BY <1>2, <1>3, <1>4, <3>1, <3>2 DEF Passed
  <2> QED
    BY <1>6, <2>1, <2>2
<1>7. ASSUME NEW fd \in Sockets, Save(fd)
      PROVE  Saved(fd) /\ \A g \in Sockets \ {fd} : Same(g)
  <2> DEFINE me == handler[fd]
             h == [me EXCEPT !.pc = IF me.kind = "dm" THEN "next" ELSE "members",
                          !.reply = "success", !.todo = {me.to} \ {NoUser},
                          !.steady = Reachable]
  <2>1. handler' = [handler EXCEPT ![fd] = h] /\ UNCHANGED <<sent, inbox>>
        /\ me.pc = "save" /\ store' = Append(store, Record(me, TRUE))
    BY <1>7 DEF Save
  <2>2. h.pc \in {"next", "members"} /\ h.reply = "success" /\ h.id = me.id
    BY <1>1 DEF HandlerState
  <2> HIDE DEF h
  <2>3. Record(me, TRUE).id = me.id /\ Record(me, TRUE).keyed = TRUE
    BY DEF Record
  <2>4. Stored' = Stored \cup {me.id} /\ Keyed' = Keyed \cup {me.id}
    BY <2>1, <2>3, StoreGrows
  <2> QED
    BY <1>2, <1>3, <2>1, <2>2, <2>4 DEF Saved
<1>11. ASSUME NEW fd \in Sockets, SaveUnderKeyZero(fd)
      PROVE  Disowned(fd) /\ \A g \in Sockets \ {fd} : Same(g)
  <2> DEFINE me == handler[fd]
             h == [me EXCEPT !.pc = "respond", !.reply = "fail"]
  <2>1. handler' = [handler EXCEPT ![fd] = h] /\ UNCHANGED <<sent, inbox>>
        /\ me.pc = "save" /\ store' = Append(store, Record(me, FALSE))
    BY <1>11 DEF SaveUnderKeyZero
  <2>2. h.pc = "respond" /\ h.reply = "fail" /\ h.id = me.id
    BY <1>1 DEF HandlerState
  <2> HIDE DEF h
  <2>3. Record(me, FALSE).id = me.id /\ Record(me, FALSE).keyed = FALSE
    BY DEF Record
  <2>4. Stored' = Stored \cup {me.id} /\ Keyed' = Keyed
    BY <2>1, <2>3, StoreGrows
  <2> QED
    BY <1>2, <1>3, <2>1, <2>2, <2>4 DEF Disowned
<1>8. ASSUME NEW fd \in Sockets,
             FindSocket(fd) \/ ReadMembers(fd) \/ \E u \in Users : NextReceiver(fd, u)
      PROVE  Looped(fd) /\ \A g \in Sockets \ {fd} : Same(g)
  <2> DEFINE me == handler[fd]
  <2>1. ASSUME NEW h, handler' = [handler EXCEPT ![fd] = h], Forwarding(me), Forwarding(h),
               h.id = me.id, h.reply = me.reply, UNCHANGED <<sent, store, inbox>>
        PROVE  Looped(fd) /\ \A g \in Sockets \ {fd} : Same(g)
    BY <1>2, <1>3, <1>4, <2>1 DEF Looped, NoNewLine, NewLine
  <2>2. CASE FindSocket(fd)
    <3> DEFINE s == SM!GetSocket(sessions, me.to)
               h == IF s = NoSocket THEN [me EXCEPT !.pc = "next"]
                    ELSE [me EXCEPT !.pc = "forward", !.target = s, !.fresh = TRUE]
    <3>1. handler' = [handler EXCEPT ![fd] = h] /\ UNCHANGED <<sent, store, inbox>>
          /\ me.pc = "lookup"
      BY <2>2 DEF FindSocket
    <3>2. Forwarding(h) /\ h.id = me.id /\ h.reply = me.reply
      BY <1>1 DEF Forwarding, HandlerState
    <3> HIDE DEF h
    <3> QED
      BY <2>1, <3>1, <3>2 DEF Forwarding
  <2>3. ASSUME NEW u \in Users, NextReceiver(fd, u)
        PROVE  Looped(fd) /\ \A g \in Sockets \ {fd} : Same(g)
    <3> DEFINE h == IF me.kind = "group" /\ u = CurrentUser(fd)
                    THEN [me EXCEPT !.todo = @ \ {u}]
                    ELSE [me EXCEPT !.pc = "lookup", !.to = u, !.todo = @ \ {u}]
    <3>1. handler' = [handler EXCEPT ![fd] = h] /\ UNCHANGED <<sent, store, inbox>>
          /\ me.pc = "next"
      BY <2>3 DEF NextReceiver
    <3>2. Forwarding(h) /\ h.id = me.id /\ h.reply = me.reply
      BY <1>1, <3>1 DEF Forwarding, HandlerState
    <3> HIDE DEF h
    <3> QED
      BY <2>1, <3>1, <3>2 DEF Forwarding
  <2>4. CASE ReadMembers(fd)
    <3>1. PICK listed \in BOOLEAN :
             handler' = [handler EXCEPT ![fd] =
                [me EXCEPT !.pc = "next", !.listed = listed,
                           !.todo = IF listed THEN Members ELSE {}]]
      BY <2>4 DEF ReadMembers
    <3> DEFINE h == [me EXCEPT !.pc = "next", !.listed = listed,
                               !.todo = IF listed THEN Members ELSE {}]
    <3>2. handler' = [handler EXCEPT ![fd] = h] /\ UNCHANGED <<sent, store, inbox>>
          /\ me.pc = "members"
      BY <2>4, <3>1 DEF ReadMembers
    <3>3. Forwarding(h) /\ h.id = me.id /\ h.reply = me.reply
      BY <1>1 DEF Forwarding, HandlerState
    <3> HIDE DEF h
    <3> QED
      BY <2>1, <3>2, <3>3 DEF Forwarding
  <2> QED
    BY <1>8, <2>2, <2>3, <2>4
<1>9. ASSUME NEW fd \in Sockets, Forward(fd)
      PROVE  Looped(fd) /\ \A g \in Sockets \ {fd} : Same(g)
  <2> DEFINE me == handler[fd]
             h == [me EXCEPT !.pc = "next", !.target = NoSocket]
  <2>1. handler' = [handler EXCEPT ![fd] = h] /\ UNCHANGED <<sent, store>>
        /\ me.pc = "forward" /\ Write(me.target, Forwarded(fd))
    BY <1>9 DEF Forward, Forwarded
  <2>2. h.pc = "next" /\ h.id = me.id /\ h.reply = me.reply
    BY <1>1 DEF HandlerState
  <2>3. me.target \in Sockets /\ Forwarded(fd) \in Line
    BY <2>1, LinesTyped DEF Typed
  <2>4. \A f \in Sockets : Lines(f)' \subseteq Lines(f) \cup {Forwarded(fd)}
    BY <2>1, <2>3, WriteFacts DEF Typed
  <2>5. NewLine(me.kind, me.id)
    BY <2>4 DEF NewLine, Forwarded
  <2> HIDE DEF h
  <2> QED
    BY <1>2, <1>4, <2>1, <2>2, <2>5 DEF Looped, Forwarding
<1>10. ASSUME NEW fd \in Sockets, Respond(fd)
       PROVE  Answered(fd) /\ \A g \in Sockets \ {fd} : Same(g)
  <2> DEFINE me == handler[fd]
  <2>1. handler' = [handler EXCEPT ![fd] = Idle] /\ UNCHANGED <<sent, store>>
        /\ me.pc \in {"respond", "next"} /\ Write(fd, Reply(fd))
    BY <1>10 DEF Respond, Reply, Done
  <2>2. Idle.pc = "idle"
    BY DEF Idle
  <2>3. Reply(fd) \in Line
    BY LinesTyped
  <2>4. \A f \in Sockets : Lines(f)' \subseteq Lines(f) \cup {Reply(fd)}
    BY <2>1, <2>3, WriteFacts DEF Typed
  <2>5. NewLine(me.reply, me.id)
    BY <2>4 DEF NewLine, Reply
  <2> QED
    BY <1>2, <1>4, <2>1, <2>2, <2>5 DEF Answered
<1> QED
  BY <1>5, <1>6, <1>7, <1>8, <1>9, <1>10, <1>11, ConnectionsQuiet DEF Next, Step

\* A message that a handler serves, by the stage it is in: known to nobody else,
\* under a key of its own from the save on, and under the key 0 only when the save is
\* taken for a failure.
Told(h, S, K) ==
    h.pc # "idle" =>
       /\ h.id <= sent
       /\ h.id \in K <=> Forwarding(h)
       /\ h.id \in S => Forwarding(h) \/ (h.pc = "respond" /\ h.reply = "fail")
       /\ Forwarding(h) => h.reply = "success"
       /\ h.pc = "respond" => h.reply \in {"fail", "not_logged_in"}

\* A line tells what the store has.
TrueLine(l, S, K) == IF l.what \in Kinds THEN l.id \in K
                     ELSE /\ l.what = "success" <=> l.id \in K
                          /\ l.what = "not_logged_in" => l.id \notin S

IdentityInv ==
    /\ \A m \in Stored : m <= sent
    /\ \A fd \in Sockets : Told(handler[fd], Stored, Keyed)
    /\ \A f, g \in Sockets : Busy(f) /\ Busy(g) /\ handler[f].id = handler[g].id => f = g
    /\ \A fd \in Sockets : \A l \in Lines(fd) :
          /\ l.id <= sent
          /\ TrueLine(l, Stored, Keyed)
          /\ l.what \in Kinds \/ \A g \in Sockets : Busy(g) => handler[g].id # l.id

\* Any step keeps what is known of the identifiers and of the replies.
LEMMA NextIdentity == TableOK /\ Typed /\ IdentityInv /\ [Next]_vars => IdentityInv'
<1> SUFFICES ASSUME TableOK, Typed, IdentityInv, [Next]_vars PROVE IdentityInv'
  OBVIOUS
<1>1. \A g \in Sockets : handler[g] \in HandlerState
  BY DEF Typed
<1>2. \A g \in Sockets : handler[g].kind \in Kinds /\ handler[g].reply \notin Kinds
                         /\ handler[g].id \in Nat
  BY <1>1 DEF HandlerState, Kinds
<1>3. sent \in Nat
  BY DEF Typed
<1>4. \A m \in Stored : m \in Nat
  <2>1. \A i \in DOMAIN store : store[i] \in StoredMessage
    BY DEF Typed
  <2> QED
    BY <2>1 DEF Stored, StoredMessage
<1>5. \A f \in Sockets : \A l \in Lines(f) : l.id \in Nat
  <2>1. \A f \in Sockets : \A i \in DOMAIN inbox[f] : inbox[f][i] \in Line
    BY DEF Typed
  <2> QED
    BY <2>1 DEF Lines, Line
<1>0. Keyed \subseteq Stored
  BY DEF Keyed, Stored
<1>6. CASE Quiet
  BY <1>6 DEF IdentityInv, Quiet, NoNewLine, SameRecords, Same, Told, Busy, Forwarding
<1>7. ASSUME NEW fd \in Sockets, \A g \in Sockets \ {fd} : Same(g), Received(fd)
      PROVE  IdentityInv'
  <2>1. /\ sent' = sent + 1 /\ Stored' = Stored /\ Keyed' = Keyed
        /\ \A f \in Sockets : Lines(f)' \subseteq Lines(f)
    BY <1>7 DEF Received, NoNewLine, SameRecords
  <2>2. \A m \in Stored' : m <= sent'
    BY <1>3, <1>4, <2>1 DEF IdentityInv
  <2>3. \A g \in Sockets : Told(handler[g], Stored, Keyed)'
    BY <1>0, <1>2, <1>3, <1>4, <1>7, <2>1 DEF IdentityInv, Told, Forwarding, Same, Received
  <2>4. \A g \in Sockets \ {fd} : Busy(g)' => handler'[g].id # handler'[fd].id
    BY <1>2, <1>3, <1>7 DEF IdentityInv, Told, Same, Received, Busy
  <2>5. \A f, g \in Sockets : (Busy(f) /\ Busy(g) /\ handler[f].id = handler[g].id)' => f = g
    BY <1>7, <2>4 DEF IdentityInv, Same, Busy
  <2>6. ASSUME NEW f \in Sockets, NEW l \in Lines(f)'
        PROVE  /\ l.id <= sent'
               /\ TrueLine(l, Stored, Keyed)'
               /\ l.what \in Kinds \/ \A g \in Sockets : Busy(g)' => handler'[g].id # l.id
    <3>1. l.id \in Nat /\ l.id <= sent /\ TrueLine(l, Stored, Keyed)
          /\ (l.what \in Kinds \/ \A g \in Sockets : Busy(g) => handler[g].id # l.id)
      BY <1>5, <2>1 DEF IdentityInv
    <3> QED
      BY <1>3, <1>7, <2>1, <3>1 DEF Same, Busy, Received, TrueLine
  <2> QED
    BY <2>2, <2>3, <2>5, <2>6 DEF IdentityInv
<1>8. ASSUME NEW fd \in Sockets, \A g \in Sockets \ {fd} : Same(g), Passed(fd)
      PROVE  IdentityInv'
  <2>1. /\ sent' = sent /\ SameRecords
        /\ \A f \in Sockets : Lines(f)' \subseteq Lines(f)
    BY <1>8 DEF Passed, NoNewLine, SameRecords
  <2>2. \A g \in Sockets : Busy(g)' => Busy(g) /\ handler'[g].id = handler[g].id
    BY <1>8 DEF Same, Busy, Passed
  <2>3. \A g \in Sockets : Told(handler[g], Stored, Keyed)'
    BY <1>8, <2>1 DEF IdentityInv, Told, Forwarding, Same, Passed, SameRecords
  <2> QED
    BY <2>1, <2>2, <2>3 DEF IdentityInv, TrueLine, SameRecords
<1>9. ASSUME NEW fd \in Sockets, \A g \in Sockets \ {fd} : Same(g), Saved(fd)
      PROVE  IdentityInv'
  <2>1. /\ sent' = sent /\ Stored' = Stored \cup {handler[fd].id}
        /\ Keyed' = Keyed \cup {handler[fd].id}
        /\ \A f \in Sockets : Lines(f)' \subseteq Lines(f)
        /\ Busy(fd)
    BY <1>9 DEF Saved, NoNewLine, Busy
  <2>2. \A g \in Sockets : Busy(g)' => Busy(g) /\ handler'[g].id = handler[g].id
    BY <1>9 DEF Same, Busy, Saved
  <2>3. \A m \in Stored' : m <= sent'
    BY <2>1 DEF IdentityInv, Told, Busy
  <2>4. Told(handler[fd], Stored, Keyed)'
    BY <1>9, <2>1 DEF IdentityInv, Told, Forwarding, Saved
  <2>5. ASSUME NEW g \in Sockets \ {fd} PROVE Told(handler[g], Stored, Keyed)'
    <3>1. Busy(g) => handler[g].id # handler[fd].id
      BY <2>1 DEF IdentityInv
    <3> QED
      BY <1>9, <2>1, <3>1 DEF IdentityInv, Told, Forwarding, Same, Busy
  <2>6. ASSUME NEW f \in Sockets, NEW l \in Lines(f)'
        PROVE  /\ l.id <= sent'
               /\ TrueLine(l, Stored, Keyed)'
               /\ l.what \in Kinds \/ \A g \in Sockets : Busy(g)' => handler'[g].id # l.id
    <3>1. l.id <= sent /\ TrueLine(l, Stored, Keyed)
          /\ (l.what \in Kinds \/ \A g \in Sockets : Busy(g) => handler[g].id # l.id)
      BY <2>1 DEF IdentityInv
    <3> QED
      BY <2>1, <2>2, <3>1 DEF TrueLine
  <2>7. \A f, g \in Sockets : (Busy(f) /\ Busy(g) /\ handler[f].id = handler[g].id)' => f = g
    BY <2>2 DEF IdentityInv
  <2> QED
    BY <2>3, <2>4, <2>5, <2>6, <2>7 DEF IdentityInv
<1>13. ASSUME NEW fd \in Sockets, \A g \in Sockets \ {fd} : Same(g), Disowned(fd)
      PROVE  IdentityInv'
  <2>1. /\ sent' = sent /\ Stored' = Stored \cup {handler[fd].id}
        /\ Keyed' = Keyed
        /\ \A f \in Sockets : Lines(f)' \subseteq Lines(f)
        /\ Busy(fd)
    BY <1>13 DEF Disowned, NoNewLine, Busy
  <2>2. \A g \in Sockets : Busy(g)' => Busy(g) /\ handler'[g].id = handler[g].id
    BY <1>13 DEF Same, Busy, Disowned
  <2>3. \A m \in Stored' : m <= sent'
    BY <2>1 DEF IdentityInv, Told, Busy
  <2>4. Told(handler[fd], Stored, Keyed)'
    BY <1>13, <2>1 DEF IdentityInv, Told, Forwarding, Disowned
  <2>5. ASSUME NEW g \in Sockets \ {fd} PROVE Told(handler[g], Stored, Keyed)'
    <3>1. Busy(g) => handler[g].id # handler[fd].id
      BY <2>1 DEF IdentityInv
    <3> QED
      BY <1>13, <2>1, <3>1 DEF IdentityInv, Told, Forwarding, Same, Busy
  <2>6. ASSUME NEW f \in Sockets, NEW l \in Lines(f)'
        PROVE  /\ l.id <= sent'
               /\ TrueLine(l, Stored, Keyed)'
               /\ l.what \in Kinds \/ \A g \in Sockets : Busy(g)' => handler'[g].id # l.id
    <3>1. l.id <= sent /\ TrueLine(l, Stored, Keyed)
          /\ (l.what \in Kinds \/ \A g \in Sockets : Busy(g) => handler[g].id # l.id)
      BY <2>1 DEF IdentityInv
    <3> QED
      BY <2>1, <2>2, <3>1 DEF TrueLine
  <2>7. \A f, g \in Sockets : (Busy(f) /\ Busy(g) /\ handler[f].id = handler[g].id)' => f = g
    BY <2>2 DEF IdentityInv
  <2> QED
    BY <2>3, <2>4, <2>5, <2>6, <2>7 DEF IdentityInv
<1>10. ASSUME NEW fd \in Sockets, \A g \in Sockets \ {fd} : Same(g),
              NEW what, NewLine(what, handler[fd].id), TrueLine([what |-> what, id |-> handler[fd].id], Stored, Keyed),
              what \in Kinds \/ ~Busy(fd)', Busy(fd),
              Busy(fd)' => handler'[fd].id = handler[fd].id,
              Told(handler[fd], Stored, Keyed)',
              sent' = sent, SameRecords
       PROVE  IdentityInv'
  <2>1. \A g \in Sockets : Busy(g)' => Busy(g) /\ handler'[g].id = handler[g].id
    BY <1>10 DEF Same, Busy
  <2>2. \A g \in Sockets : Told(handler[g], Stored, Keyed)'
    BY <1>10 DEF IdentityInv, Told, Forwarding, Same, SameRecords
  <2>3. ASSUME NEW f \in Sockets, NEW l \in Lines(f)'
        PROVE  /\ l.id <= sent'
               /\ TrueLine(l, Stored, Keyed)'
               /\ l.what \in Kinds \/ \A g \in Sockets : Busy(g)' => handler'[g].id # l.id
    <3>1. CASE l \in Lines(f)
      BY <1>10, <2>1, <3>1 DEF IdentityInv, TrueLine, SameRecords
    <3>2. CASE l \notin Lines(f)
      <4>1. l.what = what /\ l.id = handler[fd].id
        BY <1>10, <3>2 DEF NewLine
      <4>2. l.id <= sent
        BY <1>10, <4>1 DEF IdentityInv, Told, Busy
      <4>3. TrueLine(l, Stored, Keyed)
        BY <1>10, <4>1 DEF TrueLine
      <4>4. what \in Kinds \/ \A g \in Sockets : Busy(g)' => handler'[g].id # handler[fd].id
        BY <1>10, <2>1 DEF IdentityInv
      <4> QED
        BY <1>10, <4>1, <4>2, <4>3, <4>4 DEF TrueLine, SameRecords
    <3> QED
      BY <3>1, <3>2
  <2> QED
    BY <1>10, <2>1, <2>2, <2>3 DEF IdentityInv, SameRecords
<1>11. ASSUME NEW fd \in Sockets, \A g \in Sockets \ {fd} : Same(g), Looped(fd)
       PROVE  IdentityInv'
  <2>1. Busy(fd) /\ handler[fd].id \in Keyed /\ handler[fd].reply = "success"
    BY <1>11 DEF IdentityInv, Told, Looped, Forwarding, Busy
  <2>2. TrueLine([what |-> handler[fd].kind, id |-> handler[fd].id], Stored, Keyed)
    BY <1>2, <2>1 DEF TrueLine
  <2>3. Told(handler[fd], Stored, Keyed)'
    BY <1>11, <2>1 DEF IdentityInv, Told, Forwarding, Looped, SameRecords
  <2> QED
    BY <1>2, <1>10, <1>11, <2>1, <2>2, <2>3 DEF Looped
<1>12. ASSUME NEW fd \in Sockets, \A g \in Sockets \ {fd} : Same(g), Answered(fd)
       PROVE  IdentityInv'
  <2>1. Busy(fd) /\ ~Busy(fd)' /\ Told(handler[fd], Stored, Keyed)'
    BY <1>12 DEF Answered, Busy, Told
  <2>2. TrueLine([what |-> handler[fd].reply, id |-> handler[fd].id], Stored, Keyed)
    BY <1>2, <1>12 DEF TrueLine, IdentityInv, Told, Forwarding, Answered
  <2> QED
    BY <1>10, <1>12, <2>1, <2>2 DEF Answered
<1> QED
  BY <1>6, <1>7, <1>8, <1>9, <1>11, <1>12, <1>13, Stages

\* A client reads SUCCESS when its message is in the store under a key of its own and
\* only then, reads NOT_LOGGED_IN only when it is not there at all, and nothing is
\* forwarded that does not have its key, however the handlers interleave.
THEOREM RepliesTellTheTruth == Spec => []ReplyTellsTheTruth
<1>1. Init => IdentityInv
  BY DEF Init, Idle, IdentityInv, Told, Busy, Lines, Stored, Keyed
<1>2. IdentityInv => ReplyTellsTheTruth
  BY DEF IdentityInv, TrueLine, ReplyTellsTheTruth, Replies, Forwards
<1> QED
  BY <1>1, <1>2, TypeCorrect, NextIdentity, PTL DEF Spec

-----------------------------------------------------------------------------
(***************************************************************************)
(* Nobody who stays on line is passed over                                 *)
(***************************************************************************)

\* What somebody was sent stays sent while the connection is the same, so that a
\* handler which the step leaves alone, or only tells of users who went, keeps its
\* promise.
LEMMA KeptBesides ==
    ASSUME NEW h, NEW k, Kept(h),
           k.pc = h.pc, k.id = h.id, k.kind = h.kind, k.to = h.to, k.todo = h.todo,
           k.target = h.target, k.by = h.by, k.calm => h.calm, k.listed = h.listed,
           k.steady \subseteq h.steady,
           \A u \in k.steady : /\ Live(SocketOf(u)) =>
                                    /\ SocketOf(u)' = SocketOf(u)
                                    /\ SocketOf(u) \notin gone' /\ conn'[SocketOf(u)] = "open"
                               /\ Live(SocketOf(u)) =>
                                    Lines(SocketOf(u)) \subseteq Lines(SocketOf(u))'
    PROVE  Kept(k)'
<1> SUFFICES ASSUME Forwarding(k)
             PROVE  /\ k.pc = "members" => k.kind = "group"
                    /\ \A u \in k.steady : Live(SocketOf(u))'
                    /\ k.kind = "dm" => k.todo \subseteq {k.to}
                    /\ k.pc = "forward" /\ k.to \in k.steady => k.target = SocketOf(k.to)'
                    /\ k.kind = "dm" \/ (k.calm /\ k.listed) =>
                          \A u \in k.steady \cap Awaited(k) :
                             \/ k.pc = "members" \/ u \in k.todo
                             \/ k.pc \in {"lookup", "forward"} /\ k.to = u
                             \/ Served(k.id, u)'
  BY DEF Kept, Forwarding, Awaited
<1>1. Forwarding(h) /\ Awaited(k) = Awaited(h)
  BY DEF Forwarding, Awaited
<1>2. \A u \in k.steady : Live(SocketOf(u))
  BY <1>1 DEF Kept
<1>3. \A u \in k.steady : SocketOf(u)' = SocketOf(u) /\ Live(SocketOf(u))'
  <2> TAKE u \in k.steady
  <2>1. /\ SocketOf(u)' = SocketOf(u)
        /\ SocketOf(u) \notin gone' /\ conn'[SocketOf(u)] = "open"
    BY <1>2
  <2>2. SocketOf(u) \in Sockets
    BY <1>2 DEF Live
  <2> QED
    BY <2>1, <2>2 DEF Live
<1>4. ASSUME NEW u \in k.steady, Served(h.id, u) PROVE Served(k.id, u)'
  <2>1. PICK l \in Forwards(SocketOf(u)) : l.id = h.id /\ l.to = u
    BY <1>4 DEF Served
  <2>2. l \in Forwards(SocketOf(u))'
    BY <1>2, <2>1 DEF Forwards
  <2> QED
    BY <2>1, <2>2 DEF Served
<1> QED
  BY <1>1, <1>2, <1>3, <1>4 DEF Kept

\* Any step keeps that no receiver with a steady session was passed over.
LEMMA NextSkipped ==
    TableOK /\ TableOK' /\ Typed /\ PointerOfClient /\ NobodySkipped /\ [Next]_vars
      => NobodySkipped'
<1> SUFFICES ASSUME TableOK, TableOK', Typed, PointerOfClient, NobodySkipped, [Next]_vars
             PROVE  NobodySkipped'
  OBVIOUS
<1>1. \A g \in Sockets : Kept(handler[g])
  BY DEF NobodySkipped
<1>2. \A g \in Sockets : handler[g] \in HandlerState
  BY DEF Typed
<1>3. \A u : SocketOf(u) \in Sockets \cup {NoSocket}
  BY SocketFacts DEF SocketOf
\* The connections and the table.
<1>4. ASSUME NEW k, NEW h, Kept(h), h \in HandlerState,
             \/ k = h \/ k = [h EXCEPT !.calm = FALSE] \/ k = [h EXCEPT !.fresh = FALSE]
             \/ \E U : k = [h EXCEPT !.steady = @ \ U],
             \A u \in k.steady : Live(SocketOf(u)) =>
                                 /\ SocketOf(u)' = SocketOf(u)
                                 /\ SocketOf(u) \notin gone' /\ conn'[SocketOf(u)] = "open"
                                 /\ Lines(SocketOf(u)) \subseteq Lines(SocketOf(u))'
      PROVE  Kept(k)'
  <2>1. /\ k.pc = h.pc /\ k.id = h.id /\ k.kind = h.kind /\ k.to = h.to /\ k.todo = h.todo
        /\ k.target = h.target /\ k.by = h.by /\ (k.calm => h.calm) /\ k.listed = h.listed
        /\ k.steady \subseteq h.steady
    BY <1>4 DEF HandlerState
  <2> QED
    BY <1>4, <2>1, KeptBesides
<1>5. UNCHANGED sessions => \A u : SocketOf(u)' = SocketOf(u)
  BY DEF SocketOf, SM!GetSocket, SM!OfUser, SM!First
<1>6. UNCHANGED inbox => \A u : SocketOf(u)' = SocketOf(u) =>
                                  Lines(SocketOf(u)) \subseteq Lines(SocketOf(u))'
  BY DEF Lines
<1>7. CASE UNCHANGED vars
  <2>1. UNCHANGED <<sessions, conn, gone, inbox, handler>>
    BY <1>7 DEF vars
  <2> QED
    BY <1>1, <1>2, <1>4, <1>5, <1>6, <2>1 DEF NobodySkipped, Live
<1>8. ASSUME NEW fd \in Sockets, Accept(fd) PROVE NobodySkipped'
  <2>1. UNCHANGED <<sessions, gone, handler>> /\ conn[fd] = "closed"
        /\ inbox' = [inbox EXCEPT ![fd] = <<>>] /\ conn' = [conn EXCEPT ![fd] = "open"]
    BY <1>8 DEF Accept, SM!Accept
  <2>2. ASSUME NEW u, Live(SocketOf(u))
        PROVE  /\ Lines(SocketOf(u)) \subseteq Lines(SocketOf(u))'
               /\ SocketOf(u) \notin gone' /\ conn'[SocketOf(u)] = "open"
    <3>1. PICK s \in Sockets : s = SocketOf(u)
      BY <2>2 DEF Live
    <3>2. s # fd /\ s \notin gone /\ conn[s] = "open"
      BY <2>1, <2>2, <3>1 DEF Live
    <3>3. Lines(s)' = Lines(s) /\ conn'[s] = "open"
      BY <2>1, <3>2 DEF Lines, Typed, TableOK, TableTyped
    <3> QED
      BY <1>5, <2>1, <3>1, <3>2, <3>3 DEF Lines
  <2> QED
    BY <1>1, <1>2, <1>4, <1>5, <2>1, <2>2 DEF NobodySkipped
<1>9. ASSUME NEW fd \in Sockets, NEW v \in Users, Login(v, fd) PROVE NobodySkipped'
  <2>1. UNCHANGED <<gone, inbox, conn>>
        /\ \A g \in Sockets : handler'[g] = [handler[g] EXCEPT !.steady = @ \ {v}]
    BY <1>9 DEF Login, SM!Login
  <2>2. \A u \in Users \ {v} : SocketOf(u)' = SocketOf(u)
    BY <1>9, LoginFacts DEF SocketOf
  <2>3. \A g \in Sockets : \A u \in handler'[g].steady : u \in Users \ {v}
    <3> TAKE g \in Sockets
    <3>1. handler'[g].steady = handler[g].steady \ {v} /\ handler[g].steady \subseteq Users
      BY <1>2, <2>1 DEF HandlerState
    <3> QED
      BY <3>1
  <2> QED
    BY <1>1, <1>2, <1>4, <1>6, <2>1, <2>2, <2>3 DEF NobodySkipped, Live
<1>10. ASSUME NEW fd \in Sockets, ClientCloses(fd) PROVE NobodySkipped'
  <2>1. UNCHANGED <<sessions, inbox, conn>> /\ gone' = gone \cup {fd}
        /\ \A g \in Sockets : handler'[g] = [handler[g] EXCEPT !.steady = @ \ OnlineAt(fd)]
    BY <1>10 DEF ClientCloses
  <2>2. \A g \in Sockets : \A u \in handler'[g].steady : u \in Users /\ u \notin OnlineAt(fd)
    <3> TAKE g \in Sockets
    <3>1. /\ handler'[g].steady = handler[g].steady \ OnlineAt(fd)
          /\ handler[g].steady \subseteq Users
      BY <1>2, <2>1 DEF HandlerState
    <3> QED
      BY <3>1
  <2>3. \A u \in Users : u \notin OnlineAt(fd) => SocketOf(u) # fd
    BY DEF OnlineAt, SocketOf
  <2> QED
    BY <1>1, <1>2, <1>4, <1>5, <1>6, <2>1, <2>2, <2>3 DEF NobodySkipped, Live
<1>11. ASSUME NEW fd \in Sockets, Disconnect(fd) PROVE NobodySkipped'
  <2>1. UNCHANGED <<gone, inbox>> /\ fd \in gone /\ SM!Disconnect(fd)
        /\ conn' = [conn EXCEPT ![fd] = "removed"]
        /\ \A g \in Sockets : \/ handler'[g] = handler[g]
                              \/ handler'[g] = [handler[g] EXCEPT !.calm = FALSE]
    BY <1>11 DEF Disconnect, SM!Disconnect
  <2>2. ASSUME NEW u, Live(SocketOf(u))
        PROVE  SocketOf(u)' = SocketOf(u) /\ conn'[SocketOf(u)] = "open"
    <3>1. SocketOf(u) \in Sockets \ {fd} /\ conn[SocketOf(u)] = "open"
      BY <2>1, <2>2 DEF Live
    <3>2. SocketOf(u)' = SocketOf(u)
      BY <2>1, <3>1, DisconnectFacts DEF SocketOf
    <3>3. \A t \in Sockets \ {fd} : conn'[t] = conn[t]
      BY <2>1 DEF TableOK, TableTyped
    <3> QED
      BY <3>1, <3>2, <3>3
  <2> QED
    BY <1>1, <1>2, <1>4, <1>6, <2>1, <2>2 DEF NobodySkipped, Live
<1>12. ASSUME NEW fd \in Sockets, Close(fd) PROVE NobodySkipped'
  <2>1. UNCHANGED <<sessions, inbox>> /\ gone' = gone \ {fd}
        /\ conn[fd] = "removed" /\ conn' = [conn EXCEPT ![fd] = "closed"]
        /\ \A g \in Sockets : \/ handler'[g] = handler[g]
                              \/ handler'[g] = [handler[g] EXCEPT !.fresh = FALSE]
    BY <1>12 DEF Close, SM!Close
  <2>2. ASSUME NEW u, Live(SocketOf(u))
        PROVE  SocketOf(u) \notin gone' /\ conn'[SocketOf(u)] = "open"
    <3>1. /\ SocketOf(u) \in Sockets \ {fd} /\ conn[SocketOf(u)] = "open"
          /\ SocketOf(u) \notin gone
      BY <2>1, <2>2 DEF Live
    <3>2. \A t \in Sockets \ {fd} : conn'[t] = conn[t]
      BY <2>1 DEF TableOK, TableTyped
    <3> QED
      BY <2>1, <3>1, <3>2
  <2> QED
    BY <1>1, <1>2, <1>4, <1>5, <1>6, <2>1, <2>2 DEF NobodySkipped
\* A handler at work: the others keep their promises.
<1>13. ASSUME NEW fd \in Sockets, NEW k, handler' = [handler EXCEPT ![fd] = k],
              UNCHANGED <<sessions, conn, gone>>,
              \A f \in Sockets : Lines(f) \subseteq Lines(f)',
              Kept(k)'
       PROVE  NobodySkipped'
  <2>1. handler'[fd] = k /\ \A g \in Sockets \ {fd} : handler'[g] = handler[g]
    BY <1>13 DEF Typed
  <2>2. \A u : SocketOf(u)' = SocketOf(u)
    BY <1>5, <1>13
  <2>3. ASSUME NEW g \in Sockets \ {fd} PROVE Kept(handler[g])'
    <3>1. PICK h : h = handler[g] /\ h = handler'[g]
      BY <2>1
    <3>2. Kept(h)'
      <4>1. ASSUME NEW u, Live(SocketOf(u))
            PROVE  /\ SocketOf(u)' = SocketOf(u)
                   /\ SocketOf(u) \notin gone' /\ conn'[SocketOf(u)] = "open"
                   /\ Lines(SocketOf(u)) \subseteq Lines(SocketOf(u))'
        <5>1. PICK f \in Sockets : f = SocketOf(u)
          BY <4>1 DEF Live
        <5>2. Lines(f) \subseteq Lines(f)'
          BY <1>13
        <5> QED
          BY <1>13, <2>2, <4>1, <5>1, <5>2 DEF Lines, Live
      <4> QED
        BY <1>1, <1>2, <1>4, <3>1, <4>1
    <3> QED
      BY <3>1, <3>2 DEF Kept, Served, Live
  <2>4. Kept(handler[fd])'
    BY <1>13, <2>1 DEF Kept, Served, Live
  <2> QED
    BY <2>3, <2>4 DEF NobodySkipped
<1>14. ASSUME NEW fd \in Sockets, NEW k, handler' = [handler EXCEPT ![fd] = k],
              UNCHANGED <<sessions, conn, gone>>,
              \A f \in Sockets : Lines(f) \subseteq Lines(f)',
              ~Forwarding(k)
       PROVE  NobodySkipped'
  <2>1. Kept(k)'
    BY <1>14 DEF Kept, Forwarding
  <2> QED
    BY <1>13, <1>14, <2>1
<1>15. UNCHANGED inbox => \A f \in Sockets : Lines(f) \subseteq Lines(f)'
  BY DEF Lines
<1>16. ASSUME NEW fd \in Sockets, NEW kind, NEW to, Receive(fd, kind, to)
       PROVE  NobodySkipped'
  <2> DEFINE h == [Idle EXCEPT !.pc = IF SessionOf(fd) = 0 THEN "respond" ELSE "read",
                       !.reply = IF SessionOf(fd) = 0 THEN "not_logged_in" ELSE "none",
                       !.id = sent', !.kind = kind, !.to = to,
                       !.ptr = SessionOf(fd), !.by = acked[fd],
                       !.calm = fd \notin switched]
  <2>1. handler' = [handler EXCEPT ![fd] = h] /\ UNCHANGED <<sessions, conn, gone, inbox>>
    BY <1>16 DEF Receive
  <2>2. ~Forwarding(h)
    BY DEF Idle, Forwarding
  <2> QED
    BY <1>14, <1>15, <2>1, <2>2
<1>17. ASSUME NEW fd \in Sockets, ReadSender(fd) PROVE NobodySkipped'
  <2> DEFINE h == [handler[fd] EXCEPT !.pc = "save", !.from = CurrentUser(fd)]
  <2>1. handler' = [handler EXCEPT ![fd] = h] /\ UNCHANGED <<sessions, conn, gone, inbox>>
    BY <1>17 DEF ReadSender
  <2>2. ~Forwarding(h)
    BY <1>2 DEF Forwarding, HandlerState
  <2> QED
    BY <1>14, <1>15, <2>1, <2>2
<1>18. ASSUME NEW fd \in Sockets, SaveFails(fd) PROVE NobodySkipped'
  <2> DEFINE h == [handler[fd] EXCEPT !.pc = "respond", !.reply = "fail"]
  <2>1. handler' = [handler EXCEPT ![fd] = h] /\ UNCHANGED <<sessions, conn, gone, inbox>>
    BY <1>18 DEF SaveFails
  <2>2. ~Forwarding(h)
    BY <1>2 DEF Forwarding, HandlerState
  <2> QED
    BY <1>14, <1>15, <2>1, <2>2
<1>26. ASSUME NEW fd \in Sockets, SaveUnderKeyZero(fd) PROVE NobodySkipped'
  <2> DEFINE h == [handler[fd] EXCEPT !.pc = "respond", !.reply = "fail"]
  <2>1. handler' = [handler EXCEPT ![fd] = h] /\ UNCHANGED <<sessions, conn, gone, inbox>>
    BY <1>26 DEF SaveUnderKeyZero
  <2>2. ~Forwarding(h)
    BY <1>2 DEF Forwarding, HandlerState
  <2> QED
    BY <1>14, <1>15, <2>1, <2>2
<1>19. ASSUME NEW fd \in Sockets, Respond(fd) PROVE NobodySkipped'
  <2>1. handler' = [handler EXCEPT ![fd] = Idle] /\ UNCHANGED <<sessions, conn, gone>>
        /\ Write(fd, Reply(fd))
    BY <1>19 DEF Respond, Reply
  <2>2. ~Forwarding(Idle)
    BY DEF Idle, Forwarding
  <2>3. Reply(fd) \in Line
    BY LinesTyped
  <2>4. \A f \in Sockets : Lines(f) \subseteq Lines(f)'
    BY <2>1, <2>3, WriteFacts DEF Typed
  <2> QED
    BY <1>14, <2>1, <2>2, <2>4
\* The message is saved: every receiver is in front of the loop.
<1>20. ASSUME NEW fd \in Sockets, Save(fd) PROVE NobodySkipped'
  <2> DEFINE me == handler[fd]
  <2>0. PICK h : h = [me EXCEPT !.pc = IF me.kind = "dm" THEN "next" ELSE "members",
                          !.reply = "success", !.todo = {me.to} \ {NoUser},
                          !.steady = Reachable]
    OBVIOUS
  <2>1. handler' = [handler EXCEPT ![fd] = h] /\ UNCHANGED <<sessions, conn, gone, inbox>>
    BY <1>20, <2>0 DEF Save
  <2>2. /\ h.pc = IF me.kind = "dm" THEN "next" ELSE "members"
        /\ h.kind = me.kind /\ h.to = me.to /\ h.by = me.by
        /\ h.todo = {me.to} \ {NoUser} /\ h.steady = Reachable /\ me.kind \in Kinds
    BY <1>2, <2>0 DEF HandlerState
  <2>3. \A u \in Reachable : Live(SocketOf(u))
    BY DEF Reachable, OnlineAt, SocketOf, Live
  <2>4. h.kind = "dm" => h.todo \subseteq {h.to}
    BY <2>2
  <2>5. h.pc = "members" \/ \A u \in h.steady \cap Awaited(h) : u \in h.todo
    BY <2>2, ChatAssumption DEF Awaited, Reachable
  <2>6. \A u \in h.steady : Live(SocketOf(u))'
    BY <1>5, <2>1, <2>2, <2>3 DEF Live
  <2>7. /\ h.pc = "members" => h.kind = "group"
        /\ h.pc # "forward"
    BY <2>2 DEF Kinds
  <2>8. Kept(h)'
    BY <2>4, <2>5, <2>6, <2>7 DEF Kept, Awaited
  <2> QED
    BY <1>13, <1>15, <2>1, <2>8
\* The members are read, and every receiver is in front of the loop; or they are not.
<1>25. ASSUME NEW fd \in Sockets, ReadMembers(fd) PROVE NobodySkipped'
  <2> DEFINE me == handler[fd]
  <2>0. PICK listed \in BOOLEAN :
           handler' = [handler EXCEPT ![fd] =
              [me EXCEPT !.pc = "next", !.listed = listed,
                         !.todo = IF listed THEN Members ELSE {}]]
    BY <1>25 DEF ReadMembers
  <2>1. PICK k : k = [me EXCEPT !.pc = "next", !.listed = listed,
                                !.todo = IF listed THEN Members ELSE {}]
    OBVIOUS
  <2>2. handler' = [handler EXCEPT ![fd] = k] /\ UNCHANGED <<sessions, conn, gone, inbox>>
        /\ me.pc = "members"
    BY <1>25, <2>0, <2>1 DEF ReadMembers
  <2>3. /\ k.pc = "next" /\ k.kind = me.kind /\ k.by = me.by /\ k.listed = listed
        /\ k.todo = IF listed THEN Members ELSE {}
        /\ k.steady = me.steady
    BY <1>2, <2>1 DEF HandlerState
  <2>4. me.kind = "group" /\ \A u \in me.steady : Live(SocketOf(u))
    BY <1>1, <2>2 DEF Kept, Forwarding
  <2>5. \A u \in k.steady : Live(SocketOf(u))'
    BY <1>5, <2>2, <2>3, <2>4 DEF Live
  <2>6. k.listed => Awaited(k) \subseteq k.todo
    BY <2>3, <2>4 DEF Awaited
  <2>7. Kept(k)'
    BY <2>3, <2>4, <2>5, <2>6 DEF Kept, Awaited
  <2> QED
    BY <1>13, <1>15, <2>2, <2>7
\* In the loop the sets are taken with primes where the state is that after the step.
<1>21. ASSUME NEW fd \in Sockets, NEW k, NEW u, Forwarding(handler[fd]),
              handler' = [handler EXCEPT ![fd] = k], Forwarding(k),
              UNCHANGED <<sessions, conn, gone>>,
              \A f \in Sockets : Lines(f) \subseteq Lines(f)',
              k.id = handler[fd].id, k.kind = handler[fd].kind, k.by = handler[fd].by,
              k.calm = handler[fd].calm, k.steady = handler[fd].steady,
              k.listed = handler[fd].listed, k.pc # "members", handler[fd].pc # "members",
              k.kind = "dm" => k.to = handler[fd].to,
              k.todo \subseteq handler[fd].todo,
              k.pc = "forward" /\ k.to \in k.steady => k.target = SocketOf(k.to),
              \A v \in handler[fd].todo \ k.todo : v = u,
              handler[fd].pc \in {"lookup", "forward"} => handler[fd].to = u,
              u \in k.steady \cap Awaited(k) /\ (k.kind = "dm" \/ (k.calm /\ k.listed)) =>
                 \/ u \in k.todo
                 \/ k.pc \in {"lookup", "forward"} /\ k.to = u
                 \/ Served(k.id, u)'
       PROVE  NobodySkipped'
  <2> DEFINE me == handler[fd]
  <2>1. /\ \A v \in me.steady : Live(SocketOf(v))
        /\ me.kind = "dm" => me.todo \subseteq {me.to}
        /\ me.kind = "dm" \/ (me.calm /\ me.listed) =>
              \A v \in me.steady \cap Awaited(me) :
                 \/ v \in me.todo
                 \/ me.pc \in {"lookup", "forward"} /\ me.to = v
                 \/ Served(me.id, v)
    BY <1>1, <1>21 DEF Kept
  <2>2. \A v : SocketOf(v)' = SocketOf(v)
    BY <1>5, <1>21
  <2>3. ASSUME NEW v \in me.steady, Served(me.id, v) PROVE Served(k.id, v)'
    <3>1. PICK f \in Sockets : f = SocketOf(v)
      BY <2>1, <2>3 DEF Live
    <3>2. PICK l \in Lines(f) : l.what \in Kinds /\ l.id = me.id /\ l.to = v
      BY <2>3, <3>1 DEF Served, Forwards, Lines
    <3>3. l \in Lines(f)'
      BY <1>21, <3>2
    <3>4. l \in Lines(SocketOf(v))'
      BY <2>2, <3>1, <3>3 DEF Lines
    <3> QED
      BY <1>21, <3>2, <3>4 DEF Served, Forwards
  <2>4. Awaited(k) = Awaited(me)
    BY <1>21 DEF Awaited
  <2>5. ASSUME NEW v \in k.steady \cap Awaited(k), k.kind = "dm" \/ (k.calm /\ k.listed)
        PROVE  \/ v \in k.todo
               \/ k.pc \in {"lookup", "forward"} /\ k.to = v
               \/ Served(k.id, v)'
    BY <1>21, <2>1, <2>3, <2>4, <2>5
  <2>6. \A v \in k.steady : Live(SocketOf(v))'
    BY <1>21, <2>1, <2>2 DEF Live
  <2>7. k.kind = "dm" => k.todo \subseteq {k.to}
    BY <1>21, <2>1
  <2>8. k.pc = "forward" /\ k.to \in k.steady => k.target = SocketOf(k.to)'
    BY <1>21, <2>2
  <2>9. Kept(k)'
    BY <1>21, <2>5, <2>6, <2>7, <2>8 DEF Kept, Awaited
  <2>10. /\ handler' = [handler EXCEPT ![fd] = k] /\ UNCHANGED <<sessions, conn, gone>>
         /\ \A f \in Sockets : Lines(f) \subseteq Lines(f)'
    BY <1>21
  <2> QED
    BY <1>13, <2>9, <2>10
\* The next receiver goes into the body, or is the sender.
<1>22. ASSUME NEW fd \in Sockets, NEW u \in Users, NextReceiver(fd, u) PROVE NobodySkipped'
  <2> DEFINE me == handler[fd]
             skip == me.kind = "group" /\ u = CurrentUser(fd)
             k == IF skip THEN [me EXCEPT !.todo = @ \ {u}]
                  ELSE [me EXCEPT !.pc = "lookup", !.to = u, !.todo = @ \ {u}]
  <2>1. handler' = [handler EXCEPT ![fd] = k] /\ UNCHANGED <<sessions, conn, gone, inbox>>
        /\ me.pc = "next" /\ u \in me.todo
    BY <1>22 DEF NextReceiver
  <2>2. /\ k.id = me.id /\ k.kind = me.kind /\ k.by = me.by /\ k.calm = me.calm
        /\ k.listed = me.listed /\ k.steady = me.steady /\ k.todo = me.todo \ {u}
        /\ k.pc = IF skip THEN "next" ELSE "lookup"
        /\ k.to = IF skip THEN me.to ELSE u
    BY <1>2, <2>1 DEF HandlerState
  <2> HIDE DEF k
  <2>3. Forwarding(me) /\ Forwarding(k)
    BY <2>1, <2>2 DEF Forwarding
  <2>4. k.kind = "dm" => k.to = me.to
    BY <1>1, <2>1, <2>2, <2>3 DEF Kept
  <2>5. me.kind \in Kinds
    BY <1>2 DEF HandlerState
  <2>6. u \in k.steady \cap Awaited(k) /\ (k.kind = "dm" \/ (k.calm /\ k.listed)) =>
           k.pc \in {"lookup", "forward"} /\ k.to = u
    <3>1. CASE ~skip
      BY <2>2, <3>1
    <3>2. CASE skip
      <4>1. me.calm => CurrentUser(fd) = me.by
        BY <2>1 DEF PointerOfClient, Working, CurrentUser
      <4> QED
        BY <2>2, <2>5, <3>2, <4>1 DEF Awaited, Kinds
    <3> QED
      BY <3>1, <3>2
  <2>7. k.todo \subseteq me.todo /\ (\A v \in me.todo \ k.todo : v = u)
        /\ k.pc \notin {"forward", "members"} /\ me.pc \notin {"lookup", "forward", "members"}
    BY <2>1, <2>2
  <2> HIDE DEF skip
  <2> QED
    BY <1>15, <1>21, <2>1, <2>2, <2>3, <2>4, <2>6, <2>7
\* A receiver whose socket is not found was not on line.
<1>23. ASSUME NEW fd \in Sockets, FindSocket(fd) PROVE NobodySkipped'
  <2> DEFINE me == handler[fd]
             u == me.to
             s == SM!GetSocket(sessions, me.to)
             k == IF s = NoSocket THEN [me EXCEPT !.pc = "next"]
                  ELSE [me EXCEPT !.pc = "forward", !.target = s, !.fresh = TRUE]
  <2>1. handler' = [handler EXCEPT ![fd] = k] /\ UNCHANGED <<sessions, conn, gone, inbox>>
        /\ me.pc = "lookup"
    BY <1>23 DEF FindSocket
  <2>2. /\ k.id = me.id /\ k.kind = me.kind /\ k.by = me.by /\ k.calm = me.calm
        /\ k.listed = me.listed /\ k.steady = me.steady /\ k.todo = me.todo /\ k.to = me.to
        /\ k.pc = IF s = NoSocket THEN "next" ELSE "forward"
        /\ k.pc = "forward" => k.target = s
    BY <1>2, <2>1 DEF HandlerState
  <2> HIDE DEF k
  <2>3. Forwarding(me) /\ Forwarding(k)
    BY <2>1, <2>2 DEF Forwarding
  <2>4. u \in me.steady => s \in Sockets
    BY <1>1, <2>3 DEF Kept, SocketOf, Live
  <2>5. u \in k.steady => k.pc = "forward"
    BY <2>2, <2>4, ChatAssumption
  <2>6. k.pc = "forward" => k.target = SocketOf(k.to)
    BY <2>2 DEF SocketOf
  <2> HIDE DEF s
  <2> QED
    BY <1>15, <1>21, <2>1, <2>2, <2>3, <2>5, <2>6
\* A receiver who is on line is written to.
<1>24. ASSUME NEW fd \in Sockets, Forward(fd) PROVE NobodySkipped'
  <2>0. PICK me, u, t, l : me = handler[fd] /\ u = me.to /\ t = me.target /\ l = Forwarded(fd)
    OBVIOUS
  <2>1. PICK k : /\ k = [me EXCEPT !.pc = "next", !.target = NoSocket]
                 /\ handler' = [handler EXCEPT ![fd] = k]
    BY <1>24, <2>0 DEF Forward
  <2>2. UNCHANGED <<sessions, conn, gone>> /\ me.pc = "forward" /\ Write(t, l)
    BY <1>24, <2>0 DEF Forward, Forwarded
  <2>3. /\ k.id = me.id /\ k.kind = me.kind /\ k.by = me.by /\ k.calm = me.calm
        /\ k.listed = me.listed /\ k.steady = me.steady /\ k.todo = me.todo /\ k.to = me.to
        /\ k.pc = "next"
    BY <1>2, <2>0, <2>1 DEF HandlerState
  <2>4. Forwarding(me) /\ Forwarding(k)
    BY <2>2, <2>3 DEF Forwarding
  <2>5. t \in Sockets /\ l \in Line /\ l.what \in Kinds /\ l.id = me.id /\ l.to = u
    BY <2>0, <2>2, LinesTyped, KindsOfLines DEF Typed, Forwarded
  <2>6. /\ \A f \in Sockets : Lines(f) \subseteq Lines(f)'
        /\ conn[t] = "open" /\ t \notin gone => l \in Lines(t)'
    BY <2>2, <2>5, WriteFacts DEF Typed
  <2>7. ASSUME u \in me.steady PROVE Served(me.id, u)'
    <3>1. t = SocketOf(u) /\ Live(t)
      BY <1>1, <2>0, <2>2, <2>4, <2>7 DEF Kept
    <3>2. conn[t] = "open" /\ t \notin gone
      BY <3>1 DEF Live
    <3>3. l \in Lines(t)'
      BY <2>6, <3>1, <3>2
    <3>4. SocketOf(u)' = t
      BY <1>5, <2>2, <3>1
    <3>5. l \in Lines(SocketOf(u))'
      BY <3>3, <3>4 DEF Lines
    <3> QED
      BY <2>5, <3>5 DEF Served, Forwards
  <2>8. u \in k.steady => Served(k.id, u)'
    BY <2>3, <2>7
  <2> QED
    BY <1>21, <2>0, <2>1, <2>2, <2>3, <2>4, <2>6, <2>8
<1> QED
  BY <1>7, <1>8, <1>9, <1>10, <1>11, <1>12, <1>16, <1>17, <1>18, <1>19, <1>20, <1>22, <1>23,
     <1>24, <1>25, <1>26 DEF Next, Step

\* Every receiver who is on line when a direct or a group message is saved, and stays
\* on that connection, has been sent it when its sender is told SUCCESS; for a group
\* when no session was removed meanwhile.
THEOREM ReceiversAreReached == Spec => []SteadyReceiversReached
<1>1. Init => NobodySkipped /\ PointerOfClient /\ IdentityInv
  BY DEF Init, Idle, NobodySkipped, Kept, Forwarding, PointerOfClient, Working,
     IdentityInv, Told, Busy, Lines, Stored
<1>2. Typed /\ NobodySkipped /\ IdentityInv => SteadyReceiversReached
  <2> SUFFICES ASSUME Typed, NobodySkipped, IdentityInv, NEW fd \in Sockets,
                      Done(handler[fd]), handler[fd].reply = "success",
                      handler[fd].kind = "dm" \/ (handler[fd].calm /\ handler[fd].listed),
                      NEW u \in handler[fd].steady \cap Awaited(handler[fd])
               PROVE  \E l \in Forwards(SM!GetSocket(sessions, u)) :
                         l.id = handler[fd].id /\ l.to = u
    BY DEF SteadyReceiversReached, Awaited
  <2>1. handler[fd].pc = "next" /\ handler[fd].todo = {}
    BY DEF Done, IdentityInv, Told
  <2>2. Served(handler[fd].id, u)
    BY <2>1 DEF NobodySkipped, Kept, Forwarding
  <2> QED
    BY <2>2 DEF Served, SocketOf
<1> QED
  BY <1>1, <1>2, TypeCorrect, EntriesTellTheTruth, NextPointer, NextIdentity, NextSkipped, PTL DEF Spec

=============================================================================
