------------------------ MODULE SessionManagerProofs -------------------------
(***************************************************************************)
(* Proofs about the session table, for every set of accounts and sockets   *)
(* and every size of the table.                                            *)
(*                                                                         *)
(* That no user has two entries is inductive with the types alone, and the *)
(* refinement of Presence follows from it: what GetSocket finds is the one *)
(* entry of the user.                                                      *)
(***************************************************************************)
EXTENDS SessionManager, FiniteSetTheorems, WellFoundedInduction, TLAPS

Distinct(s) == \A i, j \in DOMAIN s : s[i].userId = s[j].userId => i = j

IInv == TypeOK /\ Distinct(sessions)

-----------------------------------------------------------------------------
(***************************************************************************)
(* Lemmas about the operators                                              *)
(***************************************************************************)

\* A search that finds an entry finds the first one.
LEMMA FirstIsLeast ==
    ASSUME NEW S \in SUBSET Nat, S # {}
    PROVE  First(S) \in S /\ \A j \in S : First(S) <= j
<1>1. \E x \in S : \A y \in S : ~ (<<y, x>> \in OpToRel(<, Nat))
  BY NatLessThanWellFounded, WFMin
<1>2. PICK x \in S : \A y \in S : ~ (<<y, x>> \in OpToRel(<, Nat))
  BY <1>1
<1>3. \A y \in S : x <= y
  <2>1. SUFFICES ASSUME NEW y \in S PROVE ~(y < x)
    OBVIOUS
  <2> QED
    BY <1>2 DEF OpToRel
<1> QED
  BY <1>3 DEF First

\* The answer of SessionManager_get_socket in a table without double users.
LEMMA GetSocketFacts ==
    ASSUME NEW s \in Seq(UserSession), Distinct(s), NEW u
    PROVE  /\ \A i \in DOMAIN s : s[i].userId = u => GetSocket(s, u) = s[i].socket_fd
           /\ (\A i \in DOMAIN s : s[i].userId # u) => GetSocket(s, u) = NoSocket
           /\ \/ GetSocket(s, u) = NoSocket
              \/ \E i \in DOMAIN s : s[i].userId = u /\ s[i].socket_fd = GetSocket(s, u)
<1>1. OfUser(s, u) \in SUBSET Nat
  BY DEF OfUser
<1>2. OfUser(s, u) = {} \/ First(OfUser(s, u)) \in OfUser(s, u)
  BY <1>1, FirstIsLeast
<1> QED
  BY <1>2 DEF GetSocket, OfUser, Distinct

\* A removal takes one entry of the socket and keeps all the others, the last
\* one in the place of the one that goes.
LEMMA RemoveFacts ==
    ASSUME NEW s \in Seq(UserSession), NEW fd, OfSocket(s, fd) # {}
    PROVE  \E k \in DOMAIN s :
             /\ s[k].socket_fd = fd
             /\ RemoveBySocket(s, fd) \in Seq(UserSession)
             /\ Len(RemoveBySocket(s, fd)) = Len(s) - 1
             /\ \A i \in 1..Len(s) - 1 :
                  RemoveBySocket(s, fd)[i] = s[IF i = k THEN Len(s) ELSE i]
<1> DEFINE k == First(OfSocket(s, fd))
<1>1. k \in OfSocket(s, fd)
  BY FirstIsLeast DEF OfSocket
<1>2. k \in DOMAIN s /\ s[k].socket_fd = fd /\ Len(s) \in Nat \ {0} /\ DOMAIN s = 1..Len(s)
  BY <1>1 DEF OfSocket
<1> DEFINE t == [s EXCEPT ![k] = s[Len(s)]]
<1>3. /\ t \in Seq(UserSession) /\ Len(t) = Len(s)
      /\ \A i \in 1..Len(s) : t[i] = s[IF i = k THEN Len(s) ELSE i]
  BY <1>2
<1>4. RemoveBySocket(s, fd) = SubSeq(t, 1, Len(s) - 1)
  BY DEF RemoveBySocket
<1> HIDE DEF k, t
<1>5. /\ SubSeq(t, 1, Len(s) - 1) \in Seq(UserSession)
      /\ Len(SubSeq(t, 1, Len(s) - 1)) = Len(s) - 1
      /\ \A i \in 1..Len(s) - 1 : SubSeq(t, 1, Len(s) - 1)[i] = t[i]
  BY <1>2, <1>3
<1> QED
  BY <1>2, <1>3, <1>4, <1>5

\* An update in place changes the socket and the name of one entry, which has
\* the same user or the same socket.
LEMMA UpdateFacts ==
    ASSUME NEW s \in Seq(UserSession), NEW u \in Users, NEW fd \in Sockets,
           Len(s) < MaxSessions, OfUser(s, u) \cup OfSocket(s, fd) # {}
    PROVE  \E k \in DOMAIN s :
             /\ s[k].userId = u \/ s[k].socket_fd = fd
             /\ Add(s, u, fd) \in Seq(UserSession)
             /\ Len(Add(s, u, fd)) = Len(s)
             /\ \A i \in DOMAIN s : Add(s, u, fd)[i].userId = s[i].userId
             /\ \A i \in DOMAIN s \ {k} : Add(s, u, fd)[i] = s[i]
             /\ Add(s, u, fd)[k].socket_fd = fd
<1> DEFINE k == First(OfUser(s, u) \cup OfSocket(s, fd))
<1>1. k \in OfUser(s, u) \cup OfSocket(s, fd)
  <2>1. OfUser(s, u) \cup OfSocket(s, fd) \in SUBSET Nat
    BY DEF OfUser, OfSocket
  <2> QED
    BY <2>1, FirstIsLeast
<1>2. k \in DOMAIN s /\ (s[k].userId = u \/ s[k].socket_fd = fd)
  BY <1>1 DEF OfUser, OfSocket
<1>3. ~(Len(s) >= MaxSessions)
  BY SessionAssumption
<1>4. Add(s, u, fd) = [s EXCEPT ![k].socket_fd = fd, ![k].username = u]
  BY <1>3 DEF Add
<1> HIDE DEF k
<1>5. s[k] \in UserSession
  BY <1>2
<1>6. [s[k] EXCEPT !.socket_fd = fd, !.username = u] \in UserSession
  BY <1>5 DEF UserSession
<1>7. [s EXCEPT ![k].socket_fd = fd, ![k].username = u]
        = [s EXCEPT ![k] = [s[k] EXCEPT !.socket_fd = fd, !.username = u]]
  BY <1>2, <1>5 DEF UserSession
<1>8. [s[k] EXCEPT !.socket_fd = fd, !.username = u].userId = s[k].userId
      /\ [s[k] EXCEPT !.socket_fd = fd, !.username = u].socket_fd = fd
  BY <1>5 DEF UserSession
<1> QED
  BY <1>2, <1>4, <1>6, <1>7, <1>8

\* A new entry goes to the end of the table.
LEMMA AppendFacts ==
    ASSUME NEW s \in Seq(UserSession), NEW u \in Users, NEW fd \in Sockets,
           Len(s) < MaxSessions, OfUser(s, u) \cup OfSocket(s, fd) = {}
    PROVE  /\ Add(s, u, fd) \in Seq(UserSession)
           /\ Len(Add(s, u, fd)) = Len(s) + 1
           /\ \A i \in DOMAIN s : Add(s, u, fd)[i] = s[i]
           /\ Add(s, u, fd)[Len(s) + 1].userId = u
           /\ Add(s, u, fd)[Len(s) + 1].socket_fd = fd
           /\ \A i \in DOMAIN s : s[i].userId # u /\ s[i].socket_fd # fd
<1>1. ~(Len(s) >= MaxSessions)
  BY SessionAssumption
<1>2. Add(s, u, fd) = Append(s, NewSession(u, fd))
  BY <1>1 DEF Add
<1>3. /\ NewSession(u, fd) \in UserSession
      /\ NewSession(u, fd).userId = u /\ NewSession(u, fd).socket_fd = fd
  BY DEF NewSession, UserSession
<1>4. \A i \in DOMAIN s : s[i].userId # u /\ s[i].socket_fd # fd
  BY DEF OfUser, OfSocket
<1> QED
  BY <1>2, <1>3, <1>4

\* A full table stays as it is.
LEMMA FullFacts ==
    ASSUME NEW s \in Seq(UserSession), NEW u, NEW fd, ~(Len(s) < MaxSessions)
    PROVE  Add(s, u, fd) = s
BY SessionAssumption DEF Add

-----------------------------------------------------------------------------
(***************************************************************************)
(* No user has two entries                                                 *)
(***************************************************************************)

\* SessionManager_add keeps the users of the table distinct, and its bound, ...
LEMMA AddIInv ==
    ASSUME NEW s \in Seq(UserSession), Len(s) <= MaxSessions, Distinct(s),
           NEW u \in Users, NEW fd \in Sockets
    PROVE  /\ Add(s, u, fd) \in Seq(UserSession)
           /\ Len(Add(s, u, fd)) <= MaxSessions
           /\ Distinct(Add(s, u, fd))
<1> DEFINE r == Add(s, u, fd)
<1>1. CASE ~(Len(s) < MaxSessions)
  BY <1>1, FullFacts
<1>2. CASE Len(s) < MaxSessions /\ OfUser(s, u) \cup OfSocket(s, fd) # {}
  <2>1. /\ r \in Seq(UserSession) /\ Len(r) = Len(s)
        /\ \A i \in DOMAIN s : r[i].userId = s[i].userId
    BY <1>2, UpdateFacts
  <2> HIDE DEF r
  <2>2. DOMAIN r = DOMAIN s
    BY <2>1
  <2>3. r \in Seq(UserSession) /\ Len(r) <= MaxSessions /\ Distinct(r)
    BY <2>1, <2>2 DEF Distinct
  <2> QED
    BY <2>3 DEF r
<1>3. CASE Len(s) < MaxSessions /\ OfUser(s, u) \cup OfSocket(s, fd) = {}
  <2>1. /\ r \in Seq(UserSession) /\ Len(r) = Len(s) + 1
        /\ \A i \in DOMAIN s : r[i] = s[i]
        /\ r[Len(s) + 1].userId = u
        /\ \A i \in DOMAIN s : s[i].userId # u
    BY <1>3, AppendFacts
  <2> HIDE DEF r
  <2>2. DOMAIN r = 1..Len(s) + 1 /\ DOMAIN s = 1..Len(s) /\ Len(s) \in Nat
    BY <2>1
  <2>3. \A i \in 1..Len(s) + 1 : i \in 1..Len(s) \/ i = Len(s) + 1
    BY <2>2
  <2>4. Len(r) <= MaxSessions
    BY <1>3, <2>1, <2>2, SessionAssumption
  <2>5. Distinct(r)
    BY <2>1, <2>2, <2>3 DEF Distinct
  <2> QED
    BY <2>1, <2>4, <2>5 DEF r
<1> QED
  BY <1>1, <1>2, <1>3

\* ... and so does SessionManager_remove_by_socket.
LEMMA RemoveIInv ==
    ASSUME NEW s \in Seq(UserSession), Len(s) <= MaxSessions, Distinct(s), NEW fd
    PROVE  /\ RemoveBySocket(s, fd) \in Seq(UserSession)
           /\ Len(RemoveBySocket(s, fd)) <= MaxSessions
           /\ Distinct(RemoveBySocket(s, fd))
<1> DEFINE r == RemoveBySocket(s, fd)
<1>1. CASE OfSocket(s, fd) = {}
  BY <1>1 DEF RemoveBySocket
<1>2. CASE OfSocket(s, fd) # {}
  <2>1. PICK k \in DOMAIN s :
             /\ r \in Seq(UserSession)
             /\ Len(r) = Len(s) - 1
             /\ \A i \in 1..Len(s) - 1 : r[i] = s[IF i = k THEN Len(s) ELSE i]
    BY <1>2, RemoveFacts
  <2> HIDE DEF r
  <2>2. /\ Len(s) \in Nat \ {0} /\ DOMAIN s = 1..Len(s)
        /\ DOMAIN r = 1..Len(s) - 1
    BY <2>1
  <2>3. \A i \in 1..Len(s) - 1 : i \in DOMAIN s /\ Len(s) \in DOMAIN s /\ i # Len(s)
    <3> DEFINE n == Len(s)
    <3>1. n \in Nat \ {0} /\ DOMAIN s = 1..n
      BY <2>2
    <3> HIDE DEF n
    <3>2. \A i \in 1..n - 1 : i \in 1..n /\ n \in 1..n /\ i # n
      BY <3>1
    <3> QED
      BY <3>1, <3>2 DEF n
  <2>4. Distinct(r)
    <3>1. SUFFICES ASSUME NEW i \in 1..Len(s) - 1, NEW j \in 1..Len(s) - 1,
                          r[i].userId = r[j].userId
                   PROVE  i = j
      BY <2>2 DEF Distinct
    <3>2. /\ i = k => r[i] = s[Len(s)]
          /\ i # k => r[i] = s[i]
          /\ j = k => r[j] = s[Len(s)]
          /\ j # k => r[j] = s[j]
      BY <2>1
    <3> QED
      BY <2>3, <3>1, <3>2 DEF Distinct
  <2>5. Len(r) <= MaxSessions
    BY <2>1, <2>2, SessionAssumption
  <2> QED
    BY <2>1, <2>4, <2>5 DEF r
<1> QED
  BY <1>1, <1>2

\* The invariant holds at the start, ...
LEMMA InitIInv == Init => IInv
BY SessionAssumption DEF Init, IInv, TypeOK, Distinct

\* ... every step keeps it, ...
LEMMA NextIInv == IInv /\ [Next]_vars => IInv'
<1> SUFFICES ASSUME IInv, [Next]_vars PROVE IInv'
  OBVIOUS
<1> USE DEF IInv, TypeOK
<1>1. ASSUME NEW fd \in Sockets, Accept(fd) PROVE IInv'
  BY <1>1 DEF Accept, Distinct
<1>2. ASSUME NEW fd \in Sockets, NEW u \in Users, Login(u, fd) PROVE IInv'
  <2>1. /\ sessions' \in Seq(UserSession) /\ Len(sessions') <= MaxSessions
        /\ Distinct(sessions')
    BY <1>2, AddIInv DEF Login
  <2>2. /\ conn' \in [Sockets -> {"closed", "open", "removed"}]
        /\ acked' \in [Sockets -> Users \cup {NoUser}]
    BY <1>2 DEF Login
  <2> QED
    BY <2>1, <2>2
<1>3. ASSUME NEW fd \in Sockets, Disconnect(fd) PROVE IInv'
  <2>1. /\ sessions' \in Seq(UserSession) /\ Len(sessions') <= MaxSessions
        /\ Distinct(sessions')
    BY <1>3, RemoveIInv DEF Disconnect
  <2>2. /\ conn' \in [Sockets -> {"closed", "open", "removed"}]
        /\ acked' \in [Sockets -> Users \cup {NoUser}]
    BY <1>3 DEF Disconnect
  <2> QED
    BY <2>1, <2>2
<1>4. ASSUME NEW fd \in Sockets, Close(fd) PROVE IInv'
  BY <1>4 DEF Close, Distinct
<1>5. CASE UNCHANGED vars
  BY <1>5 DEF vars, Distinct
<1> QED
  BY <1>1, <1>2, <1>3, <1>4, <1>5 DEF Next

\* ... and so it holds in any execution.
LEMMA Inductive == Spec => []IInv
<1> QED
  BY InitIInv, NextIInv, PTL DEF Spec

\* Type correctness, with the bound of the array: the table never holds more
\* entries than g_sessions has room for.
THEOREM TypeCorrect == Spec => []TypeOK
<1>1. IInv => TypeOK
  BY DEF IInv
<1> QED
  BY <1>1, Inductive, PTL

\* No user ever has two entries, even when connections switch accounts.
THEOREM OneEntryPerUser == Spec => []UsersDistinct
<1>1. IInv => UsersDistinct
  BY DEF IInv, Distinct, UsersDistinct
<1> QED
  BY <1>1, Inductive, PTL

-----------------------------------------------------------------------------
(***************************************************************************)
(* Without switching, the entries tell the truth                           *)
(***************************************************************************)

\* As many users are on line as the table has entries.
LEMMA OnlineUsersCount ==
    ASSUME IInv
    PROVE  Cardinality(P!OnlineUsers) = Len(sessions)
<1> DEFINE n == Len(sessions)
<1> DEFINE f == [i \in 1..n |-> sessions[i].userId]
<1>1. /\ sessions \in Seq(UserSession) /\ Distinct(sessions)
      /\ n \in Nat /\ DOMAIN sessions = 1..n
      /\ \A i \in 1..n : sessions[i] \in UserSession
  BY DEF IInv, TypeOK
<1>2. P!OnlineUsers = {u \in Users : GetSocket(sessions, u) # NoSocket}
  BY DEF P!OnlineUsers, online
<1>3. \A i \in 1..n : /\ sessions[i].userId \in Users
                      /\ GetSocket(sessions, sessions[i].userId) = sessions[i].socket_fd
                      /\ sessions[i].socket_fd # NoSocket
  <2>1. \A i \in 1..n : sessions[i].userId \in Users /\ sessions[i].socket_fd # NoSocket
    BY <1>1, SessionAssumption DEF UserSession
  <2> QED
    BY <1>1, <2>1, GetSocketFacts
<1>4. f \in [1..n -> P!OnlineUsers]
  BY <1>2, <1>3
<1>5. \A i, j \in 1..n : f[i] = f[j] => i = j
  BY <1>1 DEF Distinct
<1>6. \A u \in P!OnlineUsers : \E i \in 1..n : f[i] = u
  <2>1. SUFFICES ASSUME NEW u \in Users, GetSocket(sessions, u) # NoSocket
                 PROVE  \E i \in 1..n : sessions[i].userId = u
    BY <1>2
  <2> QED
    BY <1>1, <2>1, GetSocketFacts
<1> HIDE DEF f
<1>7. f \in Bijection(1..n, P!OnlineUsers)
  BY <1>4, <1>5, <1>6 DEF Bijection, Injection, Surjection, IsInjective
<1>8. ExistsBijection(1..n, P!OnlineUsers)
  BY <1>7 DEF ExistsBijection
<1> QED
  BY <1>1, <1>8, FS_CountingElements

-----------------------------------------------------------------------------
(***************************************************************************)
(* The table is the map of Presence                                        *)
(***************************************************************************)

\* A login puts its user at its socket and moves nobody else, or finds another
\* user's entry with this socket and changes where nobody is found.
LEMMA LoginStep ==
    ASSUME IInv, NEW fd \in Sockets, NEW u \in Users, Login(u, fd)
    PROVE  P!Login(u, fd) \/ UNCHANGED P!vars
<1>1. /\ sessions \in Seq(UserSession) /\ Distinct(sessions) /\ Len(sessions) <= MaxSessions
      /\ DOMAIN sessions = 1..Len(sessions) /\ Len(sessions) \in Nat
      /\ \A i \in DOMAIN sessions : sessions[i] \in UserSession
  BY DEF IInv, TypeOK
<1>2. sessions' = Add(sessions, u, fd) /\ conn' = conn /\ conn[fd] = "open"
  BY DEF Login
<1>3. connected' = connected /\ fd \in connected
  BY <1>2 DEF connected
<1>4. sessions' \in Seq(UserSession) /\ Distinct(sessions')
  BY <1>1, <1>2, AddIInv
<1>5. CASE ~(Len(sessions) < MaxSessions)
  <2>1. sessions' = sessions
    BY <1>1, <1>2, <1>5, FullFacts
  <2> QED
    BY <1>3, <2>1 DEF P!vars, online
<1>6. CASE Len(sessions) < MaxSessions
  <2>1. P!Cardinality(P!OnlineUsers) < MaxSessions
    <3>1. P!Cardinality(P!OnlineUsers) = Cardinality(P!OnlineUsers)
      BY DEF P!Cardinality, Cardinality
    <3> QED
      BY <1>6, <3>1, OnlineUsersCount
  <2>2. CASE OfUser(sessions, u) \cup OfSocket(sessions, fd) # {}
    <3>1. PICK k \in DOMAIN sessions :
             /\ sessions[k].userId = u \/ sessions[k].socket_fd = fd
             /\ Len(sessions') = Len(sessions)
             /\ \A i \in DOMAIN sessions : sessions'[i].userId = sessions[i].userId
             /\ \A i \in DOMAIN sessions \ {k} : sessions'[i] = sessions[i]
             /\ sessions'[k].socket_fd = fd
      BY <1>1, <1>2, <1>6, <2>2, UpdateFacts
    <3>2. DOMAIN sessions' = DOMAIN sessions
      BY <1>1, <1>4, <3>1
    <3>3. CASE sessions[k].userId = u
      <4>1. \A v \in Users : GetSocket(sessions', v) = IF v = u THEN fd ELSE GetSocket(sessions, v)
        <5>1. GetSocket(sessions', u) = fd
          BY <1>4, <3>1, <3>2, <3>3, GetSocketFacts
        <5>2. ASSUME NEW v \in Users, v # u
              PROVE  GetSocket(sessions', v) = GetSocket(sessions, v)
          <6>1. CASE \E i \in DOMAIN sessions : sessions[i].userId = v
            <7>1. PICK i \in DOMAIN sessions : sessions[i].userId = v
              BY <6>1
            <7>2. i # k /\ sessions'[i] = sessions[i]
              BY <3>1, <3>3, <5>2, <7>1
            <7>3. GetSocket(sessions, v) = sessions[i].socket_fd
              BY <1>1, <7>1, GetSocketFacts
            <7>4. GetSocket(sessions', v) = sessions'[i].socket_fd
              BY <1>4, <3>2, <7>1, <7>2, GetSocketFacts
            <7> QED
              BY <7>2, <7>3, <7>4
          <6>2. CASE \A i \in DOMAIN sessions : sessions[i].userId # v
            <7>1. \A i \in DOMAIN sessions' : sessions'[i].userId # v
              BY <3>1, <3>2, <6>2
            <7> QED
              BY <1>1, <1>4, <6>2, <7>1, GetSocketFacts
          <6> QED
            BY <6>1, <6>2
        <5> QED
          BY <5>1, <5>2
      <4>2. online' = [online EXCEPT ![u] = fd]
        BY <4>1 DEF online
      <4> QED
        BY <1>3, <2>1, <4>2 DEF P!Login
    <3>4. CASE sessions[k].userId # u
      <4>1. sessions[k].socket_fd = fd /\ sessions[k].userId \in Users
        BY <1>1, <3>1, <3>4 DEF UserSession
      <4>2. sessions[k].userId \in P!At(fd) \ {u}
        <5>1. GetSocket(sessions, sessions[k].userId) = fd
          BY <1>1, <4>1, GetSocketFacts
        <5> QED
          BY <3>4, <4>1, <5>1 DEF P!At, online
      <4>3. \A i \in DOMAIN sessions : sessions'[i].socket_fd = sessions[i].socket_fd
        BY <3>1, <4>1
      <4>4. \A v \in Users : GetSocket(sessions', v) = GetSocket(sessions, v)
        <5>1. SUFFICES ASSUME NEW v \in Users
                       PROVE  GetSocket(sessions', v) = GetSocket(sessions, v)
          OBVIOUS
        <5>2. CASE \E i \in DOMAIN sessions : sessions[i].userId = v
          <6>1. PICK i \in DOMAIN sessions : sessions[i].userId = v
            BY <5>2
          <6>2. GetSocket(sessions, v) = sessions[i].socket_fd
            BY <1>1, <6>1, GetSocketFacts
          <6>3. GetSocket(sessions', v) = sessions'[i].socket_fd
            BY <1>4, <3>1, <3>2, <6>1, GetSocketFacts
          <6> QED
            BY <4>3, <6>2, <6>3
        <5>3. CASE \A i \in DOMAIN sessions : sessions[i].userId # v
          <6>1. \A i \in DOMAIN sessions' : sessions'[i].userId # v
            BY <3>1, <3>2, <5>3
          <6> QED
            BY <1>1, <1>4, <5>3, <6>1, GetSocketFacts
        <5> QED
          BY <5>2, <5>3
      <4>5. online' = online
        BY <4>4 DEF online
      <4> QED
        BY <1>3, <2>1, <4>2, <4>5 DEF P!Login
    <3> QED
      BY <3>3, <3>4
  <2>3. CASE OfUser(sessions, u) \cup OfSocket(sessions, fd) = {}
    <3> DEFINE n == Len(sessions)
    <3>1. /\ Len(sessions') = n + 1
          /\ \A i \in DOMAIN sessions : sessions'[i] = sessions[i]
          /\ sessions'[n + 1].userId = u
          /\ sessions'[n + 1].socket_fd = fd
      BY <1>1, <1>2, <1>6, <2>3, AppendFacts
    <3>2. DOMAIN sessions' = 1..n + 1 /\ n \in Nat /\ DOMAIN sessions = 1..n
      BY <1>1, <1>4, <3>1
    <3> HIDE DEF n
    <3>3. /\ n + 1 \in DOMAIN sessions'
          /\ \A i \in DOMAIN sessions' : i \in DOMAIN sessions \/ i = n + 1
          /\ \A i \in DOMAIN sessions : i \in DOMAIN sessions'
      BY <3>2
    <3>4. GetSocket(sessions', u) = fd
      BY <1>4, <3>1, <3>3, GetSocketFacts
    <3>5. ASSUME NEW v \in Users, v # u
          PROVE  GetSocket(sessions', v) = GetSocket(sessions, v)
      <4>1. CASE \E i \in DOMAIN sessions : sessions[i].userId = v
        <5>1. PICK i \in DOMAIN sessions : sessions[i].userId = v
          BY <4>1
        <5>2. i \in DOMAIN sessions' /\ sessions'[i] = sessions[i]
          BY <3>1, <3>3, <5>1
        <5>3. GetSocket(sessions, v) = sessions[i].socket_fd
          BY <1>1, <5>1, GetSocketFacts
        <5>4. GetSocket(sessions', v) = sessions'[i].socket_fd
          BY <1>4, <5>1, <5>2, GetSocketFacts
        <5> QED
          BY <5>2, <5>3, <5>4
      <4>2. CASE \A i \in DOMAIN sessions : sessions[i].userId # v
        <5>1. \A i \in DOMAIN sessions' : sessions'[i].userId # v
          BY <3>1, <3>3, <3>5, <4>2
        <5> QED
          BY <1>1, <1>4, <4>2, <5>1, GetSocketFacts
      <4> QED
        BY <4>1, <4>2
    <3>6. online' = [online EXCEPT ![u] = fd]
      BY <3>4, <3>5 DEF online
    <3> QED
      BY <1>3, <2>1, <3>6 DEF P!Login
  <2> QED
    BY <2>2, <2>3
<1> QED
  BY <1>5, <1>6

\* The end of a connection takes one user of its socket off line, and nobody else:
\* the entry that is moved is still found.
LEMMA DisconnectStep ==
    ASSUME IInv, NEW fd \in Sockets, Disconnect(fd)
    PROVE  P!Disconnect(fd)
<1>1. /\ sessions \in Seq(UserSession) /\ Len(sessions) <= MaxSessions
      /\ Distinct(sessions)
      /\ DOMAIN sessions = 1..Len(sessions) /\ Len(sessions) \in Nat
      /\ \A i \in DOMAIN sessions : sessions[i] \in UserSession
      /\ conn \in [Sockets -> {"closed", "open", "removed"}]
  BY DEF IInv, TypeOK
<1>2. sessions' = RemoveBySocket(sessions, fd)
  BY DEF Disconnect
<1>3. fd \in connected /\ connected' = connected \ {fd}
  BY <1>1 DEF Disconnect, connected
<1>4. sessions' \in Seq(UserSession) /\ Distinct(sessions')
  BY <1>1, <1>2, RemoveIInv
<1>5. CASE OfSocket(sessions, fd) = {}
  <2>1. sessions' = sessions
    BY <1>2, <1>5 DEF RemoveBySocket
  <2>2. \A u \in Users : GetSocket(sessions, u) # fd
    BY <1>1, <1>5, GetSocketFacts, SessionAssumption DEF OfSocket
  <2>3. P!At(fd) = {} /\ online' = online
    BY <2>1, <2>2 DEF P!At, online
  <2> QED
    BY <1>3, <2>3 DEF P!Disconnect
<1>6. CASE OfSocket(sessions, fd) # {}
  <2>1. PICK k \in DOMAIN sessions :
           /\ sessions[k].socket_fd = fd
           /\ Len(sessions') = Len(sessions) - 1
           /\ \A i \in 1..Len(sessions) - 1 :
                 sessions'[i] = sessions[IF i = k THEN Len(sessions) ELSE i]
    <3>1. /\ sessions \in Seq(UserSession)
          /\ sessions' = RemoveBySocket(sessions, fd)
      BY <1>1, <1>2
    <3> QED
      BY <1>6, <3>1, RemoveFacts
  <2> DEFINE v == sessions[k].userId
  <2>2. v \in Users /\ GetSocket(sessions, v) = fd
    BY <1>1, <2>1, GetSocketFacts DEF UserSession
  <2>3. /\ Len(sessions) \in Nat \ {0}
        /\ DOMAIN sessions' = 1..Len(sessions) - 1
    BY <1>1, <1>4, <2>1
  <2>4. \A i \in DOMAIN sessions' : \E j \in DOMAIN sessions \ {k} : sessions'[i] = sessions[j]
    <3>1. SUFFICES ASSUME NEW i \in DOMAIN sessions'
                   PROVE  \E j \in DOMAIN sessions \ {k} : sessions'[i] = sessions[j]
      OBVIOUS
    <3>2. i \in 1..Len(sessions) - 1 /\ i \in DOMAIN sessions /\ i # Len(sessions)
      BY <1>1, <2>3
    <3>3. CASE i = k
      BY <1>1, <2>1, <3>2, <3>3
    <3>4. CASE i # k
      BY <1>1, <2>1, <3>2, <3>4
    <3> QED
      BY <3>3, <3>4
  <2>5. \A j \in DOMAIN sessions \ {k} : \E i \in DOMAIN sessions' : sessions'[i] = sessions[j]
    <3>1. SUFFICES ASSUME NEW j \in DOMAIN sessions, j # k
                   PROVE  \E i \in DOMAIN sessions' : sessions'[i] = sessions[j]
      OBVIOUS
    <3>2. CASE j = Len(sessions)
      <4>1. k \in 1..Len(sessions) - 1 /\ sessions'[k] = sessions[j]
        BY <1>1, <2>1, <2>3, <3>1, <3>2
      <4> QED
        BY <2>3, <4>1
    <3>3. CASE j # Len(sessions)
      <4>1. j \in 1..Len(sessions) - 1 /\ sessions'[j] = sessions[j]
        BY <1>1, <2>1, <2>3, <3>1, <3>3
      <4> QED
        BY <2>3, <4>1
    <3> QED
      BY <3>2, <3>3
  <2>6. GetSocket(sessions', v) = NoSocket
    <3>1. \A i \in DOMAIN sessions' : sessions'[i].userId # v
      BY <1>1, <2>4 DEF Distinct
    <3> QED
      BY <1>4, <3>1, GetSocketFacts
  <2>7. ASSUME NEW u \in Users, u # v
        PROVE  GetSocket(sessions', u) = GetSocket(sessions, u)
    <3>1. CASE \E j \in DOMAIN sessions : sessions[j].userId = u
      <4>1. PICK j \in DOMAIN sessions : sessions[j].userId = u
        BY <3>1
      <4>2. PICK i \in DOMAIN sessions' : sessions'[i] = sessions[j]
        BY <2>5, <2>7, <4>1
      <4>3. GetSocket(sessions, u) = sessions[j].socket_fd
        BY <1>1, <4>1, GetSocketFacts
      <4>4. GetSocket(sessions', u) = sessions'[i].socket_fd
        BY <1>4, <4>1, <4>2, GetSocketFacts
      <4> QED
        BY <4>2, <4>3, <4>4
    <3>2. CASE \A j \in DOMAIN sessions : sessions[j].userId # u
      <4>1. \A i \in DOMAIN sessions' : sessions'[i].userId # u
        BY <2>4, <3>2
      <4> QED
        BY <1>1, <1>4, <3>2, <4>1, GetSocketFacts
    <3> QED
      BY <3>1, <3>2
  <2> HIDE DEF v
  <2>8. v \in P!At(fd) /\ online' = [online EXCEPT ![v] = NoSocket]
    BY <2>2, <2>6, <2>7 DEF P!At, online
  <2> QED
    BY <1>3, <2>8 DEF P!Disconnect
<1> QED
  BY <1>5, <1>6

\* The table implements Presence, whatever the clients do: a login moves its own
\* user or nobody, and the end of a connection takes one user of that socket off line.
THEOREM TableIsPresence == Spec => ImplementsPresence
<1> SUFFICES Spec => P!Spec
  BY DEF ImplementsPresence
<1>3. Init => P!Init
  <2>1. SUFFICES ASSUME Init PROVE P!Init
    OBVIOUS
  <2>2. \A u \in Users : GetSocket(sessions, u) = NoSocket
    BY <2>1 DEF Init, GetSocket, OfUser
  <2>3. connected = {}
    BY <2>1 DEF Init, connected
  <2> QED
    BY <2>2, <2>3 DEF P!Init, online
<1>4. IInv /\ [Next]_vars => [P!Next]_(P!vars)
  <2>1. SUFFICES ASSUME IInv, [Next]_vars
                 PROVE  P!Next \/ UNCHANGED P!vars
    OBVIOUS
  <2>2. conn \in [Sockets -> {"closed", "open", "removed"}]
    BY <2>1 DEF IInv, TypeOK
  <2>3. ASSUME NEW fd \in Sockets, Accept(fd) PROVE P!Connect(fd)
    <3>1. fd \notin connected /\ connected' = connected \cup {fd}
      BY <2>2, <2>3 DEF Accept, connected
    <3>2. online' = online
      BY <2>3 DEF Accept, online
    <3> QED
      BY <3>1, <3>2 DEF P!Connect
  <2>4. ASSUME NEW fd \in Sockets, Close(fd) PROVE UNCHANGED P!vars
    <3>1. connected' = connected
      BY <2>2, <2>4 DEF Close, connected
    <3>2. online' = online
      BY <2>4 DEF Close, online
    <3> QED
      BY <3>1, <3>2 DEF P!vars
  <2>5. CASE UNCHANGED vars
    BY <2>5 DEF vars, P!vars, online, connected
  <2>6. ASSUME Next PROVE P!Next \/ UNCHANGED P!vars
    BY <2>1, <2>3, <2>4, <2>6, LoginStep, DisconnectStep DEF Next, P!Next
  <2> QED
    BY <2>1, <2>5, <2>6
<1> QED
  BY <1>3, <1>4, Inductive, PTL DEF Spec, P!Spec

=============================================================================
