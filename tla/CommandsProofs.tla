---------------------------- MODULE CommandsProofs ----------------------------
(***************************************************************************)
(* The parse of the commands and the calls of the session manager, for any *)
(* number of handlers, commands and places of the table.                   *)
(*                                                                         *)
(* The parses: a pointer that strtok returned points into a copy in use,   *)
(* or is freed or NULL, and a parse that no other disturbed has taken the  *)
(* fields of its own message in order (Parsed).                            *)
(*                                                                         *)
(* The calls: as long as they come one at a time, the table is that of the *)
(* last quiet moment, but for what the call in progress has done to it by  *)
(* each of its steps (Half); when it returns, the table is what one        *)
(* operation of SessionManager makes of it.                                *)
(***************************************************************************)
EXTENDS Commands, FiniteSetTheorems, TLAPS

-----------------------------------------------------------------------------
(***************************************************************************)
(* Types                                                                   *)
(***************************************************************************)
MessageType == [command : Silent \cup Open \cup ForUsers, fields : Seq(Fields)]
Pointers == [copy : Sockets, field : Nat \ {0}] \cup {Freed, Null}

HandlerType == [pc : {"idle", "session", "load", "take", "serve", "call", "reply", "leaving"},
                message : MessageType, pos : Pointers, got : Seq(Pointers),
                used : Seq(Fields), mixed : BOOLEAN,
                reply : {"none", "error", "data", "success", "fail", "insufficient",
                         "not_logged_in"}]

AddPcs == {"match", "update", "rename", "user", "socket", "name", "increment"}
RemovePcs == {"find", "move", "moving", "clear", "decrement"}
CallType == [pc : AddPcs \cup RemovePcs \cup {"none", "count", "return"},
             user : Users \cup {NoUser}, i : Nat, last : Int]

HandlersTyped ==
    /\ conn \in [Sockets -> {"closed", "open", "removed"}]
    /\ acked \in [Sockets -> Users \cup {NoUser}]
    /\ handler \in [Sockets -> HandlerType]
    /\ cut \in [Sockets -> SUBSET (Nat \ {0})]
    /\ olds \in Pointers

\* The indices of a call stay in the array.
InRange(c) == /\ c.i <= MaxSessions
              /\ c.pc \in {"update", "rename", "move", "moving", "clear"} => c.i \in Places

CallsTyped ==
    /\ table \in [Places -> Entry] /\ count \in Int
    /\ call \in [Sockets -> CallType]
    /\ outside \in BOOLEAN
    /\ \A fd \in Sockets : /\ InRange(call[fd])
                           /\ call[fd].pc = "moving" => outside \/ call[fd].last \in Places

\* What a handler is doing, and the call it has made.
EngagedAt(fd) ==
    LET me == handler[fd]
        c == call[fd]
    IN  /\ c.pc = "none" => c = NoCall
        /\ c.pc = "none" <=> me.pc \notin {"call", "leaving"}
        /\ c.pc \in AddPcs => me.pc = "call"
        /\ c.pc \in RemovePcs => me.pc = "leaving"
        /\ me.pc = "call" => c.user \in Users /\ c.user = me.used[1]
        /\ me.pc # "idle" => conn[fd] = "open"
Engaged == \A fd \in Sockets : EngagedAt(fd)

Typed == HandlersTyped /\ CallsTyped /\ Engaged

-----------------------------------------------------------------------------
(***************************************************************************)
(* The parses                                                              *)
(***************************************************************************)
\* The copy of its message that a handler has, and the pointers into it.
Busy(fd) == handler[fd].pc \notin {"idle", "leaving"}
Size(fd) == Len(handler[fd].message.fields)
Points(p, more) == \/ p \in {Null, Freed}
                   \/ Busy(p.copy) /\ p.field <= Size(p.copy) + more

PointersAt(fd) ==
    LET me == handler[fd]
    IN  /\ Points(me.pos, 1)
        /\ Parsing(fd) => olds # Null
        /\ me.pc = "take" => me.pos # Null
        /\ \A i \in DOMAIN me.got : Points(me.got[i], 0)

\* How far a parse is.
ProgressAt(fd) ==
    LET me == handler[fd]
        n == Arity(me.message.command)
    IN  /\ me.pc = "session" => me.got = <<>>
        /\ me.pc \in {"load", "take"} => Len(me.got) < n
        /\ me.pc = "serve" => Len(me.got) = n

\* A parse that no other disturbed: where strtok stands, and what it has returned.
Stands(fd) ==
    LET k == Len(handler[fd].got)
    IN  olds = At(fd, (IF k <= Size(fd) THEN k ELSE Size(fd)) + 1)

OwnAt(fd) ==
    LET me == handler[fd]
    IN  ~me.mixed =>
           /\ Parsing(fd) \/ me.pc = "serve" =>
                 \A i \in DOMAIN me.got : me.got[i] = IF i <= Size(fd) THEN At(fd, i) ELSE Null
           /\ Parsing(fd) => Stands(fd) /\ \A f \in cut[fd] : f <= Len(me.got)
           /\ me.pc = "take" => me.pos = olds

\* What ServedAsSent says of one handler.
ServedAt(fd) ==
    LET me == handler[fd]
        n == Arity(me.message.command)
    IN  me.pc \in {"call", "reply"} /\ ~me.mixed /\ me.reply # "not_logged_in" =>
           IF me.reply = "insufficient" THEN Len(me.message.fields) < n
           ELSE /\ Len(me.message.fields) >= n
                /\ me.used = SubSeq(me.message.fields, 1, n)

Parsed == /\ Points(olds, 1)
          /\ \A h \in Sockets : PointersAt(h) /\ ProgressAt(h) /\ OwnAt(h) /\ ServedAt(h)

-----------------------------------------------------------------------------
(***************************************************************************)
(* The calls of the session manager, one at a time                         *)
(***************************************************************************)
Rows(s) == \A j \in 1..Len(s) : table[j - 1] = s[j]
Matches(e, u, fd) == e.userId = u \/ e.socket_fd = fd

\* What the call of fd is to make of the table.
Adding(fd) == handler[fd].pc = "call"
Result(fd) == IF Adding(fd) THEN SM!Add(sessions, call[fd].user, fd)
              ELSE SM!RemoveBySocket(sessions, fd)

\* An entry that the call looks for, a turn of the search, and its end.
Hit(fd, e) == IF Adding(fd) THEN Matches(e, call[fd].user, fd) ELSE e.socket_fd = fd
Passed(fd, k) == k <= Len(sessions) /\ \A j \in 1..k : ~Hit(fd, sessions[j])
FoundAt(fd, k) == k \in DOMAIN sessions /\ Passed(fd, k - 1) /\ Hit(fd, sessions[k])

\* The table is what it was before the call, ...
Untouched == Rows(sessions) /\ count = Len(sessions)
\* ... but for one row, ...
ButFor(i, row) == /\ \A j \in 1..Len(sessions) : j # i + 1 => table[j - 1] = sessions[j]
                  /\ table[i] = row /\ count = Len(sessions)
\* ... or what the call makes of it, but for the count.
Done(fd) == /\ Rows(Result(fd))
            /\ Result(fd) \in Seq(SM!UserSession) /\ Len(Result(fd)) <= MaxSessions
Touched(fd, by) == Done(fd) /\ count + by = Len(Result(fd))

Half(fd) ==
    LET c == call[fd]
        n == Len(sessions)
    IN  /\ c.pc \in AddPcs \ {"increment"} => n < MaxSessions
        /\ c.pc \in {"match", "find"} => Untouched /\ Passed(fd, c.i)
        /\ c.pc \in {"update", "move"} => Untouched /\ FoundAt(fd, c.i + 1)
        /\ c.pc = "rename" =>
              /\ FoundAt(fd, c.i + 1)
              /\ ButFor(c.i, [sessions[c.i + 1] EXCEPT !.socket_fd = fd])
        /\ c.pc \in {"user", "socket", "name"} =>
              /\ Untouched /\ Passed(fd, n)
              /\ c.pc # "user" => table[n].userId = c.user
              /\ c.pc = "name" => table[n].socket_fd = fd
        /\ c.pc = "moving" =>
              /\ FoundAt(fd, c.i + 1) /\ c.last = n - 1
              /\ ButFor(c.i, [sessions[c.i + 1] EXCEPT !.userId = sessions[n].userId])
        /\ c.pc = "increment" => Touched(fd, 1)
        /\ c.pc \in {"clear", "decrement"} => Touched(fd, -1)
        /\ c.pc = "count" => Done(fd) /\ c.last = Len(Result(fd))
        /\ c.pc = "return" => Touched(fd, 0)

OneAtATime ==
    most <= 1 =>
       /\ ~outside /\ count \in 0..MaxSessions
       /\ sessions \in Seq(SM!UserSession) /\ Len(sessions) <= MaxSessions
       /\ \A f, g \in Calling : f = g
       /\ Calling = {} => Untouched
       /\ \A fd \in Calling : Half(fd)

-----------------------------------------------------------------------------
(***************************************************************************)
(* The fields of a handler                                                 *)
(***************************************************************************)

\* The pointers that strtok may return.
LEMMA PointerFacts ==
    /\ Freed \in Pointers /\ Null \in Pointers /\ Freed # Null
    /\ Freed.field = 0 /\ Null.field = -1 /\ Freed.copy \notin Sockets /\ Null.copy \notin Sockets
    /\ \A h \in Sockets, n \in Nat \ {0} :
          /\ At(h, n) \in Pointers /\ At(h, n) \notin {Freed, Null}
          /\ At(h, n).copy = h /\ At(h, n).field = n
    /\ \A p \in Pointers : p \notin {Freed, Null} =>
          p.copy \in Sockets /\ p.field \in Nat \ {0} /\ p = At(p.copy, p.field)
BY TableAssumption DEF Pointers, Freed, Null, At

\* A handler that waits for a command.
LEMMA IdleFacts ==
    /\ Idle.pc = "idle" /\ Idle.message.fields = <<>> /\ Idle.pos = Null /\ Idle.got = <<>>
    /\ Idle.used = <<>> /\ Idle.reply = "none" /\ Idle.mixed = FALSE
    /\ Idle.message \in MessageType /\ Idle \in HandlerType
<1>1. <<>> \in Seq(Fields) /\ <<>> \in Seq(Pointers)
  OBVIOUS
<1>2. Idle.message \in MessageType
  BY <1>1 DEF Idle, MessageType, Silent
<1> QED
  BY <1>1, <1>2, PointerFacts DEF Idle, HandlerType

\* Messages are sent with a command that the server knows, or none.
LEMMA MessageFacts ==
    /\ Messages \subseteq MessageType
    /\ \A m \in MessageType : /\ m.command \in Silent \cup Open \cup ForUsers
                              /\ m.fields \in Seq(Fields) /\ Len(m.fields) \in Nat
                              /\ Arity(m.command) \in 0..2
<1>1. \A c : Arity(c) \in 0..2
  BY DEF Arity
<1> QED
  BY <1>1, CommandsAssumption DEF MessageType

\* What a handler is about to do once it has parsed so far.
LEMMA NextPcFacts ==
    \A c, got : /\ NextPc(c, got) \in {"load", "serve"}
                /\ NextPc(c, got) = "load" <=> Len(got) < Arity(c)
BY DEF NextPc

\* What stays the same in a handler while another one makes a step ...
SameRequest(h) == /\ handler'[h].pc = handler[h].pc /\ handler'[h].message = handler[h].message
                  /\ handler'[h].used = handler[h].used /\ handler'[h].reply = handler[h].reply
\* ... and in its parse.
SameParse(h) == /\ SameRequest(h)
                /\ handler'[h].pos = handler[h].pos /\ handler'[h].got = handler[h].got

\* A handler that calls strtok disturbs the others' parses.
LEMMA MixingFacts ==
    ASSUME handler \in [Sockets -> HandlerType], NEW fd \in Sockets, NEW new \in HandlerType,
           handler' = Mixing(fd, new)
    PROVE  /\ handler' \in [Sockets -> HandlerType] /\ handler'[fd] = new
           /\ \A h \in Sockets \ {fd} :
                 /\ SameParse(h)
                 /\ handler'[h].mixed = (handler[h].mixed \/ Parsing(h))
<1>1. \A h \in Sockets : Parsing(h) \in BOOLEAN
  BY DEF Parsing
<1>2. \A h \in Sockets \ {fd} : handler'[h] = [handler[h] EXCEPT !.mixed = @ \/ Parsing(h)]
  BY DEF Mixing
<1>3. ASSUME NEW h \in Sockets \ {fd}
      PROVE  /\ handler'[h] \in HandlerType /\ SameParse(h)
             /\ handler'[h].mixed = (handler[h].mixed \/ Parsing(h))
  <2>1. PICK b \in BOOLEAN : b = (handler[h].mixed \/ Parsing(h))
    BY <1>1 DEF HandlerType
  <2>2. handler'[h] = [handler[h] EXCEPT !.mixed = b] /\ handler[h] \in HandlerType
    BY <1>2, <2>1
  <2> QED
    BY <2>1, <2>2 DEF HandlerType, SameParse, SameRequest
<1>4. handler' = [h \in Sockets |-> handler'[h]] /\ handler'[fd] = new
  BY DEF Mixing
<1>5. \A h \in Sockets : handler'[h] \in HandlerType
  BY <1>3, <1>4
<1> QED
  BY <1>3, <1>4, <1>5

\* A command is received.
LEMMA ReceiveFields ==
    ASSUME Typed, NEW fd \in Sockets, NEW m \in Messages, Receive(fd, m)
    PROVE  LET me == handler'[fd]
           IN  /\ handler[fd].pc = "idle" /\ conn[fd] = "open"
               /\ me.pc = IF m.command \in ForUsers THEN "session" ELSE NextPc(m.command, <<>>)
               /\ me.message = m /\ me.pos = Null /\ me.got = <<>> /\ me.used = <<>>
               /\ me.reply = "none" /\ me.mixed = FALSE
               /\ olds' = At(fd, 1) /\ cut' = [cut EXCEPT ![fd] = {}]
               /\ handler' \in [Sockets -> HandlerType]
               /\ \A h \in Sockets \ {fd} :
                     /\ SameParse(h)
                     /\ handler'[h].mixed = (handler[h].mixed \/ Parsing(h))
<1>1. m \in MessageType /\ handler \in [Sockets -> HandlerType]
  BY MessageFacts DEF Typed, HandlersTyped
<1>2. PICK pc \in {"session", "load", "serve"} :
         pc = IF m.command \in ForUsers THEN "session" ELSE NextPc(m.command, <<>>)
  BY NextPcFacts
<1>3. PICK new : new = [Idle EXCEPT !.message = m, !.pc = pc]
  OBVIOUS
<1>4. /\ new.pc = pc /\ new.message = m /\ new.pos = Null /\ new.got = <<>> /\ new.used = <<>>
      /\ new.reply = "none" /\ new.mixed = FALSE /\ new \in HandlerType
  BY <1>1, <1>3, IdleFacts DEF HandlerType
<1>5. handler' = Mixing(fd, new)
  BY <1>2, <1>3 DEF Receive
<1>6. /\ handler' \in [Sockets -> HandlerType] /\ handler'[fd] = new
      /\ \A h \in Sockets \ {fd} :
            /\ SameParse(h)
            /\ handler'[h].mixed = (handler[h].mixed \/ Parsing(h))
  BY <1>1, <1>4, <1>5, MixingFacts
<1> QED
  BY <1>2, <1>4, <1>6 DEF Receive

\* strtok reads the position.
LEMMA LoadFields ==
    ASSUME Typed, NEW fd \in Sockets, LoadPosition(fd)
    PROVE  /\ handler[fd].pc = "load" /\ handler'[fd].pc = "take" /\ handler'[fd].pos = olds
           /\ handler'[fd].message = handler[fd].message /\ handler'[fd].got = handler[fd].got
           /\ handler'[fd].used = handler[fd].used /\ handler'[fd].reply = handler[fd].reply
           /\ handler'[fd].mixed = handler[fd].mixed
           /\ handler' \in [Sockets -> HandlerType]
           /\ \A h \in Sockets \ {fd} :
                 /\ SameParse(h)
                 /\ handler'[h].mixed = (handler[h].mixed \/ Parsing(h))
<1>1. handler \in [Sockets -> HandlerType] /\ olds \in Pointers
  BY DEF Typed, HandlersTyped
<1>2. PICK new : new = [handler[fd] EXCEPT !.pc = "take", !.pos = olds]
  OBVIOUS
<1>3. /\ new.pc = "take" /\ new.pos = olds /\ new.message = handler[fd].message
      /\ new.got = handler[fd].got /\ new.used = handler[fd].used
      /\ new.reply = handler[fd].reply /\ new.mixed = handler[fd].mixed /\ new \in HandlerType
  BY <1>1, <1>2 DEF HandlerType
<1>4. handler' = Mixing(fd, new) /\ handler[fd].pc = "load"
  BY <1>2 DEF LoadPosition
<1>5. /\ handler' \in [Sockets -> HandlerType] /\ handler'[fd] = new
      /\ \A h \in Sockets \ {fd} :
            /\ SameParse(h)
            /\ handler'[h].mixed = (handler[h].mixed \/ Parsing(h))
  BY <1>1, <1>3, <1>4, MixingFacts
<1> QED
  BY <1>3, <1>4, <1>5

\* What strtok makes of a position that points into a copy still there.
LEMMA TakenFacts ==
    ASSUME Typed, NEW pos \in Pointers, pos # Null, Points(pos, 1), NEW taken \in TakenFrom(pos)
    PROVE  /\ taken.token \in Pointers /\ taken.next \in Pointers /\ taken.next # Null
           /\ Points(taken.token, 0) /\ Points(taken.next, 1)
           /\ taken.token.field > 0 => pos # Freed /\ taken.token = pos
           /\ pos # Freed /\ pos.field = Size(pos.copy) + 1 =>
                 taken.token = Null /\ taken.next = pos
           /\ pos # Freed /\ pos.field <= Size(pos.copy) /\ pos.field \notin cut[pos.copy] =>
                 taken.token = pos /\ taken.next = At(pos.copy, pos.field + 1)
<1>1. CASE pos = Freed
  <2>1. taken.token \in {Null, Freed} /\ taken.next = Freed
    BY <1>1 DEF TakenFrom
  <2> QED
    BY <1>1, <2>1, PointerFacts DEF Points
<1>2. CASE pos # Freed
  <2>1. PICK h \in Sockets, n \in Nat \ {0} : pos = At(h, n) /\ pos.copy = h /\ pos.field = n
    BY <1>2, PointerFacts
  <2>2. handler[h].message \in MessageType
    BY DEF Typed, HandlersTyped, HandlerType
  <2>3. Size(h) \in Nat /\ Busy(h) /\ n <= Size(h) + 1
    BY <1>2, <2>1, <2>2, MessageFacts DEF Points, Size
  <2>4. PICK k : k = Size(h) + 1
    OBVIOUS
  <2>5. \/ n >= k /\ taken = [token |-> Null, next |-> pos]
        \/ n < k /\ n \in cut[h] /\ taken = [token |-> pos, next |-> At(h, k)]
        \/ n < k /\ n \notin cut[h] /\ taken = [token |-> pos, next |-> At(h, n + 1)]
    BY <1>2, <2>1, <2>3, <2>4 DEF TakenFrom, Size
  <2>6. k \in Nat \ {0} /\ n + 1 \in Nat \ {0}
    BY <2>3, <2>4
  <2>7. /\ At(h, k) \in Pointers /\ At(h, n + 1) \in Pointers /\ Null \in Pointers
        /\ At(h, k).copy = h /\ At(h, k).field = k /\ At(h, n + 1).copy = h
        /\ At(h, n + 1).field = n + 1 /\ At(h, k) # Null /\ At(h, n + 1) # Null
        /\ Null.field = -1
    BY <2>6, PointerFacts
  <2>8. CASE n >= k /\ taken = [token |-> Null, next |-> pos]
    <3>1. taken.token = Null /\ taken.next = pos
      BY <2>8
    <3> QED
      BY <1>2, <2>1, <2>3, <2>4, <2>7, <2>8, <3>1 DEF Points
  <2>9. CASE n < k /\ n \in cut[h] /\ taken = [token |-> pos, next |-> At(h, k)]
    <3>1. taken.token = pos /\ taken.next = At(h, k)
      BY <2>9
    <3> QED
      BY <1>2, <2>1, <2>3, <2>4, <2>7, <2>9, <3>1 DEF Points
  <2>10. CASE n < k /\ n \notin cut[h] /\ taken = [token |-> pos, next |-> At(h, n + 1)]
    <3>1. taken.token = pos /\ taken.next = At(h, n + 1)
      BY <2>10
    <3> QED
      BY <1>2, <2>1, <2>3, <2>4, <2>7, <2>10, <3>1 DEF Points
  <2> QED
    BY <2>5, <2>8, <2>9, <2>10
<1> QED
  BY <1>1, <1>2

\* strtok returns.
LEMMA TakeFields ==
    ASSUME Typed, Parsed, NEW fd \in Sockets, TakeField(fd)
    PROVE  /\ handler[fd].pc = "take" /\ handler[fd].pos # Null
           /\ \E taken \in TakenFrom(handler[fd].pos) :
                 /\ handler'[fd].got = Append(handler[fd].got, taken.token)
                 /\ handler'[fd].pc = NextPc(handler[fd].message.command, handler'[fd].got)
                 /\ olds' = taken.next
                 /\ cut' = IF taken.token.field > 0
                           THEN [cut EXCEPT ![taken.token.copy] = @ \cup {taken.token.field}]
                           ELSE cut
           /\ handler'[fd].pos = Null
           /\ handler'[fd].message = handler[fd].message
           /\ handler'[fd].used = handler[fd].used /\ handler'[fd].reply = handler[fd].reply
           /\ handler'[fd].mixed = handler[fd].mixed
           /\ handler' \in [Sockets -> HandlerType]
           /\ \A h \in Sockets \ {fd} :
                 /\ SameParse(h)
                 /\ handler'[h].mixed = (handler[h].mixed \/ Parsing(h))
<1>1. handler \in [Sockets -> HandlerType] /\ handler[fd].pc = "take"
  BY DEF Typed, HandlersTyped, TakeField
<1>2. handler[fd].pos \in Pointers /\ handler[fd].pos # Null /\ Points(handler[fd].pos, 1)
  BY <1>1 DEF HandlerType, Parsed, PointersAt
<1>3. PICK taken \in TakenFrom(handler[fd].pos) :
         LET got == Append(handler[fd].got, taken.token)
         IN  /\ olds' = taken.next
             /\ handler' = Mixing(fd, [handler[fd] EXCEPT !.got = got, !.pos = Null,
                                          !.pc = NextPc(handler[fd].message.command, got)])
             /\ IF taken.token.field > 0
                THEN cut' = [cut EXCEPT ![taken.token.copy] = @ \cup {taken.token.field}]
                ELSE UNCHANGED cut
  BY DEF TakeField
<1>4. PICK got : got = Append(handler[fd].got, taken.token)
  OBVIOUS
<1>5. taken.token \in Pointers
  BY <1>2, TakenFacts
<1>6. got \in Seq(Pointers)
  BY <1>1, <1>4, <1>5 DEF HandlerType
<1>7. PICK pc \in {"load", "serve"} : pc = NextPc(handler[fd].message.command, got)
  BY NextPcFacts
<1>8. PICK new : new = [handler[fd] EXCEPT !.got = got, !.pos = Null, !.pc = pc]
  OBVIOUS
<1>9. /\ new.pc = pc /\ new.pos = Null /\ new.got = got /\ new.message = handler[fd].message
      /\ new.used = handler[fd].used
      /\ new.reply = handler[fd].reply /\ new.mixed = handler[fd].mixed /\ new \in HandlerType
  <2>1. Null \in Pointers /\ handler[fd] \in HandlerType
    BY <1>1, PointerFacts
  <2>2. PICK null : null = Null
    OBVIOUS
  <2>3. PICK me : me = handler[fd]
    OBVIOUS
  <2>4. new = [me EXCEPT !.got = got, !.pos = null, !.pc = pc]
    BY <1>8, <2>2, <2>3
  <2>5. /\ new.pc = pc /\ new.pos = null /\ new.got = got /\ new.message = me.message
        /\ new.used = me.used /\ new.reply = me.reply /\ new.mixed = me.mixed
        /\ new \in HandlerType
    BY <1>6, <2>1, <2>2, <2>3, <2>4 DEF HandlerType
  <2> QED
    BY <2>2, <2>3, <2>5
<1>10. handler' = Mixing(fd, new)
  BY <1>3, <1>4, <1>7, <1>8
<1>11. /\ handler' \in [Sockets -> HandlerType] /\ handler'[fd] = new
       /\ \A h \in Sockets \ {fd} :
             /\ SameParse(h)
             /\ handler'[h].mixed = (handler[h].mixed \/ Parsing(h))
  BY <1>1, <1>9, <1>10, MixingFacts
<1> QED
  BY <1>1, <1>2, <1>3, <1>4, <1>7, <1>9, <1>11

\* The handlers of the other connections are as they were.
OthersStay(fd) == \A h \in Sockets \ {fd} : handler'[h] = handler[h]

\* The session is looked up.
LEMMA LookUpFields ==
    ASSUME Typed, NEW fd \in Sockets, LookUp(fd)
    PROVE  LET me == handler[fd]
               new == handler'[fd]
           IN  /\ me.pc = "session" /\ OthersStay(fd)
               /\ handler' \in [Sockets -> HandlerType]
               /\ new.message = me.message /\ new.pos = me.pos /\ new.got = me.got
               /\ new.used = me.used /\ new.mixed = me.mixed
               /\ \/ HasSession(fd) /\ new.pc = NextPc(me.message.command, <<>>)
                                    /\ new.reply = me.reply
                  \/ ~HasSession(fd) /\ new.pc = "reply" /\ new.reply = "not_logged_in"
<1>1. handler \in [Sockets -> HandlerType] /\ handler[fd].pc = "session"
  BY DEF Typed, HandlersTyped, LookUp
<1>2. PICK me : me = handler[fd]
  OBVIOUS
<1>3. PICK pc \in {"load", "serve"} : pc = NextPc(me.message.command, <<>>)
  BY NextPcFacts
<1>4. PICK new : new = IF HasSession(fd) THEN [me EXCEPT !.pc = pc]
                       ELSE [me EXCEPT !.pc = "reply", !.reply = "not_logged_in"]
  OBVIOUS
<1>5. handler' = [handler EXCEPT ![fd] = new]
  BY <1>2, <1>3, <1>4 DEF LookUp
<1>6. me \in HandlerType
  BY <1>1, <1>2
<1>7. /\ new \in HandlerType
      /\ new.message = me.message /\ new.pos = me.pos /\ new.got = me.got
      /\ new.used = me.used /\ new.mixed = me.mixed
      /\ \/ HasSession(fd) /\ new.pc = pc /\ new.reply = me.reply
         \/ ~HasSession(fd) /\ new.pc = "reply" /\ new.reply = "not_logged_in"
  BY <1>4, <1>6 DEF HandlerType
<1>8. /\ handler' \in [Sockets -> HandlerType] /\ handler'[fd] = new
      /\ \A h \in Sockets \ {fd} : handler'[h] = handler[h]
  BY <1>1, <1>5, <1>7
<1> QED
  BY <1>1, <1>2, <1>3, <1>7, <1>8 DEF OthersStay

\* The command is refused.
LEMMA RefuseFields ==
    ASSUME Typed, NEW fd \in Sockets, Refuse(fd)
    PROVE  LET me == handler[fd]
               new == handler'[fd]
           IN  /\ me.pc = "serve" /\ OthersStay(fd)
               /\ \E i \in DOMAIN me.got : me.got[i] = Null
               /\ handler' \in [Sockets -> HandlerType]
               /\ new.message = me.message /\ new.pos = me.pos /\ new.got = me.got
               /\ new.used = me.used /\ new.mixed = me.mixed
               /\ new.pc = "reply" /\ new.reply = "insufficient"
<1>1. handler \in [Sockets -> HandlerType]
  BY DEF Typed, HandlersTyped
<1>2. handler' = [handler EXCEPT ![fd].pc = "reply", ![fd].reply = "insufficient"]
  BY DEF Refuse
<1>3. /\ handler' \in [Sockets -> HandlerType]
      /\ \A h \in Sockets \ {fd} : handler'[h] = handler[h]
  BY <1>1, <1>2 DEF HandlerType
<1>4. handler'[fd] = [handler[fd] EXCEPT !.pc = "reply", !.reply = "insufficient"]
      /\ handler[fd] \in HandlerType
  BY <1>1, <1>2
<1>5. LET me == handler[fd]
          new == handler'[fd]
      IN  /\ new.message = me.message /\ new.pos = me.pos /\ new.got = me.got
          /\ new.used = me.used /\ new.mixed = me.mixed
          /\ new.pc = "reply" /\ new.reply = "insufficient"
  BY <1>4 DEF HandlerType
<1> QED
  BY <1>3, <1>5 DEF OthersStay, Refuse

\* The service is given strings that the pointers point to.
LEMMA ServeFields ==
    ASSUME Typed, NEW fd \in Sockets, Serve(fd)
    PROVE  LET me == handler[fd]
               new == handler'[fd]
           IN  /\ me.pc = "serve" /\ OthersStay(fd)
               /\ \A i \in DOMAIN me.got : me.got[i] # Null
               /\ handler' \in [Sockets -> HandlerType]
               /\ new.message = me.message /\ new.pos = me.pos /\ new.got = me.got
               /\ new.mixed = me.mixed
               /\ Len(new.used) = Len(me.got)
               /\ \A i \in DOMAIN me.got : new.used[i] \in Strings(me.got[i])
               /\ new.reply \in {"error", "data", "success", "fail"}
               /\ \/ /\ me.message.command = "LOGIN"
                     /\ new.pc = "call" /\ new.used[1] \in Users /\ BeginAdd(fd, new.used[1])
                  \/ new.pc = "reply" /\ UNCHANGED tableVars
<1>1. handler \in [Sockets -> HandlerType] /\ handler[fd].pc = "serve"
  BY DEF Typed, HandlersTyped, Serve
<1>2. PICK me : me = handler[fd]
  OBVIOUS
<1>3. me \in HandlerType /\ me.got \in Seq(Pointers)
  BY <1>1, <1>2 DEF HandlerType
<1>4. PICK used \in [DOMAIN me.got -> Fields], pc \in {"call", "reply"},
               reply \in {"error", "data", "success", "fail"} :
         /\ \A i \in DOMAIN me.got : used[i] \in Strings(me.got[i])
         /\ handler' = [handler EXCEPT ![fd].pc = pc, ![fd].used = used, ![fd].reply = reply]
         /\ \/ /\ me.message.command = "LOGIN"
               /\ pc = "call" /\ used[1] \in Users /\ BeginAdd(fd, used[1])
            \/ pc = "reply" /\ UNCHANGED tableVars
  <2>1. PICK used \in [DOMAIN me.got -> Fields] :
           /\ \A i \in DOMAIN me.got : used[i] \in Strings(me.got[i])
           /\ IF me.message.command = "LOGIN" /\ used[1] = used[2] /\ used[1] \in Users
              THEN /\ BeginAdd(fd, used[1])
                   /\ handler' = [handler EXCEPT ![fd].pc = "call", ![fd].used = used,
                                                 ![fd].reply = "success"]
              ELSE /\ \E outcome \in IF me.message.command = "LOGIN" THEN {"fail"}
                                     ELSE Outcomes(me.message.command) :
                         handler' = [handler EXCEPT ![fd].pc = "reply", ![fd].used = used,
                                                    ![fd].reply = outcome]
                   /\ UNCHANGED tableVars
    BY <1>2 DEF Serve
  <2>2. Outcomes(me.message.command) \subseteq {"error", "data", "success", "fail"}
    BY DEF Outcomes
  <2>3. CASE me.message.command = "LOGIN" /\ used[1] = used[2] /\ used[1] \in Users
    BY <2>1, <2>3
  <2>4. CASE ~(me.message.command = "LOGIN" /\ used[1] = used[2] /\ used[1] \in Users)
    <3>1. PICK outcome \in {"error", "data", "success", "fail"} :
             /\ handler' = [handler EXCEPT ![fd].pc = "reply", ![fd].used = used,
                                           ![fd].reply = outcome]
             /\ UNCHANGED tableVars
      BY <2>1, <2>2, <2>4
    <3> QED
      BY <2>1, <3>1
  <2> QED
    BY <2>3, <2>4
<1>5. used \in Seq(Fields) /\ Len(used) = Len(me.got)
  BY <1>3
<1>6. handler'[fd] = [me EXCEPT !.pc = pc, !.used = used, !.reply = reply]
  BY <1>1, <1>2, <1>4
<1>7. PICK new : new = [me EXCEPT !.pc = pc, !.used = used, !.reply = reply]
  OBVIOUS
<1>8. /\ new \in HandlerType /\ new.pc = pc /\ new.used = used /\ new.reply = reply
      /\ new.message = me.message /\ new.pos = me.pos /\ new.got = me.got
      /\ new.mixed = me.mixed
  BY <1>3, <1>4, <1>5, <1>7 DEF HandlerType
<1>9. /\ handler' \in [Sockets -> HandlerType] /\ handler'[fd] = new
      /\ \A h \in Sockets \ {fd} : handler'[h] = handler[h]
  BY <1>1, <1>4, <1>6, <1>7, <1>8
<1>10. \A i \in DOMAIN me.got : me.got[i] # Null
  BY <1>2 DEF Serve
<1> QED
  BY <1>1, <1>2, <1>4, <1>5, <1>8, <1>9, <1>10 DEF OthersStay

\* The login is over.
LEMMA LoggedInFields ==
    ASSUME Typed, NEW fd \in Sockets, LoggedIn(fd)
    PROVE  LET me == handler[fd]
               new == handler'[fd]
           IN  /\ me.pc = "call" /\ OthersStay(fd)
               /\ handler' \in [Sockets -> HandlerType]
               /\ new.message = me.message /\ new.pos = me.pos /\ new.got = me.got
               /\ new.used = me.used /\ new.mixed = me.mixed
               /\ new.pc = "reply" /\ new.reply = me.reply
<1>1. handler \in [Sockets -> HandlerType]
  BY DEF Typed, HandlersTyped
<1>2. handler' = [handler EXCEPT ![fd].pc = "reply"]
  BY DEF LoggedIn
<1>3. /\ handler' \in [Sockets -> HandlerType]
      /\ \A h \in Sockets \ {fd} : handler'[h] = handler[h]
  BY <1>1, <1>2 DEF HandlerType
<1>4. handler'[fd] = [handler[fd] EXCEPT !.pc = "reply"] /\ handler[fd] \in HandlerType
  BY <1>1, <1>2
<1>5. LET me == handler[fd]
          new == handler'[fd]
      IN  /\ new.message = me.message /\ new.pos = me.pos /\ new.got = me.got
          /\ new.used = me.used /\ new.mixed = me.mixed
          /\ new.pc = "reply" /\ new.reply = me.reply
  BY <1>4 DEF HandlerType
<1> QED
  BY <1>3, <1>5 DEF OthersStay, LoggedIn

\* The client is gone.
LEMMA ClientGoneFields ==
    ASSUME Typed, NEW fd \in Sockets, ClientGone(fd)
    PROVE  LET me == handler[fd]
               new == handler'[fd]
           IN  /\ me.pc = "idle" /\ OthersStay(fd)
               /\ handler' \in [Sockets -> HandlerType]
               /\ new.message = me.message /\ new.pos = me.pos /\ new.got = me.got
               /\ new.used = me.used /\ new.mixed = me.mixed
               /\ new.pc = "leaving" /\ new.reply = me.reply
<1>1. handler \in [Sockets -> HandlerType]
  BY DEF Typed, HandlersTyped
<1>2. handler' = [handler EXCEPT ![fd].pc = "leaving"]
  BY DEF ClientGone
<1>3. /\ handler' \in [Sockets -> HandlerType]
      /\ \A h \in Sockets \ {fd} : handler'[h] = handler[h]
  BY <1>1, <1>2 DEF HandlerType
<1>4. handler'[fd] = [handler[fd] EXCEPT !.pc = "leaving"] /\ handler[fd] \in HandlerType
  BY <1>1, <1>2
<1>5. LET me == handler[fd]
          new == handler'[fd]
      IN  /\ new.message = me.message /\ new.pos = me.pos /\ new.got = me.got
          /\ new.used = me.used /\ new.mixed = me.mixed
          /\ new.pc = "leaving" /\ new.reply = me.reply
  BY <1>4 DEF HandlerType
<1> QED
  BY <1>3, <1>5 DEF OthersStay, ClientGone

\* The connection is over.
LEMMA DisconnectedFields ==
    ASSUME Typed, NEW fd \in Sockets, Disconnected(fd)
    PROVE  /\ handler[fd].pc = "leaving" /\ OthersStay(fd)
           /\ handler' \in [Sockets -> HandlerType] /\ handler'[fd] = Idle
<1>1. handler \in [Sockets -> HandlerType]
  BY DEF Typed, HandlersTyped
<1>2. handler' = [handler EXCEPT ![fd] = Idle] /\ handler[fd].pc = "leaving"
  BY DEF Disconnected
<1>3. Idle \in HandlerType
  BY IdleFacts
<1>4. PICK idle : idle = Idle
  OBVIOUS
<1>5. /\ handler' \in [Sockets -> HandlerType] /\ handler'[fd] = idle
      /\ \A h \in Sockets \ {fd} : handler'[h] = handler[h]
  BY <1>1, <1>2, <1>3, <1>4
<1> QED
  BY <1>2, <1>4, <1>5 DEF OthersStay

\* A pointer when a copy is freed.
LEMMA WithoutFacts ==
    ASSUME NEW fd \in Sockets, NEW p \in Pointers
    PROVE  /\ Without(fd, p) \in Pointers
           /\ p = Null <=> Without(fd, p) = Null
           /\ p.copy = fd => Without(fd, p) = Freed
           /\ p.copy # fd => Without(fd, p) = p
<1>1. Null.copy # fd /\ Null # Freed /\ Freed \in Pointers
  BY PointerFacts
<1> QED
  BY <1>1 DEF Without

\* The reply is sent and the copy freed.
LEMMA ReplyFields ==
    ASSUME Typed, NEW fd \in Sockets, Reply(fd)
    PROVE  /\ handler[fd].pc = "reply"
           /\ handler' \in [Sockets -> HandlerType] /\ handler'[fd] = Idle
           /\ olds' = Without(fd, olds)
           /\ \A h \in Sockets \ {fd} :
                 /\ SameRequest(h) /\ handler'[h].mixed = handler[h].mixed
                 /\ handler'[h].pos = Without(fd, handler[h].pos)
                 /\ DOMAIN handler'[h].got = DOMAIN handler[h].got
                 /\ Len(handler'[h].got) = Len(handler[h].got)
                 /\ \A i \in DOMAIN handler[h].got :
                       handler'[h].got[i] = Without(fd, handler[h].got[i])
<1>1. handler \in [Sockets -> HandlerType] /\ handler[fd].pc = "reply"
  BY DEF Typed, HandlersTyped, Reply
<1>2. /\ handler'[fd] = Idle /\ handler' = [h \in Sockets |-> handler'[h]]
      /\ \A h \in Sockets \ {fd} :
            handler'[h] = [handler[h] EXCEPT !.pos = Without(fd, handler[h].pos),
                                             !.got = [i \in DOMAIN handler[h].got |->
                                                         Without(fd, handler[h].got[i])]]
  BY DEF Reply
<1>3. ASSUME NEW h \in Sockets \ {fd}
      PROVE  /\ handler'[h] \in HandlerType
             /\ SameRequest(h) /\ handler'[h].mixed = handler[h].mixed
             /\ handler'[h].pos = Without(fd, handler[h].pos)
             /\ DOMAIN handler'[h].got = DOMAIN handler[h].got
             /\ Len(handler'[h].got) = Len(handler[h].got)
             /\ \A i \in DOMAIN handler[h].got :
                   handler'[h].got[i] = Without(fd, handler[h].got[i])
  <2>1. PICK me : me = handler[h]
    OBVIOUS
  <2>2. me \in HandlerType
    BY <1>1, <2>1
  <2>3. me.pos \in Pointers /\ me.got \in Seq(Pointers)
    BY <2>2 DEF HandlerType
  <2>4. \A i \in DOMAIN me.got : me.got[i] \in Pointers
    BY <2>3
  <2>5. PICK pos : pos = Without(fd, me.pos)
    OBVIOUS
  <2>6. PICK got : got = [i \in DOMAIN me.got |-> Without(fd, me.got[i])]
    OBVIOUS
  <2>7. pos \in Pointers
    BY <2>3, <2>5, WithoutFacts
  <2>8. \A i \in DOMAIN me.got : Without(fd, me.got[i]) \in Pointers
    BY <2>4, WithoutFacts
  <2>9. DOMAIN me.got = 1..Len(me.got) /\ Len(me.got) \in Nat
    BY <2>3
  <2>10. got \in Seq(Pointers) /\ Len(got) = Len(me.got)
    BY <2>6, <2>8, <2>9
  <2>11. handler'[h] = [me EXCEPT !.pos = pos, !.got = got]
    BY <1>2, <2>1, <2>5, <2>6
  <2>12. PICK new : new = handler'[h]
    OBVIOUS
  <2>13. /\ new \in HandlerType /\ new.pos = pos /\ new.got = got /\ new.mixed = me.mixed
         /\ new.pc = me.pc /\ new.message = me.message /\ new.used = me.used
         /\ new.reply = me.reply
    BY <2>2, <2>7, <2>10, <2>11, <2>12 DEF HandlerType
  <2>14. DOMAIN got = DOMAIN me.got /\ \A i \in DOMAIN me.got : got[i] = Without(fd, me.got[i])
    BY <2>6
  <2> QED
    BY <2>1, <2>5, <2>10, <2>12, <2>13, <2>14 DEF SameRequest
<1>4. Idle \in HandlerType
  BY IdleFacts
<1>5. \A h \in Sockets : handler'[h] \in HandlerType
  BY <1>2, <1>3, <1>4
<1>6. handler' \in [Sockets -> HandlerType]
  BY <1>2, <1>5
<1> QED
  BY <1>1, <1>2, <1>3, <1>6 DEF Reply

-----------------------------------------------------------------------------
(***************************************************************************)
(* The steps of a call                                                     *)
(***************************************************************************)
\* The calls of the others are as they were, and this one is for the same user.
OneCall(fd) == /\ call' \in [Sockets -> CallType]
               /\ \A g \in Sockets \ {fd} : call'[g] = call[g]
               /\ call'[fd].user = call[fd].user

CallPcs == AddPcs \cup RemovePcs \cup {"none", "count", "return"}

\* A call goes on with its next step.
LEMMA GotoFacts ==
    ASSUME call \in [Sockets -> CallType], NEW fd \in Sockets, NEW pc \in CallPcs, Goto(fd, pc)
    PROVE  /\ OneCall(fd) /\ call'[fd].pc = pc
           /\ call'[fd].i = call[fd].i /\ call'[fd].last = call[fd].last
<1>1. call' = [call EXCEPT ![fd] = [call[fd] EXCEPT !.pc = pc]]
  BY DEF Goto
<1>2. PICK new : new = [call[fd] EXCEPT !.pc = pc]
  OBVIOUS
<1>3. /\ new \in CallType /\ new.pc = pc /\ new.user = call[fd].user
      /\ new.i = call[fd].i /\ new.last = call[fd].last
  BY <1>2 DEF CallType, CallPcs
<1> QED
  BY <1>1, <1>2, <1>3 DEF OneCall

\* A call goes on, and writes its index or the value it has loaded as well.
LEMMA CallFacts ==
    ASSUME call \in [Sockets -> CallType], NEW fd \in Sockets, NEW new \in CallType,
           new.user = call[fd].user, call' = [call EXCEPT ![fd] = new]
    PROVE  OneCall(fd) /\ call'[fd] = new
BY DEF OneCall

\* The place that a store hits, and the others.
OthersKept(p) == \A q \in Places \ {p} : table'[q] = table[q]

\* The stores of the table.
LEMMA StoreFacts ==
    ASSUME table \in [Places -> Entry], NEW p, NEW u \in Users \cup {NoUser}, NEW fd \in Sockets
    PROVE  /\ Store(p, "userId", u) =>
                 /\ table' \in [Places -> Entry] /\ count' = count /\ most' = most
                 /\ p \notin Places => outside' = TRUE /\ table' = table
                 /\ p \in Places =>
                       /\ outside' = outside /\ OthersKept(p) /\ table'[p].userId = u
                       /\ table'[p].socket_fd = table[p].socket_fd
                       /\ table'[p].username = table[p].username
           /\ Store(p, "socket_fd", fd) =>
                 /\ table' \in [Places -> Entry] /\ count' = count /\ most' = most
                 /\ p \notin Places => outside' = TRUE /\ table' = table
                 /\ p \in Places =>
                       /\ outside' = outside /\ OthersKept(p) /\ table'[p].socket_fd = fd
                       /\ table'[p].userId = table[p].userId
                       /\ table'[p].username = table[p].username
           /\ Store(p, "username", u) =>
                 /\ table' \in [Places -> Entry] /\ count' = count /\ most' = most
                 /\ p \notin Places => outside' = TRUE /\ table' = table
                 /\ p \in Places =>
                       /\ outside' = outside /\ OthersKept(p) /\ table'[p].username = u
                       /\ table'[p].userId = table[p].userId
                       /\ table'[p].socket_fd = table[p].socket_fd
<1> DEFINE A == [table[p] EXCEPT !.userId = u]
           B == [table[p] EXCEPT !.socket_fd = fd]
           C == [table[p] EXCEPT !.username = u]
<1>1. ASSUME p \in Places
      PROVE  /\ A \in Entry /\ A.userId = u /\ A.socket_fd = table[p].socket_fd
             /\ A.username = table[p].username
             /\ B \in Entry /\ B.socket_fd = fd /\ B.userId = table[p].userId
             /\ B.username = table[p].username
             /\ C \in Entry /\ C.username = u /\ C.userId = table[p].userId
             /\ C.socket_fd = table[p].socket_fd
  BY <1>1 DEF Entry
<1>2. Store(p, "userId", u) /\ p \in Places => table' = [table EXCEPT ![p] = A]
  BY DEF Store
<1>3. Store(p, "socket_fd", fd) /\ p \in Places => table' = [table EXCEPT ![p] = B]
  BY DEF Store
<1>4. Store(p, "username", u) /\ p \in Places => table' = [table EXCEPT ![p] = C]
  BY DEF Store
<1> HIDE DEF A, B, C
<1>5. ASSUME NEW f \in {"userId", "socket_fd", "username"}, NEW v, Store(p, f, v)
      PROVE  /\ count' = count /\ most' = most
             /\ p \notin Places => outside' = TRUE /\ table' = table
             /\ p \in Places => outside' = outside
  BY <1>5 DEF Store
<1>6. ASSUME NEW new \in Entry, p \in Places, table' = [table EXCEPT ![p] = new]
      PROVE  table' \in [Places -> Entry] /\ OthersKept(p) /\ table'[p] = new
  BY <1>6 DEF OthersKept
<1>7. CASE p \notin Places
  BY <1>5, <1>7
<1>8. CASE p \in Places
  BY <1>1, <1>2, <1>3, <1>4, <1>5, <1>6, <1>8
<1> QED
  BY <1>7, <1>8

\* A turn of the loop of SessionManager_add.
LEMMA MatchFields ==
    ASSUME CallsTyped, NEW fd \in Sockets, Match(fd)
    PROVE  LET c == call[fd]
               new == call'[fd]
           IN  /\ c.pc = "match" /\ OneCall(fd) /\ new.last = c.last
               /\ UNCHANGED <<table, count, most>>
               /\ \/ c.i >= count /\ new.pc = "user" /\ new.i = c.i /\ outside' = outside
                  \/ /\ c.i < count /\ c.i \in Places /\ outside' = outside
                     /\ \/ /\ Matches(table[c.i], c.user, fd)
                           /\ new.pc = "update" /\ new.i = c.i
                        \/ /\ ~Matches(table[c.i], c.user, fd)
                           /\ new.pc = "match" /\ new.i = c.i + 1
                  \/ c.i < count /\ c.i \notin Places /\ outside' = TRUE /\ call' = call
<1>1. /\ call \in [Sockets -> CallType] /\ call[fd].i \in Nat /\ call[fd].last \in Int
      /\ call[fd].pc = "match" /\ call[fd].i + 1 \in Nat
  BY DEF CallsTyped, CallType, Match
<1>2. {"user", "update", "match"} \subseteq CallPcs
  BY DEF CallPcs, AddPcs
<1>3. CASE /\ call[fd].i >= count
           /\ call' = [call EXCEPT ![fd].pc = "user"]
           /\ UNCHANGED outside
  <2>1. Goto(fd, "user")
    BY <1>3 DEF Goto
  <2> QED
    BY <1>1, <1>2, <1>3, <2>1, GotoFacts DEF Match
<1>4. CASE /\ call[fd].i < count /\ call[fd].i \in Places /\ UNCHANGED outside
           /\ Matches(table[call[fd].i], call[fd].user, fd)
           /\ call' = [call EXCEPT ![fd] = [call[fd] EXCEPT !.pc = "update"]]
  <2>1. Goto(fd, "update")
    BY <1>4 DEF Goto
  <2> QED
    BY <1>1, <1>2, <1>4, <2>1, GotoFacts DEF Match
<1>5. CASE /\ call[fd].i < count /\ call[fd].i \in Places /\ UNCHANGED outside
           /\ ~Matches(table[call[fd].i], call[fd].user, fd)
           /\ call' = [call EXCEPT ![fd] = [call[fd] EXCEPT !.i = call[fd].i + 1]]
  <2>1. PICK i \in Nat : i = call[fd].i + 1
    BY <1>1
  <2>2. PICK new : new = [call[fd] EXCEPT !.i = i]
    OBVIOUS
  <2>3. /\ new \in CallType /\ new.user = call[fd].user /\ new.pc = "match"
        /\ new.i = i /\ new.last = call[fd].last
    BY <1>1, <2>2 DEF CallType
  <2>4. call' = [call EXCEPT ![fd] = new]
    BY <1>5, <2>1, <2>2
  <2>5. OneCall(fd) /\ call'[fd] = new
    BY <1>1, <2>3, <2>4, CallFacts
  <2> QED
    BY <1>1, <1>5, <2>1, <2>3, <2>5 DEF Match
<1>6. CASE /\ call[fd].i < count /\ call[fd].i \notin Places /\ outside' = TRUE
           /\ UNCHANGED call
  BY <1>1, <1>6 DEF Match, OneCall
<1> QED
  BY <1>3, <1>4, <1>5, <1>6 DEF Match, Matches

\* A turn of the loop of SessionManager_remove_by_socket.
LEMMA FindFields ==
    ASSUME CallsTyped, NEW fd \in Sockets, Find(fd)
    PROVE  LET c == call[fd]
               new == call'[fd]
           IN  /\ c.pc = "find" /\ OneCall(fd) /\ new.last = c.last
               /\ UNCHANGED <<table, count, most>>
               /\ \/ c.i >= count /\ new.pc = "return" /\ new.i = c.i /\ outside' = outside
                  \/ /\ c.i < count /\ c.i \in Places /\ outside' = outside
                     /\ \/ table[c.i].socket_fd = fd /\ new.pc = "move" /\ new.i = c.i
                        \/ table[c.i].socket_fd # fd /\ new.pc = "find" /\ new.i = c.i + 1
                  \/ c.i < count /\ c.i \notin Places /\ outside' = TRUE /\ call' = call
<1>1. /\ call \in [Sockets -> CallType] /\ call[fd].i \in Nat /\ call[fd].last \in Int
      /\ call[fd].pc = "find" /\ call[fd].i + 1 \in Nat
  BY DEF CallsTyped, CallType, Find
<1>2. {"return", "move", "find"} \subseteq CallPcs
  BY DEF CallPcs, RemovePcs
<1>3. CASE /\ call[fd].i >= count
           /\ call' = [call EXCEPT ![fd].pc = "return"]
           /\ UNCHANGED outside
  <2>1. Goto(fd, "return")
    BY <1>3 DEF Goto
  <2> QED
    BY <1>1, <1>2, <1>3, <2>1, GotoFacts DEF Find
<1>4. CASE /\ call[fd].i < count /\ call[fd].i \in Places /\ UNCHANGED outside
           /\ table[call[fd].i].socket_fd = fd
           /\ call' = [call EXCEPT ![fd] = [call[fd] EXCEPT !.pc = "move"]]
  <2>1. Goto(fd, "move")
    BY <1>4 DEF Goto
  <2> QED
    BY <1>1, <1>2, <1>4, <2>1, GotoFacts DEF Find
<1>5. CASE /\ call[fd].i < count /\ call[fd].i \in Places /\ UNCHANGED outside
           /\ table[call[fd].i].socket_fd # fd
           /\ call' = [call EXCEPT ![fd] = [call[fd] EXCEPT !.i = call[fd].i + 1]]
  <2>1. PICK i \in Nat : i = call[fd].i + 1
    BY <1>1
  <2>2. PICK new : new = [call[fd] EXCEPT !.i = i]
    OBVIOUS
  <2>3. /\ new \in CallType /\ new.user = call[fd].user /\ new.pc = "find"
        /\ new.i = i /\ new.last = call[fd].last
    BY <1>1, <2>2 DEF CallType
  <2>4. call' = [call EXCEPT ![fd] = new]
    BY <1>5, <2>1, <2>2
  <2>5. OneCall(fd) /\ call'[fd] = new
    BY <1>1, <2>3, <2>4, CallFacts
  <2> QED
    BY <1>1, <1>5, <2>1, <2>3, <2>5 DEF Find
<1>6. CASE /\ call[fd].i < count /\ call[fd].i \notin Places /\ outside' = TRUE
           /\ UNCHANGED call
  BY <1>1, <1>6 DEF Find, OneCall
<1> QED
  BY <1>3, <1>4, <1>5, <1>6 DEF Find

\* The first half of the copy of the last entry.
LEMMA MoveFields ==
    ASSUME CallsTyped, NEW fd \in Sockets, Move(fd)
    PROVE  LET c == call[fd]
               new == call'[fd]
           IN  /\ c.pc = "move" /\ c.i \in Places /\ OneCall(fd)
               /\ new.pc = "moving" /\ new.i = c.i /\ new.last = count - 1
               /\ UNCHANGED <<count, most>> /\ table' \in [Places -> Entry]
               /\ \/ /\ count - 1 \in Places /\ outside' = outside /\ OthersKept(c.i)
                     /\ table'[c.i] = [table[c.i] EXCEPT !.userId = table[count - 1].userId]
                  \/ count - 1 \notin Places /\ outside' = TRUE /\ table' = table
<1>1. /\ call \in [Sockets -> CallType] /\ call[fd].i \in Nat /\ count - 1 \in Int
      /\ call[fd].pc = "move" /\ call[fd].i \in Places /\ table \in [Places -> Entry]
  BY DEF CallsTyped, CallType, Move, InRange
<1>3. call' = [call EXCEPT ![fd] = [call[fd] EXCEPT !.pc = "moving", !.last = count - 1]]
  BY DEF Move
<1>4. PICK last \in Int : last = count - 1
  BY <1>1
<1>5. /\ OneCall(fd)
      /\ call'[fd].pc = "moving" /\ call'[fd].i = call[fd].i /\ call'[fd].last = count - 1
  <2>1. PICK new : new = [call[fd] EXCEPT !.pc = "moving", !.last = last]
    OBVIOUS
  <2>2. /\ new \in CallType /\ new.user = call[fd].user /\ new.pc = "moving"
        /\ new.i = call[fd].i /\ new.last = last
    BY <1>1, <2>1 DEF CallType, RemovePcs
  <2>3. call' = [call EXCEPT ![fd] = new]
    BY <1>3, <1>4, <2>1
  <2> QED
    BY <1>1, <1>4, <2>2, <2>3, CallFacts
<1>6. CASE count - 1 \in Places
  <2>1. PICK new : new = [table[call[fd].i] EXCEPT !.userId = table[count - 1].userId]
    OBVIOUS
  <2>2. new \in Entry
    BY <1>1, <1>6, <2>1 DEF Entry
  <2>3. table' = [table EXCEPT ![call[fd].i] = new]
    BY <1>6, <2>1 DEF Move
  <2>4. table' \in [Places -> Entry] /\ OthersKept(call[fd].i) /\ table'[call[fd].i] = new
    BY <1>1, <2>2, <2>3 DEF OthersKept
  <2> QED
    BY <1>1, <1>5, <1>6, <2>1, <2>4 DEF Move
<1>7. CASE count - 1 \notin Places
  BY <1>1, <1>5, <1>7 DEF Move
<1> QED
  BY <1>6, <1>7

\* The second half of the copy.
LEMMA MovingFields ==
    ASSUME CallsTyped, ~outside, NEW fd \in Sockets, Moving(fd)
    PROVE  LET c == call[fd]
               new == call'[fd]
           IN  /\ c.pc = "moving" /\ c.i \in Places /\ c.last \in Places /\ OneCall(fd)
               /\ new.pc = "clear" /\ new.i = c.i /\ new.last = c.last
               /\ UNCHANGED <<count, most, outside>>
               /\ table' \in [Places -> Entry] /\ OthersKept(c.i)
               /\ table'[c.i] = [table[c.last] EXCEPT !.userId = table[c.i].userId]
<1>1. /\ call \in [Sockets -> CallType] /\ call[fd].pc = "moving" /\ call[fd].i \in Places
      /\ call[fd].last \in Places /\ table \in [Places -> Entry]
  BY DEF CallsTyped, Moving, InRange
<1>2. "clear" \in CallPcs /\ Goto(fd, "clear")
  BY DEF CallPcs, RemovePcs, Moving
<1>3. /\ OneCall(fd) /\ call'[fd].pc = "clear"
      /\ call'[fd].i = call[fd].i /\ call'[fd].last = call[fd].last
  BY <1>1, <1>2, GotoFacts
<1>4. PICK new : new = [table[call[fd].last] EXCEPT !.userId = table[call[fd].i].userId]
  OBVIOUS
<1>5. new \in Entry
  BY <1>1, <1>4 DEF Entry
<1>6. table' = [table EXCEPT ![call[fd].i] = new]
  BY <1>4 DEF Moving
<1>7. table' \in [Places -> Entry] /\ OthersKept(call[fd].i) /\ table'[call[fd].i] = new
  BY <1>1, <1>5, <1>6 DEF OthersKept
<1> QED
  BY <1>1, <1>3, <1>4, <1>7 DEF Moving

\* The memset of the last entry.
LEMMA ClearFields ==
    ASSUME CallsTyped, NEW fd \in Sockets, Clear(fd)
    PROVE  LET c == call[fd]
               new == call'[fd]
           IN  /\ c.pc = "clear" /\ OneCall(fd)
               /\ new.pc = "decrement" /\ new.i = c.i /\ new.last = c.last
               /\ UNCHANGED <<count, most>> /\ table' \in [Places -> Entry]
               /\ \/ count - 1 \in Places /\ outside' = outside /\ OthersKept(count - 1)
                  \/ count - 1 \notin Places /\ outside' = TRUE /\ table' = table
<1>1. /\ call \in [Sockets -> CallType] /\ call[fd].pc = "clear"
      /\ table \in [Places -> Entry]
  BY DEF CallsTyped, Clear
<1>2. "decrement" \in CallPcs /\ Goto(fd, "decrement")
  BY DEF CallPcs, RemovePcs, Clear
<1>3. /\ OneCall(fd) /\ call'[fd].pc = "decrement"
      /\ call'[fd].i = call[fd].i /\ call'[fd].last = call[fd].last
  BY <1>1, <1>2, GotoFacts
<1>4. Zero \in Entry
  BY DEF Zero, Entry
<1>5. CASE count - 1 \in Places
  <2>1. table' = [table EXCEPT ![count - 1] = Zero]
    BY <1>5 DEF Clear
  <2>2. table' \in [Places -> Entry] /\ OthersKept(count - 1)
    BY <1>1, <1>4, <2>1 DEF OthersKept
  <2> QED
    BY <1>1, <1>3, <1>5, <2>2 DEF Clear
<1>6. CASE count - 1 \notin Places
  BY <1>1, <1>3, <1>6 DEF Clear
<1> QED
  BY <1>5, <1>6

\* The count is loaded, one up or one down.
LEMMA LoadCountFields ==
    ASSUME CallsTyped, NEW fd \in Sockets, NEW by \in {"increment", "decrement"},
           LoadCount(fd, by)
    PROVE  LET c == call[fd]
               new == call'[fd]
           IN  /\ c.pc = by /\ OneCall(fd) /\ new.pc = "count" /\ new.i = c.i
               /\ new.last = count + (IF by = "increment" THEN 1 ELSE -1)
               /\ UNCHANGED <<table, count, most, outside>>
<1>1. PICK last \in Int : last = count + (IF by = "increment" THEN 1 ELSE -1)
  BY DEF CallsTyped
<1>2. /\ call \in [Sockets -> CallType] /\ call[fd].i \in Nat
  BY DEF CallsTyped, CallType
<1>3. call' = [call EXCEPT ![fd] = [call[fd] EXCEPT !.pc = "count", !.last = last]]
  BY <1>1 DEF LoadCount
<1>4. PICK new : new = [call[fd] EXCEPT !.pc = "count", !.last = last]
  OBVIOUS
<1>5. /\ new \in CallType /\ new.user = call[fd].user /\ new.pc = "count"
      /\ new.i = call[fd].i /\ new.last = last
  BY <1>2, <1>4 DEF CallType
<1>6. OneCall(fd) /\ call'[fd] = new
  BY <1>2, <1>3, <1>4, <1>5, CallFacts
<1> QED
  BY <1>1, <1>5, <1>6 DEF LoadCount

\* The call is over.
LEMMA ReturnFields ==
    ASSUME CallsTyped, NEW fd \in Sockets, Return(fd)
    PROVE  /\ call[fd].pc = "return" /\ call'[fd] = NoCall /\ ~outside
           /\ call' \in [Sockets -> CallType]
           /\ \A g \in Sockets \ {fd} : call'[g] = call[g]
           /\ UNCHANGED <<table, count, most, outside>>
<1>1. NoCall \in CallType /\ call \in [Sockets -> CallType]
  BY DEF NoCall, CallType, CallsTyped
<1> QED
  BY <1>1 DEF Return

\* SessionManager_add is called ...
LEMMA BeginAddFields ==
    ASSUME CallsTyped, NEW fd \in Sockets, NEW u \in Users, BeginAdd(fd, u)
    PROVE  LET new == call'[fd]
           IN  /\ call[fd].pc = "none" /\ new.user = u /\ new.i = 0 /\ new.last = 0
               /\ new.pc = IF count >= MaxSessions THEN "return" ELSE "match"
               /\ call' \in [Sockets -> CallType]
               /\ \A g \in Sockets \ {fd} : call'[g] = call[g]
               /\ UNCHANGED <<table, count, outside>>
               /\ most' = AtOnce(Cardinality(Calling) + 1)
<1>1. call \in [Sockets -> CallType] /\ call[fd].pc = "none"
  BY DEF BeginAdd, CallsTyped, NoCall
<1>2. PICK pc \in CallPcs : pc = IF count >= MaxSessions THEN "return" ELSE "match"
  BY DEF CallPcs, AddPcs
<1>3. PICK new : new = [NoCall EXCEPT !.user = u, !.pc = pc]
  OBVIOUS
<1>4. /\ new.pc = pc /\ new.user = u /\ new.i = 0 /\ new.last = 0 /\ new \in CallType
  <2>1. new = [pc |-> pc, user |-> u, i |-> 0, last |-> 0]
    BY <1>3 DEF NoCall
  <2> QED
    BY <2>1 DEF CallType, CallPcs
<1>5. call' = [call EXCEPT ![fd] = new]
  BY <1>2, <1>3 DEF BeginAdd
<1> QED
  BY <1>1, <1>2, <1>4, <1>5 DEF BeginAdd

\* ... and SessionManager_remove_by_socket.
LEMMA BeginRemoveFields ==
    ASSUME CallsTyped, NEW fd \in Sockets, BeginRemove(fd)
    PROVE  LET new == call'[fd]
           IN  /\ call[fd].pc = "none" /\ new.i = 0 /\ new.last = 0 /\ new.pc = "find"
               /\ call' \in [Sockets -> CallType]
               /\ \A g \in Sockets \ {fd} : call'[g] = call[g]
               /\ UNCHANGED <<table, count, outside>>
               /\ most' = AtOnce(Cardinality(Calling) + 1)
<1>1. /\ call \in [Sockets -> CallType] /\ call[fd].pc = "none"
      /\ call[fd].i = 0 /\ call[fd].last = 0
  BY DEF BeginRemove, CallsTyped, NoCall
<1>2. "find" \in CallPcs /\ Goto(fd, "find")
  BY DEF CallPcs, RemovePcs, BeginRemove, Goto
<1>3. OneCall(fd) /\ call'[fd].pc = "find" /\ call'[fd].i = 0 /\ call'[fd].last = 0
  BY <1>1, <1>2, GotoFacts
<1> QED
  BY <1>1, <1>3 DEF BeginRemove, OneCall

\* How far a call may have got when it makes a step.
Onward(c, new) ==
    /\ c.pc \notin {"none", "return"} /\ new.pc # "none"
    /\ new.pc \in AddPcs => c.pc \in AddPcs
    /\ new.pc \in RemovePcs => c.pc \in RemovePcs

\* A step keeps the types of the table and of the calls, and goes on with a call.
LEMMA StepTyped ==
    ASSUME CallsTyped, NEW fd \in Sockets, TableStep(fd)
    PROVE  CallsTyped' /\ OneCall(fd) /\ most' = most /\ Onward(call[fd], call'[fd])
<1>1. /\ call \in [Sockets -> CallType] /\ table \in [Places -> Entry] /\ count \in Int
      /\ outside = FALSE /\ call[fd].i \in Nat /\ call[fd].last \in Int
      /\ call[fd].user \in Users \cup {NoUser}
      /\ \A g \in Sockets : InRange(call[g])
                            /\ (call[g].pc = "moving" => call[g].last \in Places)
  BY DEF CallsTyped, CallType, TableStep, InRange
<1> DEFINE Goal == /\ OneCall(fd) /\ most' = most /\ Onward(call[fd], call'[fd])
                   /\ table' \in [Places -> Entry] /\ count' \in Int /\ outside' \in BOOLEAN
                   /\ InRange(call'[fd])
                   /\ call'[fd].pc = "moving" => outside' \/ call'[fd].last \in Places
<1>2. ASSUME Match(fd)
      PROVE  Goal
  <2>1. LET c == call[fd]
            new == call'[fd]
        IN  /\ c.pc = "match" /\ OneCall(fd) /\ UNCHANGED <<table, count, most>>
            /\ outside' \in BOOLEAN
            /\ \/ new.i = c.i /\ (new.pc = "user" \/ (new.pc = "update" /\ c.i \in Places))
               \/ new.pc = "match" /\ c.i \in Places /\ new.i = c.i + 1
               \/ new = c
    <3>1. /\ call[fd].pc = "match" /\ OneCall(fd) /\ UNCHANGED <<table, count, most>>
          /\ \/ call'[fd].pc = "user" /\ call'[fd].i = call[fd].i /\ outside' = outside
             \/ /\ call[fd].i \in Places /\ outside' = outside
                /\ \/ call'[fd].pc = "update" /\ call'[fd].i = call[fd].i
                   \/ call'[fd].pc = "match" /\ call'[fd].i = call[fd].i + 1
             \/ outside' = TRUE /\ call' = call
      BY <1>1, <1>2, MatchFields
    <3>2. outside' \in BOOLEAN
      <4>1. outside' = outside \/ outside' = TRUE
        BY <3>1
      <4> QED
        BY <1>1, <4>1
    <3>3. call' = call => call'[fd] = call[fd]
      OBVIOUS
    <3> QED
      BY <3>1, <3>2, <3>3
  <2>2. call[fd].i \in Places => call[fd].i + 1 <= MaxSessions
    BY TableAssumption DEF Places
  <2> QED
    BY <1>1, <2>1, <2>2 DEF Onward, InRange, AddPcs, RemovePcs
<1>3. ASSUME Find(fd)
      PROVE  Goal
  <2>1. LET c == call[fd]
            new == call'[fd]
        IN  /\ c.pc = "find" /\ OneCall(fd) /\ UNCHANGED <<table, count, most>>
            /\ outside' \in BOOLEAN
            /\ \/ new.i = c.i /\ (new.pc = "return" \/ (new.pc = "move" /\ c.i \in Places))
               \/ new.pc = "find" /\ c.i \in Places /\ new.i = c.i + 1
               \/ new = c
    <3>1. /\ call[fd].pc = "find" /\ OneCall(fd) /\ UNCHANGED <<table, count, most>>
          /\ \/ call'[fd].pc = "return" /\ call'[fd].i = call[fd].i /\ outside' = outside
             \/ /\ call[fd].i \in Places /\ outside' = outside
                /\ \/ call'[fd].pc = "move" /\ call'[fd].i = call[fd].i
                   \/ call'[fd].pc = "find" /\ call'[fd].i = call[fd].i + 1
             \/ outside' = TRUE /\ call' = call
      BY <1>1, <1>3, FindFields
    <3>2. outside' \in BOOLEAN
      <4>1. outside' = outside \/ outside' = TRUE
        BY <3>1
      <4> QED
        BY <1>1, <4>1
    <3>3. call' = call => call'[fd] = call[fd]
      OBVIOUS
    <3> QED
      BY <3>1, <3>2, <3>3
  <2>2. call[fd].i \in Places => call[fd].i + 1 <= MaxSessions
    BY TableAssumption DEF Places
  <2> QED
    BY <1>1, <2>1, <2>2 DEF Onward, InRange, AddPcs, RemovePcs
<1>4. ASSUME Move(fd)
      PROVE  Goal
  BY <1>1, <1>4, MoveFields DEF Onward, InRange, AddPcs, RemovePcs
<1>5. ASSUME Moving(fd)
      PROVE  Goal
  BY <1>1, <1>5, MovingFields DEF Onward, InRange, AddPcs, RemovePcs
<1>6. ASSUME Clear(fd)
      PROVE  Goal
  BY <1>1, <1>6, ClearFields DEF Onward, InRange, AddPcs, RemovePcs
<1>7. ASSUME NEW by \in {"increment", "decrement"}, LoadCount(fd, by)
      PROVE  Goal
  <2>1. LET c == call[fd]
            new == call'[fd]
        IN  /\ c.pc = by /\ OneCall(fd) /\ new.pc = "count" /\ new.i = c.i
            /\ UNCHANGED <<table, count, most, outside>>
    BY <1>7, LoadCountFields
  <2> QED
    BY <1>1, <2>1 DEF Onward, InRange, AddPcs, RemovePcs
<1>8. ASSUME StoreCount(fd)
      PROVE  Goal
  <2>1. Goto(fd, "return") /\ call[fd].pc = "count" /\ count' = call[fd].last
        /\ UNCHANGED <<table, most, outside>>
    BY <1>8 DEF StoreCount
  <2>2. "return" \in CallPcs
    BY DEF CallPcs
  <2> QED
    BY <1>1, <2>1, <2>2, GotoFacts DEF Onward, InRange, AddPcs, RemovePcs
<1>9. ASSUME NEW pc \in {"rename", "return", "socket", "name", "increment"}, Goto(fd, pc),
             call[fd].pc \in AddPcs, pc = "rename" => call[fd].i \in Places,
             table' \in [Places -> Entry], count' = count, most' = most, outside' \in BOOLEAN
      PROVE  Goal
  <2>1. pc \in CallPcs
    BY DEF CallPcs, AddPcs
  <2>2. /\ OneCall(fd) /\ call'[fd].pc = pc
        /\ call'[fd].i = call[fd].i /\ call'[fd].last = call[fd].last
    BY <1>1, <1>9, <2>1, GotoFacts
  <2> QED
    BY <1>1, <1>9, <2>2 DEF Onward, InRange, AddPcs, RemovePcs
<1>10. ASSUME NEW p, \/ Store(p, "userId", call[fd].user)
                     \/ Store(p, "socket_fd", fd)
                     \/ Store(p, "username", call[fd].user)
       PROVE  table' \in [Places -> Entry] /\ count' = count /\ most' = most /\ outside' \in BOOLEAN
  BY <1>1, <1>10, StoreFacts
<1>11. ASSUME Update(fd) \/ Rename(fd) \/ AddUser(fd) \/ AddSocket(fd) \/ AddName(fd)
      PROVE  Goal
  <2>1. \E p : \/ Store(p, "userId", call[fd].user)
               \/ Store(p, "socket_fd", fd)
               \/ Store(p, "username", call[fd].user)
    BY <1>11 DEF Update, Rename, AddUser, AddSocket, AddName
  <2>2. \E pc \in {"rename", "return", "socket", "name", "increment"} :
           Goto(fd, pc) /\ call[fd].pc \in AddPcs /\ (pc = "rename" => call[fd].pc = "update")
    BY <1>11 DEF Update, Rename, AddUser, AddSocket, AddName, AddPcs
  <2>3. call[fd].pc = "update" => call[fd].i \in Places
    BY <1>1 DEF InRange
  <2> QED
    BY <1>9, <1>10, <2>1, <2>2, <2>3
<1>12. Goal
  BY <1>2, <1>3, <1>4, <1>5, <1>6, <1>7, <1>8, <1>11 DEF TableStep
<1>13. CallsTyped'
  BY <1>1, <1>12 DEF CallsTyped, OneCall, InRange
<1> QED
  BY <1>12, <1>13

-----------------------------------------------------------------------------
(***************************************************************************)
(* The types                                                               *)
(***************************************************************************)

\* A step of one handler, which leaves the others as they were.
LEMMA EngagedFrom ==
    ASSUME Engaged, NEW fd \in Sockets, EngagedAt(fd)',
           \A h \in Sockets \ {fd} : /\ handler'[h].pc = handler[h].pc
                                     /\ handler'[h].used = handler[h].used
                                     /\ call'[h] = call[h] /\ conn'[h] = conn[h]
    PROVE  Engaged'
BY DEF Engaged, EngagedAt

\* The handler and the calls of the others in a step of one.
LEMMA EngagedOthers ==
    ASSUME Engaged, NEW fd \in Sockets, EngagedAt(fd)', OthersStay(fd),
           \A h \in Sockets \ {fd} : call'[h] = call[h] /\ conn'[h] = conn[h]
    PROVE  Engaged'
BY EngagedFrom DEF OthersStay

\* Any step keeps the types.
LEMMA NextTyped ==
    ASSUME Typed, Parsed, Next
    PROVE  Typed'
<1>1. PICK fd \in Sockets :
         \/ Accept(fd) \/ ClientGone(fd) \/ Disconnected(fd) \/ Close(fd)
         \/ \E m \in Messages : Receive(fd, m)
         \/ LookUp(fd) \/ LoadPosition(fd) \/ TakeField(fd)
         \/ Refuse(fd) \/ Serve(fd) \/ LoggedIn(fd) \/ Reply(fd)
         \/ InCall(fd)
  BY DEF Next
<1>2. /\ conn \in [Sockets -> {"closed", "open", "removed"}]
      /\ acked \in [Sockets -> Users \cup {NoUser}]
      /\ handler \in [Sockets -> HandlerType]
      /\ cut \in [Sockets -> SUBSET (Nat \ {0})]
      /\ olds \in Pointers
      /\ CallsTyped /\ Engaged /\ EngagedAt(fd)
  BY DEF Typed, HandlersTyped, Engaged
<1>3. tableVars' = tableVars => CallsTyped'
  BY <1>2 DEF tableVars, CallsTyped
<1>4. handler[fd].pc # "idle" => conn[fd] = "open"
  BY <1>2 DEF EngagedAt
<1>5. CASE Accept(fd) \/ Close(fd)
  <2>1. /\ UNCHANGED <<acked, handler, cut, olds>> /\ tableVars' = tableVars /\ call' = call
        /\ conn' \in [Sockets -> {"closed", "open", "removed"}]
        /\ \A h \in Sockets \ {fd} : conn'[h] = conn[h]
        /\ conn[fd] # "open"
    BY <1>2, <1>5 DEF Accept, Close, tableVars
  <2>2. EngagedAt(fd)'
    BY <1>2, <1>4, <2>1 DEF EngagedAt
  <2>3. OthersStay(fd)
    BY <2>1 DEF OthersStay
  <2> QED
    BY <1>2, <1>3, <2>1, <2>2, <2>3, EngagedOthers DEF Typed, HandlersTyped
<1>6. CASE ClientGone(fd)
  <2>1. /\ UNCHANGED <<conn, acked, cut, olds>> /\ handler' \in [Sockets -> HandlerType]
        /\ handler'[fd].pc = "leaving" /\ OthersStay(fd) /\ BeginRemove(fd)
        /\ conn[fd] = "open"
    BY <1>6, ClientGoneFields DEF ClientGone
  <2>2. LET new == call'[fd]
        IN  /\ new.i = 0 /\ new.last = 0 /\ new.pc = "find"
            /\ call' \in [Sockets -> CallType]
            /\ \A g \in Sockets \ {fd} : call'[g] = call[g]
            /\ UNCHANGED <<table, count, outside>>
    BY <1>2, <2>1, BeginRemoveFields
  <2>3. InRange(call'[fd])
    BY <2>2, TableAssumption DEF InRange
  <2>4. CallsTyped'
    BY <1>2, <2>2, <2>3 DEF CallsTyped, InRange
  <2>5. EngagedAt(fd)'
    BY <2>1, <2>2 DEF EngagedAt, AddPcs, RemovePcs
  <2> QED
    BY <1>2, <2>1, <2>2, <2>4, <2>5, EngagedOthers DEF Typed, HandlersTyped
<1>7. ASSUME Return(fd)
      PROVE  CallsTyped'
  <2>1. /\ call'[fd] = NoCall /\ call' \in [Sockets -> CallType]
        /\ \A g \in Sockets \ {fd} : call'[g] = call[g]
        /\ UNCHANGED <<table, count, outside>>
    BY <1>2, <1>7, ReturnFields
  <2>2. NoCall.pc = "none" /\ NoCall.i = 0
    BY DEF NoCall
  <2>3. InRange(call'[fd])
    BY <2>1, <2>2, TableAssumption DEF InRange
  <2> QED
    BY <1>2, <2>1, <2>2, <2>3 DEF CallsTyped, InRange
<1>8. CASE Disconnected(fd)
  <2>1. /\ UNCHANGED <<cut, olds>> /\ Return(fd)
        /\ conn' \in [Sockets -> {"closed", "open", "removed"}]
        /\ acked' \in [Sockets -> Users \cup {NoUser}]
        /\ \A h \in Sockets \ {fd} : conn'[h] = conn[h]
    BY <1>2, <1>8 DEF Disconnected, Returned
  <2>2. handler' \in [Sockets -> HandlerType] /\ handler'[fd].pc = "idle" /\ OthersStay(fd)
    BY <1>8, DisconnectedFields, IdleFacts
  <2>3. /\ call'[fd] = NoCall /\ \A g \in Sockets \ {fd} : call'[g] = call[g]
    BY <1>2, <2>1, ReturnFields
  <2>4. EngagedAt(fd)'
    BY <2>2, <2>3 DEF EngagedAt, NoCall, AddPcs, RemovePcs
  <2> QED
    BY <1>2, <1>7, <2>1, <2>2, <2>3, <2>4, EngagedOthers DEF Typed, HandlersTyped
<1>9. CASE \E m \in Messages : Receive(fd, m)
  <2>1. PICK m \in Messages : Receive(fd, m)
    BY <1>9
  <2>2. /\ handler[fd].pc = "idle" /\ conn[fd] = "open"
        /\ handler'[fd].pc \in {"session", NextPc(m.command, <<>>)}
        /\ olds' = At(fd, 1) /\ cut' = [cut EXCEPT ![fd] = {}]
        /\ handler' \in [Sockets -> HandlerType]
        /\ \A h \in Sockets \ {fd} : SameParse(h)
    BY <2>1, ReceiveFields
  <2>2a. handler'[fd].pc \in {"session", "load", "serve"}
    BY <2>2, NextPcFacts
  <2>3. UNCHANGED <<conn, acked, sessions, tableVars>>
    BY <2>1 DEF Receive
  <2>4. olds' \in Pointers
    BY <2>2, PointerFacts
  <2>5. cut' \in [Sockets -> SUBSET (Nat \ {0})]
    BY <1>2, <2>2
  <2>6. EngagedAt(fd)'
    BY <1>2, <2>2, <2>2a, <2>3 DEF EngagedAt, tableVars, AddPcs, RemovePcs
  <2>7. Engaged'
    BY <1>2, <2>2, <2>3, <2>6, EngagedFrom DEF SameParse, SameRequest, tableVars
  <2> QED
    BY <1>2, <1>3, <2>2, <2>3, <2>4, <2>5, <2>7 DEF Typed, HandlersTyped
<1>10. CASE LookUp(fd)
  <2>1. /\ handler[fd].pc = "session" /\ handler'[fd].pc \in {"load", "serve", "reply"}
        /\ OthersStay(fd) /\ handler' \in [Sockets -> HandlerType]
    BY <1>10, LookUpFields, NextPcFacts
  <2>2. /\ UNCHANGED <<conn, acked, cut, olds, sessions, table, count, call, most>>
        /\ outside' \in BOOLEAN /\ ~outside
    BY <1>10 DEF LookUp
  <2>3. CallsTyped'
    BY <1>2, <2>2 DEF CallsTyped
  <2>4. EngagedAt(fd)'
    BY <1>2, <2>1, <2>2 DEF EngagedAt, AddPcs, RemovePcs
  <2> QED
    BY <1>2, <2>1, <2>2, <2>3, <2>4, EngagedOthers DEF Typed, HandlersTyped
<1>11. CASE LoadPosition(fd)
  <2>1. /\ handler[fd].pc = "load" /\ handler'[fd].pc = "take"
        /\ handler' \in [Sockets -> HandlerType]
        /\ \A h \in Sockets \ {fd} : SameParse(h)
    BY <1>11, LoadFields
  <2>2. UNCHANGED <<conn, acked, cut, olds, received, sessions, tableVars>>
    BY <1>11 DEF LoadPosition
  <2>3. EngagedAt(fd)'
    BY <1>2, <2>1, <2>2 DEF EngagedAt, tableVars, AddPcs, RemovePcs
  <2>4. Engaged'
    BY <1>2, <2>1, <2>2, <2>3, EngagedFrom DEF SameParse, SameRequest, tableVars
  <2> QED
    BY <1>2, <1>3, <2>1, <2>2, <2>4 DEF Typed, HandlersTyped
<1>12. CASE TakeField(fd)
  <2>1. PICK taken \in TakenFrom(handler[fd].pos) :
           /\ olds' = taken.next
           /\ cut' = IF taken.token.field > 0
                     THEN [cut EXCEPT ![taken.token.copy] = @ \cup {taken.token.field}]
                     ELSE cut
    BY <1>12, TakeFields
  <2>2. /\ handler[fd].pc = "take" /\ handler'[fd].pc \in {"load", "serve"}
        /\ handler' \in [Sockets -> HandlerType] /\ handler[fd].pos # Null
        /\ \A h \in Sockets \ {fd} : SameParse(h)
    BY <1>12, TakeFields, NextPcFacts
  <2>3. UNCHANGED <<conn, acked, received, sessions, tableVars>>
    BY <1>12 DEF TakeField
  <2>4. handler[fd].pos \in Pointers /\ Points(handler[fd].pos, 1)
    BY <1>2, <2>2 DEF HandlerType, Parsed, PointersAt
  <2>5. taken.token \in Pointers /\ taken.next \in Pointers
    BY <2>1, <2>2, <2>4, TakenFacts
  <2>6. taken.token.field > 0 => taken.token.copy \in Sockets /\ taken.token.field \in Nat \ {0}
    BY <2>5, PointerFacts
  <2>7. cut' \in [Sockets -> SUBSET (Nat \ {0})]
    BY <1>2, <2>1, <2>6
  <2>8. EngagedAt(fd)'
    BY <1>2, <2>2, <2>3 DEF EngagedAt, tableVars, AddPcs, RemovePcs
  <2>9. Engaged'
    BY <1>2, <2>2, <2>3, <2>8, EngagedFrom DEF SameParse, SameRequest, tableVars
  <2> QED
    BY <1>2, <1>3, <2>1, <2>2, <2>3, <2>5, <2>7, <2>9 DEF Typed, HandlersTyped
<1>13. CASE Refuse(fd)
  <2>1. /\ handler[fd].pc = "serve" /\ handler'[fd].pc = "reply"
        /\ OthersStay(fd) /\ handler' \in [Sockets -> HandlerType]
    BY <1>13, RefuseFields
  <2>2. UNCHANGED <<conn, acked, cut, olds, received, sessions, tableVars>>
    BY <1>13 DEF Refuse
  <2>3. EngagedAt(fd)'
    BY <1>2, <2>1, <2>2 DEF EngagedAt, tableVars, AddPcs, RemovePcs
  <2> QED
    BY <1>2, <1>3, <2>1, <2>2, <2>3, EngagedOthers DEF Typed, HandlersTyped, tableVars
<1>14. CASE Serve(fd)
  <2>1. /\ handler[fd].pc = "serve" /\ OthersStay(fd) /\ handler' \in [Sockets -> HandlerType]
        /\ \/ handler'[fd].pc = "call" /\ handler'[fd].used[1] \in Users
                                       /\ BeginAdd(fd, handler'[fd].used[1])
           \/ handler'[fd].pc = "reply" /\ UNCHANGED tableVars
    BY <1>14, ServeFields
  <2>2. UNCHANGED <<conn, acked, cut, olds, received, sessions>>
    BY <1>14 DEF Serve
  <2>3. CASE handler'[fd].pc = "reply" /\ UNCHANGED tableVars
    <3>1. EngagedAt(fd)'
      BY <1>2, <2>1, <2>2, <2>3 DEF EngagedAt, tableVars, AddPcs, RemovePcs
    <3> QED
      BY <1>2, <1>3, <2>1, <2>2, <2>3, <3>1, EngagedOthers DEF Typed, HandlersTyped, tableVars
  <2>4. CASE handler'[fd].pc = "call" /\ handler'[fd].used[1] \in Users
                                      /\ BeginAdd(fd, handler'[fd].used[1])
    <3>1. PICK u \in Users : u = handler'[fd].used[1]
      BY <2>4
    <3>2. BeginAdd(fd, u)
      BY <2>4, <3>1
    <3>3. /\ call'[fd].i = 0 /\ call'[fd].user = u /\ call'[fd].pc \in {"return", "match"}
          /\ call' \in [Sockets -> CallType]
          /\ \A g \in Sockets \ {fd} : call'[g] = call[g]
          /\ UNCHANGED <<table, count, outside>>
      BY <1>2, <3>2, BeginAddFields
    <3>4. InRange(call'[fd])
      BY <3>3, TableAssumption DEF InRange
    <3>5. CallsTyped'
      BY <1>2, <3>3, <3>4 DEF CallsTyped, InRange
    <3>6. EngagedAt(fd)'
      BY <1>4, <2>1, <2>2, <2>4, <3>1, <3>3 DEF EngagedAt, AddPcs, RemovePcs
    <3> QED
      BY <1>2, <2>1, <2>2, <3>3, <3>5, <3>6, EngagedOthers DEF Typed, HandlersTyped
  <2> QED
    BY <2>1, <2>3, <2>4
<1>15. CASE LoggedIn(fd)
  <2>1. /\ handler[fd].pc = "call" /\ handler'[fd].pc = "reply"
        /\ OthersStay(fd) /\ handler' \in [Sockets -> HandlerType]
    BY <1>15, LoggedInFields
  <2>2. /\ UNCHANGED <<conn, cut, olds, received>> /\ Return(fd)
        /\ acked' = [acked EXCEPT ![fd] = handler[fd].used[1]]
    BY <1>15 DEF LoggedIn, Returned
  <2>3. handler[fd].used[1] \in Users
    BY <1>2, <2>1 DEF EngagedAt
  <2>4. acked' \in [Sockets -> Users \cup {NoUser}]
    BY <1>2, <2>2, <2>3
  <2>5. /\ call'[fd] = NoCall /\ \A g \in Sockets \ {fd} : call'[g] = call[g]
    BY <1>2, <2>2, ReturnFields
  <2>6. EngagedAt(fd)'
    BY <1>4, <2>1, <2>2, <2>5 DEF EngagedAt, NoCall, AddPcs, RemovePcs
  <2> QED
    BY <1>2, <1>7, <2>1, <2>2, <2>4, <2>5, <2>6, EngagedOthers DEF Typed, HandlersTyped
<1>16. CASE Reply(fd)
  <2>1. /\ handler[fd].pc = "reply" /\ handler' \in [Sockets -> HandlerType]
        /\ handler'[fd].pc = "idle" /\ olds' = Without(fd, olds)
        /\ \A h \in Sockets \ {fd} : SameRequest(h)
    BY <1>16, ReplyFields, IdleFacts
  <2>2. UNCHANGED <<conn, acked, cut, received, sessions, tableVars>>
    BY <1>16 DEF Reply
  <2>3. olds' \in Pointers
    BY <1>2, <2>1, WithoutFacts
  <2>4. EngagedAt(fd)'
    BY <1>2, <2>1, <2>2 DEF EngagedAt, tableVars, AddPcs, RemovePcs
  <2>5. Engaged'
    BY <1>2, <2>1, <2>2, <2>4, EngagedFrom DEF SameRequest, tableVars
  <2> QED
    BY <1>2, <1>3, <2>1, <2>2, <2>3, <2>5 DEF Typed, HandlersTyped
<1>17. CASE InCall(fd)
  <2>1. TableStep(fd) /\ UNCHANGED <<conn, acked, handler, cut, olds, received, sessions>>
    BY <1>17 DEF InCall, handlerVars
  <2>2. CallsTyped' /\ OneCall(fd) /\ Onward(call[fd], call'[fd])
    BY <1>2, <2>1, StepTyped
  <2>3. call[fd].pc \in CallPcs /\ call'[fd].pc \in CallPcs
    BY <1>2, <2>2 DEF CallsTyped, CallType, CallPcs
  <2>4. EngagedAt(fd)'
    BY <1>2, <2>1, <2>2, <2>3 DEF EngagedAt, OneCall, Onward, CallPcs
  <2>5. OthersStay(fd)
    BY <2>1 DEF OthersStay
  <2> QED
    BY <1>2, <2>1, <2>2, <2>4, <2>5, EngagedOthers DEF Typed, HandlersTyped, OneCall
<1> QED
  BY <1>1, <1>5, <1>6, <1>8, <1>9, <1>10, <1>11, <1>12, <1>13, <1>14, <1>15, <1>16, <1>17

-----------------------------------------------------------------------------
(***************************************************************************)
(* The parses                                                              *)
(***************************************************************************)

\* The copies in use stay, and so what the pointers point to.
KeepsCopies == \A h \in Sockets : Busy(h) => Busy(h)' /\ Size(h)' = Size(h)

\* A pointer stays good as long as the copies do.
LEMMA PointsKept ==
    ASSUME KeepsCopies
    PROVE  \A p \in Pointers, more \in 0..1 : Points(p, more) => Points(p, more)'
<1> SUFFICES ASSUME NEW p \in Pointers, NEW more \in 0..1, Points(p, more),
                    p \notin {Null, Freed}
             PROVE  Points(p, more)'
  BY DEF Points
<1>1. p.copy \in Sockets
  BY PointerFacts
<1>2. Busy(p.copy) /\ p.field <= Size(p.copy) + more
  BY DEF Points
<1>3. PICK h \in Sockets : h = p.copy
  BY <1>1
<1>4. Busy(h)' /\ Size(h)' = Size(h)
  BY <1>2, <1>3 DEF KeepsCopies
<1> QED
  BY <1>2, <1>3, <1>4 DEF Points

\* A handler whose request and parse stay as they are, while another one makes
\* a step, in which it may have called strtok.
LEMMA OtherParsed ==
    ASSUME Typed, Parsed, KeepsCopies, NEW h \in Sockets, SameParse(h),
           \/ handler'[h].mixed = handler[h].mixed /\ olds' = olds /\ cut'[h] = cut[h]
           \/ handler'[h].mixed = (handler[h].mixed \/ Parsing(h)) /\ (Parsing(h) => olds' # Null)
    PROVE  PointersAt(h)' /\ ProgressAt(h)' /\ OwnAt(h)' /\ ServedAt(h)'
<1>1. /\ handler[h] \in HandlerType
      /\ PointersAt(h) /\ ProgressAt(h) /\ OwnAt(h) /\ ServedAt(h)
  BY DEF Typed, HandlersTyped, Parsed
<1>2. handler[h].pos \in Pointers /\ handler[h].got \in Seq(Pointers)
  BY <1>1 DEF HandlerType
<1>3. /\ handler'[h].pc = handler[h].pc /\ handler'[h].message = handler[h].message
      /\ handler'[h].used = handler[h].used /\ handler'[h].reply = handler[h].reply
      /\ handler'[h].pos = handler[h].pos /\ handler'[h].got = handler[h].got
  BY DEF SameParse, SameRequest
<1>4. /\ Parsing(h)' <=> Parsing(h)
      /\ Size(h)' = Size(h)
  BY <1>3 DEF Parsing, Size
<1>6. Parsing(h) => olds' # Null
  BY <1>1 DEF PointersAt
<1>7. ~handler'[h].mixed => ~handler[h].mixed
  OBVIOUS
<1>8. PointersAt(h)'
  <2>1. ASSUME NEW i \in DOMAIN handler[h].got
        PROVE  Points(handler[h].got[i], 0)'
    <3>1. handler[h].got[i] \in Pointers
      BY <1>2
    <3>2. PICK p \in Pointers : p = handler[h].got[i]
      BY <3>1
    <3>3. Points(p, 0)
      BY <1>1, <3>2 DEF PointersAt
    <3>4. Points(p, 0)'
      BY <3>3, PointsKept
    <3>5. p = handler'[h].got[i]
      BY <1>3, <3>2
    <3> QED
      BY <1>3, <3>4, <3>5 DEF Points, Busy, Size
  <2>2. PICK p \in Pointers : p = handler[h].pos
    BY <1>2
  <2>3. Points(p, 1)'
    BY <1>1, <2>2, PointsKept DEF PointersAt
  <2>4. p = handler'[h].pos
    BY <1>3, <2>2
  <2> QED
    BY <1>1, <1>3, <1>4, <1>6, <2>1, <2>3, <2>4 DEF PointersAt, Points, Busy, Size
<1>9. ProgressAt(h)'
  BY <1>1, <1>3 DEF ProgressAt
<1>10. ServedAt(h)'
  BY <1>1, <1>3, <1>7 DEF ServedAt
<1>11. OwnAt(h)'
  <2> SUFFICES ASSUME ~handler'[h].mixed
               PROVE  OwnAt(h)'
    BY DEF OwnAt
  <2>1. ~handler[h].mixed
    BY <1>7
  <2>2. CASE Parsing(h)
    <3>1. olds' = olds /\ cut'[h] = cut[h]
      BY <2>2
    <3>2. Stands(h)' <=> Stands(h)
      BY <1>3, <1>4, <3>1 DEF Stands
    <3> QED
      BY <1>1, <1>3, <1>4, <2>1, <3>1, <3>2 DEF OwnAt
  <2>3. CASE ~Parsing(h)
    <3>1. handler[h].pc # "take"
      BY <2>3 DEF Parsing
    <3> QED
      BY <1>1, <1>3, <1>4, <2>1, <2>3, <3>1 DEF OwnAt
  <2> QED
    BY <2>2, <2>3
<1> QED
  BY <1>8, <1>9, <1>10, <1>11

\* A handler that goes on with the parse it has made.
LEMMA OwnParsed ==
    ASSUME Typed, Parsed, NEW fd \in Sockets, OthersStay(fd), olds' = olds, cut' = cut,
           Busy(fd) => Busy(fd)',
           LET me == handler[fd]
               new == handler'[fd]
           IN  /\ new.message = me.message /\ new.pos = me.pos /\ new.got = me.got
               /\ new.mixed = me.mixed
               /\ Parsing(fd)' => Parsing(fd)
               /\ new.pc = "take" => me.pc = "take"
               /\ new.pc = "serve" => Parsing(fd) \/ me.pc = "serve",
           ProgressAt(fd)', ServedAt(fd)'
    PROVE  Parsed'
<1>1. /\ handler[fd] \in HandlerType /\ olds \in Pointers /\ Points(olds, 1)
      /\ PointersAt(fd) /\ OwnAt(fd)
  BY DEF Typed, HandlersTyped, Parsed
<1>2. /\ handler'[fd].message = handler[fd].message /\ handler'[fd].pos = handler[fd].pos
      /\ handler'[fd].got = handler[fd].got /\ handler'[fd].mixed = handler[fd].mixed
      /\ Parsing(fd)' => Parsing(fd)
      /\ handler'[fd].pc = "take" => handler[fd].pc = "take"
      /\ handler'[fd].pc = "serve" => Parsing(fd) \/ handler[fd].pc = "serve"
  OBVIOUS
<1>3. handler[fd].pos \in Pointers /\ \A i \in DOMAIN handler[fd].got : handler[fd].got[i] \in Pointers
  BY <1>1 DEF HandlerType
<1>4. \A h \in Sockets \ {fd} : SameParse(h) /\ handler'[h].mixed = handler[h].mixed
  BY DEF OthersStay, SameParse, SameRequest
<1>5. Size(fd)' = Size(fd)
  BY <1>2 DEF Size
<1>6. KeepsCopies
  BY <1>4, <1>5 DEF KeepsCopies, SameParse, SameRequest, Busy, Size
<1>7. \A p \in Pointers, more \in 0..1 : Points(p, more) => Points(p, more)'
  BY <1>6, PointsKept
<1>8. Points(olds, 1)'
  <2>1. PICK p \in Pointers : p = olds
    BY <1>1
  <2> QED
    BY <1>1, <1>7, <2>1 DEF Points, Busy, Size
<1>9. PointersAt(fd)'
  <2>1. PICK p \in Pointers : p = handler[fd].pos
    BY <1>3
  <2>2. Points(p, 1)'
    BY <1>1, <1>7, <2>1 DEF PointersAt
  <2>3. ASSUME NEW i \in DOMAIN handler[fd].got
        PROVE  Points(handler[fd].got[i], 0)'
    <3>1. PICK q \in Pointers : q = handler[fd].got[i]
      BY <1>3
    <3>2. Points(q, 0)'
      BY <1>1, <1>7, <3>1 DEF PointersAt
    <3>3. q = handler'[fd].got[i]
      BY <1>2, <3>1
    <3> QED
      BY <3>2, <3>3 DEF Points, Busy, Size
  <2>4. p = handler'[fd].pos
    BY <1>2, <2>1
  <2> QED
    BY <1>1, <1>2, <2>2, <2>3, <2>4 DEF PointersAt, Points, Busy, Size
<1>10. OwnAt(fd)'
  <2>1. Stands(fd)' <=> Stands(fd)
    BY <1>2, <1>5 DEF Stands
  <2> QED
    BY <1>1, <1>2, <1>5, <2>1 DEF OwnAt
<1>11. \A h \in Sockets \ {fd} : PointersAt(h)' /\ ProgressAt(h)' /\ OwnAt(h)' /\ ServedAt(h)'
  BY <1>4, <1>6, OtherParsed
<1> QED
  BY <1>8, <1>9, <1>10, <1>11 DEF Parsed

\* The session is looked up.
LEMMA LookUpParsed ==
    ASSUME Typed, Parsed, NEW fd \in Sockets, LookUp(fd)
    PROVE  Parsed'
<1>1. LET me == handler[fd]
          new == handler'[fd]
      IN  /\ me.pc = "session" /\ OthersStay(fd)
          /\ new.message = me.message /\ new.pos = me.pos /\ new.got = me.got
          /\ new.used = me.used /\ new.mixed = me.mixed
          /\ \/ new.pc = NextPc(me.message.command, <<>>) /\ new.reply = me.reply
             \/ new.pc = "reply" /\ new.reply = "not_logged_in"
  BY LookUpFields
<1>2. olds' = olds /\ cut' = cut
  BY DEF LookUp
<1>3. ProgressAt(fd) /\ handler[fd] \in HandlerType
  BY DEF Parsed, Typed, HandlersTyped
<1>4. handler[fd].got = <<>> /\ Len(handler'[fd].got) = 0
  BY <1>1, <1>3 DEF ProgressAt
<1>5. Arity(handler[fd].message.command) \in 0..2
  BY <1>3, MessageFacts DEF HandlerType
<1>6. handler'[fd].pc \in {"load", "serve", "reply"}
  BY <1>1, NextPcFacts
<1>7. ProgressAt(fd)'
  BY <1>1, <1>4, <1>5, <1>6, NextPcFacts DEF ProgressAt
<1>8. ServedAt(fd)'
  BY <1>1, <1>6, NextPcFacts DEF ServedAt
<1>9. Parsing(fd) /\ Busy(fd) /\ Busy(fd)'
  BY <1>1, <1>6 DEF Parsing, Busy
<1> QED
  BY <1>1, <1>2, <1>6, <1>7, <1>8, <1>9, OwnParsed

\* A command is refused for want of arguments.
LEMMA RefuseParsed ==
    ASSUME Typed, Parsed, NEW fd \in Sockets, Refuse(fd)
    PROVE  Parsed'
<1>1. LET me == handler[fd]
          new == handler'[fd]
      IN  /\ me.pc = "serve" /\ OthersStay(fd)
          /\ new.message = me.message /\ new.pos = me.pos /\ new.got = me.got
          /\ new.used = me.used /\ new.mixed = me.mixed
          /\ new.pc = "reply" /\ new.reply = "insufficient"
  BY RefuseFields
<1>2. PICK i \in DOMAIN handler[fd].got : handler[fd].got[i] = Null
  BY RefuseFields
<1>3. olds' = olds /\ cut' = cut
  BY DEF Refuse
<1>4. ProgressAt(fd) /\ OwnAt(fd) /\ handler[fd] \in HandlerType
  BY DEF Parsed, Typed, HandlersTyped
<1>5. ProgressAt(fd)'
  BY <1>1 DEF ProgressAt
<1>6. ASSUME ~handler[fd].mixed
      PROVE  Len(handler[fd].message.fields) < Arity(handler[fd].message.command)
  <2>1. Len(handler[fd].got) = Arity(handler[fd].message.command)
    BY <1>1, <1>4 DEF ProgressAt
  <2>2. handler[fd].got \in Seq(Pointers) /\ Size(fd) \in Nat
    BY <1>4, MessageFacts DEF HandlerType, Size
  <2>3. handler[fd].got[i] = IF i <= Size(fd) THEN At(fd, i) ELSE Null
    BY <1>1, <1>4, <1>6 DEF OwnAt
  <2>4. i \in Nat \ {0} /\ i <= Len(handler[fd].got)
    BY <2>2
  <2>5. At(fd, i) # Null
    BY <2>4, PointerFacts
  <2>6. ~(i <= Size(fd))
    BY <1>2, <2>3, <2>5
  <2> QED
    BY <2>1, <2>2, <2>4, <2>6 DEF Size
<1>7. ServedAt(fd)'
  BY <1>1, <1>6 DEF ServedAt
<1>8. ~Parsing(fd)' /\ Busy(fd)'
  BY <1>1 DEF Parsing, Busy
<1> QED
  BY <1>1, <1>3, <1>5, <1>7, <1>8, OwnParsed

\* A command is served.
LEMMA ServeParsed ==
    ASSUME Typed, Parsed, NEW fd \in Sockets, Serve(fd)
    PROVE  Parsed'
<1>1. LET me == handler[fd]
          new == handler'[fd]
      IN  /\ me.pc = "serve" /\ OthersStay(fd)
          /\ handler' \in [Sockets -> HandlerType]
          /\ new.message = me.message /\ new.pos = me.pos /\ new.got = me.got
          /\ new.mixed = me.mixed /\ Len(new.used) = Len(me.got)
          /\ new.reply \in {"error", "data", "success", "fail"} /\ new.pc \in {"call", "reply"}
  BY ServeFields
<1>2. \A i \in DOMAIN handler[fd].got : /\ handler[fd].got[i] # Null
                                        /\ handler'[fd].used[i] \in Strings(handler[fd].got[i])
  BY ServeFields
<1>3. olds' = olds /\ cut' = cut
  BY DEF Serve
<1>4. ProgressAt(fd) /\ OwnAt(fd) /\ handler[fd] \in HandlerType
  BY DEF Parsed, Typed, HandlersTyped
<1>5. ProgressAt(fd)'
  BY <1>1 DEF ProgressAt
<1>6. ASSUME ~handler[fd].mixed
      PROVE  LET m == handler[fd].message
                 n == Arity(m.command)
             IN  Len(m.fields) >= n /\ handler'[fd].used = SubSeq(m.fields, 1, n)
  <2>1. Len(handler[fd].got) = Arity(handler[fd].message.command)
    BY <1>1, <1>4 DEF ProgressAt
  <2>2. /\ handler[fd].got \in Seq(Pointers) /\ Size(fd) \in Nat
        /\ handler[fd].message.fields \in Seq(Fields)
    BY <1>4, MessageFacts DEF HandlerType, Size
  <2>3. \A i \in DOMAIN handler[fd].got :
           handler[fd].got[i] = IF i <= Size(fd) THEN At(fd, i) ELSE Null
    BY <1>1, <1>4, <1>6 DEF OwnAt
  <2>4. \A i \in DOMAIN handler[fd].got : i <= Size(fd) /\ handler[fd].got[i] = At(fd, i)
    BY <1>2, <2>3
  <2>5. PICK n \in 0..2 : n = Len(handler[fd].got)
    BY <1>4, <2>1, MessageFacts DEF HandlerType
  <2>6. DOMAIN handler[fd].got = 1..n
    BY <2>2, <2>5
  <2>7. n <= Size(fd)
    BY <2>2, <2>4, <2>5, <2>6
  <2>8. \A i \in 1..n : handler'[fd].used[i] = handler[fd].message.fields[i]
    <3> SUFFICES ASSUME NEW i \in 1..n
                 PROVE  handler'[fd].used[i] = handler[fd].message.fields[i]
      OBVIOUS
    <3>1. handler'[fd].used[i] \in Strings(At(fd, i))
      BY <1>2, <2>4, <2>6
    <3>2. At(fd, i) # Freed /\ At(fd, i).copy = fd /\ At(fd, i).field = i
      BY <2>5, PointerFacts
    <3> QED
      BY <3>1, <3>2 DEF Strings
  <2>9. PICK used \in Seq(Fields) : used = handler'[fd].used
    BY <1>1 DEF HandlerType
  <2>10. PICK fields \in Seq(Fields) : fields = handler[fd].message.fields
    BY <2>2
  <2>11. Len(used) = n /\ n <= Len(fields) /\ \A i \in 1..n : used[i] = fields[i]
    BY <1>1, <2>5, <2>7, <2>8, <2>9, <2>10 DEF Size
  <2>12. used = SubSeq(fields, 1, n)
    BY <2>5, <2>11
  <2> QED
    BY <2>1, <2>5, <2>9, <2>10, <2>11, <2>12
<1>7. ServedAt(fd)'
  BY <1>1, <1>6 DEF ServedAt
<1>8. ~Parsing(fd)' /\ Busy(fd)' /\ handler'[fd].pc \notin {"take", "serve"}
  BY <1>1 DEF Parsing, Busy
<1> QED
  BY <1>1, <1>3, <1>5, <1>7, <1>8, OwnParsed

\* A login returns, or the client is gone.
LEMMA LoggedInParsed ==
    ASSUME Typed, Parsed, NEW fd \in Sockets, LoggedIn(fd) \/ ClientGone(fd)
    PROVE  Parsed'
<1>1. LET me == handler[fd]
          new == handler'[fd]
      IN  /\ OthersStay(fd)
          /\ new.message = me.message /\ new.pos = me.pos /\ new.got = me.got
          /\ new.used = me.used /\ new.mixed = me.mixed /\ new.reply = me.reply
          /\ \/ me.pc = "call" /\ new.pc = "reply"
             \/ me.pc = "idle" /\ new.pc = "leaving"
  BY LoggedInFields, ClientGoneFields
<1>2. olds' = olds /\ cut' = cut
  BY DEF LoggedIn, ClientGone
<1>3. ProgressAt(fd)'
  BY <1>1 DEF ProgressAt
<1>4. ServedAt(fd)'
  BY <1>1 DEF ServedAt, Parsed
<1>5. ~Parsing(fd)' /\ (Busy(fd) => Busy(fd)') /\ handler'[fd].pc \notin {"take", "serve"}
  BY <1>1 DEF Parsing, Busy
<1> QED
  BY <1>1, <1>2, <1>3, <1>4, <1>5, OwnParsed

\* A handler that has nothing to do has no parse.
LEMMA IdleParsed ==
    ASSUME NEW fd \in Sockets, handler'[fd] = Idle
    PROVE  PointersAt(fd)' /\ ProgressAt(fd)' /\ OwnAt(fd)' /\ ServedAt(fd)' /\ ~Busy(fd)'
<1>1. handler'[fd].pc = "idle" /\ handler'[fd].pos = Null /\ DOMAIN handler'[fd].got = {}
  BY IdleFacts
<1> QED
  BY <1>1 DEF PointersAt, ProgressAt, OwnAt, ServedAt, Busy, Parsing, Points

\* The connection is over.
LEMMA DisconnectedParsed ==
    ASSUME Typed, Parsed, NEW fd \in Sockets, Disconnected(fd)
    PROVE  Parsed'
<1>1. handler[fd].pc = "leaving" /\ OthersStay(fd) /\ handler'[fd] = Idle
  BY DisconnectedFields
<1>2. olds' = olds /\ cut' = cut /\ olds \in Pointers
  BY DEF Disconnected, Typed, HandlersTyped
<1>3. \A h \in Sockets \ {fd} : SameParse(h) /\ handler'[h].mixed = handler[h].mixed
  BY <1>1 DEF OthersStay, SameParse, SameRequest
<1>4. KeepsCopies
  BY <1>1, <1>3 DEF KeepsCopies, SameParse, SameRequest, Busy, Size
<1>5. Points(olds, 1)'
  <2>1. PICK p \in Pointers : p = olds
    BY <1>2
  <2>2. Points(p, 1)'
    BY <1>4, <2>1, PointsKept DEF Parsed
  <2> QED
    BY <1>2, <2>1, <2>2 DEF Points, Busy, Size
<1>6. \A h \in Sockets \ {fd} : PointersAt(h)' /\ ProgressAt(h)' /\ OwnAt(h)' /\ ServedAt(h)'
  BY <1>2, <1>3, <1>4, OtherParsed
<1> QED
  BY <1>1, <1>5, <1>6, IdleParsed DEF Parsed

\* The reply is sent, and the pointers into the copy are into freed memory.
LEMMA ReplyParsed ==
    ASSUME Typed, Parsed, NEW fd \in Sockets, Reply(fd)
    PROVE  Parsed'
<1>1. /\ handler[fd].pc = "reply" /\ handler'[fd] = Idle /\ olds' = Without(fd, olds)
      /\ \A h \in Sockets \ {fd} :
            /\ SameRequest(h) /\ handler'[h].mixed = handler[h].mixed
            /\ handler'[h].pos = Without(fd, handler[h].pos)
            /\ DOMAIN handler'[h].got = DOMAIN handler[h].got
            /\ Len(handler'[h].got) = Len(handler[h].got)
            /\ \A i \in DOMAIN handler[h].got :
                  handler'[h].got[i] = Without(fd, handler[h].got[i])
  BY ReplyFields
<1>2. cut' = cut /\ olds \in Pointers
  BY DEF Reply, Typed, HandlersTyped
<1>3. ASSUME NEW p \in Pointers, NEW more \in 0..1, Points(p, more)
      PROVE  Points(Without(fd, p), more)'
  <2>1. CASE Without(fd, p) \in {Freed, Null}
    BY <2>1 DEF Points
  <2>2. CASE Without(fd, p) \notin {Freed, Null}
    <3>1. Without(fd, p) = p /\ p.copy # fd /\ p \notin {Freed, Null}
      BY <2>2, WithoutFacts
    <3>2. p.copy \in Sockets \ {fd}
      BY <3>1, PointerFacts
    <3>3. PICK h \in Sockets \ {fd} : h = p.copy
      BY <3>2
    <3>4. Busy(h)' <=> Busy(h)
      BY <1>1, <3>3 DEF Busy, SameRequest
    <3>5. Size(h)' = Size(h)
      BY <1>1, <3>3 DEF Size, SameRequest
    <3>6. Busy(h)' /\ p.field <= Size(h)' + more
      BY <1>3, <3>1, <3>3, <3>4, <3>5 DEF Points
    <3>7. Points(p, more)'
      BY <3>3, <3>6 DEF Points
    <3> QED
      BY <3>1, <3>7
  <2> QED
    BY <2>1, <2>2
<1>4. Points(olds, 1)'
  <2>1. PICK p \in Pointers : p = Without(fd, olds)
    BY <1>2, WithoutFacts
  <2>2. Points(p, 1)'
    BY <1>2, <1>3, <2>1 DEF Parsed
  <2> QED
    BY <1>1, <2>1, <2>2 DEF Points, Busy, Size
<1>5. ASSUME NEW h \in Sockets \ {fd}
      PROVE  PointersAt(h)' /\ ProgressAt(h)' /\ OwnAt(h)' /\ ServedAt(h)'
  <2>1. /\ handler[h] \in HandlerType
        /\ PointersAt(h) /\ ProgressAt(h) /\ OwnAt(h) /\ ServedAt(h)
    BY DEF Typed, HandlersTyped, Parsed
  <2>2. handler[h].pos \in Pointers /\ handler[h].got \in Seq(Pointers)
        /\ handler[h].message \in MessageType
    BY <2>1 DEF HandlerType
  <2>3. /\ handler'[h].pc = handler[h].pc /\ handler'[h].message = handler[h].message
        /\ handler'[h].used = handler[h].used /\ handler'[h].reply = handler[h].reply
    BY <1>1 DEF SameRequest
  <2>4. /\ Parsing(h)' <=> Parsing(h)
        /\ Size(h)' = Size(h)
    BY <2>3 DEF Parsing, Size
  <2>5. ServedAt(h)'
    BY <1>1, <2>1, <2>3 DEF ServedAt
  <2>6. ProgressAt(h)'
    <3>1. handler[h].got = <<>> => handler'[h].got = <<>>
      <4>1. handler'[h].got \in Seq(Pointers)
        BY ReplyFields DEF HandlerType
      <4> QED
        BY <1>1, <2>2, <4>1
    <3> QED
      BY <1>1, <2>1, <2>3, <3>1 DEF ProgressAt
  <2>7. PointersAt(h)'
    <3>1. PICK p \in Pointers : p = Without(fd, handler[h].pos)
      BY <2>2, WithoutFacts
    <3>2. Points(p, 1)'
      BY <1>3, <2>1, <2>2, <3>1 DEF PointersAt
    <3>3. handler'[h].pos = p
      BY <1>1, <3>1
    <3>4. Points(handler[h].pos, 1)'
      BY <3>2, <3>3 DEF Points, Busy, Size
    <3>5. ASSUME NEW i \in DOMAIN handler[h].got
          PROVE  Points(handler[h].got[i], 0)'
      <4>1. PICK q \in Pointers : q = handler[h].got[i]
        BY <2>2
      <4>2. PICK r \in Pointers : r = Without(fd, q)
        BY <4>1, WithoutFacts
      <4>3. Points(r, 0)'
        BY <1>3, <2>1, <4>1, <4>2 DEF PointersAt
      <4>4. handler'[h].got[i] = r
        BY <1>1, <4>1, <4>2
      <4> QED
        BY <4>3, <4>4 DEF Points, Busy, Size
    <3>6. Parsing(h)' => olds' # Null
      BY <1>1, <1>2, <2>1, <2>4, WithoutFacts DEF PointersAt
    <3>7. handler'[h].pc = "take" => handler'[h].pos # Null
      BY <1>1, <2>1, <2>2, <2>3, WithoutFacts DEF PointersAt
    <3>8. \A i \in DOMAIN handler'[h].got : Points(handler[h].got[i], 0)'
      BY <1>1, <3>5
    <3> QED
      BY <3>4, <3>6, <3>7, <3>8 DEF PointersAt
  <2>8. OwnAt(h)'
    <3> SUFFICES ASSUME ~handler'[h].mixed
                 PROVE  OwnAt(h)'
      BY DEF OwnAt
    <3>1. ~handler[h].mixed
      BY <1>1
    <3>2. \A n \in Nat \ {0} : Without(fd, At(h, n)) = At(h, n)
      BY PointerFacts, WithoutFacts
    <3>3. Without(fd, Null) = Null
      BY PointerFacts DEF Without
    <3>4. Parsing(h)' \/ handler'[h].pc = "serve" =>
             \A i \in DOMAIN handler'[h].got :
                handler'[h].got[i] = IF i <= Size(h)' THEN At(h, i) ELSE Null
      <4> SUFFICES ASSUME Parsing(h)' \/ handler'[h].pc = "serve",
                          NEW i \in DOMAIN handler[h].got
                   PROVE  handler'[h].got[i] = IF i <= Size(h)' THEN At(h, i) ELSE Null
        BY <1>1
      <4>1. handler[h].got[i] = IF i <= Size(h) THEN At(h, i) ELSE Null
        BY <2>1, <2>3, <2>4, <3>1 DEF OwnAt
      <4>2. handler'[h].got[i] = Without(fd, handler[h].got[i])
        BY <1>1
      <4>3. i \in Nat \ {0}
        BY <2>2
      <4> QED
        BY <2>4, <3>2, <3>3, <4>1, <4>2, <4>3
    <3>5. ASSUME Parsing(h)'
          PROVE  olds' = olds /\ Stands(h)'
      <4>1. Stands(h) /\ Size(h) \in Nat /\ Len(handler[h].got) \in Nat
        BY <2>1, <2>2, <2>4, <3>1, <3>5, MessageFacts DEF OwnAt, Size
      <4>2. PICK k : k = IF Len(handler[h].got) <= Size(h) THEN Len(handler[h].got) ELSE Size(h)
        OBVIOUS
      <4>3. k + 1 \in Nat \ {0} /\ olds = At(h, k + 1)
        BY <4>1, <4>2 DEF Stands
      <4>4. olds' = olds
        BY <1>1, <3>2, <4>3
      <4> QED
        BY <1>1, <2>4, <4>1, <4>4 DEF Stands
    <3>6. handler'[h].pc = "take" => handler'[h].pos = olds'
      <4> SUFFICES ASSUME handler'[h].pc = "take"
                   PROVE  handler'[h].pos = olds'
        OBVIOUS
      <4>1. handler[h].pos = olds
        BY <2>1, <2>3, <3>1 DEF OwnAt
      <4> QED
        BY <1>1, <4>1
    <3>7. Parsing(h)' => \A f \in cut'[h] : f <= Len(handler'[h].got)
      BY <1>1, <1>2, <2>1, <2>4, <3>1 DEF OwnAt
    <3> QED
      BY <3>4, <3>5, <3>6, <3>7 DEF OwnAt
  <2> QED
    BY <2>5, <2>6, <2>7, <2>8
<1> QED
  BY <1>1, <1>4, <1>5, IdleParsed DEF Parsed

\* A command is received, and its parse begins.
LEMMA ReceiveParsed ==
    ASSUME Typed, Parsed, NEW fd \in Sockets, NEW m \in Messages, Receive(fd, m)
    PROVE  Parsed'
<1>1. LET me == handler'[fd]
      IN  /\ handler[fd].pc = "idle"
          /\ me.pc = IF m.command \in ForUsers THEN "session" ELSE NextPc(m.command, <<>>)
          /\ me.message = m /\ me.pos = Null /\ me.got = <<>>
          /\ olds' = At(fd, 1) /\ cut' = [cut EXCEPT ![fd] = {}]
          /\ \A h \in Sockets \ {fd} :
                /\ SameParse(h)
                /\ handler'[h].mixed = (handler[h].mixed \/ Parsing(h))
  BY ReceiveFields
<1>2. /\ At(fd, 1) \notin {Freed, Null}
      /\ At(fd, 1).copy = fd /\ At(fd, 1).field = 1
  BY PointerFacts
<1>3. KeepsCopies
  BY <1>1 DEF KeepsCopies, SameParse, SameRequest, Busy, Size
<1>4. \A h \in Sockets \ {fd} : PointersAt(h)' /\ ProgressAt(h)' /\ OwnAt(h)' /\ ServedAt(h)'
  BY <1>1, <1>2, <1>3, OtherParsed
<1>5. handler'[fd].pc \in {"session", "load", "serve"} /\ Arity(m.command) \in 0..2
      /\ Len(m.fields) \in Nat
  BY <1>1, NextPcFacts, MessageFacts
<1>6. Busy(fd)' /\ Size(fd)' \in Nat
  BY <1>1, <1>5 DEF Busy, Size
<1>7. Points(olds, 1)'
  BY <1>1, <1>2, <1>6 DEF Points
<1>8. DOMAIN handler'[fd].got = {} /\ Len(handler'[fd].got) = 0
  BY <1>1
<1>9. PointersAt(fd)'
  BY <1>1, <1>2, <1>5, <1>8 DEF PointersAt, Points
<1>10. ProgressAt(fd)'
  BY <1>1, <1>5, <1>8, NextPcFacts DEF ProgressAt
<1>11. ServedAt(fd)'
  BY <1>5 DEF ServedAt
<1>12. OwnAt(fd)'
  <2>1. Stands(fd)'
    BY <1>1, <1>6, <1>8 DEF Stands
  <2>2. cut'[fd] = {}
    BY <1>1 DEF Typed, HandlersTyped
  <2> QED
    BY <1>5, <1>8, <2>1, <2>2 DEF OwnAt
<1> QED
  BY <1>4, <1>7, <1>9, <1>10, <1>11, <1>12 DEF Parsed

\* strtok reads the position.
LEMMA LoadParsed ==
    ASSUME Typed, Parsed, NEW fd \in Sockets, LoadPosition(fd)
    PROVE  Parsed'
<1>1. /\ handler[fd].pc = "load" /\ handler'[fd].pc = "take" /\ handler'[fd].pos = olds
      /\ handler'[fd].message = handler[fd].message /\ handler'[fd].got = handler[fd].got
      /\ handler'[fd].mixed = handler[fd].mixed
      /\ \A h \in Sockets \ {fd} :
            /\ SameParse(h)
            /\ handler'[h].mixed = (handler[h].mixed \/ Parsing(h))
  BY LoadFields
<1>2. olds' = olds /\ cut' = cut /\ olds \in Pointers
  BY DEF LoadPosition, Typed, HandlersTyped
<1>3. /\ handler[fd] \in HandlerType /\ Points(olds, 1)
      /\ PointersAt(fd) /\ ProgressAt(fd) /\ OwnAt(fd)
  BY DEF Typed, HandlersTyped, Parsed
<1>4. KeepsCopies
  <2>1. Size(fd)' = Size(fd) /\ Busy(fd)'
    BY <1>1 DEF Busy, Size
  <2> QED
    BY <1>1, <2>1 DEF KeepsCopies, SameParse, SameRequest, Busy, Size
<1>5. Parsing(fd) /\ Parsing(fd)' /\ olds # Null
  BY <1>1, <1>3 DEF Parsing, PointersAt
<1>6. \A h \in Sockets \ {fd} : PointersAt(h)' /\ ProgressAt(h)' /\ OwnAt(h)' /\ ServedAt(h)'
  BY <1>1, <1>2, <1>4, <1>5, OtherParsed
<1>7. Points(olds, 1)'
  <2>1. PICK p \in Pointers : p = olds
    BY <1>2
  <2>2. Points(p, 1)'
    BY <1>3, <1>4, <2>1, PointsKept
  <2> QED
    BY <1>2, <2>1, <2>2 DEF Points, Busy, Size
<1>8. PointersAt(fd)'
  <2>1. ASSUME NEW i \in DOMAIN handler[fd].got
        PROVE  Points(handler[fd].got[i], 0)'
    <3>1. PICK q \in Pointers : q = handler[fd].got[i]
      BY <1>3 DEF HandlerType
    <3>2. Points(q, 0)'
      BY <1>3, <1>4, <3>1, PointsKept DEF PointersAt
    <3>3. q = handler'[fd].got[i]
      BY <1>1, <3>1
    <3> QED
      BY <3>2, <3>3 DEF Points, Busy, Size
  <2>2. Points(handler[fd].pos, 1)'
    BY <1>1, <1>2, <1>7 DEF Points, Busy, Size
  <2> QED
    BY <1>1, <1>2, <1>5, <2>1, <2>2 DEF PointersAt
<1>9. ProgressAt(fd)'
  BY <1>1, <1>3 DEF ProgressAt
<1>10. ServedAt(fd)'
  BY <1>1 DEF ServedAt
<1>11. OwnAt(fd)'
  <2>1. Size(fd)' = Size(fd)
    BY <1>1 DEF Size
  <2>2. Stands(fd)' <=> Stands(fd)
    BY <1>1, <1>2, <2>1 DEF Stands
  <2> QED
    BY <1>1, <1>2, <1>3, <1>5, <2>1, <2>2 DEF OwnAt
<1> QED
  BY <1>6, <1>7, <1>8, <1>9, <1>10, <1>11 DEF Parsed

\* strtok returns a field, or NULL.
LEMMA TakeParsed ==
    ASSUME Typed, Parsed, NEW fd \in Sockets, TakeField(fd)
    PROVE  Parsed'
<1>1. /\ handler[fd].pc = "take" /\ handler[fd].pos # Null
      /\ handler'[fd].pos = Null /\ handler'[fd].message = handler[fd].message
      /\ handler'[fd].mixed = handler[fd].mixed
      /\ handler' \in [Sockets -> HandlerType]
      /\ \A h \in Sockets \ {fd} :
            /\ SameParse(h)
            /\ handler'[h].mixed = (handler[h].mixed \/ Parsing(h))
  BY TakeFields
<1>2. PICK taken \in TakenFrom(handler[fd].pos) :
         /\ handler'[fd].got = Append(handler[fd].got, taken.token)
         /\ handler'[fd].pc = NextPc(handler[fd].message.command, handler'[fd].got)
         /\ olds' = taken.next
         /\ cut' = IF taken.token.field > 0
                   THEN [cut EXCEPT ![taken.token.copy] = @ \cup {taken.token.field}]
                   ELSE cut
  BY TakeFields
<1>3. /\ handler[fd] \in HandlerType /\ cut \in [Sockets -> SUBSET (Nat \ {0})]
      /\ PointersAt(fd) /\ ProgressAt(fd) /\ OwnAt(fd)
  BY DEF Typed, HandlersTyped, Parsed
<1>4. /\ handler[fd].pos \in Pointers /\ Points(handler[fd].pos, 1)
      /\ handler[fd].got \in Seq(Pointers) /\ Size(fd) \in Nat
  BY <1>3, MessageFacts DEF HandlerType, PointersAt, Size
<1>5. /\ taken.token \in Pointers /\ taken.next \in Pointers /\ taken.next # Null
      /\ Points(taken.token, 0) /\ Points(taken.next, 1)
  BY <1>1, <1>2, <1>4, TakenFacts
<1>6. PICK k \in Nat : k = Len(handler[fd].got)
  BY <1>4
<1>7. /\ Len(handler'[fd].got) = k + 1 /\ handler'[fd].got[k + 1] = taken.token
      /\ DOMAIN handler'[fd].got = 1..k + 1 /\ DOMAIN handler[fd].got = 1..k
      /\ \A i \in 1..k : handler'[fd].got[i] = handler[fd].got[i]
  <2>1. PICK got \in Seq(Pointers) : got = handler[fd].got
    BY <1>4
  <2>2. PICK token \in Pointers : token = taken.token
    BY <1>5
  <2>3. PICK new : new = Append(got, token)
    OBVIOUS
  <2>4. /\ Len(new) = k + 1 /\ new[k + 1] = token /\ DOMAIN new = 1..k + 1
        /\ DOMAIN got = 1..k /\ \A i \in 1..k : new[i] = got[i]
    BY <1>6, <2>1, <2>3
  <2> QED
    BY <1>2, <2>1, <2>2, <2>3, <2>4
<1>8. handler'[fd].pc \in {"load", "serve"}
  BY <1>2, NextPcFacts
<1>9. KeepsCopies
  <2>1. Size(fd)' = Size(fd) /\ Busy(fd)'
    BY <1>1, <1>8 DEF Busy, Size
  <2> QED
    BY <1>1, <2>1 DEF KeepsCopies, SameParse, SameRequest, Busy, Size
<1>10. \A h \in Sockets \ {fd} : PointersAt(h)' /\ ProgressAt(h)' /\ OwnAt(h)' /\ ServedAt(h)'
  BY <1>1, <1>2, <1>5, <1>9, OtherParsed
<1>11. \A p \in Pointers, more \in 0..1 : Points(p, more) => Points(p, more)'
  BY <1>9, PointsKept
<1>12. Points(olds, 1)'
  <2>1. PICK p \in Pointers : p = taken.next
    BY <1>5
  <2>2. Points(p, 1)'
    BY <1>5, <1>11, <2>1
  <2> QED
    BY <1>2, <2>1, <2>2 DEF Points, Busy, Size
<1>13. PointersAt(fd)'
  <2>1. ASSUME NEW i \in DOMAIN handler'[fd].got
        PROVE  \E p \in Pointers : p = handler'[fd].got[i] /\ Points(p, 0)
    <3>1. CASE i = k + 1
      BY <1>5, <1>7, <3>1
    <3>2. CASE i \in 1..k
      BY <1>3, <1>4, <1>7, <3>2 DEF PointersAt
    <3> QED
      BY <1>7, <2>1, <3>1, <3>2
  <2>2. ASSUME NEW i \in DOMAIN handler'[fd].got
        PROVE  \E p \in Pointers : p = handler'[fd].got[i] /\ Points(p, 0)'
    BY <1>11, <2>1
  <2>3. \A i \in DOMAIN handler'[fd].got : Points(handler[fd].got[i], 0)'
    BY <2>2 DEF Points, Busy, Size
  <2>4. Points(handler[fd].pos, 1)'
    BY <1>1 DEF Points
  <2> QED
    BY <1>2, <1>5, <1>8, <2>3, <2>4 DEF PointersAt
<1>14. ProgressAt(fd)'
  <2>1. Arity(handler[fd].message.command) \in 0..2
    BY <1>3, MessageFacts DEF HandlerType
  <2>2. k < Arity(handler[fd].message.command)
    BY <1>1, <1>3, <1>6 DEF ProgressAt
  <2>3. handler'[fd].pc = "load" <=> k + 1 < Arity(handler[fd].message.command)
    BY <1>2, <1>7 DEF NextPc
  <2> QED
    BY <1>1, <1>6, <1>7, <1>8, <2>1, <2>2, <2>3 DEF ProgressAt
<1>15. ServedAt(fd)'
  BY <1>8 DEF ServedAt
<1>16. OwnAt(fd)'
  <2> SUFFICES ASSUME ~handler'[fd].mixed
               PROVE  OwnAt(fd)'
    BY DEF OwnAt
  <2>1. ~handler[fd].mixed /\ Parsing(fd)
    BY <1>1 DEF Parsing
  <2>2. Size(fd)' = Size(fd)
    BY <1>1 DEF Size
  <2>3. /\ \A i \in 1..k : handler[fd].got[i] = IF i <= Size(fd) THEN At(fd, i) ELSE Null
        /\ Stands(fd) /\ \A f \in cut[fd] : f <= k
        /\ handler[fd].pos = olds
    BY <1>1, <1>3, <1>6, <1>7, <2>1 DEF OwnAt
  <2>4. CASE k < Size(fd)
    <3>1. handler[fd].pos = At(fd, k + 1) /\ k + 1 \in Nat \ {0}
      BY <1>4, <1>6, <2>3, <2>4 DEF Stands
    <3>2. PICK p \in Pointers : p = handler[fd].pos
      BY <1>4
    <3>3. p # Freed /\ p.copy = fd /\ p.field = k + 1
      BY <3>1, <3>2, PointerFacts
    <3>4. k + 1 \notin cut[fd]
      BY <2>3
    <3>5. taken.token = p /\ taken.next = At(fd, k + 2)
      BY <1>1, <1>2, <1>4, <2>4, <3>2, <3>3, <3>4, TakenFacts
    <3>6. cut'[fd] = cut[fd] \cup {k + 1}
      BY <1>2, <1>3, <3>3, <3>5
    <3>7. \A i \in 1..k + 1 : handler'[fd].got[i] = IF i <= Size(fd) THEN At(fd, i) ELSE Null
      BY <1>4, <1>7, <2>3, <2>4, <3>1, <3>2, <3>5
    <3>8. Stands(fd)'
      BY <1>2, <1>4, <1>7, <2>2, <2>4, <3>5 DEF Stands
    <3>9. \A f \in cut'[fd] : f <= k + 1
      BY <1>3, <2>3, <3>6
    <3> QED
      BY <1>7, <1>8, <2>2, <3>7, <3>8, <3>9 DEF OwnAt
  <2>5. CASE k >= Size(fd)
    <3>1. handler[fd].pos = At(fd, Size(fd) + 1) /\ Size(fd) + 1 \in Nat \ {0}
      BY <1>4, <1>6, <2>3, <2>5 DEF Stands
    <3>2. PICK p \in Pointers : p = handler[fd].pos
      BY <1>4
    <3>3. p # Freed /\ p.copy = fd /\ p.field = Size(fd) + 1
      BY <3>1, <3>2, PointerFacts
    <3>4. taken.token = Null /\ taken.next = p
      BY <1>1, <1>2, <1>4, <3>2, <3>3, TakenFacts
    <3>5. cut' = cut
      BY <1>2, <3>4, PointerFacts
    <3>6. \A i \in 1..k + 1 : handler'[fd].got[i] = IF i <= Size(fd) THEN At(fd, i) ELSE Null
      BY <1>4, <1>7, <2>3, <2>5, <3>4
    <3>7. Stands(fd)'
      BY <1>2, <1>4, <1>7, <2>2, <2>5, <3>1, <3>2, <3>4 DEF Stands
    <3>8. \A f \in cut'[fd] : f <= k + 1
      BY <1>3, <2>3, <3>5
    <3> QED
      BY <1>7, <1>8, <2>2, <3>6, <3>7, <3>8 DEF OwnAt
  <2> QED
    BY <1>4, <2>4, <2>5
<1> QED
  BY <1>10, <1>12, <1>13, <1>14, <1>15, <1>16 DEF Parsed

\* Any step keeps the parses right.
LEMMA NextParsed ==
    ASSUME Typed, Parsed, Next
    PROVE  Parsed'
<1>1. ASSUME UNCHANGED <<handler, olds, cut>>
      PROVE  Parsed'
  BY <1>1 DEF Parsed, PointersAt, ProgressAt, OwnAt, ServedAt, Points, Parsing, Stands, Busy, Size
<1>2. ASSUME NEW fd \in Sockets, Accept(fd) \/ Close(fd) \/ InCall(fd)
      PROVE  Parsed'
  BY <1>1, <1>2 DEF Accept, Close, InCall, handlerVars
<1> QED
  BY <1>2, ReceiveParsed, LookUpParsed, LoadParsed, TakeParsed, RefuseParsed, ServeParsed,
     LoggedInParsed, DisconnectedParsed, ReplyParsed DEF Next

-----------------------------------------------------------------------------
(***************************************************************************)
(* The calls that are in progress at once                                  *)
(***************************************************************************)
\* There are no more of them than there are connections.
Counted == most \in Cardinality(Calling)..Cardinality(Sockets)

\* The calls in progress when one of them begins, and ends.
LEMMA CallingFacts ==
    ASSUME NEW fd \in Sockets, \A g \in Sockets \ {fd} : call'[g] = call[g]
    PROVE  /\ IsFiniteSet(Calling) /\ Cardinality(Calling) \in 0..Cardinality(Sockets)
           /\ Cardinality(Sockets) \in Nat
           /\ call[fd].pc = "none" /\ call'[fd].pc # "none" =>
                 /\ Calling' = Calling \cup {fd} /\ fd \notin Calling
                 /\ Cardinality(Calling') = Cardinality(Calling) + 1
                 /\ Cardinality(Calling') <= Cardinality(Sockets)
           /\ call[fd].pc # "none" /\ call'[fd].pc = "none" =>
                 /\ Calling' = Calling \ {fd} /\ fd \in Calling
                 /\ Cardinality(Calling') = Cardinality(Calling) - 1
           /\ (call[fd].pc = "none" <=> call'[fd].pc = "none") => Calling' = Calling
<1>1. IsFiniteSet(Sockets) /\ Cardinality(Sockets) \in Nat
  BY TableAssumption, FS_CardinalityType
<1>2. Calling \subseteq Sockets /\ Calling' \subseteq Sockets
  BY DEF Calling
<1> DEFINE C == Calling
           D == Calling'
<1>3. /\ IsFiniteSet(C) /\ Cardinality(C) \in Nat /\ Cardinality(C) <= Cardinality(Sockets)
      /\ IsFiniteSet(D) /\ Cardinality(D) <= Cardinality(Sockets)
  <2> HIDE DEF C, D
  <2>1. C \subseteq Sockets /\ D \subseteq Sockets
    BY <1>2 DEF C, D
  <2> QED
    BY <1>1, <2>1, FS_Subset, FS_CardinalityType
<1>4. CASE call[fd].pc = "none" /\ call'[fd].pc # "none"
  <2>1. D = C \cup {fd} /\ fd \notin C
    BY <1>4 DEF Calling
  <2> HIDE DEF C, D
  <2>2. Cardinality(D) = Cardinality(C) + 1
    BY <1>3, <2>1, FS_AddElement
  <2> QED
    BY <1>1, <1>3, <1>4, <2>1, <2>2 DEF C, D
<1>5. CASE call[fd].pc # "none" /\ call'[fd].pc = "none"
  <2>1. D = C \ {fd} /\ fd \in C
    BY <1>5 DEF Calling
  <2> HIDE DEF C, D
  <2>2. Cardinality(D) = Cardinality(C) - 1
    BY <1>3, <2>1, FS_RemoveElement
  <2> QED
    BY <1>1, <1>3, <1>5, <2>1, <2>2 DEF C, D
<1>6. CASE call[fd].pc = "none" <=> call'[fd].pc = "none"
  <2>1. Calling' = Calling
    BY <1>6 DEF Calling
  <2> QED
    BY <1>1, <1>3, <1>6, <2>1
<1> QED
  BY <1>4, <1>5, <1>6

\* Any step counts the calls right.
LEMMA NextCounted ==
    ASSUME Typed, Counted, Next
    PROVE  Counted'
<1>1. PICK fd \in Sockets :
         \/ Accept(fd) \/ ClientGone(fd) \/ Disconnected(fd) \/ Close(fd)
         \/ \E m \in Messages : Receive(fd, m)
         \/ LookUp(fd) \/ LoadPosition(fd) \/ TakeField(fd)
         \/ Refuse(fd) \/ Serve(fd) \/ LoggedIn(fd) \/ Reply(fd)
         \/ InCall(fd)
  BY DEF Next
<1>2. CallsTyped
  BY DEF Typed
<1>3. \/ /\ call[fd].pc = "none" /\ call'[fd].pc # "none"
         /\ \A g \in Sockets \ {fd} : call'[g] = call[g]
         /\ most' = AtOnce(Cardinality(Calling) + 1)
      \/ /\ call[fd].pc # "none" /\ call'[fd].pc = "none"
         /\ \A g \in Sockets \ {fd} : call'[g] = call[g]
         /\ most' = most
      \/ /\ call[fd].pc = "none" <=> call'[fd].pc = "none"
         /\ \A g \in Sockets \ {fd} : call'[g] = call[g]
         /\ most' = most
  <2>1. CASE \/ Accept(fd) \/ Close(fd) \/ LoadPosition(fd) \/ TakeField(fd)
             \/ Refuse(fd) \/ Reply(fd) \/ LookUp(fd) \/ \E m \in Messages : Receive(fd, m)
    <3>1. call' = call /\ most' = most
      BY <2>1 DEF Accept, Close, LoadPosition, TakeField, Refuse, Reply, LookUp, Receive, tableVars
    <3> QED
      BY <3>1
  <2>2. CASE ClientGone(fd)
    <3>1. BeginRemove(fd)
      BY <2>2 DEF ClientGone
    <3>2. /\ call[fd].pc = "none" /\ call'[fd].pc = "find"
          /\ \A g \in Sockets \ {fd} : call'[g] = call[g]
          /\ most' = AtOnce(Cardinality(Calling) + 1)
      BY <1>2, <3>1, BeginRemoveFields
    <3> QED
      BY <3>2
  <2>3. CASE Serve(fd)
    <3>1. \/ handler'[fd].used[1] \in Users /\ BeginAdd(fd, handler'[fd].used[1])
          \/ UNCHANGED tableVars
      BY <2>3, ServeFields
    <3>2. CASE UNCHANGED tableVars
      BY <3>2 DEF tableVars
    <3>3. CASE \E u \in Users : BeginAdd(fd, u)
      <4>1. /\ call[fd].pc = "none" /\ call'[fd].pc \in {"return", "match"}
            /\ \A g \in Sockets \ {fd} : call'[g] = call[g]
            /\ most' = AtOnce(Cardinality(Calling) + 1)
        BY <1>2, <3>3, BeginAddFields
      <4> QED
        BY <4>1
    <3> QED
      BY <3>1, <3>2, <3>3
  <2>4. CASE LoggedIn(fd) \/ Disconnected(fd)
    <3>1. Return(fd)
      BY <2>4 DEF LoggedIn, Disconnected, Returned
    <3>2. /\ call[fd].pc = "return" /\ call'[fd] = NoCall /\ most' = most
          /\ \A g \in Sockets \ {fd} : call'[g] = call[g]
      BY <1>2, <3>1, ReturnFields
    <3> QED
      BY <3>2 DEF NoCall
  <2>5. CASE InCall(fd)
    <3>1. OneCall(fd) /\ most' = most /\ Onward(call[fd], call'[fd])
      BY <1>2, <2>5, StepTyped DEF InCall
    <3> QED
      BY <3>1 DEF OneCall, Onward
  <2> QED
    BY <1>1, <2>1, <2>2, <2>3, <2>4, <2>5
<1>4. PICK before, after, all \in Nat : /\ before = Cardinality(Calling) /\ all = Cardinality(Sockets)
                                        /\ after = Cardinality(Calling')
  <2>1. Cardinality(Calling) \in Nat /\ Cardinality(Sockets) \in Nat
    BY <1>3, CallingFacts
  <2>2. Cardinality(Calling') \in Nat
    <3>1. PICK D : D = Calling'
      OBVIOUS
    <3>2. D \subseteq Sockets
      BY <3>1 DEF Calling
    <3>3. Cardinality(D) \in Nat
      BY <3>2, TableAssumption, FS_Subset, FS_CardinalityType
    <3> QED
      BY <3>1, <3>3
  <2> QED
    BY <2>1, <2>2
<1>5. most \in Int /\ before <= most /\ most <= all
  BY <1>4 DEF Counted
<1>6. most' \in Int /\ after <= most' /\ most' <= all
  <2>1. CASE call[fd].pc = "none" /\ call'[fd].pc # "none"
    <3>1. after = before + 1 /\ after <= all
      BY <1>3, <1>4, <2>1, CallingFacts
    <3>2. most' = AtOnce(before + 1)
      BY <1>3, <1>4, <2>1
    <3> QED
      BY <1>5, <3>1, <3>2 DEF AtOnce
  <2>2. CASE call[fd].pc # "none" /\ call'[fd].pc = "none"
    <3>1. after = before - 1 /\ most' = most
      BY <1>3, <1>4, <2>2, CallingFacts
    <3> QED
      BY <1>5, <3>1
  <2>3. CASE call[fd].pc = "none" <=> call'[fd].pc = "none"
    <3>1. after = before /\ most' = most
      BY <1>3, <1>4, <2>3, CallingFacts
    <3> QED
      BY <1>5, <3>1
  <2> QED
    BY <2>1, <2>2, <2>3
<1> QED
  BY <1>4, <1>6, TableAssumption DEF Counted

\* The messages that the handlers hold were sent by the clients.
SentByClients == \A fd \in Sockets : handler[fd].message \in Messages \cup {Idle.message}

\* Any step keeps them: a handler takes its messages from the clients.
LEMMA NextSent ==
    ASSUME Typed, Parsed, SentByClients, Next
    PROVE  SentByClients'
<1> SUFFICES ASSUME NEW fd \in Sockets,
                    \/ Accept(fd) \/ ClientGone(fd) \/ Disconnected(fd) \/ Close(fd)
                    \/ \E m \in Messages : Receive(fd, m)
                    \/ LookUp(fd) \/ LoadPosition(fd) \/ TakeField(fd)
                    \/ Refuse(fd) \/ Serve(fd) \/ LoggedIn(fd) \/ Reply(fd)
                    \/ InCall(fd)
             PROVE  SentByClients'
  BY DEF Next
<1>1. ASSUME \A h \in Sockets \ {fd} : handler'[h].message = handler[h].message,
             handler'[fd].message \in Messages \cup {Idle.message, handler[fd].message}
      PROVE  SentByClients'
  BY <1>1 DEF SentByClients
<1>2. CASE Accept(fd) \/ Close(fd) \/ InCall(fd)
  BY <1>2 DEF Accept, Close, InCall, handlerVars, SentByClients
<1>3. CASE \E m \in Messages : Receive(fd, m)
  BY <1>1, <1>3, ReceiveFields DEF SameParse, SameRequest
<1>4. CASE LoadPosition(fd) \/ TakeField(fd)
  BY <1>1, <1>4, LoadFields, TakeFields DEF SameParse, SameRequest
<1>5. CASE LookUp(fd) \/ Refuse(fd) \/ Serve(fd) \/ LoggedIn(fd) \/ ClientGone(fd)
  BY <1>1, <1>5, LookUpFields, RefuseFields, ServeFields, LoggedInFields, ClientGoneFields
     DEF OthersStay
<1>6. CASE Disconnected(fd)
  BY <1>1, <1>6, DisconnectedFields DEF OthersStay
<1>7. CASE Reply(fd)
  BY <1>1, <1>7, ReplyFields DEF SameRequest
<1> QED
  BY <1>2, <1>3, <1>4, <1>5, <1>6, <1>7

\* The invariant of the parses.
PInv == Typed /\ Parsed /\ Counted /\ SentByClients

\* The types and the parses, at the start.
LEMMA InitPInv == Init => PInv
<1> SUFFICES ASSUME Init
             PROVE  PInv
  OBVIOUS
<1>1. \A fd \in Sockets : handler[fd] = Idle /\ call[fd] = NoCall
  BY DEF Init, TableInit
<1>2. Idle \in HandlerType /\ NoCall \in CallType /\ Zero \in Entry
  BY IdleFacts DEF NoCall, CallType, Zero, Entry
<1>3. HandlersTyped
  BY <1>2, PointerFacts DEF Init, HandlersTyped
<1>4. CallsTyped
  <2>1. InRange(NoCall) /\ NoCall.pc = "none"
    BY TableAssumption DEF InRange, NoCall
  <2>2. /\ table = [p \in Places |-> Zero] /\ count = 0 /\ outside = FALSE
        /\ call = [fd \in Sockets |-> NoCall]
    BY DEF Init, TableInit
  <2>3. table \in [Places -> Entry] /\ call \in [Sockets -> CallType]
    BY <1>2, <2>2
  <2>4. \A fd \in Sockets : InRange(call[fd]) /\ call[fd].pc # "moving"
    BY <2>1, <2>2
  <2>5. outside \in BOOLEAN
    BY Zenon DEF Init, TableInit
  <2>6. count \in Int
    BY <2>2
  <2> QED
    BY <2>3, <2>4, <2>5, <2>6 DEF CallsTyped
<1>5. Engaged
  BY <1>1, IdleFacts DEF Engaged, EngagedAt, NoCall, AddPcs, RemovePcs
<1>6. Parsed
  BY <1>1, IdleFacts DEF Parsed, PointersAt, ProgressAt, OwnAt, ServedAt, Points, Parsing, Init
<1>7. SentByClients
  BY <1>1 DEF SentByClients
<1>8. Counted
  <2>1. Calling = {} /\ most = 0
    BY <1>1 DEF Calling, NoCall, Init, TableInit
  <2>2. Cardinality(Calling) = 0 /\ Cardinality(Sockets) \in Nat
    BY <2>1, TableAssumption, FS_EmptySet, FS_CardinalityType
  <2> QED
    BY <2>1, <2>2 DEF Counted
<1> QED
  BY <1>3, <1>4, <1>5, <1>6, <1>7, <1>8 DEF PInv, Typed

\* The types and the parses, in any execution.
THEOREM ParsesAreRight == Spec => []PInv
<1>1. ASSUME PInv, [Next]_vars
      PROVE  PInv'
  <2>1. CASE Next
    BY <1>1, <2>1, NextTyped, NextParsed, NextCounted, NextSent DEF PInv
  <2>2. CASE UNCHANGED vars
    BY <1>1, <2>2 DEF vars, handlerVars, tableVars, PInv, Typed, HandlersTyped, CallsTyped, Engaged,
       EngagedAt, Parsed, PointersAt, ProgressAt, OwnAt, ServedAt, Points, Parsing, Stands, Busy,
       Size, Counted, Calling, SentByClients
  <2> QED
    BY <1>1, <2>1, <2>2
<1> QED
  BY <1>1, InitPInv, PTL DEF Spec

\* The types are right, the strings of a message are never read behind their
\* end, and strtok never stands behind a message, whatever the handlers do to
\* each other's parses.
THEOREM TypeCorrect == Spec => []TypeOK
<1>1. ASSUME PInv
      PROVE  TypeOK
  <2>1. TableTypeOK
    <3>1. most \in 0..Cardinality(Sockets)
      <4>1. Calling \subseteq Sockets
        BY DEF Calling
      <4>2. Cardinality(Calling) \in Nat
        BY <4>1, TableAssumption, FS_Subset, FS_CardinalityType
      <4> QED
        BY <1>1, <4>2 DEF PInv, Counted
    <3>2. \A fd \in Sockets : call[fd].i \in 0..MaxSessions /\ call[fd].last \in Int
      BY <1>1, TableAssumption DEF PInv, Typed, CallsTyped, CallType, InRange
    <3> QED
      BY <1>1, <3>1, <3>2 DEF PInv, Typed, CallsTyped, TableTypeOK
  <2>2. ASSUME NEW fd \in Sockets
        PROVE  /\ conn[fd] \in {"closed", "open", "removed"}
               /\ handler[fd].message \in Messages \cup {Idle.message}
               /\ handler[fd].used \in Seq(Fields)
               /\ call[fd] # NoCall => handler[fd].pc \in {"call", "leaving"}
               /\ handler[fd].pc # "idle" => conn[fd] = "open"
    BY <1>1 DEF PInv, Typed, HandlersTyped, HandlerType, Engaged, EngagedAt, SentByClients
  <2>3. ASSUME NEW p \in Pointers, NEW more \in 0..1, Points(p, more), p \notin {Null, Freed}
        PROVE  p.field \in 1..Len(handler[p.copy].message.fields) + more
    <3>1. p.copy \in Sockets /\ p.field \in Nat \ {0}
      BY <2>3, PointerFacts
    <3>2. p.field <= Size(p.copy) + more
      BY <2>3 DEF Points
    <3>3. Size(p.copy) \in Nat
      BY <1>1, <3>1, MessageFacts DEF PInv, Typed, HandlersTyped, HandlerType, Size
    <3> QED
      BY <3>1, <3>2, <3>3 DEF Size
  <2>4. ASSUME NEW fd \in Sockets, NEW i \in DOMAIN handler[fd].got
        PROVE  LET p == handler[fd].got[i]
               IN  p \in {Null, Freed} \/ p.field \in DOMAIN handler[p.copy].message.fields
    <3>1. handler[fd].got \in Seq(Pointers)
      BY <1>1 DEF PInv, Typed, HandlersTyped, HandlerType
    <3>2. PICK p \in Pointers : p = handler[fd].got[i]
      BY <3>1
    <3>3. Points(p, 0)
      BY <1>1, <3>2 DEF PInv, Parsed, PointersAt
    <3> SUFFICES ASSUME p \notin {Null, Freed}
                 PROVE  p.field \in DOMAIN handler[p.copy].message.fields
      BY <3>2
    <3>4. p.field \in 1..Len(handler[p.copy].message.fields) + 0
      BY <2>3, <3>3
    <3>5. handler[p.copy].message.fields \in Seq(Fields)
      BY <1>1, PointerFacts, MessageFacts DEF PInv, Typed, HandlersTyped, HandlerType
    <3> QED
      BY <3>4, <3>5
  <2>5. olds \in {Null, Freed} \/ olds.field \in 1..Len(handler[olds.copy].message.fields) + 1
    <3>1. olds \in Pointers /\ Points(olds, 1)
      BY <1>1 DEF PInv, Typed, HandlersTyped, Parsed
    <3> QED
      BY <2>3, <3>1
  <2> QED
    BY <2>1, <2>2, <2>4, <2>5 DEF TypeOK
<1> QED
  BY <1>1, ParsesAreRight, PTL

\* A command is served with the fields its own client sent, and refused exactly
\* when they are too few, unless another thread called strtok meanwhile.
THEOREM CommandsAreServedAsSent == Spec => []ServedAsSent
<1>1. PInv => ServedAsSent
  BY DEF PInv, Parsed, ServedAt, ServedAsSent
<1> QED
  BY <1>1, ParsesAreRight, PTL

-----------------------------------------------------------------------------
(***************************************************************************)
(* What the operations of the session manager make of the table            *)
(***************************************************************************)

\* The places of the array, and the entries.
LEMMA PlaceFacts ==
    /\ MaxSessions \in Nat /\ \A p : p \in Places <=> p \in Nat /\ p < MaxSessions
    /\ SM!UserSession \subseteq Entry
    /\ \A e, f \in Entry : /\ e.userId = f.userId /\ e.socket_fd = f.socket_fd
                           /\ e.username = f.username
                           => e = f
    /\ \A e \in Entry : e.userId \in Users /\ e.socket_fd \in Sockets /\ e.username \in Users
                        => e \in SM!UserSession
    /\ \A e \in SM!UserSession : e.userId \in Users /\ e.socket_fd \in Sockets /\ e.username \in Users
    /\ \A u \in Users, fd \in Sockets :
          LET e == SM!NewSession(u, fd)
          IN  e \in SM!UserSession /\ e.userId = u /\ e.socket_fd = fd /\ e.username = u
<1>1. MaxSessions \in Nat
  BY TableAssumption
<1>2. \A p : p \in Places <=> p \in Nat /\ p < MaxSessions
  BY <1>1 DEF Places
<1> QED
  BY <1>1, <1>2 DEF Entry, SM!UserSession, SM!NewSession

\* The search stops at the first entry.
LEMMA FirstIs ==
    ASSUME NEW S \in SUBSET Nat, NEW k \in S, \A j \in S : k <= j
    PROVE  SM!First(S) = k
<1>1. \A i \in S : (\A j \in S : i <= j) => i = k
  OBVIOUS
<1> QED
  BY <1>1 DEF SM!First

\* SessionManager_add with an entry that matches ...
LEMMA AddMatching ==
    ASSUME NEW s \in Seq(SM!UserSession), NEW u \in Users, NEW fd \in Sockets,
           NEW k \in 1..Len(s), Len(s) < MaxSessions, Matches(s[k], u, fd),
           \A j \in 1..k - 1 : ~Matches(s[j], u, fd)
    PROVE  LET r == SM!Add(s, u, fd)
           IN  /\ r \in Seq(SM!UserSession) /\ Len(r) = Len(s)
               /\ \A j \in 1..Len(s) : j # k => r[j] = s[j]
               /\ r[k].userId = s[k].userId /\ r[k].socket_fd = fd /\ r[k].username = u
<1>1. Len(s) \in Nat /\ DOMAIN s = 1..Len(s) /\ MaxSessions \in Nat
  BY PlaceFacts
<1> DEFINE M == SM!OfUser(s, u) \cup SM!OfSocket(s, fd)
<1>2. M = {j \in 1..Len(s) : Matches(s[j], u, fd)}
  BY <1>1 DEF SM!OfUser, SM!OfSocket, Matches
<1>3. SM!Add(s, u, fd) = IF Len(s) >= MaxSessions THEN s
                         ELSE IF M # {} THEN [s EXCEPT ![SM!First(M)].socket_fd = fd,
                                                       ![SM!First(M)].username = u]
                         ELSE Append(s, SM!NewSession(u, fd))
  BY DEF SM!Add
<1> HIDE DEF M
<1>4. M \in SUBSET Nat /\ k \in M /\ \A j \in M : k <= j
  BY <1>1, <1>2
<1>5. SM!First(M) = k
  BY <1>4, FirstIs
<1>6. ~(Len(s) >= MaxSessions) /\ M # {}
  BY <1>1, <1>4
<1>7. SM!Add(s, u, fd) = [s EXCEPT ![SM!First(M)].socket_fd = fd, ![SM!First(M)].username = u]
  BY <1>3, <1>6
<1>8. SM!Add(s, u, fd) = [s EXCEPT ![k].socket_fd = fd, ![k].username = u]
  BY <1>5, <1>7
<1>9. PICK row : row = [s[k] EXCEPT !.socket_fd = fd, !.username = u]
  OBVIOUS
<1>10. /\ row \in SM!UserSession /\ row.userId = s[k].userId
       /\ row.socket_fd = fd /\ row.username = u
  <2>1. s[k] \in SM!UserSession
    OBVIOUS
  <2> QED
    BY <1>9, <2>1 DEF SM!UserSession
<1>11. PICK r : r = [s EXCEPT ![k] = row]
  OBVIOUS
<1>12. SM!Add(s, u, fd) = r
  BY <1>8, <1>9, <1>11
<1>13. PICK S : S = SM!UserSession
  OBVIOUS
<1>14. /\ r \in Seq(S) /\ Len(r) = Len(s) /\ r[k] = row
       /\ \A j \in 1..Len(s) : j # k => r[j] = s[j]
  BY <1>1, <1>10, <1>11, <1>13
<1> QED
  BY <1>10, <1>12, <1>13, <1>14

\* ... and with none, or a full table.
LEMMA AddFacts ==
    ASSUME NEW s \in Seq(SM!UserSession), NEW u \in Users, NEW fd \in Sockets
    PROVE  /\ Len(s) >= MaxSessions => SM!Add(s, u, fd) = s
           /\ Len(s) < MaxSessions /\ (\A j \in 1..Len(s) : ~Matches(s[j], u, fd)) =>
                 SM!Add(s, u, fd) = Append(s, SM!NewSession(u, fd))
<1>1. Len(s) \in Nat /\ DOMAIN s = 1..Len(s) /\ MaxSessions \in Nat
  BY PlaceFacts
<1>2. Len(s) >= MaxSessions => SM!Add(s, u, fd) = s
  BY DEF SM!Add
<1>3. ASSUME Len(s) < MaxSessions, \A j \in 1..Len(s) : ~Matches(s[j], u, fd)
      PROVE  SM!Add(s, u, fd) = Append(s, SM!NewSession(u, fd))
  <2>1. SM!OfUser(s, u) \cup SM!OfSocket(s, fd) = {}
    BY <1>1, <1>3 DEF SM!OfUser, SM!OfSocket, Matches
  <2>2. ~(Len(s) >= MaxSessions)
    BY <1>1, <1>3
  <2> QED
    BY <2>1, <2>2 DEF SM!Add
<1> QED
  BY <1>2, <1>3

\* SessionManager_remove_by_socket, with an entry of the socket and without.
LEMMA RemoveFacts ==
    ASSUME NEW s \in Seq(SM!UserSession), NEW fd
    PROVE  LET r == SM!RemoveBySocket(s, fd)
               n == Len(s)
           IN  /\ (\A j \in 1..n : s[j].socket_fd # fd) => r = s
               /\ \A k \in 1..n :
                     s[k].socket_fd = fd /\ (\A j \in 1..k - 1 : s[j].socket_fd # fd) =>
                        /\ r \in Seq(SM!UserSession) /\ Len(r) = n - 1
                        /\ \A j \in 1..n - 1 : r[j] = IF j = k THEN s[n] ELSE s[j]
<1>1. Len(s) \in Nat /\ DOMAIN s = 1..Len(s)
  OBVIOUS
<1> DEFINE M == SM!OfSocket(s, fd)
<1>2. M = {j \in 1..Len(s) : s[j].socket_fd = fd}
  BY <1>1 DEF SM!OfSocket
<1>3. SM!RemoveBySocket(s, fd) = IF M = {} THEN s
                                 ELSE SubSeq([s EXCEPT ![SM!First(M)] = s[Len(s)]], 1, Len(s) - 1)
  BY DEF SM!RemoveBySocket
<1> HIDE DEF M
<1>4. ASSUME NEW k \in 1..Len(s), s[k].socket_fd = fd, \A j \in 1..k - 1 : s[j].socket_fd # fd
      PROVE  LET r == SM!RemoveBySocket(s, fd)
                 n == Len(s)
             IN  /\ r \in Seq(SM!UserSession) /\ Len(r) = n - 1
                 /\ \A j \in 1..n - 1 : r[j] = IF j = k THEN s[n] ELSE s[j]
  <2>1. M \in SUBSET Nat /\ k \in M /\ \A j \in M : k <= j
    BY <1>1, <1>2, <1>4
  <2>2. SM!First(M) = k
    BY <2>1, FirstIs
  <2>3. PICK S : S = SM!UserSession
    OBVIOUS
  <2>4. PICK n \in Nat : n = Len(s)
    BY <1>1
  <2>5. PICK t : t = [s EXCEPT ![k] = s[n]]
    OBVIOUS
  <2>6. s \in Seq(S) /\ n \in 1..n /\ n - 1 \in Nat
    BY <1>1, <2>3, <2>4
  <2>7. s[n] \in S
    BY <2>4, <2>6
  <2>8. /\ t \in Seq(S) /\ Len(t) = n
        /\ \A j \in 1..n : t[j] = IF j = k THEN s[n] ELSE s[j]
    BY <2>4, <2>5, <2>6, <2>7
  <2>9. PICK r : r = SubSeq(t, 1, n - 1)
    OBVIOUS
  <2>10. r \in Seq(S) /\ Len(r) = n - 1 /\ \A j \in 1..n - 1 : r[j] = t[j]
    BY <2>6, <2>8, <2>9
  <2>11. SM!RemoveBySocket(s, fd) = r
    BY <1>3, <2>1, <2>2, <2>4, <2>5, <2>9
  <2> QED
    BY <2>3, <2>4, <2>6, <2>8, <2>10, <2>11
<1>5. (\A j \in 1..Len(s) : s[j].socket_fd # fd) => M = {}
  BY <1>2
<1> QED
  BY <1>3, <1>4, <1>5

-----------------------------------------------------------------------------
(***************************************************************************)
(* A call that is alone in the session manager                             *)
(***************************************************************************)
Alone(fd) == /\ ~outside /\ count \in 0..MaxSessions
             /\ sessions \in Seq(SM!UserSession) /\ Len(sessions) <= MaxSessions
             /\ Half(fd)

\* What a call looks for does not change under way.
LEMMA SearchKept ==
    ASSUME NEW fd \in Sockets, handler'[fd].pc = handler[fd].pc, sessions' = sessions,
           call'[fd].user = call[fd].user
    PROVE  /\ Adding(fd)' <=> Adding(fd)
           /\ Result(fd)' = Result(fd)
           /\ \A k : Passed(fd, k)' <=> Passed(fd, k)
           /\ \A k : FoundAt(fd, k)' <=> FoundAt(fd, k)
           /\ table' = table => (Done(fd)' <=> Done(fd))
<1>1. Adding(fd)' <=> Adding(fd)
  BY DEF Adding
<1>2. \A e : Hit(fd, e)' <=> Hit(fd, e)
  BY <1>1 DEF Hit, Matches
<1>3. Result(fd)' = Result(fd)
  BY <1>1 DEF Result
<1>4. \A k : Passed(fd, k)' <=> Passed(fd, k)
  BY <1>2 DEF Passed
<1>5. \A k : FoundAt(fd, k)' <=> FoundAt(fd, k)
  BY <1>2, <1>4 DEF FoundAt
<1>6. table' = table => (Done(fd)' <=> Done(fd))
  BY <1>3 DEF Done, Rows
<1> QED
  BY <1>1, <1>3, <1>4, <1>5, <1>6

\* The entries up to the count are the sessions.
LEMMA RowFacts ==
    ASSUME sessions \in Seq(SM!UserSession), Len(sessions) <= MaxSessions
    PROVE  /\ Len(sessions) \in Nat /\ DOMAIN sessions = 1..Len(sessions)
           /\ \A j \in 1..Len(sessions) : sessions[j] \in SM!UserSession /\ sessions[j] \in Entry
           /\ Untouched => \A p \in Nat : p < Len(sessions) => table[p] = sessions[p + 1]
<1>1. Len(sessions) \in Nat /\ DOMAIN sessions = 1..Len(sessions)
  OBVIOUS
<1>2. \A j \in 1..Len(sessions) : sessions[j] \in SM!UserSession
  OBVIOUS
<1>3. \A j \in 1..Len(sessions) : sessions[j] \in Entry
  BY <1>2, PlaceFacts
<1>4. ASSUME Untouched, NEW p \in Nat, p < Len(sessions)
      PROVE  table[p] = sessions[p + 1]
  <2>1. p + 1 \in 1..Len(sessions) /\ (p + 1) - 1 = p
    BY <1>1, <1>4
  <2>2. PICK j \in 1..Len(sessions) : j = p + 1 /\ j - 1 = p
    BY <2>1
  <2> QED
    BY <1>4, <2>2 DEF Untouched, Rows
<1> QED
  BY <1>1, <1>2, <1>3, <1>4

\* One more entry is passed.
LEMMA PassedNext ==
    ASSUME NEW fd \in Sockets, NEW k \in Nat, Passed(fd, k), k < Len(sessions),
           Len(sessions) \in Nat, ~Hit(fd, sessions[k + 1])
    PROVE  Passed(fd, k + 1)
<1>1. \A j \in 1..k + 1 : j \in 1..k \/ j = k + 1
  OBVIOUS
<1> QED
  BY <1>1 DEF Passed

\* A turn of the search of SessionManager_add.
LEMMA MatchAlone ==
    ASSUME Typed, NEW fd \in Sockets, Alone(fd), Match(fd), handler' = handler,
           sessions' = sessions
    PROVE  Alone(fd)'
<1>1. /\ call[fd].pc = "match" /\ OneCall(fd) /\ UNCHANGED <<table, count>>
      /\ \/ call[fd].i >= count /\ call'[fd].pc = "user" /\ outside' = outside
         \/ /\ call[fd].i < count /\ outside' = outside
            /\ \/ /\ Matches(table[call[fd].i], call[fd].user, fd)
                  /\ call'[fd].pc = "update" /\ call'[fd].i = call[fd].i
               \/ /\ ~Matches(table[call[fd].i], call[fd].user, fd)
                  /\ call'[fd].pc = "match" /\ call'[fd].i = call[fd].i + 1
         \/ call[fd].i < count /\ call[fd].i \notin Places
  BY MatchFields DEF Typed
<1>2. PICK i \in Nat : i = call[fd].i
  BY DEF Typed, CallsTyped, CallType
<1>3. PICK n \in Nat : n = Len(sessions)
  BY DEF Alone
<1>4. /\ Untouched /\ Passed(fd, i) /\ n < MaxSessions /\ count = n /\ i <= n
      /\ \A p \in Nat : p < n => table[p] = sessions[p + 1]
  BY <1>1, <1>2, <1>3, RowFacts DEF Alone, Half, AddPcs, Untouched, Passed
<1>5. i < count => i \in Places
  BY <1>4, PlaceFacts
<1>6. Adding(fd) /\ \A e : Hit(fd, e) <=> Matches(e, call[fd].user, fd)
  BY <1>1 DEF Typed, Engaged, EngagedAt, AddPcs, Adding, Hit
<1>7. /\ call'[fd].user = call[fd].user
      /\ \A k : Passed(fd, k)' <=> Passed(fd, k)
      /\ \A k : FoundAt(fd, k)' <=> FoundAt(fd, k)
  BY <1>1, SearchKept DEF OneCall
<1>8. Untouched'
  BY <1>1, <1>4 DEF Untouched, Rows
<1>9. outside' = outside
  BY <1>1, <1>2, <1>5
<1>10. Half(fd)'
  <2>1. CASE i >= count /\ call'[fd].pc = "user"
    <3>1. Passed(fd, n)'
      BY <1>4, <1>7, <2>1
    <3> QED
      BY <1>3, <1>4, <1>8, <2>1, <3>1 DEF Half, AddPcs
  <2>2. CASE /\ i < count /\ Matches(table[i], call[fd].user, fd)
             /\ call'[fd].pc = "update" /\ call'[fd].i = i
    <3>1. Hit(fd, sessions[i + 1])
      BY <1>4, <1>6, <2>2
    <3>2. i + 1 \in DOMAIN sessions /\ i + 1 - 1 = i
      BY <1>3, <1>4, <2>2 DEF Alone
    <3>3. PICK k : k = i + 1
      OBVIOUS
    <3>4. FoundAt(fd, k)
      BY <1>4, <3>1, <3>2, <3>3 DEF FoundAt
    <3>5. FoundAt(fd, k)'
      BY <1>7, <3>4
    <3>6. FoundAt(fd, call[fd].i + 1)'
      BY <2>2, <3>3, <3>5 DEF FoundAt, Passed, Hit, Adding, Matches
    <3> QED
      BY <1>3, <1>4, <1>8, <2>2, <3>6 DEF Half, AddPcs
  <2>3. CASE /\ i < count /\ ~Matches(table[i], call[fd].user, fd)
             /\ call'[fd].pc = "match" /\ call'[fd].i = i + 1
    <3>1. ~Hit(fd, sessions[i + 1])
      BY <1>4, <1>6, <2>3
    <3>2. PICK k : k = i + 1
      OBVIOUS
    <3>3. Passed(fd, k)
      BY <1>3, <1>4, <2>3, <3>1, <3>2, PassedNext
    <3>4. Passed(fd, k)'
      BY <1>7, <3>3
    <3>5. Passed(fd, call[fd].i)'
      BY <2>3, <3>2, <3>4 DEF Passed, Hit, Adding, Matches
    <3> QED
      BY <1>3, <1>4, <1>8, <2>3, <3>5 DEF Half, AddPcs
  <2> QED
    BY <1>1, <1>2, <1>5, <2>1, <2>2, <2>3
<1> QED
  BY <1>1, <1>9, <1>10 DEF Alone

\* A turn of the search of SessionManager_remove_by_socket.
LEMMA FindAlone ==
    ASSUME Typed, NEW fd \in Sockets, Alone(fd), Find(fd), handler' = handler,
           sessions' = sessions
    PROVE  Alone(fd)'
<1>1. /\ call[fd].pc = "find" /\ OneCall(fd) /\ UNCHANGED <<table, count>>
      /\ \/ call[fd].i >= count /\ call'[fd].pc = "return" /\ outside' = outside
         \/ /\ call[fd].i < count /\ outside' = outside
            /\ \/ /\ table[call[fd].i].socket_fd = fd
                  /\ call'[fd].pc = "move" /\ call'[fd].i = call[fd].i
               \/ /\ table[call[fd].i].socket_fd # fd
                  /\ call'[fd].pc = "find" /\ call'[fd].i = call[fd].i + 1
         \/ call[fd].i < count /\ call[fd].i \notin Places
  BY FindFields DEF Typed
<1>2. PICK i \in Nat : i = call[fd].i
  BY DEF Typed, CallsTyped, CallType
<1>3. PICK n \in Nat : n = Len(sessions)
  BY DEF Alone
<1>4. /\ Untouched /\ Passed(fd, i) /\ n <= MaxSessions /\ count = n /\ i <= n
      /\ \A p \in Nat : p < n => table[p] = sessions[p + 1]
  BY <1>1, <1>2, <1>3, RowFacts DEF Alone, Half, Untouched, Passed
<1>5. i < count => i \in Places
  BY <1>4, PlaceFacts
<1>6. ~Adding(fd) /\ \A e : Hit(fd, e) <=> e.socket_fd = fd
  BY <1>1 DEF Typed, Engaged, EngagedAt, RemovePcs, Adding, Hit
<1>7. /\ call'[fd].user = call[fd].user
      /\ \A k : Passed(fd, k)' <=> Passed(fd, k)
      /\ \A k : FoundAt(fd, k)' <=> FoundAt(fd, k)
      /\ Done(fd)' <=> Done(fd)
      /\ Result(fd)' = Result(fd)
  BY <1>1, SearchKept DEF OneCall
<1>8. Untouched'
  BY <1>1, <1>4 DEF Untouched, Rows
<1>9. outside' = outside
  BY <1>1, <1>2, <1>5
<1>10. Half(fd)'
  <2>1. CASE i >= count /\ call'[fd].pc = "return"
    <3>1. \A j \in 1..n : sessions[j].socket_fd # fd
      BY <1>4, <1>6, <2>1 DEF Passed
    <3>2. Result(fd) = sessions
      BY <1>3, <1>6, <3>1, RemoveFacts DEF Alone, Result
    <3>3. Touched(fd, 0)
      BY <1>3, <1>4, <3>2 DEF Touched, Done, Untouched, Alone
    <3>4. Touched(fd, 0)'
      BY <1>1, <1>7, <3>3 DEF Touched
    <3> QED
      BY <2>1, <3>4 DEF Half, AddPcs
  <2>2. CASE i < count /\ table[i].socket_fd = fd /\ call'[fd].pc = "move" /\ call'[fd].i = i
    <3>1. Hit(fd, sessions[i + 1])
      BY <1>4, <1>6, <2>2
    <3>2. i + 1 \in DOMAIN sessions /\ i + 1 - 1 = i
      BY <1>3, <1>4, <2>2 DEF Alone
    <3>3. PICK k : k = i + 1
      OBVIOUS
    <3>4. FoundAt(fd, k)
      BY <1>4, <3>1, <3>2, <3>3 DEF FoundAt
    <3>5. FoundAt(fd, k)'
      BY <1>7, <3>4
    <3>6. FoundAt(fd, call[fd].i + 1)'
      BY <2>2, <3>3, <3>5 DEF FoundAt, Passed, Hit, Adding, Matches
    <3> QED
      BY <1>8, <2>2, <3>6 DEF Half, AddPcs
  <2>3. CASE i < count /\ table[i].socket_fd # fd /\ call'[fd].pc = "find" /\ call'[fd].i = i + 1
    <3>1. ~Hit(fd, sessions[i + 1])
      BY <1>4, <1>6, <2>3
    <3>2. PICK k : k = i + 1
      OBVIOUS
    <3>3. Passed(fd, k)
      BY <1>3, <1>4, <2>3, <3>1, <3>2, PassedNext
    <3>4. Passed(fd, k)'
      BY <1>7, <3>3
    <3>5. Passed(fd, call[fd].i)'
      BY <2>3, <3>2, <3>4 DEF Passed, Hit, Adding, Matches
    <3> QED
      BY <1>8, <2>3, <3>5 DEF Half, AddPcs
  <2> QED
    BY <1>1, <1>2, <1>5, <2>1, <2>2, <2>3
<1> QED
  BY <1>1, <1>9, <1>10 DEF Alone

\* The entry that matches gets the socket.
LEMMA UpdateAlone ==
    ASSUME Typed, NEW fd \in Sockets, Alone(fd), Update(fd), handler' = handler,
           sessions' = sessions
    PROVE  Alone(fd)'
<1>1. PICK i \in Places : i = call[fd].i
  BY DEF Update, Typed, CallsTyped, InRange
<1>2. call[fd].pc = "update" /\ Store(i, "socket_fd", fd) /\ Goto(fd, "rename")
  BY <1>1 DEF Update
<1>3. "rename" \in CallPcs
  BY DEF CallPcs, AddPcs
<1>4. /\ OneCall(fd) /\ call'[fd].pc = "rename" /\ call'[fd].i = i
  BY <1>1, <1>2, <1>3, GotoFacts DEF Typed, CallsTyped
<1>5. /\ table' \in [Places -> Entry] /\ count' = count /\ outside' = outside /\ OthersKept(i)
      /\ table'[i].socket_fd = fd /\ table'[i].userId = table[i].userId
      /\ table'[i].username = table[i].username
  <2>1. NoUser \in Users \cup {NoUser} /\ table \in [Places -> Entry]
    BY DEF Typed, CallsTyped
  <2> QED
    BY <1>2, <2>1, StoreFacts
<1>6. PICK n \in Nat : n = Len(sessions)
  BY DEF Alone
<1>7. /\ Untouched /\ FoundAt(fd, i + 1) /\ n < MaxSessions /\ count = n /\ i + 1 \in 1..n
      /\ \A p \in Nat : p < n => table[p] = sessions[p + 1]
  BY <1>1, <1>2, <1>6, RowFacts DEF Alone, Half, AddPcs, Untouched, FoundAt
<1>8. i \in Nat /\ table[i] = sessions[i + 1] /\ sessions[i + 1] \in Entry
  BY <1>6, <1>7, PlaceFacts, RowFacts DEF Alone
<1>9. PICK row : row = [sessions[i + 1] EXCEPT !.socket_fd = fd]
  OBVIOUS
<1>10. row \in Entry /\ row.socket_fd = fd /\ row.userId = table[i].userId
       /\ row.username = table[i].username
  BY <1>8, <1>9 DEF Entry
<1>11. table'[i] = row
  BY <1>5, <1>10, PlaceFacts
<1>12. ASSUME NEW j \in 1..n, j # i + 1
       PROVE  table'[j - 1] = sessions[j]
  <2>1. j - 1 \in Nat /\ j - 1 < n /\ j - 1 # i /\ j - 1 + 1 = j
    BY <1>8, <1>12
  <2>2. j - 1 \in Places
    BY <1>7, <2>1, PlaceFacts
  <2>3. table'[j - 1] = table[j - 1]
    BY <1>5, <2>1, <2>2 DEF OthersKept
  <2>4. table[j - 1] = sessions[j - 1 + 1]
    BY <1>7, <2>1
  <2> QED
    BY <2>1, <2>3, <2>4
<1>13. ButFor(i, row)'
  BY <1>5, <1>6, <1>7, <1>11, <1>12 DEF ButFor
<1>14. FoundAt(fd, i + 1)'
  <2>1. PICK k : k = i + 1
    OBVIOUS
  <2>2. FoundAt(fd, k)'
    BY <1>4, <1>7, <2>1, SearchKept DEF OneCall
  <2> QED
    BY <2>1, <2>2
<1>15. Half(fd)'
  <2>1. FoundAt(fd, call[fd].i + 1)'
    BY <1>4, <1>14 DEF FoundAt, Passed, Hit, Adding, Matches
  <2>2. ButFor(call[fd].i, [sessions[call[fd].i + 1] EXCEPT !.socket_fd = fd])'
    BY <1>4, <1>9, <1>13 DEF ButFor
  <2> QED
    BY <1>4, <1>6, <1>7, <2>1, <2>2 DEF Half, AddPcs
<1> QED
  BY <1>5, <1>15 DEF Alone

\* ... and the name, and is then as SessionManager_add leaves it.
LEMMA RenameAlone ==
    ASSUME Typed, NEW fd \in Sockets, Alone(fd), Rename(fd), handler' = handler,
           sessions' = sessions
    PROVE  Alone(fd)'
<1>1. PICK i \in Places : i = call[fd].i
  BY DEF Rename, Typed, CallsTyped, InRange
<1>2. PICK u \in Users : u = call[fd].user
  BY DEF Rename, Typed, Engaged, EngagedAt, AddPcs
<1>3. call[fd].pc = "rename" /\ Store(i, "username", u) /\ Goto(fd, "return")
  BY <1>1, <1>2 DEF Rename
<1>4. "return" \in CallPcs
  BY DEF CallPcs
<1>5. /\ OneCall(fd) /\ call'[fd].pc = "return"
  BY <1>3, <1>4, GotoFacts DEF Typed, CallsTyped
<1>6. /\ table' \in [Places -> Entry] /\ count' = count /\ outside' = outside /\ OthersKept(i)
      /\ table'[i].socket_fd = table[i].socket_fd /\ table'[i].userId = table[i].userId
      /\ table'[i].username = u
  BY <1>3, StoreFacts DEF Typed, CallsTyped
<1>7. PICK n \in Nat : n = Len(sessions)
  BY DEF Alone
<1>8. /\ FoundAt(fd, i + 1) /\ n < MaxSessions /\ count = n /\ i + 1 \in 1..n
      /\ \A j \in 1..n : j # i + 1 => table[j - 1] = sessions[j]
      /\ table[i] = [sessions[i + 1] EXCEPT !.socket_fd = fd]
  BY <1>1, <1>3, <1>7, RowFacts DEF Alone, Half, AddPcs, ButFor, FoundAt
<1>9. i \in Nat /\ sessions[i + 1] \in Entry /\ sessions[i + 1] \in SM!UserSession
  BY <1>7, <1>8, PlaceFacts, RowFacts DEF Alone
<1>10. Adding(fd) /\ \A e : Hit(fd, e) <=> Matches(e, u, fd)
  BY <1>2, <1>3 DEF Typed, Engaged, EngagedAt, AddPcs, Adding, Hit
<1>11. PICK r : r = Result(fd)
  OBVIOUS
<1>12. /\ r \in Seq(SM!UserSession) /\ Len(r) = n
       /\ \A j \in 1..n : j # i + 1 => r[j] = sessions[j]
       /\ r[i + 1].userId = sessions[i + 1].userId
       /\ r[i + 1].socket_fd = fd /\ r[i + 1].username = u
  <2>1. PICK k : k = i + 1
    OBVIOUS
  <2>2. k - 1 = i
    BY <1>9, <2>1
  <2>3. PICK s \in Seq(SM!UserSession) : s = sessions
    BY DEF Alone
  <2>4. /\ k \in 1..Len(s) /\ Len(s) < MaxSessions /\ Matches(s[k], u, fd)
        /\ \A j \in 1..k - 1 : ~Matches(s[j], u, fd)
    BY <1>7, <1>8, <1>10, <2>1, <2>2, <2>3 DEF FoundAt, Passed
  <2>5. r = SM!Add(s, u, fd)
    BY <1>2, <1>10, <1>11, <2>3 DEF Result
  <2>6. /\ r \in Seq(SM!UserSession) /\ Len(r) = Len(s)
        /\ \A j \in 1..Len(s) : j # k => r[j] = s[j]
        /\ r[k].userId = s[k].userId /\ r[k].socket_fd = fd /\ r[k].username = u
    BY <2>4, <2>5, AddMatching
  <2> QED
    BY <1>7, <2>1, <2>3, <2>6
<1>13. r[i + 1] \in SM!UserSession /\ r[i + 1] \in Entry
  <2>1. i + 1 \in 1..Len(r)
    BY <1>8, <1>12
  <2>2. r[i + 1] \in SM!UserSession
    BY <1>12, <2>1
  <2> QED
    BY <2>2, PlaceFacts
<1>14. table'[i] = r[i + 1]
  <2>1. table[i].socket_fd = fd /\ table[i].userId = sessions[i + 1].userId
    BY <1>8, <1>9 DEF Entry
  <2> QED
    BY <1>6, <1>12, <1>13, <2>1, PlaceFacts
<1>15. \A j \in 1..n : table'[j - 1] = r[j]
  <2> SUFFICES ASSUME NEW j \in 1..n
               PROVE  table'[j - 1] = r[j]
    OBVIOUS
  <2>1. CASE j = i + 1
    BY <1>9, <1>14, <2>1
  <2>2. CASE j # i + 1
    <3>1. j - 1 \in Places /\ j - 1 # i
      BY <1>8, <1>9, <2>2, PlaceFacts
    <3> QED
      BY <1>6, <1>8, <1>12, <2>2, <3>1 DEF OthersKept
  <2> QED
    BY <2>1, <2>2
<1>16. Result(fd)' = r
  BY <1>5, <1>11, SearchKept DEF OneCall
<1>17. Touched(fd, 0)'
  <2>1. Rows(Result(fd))'
    BY <1>12, <1>15, <1>16 DEF Rows
  <2>2. Done(fd)'
    BY <1>8, <1>12, <1>16, <2>1, TableAssumption DEF Done
  <2> QED
    BY <1>6, <1>8, <1>12, <1>16, <2>2 DEF Touched
<1>18. Half(fd)'
  BY <1>5, <1>17 DEF Half, AddPcs
<1> QED
  BY <1>6, <1>18 DEF Alone

\* A store behind the last entry leaves the sessions as they are.
LEMMA StoredBehind ==
    ASSUME NEW fd \in Sockets, Alone(fd), Untouched, Len(sessions) < MaxSessions,
           OthersKept(Len(sessions)), count' = count, sessions' = sessions
    PROVE  Untouched'
<1>1. PICK n \in Nat : n = Len(sessions)
  BY DEF Alone
<1>2. \A j \in 1..n : j - 1 \in Places /\ j - 1 # n
  BY <1>1, PlaceFacts
<1> QED
  BY <1>1, <1>2 DEF Untouched, Rows, OthersKept

\* No entry matches: the first two stores of the new one.
LEMMA AddUserAlone ==
    ASSUME Typed, NEW fd \in Sockets, Alone(fd), AddUser(fd) \/ AddSocket(fd), handler' = handler,
           sessions' = sessions
    PROVE  Alone(fd)'
<1>1. PICK u \in Users : u = call[fd].user
  BY DEF AddUser, AddSocket, Typed, Engaged, EngagedAt, AddPcs
<1>2. PICK n \in Nat : n = Len(sessions)
  BY DEF Alone
<1>3. /\ Untouched /\ Passed(fd, n) /\ n < MaxSessions /\ count = n
      /\ call[fd].pc = "socket" => table[n].userId = u
  BY <1>1, <1>2 DEF Alone, Half, AddPcs, Untouched, AddUser, AddSocket
<1>4. n \in Places
  BY <1>3, PlaceFacts
<1>5. /\ table \in [Places -> Entry] /\ call \in [Sockets -> CallType]
      /\ "socket" \in CallPcs /\ "name" \in CallPcs
  BY DEF Typed, CallsTyped, CallPcs, AddPcs
<1>6. /\ OneCall(fd) /\ count' = count /\ outside' = outside /\ OthersKept(n)
      /\ table'[n].userId = u
      /\ \/ call'[fd].pc = "socket"
         \/ call'[fd].pc = "name" /\ table'[n].socket_fd = fd
  <2>1. CASE AddUser(fd)
    <3>1. Store(n, "userId", u) /\ Goto(fd, "socket")
      BY <1>1, <1>3, <2>1 DEF AddUser
    <3> QED
      BY <1>1, <1>4, <1>5, <3>1, StoreFacts, GotoFacts
  <2>2. CASE AddSocket(fd)
    <3>1. Store(n, "socket_fd", fd) /\ Goto(fd, "name") /\ call[fd].pc = "socket"
      BY <1>1, <1>3, <2>2 DEF AddSocket
    <3> QED
      BY <1>1, <1>3, <1>4, <1>5, <3>1, StoreFacts, GotoFacts
  <2> QED
    BY <2>1, <2>2
<1>7. Untouched'
  BY <1>2, <1>3, <1>6, StoredBehind
<1>8. Passed(fd, n)'
  BY <1>3, <1>6, SearchKept DEF OneCall
<1>9. call'[fd].user = u
  BY <1>1, <1>6 DEF OneCall
<1>10. Passed(fd, Len(sessions))'
  BY <1>2, <1>8 DEF Passed, Hit, Adding, Matches
<1>11. Half(fd)'
  BY <1>2, <1>3, <1>6, <1>7, <1>9, <1>10 DEF Half, AddPcs
<1> QED
  BY <1>6, <1>11 DEF Alone

\* The last store of the new entry: the table is as SessionManager_add leaves it,
\* but for the count.
LEMMA AddNameAlone ==
    ASSUME Typed, NEW fd \in Sockets, Alone(fd), AddName(fd), handler' = handler,
           sessions' = sessions
    PROVE  Alone(fd)'
<1>1. PICK u \in Users : u = call[fd].user
  BY DEF AddName, Typed, Engaged, EngagedAt, AddPcs
<1>2. PICK n \in Nat : n = Len(sessions)
  BY DEF Alone
<1>3. /\ Untouched /\ Passed(fd, n) /\ n < MaxSessions /\ count = n
      /\ table[n].userId = u /\ table[n].socket_fd = fd
  BY <1>1, <1>2 DEF Alone, Half, AddPcs, Untouched, AddName
<1>4. n \in Places
  BY <1>3, PlaceFacts
<1>5. /\ table \in [Places -> Entry] /\ call \in [Sockets -> CallType]
      /\ "increment" \in CallPcs
  BY DEF Typed, CallsTyped, CallPcs, AddPcs
<1>6. Store(n, "username", u) /\ Goto(fd, "increment")
  BY <1>1, <1>3 DEF AddName
<1>7. OneCall(fd) /\ call'[fd].pc = "increment"
  BY <1>5, <1>6, GotoFacts
<1>8. /\ table' \in [Places -> Entry] /\ count' = count /\ outside' = outside /\ OthersKept(n)
      /\ table'[n].username = u /\ table'[n].userId = u /\ table'[n].socket_fd = fd
  BY <1>1, <1>3, <1>4, <1>5, <1>6, StoreFacts
<1>9. PICK new : new = SM!NewSession(u, fd)
  OBVIOUS
<1>10. new \in SM!UserSession /\ table'[n] = new
  BY <1>4, <1>8, <1>9, PlaceFacts
<1>11. Adding(fd) /\ \A e : Hit(fd, e) <=> Matches(e, u, fd)
  BY <1>1 DEF Typed, Engaged, EngagedAt, AddPcs, Adding, Hit, AddName
<1>12. PICK r : r = Result(fd)
  OBVIOUS
<1>13. r = Append(sessions, new)
  <2>1. PICK s \in Seq(SM!UserSession) : s = sessions
    BY DEF Alone
  <2>2. Len(s) < MaxSessions /\ \A j \in 1..Len(s) : ~Matches(s[j], u, fd)
    BY <1>2, <1>3, <1>11, <2>1 DEF Passed
  <2>3. r = SM!Add(s, u, fd)
    BY <1>1, <1>11, <1>12, <2>1 DEF Result
  <2> QED
    BY <1>9, <2>1, <2>2, <2>3, AddFacts
<1>14. /\ r \in Seq(SM!UserSession) /\ Len(r) = n + 1 /\ r[n + 1] = new
       /\ \A j \in 1..n : r[j] = sessions[j]
  <2>1. PICK S : S = SM!UserSession
    OBVIOUS
  <2>2. sessions \in Seq(S) /\ new \in S
    BY <1>10, <2>1 DEF Alone
  <2>3. r \in Seq(S) /\ Len(r) = n + 1 /\ r[n + 1] = new /\ \A j \in 1..n : r[j] = sessions[j]
    BY <1>2, <1>13, <2>2
  <2> QED
    BY <2>1, <2>3
<1>15. Untouched'
  BY <1>2, <1>3, <1>8, StoredBehind
<1>16. \A j \in 1..n : table'[j - 1] = sessions[j]
  BY <1>2, <1>15 DEF Untouched, Rows
<1>17. \A j \in 1..n + 1 : table'[j - 1] = r[j]
  <2> SUFFICES ASSUME NEW j \in 1..n + 1
               PROVE  table'[j - 1] = r[j]
    OBVIOUS
  <2>1. CASE j = n + 1
    BY <1>10, <1>14, <2>1
  <2>2. CASE j \in 1..n
    BY <1>14, <1>16, <2>2
  <2> QED
    BY <2>1, <2>2
<1>18. Result(fd)' = r
  BY <1>7, <1>12, SearchKept DEF OneCall
<1>19. Touched(fd, 1)'
  <2>1. Rows(Result(fd))'
    BY <1>14, <1>17, <1>18 DEF Rows
  <2>2. Done(fd)'
    BY <1>3, <1>14, <1>18, <2>1, TableAssumption DEF Done
  <2> QED
    BY <1>3, <1>8, <1>14, <1>18, <2>2 DEF Touched
<1>20. Half(fd)'
  BY <1>7, <1>19 DEF Half, AddPcs
<1> QED
  BY <1>8, <1>20 DEF Alone

\* The two halves of g_session_count++ and g_session_count--.
LEMMA CountAlone ==
    ASSUME Typed, NEW fd \in Sockets, Alone(fd), handler' = handler, sessions' = sessions,
           LoadCount(fd, "increment") \/ LoadCount(fd, "decrement") \/ StoreCount(fd)
    PROVE  Alone(fd)'
<1>1. CallsTyped
  BY DEF Typed
<1>2. ASSUME NEW by \in {"increment", "decrement"}, LoadCount(fd, by)
      PROVE  Alone(fd)'
  <2>1. /\ call[fd].pc = by /\ OneCall(fd) /\ call'[fd].pc = "count"
        /\ call'[fd].last = count + (IF by = "increment" THEN 1 ELSE -1)
        /\ UNCHANGED <<table, count, outside>>
    BY <1>1, <1>2, LoadCountFields
  <2>2. Touched(fd, IF by = "increment" THEN 1 ELSE -1)
    BY <2>1 DEF Alone, Half
  <2>3. Done(fd) /\ call'[fd].last = Len(Result(fd))
    BY <2>1, <2>2 DEF Touched
  <2>4. /\ Done(fd)' <=> Done(fd)
        /\ Result(fd)' = Result(fd)
    BY <2>1, SearchKept DEF OneCall
  <2>5. Half(fd)'
    BY <2>1, <2>3, <2>4 DEF Half, AddPcs
  <2> QED
    BY <2>1, <2>5 DEF Alone
<1>3. CASE StoreCount(fd)
  <2>1. /\ call[fd].pc = "count" /\ count' = call[fd].last /\ Goto(fd, "return")
        /\ UNCHANGED <<table, outside>>
    BY <1>3 DEF StoreCount
  <2>2. "return" \in CallPcs
    BY DEF CallPcs
  <2>3. OneCall(fd) /\ call'[fd].pc = "return"
    BY <1>1, <2>1, <2>2, GotoFacts DEF CallsTyped
  <2>4. Done(fd) /\ call[fd].last = Len(Result(fd))
    BY <2>1 DEF Alone, Half
  <2>5. /\ Done(fd)' <=> Done(fd)
        /\ Result(fd)' = Result(fd)
    BY <2>1, <2>3, SearchKept DEF OneCall
  <2>6. count' \in 0..MaxSessions
    BY <2>1, <2>4, TableAssumption DEF Done
  <2>7. Touched(fd, 0)'
    BY <2>1, <2>4, <2>5, <2>6 DEF Touched
  <2>8. Half(fd)'
    BY <2>3, <2>7 DEF Half, AddPcs
  <2> QED
    BY <2>1, <2>6, <2>8 DEF Alone
<1> QED
  BY <1>2, <1>3

\* The first half of the last entry is copied over the one that was found.
LEMMA MoveAlone ==
    ASSUME Typed, NEW fd \in Sockets, Alone(fd), Move(fd), handler' = handler,
           sessions' = sessions
    PROVE  Alone(fd)'
<1>1. /\ call[fd].pc = "move" /\ call[fd].i \in Places /\ OneCall(fd)
      /\ call'[fd].pc = "moving" /\ call'[fd].i = call[fd].i /\ call'[fd].last = count - 1
      /\ count' = count
      /\ \/ /\ count - 1 \in Places /\ outside' = outside /\ OthersKept(call[fd].i)
            /\ table'[call[fd].i] = [table[call[fd].i] EXCEPT !.userId = table[count - 1].userId]
         \/ count - 1 \notin Places
  BY MoveFields DEF Typed
<1>2. PICK i \in Places : i = call[fd].i
  BY <1>1
<1>3. PICK n \in Nat : n = Len(sessions)
  BY DEF Alone
<1>4. /\ Untouched /\ FoundAt(fd, i + 1) /\ n <= MaxSessions /\ count = n /\ i + 1 \in 1..n
      /\ \A p \in Nat : p < n => table[p] = sessions[p + 1]
  BY <1>1, <1>2, <1>3, RowFacts DEF Alone, Half, Untouched, FoundAt
<1>5. n - 1 \in Places /\ n - 1 \in Nat /\ n - 1 < n /\ n - 1 + 1 = n /\ i \in Nat /\ i < n
  BY <1>4, PlaceFacts
<1>6. table[i] = sessions[i + 1] /\ table[n - 1] = sessions[n]
  BY <1>4, <1>5
<1>7. /\ outside' = outside /\ OthersKept(i)
      /\ table'[i] = [sessions[i + 1] EXCEPT !.userId = sessions[n].userId]
  BY <1>1, <1>2, <1>4, <1>5, <1>6
<1>8. ASSUME NEW j \in 1..n, j # i + 1
      PROVE  table'[j - 1] = sessions[j]
  <2>1. j - 1 \in Nat /\ j - 1 < n /\ j - 1 # i /\ j - 1 + 1 = j
    BY <1>5, <1>8
  <2>2. j - 1 \in Places
    BY <1>4, <2>1, PlaceFacts
  <2>3. table'[j - 1] = table[j - 1]
    BY <1>7, <2>1, <2>2 DEF OthersKept
  <2>4. table[j - 1] = sessions[j - 1 + 1]
    BY <1>4, <2>1
  <2> QED
    BY <2>1, <2>3, <2>4
<1>9. PICK row : row = [sessions[i + 1] EXCEPT !.userId = sessions[n].userId]
  OBVIOUS
<1>10. ButFor(i, row)'
  BY <1>1, <1>3, <1>4, <1>7, <1>8, <1>9 DEF ButFor
<1>11. FoundAt(fd, i + 1)'
  <2>1. PICK k : k = i + 1
    OBVIOUS
  <2>2. FoundAt(fd, k)'
    BY <1>1, <1>4, <2>1, SearchKept DEF OneCall
  <2> QED
    BY <2>1, <2>2
<1>12. Half(fd)'
  <2>1. FoundAt(fd, call[fd].i + 1)'
    BY <1>1, <1>2, <1>11 DEF FoundAt, Passed, Hit, Adding, Matches
  <2>2. ButFor(call[fd].i, [sessions[call[fd].i + 1] EXCEPT !.userId = sessions[Len(sessions)].userId])'
    BY <1>1, <1>2, <1>3, <1>9, <1>10 DEF ButFor
  <2>3. call'[fd].last = Len(sessions) - 1
    BY <1>1, <1>3, <1>4
  <2> QED
    BY <1>1, <2>1, <2>2, <2>3 DEF Half, AddPcs
<1> QED
  BY <1>1, <1>7, <1>12 DEF Alone

\* The second half: the table is as SessionManager_remove_by_socket leaves it, but
\* for the last entry and the count.
LEMMA MovingAlone ==
    ASSUME Typed, NEW fd \in Sockets, Alone(fd), Moving(fd), handler' = handler,
           sessions' = sessions
    PROVE  Alone(fd)'
<1>1. /\ call[fd].pc = "moving" /\ call[fd].i \in Places /\ OneCall(fd)
      /\ call'[fd].pc = "clear" /\ UNCHANGED <<count, outside>>
      /\ table' \in [Places -> Entry] /\ OthersKept(call[fd].i)
      /\ table'[call[fd].i] = [table[call[fd].last] EXCEPT !.userId = table[call[fd].i].userId]
  BY MovingFields DEF Typed, Alone
<1>2. PICK i \in Places : i = call[fd].i
  BY <1>1
<1>3. PICK n \in Nat : n = Len(sessions)
  BY DEF Alone
<1>4. /\ FoundAt(fd, i + 1) /\ n <= MaxSessions /\ count = n /\ i + 1 \in 1..n
      /\ call[fd].last = n - 1
      /\ \A j \in 1..n : j # i + 1 => table[j - 1] = sessions[j]
      /\ table[i] = [sessions[i + 1] EXCEPT !.userId = sessions[n].userId]
  BY <1>1, <1>2, <1>3, RowFacts DEF Alone, Half, ButFor, FoundAt
<1>5. /\ i \in Nat /\ i < n /\ n \in 1..n /\ i + 1 - 1 = i
      /\ sessions[i + 1] \in Entry /\ sessions[n] \in Entry
  BY <1>3, <1>4, PlaceFacts, RowFacts DEF Alone
<1>6. table[i].userId = sessions[n].userId
  BY <1>4, <1>5 DEF Entry
<1>7. table'[i] = sessions[n]
  <2>1. CASE i = n - 1
    <3>1. table[i] = sessions[n]
      <4>1. i + 1 = n
        BY <1>5, <2>1
      <4>2. PICK e \in Entry : e = sessions[n]
        BY <1>5
      <4>3. table[i] = [e EXCEPT !.userId = e.userId]
        BY <1>4, <4>1, <4>2
      <4> QED
        BY <4>2, <4>3 DEF Entry
    <3>2. table'[i] = [table[i] EXCEPT !.userId = table[i].userId]
      BY <1>1, <1>2, <1>4, <2>1
    <3> QED
      BY <1>5, <3>1, <3>2 DEF Entry
  <2>2. CASE i # n - 1
    <3>1. table[n - 1] = sessions[n]
      BY <1>4, <1>5, <2>2
    <3>2. table'[i] = [sessions[n] EXCEPT !.userId = sessions[n].userId]
      BY <1>1, <1>2, <1>4, <1>6, <3>1
    <3> QED
      BY <1>5, <3>2 DEF Entry
  <2> QED
    BY <2>1, <2>2
<1>8. ~Adding(fd) /\ \A e : Hit(fd, e) <=> e.socket_fd = fd
  BY <1>1 DEF Typed, Engaged, EngagedAt, RemovePcs, Adding, Hit
<1>9. PICK r : r = Result(fd)
  OBVIOUS
<1>10. /\ r \in Seq(SM!UserSession) /\ Len(r) = n - 1
       /\ \A j \in 1..n - 1 : r[j] = IF j = i + 1 THEN sessions[n] ELSE sessions[j]
  <2>1. PICK k : k = i + 1
    OBVIOUS
  <2>2. k - 1 = i
    BY <1>5, <2>1
  <2>3. PICK s \in Seq(SM!UserSession) : s = sessions
    BY DEF Alone
  <2>4. /\ k \in 1..Len(s) /\ s[k].socket_fd = fd
        /\ \A j \in 1..k - 1 : s[j].socket_fd # fd
    BY <1>3, <1>4, <1>8, <2>1, <2>2, <2>3 DEF FoundAt, Passed
  <2>5. r = SM!RemoveBySocket(s, fd)
    BY <1>8, <1>9, <2>3 DEF Result
  <2>6. /\ r \in Seq(SM!UserSession) /\ Len(r) = Len(s) - 1
        /\ \A j \in 1..Len(s) - 1 : r[j] = IF j = k THEN s[Len(s)] ELSE s[j]
    BY <2>4, <2>5, RemoveFacts
  <2> QED
    BY <1>3, <2>1, <2>3, <2>6
<1>11. \A j \in 1..n - 1 : table'[j - 1] = r[j]
  <2> SUFFICES ASSUME NEW j \in 1..n - 1
               PROVE  table'[j - 1] = r[j]
    OBVIOUS
  <2>1. CASE j = i + 1
    BY <1>5, <1>7, <1>10, <2>1
  <2>2. CASE j # i + 1
    <3>1. j - 1 \in Places /\ j - 1 # i /\ j \in 1..n
      BY <1>4, <1>5, <2>2, PlaceFacts
    <3>2. table'[j - 1] = table[j - 1]
      BY <1>1, <1>2, <3>1 DEF OthersKept
    <3> QED
      BY <1>4, <1>10, <2>2, <3>1, <3>2
  <2> QED
    BY <2>1, <2>2
<1>12. Result(fd)' = r
  BY <1>1, <1>9, SearchKept DEF OneCall
<1>13. Touched(fd, -1)'
  <2>1. Rows(Result(fd))'
    BY <1>10, <1>11, <1>12 DEF Rows
  <2>2. Done(fd)'
    BY <1>4, <1>10, <1>12, <2>1, TableAssumption DEF Done
  <2> QED
    BY <1>1, <1>4, <1>10, <1>12, <2>2 DEF Touched
<1>14. Half(fd)'
  BY <1>1, <1>13 DEF Half, AddPcs
<1> QED
  BY <1>1, <1>14 DEF Alone

\* The last entry is cleared: it is no longer one of the sessions.
LEMMA ClearAlone ==
    ASSUME Typed, NEW fd \in Sockets, Alone(fd), Clear(fd), handler' = handler,
           sessions' = sessions
    PROVE  Alone(fd)'
<1>1. /\ call[fd].pc = "clear" /\ OneCall(fd) /\ call'[fd].pc = "decrement" /\ count' = count
      /\ \/ count - 1 \in Places /\ outside' = outside /\ OthersKept(count - 1)
         \/ count - 1 \notin Places
  BY ClearFields DEF Typed
<1>2. PICK r \in Seq(SM!UserSession) : r = Result(fd)
  BY <1>1 DEF Alone, Half, Touched, Done
<1>3. PICK n \in Nat : n = Len(r)
  BY <1>2
<1>4. /\ Touched(fd, -1) /\ n <= MaxSessions /\ count - 1 = n /\ count <= MaxSessions
      /\ \A j \in 1..n : table[j - 1] = r[j]
  <2>1. Touched(fd, -1) /\ count \in 0..MaxSessions
    BY <1>1 DEF Alone, Half
  <2> QED
    BY <1>2, <1>3, <2>1, TableAssumption DEF Touched, Done, Rows
<1>5. n \in Places
  BY <1>3, <1>4, PlaceFacts DEF Alone
<1>6. outside' = outside /\ OthersKept(n)
  BY <1>1, <1>4, <1>5
<1>7. ASSUME NEW j \in 1..n
      PROVE  table'[j - 1] = r[j]
  <2>1. j - 1 \in Places /\ j - 1 # n
    BY <1>4, <1>5, PlaceFacts
  <2> QED
    BY <1>4, <1>6, <2>1 DEF OthersKept
<1>8. Result(fd)' = r
  BY <1>1, <1>2, SearchKept DEF OneCall
<1>9. Touched(fd, -1)'
  <2>1. Rows(Result(fd))'
    BY <1>3, <1>7, <1>8 DEF Rows
  <2>2. Done(fd)'
    BY <1>3, <1>4, <1>8, <2>1 DEF Done
  <2> QED
    BY <1>1, <1>3, <1>4, <1>8, <2>2 DEF Touched
<1>10. Half(fd)'
  BY <1>1, <1>9 DEF Half, AddPcs
<1> QED
  BY <1>1, <1>6, <1>10 DEF Alone

\* Every step of a call that is alone.
LEMMA StepAlone ==
    ASSUME Typed, NEW fd \in Sockets, Alone(fd), InCall(fd)
    PROVE  Alone(fd)'
<1>1. handler' = handler /\ sessions' = sessions /\ TableStep(fd)
  BY DEF InCall, handlerVars
<1> QED
  BY <1>1, MatchAlone, FindAlone, UpdateAlone, RenameAlone, AddUserAlone, AddNameAlone, CountAlone,
     MoveAlone, MovingAlone, ClearAlone DEF TableStep

-----------------------------------------------------------------------------
(***************************************************************************)
(* The calls of the session manager, one at a time                         *)
(***************************************************************************)

\* A step that leaves the table and the calls alone, and the handlers in them.
Quiet == /\ UNCHANGED <<table, count, call, most, sessions>>
         /\ outside' => outside \/ count > MaxSessions
         /\ \A g \in Calling : handler'[g].pc = handler[g].pc

\* What a call has done so far is what it was.
LEMMA HalfKept ==
    ASSUME NEW fd \in Sockets, UNCHANGED <<table, count, call, sessions>>,
           handler'[fd].pc = handler[fd].pc, Half(fd)
    PROVE  Half(fd)'
<1>1. /\ Result(fd)' = Result(fd)
      /\ \A k : (Passed(fd, k)' <=> Passed(fd, k)) /\ (FoundAt(fd, k)' <=> FoundAt(fd, k))
      /\ Done(fd)' <=> Done(fd)
  BY SearchKept
<1>2. PICK i : i = call[fd].i
  OBVIOUS
<1>3. /\ Passed(fd, i)' <=> Passed(fd, i)
      /\ FoundAt(fd, i + 1)' <=> FoundAt(fd, i + 1)
  BY <1>1
<1>4. PICK n : n = Len(sessions)
  OBVIOUS
<1>5. Passed(fd, n)' <=> Passed(fd, n)
  BY <1>1
<1>6. Untouched' <=> Untouched
  BY DEF Untouched, Rows
<1>7. \A k : Touched(fd, k)' <=> Touched(fd, k)
  BY <1>1 DEF Touched
<1>8. Touched(fd, 1)' <=> Touched(fd, 1)
  BY <1>7
<1>9. Touched(fd, -1)' <=> Touched(fd, -1)
  BY <1>7
<1>10. Touched(fd, 0)' <=> Touched(fd, 0)
  BY <1>7
<1>11. PICK found, moved : /\ found = [sessions[i + 1] EXCEPT !.socket_fd = fd]
                           /\ moved = [sessions[i + 1] EXCEPT !.userId = sessions[n].userId]
  OBVIOUS
<1>12. /\ ButFor(i, found)' <=> ButFor(i, found)
       /\ ButFor(i, moved)' <=> ButFor(i, moved)
  BY DEF ButFor
<1>13. /\ call[fd] = call'[fd] /\ sessions' = sessions /\ table' = table /\ count' = count
  OBVIOUS
<1> QED
  BY <1>1, <1>2, <1>3, <1>4, <1>5, <1>6, <1>8, <1>9, <1>10, <1>11, <1>12, <1>13 DEF Half

\* A quiet step.
LEMMA QuietKeeps ==
    ASSUME Quiet, OneAtATime
    PROVE  OneAtATime'
<1>1. SUFFICES ASSUME most' <= 1
               PROVE  OneAtATime'
  BY DEF OneAtATime
<1>2. /\ ~outside /\ count \in 0..MaxSessions
      /\ sessions \in Seq(SM!UserSession) /\ Len(sessions) <= MaxSessions
      /\ \A f, g \in Calling : f = g
      /\ Calling = {} => Untouched
      /\ \A fd \in Calling : Half(fd)
  BY <1>1 DEF OneAtATime, Quiet
<1>3. Calling' = Calling /\ Calling \subseteq Sockets
  BY DEF Quiet, Calling
<1>4. ~outside'
  <2>1. ~(count > MaxSessions)
    BY <1>2, TableAssumption
  <2> QED
    BY <1>2, <2>1 DEF Quiet
<1>5. \A fd \in Calling : Half(fd)'
  BY <1>2, <1>3, HalfKept DEF Quiet
<1>6. Untouched' <=> Untouched
  BY DEF Untouched, Rows, Quiet
<1>7. count' = count /\ sessions' = sessions
  BY DEF Quiet
<1>8. SM!UserSession' = SM!UserSession
  BY DEF SM!UserSession
<1> QED
  BY <1>2, <1>3, <1>4, <1>5, <1>6, <1>7, <1>8 DEF OneAtATime

\* The only call there is makes a step.
LEMMA StepKeeps ==
    ASSUME Typed, OneAtATime, NEW fd \in Sockets, InCall(fd)
    PROVE  OneAtATime'
<1>1. /\ OneCall(fd) /\ most' = most /\ Onward(call[fd], call'[fd])
  BY StepTyped DEF Typed, InCall
<1>2. SUFFICES ASSUME most <= 1
               PROVE  OneAtATime'
  BY <1>1 DEF OneAtATime
<1>3. fd \in Calling /\ Calling' = Calling
  <2>1. call[fd].pc # "none" /\ call'[fd].pc # "none"
    BY <1>1 DEF Onward
  <2> QED
    BY <1>1, <2>1 DEF Calling, OneCall
<1>4. /\ Alone(fd) /\ \A g \in Calling : g = fd
  BY <1>2, <1>3 DEF OneAtATime, Alone
<1>5. Alone(fd)'
  BY <1>4, StepAlone
<1>6. /\ ~outside' /\ (count \in 0..MaxSessions)'
      /\ (sessions \in Seq(SM!UserSession) /\ Len(sessions) <= MaxSessions)'
      /\ Half(fd)'
  BY <1>5 DEF Alone
<1>7. /\ \A f, g \in Calling' : f = g
      /\ Calling' # {} /\ \A g \in Calling' : Half(g)'
  BY <1>3, <1>4, <1>6
<1> QED
  BY <1>6, <1>7 DEF OneAtATime

\* A call begins, and is the only one.
LEMMA BeginsAlone ==
    ASSUME Typed, Counted, OneAtATime, NEW fd \in Sockets,
           call[fd].pc = "none", call'[fd].pc # "none",
           \A g \in Sockets \ {fd} : call'[g] = call[g],
           UNCHANGED <<table, count, outside, sessions>>,
           most' = AtOnce(Cardinality(Calling) + 1), most' <= 1
    PROVE  /\ Untouched
           /\ ~outside /\ count \in 0..MaxSessions
           /\ sessions \in Seq(SM!UserSession) /\ Len(sessions) <= MaxSessions
           /\ Half(fd)' => OneAtATime'
<1>1. /\ IsFiniteSet(Calling) /\ Cardinality(Calling) \in Nat
      /\ Cardinality(Sockets) \in Nat
      /\ Calling' = Calling \cup {fd}
  BY CallingFacts
<1>2. most \in Int /\ Cardinality(Calling) <= most
  BY <1>1 DEF Counted
<1>3. Cardinality(Calling) = 0 /\ most <= 1
  BY <1>1, <1>2 DEF AtOnce
<1>4. PICK C : C = Calling
  OBVIOUS
<1>5. Calling = {}
  <2>1. IsFiniteSet(C) /\ Cardinality(C) = 0
    BY <1>1, <1>3, <1>4
  <2>2. C = {}
    BY <2>1, FS_EmptySet
  <2> QED
    BY <1>4, <2>2
<1>6. Calling' = {fd}
  BY <1>1, <1>5
<1>7. /\ Untouched /\ ~outside /\ count \in 0..MaxSessions
      /\ sessions \in Seq(SM!UserSession) /\ Len(sessions) <= MaxSessions
  BY <1>3, <1>5 DEF OneAtATime
<1>8. SM!UserSession' = SM!UserSession
  BY DEF SM!UserSession
<1>9. /\ ~outside' /\ (count \in 0..MaxSessions)'
      /\ (sessions \in Seq(SM!UserSession) /\ Len(sessions) <= MaxSessions)'
  BY <1>7, <1>8
<1>10. Half(fd)' => OneAtATime'
  BY <1>6, <1>9 DEF OneAtATime
<1> QED
  BY <1>7, <1>10

\* SessionManager_add begins.
LEMMA BeginAddKeeps ==
    ASSUME Typed, Counted, OneAtATime, NEW fd \in Sockets, NEW u \in Users, BeginAdd(fd, u),
           handler'[fd].pc = "call", sessions' = sessions
    PROVE  OneAtATime'
<1>1. /\ call[fd].pc = "none" /\ call'[fd].user = u /\ call'[fd].i = 0
      /\ call'[fd].pc = IF count >= MaxSessions THEN "return" ELSE "match"
      /\ \A g \in Sockets \ {fd} : call'[g] = call[g]
      /\ UNCHANGED <<table, count, outside>>
      /\ most' = AtOnce(Cardinality(Calling) + 1)
  BY BeginAddFields DEF Typed
<1>2. SUFFICES ASSUME most' <= 1
               PROVE  OneAtATime'
  BY DEF OneAtATime
<1>3. /\ Untouched /\ count \in 0..MaxSessions
      /\ sessions \in Seq(SM!UserSession) /\ Len(sessions) <= MaxSessions
      /\ Half(fd)' => OneAtATime'
  BY <1>1, <1>2, BeginsAlone
<1>4. Adding(fd)'
  BY DEF Adding
<1>5. Rows(sessions) /\ count = Len(sessions) /\ Len(sessions) \in Nat /\ MaxSessions \in Nat
  BY <1>3, TableAssumption DEF Untouched
<1>6. CASE count >= MaxSessions
  <2>1. call'[fd].pc = "return"
    BY <1>1, <1>6
  <2>2. Result(fd)' = sessions
    <3>1. SM!Add(sessions, u, fd) = sessions
      BY <1>3, <1>5, <1>6, AddFacts
    <3> QED
      BY <1>1, <1>4, <3>1 DEF Result
  <2>3. Rows(Result(fd))'
    BY <1>1, <1>5, <2>2 DEF Rows
  <2>4. SM!UserSession' = SM!UserSession
    BY DEF SM!UserSession
  <2>5. Touched(fd, 0)'
    BY <1>1, <1>3, <1>5, <2>2, <2>3, <2>4 DEF Touched, Done
  <2>6. Half(fd)'
    BY <2>1, <2>5 DEF Half, AddPcs
  <2> QED
    BY <1>3, <2>6
<1>7. CASE ~(count >= MaxSessions)
  <2>1. call'[fd].pc = "match" /\ Len(sessions) < MaxSessions
    BY <1>1, <1>5, <1>7
  <2>2. Untouched'
    BY <1>1, <1>5 DEF Untouched, Rows
  <2>3. PICK k : k = 0
    OBVIOUS
  <2>4. Passed(fd, k)'
    BY <1>5, <2>3 DEF Passed
  <2>5. Half(fd)'
    BY <1>1, <2>1, <2>2, <2>3, <2>4 DEF Half, AddPcs
  <2> QED
    BY <1>3, <2>5
<1> QED
  BY <1>6, <1>7

\* SessionManager_remove_by_socket begins.
LEMMA BeginRemoveKeeps ==
    ASSUME Typed, Counted, OneAtATime, NEW fd \in Sockets, BeginRemove(fd), sessions' = sessions
    PROVE  OneAtATime'
<1>1. /\ call[fd].pc = "none" /\ call'[fd].i = 0 /\ call'[fd].pc = "find"
      /\ \A g \in Sockets \ {fd} : call'[g] = call[g]
      /\ UNCHANGED <<table, count, outside>>
      /\ most' = AtOnce(Cardinality(Calling) + 1)
  BY BeginRemoveFields DEF Typed
<1>2. SUFFICES ASSUME most' <= 1
               PROVE  OneAtATime'
  BY DEF OneAtATime
<1>3. /\ Untouched /\ sessions \in Seq(SM!UserSession)
      /\ Half(fd)' => OneAtATime'
  BY <1>1, <1>2, BeginsAlone
<1>4. Untouched' /\ Len(sessions) \in Nat
  BY <1>1, <1>3 DEF Untouched, Rows
<1>5. PICK k : k = 0
  OBVIOUS
<1>6. Passed(fd, k)'
  BY <1>4, <1>5 DEF Passed
<1>7. Half(fd)'
  BY <1>1, <1>4, <1>5, <1>6 DEF Half, AddPcs
<1> QED
  BY <1>3, <1>7

\* A call returns: what it has made of the table is the result of the operation.
LEMMA ReturnKeeps ==
    ASSUME Typed, OneAtATime, NEW fd \in Sockets, Returned(fd)
    PROVE  /\ OneAtATime'
           /\ most <= 1 => sessions' = Result(fd)
           /\ most' = most
<1>1. /\ call[fd].pc = "return" /\ call'[fd] = NoCall
      /\ \A g \in Sockets \ {fd} : call'[g] = call[g]
      /\ UNCHANGED <<table, count, most, outside>>
  BY ReturnFields DEF Typed, Returned
<1>2. SUFFICES ASSUME most <= 1
               PROVE  OneAtATime' /\ sessions' = Result(fd)
  BY <1>1 DEF OneAtATime
<1>3. Calling = {fd} /\ Calling' = {}
  <2>1. fd \in Calling /\ \A f, g \in Calling : f = g
    BY <1>1, <1>2 DEF OneAtATime, Calling
  <2>2. \A g \in Sockets : call'[g].pc = "none"
    BY <1>1, <2>1 DEF Calling, NoCall
  <2> QED
    BY <2>1, <2>2 DEF Calling
<1>4. /\ ~outside /\ count \in 0..MaxSessions /\ Touched(fd, 0)
  BY <1>1, <1>2, <1>3 DEF OneAtATime, Half
<1>5. PICK r : r = Result(fd)
  OBVIOUS
<1>6. /\ r \in Seq(SM!UserSession) /\ Len(r) <= MaxSessions /\ count = Len(r)
      /\ \A j \in 1..Len(r) : table[j - 1] = r[j]
  BY <1>4, <1>5 DEF Touched, Done, Rows
<1>7. Contents = r
  <2>1. {n \in 1..MaxSessions : n <= count} = 1..Len(r)
    BY <1>6, TableAssumption
  <2>2. Contents = [j \in 1..Len(r) |-> table[j - 1]]
    BY <2>1 DEF Contents
  <2>3. r = [j \in 1..Len(r) |-> r[j]]
    BY <1>6
  <2> QED
    BY <1>6, <2>2, <2>3
<1>8. sessions' = r
  BY <1>3, <1>7 DEF Returned
<1>9. Untouched'
  BY <1>1, <1>6, <1>8 DEF Untouched, Rows
<1>10. SM!UserSession' = SM!UserSession
  BY DEF SM!UserSession
<1>11. OneAtATime'
  BY <1>1, <1>3, <1>4, <1>6, <1>8, <1>9, <1>10 DEF OneAtATime
<1> QED
  BY <1>5, <1>8, <1>11

\* The steps of a parse, of a service that has no call, and of a reply are quiet.
LEMMA QuietSteps ==
    ASSUME Typed, Parsed, NEW fd \in Sockets,
           \/ \E m \in Messages : Receive(fd, m)
           \/ LookUp(fd) \/ LoadPosition(fd) \/ TakeField(fd) \/ Refuse(fd) \/ Reply(fd)
           \/ Serve(fd) /\ UNCHANGED tableVars
    PROVE  Quiet /\ conn' = conn /\ acked' = acked
<1> DEFINE Steady == UNCHANGED <<table, count, call, most, sessions, conn, acked>>
           Apart == \A h \in Sockets \ {fd} : handler'[h].pc = handler[h].pc
<1>1. handler[fd].pc \notin {"call", "leaving"} => fd \notin Calling
  BY DEF Typed, Engaged, EngagedAt, Calling
<1>2. ASSUME Steady, outside' => outside \/ count > MaxSessions, Apart,
             handler[fd].pc \notin {"call", "leaving"}
      PROVE  Quiet /\ conn' = conn /\ acked' = acked
  <2>1. Calling \subseteq Sockets \ {fd}
    BY <1>1, <1>2 DEF Calling
  <2>2. \A g \in Calling : handler'[g].pc = handler[g].pc
    BY <1>2, <2>1
  <2> QED
    BY <1>2, <2>2 DEF Quiet
<1>3. ASSUME NEW m \in Messages, Receive(fd, m)
      PROVE  Quiet /\ conn' = conn /\ acked' = acked
  <2>1. Steady /\ outside' = outside
    BY <1>3 DEF Receive, tableVars
  <2>2. Apart /\ handler[fd].pc = "idle"
    BY <1>3, ReceiveFields DEF SameParse, SameRequest
  <2> QED
    BY <1>2, <2>1, <2>2
<1>4. CASE LookUp(fd)
  <2>1. Steady
    BY <1>4 DEF LookUp
  <2>2. outside' => count > MaxSessions
    BY <1>4 DEF LookUp
  <2>3. Apart /\ handler[fd].pc = "session"
    BY <1>4, LookUpFields DEF OthersStay
  <2> QED
    BY <1>2, <2>1, <2>2, <2>3
<1>5. CASE LoadPosition(fd)
  <2>1. Steady /\ outside' = outside
    BY <1>5 DEF LoadPosition, tableVars
  <2>2. Apart /\ handler[fd].pc = "load"
    BY <1>5, LoadFields DEF SameParse, SameRequest
  <2> QED
    BY <1>2, <2>1, <2>2
<1>6. CASE TakeField(fd)
  <2>1. Steady /\ outside' = outside
    BY <1>6 DEF TakeField, tableVars
  <2>2. Apart /\ handler[fd].pc = "take"
    BY <1>6, TakeFields DEF SameParse, SameRequest
  <2> QED
    BY <1>2, <2>1, <2>2
<1>7. CASE Refuse(fd)
  <2>1. Steady /\ outside' = outside
    BY <1>7 DEF Refuse, tableVars
  <2>2. Apart /\ handler[fd].pc = "serve"
    BY <1>7, RefuseFields DEF OthersStay
  <2> QED
    BY <1>2, <2>1, <2>2
<1>8. CASE Reply(fd)
  <2>1. Steady /\ outside' = outside
    BY <1>8 DEF Reply, tableVars
  <2>2. Apart /\ handler[fd].pc = "reply"
    BY <1>8, ReplyFields DEF SameRequest
  <2> QED
    BY <1>2, <2>1, <2>2
<1>9. CASE Serve(fd) /\ UNCHANGED tableVars
  <2>1. Steady /\ outside' = outside
    BY <1>9 DEF Serve, tableVars
  <2>2. Apart /\ handler[fd].pc = "serve"
    BY <1>9, ServeFields DEF OthersStay
  <2> QED
    BY <1>2, <2>1, <2>2
<1> QED
  BY <1>3, <1>4, <1>5, <1>6, <1>7, <1>8, <1>9

\* A call that returns is one operation of SessionManager.
LEMMA ReturnIsOne ==
    ASSUME Typed, OneAtATime, NEW fd \in Sockets
    PROVE  /\ LoggedIn(fd) /\ most <= 1 => \E u \in Users : SM!Login(u, fd)
           /\ Disconnected(fd) /\ most <= 1 => SM!Disconnect(fd)
<1>1. EngagedAt(fd)
  BY DEF Typed, Engaged
<1>2. ASSUME LoggedIn(fd), most <= 1
      PROVE  \E u \in Users : SM!Login(u, fd)
  <2>1. handler[fd].pc = "call" /\ Returned(fd) /\ conn' = conn
    BY <1>2 DEF LoggedIn
  <2>2. PICK u \in Users : u = call[fd].user /\ u = handler[fd].used[1] /\ conn[fd] = "open"
    BY <1>1, <2>1 DEF EngagedAt
  <2>3. acked' = [acked EXCEPT ![fd] = u]
    BY <1>2, <2>2 DEF LoggedIn
  <2>4. sessions' = SM!Add(sessions, u, fd)
    BY <1>2, <2>1, <2>2, ReturnKeeps DEF Result, Adding
  <2> QED
    BY <2>1, <2>2, <2>3, <2>4 DEF SM!Login
<1>3. ASSUME Disconnected(fd), most <= 1
      PROVE  SM!Disconnect(fd)
  <2>1. handler[fd].pc = "leaving" /\ Returned(fd)
    BY <1>3 DEF Disconnected
  <2>2. conn[fd] = "open" /\ ~Adding(fd)
    BY <1>1, <2>1 DEF EngagedAt, Adding
  <2>3. sessions' = SM!RemoveBySocket(sessions, fd)
    BY <1>3, <2>1, <2>2, ReturnKeeps DEF Result
  <2> QED
    BY <1>3, <2>2, <2>3 DEF SM!Disconnect, Disconnected
<1> QED
  BY <1>2, <1>3

\* Any step, as long as the calls come one at a time: the table is kept, and the
\* step is one of SessionManager or none.
LEMMA NextOneAtATime ==
    ASSUME PInv, OneAtATime, Next
    PROVE  OneAtATime' /\ (most' <= 1 => SM!Next \/ UNCHANGED SM!vars)
<1>1. PICK fd \in Sockets :
         \/ Accept(fd) \/ ClientGone(fd) \/ Disconnected(fd) \/ Close(fd)
         \/ \E m \in Messages : Receive(fd, m)
         \/ LookUp(fd) \/ LoadPosition(fd) \/ TakeField(fd)
         \/ Refuse(fd) \/ Serve(fd) \/ LoggedIn(fd) \/ Reply(fd)
         \/ InCall(fd)
  BY DEF Next
<1>2. Typed /\ Parsed /\ Counted
  BY DEF PInv
<1>3. CASE Accept(fd) \/ Close(fd)
  <2>1. Quiet
    BY <1>3 DEF Accept, Close, Quiet, tableVars
  <2>2. SM!Accept(fd) \/ SM!Close(fd)
    BY <1>3 DEF Accept, Close, SM!Accept, SM!Close
  <2> QED
    BY <2>1, <2>2, QuietKeeps DEF SM!Next
<1>4. CASE \/ \E m \in Messages : Receive(fd, m)
           \/ LookUp(fd) \/ LoadPosition(fd) \/ TakeField(fd) \/ Refuse(fd) \/ Reply(fd)
           \/ Serve(fd) /\ UNCHANGED tableVars
  <2>1. Quiet /\ conn' = conn /\ acked' = acked
    BY <1>2, <1>4, QuietSteps
  <2>2. UNCHANGED SM!vars
    BY <2>1 DEF Quiet, SM!vars
  <2> QED
    BY <2>1, <2>2, QuietKeeps
<1>5. CASE Serve(fd) /\ ~UNCHANGED tableVars
  <2>1. PICK u \in Users : BeginAdd(fd, u) /\ handler'[fd].pc = "call"
    BY <1>2, <1>5, ServeFields
  <2>2. sessions' = sessions /\ conn' = conn /\ acked' = acked
    BY <1>5 DEF Serve
  <2> QED
    BY <1>2, <2>1, <2>2, BeginAddKeeps DEF SM!vars
<1>6. CASE ClientGone(fd)
  <2>1. BeginRemove(fd) /\ sessions' = sessions /\ conn' = conn /\ acked' = acked
    BY <1>6 DEF ClientGone
  <2> QED
    BY <1>2, <2>1, BeginRemoveKeeps DEF SM!vars
<1>7. CASE LoggedIn(fd) \/ Disconnected(fd)
  <2>1. Returned(fd)
    BY <1>7 DEF LoggedIn, Disconnected
  <2>2. OneAtATime' /\ most' = most
    BY <1>2, <2>1, ReturnKeeps
  <2>3. most <= 1 => SM!Next
    BY <1>2, <1>7, ReturnIsOne DEF SM!Next
  <2> QED
    BY <2>2, <2>3
<1>8. CASE InCall(fd)
  <2>1. UNCHANGED SM!vars
    BY <1>8 DEF InCall, handlerVars, SM!vars
  <2> QED
    BY <1>2, <1>8, <2>1, StepKeeps
<1> QED
  BY <1>1, <1>3, <1>4, <1>5, <1>6, <1>7, <1>8

\* The inductive invariant.
IInv == PInv /\ OneAtATime

\* It holds at the start, ...
LEMMA InitIInv == Init => IInv /\ SM!Init
<1> SUFFICES ASSUME Init
             PROVE  IInv /\ SM!Init
  OBVIOUS
<1>1. PInv
  BY InitPInv
<1>2. /\ sessions = <<>> /\ count = 0 /\ call = [fd \in Sockets |-> NoCall]
      /\ outside = FALSE
  BY DEF Init, TableInit
<1>3. <<>> \in Seq(SM!UserSession) /\ Len(<<>>) = 0
  OBVIOUS
<1>4. Calling = {}
  BY <1>2 DEF Calling, NoCall
<1>5. Untouched
  BY <1>2 DEF Untouched, Rows
<1>6. OneAtATime
  BY <1>2, <1>3, <1>4, <1>5, TableAssumption DEF OneAtATime
<1>7. SM!Init
  BY DEF Init, SM!Init
<1> QED
  BY <1>1, <1>6, <1>7 DEF IInv

\* ... and every step keeps it.
LEMMA StepIInv ==
    ASSUME IInv, [Next]_vars
    PROVE  IInv' /\ (Next /\ most' <= 1 => SM!Next \/ UNCHANGED SM!vars)
<1>1. CASE Next
  <2>1. PInv'
    BY <1>1, NextTyped, NextParsed, NextCounted, NextSent DEF IInv, PInv
  <2> QED
    BY <1>1, <2>1, NextOneAtATime DEF IInv
<1>2. CASE UNCHANGED vars /\ ~Next
  <2>1. PInv'
    BY <1>2 DEF vars, tableVars, handlerVars, IInv, PInv, Typed, HandlersTyped, CallsTyped, InRange,
       Engaged, EngagedAt, Parsed, PointersAt, ProgressAt, OwnAt, ServedAt, Points, Busy, Size,
       Parsing, Stands, Counted, Calling, SentByClients
  <2>2. Quiet
    BY <1>2 DEF vars, tableVars, handlerVars, Quiet
  <2> QED
    BY <1>2, <2>1, <2>2, QuietKeeps DEF IInv
<1> QED
  BY <1>1, <1>2

\* The invariant, in any execution.
THEOREM Inductive == Spec => []IInv
<1>1. Init => IInv
  BY InitIInv
<1>2. IInv /\ [Next]_vars => IInv'
  BY StepIInv
<1> QED
  BY <1>1, <1>2, PTL DEF Spec

\* The array of the sessions is left only after two calls of the session manager
\* were in progress at once: one call alone stays inside, whatever was stored.
THEOREM OneCallStaysInside == Spec => []OutsideNeedsOverlap
<1>1. IInv => OutsideNeedsOverlap
  <2>1. SUFFICES ASSUME IInv, outside
                 PROVE  most > 1
    BY DEF OutsideNeedsOverlap
  <2>2. most \in Int
    BY <2>1, TableAssumption, FS_CardinalityType DEF IInv, PInv, Counted
  <2>3. ~(most <= 1)
    BY <2>1 DEF IInv, OneAtATime
  <2> QED
    BY <2>2, <2>3
<1> QED
  BY <1>1, Inductive, PTL

\* As long as no two calls were in progress at once, the unlocked loads and stores
\* amount to the operations of SessionManager, and nothing else changes the table.
THEOREM SessionsOneAtATime == Spec => ImplementsSessions
<1>1. Init => SM!Init
  BY InitIInv
<1>2. IInv /\ [Next]_vars => [most' <= 1 => SM!Next \/ UNCHANGED SM!vars]_vars
  BY StepIInv
<1> QED
  BY <1>1, <1>2, Inductive, PTL DEF Spec, ImplementsSessions

=============================================================================
