--------------------------- MODULE ChatScreenProofs ---------------------------
(***************************************************************************)
(* The two lists of the chat screen, for every size of the arrays and      *)
(* every number of users, rooms, requests and messages.                    *)
(*                                                                         *)
(* That the arrays are overrun by one entry at most follows from the types *)
(* of the threads.  That the messages belong to the open chat needs the    *)
(* path of every answer (Exchange), that each is there once also their     *)
(* numbers (Once), and that nobody is missing from the contacts the pushes *)
(* on their way, those being written and those not yet sent (Gathered).    *)
(***************************************************************************)
EXTENDS ChatScreen, FiniteSetTheorems, SequenceTheorems, WellFoundedInduction, TLAPS

-----------------------------------------------------------------------------
(***************************************************************************)
(* Types                                                                   *)
(***************************************************************************)
HistoryKinds == {"history", "group_history"}
SendKinds == {"send_dm", "send_group"}
Kinds == {"contacts", "groups", "search", "create", "join", "user_info"}
         \cup HistoryKinds \cup SendKinds

Everyone == Users \cup {Me}

\* An entry of the list that was never written counts as user 0.
Ids == Everyone \cup {0}
Recipients == {c \in [id : Nat, room : BOOLEAN] : c.room \/ c.id \in Ids}
Messages == [n : Nat, from : Everyone, to : Recipients]
Pushed == {m \in Messages : IF m.to.room THEN m.from \in Users ELSE m.to.id = m.from}

Requests == {r \in [kind : Kinds, arg : Nat, message : Messages \cup {NoMessage}] :
                /\ r.kind = "search" => r.arg \in Everyone
                /\ r.kind = "join" => r.arg \in Groups
                /\ r.kind \in SendKinds => r.message \in Messages
                /\ ToMe(r) => r.message \in Pushed}

Data == Seq(Ids) \cup Seq(Messages) \cup (SUBSET Groups) \cup Nat
Replies == {a \in [what : {"answer"}, kind : Kinds \cup {"rest"}, ok : BOOLEAN, data : Data,
                    part : BOOLEAN] :
               /\ a.kind \in HistoryKinds => a.ok /\ a.data \in Seq(Messages)
               /\ a.ok => /\ a.kind = "contacts" => a.data \in Seq(Ids)
                          /\ a.kind = "groups" => a.data \subseteq Groups
                          /\ a.kind = "search" => a.data \in Everyone
                          /\ a.kind = "create" => a.data \in Groups}
Pushes == [what : {"push"}, message : Pushed]
Lines == Replies \cup Pushes

UIPcs == {"start", "groups", "idle", "wait", "fill", "load", "put", "count_loaded",
          "names", "count_own", "count_contact", "show"}
ListenerPcs == {"recv", "write", "load_contacts", "store_contacts", "check", "put",
                "load_list", "store_list"}

ListsTyped ==
    /\ contacts \in [slot : [1..MaxContacts + 1 -> Ids], count : Nat]
    /\ list \in [slot : [1..MaxShown + 1 -> Messages \cup {NoMessage}], count : Nat]
    /\ rooms \subseteq Groups
    /\ found \in Everyone \cup {NoId}
    /\ chat \in [id : Nat \cup {NoId}, room : BOOLEAN]
    /\ chat.room \/ chat.id \in Ids \cup {NoId}

UIType == [pc : UIPcs, kind : Kinds \cup {"none"}, arg : Nat,
           message : Messages \cup {NoMessage}, todo : Seq(Ids) \cup Seq(Messages)]

\* A history is being loaded.
Replaying == ui.pc \in {"load", "put", "count_loaded"}

UITyped ==
    /\ ui \in UIType
    /\ ui.pc = "wait" => ui.kind \notin {"none", "user_info"}
    /\ ui.pc = "wait" /\ ui.kind = "search" => ui.arg \in Everyone
    /\ ui.pc = "wait" /\ ui.kind = "join" => ui.arg \in Groups
    /\ ui.pc = "fill" => ui.todo \in Seq(Ids)
    /\ Replaying => ui.todo \in Seq(Messages)
    /\ ui.pc = "put" => ui.todo # <<>>
    /\ ui.pc \in {"count_contact", "show"} => found # NoId

ListenerTyped ==
    /\ listener \in [pc : ListenerPcs, message : Messages \cup {NoMessage}, place : Nat,
                     seen : Nat]
    /\ listener.pc # "recv" => listener.message \in Pushed
    /\ answer \in Replies \cup {NoAnswer}

ThreadsTyped == UITyped /\ ListenerTyped

ServerTyped ==
    /\ requests \in Seq(Requests)
    /\ wire \in Seq(Lines)
    /\ serving \in {a \in Replies : a.kind \in HistoryKinds \cup {"send_dm"}} \cup {NoAnswer}
    /\ store \in Seq(Messages)
    /\ pending \subseteq Pushed
    /\ joined \subseteq Groups

HistoryTyped ==
    /\ actions \in Nat /\ loaded \in BOOLEAN /\ late \in BOOLEAN
    /\ raced \in BOOLEAN /\ mixed \in BOOLEAN
    /\ handled \subseteq Nat /\ straddled \subseteq Nat

\* The chat that a request is about is the open one.
ChatKnown ==
    /\ ui.pc = "wait" /\ ui.kind = "history" => chat = DM(ui.arg)
    /\ ui.pc = "wait" /\ ui.kind = "group_history" => chat = Room(ui.arg)
    /\ (ui.pc = "wait" /\ ui.kind \in SendKinds) \/ ui.pc = "count_own" =>
          ui.message \in Messages /\ ui.message.to = chat

-----------------------------------------------------------------------------
(***************************************************************************)
(* The counts                                                              *)
(***************************************************************************)
Beginning == \/ ui.pc \in {"start", "fill", "groups"}
             \/ ui.pc = "wait" /\ ui.kind \in {"contacts", "groups"}

\* The appends of the UI thread that are tested and not counted.
UIContact == IF ui.pc = "count_contact" THEN 1 ELSE 0
UIMessage == IF ui.pc \in {"count_own", "put", "count_loaded"} THEN 1 ELSE 0

ContactsBound ==
    /\ contacts.count + UIContact <= MaxContacts + 1
    /\ listener.pc \in {"write", "load_contacts"} => contacts.count + UIContact <= MaxContacts
    /\ listener.pc = "store_contacts" =>
          /\ listener.seen + UIContact <= MaxContacts
          /\ found # NoId \/ (ui.pc = "wait" /\ ui.kind = "search" /\ answer # NoAnswer) =>
                listener.seen <= contacts.count
    /\ ui.pc = "fill" => ui.arg <= MaxContacts
    /\ Beginning => found = NoId

\* A history that the UI thread asked for is in the slot.
HistoryFound == ui.pc = "wait" /\ ui.kind \in HistoryKinds /\ answer # NoAnswer

ListBound ==
    /\ list.count + UIMessage <= MaxShown + 1
    /\ listener.pc \in {"put", "load_list"} =>
          /\ list.count + UIMessage <= MaxShown
          /\ HistoryFound => list.count < MaxShown
    /\ listener.pc = "store_list" =>
          /\ listener.seen + UIMessage <= MaxShown
          /\ ui.pc = "wait" /\ ui.kind \in SendKinds /\ answer # NoAnswer =>
                listener.seen <= list.count
          /\ HistoryFound => listener.seen < MaxShown
          /\ ui.pc = "load" /\ ui.todo # <<>> =>
                listener.seen < MaxShown \/ listener.seen <= list.count

Typed == /\ ListsTyped /\ ThreadsTyped /\ ServerTyped /\ HistoryTyped
         /\ ChatKnown /\ ContactsBound /\ ListBound

-----------------------------------------------------------------------------
(***************************************************************************)
(* The exchange of the UI thread with the server                           *)
(***************************************************************************)
\* The elements of the sequence s that are in M, and where they are.
At(s, M) == {i \in DOMAIN s : s[i] \in M}
Of(s, M) == {s[i] : i \in At(s, M)}
Alone(s, M) == \A i, j \in At(s, M) : i = j
Apart(s, M) == \A i, j \in At(s, M) : s[i] = s[j] => i = j

\* Those of the UI thread: names are asked for by the listener only.
OurRequests == {r \in Requests : r.kind # "user_info"}
OurReplies == {a \in Replies : a.kind \notin {"user_info", "rest"}}

Asked == Of(requests, OurRequests)
InWire == Of(wire, OurReplies)
InServing == {serving} \ {NoAnswer}
InSlot == IF ui.pc = "wait" THEN {answer} \cap OurReplies ELSE {}
Flight == InWire \cup InServing \cup InSlot

Exchange ==
    /\ Alone(requests, OurRequests) /\ Alone(wire, OurReplies)
    /\ Asked \subseteq {[kind |-> ui.kind, arg |-> ui.arg, message |-> ui.message]}
    /\ Asked # {} \/ Flight # {} => ui.pc = "wait"
    /\ Asked # {} => Flight = {}
    /\ InWire # {} => InServing = {} /\ InSlot = {}
    /\ InServing # {} => InSlot = {}
    /\ \A a \in Flight : a.kind = ui.kind

-----------------------------------------------------------------------------
(***************************************************************************)
(* The messages of the open chat                                           *)
(***************************************************************************)
OpeningWait == ui.pc = "wait" /\ ui.kind \in HistoryKinds
EntriesOf(s) == {s[i] : i \in DOMAIN s}

HistoryRight ==
    \A a \in Flight : a.kind \in HistoryKinds =>
       a.ok /\ \A m \in EntriesOf(a.data) : m.to = chat

\* The list, while one thread changes it at a time.
RowsRight ==
    /\ \A j \in 1..list.count : list.slot[j] # NoMessage /\ list.slot[j].to = chat
    /\ ui.pc = "count_own" => list.count < MaxShown /\ list.slot[list.count + 1] = ui.message
    /\ ui.pc \in {"put", "count_loaded"} => list.count < MaxShown
    /\ ui.pc = "count_loaded" => /\ list.slot[list.count + 1] # NoMessage
                                 /\ list.slot[list.count + 1].to = chat
    /\ ListenerChangesList =>
          /\ listener.message.to = chat /\ list.count < MaxShown
          /\ listener.pc = "put" => listener.place = list.count + 1
          /\ listener.pc # "put" => list.slot[list.count + 1] = listener.message
          /\ listener.pc = "store_list" => listener.seen = list.count
          /\ ~UIChangesList

ListRight ==
    /\ Replaying => \A m \in EntriesOf(ui.todo) : m.to = chat
    /\ ~mixed /\ ~OpeningWait => RowsRight

-----------------------------------------------------------------------------
(***************************************************************************)
(* The contacts                                                            *)
(***************************************************************************)
Full == contacts.count >= MaxContacts
Distinct(s) == \A i, j \in DOMAIN s : s[i] = s[j] => i = j

\* Nobody is called 0 any more.
NoGap ==
    /\ chat.room \/ chat.id \in Everyone \cup {NoId}
    /\ \A m \in EntriesOf(store) : m.to.room \/ m.to.id \in Everyone
    /\ \A r \in EntriesOf(requests) : r.kind \in SendKinds =>
          r.message.to.room \/ r.message.to.id \in Everyone

\* The list has no gap and nobody twice.
PlacesRight ==
    /\ contacts.count <= MaxContacts
    /\ \A j \in 1..contacts.count : contacts.slot[j] \in Everyone
    /\ \A j, k \in 1..contacts.count : contacts.slot[j] = contacts.slot[k] => j = k

\* The contact that the listener is about to count.
FromListener ==
    ListenerAdds =>
       /\ ~UIAdds
       /\ listener.message.from \notin Listed /\ contacts.count < MaxContacts
       /\ listener.pc # "write" => contacts.slot[contacts.count + 1] = listener.message.from
       /\ listener.pc = "store_contacts" => listener.seen = contacts.count

\* Those that the UI thread is about to count.
FromUser ==
    /\ Loading => contacts.count = 0 /\ ~late
    /\ ui.pc = "count_contact" =>
          /\ found \notin Listed /\ contacts.count < MaxContacts
          /\ contacts.slot[contacts.count + 1] = found
    /\ ui.pc = "fill" => /\ ui.todo \in Seq(Everyone) /\ Distinct(ui.todo)
                         /\ ui.arg <= Len(ui.todo)
                         /\ \A j \in 1..ui.arg : contacts.slot[j] = ui.todo[j]

\* Those that the server tells of.
FromServer ==
    Loading => \A a \in Flight : a.kind = "contacts" =>
       a.ok /\ a.data \in Seq(Everyone) /\ Distinct(a.data)

ContactsRight == PlacesRight /\ FromListener /\ FromUser /\ FromServer

\* Whose direct messages were handled.
Wrote == {m.to.id : m \in {e \in EntriesOf(store) : e.n \in handled /\ ~e.to.room}}

Everybody ==
    /\ ~Loading => Full \/ Wrote \subseteq Listed
    /\ ~Loading /\ listener.pc \in {"check", "put", "load_list", "store_list"}
          /\ ~listener.message.to.room => Full \/ listener.message.to.id \in Listed
    /\ Loading /\ listener.pc # "recv" => listener.message.to.room
    /\ Loading => chat.id = NoId
    /\ ~chat.room /\ chat.id # NoId => Full \/ chat.id \in Listed
    /\ ui.pc = "show" => Full \/ found \in Listed
    /\ ui.pc = "fill" => Wrote \subseteq EntriesOf(ui.todo)
    /\ \A a \in Flight : a.kind = "contacts" => Wrote \subseteq EntriesOf(a.data)

-----------------------------------------------------------------------------
(***************************************************************************)
(* Each message once                                                       *)
(***************************************************************************)
Numbers(s) == {s[i].n : i \in DOMAIN s}
Sending == ui.pc = "wait" /\ ui.kind \in SendKinds
PushedOn == {m \in Pushed : Push(m) \in Of(wire, Pushes)}
InHand == IF listener.pc = "recv" THEN {} ELSE {listener.message}

\* What is saved has numbers of its own: those of the others are below the bound, those
\* of the user are above it.
StoreNumbered ==
    /\ \A i \in DOMAIN store : /\ store[i].n <= MaxSent + actions
                               /\ store[i].n <= i \/ store[i].n > MaxSent
    /\ \A i, j \in DOMAIN store : store[i].n = store[j].n => i = j
    /\ handled \subseteq Numbers(store)

\* The message that the user is sending, and the one that the list is getting.
SendNumbered ==
    /\ Sending => /\ ui.message.n = MaxSent + actions /\ ui.message.n > MaxSent
                  /\ Asked # {} => ui.message.n \notin Numbers(store)
                  /\ Asked = {} => ui.message \in EntriesOf(store)
    /\ ui.pc = "count_own" => ui.message \in EntriesOf(store)
    /\ Sending \/ ui.pc = "count_own" => ui.message.from = Me
    /\ Sending \/ ui.pc = "count_own" =>
          ui.message.n \notin handled \/ ui.message.to = DM(Me)

\* The messages that are pushed: each once, none handled yet, but for what the user
\* has sent to himself.
PushNumbered ==
    /\ pending \cup PushedOn \cup InHand \subseteq EntriesOf(store)
    /\ \A m \in pending \cup PushedOn \cup InHand : m.n \notin handled \/ m.to = DM(Me)
    /\ Apart(wire, Pushes)
    /\ pending \cap (PushedOn \cup InHand) = {} /\ PushedOn \cap InHand = {}

Numbered == StoreNumbered /\ SendNumbered /\ PushNumbered

\* The history s of the open chat, or what is left of it to load.
Loads(s) ==
    /\ Distinct(s)
    /\ EntriesOf(s) \subseteq EntriesOf(store)
    /\ \A m \in EntriesOf(s) : m.n \in handled \cup straddled

\* What the screen should show.
Due == {m \in EntriesOf(store) : m.to = chat /\ m.n \in handled \ straddled}

\* What the history still has for the screen.
Left == EntriesOf(ui.todo) \cup
        (IF ui.pc = "count_loaded" THEN {list.slot[list.count + 1]} ELSE {})

OnceRows ==
    /\ \A j, k \in 1..list.count :
          list.slot[j] = list.slot[k] /\ list.slot[j].n \notin straddled => j = k
    /\ \A m \in Shown : m.n \in handled \cup straddled

OnceDue ==
    /\ loaded /\ ~Replaying => list.count >= MaxShown \/ Due \subseteq Shown
    /\ loaded /\ Replaying => Due \subseteq Shown \cup Left
    /\ Replaying => Shown \cap Left = {}
    /\ ui.pc = "count_loaded" =>
          /\ list.slot[list.count + 1].n \in handled \cup straddled
          /\ list.slot[list.count + 1] \notin EntriesOf(ui.todo)

Once ==
    /\ Opening => UnderWay \subseteq straddled
    /\ \A a \in Flight : a.kind \in HistoryKinds =>
          Loads(a.data) /\ (~a.part => Due \subseteq EntriesOf(a.data))
    /\ Replaying => Loads(ui.todo)
    /\ ~mixed /\ ~OpeningWait /\ chat # DM(Me) => OnceRows /\ OnceDue

-----------------------------------------------------------------------------
(***************************************************************************)
(* Lemmas about the operators                                              *)
(***************************************************************************)

\* Induction over the natural numbers, for a set of them.
LEMMA InductionSet ==
    ASSUME NEW S, 0 \in S, \A n \in Nat : n \in S => n + 1 \in S
    PROVE  Nat \subseteq S
<1> DEFINE T == Nat \ S
<1> SUFFICES ASSUME T # {} PROVE FALSE
  OBVIOUS
<1>1. \E x \in T : \A y \in T : ~ (<<y, x>> \in OpToRel(<, Nat))
  BY NatLessThanWellFounded, WFMin
<1>2. PICK x \in T : \A y \in T : ~ (<<y, x>> \in OpToRel(<, Nat))
  BY <1>1
<1>3. \A y \in T : ~(y < x)
  BY <1>2 DEF OpToRel
<1>4. x \in Nat /\ x \notin S /\ x # 0
  BY <1>2
<1>5. x - 1 \in Nat /\ x - 1 < x /\ (x - 1) + 1 = x
  BY <1>4
<1>6. x - 1 \in S
  BY <1>3, <1>5
<1>7. (x - 1) + 1 \in S
  BY <1>5, <1>6
<1> QED
  BY <1>4, <1>5, <1>7

\* An element at the end.
LEMMA AppendFacts ==
    ASSUME NEW S, NEW s \in Seq(S), NEW e \in S
    PROVE  /\ Append(s, e) \in Seq(S) /\ Len(Append(s, e)) = Len(s) + 1
           /\ DOMAIN Append(s, e) = DOMAIN s \cup {Len(s) + 1}
           /\ Append(s, e)[Len(s) + 1] = e
           /\ \A i \in DOMAIN s : Append(s, e)[i] = s[i] /\ i # Len(s) + 1
           /\ EntriesOf(Append(s, e)) = EntriesOf(s) \cup {e}
<1>1. /\ Append(s, e) \in Seq(S) /\ Len(Append(s, e)) = Len(s) + 1
      /\ DOMAIN Append(s, e) = DOMAIN s \cup {Len(s) + 1}
      /\ Append(s, e)[Len(s) + 1] = e
      /\ \A i \in DOMAIN s : Append(s, e)[i] = s[i] /\ i # Len(s) + 1
  OBVIOUS
<1> DEFINE a == Append(s, e)
<1>2. PICK m : m = Len(s) + 1
  OBVIOUS
<1> HIDE DEF a
<1>3. EntriesOf(a) = EntriesOf(s) \cup {e}
  BY <1>1, <1>2 DEF EntriesOf, a
<1> QED
  BY <1>1, <1>3 DEF a

\* The first element and the others.
LEMMA TailFacts ==
    ASSUME NEW S, NEW s \in Seq(S), s # <<>>
    PROVE  /\ Head(s) \in S /\ Head(s) = s[1] /\ 1 \in DOMAIN s
           /\ Tail(s) \in Seq(S) /\ Len(Tail(s)) = Len(s) - 1
           /\ \A i \in DOMAIN Tail(s) : i + 1 \in DOMAIN s /\ i + 1 # 1 /\ Tail(s)[i] = s[i + 1]
           /\ EntriesOf(s) = EntriesOf(Tail(s)) \cup {Head(s)}
<1>1. /\ Head(s) \in S /\ Head(s) = s[1] /\ 1 \in DOMAIN s
      /\ Tail(s) \in Seq(S) /\ Len(Tail(s)) = Len(s) - 1
      /\ DOMAIN Tail(s) = 1..Len(s) - 1 /\ DOMAIN s = 1..Len(s) /\ Len(s) \in Nat
      /\ \A i \in 1..Len(s) - 1 : Tail(s)[i] = s[i + 1]
  OBVIOUS
<1> DEFINE t == Tail(s)
           h == Head(s)
<1> HIDE DEF t, h
<1>2. \A i \in DOMAIN t : i + 1 \in DOMAIN s /\ i + 1 # 1 /\ t[i] = s[i + 1]
  BY <1>1 DEF t
<1>3. \A i \in DOMAIN s : i = 1 \/ (i - 1 \in DOMAIN t /\ s[i] = t[i - 1])
  BY <1>1 DEF t
<1>4. EntriesOf(s) = EntriesOf(t) \cup {h}
  BY <1>1, <1>2, <1>3 DEF EntriesOf, h
<1> QED
  BY <1>1, <1>2, <1>4 DEF t, h

\* The history of a chat has all its messages, and no others, each once.
LEMMA HistoryFacts ==
    ASSUME NEW S, store \in Seq(S), NEW c
    PROVE  /\ History(c) \in Seq(S)
           /\ EntriesOf(History(c)) = {m \in EntriesOf(store) : m.to = c}
           /\ Distinct(store) => Distinct(History(c))
<1> DEFINE Value(g, i) == IF i = 0 THEN <<>>
                          ELSE IF store[i].to = c THEN Append(g[i - 1], store[i])
                          ELSE g[i - 1]
           Upto(g, n) == g = [i \in 0..n |-> Value(g, i)]
           N == {n \in Nat : \E g : Upto(g, n)}
<1>1. 0 \in N
  <2>1. Upto([i \in 0..0 |-> <<>>], 0)
    OBVIOUS
  <2> QED
    BY <2>1
<1>2. ASSUME NEW n \in Nat, n \in N PROVE n + 1 \in N
  <2>1. PICK g : Upto(g, n)
    BY <1>2
  <2> DEFINE h == [i \in 0..n + 1 |-> IF i = n + 1 THEN Value(g, n + 1) ELSE g[i]]
  <2>2. ASSUME NEW i \in 0..n + 1 PROVE h[i] = Value(h, i)
    <3>1. CASE i = n + 1
      <4>1. h[i] = Value(g, i) /\ i # 0 /\ h[i - 1] = g[i - 1]
        BY <3>1
      <4> HIDE DEF h
      <4> QED
        BY <4>1
    <3>2. CASE i = 0
      BY <2>1, <3>2
    <3>3. CASE i \in 1..n
      <4>1. h[i] = g[i] /\ i # 0 /\ h[i - 1] = g[i - 1] /\ i \in 0..n
        BY <3>3
      <4>2. g[i] = Value(g, i)
        <5> HIDE DEF Value
        <5> QED
          BY <2>1, <4>1
      <4> HIDE DEF h
      <4> QED
        BY <4>1, <4>2
    <3> QED
      BY <3>1, <3>2, <3>3
  <2>3. h = [i \in 0..n + 1 |-> h[i]]
    OBVIOUS
  <2>4. Upto(h, n + 1)
    <3> HIDE DEF h, Value
    <3> QED
      BY <2>2, <2>3
  <2> HIDE DEF h, Upto
  <2> QED
    BY <2>4
<1>3. Nat \subseteq N
  <2> HIDE DEF N
  <2> QED
    BY <1>1, <1>2, InductionSet
<1>4. PICK g : Upto(g, Len(store)) /\ History(c) = g[Len(store)]
  <2>1. \E g : Upto(g, Len(store))
    <3>1. Len(store) \in Nat
      OBVIOUS
    <3> HIDE DEF Upto
    <3> QED
      BY <1>3, <3>1
  <2> DEFINE F == CHOOSE g : Upto(g, Len(store))
  <2>2. Upto(F, Len(store))
    <3> HIDE DEF Upto
    <3> QED
      BY <2>1
  <2>3. History(c) = F[Len(store)]
    BY DEF History
  <2> QED
    BY <2>2, <2>3
<1>5. \A i \in 0..Len(store) : g[i] = Value(g, i)
  <2> HIDE DEF Value
  <2> QED
    BY <1>4
<1> DEFINE First(n) == {store[j] : j \in {k \in 1..n : store[k].to = c}}
           M == {n \in Nat : n <= Len(store) =>
                   /\ g[n] \in Seq(S)
                   /\ EntriesOf(g[n]) = First(n)
                   /\ Distinct(store) => Distinct(g[n])}
<1>6. 0 \in M
  <2>1. g[0] = <<>>
    <3>1. 0 \in 0..Len(store)
      OBVIOUS
    <3> QED
      BY <1>5, <3>1
  <2>2. g[0] \in Seq(S) /\ EntriesOf(g[0]) = {} /\ Distinct(g[0])
    BY <2>1 DEF EntriesOf, Distinct
  <2>3. First(0) = {}
    OBVIOUS
  <2> QED
    BY <2>2, <2>3
<1>7. ASSUME NEW n \in Nat, n \in M PROVE n + 1 \in M
  <2> SUFFICES ASSUME n + 1 <= Len(store)
               PROVE  /\ g[n + 1] \in Seq(S)
                      /\ EntriesOf(g[n + 1]) = First(n + 1)
                      /\ Distinct(store) => Distinct(g[n + 1])
    OBVIOUS
  <2>1. /\ g[n] \in Seq(S) /\ EntriesOf(g[n]) = First(n)
        /\ Distinct(store) => Distinct(g[n])
    BY <1>7
  <2>2. g[n + 1] = IF store[n + 1].to = c THEN Append(g[n], store[n + 1]) ELSE g[n]
    BY <1>5
  <2>3. \A i : i \in 1..n + 1 <=> (i \in 1..n \/ i = n + 1)
    OBVIOUS
  <2>4. CASE store[n + 1].to # c
    <3>1. First(n + 1) = First(n)
      BY <2>3, <2>4
    <3> QED
      BY <2>1, <2>2, <2>4, <3>1
  <2>5. CASE store[n + 1].to = c
    <3>1. First(n + 1) = First(n) \cup {store[n + 1]}
      BY <2>3, <2>5
    <3>2. store[n + 1] \in S
      OBVIOUS
    <3>3. PICK e \in S : e = store[n + 1]
      BY <3>2
    <3>4. PICK a : a = Append(g[n], e)
      OBVIOUS
    <3>5. g[n + 1] = a
      BY <2>2, <2>5, <3>3, <3>4
    <3>6. /\ a \in Seq(S) /\ EntriesOf(a) = EntriesOf(g[n]) \cup {e}
          /\ DOMAIN a = DOMAIN g[n] \cup {Len(g[n]) + 1}
          /\ a[Len(g[n]) + 1] = e
          /\ \A i \in DOMAIN g[n] : a[i] = g[n][i]
      BY <2>1, <3>4, AppendFacts
    <3>7. ASSUME Distinct(store) PROVE Distinct(a)
      <4>1. e \notin First(n)
        <5>1. \A j \in 1..n : j \in DOMAIN store /\ n + 1 \in DOMAIN store /\ j # n + 1
          OBVIOUS
        <5> QED
          BY <3>3, <3>7, <5>1 DEF Distinct
      <4>2. e \notin EntriesOf(g[n]) /\ Distinct(g[n])
        BY <2>1, <3>7, <4>1
      <4> HIDE DEF First, Value, Upto
      <4> QED
        BY <3>6, <4>2 DEF Distinct, EntriesOf
    <3> HIDE DEF First
    <3> QED
      BY <2>1, <3>1, <3>3, <3>5, <3>6, <3>7
  <2> QED
    BY <2>4, <2>5
<1>8. Len(store) \in M
  <2> HIDE DEF M
  <2>1. Nat \subseteq M
    BY <1>6, <1>7, InductionSet
  <2>2. Len(store) \in Nat
    OBVIOUS
  <2> QED
    BY <2>1, <2>2
<1>9. First(Len(store)) = {m \in EntriesOf(store) : m.to = c}
  BY DEF EntriesOf
<1>10. /\ g[Len(store)] \in Seq(S)
       /\ EntriesOf(g[Len(store)]) = First(Len(store))
       /\ Distinct(store) => Distinct(g[Len(store)])
  BY <1>8
<1> HIDE DEF First, Upto
<1> QED
  BY <1>4, <1>9, <1>10

\* A finite set as a sequence: all its elements, each once.
LEMMA SetToSeqFacts ==
    ASSUME NEW S, IsFiniteSet(S)
    PROVE  /\ SetToSeq(S) \in Seq(S)
           /\ EntriesOf(SetToSeq(S)) = S
           /\ Distinct(SetToSeq(S))
<1> DEFINE n == Cardinality(S)
<1>1. n \in Nat /\ ExistsBijection(1..n, S)
  BY FS_CardinalityType
<1>2. PICK b : b \in Bijection(1..n, S)
  BY <1>1 DEF ExistsBijection
<1>3. b \in [1..n -> S] /\ IsInjective(b)
  BY <1>2 DEF Bijection, Injection, IsInjective
<1>4. PICK f : f = SetToSeq(S)
  OBVIOUS
<1>5. f \in [1..n -> S] /\ IsInjective(f)
  BY <1>3, <1>4 DEF SetToSeq
<1>6. f \in Injection(1..n, S)
  BY <1>5 DEF Injection, IsInjective
<1>7. IsFiniteSet(1..n) /\ Cardinality(1..n) = n
  BY <1>1, FS_Interval
<1>8. f \in Surjection(1..n, S)
  BY <1>6, <1>7, FS_Injection
<1>9. EntriesOf(f) = S
  BY <1>5, <1>8 DEF EntriesOf, Surjection
<1>10. f \in Seq(S) /\ Distinct(f)
  BY <1>1, <1>5 DEF Distinct, IsInjective
<1> QED
  BY <1>4, <1>9, <1>10

\* There are finitely many who wrote.
LEMMA PeersFacts ==
    ASSUME store \in Seq(Messages)
    PROVE  /\ IsFiniteSet(Peers)
           /\ Peers = {m.to.id : m \in {e \in EntriesOf(store) : ~e.to.room}}
           /\ Peers \subseteq Ids
<1>1. Peers = {m.to.id : m \in {e \in EntriesOf(store) : ~e.to.room}}
  BY DEF Peers, EntriesOf
<1>2. IsFiniteSet(DOMAIN store)
  <2>1. PICK n \in Nat : DOMAIN store = 1..n
    <3>1. Len(store) \in Nat /\ DOMAIN store = 1..Len(store)
      OBVIOUS
    <3> QED
      BY <3>1
  <2> QED
    BY <2>1, FS_Interval
<1>3. PICK D : D = {i \in DOMAIN store : ~store[i].to.room}
  OBVIOUS
<1>4. IsFiniteSet(D)
  BY <1>2, <1>3, FS_Subset
<1>5. PICK f : f = [i \in D |-> store[i].to.id]
  OBVIOUS
<1>6. Peers = {f[i] : i \in D}
  BY <1>1, <1>3, <1>5 DEF EntriesOf
<1>7. f \in Surjection(D, Peers)
  BY <1>5, <1>6 DEF Surjection
<1>8. IsFiniteSet(Peers)
  BY <1>4, <1>7, FS_Surjection
<1>9. \A m \in EntriesOf(store) : m \in Messages
  BY DEF EntriesOf
<1>10. Peers \subseteq Ids
  BY <1>1, <1>9 DEF Messages, Recipients
<1> QED
  BY <1>1, <1>8, <1>10

-----------------------------------------------------------------------------
(***************************************************************************)
(* The steps, in terms of the fields they change                           *)
(***************************************************************************)

\* A place of an array is written.
LEMMA SlotFacts ==
    ASSUME NEW N \in Nat, NEW V, NEW l \in [slot : [1..N -> V], count : Nat],
           NEW k, NEW v \in V
    PROVE  /\ [l EXCEPT !.slot[k] = v] \in [slot : [1..N -> V], count : Nat]
           /\ [l EXCEPT !.slot[k] = v].count = l.count
           /\ \A j \in 1..N : [l EXCEPT !.slot[k] = v].slot[j] = IF j = k THEN v ELSE l.slot[j]
OBVIOUS

\* A thread without a request.
LEMMA QuietFacts ==
    /\ Quiet.pc = "idle" /\ Quiet.kind = "none" /\ Quiet.arg = 0
    /\ Quiet.message = NoMessage /\ Quiet.todo = <<>>
    /\ \A pc : /\ [Quiet EXCEPT !.pc = pc].pc = pc
               /\ [Quiet EXCEPT !.pc = pc].kind = "none" /\ [Quiet EXCEPT !.pc = pc].arg = 0
               /\ [Quiet EXCEPT !.pc = pc].message = NoMessage
               /\ [Quiet EXCEPT !.pc = pc].todo = <<>>
BY DEF Quiet

\* A request is made.
LEMMA AskFacts ==
    ASSUME NEW kind, NEW arg, NEW m, Ask(kind, arg, m)
    PROVE  /\ ui'.pc = "wait" /\ ui'.kind = kind /\ ui'.arg = arg /\ ui'.message = m
           /\ ui'.todo = <<>> /\ answer' = NoAnswer
           /\ requests' = Append(requests, [kind |-> kind, arg |-> arg, message |-> m])
           /\ UNCHANGED <<wire, serving, store, pending, joined>>
BY DEF Ask, Quiet

\* Every record is a record of its type.
LEMMA ConstantsTyped ==
    /\ NoId \notin Everyone /\ NoId \notin Nat /\ 0 \notin Everyone
    /\ Me \in Nat /\ Me \in Everyone /\ Users \subseteq Everyone
    /\ Everyone \subseteq Nat /\ Groups \subseteq Nat /\ Ids \subseteq Nat
    /\ NoMessage \notin Messages /\ NoMessage.n = 0
    /\ NoAnswer \notin Replies /\ NoAnswer.kind = "none"
    /\ \A m \in Messages : m.from # 0
BY ChatScreenAssumption
   DEF NoId, NoMessage, Message, Messages, NoAnswer, Answer, Replies, Kinds, HistoryKinds,
       SendKinds, Ids, Everyone

\* It is a state of the UI thread.
LEMMA QuietTyped ==
    ASSUME NEW pc \in UIPcs
    PROVE  [Quiet EXCEPT !.pc = pc] \in UIType
<1>1. <<>> \in Seq(Ids)
  OBVIOUS
<1> QED
  BY <1>1 DEF UIType, Quiet

\* How a request ends: with the answer in the slot, if it is of the right kind and
\* tells of success, or without.
Good(ok, data) ==
    /\ ok \in BOOLEAN
    /\ ok => /\ answer \in Replies /\ answer.kind = ui.kind /\ answer.ok
             /\ data = answer.data
    /\ ~ok => answer = NoAnswer \/ answer.kind # ui.kind \/ ~answer.ok
    /\ ui.pc = "wait"
    /\ After(ok, data)

\* A wait of the UI thread ends with an answer of its kind, or with none.
LEMMA Outcome ==
    ASSUME ThreadsTyped, TakeAnswer \/ TimeOut
    PROVE  \E ok, data : Good(ok, data)
<1>1. CASE TakeAnswer
  <2>1. PICK ok, data : ok = (answer.kind = ui.kind /\ answer.ok) /\ data = answer.data
    OBVIOUS
  <2>2. After(ok, data) /\ ui.pc = "wait" /\ answer \in Replies
    BY <1>1, <2>1 DEF TakeAnswer, ThreadsTyped, UITyped, ListenerTyped
  <2>3. ok \in BOOLEAN
    BY <2>1, <2>2 DEF Replies
  <2>4. ok => answer \in Replies /\ answer.kind = ui.kind /\ answer.ok /\ data = answer.data
    BY <2>1, <2>2
  <2>5. ~ok => answer.kind # ui.kind \/ ~answer.ok
    BY <2>1
  <2>6. Good(ok, data)
    BY <2>2, <2>3, <2>4, <2>5 DEF Good
  <2> QED
    BY <2>6
<1>2. CASE TimeOut
  <2>1. After(FALSE, 0) /\ ui.pc = "wait" /\ answer = NoAnswer
    BY <1>2 DEF TimeOut
  <2>2. Good(FALSE, 0)
    BY <2>1 DEF Good
  <2> QED
    BY <2>1, <2>2
<1> QED
  BY <1>1, <1>2

-----------------------------------------------------------------------------
(***************************************************************************)
(* Types: each part of the state                                           *)
(***************************************************************************)

\* What the steps of the UI thread with an answer do to the lists.
LEMMA AfterListsTyped ==
    ASSUME ListsTyped, ThreadsTyped, NEW ok, NEW data, Good(ok, data)
    PROVE  ListsTyped'
<1>1. /\ chat' = chat
      /\ answer \in Replies \/ ~ok
      /\ ok => answer.kind = ui.kind /\ answer.ok /\ data = answer.data
  BY DEF Good, After
<1>2. UNCHANGED chat
  BY DEF Good, After
<1>3. ok /\ ui.kind = "groups" => data \subseteq Groups
  BY DEF Good, Replies
<1>4. ok /\ ui.kind = "search" => data \in Everyone
  BY DEF Good, Replies
<1>5. ok /\ ui.kind = "create" => data \in Groups
  BY DEF Good, Replies
<1>6. ui.kind = "join" => ui.arg \in Groups
  BY DEF Good, ThreadsTyped, UITyped, ListenerTyped
<1>7. ui.kind \in SendKinds => ui.message \in Messages \cup {NoMessage}
  BY DEF ThreadsTyped, UITyped, UIType
<1>8. CASE AfterContacts(ok, data)
  BY <1>2, <1>8 DEF AfterContacts, ListsTyped
<1>9. CASE AfterGroups(ok, data)
  BY <1>2, <1>3, <1>9 DEF AfterGroups, ListsTyped
<1>10. CASE AfterHistory(ok, data)
  <2>1. list' \in [slot : [1..MaxShown + 1 -> Messages \cup {NoMessage}], count : Nat]
    BY <1>10 DEF AfterHistory, ListsTyped
  <2> QED
    BY <1>2, <1>10, <2>1 DEF AfterHistory, ListsTyped
<1>11. CASE AfterSend(ok, data)
  <2>1. list' \in [slot : [1..MaxShown + 1 -> Messages \cup {NoMessage}], count : Nat]
    <3>1. list \in [slot : [1..MaxShown + 1 -> Messages \cup {NoMessage}], count : Nat]
      BY DEF ListsTyped
    <3>2. list' = list \/ list' = [list EXCEPT !.slot[list.count + 1] = ui.message]
      BY <1>11 DEF AfterSend
    <3>3. ui.message \in Messages \cup {NoMessage} /\ MaxShown + 1 \in Nat
      BY ChatScreenAssumption DEF ThreadsTyped, UITyped, UIType
    <3> HIDE DEF Messages, NoMessage
    <3> QED
      BY <3>1, <3>2, <3>3, SlotFacts
  <2> QED
    BY <1>2, <1>11, <2>1 DEF AfterSend, ListsTyped
<1>12. CASE AfterSearch(ok, data)
  BY <1>2, <1>4, <1>12 DEF AfterSearch, ListsTyped
<1>13. CASE AfterRoom(ok, data)
  BY <1>2, <1>5, <1>6, <1>13 DEF AfterRoom, ListsTyped
<1> QED
  BY <1>8, <1>9, <1>10, <1>11, <1>12, <1>13 DEF Good, After

\* The lists, the rooms and the open chat.
LEMMA NextListsTyped ==
    ASSUME Typed, Next
    PROVE  ListsTyped'
<1> DEFINE C == [slot : [1..MaxContacts + 1 -> Ids], count : Nat]
           L == [slot : [1..MaxShown + 1 -> Messages \cup {NoMessage}], count : Nat]
<1>1. /\ ListsTyped /\ ThreadsTyped /\ contacts \in C /\ list \in L
      /\ MaxContacts + 1 \in Nat /\ MaxShown + 1 \in Nat
  BY ChatScreenAssumption DEF Typed, ListsTyped
<1>2. ASSUME NEW k, NEW v \in Ids
      PROVE  [contacts EXCEPT !.slot[k] = v] \in C
  <2> HIDE DEF Ids
  <2> QED
    BY <1>1, SlotFacts
<1>3. ASSUME NEW n \in Nat
      PROVE  [contacts EXCEPT !.count = n] \in C /\ [list EXCEPT !.count = n] \in L
  BY <1>1
<1>4. ASSUME NEW k, NEW m \in Messages \cup {NoMessage}
      PROVE  [list EXCEPT !.slot[k] = m] \in L
  <2> HIDE DEF Messages, NoMessage
  <2> QED
    BY <1>1, SlotFacts
<1>5. ASSUME contacts' \in C, list' \in L, UNCHANGED <<rooms, found, chat>>
      PROVE  ListsTyped'
  BY <1>1, <1>5 DEF ListsTyped
<1>6. ASSUME NEW c \in [id : Nat, room : BOOLEAN], c.room \/ c.id \in Ids, Open(c)
      PROVE  ListsTyped'
  BY <1>1, <1>6 DEF ListsTyped, Open
<1>7. CASE OpenRoom
  <2>1. PICK g \in rooms : Open(Room(g))
    BY <1>7 DEF OpenRoom
  <2>2. g \in Nat
    BY <1>1, ConstantsTyped DEF ListsTyped
  <2> QED
    BY <1>6, <2>1, <2>2 DEF Room
<1>8. CASE OpenContact
  <2>1. PICK u \in Listed : Open(DM(u))
    BY <1>8 DEF OpenContact
  <2>2. \A i \in 1..contacts.count : i \in 1..MaxContacts + 1
    BY <1>1, ChatScreenAssumption DEF Typed, ContactsBound, UIContact
  <2>3. PICK i \in 1..contacts.count : u = contacts.slot[i]
    BY <2>1 DEF Listed
  <2>4. u \in Ids
    BY <1>1, <2>2, <2>3
  <2>5. u \in Nat
    BY <2>4, ConstantsTyped
  <2> QED
    BY <1>6, <2>1, <2>4, <2>5 DEF DM
<1>9. CASE TakeAnswer \/ TimeOut
  BY <1>1, <1>9, Outcome, AfterListsTyped
<1>10. CASE FillContact
  <2>1. /\ ui.arg \in Nat /\ ui.todo \in Seq(Ids) /\ UNCHANGED <<list, rooms, found, chat>>
    BY <1>1, <1>10 DEF FillContact, ThreadsTyped, UITyped, UIType
  <2>2. CASE contacts' = [contacts EXCEPT !.count = ui.arg]
    BY <1>1, <1>3, <1>5, <2>1, <2>2
  <2>3. CASE /\ ui.arg + 1 <= Len(ui.todo)
             /\ contacts' = [contacts EXCEPT !.slot[ui.arg + 1] = ui.todo[ui.arg + 1]]
    <3>1. ui.todo[ui.arg + 1] \in Ids
      BY <2>1, <2>3
    <3> QED
      BY <1>1, <1>2, <1>5, <2>1, <2>3, <3>1
  <2> QED
    BY <1>10, <2>2, <2>3 DEF FillContact
<1>11. CASE PutLoaded
  <2>1. /\ ui.todo \in Seq(Messages) /\ ui.todo # <<>>
        /\ UNCHANGED <<contacts, rooms, found, chat>>
    BY <1>1, <1>11 DEF PutLoaded, ThreadsTyped, UITyped, Replaying
  <2>2. Head(ui.todo) \in Messages
    <3> HIDE DEF Messages
    <3> QED
      BY <2>1
  <2> QED
    BY <1>1, <1>4, <1>5, <1>11, <2>1, <2>2 DEF PutLoaded
<1>12. CASE CountOwn \/ CountLoaded \/ CountContact
  <2>1. list.count + 1 \in Nat /\ contacts.count + 1 \in Nat
    BY <1>1
  <2>2. list' \in L /\ contacts' \in C
    BY <1>1, <1>3, <1>12, <2>1 DEF CountOwn, CountLoaded, CountContact
  <2> QED
    BY <1>5, <1>12, <2>2 DEF CountOwn, CountLoaded, CountContact
<1>13. CASE ShowChat
  <2>1. found \in Everyone /\ found \in Nat /\ found \in Ids
    BY <1>1, <1>13, ConstantsTyped DEF ShowChat, ThreadsTyped, UITyped, ListenerTyped, ListsTyped, Ids
  <2>2. list' \in L
    BY <1>3, <1>13 DEF ShowChat
  <2> QED
    BY <1>1, <1>13, <2>1, <2>2 DEF ShowChat, ListsTyped
<1>14. CASE StartChat
  <2>1. found \in Ids
    BY <1>1, <1>14 DEF StartChat, ListsTyped, Ids
  <2>2. contacts' \in C
    BY <1>1, <1>2, <1>14, <2>1 DEF StartChat
  <2> QED
    BY <1>1, <1>5, <1>14, <2>2 DEF StartChat
<1>15. CASE NewChat
  BY <1>1, <1>15 DEF NewChat, ListsTyped
<1>16. CASE WriteContact
  <2>1. listener.message.from \in Ids
    BY <1>1, <1>16 DEF WriteContact, ThreadsTyped, UITyped, ListenerTyped, Pushed, Messages, Ids
  <2>2. contacts' \in C
    BY <1>2, <1>16, <2>1 DEF WriteContact
  <2> QED
    BY <1>1, <1>5, <1>16, <2>2 DEF WriteContact
<1>17. CASE StoreContactCount
  <2>1. listener.seen + 1 \in Nat
    BY <1>1 DEF ThreadsTyped, UITyped, ListenerTyped
  <2> QED
    BY <1>1, <1>3, <1>5, <1>17, <2>1 DEF StoreContactCount
<1>18. CASE PutMessage
  <2>1. list' \in L
    BY <1>1, <1>4, <1>18 DEF PutMessage, ThreadsTyped, UITyped, ListenerTyped
  <2> QED
    BY <1>1, <1>5, <1>18, <2>1 DEF PutMessage
<1>19. CASE StoreListCount
  <2>1. listener.seen + 1 \in Nat
    BY <1>1 DEF ThreadsTyped, UITyped, ListenerTyped
  <2> QED
    BY <1>1, <1>3, <1>5, <1>19, <2>1 DEF StoreListCount
<1>20. CASE UNCHANGED <<contacts, list, rooms, found, chat>>
  BY <1>1, <1>5, <1>20
<1>21. \/ TakeAnswer \/ TimeOut \/ FillContact \/ PutLoaded
       \/ CountOwn \/ CountLoaded \/ CountContact \/ ShowChat \/ OpenRoom \/ OpenContact \/ NewChat \/ StartChat
       \/ WriteContact \/ StoreContactCount \/ PutMessage \/ StoreListCount
       \/ UNCHANGED <<contacts, list, rooms, found, chat>>
  BY DEF Next, UIStep, User, ListenerStep, ServerStep, Start, AskGroups, LoadMessage,
         NamesKnown, Send, Search, CreateRoom, JoinRoom, ReceiveAnswer, ReceivePart,
         ReceivePush, LoadContactCount, CheckChat, LoadListCount, Serve, Reply, PushMessage,
         UserSends
<1> QED
  BY <1>7, <1>8, <1>9, <1>10, <1>11, <1>12, <1>13, <1>14, <1>15, <1>16, <1>17, <1>18, <1>19,
     <1>20, <1>21

\* What a request that ends leaves in the UI thread.
LEMMA AfterUITyped ==
    ASSUME UITyped, NEW ok, NEW data, Good(ok, data)
    PROVE  UITyped'
<1>1. ASSUME NEW pc \in {"idle", "groups"}, ui' = [Quiet EXCEPT !.pc = pc]
      PROVE  UITyped'
  BY <1>1, QuietTyped, QuietFacts DEF UITyped, Replaying, UIPcs
<1>2. Quiet = [Quiet EXCEPT !.pc = "idle"]
  BY DEF Quiet
<1>3. ui \in UIType
  BY DEF UITyped, Replaying
<1>4. CASE AfterContacts(ok, data)
  <2>1. CASE ui' = [Quiet EXCEPT !.pc = "groups"]
    BY <1>1, <2>1
  <2>2. CASE ok /\ ui' = [Quiet EXCEPT !.pc = "fill", !.todo = data]
    <3>1. data \in Seq(Ids)
      BY <1>4, <2>2 DEF Good, Replies, AfterContacts
    <3>2. ui' \in UIType /\ ui'.pc = "fill" /\ ui'.todo = data
      <4> HIDE DEF Ids
      <4> QED
        BY <2>2, <3>1 DEF UIType, UIPcs, Quiet
    <3> QED
      BY <3>1, <3>2 DEF UITyped, Replaying
  <2> QED
    BY <1>4, <2>1, <2>2 DEF AfterContacts
<1>5. CASE AfterGroups(ok, data) \/ AfterSearch(ok, data) \/ AfterRoom(ok, data)
  BY <1>1, <1>2, <1>5 DEF AfterGroups, AfterSearch, AfterRoom, Ends
<1>6. CASE AfterHistory(ok, data)
  <2>1. PICK todo : todo = IF ok THEN data ELSE <<>>
    OBVIOUS
  <2>2. todo \in Seq(Messages)
    <3>1. <<>> \in Seq(Messages)
      OBVIOUS
    <3> QED
      BY <1>6, <2>1, <3>1 DEF Good, Replies, AfterHistory, HistoryKinds
  <2>3. ui' = [ui EXCEPT !.pc = "load", !.todo = todo]
    BY <1>6, <2>1 DEF AfterHistory
  <2>4. ui' \in UIType /\ ui'.pc = "load" /\ ui'.todo = todo
    BY <1>3, <2>2, <2>3 DEF UIType, UIPcs
  <2> QED
    BY <2>2, <2>4 DEF UITyped, Replaying
<1>7. CASE AfterSend(ok, data)
  <2>1. CASE ui' = Quiet
    BY <1>1, <1>2, <2>1
  <2>2. CASE ui' = [ui EXCEPT !.pc = "count_own"]
    <3>1. ui' \in UIType /\ ui'.pc = "count_own"
      BY <1>3, <2>2 DEF UIType, UIPcs
    <3> QED
      BY <3>1 DEF UITyped, Replaying
  <2> QED
    BY <1>7, <2>1, <2>2 DEF AfterSend, Ends
<1> QED
  BY <1>4, <1>5, <1>6, <1>7 DEF Good, After

\* A step that makes a request, and all it changes.
Asking(r) ==
    /\ r \in Requests /\ r.kind # "user_info"
    /\ Ask(r.kind, r.arg, r.message)
    /\ ui.pc = IF r.kind = "contacts" THEN "start" ELSE IF r.kind = "groups" THEN "groups"
               ELSE "idle"
    /\ actions' = IF r.kind \in {"contacts", "groups"} THEN actions ELSE actions + 1
    /\ r.kind = "history" => chat' = DM(r.arg) /\ (~raced => r.arg \in Listed)
    /\ r.kind = "group_history" => chat' = Room(r.arg)
    /\ r.kind \in HistoryKinds => title' = chat' /\ loaded' = FALSE
    /\ r.kind \notin HistoryKinds => UNCHANGED <<chat, title, loaded>>
    /\ r.kind \in SendKinds =>
          r.message = Message(MaxSent + actions', Me, chat) /\ chat.id # NoId
    /\ r.kind = "send_dm" => chat = DM(r.arg)
    /\ r.kind = "send_group" => chat.room
    /\ UNCHANGED <<contacts, rooms, list, found, listener, late, handled>>

\* Every request of the UI thread is one of these.
LEMMA Asks ==
    ASSUME Typed, Start \/ AskGroups \/ User
    PROVE  NewChat \/ StartChat \/ \E r : Asking(r)
<1>1. UITyped /\ ListsTyped
  BY DEF Typed, ThreadsTyped
<1> DEFINE R(kind, arg, m) == [kind |-> kind, arg |-> arg, message |-> m]
<1>2. NoMessage \in Messages \cup {NoMessage} /\ Me \in Nat
  BY ConstantsTyped
<1>3. ASSUME NEW kind \in {"contacts", "groups", "create"},
             (kind = "contacts" /\ Start) \/ (kind = "groups" /\ AskGroups)
                \/ (kind = "create" /\ CreateRoom)
      PROVE  Asking(R(kind, Me, NoMessage))
  <2>1. R(kind, Me, NoMessage) \in Requests
    BY <1>2 DEF Requests, ToMe, Kinds, HistoryKinds, SendKinds
  <2> QED
    BY <1>3, <2>1 DEF Asking, Start, AskGroups, CreateRoom, Click, HistoryKinds, SendKinds
<1>4. ASSUME OpenRoom PROVE \E r : Asking(r)
  <2>1. PICK g \in rooms : Open(Room(g))
    BY <1>4 DEF OpenRoom
  <2>2. g \in Nat
    BY <1>1, <2>1, ConstantsTyped DEF ListsTyped
  <2>3. PICK r : r = R("group_history", g, NoMessage)
    OBVIOUS
  <2>4. r \in Requests
    BY <1>2, <2>2, <2>3 DEF Requests, ToMe, Kinds, HistoryKinds, SendKinds
  <2>5. Asking(r)
    BY <2>1, <2>3, <2>4 DEF Asking, Open, Click, Room, HistoryKinds, SendKinds
  <2> QED
    BY <2>5
<1>5. ASSUME OpenContact PROVE \E r : Asking(r)
  <2>1. PICK u \in Listed : Open(DM(u))
    BY <1>5 DEF OpenContact
  <2>2. PICK i \in 1..contacts.count : u = contacts.slot[i]
    BY <2>1 DEF Listed
  <2>3. i \in 1..MaxContacts + 1
    BY <1>1, ChatScreenAssumption DEF Typed, ListsTyped, ContactsBound, UIContact
  <2>4. u \in Ids
    BY <1>1, <2>2, <2>3 DEF ListsTyped
  <2>5. u \in Nat
    BY <2>4, ConstantsTyped
  <2>6. PICK r : r = R("history", u, NoMessage)
    OBVIOUS
  <2>7. r \in Requests
    BY <1>2, <2>5, <2>6 DEF Requests, ToMe, Kinds, HistoryKinds, SendKinds
  <2>8. Asking(r)
    BY <2>1, <2>6, <2>7 DEF Asking, Open, Click, DM, HistoryKinds, SendKinds
  <2> QED
    BY <2>8
<1>6. ASSUME Send PROVE \E r : Asking(r)
  <2>1. chat \in [id : Nat \cup {NoId}, room : BOOLEAN] /\ chat.id # NoId
        /\ (chat.room \/ chat.id \in Ids \cup {NoId})
    BY <1>1, <1>6 DEF ListsTyped, Send
  <2>2. MaxSent + actions' \in Nat
    BY <1>6, ChatScreenAssumption DEF Send, Click, Typed, HistoryTyped
  <2>3. PICK m : m = Message(MaxSent + actions', Me, chat)
    OBVIOUS
  <2>4. m \in Messages
    BY <2>1, <2>2, <2>3, ConstantsTyped DEF Message, Messages, Recipients
  <2>5. PICK r : r = R(IF chat.room THEN "send_group" ELSE "send_dm", chat.id, m)
    OBVIOUS
  <2>6. r \in Requests
    <3>1. ToMe(r) => m \in Pushed
      BY <2>1, <2>3, <2>4, <2>5 DEF ToMe, Pushed, Message
    <3> QED
      BY <2>1, <2>4, <2>5, <3>1 DEF Requests, ToMe, Kinds, HistoryKinds, SendKinds
  <2>7. Asking(r)
    BY <1>6, <2>1, <2>3, <2>5, <2>6
       DEF Asking, Send, Click, HistoryKinds, SendKinds, DM, Ids
  <2> QED
    BY <2>7
<1>7. ASSUME NEW u \in Everyone, Search(u) PROVE Asking(R("search", u, NoMessage))
  <2>1. R("search", u, NoMessage) \in Requests
    BY <1>2, ConstantsTyped DEF Requests, ToMe, Kinds, HistoryKinds, SendKinds
  <2> QED
    BY <1>7, <2>1 DEF Asking, Search, Click, HistoryKinds, SendKinds
<1>8. ASSUME NEW g \in Groups, JoinRoom(g) PROVE Asking(R("join", g, NoMessage))
  <2>1. R("join", g, NoMessage) \in Requests
    BY <1>2, ConstantsTyped DEF Requests, ToMe, Kinds, HistoryKinds, SendKinds
  <2> QED
    BY <1>8, <2>1 DEF Asking, JoinRoom, Click, HistoryKinds, SendKinds
<1> HIDE DEF R
<1> QED
  BY <1>3, <1>4, <1>5, <1>6, <1>7, <1>8 DEF User, Everyone

\* The UI thread.
LEMMA NextUITyped ==
    ASSUME Typed, Next
    PROVE  UITyped'
<1>1. /\ UITyped /\ ListsTyped /\ ui \in UIType
      /\ ui.pc \in {"count_contact", "show"} => found # NoId
  BY DEF Typed, ThreadsTyped, UITyped, Replaying
<1>2. ASSUME NEW pc \in {"idle", "groups", "names"}, ui' = [Quiet EXCEPT !.pc = pc]
      PROVE  UITyped'
  BY <1>2, QuietTyped, QuietFacts DEF UITyped, Replaying, UIPcs
<1>3. ASSUME NEW pc \in {"count_contact", "show"}, ui' = [Quiet EXCEPT !.pc = pc],
             found' # NoId
      PROVE  UITyped'
  BY <1>3, QuietTyped, QuietFacts DEF UITyped, Replaying, UIPcs
<1>4. Quiet = [Quiet EXCEPT !.pc = "idle"]
  BY DEF Quiet
<1>5. ASSUME NEW r, Asking(r) PROVE UITyped'
  <2>1. /\ r.kind \in Kinds /\ r.arg \in Nat /\ r.message \in Messages \cup {NoMessage}
        /\ r.kind = "search" => r.arg \in Everyone
        /\ r.kind = "join" => r.arg \in Groups
    BY <1>5 DEF Asking, Requests
  <2>2. <<>> \in Seq(Ids)
    OBVIOUS
  <2>3. ui' \in UIType
    BY <1>5, <2>1, <2>2 DEF Asking, Ask, Quiet, UIType, UIPcs
  <2>4. r.kind \notin {"none", "user_info"}
    BY <1>5, <2>1 DEF Asking, Kinds, HistoryKinds, SendKinds
  <2>5. ui'.pc = "wait" /\ ui'.kind = r.kind /\ ui'.arg = r.arg
    BY <1>5, AskFacts DEF Asking
  <2> QED
    BY <2>1, <2>3, <2>4, <2>5 DEF UITyped, Replaying
<1>6. CASE TakeAnswer \/ TimeOut
  BY <1>1, <1>6, Outcome, AfterUITyped DEF Typed
<1>7. CASE FillContact
  <2>1. /\ ui.arg + 1 \in Nat /\ ui.pc = "fill"
        /\ ui' = [Quiet EXCEPT !.pc = "groups"] \/ ui' = [ui EXCEPT !.arg = ui.arg + 1]
    BY <1>1, <1>7 DEF FillContact, UIType
  <2>2. CASE ui' = [ui EXCEPT !.arg = ui.arg + 1]
    <3>1. ui' \in UIType /\ ui'.pc = "fill" /\ ui'.todo = ui.todo
      BY <1>1, <2>1, <2>2 DEF UIType
    <3> QED
      BY <1>1, <2>1, <3>1 DEF UITyped, Replaying
  <2> QED
    BY <1>2, <2>1, <2>2
<1>8. CASE LoadMessage \/ PutLoaded \/ CountLoaded
  <2>1. Replaying /\ ui.todo \in Seq(Messages)
    BY <1>1, <1>8 DEF LoadMessage, PutLoaded, CountLoaded, UITyped, Replaying
  <2>2. ASSUME NEW pc \in {"load", "put"}, ui' = [ui EXCEPT !.pc = pc],
               pc = "put" => ui.todo # <<>>
        PROVE  UITyped'
    <3>1. ui' \in UIType /\ ui'.pc = pc /\ ui'.todo = ui.todo
      BY <1>1, <2>2 DEF UIType, UIPcs
    <3> QED
      BY <2>1, <2>2, <3>1 DEF UITyped, Replaying
  <2>3. CASE PutLoaded
    <3>1. ui.todo # <<>>
      BY <1>1, <2>3 DEF PutLoaded, UITyped, Replaying
    <3>2. Tail(ui.todo) \in Seq(Messages)
      <4> HIDE DEF Messages
      <4> QED
        BY <2>1, <3>1
    <3>3. ui' \in UIType /\ ui'.pc = "count_loaded" /\ ui'.todo = Tail(ui.todo)
      BY <1>1, <2>3, <3>2 DEF PutLoaded, UIType, UIPcs
    <3> QED
      BY <3>2, <3>3 DEF UITyped, Replaying
  <2>4. CASE CountLoaded
    BY <2>2, <2>4 DEF CountLoaded
  <2> QED
    BY <1>2, <1>4, <1>8, <2>2, <2>3, <2>4 DEF LoadMessage
<1>9. CASE NamesKnown \/ CountOwn \/ ShowChat
  BY <1>2, <1>4, <1>9 DEF NamesKnown, CountOwn, ShowChat, Ends
<1>10. CASE CountContact
  BY <1>1, <1>3, <1>10 DEF CountContact
<1>11. CASE StartChat
  BY <1>3, <1>11 DEF StartChat
<1>12. CASE NewChat
  BY <1>1, <1>12 DEF NewChat, UITyped, Replaying
<1>13. CASE UNCHANGED <<ui, found>>
  BY <1>1, <1>13 DEF UITyped, Replaying
<1>14. ListenerStep \/ ServerStep => UNCHANGED <<ui, found>>
  BY DEF ListenerStep, ReceiveAnswer, ReceivePart, ReceivePush, WriteContact,
         LoadContactCount, StoreContactCount, CheckChat, PutMessage, LoadListCount,
         StoreListCount, ServerStep, Serve, Reply, PushMessage, UserSends
<1> QED
  BY <1>5, <1>6, <1>7, <1>8, <1>9, <1>10, <1>11, <1>12, <1>13, <1>14, Asks
     DEF Next, UIStep

\* The first elements of a sequence.
LEMMA SubSeqFacts ==
    ASSUME NEW S, NEW s \in Seq(S), NEW k \in 0..Len(s) - 1
    PROVE  /\ SubSeq(s, 1, k) \in Seq(S)
           /\ DOMAIN SubSeq(s, 1, k) \subseteq DOMAIN s
           /\ \A i \in DOMAIN SubSeq(s, 1, k) : SubSeq(s, 1, k)[i] = s[i]
OBVIOUS

\* Another element in place of the first.
LEMMA PrefixFacts ==
    ASSUME NEW S, NEW s \in Seq(S), s # <<>>, NEW e \in S
    PROVE  /\ <<e>> \o Tail(s) \in Seq(S)
           /\ DOMAIN (<<e>> \o Tail(s)) = DOMAIN s /\ 1 \in DOMAIN s
           /\ (<<e>> \o Tail(s))[1] = e
           /\ \A i \in DOMAIN s : i # 1 => (<<e>> \o Tail(s))[i] = s[i]
<1>1. /\ Tail(s) \in Seq(S) /\ Len(Tail(s)) = Len(s) - 1 /\ Len(s) \in Nat
      /\ \A i \in 1..Len(s) - 1 : Tail(s)[i] = s[i + 1]
      /\ DOMAIN s = 1..Len(s) /\ 1 \in DOMAIN s
  OBVIOUS
<1>2. <<e>> \in Seq(S) /\ Len(<<e>>) = 1 /\ <<e>>[1] = e
  OBVIOUS
<1> DEFINE t == Tail(s)
           h == <<e>>
           w == h \o t
<1> HIDE DEF t, h
<1>3. /\ w \in Seq(S) /\ Len(w) = Len(h) + Len(t)
      /\ \A i \in 1..Len(h) + Len(t) : w[i] = IF i <= Len(h) THEN h[i] ELSE t[i - Len(h)]
  BY <1>1, <1>2, ConcatProperties DEF t, h
<1> HIDE DEF w
<1>4. DOMAIN w = 1..Len(w)
  BY <1>3
<1>5. DOMAIN w = DOMAIN s /\ w[1] = e
  BY <1>1, <1>2, <1>3, <1>4 DEF t, h
<1>6. ASSUME NEW i \in DOMAIN s, i # 1 PROVE w[i] = s[i]
  <2>1. i \in 1..Len(h) + Len(t) /\ ~(i <= Len(h)) /\ Len(h) = 1
    BY <1>1, <1>2, <1>6 DEF t, h
  <2>2. w[i] = t[i - 1]
    BY <1>3, <2>1
  <2>3. i - 1 \in 1..Len(s) - 1 /\ (i - 1) + 1 = i
    BY <1>1, <1>6
  <2> QED
    BY <1>1, <2>2, <2>3 DEF t
<1> QED
  BY <1>1, <1>3, <1>5, <1>6 DEF w, h, t

\* The first part of a history is received.
PartReceived ==
    /\ wire # <<>> /\ 1 \in DOMAIN wire /\ Head(wire) = wire[1]
    /\ wire[1] \in Replies /\ wire[1].kind \in HistoryKinds
    /\ answer' \in Replies /\ answer'.kind = wire[1].kind /\ answer'.part
    /\ answer'.data \in Seq(Messages)
    /\ EntriesOf(answer'.data) \subseteq EntriesOf(wire[1].data)
    /\ Distinct(wire[1].data) => Distinct(answer'.data)
    /\ Rest \in Replies /\ Rest.kind = "rest"
    /\ wire' \in Seq(Lines) /\ DOMAIN wire' = DOMAIN wire /\ wire'[1] = Rest
    /\ \A i \in DOMAIN wire : i # 1 => wire'[i] = wire[i]
    /\ listener.pc = "recv"
    /\ UNCHANGED <<contacts, rooms, chat, title, list, found, ui, listener, requests,
                   serving, store, pending, joined, actions, loaded, late, handled>>

LEMMA PartFacts ==
    ASSUME ServerTyped, ReceivePart
    PROVE  PartReceived
<1>1. wire # <<>> /\ wire \in Seq(Lines) /\ wire' = <<Rest>> \o Tail(wire)
  BY DEF ReceivePart, ServerTyped
<1>2. Head(wire) \in Lines /\ Head(wire) = wire[1] /\ 1 \in DOMAIN wire
  <2> HIDE DEF Lines
  <2> QED
    BY <1>1
<1>3. PICK a : a = wire[1]
  OBVIOUS
<1>4. a \in Replies /\ a.kind \in HistoryKinds
  BY <1>2, <1>3 DEF ReceivePart, Received, Lines, Pushes, HistoryKinds
<1>5. a.data \in Seq(Messages)
  BY <1>4 DEF Replies
<1>6. PICK k \in 0..Len(a.data) - 1 :
         answer' = [a EXCEPT !.data = SubSeq(@, 1, k), !.part = TRUE]
  BY <1>2, <1>3 DEF ReceivePart, Received
<1>7. PICK d : d = SubSeq(a.data, 1, k)
  OBVIOUS
<1>8. /\ d \in Seq(Messages) /\ DOMAIN d \subseteq DOMAIN a.data
      /\ \A i \in DOMAIN d : d[i] = a.data[i]
  BY <1>5, <1>7, SubSeqFacts
<1>9. EntriesOf(d) \subseteq EntriesOf(a.data) /\ (Distinct(a.data) => Distinct(d))
  BY <1>8 DEF EntriesOf, Distinct
<1>10. answer' = [a EXCEPT !.data = d, !.part = TRUE]
  BY <1>6, <1>7
<1>11. answer' \in Replies /\ answer'.kind = a.kind /\ answer'.part /\ answer'.data = d
  BY <1>4, <1>8, <1>10 DEF Replies, Data, HistoryKinds
<1>12. Rest \in Replies /\ Rest.kind = "rest"
  BY DEF Rest, Answer, Replies, Data, HistoryKinds
<1>13. /\ wire' \in Seq(Lines) /\ DOMAIN wire' = DOMAIN wire /\ wire'[1] = Rest
       /\ \A i \in DOMAIN wire : i # 1 => wire'[i] = wire[i]
  <2>1. PICK e : e = Rest /\ e \in Lines
    BY <1>12 DEF Lines
  <2> HIDE DEF Lines
  <2> QED
    BY <1>1, <2>1, PrefixFacts
<1>14. /\ listener.pc = "recv"
       /\ UNCHANGED <<contacts, rooms, chat, title, list, found, ui, listener, requests,
                      serving, store, pending, joined, actions, loaded, late, handled>>
  BY DEF ReceivePart
<1> QED
  BY <1>1, <1>2, <1>3, <1>4, <1>8, <1>9, <1>11, <1>12, <1>13, <1>14 DEF PartReceived

\* The listener and the slot.
LEMMA NextListenerTyped ==
    ASSUME Typed, Next
    PROVE  ListenerTyped'
<1> DEFINE T == [pc : ListenerPcs, message : Messages \cup {NoMessage}, place : Nat, seen : Nat]
<1>1. /\ ListsTyped /\ ListenerTyped /\ ServerTyped /\ listener \in T
      /\ listener.pc # "recv" => listener.message \in Pushed
      /\ answer \in Replies \cup {NoAnswer}
  BY DEF Typed, ThreadsTyped, ListenerTyped
<1>2. contacts.count \in Nat /\ list.count \in Nat
  BY <1>1 DEF ListsTyped
<1>3. ASSUME NEW pc \in ListenerPcs, NEW n \in Nat,
             \/ listener' = [listener EXCEPT !.pc = pc]
             \/ listener' = [listener EXCEPT !.pc = pc, !.seen = n]
             \/ listener' = [listener EXCEPT !.pc = pc, !.place = n],
             listener.pc # "recv"
      PROVE  listener' \in T /\ (listener'.pc # "recv" => listener'.message \in Pushed)
  BY <1>1, <1>3
<1>4. ASSUME listener' = Finished
      PROVE  listener' \in T /\ (listener'.pc # "recv" => listener'.message \in Pushed)
  BY <1>4 DEF Finished, ListenerPcs
<1>5. ASSUME UNCHANGED listener
      PROVE  listener' \in T /\ (listener'.pc # "recv" => listener'.message \in Pushed)
  BY <1>1, <1>5
<1>6. CASE UNCHANGED listener /\ answer' \in {answer, NoAnswer}
  BY <1>1, <1>5, <1>6 DEF ListenerTyped
<1>7. wire # <<>> => Head(wire) \in Lines
  <2>1. wire \in Seq(Lines)
    BY <1>1 DEF ServerTyped
  <2> HIDE DEF Lines
  <2> QED
    BY <2>1
<1>8. CASE ReceiveAnswer
  <2>1. Head(wire) \in Lines /\ Head(wire).what = "answer"
    BY <1>7, <1>8 DEF ReceiveAnswer, Received
  <2>2. Head(wire) \in Replies
    BY <2>1 DEF Lines, Pushes
  <2> QED
    BY <1>5, <1>8, <2>2 DEF ListenerTyped, ReceiveAnswer, Received
<1>9. CASE ReceivePush
  <2>1. Head(wire) \in Lines /\ Head(wire).what = "push"
    BY <1>7, <1>9 DEF ReceivePush, Received
  <2>2. Head(wire).message \in Pushed
    BY <2>1 DEF Lines, Pushes, Replies
  <2>3. PICK m : m = Head(wire).message
    OBVIOUS
  <2>4. PICK pc \in {"check", "write"} : listener' = [listener EXCEPT !.message = m, !.pc = pc]
    BY <1>9, <2>3 DEF ReceivePush, Received
  <2>5. m \in Pushed /\ m \in Messages
    BY <2>2, <2>3 DEF Pushed
  <2>6. listener' \in T /\ listener'.message = m
    BY <1>1, <2>4, <2>5 DEF ListenerPcs
  <2>7. UNCHANGED answer
    BY <1>9 DEF ReceivePush
  <2> QED
    BY <1>1, <2>5, <2>6, <2>7 DEF ListenerTyped
<1>10. CASE WriteContact \/ PutMessage
  <2>1. answer' \in {answer, NoAnswer}
    BY <1>10 DEF WriteContact, PutMessage, AskName
  <2>2. PICK pc \in {"load_contacts", "load_list"} : listener' = [listener EXCEPT !.pc = pc]
    BY <1>10 DEF WriteContact, PutMessage
  <2>3. listener.pc # "recv" /\ pc \in ListenerPcs
    BY <1>10 DEF WriteContact, PutMessage, ListenerPcs
  <2> QED
    BY <1>1, <1>3, <2>1, <2>2, <2>3 DEF ListenerTyped
<1>11. CASE LoadContactCount \/ StoreContactCount \/ LoadListCount
  <2>1. PICK pc \in ListenerPcs, n \in Nat : listener' = [listener EXCEPT !.pc = pc, !.seen = n]
    BY <1>2, <1>11 DEF LoadContactCount, StoreContactCount, LoadListCount, ListenerPcs
  <2>2. listener.pc # "recv" /\ UNCHANGED answer
    BY <1>11 DEF LoadContactCount, StoreContactCount, LoadListCount
  <2> QED
    BY <1>1, <1>3, <2>1, <2>2 DEF ListenerTyped
<1>12. CASE CheckChat
  <2>1. UNCHANGED answer /\ listener.pc # "recv" /\ "put" \in ListenerPcs
        /\ list.count + 1 \in Nat
    BY <1>2, <1>12 DEF CheckChat, ListenerPcs
  <2>2. CASE listener' = Finished
    BY <1>1, <1>4, <2>1, <2>2 DEF ListenerTyped
  <2>3. CASE listener' = [listener EXCEPT !.pc = "put", !.place = list.count + 1]
    BY <1>1, <1>3, <2>1, <2>3 DEF ListenerTyped
  <2> QED
    BY <1>12, <2>2, <2>3 DEF CheckChat
<1>13. CASE StoreListCount
  BY <1>1, <1>4, <1>13 DEF StoreListCount, ListenerTyped
<1>14. CASE ReceivePart
  <2>1. answer' \in Replies /\ UNCHANGED listener
    BY <1>1, <1>14, PartFacts DEF PartReceived
  <2> QED
    BY <1>5, <2>1 DEF ListenerTyped
<1>15. \/ UNCHANGED listener /\ answer' \in {answer, NoAnswer}
       \/ ListenerStep
  BY DEF Next, UIStep, User, ServerStep, Start, AskGroups, Open, OpenRoom, OpenContact, Send,
         Search, CreateRoom, JoinRoom, NewChat, StartChat, TakeAnswer, TimeOut, After,
         FillContact, LoadMessage, PutLoaded, CountLoaded, NamesKnown, CountOwn,
         CountContact, ShowChat, Ask, Serve, Reply, PushMessage, UserSends
<1> QED
  BY <1>6, <1>8, <1>9, <1>10, <1>11, <1>12, <1>13, <1>14, <1>15 DEF ListenerStep

\* An answer with the data of its kind.
LEMMA AnswerTyped ==
    ASSUME NEW kind \in Kinds, NEW ok \in BOOLEAN, NEW data \in Data,
           ok /\ kind = "contacts" => data \in Seq(Ids),
           ok /\ kind = "groups" => data \subseteq Groups,
           kind \in HistoryKinds => ok /\ data \in Seq(Messages),
           ok /\ kind = "search" => data \in Everyone,
           ok /\ kind = "create" => data \in Groups
    PROVE  /\ Answer(kind, ok, data) \in Replies
           /\ Answer(kind, ok, data).kind = kind /\ Answer(kind, ok, data).ok = ok
           /\ Answer(kind, ok, data).data = data /\ ~Answer(kind, ok, data).part
<1>1. PICK b : b = Answer(kind, ok, data)
  OBVIOUS
<1>2. b \in [what : {"answer"}, kind : Kinds \cup {"rest"}, ok : BOOLEAN, data : Data,
             part : BOOLEAN]
  BY <1>1 DEF Answer
<1>3. b.kind = kind /\ b.ok = ok /\ b.data = data /\ ~b.part
  BY <1>1 DEF Answer
<1>4. b \in Replies
  BY <1>2, <1>3 DEF Replies
<1> QED
  BY <1>1, <1>3, <1>4

\* What answers carry, each kind by itself.
LEMMA DataParts ==
    /\ \A d \in Seq(Ids) : d \in Data
    /\ \A d \in SUBSET Groups : d \in Data
    /\ \A d \in Seq(Messages) : d \in Data
    /\ \A d \in Nat : d \in Data
BY DEF Data

\* What the server answers is an answer.
LEMMA AnswersTyped ==
    ASSUME ServerTyped, NEW r \in Requests, NEW a \in Answers(r)
    PROVE  /\ a \in Replies /\ a.kind = r.kind /\ r.kind \in Kinds
           /\ r.kind \in {"create", "join"} /\ a.ok => a.data \in Groups
           /\ r.kind \in HistoryKinds =>
                 a.ok /\ a.data = History([id |-> r.arg, room |-> r.kind = "group_history"])
           /\ r.kind = "contacts" => a.ok /\ a.data = SetToSeq(Peers)
<1>1. r.kind \in Kinds /\ r.arg \in Nat
  BY DEF Requests
<1>2. r.kind = "search" => r.arg \in Everyone
  BY DEF Requests
<1>3. r.kind = "join" => r.arg \in Groups
  BY DEF Requests
<1>4. store \in Seq(Messages) /\ joined \subseteq Groups
  BY DEF ServerTyped
<1>5. SetToSeq(Peers) \in Seq(Ids)
  <2>1. SetToSeq(Peers) \in Seq(Peers) /\ Peers \subseteq Ids
    BY <1>4, PeersFacts, SetToSeqFacts
  <2>2. PICK S : S = Peers
    OBVIOUS
  <2> HIDE DEF Ids
  <2> QED
    BY <2>1, <2>2
<1>6. \A c : History(c) \in Seq(Messages)
  BY <1>4, HistoryFacts
<1>7. /\ SetToSeq(Peers) \in Data /\ joined \in Data /\ r.arg \in Data /\ 0 \in Data
      /\ \A d \in Seq(Messages) : d \in Data
      /\ \A g \in Groups : g \in Data
  <2>1. joined \in SUBSET Groups /\ \A g \in Groups : g \in Nat
    BY <1>4, ConstantsTyped
  <2> QED
    BY <1>1, <1>5, <2>1, DataParts
<1>8. CASE r.kind = "contacts"
  <2>1. a = Answer(r.kind, TRUE, SetToSeq(Peers))
    BY <1>8 DEF Answers
  <2> QED
    BY <1>1, <1>5, <1>7, AnswerTyped, <1>8, <2>1 DEF HistoryKinds
<1>9. CASE r.kind = "groups"
  <2>1. a = Answer(r.kind, TRUE, joined)
    BY <1>9 DEF Answers
  <2> QED
    BY <1>1, <1>4, <1>7, AnswerTyped, <1>9, <2>1 DEF HistoryKinds
<1>10. CASE r.kind = "history"
  <2>1. a = Answer(r.kind, TRUE, History(DM(r.arg)))
    BY <1>10 DEF Answers
  <2>2. DM(r.arg) = [id |-> r.arg, room |-> r.kind = "group_history"]
    BY <1>10 DEF DM
  <2>3. PICK h \in Seq(Messages) : h = History(DM(r.arg))
    BY <1>6
  <2>4. h \in Data /\ a = Answer(r.kind, TRUE, h)
    BY <1>7, <2>1, <2>3
  <2>5. a \in Replies /\ a.kind = r.kind /\ a.ok = TRUE /\ a.data = h
    BY <1>1, AnswerTyped, <1>10, <2>3, <2>4
  <2> QED
    BY <1>1, <1>10, <2>2, <2>3, <2>5
<1>11. CASE r.kind = "group_history"
  <2>1. a = Answer(r.kind, TRUE, History(Room(r.arg)))
    BY <1>11 DEF Answers
  <2>2. Room(r.arg) = [id |-> r.arg, room |-> r.kind = "group_history"]
    BY <1>11 DEF Room
  <2>3. PICK h \in Seq(Messages) : h = History(Room(r.arg))
    BY <1>6
  <2>4. h \in Data /\ a = Answer(r.kind, TRUE, h)
    BY <1>7, <2>1, <2>3
  <2>5. a \in Replies /\ a.kind = r.kind /\ a.ok = TRUE /\ a.data = h
    BY <1>1, AnswerTyped, <1>11, <2>3, <2>4
  <2> QED
    BY <1>1, <1>11, <2>2, <2>3, <2>5
<1>12. CASE r.kind = "search"
  <2>1. PICK ok \in BOOLEAN : a = Answer(r.kind, ok, r.arg)
    BY <1>12 DEF Answers
  <2> QED
    BY <1>1, <1>2, <1>7, AnswerTyped, <1>12, <2>1 DEF HistoryKinds
<1>13. CASE r.kind = "create"
  <2>1. CASE a = Answer(r.kind, FALSE, 0)
    BY <1>1, <1>7, AnswerTyped, <1>13, <2>1 DEF HistoryKinds
  <2>2. ASSUME NEW g \in Groups, a = Answer(r.kind, TRUE, g)
        PROVE  a \in Replies /\ a.kind = r.kind /\ a.data \in Groups
    <3>1. g \in Data /\ r.kind \notin HistoryKinds
      BY <1>7, <1>13 DEF HistoryKinds
    <3>2. /\ Answer(r.kind, TRUE, g) \in Replies /\ Answer(r.kind, TRUE, g).kind = r.kind
          /\ Answer(r.kind, TRUE, g).data = g
      BY <1>1, <1>13, <3>1, AnswerTyped
    <3> QED
      BY <2>2, <3>2
  <2>3. a = Answer(r.kind, FALSE, 0) \/ \E g \in Groups : a = Answer(r.kind, TRUE, g)
    BY <1>13 DEF Answers
  <2>4. Answer(r.kind, FALSE, 0).ok = FALSE
    BY DEF Answer
  <2> QED
    BY <1>1, <1>13, <2>1, <2>2, <2>3, <2>4 DEF HistoryKinds
<1>14. CASE r.kind = "join"
  <2>1. a = Answer(r.kind, r.arg \in Groups \ joined, r.arg)
    BY <1>14 DEF Answers
  <2>2. PICK ok \in BOOLEAN : a = Answer(r.kind, ok, r.arg)
    <3>1. CASE r.arg \in joined
      <4>1. (r.arg \in Groups \ joined) = FALSE
        BY <3>1
      <4>2. a = Answer(r.kind, FALSE, r.arg)
        BY Zenon, <2>1, <4>1
      <4> QED
        BY <4>2
    <3>2. CASE r.arg \notin joined
      <4>1. (r.arg \in Groups \ joined) = TRUE
        BY <1>3, <1>14, <3>2
      <4>2. a = Answer(r.kind, TRUE, r.arg)
        BY Zenon, <2>1, <4>1
      <4> QED
        BY <4>2
    <3> QED
      BY <3>1, <3>2
  <2>3. a = Answer(r.kind, ok, r.arg) /\ r.arg \in Groups
    BY <1>3, <1>14, <2>2
  <2>4. a \in Replies /\ a.kind = r.kind /\ a.data = r.arg
    BY <1>1, <1>7, AnswerTyped, <1>14, <2>3 DEF HistoryKinds
  <2> QED
    BY <1>1, <1>14, <2>3, <2>4 DEF HistoryKinds
<1>15. CASE r.kind \in {"user_info", "send_dm", "send_group"}
  <2>1. a = Answer(r.kind, TRUE, r.arg)
    BY <1>15 DEF Answers
  <2> QED
    BY <1>1, <1>7, AnswerTyped, <1>15, <2>1 DEF HistoryKinds
<1> QED
  BY <1>1, <1>8, <1>9, <1>10, <1>11, <1>12, <1>13, <1>14, <1>15
     DEF Kinds, HistoryKinds, SendKinds

\* What the server has, and what is on its way to it and from it.
LEMMA NextServerTyped ==
    ASSUME Typed, Next
    PROVE  ServerTyped'
<1>1. /\ ListsTyped /\ ListenerTyped /\ ServerTyped
      /\ requests \in Seq(Requests) /\ wire \in Seq(Lines) /\ store \in Seq(Messages)
      /\ serving \in {a \in Replies : a.kind \in HistoryKinds \cup {"send_dm"}} \cup {NoAnswer}
      /\ pending \subseteq Pushed /\ joined \subseteq Groups
  BY DEF Typed, ThreadsTyped, ServerTyped
<1>2. CASE UNCHANGED server
  BY <1>1, <1>2 DEF server, ServerTyped
<1>3. ASSUME NEW r \in Requests, requests' = Append(requests, r),
             UNCHANGED <<wire, serving, store, pending, joined>>
      PROVE  ServerTyped'
  <2>1. requests' \in Seq(Requests)
    <3> HIDE DEF Requests
    <3> QED
      BY <1>1, <1>3
  <2> QED
    BY <1>1, <1>3, <2>1 DEF ServerTyped
<1>4. ASSUME NEW r, Asking(r) PROVE ServerTyped'
  <2>1. /\ r \in Requests
        /\ requests' = Append(requests, [kind |-> r.kind, arg |-> r.arg, message |-> r.message])
        /\ UNCHANGED <<wire, serving, store, pending, joined>>
    BY <1>4, AskFacts DEF Asking
  <2>2. r = [kind |-> r.kind, arg |-> r.arg, message |-> r.message]
    BY <2>1 DEF Requests
  <2> QED
    BY <1>3, <2>1, <2>2
<1>5. CASE WriteContact \/ PutMessage
  <2>1. listener.message \in Pushed
    BY <1>1, <1>5 DEF ListenerTyped, WriteContact, PutMessage
  <2>2. listener.message.from \in Nat
    BY <2>1, ConstantsTyped DEF Pushed, Messages
  <2>3. [kind |-> "user_info", arg |-> listener.message.from, message |-> NoMessage] \in Requests
    BY <2>2 DEF Requests, ToMe, Kinds, SendKinds
  <2>4. CASE AskName
    BY <1>3, <2>3, <2>4 DEF AskName
  <2> QED
    BY <1>2, <1>5, <2>4 DEF WriteContact, PutMessage
<1>6. CASE ReceiveAnswer \/ ReceivePush
  <2>1. wire # <<>> /\ wire' = Tail(wire)
    BY <1>6 DEF ReceiveAnswer, ReceivePart, ReceivePush
  <2>2. wire' \in Seq(Lines)
    <3> HIDE DEF Lines
    <3> QED
      BY <1>1, <2>1
  <2>3. UNCHANGED <<requests, serving, store, pending, joined>>
    BY <1>6 DEF ReceiveAnswer, ReceivePart, ReceivePush
  <2> QED
    BY <1>1, <2>2, <2>3 DEF ServerTyped
<1>7. CASE Serve
  <2>1. PICK r : r = Head(requests)
    OBVIOUS
  <2>2. r \in Requests /\ Tail(requests) \in Seq(Requests)
    <3>1. requests # <<>>
      BY <1>7 DEF Serve
    <3> HIDE DEF Requests
    <3> QED
      BY <1>1, <2>1, <3>1
  <2>3. PICK a \in Answers(r) :
           /\ IF r.kind \in {"history", "group_history"} THEN serving' = a /\ UNCHANGED wire
              ELSE IF ToMe(r) THEN serving' = a /\ wire' = Append(wire, Push(r.message))
              ELSE wire' = Append(wire, a) /\ UNCHANGED serving
           /\ store' = IF r.kind \in {"send_dm", "send_group"} THEN Append(store, r.message)
                       ELSE store
           /\ joined' = IF r.kind \in {"create", "join"} /\ a.ok THEN joined \cup {a.data}
                        ELSE joined
    BY <1>7, <2>1 DEF Serve
  <2>4. a \in Replies /\ a.kind = r.kind
    BY <1>1, <2>2, AnswersTyped
  <2>5. wire' \in Seq(Lines)
    <3>1. a \in Lines
      BY <2>4 DEF Lines
    <3>2. PICK p : p = Push(r.message)
      OBVIOUS
    <3>3. ToMe(r) => p \in Lines
      BY <2>2, <3>2 DEF Requests, Push, Lines, Pushes
    <3>4. wire' = wire \/ \E l \in Lines : wire' = Append(wire, l)
      BY <2>3, <3>1, <3>2, <3>3
    <3> HIDE DEF Lines
    <3> QED
      BY <1>1, <3>4
  <2>6. serving' \in {e \in Replies : e.kind \in HistoryKinds \cup {"send_dm"}} \cup {NoAnswer}
    BY <1>1, <2>3, <2>4 DEF HistoryKinds, ToMe
  <2>7. store' \in Seq(Messages)
    <3>1. r.kind \in {"send_dm", "send_group"} => r.message \in Messages
      BY <2>2 DEF Requests, SendKinds
    <3> HIDE DEF Messages
    <3> QED
      BY <1>1, <2>3, <3>1
  <2>8. joined' \subseteq Groups
    BY <1>1, <2>2, <2>3, AnswersTyped
  <2>9. requests' \in Seq(Requests) /\ UNCHANGED pending
    BY <1>7, <2>1, <2>2 DEF Serve
  <2> QED
    BY <1>1, <2>5, <2>6, <2>7, <2>8, <2>9 DEF ServerTyped
<1>8. CASE Reply
  <2>1. serving \in Lines
    BY <1>1, <1>8 DEF Reply, Lines
  <2>2. wire' \in Seq(Lines)
    <3> HIDE DEF Lines
    <3> QED
      BY <1>1, <1>8, <2>1 DEF Reply
  <2> QED
    BY <1>1, <1>8, <2>2 DEF Reply, ServerTyped
<1>9. CASE PushMessage
  <2>1. PICK m \in pending : pending' = pending \ {m} /\ wire' = Append(wire, Push(m))
    BY <1>9 DEF PushMessage
  <2>2. Push(m) \in Lines
    BY <1>1, <2>1 DEF Lines, Pushes, Push
  <2>3. wire' \in Seq(Lines)
    <3> HIDE DEF Lines
    <3> QED
      BY <1>1, <2>1, <2>2
  <2> QED
    BY <1>1, <1>9, <2>1, <2>3 DEF PushMessage, ServerTyped
<1>10. ASSUME NEW u \in Users, NEW c \in Chats, UserSends(u, c) PROVE ServerTyped'
  <2>1. PICK m : m = Message(Len(store) + 1, u, c)
    OBVIOUS
  <2>2. store' = Append(store, m) /\ pending' = pending \cup {m}
        /\ (c = DM(u) \/ c.room)
    BY <1>10, <2>1 DEF UserSends
  <2>3. c \in Recipients /\ (c.room \/ c.id = u)
    <3>1. CASE c = DM(u)
      BY <3>1, ConstantsTyped DEF Recipients, DM, Ids, Everyone
    <3>2. ASSUME NEW g \in Groups, c = Room(g) PROVE c \in Recipients /\ c.room
      BY <3>2, ConstantsTyped DEF Recipients, Room
    <3>3. ASSUME NEW v \in Everyone, c = DM(v) PROVE ~c.room
      BY <3>3 DEF DM
    <3> QED
      BY <2>2, <3>1, <3>2, <3>3 DEF Chats, Everyone
  <2>4. Len(store) + 1 \in Nat
    BY <1>1
  <2>5. m \in Messages /\ m \in Pushed
    BY <2>1, <2>3, <2>4, ConstantsTyped DEF Messages, Message, Pushed
  <2>6. store' \in Seq(Messages)
    <3> HIDE DEF Messages
    <3> QED
      BY <1>1, <2>2, <2>5
  <2> QED
    BY <1>1, <1>10, <2>2, <2>5, <2>6 DEF UserSends, ServerTyped
<1>11. CASE ReceivePart
  BY <1>1, <1>11, PartFacts DEF PartReceived, ServerTyped
<1>12. \/ UNCHANGED server \/ ReceiveAnswer \/ ReceivePart \/ ReceivePush \/ WriteContact \/ PutMessage
       \/ ServerStep \/ \E r : Asking(r)
  BY Asks DEF Next, UIStep, ListenerStep, server, TakeAnswer, TimeOut, After, FillContact,
     LoadMessage, PutLoaded, CountLoaded, NamesKnown, CountOwn, CountContact, ShowChat, NewChat, StartChat,
     LoadContactCount, StoreContactCount, CheckChat, LoadListCount, StoreListCount
<1> QED
  BY <1>2, <1>4, <1>5, <1>6, <1>7, <1>8, <1>9, <1>10, <1>11, <1>12 DEF ServerStep

\* Only the end of a request can be late.
LEMMA LateSteps ==
    ASSUME Typed, Next
    PROVE  \/ late' = late /\ ~TakeAnswer /\ ~TimeOut
           \/ TimeOut /\ late' = TRUE
           \/ TakeAnswer /\ late' = (late \/ answer.kind # ui.kind)
<1>1. ASSUME NEW r, Asking(r) PROVE late' = late
  BY <1>1 DEF Asking
<1>2. late' = late \/ TakeAnswer \/ TimeOut
  BY <1>1, Asks DEF Next, UIStep, User, ListenerStep, ServerStep, NewChat, StartChat, Click,
     FillContact, LoadMessage, PutLoaded, CountLoaded, NamesKnown, CountOwn, CountContact, ShowChat, ReceiveAnswer, ReceivePart,
     ReceivePush, WriteContact, LoadContactCount, StoreContactCount, CheckChat, PutMessage,
     LoadListCount, StoreListCount, Serve, Reply, PushMessage, UserSends
<1>3. TimeOut => late' = TRUE
  BY DEF TimeOut
<1>4. TakeAnswer => late' = (late \/ answer.kind # ui.kind)
  BY DEF TakeAnswer
<1> QED
  BY <1>2, <1>3, <1>4

\* The rest.
LEMMA NextHistoryTyped ==
    ASSUME Typed, Next
    PROVE  HistoryTyped'
<1>1. ListsTyped /\ ThreadsTyped /\ ServerTyped /\ HistoryTyped
  BY DEF Typed
<1>2. actions' \in Nat
  <2>1. actions' = actions \/ actions' = actions + 1
    <3>1. ASSUME NEW r, Asking(r) PROVE actions' = actions \/ actions' = actions + 1
      BY <3>1 DEF Asking
    <3> QED
      BY <3>1, Asks DEF Next, UIStep, User, ListenerStep, ServerStep, NewChat, StartChat, Click,
         TakeAnswer, TimeOut, After, FillContact, LoadMessage, PutLoaded, CountLoaded, NamesKnown, CountOwn,
         CountContact, ShowChat, ReceiveAnswer, ReceivePart, ReceivePush, WriteContact, LoadContactCount,
         StoreContactCount, CheckChat, PutMessage, LoadListCount, StoreListCount, Serve,
         Reply, PushMessage, UserSends
  <2> QED
    BY <1>1, <2>1 DEF HistoryTyped
<1>3. loaded' \in BOOLEAN
  <2>1. ASSUME TakeAnswer \/ TimeOut PROVE loaded' \in BOOLEAN
    <3>1. PICK ok, data : Good(ok, data)
      BY <1>1, <2>1, Outcome
    <3> QED
      BY <1>1, <3>1 DEF Good, After, AfterContacts, AfterGroups, AfterHistory, AfterSend,
         AfterSearch, AfterRoom, HistoryTyped
  <2>2. ASSUME NEW r, Asking(r) PROVE loaded' \in BOOLEAN
    BY <1>1, <2>2 DEF Asking, HistoryTyped
  <2>3. loaded' \in {loaded, FALSE} \/ TakeAnswer \/ TimeOut \/ \E r : Asking(r)
    BY Asks DEF Next, UIStep, User, ListenerStep, ServerStep, NewChat, StartChat, Click,
         FillContact, LoadMessage, PutLoaded, CountLoaded, NamesKnown, CountOwn,
         CountContact, ShowChat, ReceiveAnswer, ReceivePart, ReceivePush, WriteContact, LoadContactCount,
         StoreContactCount, CheckChat, PutMessage, LoadListCount, StoreListCount, Serve,
         Reply, PushMessage, UserSends
  <2> QED
    BY <1>1, <2>1, <2>2, <2>3 DEF HistoryTyped
<1>4. late' \in BOOLEAN
  BY <1>1, LateSteps DEF HistoryTyped
<1>5. raced' \in BOOLEAN /\ mixed' \in BOOLEAN
  <2>1. /\ raced' = (raced \/ (UIAdds' /\ ListenerAdds'))
        /\ mixed' = IF Emptied THEN ListenerChangesList'
                    ELSE mixed \/ (UIChangesList' /\ ListenerChangesList')
    BY DEF Next, Observe
  <2>2. ListenerChangesList' \in BOOLEAN
    BY DEF ListenerChangesList
  <2> QED
    BY <2>1, <2>2
<1>6. handled' \subseteq Nat
  <2>1. ASSUME NEW r, Asking(r) PROVE handled' = handled
    BY <2>1 DEF Asking
  <2>2. \/ handled' = handled
        \/ ui.pc = "count_own" /\ handled' = handled \cup {ui.message.n}
        \/ listener.pc # "recv" /\ handled' = handled \cup {listener.message.n}
    BY <2>1, Asks DEF Next, UIStep, User, ListenerStep, ServerStep, NewChat, StartChat, Click,
       TakeAnswer, TimeOut, After, FillContact, LoadMessage, PutLoaded, CountLoaded, NamesKnown, CountOwn,
       CountContact, ShowChat, ReceiveAnswer, ReceivePart, ReceivePush, WriteContact, LoadContactCount,
       StoreContactCount, CheckChat, PutMessage, LoadListCount, StoreListCount, Serve,
       Reply, PushMessage, UserSends
  <2>3. ui.message \in Messages \cup {NoMessage} /\ listener.message \in Messages \cup {NoMessage}
    BY <1>1 DEF ThreadsTyped, UITyped, UIType, ListenerTyped
  <2>4. \A m \in Messages \cup {NoMessage} : m.n \in Nat
    BY ConstantsTyped DEF Messages
  <2>5. ui.message.n \in Nat /\ listener.message.n \in Nat
    BY <2>3, <2>4
  <2> QED
    BY <1>1, <2>2, <2>5 DEF HistoryTyped
<1>7. straddled' \subseteq Nat
  <2>1. UnderWay' \subseteq Nat
    <3>1. store' \in Seq(Messages)
      BY NextServerTyped DEF ServerTyped
    <3>2. \A i \in DOMAIN store' : store'[i] \in Messages
      BY <3>1
    <3> QED
      BY <3>2 DEF UnderWay, Messages
  <2> QED
    BY <1>1, <2>1 DEF Next, Observe, HistoryTyped
<1> QED
  BY <1>2, <1>3, <1>4, <1>5, <1>6, <1>7 DEF HistoryTyped

\* The chat of the request is still the open one.
LEMMA NextChatKnown ==
    ASSUME Typed, Next
    PROVE  ChatKnown'
<1>1. ChatKnown /\ ThreadsTyped /\ ui \in UIType
  BY DEF Typed, ThreadsTyped, UITyped
<1>2. CASE UNCHANGED <<ui, chat>>
  BY <1>1, <1>2 DEF ChatKnown
<1>3. CASE ui'.pc \notin {"wait", "count_own"}
  BY <1>3 DEF ChatKnown
<1>4. ASSUME NEW r, Asking(r) PROVE ChatKnown'
  <2>1. ui'.pc = "wait" /\ ui'.kind = r.kind /\ ui'.arg = r.arg /\ ui'.message = r.message
    BY <1>4, AskFacts DEF Asking
  <2>2. r.kind \in SendKinds => /\ r.message \in Messages /\ chat' = chat
                                /\ r.message.to = chat
    BY <1>4 DEF Asking, Requests, Message, SendKinds, HistoryKinds
  <2> QED
    BY <1>4, <2>1, <2>2 DEF ChatKnown, Asking
<1>5. ASSUME TakeAnswer \/ TimeOut PROVE ChatKnown'
  <2>1. PICK ok, data : Good(ok, data)
    BY <1>1, <1>5, Outcome
  <2>2. UNCHANGED chat /\ ui.pc = "wait"
    BY <2>1 DEF Good, After
  <2>3. CASE AfterSend(ok, data) /\ ui' = [ui EXCEPT !.pc = "count_own"]
    <3>1. ui'.pc = "count_own" /\ ui'.message = ui.message /\ ui.kind \in SendKinds
      BY <1>1, <2>3 DEF UIType, AfterSend, SendKinds
    <3> QED
      BY <1>1, <2>2, <3>1 DEF ChatKnown
  <2>4. \/ AfterSend(ok, data) /\ ui' = [ui EXCEPT !.pc = "count_own"]
        \/ ui' = Quiet
        \/ ui' = [Quiet EXCEPT !.pc = "fill", !.todo = data]
        \/ ui' = [Quiet EXCEPT !.pc = "groups"]
        \/ ui' = [ui EXCEPT !.pc = "load", !.todo = IF ok THEN data ELSE <<>>]
    BY <2>1 DEF Good, After, AfterContacts, AfterGroups, AfterHistory, AfterSend, AfterSearch,
       AfterRoom, Ends
  <2>5. CASE ui'.pc \in {"idle", "fill", "groups", "load"}
    BY <1>3, <2>5
  <2>6. (ui' = [ui EXCEPT !.pc = "load", !.todo = IF ok THEN data ELSE <<>>]) => ui'.pc = "load"
    BY <1>1 DEF UIType
  <2>7. /\ [Quiet EXCEPT !.pc = "fill", !.todo = data].pc = "fill"
        /\ [Quiet EXCEPT !.pc = "groups"].pc = "groups" /\ Quiet.pc = "idle"
    BY DEF Quiet
  <2> QED
    BY <2>3, <2>4, <2>5, <2>6, <2>7
<1>6. CASE FillContact \/ LoadMessage \/ PutLoaded \/ CountLoaded
  <2>1. ui.pc \in {"fill", "load", "put", "count_loaded"}
    BY <1>6 DEF FillContact, LoadMessage, PutLoaded, CountLoaded
  <2>2. ui'.pc = ui.pc \/ ui'.pc \in {"groups", "names", "idle", "load", "put", "count_loaded"}
    <3>1. CASE PutLoaded
      <4>1. PICK t : ui' = [ui EXCEPT !.pc = "count_loaded", !.todo = t]
        BY <3>1 DEF PutLoaded
      <4> QED
        BY <1>1, <4>1 DEF UIType
    <3> QED
      BY <1>1, <1>6, <3>1 DEF FillContact, LoadMessage, CountLoaded, UIType, Quiet
  <2> QED
    BY <1>3, <2>1, <2>2
<1>7. CASE NamesKnown \/ CountOwn \/ CountContact \/ ShowChat \/ StartChat
  BY <1>3, <1>7 DEF NamesKnown, CountOwn, CountContact, ShowChat, StartChat, Ends, Quiet
<1>8. NewChat \/ ListenerStep \/ ServerStep => UNCHANGED <<ui, chat>>
  BY DEF NewChat, ListenerStep, ReceiveAnswer, ReceivePart, ReceivePush, WriteContact, LoadContactCount,
         StoreContactCount, CheckChat, PutMessage, LoadListCount, StoreListCount,
         ServerStep, Serve, Reply, PushMessage, UserSends
<1> QED
  BY <1>2, <1>4, <1>5, <1>6, <1>7, <1>8, Asks DEF Next, UIStep

\* What the steps of the listener do to its fields and to those of the lists.
LEMMA ListenerFields ==
    ASSUME Typed
    PROVE  /\ ReceiveAnswer => listener.pc = "recv" /\ UNCHANGED listener
           /\ ReceivePart => listener.pc = "recv" /\ UNCHANGED listener
           /\ ReceivePush =>
                 /\ listener.pc = "recv" /\ listener'.message = Head(wire).message
                 /\ \/ /\ listener'.pc = "check"
                       /\ \/ Head(wire).message.to.room \/ Head(wire).message.from \in Listed
                          \/ contacts.count >= MaxContacts
                    \/ /\ listener'.pc = "write"
                       /\ ~Head(wire).message.to.room /\ Head(wire).message.from \notin Listed
                       /\ contacts.count < MaxContacts
           /\ WriteContact =>
                 /\ listener.pc = "write" /\ listener'.pc = "load_contacts"
                 /\ listener'.message = listener.message
                 /\ contacts'.count = contacts.count
                 /\ \A j \in 1..MaxContacts + 1 : contacts'.slot[j] =
                       IF j = contacts.count + 1 THEN listener.message.from ELSE contacts.slot[j]
           /\ LoadContactCount =>
                 /\ listener.pc = "load_contacts" /\ listener'.pc = "store_contacts"
                 /\ listener'.message = listener.message /\ listener'.seen = contacts.count
           /\ StoreContactCount =>
                 /\ listener.pc = "store_contacts" /\ listener'.pc = "check"
                 /\ listener'.message = listener.message
                 /\ contacts'.count = listener.seen + 1 /\ contacts'.slot = contacts.slot
           /\ CheckChat =>
                 /\ listener.pc = "check"
                 /\ \/ /\ listener'.pc = "put" /\ listener'.message = listener.message
                       /\ listener'.place = list.count + 1
                       /\ listener.message.to = chat /\ list.count < MaxShown
                       /\ handled' = handled
                    \/ /\ listener'.pc = "recv"
                       /\ listener.message.to # chat \/ list.count >= MaxShown
                       /\ handled' = handled \cup {listener.message.n}
           /\ PutMessage =>
                 /\ listener.pc = "put" /\ listener'.pc = "load_list"
                 /\ listener'.message = listener.message
                 /\ list'.count = list.count
                 /\ \A j \in 1..MaxShown + 1 : list'.slot[j] =
                       IF j = listener.place THEN listener.message ELSE list.slot[j]
           /\ LoadListCount =>
                 /\ listener.pc = "load_list" /\ listener'.pc = "store_list"
                 /\ listener'.message = listener.message /\ listener'.seen = list.count
           /\ StoreListCount =>
                 /\ listener.pc = "store_list" /\ listener'.pc = "recv"
                 /\ handled' = handled \cup {listener.message.n}
                 /\ list'.count = listener.seen + 1 /\ list'.slot = list.slot
<1>1. /\ contacts \in [slot : [1..MaxContacts + 1 -> Ids], count : Nat]
      /\ list \in [slot : [1..MaxShown + 1 -> Messages \cup {NoMessage}], count : Nat]
      /\ listener \in [pc : ListenerPcs, message : Messages \cup {NoMessage}, place : Nat, seen : Nat]
      /\ MaxContacts \in Nat /\ MaxShown \in Nat
  BY ChatScreenAssumption DEF Typed, ListsTyped, ThreadsTyped, ListenerTyped
<1>2. /\ \A t : [listener EXCEPT !.pc = t].pc = t
      /\ \A t : [listener EXCEPT !.pc = t].message = listener.message
      /\ \A t, n : [listener EXCEPT !.pc = t, !.seen = n].pc = t
      /\ \A t, n : [listener EXCEPT !.pc = t, !.seen = n].seen = n
      /\ \A t, n : [listener EXCEPT !.pc = t, !.seen = n].message = listener.message
      /\ \A t, n : [listener EXCEPT !.pc = t, !.place = n].pc = t
      /\ \A t, n : [listener EXCEPT !.pc = t, !.place = n].place = n
      /\ \A t, n : [listener EXCEPT !.pc = t, !.place = n].message = listener.message
      /\ \A m, t : [listener EXCEPT !.message = m, !.pc = t].pc = t
      /\ \A m, t : [listener EXCEPT !.message = m, !.pc = t].message = m
      /\ Finished.pc = "recv"
  BY <1>1 DEF Finished
<1>3. /\ \A n : [contacts EXCEPT !.count = n].count = n
      /\ \A n : [contacts EXCEPT !.count = n].slot = contacts.slot
      /\ \A n : [list EXCEPT !.count = n].count = n
      /\ \A n : [list EXCEPT !.count = n].slot = list.slot
      /\ \A k, v : [contacts EXCEPT !.slot[k] = v].count = contacts.count
      /\ \A k, v : [list EXCEPT !.slot[k] = v].count = list.count
      /\ \A k, v : \A j \in 1..MaxContacts + 1 : [contacts EXCEPT !.slot[k] = v].slot[j] =
            IF j = k THEN v ELSE contacts.slot[j]
      /\ \A k, v : \A j \in 1..MaxShown + 1 : [list EXCEPT !.slot[k] = v].slot[j] =
            IF j = k THEN v ELSE list.slot[j]
  BY <1>1
<1>4. ASSUME ReceiveAnswer \/ ReceivePart PROVE listener.pc = "recv" /\ UNCHANGED listener
  BY <1>4 DEF ReceiveAnswer, ReceivePart
<1>5. ASSUME ReceivePush
      PROVE  /\ listener.pc = "recv" /\ listener'.message = Head(wire).message
             /\ \/ /\ listener'.pc = "check"
                   /\ \/ Head(wire).message.to.room \/ Head(wire).message.from \in Listed
                      \/ contacts.count >= MaxContacts
                \/ /\ listener'.pc = "write"
                   /\ ~Head(wire).message.to.room /\ Head(wire).message.from \notin Listed
                   /\ contacts.count < MaxContacts
  <2>1. PICK m : m = Head(wire).message
    OBVIOUS
  <2>2. PICK pc \in {"check", "write"} :
           /\ listener' = [listener EXCEPT !.message = m, !.pc = pc]
           /\ pc = "check" <=> (m.to.room \/ m.from \in Listed \/ contacts.count >= MaxContacts)
    BY <1>5, <2>1 DEF ReceivePush, Received
  <2>3. listener'.message = m /\ listener'.pc = pc
    BY <1>2, <2>2
  <2> QED
    BY <1>1, <1>5, <2>1, <2>2, <2>3 DEF ReceivePush
<1>6. ASSUME WriteContact
      PROVE  /\ listener.pc = "write" /\ listener'.pc = "load_contacts"
             /\ listener'.message = listener.message
             /\ contacts'.count = contacts.count
             /\ \A j \in 1..MaxContacts + 1 : contacts'.slot[j] =
                   IF j = contacts.count + 1 THEN listener.message.from ELSE contacts.slot[j]
  <2>1. PICK k, v : k = contacts.count + 1 /\ v = listener.message.from
    OBVIOUS
  <2>2. contacts' = [contacts EXCEPT !.slot[k] = v]
    BY <1>6, <2>1 DEF WriteContact
  <2> QED
    BY <1>2, <1>3, <1>6, <2>1, <2>2 DEF WriteContact
<1>7. ASSUME LoadContactCount
      PROVE  /\ listener.pc = "load_contacts" /\ listener'.pc = "store_contacts"
             /\ listener'.message = listener.message /\ listener'.seen = contacts.count
  BY <1>1, <1>7 DEF LoadContactCount
<1>8. ASSUME StoreContactCount
      PROVE  /\ listener.pc = "store_contacts" /\ listener'.pc = "check"
             /\ listener'.message = listener.message
             /\ contacts'.count = listener.seen + 1 /\ contacts'.slot = contacts.slot
  BY <1>1, <1>8 DEF StoreContactCount
<1>9. ASSUME CheckChat
      PROVE  /\ listener.pc = "check"
             /\ \/ /\ listener'.pc = "put" /\ listener'.message = listener.message
                   /\ listener'.place = list.count + 1
                   /\ listener.message.to = chat /\ list.count < MaxShown
                   /\ handled' = handled
                \/ /\ listener'.pc = "recv"
                   /\ listener.message.to # chat \/ list.count >= MaxShown
                   /\ handled' = handled \cup {listener.message.n}
  <2>1. PICK k : k = list.count + 1
    OBVIOUS
  <2>2. CASE listener.message.to = chat /\ list.count < MaxShown
    <3>1. listener' = [listener EXCEPT !.pc = "put", !.place = k] /\ handled' = handled
      BY <1>9, <2>1, <2>2 DEF CheckChat
    <3>2. listener'.pc = "put" /\ listener'.place = k /\ listener'.message = listener.message
      BY <1>2, <3>1
    <3> QED
      BY <1>9, <2>1, <2>2, <3>1, <3>2 DEF CheckChat
  <2>3. CASE ~(listener.message.to = chat /\ list.count < MaxShown)
    <3>1. listener' = Finished /\ handled' = handled \cup {listener.message.n}
      BY <1>9, <2>3 DEF CheckChat
    <3>2. listener.message.to # chat \/ list.count >= MaxShown
      BY <1>1, <2>3
    <3> QED
      BY <1>2, <1>9, <3>1, <3>2 DEF CheckChat
  <2> QED
    BY <2>2, <2>3
<1>10. ASSUME PutMessage
       PROVE  /\ listener.pc = "put" /\ listener'.pc = "load_list"
              /\ listener'.message = listener.message
              /\ list'.count = list.count
              /\ \A j \in 1..MaxShown + 1 : list'.slot[j] =
                    IF j = listener.place THEN listener.message ELSE list.slot[j]
  <2>1. PICK k, v : k = listener.place /\ v = listener.message
    OBVIOUS
  <2>2. list' = [list EXCEPT !.slot[k] = v]
    BY <1>10, <2>1 DEF PutMessage
  <2> QED
    BY <1>2, <1>3, <1>10, <2>1, <2>2 DEF PutMessage
<1>11. ASSUME LoadListCount
       PROVE  /\ listener.pc = "load_list" /\ listener'.pc = "store_list"
              /\ listener'.message = listener.message /\ listener'.seen = list.count
  BY <1>1, <1>11 DEF LoadListCount
<1>12. ASSUME StoreListCount
       PROVE  /\ listener.pc = "store_list" /\ listener'.pc = "recv"
              /\ handled' = handled \cup {listener.message.n}
              /\ list'.count = listener.seen + 1 /\ list'.slot = list.slot
  BY <1>2, <1>3, <1>12 DEF StoreListCount
<1> QED
  BY <1>4, <1>5, <1>6, <1>7, <1>8, <1>9, <1>10, <1>11, <1>12

\* The outcomes of a request, in terms of the fields.
Filling(ok, data) ==
    /\ ui.kind = "contacts" /\ ok
    /\ ui'.pc = "fill" /\ ui'.todo = data /\ ui'.arg = 0
    /\ UNCHANGED <<rooms, list, found, loaded>>
NoContacts(ok, data) ==
    /\ ui.kind = "contacts" /\ (~ok \/ data = <<>>)
    /\ ui'.pc = "groups"
    /\ UNCHANGED <<rooms, list, found, loaded>>
RoomsKnown ==
    /\ ui.kind \in {"groups", "create", "join"}
    /\ ui' = Quiet /\ ui'.pc = "idle"
    /\ UNCHANGED <<list, found, loaded>>
HistoryKnown(ok, data) ==
    /\ ui.kind \in HistoryKinds
    /\ list'.count = 0 /\ list'.slot = list.slot
    /\ ui'.pc = "load" /\ ui'.todo = IF ok THEN data ELSE <<>>
    /\ loaded' = (ok /\ ~answer.part) /\ UNCHANGED <<rooms, found>>
SentShown(ok) ==
    /\ ui.kind \in SendKinds /\ ok /\ list.count < MaxShown
    /\ list'.count = list.count
    /\ \A j \in 1..MaxShown + 1 : list'.slot[j] =
          IF j = list.count + 1 THEN ui.message ELSE list.slot[j]
    /\ ui'.pc = "count_own" /\ ui'.message = ui.message
    /\ UNCHANGED <<rooms, found, loaded>>
SentNotShown(ok) ==
    /\ ui.kind \in SendKinds /\ (~ok \/ list.count >= MaxShown)
    /\ ui' = Quiet /\ ui'.pc = "idle"
    /\ UNCHANGED <<rooms, list, found, loaded>>
Searched(ok, data) ==
    /\ ui.kind = "search"
    /\ ui' = Quiet /\ ui'.pc = "idle"
    /\ found' = IF ok THEN data ELSE NoId
    /\ UNCHANGED <<rooms, list, loaded>>

\* A request ends in one of these ways, and nothing else changes.
LEMMA AfterFacts ==
    ASSUME Typed, NEW ok, NEW data, Good(ok, data)
    PROVE  /\ UNCHANGED <<contacts, chat, title, listener, answer, server, actions, handled>>
           /\ ui.pc = "wait"
           /\ \/ Filling(ok, data) \/ NoContacts(ok, data) \/ RoomsKnown
              \/ HistoryKnown(ok, data) \/ SentShown(ok) \/ SentNotShown(ok)
              \/ Searched(ok, data)
<1>1. /\ list \in [slot : [1..MaxShown + 1 -> Messages \cup {NoMessage}], count : Nat]
      /\ ui \in UIType /\ MaxShown \in Nat
  BY ChatScreenAssumption DEF Typed, ListsTyped, ThreadsTyped, UITyped
<1>2. /\ UNCHANGED <<contacts, chat, title, listener, answer, server, actions, handled>>
      /\ ui.pc = "wait"
  <2>1. UNCHANGED contacts
    BY DEF Good, After, AfterContacts, AfterGroups, AfterHistory, AfterSend, AfterSearch,
       AfterRoom
  <2> QED
    BY <2>1 DEF Good, After
<1>3. Quiet.pc = "idle"
  BY DEF Quiet
<1>4. CASE AfterContacts(ok, data)
  <2>1. CASE ok /\ data # <<>>
    <3>1. ui' = [Quiet EXCEPT !.pc = "fill", !.todo = data]
      BY <1>4, <2>1 DEF AfterContacts
    <3>2. ui'.pc = "fill" /\ ui'.todo = data /\ ui'.arg = 0
      BY <3>1 DEF Quiet
    <3>3. Filling(ok, data)
      BY <1>4, <2>1, <3>2 DEF AfterContacts, Filling
    <3> QED
      BY <1>2, <3>3
  <2>2. CASE ~ok \/ data = <<>>
    <3>1. ui' = [Quiet EXCEPT !.pc = "groups"]
      BY <1>4, <2>2 DEF AfterContacts
    <3>2. NoContacts(ok, data)
      BY <1>4, <2>2, <3>1, QuietFacts DEF AfterContacts, NoContacts
    <3> QED
      BY <1>2, <3>2
  <2> QED
    BY <1>2, <2>1, <2>2
<1>5. CASE AfterGroups(ok, data) \/ AfterRoom(ok, data)
  BY <1>2, <1>3, <1>5 DEF AfterGroups, AfterRoom, RoomsKnown, Ends
<1>6. CASE AfterHistory(ok, data)
  <2>1. PICK t : t = IF ok THEN data ELSE <<>>
    OBVIOUS
  <2>2. ui' = [ui EXCEPT !.pc = "load", !.todo = t] /\ list' = [list EXCEPT !.count = 0]
    BY <1>6, <2>1 DEF AfterHistory
  <2>3. ui'.pc = "load" /\ ui'.todo = t
    BY <1>1, <2>2 DEF UIType
  <2>4. list'.count = 0 /\ list'.slot = list.slot
    BY <1>1, <2>2
  <2> QED
    BY <1>2, <1>6, <2>1, <2>3, <2>4 DEF AfterHistory, HistoryKnown, HistoryKinds
<1>7. CASE AfterSend(ok, data)
  <2>1. CASE ok /\ list.count < MaxShown
    <3>1. PICK k, m : k = list.count + 1 /\ m = ui.message
      OBVIOUS
    <3>2. list' = [list EXCEPT !.slot[k] = m] /\ ui' = [ui EXCEPT !.pc = "count_own"]
      BY <1>7, <2>1, <3>1 DEF AfterSend
    <3>3. ui'.pc = "count_own" /\ ui'.message = ui.message
      BY <1>1, <3>2 DEF UIType
    <3>4. /\ list'.count = list.count
          /\ \A j \in 1..MaxShown + 1 : list'.slot[j] = IF j = k THEN m ELSE list.slot[j]
      BY <1>1, <3>2
    <3> QED
      BY <1>2, <1>7, <2>1, <3>1, <3>3, <3>4 DEF AfterSend, SentShown, SendKinds
  <2>2. CASE ~(ok /\ list.count < MaxShown)
    <3>1. ~ok \/ list.count >= MaxShown
      BY <1>1, <2>2
    <3> QED
      BY <1>2, <1>3, <1>7, <2>2, <3>1 DEF AfterSend, SentNotShown, SendKinds, Ends
  <2> QED
    BY <2>1, <2>2
<1>8. CASE AfterSearch(ok, data)
  BY <1>2, <1>3, <1>8 DEF AfterSearch, Searched, Ends
<1> QED
  BY <1>2, <1>4, <1>5, <1>6, <1>7, <1>8 DEF Good, After

\* What the other steps of the UI thread do to its fields and to those of the lists.
LEMMA UIFields ==
    ASSUME Typed
    PROVE  /\ FillContact =>
                 /\ ui.pc = "fill"
                 /\ \/ /\ ui'.pc = "fill" /\ ui'.todo = ui.todo /\ ui'.arg = ui.arg + 1
                       /\ ui.arg + 1 <= Len(ui.todo) /\ ui.arg + 1 <= MaxContacts
                       /\ contacts'.count = contacts.count
                       /\ \A j \in 1..MaxContacts + 1 : contacts'.slot[j] =
                             IF j = ui.arg + 1 THEN ui.todo[ui.arg + 1] ELSE contacts.slot[j]
                    \/ /\ ui'.pc = "groups"
                       /\ ui.arg >= Len(ui.todo) \/ ui.arg >= MaxContacts
                       /\ contacts'.count = ui.arg /\ contacts'.slot = contacts.slot
           /\ LoadMessage =>
                 /\ ui.pc = "load" /\ list' = list
                 /\ \/ /\ ui'.pc = "put" /\ ui'.todo = ui.todo
                       /\ ui.todo # <<>> /\ list.count < MaxShown
                    \/ /\ ui'.pc \in {"names", "idle"}
                       /\ ui.todo = <<>> \/ list.count >= MaxShown
           /\ PutLoaded =>
                 /\ ui.pc = "put" /\ ui'.pc = "count_loaded"
                 /\ ui.todo # <<>> /\ ui'.todo = Tail(ui.todo)
                 /\ list'.count = list.count
                 /\ \A j \in 1..MaxShown + 1 : list'.slot[j] =
                       IF j = list.count + 1 THEN Head(ui.todo) ELSE list.slot[j]
           /\ CountLoaded =>
                 /\ ui.pc = "count_loaded" /\ ui'.pc = "load" /\ ui'.todo = ui.todo
                 /\ list'.count = list.count + 1 /\ list'.slot = list.slot
           /\ NamesKnown => ui.pc = "names" /\ ui'.pc = "idle"
           /\ CountOwn => /\ ui.pc = "count_own" /\ ui'.pc = "idle"
                          /\ list'.count = list.count + 1 /\ list'.slot = list.slot
           /\ StartChat =>
                 /\ ui.pc = "idle" /\ found # NoId
                 /\ \/ /\ ui'.pc = "count_contact"
                       /\ found \notin Listed /\ contacts.count < MaxContacts
                       /\ contacts'.count = contacts.count
                       /\ \A j \in 1..MaxContacts + 1 : contacts'.slot[j] =
                             IF j = contacts.count + 1 THEN found ELSE contacts.slot[j]
                    \/ /\ ui'.pc = "show" /\ contacts' = contacts
                       /\ found \in Listed \/ contacts.count >= MaxContacts
           /\ CountContact =>
                 /\ ui.pc = "count_contact" /\ ui'.pc = "show"
                 /\ contacts'.count = contacts.count + 1 /\ contacts'.slot = contacts.slot
           /\ ShowChat =>
                 /\ ui.pc = "show" /\ ui'.pc = "idle"
                 /\ list'.count = 0 /\ list'.slot = list.slot
                 /\ chat'.id = found /\ chat'.room = chat.room
<1>1. /\ contacts \in [slot : [1..MaxContacts + 1 -> Ids], count : Nat]
      /\ list \in [slot : [1..MaxShown + 1 -> Messages \cup {NoMessage}], count : Nat]
      /\ ui \in UIType /\ ui.arg \in Nat /\ chat \in [id : Nat \cup {NoId}, room : BOOLEAN]
      /\ MaxContacts \in Nat /\ MaxShown \in Nat
  BY ChatScreenAssumption DEF Typed, ListsTyped, ThreadsTyped, UITyped, UIType
<1>2. /\ \A t : [ui EXCEPT !.todo = t].pc = ui.pc
      /\ \A t : [ui EXCEPT !.todo = t].todo = t
      /\ \A t : [ui EXCEPT !.arg = t].pc = ui.pc
      /\ \A t : [ui EXCEPT !.arg = t].todo = ui.todo
      /\ \A t : [ui EXCEPT !.arg = t].arg = t
      /\ Quiet.pc = "idle"
  BY <1>1 DEF UIType, Quiet
<1>3. /\ \A n : [contacts EXCEPT !.count = n].count = n
      /\ \A n : [contacts EXCEPT !.count = n].slot = contacts.slot
      /\ \A n : [list EXCEPT !.count = n].count = n
      /\ \A n : [list EXCEPT !.count = n].slot = list.slot
      /\ \A k, v : [contacts EXCEPT !.slot[k] = v].count = contacts.count
      /\ \A k, v : \A j \in 1..MaxContacts + 1 : [contacts EXCEPT !.slot[k] = v].slot[j] =
            IF j = k THEN v ELSE contacts.slot[j]
      /\ \A n : [chat EXCEPT !.id = n].id = n
      /\ \A n : [chat EXCEPT !.id = n].room = chat.room
  BY <1>1
<1>4. ASSUME FillContact
      PROVE  /\ ui.pc = "fill"
             /\ \/ /\ ui'.pc = "fill" /\ ui'.todo = ui.todo /\ ui'.arg = ui.arg + 1
                   /\ ui.arg + 1 <= Len(ui.todo) /\ ui.arg + 1 <= MaxContacts
                   /\ contacts'.count = contacts.count
                   /\ \A j \in 1..MaxContacts + 1 : contacts'.slot[j] =
                         IF j = ui.arg + 1 THEN ui.todo[ui.arg + 1] ELSE contacts.slot[j]
                \/ /\ ui'.pc = "groups"
                   /\ ui.arg >= Len(ui.todo) \/ ui.arg >= MaxContacts
                   /\ contacts'.count = ui.arg /\ contacts'.slot = contacts.slot
  <2>1. PICK k, v : k = ui.arg + 1 /\ v = ui.todo[ui.arg + 1]
    OBVIOUS
  <2>2. CASE k <= Len(ui.todo) /\ k <= MaxContacts
    <3>1. contacts' = [contacts EXCEPT !.slot[k] = v] /\ ui' = [ui EXCEPT !.arg = k]
          /\ ui.pc = "fill"
      BY <1>4, <2>1, <2>2 DEF FillContact
    <3>2. ui'.pc = "fill" /\ ui'.todo = ui.todo /\ ui'.arg = k
      BY <1>2, <3>1
    <3>3. /\ contacts'.count = contacts.count
          /\ \A j \in 1..MaxContacts + 1 : contacts'.slot[j] =
                IF j = k THEN v ELSE contacts.slot[j]
      BY <1>3, <3>1
    <3> QED
      BY <2>1, <2>2, <3>1, <3>2, <3>3
  <2>3. CASE ~(k <= Len(ui.todo) /\ k <= MaxContacts)
    <3>1. PICK n : n = ui.arg
      OBVIOUS
    <3>2. contacts' = [contacts EXCEPT !.count = n] /\ ui' = [Quiet EXCEPT !.pc = "groups"]
          /\ ui.pc = "fill"
      BY <1>4, <2>1, <2>3, <3>1 DEF FillContact
    <3>3. Len(ui.todo) \in Nat
      <4>1. ui.todo \in Seq(Ids)
        BY <3>2 DEF Typed, ThreadsTyped, UITyped
      <4> QED
        BY <4>1
    <3>4. ui.arg >= Len(ui.todo) \/ ui.arg >= MaxContacts
      BY <1>1, <2>1, <2>3, <3>3
    <3> QED
      BY <1>3, <3>1, <3>2, <3>4, QuietFacts
  <2> QED
    BY <2>2, <2>3
<1>5. ASSUME LoadMessage
      PROVE  /\ ui.pc = "load" /\ list' = list
             /\ \/ /\ ui'.pc = "put" /\ ui'.todo = ui.todo
                   /\ ui.todo # <<>> /\ list.count < MaxShown
                \/ /\ ui'.pc \in {"names", "idle"}
                   /\ ui.todo = <<>> \/ list.count >= MaxShown
  <2>1. CASE ui.todo # <<>> /\ list.count < MaxShown
    <3>1. ui' = [ui EXCEPT !.pc = "put"]
      BY <1>5, <2>1 DEF LoadMessage
    <3> QED
      BY <1>1, <1>5, <2>1, <3>1 DEF LoadMessage, UIType
  <2>2. CASE ~(ui.todo # <<>> /\ list.count < MaxShown)
    <3>1. ui.todo = <<>> \/ list.count >= MaxShown
      BY <1>1, <2>2
    <3> QED
      BY <1>2, <1>5, <2>2, <3>1, QuietFacts DEF LoadMessage
  <2> QED
    BY <2>1, <2>2
<1>11. ASSUME PutLoaded
      PROVE  /\ ui.pc = "put" /\ ui'.pc = "count_loaded"
             /\ ui.todo # <<>> /\ ui'.todo = Tail(ui.todo)
             /\ list'.count = list.count
             /\ \A j \in 1..MaxShown + 1 : list'.slot[j] =
                   IF j = list.count + 1 THEN Head(ui.todo) ELSE list.slot[j]
  <2>1. PICK k, v, t : k = list.count + 1 /\ v = Head(ui.todo) /\ t = Tail(ui.todo)
    OBVIOUS
  <2>2. /\ list' = [list EXCEPT !.slot[k] = v] /\ ui.pc = "put"
        /\ ui' = [ui EXCEPT !.pc = "count_loaded", !.todo = t]
    BY <1>11, <2>1 DEF PutLoaded
  <2>3. ui'.pc = "count_loaded" /\ ui'.todo = t
    BY <1>1, <2>2 DEF UIType
  <2>4. ui.todo # <<>>
    BY <2>2 DEF Typed, ThreadsTyped, UITyped
  <2>5. /\ list'.count = list.count
        /\ \A j \in 1..MaxShown + 1 : list'.slot[j] = IF j = k THEN v ELSE list.slot[j]
    BY <1>1, <2>2
  <2> QED
    BY <2>1, <2>2, <2>3, <2>4, <2>5
<1>12. ASSUME CountLoaded
      PROVE  /\ ui.pc = "count_loaded" /\ ui'.pc = "load" /\ ui'.todo = ui.todo
             /\ list'.count = list.count + 1 /\ list'.slot = list.slot
  BY <1>1, <1>12 DEF CountLoaded, UIType
<1>6. ASSUME NamesKnown PROVE ui.pc = "names" /\ ui'.pc = "idle"
  BY <1>2, <1>6 DEF NamesKnown, Ends
<1>7. ASSUME CountOwn
      PROVE  /\ ui.pc = "count_own" /\ ui'.pc = "idle"
             /\ list'.count = list.count + 1 /\ list'.slot = list.slot
  BY <1>1, <1>2, <1>7 DEF CountOwn, Ends
<1>8. ASSUME StartChat
      PROVE  /\ ui.pc = "idle" /\ found # NoId
             /\ \/ /\ ui'.pc = "count_contact"
                   /\ found \notin Listed /\ contacts.count < MaxContacts
                   /\ contacts'.count = contacts.count
                   /\ \A j \in 1..MaxContacts + 1 : contacts'.slot[j] =
                         IF j = contacts.count + 1 THEN found ELSE contacts.slot[j]
                \/ /\ ui'.pc = "show" /\ contacts' = contacts
                   /\ found \in Listed \/ contacts.count >= MaxContacts
  <2>1. PICK k : k = contacts.count + 1
    OBVIOUS
  <2>2. CASE found \in Listed \/ contacts.count >= MaxContacts
    BY <1>8, <2>2, QuietFacts DEF StartChat, Click
  <2>3. CASE ~(found \in Listed \/ contacts.count >= MaxContacts)
    <3>1. contacts' = [contacts EXCEPT !.slot[k] = found]
          /\ ui' = [Quiet EXCEPT !.pc = "count_contact"] /\ ui.pc = "idle" /\ found # NoId
      BY <1>8, <2>1, <2>3 DEF StartChat, Click
    <3>2. found \notin Listed /\ contacts.count < MaxContacts
      BY <1>1, <2>3
    <3>3. /\ contacts'.count = contacts.count
          /\ \A j \in 1..MaxContacts + 1 : contacts'.slot[j] =
                IF j = k THEN found ELSE contacts.slot[j]
      BY <1>3, <3>1
    <3> QED
      BY <2>1, <3>1, <3>2, <3>3, QuietFacts
  <2> QED
    BY <2>2, <2>3
<1>9. ASSUME CountContact
      PROVE  /\ ui.pc = "count_contact" /\ ui'.pc = "show"
             /\ contacts'.count = contacts.count + 1 /\ contacts'.slot = contacts.slot
  BY <1>1, <1>9, QuietFacts DEF CountContact
<1>10. ASSUME ShowChat
       PROVE  /\ ui.pc = "show" /\ ui'.pc = "idle"
              /\ list'.count = 0 /\ list'.slot = list.slot
              /\ chat'.id = found /\ chat'.room = chat.room
  BY <1>2, <1>3, <1>10 DEF ShowChat, Ends
<1> QED
  BY <1>4, <1>5, <1>6, <1>7, <1>8, <1>9, <1>10, <1>11, <1>12

-----------------------------------------------------------------------------
(***************************************************************************)
(* The counts never pass the end of the arrays by more than one            *)
(***************************************************************************)

\* The contacts, and the appends of both threads that were tested.
LEMMA NextContactsBound ==
    ASSUME Typed, Next
    PROVE  ContactsBound'
<1>1. /\ ListsTyped /\ ContactsBound /\ ui \in UIType /\ ui.arg \in Nat
      /\ contacts.count \in Nat /\ MaxContacts \in Nat \ {0}
      /\ listener.seen \in Nat /\ ui.pc \in UIPcs
  BY ChatScreenAssumption
     DEF Typed, ListsTyped, ThreadsTyped, UITyped, UIType, ListenerTyped
<1>5. CASE UNCHANGED <<contacts, ui, listener, found, answer>>
  BY <1>1, <1>5 DEF ContactsBound, UIContact, Beginning
\* The UI thread's own steps: the contacts and the listener are as they were.
<1>6. ASSUME UNCHANGED <<contacts, listener>>, ui'.pc # "count_contact", ui'.pc # "fill" \/ ui'.arg = 0,
             Beginning' => found' = NoId,
             \/ found' = NoId /\ ~(ui'.pc = "wait" /\ ui'.kind = "search" /\ answer' # NoAnswer)
             \/ found' = found /\ ~(ui'.pc = "wait" /\ ui'.kind = "search" /\ answer' # NoAnswer)
             \/ ui.pc = "wait" /\ ui.kind = "search" /\ answer # NoAnswer
      PROVE  ContactsBound'
  BY <1>1, <1>6 DEF ContactsBound, UIContact
<1>7. ASSUME NEW r, Asking(r) PROVE ContactsBound'
  <2>1. /\ ui'.pc = "wait" /\ ui'.kind = r.kind /\ answer' = NoAnswer
        /\ UNCHANGED <<contacts, listener, found>>
    BY <1>7, AskFacts DEF Asking
  <2>2. Beginning' => found' = NoId
    BY <1>1, <1>7, <2>1 DEF Beginning, Asking, ContactsBound
  <2> QED
    BY <1>6, <2>1, <2>2
<1>8. ASSUME TakeAnswer \/ TimeOut PROVE ContactsBound'
  <2>1. PICK ok, data : Good(ok, data)
    BY <1>8, Outcome DEF Typed
  <2>2. UNCHANGED <<contacts, listener, answer>> /\ ui.pc = "wait"
    BY <2>1, AfterFacts
  <2>3. CASE Filling(ok, data) \/ NoContacts(ok, data)
    <3>1. ui.kind = "contacts" /\ found' = found /\ ui'.pc \in {"fill", "groups"}
      BY <2>3 DEF Filling, NoContacts
    <3>2. found = NoId
      BY <1>1, <2>2, <3>1 DEF ContactsBound, Beginning
    <3>3. ui'.pc = "fill" => ui'.arg = 0
      BY <2>3 DEF Filling, NoContacts
    <3> QED
      BY <1>6, <2>2, <3>1, <3>2, <3>3
  <2>4. CASE Searched(ok, data)
    <3>1. ok => answer # NoAnswer
      BY <2>1, ConstantsTyped DEF Good
    <3> QED
      BY <1>6, <2>2, <2>4, <3>1 DEF Searched, Beginning
  <2>5. CASE RoomsKnown \/ HistoryKnown(ok, data) \/ SentShown(ok) \/ SentNotShown(ok)
    <3>1. found' = found /\ ui'.pc \in {"idle", "load", "count_own"}
      BY <2>5 DEF RoomsKnown, HistoryKnown, SentShown, SentNotShown
    <3> QED
      BY <1>6, <2>2, <3>1 DEF Beginning
  <2> QED
    BY <2>1, <2>3, <2>4, <2>5, AfterFacts
<1>9. CASE FillContact
  <2>1. /\ ui.pc = "fill" /\ ui.arg <= MaxContacts /\ found = NoId
        /\ UNCHANGED <<listener, found, answer>>
    BY <1>1, <1>9 DEF FillContact, ContactsBound, Beginning
  <2>2. CASE ui'.pc = "fill" /\ ui'.arg = ui.arg + 1 /\ ui.arg + 1 <= MaxContacts
             /\ contacts'.count = contacts.count
    BY <1>1, <2>1, <2>2 DEF ContactsBound, UIContact
  <2>3. CASE ui'.pc = "groups" /\ contacts'.count = ui.arg
    BY <1>1, <2>1, <2>3 DEF ContactsBound, UIContact
  <2> QED
    BY <1>9, <2>2, <2>3, UIFields
<1>10. CASE \/ LoadMessage \/ PutLoaded \/ CountLoaded \/ NamesKnown \/ CountOwn
            \/ ShowChat \/ NewChat
  <2>1. UNCHANGED <<contacts, listener, answer>> /\ found' \in {found, NoId}
    BY <1>10 DEF LoadMessage, PutLoaded, CountLoaded, NamesKnown, CountOwn, ShowChat, NewChat
  <2>2. ui'.pc \in {"idle", "load", "put", "count_loaded", "names"}
    BY <1>10, UIFields DEF NewChat
  <2> QED
    BY <1>6, <2>1, <2>2 DEF Beginning
<1>11. CASE StartChat
  <2>1. ui.pc = "idle" /\ found # NoId /\ UNCHANGED <<listener, found, answer>>
    BY <1>11 DEF StartChat, Click
  <2>2. CASE UNCHANGED contacts /\ ui'.pc = "show"
    BY <1>6, <2>1, <2>2 DEF Beginning
  <2>3. CASE /\ contacts.count < MaxContacts /\ contacts'.count = contacts.count
             /\ ui'.pc = "count_contact"
    BY <1>1, <2>1, <2>3 DEF ContactsBound, UIContact, Beginning
  <2> QED
    BY <1>11, <2>2, <2>3, UIFields
<1>12. CASE CountContact
  <2>1. contacts'.count = contacts.count + 1 /\ ui'.pc = "show" /\ ui.pc = "count_contact"
    BY <1>12, UIFields
  <2> QED
    BY <1>1, <1>12, <2>1 DEF CountContact, ContactsBound, UIContact, Beginning
<1>13. CASE ReceiveAnswer \/ ReceivePart \/ ReceivePush
  <2>1. /\ UNCHANGED <<contacts, ui, found>> /\ listener.pc = "recv"
        /\ listener'.pc \in {"recv", "check", "write"}
        /\ listener'.pc = "write" => contacts.count < MaxContacts
    BY <1>13, ListenerFields DEF ReceiveAnswer, ReceivePart, ReceivePush
  <2> QED
    BY <1>1, <2>1 DEF ContactsBound, UIContact, Beginning
<1>14. CASE WriteContact
  <2>1. /\ contacts'.count = contacts.count /\ listener.pc = "write"
        /\ listener'.pc = "load_contacts" /\ UNCHANGED <<ui, found>>
    BY <1>14, ListenerFields DEF WriteContact
  <2> QED
    BY <1>1, <2>1 DEF ContactsBound, UIContact, Beginning
<1>15. CASE LoadContactCount
  <2>1. /\ listener.pc = "load_contacts" /\ listener'.pc = "store_contacts"
        /\ listener'.seen = contacts.count /\ UNCHANGED <<contacts, ui, found>>
    BY <1>15, ListenerFields DEF LoadContactCount
  <2> QED
    BY <1>1, <2>1 DEF ContactsBound, UIContact, Beginning
<1>16. CASE StoreContactCount
  <2>1. /\ listener.pc = "store_contacts" /\ listener'.pc = "check"
        /\ contacts'.count = listener.seen + 1 /\ UNCHANGED <<ui, found>>
    BY <1>16, ListenerFields DEF StoreContactCount
  <2> QED
    BY <1>1, <2>1 DEF ContactsBound, UIContact, Beginning
<1>17. CASE CheckChat \/ PutMessage \/ LoadListCount \/ StoreListCount
  <2>1. /\ UNCHANGED <<contacts, ui, found>>
        /\ listener'.pc \in {"recv", "put", "load_list", "store_list"}
    BY <1>17, ListenerFields DEF CheckChat, PutMessage, LoadListCount, StoreListCount
  <2> QED
    BY <1>1, <2>1 DEF ContactsBound, UIContact, Beginning
<1>18. ServerStep => UNCHANGED <<contacts, ui, listener, found, answer>>
  BY DEF ServerStep, Serve, Reply, PushMessage, UserSends
<1> QED
  BY <1>5, <1>7, <1>8, <1>9, <1>10, <1>11, <1>12, <1>13, <1>14, <1>15, <1>16, <1>17, <1>18, Asks
     DEF Next, UIStep, ListenerStep

\* The messages, in the same way.
LEMMA NextListBound ==
    ASSUME Typed, Next
    PROVE  ListBound'
<1>1. /\ ListBound /\ list.count \in Nat /\ MaxShown \in Nat \ {0} /\ listener.seen \in Nat
  BY ChatScreenAssumption DEF Typed, ListsTyped, ThreadsTyped, ListenerTyped
\* A step that leaves the list and the listener alone.
<1>2. ASSUME UNCHANGED <<list, listener>>, ui'.pc \notin {"count_own", "load", "put", "count_loaded"},
             ui'.pc = "wait" => (UNCHANGED <<ui, answer>>) \/ answer' = NoAnswer
      PROVE  ListBound'
  BY <1>1, <1>2 DEF ListBound, UIMessage, HistoryFound
<1>3. ASSUME UNCHANGED <<list, listener, ui, answer>> PROVE ListBound'
  BY <1>1, <1>3 DEF ListBound, UIMessage, HistoryFound
<1>4. ASSUME NEW r, Asking(r) PROVE ListBound'
  BY <1>2, <1>4, AskFacts DEF Asking
<1>5. ASSUME TakeAnswer \/ TimeOut PROVE ListBound'
  <2>1. PICK ok, data : Good(ok, data)
    BY <1>5, Outcome DEF Typed
  <2>2. UNCHANGED listener /\ ui.pc = "wait"
    BY <2>1, AfterFacts
  <2>3. CASE SentShown(ok)
    <3>1. ok => answer # NoAnswer
      BY <2>1, ConstantsTyped DEF Good
    <3> QED
      BY <1>1, <2>2, <2>3, <3>1 DEF ListBound, UIMessage, SentShown, HistoryFound
  <2>4. CASE HistoryKnown(ok, data)
    <3>1. ~HistoryFound => ui'.todo = <<>>
      BY <2>1, <2>2, <2>4, ConstantsTyped DEF HistoryFound, HistoryKnown, Good
    <3> QED
      BY <1>1, <2>2, <2>4, <3>1 DEF ListBound, UIMessage, HistoryKnown, HistoryFound
  <2>5. CASE \/ Filling(ok, data) \/ NoContacts(ok, data) \/ RoomsKnown \/ SentNotShown(ok)
             \/ Searched(ok, data)
    <3>1. UNCHANGED list /\ ui'.pc \in {"idle", "fill", "groups"}
      BY <2>5 DEF Filling, NoContacts, RoomsKnown, SentNotShown, Searched
    <3> QED
      BY <1>2, <2>2, <3>1
  <2> QED
    BY <2>1, <2>3, <2>4, <2>5, AfterFacts
<1>6. CASE FillContact \/ NamesKnown \/ CountContact \/ StartChat
  <2>1. UNCHANGED <<list, listener>>
    BY <1>6 DEF FillContact, NamesKnown, CountContact, StartChat
  <2>2. ui'.pc \in {"fill", "groups", "idle", "show", "count_contact"}
    BY <1>6, UIFields
  <2> QED
    BY <1>2, <2>1, <2>2
<1>7. CASE LoadMessage
  <2>1. ui.pc = "load" /\ UNCHANGED <<list, listener>>
    BY <1>7, UIFields DEF LoadMessage
  <2>2. CASE ui'.pc = "put" /\ ui.todo # <<>> /\ list.count < MaxShown
    BY <1>1, <2>1, <2>2 DEF ListBound, UIMessage, HistoryFound
  <2>3. CASE ui'.pc \in {"names", "idle"}
    BY <1>2, <2>1, <2>3
  <2> QED
    BY <1>7, <2>2, <2>3, UIFields
<1>16. CASE PutLoaded
  <2>1. ui.pc = "put" /\ ui'.pc = "count_loaded" /\ list'.count = list.count /\ UNCHANGED listener
    BY <1>16, UIFields DEF PutLoaded
  <2> QED
    BY <1>1, <2>1 DEF ListBound, UIMessage, HistoryFound
<1>17. CASE CountLoaded
  <2>1. /\ ui.pc = "count_loaded" /\ ui'.pc = "load" /\ list'.count = list.count + 1
        /\ UNCHANGED listener
    BY <1>17, UIFields DEF CountLoaded
  <2> QED
    BY <1>1, <2>1 DEF ListBound, UIMessage, HistoryFound
<1>8. CASE CountOwn
  <2>1. ui.pc = "count_own" /\ UNCHANGED listener /\ ui'.pc = "idle"
        /\ list'.count = list.count + 1
    BY <1>8, UIFields DEF CountOwn
  <2> QED
    BY <1>1, <2>1 DEF ListBound, UIMessage, HistoryFound
<1>9. CASE ShowChat
  <2>1. ui.pc = "show" /\ UNCHANGED listener /\ ui'.pc = "idle" /\ list'.count = 0
    BY <1>9, UIFields DEF ShowChat
  <2> QED
    BY <1>1, <2>1 DEF ListBound, UIMessage, HistoryFound
<1>10. NewChat \/ ServerStep => UNCHANGED <<list, ui, listener, answer>>
  BY DEF NewChat, ServerStep, Serve, Reply, PushMessage, UserSends
<1>11. CASE ReceiveAnswer \/ ReceivePart \/ ReceivePush \/ WriteContact \/ LoadContactCount \/ StoreContactCount
  <2>1. /\ UNCHANGED <<list, ui>>
        /\ listener'.pc \notin {"put", "load_list", "store_list"}
    BY <1>11, ListenerFields
       DEF ReceiveAnswer, ReceivePart, ReceivePush, WriteContact, LoadContactCount, StoreContactCount
  <2> QED
    BY <1>1, <2>1 DEF ListBound, UIMessage, HistoryFound
<1>12. CASE CheckChat
  <2>1. /\ UNCHANGED <<list, ui>>
        /\ \/ listener'.pc = "recv"
           \/ listener'.pc = "put" /\ list.count < MaxShown
    BY <1>12, ListenerFields DEF CheckChat
  <2> QED
    BY <1>1, <2>1 DEF ListBound, UIMessage, HistoryFound
<1>13. CASE PutMessage
  <2>1. /\ listener.pc = "put" /\ listener'.pc = "load_list" /\ list'.count = list.count
        /\ UNCHANGED ui /\ answer' \in {answer, NoAnswer}
    BY <1>13, ListenerFields DEF PutMessage, AskName
  <2> QED
    BY <1>1, <2>1 DEF ListBound, UIMessage, HistoryFound
<1>14. CASE LoadListCount
  <2>1. /\ listener.pc = "load_list" /\ listener'.pc = "store_list"
        /\ listener'.seen = list.count /\ UNCHANGED <<list, ui, answer>>
    BY <1>14, ListenerFields DEF LoadListCount
  <2> QED
    BY <1>1, <2>1 DEF ListBound, UIMessage, HistoryFound
<1>15. CASE StoreListCount
  <2>1. /\ listener.pc = "store_list" /\ listener'.pc = "recv"
        /\ list'.count = listener.seen + 1 /\ UNCHANGED ui
    BY <1>15, ListenerFields DEF StoreListCount
  <2> QED
    BY <1>1, <2>1 DEF ListBound, UIMessage, HistoryFound
<1> QED
  BY <1>3, <1>4, <1>5, <1>6, <1>7, <1>8, <1>9, <1>10, <1>11, <1>12, <1>13, <1>14, <1>15,
     <1>16, <1>17, Asks
     DEF Next, UIStep, ListenerStep

\* At first everything is empty.
LEMMA InitTyped == Init => Typed
<1> SUFFICES ASSUME Init PROVE Typed
  OBVIOUS
<1>1. <<>> \in Seq(Ids) /\ <<>> \in Seq(Requests) /\ <<>> \in Seq(Lines)
  OBVIOUS
<1>2. ListsTyped
  BY ChatScreenAssumption DEF Init, ListsTyped, Ids, DM, NoId
<1>3. ThreadsTyped
  <2>1. ui = [Quiet EXCEPT !.pc = "start"] /\ "start" \in UIPcs
    BY DEF Init, UIPcs
  <2>2. UITyped
    BY <2>1, QuietTyped, QuietFacts DEF UITyped, Replaying
  <2> QED
    BY <2>2 DEF Init, ThreadsTyped, ListenerTyped, ListenerPcs
<1>4. ServerTyped
  <2>1. store \in Seq([n : Nat, from : Users \cup {Me}, to : Chats])
    BY StoresAssumption DEF Init
  <2>2. Chats \subseteq Recipients
    <3>1. \A u \in Everyone : DM(u) \in Recipients
      BY ConstantsTyped DEF DM, Recipients, Ids
    <3>2. \A g \in Groups : Room(g) \in Recipients
      BY ConstantsTyped DEF Room, Recipients
    <3> QED
      BY <3>1, <3>2 DEF Chats, Everyone
  <2>3. [n : Nat, from : Users \cup {Me}, to : Chats] \subseteq Messages
    BY <2>2 DEF Messages, Everyone
  <2>4. store \in Seq(Messages)
    <3>1. ASSUME NEW S, NEW T, S \subseteq T, NEW q \in Seq(S) PROVE q \in Seq(T)
      BY <3>1
    <3> QED
      BY <2>1, <2>3, <3>1
  <2> QED
    BY <1>1, <2>4 DEF Init, ServerTyped
<1>5. HistoryTyped
  <2>1. \A i \in DOMAIN store : store[i] \in Messages
    BY <1>4 DEF ServerTyped
  <2>2. handled \subseteq Nat
    BY <2>1 DEF Init, Messages
  <2> QED
    BY <2>2 DEF Init, HistoryTyped
<1>6. ui.pc = "start"
  BY QuietFacts DEF Init
<1>7. ChatKnown
  BY <1>6 DEF ChatKnown
<1>8. ContactsBound /\ ListBound
  BY <1>6, ChatScreenAssumption
     DEF Init, ContactsBound, ListBound, UIContact, UIMessage, HistoryFound
<1> QED
  BY <1>2, <1>3, <1>4, <1>5, <1>7, <1>8 DEF Typed

\* The types and the counts are right in every state.
LEMMA AlwaysTyped == Spec => []Typed
<1>1. Typed /\ [Next]_vars => Typed'
  <2> SUFFICES ASSUME Typed, [Next]_vars PROVE Typed'
    OBVIOUS
  <2>1. CASE Next
    BY <2>1, NextListsTyped, NextUITyped, NextListenerTyped, NextServerTyped, NextHistoryTyped,
       NextChatKnown, NextContactsBound, NextListBound DEF Typed, ThreadsTyped
  <2>2. CASE UNCHANGED vars
    BY <2>2 DEF vars, server, history, Typed, ListsTyped, ThreadsTyped, UITyped, ListenerTyped,
       ServerTyped, HistoryTyped, ChatKnown, ContactsBound, ListBound, UIContact, UIMessage,
       Beginning, Replaying, HistoryFound
  <2> QED
    BY <2>1, <2>2
<1> QED
  BY <1>1, InitTyped, PTL DEF Spec

\* Neither array is overrun by more than one place: an append that a thread has tested
\* and not counted is added to the count, and while the listener holds a count that it
\* loaded the UI thread cannot have begun an append of its own.
THEOREM OverrunAtMostOne == Spec => []OverrunByOne
<1>1. Typed => OverrunByOne
  BY ChatScreenAssumption
     DEF Typed, ListsTyped, ContactsBound, ListBound, UIContact, UIMessage, OverrunByOne
<1> QED
  BY <1>1, AlwaysTyped, PTL

-----------------------------------------------------------------------------
(***************************************************************************)
(* The exchange with the server                                            *)
(***************************************************************************)

\* An element is added at the end of a sequence.
LEMMA OfAppend ==
    ASSUME NEW S, NEW M, NEW s \in Seq(S), NEW e \in S
    PROVE  /\ Of(Append(s, e), M) = Of(s, M) \cup ({e} \cap M)
           /\ Alone(s, M) /\ (e \notin M \/ Of(s, M) = {}) => Alone(Append(s, e), M)
           /\ Apart(s, M) /\ e \notin Of(s, M) => Apart(Append(s, e), M)
<1> DEFINE a == Append(s, e)
<1>1. PICK m : m = Len(s) + 1
  OBVIOUS
<1>2. /\ DOMAIN a = DOMAIN s \cup {m} /\ a[m] = e
      /\ \A i \in DOMAIN s : a[i] = s[i] /\ i # m
  BY <1>1, AppendFacts
<1> HIDE DEF a
<1>3. At(a, M) = At(s, M) \cup (IF e \in M THEN {m} ELSE {})
  BY <1>2 DEF At
<1>4. Of(a, M) = Of(s, M) \cup ({e} \cap M)
  BY <1>2, <1>3 DEF Of, At
<1>5. Of(s, M) = {} => At(s, M) = {}
  BY DEF Of
<1>6. ASSUME Alone(s, M), e \notin M \/ Of(s, M) = {} PROVE Alone(a, M)
  BY <1>3, <1>5, <1>6 DEF Alone
<1>7. ASSUME Apart(s, M), e \notin Of(s, M) PROVE Apart(a, M)
  <2>1. \A i \in At(s, M) : a[i] = s[i] /\ s[i] # e
    BY <1>2, <1>7 DEF At, Of
  <2> QED
    BY <1>2, <1>3, <1>7, <2>1 DEF Apart
<1> QED
  BY <1>4, <1>6, <1>7 DEF a

\* The first element of a sequence is taken.
LEMMA OfTail ==
    ASSUME NEW S, NEW M, NEW s \in Seq(S), s # <<>>
    PROVE  /\ Of(s, M) = Of(Tail(s), M) \cup ({Head(s)} \cap M)
           /\ Alone(s, M) => Alone(Tail(s), M) /\ (Head(s) \in M => Of(Tail(s), M) = {})
           /\ Apart(s, M) => Apart(Tail(s), M) /\ Head(s) \notin Of(Tail(s), M)
<1> DEFINE t == Tail(s)
<1>1. /\ Head(s) = s[1] /\ 1 \in DOMAIN s
      /\ \A i \in DOMAIN t : t[i] = s[i + 1] /\ i + 1 \in DOMAIN s /\ i + 1 # 1
      /\ \A i \in DOMAIN s : i # 1 => i - 1 \in DOMAIN t /\ t[i - 1] = s[i] /\ (i - 1) + 1 = i
      /\ \A i, j \in DOMAIN t : i + 1 = j + 1 => i = j
  OBVIOUS
<1> HIDE DEF t
<1>2. \A i \in At(t, M) : i + 1 \in At(s, M) /\ t[i] = s[i + 1] /\ i + 1 # 1 /\ i \in DOMAIN t
  BY <1>1 DEF At
<1>3. \A i \in At(s, M) : i = 1 \/ (i - 1 \in At(t, M) /\ t[i - 1] = s[i])
  BY <1>1 DEF At
<1>4. 1 \in At(s, M) <=> Head(s) \in M
  BY <1>1 DEF At
<1>5. Of(s, M) = Of(t, M) \cup ({Head(s)} \cap M)
  <2>1. ASSUME NEW e \in Of(s, M) PROVE e \in Of(t, M) \cup ({Head(s)} \cap M)
    BY <1>1, <1>3, <1>4, <2>1 DEF Of
  <2>2. ASSUME NEW e \in Of(t, M) PROVE e \in Of(s, M)
    BY <1>2, <2>2 DEF Of
  <2>3. Head(s) \in M => Head(s) \in Of(s, M)
    BY <1>1, <1>4 DEF Of
  <2> QED
    BY <2>1, <2>2, <2>3
<1>6. ASSUME Alone(s, M) PROVE Alone(t, M) /\ (Head(s) \in M => Of(t, M) = {})
  <2>1. Alone(t, M)
    BY <1>1, <1>2, <1>6 DEF Alone
  <2>2. Head(s) \in M => At(t, M) = {}
    BY <1>2, <1>4, <1>6 DEF Alone
  <2> QED
    BY <2>1, <2>2 DEF Of
<1>7. ASSUME Apart(s, M) PROVE Apart(t, M) /\ Head(s) \notin Of(t, M)
  <2>1. Apart(t, M)
    BY <1>1, <1>2, <1>7 DEF Apart
  <2>2. ASSUME NEW i \in At(t, M), t[i] = Head(s) PROVE FALSE
    <3>1. Head(s) \in M
      BY <2>2 DEF At
    <3> QED
      BY <1>1, <1>2, <1>4, <1>7, <2>2, <3>1 DEF Apart
  <2> QED
    BY <2>1, <2>2 DEF Of
<1> QED
  BY <1>5, <1>6, <1>7 DEF t

\* Before the first late one, every request ends with an answer of its kind.
LEMMA OnTime ==
    ASSUME Typed, Next, ~late'
    PROVE  ~late /\ ~TimeOut /\ (TakeAnswer => answer.kind = ui.kind /\ answer # NoAnswer)
<1>1. late \in BOOLEAN
  BY DEF Typed, HistoryTyped
<1> QED
  BY <1>1, LateSteps DEF TimeOut, TakeAnswer

\* An answer that the server has just computed, to the request of the UI thread.
Computed(a) ==
    \E r \in OurRequests :
       /\ Serve /\ r = Head(requests) /\ a \in Answers(r)
       /\ ui.pc = "wait" /\ r.kind = ui.kind /\ r.arg = ui.arg /\ r.message = ui.message

\* The first part of a history that was under way.
Parted(a) ==
    \E b \in Flight :
       /\ a \in Replies /\ a.kind = b.kind /\ a.kind \in HistoryKinds /\ a.part
       /\ a.data \in Seq(Messages) /\ EntriesOf(a.data) \subseteq EntriesOf(b.data)
       /\ Distinct(b.data) => Distinct(a.data)

\* There is one request of the UI thread at a time, and one answer to it.
LEMMA NextExchange ==
    ASSUME Typed, Next, ~late', Exchange
    PROVE  /\ Exchange'
           /\ \A a \in Flight' : /\ UNCHANGED <<ui, chat>>
                                 /\ a \in Flight \/ Computed(a) \/ Parted(a)
<1>1. /\ ThreadsTyped /\ ServerTyped /\ requests \in Seq(Requests) /\ wire \in Seq(Lines)
      /\ answer \in Replies \cup {NoAnswer}
      /\ ui.pc = "wait" => ui.kind \notin {"none", "user_info", "rest"}
      /\ serving \in {a \in Replies : a.kind \in HistoryKinds \cup {"send_dm"}} \cup {NoAnswer}
      /\ NoAnswer \notin Replies
  BY ConstantsTyped DEF Typed, ThreadsTyped, UITyped, UIType, ListenerTyped, ServerTyped,
     Kinds, HistoryKinds, SendKinds
<1>2. serving \in OurReplies \cup {NoAnswer}
  BY <1>1 DEF OurReplies, HistoryKinds
<1>3. CASE UNCHANGED <<requests, wire, serving, answer, ui, chat>>
  BY <1>3 DEF Exchange, Asked, Flight, InWire, InServing, InSlot
<1>4. ASSUME ui.pc # "wait", ui'.pc # "wait", UNCHANGED <<requests, wire, serving>>
      PROVE  Exchange' /\ Flight' = {}
  <2>1. Asked = {} /\ Flight = {}
    BY <1>4 DEF Exchange
  <2>2. Asked' = {} /\ Flight' = {}
    BY <1>4, <2>1 DEF Asked, Flight, InWire, InServing, InSlot
  <2> QED
    BY <1>4, <2>2 DEF Exchange, Flight
<1>5. ASSUME NEW r, Asking(r) PROVE Exchange' /\ Flight' = {}
  <2>1. /\ r \in Requests /\ r \in OurRequests /\ ui.pc # "wait"
        /\ ui'.pc = "wait" /\ ui'.kind = r.kind /\ ui'.arg = r.arg /\ ui'.message = r.message
        /\ answer' = NoAnswer /\ UNCHANGED <<wire, serving>>
    BY <1>5, AskFacts DEF Asking, OurRequests
  <2>2. r = [kind |-> r.kind, arg |-> r.arg, message |-> r.message]
    BY <2>1 DEF Requests
  <2>3. requests' = Append(requests, r)
    BY <1>5, <2>2, AskFacts DEF Asking
  <2>4. Asked = {} /\ Flight = {}
    BY <2>1 DEF Exchange
  <2>5. Asked' = {r} /\ Alone(requests, OurRequests)'
    BY <1>1, <2>1, <2>3, <2>4, OfAppend DEF Asked, Exchange
  <2>6. Flight' = {} /\ Alone(wire, OurReplies)'
    BY <1>1, <2>1, <2>4 DEF Flight, InWire, InServing, InSlot, OurReplies, Exchange
  <2> QED
    BY <2>1, <2>2, <2>5, <2>6 DEF Exchange, Flight
<1>6. ASSUME TakeAnswer PROVE Exchange' /\ Flight' = {}
  <2>1. PICK ok, data : Good(ok, data)
    BY <1>1, <1>6, Outcome
  <2>2. UNCHANGED <<requests, wire, serving>> /\ ui.pc = "wait"
    BY <2>1, AfterFacts DEF server
  <2>3. ui'.pc # "wait"
    BY <2>1, AfterFacts
       DEF Filling, NoContacts, RoomsKnown, HistoryKnown, SentShown, SentNotShown, Searched
  <2>4. answer.kind = ui.kind /\ answer \in Replies
    BY <1>1, <1>6, OnTime
  <2>5. answer \in InSlot
    BY <1>1, <2>2, <2>4 DEF InSlot, OurReplies
  <2>6. Asked = {} /\ InWire = {} /\ InServing = {}
    BY <2>5 DEF Exchange, Flight
  <2>7. Asked' = {} /\ Flight' = {}
    BY <2>2, <2>3, <2>6 DEF Asked, Flight, InWire, InServing, InSlot
  <2> QED
    BY <2>2, <2>7 DEF Exchange, Flight
<1>7. ASSUME AskName, UNCHANGED <<ui, chat>>, listener.message.from \in Nat
      PROVE  Exchange' /\ Flight' \subseteq Flight
  <2>1. PICK r : r = [kind |-> "user_info", arg |-> listener.message.from, message |-> NoMessage]
    OBVIOUS
  <2>2. r \in Requests /\ r \notin OurRequests /\ requests' = Append(requests, r)
        /\ answer' = NoAnswer /\ UNCHANGED <<wire, serving>>
    BY <1>7, <2>1 DEF AskName, Requests, ToMe, Kinds, SendKinds, OurRequests
  <2>3. Asked' = Asked /\ Alone(requests, OurRequests)'
    <3>1. Alone(requests, OurRequests)
      BY DEF Exchange
    <3>2. /\ Of(requests', OurRequests) = Of(requests, OurRequests) \cup ({r} \cap OurRequests)
          /\ Alone(requests', OurRequests)
      BY <1>1, <2>2, <3>1, OfAppend
    <3> QED
      BY <2>2, <3>2 DEF Asked
  <2>4. InWire' = InWire /\ InServing' = InServing /\ InSlot' = {}
    BY <1>1, <2>2 DEF InWire, InServing, InSlot, OurReplies
  <2> QED
    BY <1>7, <2>2, <2>3, <2>4 DEF Exchange, Flight
<1>8. CASE WriteContact \/ PutMessage
  <2>1. UNCHANGED <<ui, chat>>
    BY <1>8 DEF WriteContact, PutMessage
  <2>2. listener.message \in Pushed
    BY <1>1, <1>8, ListenerFields DEF ThreadsTyped, ListenerTyped
  <2>3. listener.message.from \in Nat
    BY <2>2, ConstantsTyped DEF Pushed, Messages
  <2>4. AskName \/ UNCHANGED <<requests, wire, serving, answer>>
    BY <1>8 DEF WriteContact, PutMessage, server
  <2> QED
    BY <1>3, <1>7, <2>1, <2>3, <2>4
<1>9. CASE ReceiveAnswer
  <2>1. /\ wire # <<>> /\ wire' = Tail(wire) /\ answer' = Head(wire)
        /\ UNCHANGED <<ui, chat, requests, serving>>
    BY <1>9 DEF ReceiveAnswer, Received
  <2>2. /\ InWire = InWire' \cup ({answer'} \cap OurReplies)
        /\ Alone(wire, OurReplies)' /\ (answer' \in OurReplies => InWire' = {})
    BY <1>1, <2>1, OfTail DEF InWire, Exchange
  <2>3. InSlot' = {answer'} \cap OurReplies \/ InSlot' = {}
    BY DEF InSlot
  <2>4. Asked' = Asked /\ InServing' = InServing /\ Alone(requests, OurRequests)'
    BY <2>1 DEF Asked, InServing, Exchange
  <2>5. Flight' \subseteq Flight
    BY <2>2, <2>3, <2>4 DEF Flight
  <2> QED
    BY <2>1, <2>2, <2>3, <2>4, <2>5 DEF Exchange, Flight
<1>10. CASE ReceivePush
  <2>1. /\ wire # <<>> /\ wire' = Tail(wire) /\ Head(wire).what = "push"
        /\ UNCHANGED <<ui, chat, requests, serving, answer>>
    BY <1>10 DEF ReceivePush, Received
  <2>2. Head(wire) \notin OurReplies
    BY <2>1 DEF OurReplies, Replies
  <2>3. InWire' = InWire /\ Alone(wire, OurReplies)'
    <3>1. Alone(wire, OurReplies)
      BY DEF Exchange
    <3>2. /\ Of(wire, OurReplies) = Of(wire', OurReplies) \cup ({Head(wire)} \cap OurReplies)
          /\ Alone(wire', OurReplies)
      BY <1>1, <2>1, <3>1, OfTail
    <3> QED
      BY <2>2, <3>2 DEF InWire
  <2>4. Asked' = Asked /\ InServing' = InServing /\ InSlot' = InSlot
        /\ Alone(requests, OurRequests)'
    BY <2>1 DEF Asked, InServing, InSlot, Exchange
  <2> QED
    BY <2>1, <2>3, <2>4 DEF Exchange, Flight
<1>11. CASE Serve
  <2>1. PICK r : r = Head(requests)
    OBVIOUS
  <2>2. /\ requests # <<>> /\ requests' = Tail(requests) /\ serving = NoAnswer
        /\ UNCHANGED <<ui, chat, answer>>
    BY <1>11 DEF Serve
  <2>3. r \in Requests
    <3> HIDE DEF Requests
    <3> QED
      BY <1>1, <2>1, <2>2
  <2>4. PICK a \in Answers(r) :
           \/ /\ serving' = a /\ r.kind # "user_info"
              /\ UNCHANGED wire \/ (ToMe(r) /\ wire' = Append(wire, Push(r.message)))
           \/ wire' = Append(wire, a) /\ UNCHANGED serving
    BY <1>11, <2>1 DEF Serve, ToMe
  <2>5. a \in Replies /\ a.kind = r.kind /\ a.kind # "rest" /\ a \in Lines /\ a # NoAnswer
    BY <1>1, <2>3, <2>4, AnswersTyped DEF Lines, Kinds, HistoryKinds, SendKinds
  <2>6. /\ Asked = Asked' \cup ({r} \cap OurRequests)
        /\ Alone(requests, OurRequests)' /\ (r \in OurRequests => Asked' = {})
    BY <1>1, <2>1, <2>2, OfTail DEF Asked, Exchange
  <2>7. InServing = {} /\ InSlot' = InSlot
    BY <2>2 DEF InServing, InSlot
  <2>8. CASE r \notin OurRequests
    <3>1. r.kind = "user_info" /\ a \notin OurReplies
      BY <2>3, <2>5, <2>8 DEF OurRequests, OurReplies
    <3>2. wire' = Append(wire, a) /\ UNCHANGED serving
      BY <2>4, <3>1
    <3>3. InWire' = InWire /\ Alone(wire, OurReplies)'
      <4>1. Alone(wire, OurReplies)
        BY DEF Exchange
      <4>2. /\ Of(wire', OurReplies) = Of(wire, OurReplies) \cup ({a} \cap OurReplies)
            /\ Alone(wire', OurReplies)
        <5>1. wire \in Seq(Lines) /\ a \in Lines /\ a \notin OurReplies
              /\ wire' = Append(wire, a)
          BY <1>1, <2>5, <3>1, <3>2
        <5> QED
          BY <4>1, <5>1, OfAppend
      <4> QED
        BY <3>1, <4>2 DEF InWire
    <3>4. InServing' = InServing /\ Asked' = Asked
      BY <2>6, <2>8, <3>2 DEF InServing
    <3> QED
      BY <2>2, <2>6, <2>7, <3>3, <3>4 DEF Exchange, Flight
  <2>9. CASE r \in OurRequests
    <3>1. /\ Asked # {} /\ Flight = {} /\ Asked' = {}
          /\ ui.pc = "wait" /\ r.kind = ui.kind /\ r.arg = ui.arg /\ r.message = ui.message
      BY <2>6, <2>9 DEF Exchange
    <3>2. Computed(a)
      BY <1>11, <2>1, <2>4, <2>9, <3>1 DEF Computed
    <3>3. InWire = {} /\ InSlot' = {}
      BY <2>7, <3>1 DEF Flight
    <3>4. CASE /\ serving' = a
               /\ UNCHANGED wire \/ (ToMe(r) /\ wire' = Append(wire, Push(r.message)))
      <4>3. InWire' = {} /\ Alone(wire, OurReplies)'
        <5>1. CASE UNCHANGED wire
          BY <3>3, <5>1 DEF InWire, Exchange
        <5>2. CASE ToMe(r) /\ wire' = Append(wire, Push(r.message))
          <6>1. PICK l : l = Push(r.message)
            OBVIOUS
          <6>2. l \in Lines /\ l \notin OurReplies
            BY <2>3, <5>2, <6>1 DEF Requests, Lines, Pushes, Push, OurReplies, Replies
          <6>3. wire' = Append(wire, l) /\ Alone(wire, OurReplies) /\ Of(wire, OurReplies) = {}
            BY <3>3, <5>2, <6>1 DEF InWire, Exchange
          <6>4. /\ Of(wire', OurReplies) = Of(wire, OurReplies) \cup ({l} \cap OurReplies)
                /\ Alone(wire', OurReplies)
            BY <1>1, <6>2, <6>3, OfAppend
          <6> QED
            BY <6>2, <6>3, <6>4 DEF InWire
        <5> QED
          BY <3>4, <5>1, <5>2
      <4>1. InWire' = {} /\ InServing' = {a} /\ Alone(wire, OurReplies)'
        BY <2>5, <3>4, <4>3 DEF InServing
      <4>2. Flight' = {a}
        BY <3>3, <4>1 DEF Flight
      <4> QED
        BY <2>2, <2>5, <2>6, <3>1, <3>2, <3>3, <4>1, <4>2 DEF Exchange
    <3>5. CASE wire' = Append(wire, a) /\ UNCHANGED serving
      <4>1. a \in OurReplies
        BY <2>5, <2>9 DEF OurReplies, OurRequests
      <4>2. InWire' = {a} /\ InServing' = {} /\ Alone(wire, OurReplies)'
        <5>1. Alone(wire, OurReplies) /\ Of(wire, OurReplies) = {}
          BY <3>3 DEF InWire, Exchange
        <5>2. /\ Of(wire', OurReplies) = Of(wire, OurReplies) \cup ({a} \cap OurReplies)
              /\ Alone(wire', OurReplies)
          BY <1>1, <2>5, <3>5, <5>1, OfAppend
        <5> QED
          BY <2>2, <3>5, <4>1, <5>1, <5>2 DEF InWire, InServing
      <4>3. Flight' = {a}
        BY <3>3, <4>2 DEF Flight
      <4> QED
        BY <2>2, <2>5, <2>6, <3>1, <3>2, <3>3, <4>2, <4>3 DEF Exchange
    <3> QED
      BY <2>4, <3>4, <3>5
  <2> QED
    BY <2>8, <2>9
<1>12. CASE Reply
  <2>1. /\ serving # NoAnswer /\ wire' = Append(wire, serving) /\ serving' = NoAnswer
        /\ UNCHANGED <<ui, chat, requests, answer>>
    BY <1>12 DEF Reply
  <2>2. serving \in OurReplies /\ serving \in Lines /\ InServing = {serving}
    BY <1>1, <1>2, <2>1 DEF Lines, InServing
  <2>3. InWire = {} /\ InSlot = {} /\ Asked = {}
    BY <2>2 DEF Exchange, Flight
  <2>4. InWire' = {serving} /\ Alone(wire, OurReplies)'
    BY <1>1, <2>1, <2>2, <2>3, OfAppend DEF InWire, Exchange
  <2>5. InServing' = {} /\ InSlot' = {} /\ Asked' = {} /\ Alone(requests, OurRequests)'
    BY <2>1, <2>3 DEF InServing, InSlot, Asked, Exchange
  <2>6. Flight' = Flight
    BY <2>2, <2>3, <2>4, <2>5 DEF Flight
  <2> QED
    BY <2>1, <2>4, <2>5, <2>6 DEF Exchange
<1>13. CASE PushMessage
  <2>1. PICK m \in pending : wire' = Append(wire, Push(m))
    BY <1>13 DEF PushMessage
  <2>2. UNCHANGED <<ui, chat, requests, serving, answer>>
    BY <1>13 DEF PushMessage
  <2>3. PICK p : p = Push(m)
    OBVIOUS
  <2>4. p \in Lines /\ p \notin OurReplies
    BY <1>1, <2>3 DEF Lines, Pushes, Push, OurReplies, Replies, ServerTyped
  <2>5. InWire' = InWire /\ Alone(wire, OurReplies)'
    <3>1. wire' = Append(wire, p) /\ Alone(wire, OurReplies)
      BY <2>1, <2>3 DEF Exchange
    <3>2. /\ Of(wire', OurReplies) = Of(wire, OurReplies) \cup ({p} \cap OurReplies)
          /\ Alone(wire', OurReplies)
      BY <1>1, <2>4, <3>1, OfAppend
    <3> QED
      BY <2>4, <3>2 DEF InWire
  <2>6. Asked' = Asked /\ InServing' = InServing /\ InSlot' = InSlot
        /\ Alone(requests, OurRequests)'
    BY <2>2 DEF Asked, InServing, InSlot, Exchange
  <2> QED
    BY <2>2, <2>5, <2>6 DEF Exchange, Flight
<1>14. CASE ReceivePart
  <2>1. PartReceived
    BY <1>1, <1>14, PartFacts
  <2>2. /\ wire[1] \in OurReplies /\ answer' \in OurReplies /\ Rest \notin OurReplies
        /\ UNCHANGED <<ui, chat, requests, serving>>
    BY <2>1 DEF PartReceived, OurReplies, HistoryKinds
  <2>3. At(wire, OurReplies) = {1}
    BY <2>1, <2>2 DEF PartReceived, At, Alone, Exchange
  <2>4. InWire = {wire[1]}
    BY <2>3 DEF InWire, Of
  <2>5. At(wire', OurReplies) = {}
    <3>1. \A i \in At(wire', OurReplies) : i \in At(wire, OurReplies) /\ i # 1
      BY <2>1, <2>2 DEF PartReceived, At
    <3> QED
      BY <2>3, <3>1
  <2>6. InWire' = {} /\ Alone(wire, OurReplies)'
    BY <2>5 DEF InWire, Of, Alone
  <2>7. ui.pc = "wait" /\ Asked = {} /\ InServing = {} /\ wire[1].kind = ui.kind
    BY <2>4 DEF Exchange, Flight
  <2>8. Asked' = {} /\ InServing' = {} /\ InSlot' = {answer'} /\ Alone(requests, OurRequests)'
    BY <2>2, <2>7 DEF Asked, InServing, InSlot, Exchange
  <2>9. Flight' = {answer'}
    BY <2>6, <2>8 DEF Flight
  <2>10. Parted(answer')
    BY <2>1, <2>4 DEF Parted, PartReceived, Flight
  <2>11. answer'.kind = ui'.kind /\ ui'.pc = "wait"
    BY <2>1, <2>2, <2>7 DEF PartReceived
  <2> QED
    BY <2>2, <2>6, <2>8, <2>9, <2>10, <2>11 DEF Exchange
<1>15. \/ UNCHANGED <<requests, wire, serving, answer, ui, chat>>
       \/ ui.pc # "wait" /\ ui'.pc # "wait" /\ UNCHANGED <<requests, wire, serving>>
       \/ TakeAnswer \/ WriteContact \/ PutMessage \/ ReceiveAnswer \/ ReceivePart
       \/ ReceivePush \/ Serve \/ Reply \/ PushMessage \/ \E r : Asking(r)
  <2>1. CASE \/ FillContact \/ LoadMessage \/ PutLoaded \/ CountLoaded \/ NamesKnown
             \/ CountOwn \/ CountContact \/ ShowChat \/ StartChat
    <3>1. ui.pc # "wait" /\ ui'.pc # "wait"
      BY <2>1, UIFields
    <3> QED
      BY <2>1, <3>1 DEF FillContact, LoadMessage, PutLoaded, CountLoaded, NamesKnown, CountOwn, CountContact, ShowChat,
         StartChat, server
  <2>2. CASE NewChat \/ LoadContactCount \/ StoreContactCount \/ CheckChat \/ LoadListCount
             \/ StoreListCount \/ \E u \in Users, c \in Chats : UserSends(u, c)
    BY <2>2 DEF NewChat, LoadContactCount, StoreContactCount, CheckChat, LoadListCount,
       StoreListCount, UserSends, server
  <2> QED
    BY <2>1, <2>2, Asks, OnTime DEF Next, UIStep, ListenerStep, ServerStep
<1> QED
  BY <1>3, <1>4, <1>5, <1>6, <1>8, <1>9, <1>10, <1>11, <1>12, <1>13, <1>14, <1>15

-----------------------------------------------------------------------------
(***************************************************************************)
(* The messages of the open chat                                           *)
(***************************************************************************)

\* A history that is under way is that of the open chat.
LEMMA NextHistoryRight ==
    ASSUME Typed, Next, ~late', Exchange, HistoryRight
    PROVE  HistoryRight'
<1> SUFFICES ASSUME NEW a \in Flight', a.kind \in HistoryKinds
             PROVE  a.ok /\ \A m \in EntriesOf(a.data) : m.to = chat'
  BY DEF HistoryRight
<1>1. UNCHANGED <<ui, chat>> /\ (a \in Flight \/ Computed(a) \/ Parted(a))
  BY NextExchange
<1>2. CASE a \in Flight
  BY <1>1, <1>2 DEF HistoryRight
<1>4. CASE Parted(a)
  <2>1. a.ok
    BY <1>4 DEF Parted, Replies
  <2> QED
    BY <1>1, <1>4, <2>1 DEF Parted, HistoryRight
<1>3. CASE Computed(a)
  <2>1. PICK r \in OurRequests :
           a \in Answers(r) /\ ui.pc = "wait" /\ r.kind = ui.kind /\ r.arg = ui.arg
    BY <1>3 DEF Computed
  <2>2. r \in Requests /\ ServerTyped /\ ChatKnown
    BY DEF OurRequests, Typed
  <2>3. a.kind = r.kind
    BY <2>1, <2>2, AnswersTyped
  <2>4. a.ok /\ a.data = History([id |-> r.arg, room |-> r.kind = "group_history"])
    BY <2>1, <2>2, <2>3, AnswersTyped
  <2>5. chat = [id |-> r.arg, room |-> r.kind = "group_history"]
    <3>1. CASE r.kind = "history"
      BY <2>1, <2>2, <3>1 DEF ChatKnown, DM
    <3>2. CASE r.kind = "group_history"
      BY <2>1, <2>2, <3>2 DEF ChatKnown, Room
    <3> QED
      BY <2>3, <3>1, <3>2 DEF HistoryKinds
  <2>6. a.data = History(chat)
    BY <2>4, <2>5
  <2>7. \A m \in EntriesOf(a.data) : m.to = chat
    BY <2>2, <2>6, HistoryFacts DEF ServerTyped
  <2> QED
    BY <1>1, <2>4, <2>7
<1> QED
  BY <1>1, <1>2, <1>3, <1>4

\* What mixed records.
LEMMA MixedSteps ==
    ASSUME Typed, Next, ~mixed'
    PROVE  \/ Emptied /\ ~ListenerChangesList'
           \/ ~Emptied /\ ~mixed /\ ~(UIChangesList' /\ ListenerChangesList')
BY DEF Next, Observe, Typed, HistoryTyped

\* The answer that a request ends with on time was under way.
LEMMA TakenFlight ==
    ASSUME Typed, NEW ok, NEW data, Good(ok, data), ok
    PROVE  answer \in Flight /\ answer.kind = ui.kind /\ data = answer.data
<1>1. answer \in Replies /\ answer.kind = ui.kind /\ data = answer.data /\ ui.pc = "wait"
  BY DEF Good
<1>2. ui.kind # "user_info"
  BY <1>1 DEF Typed, ThreadsTyped, UITyped
<1>3. ui.kind # "rest"
  BY DEF Typed, ThreadsTyped, UITyped, UIType, Kinds, HistoryKinds, SendKinds
<1> QED
  BY <1>1, <1>2, <1>3 DEF Flight, InSlot, OurReplies

\* The rows of the list, step by step.
LEMMA NextRowsRight ==
    ASSUME Typed, Next, ~late', Exchange, HistoryRight, ListRight, ~mixed', ~OpeningWait'
    PROVE  RowsRight'
<1>1. /\ list.count \in Nat /\ MaxShown \in Nat /\ NoMessage \notin Messages
      /\ list.count <= MaxShown + 1
  BY ChatScreenAssumption, ConstantsTyped DEF Typed, ListsTyped, ListBound, UIMessage
<1>2. CASE Emptied
  <2>1. ~ListenerChangesList' /\ ui'.pc \notin {"count_own", "put", "count_loaded"}
    BY <1>2, MixedSteps DEF Emptied
  <2>2. list'.count = 0
    <3>1. ASSUME NEW ok, NEW data, Good(ok, data), ui'.pc = "load" PROVE list'.count = 0
      BY <3>1, AfterFacts DEF Filling, NoContacts, RoomsKnown, HistoryKnown, SentShown,
         SentNotShown, Searched
    <3>2. TakeAnswer \/ TimeOut => ui.pc = "wait"
      BY DEF TakeAnswer, TimeOut
    <3>3. ASSUME NEW r, Asking(r) PROVE ui.pc \notin {"wait", "show"}
      BY <3>3 DEF Asking
    <3>4. ListenerStep \/ ServerStep \/ NewChat => UNCHANGED ui
      BY DEF NewChat, ListenerStep, ReceiveAnswer, ReceivePart, ReceivePush, WriteContact, LoadContactCount,
         StoreContactCount, CheckChat, PutMessage, LoadListCount, StoreListCount,
         ServerStep, Serve, Reply, PushMessage, UserSends
    <3>5. TakeAnswer \/ TimeOut \/ ShowChat
      <4>1. UNCHANGED ui => ~Emptied
        BY DEF Emptied
      <4>2. FillContact \/ LoadMessage \/ PutLoaded \/ CountLoaded \/ NamesKnown \/ CountOwn
            \/ CountContact \/ StartChat => ui.pc \notin {"wait", "show"}
        BY UIFields
      <4> QED
        BY <1>2, <3>3, <3>4, <4>1, <4>2, Asks DEF Next, UIStep, Emptied
    <3>6. CASE TakeAnswer \/ TimeOut
      <4>1. PICK ok, data : Good(ok, data)
        BY <3>6, Outcome DEF Typed
      <4> QED
        BY <1>2, <3>1, <3>2, <3>6, <4>1 DEF Emptied
    <3>7. CASE ShowChat
      BY <3>7, UIFields
    <3> QED
      BY <3>5, <3>6, <3>7
  <2> QED
    BY <2>1, <2>2 DEF RowsRight
<1> SUFFICES ASSUME ~Emptied PROVE RowsRight'
  BY <1>2
<1>3. ~mixed /\ ~(UIChangesList' /\ ListenerChangesList')
  BY MixedSteps
<1>4. ~OpeningWait => RowsRight
  BY <1>3 DEF ListRight
<1>5. CASE UNCHANGED <<list, chat, listener, ui>>
  BY <1>4, <1>5 DEF RowsRight, OpeningWait, ListenerChangesList, UIChangesList
\* The UI thread does not touch the list.
<1>6. ASSUME UNCHANGED <<list, chat, listener>>, ~OpeningWait, ~UIChangesList'
      PROVE  RowsRight'
  BY <1>4, <1>6 DEF RowsRight, ListenerChangesList, UIChangesList
\* The listener does not touch it.
<1>7. ASSUME UNCHANGED <<list, chat, ui>>, ~ListenerChangesList' PROVE RowsRight'
  BY <1>4, <1>7 DEF RowsRight, OpeningWait
<1>8. ASSUME NEW r, Asking(r) PROVE RowsRight'
  <2>1. r.kind \notin HistoryKinds /\ ui.pc # "wait" /\ ui'.pc = "wait"
    BY <1>8, AskFacts DEF Asking, OpeningWait
  <2> QED
    BY <1>6, <1>8, <2>1 DEF Asking, OpeningWait, UIChangesList
<1>9. ASSUME TakeAnswer \/ TimeOut PROVE RowsRight'
  <2>1. PICK ok, data : Good(ok, data)
    BY <1>9, Outcome DEF Typed
  <2>2. UNCHANGED <<chat, listener>> /\ ui.pc = "wait"
    BY <2>1, AfterFacts
  <2>3. ~HistoryKnown(ok, data)
    BY <2>2 DEF HistoryKnown, Emptied
  <2>4. CASE SentShown(ok)
    <3>1. ~OpeningWait /\ ~UIChangesList /\ UIChangesList'
      BY <2>2, <2>4 DEF SentShown, OpeningWait, SendKinds, HistoryKinds, UIChangesList
    <3>2. \A j \in 1..list.count : j \in 1..MaxShown + 1 /\ j # list.count + 1
      BY <1>1
    <3>3. list.count + 1 \in 1..MaxShown + 1
      BY <1>1, <2>4 DEF SentShown
    <3> QED
      BY <1>3, <1>4, <2>2, <2>4, <3>1, <3>2, <3>3 DEF RowsRight, SentShown, UIChangesList
  <2>5. CASE Filling(ok, data) \/ NoContacts(ok, data) \/ RoomsKnown \/ SentNotShown(ok)
             \/ Searched(ok, data)
    <3>1. UNCHANGED list /\ ~UIChangesList' /\ ui.kind \notin HistoryKinds
      BY <2>5 DEF Filling, NoContacts, RoomsKnown, SentNotShown, Searched, UIChangesList,
         HistoryKinds, SendKinds
    <3> QED
      BY <1>6, <2>2, <3>1 DEF OpeningWait
  <2> QED
    BY <2>1, <2>3, <2>4, <2>5, AfterFacts
<1>10. CASE FillContact \/ NamesKnown \/ CountContact \/ StartChat
  <2>1. UNCHANGED <<list, chat, listener>>
    BY <1>10 DEF FillContact, NamesKnown, CountContact, StartChat
  <2>2. ~UIChangesList' /\ ~OpeningWait
    BY <1>10, UIFields DEF UIChangesList, OpeningWait
  <2> QED
    BY <1>6, <2>1, <2>2
<1>11. CASE LoadMessage
  <2>1. UNCHANGED <<list, chat, listener>> /\ ~OpeningWait /\ ui.pc = "load" /\ RowsRight
    BY <1>4, <1>11, UIFields DEF LoadMessage, OpeningWait
  <2>2. CASE ui'.pc \in {"names", "idle"}
    BY <1>6, <2>1, <2>2 DEF UIChangesList
  <2>3. CASE ui'.pc = "put" /\ list.count < MaxShown
    <3>1. ~ListenerChangesList'
      BY <1>3, <2>3 DEF UIChangesList
    <3> QED
      BY <2>1, <2>3, <3>1 DEF RowsRight
  <2> QED
    BY <1>11, <2>2, <2>3, UIFields
<1>20. CASE PutLoaded
  <2>1. /\ UNCHANGED <<chat, listener>> /\ ~OpeningWait /\ ui.pc = "put" /\ RowsRight
        /\ ui'.pc = "count_loaded" /\ ui.todo # <<>> /\ list'.count = list.count
        /\ \A j \in 1..MaxShown + 1 : list'.slot[j] =
              IF j = list.count + 1 THEN Head(ui.todo) ELSE list.slot[j]
    BY <1>4, <1>20, UIFields DEF PutLoaded, OpeningWait
  <2>2. ui.todo \in Seq(Messages)
    BY <2>1 DEF Typed, ThreadsTyped, UITyped, Replaying
  <2>3. Head(ui.todo) \in Messages /\ Head(ui.todo) \in EntriesOf(ui.todo)
    BY <2>1, <2>2, TailFacts
  <2>4. Head(ui.todo).to = chat /\ Head(ui.todo) # NoMessage
    BY <1>1, <2>1, <2>3 DEF ListRight, Replaying
  <2>5. list.count < MaxShown
    BY <2>1 DEF RowsRight
  <2>6. /\ list.count + 1 \in 1..MaxShown + 1
        /\ \A j \in 1..list.count : j \in 1..MaxShown + 1 /\ j # list.count + 1
    BY <1>1, <2>5
  <2>7. ~ListenerChangesList'
    BY <1>3, <2>1 DEF UIChangesList
  <2>8. list'.slot[list'.count + 1] = Head(ui.todo)
    BY <2>1, <2>6
  <2>9. ASSUME NEW j \in 1..list'.count PROVE list'.slot[j] # NoMessage /\ list'.slot[j].to = chat'
    <3>1. list'.slot[j] = list.slot[j] /\ j \in 1..list.count
      BY <2>1, <2>6
    <3> QED
      BY <2>1, <3>1 DEF RowsRight
  <2> QED
    BY <2>1, <2>4, <2>5, <2>7, <2>8, <2>9 DEF RowsRight
<1>21. CASE CountLoaded
  <2>1. /\ UNCHANGED <<chat, listener>> /\ ~OpeningWait /\ ui.pc = "count_loaded" /\ RowsRight
        /\ ui'.pc = "load" /\ list'.count = list.count + 1 /\ list'.slot = list.slot
    BY <1>4, <1>21, UIFields DEF CountLoaded, OpeningWait
  <2>2. ~ListenerChangesList'
    BY <1>3, <2>1 DEF UIChangesList
  <2>3. \A j \in 1..list.count + 1 : j \in 1..list.count \/ j = list.count + 1
    BY <1>1
  <2>4. ASSUME NEW j \in 1..list'.count PROVE list'.slot[j] # NoMessage /\ list'.slot[j].to = chat'
    BY <2>1, <2>3 DEF RowsRight
  <2> QED
    BY <2>1, <2>2, <2>4 DEF RowsRight
<1>12. CASE CountOwn
  <2>1. UNCHANGED <<chat, listener>> /\ ~OpeningWait /\ ui.pc = "count_own" /\ UIChangesList
    BY <1>12, UIFields DEF CountOwn, OpeningWait, UIChangesList
  <2>2. RowsRight /\ list'.count = list.count + 1 /\ list'.slot = list.slot /\ ui'.pc = "idle"
    BY <1>4, <1>12, <2>1, UIFields
  <2>3. ~ListenerChangesList'
    BY <2>1, <2>2 DEF RowsRight, ListenerChangesList
  <2>4. ui.message \in Messages /\ ui.message.to = chat
    BY <2>1 DEF Typed, ChatKnown
  <2>5. \A j \in 1..list.count + 1 : j \in 1..list.count \/ j = list.count + 1
    BY <1>1
  <2>6. ASSUME NEW j \in 1..list'.count PROVE list'.slot[j] # NoMessage /\ list'.slot[j].to = chat'
    BY <1>1, <2>1, <2>2, <2>4, <2>5 DEF RowsRight
  <2> QED
    BY <2>2, <2>3, <2>6 DEF RowsRight
<1>13. CASE ShowChat
  BY <1>13, UIFields DEF Emptied
<1>14. CASE NewChat \/ ServerStep \/ ReceiveAnswer \/ ReceivePart
  BY <1>5, <1>14
     DEF NewChat, ServerStep, Serve, Reply, PushMessage, UserSends, ReceiveAnswer, ReceivePart
<1>15. CASE ReceivePush \/ WriteContact \/ LoadContactCount \/ StoreContactCount
  <2>1. UNCHANGED <<list, chat, ui>>
    BY <1>15 DEF ReceivePush, WriteContact, LoadContactCount, StoreContactCount
  <2>2. ~ListenerChangesList'
    BY <1>15, ListenerFields DEF ListenerChangesList
  <2> QED
    BY <1>7, <2>1, <2>2
<1>16. CASE CheckChat
  <2>1. UNCHANGED <<list, chat, ui>> /\ listener.pc = "check"
    BY <1>16, ListenerFields DEF CheckChat
  <2>2. CASE listener'.pc = "recv"
    BY <1>7, <2>1, <2>2 DEF ListenerChangesList
  <2>3. CASE /\ listener'.pc = "put" /\ listener'.message = listener.message
             /\ listener'.place = list.count + 1
             /\ listener.message.to = chat /\ list.count < MaxShown
    <3>1. RowsRight /\ ~UIChangesList'
      BY <1>3, <1>4, <2>1, <2>3 DEF OpeningWait, ListenerChangesList
    <3> QED
      BY <2>1, <2>3, <3>1 DEF RowsRight, UIChangesList
  <2> QED
    BY <1>16, <2>2, <2>3, ListenerFields
<1>17. CASE PutMessage
  <2>1. /\ UNCHANGED <<chat, ui>> /\ listener.pc = "put" /\ listener'.pc = "load_list"
        /\ listener'.message = listener.message /\ list'.count = list.count
        /\ \A j \in 1..MaxShown + 1 : list'.slot[j] =
              IF j = listener.place THEN listener.message ELSE list.slot[j]
    BY <1>17, ListenerFields DEF PutMessage
  <2>2. RowsRight /\ ListenerChangesList /\ ListenerChangesList'
    BY <1>4, <2>1 DEF OpeningWait, ListenerChangesList
  <2>3. listener.place = list.count + 1 /\ list.count < MaxShown /\ listener.message.to = chat
        /\ ~UIChangesList
    BY <2>1, <2>2 DEF RowsRight
  <2>4. /\ \A j \in 1..list.count : j \in 1..MaxShown + 1 /\ j # list.count + 1
        /\ list.count + 1 \in 1..MaxShown + 1
    BY <1>1, <2>3
  <2> QED
    BY <2>1, <2>2, <2>3, <2>4 DEF RowsRight, UIChangesList
<1>18. CASE LoadListCount
  <2>1. /\ UNCHANGED <<list, chat, ui>> /\ listener.pc = "load_list" /\ listener'.pc = "store_list"
        /\ listener'.message = listener.message /\ listener'.seen = list.count
    BY <1>18, ListenerFields DEF LoadListCount
  <2>2. RowsRight /\ ListenerChangesList
    BY <1>4, <2>1 DEF OpeningWait, ListenerChangesList
  <2> QED
    BY <2>1, <2>2 DEF RowsRight, UIChangesList
<1>19. CASE StoreListCount
  <2>1. /\ UNCHANGED <<chat, ui>> /\ listener.pc = "store_list" /\ listener'.pc = "recv"
        /\ list'.count = listener.seen + 1 /\ list'.slot = list.slot
    BY <1>19, ListenerFields DEF StoreListCount
  <2>2. RowsRight /\ ListenerChangesList /\ ~ListenerChangesList'
    BY <1>4, <2>1 DEF OpeningWait, ListenerChangesList
  <2>3. /\ listener.message.to = chat /\ listener.seen = list.count
        /\ list.slot[list.count + 1] = listener.message /\ ~UIChangesList
    BY <2>1, <2>2 DEF RowsRight
  <2>4. listener.message \in Messages
    BY <2>1 DEF Typed, ThreadsTyped, ListenerTyped, Pushed
  <2>5. \A j \in 1..list.count + 1 : j \in 1..list.count \/ j = list.count + 1
    BY <1>1
  <2>6. ASSUME NEW j \in 1..list'.count PROVE list'.slot[j] # NoMessage /\ list'.slot[j].to = chat'
    BY <1>1, <2>1, <2>2, <2>3, <2>4, <2>5 DEF RowsRight
  <2> QED
    BY <2>1, <2>2, <2>3, <2>6 DEF RowsRight, UIChangesList
<1> QED
  BY <1>8, <1>9, <1>10, <1>11, <1>12, <1>13, <1>14, <1>15, <1>16, <1>17, <1>18, <1>19,
     <1>20, <1>21, Asks DEF Next, UIStep, ListenerStep

\* What is left of a history belongs to the open chat, and so does the list.
LEMMA NextListRight ==
    ASSUME Typed, Next, ~late', Exchange, HistoryRight, ListRight
    PROVE  ListRight'
<1>1. ~mixed' /\ ~OpeningWait' => RowsRight'
  BY NextRowsRight
<1> SUFFICES ASSUME Replaying' PROVE \A m \in EntriesOf(ui'.todo) : m.to = chat'
  BY <1>1 DEF ListRight
<1>2. EntriesOf(<<>>) = {}
  BY DEF EntriesOf
<1>3. CASE UNCHANGED <<ui, chat>>
  BY <1>3 DEF ListRight, Replaying
<1>4. ASSUME NEW r, Asking(r) PROVE FALSE
  BY <1>4, AskFacts DEF Asking, Replaying
<1>5. CASE TakeAnswer \/ TimeOut
  <2>1. PICK ok, data : Good(ok, data)
    BY <1>5, Outcome DEF Typed
  <2>2. HistoryKnown(ok, data) /\ UNCHANGED chat /\ ok \in BOOLEAN
    BY <2>1, AfterFacts
       DEF Filling, NoContacts, RoomsKnown, SentShown, SentNotShown, Searched, Good, Replaying
  <2>3. CASE ok
    <3>1. answer \in Flight /\ answer.kind \in HistoryKinds /\ ui'.todo = answer.data
      BY <2>1, <2>2, <2>3, TakenFlight DEF HistoryKnown
    <3> QED
      BY <2>2, <3>1 DEF HistoryRight
  <2>4. CASE ~ok
    BY <1>2, <2>2, <2>4 DEF HistoryKnown
  <2> QED
    BY <2>2, <2>3, <2>4
<1>6. CASE LoadMessage \/ CountLoaded
  <2>1. Replaying /\ ui'.todo = ui.todo /\ UNCHANGED chat
    BY <1>6, UIFields DEF LoadMessage, CountLoaded, Replaying
  <2> QED
    BY <2>1 DEF ListRight
<1>9. CASE PutLoaded
  <2>1. Replaying /\ ui.todo # <<>> /\ ui'.todo = Tail(ui.todo) /\ UNCHANGED chat
    BY <1>9, UIFields DEF PutLoaded, Replaying
  <2>2. ui.todo \in Seq(Messages)
    BY <2>1 DEF Typed, ThreadsTyped, UITyped
  <2>3. EntriesOf(Tail(ui.todo)) \subseteq EntriesOf(ui.todo)
    BY <2>1, <2>2, TailFacts
  <2> QED
    BY <2>1, <2>3 DEF ListRight
<1>7. FillContact \/ NamesKnown \/ CountOwn \/ CountContact \/ StartChat \/ ShowChat => FALSE
  BY UIFields DEF Replaying
<1>8. ListenerStep \/ ServerStep \/ NewChat => UNCHANGED <<ui, chat>>
  BY DEF NewChat, ListenerStep, ReceiveAnswer, ReceivePart, ReceivePush, WriteContact, LoadContactCount,
     StoreContactCount, CheckChat, PutMessage, LoadListCount, StoreListCount,
     ServerStep, Serve, Reply, PushMessage, UserSends
<1> QED
  BY <1>3, <1>4, <1>5, <1>6, <1>7, <1>8, <1>9, Asks DEF Next, UIStep

\* As long as no request was late, the answers are those of the open chat, and so is the list.
Belonging == ~late => Exchange /\ HistoryRight /\ ListRight

\* The answers and the list are those of the open chat, in any execution.
LEMMA AlwaysBelonging == Spec => []Belonging
<1>1. Init => Belonging
  <2> SUFFICES ASSUME Init PROVE Exchange /\ HistoryRight /\ ListRight
    BY DEF Belonging
  <2>1. ui.pc = "start" /\ listener.pc = "recv" /\ list.count = 0
    BY QuietFacts DEF Init
  <2>2. At(requests, OurRequests) = {} /\ At(wire, OurReplies) = {}
    BY DEF Init, At
  <2>3. Asked = {} /\ Flight = {}
    BY <2>1, <2>2 DEF Init, Asked, Flight, InWire, InServing, InSlot, Of
  <2> QED
    BY <2>1, <2>2, <2>3 DEF Exchange, HistoryRight, ListRight, RowsRight, Alone,
       Flight, ListenerChangesList, Replaying
<1>2. Typed /\ Belonging /\ [Next]_vars => Belonging'
  <2> SUFFICES ASSUME Typed, Belonging, [Next]_vars, ~late'
               PROVE  Exchange' /\ HistoryRight' /\ ListRight'
    BY DEF Belonging
  <2>1. CASE Next
    BY <2>1, OnTime, NextExchange, NextHistoryRight, NextListRight DEF Belonging
  <2>2. CASE UNCHANGED vars
    BY <2>2 DEF vars, server, history, Belonging, Exchange, Asked, Flight, InWire, InServing, InSlot,
       HistoryRight, ListRight, RowsRight, OpeningWait, ListenerChangesList, UIChangesList,
       Replaying
  <2> QED
    BY <2>1, <2>2
<1> QED
  BY <1>1, <1>2, AlwaysTyped, PTL DEF Spec

\* The messages on the screen are those of the chat it names, as long as no request was
\* late and the two threads did not change the list at a time: a history that is loaded
\* was answered to the request of the open chat, and a message that is pushed is compared
\* with it before it is put.
THEOREM MessagesBelong == Spec => []ShownBelong
<1>1. Belonging => ShownBelong
  <2> SUFFICES ASSUME Belonging, Settled PROVE \A m \in Shown : m # NoMessage /\ m.to = chat
    BY DEF ShownBelong
  <2>1. RowsRight
    BY DEF Belonging, Settled, ListRight, OpeningWait
  <2> QED
    BY <2>1 DEF RowsRight, Shown
<1> QED
  BY <1>1, AlwaysBelonging, PTL

-----------------------------------------------------------------------------
(***************************************************************************)
(* The numbers of the messages                                             *)
(***************************************************************************)

\* Two messages with the same number are the same.
LEMMA SameNumber ==
    ASSUME StoreNumbered, NEW m \in EntriesOf(store), NEW e \in EntriesOf(store), m.n = e.n
    PROVE  m = e
BY DEF StoreNumbered, EntriesOf

\* A command is served.
LEMMA ServeFacts ==
    ASSUME Typed, Serve
    PROVE  \E r \in Requests : \E a \in Answers(r) :
              /\ requests # <<>> /\ r = Head(requests) /\ requests' = Tail(requests)
              /\ serving = NoAnswer
              /\ IF r.kind \in HistoryKinds THEN serving' = a /\ wire' = wire
                 ELSE IF ToMe(r) THEN serving' = a /\ wire' = Append(wire, Push(r.message))
                 ELSE wire' = Append(wire, a) /\ serving' = serving
              /\ store' = IF r.kind \in SendKinds THEN Append(store, r.message) ELSE store
<1>1. requests # <<>> /\ requests \in Seq(Requests)
  BY DEF Serve, Typed, ServerTyped
<1>2. PICK r : r = Head(requests)
  OBVIOUS
<1>3. r \in Requests
  <2> HIDE DEF Requests
  <2> QED
    BY <1>1, <1>2
<1>4. PICK a \in Answers(r) :
         /\ IF r.kind \in HistoryKinds THEN serving' = a /\ wire' = wire
            ELSE IF ToMe(r) THEN serving' = a /\ wire' = Append(wire, Push(r.message))
            ELSE wire' = Append(wire, a) /\ serving' = serving
         /\ store' = IF r.kind \in SendKinds THEN Append(store, r.message) ELSE store
  BY <1>2 DEF Serve, HistoryKinds, SendKinds
<1> QED
  BY <1>1, <1>2, <1>3, <1>4 DEF Serve

\* The command of the UI thread is served.
LEMMA ServeOurs ==
    ASSUME Typed, Exchange, Serve, Head(requests) \in OurRequests
    PROVE  /\ Asked # {} /\ Asked' = {} /\ Flight = {} /\ ui.pc = "wait"
           /\ Head(requests).kind = ui.kind /\ Head(requests).arg = ui.arg
           /\ Head(requests).message = ui.message
<1>1. requests \in Seq(Requests) /\ requests # <<>> /\ requests' = Tail(requests)
  BY DEF Serve, Typed, ServerTyped
<1>2. PICK r : r = Head(requests)
  OBVIOUS
<1>3. Alone(requests, OurRequests)
  BY DEF Exchange
<1>4. /\ Of(requests, OurRequests) = Of(requests', OurRequests) \cup ({r} \cap OurRequests)
      /\ r \in OurRequests => Of(requests', OurRequests) = {}
  BY <1>1, <1>2, <1>3, OfTail
<1>5. r \in Asked /\ Asked' = {}
  BY <1>2, <1>4 DEF Asked
<1> QED
  BY <1>2, <1>5 DEF Exchange

\* When the command of the UI thread is on its way.
LEMMA AskedSteps ==
    ASSUME Typed, Next, Exchange
    PROVE  \/ \E r : Asking(r)
           \/ Serve /\ Head(requests) \in OurRequests
           \/ Asked' = Asked /\ ~(Serve /\ Head(requests).kind # "user_info")
<1>1. requests \in Seq(Requests) /\ ThreadsTyped
  BY DEF Typed, ServerTyped
<1>2. CASE Serve
  <2>1. requests # <<>> /\ requests' = Tail(requests)
    BY <1>2 DEF Serve
  <2>2. Asked = Asked' \cup ({Head(requests)} \cap OurRequests)
    BY <1>1, <2>1, OfTail DEF Asked
  <2>3. Head(requests) \in Requests
    <3> HIDE DEF Requests
    <3> QED
      BY <1>1, <2>1
  <2> QED
    BY <1>2, <2>2, <2>3 DEF OurRequests
<1>3. ASSUME AskName, listener.message \in Pushed, ~Serve PROVE Asked' = Asked
  <2>1. PICK r : r = [kind |-> "user_info", arg |-> listener.message.from, message |-> NoMessage]
    OBVIOUS
  <2>2. r \in Requests /\ r \notin OurRequests /\ requests' = Append(requests, r)
    BY <1>3, <2>1, ConstantsTyped
       DEF AskName, Requests, ToMe, Kinds, SendKinds, OurRequests, Pushed, Messages
  <2>3. Of(requests', OurRequests) = Of(requests, OurRequests) \cup ({r} \cap OurRequests)
    BY <1>1, <2>2, OfAppend
  <2> QED
    BY <2>2, <2>3 DEF Asked
<1>4. CASE (WriteContact \/ PutMessage) /\ ~Serve
  <2>1. listener.message \in Pushed
    BY <1>1, <1>4, ListenerFields DEF ThreadsTyped, ListenerTyped
  <2>2. AskName \/ UNCHANGED requests
    BY <1>4 DEF WriteContact, PutMessage, server
  <2> QED
    BY <1>3, <1>4, <2>1, <2>2 DEF Asked
<1>5. UNCHANGED requests => Asked' = Asked
  BY DEF Asked
<1>6. (\E r : Asking(r)) \/ UNCHANGED requests \/ Serve \/ WriteContact \/ PutMessage
  BY Asks DEF Next, UIStep, ListenerStep, ServerStep, server, TakeAnswer, TimeOut, After,
     FillContact, LoadMessage, PutLoaded, CountLoaded, NamesKnown, CountOwn, CountContact, ShowChat, NewChat, StartChat,
     ReceiveAnswer, ReceivePart, ReceivePush, LoadContactCount, StoreContactCount, CheckChat, LoadListCount,
     StoreListCount, Reply, PushMessage, UserSends
<1> QED
  BY <1>2, <1>4, <1>5, <1>6

\* How the store grows.
LEMMA StoreSteps ==
    ASSUME Typed, Next
    PROVE  \/ store' = store
           \/ /\ Serve /\ Head(requests).kind \in SendKinds /\ Head(requests) \in OurRequests
              /\ Head(requests).message \in Messages
              /\ store' = Append(store, Head(requests).message)
              /\ UNCHANGED <<pending, handled, listener, ui, actions>>
           \/ \E u \in Users, c \in Chats :
                 /\ UserSends(u, c) /\ Message(Len(store) + 1, u, c) \in Messages
                 /\ store' = Append(store, Message(Len(store) + 1, u, c))
<1>1. CASE Serve
  <2>1. PICK r \in Requests :
           r = Head(requests) /\ store' = IF r.kind \in SendKinds THEN Append(store, r.message) ELSE store
    BY <1>1, ServeFacts
  <2>2. r.kind \in SendKinds => r.message \in Messages /\ r \in OurRequests
    BY DEF Requests, OurRequests, SendKinds
  <2> QED
    BY <1>1, <2>1, <2>2 DEF Serve
<1>2. CASE \E u \in Users, c \in Chats : UserSends(u, c)
  <2>1. PICK u \in Users, c \in Chats : UserSends(u, c)
    BY <1>2
  <2>2. store \in Seq(Messages)
    BY DEF Typed, ServerTyped
  <2>3. Len(store) + 1 \in Nat
    BY <2>2
  <2>4. c \in Recipients
    <3>1. \A v \in Everyone : DM(v) \in Recipients
      BY ConstantsTyped DEF DM, Recipients, Ids
    <3>2. \A g \in Groups : Room(g) \in Recipients
      BY ConstantsTyped DEF Room, Recipients
    <3> QED
      BY <3>1, <3>2 DEF Chats, Everyone
  <2>5. Message(Len(store) + 1, u, c) \in Messages
    BY <2>3, <2>4 DEF Message, Messages, Everyone
  <2>6. store' = Append(store, Message(Len(store) + 1, u, c))
    BY <2>1 DEF UserSends
  <2> QED
    BY <2>1, <2>5, <2>6
<1>3. store' = store \/ Serve \/ \E u \in Users, c \in Chats : UserSends(u, c)
  <2>1. ASSUME NEW r, Asking(r) PROVE store' = store
    BY <2>1, AskFacts DEF Asking
  <2> QED
    BY <2>1, Asks DEF Next, UIStep, ListenerStep, ServerStep, server, TakeAnswer, TimeOut, After,
       FillContact, LoadMessage, PutLoaded, CountLoaded, NamesKnown, CountOwn, CountContact, ShowChat, NewChat, StartChat,
       ReceiveAnswer, ReceivePart, ReceivePush, LoadContactCount, StoreContactCount, CheckChat, LoadListCount,
       StoreListCount, Reply, PushMessage, WriteContact, PutMessage, AskName
<1> QED
  BY <1>1, <1>2, <1>3

\* When the client is done with a message.
LEMMA HandledSteps ==
    ASSUME Typed, Next
    PROVE  \/ handled' = handled
           \/ CountOwn /\ handled' = handled \cup {ui.message.n}
           \/ /\ CheckChat \/ StoreListCount
              /\ listener'.pc = "recv" /\ handled' = handled \cup {listener.message.n}
<1>1. ASSUME NEW r, Asking(r) PROVE handled' = handled
  BY <1>1 DEF Asking
<1>2. handled' = handled \/ CountOwn \/ CheckChat \/ StoreListCount
  BY <1>1, Asks DEF Next, UIStep, User, ListenerStep, ServerStep, NewChat, StartChat,
     TakeAnswer, TimeOut, After, FillContact, LoadMessage, PutLoaded, CountLoaded, NamesKnown,
     CountContact, ShowChat, ReceiveAnswer, ReceivePart, ReceivePush, WriteContact, LoadContactCount,
     StoreContactCount, PutMessage, LoadListCount, Serve, Reply, PushMessage, UserSends
<1>3. CountOwn => handled' = handled \cup {ui.message.n}
  BY DEF CountOwn
<1> QED
  BY <1>2, <1>3, ListenerFields

\* A push and its message.
LEMMA PushFacts ==
    /\ \A m \in Pushed : Push(m) \in Pushes /\ Push(m).message = m
    /\ \A p \in Pushes : p.message \in Pushed /\ p = Push(p.message)
BY DEF Push, Pushes

\* The user is pushed only what he sent to himself.
LEMMA PushedFrom ==
    ASSUME NEW m \in Pushed
    PROVE  m.from \in Users \/ (m.from = Me /\ m.to = DM(Me))
<1>1. m \in Messages /\ m.to \in [id : Nat, room : BOOLEAN]
  BY DEF Pushed, Messages, Recipients
<1>2. CASE m.to.room
  BY <1>2 DEF Pushed
<1>3. CASE ~m.to.room
  BY <1>1, <1>3 DEF Pushed, Messages, Everyone, DM
<1> QED
  BY <1>2, <1>3

\* The pushes that are on their way, when the wire changes.
LEMMA WirePushes ==
    ASSUME wire \in Seq(Lines), NEW p \in Lines
    PROVE  /\ wire' = Append(wire, p) =>
                 /\ p \notin Pushes => PushedOn' = PushedOn
                 /\ p \in Pushes => PushedOn' = PushedOn \cup {p.message}
                 /\ Apart(wire, Pushes) /\ (p \in Pushes => p.message \notin PushedOn) =>
                       Apart(wire', Pushes)
           /\ wire # <<>> /\ wire' = Tail(wire) /\ p = Head(wire) =>
                 /\ p \notin Pushes => PushedOn = PushedOn'
                 /\ p \in Pushes => PushedOn = PushedOn' \cup {p.message}
                 /\ Apart(wire, Pushes) =>
                       Apart(wire', Pushes) /\ (p \in Pushes => p.message \notin PushedOn')
<1>1. ASSUME wire' = Append(wire, p)
      PROVE  /\ p \notin Pushes => PushedOn' = PushedOn
             /\ p \in Pushes => PushedOn' = PushedOn \cup {p.message}
             /\ Apart(wire, Pushes) /\ (p \in Pushes => p.message \notin PushedOn) =>
                   Apart(wire', Pushes)
  <2>1. /\ Of(wire', Pushes) = Of(wire, Pushes) \cup ({p} \cap Pushes)
        /\ Apart(wire, Pushes) /\ p \notin Of(wire, Pushes) => Apart(wire', Pushes)
    BY <1>1, OfAppend
  <2>2. p \in Of(wire, Pushes) => p \in Pushes /\ p.message \in PushedOn
    <3>1. p \in Of(wire, Pushes) => p \in Pushes
      BY DEF Of, At
    <3> QED
      BY <3>1, PushFacts DEF PushedOn
  <2>3. p \notin Pushes => PushedOn' = PushedOn
    BY <2>1 DEF PushedOn
  <2>4. p \in Pushes => PushedOn' = PushedOn \cup {p.message}
    BY <2>1, PushFacts DEF PushedOn
  <2> QED
    BY <2>1, <2>2, <2>3, <2>4
<1>2. ASSUME wire # <<>>, wire' = Tail(wire), p = Head(wire)
      PROVE  /\ p \notin Pushes => PushedOn = PushedOn'
             /\ p \in Pushes => PushedOn = PushedOn' \cup {p.message}
             /\ Apart(wire, Pushes) =>
                   Apart(wire', Pushes) /\ (p \in Pushes => p.message \notin PushedOn')
  <2>1. /\ Of(wire, Pushes) = Of(wire', Pushes) \cup ({p} \cap Pushes)
        /\ Apart(wire, Pushes) => Apart(wire', Pushes) /\ p \notin Of(wire', Pushes)
    BY <1>2, OfTail
  <2>2. p \in Pushes /\ p \notin Of(wire', Pushes) => p.message \notin PushedOn'
    BY PushFacts DEF PushedOn
  <2>3. p \notin Pushes => PushedOn = PushedOn'
    BY <2>1 DEF PushedOn
  <2>4. p \in Pushes => PushedOn = PushedOn' \cup {p.message}
    BY <2>1, PushFacts DEF PushedOn
  <2> QED
    BY <2>1, <2>2, <2>3, <2>4
<1> QED
  BY <1>1, <1>2

\* Where the messages are that the client will get.
LEMMA PushSteps ==
    ASSUME Typed, Next, Apart(wire, Pushes), pending \cap PushedOn = {},
           Serve /\ ToMe(Head(requests)) => Head(requests).message \notin PushedOn
    PROVE  /\ Apart(wire', Pushes)
           /\ \/ /\ pending' = pending /\ PushedOn' = PushedOn
                 /\ InHand' = InHand \/ (InHand' = {} /\ listener.pc # "recv")
              \/ \E m \in pending :
                    /\ pending' = pending \ {m} /\ PushedOn' = PushedOn \cup {m}
                    /\ InHand' = InHand
              \/ \E m \in Pushed :
                    /\ ReceivePush /\ m = Head(wire).message
                    /\ pending' = pending /\ PushedOn = PushedOn' \cup {m} /\ m \notin PushedOn'
                    /\ InHand = {} /\ InHand' = {m}
              \/ \E m \in Pushed :
                    /\ Serve /\ ToMe(Head(requests)) /\ m = Head(requests).message
                    /\ pending' = pending /\ PushedOn' = PushedOn \cup {m}
                    /\ InHand' = InHand
              \/ \E u \in Users, c \in Chats :
                    /\ UserSends(u, c)
                    /\ pending' = pending \cup {Message(Len(store) + 1, u, c)}
                    /\ PushedOn' = PushedOn /\ InHand' = InHand
<1>1. /\ wire \in Seq(Lines) /\ ListenerTyped /\ pending \subseteq Pushed
      /\ serving \in Replies \cup {NoAnswer} /\ ServerTyped
  BY DEF Typed, ThreadsTyped, ServerTyped
<1>2. Replies \cap Pushes = {}
  BY DEF Replies, Pushes
<1>3. wire' = wire => PushedOn' = PushedOn /\ Apart(wire', Pushes)
  BY DEF PushedOn
<1>4. listener' = listener => InHand' = InHand
  BY DEF InHand
<1>5. CASE Serve
  <2>1. PICK r \in Requests : \E a \in Answers(r) :
           /\ r = Head(requests)
           /\ \/ wire' = wire \/ wire' = Append(wire, a)
              \/ ToMe(r) /\ wire' = Append(wire, Push(r.message))
    BY <1>5, ServeFacts
  <2>2. PICK a \in Answers(r) :
           \/ wire' = wire \/ wire' = Append(wire, a)
           \/ ToMe(r) /\ wire' = Append(wire, Push(r.message))
    BY <2>1
  <2>3. a \in Lines /\ a \notin Pushes
    BY <1>1, <1>2, AnswersTyped DEF Lines
  <2>4. CASE wire' = wire \/ wire' = Append(wire, a)
    <3>1. PushedOn' = PushedOn /\ Apart(wire', Pushes)
      BY <1>1, <1>3, <2>3, <2>4, WirePushes
    <3> QED
      BY <1>4, <1>5, <3>1 DEF Serve
  <2>5. CASE ToMe(r) /\ wire' = Append(wire, Push(r.message))
    <3>1. PICK m, p : m = r.message /\ p = Push(m)
      OBVIOUS
    <3>2. m \in Pushed
      BY <2>5, <3>1 DEF Requests
    <3>3. p \in Lines /\ p \in Pushes /\ p.message = m
      BY <3>1, <3>2, PushFacts DEF Lines
    <3>4. m \notin PushedOn /\ ToMe(Head(requests)) /\ m = Head(requests).message
      BY <1>5, <2>1, <2>5, <3>1
    <3>5. PushedOn' = PushedOn \cup {m} /\ Apart(wire', Pushes)
      BY <1>1, <2>5, <3>1, <3>3, <3>4, WirePushes
    <3>6. pending' = pending /\ InHand' = InHand
      BY <1>4, <1>5 DEF Serve
    <3> QED
      BY <1>5, <3>2, <3>4, <3>5, <3>6
  <2> QED
    BY <2>2, <2>4, <2>5
<1>6. CASE Reply
  <2>1. serving \in Lines /\ serving \notin Pushes /\ wire' = Append(wire, serving)
    BY <1>1, <1>2, <1>6 DEF Reply, Lines
  <2>2. PushedOn' = PushedOn /\ Apart(wire', Pushes)
    BY <1>1, <2>1, WirePushes
  <2> QED
    BY <1>4, <1>6, <2>2 DEF Reply
<1>7. CASE ReceiveAnswer
  <2>1. /\ wire # <<>> /\ wire' = Tail(wire) /\ Head(wire).what = "answer"
        /\ listener' = listener /\ pending' = pending
    BY <1>7 DEF ReceiveAnswer, ReceivePart, Received
  <2>2. Head(wire) \in Lines /\ Head(wire) \notin Pushes
    <3>1. Head(wire) \in Lines
      <4> HIDE DEF Lines
      <4> QED
        BY <1>1, <2>1
    <3> QED
      BY <2>1, <3>1 DEF Pushes
  <2>3. PushedOn' = PushedOn /\ Apart(wire', Pushes)
    BY <1>1, <2>1, <2>2, WirePushes
  <2> QED
    BY <1>4, <2>1, <2>3
<1>14. CASE ReceivePart
  <2>1. PartReceived
    BY <1>1, <1>14, PartFacts
  <2>2. wire[1] \notin Pushes /\ Rest \notin Pushes
    BY <1>2, <2>1 DEF PartReceived
  <2>3. At(wire', Pushes) = At(wire, Pushes) /\ \A i \in At(wire, Pushes) : wire'[i] = wire[i]
    BY <2>1, <2>2 DEF PartReceived, At
  <2>4. Of(wire', Pushes) = Of(wire, Pushes) /\ Apart(wire', Pushes)
    BY <2>3 DEF Of, Apart
  <2>5. PushedOn' = PushedOn
    BY <2>4 DEF PushedOn
  <2> QED
    BY <1>4, <2>1, <2>4, <2>5 DEF PartReceived
<1>8. CASE ReceivePush
  <2>1. /\ wire # <<>> /\ wire' = Tail(wire) /\ Head(wire).what = "push"
        /\ pending' = pending
    BY <1>8 DEF ReceivePush, Received
  <2>2. Head(wire) \in Lines /\ Head(wire) \in Pushes
    <3>1. Head(wire) \in Lines
      <4> HIDE DEF Lines
      <4> QED
        BY <1>1, <2>1
    <3> QED
      BY <2>1, <3>1 DEF Lines, Replies
  <2>3. PICK m : m = Head(wire).message
    OBVIOUS
  <2>4. /\ PushedOn = PushedOn' \cup {m} /\ m \notin PushedOn' /\ Apart(wire', Pushes)
        /\ m \in Pushed
    BY <1>1, <2>1, <2>2, <2>3, WirePushes, PushFacts
  <2>5. listener.pc = "recv" /\ listener'.pc # "recv" /\ listener'.message = m
    BY <1>8, <2>3, ListenerFields
  <2>6. InHand = {} /\ InHand' = {m}
    BY <2>5 DEF InHand
  <2> QED
    BY <1>8, <2>1, <2>3, <2>4, <2>6
<1>9. CASE PushMessage
  <2>1. PICK m \in pending : pending' = pending \ {m} /\ wire' = Append(wire, Push(m))
    BY <1>9 DEF PushMessage
  <2>2. listener' = listener
    BY <1>9 DEF PushMessage
  <2>3. PICK p : p = Push(m)
    OBVIOUS
  <2>4. p \in Lines /\ p \in Pushes /\ p.message = m /\ m \notin PushedOn
    BY <1>1, <2>1, <2>3, PushFacts DEF Lines
  <2>5. PushedOn' = PushedOn \cup {m} /\ Apart(wire', Pushes)
    BY <1>1, <2>1, <2>3, <2>4, WirePushes
  <2> QED
    BY <1>4, <2>1, <2>2, <2>5
<1>10. CASE \E u \in Users, c \in Chats : UserSends(u, c)
  <2>1. PICK u \in Users, c \in Chats : UserSends(u, c)
    BY <1>10
  <2>2. /\ pending' = pending \cup {Message(Len(store) + 1, u, c)}
        /\ wire' = wire /\ listener' = listener
    BY <2>1 DEF UserSends
  <2> QED
    BY <1>3, <1>4, <2>1, <2>2
<1>11. ASSUME wire' = wire, pending' = pending,
              listener' = listener \/ WriteContact \/ LoadContactCount \/ StoreContactCount
                 \/ CheckChat \/ PutMessage \/ LoadListCount \/ StoreListCount
       PROVE  /\ Apart(wire', Pushes) /\ pending' = pending /\ PushedOn' = PushedOn
              /\ InHand' = InHand \/ (InHand' = {} /\ listener.pc # "recv")
  <2>1. CASE listener' = listener
    BY <1>3, <1>4, <1>11, <2>1
  <2>2. CASE WriteContact \/ LoadContactCount \/ StoreContactCount
                 \/ CheckChat \/ PutMessage \/ LoadListCount \/ StoreListCount
    <3>1. /\ listener.pc # "recv"
          /\ listener'.pc = "recv" \/ (listener'.pc # "recv" /\ listener'.message = listener.message)
      BY <2>2, ListenerFields
    <3>2. InHand' = {} \/ InHand' = InHand
      BY <3>1 DEF InHand
    <3> QED
      BY <1>3, <1>11, <3>1, <3>2
  <2> QED
    BY <1>11, <2>1, <2>2
<1>12. CASE WriteContact \/ LoadContactCount \/ StoreContactCount \/ CheckChat \/ PutMessage
            \/ LoadListCount \/ StoreListCount
  <2>1. wire' = wire /\ pending' = pending
    BY <1>12 DEF WriteContact, LoadContactCount, StoreContactCount, CheckChat, PutMessage,
       LoadListCount, StoreListCount, AskName, server
  <2> QED
    BY <1>11, <1>12, <2>1
<1>13. CASE UIStep \/ User
  <2>1. ASSUME NEW r, Asking(r) PROVE wire' = wire /\ pending' = pending /\ listener' = listener
    BY <2>1, AskFacts DEF Asking
  <2>2. wire' = wire /\ pending' = pending /\ listener' = listener
    BY <1>13, <2>1, Asks DEF UIStep, server, TakeAnswer, TimeOut, After, FillContact, LoadMessage, PutLoaded, CountLoaded,
       NamesKnown, CountOwn, CountContact, ShowChat, NewChat, StartChat
  <2> QED
    BY <1>11, <2>2
<1> QED
  BY <1>5, <1>6, <1>7, <1>8, <1>9, <1>10, <1>12, <1>13, <1>14 DEF Next, ListenerStep, ServerStep

\* The requests of the user are counted.
LEMMA ActionsSteps ==
    ASSUME Typed, Next
    PROVE  /\ actions \in Nat /\ MaxSent \in Nat
           /\ actions' = actions \/ (actions' = actions + 1 /\ store' = store /\ handled' = handled)
<1>1. actions \in Nat /\ MaxSent \in Nat
  BY ChatScreenAssumption DEF Typed, HistoryTyped
<1>2. ASSUME NEW r, Asking(r)
      PROVE  actions' = actions \/ (actions' = actions + 1 /\ store' = store /\ handled' = handled)
  BY <1>2, AskFacts DEF Asking
<1>3. StartChat => actions' = actions + 1 /\ store' = store /\ handled' = handled
  BY DEF StartChat, Click, server
<1>4. actions' = actions \/ StartChat \/ \E r : Asking(r)
  BY Asks DEF Next, UIStep, User, ListenerStep, ServerStep, NewChat, TakeAnswer, TimeOut, After,
     FillContact, LoadMessage, PutLoaded, CountLoaded, NamesKnown, CountOwn, CountContact, ShowChat, ReceiveAnswer, ReceivePart,
     ReceivePush, WriteContact, LoadContactCount, StoreContactCount, CheckChat, PutMessage,
     LoadListCount, StoreListCount, Serve, Reply, PushMessage, UserSends
<1> QED
  BY <1>1, <1>2, <1>3, <1>4

\* A message that is saved gets a number that no other has.
LEMMA NextStoreNumbered ==
    ASSUME Typed, Next, Exchange, Numbered
    PROVE  /\ StoreNumbered'
           /\ EntriesOf(store) \subseteq EntriesOf(store') /\ Numbers(store) \subseteq Numbers(store')
           /\ \A u \in Users, c \in Chats : UserSends(u, c) =>
                 Len(store) + 1 \notin Numbers(store) /\ Len(store) + 1 <= MaxSent
<1>1. store \in Seq(Messages) /\ Len(store) \in Nat /\ DOMAIN store = 1..Len(store)
  BY DEF Typed, ServerTyped
<1>2. StoreNumbered /\ SendNumbered /\ PushNumbered
  BY DEF Numbered
<1>3. \A i \in DOMAIN store : store[i].n \in Nat
  <2>1. \A i \in DOMAIN store : store[i] \in Messages
    BY <1>1
  <2> QED
    BY <2>1 DEF Messages
<1>4. /\ actions \in Nat /\ MaxSent \in Nat /\ actions' \in Nat /\ actions <= actions'
  BY ActionsSteps
<1>5. ASSUME NEW m \in Messages, store' = Append(store, m), m.n \notin Numbers(store),
             m.n <= MaxSent + actions', m.n <= Len(store) + 1 \/ m.n > MaxSent
      PROVE  /\ \A i \in DOMAIN store' : /\ store'[i].n <= MaxSent + actions'
                                         /\ store'[i].n <= i \/ store'[i].n > MaxSent
             /\ \A i, j \in DOMAIN store' : store'[i].n = store'[j].n => i = j
             /\ EntriesOf(store) \subseteq EntriesOf(store')
             /\ Numbers(store') = Numbers(store) \cup {m.n}
  <2>1. PICK k : k = Len(store) + 1
    OBVIOUS
  <2>2. /\ DOMAIN store' = DOMAIN store \cup {k} /\ store'[k] = m
        /\ \A i \in DOMAIN store : store'[i] = store[i] /\ i # k
        /\ EntriesOf(store') = EntriesOf(store) \cup {m}
    BY <1>1, <1>5, <2>1, AppendFacts
  <2>3. \A i \in DOMAIN store : store[i].n # m.n
    BY <1>5 DEF Numbers
  <2>4. \A i \in DOMAIN store' : /\ store'[i].n <= MaxSent + actions'
                                 /\ store'[i].n <= i \/ store'[i].n > MaxSent
    BY <1>2, <1>3, <1>4, <1>5, <2>1, <2>2 DEF StoreNumbered
  <2>5. \A i, j \in DOMAIN store' : store'[i].n = store'[j].n => i = j
    BY <1>2, <2>2, <2>3 DEF StoreNumbered
  <2>6. Numbers(store') = Numbers(store) \cup {m.n}
    BY <2>2 DEF Numbers
  <2> QED
    BY <2>2, <2>4, <2>5, <2>6
<1>6. ASSUME NEW m, m \in EntriesOf(store) PROVE m.n \in Numbers(store)
  BY <1>6 DEF EntriesOf, Numbers
<1>7. handled' \subseteq Numbers(store)
  <2>1. handled \subseteq Numbers(store)
    BY <1>2 DEF StoreNumbered
  <2>2. CountOwn => ui.message.n \in Numbers(store)
    <3>1. CountOwn => ui.pc = "count_own"
      BY DEF CountOwn
    <3> QED
      BY <1>2, <1>6, <3>1 DEF SendNumbered
  <2>3. CheckChat \/ StoreListCount => listener.message.n \in Numbers(store)
    <3>1. CheckChat \/ StoreListCount => listener.message \in InHand
      BY ListenerFields DEF InHand
    <3> QED
      BY <1>2, <1>6, <3>1 DEF PushNumbered
  <2> QED
    BY <2>1, <2>2, <2>3, HandledSteps
<1>8. CASE store' = store
  <2>1. \A i \in DOMAIN store : store[i].n <= MaxSent + actions'
    BY <1>2, <1>3, <1>4 DEF StoreNumbered
  <2>2. StoreNumbered'
    BY <1>2, <1>7, <1>8, <2>1 DEF StoreNumbered
  <2>3. ASSUME NEW u \in Users, NEW c \in Chats, UserSends(u, c) PROVE FALSE
    <3>1. store' = Append(store, Message(Len(store) + 1, u, c))
      BY <2>3 DEF UserSends
    <3>2. Len(store) = Len(store) + 1
      BY <1>1, <1>8, <3>1
    <3> QED
      BY <1>1, <3>2
  <2> QED
    BY <1>8, <2>2, <2>3
<1>9. CASE /\ Serve /\ Head(requests).kind \in SendKinds /\ Head(requests) \in OurRequests
           /\ Head(requests).message \in Messages
           /\ store' = Append(store, Head(requests).message)
           /\ UNCHANGED <<pending, handled, listener, ui, actions>>
  <2>1. PICK m : m = Head(requests).message
    OBVIOUS
  <2>2. Asked # {} /\ ui.pc = "wait" /\ ui.kind \in SendKinds /\ m = ui.message
    BY <1>9, <2>1, ServeOurs
  <2>3. m.n \notin Numbers(store) /\ m.n = MaxSent + actions /\ m.n > MaxSent
    BY <1>2, <2>2 DEF SendNumbered, Sending
  <2>4. m \in Messages /\ store' = Append(store, m) /\ m.n <= MaxSent + actions'
    BY <1>4, <1>9, <2>1, <2>3
  <2>5. /\ EntriesOf(store) \subseteq EntriesOf(store')
        /\ Numbers(store') = Numbers(store) \cup {m.n} /\ StoreNumbered'
    BY <1>5, <1>7, <2>3, <2>4 DEF StoreNumbered
  <2>6. ASSUME NEW u \in Users, NEW c \in Chats, UserSends(u, c) PROVE FALSE
    <3>1. Tail(requests) = requests /\ requests # <<>> /\ requests \in Seq(Requests)
      BY <1>9, <2>6 DEF UserSends, Serve, Typed, ServerTyped
    <3>2. ASSUME NEW S, NEW s \in Seq(S), s # <<>> PROVE Len(Tail(s)) # Len(s)
      <4>1. Len(s) \in Nat /\ Len(Tail(s)) = Len(s) - 1
        BY <3>2
      <4> QED
        BY <4>1
    <3> QED
      BY <3>1, <3>2
  <2> QED
    BY <2>5, <2>6
<1>10. ASSUME NEW u \in Users, NEW c \in Chats, UserSends(u, c)
       PROVE  Len(store) + 1 \notin Numbers(store) /\ Len(store) + 1 <= MaxSent
  <2>1. Len(store) < MaxSent
    BY <1>10 DEF UserSends
  <2>2. \A i \in DOMAIN store : store[i].n # Len(store) + 1
    BY <1>1, <1>2, <1>3, <1>4, <2>1 DEF StoreNumbered
  <2> QED
    BY <1>1, <1>4, <2>1, <2>2 DEF Numbers
<1>11. CASE \E u \in Users, c \in Chats :
               /\ UserSends(u, c) /\ Message(Len(store) + 1, u, c) \in Messages
               /\ store' = Append(store, Message(Len(store) + 1, u, c))
  <2>1. PICK u \in Users, c \in Chats :
               /\ UserSends(u, c) /\ Message(Len(store) + 1, u, c) \in Messages
               /\ store' = Append(store, Message(Len(store) + 1, u, c))
    BY <1>11
  <2>2. PICK m : m = Message(Len(store) + 1, u, c)
    OBVIOUS
  <2>3. m.n = Len(store) + 1
    BY <2>2 DEF Message
  <2>4. Len(store) + 1 \notin Numbers(store) /\ Len(store) + 1 <= MaxSent
    BY <1>10, <2>1
  <2>5. /\ m \in Messages /\ store' = Append(store, m) /\ m.n \notin Numbers(store)
        /\ m.n <= MaxSent + actions' /\ m.n <= Len(store) + 1
    BY <1>1, <1>4, <2>1, <2>2, <2>3, <2>4
  <2>6. /\ EntriesOf(store) \subseteq EntriesOf(store')
        /\ Numbers(store') = Numbers(store) \cup {m.n} /\ StoreNumbered'
    BY <1>5, <1>7, <2>5 DEF StoreNumbered
  <2> QED
    BY <1>10, <2>6
<1> QED
  BY <1>8, <1>9, <1>11, StoreSteps

\* A message that is pushed is handled once.
LEMMA NextPushNumbered ==
    ASSUME Typed, Next, Exchange, Numbered
    PROVE  PushNumbered'
<1>1. StoreNumbered /\ SendNumbered /\ PushNumbered
  BY DEF Numbered
<1>2. EntriesOf(store) \subseteq EntriesOf(store')
  BY NextStoreNumbered
<1>3. PICK P, I, Q : P = PushedOn /\ I = InHand /\ Q = pending
  OBVIOUS
<1>4. /\ Q \cup P \cup I \subseteq EntriesOf(store)
      /\ \A m \in Q \cup P \cup I : m.n \notin handled \/ m.to = DM(Me)
      /\ Q \cap (P \cup I) = {} /\ P \cap I = {} /\ Apart(wire, Pushes)
  BY <1>1, <1>3 DEF PushNumbered
<1>5. \A m \in Q \cup P \cup I : m \in Pushed
  <2>1. Q \subseteq Pushed /\ P \subseteq Pushed
    BY <1>3 DEF Typed, ServerTyped, PushedOn
  <2>2. I \subseteq Pushed
    BY <1>3 DEF InHand, Typed, ThreadsTyped, ListenerTyped
  <2> QED
    BY <2>1, <2>2
<1>6. \A m \in Q \cup P \cup I : m.from \in Users \/ m.to = DM(Me)
  BY <1>5, PushedFrom
\* What has not been handled is handled only as the message in hand.
<1>7. ASSUME NEW m \in Q \cup P \cup I, m.n \in handled', m.to # DM(Me)
      PROVE  m \in I /\ InHand' = {}
  <2>1. m \in EntriesOf(store) /\ m.n \notin handled /\ m.from \in Users
    BY <1>4, <1>6, <1>7
  <2>2. CASE CountOwn /\ handled' = handled \cup {ui.message.n}
    <3>1. ui.message \in EntriesOf(store) /\ ui.message.from = Me /\ m.n = ui.message.n
      BY <1>1, <1>7, <2>1, <2>2 DEF SendNumbered, CountOwn
    <3>2. m = ui.message
      BY <1>1, <2>1, <3>1, SameNumber
    <3> QED
      BY <2>1, <3>1, <3>2, ChatScreenAssumption
  <2>3. CASE /\ CheckChat \/ StoreListCount
             /\ listener'.pc = "recv" /\ handled' = handled \cup {listener.message.n}
    <3>1. listener.pc # "recv"
      BY <2>3, ListenerFields
    <3>2. I = {listener.message} /\ InHand' = {} /\ m.n = listener.message.n
      BY <1>3, <1>7, <2>1, <2>3, <3>1 DEF InHand
    <3>3. m = listener.message
      BY <1>1, <1>4, <2>1, <3>2, SameNumber
    <3> QED
      BY <3>2, <3>3
  <2> QED
    BY <1>7, <2>1, <2>2, <2>3, HandledSteps
\* What the user sends to himself is new.
<1>13. ASSUME Serve, ToMe(Head(requests))
       PROVE  /\ Head(requests).message.n \notin Numbers(store)
              /\ store' = Append(store, Head(requests).message) /\ store \in Seq(Messages)
              /\ Head(requests).message \in Messages /\ handled' = handled
  <2>1. PICK r \in Requests :
           /\ r = Head(requests)
           /\ store' = IF r.kind \in SendKinds THEN Append(store, r.message) ELSE store
    BY <1>13, ServeFacts
  <2>2. r.kind \in SendKinds /\ r \in OurRequests /\ r.message \in Messages
    BY <1>13, <2>1 DEF ToMe, SendKinds, OurRequests, Requests
  <2>3. Asked # {} /\ ui.pc = "wait" /\ r.kind = ui.kind /\ r.message = ui.message
    BY <1>13, <2>1, <2>2, ServeOurs
  <2>4. r.message.n \notin Numbers(store)
    BY <1>1, <2>2, <2>3 DEF SendNumbered, Sending
  <2> QED
    BY <1>13, <2>1, <2>2, <2>4 DEF Serve, Typed, ServerTyped
<1>14. Serve /\ ToMe(Head(requests)) => Head(requests).message \notin Q \cup P \cup I
  <2>1. \A m \in EntriesOf(store) : m.n \in Numbers(store)
    BY DEF EntriesOf, Numbers
  <2> QED
    BY <1>4, <1>13, <2>1
<1>8. Apart(wire', Pushes)
  BY <1>3, <1>4, <1>14, PushSteps
<1>9. CASE /\ pending' = pending /\ PushedOn' = PushedOn
           /\ InHand' = InHand \/ (InHand' = {} /\ listener.pc # "recv")
  <2>1. pending' = Q /\ PushedOn' = P /\ InHand' \subseteq I
    BY <1>3, <1>9
  <2> HIDE DEF PushedOn, InHand
  <2> QED
    BY <1>2, <1>4, <1>7, <1>8, <2>1 DEF PushNumbered
<1>10. CASE \E m \in pending :
               /\ pending' = pending \ {m} /\ PushedOn' = PushedOn \cup {m}
               /\ InHand' = InHand
  <2>1. PICK m \in Q : pending' = Q \ {m} /\ PushedOn' = P \cup {m} /\ InHand' = I
    BY <1>3, <1>10
  <2>2. pending' \cup PushedOn' \cup InHand' = Q \cup P \cup I
    BY <2>1
  <2> HIDE DEF PushedOn, InHand
  <2> QED
    BY <1>2, <1>4, <1>7, <1>8, <2>1, <2>2 DEF PushNumbered
<1>11. CASE \E m \in Pushed :
               /\ ReceivePush /\ m = Head(wire).message
               /\ pending' = pending /\ PushedOn = PushedOn' \cup {m} /\ m \notin PushedOn'
               /\ InHand = {} /\ InHand' = {m}
  <2>1. PICK m \in Pushed : /\ pending' = Q /\ P = PushedOn' \cup {m} /\ m \notin PushedOn'
                            /\ I = {} /\ InHand' = {m}
    BY <1>3, <1>11
  <2>2. pending' \cup PushedOn' \cup InHand' = Q \cup P \cup I
    BY <2>1
  <2> HIDE DEF PushedOn, InHand
  <2> QED
    BY <1>2, <1>4, <1>7, <1>8, <2>1, <2>2 DEF PushNumbered
<1>12. CASE \E u \in Users, c \in Chats :
               /\ UserSends(u, c)
               /\ pending' = pending \cup {Message(Len(store) + 1, u, c)}
               /\ PushedOn' = PushedOn /\ InHand' = InHand
  <2>1. PICK u \in Users, c \in Chats :
               /\ UserSends(u, c)
               /\ pending' = pending \cup {Message(Len(store) + 1, u, c)}
               /\ PushedOn' = PushedOn /\ InHand' = InHand
    BY <1>12
  <2>2. PICK m : m = Message(Len(store) + 1, u, c)
    OBVIOUS
  <2>3. m.n = Len(store) + 1 /\ m.n \notin Numbers(store)
    BY <2>1, <2>2, NextStoreNumbered DEF Message
  <2>4. handled' = handled /\ store' = Append(store, m) /\ store \in Seq(Messages)
    BY <2>1, <2>2 DEF UserSends, Typed, ServerTyped
  <2>5. m \in EntriesOf(store')
    <3>1. PICK k : k = Len(store) + 1
      OBVIOUS
    <3>2. k \in DOMAIN store' /\ store'[k] = m
      <4> HIDE DEF Messages
      <4> QED
        BY <2>4, <3>1
    <3> QED
      BY <3>2 DEF EntriesOf
  <2>6. m \notin EntriesOf(store) /\ m.n \notin handled'
    BY <1>1, <2>3, <2>4 DEF StoreNumbered, EntriesOf, Numbers
  <2>7. pending' = Q \cup {m} /\ PushedOn' = P /\ InHand' = I
    BY <1>3, <2>1, <2>2
  <2> HIDE DEF PushedOn, InHand
  <2> QED
    BY <1>2, <1>4, <1>8, <2>4, <2>5, <2>6, <2>7 DEF PushNumbered
<1>15. CASE \E m \in Pushed :
               /\ Serve /\ ToMe(Head(requests)) /\ m = Head(requests).message
               /\ pending' = pending /\ PushedOn' = PushedOn \cup {m}
               /\ InHand' = InHand
  <2>1. PICK m \in Pushed :
               /\ Serve /\ ToMe(Head(requests)) /\ m = Head(requests).message
               /\ pending' = pending /\ PushedOn' = PushedOn \cup {m}
               /\ InHand' = InHand
    BY <1>15
  <2>2. /\ m.n \notin Numbers(store) /\ m \notin Q \cup P \cup I
        /\ store' = Append(store, m) /\ store \in Seq(Messages) /\ m \in Messages
        /\ handled' = handled
    BY <1>13, <1>14, <2>1
  <2>3. m \in EntriesOf(store')
    BY <2>2, AppendFacts
  <2>4. m.n \notin handled'
    BY <1>1, <2>2 DEF StoreNumbered
  <2>5. pending' = Q /\ PushedOn' = P \cup {m} /\ InHand' = I
    BY <1>3, <2>1
  <2> HIDE DEF PushedOn, InHand
  <2> QED
    BY <1>2, <1>4, <1>8, <2>2, <2>3, <2>4, <2>5 DEF PushNumbered
<1> QED
  BY <1>3, <1>4, <1>9, <1>10, <1>11, <1>12, <1>14, <1>15, PushSteps

\* How the UI thread comes to send a message, or to show the one it has sent.
LEMMA SendSteps ==
    ASSUME Typed, Next, ui'.pc \in {"wait", "count_own"}
    PROVE  \/ UNCHANGED <<ui, actions>>
           \/ \E r : Asking(r)
           \/ /\ \E ok, data : Good(ok, data) /\ SentShown(ok)
              /\ UNCHANGED <<requests, store, handled>>
<1>1. CASE TakeAnswer \/ TimeOut
  <2>1. PICK ok, data : Good(ok, data)
    BY <1>1, Outcome DEF Typed
  <2>2. SentShown(ok)
    BY <2>1, AfterFacts
       DEF Filling, NoContacts, RoomsKnown, HistoryKnown, SentNotShown, Searched
  <2> QED
    BY <2>1, <2>2, AfterFacts DEF server
<1>2. FillContact \/ LoadMessage \/ PutLoaded \/ CountLoaded \/ NamesKnown \/ CountOwn \/ StartChat
         \/ CountContact \/ ShowChat => FALSE
  BY UIFields
<1>3. ListenerStep \/ ServerStep \/ NewChat => UNCHANGED <<ui, actions>>
  BY DEF NewChat, ListenerStep, ReceiveAnswer, ReceivePart, ReceivePush, WriteContact, LoadContactCount,
     StoreContactCount, CheckChat, PutMessage, LoadListCount, StoreListCount,
     ServerStep, Serve, Reply, PushMessage, UserSends
<1> QED
  BY <1>1, <1>2, <1>3, Asks DEF Next, UIStep

\* What the user sends has the highest number, and is saved when it is answered.
LEMMA NextSendNumbered ==
    ASSUME Typed, Next, ~late', Exchange, Numbered
    PROVE  SendNumbered'
<1>1. StoreNumbered /\ SendNumbered /\ PushNumbered
  BY DEF Numbered
<1>2. EntriesOf(store) \subseteq EntriesOf(store')
  BY NextStoreNumbered
<1>3. CASE ui'.pc \notin {"wait", "count_own"}
  BY <1>3 DEF SendNumbered, Sending
<1>4. ASSUME NEW r, Asking(r), ui'.pc \in {"wait", "count_own"} PROVE SendNumbered'
  <2>1. /\ r \in Requests /\ r.kind # "user_info" /\ ui.pc # "wait"
        /\ ui'.pc = "wait" /\ ui'.kind = r.kind /\ ui'.message = r.message
        /\ requests' = Append(requests, [kind |-> r.kind, arg |-> r.arg, message |-> r.message])
        /\ UNCHANGED <<store, handled>>
    BY <1>4, AskFacts DEF Asking
  <2>2. Sending' = (r.kind \in SendKinds)
    BY <2>1 DEF Sending
  <2>3. CASE r.kind \in SendKinds
    <3>1. actions' = actions + 1 /\ r.message = Message(MaxSent + actions', Me, chat)
      BY <1>4, <2>3 DEF Asking, SendKinds
    <3>2. actions \in Nat /\ MaxSent \in Nat /\ r.message.n = MaxSent + actions' /\ r.message.from = Me
      BY <3>1, ActionsSteps DEF Message
    <3>3. r.message.n > MaxSent /\ r.message.n > MaxSent + actions
      BY <3>1, <3>2
    <3>4. r.message.n \notin Numbers(store)
      <4>1. \A i \in DOMAIN store : store[i].n \in Nat /\ store[i].n <= MaxSent + actions
        <5>1. store \in Seq(Messages)
          BY DEF Typed, ServerTyped
        <5>2. \A i \in DOMAIN store : store[i] \in Messages
          BY <5>1
        <5> QED
          BY <1>1, <5>2 DEF StoreNumbered, Messages
      <4>2. \A i \in DOMAIN store : store[i].n # r.message.n
        BY <3>2, <3>3, <4>1
      <4> QED
        BY <4>2 DEF Numbers
    <3>5. r.message.n \notin handled
      BY <1>1, <3>4 DEF StoreNumbered
    <3>6. Asked' # {}
      <4>1. r \in OurRequests /\ r = [kind |-> r.kind, arg |-> r.arg, message |-> r.message]
        BY <2>1 DEF OurRequests, Requests
      <4>2. requests' = Append(requests, r) /\ requests \in Seq(Requests) /\ r \in Requests
        BY <2>1, <4>1 DEF Typed, ServerTyped
      <4>3. Of(requests', OurRequests) = Of(requests, OurRequests) \cup ({r} \cap OurRequests)
        BY <4>2, OfAppend
      <4> QED
        BY <4>1, <4>3 DEF Asked
    <3> QED
      BY <2>1, <2>2, <3>2, <3>3, <3>4, <3>5, <3>6 DEF SendNumbered
  <2> QED
    BY <2>1, <2>2, <2>3 DEF SendNumbered
<1>5. ASSUME NEW ok, NEW data, Good(ok, data), SentShown(ok), UNCHANGED <<requests, store, handled>>
      PROVE  SendNumbered'
  <2>1. /\ ui.pc = "wait" /\ ui.kind \in SendKinds /\ ok
        /\ ui'.pc = "count_own" /\ ui'.message = ui.message
    BY <1>5 DEF SentShown, Good
  <2>2. answer \in Flight
    BY <1>5, <2>1, TakenFlight
  <2>3. Asked = {}
    BY <2>2 DEF Exchange
  <2>4. /\ ui.message \in EntriesOf(store) /\ ui.message.from = Me
        /\ ui.message.n \notin handled \/ ui.message.to = DM(Me)
    BY <1>1, <2>1, <2>3 DEF SendNumbered, Sending
  <2> QED
    BY <1>5, <2>1, <2>4 DEF SendNumbered, Sending
<1>6. CASE UNCHANGED <<ui, actions>>
  <2>1. PICK m : m = ui.message
    OBVIOUS
  <2>2. ui.message' = m /\ Sending' = Sending
    BY <1>6, <2>1 DEF Sending
  <2>3. CASE Sending \/ ui.pc = "count_own"
    <3>1. /\ m.from = Me
          /\ m.n \notin handled \/ m.to = DM(Me)
          /\ m \in EntriesOf(store) \/ m.n \notin Numbers(store)
      BY <1>1, <2>1, <2>3 DEF SendNumbered
    <3>2. m.n \notin handled' \/ m.to = DM(Me)
      <4>1. CASE CountOwn
        <5>1. ui.pc = "count_own" /\ ui'.pc = "idle"
          BY <4>1, UIFields
        <5> QED
          BY <1>6, <5>1
      <4>2. CASE /\ CheckChat \/ StoreListCount
                 /\ handled' = handled \cup {listener.message.n}
        <5>1. listener.message \in InHand /\ listener.message \in Pushed
          BY <4>2, ListenerFields DEF InHand, Typed, ThreadsTyped, ListenerTyped
        <5>2. listener.message \in EntriesOf(store)
              /\ (listener.message.from \in Users \/ listener.message.to = DM(Me))
          BY <1>1, <5>1, PushedFrom DEF PushNumbered
        <5>3. listener.message.n \in Numbers(store)
          BY <5>2 DEF EntriesOf, Numbers
        <5>4. m.n # listener.message.n \/ m.to = DM(Me)
          <6>1. m.n = listener.message.n => m = listener.message
            BY <1>1, <3>1, <5>2, <5>3, SameNumber
          <6> QED
            BY <3>1, <5>2, <6>1, ChatScreenAssumption
        <5> QED
          BY <3>1, <4>2, <5>4
      <4> QED
        BY <3>1, <4>1, <4>2, HandledSteps
    <3>3. CASE ~Sending
      BY <1>1, <1>2, <2>1, <2>2, <2>3, <3>1, <3>2, <3>3 DEF SendNumbered
    <3>4. CASE Sending
      <4>1. m.n = MaxSent + actions /\ m.n > MaxSent /\ ui.pc = "wait"
        BY <1>1, <2>1, <3>4 DEF SendNumbered, Sending
      <4>2. m.n = MaxSent + actions'
        BY <1>6, <4>1
      <4>3. CASE Serve /\ Head(requests) \in OurRequests
        <5>1. /\ Asked' = {} /\ Head(requests).kind = ui.kind /\ Head(requests).message = m
          BY <2>1, <4>3, ServeOurs
        <5>2. Head(requests).kind \in SendKinds
          BY <3>4, <5>1 DEF Sending
        <5>3. /\ store' = Append(store, Head(requests).message)
              /\ Head(requests).message \in Messages /\ store \in Seq(Messages)
          <6>1. PICK r \in Requests : /\ r = Head(requests)
                        /\ store' = IF r.kind \in SendKinds THEN Append(store, r.message) ELSE store
            BY <4>3, ServeFacts
          <6>2. r.message \in Messages
            BY <5>2, <6>1 DEF Requests, SendKinds
          <6> QED
            BY <5>2, <6>1, <6>2 DEF Typed, ServerTyped
        <5>4. m \in EntriesOf(store')
          BY <5>1, <5>3, AppendFacts
        <5> QED
          BY <2>1, <2>2, <3>1, <3>2, <4>1, <4>2, <5>1, <5>4 DEF SendNumbered
      <4>4. CASE Asked' = Asked /\ ~(Serve /\ Head(requests).kind # "user_info")
        <5>1. Asked # {} => m.n \notin Numbers(store')
          <6>1. CASE store' = store
            BY <1>1, <2>1, <3>4, <6>1 DEF SendNumbered
          <6>2. CASE \E u \in Users, c \in Chats :
                        /\ UserSends(u, c) /\ Message(Len(store) + 1, u, c) \in Messages
                        /\ store' = Append(store, Message(Len(store) + 1, u, c))
            <7>1. PICK u \in Users, c \in Chats :
                        /\ UserSends(u, c) /\ Message(Len(store) + 1, u, c) \in Messages
                        /\ store' = Append(store, Message(Len(store) + 1, u, c))
              BY <6>2
            <7>2. PICK e : e = Message(Len(store) + 1, u, c)
              OBVIOUS
            <7>3. e.n = Len(store) + 1 /\ e.n <= MaxSent
              BY <7>1, <7>2, NextStoreNumbered DEF Message
            <7>4. store \in Seq(Messages) /\ Len(store) \in Nat /\ MaxSent \in Nat
              BY ActionsSteps DEF Typed, ServerTyped
            <7>5. e.n # m.n
              BY <4>1, <7>3, <7>4, ActionsSteps
            <7>6. Numbers(store') = Numbers(store) \cup {e.n}
              <8>1. PICK k : k = Len(store) + 1
                OBVIOUS
              <8>2. /\ DOMAIN store' = DOMAIN store \cup {k} /\ store'[k] = e
                    /\ \A i \in DOMAIN store : store'[i] = store[i]
                BY <7>1, <7>2, <7>4, <8>1, AppendFacts
              <8> QED
                BY <8>2 DEF Numbers
            <7> QED
              BY <1>1, <2>1, <3>4, <7>5, <7>6 DEF SendNumbered
          <6>3. ~(Serve /\ Head(requests) \in OurRequests)
            BY <4>4 DEF OurRequests
          <6> QED
            BY <6>1, <6>2, <6>3, StoreSteps
        <5>2. Asked = {} => m \in EntriesOf(store')
          BY <1>1, <1>2, <2>1, <3>4 DEF SendNumbered
        <5> QED
          <6>1. /\ Asked' # {} => m.n \notin Numbers(store')
                /\ Asked' = {} => m \in EntriesOf(store')
            BY <4>4, <5>1, <5>2
          <6>2. Sending' /\ ui' = ui /\ ui.pc # "count_own"
            BY <1>6, <2>2, <3>4, <4>1
          <6> HIDE DEF Asked, Sending, EntriesOf, Numbers
          <6> QED
            BY <2>1, <3>1, <3>2, <4>1, <4>2, <6>1, <6>2 DEF SendNumbered
      <4>5. ASSUME NEW r, Asking(r) PROVE FALSE
        BY <4>1, <4>5 DEF Asking
      <4> QED
        BY <4>3, <4>4, <4>5, AskedSteps
    <3> QED
      BY <3>3, <3>4
  <2>4. CASE ~Sending /\ ui.pc # "count_own"
    BY <1>6, <2>2, <2>4 DEF SendNumbered
  <2> QED
    BY <2>3, <2>4
<1> QED
  BY <1>3, <1>4, <1>5, <1>6, SendSteps

\* As long as no request was late, the messages have numbers of their own.
LEMMA AlwaysNumbered == Spec => [](~late => Exchange /\ Numbered)
<1>1. Init => (~late => Exchange /\ Numbered)
  <2> SUFFICES ASSUME Init PROVE Exchange /\ Numbered
    OBVIOUS
  <2>1. ui.pc = "start" /\ listener.pc = "recv" /\ pending = {} /\ wire = <<>>
    BY QuietFacts DEF Init
  <2>2. At(requests, OurRequests) = {} /\ At(wire, OurReplies) = {} /\ At(wire, Pushes) = {}
    BY DEF Init, At
  <2>3. Asked = {} /\ Flight = {} /\ Of(wire, Pushes) = {}
    BY <2>1, <2>2 DEF Init, Asked, Flight, InWire, InServing, InSlot, Of
  <2>4. Exchange
    BY <2>1, <2>2, <2>3 DEF Exchange, Alone, Flight
  <2>5. PushedOn = {} /\ InHand = {}
    BY <2>1, <2>3 DEF PushedOn, InHand
  <2>6. PushNumbered
    BY <2>1, <2>2, <2>5 DEF PushNumbered, Apart
  <2>7. SendNumbered
    BY <2>1 DEF SendNumbered, Sending
  <2>8. StoreNumbered
    <3>1. /\ store \in Stores /\ actions = 0 /\ MaxSent \in Nat
          /\ handled = Numbers(store)
      BY ChatScreenAssumption DEF Init, Numbers
    <3>2. /\ store \in Seq([n : Nat, from : Users \cup {Me}, to : Chats])
          /\ Len(store) <= MaxSent /\ \A i \in DOMAIN store : store[i].n = i
      BY <3>1, StoresAssumption
    <3>3. DOMAIN store = 1..Len(store) /\ Len(store) \in Nat
      BY <3>2
    <3> QED
      BY <3>1, <3>2, <3>3 DEF StoreNumbered
  <2> QED
    BY <2>4, <2>6, <2>7, <2>8 DEF Numbered
<1>2. Typed /\ (~late => Exchange /\ Numbered) /\ [Next]_vars => (~late => Exchange /\ Numbered)'
  <2> SUFFICES ASSUME Typed, ~late => Exchange /\ Numbered, [Next]_vars, ~late'
               PROVE  Exchange' /\ Numbered'
    OBVIOUS
  <2>1. CASE Next
    <3>1. Exchange /\ Numbered
      BY <2>1, OnTime
    <3>2. Exchange'
      BY <2>1, <3>1, NextExchange
    <3>3. StoreNumbered' /\ PushNumbered' /\ SendNumbered'
      BY <2>1, <3>1, NextStoreNumbered, NextPushNumbered, NextSendNumbered
    <3> QED
      BY <3>2, <3>3 DEF Numbered
  <2>2. CASE UNCHANGED vars
    BY <2>2 DEF vars, server, history, Exchange, Asked, Flight, InWire, InServing, InSlot,
       Numbered, StoreNumbered, SendNumbered, PushNumbered, Sending, PushedOn, InHand
  <2> QED
    BY <2>1, <2>2
<1> QED
  BY <1>1, <1>2, AlwaysTyped, PTL DEF Spec

-----------------------------------------------------------------------------
(***************************************************************************)
(* The contacts, while one thread adds to them at a time                   *)
(***************************************************************************)

\* What raced records.
LEMMA RacedSteps ==
    ASSUME Typed, Next, ~raced'
    PROVE  ~raced /\ ~(UIAdds' /\ ListenerAdds')
BY DEF Next, Observe, Typed, HistoryTyped

\* Who writes to the array of the contacts.
LEMMA ContactWriters ==
    ASSUME Typed, Next
    PROVE  \/ contacts' = contacts /\ ~FillContact /\ ~CountContact /\ ~WriteContact
                 /\ ~StoreContactCount
           \/ /\ FillContact \/ StartChat \/ CountContact
              /\ listener' = listener
           \/ /\ WriteContact \/ StoreContactCount
              /\ UNCHANGED <<ui, found, chat, late>>
<1>1. ASSUME NEW r, Asking(r) PROVE contacts' = contacts /\ ui'.pc = "wait" /\ listener' = listener
  BY <1>1, AskFacts DEF Asking
<1>2. TakeAnswer \/ TimeOut => contacts' = contacts /\ ui.pc = "wait" /\ listener' = listener
  BY Outcome, AfterFacts DEF TakeAnswer, TimeOut, Typed
<1>3. FillContact \/ CountContact => ui.pc \in {"fill", "count_contact"}
  BY UIFields
<1>4. ASSUME contacts' = contacts
      PROVE  WriteContact \/ StoreContactCount =>
                listener.pc \in {"write", "store_contacts"} /\ listener'.pc \in {"load_contacts", "check"}
  BY ListenerFields
<1>5. CASE FillContact \/ StartChat \/ CountContact
  BY <1>5 DEF FillContact, StartChat, CountContact
<1>6. CASE WriteContact \/ StoreContactCount
  BY <1>6 DEF WriteContact, StoreContactCount
<1>7. CASE ~(FillContact \/ StartChat \/ CountContact \/ WriteContact \/ StoreContactCount)
  <2>1. contacts' = contacts
    BY <1>1, <1>2, <1>7, Asks DEF Next, UIStep, ListenerStep, ServerStep, LoadMessage, PutLoaded, CountLoaded, NamesKnown,
       CountOwn, ShowChat, NewChat, ReceiveAnswer, ReceivePart, ReceivePush, LoadContactCount,
       CheckChat, PutMessage, LoadListCount, StoreListCount, Serve, Reply, PushMessage, UserSends
  <2> QED
    BY <1>7, <2>1
<1> QED
  BY <1>5, <1>6, <1>7

\* How the list of the contacts grows: it is the steps that count which add somebody.
LEMMA ContactsGrow ==
    ASSUME Typed, Next, ~raced', ContactsRight
    PROVE  \/ /\ Listed' = Listed /\ contacts'.count = contacts.count
              /\ \A j \in 1..contacts.count : contacts'.slot[j] = contacts.slot[j]
              /\ ~StoreContactCount /\ ~CountContact /\ ~(FillContact /\ ui'.pc = "groups")
           \/ /\ StoreContactCount /\ listener'.pc = "check" /\ listener'.message = listener.message
              /\ ~UIAdds /\ UNCHANGED <<ui, found, chat, late>>
              /\ contacts'.count = contacts.count + 1 /\ contacts.count < MaxContacts
              /\ contacts'.slot = contacts.slot
              /\ contacts.slot[contacts.count + 1] = listener.message.from
              /\ listener.message.from \in Everyone \ Listed
              /\ Listed' = Listed \cup {listener.message.from}
           \/ /\ CountContact /\ ui.pc = "count_contact" /\ ui'.pc = "show" /\ ~ListenerAdds
              /\ UNCHANGED <<found, listener>>
              /\ contacts'.count = contacts.count + 1 /\ contacts.count < MaxContacts
              /\ contacts'.slot = contacts.slot
              /\ contacts.slot[contacts.count + 1] = found
              /\ found \in Everyone \ Listed
              /\ Listed' = Listed \cup {found}
           \/ /\ FillContact /\ ui.pc = "fill" /\ ui'.pc = "groups" /\ UNCHANGED listener
              /\ contacts'.count = ui.arg /\ contacts'.slot = contacts.slot
              /\ ui.arg >= Len(ui.todo) \/ ui.arg >= MaxContacts
<1>1. /\ contacts.count \in Nat /\ MaxContacts \in Nat /\ ui.arg \in Nat
      /\ contacts.count <= MaxContacts /\ found \in Everyone \cup {NoId}
  BY ChatScreenAssumption
     DEF Typed, ListsTyped, ThreadsTyped, UITyped, UIType, ContactsRight, PlacesRight
<1>2. PlacesRight /\ FromListener /\ FromUser
  BY DEF ContactsRight
<1>3. ASSUME contacts'.count = contacts.count,
             \A j \in 1..contacts.count : contacts'.slot[j] = contacts.slot[j]
      PROVE  Listed' = Listed
  BY <1>3 DEF Listed
<1>4. ASSUME contacts'.count = contacts.count + 1, contacts'.slot = contacts.slot
      PROVE  Listed' = Listed \cup {contacts.slot[contacts.count + 1]}
  <2>1. 1..(contacts.count + 1) = (1..contacts.count) \cup {contacts.count + 1}
    BY <1>1
  <2> QED
    BY <1>4, <2>1 DEF Listed
<1>5. contacts' = contacts => /\ contacts'.count = contacts.count
                              /\ \A j \in 1..contacts.count : contacts'.slot[j] = contacts.slot[j]
  OBVIOUS
<1>6. \A j \in 1..contacts.count : j \in 1..MaxContacts + 1 /\ j # contacts.count + 1
  BY <1>1
<1>7. CASE FillContact
  <2>1. ui.pc = "fill" /\ contacts.count = 0
    BY <1>2, <1>7, UIFields DEF FromUser, Loading
  <2>2. ~StoreContactCount /\ ~CountContact
    <3>1. listener' = listener
      BY <1>7 DEF FillContact
    <3>2. StoreContactCount => listener'.pc # listener.pc
      BY ListenerFields
    <3> QED
      BY <2>1, <3>1, <3>2 DEF CountContact
  <2>3. \A j \in 1..contacts.count : FALSE
    BY <2>1
  <2>4. UNCHANGED listener
    BY <1>7 DEF FillContact
  <2>5. CASE ui'.pc = "groups"
    BY <1>7, <2>1, <2>4, <2>5, UIFields
  <2>6. CASE ui'.pc # "groups"
    <3>1. contacts'.count = contacts.count
      BY <1>7, <2>6, UIFields
    <3> QED
      BY <1>3, <2>2, <2>3, <2>6, <3>1
  <2> QED
    BY <2>5, <2>6
<1>8. CASE StartChat
  <2>1. ui.pc = "idle" /\ ui'.pc # "groups"
    BY <1>8, UIFields
  <2>2. /\ contacts'.count = contacts.count
        /\ \A j \in 1..contacts.count : contacts'.slot[j] = contacts.slot[j]
    <3>1. CASE contacts' = contacts
      BY <3>1
    <3>2. CASE /\ contacts'.count = contacts.count
               /\ \A j \in 1..MaxContacts + 1 : contacts'.slot[j] =
                     IF j = contacts.count + 1 THEN found ELSE contacts.slot[j]
      BY <1>6, <3>2
    <3> QED
      BY <1>8, <3>1, <3>2, UIFields
  <2>3. ~StoreContactCount /\ ~CountContact
    <3>1. listener' = listener
      BY <1>8 DEF StartChat
    <3>2. StoreContactCount => listener'.pc # listener.pc
      BY ListenerFields
    <3> QED
      BY <2>1, <3>1, <3>2 DEF CountContact
  <2> QED
    BY <1>3, <2>1, <2>2, <2>3
<1>9. CASE CountContact
  <2>1. /\ ui.pc = "count_contact" /\ ui'.pc = "show"
        /\ contacts'.count = contacts.count + 1 /\ contacts'.slot = contacts.slot
    BY <1>9, UIFields
  <2>2. /\ found \notin Listed /\ contacts.count < MaxContacts
        /\ contacts.slot[contacts.count + 1] = found
    BY <1>2, <2>1 DEF FromUser
  <2>3. found \in Everyone
    BY <1>1, <2>1 DEF Typed, ThreadsTyped, UITyped
  <2>4. ~ListenerAdds /\ UNCHANGED <<found, listener>>
    BY <1>2, <1>9, <2>1 DEF FromListener, UIAdds, CountContact
  <2> QED
    BY <1>4, <1>9, <2>1, <2>2, <2>3, <2>4
<1>10. CASE WriteContact
  <2>1. /\ listener.pc = "write" /\ listener'.pc = "load_contacts"
        /\ contacts'.count = contacts.count
        /\ \A j \in 1..MaxContacts + 1 : contacts'.slot[j] =
              IF j = contacts.count + 1 THEN listener.message.from ELSE contacts.slot[j]
    BY <1>10, ListenerFields
  <2>2. \A j \in 1..contacts.count : contacts'.slot[j] = contacts.slot[j]
    BY <1>6, <2>1
  <2>3. ~StoreContactCount /\ ~CountContact /\ ~FillContact
    BY <1>10, <2>1 DEF WriteContact, StoreContactCount, CountContact, FillContact
  <2> QED
    BY <1>3, <2>1, <2>2, <2>3
<1>11. CASE StoreContactCount
  <2>1. /\ listener.pc = "store_contacts" /\ listener'.pc = "check"
        /\ listener'.message = listener.message
        /\ contacts'.count = listener.seen + 1 /\ contacts'.slot = contacts.slot
    BY <1>11, ListenerFields
  <2>2. /\ ~UIAdds /\ listener.message.from \notin Listed /\ contacts.count < MaxContacts
        /\ contacts.slot[contacts.count + 1] = listener.message.from
        /\ listener.seen = contacts.count
    BY <1>2, <2>1 DEF FromListener, ListenerAdds
  <2>3. listener.message.from \in Everyone
    BY <2>1 DEF Typed, ThreadsTyped, ListenerTyped, Pushed, Messages
  <2>4. UNCHANGED <<ui, found, chat, late>>
    BY <1>11 DEF StoreContactCount
  <2> QED
    BY <1>4, <1>11, <2>1, <2>2, <2>3, <2>4
<1> QED
  BY <1>3, <1>5, <1>7, <1>8, <1>9, <1>10, <1>11, ContactWriters

\* The steps of the UI thread, and what the other steps leave to it.
LEMMA Steps ==
    ASSUME Typed, Next
    PROVE  \/ ListenerStep \/ ServerStep
           \/ NewChat
           \/ \E r : Asking(r)
           \/ (TakeAnswer \/ TimeOut) /\ \E ok, data : Good(ok, data)
           \/ FillContact \/ LoadMessage \/ PutLoaded \/ CountLoaded \/ NamesKnown \/ CountOwn
           \/ StartChat \/ CountContact \/ ShowChat
BY Asks, Outcome DEF Next, UIStep, Typed

\* What the steps of the listener, of the server and of the user leave alone.
LEMMA OthersLeave ==
    /\ ListenerStep \/ ServerStep => UNCHANGED <<ui, found, chat, title, actions, loaded, late>>
    /\ ServerStep => UNCHANGED <<contacts, list, listener, handled>>
    /\ NewChat => /\ ui.pc = "idle" /\ found' = NoId
                  /\ UNCHANGED <<contacts, list, ui, chat, title, loaded, late, listener, handled,
                                 server>>
BY DEF ListenerStep, ReceiveAnswer, ReceivePart, ReceivePush, WriteContact, LoadContactCount,
   StoreContactCount, CheckChat, PutMessage, LoadListCount, StoreListCount,
   ServerStep, Serve, Reply, PushMessage, UserSends, AskName, NewChat

\* What the steps of the UI thread leave alone.
LEMMA UILeaves ==
    /\ FillContact \/ LoadMessage \/ PutLoaded \/ CountLoaded \/ NamesKnown \/ CountOwn \/ StartChat
          \/ CountContact => UNCHANGED <<chat, title, found, listener, loaded, late, server>>
    /\ ShowChat => loaded' = FALSE /\ found' = NoId /\ title' = DM(found)
                   /\ UNCHANGED <<contacts, listener, late, handled, server>>
    /\ FillContact \/ LoadMessage \/ PutLoaded \/ CountLoaded \/ NamesKnown \/ StartChat
          \/ CountContact => handled' = handled
    /\ LoadMessage \/ PutLoaded \/ CountLoaded \/ NamesKnown \/ CountOwn => contacts' = contacts
    /\ FillContact \/ LoadMessage \/ NamesKnown \/ StartChat \/ CountContact => list' = list
BY DEF FillContact, LoadMessage, PutLoaded, CountLoaded, NamesKnown, CountOwn, StartChat, CountContact, ShowChat

\* The first load of the contacts goes on.
LEMMA LoadingSteps ==
    ASSUME Typed, Next, Loading'
    PROVE  /\ Loading
           /\ \/ ListenerStep \/ ServerStep
              \/ \E r : Asking(r) /\ r.kind = "contacts" /\ ui.pc = "start" /\ ui'.pc = "wait"
              \/ \E ok, data : Good(ok, data) /\ Filling(ok, data)
              \/ FillContact /\ ui'.pc = "fill"
           /\ UNCHANGED <<chat, found>>
<1>1. CASE ListenerStep \/ ServerStep
  BY <1>1, OthersLeave DEF Loading
<1>2. CASE NewChat
  BY <1>2, OthersLeave DEF Loading
<1>3. ASSUME NEW r, Asking(r)
      PROVE  /\ r.kind = "contacts" /\ ui.pc = "start" /\ ui'.pc = "wait"
             /\ UNCHANGED <<chat, found>>
  BY <1>3, AskFacts DEF Asking, Loading, HistoryKinds
<1>4. ASSUME NEW ok, NEW data, Good(ok, data)
      PROVE  Filling(ok, data) /\ ui.pc = "wait" /\ ui.kind = "contacts" /\ UNCHANGED <<chat, found>>
  BY <1>4, AfterFacts
     DEF Filling, NoContacts, RoomsKnown, HistoryKnown, SentShown, SentNotShown, Searched, Loading
<1>5. CASE FillContact
  BY <1>5, UIFields, UILeaves DEF Loading
<1>6. LoadMessage \/ PutLoaded \/ CountLoaded \/ NamesKnown \/ CountOwn \/ StartChat \/ CountContact
      \/ ShowChat => FALSE
  BY UIFields DEF Loading
<1> QED
  BY <1>1, <1>2, <1>3, <1>4, <1>5, <1>6, Steps DEF Loading

\* Nobody who wrote is called 0.
LEMMA NextNoGap ==
    ASSUME Typed, Next, ~raced', NoGap, PlacesRight
    PROVE  NoGap'
<1>1. /\ ~raced /\ requests \in Seq(Requests) /\ store \in Seq(Messages)
      /\ found \in Everyone \cup {NoId}
  BY RacedSteps DEF Typed, ServerTyped, ListsTyped
<1>2. Listed \subseteq Everyone
  BY DEF PlacesRight, Listed
<1>3. chat'.room \/ chat'.id \in Everyone \cup {NoId}
  <2>1. CASE chat' = chat
    BY <2>1 DEF NoGap
  <2>2. ASSUME NEW r, Asking(r) PROVE chat'.room \/ chat'.id \in Everyone \cup {NoId}
    <3>1. r.kind = "history" => r.arg \in Everyone /\ chat' = DM(r.arg)
      BY <1>1, <1>2, <2>2 DEF Asking
    <3>2. r.kind = "group_history" => chat' = Room(r.arg)
      BY <2>2 DEF Asking
    <3>3. r.kind \notin HistoryKinds => chat' = chat
      BY <2>2 DEF Asking
    <3> QED
      BY <2>1, <3>1, <3>2, <3>3 DEF DM, Room, HistoryKinds
  <2>3. CASE ShowChat
    BY <1>1, <2>3, UIFields
  <2>4. ASSUME NEW ok, NEW data, Good(ok, data) PROVE chat' = chat
    BY <2>4, AfterFacts
  <2> QED
    BY <2>1, <2>2, <2>3, <2>4, Steps, OthersLeave, UILeaves
<1>4. \A m \in EntriesOf(store') : m.to.room \/ m.to.id \in Everyone
  <2>1. \A m \in EntriesOf(store) : m.to.room \/ m.to.id \in Everyone
    BY DEF NoGap
  <2>2. CASE store' = store
    BY <2>1, <2>2
  <2>3. ASSUME NEW m \in Messages, store' = Append(store, m), m.to.room \/ m.to.id \in Everyone
        PROVE  \A e \in EntriesOf(store') : e.to.room \/ e.to.id \in Everyone
    BY <1>1, <2>1, <2>3, AppendFacts
  <2>4. CASE /\ Serve /\ Head(requests).kind \in SendKinds
             /\ Head(requests).message \in Messages
             /\ store' = Append(store, Head(requests).message)
    <3>1. requests # <<>>
      BY <2>4 DEF Serve
    <3>2. Head(requests) \in EntriesOf(requests)
      BY <1>1, <3>1, TailFacts
    <3>3. Head(requests).message.to.room \/ Head(requests).message.to.id \in Everyone
      BY <2>4, <3>2 DEF NoGap
    <3> QED
      BY <2>3, <2>4, <3>3
  <2>5. CASE \E u \in Users, c \in Chats :
                /\ Message(Len(store) + 1, u, c) \in Messages
                /\ store' = Append(store, Message(Len(store) + 1, u, c))
    <3>1. PICK u \in Users, c \in Chats :
                /\ Message(Len(store) + 1, u, c) \in Messages
                /\ store' = Append(store, Message(Len(store) + 1, u, c))
      BY <2>5
    <3>2. c.room \/ c.id \in Everyone
      BY DEF Chats, DM, Room, Everyone
    <3>3. Message(Len(store) + 1, u, c).to = c
      BY DEF Message
    <3> QED
      BY <2>3, <3>1, <3>2, <3>3
  <2> QED
    BY <2>2, <2>4, <2>5, StoreSteps
<1>5. \A r \in EntriesOf(requests') : r.kind \in SendKinds =>
         r.message.to.room \/ r.message.to.id \in Everyone
  <2>1. \A r \in EntriesOf(requests) : r.kind \in SendKinds =>
           r.message.to.room \/ r.message.to.id \in Everyone
    BY DEF NoGap
  <2>2. CASE requests' = requests
    BY <2>1, <2>2
  <2>3. CASE Serve
    <3>1. requests # <<>> /\ requests' = Tail(requests)
      BY <2>3 DEF Serve
    <3>2. EntriesOf(requests') \subseteq EntriesOf(requests)
      BY <1>1, <3>1, TailFacts
    <3> QED
      BY <2>1, <3>2
  <2>4. ASSUME NEW q \in Requests, requests' = Append(requests, q),
               q.kind \in SendKinds => q.message.to.room \/ q.message.to.id \in Everyone
        PROVE  \A r \in EntriesOf(requests') : r.kind \in SendKinds =>
                  r.message.to.room \/ r.message.to.id \in Everyone
    <3>1. EntriesOf(requests') = EntriesOf(requests) \cup {q}
      BY <1>1, <2>4, AppendFacts
    <3> QED
      BY <2>1, <2>4, <3>1
  <2>5. CASE \E r : Asking(r)
    <3>1. PICK r : Asking(r)
      BY <2>5
    <3>2. r \in Requests /\ r = [kind |-> r.kind, arg |-> r.arg, message |-> r.message]
      BY <3>1 DEF Asking, Requests
    <3>3. requests' = Append(requests, r)
      BY <3>1, <3>2, AskFacts DEF Asking
    <3>4. r.kind \in SendKinds => r.message = Message(MaxSent + actions', Me, chat) /\ chat.id # NoId
      BY <3>1 DEF Asking
    <3>5. r.kind \in SendKinds => r.message.to = chat /\ (chat.room \/ chat.id \in Everyone)
      BY <3>4 DEF Message, NoGap
    <3> QED
      BY <2>4, <3>2, <3>3, <3>5
  <2>6. CASE AskName /\ listener.message \in Pushed
    <3>1. PICK q : q = [kind |-> "user_info", arg |-> listener.message.from, message |-> NoMessage]
      OBVIOUS
    <3>2. q \in Requests /\ q.kind \notin SendKinds /\ requests' = Append(requests, q)
      BY <2>6, <3>1, ConstantsTyped
         DEF AskName, Requests, ToMe, Kinds, SendKinds, Pushed, Messages
    <3> QED
      BY <2>4, <3>2
  <2>7. WriteContact \/ PutMessage => requests' = requests \/ (AskName /\ listener.message \in Pushed)
    <3>1. WriteContact \/ PutMessage => listener.message \in Pushed
      BY ListenerFields DEF Typed, ThreadsTyped, ListenerTyped
    <3> QED
      BY <3>1 DEF WriteContact, PutMessage, server
  <2>8. ASSUME NEW ok, NEW data, Good(ok, data) PROVE requests' = requests
    BY <2>8, AfterFacts DEF server
  <2>9. ListenerStep \/ ServerStep => requests' = requests \/ Serve \/ WriteContact \/ PutMessage
    BY DEF ListenerStep, ServerStep, ReceiveAnswer, ReceivePart, ReceivePush, LoadContactCount,
       StoreContactCount, CheckChat, LoadListCount, StoreListCount, Reply, PushMessage,
       UserSends, server
  <2> QED
    BY <2>2, <2>3, <2>5, <2>6, <2>7, <2>8, <2>9, Steps, OthersLeave, UILeaves DEF server
<1> QED
  BY <1>3, <1>4, <1>5 DEF NoGap

\* Every step but the two that end an addition leaves the places that count.
LEMMA NextPlacesRight ==
    ASSUME Typed, Next, ~raced', ContactsRight
    PROVE  PlacesRight'
<1>1. /\ contacts.count \in Nat /\ MaxContacts \in Nat /\ ui.arg \in Nat
      /\ contacts.count <= MaxContacts
  BY ChatScreenAssumption
     DEF Typed, ListsTyped, ThreadsTyped, UITyped, UIType, ContactsRight, PlacesRight
<1>2. PlacesRight /\ FromUser
  BY DEF ContactsRight
<1>3. CASE /\ contacts'.count = contacts.count
           /\ \A j \in 1..contacts.count : contacts'.slot[j] = contacts.slot[j]
  BY <1>2, <1>3 DEF PlacesRight
<1>4. ASSUME NEW u \in Everyone \ Listed, contacts.slot[contacts.count + 1] = u,
             contacts'.count = contacts.count + 1, contacts'.slot = contacts.slot,
             contacts.count < MaxContacts
      PROVE  PlacesRight'
  <2>1. 1..(contacts.count + 1) = (1..contacts.count) \cup {contacts.count + 1}
    BY <1>1
  <2>2. \A j \in 1..contacts.count : contacts.slot[j] # u
    BY <1>4 DEF Listed
  <2>3. contacts'.count <= MaxContacts
    BY <1>1, <1>4
  <2> QED
    BY <1>2, <1>4, <2>1, <2>2, <2>3 DEF PlacesRight
<1>5. CASE /\ ui.pc = "fill" /\ contacts'.count = ui.arg /\ contacts'.slot = contacts.slot
  <2>1. /\ ui.todo \in Seq(Everyone) /\ Distinct(ui.todo) /\ ui.arg <= Len(ui.todo)
        /\ \A j \in 1..ui.arg : contacts.slot[j] = ui.todo[j]
    BY <1>2, <1>5 DEF FromUser
  <2>2. ui.arg <= MaxContacts
    BY <1>5 DEF Typed, ContactsBound
  <2>3. 1..ui.arg \subseteq DOMAIN ui.todo
    BY <1>1, <2>1
  <2>4. \A j \in 1..ui.arg : ui.todo[j] \in Everyone
    BY <2>1, <2>3
  <2> QED
    BY <1>5, <2>1, <2>2, <2>3, <2>4 DEF PlacesRight, Distinct
<1> QED
  BY <1>3, <1>4, <1>5, ContactsGrow

\* The listener adds a contact by itself.
LEMMA NextFromListener ==
    ASSUME Typed, Next, ~raced', ContactsRight
    PROVE  FromListener'
<1> SUFFICES ASSUME ListenerAdds'
             PROVE  /\ ~UIAdds'
                    /\ listener'.message.from \notin Listed' /\ contacts'.count < MaxContacts
                    /\ listener'.pc # "write" =>
                          contacts'.slot[contacts'.count + 1] = listener'.message.from
                    /\ listener'.pc = "store_contacts" => listener'.seen = contacts'.count
  BY DEF FromListener
<1>1. ~UIAdds'
  BY RacedSteps
<1>2. /\ FromListener /\ contacts.count \in Nat /\ MaxContacts \in Nat
      /\ contacts.count + 1 \in 1..MaxContacts + 1
  BY ChatScreenAssumption DEF ContactsRight, PlacesRight, Typed, ListsTyped
<1>3. CASE ReceivePush
  <2>1. /\ listener'.pc = "write" /\ listener'.message.from \notin Listed
        /\ contacts.count < MaxContacts
    BY <1>3, ListenerFields DEF ListenerAdds
  <2>2. contacts' = contacts
    BY <1>3 DEF ReceivePush
  <2>3. Listed' = Listed
    BY <2>2 DEF Listed
  <2> QED
    BY <1>1, <2>1, <2>2, <2>3
<1>4. CASE WriteContact
  <2>1. /\ listener.pc = "write" /\ listener'.pc = "load_contacts"
        /\ listener'.message = listener.message /\ contacts'.count = contacts.count
        /\ contacts'.slot[contacts.count + 1] = listener.message.from
    BY <1>2, <1>4, ListenerFields
  <2>2. Listed' = Listed
    BY <1>4, <2>1, ContactsGrow DEF WriteContact
  <2> QED
    BY <1>1, <1>2, <2>1, <2>2 DEF FromListener, ListenerAdds
<1>5. CASE LoadContactCount
  <2>1. /\ listener.pc = "load_contacts" /\ listener'.pc = "store_contacts"
        /\ listener'.message = listener.message /\ listener'.seen = contacts.count
    BY <1>5, ListenerFields
  <2>2. contacts' = contacts
    BY <1>5 DEF LoadContactCount
  <2>3. Listed' = Listed
    BY <2>2 DEF Listed
  <2> QED
    BY <1>1, <1>2, <2>1, <2>2, <2>3 DEF FromListener, ListenerAdds
<1>6. CASE UNCHANGED <<listener, contacts>>
  BY <1>1, <1>2, <1>6 DEF FromListener, ListenerAdds, Listed
<1>7. CASE FillContact \/ CountContact
  <2>1. UIAdds
    BY <1>7, UIFields DEF UIAdds, Loading
  <2>2. listener' = listener
    BY <1>7, UILeaves
  <2> QED
    BY <1>2, <2>1, <2>2 DEF FromListener, ListenerAdds
<1>8. CASE StartChat
  <2>1. ui'.pc # "count_contact"
    BY <1>1 DEF UIAdds
  <2>2. UNCHANGED <<listener, contacts>>
    BY <1>8, <2>1, UIFields, UILeaves
  <2> QED
    BY <1>6, <2>2
<1>9. StoreContactCount \/ CheckChat \/ PutMessage \/ LoadListCount \/ StoreListCount => FALSE
  BY ListenerFields DEF ListenerAdds
<1>10. ReceiveAnswer \/ ReceivePart \/ ServerStep => UNCHANGED <<listener, contacts>>
  BY OthersLeave DEF ReceiveAnswer, ReceivePart
<1>11. ASSUME NEW ok, NEW data, Good(ok, data) PROVE UNCHANGED <<listener, contacts>>
  BY <1>11, AfterFacts
<1>12. ASSUME NEW r, Asking(r) PROVE UNCHANGED <<listener, contacts>>
  BY <1>12 DEF Asking
<1> QED
  BY <1>3, <1>4, <1>5, <1>6, <1>7, <1>8, <1>9, <1>10, <1>11, <1>12, Steps, OthersLeave, UILeaves
  DEF ListenerStep

\* The UI thread adds contacts by itself, and the first of them to an empty list.
LEMMA NextFromUser ==
    ASSUME Typed, Next, ~raced', ContactsRight
    PROVE  FromUser'
<1>1. /\ FromUser /\ FromServer /\ FromListener /\ contacts.count \in Nat /\ MaxContacts \in Nat
      /\ ui.arg \in Nat /\ contacts.count + 1 \in 1..MaxContacts + 1
  BY ChatScreenAssumption
     DEF ContactsRight, PlacesRight, Typed, ListsTyped, ThreadsTyped, UITyped, UIType
<1>2. ASSUME Loading' PROVE contacts'.count = 0 /\ ~late'
  <2>1. Loading /\ contacts.count = 0 /\ ~late /\ UIAdds
    BY <1>1, <1>2, LoadingSteps DEF FromUser, UIAdds
  <2>2. contacts'.count = contacts.count
    <3>1. ui'.pc # "groups"
      BY <1>2 DEF Loading
    <3>2. ~CountContact
      BY <2>1, UIFields DEF Loading
    <3> QED
      BY <2>1, <3>1, <3>2, ContactsGrow
  <2>3. ~late'
    <3>1. ASSUME TakeAnswer \/ TimeOut PROVE TakeAnswer /\ answer.kind = ui.kind
      <4>1. PICK ok, data : Good(ok, data)
        BY <3>1, Outcome DEF Typed
      <4>2. Filling(ok, data)
        BY <1>2, <4>1, AfterFacts
           DEF NoContacts, RoomsKnown, HistoryKnown, SentShown, SentNotShown, Searched, Loading
      <4>3. answer \in Replies /\ answer.kind = ui.kind
        BY <4>1, <4>2 DEF Filling, Good
      <4> QED
        BY <3>1, <4>3, ConstantsTyped DEF TimeOut
    <3>2. late = FALSE
      BY <2>1 DEF Typed, HistoryTyped
    <3>3. TakeAnswer => ~TimeOut
      BY DEF TakeAnswer, TimeOut
    <3> QED
      BY <3>1, <3>2, <3>3, LateSteps
  <2> QED
    BY <2>1, <2>2, <2>3
<1>3. ASSUME ui'.pc = "count_contact"
      PROVE  /\ found' \notin Listed' /\ contacts'.count < MaxContacts
             /\ contacts'.slot[contacts'.count + 1] = found'
  <2>1. CASE StartChat
    <3>1. /\ found \notin Listed /\ contacts.count < MaxContacts /\ ui.pc = "idle"
          /\ contacts'.count = contacts.count /\ contacts'.slot[contacts.count + 1] = found
      BY <1>1, <1>3, <2>1, UIFields
    <3>2. Listed' = Listed
      BY <1>3, <2>1, <3>1, ContactsGrow
    <3>3. found' = found
      BY <2>1, UILeaves
    <3> QED
      BY <3>1, <3>2, <3>3
  <2>2. CASE ListenerStep \/ ServerStep
    <3>1. ui.pc = "count_contact" /\ found' = found /\ UIAdds
      BY <1>3, <2>2, OthersLeave DEF UIAdds
    <3>2. ~WriteContact /\ ~StoreContactCount
      BY <1>1, <3>1, ListenerFields DEF FromListener, ListenerAdds
    <3>3. contacts' = contacts
      BY <2>2, <3>2 DEF ListenerStep, ReceiveAnswer, ReceivePart, ReceivePush, LoadContactCount,
         CheckChat, PutMessage, LoadListCount, StoreListCount,
         ServerStep, Serve, Reply, PushMessage, UserSends
    <3> QED
      BY <1>1, <3>1, <3>3 DEF FromUser, Listed
  <2>3. FillContact \/ LoadMessage \/ PutLoaded \/ CountLoaded \/ NamesKnown \/ CountOwn
           \/ CountContact \/ ShowChat \/ NewChat => FALSE
    BY <1>3, UIFields, OthersLeave
  <2>4. ASSUME NEW r, Asking(r) PROVE FALSE
    BY <1>3, <2>4, AskFacts DEF Asking
  <2>5. ASSUME NEW ok, NEW data, Good(ok, data) PROVE FALSE
    BY <1>3, <2>5, AfterFacts
       DEF Filling, NoContacts, RoomsKnown, HistoryKnown, SentShown, SentNotShown, Searched
  <2> QED
    BY <2>1, <2>2, <2>3, <2>4, <2>5, Steps
<1>4. ASSUME ui'.pc = "fill"
      PROVE  /\ ui'.todo \in Seq(Everyone) /\ Distinct(ui'.todo) /\ ui'.arg <= Len(ui'.todo)
             /\ \A j \in 1..ui'.arg : contacts'.slot[j] = ui'.todo[j]
  <2>1. Loading'
    BY <1>4 DEF Loading
  <2>2. CASE ListenerStep \/ ServerStep
    <3>1. ui' = ui /\ UIAdds
      BY <1>4, <2>2, OthersLeave DEF UIAdds, Loading
    <3>2. ~WriteContact /\ ~StoreContactCount
      BY <1>1, <3>1, ListenerFields DEF FromListener, ListenerAdds
    <3>3. contacts' = contacts
      BY <2>2, <3>2 DEF ListenerStep, ReceiveAnswer, ReceivePart, ReceivePush, LoadContactCount,
         CheckChat, PutMessage, LoadListCount, StoreListCount,
         ServerStep, Serve, Reply, PushMessage, UserSends
    <3> QED
      BY <1>1, <1>4, <3>1, <3>3 DEF FromUser
  <2>3. ASSUME NEW ok, NEW data, Good(ok, data), Filling(ok, data)
        PROVE  /\ ui'.todo \in Seq(Everyone) /\ Distinct(ui'.todo) /\ ui'.arg = 0
    <3>1. answer \in Flight /\ answer.kind = ui.kind /\ data = answer.data
      BY <2>3, TakenFlight DEF Filling
    <3>2. Loading /\ answer.kind = "contacts"
      BY <2>1, <2>3, <3>1, LoadingSteps DEF Filling
    <3> QED
      BY <1>1, <2>3, <3>1, <3>2 DEF FromServer, Filling
  <2>4. ASSUME ui'.todo \in Seq(Everyone), Distinct(ui'.todo), ui'.arg = 0
        PROVE  /\ ui'.arg <= Len(ui'.todo)
               /\ \A j \in 1..ui'.arg : contacts'.slot[j] = ui'.todo[j]
    <3>1. Len(ui'.todo) \in Nat
      BY <2>4
    <3> QED
      BY <2>4, <3>1
  <2>5. CASE FillContact
    <3>1. /\ ui.pc = "fill" /\ ui'.todo = ui.todo /\ ui'.arg = ui.arg + 1
          /\ ui.arg + 1 <= Len(ui.todo) /\ ui.arg + 1 <= MaxContacts
          /\ \A j \in 1..MaxContacts + 1 : contacts'.slot[j] =
                IF j = ui.arg + 1 THEN ui.todo[ui.arg + 1] ELSE contacts.slot[j]
      BY <1>4, <2>5, UIFields
    <3>2. /\ ui.todo \in Seq(Everyone) /\ Distinct(ui.todo)
          /\ \A j \in 1..ui.arg : contacts.slot[j] = ui.todo[j]
      BY <1>1, <3>1 DEF FromUser
    <3>3. \A j \in 1..(ui.arg + 1) : j \in 1..MaxContacts + 1 /\ (j = ui.arg + 1 \/ j \in 1..ui.arg)
      BY <1>1, <3>1
    <3>4. \A j \in 1..(ui.arg + 1) : contacts'.slot[j] = ui.todo[j]
      BY <3>1, <3>2, <3>3
    <3> QED
      BY <3>1, <3>2, <3>4
  <2>6. ASSUME NEW r, Asking(r) PROVE FALSE
    BY <1>4, <2>6, AskFacts DEF Asking
  <2> QED
    BY <2>1, <2>2, <2>3, <2>4, <2>5, <2>6, LoadingSteps
<1> QED
  BY <1>2, <1>3, <1>4 DEF FromUser

\* What the server answers first is everybody who wrote, each once.
LEMMA NextFromServer ==
    ASSUME Typed, Next, ~raced', NoGap, ContactsRight, ~late => Exchange
    PROVE  FromServer'
<1> SUFFICES ASSUME Loading', NEW a \in Flight', a.kind = "contacts"
             PROVE  a.ok /\ a.data \in Seq(Everyone) /\ Distinct(a.data)
  BY DEF FromServer
<1>1. Loading /\ ~late'
  BY LoadingSteps, NextFromUser DEF FromUser
<1>2. Exchange
  BY <1>1, OnTime
<1>3. a \in Flight \/ Computed(a) \/ Parted(a)
  BY <1>1, <1>2, NextExchange
<1>6. ~Parted(a)
  BY DEF Parted, HistoryKinds
<1>4. CASE a \in Flight
  BY <1>1, <1>4 DEF ContactsRight, FromServer
<1>5. CASE Computed(a)
  <2>1. PICK r \in OurRequests : a \in Answers(r)
    BY <1>5 DEF Computed
  <2>2. r \in Requests /\ ServerTyped /\ store \in Seq(Messages)
    BY DEF OurRequests, Typed, ServerTyped
  <2>3. a.kind = r.kind
    BY <2>1, <2>2, AnswersTyped
  <2>4. a = Answer(r.kind, TRUE, SetToSeq(Peers))
    BY <2>1, <2>3 DEF Answers
  <2>5. a.ok /\ a.data = SetToSeq(Peers)
    BY <2>4 DEF Answer
  <2>6. Peers \subseteq Everyone
    BY <2>2, PeersFacts DEF NoGap
  <2>7. SetToSeq(Peers) \in Seq(Peers) /\ Distinct(SetToSeq(Peers))
    BY <2>2, PeersFacts, SetToSeqFacts
  <2>8. ASSUME NEW S, S \subseteq Everyone, NEW s \in Seq(S) PROVE s \in Seq(Everyone)
    BY <2>8
  <2> QED
    BY <2>5, <2>6, <2>7, <2>8
<1> QED
  BY <1>3, <1>4, <1>5, <1>6

\* Somebody's direct message is handled by a step that is done with it.
LEMMA WroteSteps ==
    ASSUME Typed, Next, Exchange, Numbered
    PROVE  \/ Wrote' \subseteq Wrote
           \/ /\ CountOwn /\ ~chat.room /\ chat.id # NoId
              /\ Wrote' \subseteq Wrote \cup {chat.id}
           \/ /\ CheckChat \/ StoreListCount
              /\ listener.pc \in {"check", "store_list"} /\ ~listener.message.to.room
              /\ Wrote' \subseteq Wrote \cup {listener.message.to.id}
<1>1. StoreNumbered /\ SendNumbered /\ PushNumbered
  BY DEF Numbered
<1>2. StoreNumbered' /\ EntriesOf(store) \subseteq EntriesOf(store')
  BY NextStoreNumbered
<1>3. \A m \in EntriesOf(store') : m.n \in Numbers(store) => m \in EntriesOf(store)
  <2> SUFFICES ASSUME NEW m \in EntriesOf(store'), NEW e \in EntriesOf(store), m.n = e.n
               PROVE  m = e
    BY DEF Numbers, EntriesOf
  <2>1. e \in EntriesOf(store')
    BY <1>2
  <2> QED
    BY <1>2, <2>1 DEF StoreNumbered, EntriesOf
<1>4. CASE handled' = handled
  <2>1. \A m \in EntriesOf(store') : m.n \in handled => m \in EntriesOf(store)
    BY <1>1, <1>3 DEF StoreNumbered
  <2> QED
    BY <1>4, <2>1 DEF Wrote
<1>5. ASSUME NEW h \in EntriesOf(store), handled' = handled \cup {h.n}
      PROVE  Wrote' \subseteq Wrote \cup (IF h.to.room THEN {} ELSE {h.to.id})
  <2>1. h.n \in Numbers(store)
    BY DEF EntriesOf, Numbers
  <2>2. \A m \in EntriesOf(store') : m.n \in handled' => m \in EntriesOf(store) /\ (m.n \in handled \/ m = h)
    <3> SUFFICES ASSUME NEW m \in EntriesOf(store'), m.n \in handled'
                 PROVE  m \in EntriesOf(store) /\ (m.n \in handled \/ m = h)
      OBVIOUS
    <3>1. m \in EntriesOf(store)
      BY <1>1, <1>3, <1>5, <2>1 DEF StoreNumbered
    <3>2. m.n = h.n => m = h
      BY <1>1, <3>1, SameNumber
    <3> QED
      BY <1>5, <3>1, <3>2
  <2> QED
    BY <2>2 DEF Wrote
<1>6. CASE CountOwn /\ handled' = handled \cup {ui.message.n}
  <2>1. ui.pc = "count_own"
    BY <1>6, UIFields
  <2>2. ui.message \in EntriesOf(store) /\ ui.message \in Messages /\ ui.message.to = chat
    BY <1>1, <2>1 DEF SendNumbered, Typed, ChatKnown
  <2>3. chat \in Recipients
    BY <2>2 DEF Messages
  <2>4. chat.id # NoId
    BY <2>3, ConstantsTyped DEF Recipients
  <2> QED
    BY <1>5, <1>6, <2>2, <2>4
<1>7. CASE (CheckChat \/ StoreListCount) /\ handled' = handled \cup {listener.message.n}
  <2>1. listener.pc \in {"check", "store_list"}
    BY <1>7, ListenerFields
  <2>2. listener.message \in EntriesOf(store)
    BY <1>1, <2>1 DEF PushNumbered, InHand
  <2> QED
    BY <1>5, <1>7, <2>1, <2>2
<1> QED
  BY <1>4, <1>6, <1>7, HandledSteps

\* Once it is loaded, the list of the contacts only grows.
LEMMA ListedGrows ==
    ASSUME Typed, Next, ~raced', ContactsRight, ~Loading
    PROVE  Listed \subseteq Listed' /\ (Full => Full')
<1>1. contacts.count \in Nat /\ MaxContacts \in Nat
  BY ChatScreenAssumption DEF Typed, ListsTyped
<1>2. ui.pc # "fill"
  BY DEF Loading
<1>3. Listed \subseteq Listed' /\ (contacts'.count = contacts.count \/ contacts'.count = contacts.count + 1)
  BY <1>2, ContactsGrow
<1> QED
  BY <1>1, <1>3 DEF Full

\* While it is loaded, nobody's direct message is handled.
LEMMA LoadingWrote ==
    ASSUME Typed, Next, Exchange, Numbered, Everybody, Loading
    PROVE  Wrote' \subseteq Wrote
<1>1. ~CountOwn
  BY UIFields DEF Loading
<1>2. listener.pc # "recv" => listener.message.to.room
  BY DEF Everybody
<1> QED
  BY <1>1, <1>2, WroteSteps

\* Who wrote is in the list, or is among those that it is being filled with.
LEMMA NextEverybody ==
    ASSUME Typed, Next, ~raced', ~late', Exchange, Numbered, NoGap, ContactsRight, Everybody
    PROVE  Everybody'
<1>1. /\ PlacesRight' /\ FromListener' /\ FromUser' /\ FromServer'
      /\ contacts.count \in Nat /\ MaxContacts \in Nat /\ MaxContacts # 0
  BY ChatScreenAssumption, NextPlacesRight, NextFromListener, NextFromUser, NextFromServer
     DEF Typed, ListsTyped
<1>2. ASSUME TakeAnswer, NEW ok, NEW data, Good(ok, data), ui.kind = "contacts"
      PROVE  ok /\ answer \in Flight /\ answer.kind = "contacts" /\ data = answer.data
  <2>1. UNCHANGED requests /\ ui.pc = "wait"
    BY <1>2, AfterFacts DEF server
  <2>2. answer.kind = ui.kind /\ answer # NoAnswer
    BY <1>2, OnTime
  <2>3. answer \in Flight
    BY <1>2, <2>1, <2>2 DEF Flight, InSlot, OurReplies, Typed, ThreadsTyped, ListenerTyped
  <2>4. answer.ok
    BY <1>2, <2>1, <2>2, <2>3 DEF ContactsRight, FromServer, Loading
  <2>5. ok
    BY <1>2, <2>2, <2>4 DEF Good
  <2> QED
    BY <1>2, <2>2, <2>3, <2>5 DEF Good
<1>3. ASSUME ~Loading PROVE Listed \subseteq Listed' /\ (Full => Full')
  BY <1>3, ListedGrows
<1>4. ASSUME Loading, ~Loading'
      PROVE  /\ UNCHANGED <<chat, listener>> /\ ui'.pc = "groups"
             /\ Full' \/ Wrote \subseteq Listed'
  <2>1. CASE TakeAnswer
    <3>1. PICK ok, data : Good(ok, data)
      BY <2>1, Outcome DEF Typed
    <3>2. UNCHANGED <<chat, listener>> /\ ui.pc = "wait" /\ ui.kind = "contacts"
      BY <1>4, <3>1, AfterFacts DEF Loading
    <3>3. NoContacts(ok, data)
      BY <1>4, <3>1, <3>2, AfterFacts
         DEF Filling, RoomsKnown, HistoryKnown, SentShown, SentNotShown, Searched, Loading,
             HistoryKinds, SendKinds
    <3>4. ok /\ answer \in Flight /\ answer.kind = "contacts" /\ data = answer.data
      BY <1>2, <2>1, <3>1, <3>2
    <3>5. Wrote \subseteq EntriesOf(<<>>)
      BY <3>3, <3>4 DEF Everybody, NoContacts
    <3>6. EntriesOf(<<>>) = {}
      BY DEF EntriesOf
    <3> QED
      BY <3>2, <3>3, <3>5, <3>6 DEF NoContacts
  <2>2. CASE FillContact
    <3>1. /\ ui.pc = "fill" /\ ui'.pc = "groups"
          /\ ui.arg >= Len(ui.todo) \/ ui.arg >= MaxContacts
          /\ contacts'.count = ui.arg /\ contacts'.slot = contacts.slot
      BY <1>4, <2>2, UIFields DEF Loading
    <3>2. /\ ui.todo \in Seq(Everyone) /\ ui.arg <= Len(ui.todo)
          /\ \A j \in 1..ui.arg : contacts.slot[j] = ui.todo[j]
      BY <3>1 DEF ContactsRight, FromUser
    <3>3. Listed' = {ui.todo[j] : j \in 1..ui.arg}
      BY <3>1, <3>2 DEF Listed
    <3>4. CASE ui.arg >= MaxContacts
      BY <2>2, <3>1, <3>4, UILeaves DEF Full
    <3>5. CASE ui.arg >= Len(ui.todo)
      <4>1. ui.arg \in Nat
        BY DEF Typed, ThreadsTyped, UITyped, UIType
      <4>2. DOMAIN ui.todo = 1..ui.arg
        BY <3>2, <3>5, <4>1
      <4>3. Listed' = EntriesOf(ui.todo)
        BY <3>3, <4>2 DEF EntriesOf
      <4> QED
        BY <2>2, <3>1, <4>3, UILeaves DEF Everybody
    <3> QED
      BY <3>1, <3>4, <3>5
  <2>3. ASSUME NEW r, Asking(r) PROVE FALSE
    BY <1>4, <2>3, AskFacts DEF Asking, Loading
  <2>4. LoadMessage \/ PutLoaded \/ CountLoaded \/ NamesKnown \/ CountOwn \/ StartChat
        \/ CountContact \/ ShowChat => FALSE
    BY <1>4, UIFields DEF Loading
  <2>5. ListenerStep \/ ServerStep \/ NewChat => FALSE
    BY <1>4, OthersLeave DEF Loading
  <2> QED
    BY <2>1, <2>2, <2>3, <2>4, <2>5, Steps, OnTime
<1>5. Loading => Wrote' \subseteq Wrote
  BY LoadingWrote
<1>6. ASSUME ~Loading' PROVE Full' \/ Wrote' \subseteq Listed'
  <2>1. CASE Loading
    BY <1>4, <1>5, <1>6, <2>1
  <2>2. CASE ~Loading
    <3>1. Full \/ Wrote \subseteq Listed
      BY <2>2 DEF Everybody
    <3>2. ~chat.room /\ chat.id # NoId => Full \/ chat.id \in Listed
      BY DEF Everybody
    <3>3. listener.pc \in {"check", "store_list"} /\ ~listener.message.to.room =>
             Full \/ listener.message.to.id \in Listed
      BY <2>2 DEF Everybody
    <3> HIDE DEF Wrote, Listed, Full
    <3> QED
      BY <1>3, <2>2, <3>1, <3>2, <3>3, WroteSteps
  <2> QED
    BY <2>1, <2>2
<1>7. ASSUME ReceivePush
      PROVE  /\ listener.pc = "recv" /\ listener'.message = Head(wire).message
             /\ listener'.message \in Pushed
             /\ listener'.pc = "check" =>
                   listener'.message.to.room \/ listener'.message.from \in Listed \/ Full
             /\ listener'.pc \in {"check", "write"}
  <2>1. ListenerTyped'
    BY NextListenerTyped
  <2>2. listener'.pc # "recv"
    BY <1>7, ListenerFields
  <2> QED
    BY <1>7, <2>1, <2>2, ListenerFields DEF ListenerTyped, Full
<1>8. \/ listener' = listener
      \/ ReceivePush
      \/ listener.pc # "recv" /\ listener'.pc = "recv"
      \/ /\ listener.pc # "recv" /\ listener'.message = listener.message
         /\ \/ listener'.pc \in {"load_contacts", "store_contacts"}
            \/ StoreContactCount /\ listener'.pc = "check"
            \/ listener.pc \in {"check", "put", "load_list", "store_list"}
  <2>1. ListenerStep => \/ listener' = listener
                        \/ ReceivePush
                        \/ listener.pc # "recv" /\ listener'.pc = "recv"
                        \/ /\ listener.pc # "recv" /\ listener'.message = listener.message
                           /\ \/ listener'.pc \in {"load_contacts", "store_contacts"}
                              \/ StoreContactCount /\ listener'.pc = "check"
                              \/ listener.pc \in {"check", "put", "load_list", "store_list"}
    BY ListenerFields DEF ListenerStep
  <2>2. ASSUME NEW r, Asking(r) PROVE listener' = listener
    BY <2>2 DEF Asking
  <2>3. ASSUME NEW ok, NEW data, Good(ok, data) PROVE listener' = listener
    BY <2>3, AfterFacts
  <2> QED
    BY <2>1, <2>2, <2>3, Steps, OthersLeave, UILeaves
<1>9. ASSUME ~Loading', listener'.pc \in {"check", "put", "load_list", "store_list"},
             ~listener'.message.to.room
      PROVE  Full' \/ listener'.message.to.id \in Listed'
  <2>1. CASE Loading
    <3>1. listener' = listener
      BY <1>4, <1>9, <2>1
    <3> QED
      BY <1>9, <2>1, <3>1 DEF Everybody
  <2>2. CASE ~Loading
    <3>1. CASE listener' = listener
      BY <1>3, <1>9, <2>2, <3>1 DEF Everybody
    <3>2. CASE ReceivePush
      <4>1. listener'.message.to.id = listener'.message.from
        BY <1>7, <1>9, <3>2 DEF Pushed
      <4>2. Full \/ listener'.message.to.id \in Listed
        BY <1>7, <1>9, <3>2, <4>1
      <4> QED
        BY <1>3, <2>2, <4>2
    <3>3. CASE StoreContactCount /\ listener'.message = listener.message
      <4>1. Listed' = Listed \cup {listener.message.from} /\ listener.pc = "store_contacts"
        BY <3>3, ContactsGrow, ListenerFields
      <4>2. listener.message \in Pushed
        BY <4>1 DEF Typed, ThreadsTyped, ListenerTyped
      <4> QED
        BY <1>9, <3>3, <4>1, <4>2 DEF Pushed
    <3>4. CASE /\ listener'.message = listener.message
               /\ listener.pc \in {"check", "put", "load_list", "store_list"}
      BY <1>3, <1>9, <2>2, <3>4 DEF Everybody
    <3> QED
      BY <1>8, <1>9, <3>1, <3>2, <3>3, <3>4
  <2> QED
    BY <2>1, <2>2
<1>10. ASSUME Loading', listener'.pc # "recv" PROVE listener'.message.to.room
  <2>1. Loading /\ contacts.count = 0
    BY <1>10, LoadingSteps DEF ContactsRight, FromUser
  <2>2. Listed = {} /\ ~Full
    BY <1>1, <2>1 DEF Listed, Full
  <2>3. CASE ReceivePush
    <3>1. listener'.pc # "write"
      BY <1>10, RacedSteps DEF UIAdds, ListenerAdds
    <3> QED
      BY <1>7, <2>2, <2>3, <3>1
  <2>4. CASE ~ReceivePush
    <3>1. listener.pc # "recv" /\ listener'.message = listener.message
      BY <1>8, <1>10, <2>4
    <3> QED
      BY <2>1, <3>1 DEF Everybody
  <2> QED
    BY <2>3, <2>4
<1>11. Loading' => chat'.id = NoId
  BY LoadingSteps DEF Everybody
<1>12. ASSUME ~chat'.room, chat'.id # NoId PROVE Full' \/ chat'.id \in Listed'
  <2>1. CASE chat' = chat
    <3>1. ~Loading /\ (Full \/ chat.id \in Listed)
      BY <1>12, <2>1 DEF Everybody
    <3> QED
      BY <1>3, <2>1, <3>1
  <2>2. ASSUME NEW r, Asking(r), chat' # chat PROVE chat'.id \in Listed'
    <3>1. r.kind = "history" /\ chat' = DM(r.arg) /\ r.arg \in Listed /\ contacts' = contacts
      BY <1>12, <2>2, RacedSteps DEF Asking, Room, HistoryKinds
    <3> QED
      BY <3>1 DEF DM, Listed
  <2>3. CASE ShowChat
    <3>1. ui.pc = "show" /\ chat'.id = found
      BY <2>3, UIFields
    <3>2. Full \/ found \in Listed
      BY <3>1 DEF Everybody
    <3> QED
      BY <1>3, <3>1, <3>2 DEF Loading
  <2>4. ASSUME NEW ok, NEW data, Good(ok, data) PROVE chat' = chat
    BY <2>4, AfterFacts
  <2> QED
    BY <2>1, <2>2, <2>3, <2>4, Steps, OthersLeave, UILeaves
<1>13. ASSUME ui'.pc = "show" PROVE Full' \/ found' \in Listed'
  <2>1. CASE ListenerStep \/ ServerStep
    <3>1. ui' = ui /\ found' = found
      BY <2>1, OthersLeave
    <3>2. Full \/ found \in Listed
      BY <1>13, <3>1 DEF Everybody
    <3> QED
      BY <1>3, <1>13, <3>1, <3>2 DEF Loading
  <2>2. CASE StartChat
    <3>1. /\ contacts' = contacts /\ found' = found
          /\ found \in Listed \/ contacts.count >= MaxContacts
      BY <1>13, <2>2, UIFields, UILeaves
    <3> QED
      BY <3>1 DEF Listed, Full
  <2>3. CASE CountContact
    <3>1. Listed' = Listed \cup {found} /\ found' = found
      BY <2>3, ContactsGrow, UILeaves, UIFields
    <3> QED
      BY <3>1
  <2>4. FillContact \/ LoadMessage \/ PutLoaded \/ CountLoaded \/ NamesKnown \/ CountOwn
        \/ ShowChat \/ NewChat => FALSE
    BY <1>13, UIFields, OthersLeave
  <2>5. ASSUME NEW r, Asking(r) PROVE FALSE
    BY <1>13, <2>5, AskFacts DEF Asking
  <2>6. ASSUME NEW ok, NEW data, Good(ok, data) PROVE FALSE
    BY <1>13, <2>6, AfterFacts
       DEF Filling, NoContacts, RoomsKnown, HistoryKnown, SentShown, SentNotShown, Searched
  <2> QED
    BY <2>1, <2>2, <2>3, <2>4, <2>5, <2>6, Steps
<1>14. ASSUME ui'.pc = "fill" PROVE Wrote' \subseteq EntriesOf(ui'.todo)
  <2>1. Loading' /\ Loading /\ Wrote' \subseteq Wrote
    BY <1>5, <1>14, LoadingSteps DEF Loading
  <2>2. CASE ListenerStep \/ ServerStep
    <3>1. ui' = ui
      BY <2>2, OthersLeave
    <3> QED
      BY <1>14, <2>1, <3>1 DEF Everybody
  <2>3. ASSUME NEW ok, NEW data, Good(ok, data), Filling(ok, data)
        PROVE  Wrote \subseteq EntriesOf(ui'.todo)
    <3>1. answer \in Flight /\ answer.kind = "contacts" /\ ui'.todo = answer.data
      BY <2>3, TakenFlight DEF Filling
    <3> QED
      BY <3>1 DEF Everybody
  <2>4. CASE FillContact
    <3>1. ui.pc = "fill" /\ ui'.todo = ui.todo
      BY <1>14, <2>4, UIFields
    <3> QED
      BY <2>1, <3>1 DEF Everybody
  <2>5. ASSUME NEW r, Asking(r) PROVE FALSE
    BY <1>14, <2>5, AskFacts DEF Asking
  <2> QED
    BY <2>1, <2>2, <2>3, <2>4, <2>5, LoadingSteps
<1>15. ASSUME NEW a \in Flight', a.kind = "contacts" PROVE Wrote' \subseteq EntriesOf(a.data)
  <2>1. Exchange' /\ UNCHANGED ui /\ (a \in Flight \/ Computed(a))
    <3>1. ~Parted(a)
      BY <1>15 DEF Parted, HistoryKinds
    <3> QED
      BY <3>1, NextExchange
  <2>2. ui.pc = "wait" /\ ui.kind = "contacts"
    BY <1>15, <2>1 DEF Exchange
  <2>3. Wrote' \subseteq Wrote
    BY <1>5, <2>2 DEF Loading
  <2>4. CASE a \in Flight
    BY <1>15, <2>3, <2>4 DEF Everybody
  <2>5. CASE Computed(a)
    <3>1. PICK r \in OurRequests : a \in Answers(r)
      BY <2>5 DEF Computed
    <3>2. r \in Requests /\ ServerTyped /\ store \in Seq(Messages)
      BY DEF OurRequests, Typed, ServerTyped
    <3>3. a.kind = r.kind
      BY <3>1, <3>2, AnswersTyped
    <3>4. a = Answer(r.kind, TRUE, SetToSeq(Peers))
      BY <1>15, <3>1, <3>3 DEF Answers
    <3>5. a.data = SetToSeq(Peers)
      BY <3>4 DEF Answer
    <3>6. EntriesOf(SetToSeq(Peers)) = Peers /\ Wrote \subseteq Peers
      BY <3>2, PeersFacts, SetToSeqFacts DEF Wrote
    <3> QED
      BY <2>3, <3>5, <3>6
  <2> QED
    BY <2>1, <2>4, <2>5
<1> HIDE DEF Loading, Full, Wrote, Listed, Flight
<1> QED
  BY <1>6, <1>9, <1>10, <1>11, <1>12, <1>13, <1>14, <1>15 DEF Everybody

\* As long as one thread has added contacts at a time, what they are adding is what is
\* missing; and as long as no request was late, nobody is missing.
Gathered == ~raced => NoGap /\ ContactsRight /\ (~late => Everybody)

\* The contacts are gathered, in any execution.
LEMMA AlwaysGathered == Spec => []Gathered
<1>1. Init => Gathered
  <2> SUFFICES ASSUME Init PROVE NoGap /\ ContactsRight /\ Everybody
    BY DEF Gathered
  <2>1. /\ ui.pc = "start" /\ listener.pc = "recv" /\ contacts.count = 0 /\ late = FALSE
        /\ requests = <<>> /\ chat = DM(NoId) /\ store \in Stores /\ MaxContacts \in Nat
    BY QuietFacts, ChatScreenAssumption DEF Init
  <2>2. Flight = {}
    <3>1. At(wire, OurReplies) = {}
      BY DEF Init, At
    <3> QED
      BY <2>1, <3>1 DEF Init, Flight, InWire, InServing, InSlot, Of
  <2>3. \A m \in EntriesOf(store) : m.to.room \/ m.to.id \in Everyone
    <3>1. store \in Seq([n : Nat, from : Users \cup {Me}, to : Chats])
      BY <2>1, StoresAssumption
    <3>2. \A i \in DOMAIN store : store[i].to \in Chats
      <4>1. PICK M : M = [n : Nat, from : Users \cup {Me}, to : Chats]
        OBVIOUS
      <4>2. \A i \in DOMAIN store : store[i] \in M
        <5>1. ASSUME NEW S, NEW s \in Seq(S) PROVE \A i \in DOMAIN s : s[i] \in S
          OBVIOUS
        <5>2. store \in Seq(M)
          BY <3>1, <4>1
        <5> QED
          BY <5>1, <5>2
      <4>3. \A m \in M : m.to \in Chats
        BY <4>1
      <4> QED
        BY <4>2, <4>3
    <3>3. \A c \in Chats : c.room \/ c.id \in Everyone
      BY DEF Chats, DM, Room, Everyone
    <3> QED
      BY <3>2, <3>3 DEF EntriesOf
  <2>4. EntriesOf(requests) = {}
    BY <2>1 DEF EntriesOf
  <2>5. NoGap
    BY <2>1, <2>3, <2>4 DEF NoGap, DM
  <2>6. ContactsRight
    BY <2>1, <2>2 DEF ContactsRight, PlacesRight, FromListener, FromUser, FromServer, ListenerAdds
  <2>7. Everybody
    BY <2>1, <2>2 DEF Everybody, Loading, DM
  <2> QED
    BY <2>5, <2>6, <2>7
<1>2. Typed /\ (~late => Exchange /\ Numbered) /\ Gathered /\ [Next]_vars => Gathered'
  <2> SUFFICES ASSUME Typed, ~late => Exchange /\ Numbered, Gathered, [Next]_vars, ~raced'
               PROVE  NoGap' /\ ContactsRight' /\ (~late' => Everybody')
    BY DEF Gathered
  <2>1. CASE Next
    <3>1. NoGap /\ ContactsRight /\ (~late => Everybody)
      BY <2>1, RacedSteps DEF Gathered
    <3>2. NoGap'
      BY <2>1, <3>1, NextNoGap DEF ContactsRight
    <3>3. ContactsRight'
      BY <2>1, <3>1, NextPlacesRight, NextFromListener, NextFromUser, NextFromServer
      DEF ContactsRight
    <3>4. ASSUME ~late' PROVE Everybody'
      BY <2>1, <3>1, <3>4, OnTime, NextEverybody
    <3> QED
      BY <3>2, <3>3, <3>4
  <2>2. CASE UNCHANGED vars
    <3>1. /\ UNCHANGED <<contacts, chat, found, ui, listener, store, requests, handled, late, raced>>
          /\ UNCHANGED <<wire, serving, answer>>
      BY <2>2 DEF vars, server, history
    <3>2. UNCHANGED <<Loading, UIAdds, ListenerAdds, Listed, Full, Wrote, Flight>>
      BY <3>1 DEF ListenerAdds, UIAdds, Loading, Listed, Flight, InWire, InServing, InSlot, Full,
         Wrote
    <3>3. NoGap /\ ContactsRight /\ (~late => Everybody)
      BY <3>1 DEF Gathered
    <3>4. NoGap'
      BY <3>1, <3>3 DEF NoGap
    <3>5. PlacesRight' /\ FromListener'
      BY <3>1, <3>2, <3>3 DEF ContactsRight, PlacesRight, FromListener
    <3>6. FromUser' /\ FromServer'
      BY <3>1, <3>2, <3>3 DEF ContactsRight, FromUser, FromServer
    <3>7. ~late' => Everybody'
      BY <3>1, <3>2, <3>3 DEF Everybody
    <3> QED
      BY <3>4, <3>5, <3>6, <3>7 DEF ContactsRight
  <2> QED
    BY <2>1, <2>2
<1> QED
  BY <1>1, <1>2, AlwaysTyped, AlwaysNumbered, PTL DEF Spec

\* The list of the contacts is whole, unless both threads were adding to it at a time:
\* it has no gap and nobody twice, and everyone is in it whose message was handled, be
\* it that the server told of them, that they wrote while the client was running, or that
\* the user looked for them.
THEOREM EverybodyIsThere == Spec => []ContactsWhole
<1>1. Typed /\ Gathered => ContactsWhole
  <2> SUFFICES ASSUME Typed, Gathered, ~raced
               PROVE  /\ contacts.count <= MaxContacts
                      /\ Cardinality(Listed) = contacts.count /\ Listed \subseteq Everyone
                      /\ ui.pc = "idle" /\ contacts.count < MaxContacts =>
                            \A i \in DOMAIN store :
                               ~late /\ store[i].n \in handled /\ ~store[i].to.room =>
                                  store[i].to.id \in Listed
    BY DEF ContactsWhole, Everyone
  <2>1. PlacesRight /\ contacts.count \in Nat /\ MaxContacts \in Nat
    BY ChatScreenAssumption DEF Gathered, ContactsRight, Typed, ListsTyped
  <2>2. Listed \subseteq Everyone
    BY <2>1 DEF PlacesRight, Listed
  <2>3. Cardinality(Listed) = contacts.count
    <3>1. PICK n \in Nat : n = contacts.count
      BY <2>1
    <3>2. PICK f : f = [j \in 1..n |-> contacts.slot[j]]
      OBVIOUS
    <3>3. f \in Bijection(1..n, Listed)
      BY <2>1, <3>1, <3>2 DEF Bijection, Injection, Surjection, IsInjective, Listed, PlacesRight
    <3>4. IsFiniteSet(1..n) /\ Cardinality(1..n) = n
      BY FS_Interval
    <3>5. ExistsBijection(1..n, Listed)
      BY <3>3 DEF ExistsBijection
    <3>6. Cardinality(Listed) = Cardinality(1..n)
      <4> HIDE DEF Listed
      <4> QED
        BY <3>4, <3>5, FS_Bijection
    <3> QED
      BY <3>1, <3>4, <3>6
  <2>4. ASSUME ui.pc = "idle", contacts.count < MaxContacts, NEW i \in DOMAIN store,
               ~late, store[i].n \in handled, ~store[i].to.room
        PROVE  store[i].to.id \in Listed
    <3>1. store[i].to.id \in Wrote
      BY <2>4 DEF Wrote, EntriesOf
    <3>2. Full \/ Wrote \subseteq Listed
      BY <2>4 DEF Gathered, Everybody, Loading
    <3>3. ~Full
      BY <2>1, <2>4 DEF Full
    <3> QED
      BY <3>1, <3>2, <3>3
  <2> QED
    BY <2>1, <2>2, <2>3, <2>4 DEF PlacesRight
<1> QED
  BY <1>1, AlwaysTyped, AlwaysGathered, PTL

-----------------------------------------------------------------------------
(***************************************************************************)
(* Each message once                                                       *)
(***************************************************************************)

\* What straddled records.
LEMMA StraddledSteps ==
    ASSUME Next
    PROVE  /\ Opening' => UnderWay' \subseteq straddled'
           /\ Opening \/ ~Opening' => straddled \subseteq straddled'
           /\ ~Opening' => straddled' = straddled
BY DEF Next, Observe

\* What the screen should show is what it should have shown, and what a step is done with.
LEMMA DueSteps ==
    ASSUME Typed, Next, Exchange, Numbered, Opening => UnderWay \subseteq straddled,
           chat' = chat, Opening \/ ~Opening'
    PROVE  \/ Due' \subseteq Due
           \/ CountOwn /\ Due' \subseteq Due \cup {ui.message}
           \/ /\ CheckChat \/ StoreListCount
              /\ listener.pc # "recv" /\ listener'.pc = "recv" /\ ~Opening
              /\ Due' \subseteq Due \cup {listener.message}
<1>1. StoreNumbered /\ SendNumbered /\ PushNumbered
  BY DEF Numbered
<1>2. StoreNumbered' /\ EntriesOf(store) \subseteq EntriesOf(store')
  BY NextStoreNumbered
<1>3. \A m \in EntriesOf(store') : m.n \in Numbers(store) => m \in EntriesOf(store)
  <2> SUFFICES ASSUME NEW m \in EntriesOf(store'), NEW e \in EntriesOf(store), m.n = e.n
               PROVE  m = e
    BY DEF Numbers, EntriesOf
  <2>1. e \in EntriesOf(store')
    BY <1>2
  <2> QED
    BY <1>2, <2>1 DEF StoreNumbered, EntriesOf
<1>4. straddled \subseteq straddled'
  BY StraddledSteps
<1>5. CASE handled' = handled
  <2>1. \A m \in EntriesOf(store') : m.n \in handled => m \in EntriesOf(store)
    BY <1>1, <1>3 DEF StoreNumbered
  <2> QED
    BY <1>4, <1>5, <2>1 DEF Due
<1>6. ASSUME NEW h \in EntriesOf(store), handled' = handled \cup {h.n}
      PROVE  Due' \subseteq Due \cup {h} /\ (Opening => Due' \subseteq Due)
  <2>1. h.n \in Numbers(store)
    BY DEF EntriesOf, Numbers
  <2>2. \A m \in EntriesOf(store') : m.n \in handled' => m \in EntriesOf(store) /\ (m.n \in handled \/ m = h)
    <3> SUFFICES ASSUME NEW m \in EntriesOf(store'), m.n \in handled'
                 PROVE  m \in EntriesOf(store) /\ (m.n \in handled \/ m = h)
      OBVIOUS
    <3>1. m \in EntriesOf(store)
      BY <1>1, <1>3, <1>6, <2>1 DEF StoreNumbered
    <3>2. m.n = h.n => m = h
      BY <1>1, <3>1, SameNumber
    <3> QED
      BY <1>6, <3>1, <3>2
  <2>3. Opening => h.n \in handled \/ h.n \in straddled'
    BY <1>4, <2>1 DEF UnderWay, Numbers
  <2> QED
    BY <1>4, <2>2, <2>3 DEF Due
<1>7. CASE CountOwn /\ handled' = handled \cup {ui.message.n}
  <2>1. ui.message \in EntriesOf(store)
    BY <1>1, <1>7, UIFields DEF SendNumbered
  <2> QED
    BY <1>6, <1>7, <2>1
<1>8. CASE /\ CheckChat \/ StoreListCount
           /\ listener'.pc = "recv" /\ handled' = handled \cup {listener.message.n}
  <2>1. listener.pc # "recv"
    BY <1>8, ListenerFields
  <2>2. listener.message \in EntriesOf(store)
    BY <1>1, <2>1 DEF PushNumbered, InHand
  <2> QED
    BY <1>6, <1>8, <2>1, <2>2
<1> QED
  BY <1>5, <1>7, <1>8, HandledSteps

\* The history that the server answers is what the screen should show, and what is still
\* under way.
LEMMA NextAnswerLoads ==
    ASSUME Typed, Next, ~late', Exchange, HistoryRight, Numbered, Once,
           NEW a \in Flight', a.kind \in HistoryKinds
    PROVE  Loads(a.data)' /\ (~a.part => Due' \subseteq EntriesOf(a.data))
<1>1. Exchange' /\ UNCHANGED <<ui, chat>> /\ (a \in Flight \/ Computed(a) \/ Parted(a))
  BY NextExchange
<1>2. OpeningWait /\ Opening /\ Opening' /\ ui.pc = "wait"
  BY <1>1 DEF Exchange, OpeningWait, Opening, HistoryKinds
<1>3. Opening => UnderWay \subseteq straddled
  BY DEF Once
<1>4. Due' \subseteq Due
  <2>1. ~CountOwn
    BY <1>2, UIFields
  <2> QED
    BY <1>1, <1>2, <1>3, <2>1, DueSteps
<1>5. /\ EntriesOf(store) \subseteq EntriesOf(store') /\ straddled \subseteq straddled'
      /\ handled \subseteq handled'
  BY <1>2, NextStoreNumbered, StraddledSteps, HandledSteps
<1>6. ASSUME Loads(a.data), ~a.part => Due \subseteq EntriesOf(a.data)
      PROVE  Loads(a.data)' /\ (~a.part => Due' \subseteq EntriesOf(a.data))
  BY <1>4, <1>5, <1>6 DEF Loads
<1>7. CASE a \in Flight
  BY <1>6, <1>7 DEF Once
<1>8. CASE Computed(a)
  <2>1. PICK r \in OurRequests :
           a \in Answers(r) /\ ui.pc = "wait" /\ r.kind = ui.kind /\ r.arg = ui.arg
    BY <1>8 DEF Computed
  <2>2. r \in Requests /\ ServerTyped /\ ChatKnown /\ store \in Seq(Messages)
    BY DEF OurRequests, Typed, ServerTyped
  <2>3. a.kind = r.kind
    BY <2>1, <2>2, AnswersTyped
  <2>4. a.data = History([id |-> r.arg, room |-> r.kind = "group_history"])
    BY <2>1, <2>2, <2>3, AnswersTyped
  <2>5. chat = [id |-> r.arg, room |-> r.kind = "group_history"]
    <3>1. CASE r.kind = "history"
      BY <2>1, <2>2, <3>1 DEF ChatKnown, DM
    <3>2. CASE r.kind = "group_history"
      BY <2>1, <2>2, <3>2 DEF ChatKnown, Room
    <3> QED
      BY <2>3, <3>1, <3>2 DEF HistoryKinds
  <2>6. Distinct(store)
    BY DEF Numbered, StoreNumbered, Distinct
  <2>7. /\ EntriesOf(a.data) = {m \in EntriesOf(store) : m.to = chat} /\ Distinct(a.data)
    BY <2>2, <2>4, <2>5, <2>6, HistoryFacts
  <2>8. \A m \in EntriesOf(store) : m.n \in handled \cup straddled
    BY <1>2, <1>3 DEF UnderWay, EntriesOf
  <2>9. Loads(a.data) /\ Due \subseteq EntriesOf(a.data)
    BY <2>7, <2>8 DEF Loads, Due
  <2> QED
    BY <1>6, <2>9
<1>9. CASE Parted(a)
  <2>1. PICK b \in Flight :
           /\ b.kind \in HistoryKinds /\ a.part
           /\ EntriesOf(a.data) \subseteq EntriesOf(b.data)
           /\ Distinct(b.data) => Distinct(a.data)
    BY <1>9 DEF Parted
  <2>2. Loads(b.data)
    BY <2>1 DEF Once
  <2>3. Loads(a.data)
    BY <2>1, <2>2 DEF Loads
  <2> QED
    BY <1>6, <2>1, <2>3
<1> QED
  BY <1>1, <1>7, <1>8, <1>9

\* What a step does to the list that one thread at a time changes: nothing, ...
SameRows == list'.count = list.count /\ \A j \in 1..list.count : list'.slot[j] = list.slot[j]
Kept == /\ SameRows
        /\ Replaying' <=> Replaying
        /\ ui'.pc = "count_loaded" <=> ui.pc = "count_loaded"
        /\ Replaying => ui'.todo = ui.todo
        /\ ui.pc = "count_loaded" => list'.slot[list.count + 1] = list.slot[list.count + 1]
        /\ ~CountOwn /\ ~StoreListCount
\* ... or one place behind those that count, ...
PutOne == /\ SameRows /\ list'.slot[list.count + 1] = Head(ui.todo)
          /\ PutLoaded /\ ui.pc = "put" /\ ui'.pc = "count_loaded"
          /\ ui.todo # <<>> /\ ui'.todo = Tail(ui.todo)
\* ... one message more, ...
Added(m) == /\ list'.count = list.count + 1 /\ list'.slot[list.count + 1] = m
            /\ \A j \in 1..list.count : list'.slot[j] = list.slot[j]
\* ... of the history, of the user, or of another one, ...
LoadedOne == /\ CountLoaded /\ ui.pc = "count_loaded" /\ ui'.pc = "load"
             /\ Added(list.slot[list.count + 1]) /\ ui'.todo = ui.todo
SentOne == CountOwn /\ ui.pc = "count_own" /\ ui'.pc = "idle" /\ Added(ui.message)
PushedOne == /\ StoreListCount /\ listener.pc # "recv" /\ Added(listener.message)
             /\ ui' = ui /\ ~Replaying /\ listener.message.to = chat
\* ... or the history is at its end.
LoadedAll == /\ LoadMessage /\ ui.pc = "load" /\ ui'.pc \in {"names", "idle"} /\ list' = list
             /\ ui.todo = <<>> \/ list.count >= MaxShown
ListStep == Kept \/ PutOne \/ LoadedOne \/ SentOne \/ PushedOne \/ LoadedAll

\* These are the steps that do not begin a new list.
LEMMA ListSteps ==
    ASSUME Typed, Next, ~late', Exchange, HistoryRight, ListRight, ~mixed', ~OpeningWait', ~Emptied
    PROVE  /\ ~mixed /\ ~OpeningWait /\ UNCHANGED <<chat, loaded>>
           /\ Opening \/ ~Opening'
           /\ ListStep
<1>1. ~mixed /\ (~OpeningWait => RowsRight) /\ list.count \in Nat /\ MaxShown \in Nat
      /\ list.count <= MaxShown + 1
  BY MixedSteps, ChatScreenAssumption DEF ListRight, Typed, ListsTyped, ListBound, UIMessage
<1>2. ASSUME ~OpeningWait, UNCHANGED <<chat, loaded>>, ListStep
      PROVE  /\ ~mixed /\ ~OpeningWait /\ UNCHANGED <<chat, loaded>>
             /\ Opening \/ ~Opening'
             /\ ListStep
  <2>1. Replaying' => Replaying
    BY <1>2 DEF ListStep, Kept, PutOne, LoadedOne, SentOne, PushedOne, LoadedAll, Replaying
  <2> QED
    BY <1>1, <1>2, <2>1 DEF Opening, OpeningWait, HistoryKinds, Replaying
<1>3. ASSUME NEW r, Asking(r)
      PROVE  ~OpeningWait /\ UNCHANGED <<chat, loaded>> /\ Kept
  <2>1. r.kind \notin HistoryKinds /\ ui.pc # "wait" /\ ~Replaying /\ ui'.pc = "wait"
        /\ ui.pc # "count_own"
    BY <1>3, AskFacts DEF Asking, OpeningWait, Replaying
  <2>2. list' = list /\ listener' = listener
    BY <1>3 DEF Asking
  <2>3. ~CountOwn /\ ~StoreListCount
    BY <2>1, <2>2, UIFields, ListenerFields
  <2> QED
    BY <1>3, <2>1, <2>2, <2>3 DEF Asking, OpeningWait, Kept, SameRows, Replaying
<1>4. ASSUME NEW ok, NEW data, Good(ok, data)
      PROVE  ~OpeningWait /\ UNCHANGED <<chat, loaded>> /\ Kept
  <2>1. UNCHANGED <<chat, listener>> /\ ui.pc = "wait"
    BY <1>4, AfterFacts
  <2>2. ~HistoryKnown(ok, data)
    BY <2>1 DEF HistoryKnown, Emptied
  <2>3. ~CountOwn /\ ~StoreListCount
    BY <2>1, UIFields, ListenerFields
  <2>4. CASE SentShown(ok)
    <3>1. \A j \in 1..list.count : j \in 1..MaxShown + 1 /\ j # list.count + 1
      BY <1>1
    <3> QED
      BY <2>1, <2>3, <2>4, <3>1 DEF SentShown, OpeningWait, SendKinds, HistoryKinds, Kept,
         SameRows, Replaying
  <2>5. CASE Filling(ok, data) \/ NoContacts(ok, data) \/ RoomsKnown \/ SentNotShown(ok)
             \/ Searched(ok, data)
    BY <2>1, <2>3, <2>5 DEF Filling, NoContacts, RoomsKnown, SentNotShown, Searched, Kept,
       SameRows, Replaying, OpeningWait, HistoryKinds, SendKinds
  <2> QED
    BY <1>4, <2>2, <2>4, <2>5, AfterFacts
<1>11. Kept => ListStep
  BY DEF ListStep
<1>5. CASE FillContact \/ NamesKnown \/ CountContact \/ StartChat
  <2>1. UNCHANGED <<list, chat, loaded, listener>>
    BY <1>5, UILeaves
  <2>2. ui.pc \notin {"wait", "count_own"} /\ ~Replaying /\ ~Replaying'
    BY <1>5, UIFields DEF Replaying
  <2>3. ~CountOwn /\ ~StoreListCount
    BY <2>1, <2>2, UIFields, ListenerFields
  <2> QED
    BY <1>2, <1>11, <2>1, <2>2, <2>3 DEF OpeningWait, Kept, SameRows, Replaying
<1>6. CASE LoadMessage
  <2>1. UNCHANGED <<chat, loaded, listener, list>> /\ ui.pc = "load" /\ ~OpeningWait
    BY <1>6, UILeaves, UIFields DEF OpeningWait
  <2>2. CASE ui'.pc \in {"names", "idle"} /\ (ui.todo = <<>> \/ list.count >= MaxShown)
    <3>1. LoadedAll
      BY <1>6, <2>1, <2>2 DEF LoadedAll
    <3> QED
      BY <1>2, <2>1, <3>1 DEF ListStep
  <2>3. CASE ui'.pc = "put" /\ ui'.todo = ui.todo
    <3>1. ~CountOwn /\ ~StoreListCount
      BY <2>1, UIFields, ListenerFields
    <3>2. Kept
      BY <2>1, <2>3, <3>1 DEF Kept, SameRows, Replaying
    <3> QED
      BY <1>2, <1>11, <2>1, <3>2
  <2> QED
    BY <1>6, <2>2, <2>3, UIFields
<1>12. CASE PutLoaded
  <2>1. UNCHANGED <<chat, loaded, listener>> /\ ~OpeningWait /\ ui.pc = "put"
        /\ ui'.pc = "count_loaded" /\ ui.todo # <<>> /\ ui'.todo = Tail(ui.todo)
        /\ list'.count = list.count
        /\ \A j \in 1..MaxShown + 1 : list'.slot[j] =
              IF j = list.count + 1 THEN Head(ui.todo) ELSE list.slot[j]
    BY <1>12, UILeaves, UIFields DEF OpeningWait
  <2>2. list.count < MaxShown
    BY <1>1, <2>1 DEF RowsRight
  <2>3. /\ \A j \in 1..list.count : j \in 1..MaxShown + 1 /\ j # list.count + 1
        /\ list.count + 1 \in 1..MaxShown + 1
    BY <1>1, <2>2
  <2>4. PutOne
    BY <1>12, <2>1, <2>3 DEF PutOne, SameRows
  <2> QED
    BY <1>2, <2>1, <2>4 DEF ListStep
<1>13. CASE CountLoaded
  <2>1. UNCHANGED <<chat, loaded>> /\ ~OpeningWait /\ ui.pc = "count_loaded"
        /\ ui'.pc = "load" /\ ui'.todo = ui.todo
        /\ list'.count = list.count + 1 /\ list'.slot = list.slot
    BY <1>13, UILeaves, UIFields DEF OpeningWait
  <2>2. LoadedOne
    BY <1>13, <2>1 DEF LoadedOne, Added
  <2> QED
    BY <1>2, <2>1, <2>2 DEF ListStep
<1>7. CASE CountOwn
  <2>1. UNCHANGED <<chat, loaded>> /\ ui.pc = "count_own" /\ ui'.pc = "idle"
        /\ list'.count = list.count + 1 /\ list'.slot = list.slot
    BY <1>7, UILeaves, UIFields
  <2>2. ~OpeningWait /\ list.slot[list.count + 1] = ui.message
    BY <1>1, <2>1 DEF OpeningWait, RowsRight
  <2> QED
    BY <1>2, <1>7, <2>1, <2>2 DEF SentOne, Added, ListStep
<1>8. CASE ShowChat
  BY <1>8, UIFields DEF Emptied
<1>9. CASE ServerStep \/ NewChat
  <2>1. UNCHANGED <<ui, chat, loaded, list, listener, handled>>
    BY <1>9, OthersLeave
  <2>2. ~CountOwn /\ ~StoreListCount
    BY <2>1, UIFields, ListenerFields
  <2> QED
    BY <1>2, <1>11, <2>1, <2>2 DEF OpeningWait, Kept, SameRows, Replaying
<1>10. CASE ListenerStep
  <2>1. UNCHANGED <<ui, chat, loaded>> /\ ~OpeningWait
    BY <1>10, OthersLeave DEF OpeningWait
  <2>2. RowsRight /\ ~CountOwn
    BY <1>1, <2>1, UIFields
  <2>3. CASE StoreListCount
    <3>1. listener.pc = "store_list" /\ list'.count = listener.seen + 1 /\ list'.slot = list.slot
      BY <2>3, ListenerFields
    <3>2. /\ listener.seen = list.count /\ list.slot[list.count + 1] = listener.message
          /\ ~Replaying /\ listener.message.to = chat
      BY <2>2, <3>1 DEF RowsRight, ListenerChangesList, UIChangesList, Replaying
    <3> QED
      BY <1>2, <2>1, <2>3, <3>1, <3>2 DEF PushedOne, Added, ListStep
  <2>4. CASE PutMessage
    <3>1. /\ listener.pc = "put" /\ list'.count = list.count
          /\ \A j \in 1..MaxShown + 1 : list'.slot[j] =
                IF j = listener.place THEN listener.message ELSE list.slot[j]
      BY <2>4, ListenerFields
    <3>2. listener.place = list.count + 1 /\ ~StoreListCount /\ ui.pc # "count_loaded"
      BY <2>2, <3>1, ListenerFields DEF RowsRight, ListenerChangesList, UIChangesList
    <3>3. \A j \in 1..list.count : j \in 1..MaxShown + 1 /\ j # list.count + 1
      BY <1>1
    <3>4. Kept
      BY <2>1, <2>2, <3>1, <3>2, <3>3 DEF Kept, SameRows, Replaying
    <3> QED
      BY <1>2, <1>11, <2>1, <3>4
  <2>5. CASE list' = list /\ ~StoreListCount
    BY <1>2, <1>11, <2>1, <2>2, <2>5 DEF Kept, SameRows, Replaying
  <2>6. \/ StoreListCount \/ PutMessage
        \/ list' = list /\ ~StoreListCount
    BY <1>10 DEF ListenerStep, ReceiveAnswer, ReceivePart, ReceivePush, WriteContact, LoadContactCount,
       StoreContactCount, CheckChat, LoadListCount
  <2> QED
    BY <2>3, <2>4, <2>5, <2>6
<1> QED
  BY <1>2, <1>3, <1>4, <1>5, <1>6, <1>7, <1>8, <1>9, <1>10, <1>11, <1>12, <1>13, Steps

\* The steps that begin a new list.
LEMMA EmptiedSteps ==
    ASSUME Typed, Next, Emptied
    PROVE  \/ \E ok, data : Good(ok, data) /\ HistoryKnown(ok, data)
           \/ ShowChat
<1>1. ASSUME NEW ok, NEW data, Good(ok, data) PROVE HistoryKnown(ok, data)
  <2>1. ui.pc = "wait" /\ ui'.pc = "load"
    BY <1>1, AfterFacts DEF Emptied
  <2> QED
    BY <1>1, <2>1, AfterFacts DEF Filling, NoContacts, RoomsKnown, SentShown, SentNotShown, Searched
<1>2. ASSUME NEW r, Asking(r) PROVE FALSE
  BY <1>2, AskFacts DEF Asking, Emptied
<1>3. ListenerStep \/ ServerStep \/ NewChat => FALSE
  <2>1. ui'.pc = ui.pc => FALSE
    BY DEF Emptied
  <2> QED
    BY <2>1, OthersLeave
<1>4. FillContact \/ LoadMessage \/ PutLoaded \/ CountLoaded \/ NamesKnown \/ CountOwn
      \/ CountContact \/ StartChat => FALSE
  BY UIFields DEF Emptied
<1> QED
  BY <1>1, <1>2, <1>3, <1>4, Steps

\* The rows of the list when it gets one more.
LEMMA AddedRows ==
    ASSUME list.count \in Nat, NEW m, Added(m)
    PROVE  /\ Shown' = Shown \cup {m}
           /\ /\ \A j, k \in 1..list.count :
                    list.slot[j] = list.slot[k] /\ list.slot[j].n \notin straddled => j = k
              /\ m \notin Shown \/ m.n \in straddled
              /\ straddled \subseteq straddled'
              => \A j, k \in 1..list'.count :
                    list'.slot[j] = list'.slot[k] /\ list'.slot[j].n \notin straddled' => j = k
<1>1. /\ \A j \in 1..list'.count : j \in 1..list.count \/ j = list.count + 1
      /\ \A j \in 1..list.count : j \in 1..list'.count
      /\ list.count + 1 \in 1..list'.count
  BY DEF Added
<1>2. Shown' = Shown \cup {m}
  BY <1>1 DEF Added, Shown
<1>3. \A j \in 1..list.count : list.slot[j] \in Shown
  BY DEF Shown
<1> QED
  BY <1>1, <1>2, <1>3 DEF Added

\* A new list is empty, and what it should show is in the history.
LEMMA NextOnceEmptied ==
    ASSUME Typed, Next, ~late', Exchange, HistoryRight, Numbered, Once, Emptied
    PROVE  OnceRows' /\ OnceDue'
<1>1. CASE \E ok, data : Good(ok, data) /\ HistoryKnown(ok, data)
  <2>1. PICK ok, data : Good(ok, data) /\ HistoryKnown(ok, data)
    BY <1>1
  <2>2. /\ UNCHANGED chat /\ ui.pc = "wait" /\ ui.kind \in HistoryKinds /\ ui'.pc = "load"
        /\ list'.count = 0 /\ loaded' = (ok /\ ~answer.part)
        /\ ui'.todo = IF ok THEN data ELSE <<>>
    BY <2>1, AfterFacts DEF HistoryKnown
  <2>3. Opening /\ (Opening => UnderWay \subseteq straddled)
    BY <2>2 DEF Opening, HistoryKinds, Once
  <2>4. ~CountOwn /\ Shown' = {} /\ 1..list'.count = {}
    BY <2>2, UIFields DEF Shown
  <2>5. Due' \subseteq Due
    BY <2>2, <2>3, <2>4, DueSteps
  <2>6. ok /\ ~answer.part => Due \subseteq EntriesOf(ui'.todo)
    <3>1. ok => answer \in Flight /\ answer.kind \in HistoryKinds /\ ui'.todo = answer.data
      BY <2>1, <2>2, TakenFlight
    <3> QED
      BY <3>1 DEF Once
  <2>7. Replaying' /\ Left' = EntriesOf(ui'.todo) /\ ui'.pc # "count_loaded"
    BY <2>2 DEF Replaying, Left
  <2>8. loaded' => Due' \subseteq Shown' \cup Left'
    BY <2>2, <2>5, <2>6, <2>7
  <2>9. OnceDue'
    BY <2>4, <2>7, <2>8 DEF OnceDue
  <2>10. OnceRows'
    BY <2>4 DEF OnceRows
  <2> QED
    BY <2>9, <2>10
<1>2. CASE ShowChat
  <2>1. loaded' = FALSE /\ ui'.pc = "idle" /\ list'.count = 0
    BY <1>2, UILeaves, UIFields
  <2>2. Shown' = {} /\ 1..list'.count = {} /\ ~Replaying'
    BY <2>1 DEF Shown, Replaying
  <2> QED
    BY <2>1, <2>2 DEF OnceRows, OnceDue
<1> QED
  BY <1>1, <1>2, EmptiedSteps

\* The list goes on.
LEMMA NextOnceList ==
    ASSUME Typed, Next, ~late', Exchange, HistoryRight, ListRight, Numbered, Once,
           ~mixed', ~OpeningWait', ~Emptied, chat' # DM(Me)
    PROVE  OnceRows' /\ OnceDue'
<1>1. /\ ~mixed /\ ~OpeningWait /\ UNCHANGED <<chat, loaded>>
      /\ Opening \/ ~Opening'
  BY ListSteps
<1>13. Kept \/ PutOne \/ LoadedOne \/ SentOne \/ PushedOne \/ LoadedAll
  BY ListSteps DEF ListStep
<1>2. /\ OnceRows /\ OnceDue /\ (Opening => UnderWay \subseteq straddled)
      /\ Replaying => Loads(ui.todo)
      /\ chat # DM(Me)
  BY <1>1 DEF Once
<1>3. straddled \subseteq straddled' /\ handled \subseteq handled'
  BY <1>1, StraddledSteps, HandledSteps
<1>4. list.count \in Nat /\ MaxShown \in Nat
  BY ChatScreenAssumption DEF Typed, ListsTyped
<1>5. Numbered /\ SendNumbered /\ PushNumbered
  BY DEF Numbered
<1>6. \/ Due' \subseteq Due
      \/ CountOwn /\ Due' \subseteq Due \cup {ui.message}
      \/ /\ CheckChat \/ StoreListCount
         /\ listener.pc # "recv" /\ listener'.pc = "recv" /\ ~Opening
         /\ Due' \subseteq Due \cup {listener.message}
  BY <1>1, <1>2, DueSteps
<1>14. Replaying => Opening
  BY DEF Replaying, Opening
<1>15. ASSUME Replaying, ~CountOwn PROVE Due' \subseteq Due
  BY <1>6, <1>14, <1>15
<1>7. CASE Kept
  <2>1. Shown' = Shown
    BY <1>7 DEF Kept, SameRows, Shown
  <2>2. OnceRows'
    BY <1>2, <1>3, <1>7, <2>1 DEF OnceRows, Kept, SameRows
  <2>3. Due' \subseteq Due \/ (list.count >= MaxShown /\ ~Replaying)
    <3>1. CASE Due' \subseteq Due
      BY <3>1
    <3>2. CASE /\ CheckChat /\ listener'.pc = "recv" /\ ~Opening
               /\ Due' \subseteq Due \cup {listener.message}
      <4>1. listener.message.to # chat \/ list.count >= MaxShown
        BY <3>2, ListenerFields
      <4>2. listener.message.to # chat => listener.message \notin Due'
        BY <1>1 DEF Due
      <4> QED
        BY <1>14, <3>2, <4>1, <4>2
    <3> QED
      BY <1>6, <1>7, <3>1, <3>2 DEF Kept
  <2>4. Replaying => Left' = Left
    BY <1>7 DEF Kept, SameRows, Left
  <2>5. /\ list'.count = list.count
        /\ Replaying' <=> Replaying
    BY <1>7 DEF Kept, SameRows
  <2>6. ui'.pc = "count_loaded" =>
          /\ ui.pc = "count_loaded" /\ ui'.todo = ui.todo
          /\ list'.slot[list'.count + 1] = list.slot[list.count + 1]
    BY <1>7, <2>5 DEF Kept, Replaying
  <2>7. ui'.pc = "count_loaded" =>
          /\ list'.slot[list'.count + 1].n \in handled' \cup straddled'
          /\ list'.slot[list'.count + 1] \notin EntriesOf(ui'.todo)
    BY <1>2, <1>3, <2>6 DEF OnceDue
  <2>8. OnceDue'
    BY <1>1, <1>2, <2>1, <2>3, <2>4, <2>5, <2>7 DEF OnceDue
  <2> QED
    BY <2>2, <2>8
<1>16. CASE PutOne
  <2>1. PICK m : m = Head(ui.todo)
    OBVIOUS
  <2>2. /\ ui.pc = "put" /\ ui'.pc = "count_loaded" /\ ui.todo # <<>>
        /\ ui'.todo = Tail(ui.todo) /\ list'.slot[list.count + 1] = m
        /\ list'.count = list.count
    BY <1>16, <2>1 DEF PutOne, SameRows
  <2>3. Replaying /\ Replaying' /\ ~CountOwn
    BY <2>2, UIFields DEF Replaying
  <2>4. ui.todo \in Seq(Messages) /\ Loads(ui.todo)
    BY <1>2, <2>3 DEF Typed, ThreadsTyped, UITyped
  <2>5. /\ EntriesOf(ui.todo) = EntriesOf(ui'.todo) \cup {m}
        /\ \A i \in DOMAIN Tail(ui.todo) : i + 1 \in DOMAIN ui.todo /\ i + 1 # 1
                                           /\ Tail(ui.todo)[i] = ui.todo[i + 1]
        /\ m = ui.todo[1] /\ 1 \in DOMAIN ui.todo
    BY <2>1, <2>2, <2>4, TailFacts
  <2>6. m \notin EntriesOf(ui'.todo)
    <3> SUFFICES ASSUME NEW i \in DOMAIN Tail(ui.todo), Tail(ui.todo)[i] = m PROVE FALSE
      BY <2>2 DEF EntriesOf
    <3> QED
      BY <2>4, <2>5 DEF Loads, Distinct
  <2>7. m.n \in handled' \cup straddled'
    BY <1>3, <2>4, <2>5 DEF Loads
  <2>8. Shown' = Shown
    BY <1>16 DEF PutOne, SameRows, Shown
  <2>9. Left = EntriesOf(ui.todo) /\ Left' = EntriesOf(ui'.todo) \cup {m}
    BY <2>2 DEF Left
  <2>10. OnceRows'
    BY <1>2, <1>3, <1>16, <2>8 DEF OnceRows, PutOne, SameRows
  <2>11. Due' \subseteq Due
    BY <1>15, <2>3
  <2>12. OnceDue'
    BY <1>1, <1>2, <2>2, <2>3, <2>5, <2>6, <2>7, <2>8, <2>9, <2>11 DEF OnceDue
  <2> QED
    BY <2>10, <2>12
<1>8. CASE LoadedOne
  <2>1. PICK m : m = list.slot[list.count + 1]
    OBVIOUS
  <2>2. /\ ui.pc = "count_loaded" /\ ui'.pc = "load" /\ Added(m) /\ ui'.todo = ui.todo
    BY <1>8, <2>1 DEF LoadedOne
  <2>3. Replaying /\ Replaying' /\ ~CountOwn
    BY <2>2, UIFields DEF Replaying
  <2>4. Left = EntriesOf(ui.todo) \cup {m} /\ Left' = EntriesOf(ui.todo)
    BY <2>1, <2>2 DEF Left
  <2>5. /\ m \notin Shown /\ m.n \in handled \cup straddled /\ m \notin EntriesOf(ui.todo)
        /\ Shown \cap Left = {}
    BY <1>2, <2>1, <2>2, <2>3, <2>4 DEF OnceDue
  <2>8. Shown' = Shown \cup {m}
    BY <1>4, <2>2, AddedRows
  <2>9. OnceRows'
    <3>1. \A j, k \in 1..list'.count :
             list'.slot[j] = list'.slot[k] /\ list'.slot[j].n \notin straddled' => j = k
      BY <1>2, <1>3, <1>4, <2>2, <2>5, AddedRows DEF OnceRows
    <3> QED
      BY <1>2, <1>3, <2>5, <2>8, <3>1 DEF OnceRows
  <2>10. Due' \subseteq Due
    BY <1>15, <2>3
  <2>11. OnceDue'
    BY <1>1, <1>2, <2>2, <2>3, <2>4, <2>5, <2>8, <2>10 DEF OnceDue
  <2> QED
    BY <2>9, <2>11
<1>9. ASSUME NEW m, Added(m), m \in EntriesOf(store), m.n \notin handled, m.n \in handled',
             Due' \subseteq Due \cup {m}, ~Replaying, ~Replaying'
      PROVE  OnceRows' /\ OnceDue'
  <2>1. Shown' = Shown \cup {m}
    BY <1>4, <1>9, AddedRows
  <2>2. m \notin Shown \/ m.n \in straddled
    BY <1>2, <1>9 DEF OnceRows
  <2>3. \A j, k \in 1..list'.count :
           list'.slot[j] = list'.slot[k] /\ list'.slot[j].n \notin straddled' => j = k
    BY <1>2, <1>3, <1>4, <1>9, <2>2, AddedRows DEF OnceRows
  <2>4. OnceRows'
    BY <1>2, <1>3, <1>9, <2>1, <2>3 DEF OnceRows
  <2>5. list.count >= MaxShown => list'.count >= MaxShown
    BY <1>4, <1>9 DEF Added
  <2>7. ui'.pc # "count_loaded"
    BY <1>9 DEF Replaying
  <2>6. OnceDue'
    BY <1>1, <1>2, <1>9, <2>1, <2>5, <2>7 DEF OnceDue
  <2> QED
    BY <2>4, <2>6
<1>10. CASE SentOne
  <2>1. CountOwn /\ ui.pc = "count_own" /\ ui'.pc = "idle" /\ Added(ui.message)
        /\ ~Replaying /\ ~Replaying'
    BY <1>10 DEF SentOne, Replaying
  <2>2. ui.message.to = chat
    BY <2>1 DEF Typed, ChatKnown
  <2>5. ui.message \in EntriesOf(store) /\ ui.message.n \notin handled
    BY <1>2, <1>5, <2>1, <2>2 DEF SendNumbered
  <2>3. ui.message.n \in handled' /\ listener' = listener
    BY <2>1, UILeaves DEF CountOwn
  <2>4. Due' \subseteq Due \cup {ui.message}
    BY <1>6, <2>3
  <2> QED
    BY <1>9, <2>1, <2>3, <2>4, <2>5
<1>11. CASE PushedOne
  <2>1. /\ StoreListCount /\ listener.pc # "recv" /\ Added(listener.message)
        /\ ui' = ui /\ ~Replaying /\ ~Replaying' /\ listener.message.to = chat
    BY <1>11 DEF PushedOne, Replaying
  <2>2. listener.message \in EntriesOf(store) /\ listener.message.n \notin handled
    BY <1>2, <1>5, <2>1 DEF PushNumbered, InHand
  <2>3. listener.message.n \in handled' /\ ~CountOwn
    <3>1. ui.pc = "count_own" /\ ui'.pc = "idle" => FALSE
      BY <2>1
    <3> QED
      BY <2>1, <3>1, ListenerFields, UIFields
  <2>4. Due' \subseteq Due \cup {listener.message}
    BY <1>6, <2>3
  <2> QED
    BY <1>9, <2>1, <2>2, <2>3, <2>4
<1>12. CASE LoadedAll
  <2>1. /\ ui.pc = "load" /\ ui'.pc \in {"names", "idle"} /\ list' = list
        /\ ui.todo = <<>> \/ list.count >= MaxShown
    BY <1>12 DEF LoadedAll
  <2>2. Shown' = Shown /\ (ui.todo = <<>> => EntriesOf(ui.todo) = {})
    BY <2>1 DEF Shown, EntriesOf
  <2>3. OnceRows'
    BY <1>2, <1>3, <2>1, <2>2 DEF OnceRows
  <2>6. Replaying /\ ~Replaying' /\ Left = EntriesOf(ui.todo) /\ ~CountOwn
        /\ ui'.pc # "count_loaded"
    BY <2>1, UIFields DEF Replaying, Left
  <2>4. Due' \subseteq Due
    BY <1>15, <2>6
  <2>5. OnceDue'
    BY <1>1, <1>2, <2>1, <2>2, <2>4, <2>6 DEF OnceDue
  <2> QED
    BY <2>3, <2>5
<1> QED
  BY <1>7, <1>8, <1>10, <1>11, <1>12, <1>13, <1>16

\* What is left of the history was there before.
LEMMA NextLoads ==
    ASSUME Typed, Next, ~late', Exchange, Numbered, Once, Replaying'
    PROVE  Loads(ui.todo)'
<1>1. Opening' /\ EntriesOf(store) \subseteq EntriesOf(store') /\ handled \subseteq handled'
  BY NextStoreNumbered, HandledSteps DEF Opening, Replaying
<1>2. ASSUME Opening, NEW t, t = ui'.todo, Loads(t) PROVE Loads(ui.todo)'
  BY <1>1, <1>2, StraddledSteps DEF Loads
<1>3. CASE ~Replaying
  <2>1. PICK ok, data : Good(ok, data) /\ HistoryKnown(ok, data)
    <3>1. ASSUME NEW r, Asking(r) PROVE FALSE
      BY <3>1, AskFacts DEF Asking, Replaying
    <3>2. ListenerStep \/ ServerStep \/ NewChat => FALSE
      BY <1>3, OthersLeave DEF Replaying
    <3>3. FillContact \/ NamesKnown \/ CountOwn \/ CountContact \/ StartChat \/ LoadMessage
          \/ PutLoaded \/ CountLoaded \/ ShowChat => FALSE
      BY <1>3, UIFields DEF Replaying
    <3>4. PICK ok, data : Good(ok, data)
      BY <3>1, <3>2, <3>3, Steps
    <3> QED
      BY <3>4, AfterFacts
         DEF Filling, NoContacts, RoomsKnown, SentShown, SentNotShown, Searched, Replaying
  <2>2. /\ ui.pc = "wait" /\ ui.kind \in HistoryKinds
        /\ ui'.todo = IF ok THEN data ELSE <<>>
    BY <2>1, AfterFacts DEF HistoryKnown
  <2>3. Opening
    BY <2>2 DEF Opening, HistoryKinds
  <2>4. CASE ok
    <3>1. answer \in Flight /\ answer.kind \in HistoryKinds /\ ui'.todo = answer.data
      BY <2>1, <2>2, <2>4, TakenFlight
    <3> QED
      BY <1>2, <2>3, <3>1 DEF Once
  <2>5. CASE ~ok
    <3>1. ui'.todo = <<>>
      BY <2>2, <2>5
    <3>2. Loads(<<>>)
      BY DEF Loads, Distinct, EntriesOf
    <3> QED
      BY <1>2, <2>3, <3>1, <3>2
  <2> QED
    BY <2>1, <2>4, <2>5 DEF Good
<1>4. CASE Replaying
  <2>1. Opening /\ Loads(ui.todo) /\ ui.pc \notin {"wait", "idle", "start", "groups"}
    BY <1>4 DEF Opening, Once, Replaying
  <2>2. CASE ui'.todo = ui.todo
    BY <1>2, <2>1, <2>2
  <2>3. CASE PutLoaded
    <3>1. ui.todo # <<>> /\ ui'.todo = Tail(ui.todo) /\ ui.todo \in Seq(Messages)
      BY <1>4, <2>3, UIFields DEF Typed, ThreadsTyped, UITyped
    <3>2. /\ EntriesOf(Tail(ui.todo)) \subseteq EntriesOf(ui.todo)
          /\ Tail(ui.todo) \in Seq(Messages)
          /\ \A i \in DOMAIN Tail(ui.todo) : i + 1 \in DOMAIN ui.todo
                                             /\ Tail(ui.todo)[i] = ui.todo[i + 1]
      BY <3>1, TailFacts
    <3>3. \A i, j \in DOMAIN Tail(ui.todo) : i + 1 = j + 1 => i = j
      BY <3>2
    <3>4. Loads(Tail(ui.todo))
      <4>1. Distinct(Tail(ui.todo))
        BY <2>1, <3>2, <3>3 DEF Loads, Distinct
      <4> QED
        BY <2>1, <3>2, <4>1 DEF Loads
    <3> QED
      BY <1>2, <2>1, <3>1, <3>4
  <2>4. ui'.todo = ui.todo \/ PutLoaded
    <3>1. ASSUME NEW r, Asking(r) PROVE FALSE
      BY <2>1, <3>1 DEF Asking
    <3>2. ASSUME NEW ok, NEW data, Good(ok, data) PROVE FALSE
      BY <2>1, <3>2 DEF Good
    <3>3. FillContact \/ NamesKnown \/ CountOwn \/ CountContact \/ StartChat \/ ShowChat => FALSE
      BY <1>4, UIFields DEF Replaying
    <3>4. LoadMessage \/ CountLoaded => ui'.todo = ui.todo
      <4>1. LoadMessage => ui'.pc \notin {"names", "idle"}
        BY DEF Replaying
      <4> QED
        BY <4>1, UIFields
    <3> QED
      BY <3>1, <3>2, <3>3, <3>4, OthersLeave, Steps
  <2> QED
    BY <2>2, <2>3, <2>4
<1> QED
  BY <1>3, <1>4

\* As long as no request was late, each message is loaded or pushed, and not both.
LEMMA AlwaysOnce == Spec => [](~late => Once)
<1>1. Init => (~late => Once)
  <2> SUFFICES ASSUME Init PROVE Once
    OBVIOUS
  <2>1. ui.pc = "start" /\ loaded = FALSE /\ list.count = 0
    BY QuietFacts DEF Init
  <2>2. Flight = {}
    <3>1. At(wire, OurReplies) = {}
      BY DEF Init, At
    <3> QED
      BY <2>1, <3>1 DEF Init, Flight, InWire, InServing, InSlot, Of
  <2>3. Shown = {} /\ 1..list.count = {}
    BY <2>1 DEF Shown
  <2> QED
    BY <2>1, <2>2, <2>3 DEF Once, OnceRows, OnceDue, Opening, Replaying
<1>2. /\ Typed /\ Belonging /\ (~late => Exchange /\ Numbered) /\ (~late => Once) /\ [Next]_vars
      => (~late => Once)'
  <2> SUFFICES ASSUME Typed, Belonging, ~late => Exchange /\ Numbered, ~late => Once,
                      [Next]_vars, ~late'
               PROVE  Once'
    OBVIOUS
  <2>1. CASE Next
    <3>1. ~late
      BY <2>1, OnTime
    <3>2. Exchange /\ HistoryRight /\ ListRight /\ Numbered /\ Once
      BY <3>1 DEF Belonging
    <3>3. Opening' => UnderWay' \subseteq straddled'
      BY <2>1, StraddledSteps
    <3>4. ASSUME NEW a \in Flight', a.kind \in HistoryKinds
          PROVE  Loads(a.data)' /\ (~a.part => Due' \subseteq EntriesOf(a.data))
      BY <2>1, <3>2, <3>4, NextAnswerLoads
    <3>5. Replaying' => Loads(ui.todo)'
      BY <2>1, <3>2, NextLoads
    <3>6. ASSUME ~mixed', ~OpeningWait', chat' # DM(Me) PROVE OnceRows' /\ OnceDue'
      BY <2>1, <3>2, <3>6, NextOnceEmptied, NextOnceList
    <3> QED
      BY <3>3, <3>4, <3>5, <3>6 DEF Once
  <2>2. CASE UNCHANGED vars
    <3>1. UNCHANGED <<chat, list, ui, store, handled, straddled, late, mixed, loaded>>
          /\ UNCHANGED <<wire, serving, answer>>
      BY <2>2 DEF vars, server, history
    <3>2. UNCHANGED <<Opening, UnderWay, OpeningWait, Shown, Due, Flight, Replaying, Left>>
      BY <3>1 DEF Opening, UnderWay, OpeningWait, Shown, Due, Flight, InWire, InServing, InSlot,
         Replaying, Left
    <3>3. \A s : Loads(s)' <=> Loads(s)
      BY <3>1 DEF Loads
    <3>4. Once
      BY <3>1
    <3>5. (OnceRows' <=> OnceRows) /\ (OnceDue' <=> OnceDue)
      BY <3>1, <3>2 DEF OnceRows, OnceDue
    <3> QED
      BY <3>1, <3>2, <3>3, <3>4, <3>5 DEF Once
  <2> QED
    BY <2>1, <2>2
<1> QED
  BY <1>1, <1>2, AlwaysTyped, AlwaysBelonging, AlwaysNumbered, PTL DEF Spec

\* The screen shows every message of the open chat that the client has handled exactly once,
\* as long as its list has room, although a message may be in the history and be pushed as
\* well: unless it was under way while the chat was opened, the history was cut or not
\* loaded, a request was late, or both threads changed the list at a time.  In the chat of
\* the user with himself what he sends is shown both as his own and as pushed.
THEOREM EachMessageOnce == Spec => []ShownOnce
<1>1. Typed /\ (~late => Once) => ShownOnce
  <2> SUFFICES ASSUME Typed, ~late => Once, Settled, loaded, chat # DM(Me),
                      NEW i \in DOMAIN store,
                      store[i].to = chat, store[i].n \in handled \ straddled
               PROVE  Times(store[i]) <= 1 /\ (list.count < MaxShown => Times(store[i]) = 1)
    BY DEF ShownOnce
  <2>1. PICK m : m = store[i]
    OBVIOUS
  <2>2. /\ \A j, k \in 1..list.count :
              list.slot[j] = list.slot[k] /\ list.slot[j].n \notin straddled => j = k
        /\ list.count >= MaxShown \/ Due \subseteq Shown
    BY DEF Once, OnceRows, OnceDue, Settled, OpeningWait, Replaying
  <2>3. m \in Due /\ m.n \notin straddled
    BY <2>1 DEF Due, EntriesOf
  <2>4. list.count \in Nat /\ MaxShown \in Nat
    BY ChatScreenAssumption DEF Typed, ListsTyped
  <2>5. list.count < MaxShown => \E j \in 1..list.count : list.slot[j] = m
    <3>1. list.count < MaxShown => ~(list.count >= MaxShown)
      BY <2>4
    <3> QED
      BY <2>2, <2>3, <3>1 DEF Shown
  <2> DEFINE J == {j \in 1..list.count : list.slot[j] = m}
  <2>6. \A j, k \in J : j = k
    BY <2>2, <2>3
  <2>7. Times(m) = Cardinality(J)
    BY DEF Times
  <2>8. J = {} \/ \E j : J = {j}
    <3> HIDE DEF J
    <3> QED
      BY <2>6
  <2>9. list.count < MaxShown => J # {}
    BY <2>5
  <2> HIDE DEF J
  <2>10. (J = {} => Cardinality(J) = 0) /\ ((\E j : J = {j}) => Cardinality(J) = 1)
    BY FS_EmptySet, FS_Singleton
  <2>11. Cardinality(J) <= 1 /\ (J # {} => Cardinality(J) = 1)
    <3>1. PICK c : c = Cardinality(J)
      OBVIOUS
    <3>2. (J = {} /\ c = 0) \/ c = 1
      BY <2>8, <2>10, <3>1
    <3>3. c <= 1
      BY <3>2
    <3> QED
      BY <3>1, <3>2, <3>3
  <2> HIDE DEF Times
  <2> QED
    BY <2>1, <2>7, <2>9, <2>11
<1> QED
  BY <1>1, AlwaysTyped, AlwaysOnce, PTL

=============================================================================
