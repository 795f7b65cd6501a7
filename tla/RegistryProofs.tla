--------------------------- MODULE RegistryProofs ----------------------------
(***************************************************************************)
(* Proofs about accounts, groups and memberships, for every set of         *)
(* threads, users and names and every bound.                               *)
(*                                                                         *)
(* The inductive invariant has a part about the three files and one about  *)
(* each thread: what the thread has looked up still holds of the records   *)
(* it had looked at.  Files only grow, so a record that is added disturbs  *)
(* no other thread.                                                        *)
(*                                                                         *)
(* The refinement of PeachCollection adds how many inserts are under way   *)
(* (Counted), and the owners of the groups where the two records of one    *)
(* CREATE_GROUP stand (Owners).                                            *)
(*                                                                         *)
(* The second part is about Login, where the accounts are used, by clients *)
(* that do switch between them.  Whatever is on its way between a client   *)
(* and the server is justified by what was typed; and as long as no answer *)
(* is lost each request is at one of six places, and the entry of its      *)
(* connection follows from the answer that is found there.                 *)
(***************************************************************************)
EXTENDS Registry, Login, FiniteSetTheorems, TLAPS

Typed ==
    /\ db \in [Collections -> Seq(Record(Content))]
    /\ pc \in [Threads -> {"idle", "name", "group", "group again", "member",
                           "key", "check", "append"}]
    /\ job \in [Threads -> [op : {"none", "register", "create", "join"},
                            coll : Collections, content : Content, looked : Nat]]
    /\ next \in [Collections -> [Threads -> Nat]]
    /\ seen \in [Collections -> [Threads -> Nat]]
    /\ checked \in [Collections -> [Threads -> Nat]]
    /\ commands \in 0..MaxCommands

Inserting(t) == pc[t] \in {"key", "check", "append"}

\* The command is at a step that belongs to its collection, and has content
\* that does.
Shape(t) ==
    /\ pc[t] = "name" => job[t].coll = "user"
    /\ pc[t] \in {"group", "group again", "member"} => job[t].coll = "groupusers"
    /\ pc[t] # "idle" => \/ job[t].coll = "user" /\ job[t].content \in Names
                         \/ job[t].coll = "groups" /\ job[t].content \in Users
                         \/ job[t].coll = "groupusers" /\ job[t].content \in Nat \X Users

\* The group of a membership that is on its way to the file exists.
GroupThere(t) ==
    \/ pc[t] \in {"group again", "member"}
    \/ Inserting(t) /\ job[t].coll = "groupusers"
    => job[t].content[1] \in Keys("groups")

\* All keys below the one a thread has computed are taken.
KeyNext(t) ==
    pc[t] \in {"check", "append"} =>
        LET c == job[t].coll
        IN  /\ next[c][t] # 0
            /\ \A k \in Nat : 0 < k /\ k < next[c][t] => k \in Keys(c)

\* The content of the new record is in none of the records looked at.  A group
\* that is being created has no members among those that were there when the
\* command came.
NotSeen(t) ==
    Inserting(t) =>
        LET c == job[t].coll
            old(d) == {i \in DOMAIN db[d] : i <= job[t].looked}
        IN  /\ c \in {"user", "groupusers"} =>
                  \A i \in old(c) : db[c][i].content # job[t].content
            /\ c = "groups" /\ pc[t] # "key" =>
                  \A i \in old("groupusers") :
                      db["groupusers"][i].content[1] < next[c][t]

\* What was looked at is a part of the file.
LookedBefore(t) ==
    Inserting(t) =>
        job[t].looked <= Len(db[IF job[t].coll = "user" THEN "user" ELSE "groupusers"])

ThreadOK(t) == Shape(t) /\ GroupThere(t) /\ KeyNext(t) /\ NotSeen(t) /\ LookedBefore(t)

\* The keys of a collection are 1, ..., n.
Dense(c) == \E n \in Nat : Keys(c) = 1..n

ContentTyped ==
    /\ \A i \in DOMAIN db["user"] : db["user"][i].content \in Names
    /\ \A i \in DOMAIN db["groups"] : db["groups"][i].content \in Users
    /\ \A i \in DOMAIN db["groupusers"] : db["groupusers"][i].content \in Nat \X Users

TwiceNeedsOverlap(c) ==
    \A i, j \in DOMAIN db[c] :
        i < j /\ db[c][i].content = db[c][j].content => db[c][j].looked < i

FilesOK == /\ \A c \in Collections : Dense(c)
           /\ ContentTyped
           /\ MembershipHasGroup
           /\ TwiceNeedsOverlap("user")
           /\ TwiceNeedsOverlap("groupusers")

IInv == Typed /\ FilesOK /\ \A t \in Threads : ThreadOK(t)

-----------------------------------------------------------------------------
(***************************************************************************)
(* Lemmas                                                                  *)
(***************************************************************************)

\* The highest key of a collection whose keys are 1, ..., n is n.
LEMMA HighestOfDense ==
    ASSUME NEW c, NEW n \in Nat, Keys(c) = 1..n
    PROVE  HighestKey(c) = n
<1> DEFINE IsHighest(h) == h \in {0} \cup Keys(c) /\ \A k \in Keys(c) : k <= h
<1>1. n \in {0} \cup 1..n /\ \A k \in 1..n : k <= n
  OBVIOUS
<1>2. \A h : h \in {0} \cup 1..n /\ (\A k \in 1..n : k <= h) => h = n
  OBVIOUS
<1>3. HighestKey(c) = CHOOSE h \in {0} \cup 1..n : \A k \in 1..n : k <= h
  BY DEF HighestKey
<1> QED
  BY <1>1, <1>2, <1>3

\* Every file is a sequence.
LEMMA FileTyped ==
    ASSUME Typed, NEW c \in Collections
    PROVE  /\ db[c] \in Seq(Record(Content))
           /\ Len(db[c]) \in Nat
           /\ DOMAIN db[c] = 1..Len(db[c])
<1> DEFINE R == Record(Content)
<1>1. db[c] \in Seq(R)
  BY DEF Typed
<1> HIDE DEF R
<1>2. Len(db[c]) \in Nat /\ DOMAIN db[c] = 1..Len(db[c])
  BY <1>1
<1> QED
  BY <1>1, <1>2 DEF R

\* A thread whose own state a step leaves alone keeps its part of the invariant
\* when the files stay what they are.
LEMMA OthersKeep ==
    ASSUME NEW u \in Threads, ThreadOK(u), db' = db,
           pc'[u] = pc[u], job'[u] = job[u],
           \A c \in Collections : next'[c][u] = next[c][u],
           job[u].coll \in Collections
    PROVE  ThreadOK(u)'
<1>1. \A c : Keys(c)' = Keys(c)
  BY DEF Keys
<1>2. Inserting(u)' <=> Inserting(u)
  BY DEF Inserting
<1>3. Shape(u)'
  BY DEF ThreadOK, Shape
<1>4. GroupThere(u)'
  BY <1>1, <1>2 DEF ThreadOK, GroupThere
<1>5. KeyNext(u)'
  BY <1>1 DEF ThreadOK, KeyNext
<1>6. NotSeen(u)'
  BY <1>2 DEF ThreadOK, NotSeen
<1>7. LookedBefore(u)'
  BY <1>2 DEF ThreadOK, LookedBefore
<1> QED
  BY <1>3, <1>4, <1>5, <1>6, <1>7 DEF ThreadOK

\* The part about the files needs no more than the files.
LEMMA FilesKeep ==
    ASSUME FilesOK, db' = db
    PROVE  FilesOK'
BY DEF FilesOK, Dense, Keys, ContentTyped, MembershipHasGroup, TwiceNeedsOverlap

\* A step of thread t that changes no file preserves the invariant if it leaves
\* the other threads alone and t as it should be.
LEMMA ReadingStep ==
    ASSUME IInv, NEW t \in Threads, db' = db, Typed', ThreadOK(t)',
           \A u \in Threads : u # t =>
               /\ pc'[u] = pc[u]
               /\ job'[u] = job[u]
               /\ \A c \in Collections : next'[c][u] = next[c][u]
    PROVE  IInv'
<1>1. ASSUME NEW u \in Threads PROVE ThreadOK(u)'
  <2>1. CASE u = t
    BY <2>1
  <2>2. CASE u # t
    <3>1. ThreadOK(u) /\ job[u].coll \in Collections
      BY DEF IInv, Typed
    <3> QED
      BY <2>2, <3>1, OthersKeep
  <2> QED
    BY <2>1, <2>2
<1> QED
  BY <1>1, FilesKeep DEF IInv

-----------------------------------------------------------------------------
(***************************************************************************)
(* The invariant is inductive                                              *)
(***************************************************************************)

\* The invariant holds at the start.
LEMMA InitIInv == Init => IInv
<1> SUFFICES ASSUME Init PROVE IInv
  OBVIOUS
<1>1. NoJob \in [op : {"none", "register", "create", "join"}, coll : Collections,
                 content : Content, looked : Nat]
  BY RegistryAssumption DEF NoJob, Collections, Content
<1>2. Typed
  BY <1>1, RegistryAssumption DEF Init, Typed
<1>3. \A c \in Collections : Keys(c) = 1..0
  BY DEF Init, Keys
<1>4. \A c \in Collections : DOMAIN db[c] = {}
  BY DEF Init
<1>5. \A c \in Collections : Dense(c)
  BY <1>3 DEF Dense
<1>6. FilesOK
  BY <1>4, <1>5 DEF FilesOK, ContentTyped, MembershipHasGroup, TwiceNeedsOverlap,
                    Collections
<1>7. \A t \in Threads : ThreadOK(t)
  BY DEF Init, ThreadOK, Shape, GroupThere, KeyNext, NotSeen, LookedBefore, Inserting
<1> QED
  BY <1>2, <1>6, <1>7 DEF IInv

\* A command arrives.
LEMMA ReceiveIInv ==
    ASSUME IInv, NEW t \in Threads,
           \/ \E n \in Names : Register(t, n)
           \/ CreateGroup(t)
           \/ \E g \in 1..MaxGroupId : JoinGroup(t, g)
    PROVE  IInv'
<1> DEFINE Fits(at, op, c, x) ==
             \/ at = "name" /\ op = "register" /\ c = "user" /\ x \in Names
             \/ at = "key" /\ op = "create" /\ c = "groups" /\ x \in Users
             \/ at = "group" /\ op = "join" /\ c = "groupusers" /\ x \in Nat \X Users
<1>0. \E at, op, c, x : Receive(t, at, op, c, x) /\ Fits(at, op, c, x)
  <2>1. CASE \E n \in Names : Register(t, n)
    <3>1. PICK n \in Names : Receive(t, "name", "register", "user", n)
      BY <2>1 DEF Register
    <3>2. Fits("name", "register", "user", n)
      OBVIOUS
    <3> QED
      BY <3>1, <3>2
  <2>2. CASE CreateGroup(t)
    <3>1. Receive(t, "key", "create", "groups", UserOf[t])
      BY <2>2 DEF CreateGroup
    <3>2. Fits("key", "create", "groups", UserOf[t])
      BY RegistryAssumption
    <3> QED
      BY <3>1, <3>2
  <2>3. CASE \E g \in 1..MaxGroupId : JoinGroup(t, g)
    <3>1. PICK g \in 1..MaxGroupId :
              Receive(t, "group", "join", "groupusers", <<g, UserOf[t]>>)
      BY <2>3 DEF JoinGroup
    <3>2. Fits("group", "join", "groupusers", <<g, UserOf[t]>>)
      BY RegistryAssumption
    <3> QED
      BY <3>1, <3>2
  <2> QED
    BY <2>1, <2>2, <2>3
<1>1. PICK at, op, c, x : Receive(t, at, op, c, x) /\ Fits(at, op, c, x)
  BY <1>0
<1>2. Typed /\ db' = db /\ next' = next
  BY <1>1 DEF IInv, Receive, inserts
<1>3. Len(db["groupusers"]) \in Nat
  BY <1>2, FileTyped DEF Collections
<1>4. /\ pc' = [pc EXCEPT ![t] = at]
      /\ job' = [job EXCEPT ![t] = [op |-> op, coll |-> c, content |-> x,
                                    looked |-> Len(db["groupusers"])]]
  BY <1>1 DEF Receive
<1>5. Typed'
  <2>1. [op |-> op, coll |-> c, content |-> x, looked |-> Len(db["groupusers"])]
            \in [op : {"none", "register", "create", "join"}, coll : Collections,
                 content : Content, looked : Nat]
    BY <1>1, <1>3 DEF Collections, Content
  <2>2. commands' \in 0..MaxCommands
    <3>1. commands' = commands + 1 /\ commands < MaxCommands
      BY <1>1 DEF Receive
    <3>2. commands \in 0..MaxCommands /\ MaxCommands \in Nat
      BY <1>2, RegistryAssumption DEF Typed
    <3> QED
      BY <3>1, <3>2
  <2>3. at \in {"name", "key", "group"} /\ UNCHANGED <<seen, checked>>
    BY <1>1 DEF Receive, inserts
  <2> QED
    BY <1>2, <1>4, <2>1, <2>2, <2>3 DEF Typed
<1>6. /\ pc'[t] = at /\ job'[t].coll = c /\ job'[t].content = x
      /\ job'[t].looked = Len(db["groupusers"])
  BY <1>2, <1>4 DEF Typed
<1>7. Shape(t)'
  BY <1>1, <1>6 DEF Shape
<1>8. GroupThere(t)' /\ KeyNext(t)' /\ NotSeen(t)'
  BY <1>1, <1>6 DEF GroupThere, KeyNext, NotSeen, Inserting
<1>9. LookedBefore(t)'
  BY <1>1, <1>2, <1>3, <1>6 DEF LookedBefore, Inserting
<1>10. ThreadOK(t)'
  BY <1>7, <1>8, <1>9 DEF ThreadOK
<1> QED
  BY <1>2, <1>4, <1>5, <1>10, ReadingStep DEF Typed

\* A command ends.
LEMMA FinishIInv ==
    ASSUME IInv, NEW t \in Threads, Finish(t), UNCHANGED <<db, inserts, commands>>
    PROVE  IInv'
<1>1. Typed /\ db' = db /\ next' = next
  BY DEF IInv, inserts
<1>2. NoJob \in [op : {"none", "register", "create", "join"}, coll : Collections,
                 content : Content, looked : Nat]
  BY RegistryAssumption DEF NoJob, Collections, Content
<1>3. Typed'
  BY <1>1, <1>2 DEF Typed, Finish, inserts
<1>4. pc'[t] = "idle"
  BY <1>1 DEF Typed, Finish
<1>5. ThreadOK(t)'
  BY <1>4 DEF ThreadOK, Shape, GroupThere, KeyNext, NotSeen, LookedBefore, Inserting
<1> QED
  BY <1>1, <1>3, <1>5, ReadingStep DEF Typed, Finish

\* The lookup of a name, or of a membership, finds nothing.
LEMMA NotFoundIInv ==
    ASSUME IInv, NEW t \in Threads, NameFree(t) \/ NotMember(t)
    PROVE  IInv'
<1>1. PICK c \in {"user", "groupusers"} :
          /\ pc[t] = IF c = "user" THEN "name" ELSE "member"
          /\ job[t].content \notin Contents(c)
          /\ pc' = [pc EXCEPT ![t] = "key"]
          /\ job' = [job EXCEPT ![t].looked = Len(db[c])]
          /\ UNCHANGED <<db, inserts, commands>>
  BY DEF NameFree, NotMember
<1>2. Typed /\ db' = db /\ next' = next /\ ThreadOK(t)
  BY <1>1 DEF IInv, inserts
<1>3. Len(db[c]) \in Nat /\ c \in Collections
  BY <1>2, FileTyped DEF Collections
<1>4. Typed'
  BY <1>1, <1>2, <1>3 DEF Typed, inserts
<1>5. /\ pc'[t] = "key" /\ job'[t].coll = job[t].coll /\ job'[t].content = job[t].content
      /\ job'[t].looked = Len(db[c])
      /\ job[t].coll = c
  BY <1>1, <1>2 DEF Typed, ThreadOK, Shape
<1>6. Shape(t)' /\ KeyNext(t)'
  BY <1>1, <1>2, <1>5 DEF ThreadOK, Shape, KeyNext
<1>a. LookedBefore(t)'
  BY <1>2, <1>3, <1>5 DEF LookedBefore
<1>7. GroupThere(t)'
  BY <1>1, <1>2, <1>5 DEF ThreadOK, GroupThere, Inserting, Keys
<1>8. NotSeen(t)'
  BY <1>1, <1>2, <1>5 DEF NotSeen, Contents
<1>9. ThreadOK(t)'
  BY <1>6, <1>7, <1>8, <1>a DEF ThreadOK
<1> QED
  BY <1>1, <1>2, <1>4, <1>9, ReadingStep DEF Typed

\* The group of a JOIN_GROUP is found.
LEMMA GroupFoundIInv ==
    ASSUME IInv, NEW t \in Threads, GroupFound(t)
    PROVE  IInv'
<1>1. Typed /\ db' = db /\ next' = next /\ job' = job /\ ThreadOK(t)
  BY DEF IInv, GroupFound, inserts
<1>2. Typed'
  BY <1>1 DEF Typed, GroupFound, inserts
<1>3. /\ pc[t] \in {"group", "group again"}
      /\ pc'[t] \in {"group again", "member"}
      /\ job[t].content[1] \in Keys("groups")
  BY <1>1 DEF Typed, GroupFound
<1>4. ThreadOK(t)'
  BY <1>1, <1>3 DEF ThreadOK, Shape, GroupThere, KeyNext, NotSeen, LookedBefore,
                    Inserting, Keys
<1> QED
  BY <1>1, <1>2, <1>4, ReadingStep DEF Typed, GroupFound

\* The highest key is computed.
LEMMA GetNextKeyIInv ==
    ASSUME IInv, NEW t \in Threads, GetNextKey(t)
    PROVE  IInv'
<1>0. PICK c \in Collections : c = job[t].coll
  BY DEF IInv, Typed
<1>1. /\ Typed /\ FilesOK /\ ThreadOK(t)
      /\ db' = db /\ job' = job /\ checked' = checked /\ commands' = commands
  BY DEF IInv, GetNextKey
<1>2. PICK n \in Nat : Keys(c) = 1..n
  BY <1>1 DEF FilesOK, Dense
<1>3. HighestKey(c) = n
  BY <1>2, HighestOfDense
<1>4. /\ pc[t] = "key" /\ pc' = [pc EXCEPT ![t] = "check"]
      /\ next' = [next EXCEPT ![c][t] = n + 1]
      /\ seen' = [seen EXCEPT ![c][t] = Len(db[c])]
  BY <1>0, <1>3 DEF GetNextKey
<1>5. /\ pc'[t] = "check" /\ next'[c][t] = n + 1
      /\ \A u \in Threads : u # t => pc'[u] = pc[u] /\ \A d \in Collections : next'[d][u] = next[d][u]
  BY <1>1, <1>4 DEF Typed
<1>6. Typed'
  <2>1. Len(db[c]) \in Nat
    BY <1>1, FileTyped
  <2>2. next' \in [Collections -> [Threads -> Nat]]
    <3>1. n + 1 \in Nat
      OBVIOUS
    <3>2. next \in [Collections -> [Threads -> Nat]]
      BY <1>1 DEF Typed
    <3> QED
      BY <1>4, <3>1, <3>2
  <2>3. seen' \in [Collections -> [Threads -> Nat]]
    BY <1>1, <1>4, <2>1 DEF Typed
  <2> QED
    BY <1>1, <1>4, <2>2, <2>3 DEF Typed
<1>7. Shape(t)' /\ LookedBefore(t)'
  BY <1>1, <1>4, <1>5 DEF ThreadOK, Shape, LookedBefore, Inserting
<1>8. \A d : Keys(d)' = Keys(d)
  BY <1>1 DEF Keys
<1>9. GroupThere(t)'
  BY <1>1, <1>4, <1>5, <1>8 DEF ThreadOK, GroupThere, Inserting
<1>10. KeyNext(t)'
  <2>1. \A k \in Nat : 0 < k /\ k < n + 1 => k \in Keys(c)'
    BY <1>2, <1>8
  <2> QED
    BY <1>0, <1>1, <1>5, <2>1 DEF KeyNext
<1>11. NotSeen(t)'
  <2>1. CASE c = "groups"
    <3>1. ASSUME NEW i \in DOMAIN db["groupusers"]
          PROVE  db["groupusers"][i].content[1] < n + 1
      <4>1. db["groupusers"][i].content[1] \in 1..n
        BY <1>1, <1>2, <2>1 DEF FilesOK, MembershipHasGroup
      <4> QED
        BY <4>1
    <3> QED
      BY <1>0, <1>1, <1>5, <2>1, <3>1 DEF NotSeen
  <2>2. CASE c # "groups"
    BY <1>0, <1>1, <1>4, <1>5, <2>2 DEF ThreadOK, NotSeen, Inserting, Collections
  <2> QED
    BY <2>1, <2>2
<1>12. ThreadOK(t)'
  BY <1>7, <1>9, <1>10, <1>11 DEF ThreadOK
<1> QED
  BY <1>1, <1>5, <1>6, <1>12, ReadingStep

\* The scan for the key finds nothing.
LEMMA FindNoDuplicateIInv ==
    ASSUME IInv, NEW t \in Threads, FindNoDuplicate(t)
    PROVE  IInv'
<1>0. PICK c \in Collections : c = job[t].coll
  BY DEF IInv, Typed
<1>1. /\ Typed /\ ThreadOK(t)
      /\ db' = db /\ job' = job /\ next' = next /\ seen' = seen /\ commands' = commands
  BY DEF IInv, FindNoDuplicate
<1>2. /\ pc[t] = "check" /\ pc' = [pc EXCEPT ![t] = "append"]
      /\ checked' = [checked EXCEPT ![c][t] = Len(db[c])]
  BY <1>0 DEF FindNoDuplicate
<1>3. /\ pc'[t] = "append"
      /\ \A u \in Threads : u # t => pc'[u] = pc[u]
  BY <1>1, <1>2 DEF Typed
<1>4. Typed'
  <2>1. Len(db[c]) \in Nat
    BY <1>1, FileTyped
  <2> QED
    BY <1>1, <1>2, <2>1 DEF Typed
<1>5. \A d : Keys(d)' = Keys(d)
  BY <1>1 DEF Keys
<1>6. Shape(t)' /\ LookedBefore(t)' /\ GroupThere(t)' /\ KeyNext(t)'
  BY <1>1, <1>2, <1>3, <1>5
     DEF ThreadOK, Shape, LookedBefore, GroupThere, KeyNext, Inserting
<1>7. NotSeen(t)'
  BY <1>1, <1>2, <1>3 DEF ThreadOK, NotSeen, Inserting
<1>8. ThreadOK(t)'
  BY <1>6, <1>7 DEF ThreadOK
<1> QED
  BY <1>1, <1>3, <1>4, <1>8, ReadingStep

\* A new record is the last line of its file, and no other file changes.
LEMMA AppendFacts ==
    ASSUME Typed, NEW c \in Collections, NEW r \in Record(Content),
           db' = [db EXCEPT ![c] = Append(@, r)]
    PROVE  /\ db' \in [Collections -> Seq(Record(Content))]
           /\ Len(db[c]) \in Nat
           /\ DOMAIN db[c] = 1..Len(db[c])
           /\ Len(db'[c]) = Len(db[c]) + 1
           /\ DOMAIN db'[c] = 1..Len(db[c]) + 1
           /\ \A i \in 1..Len(db[c]) : db'[c][i] = db[c][i]
           /\ db'[c][Len(db[c]) + 1] = r
           /\ Keys(c)' = Keys(c) \cup {r.key}
           /\ \A d \in Collections : d # c => db'[d] = db[d] /\ Keys(d)' = Keys(d)
<1> DEFINE R == Record(Content)
<1> DEFINE s == db[c]
<1>1. s \in Seq(R) /\ r \in R
  BY FileTyped
<1>2. db'[c] = Append(s, r) /\ \A d \in Collections : d # c => db'[d] = db[d]
  BY DEF Typed
<1>3. db \in [Collections -> Seq(R)]
  BY DEF Typed
<1> HIDE DEF R, s
<1>4. /\ Append(s, r) \in Seq(R)
      /\ Len(s) \in Nat /\ DOMAIN s = 1..Len(s)
      /\ Len(Append(s, r)) = Len(s) + 1
      /\ DOMAIN Append(s, r) = 1..Len(s) + 1
      /\ \A i \in 1..Len(s) : Append(s, r)[i] = s[i]
      /\ Append(s, r)[Len(s) + 1] = r
  BY <1>1
<1>5. db' \in [Collections -> Seq(R)]
  BY <1>3, <1>4 DEF s
<1>6. {Append(s, r)[i].key : i \in DOMAIN Append(s, r)} = {s[i].key : i \in DOMAIN s} \cup {r.key}
  BY <1>4
<1>7. Keys(c)' = Keys(c) \cup {r.key}
  BY <1>2, <1>6 DEF Keys, s
<1>8. \A d \in Collections : d # c => Keys(d)' = Keys(d)
  BY <1>2 DEF Keys
<1> QED
  BY <1>2, <1>4, <1>5, <1>7, <1>8 DEF R, s

\* What a thread has found out about the files still holds when they have grown.
LEMMA GrowthKeeps ==
    ASSUME NEW u \in Threads, ThreadOK(u), job[u].looked \in Nat,
           job[u].coll \in Collections, pc'[u] = pc[u], job'[u] = job[u], next' = next,
           \A d \in Collections :
               /\ Len(db[d]) \in Nat /\ DOMAIN db[d] = 1..Len(db[d])
               /\ Len(db'[d]) \in Nat /\ DOMAIN db'[d] = 1..Len(db'[d])
               /\ Len(db[d]) <= Len(db'[d])
               /\ \A i \in 1..Len(db[d]) : db'[d][i] = db[d][i]
               /\ Keys(d) \subseteq Keys(d)'
    PROVE  ThreadOK(u)'
<1>1. Inserting(u)' <=> Inserting(u)
  BY DEF Inserting
<1>2. Shape(u)'
  BY DEF ThreadOK, Shape
<1>3. GroupThere(u)'
  BY <1>1 DEF ThreadOK, GroupThere, Collections
<1>4. KeyNext(u)'
  BY DEF ThreadOK, KeyNext
<1>5. LookedBefore(u)'
  BY <1>1 DEF ThreadOK, LookedBefore, Collections
<1>6. NotSeen(u)'
  <2> SUFFICES ASSUME Inserting(u) PROVE NotSeen(u)'
    BY <1>1 DEF NotSeen
  <2> DEFINE d == IF job[u].coll = "user" THEN "user" ELSE "groupusers"
  <2>1. d \in Collections /\ job[u].looked <= Len(db[d])
    BY DEF ThreadOK, LookedBefore, Collections
  <2>2. \A i \in DOMAIN db'[d] : i <= job[u].looked =>
            i \in DOMAIN db[d] /\ db'[d][i] = db[d][i]
    BY <2>1
  <2>3. NotSeen(u)
    BY DEF ThreadOK
  <2>4. CASE job[u].coll = "user"
    BY <2>2, <2>3, <2>4 DEF NotSeen
  <2>5. CASE job[u].coll = "groupusers"
    BY <2>2, <2>3, <2>5 DEF NotSeen
  <2>6. CASE job[u].coll = "groups"
    BY <2>2, <2>3, <2>6 DEF NotSeen
  <2> QED
    BY <2>4, <2>5, <2>6 DEF Collections
<1> QED
  BY <1>2, <1>3, <1>4, <1>5, <1>6 DEF ThreadOK

\* What an insert writes is a record.
LEMMA NewRecordTyped ==
    ASSUME IInv, NEW t \in Threads, pc[t] = "append"
    PROVE  NewRecord(t) \in Record(Content)
<1>1. PICK c \in Collections : c = job[t].coll
  BY DEF IInv, Typed
<1>2. Typed /\ ThreadOK(t)
  BY DEF IInv
<1>3. next[c][t] \in Nat /\ seen[c][t] \in Nat /\ checked[c][t] \in Nat
  BY <1>2 DEF Typed
<1>4. next[c][t] # 0
  BY <1>1, <1>2 DEF ThreadOK, KeyNext
<1>5. job[t].content \in Content /\ job[t].looked \in Nat
  BY <1>2 DEF Typed
<1> QED
  BY <1>1, <1>3, <1>4, <1>5 DEF NewRecord, Record

\* The files are as they should be with one more record of thread t.
LEMMA AppendedFilesOK ==
    ASSUME IInv, NEW t \in Threads, pc[t] = "append",
           NEW c \in Collections, c = job[t].coll,
           NewRecord(t) \in Record(Content),
           db' = [db EXCEPT ![c] = Append(@, NewRecord(t))]
    PROVE  FilesOK'
<1> DEFINE r == NewRecord(t)
<1> DEFINE n == Len(db[c])
<1>1. Typed /\ FilesOK /\ ThreadOK(t)
  BY DEF IInv
<1>2. /\ n \in Nat /\ DOMAIN db[c] = 1..n /\ DOMAIN db'[c] = 1..n + 1
      /\ \A i \in 1..n : db'[c][i] = db[c][i]
      /\ db'[c][n + 1] = r
      /\ Keys(c)' = Keys(c) \cup {r.key}
      /\ \A d \in Collections : d # c => db'[d] = db[d] /\ Keys(d)' = Keys(d)
  BY <1>1, AppendFacts
<1>3. /\ r.key = next[c][t] /\ r.content = job[t].content /\ r.looked = job[t].looked
      /\ r.looked \in Nat /\ next[c][t] \in Nat
  BY <1>1 DEF NewRecord, Typed
<1>4. Inserting(t)
  BY DEF Inserting
<1> HIDE DEF r, n
<1>5. \A d \in Collections : Dense(d)'
  <2>1. PICK m \in Nat : Keys(c) = 1..m
    BY <1>1 DEF FilesOK, Dense
  <2>2. r.key # 0 /\ \A k \in Nat : 0 < k /\ k < r.key => k \in 1..m
    BY <1>1, <1>3, <2>1 DEF ThreadOK, KeyNext
  <2>3. r.key \in 1..m + 1
    <3>1. r.key <= m + 1
      <4> SUFFICES ASSUME m + 1 < r.key PROVE FALSE
        BY <1>3
      <4>1. m + 1 \in 1..m
        BY <2>2
      <4> QED
        BY <4>1
    <3> QED
      BY <1>3, <2>2, <3>1
  <2>4. Keys(c)' = 1..m \/ Keys(c)' = 1..m + 1
    BY <1>2, <2>1, <2>3
  <2>5. Dense(c)'
    BY <2>4 DEF Dense
  <2>6. ASSUME NEW d \in Collections, d # c PROVE Dense(d)'
    BY <1>1, <1>2, <2>6 DEF FilesOK, Dense
  <2> QED
    BY <2>5, <2>6
<1>6. ContentTyped'
  <2>1. \/ c = "user" /\ r.content \in Names
        \/ c = "groups" /\ r.content \in Users
        \/ c = "groupusers" /\ r.content \in Nat \X Users
    BY <1>1, <1>3 DEF ThreadOK, Shape
  <2>2. ContentTyped
    BY <1>1 DEF FilesOK
  <2>3. \A i \in 1..n + 1 : i \in 1..n \/ i = n + 1
    BY <1>2
  <2>4. CASE c = "user"
    BY <1>2, <2>1, <2>2, <2>3, <2>4 DEF ContentTyped, Collections
  <2>5. CASE c = "groups"
    BY <1>2, <2>1, <2>2, <2>3, <2>5 DEF ContentTyped, Collections
  <2>6. CASE c = "groupusers"
    BY <1>2, <2>1, <2>2, <2>3, <2>6 DEF ContentTyped, Collections
  <2> QED
    BY <2>4, <2>5, <2>6 DEF Collections
<1>7. MembershipHasGroup'
  <2>1. MembershipHasGroup
    BY <1>1 DEF FilesOK
  <2>2. Keys("groups") \subseteq Keys("groups")'
    BY <1>2 DEF Collections
  <2>3. CASE c # "groupusers"
    BY <1>2, <2>1, <2>2, <2>3 DEF MembershipHasGroup, Collections
  <2>4. CASE c = "groupusers"
    <3>1. r.content[1] \in Keys("groups")
      BY <1>1, <1>3, <1>4, <2>4 DEF ThreadOK, GroupThere
    <3>2. \A i \in 1..n + 1 : i \in 1..n \/ i = n + 1
      BY <1>2
    <3> QED
      BY <1>2, <2>1, <2>2, <2>4, <3>1, <3>2 DEF MembershipHasGroup
  <2> QED
    BY <2>3, <2>4
<1>8. ASSUME NEW d \in {"user", "groupusers"} PROVE TwiceNeedsOverlap(d)'
  <2>1. TwiceNeedsOverlap(d)
    BY <1>1 DEF FilesOK
  <2>2. CASE d # c
    BY <1>2, <2>1, <2>2 DEF TwiceNeedsOverlap, Collections
  <2>3. CASE d = c
    <3> SUFFICES ASSUME NEW i \in 1..n + 1, NEW j \in 1..n + 1, i < j,
                        db'[c][i].content = db'[c][j].content
                 PROVE  db'[c][j].looked < i
      BY <1>2, <2>3 DEF TwiceNeedsOverlap
    <3>1. i \in 1..n /\ db'[c][i] = db[c][i]
      BY <1>2
    <3>2. CASE j \in 1..n
      BY <1>2, <2>1, <2>3, <3>1, <3>2 DEF TwiceNeedsOverlap
    <3>3. CASE j = n + 1
      <4>1. db[c][i].content = job[t].content
        BY <1>2, <1>3, <3>1, <3>3
      <4>2. ~(i <= job[t].looked)
        BY <1>1, <1>2, <1>4, <2>3, <3>1, <4>1 DEF ThreadOK, NotSeen
      <4> QED
        BY <1>2, <1>3, <3>1, <3>3, <4>2
    <3> QED
      BY <1>2, <3>2, <3>3
  <2> QED
    BY <2>2, <2>3
<1> QED
  BY <1>5, <1>6, <1>7, <1>8 DEF FilesOK

\* A record is written; CREATE_GROUP goes on with the membership of the owner.
LEMMA AppendRecordIInv ==
    ASSUME IInv, NEW t \in Threads, AppendRecord(t)
    PROVE  IInv'
<1>0. PICK c \in Collections : c = job[t].coll
  BY DEF IInv, Typed
<1>1. /\ Typed /\ FilesOK /\ ThreadOK(t) /\ pc[t] = "append"
      /\ next' = next /\ seen' = seen /\ checked' = checked /\ commands' = commands
  BY DEF IInv, AppendRecord, inserts
<1>2. db' = [db EXCEPT ![c] = Append(@, NewRecord(t))]
  BY <1>0 DEF AppendRecord
<1>3. NewRecord(t) \in Record(Content)
  BY <1>1, NewRecordTyped
<1>4. /\ db' \in [Collections -> Seq(Record(Content))]
      /\ Len(db[c]) \in Nat
      /\ DOMAIN db[c] = 1..Len(db[c])
      /\ Len(db'[c]) = Len(db[c]) + 1
      /\ DOMAIN db'[c] = 1..Len(db[c]) + 1
      /\ \A i \in 1..Len(db[c]) : db'[c][i] = db[c][i]
      /\ Keys(c)' = Keys(c) \cup {next[c][t]}
      /\ \A d \in Collections : d # c => db'[d] = db[d] /\ Keys(d)' = Keys(d)
  <2>1. NewRecord(t).key = next[c][t]
    BY <1>0 DEF NewRecord
  <2> QED
    BY <1>1, <1>2, <1>3, <2>1, AppendFacts
<1>5. FilesOK'
  BY <1>0, <1>1, <1>2, <1>3, AppendedFilesOK
<1>6. ASSUME NEW d \in Collections
      PROVE  /\ Len(db[d]) \in Nat /\ DOMAIN db[d] = 1..Len(db[d])
             /\ Len(db'[d]) \in Nat /\ DOMAIN db'[d] = 1..Len(db'[d])
             /\ Len(db[d]) <= Len(db'[d])
             /\ \A i \in 1..Len(db[d]) : db'[d][i] = db[d][i]
             /\ Keys(d) \subseteq Keys(d)'
  <2>1. Len(db[d]) \in Nat /\ DOMAIN db[d] = 1..Len(db[d])
    BY <1>1, FileTyped
  <2>2. CASE d = c
    BY <1>4, <2>2
  <2>3. CASE d # c
    BY <1>4, <2>1, <2>3
  <2> QED
    BY <2>2, <2>3
<1>7. ASSUME NEW u \in Threads, u # t PROVE ThreadOK(u)'
  <2>1. ThreadOK(u) /\ job[u].looked \in Nat /\ job[u].coll \in Collections
    BY <1>1 DEF IInv, Typed
  <2>2. pc'[u] = pc[u] /\ job'[u] = job[u]
    BY <1>1, <1>7 DEF AppendRecord, AfterAppend, Finish, Typed
  <2> QED
    BY <1>1, <1>6, <2>1, <2>2, GrowthKeeps
<1>8. CASE c # "groups"
  <2>1. Finish(t)
    BY <1>0, <1>8 DEF AppendRecord, AfterAppend
  <2>2. NoJob \in [op : {"none", "register", "create", "join"}, coll : Collections,
                   content : Content, looked : Nat]
    BY RegistryAssumption DEF NoJob, Collections, Content
  <2>3. Typed'
    BY <1>1, <1>4, <2>1, <2>2 DEF Typed, Finish
  <2>4. pc'[t] = "idle"
    BY <1>1, <2>1 DEF Typed, Finish
  <2>5. ThreadOK(t)'
    BY <2>4 DEF ThreadOK, Shape, GroupThere, KeyNext, NotSeen, LookedBefore, Inserting
  <2> QED
    BY <1>5, <1>7, <2>3, <2>5 DEF IInv
<1>9. CASE c = "groups"
  <2> DEFINE x == <<next["groups"][t], UserOf[t]>>
  <2>1. /\ pc' = [pc EXCEPT ![t] = "key"]
        /\ job' = [job EXCEPT ![t].coll = "groupusers", ![t].content = x]
    BY <1>0, <1>9 DEF AppendRecord, AfterAppend
  <2>2. x \in Nat \X Users /\ x \in Content /\ x[1] = next[c][t]
    BY <1>1, <1>9, RegistryAssumption DEF Typed, Content, Collections
  <2> HIDE DEF x
  <2>3. Typed'
    <3> DEFINE J == [op : {"none", "register", "create", "join"}, coll : Collections,
                     content : Content, looked : Nat]
    <3> DEFINE y == [job[t] EXCEPT !.coll = "groupusers", !.content = x]
    <3>1. job \in [Threads -> J] /\ job' = [job EXCEPT ![t] = y]
      BY <1>1, <2>1 DEF Typed
    <3>2. y \in J
      <4>1. job[t] \in J /\ "groupusers" \in Collections
        BY <3>1 DEF Collections
      <4> QED
        BY <2>2, <4>1
    <3> HIDE DEF J, y
    <3>3. job' \in [Threads -> J]
      BY <3>1, <3>2
    <3> QED
      BY <1>1, <1>4, <2>1, <3>3 DEF Typed, J
  <2>4. /\ pc'[t] = "key" /\ job'[t].coll = "groupusers" /\ job'[t].content = x
        /\ job'[t].looked = job[t].looked
    BY <1>1, <2>1 DEF Typed
  <2>5. Shape(t)' /\ KeyNext(t)'
    BY <2>2, <2>4 DEF Shape, KeyNext
  <2>6. GroupThere(t)'
    BY <1>4, <1>9, <2>2, <2>4 DEF GroupThere
  <2>7. db'["groupusers"] = db["groupusers"]
    BY <1>4, <1>9 DEF Collections
  <2>8. LookedBefore(t)'
    BY <1>0, <1>1, <1>9, <2>4, <2>7 DEF ThreadOK, LookedBefore, Inserting
  <2>9. NotSeen(t)'
    <3>1. \A i \in DOMAIN db["groupusers"] :
              i <= job[t].looked => db["groupusers"][i].content[1] < next[c][t]
      BY <1>0, <1>1, <1>9 DEF ThreadOK, NotSeen, Inserting
    <3>2. next[c][t] \in Nat
      BY <1>1 DEF Typed
    <3>3. \A i \in DOMAIN db["groupusers"] :
              i <= job[t].looked => db["groupusers"][i].content # x
      BY <2>2, <3>1, <3>2
    <3> QED
      BY <2>4, <2>7, <3>3 DEF NotSeen
  <2>10. ThreadOK(t)'
    BY <2>5, <2>6, <2>8, <2>9 DEF ThreadOK
  <2> QED
    BY <1>5, <1>7, <2>3, <2>10 DEF IInv
<1> QED
  BY <1>8, <1>9

\* Every step keeps the invariant.
LEMMA NextIInv == IInv /\ [Next]_vars => IInv'
<1> SUFFICES ASSUME IInv, [Next]_vars PROVE IInv'
  OBVIOUS
<1>1. CASE UNCHANGED vars
  <2>1. Typed' /\ FilesOK' /\ db' = db /\ pc' = pc /\ job' = job /\ next' = next
    BY <1>1, FilesKeep DEF IInv, Typed, vars, inserts
  <2>2. ASSUME NEW u \in Threads PROVE ThreadOK(u)'
    BY <2>1, OthersKeep DEF IInv, Typed
  <2> QED
    BY <2>1, <2>2 DEF IInv
<1>2. CASE Next
  <2>1. PICK t \in Threads : Step(t)
    BY <1>2 DEF Next
  <2>2. CASE \/ \E n \in Names : Register(t, n)
             \/ CreateGroup(t)
             \/ \E g \in 1..MaxGroupId : JoinGroup(t, g)
    BY <2>2, ReceiveIInv
  <2>3. CASE NameTaken(t) \/ GroupNotFound(t) \/ AlreadyMember(t) \/ FindDuplicate(t)
    BY <2>3, FinishIInv DEF NameTaken, GroupNotFound, AlreadyMember, FindDuplicate
  <2>4. CASE NameFree(t) \/ NotMember(t)
    BY <2>4, NotFoundIInv
  <2>5. CASE GroupFound(t)
    BY <2>5, GroupFoundIInv
  <2>6. CASE GetNextKey(t)
    BY <2>6, GetNextKeyIInv
  <2>7. CASE FindNoDuplicate(t)
    BY <2>7, FindNoDuplicateIInv
  <2>8. CASE AppendRecord(t)
    BY <2>8, AppendRecordIInv
  <2> QED
    BY <2>1, <2>2, <2>3, <2>4, <2>5, <2>6, <2>7, <2>8 DEF Step
<1> QED
  BY <1>1, <1>2

-----------------------------------------------------------------------------
(***************************************************************************)
(* Theorems                                                                *)
(***************************************************************************)

\* The invariant holds in every state: collections stay dense and what a thread
\* has looked up stays true of the records it looked at.
THEOREM Inductive == Spec => []IInv
<1> QED
  BY InitIInv, NextIInv, PTL DEF Spec

\* Records, threads and commands are typed, each record by its collection.
THEOREM TypeCorrect == Spec => []TypeOK
<1>1. IInv => TypeOK
  <2> SUFFICES ASSUME IInv PROVE TypeOK
    OBVIOUS
  <2>1. Typed /\ ContentTyped
    BY DEF IInv, FilesOK
  <2>2. ASSUME NEW d \in Collections, NEW X, \A i \in DOMAIN db[d] : db[d][i].content \in X
        PROVE  db[d] \in Seq(Record(X))
    <3> DEFINE R == Record(Content)
    <3> DEFINE Q == Record(X)
    <3> DEFINE s == db[d]
    <3>1. s \in Seq(R) /\ DOMAIN s = 1..Len(s) /\ Len(s) \in Nat
      BY <2>1, FileTyped
    <3>2. \A i \in DOMAIN s : s[i] \in R
      <4> HIDE DEF R, s
      <4> QED
        BY <3>1
    <3>3. \A i \in DOMAIN s : s[i] \in Q
      BY <2>2, <3>2 DEF Record
    <3> HIDE DEF R, Q
    <3>4. s \in [1..Len(s) -> Q]
      <4>1. s = [i \in 1..Len(s) |-> s[i]]
        <5> HIDE DEF s
        <5> QED
          BY <3>1
      <4> HIDE DEF s
      <4> QED
        BY <3>1, <3>3, <4>1
    <3>5. s \in Seq(Q)
      <4> HIDE DEF s
      <4> QED
        BY <3>1, <3>4
    <3> QED
      BY <3>5 DEF Q
  <2>3. DOMAIN db = Collections
    BY <2>1 DEF Typed
  <2>4. db["user"] \in Seq(Record(Names))
    BY <2>1, <2>2 DEF ContentTyped, Collections
  <2>5. db["groups"] \in Seq(Record(Users))
    BY <2>1, <2>2 DEF ContentTyped, Collections
  <2>6. db["groupusers"] \in Seq(Record(Nat \X Users))
    BY <2>1, <2>2 DEF ContentTyped, Collections
  <2> QED
    BY <2>1, <2>3, <2>4, <2>5, <2>6 DEF TypeOK, Typed
<1> QED
  BY <1>1, Inductive, PTL

\* Every membership is of a group that exists, however the commands of the
\* threads interleave.
THEOREM GroupsExist == Spec => []MembershipHasGroup
<1>1. IInv => MembershipHasGroup
  BY DEF IInv, FilesOK
<1> QED
  BY <1>1, Inductive, PTL

\* Two accounts have one name only if the second registration had looked the
\* name up before the first account was written.
THEOREM NamesOverlap == Spec => []NameTwiceNeedsOverlap
<1>1. IInv => NameTwiceNeedsOverlap
  BY DEF IInv, FilesOK, TwiceNeedsOverlap, NameTwiceNeedsOverlap
<1> QED
  BY <1>1, Inductive, PTL

\* A user is in a group twice only if the second command had looked the
\* membership up, or begun to create the group, before the first was written.
THEOREM MembersOverlap == Spec => []MemberTwiceNeedsOverlap
<1>1. IInv => MemberTwiceNeedsOverlap
  BY DEF IInv, FilesOK, TwiceNeedsOverlap, MemberTwiceNeedsOverlap
<1> QED
  BY <1>1, Inductive, PTL

-----------------------------------------------------------------------------
(***************************************************************************)
(* The commands implement PeachCollection, once for each collection.  That *)
(* an insert begins only while there is room, as the bound there says, needs *)
(* a count: each record, written or to come, is of a command of its own.   *)
(***************************************************************************)

\* The threads whose command will write one more record to the collection.
Pending(c) ==
    {t \in Threads :
        pc[t] # "idle" /\ job[t].coll \in {c} \cup (IF c = "groupusers" THEN {"groups"} ELSE {})}

\* Every record, written or to come, is of another command.
CountOK(c) == /\ IsFiniteSet(Pending(c))
              /\ Len(db[c]) + Cardinality(Pending(c)) <= commands

Counted == \A c \in Collections : CountOK(c)

\* A step of thread t touches nothing of another thread, and only an insert
\* touches what an insert keeps.
LEMMA StepIsLocal ==
    ASSUME Typed, NEW t \in Threads, Step(t), NEW u \in Threads, u # t
    PROVE  /\ pc'[u] = pc[u] /\ job'[u] = job[u]
           /\ \A c \in Collections : /\ next'[c][u] = next[c][u]
                                     /\ seen'[c][u] = seen[c][u]
                                     /\ checked'[c][u] = checked[c][u]
<1>1. pc'[u] = pc[u]
  BY DEF Step, Typed, Register, CreateGroup, JoinGroup, Receive, NameTaken, NameFree,
         GroupFound, GroupNotFound, AlreadyMember, NotMember, GetNextKey,
         FindDuplicate, FindNoDuplicate, AppendRecord, AfterAppend, Finish
<1>2. job'[u] = job[u]
  BY DEF Step, Typed, Register, CreateGroup, JoinGroup, Receive, NameTaken, NameFree,
         GroupFound, GroupNotFound, AlreadyMember, NotMember, GetNextKey,
         FindDuplicate, FindNoDuplicate, AppendRecord, AfterAppend, Finish
<1>3. CASE GetNextKey(t)
  BY <1>3 DEF GetNextKey, Typed
<1>4. CASE FindNoDuplicate(t)
  BY <1>4 DEF FindNoDuplicate, Typed
<1>5. CASE UNCHANGED inserts
  BY <1>1, <1>2, <1>5 DEF inserts
<1> QED
  BY <1>1, <1>2, <1>3, <1>4, <1>5
     DEF Step, Register, CreateGroup, JoinGroup, Receive, NameTaken, NameFree,
         GroupFound, GroupNotFound, AlreadyMember, NotMember, FindDuplicate, AppendRecord

\* The arithmetic of the count: fewer commands are pending, or the new one is.
LEMMA CountKept ==
    ASSUME NEW c, CountOK(c), Len(db[c]) \in Nat, commands \in Nat, NEW t,
           \/ /\ Len(db'[c]) = Len(db[c]) /\ commands' = commands
              /\ Pending(c)' \subseteq Pending(c)
           \/ /\ Len(db'[c]) = Len(db[c]) /\ commands' = commands + 1
              /\ Pending(c)' \subseteq Pending(c) \cup {t}
           \/ /\ Len(db'[c]) = Len(db[c]) + 1 /\ commands' = commands
              /\ t \in Pending(c)
              /\ Pending(c)' \subseteq Pending(c) \ {t}
    PROVE  CountOK(c)'
<1> DEFINE P == Pending(c)
<1> DEFINE Q == Pending(c)'
<1>1. IsFiniteSet(P) /\ Cardinality(P) \in Nat /\ Len(db[c]) + Cardinality(P) <= commands
  BY FS_CardinalityType DEF CountOK
<1>2. /\ IsFiniteSet(P \cup {t}) /\ Cardinality(P \cup {t}) \in Nat
      /\ Cardinality(P \cup {t}) <= Cardinality(P) + 1
  <2> HIDE DEF P
  <2>1. /\ IsFiniteSet(P \cup {t})
        /\ Cardinality(P \cup {t}) = IF t \in P THEN Cardinality(P) ELSE Cardinality(P) + 1
    BY <1>1, FS_AddElement
  <2> QED
    BY <1>1, <2>1
<1>3. /\ IsFiniteSet(P \ {t}) /\ Cardinality(P \ {t}) \in Nat
      /\ t \in P => Cardinality(P \ {t}) = Cardinality(P) - 1
  BY <1>1, FS_RemoveElement, FS_CardinalityType
<1>4. \A S, T : IsFiniteSet(S) /\ T \subseteq S =>
          /\ IsFiniteSet(T) /\ Cardinality(T) \in Nat /\ Cardinality(T) <= Cardinality(S)
  BY FS_Subset, FS_CardinalityType
<1> HIDE DEF P, Q
<1>5. IsFiniteSet(Q) /\ Len(db'[c]) + Cardinality(Q) <= commands'
  <2>1. CASE /\ Len(db'[c]) = Len(db[c]) /\ commands' = commands /\ Q \subseteq P
    <3>1. IsFiniteSet(Q) /\ Cardinality(Q) \in Nat /\ Cardinality(Q) <= Cardinality(P)
      BY <1>1, <1>4, <2>1
    <3> QED
      BY <1>1, <2>1, <3>1
  <2>2. CASE /\ Len(db'[c]) = Len(db[c]) /\ commands' = commands + 1
             /\ Q \subseteq P \cup {t}
    <3>1. /\ IsFiniteSet(Q) /\ Cardinality(Q) \in Nat
          /\ Cardinality(Q) <= Cardinality(P \cup {t})
      BY <1>2, <1>4, <2>2
    <3> QED
      BY <1>1, <1>2, <2>2, <3>1
  <2>3. CASE /\ Len(db'[c]) = Len(db[c]) + 1 /\ commands' = commands
             /\ t \in P /\ Q \subseteq P \ {t}
    <3>1. /\ IsFiniteSet(Q) /\ Cardinality(Q) \in Nat
          /\ Cardinality(Q) <= Cardinality(P \ {t})
      BY <1>3, <1>4, <2>3
    <3> QED
      BY <1>1, <1>3, <2>3, <3>1
  <2> QED
    BY <2>1, <2>2, <2>3 DEF P, Q
<1> QED
  BY <1>5 DEF CountOK, Q

\* No collection ever has more records than commands have been received.
LEMMA NextCounted == IInv /\ Counted /\ [Next]_vars => Counted'
<1> SUFFICES ASSUME IInv, Counted, [Next]_vars, NEW c \in Collections PROVE CountOK(c)'
  BY DEF Counted
<1>1. Typed /\ CountOK(c) /\ Len(db[c]) \in Nat /\ commands \in Nat
  <2>1. Typed /\ CountOK(c)
    BY DEF IInv, Counted
  <2>2. commands \in 0..MaxCommands
    BY <2>1 DEF Typed
  <2>3. commands \in Nat
    BY <2>2, RegistryAssumption
  <2> QED
    BY <2>1, <2>3, FileTyped
<1>2. CASE UNCHANGED vars
  BY <1>1, <1>2 DEF CountOK, Pending, vars
<1>3. CASE Next
  <2>1. PICK t \in Threads : Step(t)
    BY <1>3 DEF Next
  <2>2. \A u \in Threads : u # t => pc'[u] = pc[u] /\ job'[u] = job[u]
    BY <1>1, <2>1, StepIsLocal
  <2>3. Pending(c)' \subseteq Pending(c) \cup {t}
    BY <2>2 DEF Pending
  <2>4. CASE \/ \E n \in Names : Register(t, n)
             \/ CreateGroup(t)
             \/ \E g \in 1..MaxGroupId : JoinGroup(t, g)
    <3>1. db' = db /\ commands' = commands + 1
      BY <2>4 DEF Register, CreateGroup, JoinGroup, Receive
    <3> QED
      BY <1>1, <2>3, <3>1, CountKept
  <2>5. CASE \/ NameTaken(t) \/ NameFree(t) \/ GroupFound(t) \/ GroupNotFound(t)
             \/ AlreadyMember(t) \/ NotMember(t) \/ GetNextKey(t)
             \/ FindDuplicate(t) \/ FindNoDuplicate(t)
    <3>1. db' = db /\ commands' = commands /\ pc[t] # "idle"
      BY <2>5 DEF NameTaken, NameFree, GroupFound, GroupNotFound, AlreadyMember,
                  NotMember, GetNextKey, FindDuplicate, FindNoDuplicate
    <3>2. pc'[t] = "idle" \/ job'[t].coll = job[t].coll
      BY <1>1, <2>5 DEF NameTaken, NameFree, GroupFound, GroupNotFound, AlreadyMember,
                  NotMember, GetNextKey, FindDuplicate, FindNoDuplicate, Finish, Typed
    <3>3. Pending(c)' \subseteq Pending(c)
      BY <2>2, <3>1, <3>2 DEF Pending
    <3> QED
      BY <1>1, <3>1, <3>3, CountKept
  <2>6. CASE AppendRecord(t)
    <3>1. PICK d \in Collections : d = job[t].coll
      BY <1>1 DEF Typed
    <3>2. /\ db' = [db EXCEPT ![d] = Append(@, NewRecord(t))]
          /\ commands' = commands /\ pc[t] = "append"
      BY <2>6, <3>1 DEF AppendRecord
    <3>3. IF d = "groups" THEN job'[t].coll = "groupusers" ELSE pc'[t] = "idle"
      BY <1>1, <2>6, <3>1 DEF AppendRecord, AfterAppend, Finish, Typed
    <3>4. CASE c = d
      <4>1. Len(db'[c]) = Len(db[c]) + 1
        BY <1>1, <2>6, <3>1, <3>2, <3>4, NewRecordTyped, AppendFacts
      <4>2. t \in Pending(c) /\ Pending(c)' \subseteq Pending(c) \ {t}
        BY <2>2, <3>1, <3>2, <3>3, <3>4 DEF Pending
      <4> QED
        BY <1>1, <3>2, <4>1, <4>2, CountKept
    <3>5. CASE c # d
      <4>1. db'[c] = db[c]
        BY <1>1, <3>2, <3>5 DEF Typed
      <4>2. Pending(c)' \subseteq Pending(c)
        BY <2>2, <3>1, <3>2, <3>3, <3>5 DEF Pending, Collections
      <4> QED
        BY <1>1, <3>2, <4>1, <4>2, CountKept
    <3> QED
      BY <3>4, <3>5
  <2> QED
    BY <2>1, <2>4, <2>5, <2>6 DEF Step
<1> QED
  BY <1>2, <1>3

\* The records and the inserts under way are counted right, at the start ...
LEMMA InitCounted == Init => Counted
<1> SUFFICES ASSUME Init, NEW c \in Collections PROVE CountOK(c)
  BY DEF Counted
<1>1. Pending(c) = {} /\ Len(db[c]) = 0 /\ commands = 0
  BY DEF Init, Pending
<1> QED
  BY <1>1, FS_EmptySet DEF CountOK

\* ... and in any execution.
LEMMA AlwaysCounted == Spec => []Counted
<1> QED
  BY InitCounted, NextCounted, Inductive, PTL DEF Spec

\* The step of PeachCollection that a step of the commands is for one collection.
HighestIn(f) == CHOOSE h \in {0} \cup {f[i].key : i \in DOMAIN f} :
                    \A k \in {f[i].key : i \in DOMAIN f} : k <= h

Insert(c, t) ==
    \/ /\ In(c)[t] = "idle"
       /\ Len(Lines(c)) < MaxCommands
       /\ next'[c] = [next[c] EXCEPT ![t] = HighestIn(Lines(c)) + 1]
       /\ seen'[c] = [seen[c] EXCEPT ![t] = Len(Lines(c))]
       /\ In(c)' = [In(c) EXCEPT ![t] = "check"]
       /\ Lines(c)' = Lines(c) /\ checked'[c] = checked[c]
    \/ /\ In(c)[t] = "check"
       /\ next[c][t] \in {Lines(c)[i].key : i \in DOMAIN Lines(c)}
       /\ In(c)' = [In(c) EXCEPT ![t] = "idle"]
       /\ Lines(c)' = Lines(c)
       /\ next'[c] = next[c] /\ seen'[c] = seen[c] /\ checked'[c] = checked[c]
    \/ /\ In(c)[t] = "check"
       /\ next[c][t] \notin {Lines(c)[i].key : i \in DOMAIN Lines(c)}
       /\ checked'[c] = [checked[c] EXCEPT ![t] = Len(Lines(c))]
       /\ In(c)' = [In(c) EXCEPT ![t] = "append"]
       /\ Lines(c)' = Lines(c) /\ next'[c] = next[c] /\ seen'[c] = seen[c]
    \/ /\ In(c)[t] = "append"
       /\ Lines(c)' = Append(Lines(c), [key |-> next[c][t], by |-> t,
                                        seen |-> seen[c][t], checked |-> checked[c][t]])
       /\ In(c)' = [In(c) EXCEPT ![t] = "idle"]
       /\ next'[c] = next[c] /\ seen'[c] = seen[c] /\ checked'[c] = checked[c]

\* The lines of a collection have the keys of its records, in their order.
LEMMA LinesFacts ==
    ASSUME Typed, NEW c \in Collections
    PROVE  /\ Lines(c) \in Seq([key : Nat \ {0}, by : Threads, seen : Nat, checked : Nat])
           /\ Len(Lines(c)) = Len(db[c])
           /\ DOMAIN Lines(c) = DOMAIN db[c]
           /\ {Lines(c)[i].key : i \in DOMAIN Lines(c)} = Keys(c)
           /\ HighestIn(Lines(c)) = HighestKey(c)
<1> DEFINE L == [key : Nat \ {0}, by : Threads, seen : Nat, checked : Nat]
<1> DEFINE s == Lines(c)
<1> DEFINE n == Len(db[c])
<1>1. n \in Nat /\ DOMAIN db[c] = 1..n
  BY FileTyped
<1>2. \A i \in 1..n : db[c][i] \in Record(Content)
  <2> DEFINE R == Record(Content)
  <2>1. db[c] \in Seq(R)
    BY FileTyped
  <2> HIDE DEF R
  <2>2. \A i \in 1..n : db[c][i] \in R
    BY <1>1, <2>1
  <2> QED
    BY <2>2 DEF R
<1>3. s = [i \in 1..n |-> [key |-> db[c][i].key, by |-> db[c][i].by,
                          seen |-> db[c][i].seen, checked |-> db[c][i].checked]]
  BY <1>1 DEF Lines
<1>4. ASSUME NEW i \in 1..n
      PROVE  s[i] \in L /\ s[i].key = db[c][i].key
  BY <1>2, <1>3 DEF Record
<1>5. s \in [1..n -> L]
  BY <1>3, <1>4
<1> HIDE DEF L, s, n
<1>6. s \in Seq(L) /\ Len(s) = n /\ DOMAIN s = 1..n
  BY <1>1, <1>5
<1>7. {s[i].key : i \in DOMAIN s} = Keys(c)
  BY <1>1, <1>4, <1>6 DEF Keys
<1>8. HighestIn(s) = HighestKey(c)
  BY <1>7 DEF HighestIn, HighestKey
<1> QED
  BY <1>1, <1>6, <1>7, <1>8 DEF L, s, n

\* A step of thread t is a step of its insert for the collection it writes to,
\* and no step for the others.
LEMMA StepInserts ==
    ASSUME IInv, Counted, NEW t \in Threads, Step(t), NEW c \in Collections
    PROVE  \/ Insert(c, t)
           \/ /\ In(c)' = In(c) /\ Lines(c)' = Lines(c)
              /\ next'[c] = next[c] /\ seen'[c] = seen[c] /\ checked'[c] = checked[c]
<1>1. Typed /\ CountOK(c)
  BY DEF IInv, Counted
<1>2. \A u \in Threads : u # t => pc'[u] = pc[u] /\ job'[u] = job[u]
  BY <1>1, StepIsLocal
<1>3. ASSUME NEW w, w = IF job'[t].coll = c /\ pc'[t] \in {"check", "append"}
                         THEN pc'[t] ELSE "idle"
      PROVE  In(c)' = [In(c) EXCEPT ![t] = w]
  BY <1>2, <1>3 DEF In
<1>4. In(c) = [In(c) EXCEPT ![t] = In(c)[t]]
  BY DEF In
<1>5. In(c)[t] = IF job[t].coll = c /\ pc[t] \in {"check", "append"} THEN pc[t] ELSE "idle"
  BY DEF In
<1>6. db' = db => Lines(c)' = Lines(c)
  BY DEF Lines
<1>7. CASE \/ \E n \in Names : Register(t, n)
           \/ CreateGroup(t)
           \/ \E g \in 1..MaxGroupId : JoinGroup(t, g)
           \/ NameTaken(t) \/ NameFree(t) \/ GroupFound(t) \/ GroupNotFound(t)
           \/ AlreadyMember(t) \/ NotMember(t)
  <2>1. db' = db /\ UNCHANGED inserts /\ pc[t] \notin {"check", "append"}
    BY <1>7 DEF Register, CreateGroup, JoinGroup, Receive, NameTaken, NameFree,
                GroupFound, GroupNotFound, AlreadyMember, NotMember
  <2>2. pc'[t] \notin {"check", "append"}
    BY <1>1, <1>7 DEF Register, CreateGroup, JoinGroup, Receive, NameTaken, NameFree,
                GroupFound, GroupNotFound, AlreadyMember, NotMember, Finish, Typed
  <2>3. In(c)' = In(c)
    BY <1>3, <1>4, <1>5, <2>1, <2>2
  <2> QED
    BY <1>6, <2>1, <2>3 DEF inserts
<1>8. CASE GetNextKey(t)
  <2>1. PICK d \in Collections : d = job[t].coll
    BY <1>1 DEF Typed
  <2>2. /\ pc[t] = "key" /\ pc'[t] = "check" /\ job' = job /\ db' = db /\ checked' = checked
        /\ next' = [next EXCEPT ![d][t] = HighestKey(d) + 1]
        /\ seen' = [seen EXCEPT ![d][t] = Len(db[d])]
    BY <1>1, <1>8, <2>1 DEF GetNextKey, Typed
  <2>3. CASE c = d
    <3>1. In(c)[t] = "idle" /\ In(c)' = [In(c) EXCEPT ![t] = "check"]
      BY <1>3, <1>5, <2>1, <2>2, <2>3
    <3>2. Len(db[c]) < MaxCommands
      <4>1. t \in Pending(c)
        BY <2>1, <2>2, <2>3 DEF Pending
      <4>2. Cardinality(Pending(c)) \in Nat /\ Cardinality(Pending(c)) # 0
        BY <1>1, <4>1, FS_CardinalityType, FS_EmptySet DEF CountOK
      <4>3. Len(db[c]) \in Nat /\ commands \in 0..MaxCommands
        BY <1>1, FileTyped DEF Typed
      <4> QED
        BY <1>1, <4>2, <4>3, RegistryAssumption DEF CountOK
    <3>3. /\ next'[c] = [next[c] EXCEPT ![t] = HighestKey(c) + 1]
          /\ seen'[c] = [seen[c] EXCEPT ![t] = Len(db[c])]
      BY <1>1, <2>2, <2>3 DEF Typed
    <3> QED
      BY <1>1, <1>6, <2>2, <3>1, <3>2, <3>3, LinesFacts DEF Insert
  <2>4. CASE c # d
    <3>1. In(c)' = In(c)
      BY <1>3, <1>4, <1>5, <2>1, <2>2, <2>4
    <3> QED
      BY <1>1, <1>6, <2>2, <2>4, <3>1 DEF Typed
  <2> QED
    BY <2>3, <2>4
<1>9. CASE FindDuplicate(t)
  <2>1. /\ pc[t] = "check" /\ pc'[t] = "idle" /\ db' = db /\ UNCHANGED inserts
        /\ next[job[t].coll][t] \in Keys(job[t].coll)
    BY <1>1, <1>9 DEF FindDuplicate, Finish, Typed
  <2>2. CASE c = job[t].coll
    <3>1. In(c)[t] = "check" /\ In(c)' = [In(c) EXCEPT ![t] = "idle"]
      BY <1>3, <1>5, <2>1, <2>2
    <3> QED
      BY <1>1, <1>6, <2>1, <2>2, <3>1, LinesFacts DEF Insert, inserts
  <2>3. CASE c # job[t].coll
    <3>1. In(c)' = In(c)
      BY <1>3, <1>4, <1>5, <2>1, <2>3
    <3> QED
      BY <1>6, <2>1, <3>1 DEF inserts
  <2> QED
    BY <2>2, <2>3
<1>10. CASE FindNoDuplicate(t)
  <2>1. PICK d \in Collections : d = job[t].coll
    BY <1>1 DEF Typed
  <2>2. /\ pc[t] = "check" /\ pc'[t] = "append" /\ db' = db /\ job' = job
        /\ next' = next /\ seen' = seen
        /\ next[d][t] \notin Keys(d)
        /\ checked' = [checked EXCEPT ![d][t] = Len(db[d])]
    BY <1>1, <1>10, <2>1 DEF FindNoDuplicate, Typed
  <2>3. CASE c = d
    <3>1. In(c)[t] = "check" /\ In(c)' = [In(c) EXCEPT ![t] = "append"]
      BY <1>3, <1>5, <2>1, <2>2, <2>3
    <3>2. checked'[c] = [checked[c] EXCEPT ![t] = Len(db[c])]
      BY <1>1, <2>2, <2>3 DEF Typed
    <3> QED
      BY <1>1, <1>6, <2>2, <2>3, <3>1, <3>2, LinesFacts DEF Insert
  <2>4. CASE c # d
    <3>1. In(c)' = In(c)
      BY <1>3, <1>4, <1>5, <2>1, <2>2, <2>4
    <3> QED
      BY <1>1, <1>6, <2>2, <2>4, <3>1 DEF Typed
  <2> QED
    BY <2>3, <2>4
<1>11. CASE AppendRecord(t)
  <2>1. PICK d \in Collections : d = job[t].coll
    BY <1>1 DEF Typed
  <2>2. /\ pc[t] = "append" /\ pc'[t] \in {"key", "idle"} /\ UNCHANGED inserts
        /\ db' = [db EXCEPT ![d] = Append(@, NewRecord(t))]
    BY <1>1, <1>11, <2>1 DEF AppendRecord, AfterAppend, Finish, Typed
  <2>3. CASE c = d
    <3> DEFINE n == Len(db[c])
    <3> DEFINE e == [key |-> next[c][t], by |-> t,
                     seen |-> seen[c][t], checked |-> checked[c][t]]
    <3> DEFINE L == [key : Nat \ {0}, by : Threads, seen : Nat, checked : Nat]
    <3>1. In(c)[t] = "append" /\ In(c)' = [In(c) EXCEPT ![t] = "idle"]
      BY <1>3, <1>5, <2>1, <2>2, <2>3
    <3>2. NewRecord(t) \in Record(Content)
      BY <2>2, NewRecordTyped
    <3>3. /\ n \in Nat /\ DOMAIN db[c] = 1..n /\ DOMAIN db'[c] = 1..n + 1
          /\ \A i \in 1..n : db'[c][i] = db[c][i]
          /\ db'[c][n + 1] = NewRecord(t)
      BY <1>1, <2>2, <2>3, <3>2, AppendFacts
    <3>4. Lines(c) \in Seq(L) /\ Len(Lines(c)) = n
      BY <1>1, LinesFacts
    <3>5. e \in L
      BY <2>1, <2>3, <3>2 DEF NewRecord, Record
    <3>6. Lines(c)' = [i \in 1..n + 1 |-> IF i = n + 1 THEN e ELSE Lines(c)[i]]
      <4>1. Lines(c)' = [i \in 1..n + 1 |->
                [key |-> db'[c][i].key, by |-> db'[c][i].by,
                 seen |-> db'[c][i].seen, checked |-> db'[c][i].checked]]
        BY <3>3 DEF Lines
      <4>2. ASSUME NEW i \in 1..n + 1
            PROVE  [key |-> db'[c][i].key, by |-> db'[c][i].by,
                    seen |-> db'[c][i].seen, checked |-> db'[c][i].checked]
                       = IF i = n + 1 THEN e ELSE Lines(c)[i]
        <5>1. CASE i = n + 1
          BY <2>1, <2>3, <3>3, <5>1 DEF NewRecord
        <5>2. CASE i # n + 1
          <6>1. i \in 1..n
            BY <3>3, <5>2
          <6> QED
            BY <3>3, <5>2, <6>1 DEF Lines
        <5> QED
          BY <5>1, <5>2
      <4> HIDE DEF e
      <4> QED
        BY <4>1, <4>2
    <3>7. Append(Lines(c), e) = [i \in 1..n + 1 |-> IF i = n + 1 THEN e ELSE Lines(c)[i]]
      <4> DEFINE s == Lines(c)
      <4> HIDE DEF L, e, n, s
      <4>1. /\ Append(s, e) \in Seq(L) /\ DOMAIN Append(s, e) = 1..n + 1
            /\ \A i \in 1..n : Append(s, e)[i] = s[i]
            /\ Append(s, e)[n + 1] = e
        BY <3>3, <3>4, <3>5 DEF s
      <4>2. Append(s, e) = [i \in 1..n + 1 |-> Append(s, e)[i]]
        <5> DEFINE a == Append(s, e)
        <5>1. a \in Seq(L) /\ DOMAIN a = 1..n + 1 /\ n + 1 \in Nat
          BY <3>3, <4>1
        <5> HIDE DEF a
        <5>2. a = [i \in 1..n + 1 |-> a[i]]
          BY <5>1
        <5> QED
          BY <5>2 DEF a
      <4>3. \A i \in 1..n + 1 : Append(s, e)[i] = IF i = n + 1 THEN e ELSE s[i]
        <5>1. \A i \in 1..n + 1 : i \in 1..n \/ i = n + 1
          BY <3>3
        <5>2. n + 1 \notin 1..n
          BY <3>3
        <5> QED
          BY <4>1, <5>1, <5>2
      <4> QED
        BY <4>2, <4>3 DEF s
    <3> QED
      BY <2>2, <3>1, <3>6, <3>7 DEF Insert, inserts
  <2>4. CASE c # d
    <3>1. In(c)' = In(c)
      <4>1. In(c)[t] = "idle"
        BY <1>5, <2>1, <2>4
      <4> QED
        BY <1>3, <1>4, <2>2, <4>1
    <3>2. db'[c] = db[c]
      BY <1>1, <2>2, <2>4 DEF Typed
    <3> QED
      BY <2>2, <3>1, <3>2 DEF inserts, Lines
  <2> QED
    BY <2>3, <2>4
<1> QED
  BY <1>7, <1>8, <1>9, <1>10, <1>11 DEF Step

\* The initial files and threads are those of PeachCollection.
LEMMA InitMaps ==
    ASSUME Init, NEW c \in Collections
    PROVE  /\ Lines(c) = <<>>
           /\ In(c) = [t \in Threads |-> "idle"]
           /\ next[c] = [t \in Threads |-> 0]
           /\ seen[c] = [t \in Threads |-> 0]
           /\ checked[c] = [t \in Threads |-> 0]
BY DEF Init, Lines, In

\* For each collection, the commands implement PeachCollection.
THEOREM ImplementsInserts == Spec => ImplementsCollections
<1>1. Init => Accounts!Init /\ Groups!Init /\ Members!Init
  BY InitMaps DEF Accounts!Init, Groups!Init, Members!Init, Collections
<1>2. ASSUME NEW t, Insert("user", t) PROVE Accounts!Step(t)
  BY <1>2 DEF Insert, HighestIn, Accounts!Step, Accounts!GetNextKey, Accounts!FindDuplicate,
     Accounts!FindNoDuplicate, Accounts!AppendRecord, Accounts!NewRecord,
     Accounts!WithRecord, Accounts!HighestKey, Accounts!Keys
<1>3. ASSUME NEW t, Insert("groups", t) PROVE Groups!Step(t)
  BY <1>3 DEF Insert, HighestIn, Groups!Step, Groups!GetNextKey, Groups!FindDuplicate,
     Groups!FindNoDuplicate, Groups!AppendRecord, Groups!NewRecord,
     Groups!WithRecord, Groups!HighestKey, Groups!Keys
<1>4. ASSUME NEW t, Insert("groupusers", t) PROVE Members!Step(t)
  BY <1>4 DEF Insert, HighestIn, Members!Step, Members!GetNextKey, Members!FindDuplicate,
     Members!FindNoDuplicate, Members!AppendRecord, Members!NewRecord,
     Members!WithRecord, Members!HighestKey, Members!Keys
<1>5. IInv /\ Counted /\ [Next]_vars => /\ [Accounts!Next]_(Accounts!vars)
                                        /\ [Groups!Next]_(Groups!vars)
                                        /\ [Members!Next]_(Members!vars)
  <2> SUFFICES ASSUME IInv, Counted, [Next]_vars
               PROVE  /\ [Accounts!Next]_(Accounts!vars)
                      /\ [Groups!Next]_(Groups!vars)
                      /\ [Members!Next]_(Members!vars)
    OBVIOUS
  <2>1. CASE UNCHANGED vars
    BY <2>1 DEF vars, inserts, Accounts!vars, Groups!vars, Members!vars, Lines, In
  <2>2. CASE Next
    <3>1. PICK t \in Threads : Step(t)
      BY <2>2 DEF Next
    <3>2. [Accounts!Next]_(Accounts!vars)
      BY <1>2, <3>1, StepInserts DEF Accounts!Next, Accounts!vars, Collections
    <3>3. [Groups!Next]_(Groups!vars)
      BY <1>3, <3>1, StepInserts DEF Groups!Next, Groups!vars, Collections
    <3>4. [Members!Next]_(Members!vars)
      BY <1>4, <3>1, StepInserts DEF Members!Next, Members!vars, Collections
    <3> QED
      BY <3>2, <3>3, <3>4
  <2> QED
    BY <2>1, <2>2
<1> QED
  BY <1>1, <1>5, Inductive, AlwaysCounted, PTL
     DEF ImplementsCollections, Spec, Accounts!Spec, Groups!Spec, Members!Spec


-----------------------------------------------------------------------------
(***************************************************************************)
(* The owners of groups.  What a thread that creates a group knows of the  *)
(* memberships when its second insert fails is in the invariant of         *)
(* PeachCollection, which the memberships inherit.                         *)
(***************************************************************************)
\* What is proved of PeachCollection, for the memberships.
MembersP == INSTANCE PeachCollectionProofs
            WITH MaxRecords <- MaxCommands, file <- Lines("groupusers"),
                 pc <- In("groupusers"), next <- next["groupusers"],
                 seen <- seen["groupusers"], checked <- checked["groupusers"]

\* The inductive invariant of PeachCollection holds of the memberships.
LEMMA MembersInductive == Spec => []MembersP!IInv
<1>1. MembersP!MaxRecordsAssumption
  BY RegistryAssumption DEF MembersP!MaxRecordsAssumption
<1>2. MembersP!Spec => []MembersP!IInv
  BY <1>1, MembersP!Inductive
<1>3. Members!Init => MembersP!Init
  BY DEF Members!Init, MembersP!Init
<1>4. [Members!Next]_(Members!vars) => [MembersP!Next]_(MembersP!vars)
  BY DEF Members!Next, Members!vars, Members!Step, Members!GetNextKey,
         Members!FindDuplicate, Members!FindNoDuplicate, Members!AppendRecord,
         Members!NewRecord, Members!WithRecord, Members!HighestKey, Members!Keys,
         MembersP!Next, MembersP!vars, MembersP!Step, MembersP!GetNextKey,
         MembersP!FindDuplicate, MembersP!FindNoDuplicate, MembersP!AppendRecord,
         MembersP!NewRecord, MembersP!WithRecord, MembersP!HighestKey, MembersP!Keys
<1> QED
  BY <1>2, <1>3, <1>4, ImplementsInserts, PTL
     DEF ImplementsCollections, Members!Spec, MembersP!Spec

\* Only CREATE_GROUP writes to "groups"; the membership it goes on with is that
\* of the owner in the group it has written.
Creator(t) ==
    job[t].op = "create" \/ job[t].coll = "groups" =>
        /\ job[t].op = "create"
        /\ Inserting(t)
        /\ \/ job[t].coll = "groups" /\ job[t].content = UserOf[t]
           \/ /\ job[t].coll = "groupusers"
              /\ job[t].content = <<next["groups"][t], UserOf[t]>>

\* The key of a membership is computed after the memberships were looked at.
LookedFirst(t) ==
    job[t].coll = "groupusers" /\ pc[t] \in {"check", "append"} =>
        job[t].looked <= seen["groupusers"][t]

\* What the record of a group says of the command that has written it.
FromCreator(i) ==
    LET r == db["groups"][i]
    IN  /\ r.content = UserOf[r.by]
        /\ r.looked <= Len(db["groupusers"])
        /\ job[r.by].op = "create" => r.looked <= job[r.by].looked

OwnerKnown(i) ==
    LET r == db["groups"][i]
    IN  \/ <<r.key, r.content>> \in Contents("groupusers")
        \/ Creating(r.by, r.key)
        \/ \E j \in DOMAIN db["groupusers"] :
               j > r.looked /\ db["groupusers"][j].by # r.by

Owners == /\ \A t \in Threads : Creator(t) /\ LookedFirst(t)
          /\ \A i \in DOMAIN db["groups"] : FromCreator(i) /\ OwnerKnown(i)

\* What a step of thread t has to show: that it leaves t as it should be, and
\* does not give up a membership without a reason.
LEMMA OwnersStep ==
    ASSUME IInv, Owners, NEW t \in Threads, Step(t), Creator(t)', LookedFirst(t)',
           \A d \in Collections :
               /\ Len(db[d]) \in Nat /\ DOMAIN db[d] = 1..Len(db[d])
               /\ Len(db'[d]) \in Nat /\ DOMAIN db'[d] = 1..Len(db'[d])
               /\ Len(db[d]) <= Len(db'[d])
               /\ \A i \in 1..Len(db[d]) : db'[d][i] = db[d][i],
           job'[t].op = "create" =>
               \/ job'[t].looked = Len(db["groupusers"])
               \/ job[t].op = "create" /\ job'[t].looked = job[t].looked,
           \A i \in DOMAIN db["groups"] :
               db["groups"][i].by = t /\ Creating(t, db["groups"][i].key) => OwnerKnown(i)',
           \A i \in DOMAIN db'["groups"] \ DOMAIN db["groups"] :
               FromCreator(i)' /\ OwnerKnown(i)'
    PROVE  Owners'
<1>1. Typed /\ {"groups", "groupusers"} \subseteq Collections
  BY DEF IInv, Collections
<1>2. ASSUME NEW u \in Threads, u # t
      PROVE  /\ pc'[u] = pc[u] /\ job'[u] = job[u]
             /\ next'["groups"][u] = next["groups"][u]
             /\ seen'["groupusers"][u] = seen["groupusers"][u]
  BY <1>1, <1>2, StepIsLocal
<1>3. ASSUME NEW u \in Threads, u # t PROVE Creator(u)' /\ LookedFirst(u)'
  BY <1>2, <1>3 DEF Owners, Creator, LookedFirst, Inserting
<1>4. ASSUME NEW i \in DOMAIN db["groups"] PROVE FromCreator(i)' /\ OwnerKnown(i)'
  <2> DEFINE r == db["groups"][i]
  <2>1. /\ r.by \in Threads /\ r.looked \in Nat
        /\ db'["groups"][i] = r /\ i \in DOMAIN db'["groups"]
    <3> DEFINE S == Record(Content)
    <3>1. db["groups"] \in Seq(S)
      BY <1>1, FileTyped
    <3> HIDE DEF S
    <3>2. r \in S
      BY <3>1
    <3>3. i \in 1..Len(db["groups"]) /\ i \in 1..Len(db'["groups"])
      BY <1>1
    <3> QED
      BY <1>1, <3>2, <3>3 DEF S, Record
  <2>2. FromCreator(i) /\ OwnerKnown(i)
    BY DEF Owners
  <2>3. FromCreator(i)'
    <3>1. r.looked <= Len(db'["groupusers"])
      BY <1>1, <2>1, <2>2 DEF FromCreator
    <3>2. ASSUME job'[r.by].op = "create" PROVE r.looked <= job'[r.by].looked
      BY <1>1, <1>2, <2>1, <2>2, <3>2 DEF FromCreator
    <3> QED
      BY <2>1, <2>2, <3>1, <3>2 DEF FromCreator
  <2>4. OwnerKnown(i)'
    <3>1. CASE <<r.key, r.content>> \in Contents("groupusers")
      <4>1. Contents("groupusers") \subseteq Contents("groupusers")'
        BY <1>1 DEF Contents
      <4> QED
        BY <2>1, <3>1, <4>1 DEF OwnerKnown
    <3>2. CASE Creating(r.by, r.key)
      <4>1. CASE r.by = t
        BY <3>2, <4>1
      <4>2. CASE r.by # t
        <5>1. Creating(r.by, r.key)'
          BY <1>2, <2>1, <3>2, <4>2 DEF Creating
        <5> QED
          BY <2>1, <5>1 DEF OwnerKnown
      <4> QED
        BY <4>1, <4>2
    <3>3. CASE \E j \in DOMAIN db["groupusers"] :
                   j > r.looked /\ db["groupusers"][j].by # r.by
      <4>1. PICK j \in DOMAIN db["groupusers"] :
                   j > r.looked /\ db["groupusers"][j].by # r.by
        BY <3>3
      <4>2. j \in DOMAIN db'["groupusers"] /\ db'["groupusers"][j] = db["groupusers"][j]
        BY <1>1
      <4> QED
        BY <2>1, <4>1, <4>2 DEF OwnerKnown
    <3> QED
      BY <2>2, <3>1, <3>2, <3>3 DEF OwnerKnown
  <2> QED
    BY <2>3, <2>4
<1>5. \A u \in Threads : Creator(u)' /\ LookedFirst(u)'
  BY <1>3
<1>6. \A i \in DOMAIN db'["groups"] : FromCreator(i)' /\ OwnerKnown(i)'
  BY <1>4
<1> QED
  BY <1>5, <1>6 DEF Owners

\* A step that writes no record leaves the files what they are.
LEMMA SameFiles ==
    ASSUME Typed, db' = db, NEW d \in Collections
    PROVE  /\ Len(db[d]) \in Nat /\ DOMAIN db[d] = 1..Len(db[d])
           /\ Len(db'[d]) \in Nat /\ DOMAIN db'[d] = 1..Len(db'[d])
           /\ Len(db[d]) <= Len(db'[d])
           /\ \A i \in 1..Len(db[d]) : db'[d][i] = db[d][i]
BY FileTyped

\* The second insert of CREATE_GROUP fails: another thread has written the key
\* since this one computed it.
LEMMA OwnerGivenUp ==
    ASSUME IInv, MembersP!IInv, Owners, NEW t \in Threads, FindDuplicate(t),
           NEW i \in DOMAIN db["groups"], db["groups"][i].by = t,
           Creating(t, db["groups"][i].key)
    PROVE  OwnerKnown(i)'
<1> DEFINE r == db["groups"][i]
<1> DEFINE f == Lines("groupusers")
<1>1. /\ Typed /\ "groupusers" \in Collections /\ "groups" \in Collections
      /\ pc[t] = "check" /\ job[t].coll = "groupusers" /\ job[t].op = "create"
      /\ next["groupusers"][t] \in Keys("groupusers") /\ db' = db
  BY DEF IInv, FindDuplicate, Creating, Collections
<1>2. PICK j \in DOMAIN db["groupusers"] : db["groupusers"][j].key = next["groupusers"][t]
  BY <1>1 DEF Keys
<1>3. In("groupusers")[t] # "idle"
  BY <1>1 DEF In
<1>4. MembersP!PendingOf(t)
  BY <1>3 DEF MembersP!IInv, MembersP!Pending
<1>5. /\ j \in DOMAIN f /\ f[j].key = db["groupusers"][j].key
      /\ f[j].by = db["groupusers"][j].by
  BY <1>2 DEF Lines
<1>6. /\ j <= seen["groupusers"][t] => f[j].key < next["groupusers"][t]
      /\ f[j].by = t => j <= seen["groupusers"][t]
      /\ next["groupusers"][t] \in Nat
  BY <1>4, <1>5 DEF MembersP!PendingOf
<1>7. ~(j <= seen["groupusers"][t]) /\ db["groupusers"][j].by # t
  BY <1>2, <1>5, <1>6
<1>8. r.looked <= job[t].looked /\ job[t].looked <= seen["groupusers"][t]
  BY <1>1 DEF Owners, FromCreator, LookedFirst
<1>9. /\ r.looked \in Nat /\ job[t].looked \in Nat /\ seen["groupusers"][t] \in Nat
      /\ j \in Nat
  <2> DEFINE S == Record(Content)
  <2>1. db["groups"] \in Seq(S) /\ DOMAIN db["groupusers"] = 1..Len(db["groupusers"])
    BY <1>1, FileTyped
  <2> HIDE DEF S
  <2>2. db["groups"][i] \in S
    BY <2>1
  <2>3. r.looked \in Nat
    BY <2>2 DEF S, Record
  <2>4. job[t].looked \in Nat /\ seen["groupusers"][t] \in Nat
    BY <1>1 DEF Typed
  <2>5. j \in Nat
    BY <1>1, <1>2, FileTyped
  <2> QED
    BY <2>3, <2>4, <2>5
<1>10. j > r.looked
  BY <1>7, <1>8, <1>9
<1> QED
  BY <1>1, <1>7, <1>10 DEF OwnerKnown

\* What is known of the owners holds at the start, ...
LEMMA InitOwners == Init => Owners
BY DEF Init, Owners, Creator, LookedFirst, NoJob, Collections

\* ... and every step keeps it.
LEMMA NextOwners == IInv /\ MembersP!IInv /\ Owners /\ [Next]_vars => Owners'
<1> SUFFICES ASSUME IInv, MembersP!IInv, Owners, [Next]_vars PROVE Owners'
  OBVIOUS
<1>1. Typed /\ {"groups", "groupusers"} \subseteq Collections
  BY DEF IInv, Collections
<1>4. /\ DOMAIN pc = Threads /\ DOMAIN job = Threads
      /\ \A u \in Threads : job[u] \in [op : {"none", "register", "create", "join"},
                                     coll : Collections, content : Content, looked : Nat]
  BY <1>1 DEF Typed
<1>2. CASE UNCHANGED vars
  <2>1. \A t \in Threads : Creator(t)' /\ LookedFirst(t)'
    BY <1>2 DEF vars, inserts, Owners, Creator, LookedFirst, Inserting
  <2>2. \A i \in DOMAIN db'["groups"] : FromCreator(i)' /\ OwnerKnown(i)'
    <3> SUFFICES ASSUME NEW i \in DOMAIN db["groups"]
                 PROVE  FromCreator(i)' /\ OwnerKnown(i)'
      BY <1>2 DEF vars
    <3>1. db' = db /\ job' = job /\ next' = next /\ FromCreator(i) /\ OwnerKnown(i)
      BY <1>2 DEF vars, inserts, Owners
    <3>2. FromCreator(i)'
      BY <3>1 DEF FromCreator
    <3>3. OwnerKnown(i)'
      BY <3>1 DEF OwnerKnown, Creating, Contents
    <3> QED
      BY <3>2, <3>3
  <2> QED
    BY <2>1, <2>2 DEF Owners
<1>3. ASSUME NEW t \in Threads, Step(t) PROVE Owners'
  <2>1. Creator(t) /\ LookedFirst(t) /\ ThreadOK(t)
    BY DEF Owners, IInv
  <2>2. CASE \/ \E n \in Names : Register(t, n)
             \/ CreateGroup(t)
             \/ \E g \in 1..MaxGroupId : JoinGroup(t, g)
    <3>1. /\ db' = db /\ pc[t] = "idle" /\ job'[t].looked = Len(db["groupusers"])
          /\ pc'[t] \in {"name", "key", "group"}
          /\ \/ job'[t].op # "create" /\ job'[t].coll # "groups"
             \/ /\ job'[t].op = "create" /\ job'[t].coll = "groups"
                /\ job'[t].content = UserOf[t] /\ pc'[t] = "key"
      <4>1. CASE CreateGroup(t)
        BY <1>4, <4>1 DEF CreateGroup, Receive
      <4>2. CASE \E k \in Names : Register(t, k)
        BY <1>4, <4>2 DEF Register, Receive
      <4>3. CASE \E g \in 1..MaxGroupId : JoinGroup(t, g)
        BY <1>4, <4>3 DEF JoinGroup, Receive
      <4> QED
        BY <2>2, <4>1, <4>2, <4>3
    <3>2. job[t].op # "create"
      BY <2>1, <3>1 DEF Creator, Inserting
    <3>3. Creator(t)' /\ LookedFirst(t)'
      BY <3>1 DEF Creator, LookedFirst, Inserting
    <3> QED
      BY <1>1, <1>3, <3>1, <3>2, <3>3, OwnersStep, SameFiles DEF Creating
  <2>3. CASE NameTaken(t) \/ GroupNotFound(t) \/ AlreadyMember(t) \/ FindDuplicate(t)
    <3>1. /\ db' = db /\ pc'[t] = "idle" /\ job'[t].op = "none" /\ job'[t].coll = "user"
          /\ pc[t] \in {"name", "group", "member"} \/ FindDuplicate(t)
      <4>1. Finish(t) /\ db' = db
        BY <2>3 DEF NameTaken, GroupNotFound, AlreadyMember, FindDuplicate
      <4>2. pc'[t] = "idle" /\ job'[t].op = "none" /\ job'[t].coll = "user"
        BY <1>4, <4>1 DEF Finish, NoJob
      <4>3. pc[t] \in {"name", "group", "member"} \/ FindDuplicate(t)
        BY <2>3 DEF NameTaken, GroupNotFound, AlreadyMember
      <4> QED
        BY <4>1, <4>2, <4>3
    <3>2. Creator(t)' /\ LookedFirst(t)'
      BY <3>1 DEF Creator, LookedFirst
    <3>3. job[t].op = "create" => FindDuplicate(t)
      BY <2>1, <3>1 DEF Creator, Inserting
    <3>4. ASSUME NEW i \in DOMAIN db["groups"], db["groups"][i].by = t,
                 Creating(t, db["groups"][i].key)
          PROVE  OwnerKnown(i)'
      BY <3>3, <3>4, OwnerGivenUp DEF Creating
    <3> QED
      BY <1>1, <1>3, <3>1, <3>2, <3>4, OwnersStep, SameFiles
  <2>4. CASE NameFree(t) \/ NotMember(t) \/ GroupFound(t)
    <3>1. /\ db' = db /\ pc[t] \in {"name", "member", "group", "group again"}
          /\ pc'[t] \in {"key", "group again", "member"}
          /\ job'[t].op = job[t].op /\ job'[t].coll = job[t].coll
      BY <1>4, <2>4 DEF NameFree, NotMember, GroupFound
    <3>2. job[t].op # "create" /\ job[t].coll # "groups"
      BY <2>1, <3>1 DEF Creator, Inserting
    <3>3. Creator(t)' /\ LookedFirst(t)'
      BY <3>1, <3>2 DEF Creator, LookedFirst
    <3> QED
      BY <1>1, <1>3, <3>1, <3>2, <3>3, OwnersStep, SameFiles DEF Creating
  <2>5. CASE GetNextKey(t) \/ FindNoDuplicate(t)
    <3>1. /\ db' = db /\ job' = job /\ pc[t] \in {"key", "check"}
          /\ pc'[t] \in {"check", "append"}
      BY <1>1, <2>5 DEF GetNextKey, FindNoDuplicate, Typed
    <3>2. job[t].coll # "groups" => next'["groups"][t] = next["groups"][t]
      BY <1>1, <2>5 DEF GetNextKey, FindNoDuplicate, Typed
    <3>3. Creator(t)'
      BY <2>1, <3>1, <3>2 DEF Creator, Inserting
    <3>4. LookedFirst(t)'
      <4>1. CASE GetNextKey(t)
        <5>1. job[t].coll = "groupusers" =>
                  seen'["groupusers"][t] = Len(db["groupusers"])
          BY <1>1, <4>1 DEF GetNextKey, Typed
        <5> QED
          BY <2>1, <3>1, <4>1, <5>1 DEF LookedFirst, ThreadOK, LookedBefore, Inserting
      <4>2. CASE FindNoDuplicate(t)
        BY <2>1, <3>1, <4>2 DEF LookedFirst, FindNoDuplicate
      <4> QED
        BY <2>5, <4>1, <4>2
    <3>5. ASSUME NEW i \in DOMAIN db["groups"], db["groups"][i].by = t,
                 Creating(t, db["groups"][i].key)
          PROVE  OwnerKnown(i)'
      BY <3>1, <3>2, <3>5 DEF Creating, OwnerKnown
    <3> QED
      BY <1>1, <1>3, <3>1, <3>3, <3>4, <3>5, OwnersStep, SameFiles
  <2>6. CASE AppendRecord(t)
    <3>1. PICK c \in Collections : c = job[t].coll
      BY <1>1 DEF Typed
    <3>2. /\ pc[t] = "append" /\ next' = next
          /\ db' = [db EXCEPT ![c] = Append(@, NewRecord(t))]
      BY <2>6, <3>1 DEF AppendRecord, inserts
    <3>0. PICK n : n = Len(db[c])
      OBVIOUS
    <3> DEFINE r == NewRecord(t)
    <3>3. /\ n \in Nat /\ DOMAIN db[c] = 1..n /\ DOMAIN db'[c] = 1..n + 1
          /\ Len(db'[c]) = n + 1
          /\ \A i \in 1..n : db'[c][i] = db[c][i]
          /\ db'[c][n + 1] = r
          /\ \A d \in Collections : d # c => db'[d] = db[d]
      BY <1>1, <3>0, <3>2, NewRecordTyped, AppendFacts
    <3>4. /\ r.key = next[c][t] /\ r.content = job[t].content
          /\ r.by = t /\ r.looked = job[t].looked
      BY <3>1 DEF NewRecord
    <3> HIDE DEF r
    <3>5. ASSUME NEW d \in Collections
          PROVE  /\ Len(db[d]) \in Nat /\ DOMAIN db[d] = 1..Len(db[d])
                 /\ Len(db'[d]) \in Nat /\ DOMAIN db'[d] = 1..Len(db'[d])
                 /\ Len(db[d]) <= Len(db'[d])
                 /\ \A i \in 1..Len(db[d]) : db'[d][i] = db[d][i]
      <4>1. CASE d = c
        BY <3>0, <3>3, <4>1
      <4>2. CASE d # c
        BY <1>1, <3>3, <4>2, FileTyped
      <4> QED
        BY <4>1, <4>2
    <3>6. CASE c = "groups"
      <4>1. /\ pc'[t] = "key" /\ job'[t].op = job[t].op /\ job'[t].coll = "groupusers"
            /\ job'[t].content = <<next["groups"][t], UserOf[t]>>
            /\ job'[t].looked = job[t].looked
        BY <1>4, <2>6, <3>1, <3>6 DEF AppendRecord, AfterAppend
      <4>2. job[t].op = "create" /\ job[t].content = UserOf[t]
        BY <2>1, <3>1, <3>6 DEF Creator
      <4>3. Creator(t)' /\ LookedFirst(t)'
        BY <3>2, <4>1, <4>2 DEF Creator, LookedFirst, Inserting
      <4>4. \A k : ~Creating(t, k)
        BY <3>1, <3>6 DEF Creating
      <4>5. DOMAIN db'["groups"] \ DOMAIN db["groups"] = {n + 1} /\ db'["groups"][n + 1] = r
        BY <3>3, <3>6
      <4>6. job[t].looked <= Len(db["groupusers"]) /\ db'["groupusers"] = db["groupusers"]
        BY <1>1, <2>1, <3>1, <3>2, <3>3, <3>6 DEF ThreadOK, LookedBefore, Inserting
      <4>7. job[t].looked \in Nat
        BY <1>1 DEF Typed
      <4>8. FromCreator(n + 1)'
        BY <3>4, <4>1, <4>2, <4>5, <4>6, <4>7 DEF FromCreator
      <4>9. OwnerKnown(n + 1)'
        BY <3>2, <3>4, <3>6, <4>1, <4>2, <4>5 DEF OwnerKnown, Creating
      <4> QED
        BY <1>3, <3>5, <4>1, <4>2, <4>3, <4>4, <4>5, <4>8, <4>9, OwnersStep
    <3>7. CASE c # "groups"
      <4>1. pc'[t] = "idle" /\ job'[t].op = "none" /\ job'[t].coll = "user"
        BY <1>4, <2>6, <3>1, <3>7 DEF AppendRecord, AfterAppend, Finish, NoJob
      <4>2. Creator(t)' /\ LookedFirst(t)'
        BY <4>1 DEF Creator, LookedFirst
      <4>3. db'["groups"] = db["groups"]
        BY <1>1, <3>3, <3>7
      <4>4. ASSUME NEW i \in DOMAIN db["groups"], db["groups"][i].by = t,
                   Creating(t, db["groups"][i].key)
            PROVE  OwnerKnown(i)'
        <5>1. c = "groupusers" /\ job[t].op = "create"
          BY <3>1, <4>4 DEF Creating
        <5>2. job[t].content = <<next["groups"][t], UserOf[t]>>
          BY <2>1, <3>1, <5>1 DEF Creator
        <5>3. db["groups"][i].content = UserOf[t] /\ db["groups"][i].key = next["groups"][t]
          BY <4>4 DEF Owners, FromCreator, Creating
        <5>4. r.content \in Contents("groupusers")'
          <6>1. n + 1 \in DOMAIN db'["groupusers"] /\ db'["groupusers"][n + 1] = r
            BY <3>3, <5>1
          <6> QED
            BY <6>1 DEF Contents
        <5> QED
          BY <3>4, <4>3, <5>2, <5>3, <5>4 DEF OwnerKnown
      <4> QED
        BY <1>3, <3>5, <4>1, <4>2, <4>3, <4>4, OwnersStep
    <3> QED
      BY <3>6, <3>7
  <2> QED
    BY <1>3, <2>2, <2>3, <2>4, <2>5, <2>6 DEF Step
<1> QED
  BY <1>2, <1>3 DEF Next

\* A group lacks its owner only if another thread has written a membership since
\* the command came.
THEOREM OwnersOverlap == Spec => []OwnerMissingNeedsOverlap
<1>1. Owners => OwnerMissingNeedsOverlap
  BY DEF Owners, OwnerKnown, OwnerMissingNeedsOverlap
<1> QED
  BY <1>1, Inductive, MembersInductive, InitOwners, NextOwners, PTL DEF Spec

-----------------------------------------------------------------------------
(***************************************************************************)
(* Login: what becomes of the accounts that are registered                 *)
(***************************************************************************)
\* What is proved of the session table, whose clients switch accounts here.
Table == INSTANCE SessionManagerProofs WITH Users <- Usernames

-----------------------------------------------------------------------------
(***************************************************************************)
(* Types of Login                                                          *)
(***************************************************************************)
Words == Passwords \cup {"LOGIN", "REGISTER"}

RequestType == [kind : {"LOGIN", "REGISTER"}, id : Nat \ {0}, user : Usernames,
                password : Seq(Words) \ {<<>>}]

ReplyType == [what : {"LOGIN_SUCCESS", "LOGIN_FAIL", "REGISTER_SUCCESS", "REGISTER_FAIL"},
              id : Nat \ {0}, user : Usernames \cup {NoUser}]

Pushed == [what |-> "RECEIVE", id |-> 0, user |-> NoUser]

LineType == ReplyType \cup {Pushed}

AppType == [fd : Sockets \cup {NoSocket}, screen : {"LOGIN", "REGISTER", "CHAT"},
            current_user_id : Usernames \cup {NoUser}, ask : RequestType \cup {NoRequest},
            slot : LineType \cup {NoLine}, typed : SUBSET (Usernames \X Passwords)]

LoginTyped ==
    /\ sessions \in Seq(SM!UserSession)
    /\ conn \in [Sockets -> {"closed", "open", "removed"}]
    /\ accounts \in [Usernames -> Seq(Words)]
    /\ serving \in [Sockets -> ReplyType \cup {NoLine}]
    /\ up \in [Sockets -> Seq(RequestType)]
    /\ down \in [Sockets -> Seq(LineType)]
    /\ app \in [Clients -> AppType]
    /\ requests \in Nat

\* r is what is left of w after n of its elements were taken from the front.
Taken(w, n, r) == r = SubSeq(w, n + 1, Len(w))

\* It is shorter by n, and its elements are those that come n places later in w.
LEMMA TailFacts ==
    ASSUME NEW S, NEW w \in Seq(S), NEW n \in DOMAIN w, NEW r, Taken(w, n, r)
    PROVE  /\ r \in Seq(S) /\ Len(r) = Len(w) - n
           /\ \A i \in DOMAIN r : r[i] = w[i + n] /\ i + n \in DOMAIN w
           /\ \A i \in DOMAIN w : i > n => i - n \in DOMAIN r
           /\ n \in Nat \ {0} /\ Len(w) \in Nat /\ n <= Len(w)
           /\ 1 \in DOMAIN w /\ Head(w) = w[1] /\ w[1] \in S
<1>1. n \in 1..Len(w) /\ Len(w) \in Nat /\ DOMAIN w = 1..Len(w)
  OBVIOUS
<1>2. r \in Seq(S) /\ Len(r) = Len(w) - n
  BY <1>1 DEF Taken
<1>3. \A i \in 1..Len(w) - n : r[i] = w[i + n]
  BY <1>1 DEF Taken
<1>4. DOMAIN r = 1..Len(w) - n
  BY <1>1, <1>2
<1>5. \A i \in 1..Len(w) - n : i + n \in 1..Len(w)
  BY <1>1
<1>6. \A i \in 1..Len(w) : i > n => i - n \in 1..Len(w) - n
  BY <1>1
<1>7. 1 \in DOMAIN w /\ Head(w) = w[1] /\ w[1] \in S
  BY <1>1
<1>8. \A i \in DOMAIN r : r[i] = w[i + n] /\ i + n \in DOMAIN w
  BY <1>1, <1>3, <1>4, <1>5
<1>9. \A i \in DOMAIN w : i > n => i - n \in DOMAIN r
  BY <1>1, <1>4, <1>6
<1> QED
  BY <1>1, <1>2, <1>7, <1>8, <1>9

\* A line or a request at the end of a sequence.
LEMMA AppendedFacts ==
    ASSUME NEW S, NEW w \in Seq(S), NEW e \in S
    PROVE  /\ Append(w, e) \in Seq(S)
           /\ DOMAIN Append(w, e) = DOMAIN w \cup {Len(w) + 1}
           /\ \A i \in DOMAIN w : Append(w, e)[i] = w[i] /\ i # Len(w) + 1
           /\ Append(w, e)[Len(w) + 1] = e
OBVIOUS

\* The lines and requests that stand for none are none of the others.
LEMMA NoneFacts ==
    /\ NoLine \notin LineType /\ NoLine.id = 0 /\ NoLine.what = "none"
    /\ NoRequest \notin RequestType /\ NoRequest.kind = "none" /\ NoRequest.id = 0
    /\ \A line \in ReplyType : line \in LineType /\ line.id # 0 /\ line.id \in Nat
    /\ \A line \in LineType : line.what # "none" /\ line # NoLine
    /\ \A r \in RequestType : r.id # 0 /\ r # NoRequest /\ r.id \in Nat
    /\ Pushed \in LineType /\ Pushed.id = 0 /\ Pushed.what = "RECEIVE"
    /\ [NoLine EXCEPT !.what = "RECEIVE"] = Pushed
BY DEF NoLine, NoRequest, LineType, ReplyType, RequestType, Pushed

\* A process that does not run, and one just started.
LEMMA OffFacts ==
    /\ Off \in AppType /\ Off.fd = NoSocket /\ Off.screen = "LOGIN"
    /\ Off.ask = NoRequest /\ Off.slot = NoLine
    /\ \A fd \in Sockets : /\ Fresh(fd) \in AppType /\ Fresh(fd).fd = fd
                           /\ Fresh(fd).screen = "LOGIN" /\ Fresh(fd).typed = {}
                           /\ Fresh(fd).ask = NoRequest /\ Fresh(fd).slot = NoLine
BY DEF Off, Fresh, AppType

\* What the handler reads is a request of the first user, whose password begins as
\* the first one's.
LEMMA UnderstoodFacts ==
    ASSUME NEW q \in Seq(RequestType), NEW n \in DOMAIN q
    PROVE  /\ Understood(q, n) \in RequestType
           /\ Understood(q, n).kind = q[1].kind /\ Understood(q, n).user = q[1].user
           /\ Head(Understood(q, n).password) = Head(q[1].password)
           /\ n = 1 => Understood(q, n) = q[1]
<1>1. 1 \in DOMAIN q /\ q[1] \in RequestType
  OBVIOUS
<1>2. CASE n = 1
  BY <1>1, <1>2 DEF Understood
<1>3. CASE n # 1
  <2>1. 2 \in DOMAIN q /\ q[2] \in RequestType /\ q[2].kind \in Words
    <3>1. 2 \in DOMAIN q /\ q[2] \in RequestType
      BY <1>3
    <3>2. q[2].kind \in {"LOGIN", "REGISTER"}
      BY <3>1 DEF RequestType
    <3> QED
      BY <3>1, <3>2 DEF Words
  <2>2. PICK p \in Seq(Words) : p # <<>> /\ p = q[1].password
    BY <1>1 DEF RequestType
  <2>3. PICK x \in Words : x = q[2].kind
    BY <2>1
  <2>4. Append(p, x) \in Seq(Words) /\ Append(p, x) # <<>> /\ Head(Append(p, x)) = Head(p)
    BY <2>2
  <2>5. Understood(q, n) = [q[1] EXCEPT !.password = Append(p, x)]
    BY <1>1, <1>3, <2>2, <2>3 DEF Understood, RequestType
  <2> QED
    BY <1>1, <1>3, <2>2, <2>4, <2>5 DEF RequestType
<1> QED
  BY <1>2, <1>3

-----------------------------------------------------------------------------
(***************************************************************************)
(* The table, as the connections of Login use it                           *)
(***************************************************************************)
NoEntry(s, fd) == \A i \in DOMAIN s : s[i].socket_fd # fd
Named(s, fd, u) == \A i \in DOMAIN s : s[i].socket_fd = fd => s[i].userId = u
OneEach(s) == \A i, j \in DOMAIN s : s[i].socket_fd = s[j].socket_fd => i = j

\* The entries of fd in t are entries of fd in s.
Shrinks(s, t, fd) ==
    \A i \in DOMAIN t : t[i].socket_fd = fd =>
        \E j \in DOMAIN s : s[j].socket_fd = fd /\ s[j].userId = t[i].userId

\* The two instances of SessionManager have the same operations.
LEMMA SameAdd ==
    /\ SM!UserSession = Table!UserSession
    /\ \A s, u, fd : SM!Add(s, u, fd) = Table!Add(s, u, fd)
    /\ \A s, fd : SM!RemoveBySocket(s, fd) = Table!RemoveBySocket(s, fd)
BY DEF SM!UserSession, SM!Add, SM!RemoveBySocket, SM!OfUser, SM!OfSocket, SM!First,
   SM!NewSession, Table!UserSession, Table!Add, Table!RemoveBySocket, Table!OfUser,
   Table!OfSocket, Table!First, Table!NewSession

\* A login on a connection without an entry: the connection has at most one entry
\* then, of the user who logs in; that user's entry on another connection may have
\* moved here, and nothing else changes.
LEMMA LoginTable ==
    ASSUME NEW s \in Seq(SM!UserSession), NEW u \in Usernames, NEW fd \in Sockets
    PROVE  /\ SM!Add(s, u, fd) \in Seq(SM!UserSession)
           /\ NoEntry(s, fd) =>
                /\ Named(SM!Add(s, u, fd), fd, u)
                /\ \A f \in Sockets \ {fd} : Shrinks(s, SM!Add(s, u, fd), f)
                /\ OneEach(s) => OneEach(SM!Add(s, u, fd))
                /\ \A i \in DOMAIN SM!Add(s, u, fd) :
                      \/ SM!Add(s, u, fd)[i].socket_fd = fd
                      \/ \E j \in DOMAIN s : SM!Add(s, u, fd)[i].socket_fd = s[j].socket_fd
<1>1. Table!SessionAssumption
  BY LoginAssumption DEF Table!SessionAssumption
<1>2. PICK r : r = SM!Add(s, u, fd) /\ r = Table!Add(s, u, fd)
  BY SameAdd
<1>3. s \in Seq(Table!UserSession)
  BY SameAdd
<1>4. CASE ~(Len(s) < MaxSessions)
  <2>1. r = s
    BY <1>1, <1>2, <1>3, <1>4, Table!FullFacts
  <2> QED
    BY <1>2, <2>1 DEF NoEntry, Named, Shrinks, OneEach
<1>5. CASE Len(s) < MaxSessions /\ Table!OfUser(s, u) \cup Table!OfSocket(s, fd) # {}
  <2>1. PICK k \in DOMAIN s :
             /\ s[k].userId = u \/ s[k].socket_fd = fd
             /\ r \in Seq(Table!UserSession)
             /\ Len(r) = Len(s)
             /\ \A i \in DOMAIN s : r[i].userId = s[i].userId
             /\ \A i \in DOMAIN s \ {k} : r[i] = s[i]
             /\ r[k].socket_fd = fd
    BY <1>1, <1>2, <1>3, <1>5, Table!UpdateFacts
  <2>2. r \in Seq(SM!UserSession) /\ DOMAIN r = DOMAIN s
    BY <2>1, SameAdd
  <2>3. ASSUME NoEntry(s, fd)
        PROVE  /\ Named(r, fd, u)
               /\ \A f \in Sockets \ {fd} : Shrinks(s, r, f)
               /\ OneEach(s) => OneEach(r)
               /\ \A i \in DOMAIN r : \/ r[i].socket_fd = fd
                                      \/ \E j \in DOMAIN s : r[i].socket_fd = s[j].socket_fd
    <3>1. s[k].userId = u /\ \A i \in DOMAIN s : s[i].socket_fd # fd
      BY <2>1, <2>3 DEF NoEntry
    <3>2. Named(r, fd, u)
      BY <2>1, <2>2, <3>1 DEF Named
    <3>3. \A f \in Sockets \ {fd} : Shrinks(s, r, f)
      BY <2>1, <2>2, <3>1 DEF Shrinks
    <3>4. OneEach(s) => OneEach(r)
      BY <2>1, <2>2, <3>1 DEF OneEach
    <3> QED
      BY <2>1, <2>2, <3>2, <3>3, <3>4
  <2> QED
    BY <1>2, <2>2, <2>3
<1>6. CASE Len(s) < MaxSessions /\ Table!OfUser(s, u) \cup Table!OfSocket(s, fd) = {}
  <2>1. /\ r \in Seq(Table!UserSession)
        /\ Len(r) = Len(s) + 1
        /\ \A i \in DOMAIN s : r[i] = s[i]
        /\ r[Len(s) + 1].userId = u
        /\ r[Len(s) + 1].socket_fd = fd
        /\ \A i \in DOMAIN s : s[i].userId # u /\ s[i].socket_fd # fd
    BY <1>1, <1>2, <1>3, <1>6, Table!AppendFacts
  <2>2. r \in Seq(SM!UserSession) /\ DOMAIN r = DOMAIN s \cup {Len(s) + 1}
    BY <2>1, SameAdd
  <2>3. Named(r, fd, u)
    BY <2>1, <2>2 DEF Named
  <2>4. \A f \in Sockets \ {fd} : Shrinks(s, r, f)
    BY <2>1, <2>2 DEF Shrinks
  <2>5. OneEach(s) => OneEach(r)
    BY <2>1, <2>2 DEF OneEach
  <2> QED
    BY <1>2, <2>1, <2>2, <2>3, <2>4, <2>5
<1> QED
  BY <1>4, <1>5, <1>6

\* The end of a connection: where no connection has two entries, all of its go and
\* no other.
LEMMA RemoveTable ==
    ASSUME NEW s \in Seq(SM!UserSession), NEW fd
    PROVE  /\ SM!RemoveBySocket(s, fd) \in Seq(SM!UserSession)
           /\ OneEach(s) =>
                /\ OneEach(SM!RemoveBySocket(s, fd))
                /\ NoEntry(SM!RemoveBySocket(s, fd), fd)
                /\ \A i \in DOMAIN SM!RemoveBySocket(s, fd) :
                      \E j \in DOMAIN s : SM!RemoveBySocket(s, fd)[i] = s[j]
<1>1. Table!SessionAssumption
  BY LoginAssumption DEF Table!SessionAssumption
<1>2. PICK r : r = SM!RemoveBySocket(s, fd) /\ r = Table!RemoveBySocket(s, fd)
  BY SameAdd
<1>3. s \in Seq(Table!UserSession)
  BY SameAdd
<1>4. CASE Table!OfSocket(s, fd) = {}
  <2>1. r = s /\ NoEntry(s, fd)
    BY <1>2, <1>4 DEF Table!RemoveBySocket, Table!OfSocket, NoEntry
  <2> QED
    BY <1>2, <2>1
<1>5. CASE Table!OfSocket(s, fd) # {}
  <2>1. PICK k \in DOMAIN s :
             /\ s[k].socket_fd = fd
             /\ r \in Seq(Table!UserSession)
             /\ Len(r) = Len(s) - 1
             /\ \A i \in 1..Len(s) - 1 : r[i] = s[IF i = k THEN Len(s) ELSE i]
    BY <1>1, <1>2, <1>3, <1>5, Table!RemoveFacts
  <2>2. PICK n \in Nat : n = Len(s)
    OBVIOUS
  <2>3. /\ r \in Seq(SM!UserSession) /\ DOMAIN r = 1..n - 1 /\ DOMAIN s = 1..n
        /\ \A i \in 1..n - 1 : \/ i = k /\ r[i] = s[n]
                               \/ i # k /\ r[i] = s[i]
        /\ k \in 1..n
    BY <2>1, <2>2, SameAdd
  <2>4. \A i \in 1..n - 1 : i \in 1..n /\ n \in 1..n /\ i # n
    BY <2>2
  <2>5. \A i \in 1..n - 1 : \E j \in 1..n \ {k} : r[i] = s[j]
    BY <2>3, <2>4
  <2>6. ASSUME OneEach(s)
        PROVE  NoEntry(r, fd) /\ OneEach(r)
    <3>1. \A j \in 1..n \ {k} : s[j].socket_fd # fd
      BY <2>1, <2>3, <2>6 DEF OneEach
    <3>2. NoEntry(r, fd)
      BY <2>3, <2>5, <3>1 DEF NoEntry
    <3>3. OneEach(r)
      <4> SUFFICES ASSUME NEW i \in 1..n - 1, NEW j \in 1..n - 1,
                          r[i].socket_fd = r[j].socket_fd
                   PROVE  i = j
        BY <2>3 DEF OneEach
      <4> QED
        BY <2>3, <2>4, <2>6 DEF OneEach
    <3> QED
      BY <3>2, <3>3
  <2> QED
    BY <1>2, <2>3, <2>5, <2>6
<1> QED
  BY <1>4, <1>5

-----------------------------------------------------------------------------
(***************************************************************************)
(* What each step of Login does, component by component                    *)
(***************************************************************************)
\* Only client c, only the queues of connection fd, only its handler.
OnlyApp(c) == /\ app' \in [Clients -> AppType]
              /\ \A d \in Clients \ {c} : app'[d] = app[d]
OnlyUp(fd) == /\ up' \in [Sockets -> Seq(RequestType)]
              /\ \A f \in Sockets \ {fd} : up'[f] = up[f]
OnlyDown(fd) == /\ down' \in [Sockets -> Seq(LineType)]
                /\ \A f \in Sockets \ {fd} : down'[f] = down[f]
OnlyServing(fd) == /\ serving' \in [Sockets -> ReplyType \cup {NoLine}]
                   /\ \A f \in Sockets \ {fd} : serving'[f] = serving[f]
OnlyConn(fd, state) == /\ conn' \in [Sockets -> {"closed", "open", "removed"}]
                       /\ conn'[fd] = state
                       /\ \A f \in Sockets \ {fd} : conn'[f] = conn[f]

\* A client starts: its connection is a free one, both directions are empty.
LEMMA StartFacts ==
    ASSUME LoginTyped, NEW c \in Clients, NEW fd \in Sockets, Start(c, fd)
    PROVE  /\ app[c].fd = NoSocket /\ OnlyApp(c) /\ app'[c] = Fresh(fd)
           /\ conn[fd] = "closed" /\ OnlyConn(fd, "open")
           /\ OnlyUp(fd) /\ up'[fd] = <<>>
           /\ OnlyDown(fd) /\ down'[fd] = <<>>
           /\ UNCHANGED <<sessions, accounts, serving, lost, requests>>
<1>1. OnlyApp(c) /\ app'[c] = Fresh(fd)
  BY OffFacts DEF Start, LoginTyped, OnlyApp
<1>2. conn[fd] = "closed" /\ OnlyConn(fd, "open")
  BY DEF Start, SM!Accept, LoginTyped, OnlyConn
<1>3. OnlyUp(fd) /\ up'[fd] = <<>> /\ OnlyDown(fd) /\ down'[fd] = <<>>
  <2> HIDE DEF RequestType, LineType
  <2>1. <<>> \in Seq(RequestType) /\ <<>> \in Seq(LineType)
    OBVIOUS
  <2> QED
    BY <2>1 DEF Start, LoginTyped, OnlyUp, OnlyDown
<1> QED
  BY <1>1, <1>2, <1>3 DEF Start, Running, SM!Accept

\* Two records of a client that differ in the named fields at most.
SameBut(a, b, fields) ==
    /\ b.fd = a.fd
    /\ "screen" \in fields \/ b.screen = a.screen
    /\ "current_user_id" \in fields \/ b.current_user_id = a.current_user_id
    /\ "ask" \in fields \/ b.ask = a.ask
    /\ "slot" \in fields \/ b.slot = a.slot
    /\ "typed" \in fields \/ b.typed = a.typed

\* A change of a client that keeps its connection.
LEMMA ExceptApp ==
    ASSUME LoginTyped, NEW c \in Clients, NEW a \in AppType, app' = [app EXCEPT ![c] = a]
    PROVE  OnlyApp(c) /\ app'[c] = a
BY DEF LoginTyped, OnlyApp

\* A button that changes the screen.
LEMMA SwitchFacts ==
    ASSUME LoginTyped, NEW c \in Clients, NEW to \in {"LOGIN", "REGISTER"}, SwitchScreen(c, to)
    PROVE  /\ Running(c) /\ app[c].ask = NoRequest /\ app[c].screen # "CHAT"
           /\ OnlyApp(c) /\ SameBut(app[c], app'[c], {"screen"})
           /\ UNCHANGED <<sessions, conn, accounts, up, down, serving, lost, requests>>
<1> PICK a \in AppType : a = app[c]
  BY DEF LoginTyped
<1> PICK b : b = [a EXCEPT !.screen = to]
  OBVIOUS
<1>1. b \in AppType /\ SameBut(a, b, {"screen"})
  BY DEF AppType, SameBut
<1>2. app' = [app EXCEPT ![c] = b]
  BY DEF SwitchScreen
<1> QED
  BY <1>1, <1>2, ExceptApp DEF SwitchScreen, server, counters

\* The Login or the Register button: the request is sent, and a login is typed.
LEMMA PressFacts ==
    ASSUME LoginTyped, NEW c \in Clients, NEW u \in Usernames, NEW p \in Passwords, Press(c, u, p)
    PROVE  /\ Running(c) /\ app[c].ask = NoRequest /\ app[c].screen \in {"LOGIN", "REGISTER"}
           /\ app[c].fd \in Sockets
           /\ \E r \in RequestType, T \in SUBSET (Usernames \X Passwords) :
                 /\ r.kind = app[c].screen /\ r.user = u /\ Head(r.password) = p
                 /\ T = IF app[c].screen = "LOGIN" THEN app[c].typed \cup {<<u, p>>}
                        ELSE app[c].typed
                 /\ OnlyApp(c)
                 /\ SameBut(app[c], app'[c], {"ask", "slot", "typed"})
                 /\ app'[c].ask = r /\ app'[c].slot = NoLine /\ app'[c].typed = T
                 /\ OnlyUp(app[c].fd)
                 /\ up'[app[c].fd] = Append(up[app[c].fd], r)
           /\ requests' = requests + 1
           /\ UNCHANGED <<sessions, conn, accounts, down, serving, lost>>
<1> PICK a \in AppType : a = app[c]
  BY DEF LoginTyped
<1>1. /\ Running(c) /\ a.ask = NoRequest /\ a.screen \in {"LOGIN", "REGISTER"}
      /\ a.fd \in Sockets
  BY DEF Press, Running, AppType
<1>2. PICK r : r = [kind |-> a.screen, id |-> requests + 1, user |-> u, password |-> <<p>>]
  OBVIOUS
<1>3. r \in RequestType
  <2>1. <<p>> \in Seq(Words) \ {<<>>}
    BY DEF Words
  <2>2. requests + 1 \in Nat \ {0}
    BY DEF LoginTyped
  <2> QED
    BY <1>1, <1>2, <2>1, <2>2 DEF RequestType
<1>4. r.kind = a.screen /\ r.user = u /\ Head(r.password) = p
  BY <1>2
<1>5. PICK T : T = IF a.screen = "LOGIN" THEN a.typed \cup {<<u, p>>} ELSE a.typed
  OBVIOUS
<1>6. T \in SUBSET (Usernames \X Passwords)
  BY <1>5 DEF AppType
<1> PICK b : b = [a EXCEPT !.ask = r, !.slot = NoLine, !.typed = T]
  OBVIOUS
<1>7. /\ b \in AppType /\ SameBut(a, b, {"ask", "slot", "typed"})
      /\ b.ask = r /\ b.slot = NoLine /\ b.typed = T
  BY <1>3, <1>6 DEF AppType, SameBut
<1>8. app' = [app EXCEPT ![c] = b]
  <2>1. app' = [app EXCEPT ![c].ask = r, ![c].slot = NoLine,
                           ![c].typed = IF a.screen = "LOGIN"
                                        THEN @ \cup {<<u, p>>} ELSE @]
    BY <1>2 DEF Press
  <2> QED
    BY <1>5, <2>1 DEF LoginTyped, AppType
<1>9. OnlyUp(a.fd) /\ up'[a.fd] = Append(up[a.fd], r)
  <2>1. up' = [up EXCEPT ![a.fd] = Append(@, r)]
    BY <1>2 DEF Press
  <2>2. Append(up[a.fd], r) \in Seq(RequestType)
    BY <1>1, <1>3, AppendedFacts DEF LoginTyped
  <2> QED
    BY <1>1, <2>1, <2>2 DEF LoginTyped, OnlyUp
<1>10. OnlyApp(c) /\ app'[c] = b
  BY <1>7, <1>8, ExceptApp
<1>11. /\ requests' = requests + 1
       /\ UNCHANGED <<sessions, conn, accounts, down, serving, lost>>
  BY DEF Press, server
<1>12. /\ r.kind = a.screen /\ r.user = u /\ Head(r.password) = p
       /\ T = IF a.screen = "LOGIN" THEN a.typed \cup {<<u, p>>} ELSE a.typed
       /\ OnlyApp(c)
       /\ SameBut(a, app'[c], {"ask", "slot", "typed"})
       /\ app'[c].ask = r /\ app'[c].slot = NoLine /\ app'[c].typed = T
       /\ OnlyUp(a.fd)
       /\ up'[a.fd] = Append(up[a.fd], r)
  BY <1>5, <1>7, <1>9, <1>10, <1>4
<1> QED
  BY <1>1, <1>3, <1>6, <1>11, <1>12

\* The listener takes lines, of which the slot gets the first.
LEMMA ListenFacts ==
    ASSUME LoginTyped, NEW c \in Clients, Listen(c)
    PROVE  /\ Running(c) /\ app[c].fd \in Sockets /\ OnlyApp(c) /\ OnlyDown(app[c].fd)
           /\ \E n \in DOMAIN down[app[c].fd] :
                 /\ Taken(down[app[c].fd], n, down'[app[c].fd])
                 /\ \/ app'[c] = app[c] /\ app[c].screen = "CHAT"
                    \/ /\ SameBut(app[c], app'[c], {"slot"})
                       /\ app'[c].slot = down[app[c].fd][1]
           /\ UNCHANGED <<sessions, conn, accounts, up, serving, lost, requests>>
<1> PICK a \in AppType : a = app[c]
  BY DEF LoginTyped
<1>1. Running(c) /\ a.fd \in Sockets
  BY DEF Listen, Running, AppType
<1> PICK w \in Seq(LineType) : w = down[a.fd]
  BY <1>1 DEF LoginTyped
<1>2. PICK n \in DOMAIN w :
         /\ down' = [down EXCEPT ![a.fd] = SubSeq(w, n + 1, Len(w))]
         /\ app' = IF a.screen = "CHAT" /\ Head(w).what = "RECEIVE"
                   THEN app ELSE [app EXCEPT ![c].slot = Head(w)]
  BY DEF Listen
<1> PICK r : Taken(w, n, r)
  BY DEF Taken
<1>3. r \in Seq(LineType) /\ Head(w) = w[1] /\ w[1] \in LineType
  BY TailFacts
<1>4. OnlyDown(a.fd) /\ Taken(w, n, down'[a.fd])
  <2>1. down' = [down EXCEPT ![a.fd] = r]
    BY <1>2 DEF Taken
  <2> QED
    BY <1>1, <1>3, <2>1 DEF LoginTyped, OnlyDown
<1> PICK b : b = [a EXCEPT !.slot = w[1]]
  OBVIOUS
<1>5. b \in AppType /\ SameBut(a, b, {"slot"}) /\ b.slot = w[1]
  BY <1>3 DEF AppType, SameBut
<1>6. OnlyApp(c) /\ \/ app'[c] = a /\ a.screen = "CHAT"
                    \/ app'[c] = b
  <2>1. CASE a.screen = "CHAT" /\ Head(w).what = "RECEIVE"
    BY <1>2, <2>1 DEF LoginTyped, OnlyApp
  <2>2. CASE ~(a.screen = "CHAT" /\ Head(w).what = "RECEIVE")
    <3>1. app' = [app EXCEPT ![c] = b]
      BY <1>2, <1>3, <2>2
    <3> QED
      BY <1>5, <3>1, ExceptApp
  <2> QED
    BY <2>1, <2>2
<1> QED
  BY <1>1, <1>4, <1>5, <1>6 DEF Listen, server, counters

\* A poll that finds a line ends the request.
LEMMA PollFacts ==
    ASSUME LoginTyped, NEW c \in Clients, Poll(c)
    PROVE  /\ app[c].ask # NoRequest /\ app[c].slot # NoLine
           /\ OnlyApp(c) /\ SameBut(app[c], app'[c], {"screen", "current_user_id", "ask"})
           /\ app'[c].ask = NoRequest
           /\ \/ /\ app[c].ask.kind = "LOGIN" /\ app[c].slot.what = "LOGIN_SUCCESS"
                 /\ app'[c].screen = "CHAT" /\ app'[c].current_user_id = app[c].slot.user
              \/ /\ ~(app[c].ask.kind = "LOGIN" /\ app[c].slot.what = "LOGIN_SUCCESS")
                 /\ app'[c].screen \in {"LOGIN", app[c].screen}
           /\ lost' = (lost \/ app[c].slot.id # app[c].ask.id)
           /\ UNCHANGED <<sessions, conn, accounts, up, down, serving, requests>>
<1> PICK a \in AppType : a = app[c]
  BY DEF LoginTyped
<1> PICK b : b = Answered(a)
  OBVIOUS
<1>1. b \in AppType
  <2>1. NoRequest \in RequestType \cup {NoRequest}
    OBVIOUS
  <2>2. a.slot.what = "LOGIN_SUCCESS" => a.slot.user \in Usernames \cup {NoUser}
    BY NoneFacts DEF AppType, LineType, ReplyType, Pushed
  <2> QED
    BY <2>1, <2>2 DEF Answered, AppType
<1>2. app' = [app EXCEPT ![c] = b]
  BY DEF Poll
<1>3. /\ SameBut(a, b, {"screen", "current_user_id", "ask"}) /\ b.ask = NoRequest
      /\ \/ /\ a.ask.kind = "LOGIN" /\ a.slot.what = "LOGIN_SUCCESS"
            /\ b.screen = "CHAT" /\ b.current_user_id = a.slot.user
         \/ /\ ~(a.ask.kind = "LOGIN" /\ a.slot.what = "LOGIN_SUCCESS")
            /\ b.screen \in {"LOGIN", a.screen}
  BY DEF Answered, AppType, SameBut
<1> QED
  BY <1>1, <1>2, <1>3, ExceptApp DEF Poll, server, counters

\* The last poll ends it without one.
LEMMA TimeOutFacts ==
    ASSUME LoginTyped, NEW c \in Clients, TimeOut(c)
    PROVE  /\ app[c].ask # NoRequest
           /\ OnlyApp(c) /\ SameBut(app[c], app'[c], {"ask"}) /\ app'[c].ask = NoRequest
           /\ lost' = TRUE
           /\ UNCHANGED <<sessions, conn, accounts, up, down, serving, requests>>
<1> PICK a \in AppType : a = app[c]
  BY DEF LoginTyped
<1> PICK b : b = [a EXCEPT !.ask = NoRequest]
  OBVIOUS
<1>1. b \in AppType /\ SameBut(a, b, {"ask"}) /\ b.ask = NoRequest
  BY DEF AppType, SameBut
<1>2. app' = [app EXCEPT ![c] = b]
  BY DEF TimeOut
<1> QED
  BY <1>1, <1>2, ExceptApp DEF TimeOut, server, counters

\* A client ends.
LEMMA QuitFacts ==
    ASSUME LoginTyped, NEW c \in Clients, Quit(c)
    PROVE  /\ Running(c) /\ app[c].ask = NoRequest
           /\ OnlyApp(c) /\ app'[c] = Off
           /\ UNCHANGED <<sessions, conn, accounts, up, down, serving, lost, requests>>
BY OffFacts, ExceptApp DEF Quit, server, counters

\* The handler reads requests, serves what they amount to and prepares its reply.
LEMMA ServeFacts ==
    ASSUME LoginTyped, NEW fd \in Sockets, Serve(fd)
    PROVE  /\ conn[fd] = "open" /\ serving[fd] = NoLine
           /\ \E n \in DOMAIN up[fd], r \in RequestType, y \in ReplyType :
                 /\ r = Understood(up[fd], n)
                 /\ OnlyUp(fd) /\ Taken(up[fd], n, up'[fd])
                 /\ OnlyServing(fd) /\ serving'[fd] = y /\ y.id = r.id
                 /\ \/ /\ r.kind = "LOGIN" /\ accounts[r.user] = r.password
                       /\ sessions' = SM!Add(sessions, r.user, fd)
                       /\ y.what = "LOGIN_SUCCESS" /\ y.user = r.user
                       /\ UNCHANGED accounts
                    \/ /\ y.what # "LOGIN_SUCCESS"
                       /\ UNCHANGED <<sessions, accounts>>
                    \/ /\ y.what # "LOGIN_SUCCESS" /\ accounts[r.user] = <<>>
                       /\ \A v \in Usernames \ {r.user} : accounts'[v] = accounts[v]
                       /\ UNCHANGED sessions
           /\ sessions' \in Seq(SM!UserSession)
           /\ accounts' \in [Usernames -> Seq(Words)]
           /\ UNCHANGED <<conn, down, app, lost, requests>>
<1> PICK q \in Seq(RequestType) : q = up[fd]
  BY DEF LoginTyped
<1>1. PICK n \in DOMAIN q :
         /\ up' = [up EXCEPT ![fd] = SubSeq(q, n + 1, Len(q))]
         /\ ServeLogin(fd, Understood(q, n)) \/ ServeRegister(fd, Understood(q, n))
  BY DEF Serve
<1>2. PICK r \in RequestType : r = Understood(q, n)
  BY UnderstoodFacts
<1>3. OnlyUp(fd) /\ Taken(q, n, up'[fd])
  <2> PICK x : Taken(q, n, x)
    BY DEF Taken
  <2>1. x \in Seq(RequestType)
    BY TailFacts
  <2>2. up' = [up EXCEPT ![fd] = x]
    BY <1>1 DEF Taken
  <2> QED
    BY <2>1, <2>2 DEF LoginTyped, OnlyUp
<1>4. /\ r.user \in Usernames /\ r.id \in Nat \ {0} /\ r.password \in Seq(Words)
      /\ accounts \in [Usernames -> Seq(Words)] /\ sessions \in Seq(SM!UserSession)
  BY DEF RequestType, LoginTyped
<1>5. ASSUME NEW what \in {"LOGIN_SUCCESS", "LOGIN_FAIL", "REGISTER_SUCCESS", "REGISTER_FAIL"},
             NEW u \in Usernames \cup {NoUser}, Prepare(fd, what, r, u)
      PROVE  \E y \in ReplyType : /\ OnlyServing(fd) /\ serving'[fd] = y
                                  /\ y.id = r.id /\ y.what = what /\ y.user = u
  <2>1. PICK y : y = [what |-> what, id |-> r.id, user |-> u]
    OBVIOUS
  <2>2. y \in ReplyType /\ y.id = r.id /\ y.what = what /\ y.user = u
    BY <1>4, <2>1 DEF ReplyType
  <2>3. OnlyServing(fd) /\ serving'[fd] = y
    BY <1>5, <2>1, <2>2 DEF Prepare, LoginTyped, OnlyServing
  <2> QED
    BY <2>2, <2>3
<1>6. CASE ServeLogin(fd, r)
  <2>1. r.kind = "LOGIN" /\ UNCHANGED <<accounts, conn>>
    BY <1>6 DEF ServeLogin, SM!Login
  <2>2. CASE /\ accounts[r.user] = r.password
             /\ SM!Login(r.user, fd)
             /\ Prepare(fd, "LOGIN_SUCCESS", r, r.user)
    <3>1. sessions' = SM!Add(sessions, r.user, fd)
      BY <2>2 DEF SM!Login
    <3>2. sessions' \in Seq(SM!UserSession)
      BY <1>4, <3>1, LoginTable
    <3>3. PICK y \in ReplyType : /\ OnlyServing(fd) /\ serving'[fd] = y
                                 /\ y.id = r.id /\ y.what = "LOGIN_SUCCESS" /\ y.user = r.user
      BY <1>4, <1>5, <2>2
    <3> QED
      BY <1>2, <1>3, <1>4, <2>1, <2>2, <3>1, <3>2, <3>3 DEF Serve, counters
  <2>3. CASE /\ accounts[r.user] # r.password
             /\ Prepare(fd, "LOGIN_FAIL", r, NoUser)
             /\ UNCHANGED <<sessions, conn, acked>>
    <3>1. PICK y \in ReplyType : /\ OnlyServing(fd) /\ serving'[fd] = y
                                 /\ y.id = r.id /\ y.what = "LOGIN_FAIL"
      BY <1>5, <2>3
    <3> QED
      BY <1>2, <1>3, <1>4, <2>1, <2>3, <3>1 DEF Serve, counters
  <2> QED
    BY <1>6, <2>2, <2>3 DEF ServeLogin
<1>7. CASE ServeRegister(fd, r)
  <2>1. UNCHANGED <<sessions, conn>>
    BY <1>7 DEF ServeRegister
  <2>2. CASE /\ accounts[r.user] = <<>>
             /\ accounts' = [accounts EXCEPT ![r.user] = r.password]
             /\ Prepare(fd, "REGISTER_SUCCESS", r, r.user)
    <3>1. PICK y \in ReplyType : /\ OnlyServing(fd) /\ serving'[fd] = y
                                 /\ y.id = r.id /\ y.what = "REGISTER_SUCCESS"
      BY <1>4, <1>5, <2>2
    <3>2. /\ accounts' \in [Usernames -> Seq(Words)]
          /\ \A v \in Usernames \ {r.user} : accounts'[v] = accounts[v]
      BY <1>4, <2>2
    <3> QED
      BY <1>2, <1>3, <1>4, <2>1, <2>2, <3>1, <3>2 DEF Serve, counters
  <2>3. CASE /\ accounts[r.user] # <<>>
             /\ Prepare(fd, "REGISTER_FAIL", r, NoUser)
             /\ UNCHANGED accounts
    <3>1. PICK y \in ReplyType : /\ OnlyServing(fd) /\ serving'[fd] = y
                                 /\ y.id = r.id /\ y.what = "REGISTER_FAIL"
      BY <1>5, <2>3
    <3> QED
      BY <1>2, <1>3, <1>4, <2>1, <2>3, <3>1 DEF Serve, counters
  <2> QED
    BY <1>7, <2>2, <2>3 DEF ServeRegister
<1> QED
  BY <1>1, <1>2, <1>6, <1>7

\* A line is written for the client of the connection, or lost.
LEMMA WriteToFacts ==
    ASSUME LoginTyped, NEW fd \in Sockets, NEW line \in LineType, WriteTo(fd, line)
    PROVE  /\ OnlyDown(fd)
           /\ PeerOf(fd) # {} => down'[fd] = Append(down[fd], line)
<1>1. CASE PeerOf(fd) = {}
  BY <1>1 DEF WriteTo, LoginTyped, OnlyDown
<1>2. CASE PeerOf(fd) # {}
  <2>1. Append(down[fd], line) \in Seq(LineType)
    BY AppendedFacts DEF LoginTyped
  <2> QED
    BY <1>2, <2>1 DEF WriteTo, LoginTyped, OnlyDown
<1> QED
  BY <1>1, <1>2

\* The reply is written.
LEMMA ReplyFacts ==
    ASSUME LoginTyped, NEW fd \in Sockets, Reply(fd)
    PROVE  /\ serving[fd] \in ReplyType
           /\ OnlyServing(fd) /\ serving'[fd] = NoLine
           /\ OnlyDown(fd)
           /\ PeerOf(fd) # {} => down'[fd] = Append(down[fd], serving[fd])
           /\ UNCHANGED <<sessions, conn, accounts, up, app, lost, requests>>
<1>1. serving[fd] \in ReplyType /\ serving[fd] \in LineType
  BY NoneFacts DEF Reply, LoginTyped
<1>2. OnlyServing(fd) /\ serving'[fd] = NoLine
  BY DEF Reply, LoginTyped, OnlyServing
<1>3. OnlyDown(fd) /\ (PeerOf(fd) # {} => down'[fd] = Append(down[fd], serving[fd]))
  BY <1>1, WriteToFacts DEF Reply
<1> QED
  BY <1>1, <1>2, <1>3 DEF Reply, counters

\* A message is forwarded.
LEMMA PushFacts ==
    ASSUME LoginTyped, NEW fd \in Sockets, Push(fd)
    PROVE  /\ OnlyDown(fd)
           /\ PeerOf(fd) # {} => down'[fd] = Append(down[fd], Pushed)
           /\ UNCHANGED <<sessions, conn, accounts, serving, up, app, lost, requests>>
<1>1. WriteTo(fd, Pushed)
  BY NoneFacts DEF Push
<1> QED
  BY <1>1, NoneFacts, WriteToFacts DEF Push, server

\* The end of a connection whose client has gone.
LEMMA EndFacts ==
    ASSUME LoginTyped, NEW fd \in Sockets, Disconnect(fd)
    PROVE  /\ serving[fd] = NoLine /\ PeerOf(fd) = {}
           /\ conn[fd] = "open" /\ OnlyConn(fd, "removed")
           /\ sessions' = SM!RemoveBySocket(sessions, fd)
           /\ sessions' \in Seq(SM!UserSession)
           /\ OnlyUp(fd) /\ up'[fd] = <<>>
           /\ UNCHANGED <<accounts, down, serving, app, lost, requests>>
<1>1. conn[fd] = "open" /\ OnlyConn(fd, "removed")
  BY DEF Disconnect, SM!Disconnect, LoginTyped, OnlyConn
<1>2. OnlyUp(fd) /\ up'[fd] = <<>>
  <2>1. <<>> \in Seq(RequestType)
    <3> HIDE DEF RequestType
    <3> QED
      OBVIOUS
  <2> QED
    BY <2>1 DEF Disconnect, LoginTyped, OnlyUp
<1>3. sessions' = SM!RemoveBySocket(sessions, fd) /\ sessions' \in Seq(SM!UserSession)
  BY RemoveTable DEF Disconnect, SM!Disconnect, LoginTyped
<1> QED
  BY <1>1, <1>2, <1>3 DEF Disconnect, counters

\* The socket is closed.
LEMMA CloseFacts ==
    ASSUME LoginTyped, NEW fd \in Sockets, Close(fd)
    PROVE  /\ conn[fd] = "removed" /\ OnlyConn(fd, "closed")
           /\ UNCHANGED <<sessions, accounts, up, down, serving, app, lost, requests>>
BY DEF Close, SM!Close, LoginTyped, OnlyConn, counters

\* The types hold at the start, ...
LEMMA InitLoginTyped == LoginInit => LoginTyped
<1> SUFFICES ASSUME LoginInit PROVE LoginTyped
  OBVIOUS
<1> HIDE DEF RequestType, LineType, ReplyType, AppType
<1>1. /\ sessions \in Seq(SM!UserSession)
      /\ conn \in [Sockets -> {"closed", "open", "removed"}]
  BY DEF LoginInit, SM!Init
<1>2. accounts \in [Usernames -> Seq(Words)]
  <2>1. <<>> \in Seq(Words) /\ \A p \in Passwords : <<p>> \in Seq(Words)
    BY DEF Words
  <2> QED
    BY <2>1 DEF LoginInit
<1>3. /\ serving \in [Sockets -> ReplyType \cup {NoLine}]
      /\ up \in [Sockets -> Seq(RequestType)]
      /\ down \in [Sockets -> Seq(LineType)]
  BY DEF LoginInit
<1>4. app \in [Clients -> AppType] /\ requests \in Nat
  BY OffFacts DEF LoginInit
<1> QED
  BY <1>1, <1>2, <1>3, <1>4 DEF LoginTyped

\* ... and kept by every step.
LEMMA NextLoginTyped == LoginTyped /\ [LoginNext]_loginVars => LoginTyped'
<1> SUFFICES ASSUME LoginTyped, [LoginNext]_loginVars PROVE LoginTyped'
  OBVIOUS
<1> USE DEF OnlyApp, OnlyUp, OnlyDown, OnlyServing, OnlyConn
<1>1. ASSUME NEW c \in Clients, NEW fd \in Sockets, Start(c, fd) PROVE LoginTyped'
  BY <1>1, StartFacts DEF LoginTyped
<1>2. ASSUME NEW c \in Clients, NEW to \in {"LOGIN", "REGISTER"}, SwitchScreen(c, to)
      PROVE  LoginTyped'
  BY <1>2, SwitchFacts DEF LoginTyped
<1>3. ASSUME NEW c \in Clients, NEW u \in Usernames, NEW p \in Passwords, Press(c, u, p)
      PROVE  LoginTyped'
  <2>1. requests' = requests + 1
    BY <1>3, PressFacts
  <2>2. requests' \in Nat
    BY <2>1 DEF LoginTyped
  <2> QED
    BY <1>3, <2>2, PressFacts DEF LoginTyped
<1>4. ASSUME NEW c \in Clients, Listen(c) PROVE LoginTyped'
  BY <1>4, ListenFacts DEF LoginTyped
<1>5. ASSUME NEW c \in Clients, Poll(c) PROVE LoginTyped'
  BY <1>5, PollFacts DEF LoginTyped
<1>6. ASSUME NEW c \in Clients, TimeOut(c) PROVE LoginTyped'
  BY <1>6, TimeOutFacts DEF LoginTyped
<1>7. ASSUME NEW c \in Clients, Quit(c) PROVE LoginTyped'
  BY <1>7, QuitFacts DEF LoginTyped
<1>8. ASSUME NEW fd \in Sockets, Serve(fd) PROVE LoginTyped'
  BY <1>8, ServeFacts DEF LoginTyped
<1>9. ASSUME NEW fd \in Sockets, Reply(fd) PROVE LoginTyped'
  BY <1>9, ReplyFacts DEF LoginTyped
<1>10. ASSUME NEW fd \in Sockets, Push(fd) PROVE LoginTyped'
  BY <1>10, PushFacts DEF LoginTyped
<1>11. ASSUME NEW fd \in Sockets, Disconnect(fd) PROVE LoginTyped'
  BY <1>11, EndFacts DEF LoginTyped
<1>12. ASSUME NEW fd \in Sockets, Close(fd) PROVE LoginTyped'
  BY <1>12, CloseFacts DEF LoginTyped
<1>13. CASE UNCHANGED loginVars
  BY <1>13 DEF loginVars, LoginTyped
<1> QED
  BY <1>1, <1>2, <1>3, <1>4, <1>5, <1>6, <1>7, <1>8, <1>9, <1>10, <1>11, <1>12, <1>13 DEF LoginNext

-----------------------------------------------------------------------------
(***************************************************************************)
(* The chat screen opens for who typed the password                        *)
(***************************************************************************)
\* A connection has one client, and stays open while it runs; a handler that has
\* ended has nothing to write.
Connected ==
    /\ \A c, d \in Clients : Running(c) /\ app[c].fd = app[d].fd => c = d
    /\ \A c \in Clients : Running(c) => conn[app[c].fd] = "open"
    /\ \A c \in Clients : ~Running(c) => app[c] = Off
    /\ \A fd \in Sockets : conn[fd] # "open" => serving[fd] = NoLine

\* T holds the password that acc keeps for u, as it was typed.
Entered(T, acc, u) == u \in Usernames /\ acc[u] # <<>> /\ <<u, Head(acc[u])>> \in T

Admitted(T, acc, line) == line.what = "LOGIN_SUCCESS" => Entered(T, acc, line.user)

\* On the way from the client a to the server and back: its logins are of what its
\* user typed, and a success is of a user whose password that was.
Justified(a, q, y, w, acc) ==
    /\ \A i \in DOMAIN q :
          q[i].kind = "LOGIN" => <<q[i].user, Head(q[i].password)>> \in a.typed
    /\ Admitted(a.typed, acc, y) /\ Admitted(a.typed, acc, a.slot)
    /\ \A i \in DOMAIN w : Admitted(a.typed, acc, w[i])
    /\ a.screen = "CHAT" => a.ask = NoRequest /\ Entered(a.typed, acc, a.current_user_id)

Credentials ==
    \A c \in Clients : Running(c) =>
        Justified(app[c], up[app[c].fd], serving[app[c].fd], down[app[c].fd], accounts)

\* The socket of a client that runs is nobody else's.
LEMMA OwnSocket ==
    ASSUME LoginTyped, Connected, NEW c \in Clients, Running(c)
    PROVE  /\ app[c].fd \in Sockets /\ conn[app[c].fd] = "open"
           /\ \A d \in Clients \ {c} : app[d].fd # app[c].fd
           /\ PeerOf(app[c].fd) # {}
BY DEF LoginTyped, AppType, Connected, Running, PeerOf

\* No client runs at the start, ...
LEMMA InitConnected == LoginInit => Connected
BY OffFacts DEF LoginInit, Connected, Running

\* ... and each that runs later has a connection of its own.
LEMMA NextConnected == LoginTyped /\ Connected /\ [LoginNext]_loginVars => Connected'
<1> SUFFICES ASSUME LoginTyped, Connected, [LoginNext]_loginVars PROVE Connected'
  OBVIOUS
<1> USE DEF OnlyApp, OnlyConn, OnlyServing
<1>0. NoSocket \notin Sockets
  BY LoginAssumption
<1>1. ASSUME NEW c \in Clients, NEW fd \in Sockets, Start(c, fd) PROVE Connected'
  <2>1. \A d \in Clients : app[d].fd # fd
    BY <1>0, <1>1, StartFacts, OwnSocket DEF Running
  <2>2. app'[c].fd = fd
    BY <1>1, StartFacts, OffFacts
  <2> QED
    BY <1>0, <1>1, <2>1, <2>2, StartFacts, OwnSocket DEF Connected, Running
\* A client that only changes its screen and what it asks keeps its connection.
<1>2. ASSUME NEW c \in Clients, Running(c), app'[c].fd = app[c].fd, OnlyApp(c),
             UNCHANGED <<conn, serving>>
      PROVE  Connected'
  <2>1. \A d \in Clients : app'[d].fd = app[d].fd
    BY <1>2
  <2> QED
    BY <1>2, <2>1 DEF Connected, Running
<1>3. ASSUME NEW c \in Clients, NEW to \in {"LOGIN", "REGISTER"}, SwitchScreen(c, to)
      PROVE  Connected'
  <2>1. app'[c].fd = app[c].fd
    BY <1>3, SwitchFacts DEF SameBut
  <2> QED
    BY <1>2, <1>3, <2>1, SwitchFacts
<1>4. ASSUME NEW c \in Clients, NEW u \in Usernames, NEW p \in Passwords, Press(c, u, p)
      PROVE  Connected'
  <2>1. app'[c].fd = app[c].fd
    BY <1>4, PressFacts DEF SameBut
  <2> QED
    BY <1>2, <1>4, <2>1, PressFacts
<1>5. ASSUME NEW c \in Clients, Listen(c) PROVE Connected'
  <2>1. app'[c].fd = app[c].fd
    BY <1>5, ListenFacts DEF SameBut
  <2> QED
    BY <1>2, <1>5, <2>1, ListenFacts
<1>6. ASSUME NEW c \in Clients, Poll(c) PROVE Connected'
  <2>1. app'[c].fd = app[c].fd
    BY <1>6, PollFacts DEF SameBut
  <2>2. Running(c)
    BY <1>6, PollFacts, OffFacts DEF Connected
  <2> QED
    BY <1>2, <1>6, <2>1, <2>2, PollFacts
<1>7. ASSUME NEW c \in Clients, TimeOut(c) PROVE Connected'
  <2>1. app'[c].fd = app[c].fd
    BY <1>7, TimeOutFacts DEF SameBut
  <2>2. Running(c)
    BY <1>7, TimeOutFacts, OffFacts DEF Connected
  <2> QED
    BY <1>2, <1>7, <2>1, <2>2, TimeOutFacts
<1>8. ASSUME NEW c \in Clients, Quit(c) PROVE Connected'
  <2>1. app'[c].fd = NoSocket /\ app'[c] = Off
    BY <1>8, QuitFacts, OffFacts
  <2>2. /\ \A d \in Clients \ {c} : app'[d] = app[d]
        /\ UNCHANGED <<conn, serving>>
    BY <1>8, QuitFacts
  <2> QED
    BY <1>0, <2>1, <2>2 DEF Connected, Running
<1>9. ASSUME NEW fd \in Sockets, Serve(fd) PROVE Connected'
  <2>1. /\ conn[fd] = "open" /\ UNCHANGED <<conn, app>>
        /\ \A f \in Sockets \ {fd} : serving'[f] = serving[f]
    BY <1>9, ServeFacts
  <2> QED
    BY <2>1 DEF Connected, Running
<1>10. ASSUME NEW fd \in Sockets, Reply(fd) PROVE Connected'
  <2>1. /\ serving'[fd] = NoLine /\ UNCHANGED <<conn, app>>
        /\ \A f \in Sockets \ {fd} : serving'[f] = serving[f]
    BY <1>10, ReplyFacts
  <2> QED
    BY <2>1 DEF Connected, Running
<1>11. ASSUME NEW fd \in Sockets, Push(fd) PROVE Connected'
  BY <1>11, PushFacts DEF Connected, Running
<1>12. ASSUME NEW fd \in Sockets, Disconnect(fd) PROVE Connected'
  <2>1. \A d \in Clients : app[d].fd # fd
    BY <1>12, EndFacts DEF PeerOf
  <2> QED
    BY <1>12, <2>1, EndFacts, OwnSocket DEF Connected, Running
<1>13. ASSUME NEW fd \in Sockets, Close(fd) PROVE Connected'
  <2>1. \A d \in Clients : app[d].fd # fd
    BY <1>0, <1>13, CloseFacts, OwnSocket DEF Running
  <2> QED
    BY <1>13, <2>1, CloseFacts, OwnSocket DEF Connected, Running
<1>14. CASE UNCHANGED loginVars
  BY <1>14 DEF loginVars, Connected, Running
<1> QED
  BY <1>1, <1>3, <1>4, <1>5, <1>6, <1>7, <1>8, <1>9, <1>10, <1>11, <1>12, <1>13, <1>14
     DEF LoginNext

\* A password that an account has stays, so what was entered stays entered.
LEMMA JustifiedKept ==
    ASSUME NEW a, NEW q, NEW y, NEW w, NEW acc, NEW acc2, Justified(a, q, y, w, acc),
           \A v \in Usernames : acc[v] # <<>> => acc2[v] = acc[v]
    PROVE  Justified(a, q, y, w, acc2)
BY DEF Justified, Admitted, Entered

\* Every step keeps what the clients and the lines on their way claim justified.
LEMMA NextCredentials ==
    LoginTyped /\ Connected /\ Credentials /\ [LoginNext]_loginVars => Credentials'
<1> SUFFICES ASSUME LoginTyped, Connected, Credentials, [LoginNext]_loginVars PROVE Credentials'
  OBVIOUS
<1>0. NoSocket \notin Sockets
  BY LoginAssumption
<1>1. ASSUME NEW c \in Clients, Running(c)
      PROVE  /\ Justified(app[c], up[app[c].fd], serving[app[c].fd], down[app[c].fd], accounts)
             /\ app[c] \in AppType /\ app[c].fd \in Sockets
             /\ up[app[c].fd] \in Seq(RequestType) /\ down[app[c].fd] \in Seq(LineType)
  BY <1>1, OwnSocket DEF Credentials, LoginTyped
\* A step that changes one client and its own queues leaves the others alone.
<1>2. ASSUME NEW c \in Clients, OnlyApp(c), UNCHANGED accounts,
             \A d \in Clients \ {c} : Running(d) =>
                 /\ up'[app[d].fd] = up[app[d].fd]
                 /\ serving'[app[d].fd] = serving[app[d].fd]
                 /\ down'[app[d].fd] = down[app[d].fd],
             Running(c)' => Justified(app'[c], up'[app'[c].fd], serving'[app'[c].fd],
                                      down'[app'[c].fd], accounts)
      PROVE  Credentials'
  <2> SUFFICES ASSUME NEW d \in Clients, Running(d)'
               PROVE  Justified(app'[d], up'[app'[d].fd], serving'[app'[d].fd],
                                down'[app'[d].fd], accounts')
    BY DEF Credentials
  <2>1. CASE d = c
    BY <1>2, <2>1
  <2>2. CASE d # c
    <3>1. app'[d] = app[d] /\ Running(d)
      BY <1>2, <2>2 DEF OnlyApp, Running
    <3> QED
      BY <1>1, <1>2, <2>2, <3>1
  <2> QED
    BY <2>1, <2>2
\* A step of the server for one connection.
<1>3. ASSUME NEW fd \in Sockets, UNCHANGED app,
             \A f \in Sockets \ {fd} : UNCHANGED <<up[f], serving[f], down[f]>>,
             \A v \in Usernames : accounts[v] # <<>> => accounts'[v] = accounts[v],
             \A c \in Clients : app[c].fd = fd =>
                 Justified(app[c], up'[fd], serving'[fd], down'[fd], accounts')
      PROVE  Credentials'
  <2> SUFFICES ASSUME NEW d \in Clients, Running(d)
               PROVE  Justified(app[d], up'[app[d].fd], serving'[app[d].fd],
                                down'[app[d].fd], accounts')
    BY <1>3 DEF Credentials, Running
  <2>1. CASE app[d].fd = fd
    BY <1>3, <2>1
  <2>2. CASE app[d].fd # fd
    BY <1>1, <1>3, <2>2, JustifiedKept
  <2> QED
    BY <2>1, <2>2
<1>4. ASSUME NEW c \in Clients, NEW fd \in Sockets, Start(c, fd) PROVE Credentials'
  <2>1. serving[fd] = NoLine /\ \A d \in Clients : app[d].fd # fd
    BY <1>0, <1>4, StartFacts, OwnSocket DEF Running, Connected
  <2>2. Justified(Fresh(fd), <<>>, NoLine, <<>>, accounts)
    BY OffFacts, NoneFacts DEF Justified, Admitted
  <2>3. /\ app'[c] = Fresh(fd) /\ app'[c].fd = fd /\ up'[fd] = <<>> /\ down'[fd] = <<>>
        /\ serving'[fd] = NoLine
    BY <1>4, <2>1, StartFacts, OffFacts
  <2>4. \A d \in Clients \ {c} : Running(d) =>
           /\ up'[app[d].fd] = up[app[d].fd]
           /\ serving'[app[d].fd] = serving[app[d].fd]
           /\ down'[app[d].fd] = down[app[d].fd]
    BY <1>1, <1>4, <2>1, StartFacts DEF OnlyUp, OnlyDown, OnlyApp
  <2>5. OnlyApp(c) /\ UNCHANGED accounts
    BY <1>4, StartFacts
  <2> QED
    BY <1>2, <2>2, <2>3, <2>4, <2>5
<1>5. ASSUME NEW c \in Clients, NEW to \in {"LOGIN", "REGISTER"}, SwitchScreen(c, to)
      PROVE  Credentials'
  <2>1. Running(c) /\ app'[c].screen \in {"LOGIN", "REGISTER"}
    BY <1>5 DEF SwitchScreen, LoginTyped, AppType
  <2> QED
    BY <1>1, <1>2, <1>5, <2>1, SwitchFacts DEF SameBut, Justified
<1>6. ASSUME NEW c \in Clients, NEW u \in Usernames, NEW p \in Passwords, Press(c, u, p)
      PROVE  Credentials'
  <2> PICK fd \in Sockets : fd = app[c].fd
    BY <1>6, PressFacts
  <2>1. PICK r \in RequestType, T \in SUBSET (Usernames \X Passwords) :
           /\ r.kind = app[c].screen /\ r.user = u /\ Head(r.password) = p
           /\ T = IF app[c].screen = "LOGIN" THEN app[c].typed \cup {<<u, p>>}
                  ELSE app[c].typed
           /\ OnlyApp(c)
           /\ SameBut(app[c], app'[c], {"ask", "slot", "typed"})
           /\ app'[c].ask = r /\ app'[c].slot = NoLine /\ app'[c].typed = T
           /\ OnlyUp(fd) /\ up'[fd] = Append(up[fd], r)
    BY <1>6, PressFacts
  <2>2. /\ Running(c) /\ app[c].screen \in {"LOGIN", "REGISTER"}
        /\ UNCHANGED <<accounts, down, serving>>
    BY <1>6, PressFacts
  <2>3. Justified(app[c], up[fd], serving[fd], down[fd], accounts) /\ up[fd] \in Seq(RequestType)
    BY <1>1, <2>2
  <2>4. app[c].typed \subseteq T /\ (r.kind = "LOGIN" => <<u, p>> \in T)
    BY <2>1
  <2>5. /\ DOMAIN up'[fd] = DOMAIN up[fd] \cup {Len(up[fd]) + 1}
        /\ \A i \in DOMAIN up[fd] : up'[fd][i] = up[fd][i]
        /\ up'[fd][Len(up[fd]) + 1] = r
    BY <2>1, <2>3, AppendedFacts
  <2>6. \A i \in DOMAIN up'[fd] :
           up'[fd][i].kind = "LOGIN" => <<up'[fd][i].user, Head(up'[fd][i].password)>> \in T
    BY <2>1, <2>3, <2>4, <2>5 DEF Justified
  <2>7. /\ Admitted(T, accounts, serving[fd])
        /\ \A i \in DOMAIN down[fd] : Admitted(T, accounts, down[fd][i])
    BY <2>3, <2>4 DEF Justified, Admitted, Entered
  <2>8. Justified(app'[c], up'[fd], serving[fd], down[fd], accounts)
    BY <2>1, <2>2, <2>6, <2>7, NoneFacts DEF Justified, Admitted, SameBut
  <2>9. \A d \in Clients \ {c} : Running(d) => up'[app[d].fd] = up[app[d].fd]
    BY <1>1, <2>1, <2>2, OwnSocket DEF OnlyUp
  <2> QED
    BY <1>2, <2>1, <2>2, <2>8, <2>9 DEF SameBut
<1>7. ASSUME NEW c \in Clients, Listen(c) PROVE Credentials'
  <2> PICK fd \in Sockets : fd = app[c].fd
    BY <1>7, ListenFacts
  <2> PICK w \in Seq(LineType) : w = down[fd]
    BY DEF LoginTyped
  <2>1. PICK n \in DOMAIN w :
           /\ Taken(w, n, down'[fd])
           /\ \/ app'[c] = app[c]
              \/ SameBut(app[c], app'[c], {"slot"}) /\ app'[c].slot = w[1]
    BY <1>7, ListenFacts
  <2>2. Running(c) /\ OnlyApp(c) /\ OnlyDown(fd) /\ UNCHANGED <<accounts, up, serving>>
    BY <1>7, ListenFacts
  <2>3. Justified(app[c], up[fd], serving[fd], w, accounts)
    BY <1>1, <2>2
  <2>4. /\ \A i \in DOMAIN down'[fd] : i + n \in DOMAIN w /\ down'[fd][i] = w[i + n]
        /\ 1 \in DOMAIN w
    BY <2>1, TailFacts
  <2>5. Justified(app'[c], up[fd], serving[fd], down'[fd], accounts)
    BY <2>1, <2>3, <2>4 DEF Justified, SameBut
  <2>6. \A d \in Clients \ {c} : Running(d) => down'[app[d].fd] = down[app[d].fd]
    BY <1>1, <2>2, OwnSocket DEF OnlyDown
  <2>7. app'[c].fd = fd
    BY <2>1 DEF SameBut
  <2> QED
    BY <1>2, <2>2, <2>5, <2>6, <2>7
<1>8. ASSUME NEW c \in Clients, Poll(c) PROVE Credentials'
  <2>1. Running(c)
    BY <1>8, PollFacts, OffFacts DEF Connected
  <2>2. Justified(app'[c], up[app[c].fd], serving[app[c].fd], down[app[c].fd], accounts)
    BY <1>1, <1>8, <2>1, PollFacts DEF Justified, SameBut, Admitted
  <2> QED
    BY <1>2, <1>8, <2>1, <2>2, PollFacts DEF SameBut
<1>9. ASSUME NEW c \in Clients, TimeOut(c) PROVE Credentials'
  <2>1. Running(c)
    BY <1>9, TimeOutFacts, OffFacts DEF Connected
  <2>2. Justified(app'[c], up[app[c].fd], serving[app[c].fd], down[app[c].fd], accounts)
    BY <1>1, <1>9, <2>1, TimeOutFacts DEF Justified, SameBut
  <2> QED
    BY <1>2, <1>9, <2>1, <2>2, TimeOutFacts DEF SameBut
<1>10. ASSUME NEW c \in Clients, Quit(c) PROVE Credentials'
  <2>1. ~Running(c)'
    BY <1>10, QuitFacts, OffFacts DEF Running
  <2> QED
    BY <1>2, <1>10, <2>1, QuitFacts
<1>11. ASSUME NEW fd \in Sockets, Serve(fd) PROVE Credentials'
  <2> PICK q \in Seq(RequestType) : q = up[fd]
    BY DEF LoginTyped
  <2>1. PICK n \in DOMAIN q, r \in RequestType, y \in ReplyType :
           /\ r = Understood(q, n)
           /\ OnlyUp(fd) /\ Taken(q, n, up'[fd])
           /\ OnlyServing(fd) /\ serving'[fd] = y
           /\ \/ /\ r.kind = "LOGIN" /\ accounts[r.user] = r.password
                 /\ y.what = "LOGIN_SUCCESS" /\ y.user = r.user
                 /\ UNCHANGED accounts
              \/ y.what # "LOGIN_SUCCESS" /\ UNCHANGED accounts
              \/ /\ y.what # "LOGIN_SUCCESS" /\ accounts[r.user] = <<>>
                 /\ \A v \in Usernames \ {r.user} : accounts'[v] = accounts[v]
    BY <1>11, ServeFacts
  <2>2. UNCHANGED <<app, down>>
    BY <1>11, ServeFacts
  <2>3. \A v \in Usernames : accounts[v] # <<>> => accounts'[v] = accounts[v]
    BY <2>1
  <2>4. /\ r.kind = q[1].kind /\ r.user = q[1].user /\ Head(r.password) = Head(q[1].password)
        /\ r.user \in Usernames /\ r.password # <<>>
    BY <2>1, UnderstoodFacts DEF RequestType
  <2>5. /\ \A i \in DOMAIN up'[fd] : i + n \in DOMAIN q /\ up'[fd][i] = q[i + n]
        /\ 1 \in DOMAIN q
    BY <2>1, TailFacts
  <2>6. ASSUME NEW c \in Clients, app[c].fd = fd
        PROVE  Justified(app[c], up'[fd], y, down[fd], accounts')
    <3>1. Justified(app[c], q, serving[fd], down[fd], accounts')
      BY <1>0, <1>1, <2>3, <2>6, JustifiedKept DEF Running
    <3>2. Admitted(app[c].typed, accounts', y)
      BY <2>1, <2>4, <2>5, <3>1 DEF Justified, Admitted, Entered
    <3> QED
      BY <2>5, <3>1, <3>2 DEF Justified
  <2> QED
    BY <1>3, <2>1, <2>2, <2>3, <2>6 DEF OnlyUp, OnlyServing
<1>12. ASSUME NEW fd \in Sockets, NEW line \in LineType, LoginTyped', OnlyDown(fd),
              PeerOf(fd) # {} => down'[fd] = Append(down[fd], line),
              line = serving[fd] \/ line = Pushed,
              OnlyServing(fd), serving'[fd] \in {NoLine, serving[fd]},
              UNCHANGED <<app, up, accounts>>
       PROVE  Credentials'
  <2>1. ASSUME NEW c \in Clients, app[c].fd = fd
        PROVE  Justified(app[c], up'[fd], serving'[fd], down'[fd], accounts')
    <3>1. Justified(app[c], up[fd], serving[fd], down[fd], accounts)
      BY <1>0, <1>1, <2>1 DEF Running
    <3>2. PICK w \in Seq(LineType) : w = down[fd] /\ down'[fd] = Append(w, line)
      BY <1>12, <2>1 DEF PeerOf, LoginTyped
    <3>3. /\ DOMAIN down'[fd] = DOMAIN w \cup {Len(w) + 1}
          /\ \A i \in DOMAIN w : down'[fd][i] = w[i]
          /\ down'[fd][Len(w) + 1] = line
      BY <3>2, AppendedFacts
    <3>4. Admitted(app[c].typed, accounts, line) /\ Admitted(app[c].typed, accounts, serving'[fd])
      BY <1>12, <3>1, NoneFacts DEF Justified, Admitted
    <3> QED
      BY <1>12, <3>1, <3>2, <3>3, <3>4 DEF Justified
  <2> QED
    BY <1>3, <1>12, <2>1 DEF OnlyDown, OnlyServing
<1>13. ASSUME NEW fd \in Sockets, Reply(fd) PROVE Credentials'
  BY <1>12, <1>13, ReplyFacts, NextLoginTyped, NoneFacts
<1>14. ASSUME NEW fd \in Sockets, Push(fd) PROVE Credentials'
  <2>1. OnlyServing(fd)
    BY <1>14, PushFacts DEF LoginTyped, OnlyServing
  <2> QED
    BY <1>12, <1>14, <2>1, PushFacts, NextLoginTyped, NoneFacts
<1>15. ASSUME NEW fd \in Sockets, Disconnect(fd) PROVE Credentials'
  <2>1. \A c \in Clients : app[c].fd # fd
    BY <1>15, EndFacts DEF PeerOf
  <2> QED
    BY <1>3, <1>15, <2>1, EndFacts DEF OnlyUp
<1>16. ASSUME NEW fd \in Sockets, Close(fd) PROVE Credentials'
  <2>1. UNCHANGED <<app, up, down, serving, accounts>>
    BY <1>16, CloseFacts
  <2> QED
    BY <2>1 DEF Credentials, Running
<1>17. CASE UNCHANGED loginVars
  BY <1>17 DEF loginVars, Credentials, Running
<1> QED
  BY <1>4, <1>5, <1>6, <1>7, <1>8, <1>9, <1>10, <1>11, <1>13, <1>14, <1>15, <1>16, <1>17
     DEF LoginNext

\* A chat screen is of somebody who typed the password of its user.
THEOREM ChatsNeedCredentials == LoginSpec => []ChatNeedsCredentials
<1>1. LoginInit => Credentials
  BY OffFacts DEF LoginInit, Credentials, Running
<1>2. LoginTyped /\ Connected /\ Credentials => ChatNeedsCredentials
  BY OffFacts DEF Connected, Credentials, Justified, Entered, ChatNeedsCredentials
<1> QED
  BY <1>1, <1>2, InitLoginTyped, NextLoginTyped, InitConnected, NextConnected,
     NextCredentials, PTL DEF LoginSpec

-----------------------------------------------------------------------------
(***************************************************************************)
(* Where the answer to a request is, as long as none was lost              *)
(***************************************************************************)
NoAnswer(w) == \A i \in DOMAIN w : w[i].id = 0

\* The answer to ask, whose success names the user who was asked for.
Own(line, ask) ==
    /\ line.id = ask.id
    /\ line.what = "LOGIN_SUCCESS" => ask.kind = "LOGIN" /\ line.user = ask.user

\* The entries of fd come from the login that line answers.
Follows(s, fd, line) ==
    NoEntry(s, fd) \/ (line.what = "LOGIN_SUCCESS" /\ Named(s, fd, line.user))

\* The stages of a request, from the press of the button to the poll: it waits at the
\* server, the handler has its reply in hand, the reply is among the lines on the wire,
\* it is in the slot, or another line has taken its place there.
Resting(a, q, y, w, s) ==
    /\ q = <<>> /\ y = NoLine /\ NoAnswer(w)
    /\ NoEntry(s, a.fd) \/ (a.screen = "CHAT" /\ Named(s, a.fd, a.current_user_id))
Asked(a, q, y, w, s) ==
    /\ q = <<a.ask>> /\ y = NoLine /\ NoAnswer(w) /\ a.slot.id = 0
    /\ NoEntry(s, a.fd)
InHand(a, q, y, w, s) ==
    /\ q = <<>> /\ Own(y, a.ask) /\ NoAnswer(w) /\ a.slot.id = 0
    /\ Follows(s, a.fd, y)
OnWire(a, q, y, w, s) ==
    /\ q = <<>> /\ y = NoLine /\ a.slot.id = 0
    /\ \E k \in DOMAIN w : /\ \A i \in DOMAIN w : w[i].id # 0 <=> i = k
                           /\ Own(w[k], a.ask) /\ Follows(s, a.fd, w[k])
InSlot(a, q, y, w, s) ==
    /\ q = <<>> /\ y = NoLine /\ NoAnswer(w) /\ Own(a.slot, a.ask)
    /\ Follows(s, a.fd, a.slot)
Overtaken(a, q, y, w) ==
    /\ q = <<>> /\ y = NoLine /\ NoAnswer(w) /\ a.slot # NoLine /\ a.slot.id = 0

InStep(a, q, y, w, s) ==
    \/ a.ask = NoRequest /\ Resting(a, q, y, w, s)
    \/ /\ a.ask # NoRequest
       /\ \/ Asked(a, q, y, w, s) \/ InHand(a, q, y, w, s) \/ OnWire(a, q, y, w, s)
          \/ InSlot(a, q, y, w, s) \/ Overtaken(a, q, y, w)

AllInStep ==
    /\ \A c \in Clients : Running(c) =>
          InStep(app[c], up[app[c].fd], serving[app[c].fd], down[app[c].fd], sessions)
    /\ \A fd \in Sockets : PeerOf(fd) = {} => up[fd] = <<>> /\ serving[fd] = NoLine

\* Every entry is of an open connection, which has no other.
Orderly == /\ \A i \in DOMAIN sessions : conn[sessions[i].socket_fd] = "open"
           /\ OneEach(sessions)

InStepUnlessLost == ~lost => AllInStep /\ Orderly

\* Entries that go do no harm.
LEMMA InStepShrinks ==
    ASSUME NEW a, NEW q, NEW y, NEW w, NEW s, NEW t, InStep(a, q, y, w, s), Shrinks(s, t, a.fd)
    PROVE  InStep(a, q, y, w, t)
<1>1. NoEntry(s, a.fd) => NoEntry(t, a.fd)
  BY DEF NoEntry, Shrinks
<1>2. \A u : Named(s, a.fd, u) => Named(t, a.fd, u)
  BY DEF Named, Shrinks
<1>3. \A line : Follows(s, a.fd, line) => Follows(t, a.fd, line)
  BY <1>1, <1>2 DEF Follows
<1> QED
  BY <1>1, <1>2, <1>3 DEF InStep, Resting, Asked, InHand, OnWire, InSlot

\* The button is pressed.
LEMMA PressInStep ==
    ASSUME NEW a \in AppType, NEW b \in AppType, NEW r \in RequestType, NEW q, NEW y, NEW w,
           NEW s, InStep(a, q, y, w, s), a.ask = NoRequest, a.screen # "CHAT",
           b.fd = a.fd, b.ask = r, b.slot = NoLine
    PROVE  InStep(b, Append(q, r), y, w, s)
<1>1. Resting(a, q, y, w, s)
  BY DEF InStep
<1>2. Append(<<>>, r) = <<r>>
  OBVIOUS
<1> QED
  BY <1>1, <1>2, NoneFacts DEF InStep, Resting, Asked

\* The listener puts the first of the lines it takes into the slot.
LEMMA ListenInStep ==
    ASSUME NEW a \in AppType, NEW b, NEW q, NEW y, NEW s,
           NEW w \in Seq(LineType), NEW n \in DOMAIN w, NEW r, Taken(w, n, r),
           InStep(a, q, y, w, s),
           \/ b = a /\ a.ask = NoRequest
           \/ SameBut(a, b, {"slot"}) /\ b.slot = w[1]
    PROVE  InStep(b, q, y, r, s)
<1>1. /\ \A i \in DOMAIN r : r[i] = w[i + n] /\ i + n \in DOMAIN w
      /\ \A i \in DOMAIN w : i > n => i - n \in DOMAIN r
      /\ n \in Nat \ {0} /\ Len(w) \in Nat /\ n <= Len(w)
      /\ 1 \in DOMAIN w /\ w[1] \in LineType /\ r \in Seq(LineType)
  BY TailFacts
<1>2. NoAnswer(w) => NoAnswer(r)
  BY <1>1 DEF NoAnswer
<1>3. CASE a.ask = NoRequest
  <2>1. Resting(a, q, y, w, s)
    BY <1>3 DEF InStep
  <2> QED
    BY <1>2, <1>3, <2>1 DEF InStep, Resting, SameBut
<1>4. CASE a.ask # NoRequest
  <2>1. SameBut(a, b, {"slot"}) /\ b.slot = w[1] /\ w[1] # NoLine
    BY <1>1, <1>4, NoneFacts
  <2>2. b.fd = a.fd /\ b.ask = a.ask
    BY <2>1 DEF SameBut
  <2>3. NoAnswer(w) => w[1].id = 0
    BY <1>1 DEF NoAnswer
  <2>4. CASE Asked(a, q, y, w, s)
    BY <1>2, <1>4, <2>1, <2>2, <2>3, <2>4 DEF InStep, Asked
  <2>5. CASE InHand(a, q, y, w, s)
    BY <1>2, <1>4, <2>1, <2>2, <2>3, <2>5 DEF InStep, InHand
  <2>6. CASE OnWire(a, q, y, w, s)
    <3>1. PICK k \in DOMAIN w : /\ \A i \in DOMAIN w : w[i].id # 0 <=> i = k
                                /\ Own(w[k], a.ask) /\ Follows(s, a.fd, w[k])
      BY <2>6 DEF OnWire
    <3>2. k \in Nat /\ n \in Nat \ {0} /\ \A i \in DOMAIN r : i \in Nat \ {0}
      BY <1>1
    <3>3. \A i \in DOMAIN r : r[i] = w[i + n] /\ i + n \in DOMAIN w
      BY <1>1
    <3>4. q = <<>> /\ y = NoLine
      BY <2>6 DEF OnWire
    <3>5. CASE k = 1
      <4>1. \A i \in DOMAIN r : i + n # k
        BY <3>2, <3>5
      <4>2. NoAnswer(r)
        BY <3>1, <3>3, <4>1 DEF NoAnswer
      <4> QED
        BY <1>4, <2>1, <2>2, <3>1, <3>4, <3>5, <4>2 DEF InStep, InSlot
    <3>6. CASE k # 1 /\ k <= n
      <4>1. \A i \in DOMAIN r : i + n # k
        BY <3>2, <3>6
      <4>2. NoAnswer(r)
        BY <3>1, <3>3, <4>1 DEF NoAnswer
      <4>3. w[1].id = 0
        BY <1>1, <3>1, <3>6
      <4> QED
        BY <1>4, <2>1, <2>2, <3>4, <4>2, <4>3 DEF InStep, Overtaken
    <3>7. CASE k # 1 /\ ~(k <= n)
      <4>1. w[1].id = 0
        BY <1>1, <3>1, <3>7
      <4>2. PICK j \in DOMAIN r : j = k - n
        BY <1>1, <3>2, <3>7
      <4>3. j + n = k /\ \A i \in DOMAIN r : i + n = k <=> i = j
        BY <3>2, <4>2
      <4>4. r[j] = w[k]
        BY <3>3, <4>3
      <4>5. \A i \in DOMAIN r : r[i].id # 0 <=> i = j
        BY <3>1, <3>3, <4>3
      <4> QED
        BY <1>4, <2>1, <2>2, <3>1, <3>4, <4>1, <4>4, <4>5 DEF InStep, OnWire
    <3> QED
      BY <3>5, <3>6, <3>7
  <2>7. CASE InSlot(a, q, y, w, s)
    BY <1>2, <1>4, <2>1, <2>2, <2>3, <2>7 DEF InStep, InSlot, Overtaken
  <2>8. CASE Overtaken(a, q, y, w)
    BY <1>2, <1>4, <2>1, <2>2, <2>3, <2>8 DEF InStep, Overtaken
  <2> QED
    BY <1>4, <2>4, <2>5, <2>6, <2>7, <2>8 DEF InStep
<1> QED
  BY <1>3, <1>4

\* A poll that finds the answer to its request ends it.
LEMMA PollInStep ==
    ASSUME NEW a \in AppType, NEW b, NEW q, NEW y, NEW w, NEW s,
           InStep(a, q, y, w, s), a.ask # NoRequest, a.slot # NoLine, a.slot.id = a.ask.id,
           b.fd = a.fd, b.ask = NoRequest,
           a.ask.kind = "LOGIN" /\ a.slot.what = "LOGIN_SUCCESS" =>
               b.screen = "CHAT" /\ b.current_user_id = a.slot.user
    PROVE  InStep(b, q, y, w, s)
<1>1. a.slot.id # 0
  BY NoneFacts DEF AppType
<1>2. InSlot(a, q, y, w, s)
  BY <1>1 DEF InStep, Asked, InHand, OnWire, Overtaken
<1> QED
  BY <1>2 DEF InStep, InSlot, Resting, Follows, Own

\* A line that answers nothing joins those on the wire.
LEMMA PushInStep ==
    ASSUME NEW a, NEW q, NEW y, NEW s, NEW w \in Seq(LineType), InStep(a, q, y, w, s)
    PROVE  InStep(a, q, y, Append(w, Pushed), s)
<1> PICK r : r = Append(w, Pushed)
  OBVIOUS
<1>1. /\ DOMAIN r = DOMAIN w \cup {Len(w) + 1}
      /\ \A i \in DOMAIN w : r[i] = w[i] /\ i # Len(w) + 1
      /\ r[Len(w) + 1].id = 0
  BY NoneFacts, AppendedFacts
<1>2. NoAnswer(w) => NoAnswer(r)
  BY <1>1 DEF NoAnswer
<1>3. OnWire(a, q, y, w, s) => OnWire(a, q, y, r, s)
  BY <1>1 DEF OnWire
<1> QED
  BY <1>2, <1>3 DEF InStep, Resting, Asked, InHand, InSlot, Overtaken

\* The reply in the handler's hand is written.
LEMMA ReplyInStep ==
    ASSUME NEW a, NEW q, NEW y \in ReplyType, NEW s, NEW w \in Seq(LineType),
           InStep(a, q, y, w, s)
    PROVE  InStep(a, q, NoLine, Append(w, y), s)
<1>1. y \in LineType /\ y # NoLine /\ y.id # 0
  BY NoneFacts
<1>2. a.ask # NoRequest /\ InHand(a, q, y, w, s)
  BY <1>1 DEF InStep, Resting, Asked, OnWire, InSlot, Overtaken
<1> PICK r : r = Append(w, y)
  OBVIOUS
<1>3. /\ DOMAIN r = DOMAIN w \cup {Len(w) + 1}
      /\ \A i \in DOMAIN w : r[i] = w[i] /\ i # Len(w) + 1
      /\ r[Len(w) + 1] = y
  BY <1>1, AppendedFacts
<1>4. OnWire(a, q, NoLine, r, s)
  BY <1>1, <1>2, <1>3 DEF InHand, OnWire, NoAnswer
<1> QED
  BY <1>2, <1>4 DEF InStep

\* An entry is of some socket.
LEMMA EntriesTyped ==
    ASSUME LoginTyped, NEW i \in DOMAIN sessions
    PROVE  sessions[i].socket_fd \in Sockets
<1>1. sessions[i] \in SM!UserSession
  BY DEF LoginTyped
<1> QED
  BY <1>1 DEF SM!UserSession

\* What the handler reads is the one request of its client, who awaits the answer; a
\* success gives the connection an entry of that user, or none, and takes an entry from
\* another one, or nothing.
LEMMA ServeInStep ==
    ASSUME LoginTyped, Connected, AllInStep, Orderly, NEW fd \in Sockets, Serve(fd)
    PROVE  /\ \A c \in Clients : app[c].fd = fd =>
                 InStep(app[c], up'[fd], serving'[fd], down[fd], sessions')
           /\ \A f \in Sockets \ {fd} : Shrinks(sessions, sessions', f)
           /\ PeerOf(fd) # {}
           /\ Orderly'
<1> PICK q \in Seq(RequestType) : q = up[fd]
  BY DEF LoginTyped
<1>1. PICK n \in DOMAIN q, r \in RequestType, y \in ReplyType :
         /\ r = Understood(q, n)
         /\ Taken(q, n, up'[fd])
         /\ serving'[fd] = y /\ y.id = r.id
         /\ \/ /\ r.kind = "LOGIN"
               /\ sessions' = SM!Add(sessions, r.user, fd)
               /\ y.what = "LOGIN_SUCCESS" /\ y.user = r.user
            \/ y.what # "LOGIN_SUCCESS" /\ UNCHANGED sessions
  BY ServeFacts
<1>2. conn[fd] = "open" /\ serving[fd] = NoLine /\ UNCHANGED <<conn, app, down>>
  BY ServeFacts
<1>3. q # <<>>
  OBVIOUS
<1>4. PeerOf(fd) # {}
  BY <1>3 DEF AllInStep
<1>5. PICK c \in Clients : app[c].fd = fd
  BY <1>4 DEF PeerOf
<1>6. Running(c) /\ \A d \in Clients : app[d].fd = fd => d = c
  BY <1>5, LoginAssumption DEF Running, Connected
<1>7. /\ app[c].ask # NoRequest
      /\ Asked(app[c], q, serving[fd], down[fd], sessions)
  BY <1>3, <1>5, <1>6 DEF AllInStep, InStep, Resting, InHand, OnWire, InSlot, Overtaken
<1>8. /\ q = <<app[c].ask>> /\ NoAnswer(down[fd]) /\ app[c].slot.id = 0
      /\ NoEntry(sessions, fd)
  BY <1>5, <1>7 DEF Asked
<1>9. n = 1 /\ Len(q) = 1 /\ q[1] = app[c].ask
  BY <1>8
<1>10. r = app[c].ask
  BY <1>1, <1>9, UnderstoodFacts
<1>11. up'[fd] = <<>>
  <2>1. up'[fd] \in Seq(RequestType) /\ Len(up'[fd]) = 0
    <3>1. up'[fd] \in Seq(RequestType) /\ Len(up'[fd]) = Len(q) - n
      BY <1>1, TailFacts
    <3> QED
      BY <1>9, <3>1
  <2> QED
    BY <2>1
<1>12. Own(y, app[c].ask)
  BY <1>1, <1>10 DEF Own
<1>13. /\ Follows(sessions', fd, y)
       /\ \A f \in Sockets \ {fd} : Shrinks(sessions, sessions', f)
       /\ OneEach(sessions')
       /\ \A i \in DOMAIN sessions' :
             \/ sessions'[i].socket_fd = fd
             \/ \E j \in DOMAIN sessions : sessions'[i].socket_fd = sessions[j].socket_fd
  <2>1. CASE UNCHANGED sessions
    BY <1>8, <2>1 DEF Follows, Shrinks, Orderly
  <2>2. CASE /\ sessions' = SM!Add(sessions, r.user, fd)
             /\ y.what = "LOGIN_SUCCESS" /\ y.user = r.user
    <3>1. sessions \in Seq(SM!UserSession) /\ r.user \in Usernames
      BY DEF LoginTyped, RequestType
    <3>2. PICK t : t = SM!Add(sessions, r.user, fd)
      OBVIOUS
    <3>3. /\ Named(t, fd, r.user)
          /\ \A f \in Sockets \ {fd} : Shrinks(sessions, t, f)
          /\ OneEach(sessions) => OneEach(t)
          /\ \A i \in DOMAIN t :
                \/ t[i].socket_fd = fd
                \/ \E j \in DOMAIN sessions : t[i].socket_fd = sessions[j].socket_fd
      BY <1>8, <3>1, <3>2, LoginTable
    <3>4. sessions' = t
      BY <2>2, <3>2
    <3> QED
      BY <2>2, <3>3, <3>4 DEF Follows, Orderly
  <2> QED
    BY <1>1, <2>1, <2>2
<1>14. InStep(app[c], <<>>, y, down[fd], sessions')
  BY <1>5, <1>7, <1>8, <1>12, <1>13 DEF InStep, InHand
<1>15. Orderly'
  BY <1>2, <1>13 DEF Orderly
<1> QED
  BY <1>1, <1>4, <1>5, <1>6, <1>11, <1>13, <1>14, <1>15

\* As long as no answer is lost, every step leaves each request in one of its stages.
LEMMA NextInStep ==
    ASSUME LoginTyped, Connected, Credentials, AllInStep, Orderly, [LoginNext]_loginVars, ~lost'
    PROVE  AllInStep' /\ Orderly'
<1>0. NoSocket \notin Sockets
  BY LoginAssumption
<1>1. ASSUME NEW c \in Clients, Running(c)
      PROVE  /\ InStep(app[c], up[app[c].fd], serving[app[c].fd], down[app[c].fd], sessions)
             /\ app[c] \in AppType /\ app[c].fd \in Sockets
             /\ down[app[c].fd] \in Seq(LineType)
  BY <1>1, OwnSocket DEF AllInStep, LoginTyped
\* A step of a client that keeps its connection.
<1>2. ASSUME NEW c \in Clients, Running(c), NEW fd \in Sockets, fd = app[c].fd,
             OnlyApp(c), app'[c].fd = fd,
             \A f \in Sockets \ {fd} : up'[f] = up[f] /\ down'[f] = down[f],
             UNCHANGED <<sessions, conn, serving>>,
             InStep(app'[c], up'[fd], serving[fd], down'[fd], sessions)
      PROVE  AllInStep' /\ Orderly'
  <2>1. ASSUME NEW d \in Clients, Running(d)'
        PROVE  InStep(app'[d], up'[app'[d].fd], serving'[app'[d].fd], down'[app'[d].fd], sessions')
    <3>1. CASE d = c
      BY <1>2, <3>1
    <3>2. CASE d # c
      <4>1. app'[d] = app[d] /\ Running(d)
        BY <1>2, <2>1, <3>2 DEF OnlyApp, Running
      <4>2. app[d].fd \in Sockets \ {fd}
        BY <1>1, <1>2, <3>2, <4>1, OwnSocket
      <4> QED
        BY <1>1, <1>2, <4>1, <4>2
    <3> QED
      BY <3>1, <3>2
  <2>2. ASSUME NEW f \in Sockets, \A d \in Clients : app'[d].fd # f
        PROVE  up'[f] = <<>> /\ serving'[f] = NoLine
    <3>1. \A d \in Clients : app'[d].fd = app[d].fd
      BY <1>2 DEF OnlyApp
    <3>2. f # fd /\ PeerOf(f) = {}
      BY <1>2, <2>2, <3>1 DEF PeerOf
    <3> QED
      BY <1>2, <3>2 DEF AllInStep
  <2>3. AllInStep'
    BY <2>1, <2>2 DEF AllInStep, PeerOf
  <2>4. Orderly'
    BY <1>2 DEF Orderly
  <2> QED
    BY <2>3, <2>4
\* A step of the server for the client on fd.
<1>3. ASSUME NEW fd \in Sockets, UNCHANGED app,
             \A f \in Sockets \ {fd} : UNCHANGED <<up[f], serving[f], down[f]>>,
             \A f \in Sockets \ {fd} : Shrinks(sessions, sessions', f),
             \A c \in Clients : app[c].fd = fd =>
                 InStep(app[c], up'[fd], serving'[fd], down'[fd], sessions'),
             PeerOf(fd) = {} => up'[fd] = <<>> /\ serving'[fd] = NoLine
      PROVE  AllInStep'
  <2>1. ASSUME NEW d \in Clients, Running(d)
        PROVE  InStep(app[d], up'[app[d].fd], serving'[app[d].fd], down'[app[d].fd], sessions')
    <3>1. CASE app[d].fd = fd
      BY <1>3, <3>1
    <3>2. CASE app[d].fd # fd
      BY <1>1, <1>3, <2>1, <3>2, InStepShrinks
    <3> QED
      BY <3>1, <3>2
  <2>2. ASSUME NEW f \in Sockets, PeerOf(f) = {}
        PROVE  up'[f] = <<>> /\ serving'[f] = NoLine
    BY <1>3, <2>2 DEF AllInStep
  <2> QED
    BY <1>3, <2>1, <2>2 DEF AllInStep, PeerOf, Running
<1>4. \A f \in Sockets : UNCHANGED sessions => Shrinks(sessions, sessions', f)
  BY DEF Shrinks
<1>5. ASSUME NEW c \in Clients, NEW fd \in Sockets, Start(c, fd) PROVE AllInStep' /\ Orderly'
  <2>1. serving[fd] = NoLine /\ \A d \in Clients : app[d].fd # fd
    BY <1>0, <1>5, StartFacts, OwnSocket DEF Running, Connected
  <2>2. NoEntry(sessions, fd)
    BY <1>5, StartFacts DEF Orderly, NoEntry
  <2>3. InStep(Fresh(fd), <<>>, NoLine, <<>>, sessions)
    BY <2>2, OffFacts DEF InStep, Resting, NoAnswer
  <2>4. /\ app'[c] = Fresh(fd) /\ app'[c].fd = fd /\ up'[fd] = <<>> /\ down'[fd] = <<>>
        /\ serving'[fd] = NoLine /\ UNCHANGED <<sessions, serving>>
        /\ app[c].fd = NoSocket
        /\ \A d \in Clients \ {c} : app'[d] = app[d]
        /\ \A f \in Sockets \ {fd} : up'[f] = up[f] /\ down'[f] = down[f]
    BY <1>5, <2>1, StartFacts, OffFacts DEF OnlyApp, OnlyUp, OnlyDown
  <2>5. ASSUME NEW d \in Clients, Running(d)'
        PROVE  InStep(app'[d], up'[app'[d].fd], serving'[app'[d].fd], down'[app'[d].fd], sessions')
    <3>1. CASE d = c
      BY <2>3, <2>4, <3>1
    <3>2. CASE d # c
      <4>1. app'[d] = app[d] /\ Running(d)
        BY <2>4, <2>5, <3>2 DEF Running
      <4>2. app[d].fd \in Sockets \ {fd}
        BY <1>1, <2>1, <4>1
      <4> QED
        BY <1>1, <2>4, <4>1, <4>2
    <3> QED
      BY <3>1, <3>2
  <2>6. ASSUME NEW f \in Sockets, \A d \in Clients : app'[d].fd # f
        PROVE  up'[f] = <<>> /\ serving'[f] = NoLine
    <3>1. f # fd /\ PeerOf(f) = {}
      BY <1>0, <2>4, <2>6 DEF PeerOf
    <3> QED
      BY <2>4, <3>1 DEF AllInStep
  <2>7. AllInStep'
    BY <2>5, <2>6 DEF AllInStep, PeerOf
  <2>8. Orderly'
    <3>1. conn'[fd] = "open" /\ \A f \in Sockets \ {fd} : conn'[f] = conn[f]
      BY <1>5, StartFacts DEF OnlyConn
    <3> QED
      BY <2>4, <3>1, EntriesTyped DEF Orderly
  <2> QED
    BY <2>7, <2>8
<1>6. ASSUME NEW c \in Clients, NEW to \in {"LOGIN", "REGISTER"}, SwitchScreen(c, to)
      PROVE  AllInStep' /\ Orderly'
  <2>1. Running(c) /\ app[c].ask = NoRequest /\ app[c].screen # "CHAT"
    BY <1>6, SwitchFacts
  <2> PICK fd \in Sockets : fd = app[c].fd
    BY <1>1, <2>1
  <2>2. /\ OnlyApp(c) /\ SameBut(app[c], app'[c], {"screen"})
        /\ UNCHANGED <<sessions, conn, up, down, serving>>
    BY <1>6, SwitchFacts
  <2>3. app'[c].fd = fd /\ app'[c].ask = NoRequest
    BY <2>1, <2>2 DEF SameBut
  <2>4. InStep(app'[c], up[fd], serving[fd], down[fd], sessions)
    BY <1>1, <2>1, <2>3 DEF InStep, Resting
  <2> QED
    BY <1>2, <2>1, <2>2, <2>3, <2>4
<1>7. ASSUME NEW c \in Clients, NEW u \in Usernames, NEW p \in Passwords, Press(c, u, p)
      PROVE  AllInStep' /\ Orderly'
  <2> PICK fd \in Sockets : fd = app[c].fd
    BY <1>7, PressFacts
  <2>1. PICK r \in RequestType :
           /\ OnlyApp(c)
           /\ SameBut(app[c], app'[c], {"ask", "slot", "typed"})
           /\ app'[c].ask = r /\ app'[c].slot = NoLine
           /\ OnlyUp(fd) /\ up'[fd] = Append(up[fd], r)
    BY <1>7, PressFacts
  <2>2. /\ Running(c) /\ app[c].ask = NoRequest /\ app[c].screen # "CHAT"
        /\ UNCHANGED <<sessions, conn, down, serving>>
    BY <1>7, PressFacts
  <2>3. app'[c].fd = fd /\ app[c] \in AppType /\ app'[c] \in AppType
    BY <1>1, <2>1, <2>2 DEF SameBut, OnlyApp
  <2>4. InStep(app'[c], up'[fd], serving[fd], down[fd], sessions)
    BY <1>1, <2>1, <2>2, <2>3, PressInStep
  <2> QED
    BY <1>2, <2>1, <2>2, <2>3, <2>4 DEF OnlyUp
<1>8. ASSUME NEW c \in Clients, Listen(c) PROVE AllInStep' /\ Orderly'
  <2> PICK fd \in Sockets : fd = app[c].fd
    BY <1>8, ListenFacts
  <2> PICK w \in Seq(LineType) : w = down[fd]
    BY DEF LoginTyped
  <2>1. PICK n \in DOMAIN w :
           /\ Taken(w, n, down'[fd])
           /\ \/ app'[c] = app[c] /\ app[c].screen = "CHAT"
              \/ SameBut(app[c], app'[c], {"slot"}) /\ app'[c].slot = w[1]
    BY <1>8, ListenFacts
  <2>2. Running(c) /\ OnlyApp(c) /\ OnlyDown(fd) /\ UNCHANGED <<sessions, conn, up, serving>>
    BY <1>8, ListenFacts
  <2>3. app[c].screen = "CHAT" => app[c].ask = NoRequest
    BY <2>2 DEF Credentials, Justified
  <2>4. InStep(app[c], up[fd], serving[fd], w, sessions) /\ app[c] \in AppType
    BY <1>1, <2>2
  <2>5. InStep(app'[c], up[fd], serving[fd], down'[fd], sessions)
    <3> PICK a \in AppType : a = app[c]
      BY <2>4
    <3> PICK b : b = app'[c]
      OBVIOUS
    <3>1. \/ b = a /\ a.ask = NoRequest
          \/ SameBut(a, b, {"slot"}) /\ b.slot = w[1]
      BY <2>1, <2>3
    <3>2. InStep(a, up[fd], serving[fd], w, sessions)
      BY <2>4
    <3> QED
      BY <2>1, <3>1, <3>2, ListenInStep
  <2>6. app'[c].fd = fd
    BY <2>1 DEF SameBut
  <2> QED
    BY <1>2, <2>2, <2>5, <2>6 DEF OnlyDown
<1>9. ASSUME NEW c \in Clients, Poll(c) PROVE AllInStep' /\ Orderly'
  <2>1. Running(c)
    BY <1>9, PollFacts, OffFacts DEF Connected
  <2> PICK fd \in Sockets : fd = app[c].fd
    BY <1>1, <2>1
  <2>2. app[c].ask # NoRequest /\ app[c].slot # NoLine /\ app[c].slot.id = app[c].ask.id
    BY <1>9, PollFacts
  <2>3. /\ OnlyApp(c) /\ app'[c].fd = fd /\ app'[c].ask = NoRequest
        /\ app[c].ask.kind = "LOGIN" /\ app[c].slot.what = "LOGIN_SUCCESS" =>
              app'[c].screen = "CHAT" /\ app'[c].current_user_id = app[c].slot.user
        /\ UNCHANGED <<sessions, conn, up, down, serving>>
    BY <1>9, PollFacts DEF SameBut
  <2>4. InStep(app'[c], up[fd], serving[fd], down[fd], sessions)
    BY <1>1, <2>1, <2>2, <2>3, PollInStep
  <2> QED
    BY <1>2, <2>1, <2>3, <2>4
<1>10. ASSUME NEW c \in Clients, TimeOut(c) PROVE FALSE
  BY <1>10, TimeOutFacts
<1>11. ASSUME NEW c \in Clients, Quit(c) PROVE AllInStep' /\ Orderly'
  <2>1. /\ Running(c) /\ app[c].ask = NoRequest /\ app'[c].fd = NoSocket
        /\ \A d \in Clients \ {c} : app'[d] = app[d]
        /\ UNCHANGED <<sessions, conn, up, down, serving>>
    BY <1>11, QuitFacts, OffFacts DEF OnlyApp
  <2> PICK fd \in Sockets : fd = app[c].fd
    BY <1>1, <2>1
  <2>2. up[fd] = <<>> /\ serving[fd] = NoLine
    BY <1>1, <2>1 DEF InStep, Resting
  <2>3. \A d \in Clients : Running(d)' => app'[d] = app[d] /\ Running(d)
    BY <2>1 DEF Running
  <2>4. ASSUME NEW f \in Sockets, \A d \in Clients : app'[d].fd # f
        PROVE  up'[f] = <<>> /\ serving'[f] = NoLine
    <3>1. CASE f = fd
      BY <2>1, <2>2, <3>1
    <3>2. CASE f # fd
      BY <2>1, <2>4, <3>2 DEF AllInStep, PeerOf
    <3> QED
      BY <3>1, <3>2
  <2>5. AllInStep'
    BY <1>1, <2>1, <2>3, <2>4 DEF AllInStep, PeerOf
  <2>6. Orderly'
    BY <2>1 DEF Orderly
  <2> QED
    BY <2>5, <2>6
<1>12. ASSUME NEW fd \in Sockets, Serve(fd) PROVE AllInStep' /\ Orderly'
  <2>1. /\ UNCHANGED <<app, down>>
        /\ \A f \in Sockets \ {fd} : up'[f] = up[f] /\ serving'[f] = serving[f]
    BY <1>12, ServeFacts DEF OnlyUp, OnlyServing
  <2>2. /\ \A c \in Clients : app[c].fd = fd =>
              InStep(app[c], up'[fd], serving'[fd], down[fd], sessions')
        /\ \A f \in Sockets \ {fd} : Shrinks(sessions, sessions', f)
        /\ PeerOf(fd) # {}
        /\ Orderly'
    BY <1>12, ServeInStep
  <2> QED
    BY <1>3, <2>1, <2>2
<1>13. ASSUME NEW fd \in Sockets, Reply(fd) PROVE AllInStep' /\ Orderly'
  <2>1. /\ serving[fd] \in ReplyType /\ serving'[fd] = NoLine
        /\ PeerOf(fd) # {} => down'[fd] = Append(down[fd], serving[fd])
        /\ \A f \in Sockets \ {fd} : serving'[f] = serving[f] /\ down'[f] = down[f]
        /\ UNCHANGED <<sessions, conn, up, app>>
    BY <1>13, ReplyFacts DEF OnlyServing, OnlyDown
  <2>2. ASSUME NEW c \in Clients, app[c].fd = fd
        PROVE  InStep(app[c], up'[fd], serving'[fd], down'[fd], sessions')
    <3>1. Running(c) /\ PeerOf(fd) # {}
      BY <1>0, <2>2 DEF Running, PeerOf
    <3>2. InStep(app[c], up[fd], serving[fd], down[fd], sessions) /\ down[fd] \in Seq(LineType)
      BY <1>1, <2>2, <3>1
    <3>3. InStep(app[c], up[fd], NoLine, Append(down[fd], serving[fd]), sessions)
      BY <2>1, <3>2, ReplyInStep
    <3> QED
      BY <2>1, <3>1, <3>3
  <2>3. PeerOf(fd) = {} => up'[fd] = <<>> /\ serving'[fd] = NoLine
    BY <2>1 DEF AllInStep
  <2>4. Orderly'
    BY <2>1 DEF Orderly
  <2> QED
    BY <1>3, <1>4, <2>1, <2>2, <2>3, <2>4
<1>14. ASSUME NEW fd \in Sockets, Push(fd) PROVE AllInStep' /\ Orderly'
  <2>1. /\ PeerOf(fd) # {} => down'[fd] = Append(down[fd], Pushed)
        /\ \A f \in Sockets \ {fd} : down'[f] = down[f]
        /\ UNCHANGED <<sessions, conn, serving, up, app>>
    BY <1>14, PushFacts DEF OnlyDown
  <2>2. ASSUME NEW c \in Clients, app[c].fd = fd
        PROVE  InStep(app[c], up'[fd], serving'[fd], down'[fd], sessions')
    <3>1. Running(c) /\ PeerOf(fd) # {}
      BY <1>0, <2>2 DEF Running, PeerOf
    <3>2. InStep(app[c], up[fd], serving[fd], down[fd], sessions) /\ down[fd] \in Seq(LineType)
      BY <1>1, <2>2, <3>1
    <3>3. InStep(app[c], up[fd], serving[fd], Append(down[fd], Pushed), sessions)
      BY <3>2, PushInStep
    <3> QED
      BY <2>1, <3>1, <3>3
  <2>3. PeerOf(fd) = {} => up'[fd] = <<>> /\ serving'[fd] = NoLine
    BY <2>1 DEF AllInStep
  <2>4. Orderly'
    BY <2>1 DEF Orderly
  <2> QED
    BY <1>3, <1>4, <2>1, <2>2, <2>3, <2>4
<1>15. ASSUME NEW fd \in Sockets, Disconnect(fd) PROVE AllInStep' /\ Orderly'
  <2>1. /\ serving[fd] = NoLine /\ PeerOf(fd) = {} /\ up'[fd] = <<>>
        /\ \A f \in Sockets \ {fd} : up'[f] = up[f] /\ conn'[f] = conn[f]
        /\ UNCHANGED <<down, serving, app>>
    BY <1>15, EndFacts DEF OnlyUp, OnlyConn
  <2>2. sessions \in Seq(SM!UserSession) /\ sessions' = SM!RemoveBySocket(sessions, fd)
    BY <1>15, EndFacts DEF LoginTyped
  <2>3. /\ OneEach(sessions') /\ NoEntry(sessions', fd)
        /\ \A i \in DOMAIN sessions' : \E j \in DOMAIN sessions : sessions'[i] = sessions[j]
    BY <2>2, RemoveTable DEF Orderly
  <2>4. \A f \in Sockets \ {fd} : Shrinks(sessions, sessions', f)
    BY <2>3 DEF Shrinks
  <2>5. \A c \in Clients : app[c].fd # fd
    BY <2>1 DEF PeerOf
  <2>6. \A j \in DOMAIN sessions : sessions[j].socket_fd \in Sockets
    BY EntriesTyped
  <2>7. Orderly'
    BY <2>1, <2>3, <2>6 DEF Orderly, NoEntry
  <2> QED
    BY <1>3, <2>1, <2>4, <2>5, <2>7
<1>16. ASSUME NEW fd \in Sockets, Close(fd) PROVE AllInStep' /\ Orderly'
  <2>1. /\ conn[fd] = "removed" /\ \A f \in Sockets \ {fd} : conn'[f] = conn[f]
        /\ UNCHANGED <<sessions, app, up, down, serving>>
    BY <1>16, CloseFacts DEF OnlyConn
  <2>2. \A j \in DOMAIN sessions : sessions[j].socket_fd \in Sockets \ {fd}
    BY <2>1, EntriesTyped DEF Orderly
  <2>3. Orderly'
    BY <2>1, <2>2 DEF Orderly
  <2>4. AllInStep'
    BY <2>1 DEF AllInStep, Running, PeerOf
  <2> QED
    BY <2>3, <2>4
<1>17. CASE UNCHANGED loginVars
  BY <1>17 DEF loginVars, AllInStep, Running, PeerOf, Orderly
<1> QED
  BY <1>5, <1>6, <1>7, <1>8, <1>9, <1>10, <1>11, <1>12, <1>13, <1>14, <1>15, <1>16, <1>17
     DEF LoginNext

\* Once an answer was lost it stays lost.
LEMMA LostStays == LoginTyped /\ [LoginNext]_loginVars /\ lost => lost'
<1> SUFFICES ASSUME LoginTyped, [LoginNext]_loginVars, lost PROVE lost'
  OBVIOUS
<1>1. CASE UNCHANGED loginVars
  BY <1>1 DEF loginVars
<1>2. ASSUME NEW c \in Clients, Poll(c) \/ TimeOut(c) PROVE lost'
  BY <1>2 DEF Poll, TimeOut
<1>3. ASSUME LoginNext, ~\E c \in Clients : Poll(c) \/ TimeOut(c) PROVE lost' = lost
  BY <1>3, StartFacts, SwitchFacts, PressFacts, ListenFacts, QuitFacts, ServeFacts,
     ReplyFacts, PushFacts, EndFacts, CloseFacts DEF LoginNext
<1> QED
  BY <1>1, <1>2, <1>3

\* The server takes a client for the user it believes to be, as long as every request
\* ended with its own answer.
THEOREM IdentityIsRight == LoginSpec => []IdentityNeedsLostAnswer
<1>1. LoginInit => Credentials /\ InStepUnlessLost
  <2> SUFFICES ASSUME LoginInit PROVE Credentials /\ AllInStep /\ Orderly
    BY DEF InStepUnlessLost
  <2>1. \A c \in Clients : ~Running(c)
    BY OffFacts DEF LoginInit, Running
  <2>2. sessions = <<>>
    BY DEF LoginInit, SM!Init
  <2> QED
    BY <2>1, <2>2 DEF LoginInit, Credentials, AllInStep, Orderly, OneEach
<1>2. LoginTyped /\ Connected /\ Credentials /\ InStepUnlessLost /\ [LoginNext]_loginVars
        => InStepUnlessLost'
  BY NextInStep, LostStays DEF InStepUnlessLost
<1>3. LoginTyped /\ Connected /\ Credentials /\ InStepUnlessLost => IdentityNeedsLostAnswer
  <2> SUFFICES ASSUME LoginTyped, Connected, Credentials, AllInStep, NEW c \in Clients,
                      app[c].screen = "CHAT"
               PROVE  SM!GetUser(sessions, app[c].fd) \in {app[c].current_user_id, NoUser}
    BY DEF IdentityNeedsLostAnswer, InStepUnlessLost
  <2>1. Running(c) /\ app[c].ask = NoRequest
    BY OffFacts DEF Connected, Credentials, Justified
  <2> PICK fd : fd = app[c].fd
    OBVIOUS
  <2>2. NoEntry(sessions, fd) \/ Named(sessions, fd, app[c].current_user_id)
    BY <2>1 DEF AllInStep, InStep, Resting
  <2>3. SM!OfSocket(sessions, fd) # {} =>
           SM!First(SM!OfSocket(sessions, fd)) \in SM!OfSocket(sessions, fd)
    <3>1. SM!OfSocket(sessions, fd) \in SUBSET Nat
      BY DEF SM!OfSocket, LoginTyped
    <3> QED
      <4> PICK S \in SUBSET Nat : S = SM!OfSocket(sessions, fd)
        BY <3>1
      <4>1. SM!First(S) = Table!First(S)
        BY DEF SM!First, Table!First
      <4>2. ASSUME S # {} PROVE Table!First(S) \in S
        <5>1. Table!SessionAssumption
          BY LoginAssumption DEF Table!SessionAssumption
        <5> QED
          BY <4>2, <5>1, Table!FirstIsLeast
      <4> QED
        BY <4>1, <4>2
  <2> QED
    BY <2>2, <2>3 DEF SM!GetUser, SM!OfSocket, NoEntry, Named
<1> QED
  BY <1>1, <1>2, <1>3, InitLoginTyped, NextLoginTyped, InitConnected, NextConnected,
     NextCredentials, PTL DEF LoginSpec

=============================================================================
