------------------------------ MODULE Registry ------------------------------
(***************************************************************************)
(* Accounts, groups and memberships: the commands REGISTER, CREATE_GROUP   *)
(* and JOIN_GROUP over the collections "user", "groups" and "groupusers".  *)
(*                                                                         *)
(* REGISTER looks the name up and inserts an account.  CREATE_GROUP        *)
(* inserts a group and then the owner's membership, and answers with       *)
(* success even if the second insert fails.  JOIN_GROUP looks the group up *)
(* twice, looks the membership up, and inserts it.  Each lookup is a scan  *)
(* of a file, each insert the three steps of PeachCollection, and nothing  *)
(* is locked, so the steps of the handler threads interleave freely.       *)
(***************************************************************************)
EXTENDS Integers, Sequences, FiniteSets

CONSTANTS Threads,      \* the handler threads of the server
          Users,        \* the ids of users who are logged in
          UserOf,       \* the user each thread serves; two threads may serve
                        \* one user, who has logged in on two connections
          Names,        \* the usernames clients try to register
          MaxGroupId,   \* bound: clients join the groups 1..MaxGroupId
          MaxCommands   \* bound: commands received by all threads

ASSUME RegistryAssumption == /\ UserOf \in [Threads -> Users]
                             /\ Names # {}
                             /\ MaxGroupId \in Nat
                             /\ MaxCommands \in Nat

VARIABLES db,        \* the records of each collection, in order
          pc,        \* what each thread does next
          job,       \* the command of each thread and the record it inserts
          next,      \* per collection, the key each thread computed
          seen,      \* history: length of the file when the key was computed
          checked,   \* history: length of the file when scanned for the key
          commands   \* how many commands were received

inserts == <<next, seen, checked>>
vars == <<db, pc, job, inserts, commands>>

Collections == {"user", "groups", "groupusers"}

(***************************************************************************)
(* The content of a record without its key: the name of an account, the    *)
(* owner of a group, the group and the user of a membership.  The field    *)
(* looked is history: how long "user" or "groupusers" was when the command *)
(* looked for the content (CREATE_GROUP looks for nothing: when it began). *)
(***************************************************************************)
Content == Names \cup Users \cup (Nat \X Users)

NoJob == [op |-> "none", coll |-> "user", content |-> CHOOSE n \in Names : TRUE,
          looked |-> 0]

Keys(c) == {db[c][i].key : i \in DOMAIN db[c]}

Contents(c) == {db[c][i].content : i \in DOMAIN db[c]}

Finish(t) == /\ pc' = [pc EXCEPT ![t] = "idle"]
             /\ job' = [job EXCEPT ![t] = NoJob]

(***************************************************************************)
(* Variants with a bug each, used to show that the properties can fail.    *)
(***************************************************************************)
\* The key of the last line taken for the highest one.
LastKey(c) == IF db[c] = <<>> THEN 0 ELSE db[c][Len(db[c])].key

\* The result of the search for the group ignored.
JoinAnyGroup(t) ==
    /\ pc[t] = "group"
    /\ job[t].content[1] \notin Keys("groups")
    /\ pc' = [pc EXCEPT ![t] = "member"]
    /\ UNCHANGED <<db, job, inserts, commands>>

\* A membership that exists taken for one that is missing.
JoinAgain(t) ==
    /\ pc[t] = "member"
    /\ job[t].content \in Contents("groupusers")
    /\ pc' = [pc EXCEPT ![t] = "key"]
    /\ job' = [job EXCEPT ![t].looked = Len(db["groupusers"])]
    /\ UNCHANGED <<db, inserts, commands>>

\* A name that exists taken for one that is free.
RegisterAgain(t) ==
    /\ pc[t] = "name"
    /\ job[t].content \in Contents("user")
    /\ pc' = [pc EXCEPT ![t] = "key"]
    /\ job' = [job EXCEPT ![t].looked = Len(db["user"])]
    /\ UNCHANGED <<db, inserts, commands>>

\* The group added without its owner.
ForgetOwner(t) == Finish(t)

\* The record of the group written once more as the membership.
WriteGroupAgain(t) ==
    IF job[t].coll = "groups"
    THEN /\ pc' = [pc EXCEPT ![t] = "key"]
         /\ job' = [job EXCEPT ![t].coll = "groupusers"]
    ELSE Finish(t)

-----------------------------------------------------------------------------
\* Peach_get_highest_key of a collection that has its file.
HighestKey(c) == CHOOSE h \in {0} \cup Keys(c) : \A k \in Keys(c) : k <= h

Init == /\ db = [c \in Collections |-> <<>>]
        /\ pc = [t \in Threads |-> "idle"]
        /\ job = [t \in Threads |-> NoJob]
        /\ next = [c \in Collections |-> [t \in Threads |-> 0]]
        /\ seen = [c \in Collections |-> [t \in Threads |-> 0]]
        /\ checked = [c \in Collections |-> [t \in Threads |-> 0]]
        /\ commands = 0

\* A thread receives a command and starts with the step "at".
Receive(t, at, op, c, x) ==
    /\ pc[t] = "idle"
    /\ commands < MaxCommands
    /\ commands' = commands + 1
    /\ pc' = [pc EXCEPT ![t] = at]
    /\ job' = [job EXCEPT ![t] = [op |-> op, coll |-> c, content |-> x,
                                  looked |-> Len(db["groupusers"])]]
    /\ UNCHANGED <<db, inserts>>

Register(t, n) == Receive(t, "name", "register", "user", n)

CreateGroup(t) == Receive(t, "key", "create", "groups", UserOf[t])

JoinGroup(t, g) == Receive(t, "group", "join", "groupusers", <<g, UserOf[t]>>)

\* UserService_register: User_read_by_username finds the name, so it fails.
NameTaken(t) ==
    /\ pc[t] = "name"
    /\ job[t].content \in Contents("user")
    /\ Finish(t)
    /\ UNCHANGED <<db, inserts, commands>>

NameFree(t) ==
    /\ pc[t] = "name"
    /\ job[t].content \notin Contents("user")
    /\ pc' = [pc EXCEPT ![t] = "key"]
    /\ job' = [job EXCEPT ![t].looked = Len(db["user"])]
    /\ UNCHANGED <<db, inserts, commands>>

\* GroupService_get_group_name, which JOIN_GROUP calls in client_handler and
\* again in GroupService_join_group.
GroupFound(t) ==
    /\ pc[t] \in {"group", "group again"}
    /\ job[t].content[1] \in Keys("groups")
    /\ pc' = [pc EXCEPT ![t] = IF @ = "group" THEN "group again" ELSE "member"]
    /\ UNCHANGED <<db, job, inserts, commands>>

\* A group is never removed, so only the first of the two calls can fail.
GroupNotFound(t) ==
    /\ pc[t] = "group"
    /\ job[t].content[1] \notin Keys("groups")
    /\ Finish(t)
    /\ UNCHANGED <<db, inserts, commands>>

\* GroupService_join_group reads the members of the group.
AlreadyMember(t) ==
    /\ pc[t] = "member"
    /\ job[t].content \in Contents("groupusers")
    /\ Finish(t)
    /\ UNCHANGED <<db, inserts, commands>>

NotMember(t) ==
    /\ pc[t] = "member"
    /\ job[t].content \notin Contents("groupusers")
    /\ pc' = [pc EXCEPT ![t] = "key"]
    /\ job' = [job EXCEPT ![t].looked = Len(db["groupusers"])]
    /\ UNCHANGED <<db, inserts, commands>>

(***************************************************************************)
(* The three steps of an insert.                                           *)
(***************************************************************************)
GetNextKey(t) ==
    LET c == job[t].coll
    IN  /\ pc[t] = "key"
        /\ next' = [next EXCEPT ![c][t] = HighestKey(c) + 1]
        /\ seen' = [seen EXCEPT ![c][t] = Len(db[c])]
        /\ pc' = [pc EXCEPT ![t] = "check"]
        /\ UNCHANGED <<db, job, checked, commands>>

\* The insert fails.  REGISTER, JOIN_GROUP and the first insert of CREATE_GROUP
\* fail with it; after the second CREATE_GROUP still returns the group's id.
FindDuplicate(t) ==
    LET c == job[t].coll
    IN  /\ pc[t] = "check"
        /\ next[c][t] \in Keys(c)
        /\ Finish(t)
        /\ UNCHANGED <<db, inserts, commands>>

FindNoDuplicate(t) ==
    LET c == job[t].coll
    IN  /\ pc[t] = "check"
        /\ next[c][t] \notin Keys(c)
        /\ checked' = [checked EXCEPT ![c][t] = Len(db[c])]
        /\ pc' = [pc EXCEPT ![t] = "append"]
        /\ UNCHANGED <<db, job, next, seen, commands>>

\* What follows an insert that has succeeded: CREATE_GROUP goes on with the
\* membership of the owner, any other command is done.
AfterAppend(t) ==
    IF job[t].coll = "groups"
    THEN /\ pc' = [pc EXCEPT ![t] = "key"]
         /\ job' = [job EXCEPT ![t].coll = "groupusers",
                               ![t].content = <<next["groups"][t], UserOf[t]>>]
    ELSE Finish(t)

NewRecord(t) ==
    LET c == job[t].coll
    IN  [key |-> next[c][t], content |-> job[t].content, by |-> t,
         seen |-> seen[c][t], checked |-> checked[c][t], looked |-> job[t].looked]

AppendRecord(t) ==
    /\ pc[t] = "append"
    /\ db' = [db EXCEPT ![job[t].coll] = Append(@, NewRecord(t))]
    /\ AfterAppend(t)
    /\ UNCHANGED <<inserts, commands>>

Step(t) == \/ \E n \in Names : Register(t, n)
           \/ CreateGroup(t)
           \/ \E g \in 1..MaxGroupId : JoinGroup(t, g)
           \/ NameTaken(t)
           \/ NameFree(t)
           \/ GroupFound(t)
           \/ GroupNotFound(t)
           \/ AlreadyMember(t)
           \/ NotMember(t)
           \/ GetNextKey(t)
           \/ FindDuplicate(t)
           \/ FindNoDuplicate(t)
           \/ AppendRecord(t)

Next == \E t \in Threads : Step(t)

Spec == Init /\ [][Next]_vars

-----------------------------------------------------------------------------
(***************************************************************************)
(* Properties                                                              *)
(***************************************************************************)
Record(X) == [key : Nat \ {0}, content : X, by : Threads,
              seen : Nat, checked : Nat, looked : Nat]

\* The type invariant: every record has the content its collection is for.
TypeOK ==
    /\ DOMAIN db = Collections
    /\ db["user"] \in Seq(Record(Names))
    /\ db["groups"] \in Seq(Record(Users))
    /\ db["groupusers"] \in Seq(Record(Nat \X Users))
    /\ pc \in [Threads -> {"idle", "name", "group", "group again", "member",
                           "key", "check", "append"}]
    /\ job \in [Threads -> [op : {"none", "register", "create", "join"},
                            coll : Collections, content : Content, looked : Nat]]
    /\ next \in [Collections -> [Threads -> Nat]]
    /\ seen \in [Collections -> [Threads -> Nat]]
    /\ checked \in [Collections -> [Threads -> Nat]]
    /\ commands \in 0..MaxCommands

\* Every membership is of a group that exists: GET_MY_GROUPS finds a name for
\* each group it lists.  CREATE_GROUP writes the group first, JOIN_GROUP looks
\* it up, and no thread can see the two files in between out of step.
MembershipHasGroup ==
    \A i \in DOMAIN db["groupusers"] :
        db["groupusers"][i].content[1] \in Keys("groups")

\* Two accounts share a name only when the second registration had looked the
\* name up before the first account was written.
NameTwiceNeedsOverlap ==
    \A i, j \in DOMAIN db["user"] :
        i < j /\ db["user"][i].content = db["user"][j].content =>
            db["user"][j].looked < i

\* A user is in a group twice (and is sent each of its messages twice) only
\* when the second command had looked the membership up before the first was
\* written.  CREATE_GROUP does not look, but takes an id no group had.
MemberTwiceNeedsOverlap ==
    \A i, j \in DOMAIN db["groupusers"] :
        /\ i < j
        /\ db["groupusers"][i].content = db["groupusers"][j].content
        => db["groupusers"][j].looked < i

\* Thread t has written group g and not finished with its owner's membership.
Creating(t, g) == /\ job[t].op = "create"
                  /\ job[t].coll = "groupusers"
                  /\ next["groups"][t] = g

\* A group without its owner among the members, although the owner was told
\* that it was created, was created while another thread wrote a membership.
OwnerMissingNeedsOverlap ==
    \A i \in DOMAIN db["groups"] :
        LET r == db["groups"][i]
        IN  \/ <<r.key, r.content>> \in Contents("groupusers")
            \/ Creating(r.by, r.key)
            \/ \E j \in DOMAIN db["groupusers"] :
                   j > r.looked /\ db["groupusers"][j].by # r.by

\* The refinement mapping onto PeachCollection, one for each collection.
\* Between two inserts into a collection a thread is idle there.
In(c) == [t \in Threads |-> IF job[t].coll = c /\ pc[t] \in {"check", "append"}
                            THEN pc[t] ELSE "idle"]

Lines(c) == [i \in DOMAIN db[c] |->
               [key |-> db[c][i].key, by |-> db[c][i].by,
                seen |-> db[c][i].seen, checked |-> db[c][i].checked]]

\* A command inserts at most one record into a collection, so the bound of
\* PeachCollection is never reached.
Accounts == INSTANCE PeachCollection
            WITH MaxRecords <- MaxCommands, file <- Lines("user"), pc <- In("user"),
                 next <- next["user"], seen <- seen["user"],
                 checked <- checked["user"]

Groups == INSTANCE PeachCollection
          WITH MaxRecords <- MaxCommands, file <- Lines("groups"), pc <- In("groups"),
               next <- next["groups"], seen <- seen["groups"],
               checked <- checked["groups"]

Members == INSTANCE PeachCollection
           WITH MaxRecords <- MaxCommands, file <- Lines("groupusers"),
                pc <- In("groupusers"), next <- next["groupusers"],
                seen <- seen["groupusers"], checked <- checked["groupusers"]

\* Each collection, as the commands use it, is a PeachCollection: whatever is
\* shown of concurrent inserts there holds of accounts, groups and memberships.
ImplementsCollections == Accounts!Spec /\ Groups!Spec /\ Members!Spec

=============================================================================
