---------------------------- MODULE StoreProofs -----------------------------
(***************************************************************************)
(* Proofs about the files of PeachDB, for any collections in any order and *)
(* any number of records, crashes and failures.                            *)
(*                                                                         *)
(* A record is lost if its collection is created once more, or if a file   *)
(* goes before the one that replaces it is there.  The invariant says of   *)
(* each collection with records that no start creates it again, because    *)
(* the index lists it, or has been left without a count, or is about to be *)
(* written from memory; and of an update or a deletion which of its two    *)
(* files is whole.                                                         *)
(*                                                                         *)
(* The second part is about what is read from the files of messages and    *)
(* rooms and sent to a client as one string (History), for texts of any    *)
(* length and buffers of any size.  The server's loops and strtok_r are    *)
(* recursive functions over a sequence: Loop says what one computes, and   *)
(* the laws of each operator follow from it.  An induction over sequences  *)
(* is an induction over the naturals, stated with sets.  What is shown of  *)
(* a chat is then known entry by entry, since each ends with ";".          *)
(***************************************************************************)
EXTENDS Store, History, WellFoundedInduction, SequenceTheorems, TLAPS

Phases == {"down", "init", "count", "read", "file", "header", "index", "list",
           "serving", "copy", "remove", "rename"}

Typed == /\ index \in Seq(Collections) \cup {NoFile, Empty}
         /\ file \in [Collections -> Seq(Int) \cup {NoFile}]
         /\ temp \in [Collections -> Seq(Int) \cup {NoFile}]
         /\ pc \in Phases
         /\ at \in DOMAIN Order
         /\ lines \in Seq(Collections)
         /\ job \in [op : {"none", "update", "delete"}, coll : Collections, key : Nat]
         /\ acked \in [Collections -> SUBSET Int]
         /\ skipped \in BOOLEAN

Ordered == {Order[i] : i \in DOMAIN Order}

Creating == {"file", "header", "index", "list"}

\* The index, while a collection is created: what is in memory is what is, or
\* was, on the disk, and the collection is not in it.
IndexOK ==
    /\ pc \in {"down", "init", "count"} => at = 1
    /\ pc = "count" => index = Empty
    /\ pc \in {"read"} \cup Creating => index # NoFile
    /\ pc \in Creating => Order[at] \notin Listed(lines)
    /\ pc \in Creating \ {"list"} => index = lines
    /\ pc = "list" => index = Empty

\* The files of the collection that is being rewritten: the original until it
\* is removed, and the copy from the end of the copying on.
JobOK ==
    LET c == job.coll
    IN  /\ pc \in {"copy", "remove"} => file[c] # NoFile
        /\ pc = "copy" => /\ job.op \in {"update", "delete"}
                          /\ job.op = "delete" => job.key \notin acked[c]
        /\ pc \in {"remove", "rename"} => c \in Ordered /\ temp[c] # NoFile

OnlyOrdered == \A c \in Collections : file[c] # NoFile => c \in Ordered

\* The collections no start creates again.
Known == IF pc = "list" THEN Listed(lines)
         ELSE IF index = Empty THEN Collections ELSE Listed(index)

Kept(c) == IF file[c] = NoFile THEN OnDisk(temp[c]) ELSE OnDisk(file[c])

\* As long as no start has left anything out: a collection with records is
\* known, and once the server serves every collection is.
Safe ==
    /\ index = NoFile => pc \in {"down", "init"} /\ \A c \in Collections : acked[c] = {}
    /\ pc = "count" => \A c \in Collections : acked[c] = {}
    /\ \A c \in Collections : acked[c] # {} => c \in Known
    /\ pc \in {"read"} \cup Creating => \A i \in 1..at - 1 : Order[i] \in Known
    /\ pc \in {"serving", "copy", "remove", "rename"} => Ordered \subseteq Known
    /\ \A c \in Collections : acked[c] \subseteq Kept(c)
    /\ pc \in {"remove", "rename"} => acked[job.coll] \subseteq OnDisk(temp[job.coll])

IInv == Typed /\ IndexOK /\ JobOK /\ OnlyOrdered /\ (~skipped => Safe)

-----------------------------------------------------------------------------
(***************************************************************************)
(* Lemmas about the operators                                              *)
(***************************************************************************)

\* Induction over the natural numbers, for a set of them.
LEMMA InductionSet ==
    ASSUME NEW S, 0 \in S, \A n \in Nat : n \in S => n + 1 \in S
    PROVE  Nat \subseteq S
<1> DEFINE T == Nat \ S
<1> SUFFICES ASSUME T # {} PROVE FALSE
  OBVIOUS
<1>1. \E x \in T : \A y \in T : ~ (<<y, x>> \in OpToRel(<, Nat))
  BY NatLessThanWellFounded, WFMin
<1>2. PICK x \in T : \A y \in T : ~ (<<y, x>> \in OpToRel(<, Nat))
  BY <1>1
<1>3. \A y \in T : ~(y < x)
  BY <1>2 DEF OpToRel
<1>4. x \in Nat /\ x \notin S
  BY <1>2
<1>5. x # 0
  BY <1>4
<1>6. x - 1 \in Nat /\ x - 1 < x /\ (x - 1) + 1 = x
  BY <1>4, <1>5
<1>7. x - 1 \in S
  BY <1>3, <1>6
<1>8. (x - 1) + 1 \in S
  BY <1>6, <1>7
<1> QED
  BY <1>4, <1>6, <1>8

\* A file that does not exist is no sequence of lines.
LEMMA NoFileIsNone ==
    ASSUME NEW f \in Seq(Int)
    PROVE  f # NoFile
BY StoreAssumption

\* A file of numbers has a highest key.
LEMMA HighestKeyTyped ==
    ASSUME NEW f \in Seq(Int)
    PROVE  HighestKey(f) \in Int
<1> DEFINE R(m) == {f[i] : i \in {j \in 2..Len(f) : j <= m}}
<1> DEFINE S == {m \in Nat : \E h \in {0} \cup R(m) : \A k \in R(m) : k <= h}
<1>1. 0 \in S
  <2>1. R(0) = {}
    OBVIOUS
  <2> QED
    BY <2>1
<1>2. ASSUME NEW m \in Nat, m \in S PROVE m + 1 \in S
  <2> SUFFICES \E h \in {0} \cup R(m + 1) : \A k \in R(m + 1) : k <= h
    <3> HIDE DEF R
    <3> QED
      OBVIOUS
  <2>1. PICK h \in {0} \cup R(m) : \A k \in R(m) : k <= h
    BY <1>2
  <2>2. CASE m + 1 \in 2..Len(f)
    <3>1. R(m + 1) = R(m) \cup {f[m + 1]}
      BY <2>2
    <3>2. h \in Int /\ f[m + 1] \in Int /\ R(m) \subseteq Int
      BY <2>2
    <3> HIDE DEF R
    <3>3. CASE f[m + 1] <= h
      BY <2>1, <3>1, <3>3
    <3>4. CASE h < f[m + 1]
      <4>1. \A k \in R(m) : k <= f[m + 1]
        BY <2>1, <3>2, <3>4
      <4> QED
        BY <3>1, <3>2, <4>1
    <3> QED
      BY <3>2, <3>3, <3>4
  <2>3. CASE m + 1 \notin 2..Len(f)
    <3>1. R(m + 1) = R(m)
      BY <2>3
    <3> HIDE DEF R
    <3> QED
      BY <2>1, <3>1
  <2> QED
    BY <2>2, <2>3
<1>3. Len(f) \in S
  <2> HIDE DEF S
  <2>1. Nat \subseteq S
    BY <1>1, <1>2, InductionSet
  <2>2. Len(f) \in Nat
    OBVIOUS
  <2> QED
    BY <2>1, <2>2
<1>4. CASE f = <<>>
  BY <1>4 DEF HighestKey, Rows
<1>5. CASE f # <<>>
  <2>1. Rows(f) = R(Len(f))
    BY <1>5, NoFileIsNone DEF Rows
  <2>2. \E h \in {0} \cup Rows(f) : \A k \in Rows(f) : k <= h
    BY <1>3, <2>1
  <2>3. Rows(f) \subseteq Int
    BY <2>1
  <2> QED
    BY <2>2, <2>3 DEF HighestKey
<1> QED
  BY <1>4, <1>5

\* The copy has the first line and every line that is not to be deleted.
LEMMA CopyFacts ==
    ASSUME NEW f \in Seq(Int), NEW op, NEW k
    PROVE  /\ Copy(f, op, k) \in Seq(Int)
           /\ \A i \in DOMAIN f : i = 1 \/ op = "update" \/ f[i] # k =>
                  f[i] \in OnDisk(Copy(f, op, k))
<1> DEFINE keep(i) == i = 1 \/ op = "update" \/ f[i] # k
<1> DEFINE Value(g, i) == IF i = 0 THEN <<>>
                          ELSE IF keep(i) THEN Append(g[i - 1], f[i]) ELSE g[i - 1]
<1> DEFINE Upto(g, n) == g = [i \in 0..n |-> Value(g, i)]
<1> DEFINE N == {n \in Nat : \E g : Upto(g, n)}
<1>1. 0 \in N
  <2>1. Upto([i \in 0..0 |-> <<>>], 0)
    OBVIOUS
  <2> QED
    BY <2>1
<1>2. ASSUME NEW n \in Nat, n \in N PROVE n + 1 \in N
  <2>1. PICK g : Upto(g, n)
    BY <1>2
  <2> DEFINE h == [i \in 0..n + 1 |-> IF i = n + 1 THEN Value(g, n + 1) ELSE g[i]]
  <2>2. ASSUME NEW i \in 0..n + 1 PROVE h[i] = Value(h, i)
    <3>1. CASE i = n + 1
      <4>1. h[i] = Value(g, i) /\ i # 0 /\ h[i - 1] = g[i - 1]
        BY <3>1
      <4> HIDE DEF h, keep
      <4> QED
        BY <4>1
    <3>2. CASE i = 0
      BY <2>1, <3>2
    <3>3. CASE i \in 1..n
      <4>1. h[i] = g[i] /\ i # 0 /\ h[i - 1] = g[i - 1] /\ i \in 0..n
        BY <3>3
      <4>2. g[i] = Value(g, i)
        <5> HIDE DEF Value
        <5> QED
          BY <2>1, <4>1
      <4> HIDE DEF h, keep
      <4> QED
        BY <4>1, <4>2
    <3> QED
      BY <3>1, <3>2, <3>3
  <2>3. h = [i \in 0..n + 1 |-> h[i]]
    OBVIOUS
  <2>4. Upto(h, n + 1)
    <3> HIDE DEF h, Value
    <3> QED
      BY <2>2, <2>3
  <2> HIDE DEF h, Upto
  <2> QED
    BY <2>4
<1>3. Nat \subseteq N
  <2> HIDE DEF N
  <2> QED
    BY <1>1, <1>2, InductionSet
<1>4. PICK g : Upto(g, Len(f)) /\ Copy(f, op, k) = g[Len(f)]
  <2>1. \E g : Upto(g, Len(f))
    <3>1. Len(f) \in Nat
      OBVIOUS
    <3> HIDE DEF Upto
    <3> QED
      BY <1>3, <3>1
  <2> DEFINE F == CHOOSE g : Upto(g, Len(f))
  <2>2. Upto(F, Len(f))
    <3> HIDE DEF Upto
    <3> QED
      BY <2>1
  <2>3. Copy(f, op, k) = F[Len(f)]
    BY DEF Copy
  <2> QED
    BY <2>2, <2>3
<1>5. \A i \in 0..Len(f) : g[i] = Value(g, i)
  <2> HIDE DEF Value
  <2> QED
    BY <1>4
<1> DEFINE M == {n \in Nat : n <= Len(f) =>
                   /\ g[n] \in Seq(Int)
                   /\ \A i \in 1..n : keep(i) => f[i] \in {g[n][j] : j \in DOMAIN g[n]}}
<1>6. 0 \in M
  <2>1. g[0] = <<>>
    <3>1. 0 \in 0..Len(f)
      OBVIOUS
    <3> HIDE DEF keep
    <3> QED
      BY <1>5, <3>1
  <2>2. g[0] \in Seq(Int)
    BY <2>1
  <2> QED
    BY <2>2
<1>7. ASSUME NEW n \in Nat, n \in M PROVE n + 1 \in M
  <2> SUFFICES ASSUME n + 1 <= Len(f)
               PROVE  /\ g[n + 1] \in Seq(Int)
                      /\ \A i \in 1..n + 1 : keep(i) =>
                             f[i] \in {g[n + 1][j] : j \in DOMAIN g[n + 1]}
    OBVIOUS
  <2>1. /\ g[n] \in Seq(Int) /\ f[n + 1] \in Int
        /\ \A i \in 1..n : keep(i) => f[i] \in {g[n][j] : j \in DOMAIN g[n]}
    BY <1>7
  <2>2. g[n + 1] = IF keep(n + 1) THEN Append(g[n], f[n + 1]) ELSE g[n]
    BY <1>5
  <2>3. \A i \in 1..n + 1 : i \in 1..n \/ i = n + 1
    OBVIOUS
  <2> HIDE DEF keep
  <2>4. CASE ~keep(n + 1)
    BY <2>1, <2>2, <2>3, <2>4
  <2>5. CASE keep(n + 1)
    <3> DEFINE a == Append(g[n], f[n + 1])
    <3>1. /\ a \in Seq(Int) /\ DOMAIN a = 1..Len(g[n]) + 1 /\ Len(g[n]) \in Nat
          /\ DOMAIN g[n] = 1..Len(g[n])
          /\ \A j \in DOMAIN g[n] : a[j] = g[n][j]
          /\ a[Len(g[n]) + 1] = f[n + 1]
      <4> DEFINE s == g[n]
                 e == f[n + 1]
      <4>1. s \in Seq(Int) /\ e \in Int
        BY <2>1
      <4> HIDE DEF s, e
      <4>2. /\ Append(s, e) \in Seq(Int) /\ Len(Append(s, e)) = Len(s) + 1
            /\ (\A j \in 1..Len(s) : Append(s, e)[j] = s[j]) /\ Append(s, e)[Len(s) + 1] = e
        BY <4>1, AppendProperties
      <4>3. Len(s) \in Nat /\ DOMAIN s = 1..Len(s)
        BY <4>1, LenProperties
      <4>4. DOMAIN Append(s, e) = 1..Len(s) + 1
        BY <4>2, LenProperties
      <4> QED
        BY <4>2, <4>3, <4>4 DEF s, e
    <3> HIDE DEF a
    <3>2. g[n + 1] = a
      BY <2>2, <2>5 DEF a
    <3>3. \A x \in {g[n][j] : j \in DOMAIN g[n]} \cup {f[n + 1]} : \E j \in DOMAIN a : x = a[j]
      <4>1. DOMAIN g[n] \subseteq DOMAIN a /\ Len(g[n]) + 1 \in DOMAIN a
        BY <3>1
      <4> QED
        BY <3>1, <4>1
    <3>4. \A i \in 1..n + 1 : keep(i) => f[i] \in {a[j] : j \in DOMAIN a}
      BY <2>1, <2>3, <3>3
    <3> QED
      BY <3>1, <3>2, <3>4
  <2> QED
    BY <2>4, <2>5
<1>8. Len(f) \in M
  <2> HIDE DEF M
  <2>1. Nat \subseteq M
    BY <1>6, <1>7, InductionSet
  <2>2. Len(f) \in Nat
    OBVIOUS
  <2> QED
    BY <2>1, <2>2
<1>9. /\ g[Len(f)] \in Seq(Int)
      /\ \A i \in DOMAIN f : keep(i) => f[i] \in {g[Len(f)][j] : j \in DOMAIN g[Len(f)]}
  BY <1>8
<1>10. g[Len(f)] # NoFile
  BY <1>9, NoFileIsNone
<1> HIDE DEF Upto
<1> QED
  BY <1>4, <1>9, <1>10 DEF OnDisk

\* The order of the collections names each of them once.
LEMMA OrderFacts ==
    /\ Len(Order) \in Nat \ {0} /\ DOMAIN Order = 1..Len(Order)
    /\ \A i \in DOMAIN Order : Order[i] \in Collections
    /\ Ordered \subseteq Collections
<1>1. Order \in Seq(Collections) /\ Order # <<>>
  BY StoreAssumption
<1>2. Len(Order) \in Nat \ {0} /\ DOMAIN Order = 1..Len(Order)
  BY <1>1
<1>3. \A i \in DOMAIN Order : Order[i] \in Collections
  BY <1>1
<1> QED
  BY <1>2, <1>3 DEF Ordered

\* No job is a job of its type.
LEMMA NoJobTyped ==
    NoJob \in [op : {"none", "update", "delete"}, coll : Collections, key : Nat]
BY OrderFacts DEF NoJob

\* What an index lists.
LEMMA ListedFacts ==
    /\ \A x \in Seq(Collections) : /\ x # NoFile /\ x # Empty
                                   /\ Listed(x) = {x[i] : i \in DOMAIN x}
    /\ <<>> # NoFile /\ <<>> # Empty /\ Listed(<<>>) = {} /\ <<>> \in Seq(Collections)
    /\ NoFile # Empty
<1>1. <<>> \in Seq(Collections) /\ DOMAIN <<>> = {}
  OBVIOUS
<1>2. \A x \in Seq(Collections) : x # NoFile /\ x # Empty
  BY StoreAssumption
<1>3. \A x \in Seq(Collections) : Listed(x) = {x[i] : i \in DOMAIN x}
  BY <1>2 DEF Listed
<1>4. Listed(<<>>) = {}
  BY <1>1, <1>3
<1> QED
  BY <1>1, <1>2, <1>3, <1>4, StoreAssumption

-----------------------------------------------------------------------------
(***************************************************************************)
(* The invariant is inductive                                              *)
(***************************************************************************)

\* The invariant holds at the start.
LEMMA InitIInv == Init => IInv
<1> SUFFICES ASSUME Init PROVE IInv
  OBVIOUS
<1>1. Typed
  <2>1. at \in DOMAIN Order
    BY OrderFacts DEF Init
  <2>2. job \in [op : {"none", "update", "delete"}, coll : Collections, key : Nat]
    BY NoJobTyped DEF Init
  <2>3. index \in {NoFile} /\ pc \in Phases /\ lines = <<>> /\ skipped = FALSE
    BY DEF Init, Phases
  <2>4. file \in [Collections -> {NoFile}] /\ temp \in [Collections -> {NoFile}]
    BY DEF Init
  <2>5. acked \in [Collections -> SUBSET Int]
    BY DEF Init
  <2>6. lines \in Seq(Collections) /\ skipped \in BOOLEAN
    BY <2>3, ListedFacts
  <2> QED
    BY <2>1, <2>2, <2>3, <2>4, <2>5, <2>6 DEF Typed
<1>2. IndexOK /\ JobOK /\ OnlyOrdered
  BY DEF Init, IndexOK, JobOK, OnlyOrdered, Creating
<1>3. Safe
  BY ListedFacts DEF Init, Safe, Creating
<1> QED
  BY <1>1, <1>2, <1>3 DEF IInv

\* The end of the creation of a collection, when the one created, or passed
\* over, is known from now on.
LEMMA NextCollectionFacts ==
    ASSUME Typed, NextCollection
    PROVE  /\ at' \in DOMAIN Order /\ pc' \in {"serving", "read"}
           /\ lines' = <<>> /\ job' = job
           /\ pc' = "read" => \A i \in 1..at' - 1 : i \in 1..at - 1 \/ i = at
           /\ pc' = "serving" => \A i \in DOMAIN Order : i \in 1..at - 1 \/ i = at
<1>1. at \in 1..Len(Order) /\ Len(Order) \in Nat /\ DOMAIN Order = 1..Len(Order)
  BY OrderFacts DEF Typed
<1>2. CASE at = Len(Order)
  <2>1. pc' = "serving" /\ at' = 1 /\ lines' = <<>> /\ job' = job
    BY <1>2 DEF NextCollection
  <2> QED
    BY <1>1, <1>2, <2>1
<1>3. CASE at # Len(Order)
  <2>1. pc' = "read" /\ at' = at + 1 /\ lines' = <<>> /\ job' = job
    BY <1>3 DEF NextCollection
  <2>2. at' \in DOMAIN Order
    <3>1. at + 1 \in 1..Len(Order)
      <4> DEFINE n == Len(Order)
      <4>1. n \in Nat /\ at \in 1..n /\ at # n
        BY <1>1, <1>3
      <4> HIDE DEF n
      <4>2. at + 1 \in 1..n
        BY <4>1
      <4> QED
        BY <4>2 DEF n
    <3> QED
      BY <1>1, <2>1, <3>1
  <2>3. \A i \in 1..at' - 1 : i \in 1..at - 1 \/ i = at
    BY <1>1, <2>1
  <2> QED
    BY <2>1, <2>2, <2>3
<1> QED
  BY <1>2, <1>3

\* A step that leaves the disk, the collections on their way and what was
\* acknowledged alone.
LEMMA QuietStep ==
    ASSUME IInv, Boot \/ IndexExists \/ Crash \/ NewIndexFails
    PROVE  IInv'
<1>1. Typed'
  <2>1. 1 \in DOMAIN Order /\ <<>> \in Seq(Collections)
    BY OrderFacts
  <2>2. CASE Crash
    BY <2>1, <2>2, NoJobTyped DEF IInv, Typed, Phases, Crash, disk
  <2>3. CASE Boot \/ IndexExists \/ NewIndexFails
    BY <2>3 DEF IInv, Typed, Phases, Boot, IndexExists, NewIndexFails, FailAtStart,
                Fail, disk, memory
  <2> QED
    BY <2>2, <2>3
<1>2. IndexOK' /\ JobOK' /\ OnlyOrdered'
  BY DEF IInv, IndexOK, JobOK, OnlyOrdered, Boot, IndexExists, Crash, NewIndexFails,
         FailAtStart, Fail, disk, memory, Creating
<1>3. ~skipped' => Safe'
  BY DEF IInv, Safe, Kept, Known, Boot, IndexExists, Crash, NewIndexFails,
         FailAtStart, Fail, disk, memory, Creating, IndexOK
<1> QED
  BY <1>1, <1>2, <1>3 DEF IInv

\* A start finds no index and makes one.
LEMMA NewIndexIInv == ASSUME IInv, NewIndex PROVE IInv'
<1>1. Typed'
  BY DEF IInv, Typed, Phases, NewIndex, memory
<1>2. IndexOK' /\ JobOK' /\ OnlyOrdered'
  BY DEF IInv, IndexOK, JobOK, OnlyOrdered, NewIndex, memory, Creating
<1>3. ~skipped' => Safe'
  BY ListedFacts DEF IInv, Safe, Kept, Known, NewIndex, memory, Creating
<1> QED
  BY <1>1, <1>2, <1>3 DEF IInv

\* The start writes the count 0 to the index it made.
LEMMA WriteCountIInv == ASSUME IInv, WriteCount PROVE IInv'
<1>1. Typed'
  BY DEF IInv, Typed, Phases, WriteCount, memory
<1>2. IndexOK' /\ JobOK' /\ OnlyOrdered'
  BY ListedFacts DEF IInv, IndexOK, JobOK, OnlyOrdered, WriteCount, memory, Creating
<1>3. ~skipped' => Safe'
  BY ListedFacts DEF IInv, IndexOK, Safe, Kept, Known, WriteCount, memory, Creating
<1> QED
  BY <1>1, <1>2, <1>3 DEF IInv

\* The index has no count or lists the collection: nothing is created.
LEMMA ReadRefusesIInv == ASSUME IInv, ReadRefuses PROVE IInv'
<1>1. /\ at' \in DOMAIN Order /\ pc' \in {"serving", "read"}
      /\ lines' = <<>> /\ job' = job
      /\ pc' = "read" => \A i \in 1..at' - 1 : i \in 1..at - 1 \/ i = at
      /\ pc' = "serving" => \A i \in DOMAIN Order : i \in 1..at - 1 \/ i = at
  BY NextCollectionFacts DEF ReadRefuses, IInv
<1>2. Typed'
  BY <1>1 DEF IInv, Typed, Phases, ReadRefuses, disk
<1>3. IndexOK' /\ JobOK' /\ OnlyOrdered'
  BY <1>1 DEF IInv, IndexOK, JobOK, OnlyOrdered, ReadRefuses, disk, Creating
<1>4. ASSUME ~skipped' PROVE Safe'
  <2>1. Safe /\ Known' = Known /\ \A c : Kept(c)' = Kept(c)
    BY <1>1, <1>4 DEF IInv, ReadRefuses, disk, Known, Kept
  <2>2. Order[at] \in Known
    BY OrderFacts DEF ReadRefuses, Known, IInv, Typed
  <2> QED
    BY <1>1, <2>1, <2>2 DEF Safe, ReadRefuses, disk, Creating, Ordered
<1> QED
  BY <1>2, <1>3, <1>4 DEF IInv

\* The start reads the index for one collection and does not find it.
LEMMA ReadNewIInv == ASSUME IInv, ReadNew PROVE IInv'
<1>1. index \in Seq(Collections)
  BY DEF ReadNew, IInv, Typed, IndexOK
<1>2. Typed'
  BY <1>1 DEF IInv, Typed, Phases, ReadNew, disk
<1>3. IndexOK' /\ JobOK' /\ OnlyOrdered'
  BY <1>1, ListedFacts DEF IInv, IndexOK, JobOK, OnlyOrdered, ReadNew, disk, Creating
<1>4. ~skipped' => Safe'
  BY DEF IInv, Safe, Kept, Known, ReadNew, disk, Creating
<1> QED
  BY <1>2, <1>3, <1>4 DEF IInv

\* The collection that is created holds nothing that was acknowledged.
LEMMA NothingLost ==
    ASSUME IInv, ~skipped, pc \in Creating
    PROVE  Order[at] \in Collections /\ acked[Order[at]] = {}
<1>1. Order[at] \in Collections
  BY OrderFacts DEF IInv, Typed
<1>2. Order[at] \notin Known
  BY ListedFacts DEF IInv, Typed, IndexOK, Known, Creating
<1> QED
  BY <1>1, <1>2 DEF IInv, Safe

\* The file of the collection that is created is opened, gets its header, or is
\* removed again.
LEMMA NewFileIInv ==
    ASSUME IInv, OpenFile \/ WriteHeader \/ OpenIndexFails
    PROVE  IInv'
<1> DEFINE c == Order[at]
<1>1. c \in Collections /\ c \in Ordered
  BY OrderFacts DEF IInv, Typed, Ordered
<1>2. PICK f \in Seq(Int) \cup {NoFile} : file' = [file EXCEPT ![c] = f]
  <2>1. <<>> \in Seq(Int) /\ <<Header>> \in Seq(Int)
    BY DEF Header
  <2> QED
    BY <2>1 DEF OpenFile, WriteHeader, OpenIndexFails
<1>3. Typed /\ IndexOK /\ JobOK /\ OnlyOrdered
  BY DEF IInv
<1>4. Typed'
  <2>1. file' \in [Collections -> Seq(Int) \cup {NoFile}]
    BY <1>1, <1>2, <1>3 DEF Typed
  <2>2. CASE OpenFile \/ WriteHeader
    BY <1>3, <2>1, <2>2 DEF Typed, Phases, OpenFile, WriteHeader, memory
  <2>3. CASE OpenIndexFails
    BY <1>3, <2>1, <2>3, NextCollectionFacts, ListedFacts
       DEF Typed, Phases, OpenIndexFails, FailAtStart, Fail
  <2> QED
    BY <2>2, <2>3
<1>5. OnlyOrdered'
  BY <1>1, <1>2, <1>3 DEF OnlyOrdered, Typed
<1>6. IndexOK' /\ JobOK'
  <2>1. CASE OpenFile \/ WriteHeader
    BY <1>3, <2>1 DEF IndexOK, JobOK, OpenFile, WriteHeader, memory, Creating
  <2>2. CASE OpenIndexFails
    BY <1>3, <2>2, NextCollectionFacts
       DEF IndexOK, JobOK, OpenIndexFails, Creating
  <2> QED
    BY <2>1, <2>2
<1>7. ASSUME ~skipped' PROVE Safe'
  <2>1. (OpenFile \/ WriteHeader) /\ Safe /\ pc \in Creating
    BY <1>7 DEF IInv, OpenFile, WriteHeader, OpenIndexFails, FailAtStart, Creating
  <2>2. acked[c] = {}
    BY <1>7, <2>1, NothingLost DEF OpenFile, WriteHeader
  <2>3. acked' = acked /\ Known' = Known /\ index' = index /\ at' = at
    BY <2>1 DEF OpenFile, WriteHeader, Known, memory
  <2>4. ASSUME NEW d \in Collections PROVE acked[d] \subseteq Kept(d)'
    <3>1. CASE d = c
      BY <2>2, <3>1
    <3>2. CASE d # c
      BY <1>2, <1>3, <2>1, <3>2 DEF Safe, Kept, Typed, OpenFile, WriteHeader
    <3> QED
      BY <3>1, <3>2
  <2> QED
    BY <2>1, <2>3, <2>4 DEF Safe, OpenFile, WriteHeader, Creating
<1> QED
  BY <1>4, <1>5, <1>6, <1>7 DEF IInv

\* A file cannot be opened, and the collection is not created.
LEMMA OpenFailsIInv == ASSUME IInv, OpenFails PROVE IInv'
<1>1. Typed'
  BY NextCollectionFacts, ListedFacts
     DEF IInv, Typed, Phases, OpenFails, FailAtStart, Fail, disk
<1>2. IndexOK' /\ JobOK' /\ OnlyOrdered'
  BY NextCollectionFacts
     DEF IInv, IndexOK, JobOK, OnlyOrdered, OpenFails, disk, Creating
<1>3. skipped'
  BY DEF OpenFails, FailAtStart
<1> QED
  BY <1>1, <1>2, <1>3 DEF IInv

\* The index is opened for writing, which empties it.
LEMMA OpenIndexIInv == ASSUME IInv, OpenIndex PROVE IInv'
<1>1. Typed'
  BY DEF IInv, Typed, Phases, OpenIndex, memory
<1>2. IndexOK' /\ JobOK' /\ OnlyOrdered'
  BY ListedFacts DEF IInv, IndexOK, JobOK, OnlyOrdered, OpenIndex, memory, Creating
<1>3. ASSUME ~skipped' PROVE Safe'
  <2>1. Known' = Known
    BY ListedFacts DEF IInv, Typed, IndexOK, OpenIndex, Known, memory, Creating
  <2> QED
    BY <1>3, <2>1, ListedFacts DEF IInv, Safe, Kept, OpenIndex, memory, Creating
<1> QED
  BY <1>1, <1>2, <1>3 DEF IInv

\* The index is written again, from memory, with one collection more.
LEMMA WriteIndexIInv == ASSUME IInv, WriteIndex PROVE IInv'
<1> DEFINE x == Append(lines, Order[at])
<1>1. /\ at' \in DOMAIN Order /\ pc' \in {"serving", "read"}
      /\ lines' = <<>> /\ job' = job
      /\ pc' = "read" => \A i \in 1..at' - 1 : i \in 1..at - 1 \/ i = at
      /\ pc' = "serving" => \A i \in DOMAIN Order : i \in 1..at - 1 \/ i = at
  BY NextCollectionFacts DEF WriteIndex, IInv
<1>2. /\ lines \in Seq(Collections) /\ Order[at] \in Collections /\ index' = x
      /\ pc = "list"
  BY OrderFacts DEF IInv, Typed, WriteIndex
<1>3. /\ x \in Seq(Collections)
      /\ \A c \in {lines[i] : i \in DOMAIN lines} \cup {Order[at]} : c \in {x[i] : i \in DOMAIN x}
  <2>1. /\ x \in Seq(Collections) /\ DOMAIN x = 1..Len(lines) + 1 /\ Len(lines) \in Nat
        /\ DOMAIN lines = 1..Len(lines)
        /\ \A i \in DOMAIN lines : x[i] = lines[i]
        /\ x[Len(lines) + 1] = Order[at]
    BY <1>2
  <2> HIDE DEF x
  <2>2. DOMAIN lines \subseteq DOMAIN x /\ Len(lines) + 1 \in DOMAIN x
    BY <2>1
  <2> QED
    BY <2>1, <2>2
<1> HIDE DEF x
<1>4. Typed'
  BY <1>1, <1>2, <1>3, ListedFacts DEF IInv, Typed, Phases, WriteIndex
<1>5. IndexOK' /\ JobOK' /\ OnlyOrdered'
  BY <1>1, <1>2, <1>3, ListedFacts
     DEF IInv, IndexOK, JobOK, OnlyOrdered, WriteIndex, Creating
<1>6. ASSUME ~skipped' PROVE Safe'
  <2>1. Safe
    BY <1>6 DEF IInv, WriteIndex
  <2>2. Known \cup {Order[at]} \subseteq Known'
    BY <1>1, <1>2, <1>3, ListedFacts DEF Known
  <2>3. \A c : Kept(c)' = Kept(c)
    BY DEF Kept, WriteIndex
  <2>4. index' # NoFile
    BY <1>2, <1>3, ListedFacts
  <2> QED
    BY <1>1, <1>2, <2>1, <2>2, <2>3, <2>4 DEF Safe, WriteIndex, Creating, Ordered
<1> QED
  BY <1>4, <1>5, <1>6 DEF IInv

-----------------------------------------------------------------------------
\* A record is appended.
LEMMA WriteIInv ==
    ASSUME IInv, NEW c \in Collections, NEW k \in Int, Write(c, k)
    PROVE  IInv'
<1> DEFINE f == file[c]
<1>1. Typed /\ IndexOK /\ JobOK /\ OnlyOrdered /\ pc = "serving" /\ pc' = pc
  BY DEF IInv, Write
<1>2. f \in Seq(Int)
  BY DEF Write, IInv, Typed
<1>3. k \in Int
  OBVIOUS
<1>4. /\ file' = [file EXCEPT ![c] = Append(f, k)]
      /\ acked' = [acked EXCEPT ![c] = acked[c] \cup {k}]
  BY DEF Write
<1> HIDE DEF f
<1>5. /\ Append(f, k) \in Seq(Int)
      /\ {f[i] : i \in DOMAIN f} \cup {k} \subseteq {Append(f, k)[i] : i \in DOMAIN Append(f, k)}
  <2> DEFINE a == Append(f, k)
  <2>1. /\ a \in Seq(Int) /\ DOMAIN a = 1..Len(f) + 1 /\ Len(f) \in Nat
        /\ DOMAIN f = 1..Len(f) /\ \A i \in DOMAIN f : a[i] = f[i]
        /\ a[Len(f) + 1] = k
    BY <1>2, <1>3
  <2> HIDE DEF a
  <2>2. DOMAIN f \subseteq DOMAIN a /\ Len(f) + 1 \in DOMAIN a
    BY <2>1
  <2>3. a \in Seq(Int) /\ {f[i] : i \in DOMAIN f} \cup {k} \subseteq {a[i] : i \in DOMAIN a}
    BY <2>1, <2>2
  <2> QED
    BY <2>3 DEF a
<1>6. Typed'
  <2>1. file' \in [Collections -> Seq(Int) \cup {NoFile}]
    BY <1>1, <1>4, <1>5 DEF Typed
  <2>2. acked' \in [Collections -> SUBSET Int]
    BY <1>1, <1>3, <1>4 DEF Typed
  <2> QED
    BY <1>1, <2>1, <2>2 DEF Typed, Write, memory
<1>7. IndexOK' /\ JobOK'
  BY <1>1 DEF IndexOK, JobOK, Write, memory, Creating
<1>8. c \in Ordered
  BY <1>1 DEF OnlyOrdered, Write
<1>9. OnlyOrdered'
  BY <1>1, <1>4, <1>8 DEF OnlyOrdered, Typed
<1>10. ASSUME ~skipped' PROVE Safe'
  <2>1. Safe /\ index' = index /\ temp' = temp /\ at' = at /\ Known' = Known
    BY <1>1, <1>10 DEF IInv, Write, Known, memory
  <2>2. c \in Known
    BY <1>1, <1>8, <2>1 DEF Safe
  <2>3. ASSUME NEW d \in Collections
        PROVE  acked'[d] \subseteq Kept(d)' /\ (acked'[d] # {} => d \in Known')
    <3>1. CASE d = c
      <4>1. file'[c] = Append(f, k) /\ acked'[c] = acked[c] \cup {k}
        BY <1>1, <1>4 DEF Typed
      <4>2. f # NoFile /\ Append(f, k) # NoFile
        BY <1>2, <1>5, NoFileIsNone
      <4>3. acked[c] \subseteq {f[i] : i \in DOMAIN f}
        BY <2>1, <4>2 DEF Safe, Kept, OnDisk, f
      <4>4. acked'[c] \subseteq {Append(f, k)[i] : i \in DOMAIN Append(f, k)}
        BY <1>5, <4>1, <4>3
      <4> QED
        BY <2>1, <2>2, <3>1, <4>1, <4>2, <4>4 DEF Kept, OnDisk
    <3>2. CASE d # c
      BY <1>1, <1>4, <2>1, <3>2 DEF Safe, Kept, Typed
    <3> QED
      BY <3>1, <3>2
  <2> QED
    BY <1>1, <2>1, <2>3 DEF Safe, Creating
<1> QED
  BY <1>6, <1>7, <1>9, <1>10 DEF IInv

\* It gets the next key, or the key 0, or the insert fails.
LEMMA InsertIInv ==
    ASSUME IInv, \/ \E c \in Collections : Insert(c) \/ InsertUnderKeyZero(c)
                 \/ InsertFails
    PROVE  IInv'
<1>1. ASSUME NEW c \in Collections, Insert(c) PROVE IInv'
  <2>1. file[c] \in Seq(Int)
    BY <1>1 DEF Insert, Write, IInv, Typed
  <2>2. HighestKey(file[c]) + 1 \in Int
    BY <2>1, HighestKeyTyped
  <2> QED
    BY <1>1, <2>2, WriteIInv DEF Insert
<1>2. ASSUME NEW c \in Collections, InsertUnderKeyZero(c) PROVE IInv'
  BY <1>2, WriteIInv DEF InsertUnderKeyZero
<1>3. CASE InsertFails
  <2>1. UNCHANGED <<disk, pc, memory, acked, skipped>>
    BY <1>3 DEF InsertFails
  <2> QED
    BY <2>1 DEF IInv, Typed, IndexOK, JobOK, OnlyOrdered, Safe, Kept, Known, disk, memory
<1> QED
  BY <1>1, <1>2, <1>3

\* An update or a deletion begins.
LEMMA ReplaceIInv ==
    ASSUME IInv, NEW c \in Collections, NEW k \in 0..MaxRecords,
           NEW op \in {"update", "delete"}, Replace(c, k, op)
    PROVE  IInv'
<1>1. Typed /\ IndexOK /\ OnlyOrdered /\ pc = "serving" /\ pc' = "copy"
  BY DEF IInv, Replace
<1>2. k \in Nat
  BY StoreAssumption
<1>3. /\ temp' = [temp EXCEPT ![c] = <<>>]
      /\ job' = [op |-> op, coll |-> c, key |-> k]
      /\ acked' = [acked EXCEPT ![c] = IF op = "delete" THEN acked[c] \ {k} ELSE acked[c]]
      /\ file' = file /\ index' = index /\ at' = at /\ lines' = lines /\ skipped' = skipped
      /\ file[c] # NoFile
  BY DEF Replace
<1>4. Typed'
  <2>1. temp' \in [Collections -> Seq(Int) \cup {NoFile}]
    <3>1. <<>> \in Seq(Int)
      OBVIOUS
    <3> QED
      BY <1>1, <1>3, <3>1 DEF Typed
  <2>2. acked' \in [Collections -> SUBSET Int]
    BY <1>1, <1>3 DEF Typed
  <2>3. job' \in [op : {"none", "update", "delete"}, coll : Collections, key : Nat]
    BY <1>2, <1>3
  <2> QED
    BY <1>1, <1>3, <2>1, <2>2, <2>3 DEF Typed, Phases
<1>5. /\ \A d \in Collections : acked'[d] \subseteq acked[d]
      /\ op = "delete" => k \notin acked'[c]
  BY <1>1, <1>3 DEF Typed
<1>6. IndexOK' /\ JobOK' /\ OnlyOrdered'
  BY <1>1, <1>3, <1>5 DEF IndexOK, JobOK, OnlyOrdered, Creating
<1>7. ASSUME ~skipped' PROVE Safe'
  <2>1. Safe /\ Known' = Known
    BY <1>1, <1>3, <1>7 DEF IInv, Known
  <2>2. \A d \in Collections : Kept(d)' = Kept(d)
    BY <1>1, <1>3 DEF Kept, Typed
  <2> QED
    BY <1>1, <1>3, <1>5, <2>1, <2>2 DEF Safe, Creating
<1> QED
  BY <1>4, <1>6, <1>7 DEF IInv

\* It gives up: the key is not there, or the original cannot be removed.
LEMMA GiveUpIInv ==
    ASSUME IInv, KeyNotFound \/ RemoveFails
    PROVE  IInv'
<1>1. /\ temp' = [temp EXCEPT ![job.coll] = NoFile]
      /\ pc' = "serving" /\ job' = NoJob /\ file' = file /\ index' = index
      /\ at' = at /\ lines' = lines /\ acked' = acked /\ skipped' = skipped
      /\ pc \in {"copy", "remove"}
  BY DEF KeyNotFound, RemoveFails, Return
<1>2. Typed /\ IndexOK /\ JobOK /\ OnlyOrdered
  BY DEF IInv
<1>3. Typed'
  BY <1>1, <1>2, NoJobTyped DEF Typed, Phases
<1>4. IndexOK' /\ JobOK' /\ OnlyOrdered'
  BY <1>1, <1>2 DEF IndexOK, JobOK, OnlyOrdered, Creating
<1>5. ASSUME ~skipped' PROVE Safe'
  <2>1. Safe /\ Known' = Known
    BY <1>1, <1>5 DEF IInv, Known
  <2>2. file[job.coll] # NoFile
    BY <1>1, <1>2 DEF JobOK
  <2>3. \A d \in Collections : Kept(d)' = Kept(d)
    BY <1>1, <1>2, <2>2 DEF Kept, Typed
  <2> QED
    BY <1>1, <2>1, <2>3 DEF Safe, Creating
<1> QED
  BY <1>3, <1>4, <1>5 DEF IInv

\* An update or a deletion copies the records to its temporary file.
LEMMA CopyRecordsIInv == ASSUME IInv, CopyRecords PROVE IInv'
<1> DEFINE c == job.coll
<1> DEFINE f == file[c]
<1> DEFINE g == Copy(f, job.op, job.key)
<1>1. Typed /\ IndexOK /\ JobOK /\ OnlyOrdered /\ pc = "copy" /\ pc' = "remove" /\ c \in Collections
  BY DEF IInv, CopyRecords, Typed
<1>2. f \in Seq(Int) /\ f # NoFile /\ (job.op = "delete" => job.key \notin acked[c])
  BY <1>1 DEF JobOK, Typed
<1>3. /\ g \in Seq(Int)
      /\ \A i \in DOMAIN f : i = 1 \/ job.op = "update" \/ f[i] # job.key => f[i] \in OnDisk(g)
  BY <1>2, CopyFacts
<1>4. /\ temp' = [temp EXCEPT ![c] = g]
      /\ job' = job /\ file' = file /\ index' = index /\ at' = at /\ lines' = lines
      /\ acked' = acked /\ skipped' = skipped
  BY DEF CopyRecords, memory
<1> HIDE DEF g, f
<1>5. Typed'
  BY <1>1, <1>3, <1>4 DEF Typed, Phases
<1>6. c \in Ordered /\ g # NoFile
  BY <1>1, <1>2, <1>3, NoFileIsNone DEF OnlyOrdered, f
<1>7. IndexOK' /\ JobOK' /\ OnlyOrdered'
  BY <1>1, <1>4, <1>6 DEF IndexOK, JobOK, OnlyOrdered, Creating, Typed
<1>8. ASSUME ~skipped' PROVE Safe'
  <2>1. Safe /\ Known' = Known
    BY <1>1, <1>4, <1>8 DEF IInv, Known
  <2>2. acked[c] \subseteq OnDisk(g)
    <3>1. acked[c] \subseteq {f[i] : i \in DOMAIN f}
      BY <1>1, <1>2, <2>1 DEF Safe, Kept, OnDisk, f
    <3>2. job.op \in {"update", "delete"}
      BY <1>1 DEF JobOK
    <3> QED
      BY <1>2, <1>3, <3>1, <3>2
  <2>3. \A d \in Collections : Kept(d)' = Kept(d)
    BY <1>1, <1>2, <1>4 DEF Kept, Typed, f
  <2>4. temp'[c] = g
    BY <1>1, <1>4 DEF Typed
  <2> QED
    BY <1>1, <1>4, <2>1, <2>2, <2>3, <2>4 DEF Safe, Creating
<1> QED
  BY <1>5, <1>7, <1>8 DEF IInv

\* The original goes, and the copy takes its name or does not.
LEMMA RemoveOriginalIInv == ASSUME IInv, RemoveOriginal PROVE IInv'
<1>1. Typed /\ IndexOK /\ JobOK /\ OnlyOrdered /\ job.coll \in Collections
  BY DEF IInv, Typed
<1>2. /\ file' = [file EXCEPT ![job.coll] = NoFile]
      /\ pc = "remove" /\ pc' = "rename" /\ job' = job /\ temp' = temp /\ index' = index
      /\ at' = at /\ lines' = lines /\ acked' = acked /\ skipped' = skipped
  BY DEF RemoveOriginal, memory
<1>3. Typed'
  BY <1>1, <1>2 DEF Typed, Phases
<1>4. IndexOK' /\ JobOK' /\ OnlyOrdered'
  BY <1>1, <1>2 DEF IndexOK, JobOK, OnlyOrdered, Creating, Typed
<1>5. ASSUME ~skipped' PROVE Safe'
  <2>1. Safe /\ Known' = Known
    BY <1>2, <1>5 DEF IInv, Known
  <2>2. ASSUME NEW d \in Collections PROVE acked[d] \subseteq Kept(d)'
    <3>1. CASE d = job.coll
      BY <1>1, <1>2, <2>1, <3>1 DEF Safe, Kept, Typed
    <3>2. CASE d # job.coll
      BY <1>1, <1>2, <2>1, <3>2 DEF Safe, Kept, Typed
    <3> QED
      BY <3>1, <3>2
  <2> QED
    BY <1>2, <2>1, <2>2 DEF Safe, Creating
<1> QED
  BY <1>3, <1>4, <1>5 DEF IInv

\* The temporary file takes the name of the one that was removed.
LEMMA RenameIInv == ASSUME IInv, Rename PROVE IInv'
<1>1. Typed /\ IndexOK /\ JobOK /\ OnlyOrdered /\ job.coll \in Collections
  BY DEF IInv, Typed
<1>2. /\ file' = [file EXCEPT ![job.coll] = temp[job.coll]]
      /\ temp' = [temp EXCEPT ![job.coll] = NoFile]
      /\ pc = "rename" /\ pc' = "serving" /\ job' = NoJob /\ index' = index
      /\ at' = at /\ lines' = lines /\ acked' = acked /\ skipped' = skipped
  BY DEF Rename, Return
<1>3. Typed'
  BY <1>1, <1>2, NoJobTyped DEF Typed, Phases
<1>4. IndexOK' /\ JobOK' /\ OnlyOrdered'
  BY <1>1, <1>2 DEF IndexOK, JobOK, OnlyOrdered, Creating, Typed
<1>5. ASSUME ~skipped' PROVE Safe'
  <2>1. Safe /\ Known' = Known
    BY <1>2, <1>5 DEF IInv, Known
  <2>2. ASSUME NEW d \in Collections PROVE acked[d] \subseteq Kept(d)'
    <3>1. CASE d = job.coll
      <4>1. file'[d] = temp[d] /\ temp[d] # NoFile
        BY <1>1, <1>2, <3>1 DEF Typed, JobOK
      <4> QED
        BY <1>2, <2>1, <3>1, <4>1 DEF Safe, Kept
    <3>2. CASE d # job.coll
      BY <1>1, <1>2, <2>1, <3>2 DEF Safe, Kept, Typed
    <3> QED
      BY <3>1, <3>2
  <2> QED
    BY <1>2, <2>1, <2>2 DEF Safe, Creating
<1> QED
  BY <1>3, <1>4, <1>5 DEF IInv

\* The file cannot be renamed: only the temporary one is left.
LEMMA RenameFailsIInv == ASSUME IInv, RenameFails PROVE IInv'
<1>1. /\ file' = file /\ temp' = temp /\ index' = index
      /\ pc = "rename" /\ pc' = "serving" /\ job' = NoJob
      /\ at' = at /\ lines' = lines /\ acked' = acked /\ skipped' = skipped
  BY DEF RenameFails, Return, disk
<1>2. Typed'
  BY <1>1, NoJobTyped DEF IInv, Typed, Phases
<1>3. IndexOK' /\ JobOK' /\ OnlyOrdered'
  BY <1>1 DEF IInv, IndexOK, JobOK, OnlyOrdered, Creating
<1>4. ~skipped' => Safe'
  BY <1>1 DEF IInv, Safe, Known, Kept, Creating
<1> QED
  BY <1>2, <1>3, <1>4 DEF IInv

\* Every step keeps the invariant.
LEMMA NextIInv == IInv /\ [Next]_vars => IInv'
<1> SUFFICES ASSUME IInv, [Next]_vars PROVE IInv'
  OBVIOUS
<1>1. CASE UNCHANGED vars
  <2>1. Typed'
    BY <1>1 DEF IInv, Typed, vars, disk, memory
  <2>2. IndexOK' /\ JobOK' /\ OnlyOrdered'
    BY <1>1 DEF IInv, IndexOK, JobOK, OnlyOrdered, vars, disk, memory
  <2>3. ~skipped' => Safe'
    BY <1>1 DEF IInv, Safe, Known, Kept, vars, disk, memory
  <2> QED
    BY <2>1, <2>2, <2>3 DEF IInv
<1>2. CASE Start
  BY <1>2, QuietStep, NewIndexIInv, WriteCountIInv DEF Start
<1>3. CASE Create
  BY <1>3, ReadRefusesIInv, ReadNewIInv, NewFileIInv, OpenFailsIInv, OpenIndexIInv,
     WriteIndexIInv DEF Create
<1>4. CASE Serve
  BY <1>4, InsertIInv, ReplaceIInv, GiveUpIInv, CopyRecordsIInv, RemoveOriginalIInv,
     RenameIInv, RenameFailsIInv DEF Serve
<1>5. CASE Crash
  BY <1>5, QuietStep
<1> QED
  BY <1>1, <1>2, <1>3, <1>4, <1>5 DEF Next

-----------------------------------------------------------------------------
(***************************************************************************)
(* Theorems                                                                *)
(***************************************************************************)

\* The invariant holds in every state.
THEOREM Inductive == Spec => []IInv
<1> QED
  BY InitIInv, NextIInv, PTL DEF Spec

\* A record whose insert was acknowledged is in the file of its collection, or
\* in the copy that is to replace it, until its deletion begins: whatever starts
\* and crashes came before, as long as no start has left anything out.
THEOREM NothingAcknowledgedIsLost == Spec => []AcknowledgedKept
<1>1. IInv => AcknowledgedKept
  BY DEF IInv, Safe, Kept, AcknowledgedKept
<1> QED
  BY <1>1, Inductive, PTL

\* An index without a count stays without one: no step of a start that finds it
\* writes to it.
THEOREM BrokenForever == Spec => BrokenIndexStays
<1> DEFINE Broken == /\ index = Empty
                     /\ pc \in {"down", "init", "read", "serving", "copy", "remove", "rename"}
<1>1. Broken /\ [Next]_vars => Broken'
  <2> SUFFICES ASSUME Broken, [Next]_vars PROVE Broken'
    OBVIOUS
  <2>1. index # NoFile
    BY ListedFacts
  <2>2. CASE Start \/ Create
    BY <2>1, <2>2
       DEF Start, Boot, IndexExists, NewIndex, NewIndexFails, WriteCount, disk,
           Create, ReadRefuses, ReadNew, OpenFile, OpenFails, WriteHeader, OpenIndex,
           OpenIndexFails, WriteIndex, NextCollection
  <2>3. CASE Serve \/ Crash \/ UNCHANGED vars
    BY <2>3
       DEF Serve, Insert, InsertUnderKeyZero, InsertFails, Write, Replace, KeyNotFound,
           CopyRecords, RemoveOriginal, RemoveFails,
           Rename, RenameFails, Return, Crash, disk, vars
  <2> QED
    BY <2>2, <2>3 DEF Next
<1>2. index = Empty /\ pc = "down" => Broken
  OBVIOUS
<1>3. Broken => index = Empty
  OBVIOUS
<1> HIDE DEF Broken
<1> QED
  BY <1>1, <1>2, <1>3, PTL DEF Spec, BrokenIndexStays

-----------------------------------------------------------------------------
(***************************************************************************)
(* The histories that are read from the store                              *)
(***************************************************************************)

\* Induction over the naturals, for a set.
LEMMA NatInductionSet ==
    ASSUME NEW S, 0 \in S, \A n \in Nat : n \in S => n + 1 \in S
    PROVE  Nat \subseteq S
<1> DEFINE T == Nat \ S
<1> SUFFICES ASSUME T # {} PROVE FALSE
  OBVIOUS
<1>1. \E x \in T : \A y \in T : ~ (<<y, x>> \in OpToRel(<, Nat))
  BY NatLessThanWellFounded, WFMin
<1>2. PICK x \in T : \A y \in T : ~ (<<y, x>> \in OpToRel(<, Nat))
  BY <1>1
<1>3. \A y \in T : ~(y < x)
  BY <1>2 DEF OpToRel
<1>4. x \in Nat /\ x \notin S
  BY <1>2
<1>5. x # 0
  BY <1>4
<1>6. x - 1 \in Nat /\ x - 1 < x /\ (x - 1) + 1 = x
  BY <1>4, <1>5
<1>7. x - 1 \in S
  BY <1>3, <1>6
<1>8. (x - 1) + 1 \in S
  BY <1>6, <1>7
<1> QED
  BY <1>4, <1>6, <1>8

\* Induction over the sequences, by what is appended.
LEMMA SeqInductionSet ==
    ASSUME NEW X, NEW S, <<>> \in S,
           \A s \in Seq(X), e \in X : s \in S => Append(s, e) \in S
    PROVE  Seq(X) \subseteq S
<1> DEFINE T == {n \in Nat : \A s \in Seq(X) : Len(s) = n => s \in S}
<1>1. 0 \in T
  <2> SUFFICES ASSUME NEW s \in Seq(X), Len(s) = 0 PROVE s \in S
    OBVIOUS
  <2>1. s = <<>>
    BY EmptySeq
  <2> QED
    BY <2>1
<1>2. ASSUME NEW n \in Nat, n \in T PROVE n + 1 \in T
  <2> SUFFICES ASSUME NEW s \in Seq(X), Len(s) = n + 1 PROVE s \in S
    OBVIOUS
  <2>1. s # <<>>
    BY EmptySeq
  <2>2. PICK t \in Seq(X), e \in X : s = Append(t, e)
    BY <2>1, SequenceEmptyOrAppend
  <2>3. Len(t) = n
    BY <2>2, AppendProperties, LenProperties
  <2> QED
    BY <1>2, <2>2, <2>3
<1> HIDE DEF T
<1>3. Nat \subseteq T
  BY <1>1, <1>2, NatInductionSet
<1> SUFFICES ASSUME NEW s \in Seq(X) PROVE s \in S
  OBVIOUS
<1>4. Len(s) \in T
  BY <1>3, LenProperties
<1> QED
  BY <1>4 DEF T

-----------------------------------------------------------------------------
\* The values of a loop over a sequence: f[n] is what it has made of n elements.
Loop(f, s, base, step, X, A) ==
    /\ s \in Seq(X) /\ base \in A /\ step \in [A \X X -> A]
    /\ f \in [0..Len(s) -> A]
    /\ f[0] = base
    /\ \A n \in 1..Len(s) : f[n] = step[<<f[n - 1], s[n]>>]

Final(f, s) == f[Len(s)]
Continues(g, u, f, s, e, step) == g[Len(u)] = step[<<f[Len(s)], e>>]

\* Every loop over a sequence has such values.
LEMMA LoopExists ==
    ASSUME NEW X, NEW A, NEW base \in A, NEW step \in [A \X X -> A], NEW s \in Seq(X)
    PROVE  \E f : Loop(f, s, base, step, X, A)
<1> DEFINE S == {t \in Seq(X) : \E f : Loop(f, t, base, step, X, A)}
<1>1. <<>> \in S
  <2> DEFINE f == [n \in 0..0 |-> base]
  <2>1. Loop(f, <<>>, base, step, X, A)
    <3>1. Len(<<>>) = 0 /\ <<>> \in Seq(X)
      BY EmptySeq
    <3> QED
      BY <3>1 DEF Loop
  <2> QED
    BY <2>1, EmptySeq
<1>2. ASSUME NEW t \in Seq(X), NEW e \in X, t \in S PROVE Append(t, e) \in S
  <2>1. PICK f : Loop(f, t, base, step, X, A)
    BY <1>2
  <2> DEFINE N == Len(t)
             g == [n \in 0..(N + 1) |-> IF n = N + 1 THEN step[<<f[N], e>>] ELSE f[n]]
             u == Append(t, e)
  <2>2. /\ u \in Seq(X) /\ Len(u) = N + 1
        /\ \A i \in 1..N : u[i] = t[i]
        /\ u[N + 1] = e
    BY AppendProperties
  <2>3. N \in Nat /\ \A i \in 1..N : t[i] \in X
    BY LenProperties, ElementOfSeq
  <2> HIDE DEF N, u
  <2>4. f \in [0..N -> A] /\ f[0] = base
        /\ \A n \in 1..N : f[n] = step[<<f[n - 1], t[n]>>]
    BY <2>1 DEF Loop, N
  <2>5. step[<<f[N], e>>] \in A
    BY <2>3, <2>4
  <2>6. g \in [0..(N + 1) -> A]
    BY <2>3, <2>4, <2>5
  <2>7. g[0] = base
    BY <2>3, <2>4
  <2>8. ASSUME NEW n \in 1..(N + 1) PROVE g[n] = step[<<g[n - 1], u[n]>>]
    <3>1. CASE n = N + 1
      <4>1. n - 1 \in 0..(N + 1) /\ n - 1 # N + 1 /\ n - 1 = N
        BY <3>1, <2>3
      <4>2. n \in 0..(N + 1) /\ N \in 0..(N + 1) /\ N # N + 1
        BY <3>1, <2>3
      <4>3. g[n] = step[<<f[N], e>>] /\ g[N] = f[N]
        BY <3>1, <4>2
      <4> HIDE DEF g
      <4> QED
        BY <3>1, <4>1, <4>3, <2>2
    <3>2. CASE n # N + 1
      <4>1. n - 1 \in 0..(N + 1) /\ n - 1 # N + 1 /\ n \in 1..N
        BY <3>2, <2>3
      <4>2. g[n] = f[n] /\ g[n - 1] = f[n - 1]
        BY <3>2, <4>1
      <4> QED
        BY <4>1, <4>2, <2>2, <2>4
    <3> QED
      BY <3>1, <3>2
  <2> HIDE DEF g
  <2>9. Loop(g, u, base, step, X, A)
    BY <2>2, <2>6, <2>7, <2>8 DEF Loop
  <2> QED
    BY <2>2, <2>9 DEF u
<1>3. Seq(X) \subseteq S
  <2> HIDE DEF S
  <2> QED
    BY <1>1, <1>2, SeqInductionSet
<1> QED
  BY <1>3

\* The loop over a longer sequence goes through the same values.
LEMMA LoopExtends ==
    ASSUME NEW X, NEW A, NEW base, NEW step, NEW s, NEW e \in X, NEW f, NEW g,
           NEW u, u = Append(s, e),
           Loop(f, s, base, step, X, A), Loop(g, u, base, step, X, A)
    PROVE  /\ Final(f, s) \in A
           /\ Continues(g, u, f, s, e, step)
<1> DEFINE N == Len(s)
           S == {n \in Nat : n <= N => f[n] = g[n]}
<1>0. s \in Seq(X)
  BY DEF Loop
<1>1. /\ Len(u) = N + 1
      /\ \A i \in 1..N : u[i] = s[i]
      /\ u[N + 1] = e
      /\ N \in Nat
  BY <1>0, AppendProperties, LenProperties
<1> HIDE DEF N
<1>2. f[0] = base /\ g[0] = base /\ f \in [0..N -> A]
  BY DEF Loop, N
<1>3. /\ \A n \in 1..N : f[n] = step[<<f[n - 1], s[n]>>]
      /\ \A n \in 1..(N + 1) : g[n] = step[<<g[n - 1], u[n]>>]
  BY <1>1 DEF Loop, N
<1>4. 0 \in S
  BY <1>2
<1>5. ASSUME NEW n \in Nat, n \in S PROVE n + 1 \in S
  <2> SUFFICES ASSUME n + 1 <= N PROVE f[n + 1] = g[n + 1]
    OBVIOUS
  <2>1. n + 1 \in 1..N /\ n + 1 \in 1..(N + 1) /\ (n + 1) - 1 = n /\ n <= N
    BY <1>1
  <2>2. f[n] = g[n]
    BY <1>5, <2>1
  <2>3. f[n + 1] = step[<<f[n], s[n + 1]>>] /\ g[n + 1] = step[<<g[n], u[n + 1]>>]
    BY <1>3, <2>1
  <2> QED
    BY <1>1, <2>1, <2>2, <2>3
<1>6. Nat \subseteq S
  <2> HIDE DEF S
  <2> QED
    BY <1>4, <1>5, NatInductionSet
<1>7. f[N] = g[N] /\ f[N] \in A
  BY <1>1, <1>2, <1>6
<1>8. g[N + 1] = step[<<g[N], u[N + 1]>>]
  <2>1. N + 1 \in 1..(N + 1) /\ (N + 1) - 1 = N
    BY <1>1
  <2> QED
    BY <1>3, <2>1
<1> QED
  BY <1>1, <1>7, <1>8 DEF N, Final, Continues

\* What follows the loop has its values.
LEMMA LoopIs ==
    ASSUME NEW X, NEW A, NEW base \in A, NEW step \in [A \X X -> A], NEW s \in Seq(X),
           NEW h, h = [n \in 0..Len(s) |-> h[n]], h[0] = base,
           \A n \in 1..Len(s) : h[n - 1] \in A => h[n] = step[<<h[n - 1], s[n]>>]
    PROVE  Loop(h, s, base, step, X, A)
<1> DEFINE N == Len(s)
           S == {n \in Nat : n <= N => h[n] \in A}
<1>1. N \in Nat /\ \A i \in 1..N : s[i] \in X
  BY LenProperties, ElementOfSeq
<1>2. /\ h = [n \in 0..N |-> h[n]]
      /\ \A n \in 1..N : h[n - 1] \in A => h[n] = step[<<h[n - 1], s[n]>>]
  OBVIOUS
<1> HIDE DEF N
<1>3. 0 \in S
  OBVIOUS
<1>4. ASSUME NEW n \in Nat, n \in S PROVE n + 1 \in S
  <2> SUFFICES ASSUME n + 1 <= N PROVE h[n + 1] \in A
    OBVIOUS
  <2>1. n + 1 \in 1..N /\ (n + 1) - 1 = n /\ n <= N
    BY <1>1
  <2>2. h[n] \in A /\ s[n + 1] \in X
    BY <1>1, <1>4, <2>1
  <2>3. h[n + 1] = step[<<h[n], s[n + 1]>>]
    BY <1>2, <2>1, <2>2
  <2> QED
    BY <2>2, <2>3
<1>5. Nat \subseteq S
  <2> HIDE DEF S
  <2> QED
    BY <1>3, <1>4, NatInductionSet
<1>6. ASSUME NEW n \in 0..N PROVE h[n] \in A
  <2>1. n \in Nat /\ n <= N
    BY <1>1
  <2>2. n \in S
    BY <1>5, <2>1
  <2> QED
    BY <2>1, <2>2
<1>7. h \in [0..N -> A]
  BY <1>2, <1>6
<1>8. ASSUME NEW n \in 1..N PROVE h[n] = step[<<h[n - 1], s[n]>>]
  <2>1. n - 1 \in 0..N
    BY <1>1
  <2> QED
    BY <1>2, <1>6, <2>1
<1> QED
  BY <1>7, <1>8 DEF Loop, N

\* The index before one of a sequence is one of the loop.
LEMMA LoopBefore ==
    ASSUME NEW X, NEW A, NEW base, NEW step, NEW s, NEW g,
           Loop(g, s, base, step, X, A), NEW n \in 1..Len(s)
    PROVE  /\ g[n - 1] \in A /\ s[n] \in X /\ n # 0 /\ n \in 0..Len(s)
           /\ g[n] = step[<<g[n - 1], s[n]>>]
<1>1. s \in Seq(X) /\ Len(s) \in Nat
  BY LenProperties DEF Loop
<1>2. n - 1 \in 0..Len(s)
  BY <1>1
<1> QED
  BY <1>1, <1>2, ElementOfSeq DEF Loop

-----------------------------------------------------------------------------
\* Joined: nothing of nothing, and what is appended comes at the end.
LEMMA JoinedLaws ==
    ASSUME NEW C
    PROVE  /\ Joined(<<>>) = <<>>
           /\ \A s \in Seq(Seq(C)) : Joined(s) \in Seq(C)
           /\ \A s \in Seq(Seq(C)) : \A e \in Seq(C) :
                 Joined(Append(s, e)) = Joined(s) \o e
<1> DEFINE X == Seq(C)
           A == Seq(C)
           one(a, e) == a \o e
           step == [p \in A \X X |-> one(p[1], p[2])]
           f(u) == CHOOSE f : f = [n \in 0..Len(u) |-> IF n = 0 THEN <<>> ELSE f[n - 1] \o u[n]]
<1>1. <<>> \in A /\ \A a \in A : \A e \in X : one(a, e) \in A
  BY EmptySeq, ConcatProperties
<1>2. step \in [A \X X -> A] /\ \A a \in A : \A e \in X : step[<<a, e>>] = one(a, e)
  <2> HIDE DEF A, X, one
  <2> QED
    BY <1>1
<1>3. ASSUME NEW u \in Seq(X)
      PROVE  Loop(f(u), u, <<>>, step, X, A)
  <2>1. PICK g : Loop(g, u, <<>>, step, X, A)
    <3> HIDE DEF step, X, A
    <3> QED
      BY <1>1, <1>2, LoopExists
  <2>2. Len(u) \in Nat
    BY LenProperties
  <2>3. g = [n \in 0..Len(u) |-> IF n = 0 THEN <<>> ELSE one(g[n - 1], u[n])]
    <3>1. ASSUME NEW n \in 1..Len(u) PROVE g[n] = one(g[n - 1], u[n])
      <4> HIDE DEF X, A, step, one
      <4>1. g[n - 1] \in A /\ u[n] \in X /\ g[n] = step[<<g[n - 1], u[n]>>]
        BY <2>1, LoopBefore
      <4> QED
        BY <1>2, <4>1
    <3>2. g \in [0..Len(u) -> A] /\ g[0] = <<>>
      BY <2>1 DEF Loop
    <3> HIDE DEF X, A, one
    <3>3. ASSUME NEW n \in 0..Len(u)
          PROVE  g[n] = IF n = 0 THEN <<>> ELSE one(g[n - 1], u[n])
      BY <2>2, <3>1, <3>2
    <3> QED
      BY <3>2, <3>3
  <2> DEFINE h == f(u)
  <2>4. h = [n \in 0..Len(u) |-> IF n = 0 THEN <<>> ELSE one(h[n - 1], u[n])]
    BY <2>3
  <2> HIDE DEF f, h, one
  <2>5. h[0] = <<>> /\ h = [n \in 0..Len(u) |-> h[n]]
    BY <2>2, <2>4
  <2>6. ASSUME NEW n \in 1..Len(u), h[n - 1] \in A PROVE h[n] = step[<<h[n - 1], u[n]>>]
    <3>1. n \in 0..Len(u) /\ n # 0 /\ u[n] \in X
      BY <2>2, ElementOfSeq
    <3>2. h[n] = one(h[n - 1], u[n])
      BY <2>4, <3>1
    <3> HIDE DEF step, A, X
    <3> QED
      BY <1>2, <2>6, <3>1, <3>2
  <2>7. Loop(h, u, <<>>, step, X, A)
    <3> HIDE DEF step, X, A
    <3> QED
      BY <1>1, <1>2, <2>5, <2>6, LoopIs
  <2> QED
    BY <2>7 DEF h
<1>4. \A u : Joined(u) = f(u)[Len(u)]
  BY DEF Joined
<1> HIDE DEF f, one
<1>5. Joined(<<>>) = <<>>
  <2>1. <<>> \in Seq(X) /\ Len(<<>>) = 0
    BY EmptySeq
  <2>2. f(<<>>)[0] = <<>>
    <3> HIDE DEF step, X, A
    <3> QED
      BY <1>3, <2>1 DEF Loop
  <2> QED
    BY <1>4, <2>1, <2>2
<1>6. ASSUME NEW s \in Seq(X), NEW e \in X
      PROVE  Joined(Append(s, e)) = one(Joined(s), e)
  <2>1. Append(s, e) \in Seq(X)
    BY AppendProperties
  <2> DEFINE t == Append(s, e)
             a == f(s)
             b == f(t)
  <2>2. Loop(a, s, <<>>, step, X, A) /\ Loop(b, t, <<>>, step, X, A)
    BY <1>3, <2>1
  <2>3. t = Append(s, e)
    OBVIOUS
  <2> HIDE DEF step, X, A, a, b, t
  <2>4. Final(a, s) \in A /\ Continues(b, t, a, s, e, step)
    BY <2>2, <2>3, LoopExtends
  <2>5. b[Len(t)] = one(a[Len(s)], e)
    BY <1>2, <2>4 DEF Final, Continues
  <2> QED
    BY <1>4, <2>5 DEF a, b, t
<1>7. ASSUME NEW s \in Seq(X) PROVE Joined(s) \in A
  <2> DEFINE a == f(s)
  <2>1. Loop(a, s, <<>>, step, X, A) /\ Len(s) \in Nat
    BY <1>3, LenProperties
  <2> HIDE DEF step, X, A, a
  <2>2. a[Len(s)] \in A
    BY <2>1 DEF Loop
  <2> QED
    BY <1>4, <2>2 DEF a
<1> QED
  BY <1>5, <1>6, <1>7 DEF one

\* Selected: an element of S that is appended is kept, any other is not.
LEMMA SelectedLaws ==
    ASSUME NEW C, NEW S
    PROVE  /\ Selected(<<>>, S) = <<>>
           /\ \A s \in Seq(C) : Selected(s, S) \in Seq(C)
           /\ \A s \in Seq(C) : \A e \in C :
                 Selected(Append(s, e), S) = IF e \in S THEN Append(Selected(s, S), e) ELSE Selected(s, S)
<1> DEFINE X == C
           A == Seq(C)
           one(a, e) == IF e \in S THEN Append(a, e) ELSE a
           step == [p \in A \X X |-> one(p[1], p[2])]
           f(u) == CHOOSE f : f = [n \in 0..Len(u) |-> IF n = 0 THEN <<>>
                               ELSE IF u[n] \in S THEN Append(f[n - 1], u[n]) ELSE f[n - 1]]
<1>1. <<>> \in A /\ \A a \in A : \A e \in X : one(a, e) \in A
  BY EmptySeq, AppendProperties
<1>2. step \in [A \X X -> A] /\ \A a \in A : \A e \in X : step[<<a, e>>] = one(a, e)
  <2> HIDE DEF A, X, one
  <2> QED
    BY <1>1
<1>3. ASSUME NEW u \in Seq(X)
      PROVE  Loop(f(u), u, <<>>, step, X, A)
  <2>1. PICK g : Loop(g, u, <<>>, step, X, A)
    <3> HIDE DEF step, X, A
    <3> QED
      BY <1>1, <1>2, LoopExists
  <2>2. Len(u) \in Nat
    BY LenProperties
  <2>3. g = [n \in 0..Len(u) |-> IF n = 0 THEN <<>> ELSE one(g[n - 1], u[n])]
    <3>1. ASSUME NEW n \in 1..Len(u) PROVE g[n] = one(g[n - 1], u[n])
      <4> HIDE DEF X, A, step, one
      <4>1. g[n - 1] \in A /\ u[n] \in X /\ g[n] = step[<<g[n - 1], u[n]>>]
        BY <2>1, LoopBefore
      <4> QED
        BY <1>2, <4>1
    <3>2. g \in [0..Len(u) -> A] /\ g[0] = <<>>
      BY <2>1 DEF Loop
    <3> HIDE DEF X, A, one
    <3>3. ASSUME NEW n \in 0..Len(u)
          PROVE  g[n] = IF n = 0 THEN <<>> ELSE one(g[n - 1], u[n])
      BY <2>2, <3>1, <3>2
    <3> QED
      BY <3>2, <3>3
  <2> DEFINE h == f(u)
  <2>4. h = [n \in 0..Len(u) |-> IF n = 0 THEN <<>> ELSE one(h[n - 1], u[n])]
    BY <2>3
  <2> HIDE DEF f, h, one
  <2>5. h[0] = <<>> /\ h = [n \in 0..Len(u) |-> h[n]]
    BY <2>2, <2>4
  <2>6. ASSUME NEW n \in 1..Len(u), h[n - 1] \in A PROVE h[n] = step[<<h[n - 1], u[n]>>]
    <3>1. n \in 0..Len(u) /\ n # 0 /\ u[n] \in X
      BY <2>2, ElementOfSeq
    <3>2. h[n] = one(h[n - 1], u[n])
      BY <2>4, <3>1
    <3> HIDE DEF step, A, X
    <3> QED
      BY <1>2, <2>6, <3>1, <3>2
  <2>7. Loop(h, u, <<>>, step, X, A)
    <3> HIDE DEF step, X, A
    <3> QED
      BY <1>1, <1>2, <2>5, <2>6, LoopIs
  <2> QED
    BY <2>7 DEF h
<1>4. \A u : Selected(u, S) = f(u)[Len(u)]
  BY DEF Selected
<1> HIDE DEF f, one
<1>5. Selected(<<>>, S) = <<>>
  <2>1. <<>> \in Seq(X) /\ Len(<<>>) = 0
    BY EmptySeq
  <2>2. f(<<>>)[0] = <<>>
    <3> HIDE DEF step, X, A
    <3> QED
      BY <1>3, <2>1 DEF Loop
  <2> QED
    BY <1>4, <2>1, <2>2
<1>6. ASSUME NEW s \in Seq(X), NEW e \in X
      PROVE  Selected(Append(s, e), S) = one(Selected(s, S), e)
  <2>1. Append(s, e) \in Seq(X)
    BY AppendProperties
  <2> DEFINE t == Append(s, e)
             a == f(s)
             b == f(t)
  <2>2. Loop(a, s, <<>>, step, X, A) /\ Loop(b, t, <<>>, step, X, A)
    BY <1>3, <2>1
  <2>3. t = Append(s, e)
    OBVIOUS
  <2> HIDE DEF step, X, A, a, b, t
  <2>4. Final(a, s) \in A /\ Continues(b, t, a, s, e, step)
    BY <2>2, <2>3, LoopExtends
  <2>5. b[Len(t)] = one(a[Len(s)], e)
    BY <1>2, <2>4 DEF Final, Continues
  <2> QED
    BY <1>4, <2>5 DEF a, b, t
<1>7. ASSUME NEW s \in Seq(X) PROVE Selected(s, S) \in A
  <2> DEFINE a == f(s)
  <2>1. Loop(a, s, <<>>, step, X, A) /\ Len(s) \in Nat
    BY <1>3, LenProperties
  <2> HIDE DEF step, X, A, a
  <2>2. a[Len(s)] \in A
    BY <2>1 DEF Loop
  <2> QED
    BY <1>4, <2>2 DEF a
<1> QED
  BY <1>5, <1>6, <1>7 DEF one

\* The loop over the rooms adds an entry that fits.
LEMMA FillAllLaws ==
    ASSUME NEW C
    PROVE  /\ FillAll(<<>>) = <<>>
           /\ \A s \in Seq(Seq(C)) : FillAll(s) \in Seq(C)
           /\ \A s \in Seq(Seq(C)) : \A e \in Seq(C) :
                 FillAll(Append(s, e)) = IF Len(FillAll(s)) + Len(e) < ReplyMax THEN FillAll(s) \o e ELSE FillAll(s)
<1> DEFINE X == Seq(C)
           A == Seq(C)
           one(a, e) == IF Len(a) + Len(e) < ReplyMax THEN a \o e ELSE a
           step == [p \in A \X X |-> one(p[1], p[2])]
           f(u) == CHOOSE f : f = [n \in 0..Len(u) |-> 
                IF n = 0 THEN <<>>
                ELSE LET last == f[n - 1]
                     IN  IF Len(last) + Len(u[n]) < ReplyMax THEN last \o u[n] ELSE last]
<1>1. <<>> \in A /\ \A a \in A : \A e \in X : one(a, e) \in A
  BY EmptySeq, ConcatProperties
<1>2. step \in [A \X X -> A] /\ \A a \in A : \A e \in X : step[<<a, e>>] = one(a, e)
  <2> HIDE DEF A, X, one
  <2> QED
    BY <1>1
<1>3. ASSUME NEW u \in Seq(X)
      PROVE  Loop(f(u), u, <<>>, step, X, A)
  <2>1. PICK g : Loop(g, u, <<>>, step, X, A)
    <3> HIDE DEF step, X, A
    <3> QED
      BY <1>1, <1>2, LoopExists
  <2>2. Len(u) \in Nat
    BY LenProperties
  <2>3. g = [n \in 0..Len(u) |-> IF n = 0 THEN <<>> ELSE one(g[n - 1], u[n])]
    <3>1. ASSUME NEW n \in 1..Len(u) PROVE g[n] = one(g[n - 1], u[n])
      <4> HIDE DEF X, A, step, one
      <4>1. g[n - 1] \in A /\ u[n] \in X /\ g[n] = step[<<g[n - 1], u[n]>>]
        BY <2>1, LoopBefore
      <4> QED
        BY <1>2, <4>1
    <3>2. g \in [0..Len(u) -> A] /\ g[0] = <<>>
      BY <2>1 DEF Loop
    <3> HIDE DEF X, A, one
    <3>3. ASSUME NEW n \in 0..Len(u)
          PROVE  g[n] = IF n = 0 THEN <<>> ELSE one(g[n - 1], u[n])
      BY <2>2, <3>1, <3>2
    <3> QED
      BY <3>2, <3>3
  <2> DEFINE h == f(u)
  <2>4. h = [n \in 0..Len(u) |-> IF n = 0 THEN <<>> ELSE one(h[n - 1], u[n])]
    BY <2>3
  <2> HIDE DEF f, h, one
  <2>5. h[0] = <<>> /\ h = [n \in 0..Len(u) |-> h[n]]
    BY <2>2, <2>4
  <2>6. ASSUME NEW n \in 1..Len(u), h[n - 1] \in A PROVE h[n] = step[<<h[n - 1], u[n]>>]
    <3>1. n \in 0..Len(u) /\ n # 0 /\ u[n] \in X
      BY <2>2, ElementOfSeq
    <3>2. h[n] = one(h[n - 1], u[n])
      BY <2>4, <3>1
    <3> HIDE DEF step, A, X
    <3> QED
      BY <1>2, <2>6, <3>1, <3>2
  <2>7. Loop(h, u, <<>>, step, X, A)
    <3> HIDE DEF step, X, A
    <3> QED
      BY <1>1, <1>2, <2>5, <2>6, LoopIs
  <2> QED
    BY <2>7 DEF h
<1>4. \A u : FillAll(u) = f(u)[Len(u)]
  BY DEF FillAll
<1> HIDE DEF f, one
<1>5. FillAll(<<>>) = <<>>
  <2>1. <<>> \in Seq(X) /\ Len(<<>>) = 0
    BY EmptySeq
  <2>2. f(<<>>)[0] = <<>>
    <3> HIDE DEF step, X, A
    <3> QED
      BY <1>3, <2>1 DEF Loop
  <2> QED
    BY <1>4, <2>1, <2>2
<1>6. ASSUME NEW s \in Seq(X), NEW e \in X
      PROVE  FillAll(Append(s, e)) = one(FillAll(s), e)
  <2>1. Append(s, e) \in Seq(X)
    BY AppendProperties
  <2> DEFINE t == Append(s, e)
             a == f(s)
             b == f(t)
  <2>2. Loop(a, s, <<>>, step, X, A) /\ Loop(b, t, <<>>, step, X, A)
    BY <1>3, <2>1
  <2>3. t = Append(s, e)
    OBVIOUS
  <2> HIDE DEF step, X, A, a, b, t
  <2>4. Final(a, s) \in A /\ Continues(b, t, a, s, e, step)
    BY <2>2, <2>3, LoopExtends
  <2>5. b[Len(t)] = one(a[Len(s)], e)
    BY <1>2, <2>4 DEF Final, Continues
  <2> QED
    BY <1>4, <2>5 DEF a, b, t
<1>7. ASSUME NEW s \in Seq(X) PROVE FillAll(s) \in A
  <2> DEFINE a == f(s)
  <2>1. Loop(a, s, <<>>, step, X, A) /\ Len(s) \in Nat
    BY <1>3, LenProperties
  <2> HIDE DEF step, X, A, a
  <2>2. a[Len(s)] \in A
    BY <2>1 DEF Loop
  <2> QED
    BY <1>4, <2>2 DEF a
<1> QED
  BY <1>5, <1>6, <1>7 DEF one

\* The loop over the messages adds an entry that fits, until one does not.
LEMMA FilledLaws ==
    ASSUME NEW C
    PROVE  /\ Filled(<<>>) = [text |-> <<>>, full |-> FALSE]
           /\ \A s \in Seq(Seq(C)) : Filled(s) \in [text : Seq(C), full : BOOLEAN]
           /\ \A s \in Seq(Seq(C)) : \A e \in Seq(C) :
                 Filled(Append(s, e)) = IF ~Filled(s).full /\ Len(Filled(s).text) + Len(e) < ReplyMax
                 THEN [text |-> Filled(s).text \o e, full |-> FALSE]
                 ELSE [text |-> Filled(s).text, full |-> TRUE]
<1> DEFINE X == Seq(C)
           A == [text : Seq(C), full : BOOLEAN]
           one(a, e) == IF ~a.full /\ Len(a.text) + Len(e) < ReplyMax
                 THEN [text |-> a.text \o e, full |-> FALSE]
                 ELSE [text |-> a.text, full |-> TRUE]
           step == [p \in A \X X |-> one(p[1], p[2])]
           f(u) == CHOOSE f : f = [n \in 0..Len(u) |-> 
                IF n = 0 THEN [text |-> <<>>, full |-> FALSE]
                ELSE LET last == f[n - 1]
                     IN  IF ~last.full /\ Len(last.text) + Len(u[n]) < ReplyMax
                         THEN [text |-> last.text \o u[n], full |-> FALSE]
                         ELSE [text |-> last.text, full |-> TRUE]]
<1>1. [text |-> <<>>, full |-> FALSE] \in A /\ \A a \in A : \A e \in X : one(a, e) \in A
  BY EmptySeq, ConcatProperties
<1>2. step \in [A \X X -> A] /\ \A a \in A : \A e \in X : step[<<a, e>>] = one(a, e)
  <2> HIDE DEF A, X, one
  <2> QED
    BY <1>1
<1>3. ASSUME NEW u \in Seq(X)
      PROVE  Loop(f(u), u, [text |-> <<>>, full |-> FALSE], step, X, A)
  <2>1. PICK g : Loop(g, u, [text |-> <<>>, full |-> FALSE], step, X, A)
    <3> HIDE DEF step, X, A
    <3> QED
      BY <1>1, <1>2, LoopExists
  <2>2. Len(u) \in Nat
    BY LenProperties
  <2>3. g = [n \in 0..Len(u) |-> IF n = 0 THEN [text |-> <<>>, full |-> FALSE] ELSE one(g[n - 1], u[n])]
    <3>1. ASSUME NEW n \in 1..Len(u) PROVE g[n] = one(g[n - 1], u[n])
      <4> HIDE DEF X, A, step, one
      <4>1. g[n - 1] \in A /\ u[n] \in X /\ g[n] = step[<<g[n - 1], u[n]>>]
        BY <2>1, LoopBefore
      <4> QED
        BY <1>2, <4>1
    <3>2. g \in [0..Len(u) -> A] /\ g[0] = [text |-> <<>>, full |-> FALSE]
      BY <2>1 DEF Loop
    <3> HIDE DEF X, A, one
    <3>3. ASSUME NEW n \in 0..Len(u)
          PROVE  g[n] = IF n = 0 THEN [text |-> <<>>, full |-> FALSE] ELSE one(g[n - 1], u[n])
      BY <2>2, <3>1, <3>2
    <3> QED
      BY <3>2, <3>3
  <2> DEFINE h == f(u)
  <2>4. h = [n \in 0..Len(u) |-> IF n = 0 THEN [text |-> <<>>, full |-> FALSE] ELSE one(h[n - 1], u[n])]
    BY <2>3
  <2> HIDE DEF f, h, one
  <2>5. h[0] = [text |-> <<>>, full |-> FALSE] /\ h = [n \in 0..Len(u) |-> h[n]]
    BY <2>2, <2>4
  <2>6. ASSUME NEW n \in 1..Len(u), h[n - 1] \in A PROVE h[n] = step[<<h[n - 1], u[n]>>]
    <3>1. n \in 0..Len(u) /\ n # 0 /\ u[n] \in X
      BY <2>2, ElementOfSeq
    <3>2. h[n] = one(h[n - 1], u[n])
      BY <2>4, <3>1
    <3> HIDE DEF step, A, X
    <3> QED
      BY <1>2, <2>6, <3>1, <3>2
  <2>7. Loop(h, u, [text |-> <<>>, full |-> FALSE], step, X, A)
    <3> HIDE DEF step, X, A
    <3> QED
      BY <1>1, <1>2, <2>5, <2>6, LoopIs
  <2> QED
    BY <2>7 DEF h
<1>4. \A u : Filled(u) = f(u)[Len(u)]
  BY DEF Filled
<1> HIDE DEF f, one
<1>5. Filled(<<>>) = [text |-> <<>>, full |-> FALSE]
  <2>1. <<>> \in Seq(X) /\ Len(<<>>) = 0
    BY EmptySeq
  <2>2. f(<<>>)[0] = [text |-> <<>>, full |-> FALSE]
    <3> HIDE DEF step, X, A
    <3> QED
      BY <1>3, <2>1 DEF Loop
  <2> QED
    BY <1>4, <2>1, <2>2
<1>6. ASSUME NEW s \in Seq(X), NEW e \in X
      PROVE  Filled(Append(s, e)) = one(Filled(s), e)
  <2>1. Append(s, e) \in Seq(X)
    BY AppendProperties
  <2> DEFINE t == Append(s, e)
             a == f(s)
             b == f(t)
             z == [text |-> <<>>, full |-> FALSE]
  <2>2. Loop(a, s, z, step, X, A) /\ Loop(b, t, z, step, X, A)
    BY <1>3, <2>1
  <2>3. t = Append(s, e)
    OBVIOUS
  <2> HIDE DEF step, X, A, a, b, t, z
  <2>4. Final(a, s) \in A /\ Continues(b, t, a, s, e, step)
    BY <2>2, <2>3, LoopExtends
  <2>5. b[Len(t)] = one(a[Len(s)], e)
    BY <1>2, <2>4 DEF Final, Continues
  <2> QED
    BY <1>4, <2>5 DEF a, b, t
<1>7. ASSUME NEW s \in Seq(X) PROVE Filled(s) \in A
  <2> DEFINE a == f(s)
  <2>1. Loop(a, s, [text |-> <<>>, full |-> FALSE], step, X, A) /\ Len(s) \in Nat
    BY <1>3, LenProperties
  <2> HIDE DEF step, X, A, a
  <2>2. a[Len(s)] \in A
    BY <2>1 DEF Loop
  <2> QED
    BY <1>4, <2>2 DEF a
<1> QED
  BY <1>5, <1>6, <1>7 DEF one

\* What a character does to the fields found so far.
SplitStep(x, y, e, sep) ==
    /\ y.done = IF e = sep THEN Ended(x) ELSE x.done
    /\ y.last = IF e = sep THEN <<>> ELSE Append(x.last, e)

\* strtok_r ends a field at a separator, if it is not empty.
LEMMA SplitLaws ==
    ASSUME NEW C, NEW sep
    PROVE  /\ Split(<<>>, sep) = [done |-> <<>>, last |-> <<>>]
           /\ \A s \in Seq(C) : Split(s, sep) \in [done : Seq(Seq(C)), last : Seq(C)]
           /\ \A s \in Seq(C) : \A e \in C :
                 SplitStep(Split(s, sep), Split(Append(s, e), sep), e, sep)
<1> DEFINE X == C
           A == [done : Seq(Seq(C)), last : Seq(C)]
           one(a, e) == IF e = sep THEN [done |-> Ended(a), last |-> <<>>]
                 ELSE [done |-> a.done, last |-> Append(a.last, e)]
           step == [p \in A \X X |-> one(p[1], p[2])]
           f(u) == CHOOSE f : f = [n \in 0..Len(u) |-> 
                IF n = 0 THEN [done |-> <<>>, last |-> <<>>]
                ELSE LET before == f[n - 1]
                     IN  IF u[n] = sep THEN [done |-> Ended(before), last |-> <<>>]
                         ELSE [done |-> before.done, last |-> Append(before.last, u[n])]]
<1>1. [done |-> <<>>, last |-> <<>>] \in A /\ \A a \in A : \A e \in X : one(a, e) \in A
  BY EmptySeq, AppendProperties DEF Ended
<1>2. step \in [A \X X -> A] /\ \A a \in A : \A e \in X : step[<<a, e>>] = one(a, e)
  <2> HIDE DEF A, X, one
  <2> QED
    BY <1>1
<1>3. ASSUME NEW u \in Seq(X)
      PROVE  Loop(f(u), u, [done |-> <<>>, last |-> <<>>], step, X, A)
  <2>1. PICK g : Loop(g, u, [done |-> <<>>, last |-> <<>>], step, X, A)
    <3> HIDE DEF step, X, A
    <3> QED
      BY <1>1, <1>2, LoopExists
  <2>2. Len(u) \in Nat
    BY LenProperties
  <2>3. g = [n \in 0..Len(u) |-> IF n = 0 THEN [done |-> <<>>, last |-> <<>>] ELSE one(g[n - 1], u[n])]
    <3>1. ASSUME NEW n \in 1..Len(u) PROVE g[n] = one(g[n - 1], u[n])
      <4> HIDE DEF X, A, step, one
      <4>1. g[n - 1] \in A /\ u[n] \in X /\ g[n] = step[<<g[n - 1], u[n]>>]
        BY <2>1, LoopBefore
      <4> QED
        BY <1>2, <4>1
    <3>2. g \in [0..Len(u) -> A] /\ g[0] = [done |-> <<>>, last |-> <<>>]
      BY <2>1 DEF Loop
    <3> HIDE DEF X, A, one
    <3>3. ASSUME NEW n \in 0..Len(u)
          PROVE  g[n] = IF n = 0 THEN [done |-> <<>>, last |-> <<>>] ELSE one(g[n - 1], u[n])
      BY <2>2, <3>1, <3>2
    <3> QED
      BY <3>2, <3>3
  <2> DEFINE h == f(u)
  <2>4. h = [n \in 0..Len(u) |-> IF n = 0 THEN [done |-> <<>>, last |-> <<>>] ELSE one(h[n - 1], u[n])]
    BY <2>3
  <2> HIDE DEF f, h, one
  <2>5. h[0] = [done |-> <<>>, last |-> <<>>] /\ h = [n \in 0..Len(u) |-> h[n]]
    BY <2>2, <2>4
  <2>6. ASSUME NEW n \in 1..Len(u), h[n - 1] \in A PROVE h[n] = step[<<h[n - 1], u[n]>>]
    <3>1. n \in 0..Len(u) /\ n # 0 /\ u[n] \in X
      BY <2>2, ElementOfSeq
    <3>2. h[n] = one(h[n - 1], u[n])
      BY <2>4, <3>1
    <3> HIDE DEF step, A, X
    <3> QED
      BY <1>2, <2>6, <3>1, <3>2
  <2>7. Loop(h, u, [done |-> <<>>, last |-> <<>>], step, X, A)
    <3> HIDE DEF step, X, A
    <3> QED
      BY <1>1, <1>2, <2>5, <2>6, LoopIs
  <2> QED
    BY <2>7 DEF h
<1>4. \A u : Split(u, sep) = f(u)[Len(u)]
  BY DEF Split
<1> HIDE DEF f, one
<1>5. Split(<<>>, sep) = [done |-> <<>>, last |-> <<>>]
  <2>1. <<>> \in Seq(X) /\ Len(<<>>) = 0
    BY EmptySeq
  <2>2. f(<<>>)[0] = [done |-> <<>>, last |-> <<>>]
    <3> HIDE DEF step, X, A
    <3> QED
      BY <1>3, <2>1 DEF Loop
  <2> QED
    BY <1>4, <2>1, <2>2
<1>6. ASSUME NEW s \in Seq(X), NEW e \in X
      PROVE  Split(Append(s, e), sep) = one(Split(s, sep), e)
  <2>1. Append(s, e) \in Seq(X)
    BY AppendProperties
  <2> DEFINE t == Append(s, e)
             a == f(s)
             b == f(t)
             z == [done |-> <<>>, last |-> <<>>]
  <2>2. Loop(a, s, z, step, X, A) /\ Loop(b, t, z, step, X, A)
    BY <1>3, <2>1
  <2>3. t = Append(s, e)
    OBVIOUS
  <2> HIDE DEF step, X, A, a, b, t, z
  <2>4. Final(a, s) \in A /\ Continues(b, t, a, s, e, step)
    BY <2>2, <2>3, LoopExtends
  <2>5. b[Len(t)] = one(a[Len(s)], e)
    BY <1>2, <2>4 DEF Final, Continues
  <2> QED
    BY <1>4, <2>5 DEF a, b, t
<1>7. ASSUME NEW s \in Seq(X) PROVE Split(s, sep) \in A
  <2> DEFINE a == f(s)
  <2>1. Loop(a, s, [done |-> <<>>, last |-> <<>>], step, X, A) /\ Len(s) \in Nat
    BY <1>3, LenProperties
  <2> HIDE DEF step, X, A, a
  <2>2. a[Len(s)] \in A
    BY <2>1 DEF Loop
  <2> QED
    BY <1>4, <2>2 DEF a
<1>8. ASSUME NEW s \in Seq(X), NEW e \in X
      PROVE  SplitStep(Split(s, sep), Split(Append(s, e), sep), e, sep)
  <2> DEFINE x == Split(s, sep)
             y == Split(Append(s, e), sep)
  <2>1. y = one(x, e)
    BY <1>6
  <2> HIDE DEF x, y
  <2>2. SplitStep(x, y, e, sep)
    BY <2>1 DEF one, SplitStep
  <2> QED
    BY <2>2 DEF x, y
<1> QED
  BY <1>5, <1>7, <1>8

-----------------------------------------------------------------------------
\* Concatenation, by what is appended.
LEMMA ConcatAppend ==
    ASSUME NEW X, NEW s \in Seq(X), NEW t \in Seq(X), NEW e \in X
    PROVE  s \o Append(t, e) = Append(s \o t, e)
<1>1. <<e>> \in Seq(X) /\ s \o t \in Seq(X)
  BY ConcatProperties
<1>2. Append(t, e) = t \o <<e>> /\ Append(s \o t, e) = (s \o t) \o <<e>>
  BY <1>1, AppendIsConcat
<1> QED
  BY <1>1, <1>2, ConcatAssociative

\* What is selected of two sequences.
LEMMA SelectedConcat ==
    ASSUME NEW C, NEW S, NEW s \in Seq(C), NEW t \in Seq(C)
    PROVE  Selected(s \o t, S) = Selected(s, S) \o Selected(t, S)
<1> DEFINE T == {u \in Seq(C) : Selected(s \o u, S) = Selected(s, S) \o Selected(u, S)}
<1>0. /\ \A x \in Seq(C) : Selected(x, S) \in Seq(C)
      /\ \A x \in Seq(C) : \A e \in C :
            Selected(Append(x, e), S) = IF e \in S THEN Append(Selected(x, S), e) ELSE Selected(x, S)
  BY SelectedLaws
<1>1. Selected(s, S) \in Seq(C)
  BY <1>0
<1>2. <<>> \in T
  <2>1. Selected(<<>>, S) = <<>>
    BY SelectedLaws
  <2> QED
    BY <1>1, <2>1, EmptySeq, ConcatEmptySeq
<1>3. ASSUME NEW u \in Seq(C), NEW e \in C, u \in T PROVE Append(u, e) \in T
  <2>1. s \o Append(u, e) = Append(s \o u, e)
    BY ConcatAppend
  <2>2. s \o u \in Seq(C) /\ Append(u, e) \in Seq(C)
    BY ConcatProperties, AppendProperties
  <2> DEFINE w == s \o u
             a == Selected(s, S)
             b == Selected(u, S)
             c == Selected(w, S)
  <2>3. a \in Seq(C) /\ b \in Seq(C) /\ c \in Seq(C) /\ c = a \o b
    BY <1>0, <1>3, <2>2
  <2>4. Selected(Append(w, e), S) = IF e \in S THEN Append(c, e) ELSE c
    BY <1>0, <2>2
  <2>5. Selected(Append(u, e), S) = IF e \in S THEN Append(b, e) ELSE b
    BY <1>0
  <2> HIDE DEF a, b, c
  <2>6. a \o Append(b, e) = Append(a \o b, e)
    BY <2>3, ConcatAppend
  <2>7. Selected(Append(w, e), S) = a \o Selected(Append(u, e), S)
    BY <2>3, <2>4, <2>5, <2>6
  <2> QED
    BY <2>1, <2>2, <2>7 DEF a
<1>4. Seq(C) \subseteq T
  <2> HIDE DEF T
  <2> QED
    BY <1>2, <1>3, SeqInductionSet
<1> QED
  BY <1>4

\* What is selected of one element.
LEMMA SelectedOne ==
    ASSUME NEW C, NEW S, NEW e \in C
    PROVE  Selected(<<e>>, S) = IF e \in S THEN <<e>> ELSE <<>>
<1> DEFINE z == <<>>
<1>1. \A x \in Seq(C) : \A c \in C :
            Selected(Append(x, c), S) = IF c \in S THEN Append(Selected(x, S), c) ELSE Selected(x, S)
  BY SelectedLaws
<1>2. Selected(z, S) = z
  BY SelectedLaws
<1>3. z \in Seq(C)
  BY EmptySeq
<1>4. Append(z, e) = <<e>>
  OBVIOUS
<1> HIDE DEF z
<1>5. Selected(Append(z, e), S) = IF e \in S THEN Append(Selected(z, S), e) ELSE Selected(z, S)
  BY <1>1, <1>3
<1> QED
  BY <1>2, <1>4, <1>5 DEF z

\* What strtok_r finds is a sequence of strings.
LEMMA TokensTyped ==
    ASSUME NEW C, NEW sep, NEW s \in Seq(C)
    PROVE  Tokens(s, sep) \in Seq(Seq(C))
<1> DEFINE x == Split(s, sep)
<1>1. x \in [done : Seq(Seq(C)), last : Seq(C)]
  BY SplitLaws
<1>2. Tokens(s, sep) = IF x.last = <<>> THEN x.done ELSE Append(x.done, x.last)
  BY DEF Tokens, Ended
<1> HIDE DEF x
<1>3. x.done \in Seq(Seq(C)) /\ x.last \in Seq(C)
  BY <1>1
<1>4. Append(x.done, x.last) \in Seq(Seq(C))
  BY <1>3, AppendProperties
<1> QED
  BY <1>2, <1>3, <1>4

\* An empty string has no fields.
LEMMA TokensEmpty ==
    ASSUME NEW sep
    PROVE  Tokens(<<>>, sep) = <<>>
<1> DEFINE x == Split(<<>>, sep)
<1>1. x = [done |-> <<>>, last |-> <<>>]
  BY SplitLaws
<1> HIDE DEF x
<1>2. Ended(x) = <<>>
  BY <1>1 DEF Ended
<1> QED
  BY <1>2 DEF x, Tokens

\* A string without the separator is one field, if it is not empty.
LEMMA SplitAppend ==
    ASSUME NEW C, NEW sep, NEW s \in Seq(C), NEW e \in C, NEW x, x = Split(s, sep), NEW y,
           y = Split(Append(s, e), sep)
    PROVE  /\ x \in [done : Seq(Seq(C)), last : Seq(C)]
           /\ y.done = IF e = sep THEN Ended(x) ELSE x.done
           /\ y.last = IF e = sep THEN <<>> ELSE Append(x.last, e)
<1>1. x \in [done : Seq(Seq(C)), last : Seq(C)]
  BY SplitLaws
<1>2. SplitStep(x, y, e, sep)
  BY SplitLaws
<1> QED
  BY <1>1, <1>2 DEF SplitStep

\* A string without the separator is one field, if it is not empty.
LEMMA TokensOne ==
    ASSUME NEW C, NEW sep, NEW s \in Seq(C), \A i \in DOMAIN s : s[i] # sep
    PROVE  Tokens(s, sep) = IF s = <<>> THEN <<>> ELSE <<s>>
<1> DEFINE T == {u \in Seq(C) : (\A i \in DOMAIN u : u[i] # sep) =>
                                   /\ Split(u, sep).done = <<>>
                                   /\ Split(u, sep).last = u}
<1>1. <<>> \in T
  BY SplitLaws, EmptySeq
<1>2. ASSUME NEW u \in Seq(C), NEW e \in C, u \in T PROVE Append(u, e) \in T
  <2> DEFINE t == Append(u, e)
             x == Split(u, sep)
  <2>1. /\ t \in Seq(C) /\ DOMAIN t = 1..(Len(u) + 1) /\ DOMAIN u = 1..Len(u) /\ Len(u) \in Nat
        /\ \A i \in 1..Len(u) : t[i] = u[i]
        /\ t[Len(u) + 1] = e
    BY AppendProperties, LenProperties
  <2>2. /\ Split(t, sep).done = IF e = sep THEN Ended(x) ELSE x.done
        /\ Split(t, sep).last = IF e = sep THEN <<>> ELSE Append(x.last, e)
    BY SplitAppend
  <2> HIDE DEF x, t
  <2> SUFFICES ASSUME \A i \in DOMAIN t : t[i] # sep
               PROVE  Split(t, sep).done = <<>> /\ Split(t, sep).last = t
    BY <2>1 DEF t
  <2>3. (\A i \in DOMAIN u : u[i] # sep) /\ e # sep
    <3>1. \A i \in 1..Len(u) : i \in DOMAIN t
      BY <2>1
    <3>2. Len(u) + 1 \in DOMAIN t
      BY <2>1
    <3> QED
      BY <2>1, <3>1, <3>2
  <2>4. x.done = <<>> /\ x.last = u
    BY <1>2, <2>3 DEF x
  <2>5. Split(t, sep).done = x.done /\ Split(t, sep).last = Append(x.last, e)
    BY <2>2, <2>3
  <2> QED
    BY <2>4, <2>5 DEF t
<1>3. Seq(C) \subseteq T
  <2> HIDE DEF T
  <2> QED
    BY <1>1, <1>2, SeqInductionSet
<1>4. Split(s, sep).done = <<>> /\ Split(s, sep).last = s
  BY <1>3
<1> QED
  BY <1>4 DEF Tokens, Ended

\* The fields of two strings with a separator between them.
LEMMA TokensConcat ==
    ASSUME NEW C, NEW sep \in C, NEW s \in Seq(C), NEW t \in Seq(C)
    PROVE  /\ Append(s, sep) \o t \in Seq(C)
           /\ Tokens(Append(s, sep) \o t, sep) = Tokens(s, sep) \o Tokens(t, sep)
<1> DEFINE p == Append(s, sep)
           A == Tokens(s, sep)
           T == {u \in Seq(C) : /\ Split(p \o u, sep).done = A \o Split(u, sep).done
                                /\ Split(p \o u, sep).last = Split(u, sep).last}
<1>1. p \in Seq(C) /\ A \in Seq(Seq(C))
  BY AppendProperties, TokensTyped
<1>2. Split(p, sep).done = A /\ Split(p, sep).last = <<>>
  <2> DEFINE x == Split(s, sep)
             y == Split(p, sep)
  <2>1. SplitStep(x, y, sep, sep)
    BY SplitLaws
  <2> QED
    BY <2>1 DEF Tokens, SplitStep
<1> HIDE DEF p, A
<1>3. <<>> \in T
  <2>1. Split(<<>>, sep) = [done |-> <<>>, last |-> <<>>]
    BY SplitLaws
  <2>2. p \o <<>> = p /\ A \o <<>> = A /\ <<>> \in Seq(C)
    BY <1>1, ConcatEmptySeq, EmptySeq
  <2>3. Split(<<>>, sep).done = <<>> /\ Split(<<>>, sep).last = <<>>
    BY <2>1
  <2>4. Split(p \o <<>>, sep).done = A /\ Split(p \o <<>>, sep).last = <<>>
    BY <1>2, <2>2
  <2> QED
    BY <2>2, <2>3, <2>4
<1>4. ASSUME NEW u \in Seq(C), NEW e \in C, u \in T PROVE Append(u, e) \in T
  <2> DEFINE x == Split(u, sep)
             y == Split(p \o u, sep)
             v == Append(u, e)
  <2>1. p \o u \in Seq(C) /\ p \o v = Append(p \o u, e) /\ v \in Seq(C)
    BY <1>1, ConcatAppend, ConcatProperties, AppendProperties
  <2>2. /\ x \in [done : Seq(Seq(C)), last : Seq(C)]
        /\ Split(v, sep).done = IF e = sep THEN Ended(x) ELSE x.done
        /\ Split(v, sep).last = IF e = sep THEN <<>> ELSE Append(x.last, e)
    BY SplitAppend
  <2>3. /\ Split(p \o v, sep).done = IF e = sep THEN Ended(y) ELSE y.done
        /\ Split(p \o v, sep).last = IF e = sep THEN <<>> ELSE Append(y.last, e)
    <3> DEFINE w == p \o u
    <3>1. w \in Seq(C) /\ p \o v = Append(w, e) /\ y = Split(w, sep)
      BY <2>1
    <3> HIDE DEF w, y, v
    <3> QED
      BY <3>1, SplitAppend
  <2>4. y.done = A \o x.done /\ y.last = x.last
    BY <1>4
  <2> HIDE DEF x, y, v
  <2>5. x.done \in Seq(Seq(C)) /\ x.last \in Seq(C)
    BY <2>2
  <2>6. Ended(y) = A \o Ended(x)
    <3>1. A \o Append(x.done, x.last) = Append(A \o x.done, x.last)
      <4> DEFINE d == x.done
                 g == x.last
                 X == Seq(C)
      <4>1. A \in Seq(X) /\ d \in Seq(X) /\ g \in X
        BY <1>1, <2>5
      <4> HIDE DEF d, g, X
      <4>2. A \o Append(d, g) = Append(A \o d, g)
        BY <4>1, ConcatAppend
      <4> QED
        BY <4>2 DEF d, g
    <3> QED
      BY <2>4, <3>1 DEF Ended
  <2>7. /\ Split(p \o v, sep).done = A \o Split(v, sep).done
        /\ Split(p \o v, sep).last = Split(v, sep).last
    BY <2>2, <2>3, <2>4, <2>6
  <2> QED
    BY <2>1, <2>7 DEF v
<1>5. Seq(C) \subseteq T
  <2> HIDE DEF T
  <2> QED
    BY <1>3, <1>4, SeqInductionSet
<1>6. p \o t \in Seq(C)
  BY <1>1, ConcatProperties
<1>7. Tokens(p \o t, sep) = A \o Tokens(t, sep)
  <2> DEFINE x == Split(t, sep)
             y == Split(p \o t, sep)
  <2>1. y.done = A \o x.done /\ y.last = x.last
    BY <1>5
  <2>2. x \in [done : Seq(Seq(C)), last : Seq(C)]
    BY SplitLaws
  <2> HIDE DEF x, y
  <2>3. A \o Append(x.done, x.last) = Append(A \o x.done, x.last)
    BY <1>1, <2>2, ConcatAppend
  <2>4. Ended(y) = A \o Ended(x)
    BY <2>1, <2>3 DEF Ended
  <2> QED
    BY <2>4 DEF Tokens, x, y
<1> QED
  BY <1>6, <1>7 DEF p, A

-----------------------------------------------------------------------------
\* A sequence with h of each element.
Mapped(h, s) == [i \in DOMAIN s |-> h[s[i]]]
Images(h, C) == {h[c] : c \in C}

\* A function applied to each element keeps the length.
LEMMA MappedTyped ==
    ASSUME NEW C, NEW h, NEW s \in Seq(C)
    PROVE  /\ Mapped(h, s) \in Seq(Images(h, C))
           /\ Len(Mapped(h, s)) = Len(s)
           /\ DOMAIN Mapped(h, s) = 1..Len(s)
           /\ \A i \in 1..Len(s) : Mapped(h, s)[i] = h[s[i]]
<1> DEFINE D == Images(h, C)
<1>1. DOMAIN s = 1..Len(s) /\ Len(s) \in Nat /\ \A i \in 1..Len(s) : s[i] \in C
  BY LenProperties, ElementOfSeq
<1>2. Mapped(h, s) \in [1..Len(s) -> D]
  BY <1>1 DEF Mapped, Images
<1> HIDE DEF D
<1>3. Mapped(h, s) \in Seq(D) /\ Len(Mapped(h, s)) = Len(s)
  BY <1>1, <1>2
<1> QED
  BY <1>1, <1>2, <1>3 DEF D, Mapped

MapSplits(h, s, t) == Mapped(h, s \o t) = Mapped(h, s) \o Mapped(h, t)

\* ... and can be applied to two parts.
LEMMA MappedConcat ==
    ASSUME NEW C, NEW h, NEW s \in Seq(C), NEW t \in Seq(C)
    PROVE  MapSplits(h, s, t)
<1> DEFINE D == Images(h, C)
           a == Mapped(h, s)
           b == Mapped(h, t)
           u == s \o t
           c == Mapped(h, u)
           N == Len(s)
           M == Len(t)
<1>1. u \in Seq(C) /\ Len(u) = N + M
      /\ \A i \in 1..(N + M) : u[i] = IF i <= N THEN s[i] ELSE t[i - N]
  BY ConcatProperties
<1>2. N \in Nat /\ M \in Nat
  BY LenProperties
<1>3. /\ a \in Seq(D) /\ Len(a) = N /\ DOMAIN s = 1..N
      /\ b \in Seq(D) /\ Len(b) = M /\ DOMAIN t = 1..M
  BY MappedTyped, LenProperties
<1>4. c \in Seq(D) /\ Len(c) = N + M /\ DOMAIN u = 1..(N + M)
  <2> HIDE DEF u, D, N, M
  <2>1. DOMAIN u = 1..Len(u)
    BY <1>1, LenProperties
  <2> QED
    BY <1>1, <2>1, MappedTyped DEF D
<1>7. /\ \A i \in 1..N : a[i] = h[s[i]]
      /\ \A i \in 1..M : b[i] = h[t[i]]
      /\ \A i \in 1..(N + M) : c[i] = h[u[i]]
  <2> HIDE DEF u, N, M
  <2>1. \A i \in 1..N : a[i] = h[s[i]]
    BY <1>3 DEF Mapped
  <2>2. \A i \in 1..M : b[i] = h[t[i]]
    BY <1>3 DEF Mapped
  <2>3. \A i \in 1..(N + M) : c[i] = h[u[i]]
    BY <1>4 DEF Mapped
  <2> QED
    BY <2>1, <2>2, <2>3
<1> HIDE DEF D, a, b, c, u, N, M
<1>5. a \o b \in Seq(D) /\ Len(a \o b) = N + M
      /\ \A i \in 1..(N + M) : (a \o b)[i] = IF i <= N THEN a[i] ELSE b[i - N]
  BY <1>3, ConcatProperties
<1>6. ASSUME NEW i \in 1..(N + M) PROVE c[i] = (a \o b)[i]
  <2>1. CASE i <= N
    <3>1. i \in 1..N
      BY <1>2, <2>1
    <3>2. u[i] = s[i] /\ (a \o b)[i] = a[i]
      BY <1>1, <1>5, <2>1
    <3>3. a[i] = h[s[i]] /\ c[i] = h[u[i]]
      BY <1>7, <3>1
    <3> QED
      BY <3>2, <3>3
  <2>2. CASE ~(i <= N)
    <3>1. i - N \in 1..M
      BY <1>2, <2>2
    <3> QED
      BY <1>1, <1>7, <1>5, <2>2, <3>1
  <2> QED
    BY <2>1, <2>2
<1>8. c = a \o b
  BY <1>3, <1>4, <1>5, <1>6, SeqEqual
<1> QED
  BY <1>8 DEF a, b, c, u, MapSplits

\* ... to nothing and to one element.
LEMMA MappedOne ==
    ASSUME NEW h
    PROVE  /\ Mapped(h, <<>>) = <<>>
           /\ \A x : Mapped(h, <<x>>) = <<h[x]>>
BY DEF Mapped

\* ... and to what is appended.
LEMMA MappedAppend ==
    ASSUME NEW C, NEW h, NEW s \in Seq(C), NEW e \in C
    PROVE  Mapped(h, Append(s, e)) = Append(Mapped(h, s), h[e])
<1> DEFINE D == Images(h, C)
           d == h[e]
           one == <<e>>
           a == Mapped(h, s)
<1>1. one \in Seq(C) /\ Append(s, e) = s \o one
  BY AppendIsConcat
<1>2. Mapped(h, one) = <<d>>
  BY MappedOne
<1>3. a \in Seq(D) /\ d \in D
  <2>1. d \in D
    BY DEF Images
  <2> QED
    BY <2>1, MappedTyped
<1>4. Append(a, d) = a \o <<d>>
  <2> HIDE DEF a, d, D
  <2> QED
    BY <1>3, AppendIsConcat
<1>5. Mapped(h, s \o one) = a \o Mapped(h, one)
  <2>1. MapSplits(h, s, one)
    BY <1>1, MappedConcat
  <2> QED
    BY <2>1 DEF MapSplits
<1> QED
  BY <1>1, <1>2, <1>4, <1>5

-----------------------------------------------------------------------------
(***************************************************************************)
(* What the client makes of a string: both parsers.                        *)
(***************************************************************************)
Strings == Seq(Chars)

OnComma == [s \in Strings |-> Tokens(s, ",")]
AsMessage == [w \in Seq(Strings) |-> [sender |-> Id(w[1]), text |-> w[2]]]
AsRoom == [w \in Seq(Strings) |-> [id |-> Id(w[1]), name |-> w[2]]]

Parsed(h, n, data) == Mapped(h, Selected(Fields(data), Having(n)))

\* The separators are characters.
LEMMA CharsHaveSeparators ==
    "," \in Chars /\ ";" \in Chars /\ "," # ";"
BY DEF Chars

\* Fields, as a function applied to each entry.
LEMMA FieldsMapped ==
    ASSUME NEW s \in Strings
    PROVE  /\ Tokens(s, ";") \in Seq(Strings)
           /\ Fields(s) = Mapped(OnComma, Tokens(s, ";"))
           /\ Fields(s) \in Seq(Seq(Strings))
<1> DEFINE ts == Tokens(s, ";")
<1>1. ts \in Seq(Strings)
  BY TokensTyped DEF Strings
<1>2. \A x \in Strings : OnComma[x] = Tokens(x, ",") /\ OnComma[x] \in Seq(Strings)
  BY TokensTyped DEF Strings, OnComma
<1>3. Fields(s) = [i \in DOMAIN ts |-> Tokens(ts[i], ",")]
  BY DEF Fields
<1> HIDE DEF ts
<1>4. DOMAIN ts = 1..Len(ts) /\ Len(ts) \in Nat /\ \A i \in DOMAIN ts : ts[i] \in Strings
  BY <1>1, LenProperties, ElementOfSeq
<1>5. Fields(s) = Mapped(OnComma, ts)
  BY <1>2, <1>3, <1>4 DEF Mapped
<1>6. Fields(s) \in [1..Len(ts) -> Seq(Strings)]
  BY <1>2, <1>3, <1>4
<1>7. Fields(s) \in Seq(Seq(Strings))
  BY <1>4, <1>6
<1> QED
  BY <1>1, <1>5, <1>7 DEF ts

\* The parsers drop the short entries and take the others apart.
LEMMA ParsersAreParsed ==
    ASSUME NEW s \in Strings
    PROVE  Parse(s) = Parsed(AsMessage, 3, s) /\ ParseRooms(s) = Parsed(AsRoom, 2, s)
<1> DEFINE a == Selected(Fields(s), Having(3))
           b == Selected(Fields(s), Having(2))
<1>1. a \in Seq(Seq(Strings)) /\ b \in Seq(Seq(Strings))
  BY FieldsMapped, SelectedLaws
<1>2. /\ Parse(s) = [i \in DOMAIN a |-> [sender |-> Id(a[i][1]), text |-> a[i][2]]]
      /\ ParseRooms(s) = [i \in DOMAIN b |-> [id |-> Id(b[i][1]), name |-> b[i][2]]]
  BY DEF Parse, ParseRooms
<1> HIDE DEF a, b
<1>3. /\ \A i \in DOMAIN a : AsMessage[a[i]] = [sender |-> Id(a[i][1]), text |-> a[i][2]]
      /\ \A i \in DOMAIN b : AsRoom[b[i]] = [id |-> Id(b[i][1]), name |-> b[i][2]]
  <2>1. (\A i \in DOMAIN a : a[i] \in Seq(Strings)) /\ \A i \in DOMAIN b : b[i] \in Seq(Strings)
    BY <1>1, LenProperties, ElementOfSeq
  <2> QED
    BY <2>1 DEF AsMessage, AsRoom
<1>4. Parse(s) = Mapped(AsMessage, a) /\ ParseRooms(s) = Mapped(AsRoom, b)
  BY <1>2, <1>3 DEF Mapped
<1> QED
  BY <1>4 DEF Parsed, a, b

\* What is parsed are images of lists of fields.
LEMMA ParsedTyped ==
    ASSUME NEW h, NEW n, NEW s \in Strings
    PROVE  Parsed(h, n, s) \in Seq(Images(h, Seq(Strings)))
<1>1. Selected(Fields(s), Having(n)) \in Seq(Seq(Strings))
  BY FieldsMapped, SelectedLaws
<1> QED
  BY <1>1, MappedTyped DEF Parsed

ParsedSplits(h, n, l, s, t) == Parsed(h, n, l \o t) = Parsed(h, n, s) \o Parsed(h, n, t)

\* Two strings with a ";" between them are taken apart each by itself.
LEMMA ParsedConcat ==
    ASSUME NEW h, NEW n, NEW s \in Strings, NEW t \in Strings, NEW l, l = Append(s, ";")
    PROVE  /\ l \o t \in Strings
           /\ ParsedSplits(h, n, l, s, t)
<1> DEFINE u == l \o t
           S == Having(n)
<1>1. u \in Strings /\ Tokens(u, ";") = Tokens(s, ";") \o Tokens(t, ";")
  BY TokensConcat, CharsHaveSeparators DEF Strings
<1> DEFINE a == Fields(s)
           b == Fields(t)
<1>2. Fields(u) = a \o b /\ a \in Seq(Seq(Strings)) /\ b \in Seq(Seq(Strings))
  <2> HIDE DEF u
  <2>1. /\ Tokens(s, ";") \in Seq(Strings) /\ Tokens(t, ";") \in Seq(Strings)
        /\ a = Mapped(OnComma, Tokens(s, ";")) /\ b = Mapped(OnComma, Tokens(t, ";"))
        /\ Fields(u) = Mapped(OnComma, Tokens(u, ";"))
        /\ a \in Seq(Seq(Strings)) /\ b \in Seq(Seq(Strings))
    BY <1>1, FieldsMapped
  <2> DEFINE p == Tokens(s, ";")
             q == Tokens(t, ";")
  <2>2. Mapped(OnComma, p \o q) = Mapped(OnComma, p) \o Mapped(OnComma, q)
    <3>1. p \in Seq(Strings) /\ q \in Seq(Strings)
      BY <2>1
    <3> HIDE DEF p, q
    <3>2. MapSplits(OnComma, p, q)
      BY <3>1, MappedConcat
    <3> QED
      BY <3>2 DEF MapSplits
  <2> QED
    BY <1>1, <2>1, <2>2
<1> HIDE DEF u, S, a, b
<1> DEFINE p == Selected(a, S)
           q == Selected(b, S)
<1>5. Selected(a \o b, S) = p \o q
  BY <1>2, SelectedConcat
<1>6. p \in Seq(Seq(Strings)) /\ q \in Seq(Seq(Strings))
  BY <1>2, SelectedLaws
<1>3. Selected(a \o b, S) = p \o q /\ p \in Seq(Seq(Strings)) /\ q \in Seq(Seq(Strings))
  BY <1>5, <1>6
<1> HIDE DEF p, q
<1>4. Mapped(h, p \o q) = Mapped(h, p) \o Mapped(h, q)
  <2>1. MapSplits(h, p, q)
    BY <1>3, MappedConcat
  <2> QED
    BY <2>1 DEF MapSplits
<1> QED
  BY <1>1, <1>2, <1>3, <1>4 DEF Parsed, ParsedSplits, u, S, a, b, p, q

\* No fields are less than one.
LEMMA NoneIsTooFew ==
    ASSUME NEW n \in Nat, n >= 1
    PROVE  \A k : k = 0 => ~(k >= n)
OBVIOUS

EntryParsed(h, n, s, w) == Parsed(h, n, s) = IF Len(w) >= n THEN <<h[w]>> ELSE <<>>

\* A string without ";" is one entry, if it has enough fields.
LEMMA ParsedOne ==
    ASSUME NEW h, NEW n \in Nat, n >= 1, NEW s \in Strings, \A i \in DOMAIN s : s[i] # ";",
           NEW w, w = Tokens(s, ",")
    PROVE  EntryParsed(h, n, s, w)
<1> DEFINE S == Having(n)
<1>1. w \in Seq(Strings) /\ (w \in S <=> Len(w) >= n)
  BY TokensTyped DEF Strings, Having
<1>2. Tokens(s, ";") = IF s = <<>> THEN <<>> ELSE <<s>>
  BY TokensOne DEF Strings
<1>3. Selected(<<>>, S) = <<>>
  BY SelectedLaws
<1>4. CASE s = <<>>
  <2>1. Fields(s) = <<>>
    BY <1>2, <1>4, FieldsMapped, MappedOne
  <2>2. w = <<>>
    BY <1>4, TokensEmpty
  <2>4. Len(w) = 0
    BY <2>2, EmptySeq
  <2>3. ~(Len(w) >= n)
    BY <2>4, NoneIsTooFew
  <2> QED
    BY <1>3, <2>1, <2>3, MappedOne DEF Parsed, EntryParsed
<1>5. CASE s # <<>>
  <2>1. Fields(s) = <<w>>
    <3>1. Fields(s) = Mapped(OnComma, <<s>>)
      BY <1>2, <1>5, FieldsMapped
    <3>2. OnComma[s] = w
      BY DEF OnComma
    <3> QED
      BY <3>1, <3>2, MappedOne
  <2> HIDE DEF S
  <2>4. Selected(<<w>>, S) = IF w \in S THEN <<w>> ELSE <<>>
    BY <1>1, SelectedOne
  <2>5. Mapped(h, Selected(<<w>>, S)) = IF w \in S THEN <<h[w]>> ELSE <<>>
    BY <2>4, MappedOne
  <2> QED
    BY <1>1, <2>1, <2>5 DEF Parsed, S, EntryParsed
<1> QED
  BY <1>4, <1>5

-----------------------------------------------------------------------------
(***************************************************************************)
(* The entries, each ended by ";".                                         *)
(***************************************************************************)
Lines == {Append(b, ";") : b \in Strings}

\* Nothing is parsed of nothing.
LEMMA ParsedEmpty ==
    ASSUME NEW h, NEW n
    PROVE  <<>> \in Strings /\ Parsed(h, n, <<>>) = <<>>
<1>1. <<>> \in Strings
  BY EmptySeq DEF Strings
<1>2. Fields(<<>>) = <<>>
  BY <1>1, FieldsMapped, TokensEmpty, MappedOne
<1>3. Selected(<<>>, Having(n)) = <<>>
  BY SelectedLaws
<1> QED
  BY <1>1, <1>2, <1>3, MappedOne DEF Parsed

\* The ";" at the end of an entry does not count.
LEMMA ParsedLine ==
    ASSUME NEW h, NEW n, NEW b \in Strings
    PROVE  Append(b, ";") \in Strings /\ Parsed(h, n, Append(b, ";")) = Parsed(h, n, b)
<1> DEFINE z == <<>>
           l == Append(b, ";")
           p == Parsed(h, n, b)
<1>1. l \in Strings
  BY AppendProperties, CharsHaveSeparators DEF Strings
<1>2. z \in Strings /\ Parsed(h, n, z) = z
  BY ParsedEmpty
<1>3. l \o z = l
  BY <1>1, ConcatEmptySeq DEF Strings
<1>4. p \in Seq(Images(h, Seq(Strings)))
  BY ParsedTyped
<1>5. p \o z = p
  BY <1>4, ConcatEmptySeq
<1>7. l = Append(b, ";")
  OBVIOUS
<1> HIDE DEF z, p, l
<1>6. Parsed(h, n, l \o z) = Parsed(h, n, b) \o Parsed(h, n, z)
  <2>1. ParsedSplits(h, n, l, b, z)
    BY <1>2, <1>7, ParsedConcat
  <2> QED
    BY <2>1 DEF ParsedSplits
<1> QED
  BY <1>1, <1>2, <1>3, <1>5, <1>6 DEF p, l

\* What the entries make together ends with ";", if there are any.
LEMMA JoinedClosed ==
    ASSUME NEW es \in Seq(Lines)
    PROVE  Joined(es) \in Strings /\ (Joined(es) = <<>> \/ Joined(es) \in Lines)
<1> DEFINE T == {s \in Seq(Lines) : Joined(s) \in Strings /\ (Joined(s) = <<>> \/ Joined(s) \in Lines)}
<1>0. Lines \subseteq Strings
  BY ParsedLine DEF Lines
<1>1. <<>> \in T
  BY EmptySeq, JoinedLaws DEF Strings
<1>2. ASSUME NEW s \in Seq(Lines), NEW e \in Lines, s \in T PROVE Append(s, e) \in T
  <2>1. PICK b \in Strings : e = Append(b, ";")
    BY DEF Lines
  <2> DEFINE j == Joined(s)
  <2>2. s \in Seq(Seq(Chars)) /\ e \in Seq(Chars)
    BY <1>0, SeqMonotonic DEF Strings
  <2>3. Joined(Append(s, e)) = j \o e
    BY <2>2, JoinedLaws
  <2>4. j \in Strings
    BY <1>2
  <2>5. Append(s, e) \in Seq(Lines)
    BY AppendProperties
  <2> HIDE DEF j
  <2>6. j \o e = Append(j \o b, ";")
    <3> DEFINE c == ";"
    <3>1. c \in Chars /\ j \in Seq(Chars) /\ b \in Seq(Chars) /\ e = Append(b, c)
      BY <2>1, <2>4, CharsHaveSeparators DEF Strings
    <3> HIDE DEF c
    <3>2. j \o Append(b, c) = Append(j \o b, c)
      BY <3>1, ConcatAppend
    <3> QED
      BY <3>1, <3>2 DEF c
  <2>7. j \o b \in Strings
    BY <2>4, ConcatProperties DEF Strings
  <2>8. j \o e \in Lines
    BY <2>6, <2>7 DEF Lines
  <2>9. Joined(Append(s, e)) \in Lines /\ Joined(Append(s, e)) \in Strings
    BY <1>0, <2>3, <2>8
  <2> QED
    BY <2>5, <2>9
<1>3. Seq(Lines) \subseteq T
  <2> HIDE DEF T
  <2> QED
    BY <1>1, <1>2, SeqInductionSet
<1> QED
  BY <1>3

\* What follows whole entries is parsed by itself.
LEMMA ParsedJoined ==
    ASSUME NEW h, NEW n, NEW es \in Seq(Lines), NEW t \in Strings
    PROVE  /\ Joined(es) \o t \in Strings
           /\ Parsed(h, n, Joined(es) \o t) = Parsed(h, n, Joined(es)) \o Parsed(h, n, t)
<1> DEFINE j == Joined(es)
           p == Parsed(h, n, t)
           z == <<>>
<1>1. j \in Strings /\ (j = z \/ j \in Lines)
  BY JoinedClosed
<1>2. p \in Seq(Images(h, Seq(Strings)))
  BY ParsedTyped
<1>3. z \o t = t /\ z \o p = p
  BY <1>2, ConcatEmptySeq DEF Strings
<1>4. z \in Strings /\ Parsed(h, n, z) = z
  BY ParsedEmpty
<1> HIDE DEF j, p, z
<1>5. CASE j = z
  BY <1>3, <1>4, <1>5 DEF j, p
<1>6. CASE j \in Lines
  <2>1. PICK b \in Strings : j = Append(b, ";")
    BY <1>6 DEF Lines
  <2>2. Parsed(h, n, j) = Parsed(h, n, b)
    BY <2>1, ParsedLine
  <2>3. j \o t \in Strings /\ Parsed(h, n, j \o t) = Parsed(h, n, b) \o p
    <3>1. j \o t \in Strings /\ ParsedSplits(h, n, j, b, t)
      BY <2>1, ParsedConcat
    <3> QED
      BY <3>1 DEF ParsedSplits, p
  <2> QED
    BY <2>2, <2>3 DEF j, p
<1> QED
  BY <1>1, <1>5, <1>6

\* One more entry.
LEMMA ParsedNext ==
    ASSUME NEW h, NEW n, NEW es \in Seq(Lines), NEW b \in Strings, NEW l, l = Append(b, ";")
    PROVE  /\ Append(es, l) \in Seq(Lines)
           /\ Joined(Append(es, l)) = Joined(es) \o l
           /\ Parsed(h, n, Joined(Append(es, l))) = Parsed(h, n, Joined(es)) \o Parsed(h, n, b)
<1>1. l \in Lines /\ l \in Strings /\ Lines \subseteq Strings
  BY ParsedLine DEF Lines
<1>2. Append(es, l) \in Seq(Lines)
  BY <1>1, AppendProperties
<1>3. es \in Seq(Seq(Chars)) /\ l \in Seq(Chars)
  BY <1>1, SeqMonotonic DEF Strings
<1>4. Joined(Append(es, l)) = Joined(es) \o l
  BY <1>3, JoinedLaws
<1>5. Parsed(h, n, Joined(es) \o l) = Parsed(h, n, Joined(es)) \o Parsed(h, n, l)
  BY <1>1, ParsedJoined
<1>6. Parsed(h, n, l) = Parsed(h, n, b)
  BY ParsedLine
<1> QED
  BY <1>2, <1>4, <1>5, <1>6

-----------------------------------------------------------------------------
\* A string of one character.
LEMMA OneChar ==
    ASSUME NEW c \in Chars, NEW s, s = <<c>>
    PROVE  /\ s \in Seq(Chars) /\ s # <<>>
           /\ \A i \in DOMAIN s : s[i] = c
           /\ Head(s) = c
<1>1. s \in Seq(Chars) /\ Len(s) = 1
  OBVIOUS
<1>2. s # <<>>
  BY <1>1
<1>3. DOMAIN s = 1..1 /\ s[1] = c
  BY <1>1, LenProperties
<1> QED
  BY <1>1, <1>2, <1>3

\* No ";" in two strings, no ";" in both together.
LEMMA SealedConcat ==
    ASSUME NEW s \in Strings, NEW t \in Strings
    PROVE  /\ Sealed(s) /\ Sealed(t) => Sealed(s \o t)
           /\ Plain(s) => Sealed(s)
<1> DEFINE N == Len(s)
           M == Len(t)
           u == s \o t
<1>1. u \in Strings /\ Len(u) = N + M
      /\ \A i \in 1..(N + M) : u[i] = IF i <= N THEN s[i] ELSE t[i - N]
  BY ConcatProperties DEF Strings
<1>2. N \in Nat /\ M \in Nat /\ DOMAIN s = 1..N /\ DOMAIN t = 1..M
  BY LenProperties DEF Strings
<1>3. DOMAIN u = 1..(N + M)
  BY <1>1, LenProperties DEF Strings
<1> HIDE DEF N, M, u
<1>4. ASSUME Sealed(s), Sealed(t) PROVE Sealed(u)
  <2> SUFFICES ASSUME NEW i \in DOMAIN u PROVE u[i] # ";"
    BY DEF Sealed
  <2>1. CASE i <= N
    <3>1. i \in DOMAIN s /\ u[i] = s[i]
      BY <1>1, <1>2, <1>3, <2>1
    <3> QED
      BY <1>4, <3>1 DEF Sealed
  <2>2. CASE ~(i <= N)
    <3>1. i - N \in DOMAIN t /\ u[i] = t[i - N]
      BY <1>1, <1>2, <1>3, <2>2
    <3> QED
      BY <1>4, <3>1 DEF Sealed
  <2> QED
    BY <2>1, <2>2
<1>5. Plain(s) => Sealed(s)
  BY DEF Plain, Sealed
<1> QED
  BY <1>4, <1>5 DEF u

\* A string of two characters.
LEMMA TwoChars ==
    ASSUME NEW c \in Chars, NEW d \in Chars, NEW s, s = <<c, d>>
    PROVE  s \in Seq(Chars) /\ \A i \in DOMAIN s : s[i] = c \/ s[i] = d
<1>1. s \in Seq(Chars) /\ Len(s) = 2 /\ s[1] = c /\ s[2] = d
  OBVIOUS
<1>2. DOMAIN s = 1..2
  BY <1>1, LenProperties
<1>3. \A i \in 1..2 : i = 1 \/ i = 2
  OBVIOUS
<1> QED
  BY <1>1, <1>2, <1>3

\* What Append does, for a sequence with a name.
LEMMA Appended ==
    ASSUME NEW X, NEW s \in Seq(X), NEW e \in X, NEW t, t = Append(s, e)
    PROVE  /\ t \in Seq(X) /\ Len(t) = Len(s) + 1
           /\ (\A i \in 1..Len(s) : t[i] = s[i]) /\ t[Len(s) + 1] = e
BY AppendProperties

\* Two characters and three, one after the other.
LEMMA AppendToOne ==
    ASSUME NEW x, NEW y
    PROVE  Append(<<x>>, y) = <<x, y>>
<1> DEFINE S == {x, y}
           s == <<x>>
           t == Append(s, y)
           u == <<x, y>>
<1>1. s \in Seq(S) /\ Len(s) = 1 /\ s[1] = x /\ x \in S /\ y \in S
  OBVIOUS
<1>2. u \in Seq(S) /\ Len(u) = 2 /\ u[1] = x /\ u[2] = y
  OBVIOUS
<1> HIDE DEF S, s, u
<1>3. t = Append(s, y)
  OBVIOUS
<1> HIDE DEF t
<1>4. /\ t \in Seq(S) /\ Len(t) = Len(s) + 1
      /\ (\A i \in 1..Len(s) : t[i] = s[i]) /\ t[Len(s) + 1] = y
  BY <1>1, <1>3, Appended
<1>5. Len(t) = 2 /\ t[1] = x /\ t[2] = y
  BY <1>1, <1>4
<1>6. \A i \in 1..2 : i = 1 \/ i = 2
  OBVIOUS
<1>7. \A i \in 1..Len(t) : t[i] = u[i]
  BY <1>2, <1>5, <1>6
<1>8. t = u
  BY <1>2, <1>4, <1>5, <1>7, SeqEqual
<1> QED
  BY <1>8 DEF s, t, u

\* ... and three.
LEMMA AppendToTwo ==
    ASSUME NEW x, NEW y, NEW z
    PROVE  Append(<<x, y>>, z) = <<x, y, z>>
<1> DEFINE S == {x, y, z}
           s == <<x, y>>
           t == Append(s, z)
           u == <<x, y, z>>
<1>1. s \in Seq(S) /\ Len(s) = 2 /\ s[1] = x /\ s[2] = y /\ z \in S
  OBVIOUS
<1>2. u \in Seq(S) /\ Len(u) = 3 /\ u[1] = x /\ u[2] = y /\ u[3] = z
  OBVIOUS
<1> HIDE DEF S, s, u
<1>3. t = Append(s, z)
  OBVIOUS
<1> HIDE DEF t
<1>4. /\ t \in Seq(S) /\ Len(t) = Len(s) + 1
      /\ (\A i \in 1..Len(s) : t[i] = s[i]) /\ t[Len(s) + 1] = z
  BY <1>1, <1>3, Appended
<1>5. Len(t) = 3 /\ t[1] = x /\ t[2] = y /\ t[3] = z
  BY <1>1, <1>4
<1>6. \A i \in 1..3 : i = 1 \/ i = 2 \/ i = 3
  OBVIOUS
<1>7. \A i \in 1..Len(t) : t[i] = u[i]
  BY <1>2, <1>5, <1>6
<1>8. t = u
  BY <1>2, <1>4, <1>5, <1>7, SeqEqual
<1> QED
  BY <1>8 DEF s, t, u

\* The fields of an entry that begins with an id.
LEMMA BodyTokens ==
    ASSUME NEW id \in Chars, id \notin {",", ";"}, NEW r \in Strings, NEW b, b = <<id, ",">> \o r
    PROVE  /\ b \in Strings
           /\ Tokens(b, ",") = <<<<id>>>> \o Tokens(r, ",")
           /\ Sealed(r) => Sealed(b)
<1> DEFINE s == <<id>>
           q == Append(s, ",")
<1>1. s \in Seq(Chars) /\ s # <<>> /\ \A i \in DOMAIN s : s[i] = id
  BY OneChar
<1>6. q = <<id, ",">>
  BY AppendToOne
<1> HIDE DEF s
<1>2. Tokens(s, ",") = <<s>>
  BY <1>1, TokensOne
<1>3. q \o r \in Strings /\ Tokens(q \o r, ",") = Tokens(s, ",") \o Tokens(r, ",")
  BY <1>1, TokensConcat, CharsHaveSeparators DEF Strings
<1>4. q \in Strings /\ Sealed(q)
  BY <1>6, CharsHaveSeparators, TwoChars DEF Strings, Sealed
<1>5. Sealed(r) => Sealed(q \o r)
  <2> HIDE DEF q
  <2> QED
    BY <1>4, SealedConcat
<1> QED
  BY <1>2, <1>3, <1>5, <1>6 DEF s

\* atol reads an id, and an id is no separator.
LEMMA IdIsRead ==
    ASSUME NEW id \in Users \cup Rooms
    PROVE  Id(<<id>>) = id /\ id \in Chars /\ id \notin {",", ";"}
<1>1. id \in Chars
  BY DEF Chars
<1>2. id \notin {",", ";"}
  BY HistoryAssumption
<1> DEFINE s == <<id>>
<1>3. Head(s) = id
  OBVIOUS
<1> HIDE DEF s
<1>4. Id(s) = id
  BY <1>3 DEF Id
<1> QED
  BY <1>1, <1>2, <1>4 DEF s

\* A time is one field.
LEMMA TimeIsRead ==
    /\ Time \in Chars /\ Time # "," /\ Time # ";"
    /\ Tokens(<<Time>>, ",") = <<<<Time>>>>
    /\ <<Time>> \in Strings /\ Sealed(<<Time>>)
<1>1. Time \in Chars /\ Time # "," /\ Time # ";"
  BY HistoryAssumption DEF Chars
<1> DEFINE s == <<Time>>
<1>2. s \in Seq(Chars) /\ s # <<>> /\ (\A i \in DOMAIN s : s[i] # ",") /\ Sealed(s)
  <2>1. s \in Seq(Chars) /\ s # <<>> /\ \A i \in DOMAIN s : s[i] = Time
    BY <1>1, OneChar
  <2> HIDE DEF s
  <2> QED
    BY <1>1, <2>1 DEF Sealed
<1> HIDE DEF s
<1>3. Tokens(s, ",") = <<s>>
  BY <1>2, TokensOne
<1> QED
  BY <1>1, <1>2, <1>3 DEF s, Strings

-----------------------------------------------------------------------------
\* p is what s begins with.
Begins(p, s) == Len(p) <= Len(s) /\ \A i \in 1..Len(p) : p[i] = s[i]

\* A sequence begins with itself and with nothing.
LEMMA BeginsSelf ==
    ASSUME NEW X, NEW s \in Seq(X)
    PROVE  Begins(s, s) /\ Begins(<<>>, s)
<1>1. Len(s) \in Nat /\ Len(<<>>) = 0
  BY LenProperties
<1> QED
  BY <1>1 DEF Begins

\* To begin with something is transitive.
LEMMA BeginsTrans ==
    ASSUME NEW X, NEW p \in Seq(X), NEW q \in Seq(X), NEW s \in Seq(X),
           Begins(p, q), Begins(q, s)
    PROVE  Begins(p, s)
<1> DEFINE k == Len(p)
           l == Len(q)
           n == Len(s)
<1>1. k \in Nat /\ l \in Nat /\ n \in Nat
  BY LenProperties
<1>2. k <= l /\ l <= n /\ (\A i \in 1..k : p[i] = q[i]) /\ \A i \in 1..l : q[i] = s[i]
  BY DEF Begins
<1>3. k <= n /\ \A i \in 1..k : p[i] = s[i]
  <2> HIDE DEF k, l, n
  <2> QED
    BY <1>1, <1>2
<1> QED
  BY <1>3 DEF Begins

\* Two sequences begin with the first of them.
LEMMA BeginsConcat ==
    ASSUME NEW X, NEW s \in Seq(X), NEW t \in Seq(X)
    PROVE  Begins(s, s \o t)
<1> DEFINE k == Len(s)
           n == Len(s \o t)
           u == s \o t
<1>1. k \in Nat /\ Len(t) \in Nat
  BY LenProperties
<1>2. n = k + Len(t) /\ \A i \in 1..(k + Len(t)) : u[i] = IF i <= k THEN s[i] ELSE t[i - k]
  BY ConcatProperties
<1> DEFINE m == Len(t)
<1>3. k <= n /\ \A i \in 1..k : s[i] = u[i]
  <2>1. m \in Nat /\ n = k + m /\ \A i \in 1..(k + m) : u[i] = IF i <= k THEN s[i] ELSE t[i - k]
    BY <1>1, <1>2
  <2> HIDE DEF k, m, n, u
  <2> QED
    BY <1>1, <2>1
<1> QED
  BY <1>3 DEF Begins

\* What two sequences begin with ends in the first of them, or in the second.
Extends(X, p, s, t) == \E q \in Seq(X) : Begins(q, t) /\ p = s \o q

LEMMA BeginsEither ==
    ASSUME NEW X, NEW s \in Seq(X), NEW t \in Seq(X), NEW p \in Seq(X), Begins(p, s \o t)
    PROVE  Begins(p, s) \/ Extends(X, p, s, t)
<1> DEFINE k == Len(s)
           m == Len(t)
           l == Len(p)
           u == s \o t
           q == [i \in 1..(l - k) |-> t[i]]
<1>1. k \in Nat /\ m \in Nat /\ l \in Nat
  BY LenProperties
<1>2. Len(u) = k + m /\ \A i \in 1..(k + m) : u[i] = IF i <= k THEN s[i] ELSE t[i - k]
  BY ConcatProperties
<1>3. Len(p) <= Len(u) /\ \A i \in 1..Len(p) : p[i] = u[i]
  BY DEF Begins
<1>4. l <= k + m /\ \A i \in 1..l : p[i] = u[i]
  BY <1>2, <1>3
<1>5. \A i \in 1..m : t[i] \in X
  BY ElementOfSeq
<1> HIDE DEF k, m, l, u
<1>6. CASE l <= k
  <2>1. \A i \in 1..l : p[i] = s[i]
    BY <1>1, <1>2, <1>4, <1>6
  <2> QED
    BY <1>6, <2>1 DEF Begins, l, k
<1>7. CASE ~(l <= k)
  <2>1. l - k \in Nat /\ l - k <= m
    BY <1>1, <1>4, <1>7
  <2>2. q \in [1..(l - k) -> X]
    BY <1>1, <1>5, <2>1
  <2>3. q \in Seq(X) /\ Len(q) = l - k /\ \A i \in 1..(l - k) : q[i] = t[i]
    BY <2>1, <2>2
  <2> HIDE DEF q
  <2>4. Begins(q, t)
    BY <2>1, <2>3 DEF Begins, m
  <2> DEFINE v == s \o q
             j == Len(q)
  <2>5. v \in Seq(X) /\ Len(v) = k + j /\ \A i \in 1..(k + j) : v[i] = IF i <= k THEN s[i] ELSE q[i - k]
    BY <2>3, ConcatProperties DEF k
  <2>6. j = l - k
    BY <2>3
  <2> HIDE DEF v, j
  <2>7. ASSUME NEW i \in 1..l PROVE p[i] = v[i]
    <3>1. i \in 1..(k + m) /\ i \in 1..(k + j)
      BY <1>1, <1>4, <2>1, <2>6
    <3>2. CASE i <= k
      BY <1>2, <1>4, <2>5, <3>1, <3>2
    <3>3. CASE ~(i <= k)
      <4>1. i - k \in 1..(l - k)
        BY <1>1, <3>3
      <4> QED
        BY <1>2, <1>4, <2>3, <2>5, <3>1, <3>3, <4>1
    <3> QED
      BY <3>2, <3>3
  <2>8. Len(v) = l
    BY <1>1, <2>5, <2>6
  <2>9. p = v
    BY <2>5, <2>7, <2>8, SeqEqual DEF l
  <2> QED
    BY <2>3, <2>4, <2>9 DEF v, Extends
<1> QED
  BY <1>6, <1>7

\* What a string without a character begins with does not have it either.
LEMMA BeginsPlain ==
    ASSUME NEW X, NEW p \in Seq(X), NEW s \in Seq(X), Begins(p, s), NEW c,
           \A i \in DOMAIN s : s[i] # c
    PROVE  \A i \in DOMAIN p : p[i] # c
<1> DEFINE k == Len(p)
           n == Len(s)
<1>1. k \in Nat /\ n \in Nat /\ DOMAIN p = 1..k /\ DOMAIN s = 1..n
  BY LenProperties
<1>2. k <= n /\ \A i \in 1..k : p[i] = s[i]
  BY DEF Begins
<1> HIDE DEF k, n
<1>3. \A i \in 1..k : i \in 1..n
  BY <1>1, <1>2
<1> QED
  BY <1>1, <1>2, <1>3

\* What a sequence begins with is a subsequence of it.
LEMMA BeginsSubSeq ==
    ASSUME NEW X, NEW s \in Seq(X), NEW l \in Nat, l <= Len(s), NEW p, p = SubSeq(s, 1, l)
    PROVE  p \in Seq(X) /\ Begins(p, s)
<1> DEFINE n == Len(s)
<1>1. n \in Nat /\ \A i \in 1..n : s[i] \in X
  BY LenProperties, ElementOfSeq
<1>2. \A i \in 1..l : s[i] \in X
  <2>1. l <= n
    OBVIOUS
  <2> HIDE DEF n
  <2> QED
    BY <1>1, <2>1
<1>3. p \in Seq(X) /\ Len(p) = IF 1 <= l THEN l - 1 + 1 ELSE 0
  BY <1>2, SubSeqProperties
<1>4. \A i \in 1..(l - 1 + 1) : p[i] = s[1 + i - 1]
  BY <1>2, SubSeqProperties
<1>5. Len(p) = l
  BY <1>3
<1>6. \A i \in 1..l : p[i] = s[i]
  BY <1>4
<1> QED
  BY <1>3, <1>5, <1>6 DEF Begins

\* What a sequence begins with is a prefix of it.
LEMMA BeginsIsPrefix ==
    ASSUME NEW X, NEW s \in Seq(X), NEW p \in Seq(X), Begins(p, s)
    PROVE  IsPrefix(p, s)
<1> DEFINE k == Len(p)
           q == SubSeq(s, 1, k)
<1>1. k \in Nat /\ k <= Len(s) /\ \A i \in 1..k : p[i] = s[i]
  BY LenProperties DEF Begins
<1>2. q \in Seq(X) /\ Begins(q, s)
  <2> HIDE DEF k
  <2> QED
    BY <1>1, BeginsSubSeq
<1>3. Len(q) = k
  BY <1>1
<1>4. \A i \in 1..k : q[i] = s[i]
  BY <1>2, <1>3 DEF Begins
<1>5. q = p
  <2> HIDE DEF q
  <2> QED
    BY <1>1, <1>2, <1>3, <1>4, SeqEqual
<1>6. SubSeq(p, 1, k) = p
  BY SubSeqFull
<1> QED
  BY <1>1, <1>5, <1>6 DEF IsPrefix

-----------------------------------------------------------------------------
(***************************************************************************)
(* The entry of a message                                                  *)
(***************************************************************************)
Ending == <<",", Time>>
MessageBody(m) == <<m.from, ",">> \o (m.text \o Ending)
Shows(m) == [sender |-> m.from, text |-> m.text]

\* The end of an entry, before its ";".
LEMMA EndingTyped ==
    /\ Ending \in Strings /\ Sealed(Ending)
    /\ \A t \in Strings : t \o Ending = Append(t, ",") \o <<Time>>
    /\ <<",", Time, ";">> = Append(Ending, ";")
<1> DEFINE c == <<",">>
           d == <<Time>>
<1>1. Ending \in Strings /\ Sealed(Ending)
  <2>2. Ending = <<",", Time>>
    BY DEF Ending
  <2>3. \A s : s = <<",", Time>> => s \in Seq(Chars) /\ \A i \in DOMAIN s : s[i] = "," \/ s[i] = Time
    BY CharsHaveSeparators, TimeIsRead, TwoChars
  <2>1. Ending \in Seq(Chars) /\ \A i \in DOMAIN Ending : Ending[i] = "," \/ Ending[i] = Time
    BY <2>2, <2>3
  <2> QED
    BY <2>1, TimeIsRead DEF Sealed, Strings
<1>2. c \in Seq(Chars) /\ d \in Seq(Chars)
  <2>1. "," \in Chars /\ Time \in Chars
    BY CharsHaveSeparators, TimeIsRead
  <2>2. \A x \in Chars : <<x>> \in Seq(Chars)
    OBVIOUS
  <2> QED
    BY <2>1, <2>2
<1>3. Append(c, Time) = Ending
  BY AppendToOne DEF Ending
<1>4. Append(c, Time) = c \o d
  <2>1. c \in Seq(Chars) /\ Time \in Chars
    BY <1>2, TimeIsRead
  <2> HIDE DEF c
  <2> QED
    BY <2>1, AppendIsConcat
<1>5. ASSUME NEW t \in Strings PROVE t \o Ending = Append(t, ",") \o d
  <2>1. Append(t, ",") = t \o c
    BY AppendIsConcat, CharsHaveSeparators DEF Strings
  <2> HIDE DEF c, d
  <2>2. (t \o c) \o d = t \o (c \o d)
    BY <1>2, ConcatAssociative DEF Strings
  <2> QED
    BY <1>3, <1>4, <2>1, <2>2
<1>6. <<",", Time, ";">> = Append(Ending, ";")
  BY AppendToTwo DEF Ending
<1> QED
  BY <1>1, <1>5, <1>6

\* An entry of a message is its body and a ";".
LEMMA MessageTyped ==
    ASSUME NEW m \in Message
    PROVE  /\ m.text \in Strings /\ m.text # <<>>
           /\ m.from \in Chars /\ m.from \notin {",", ";"} /\ Id(<<m.from>>) = m.from
           /\ m.text \o Ending \in Strings
           /\ MessageBody(m) \in Strings
           /\ MessageEntry(m) = Append(MessageBody(m), ";")
           /\ MessageEntry(m) \in Lines
<1> DEFINE f == m.from
           t == m.text
           a == <<f, ",">>
           z == <<",", Time, ";">>
<1>1. f \in Users /\ t \in Texts
  BY DEF Message
<1>2. t \in Strings /\ t # <<>>
  BY <1>1, HistoryAssumption DEF Strings
<1>3. f \in Chars /\ f \notin {",", ";"} /\ Id(<<f>>) = f
  BY <1>1, IdIsRead
<1>4. t \o Ending \in Strings
  BY <1>2, EndingTyped, ConcatProperties DEF Strings
<1>5. a \o (t \o Ending) \in Strings
  BY <1>3, <1>4, BodyTokens
<1>6. MessageEntry(m) = (a \o t) \o z
  BY DEF MessageEntry
<1>7. a \in Seq(Chars)
  <2>1. f \in Chars /\ "," \in Chars
    BY <1>3, CharsHaveSeparators
  <2>2. \A x, y \in Chars : <<x, y>> \in Seq(Chars)
    OBVIOUS
  <2> QED
    BY <2>1, <2>2
<1> HIDE DEF f, t, a, z
<1>8. (a \o t) \o z = Append(a \o (t \o Ending), ";")
  <2> DEFINE e == Ending
             c == ";"
             v == a \o t
  <2>1. z = Append(e, c) /\ e \in Seq(Chars) /\ c \in Chars /\ t \in Seq(Chars)
    BY <1>2, EndingTyped, CharsHaveSeparators DEF Strings, z
  <2>2. v \in Seq(Chars)
    BY <1>7, <2>1, ConcatProperties
  <2> HIDE DEF e, c
  <2>3. v \o e = a \o (t \o e)
    BY <1>7, <2>1, ConcatAssociative
  <2> HIDE DEF v
  <2>4. v \o Append(e, c) = Append(v \o e, c)
    BY <2>1, <2>2, ConcatAppend
  <2> QED
    BY <2>1, <2>3, <2>4 DEF v, e, c
<1>9. MessageBody(m) = a \o (t \o Ending)
  BY DEF MessageBody, a, f, t
<1> QED
  BY <1>2, <1>3, <1>4, <1>5, <1>6, <1>8, <1>9 DEF Lines, f, t

\* The fields of a text with the end of its entry.
LEMMA EndedTokens ==
    ASSUME NEW t \in Strings
    PROVE  /\ Tokens(t \o Ending, ",") = Tokens(t, ",") \o <<<<Time>>>>
           /\ Sealed(t) => Sealed(t \o Ending)
<1> DEFINE d == <<Time>>
           p == Append(t, ",")
<1>1. d \in Seq(Chars) /\ Tokens(d, ",") = <<d>>
  BY TimeIsRead DEF Strings
<1>2. t \o Ending = p \o d
  BY EndingTyped
<1> HIDE DEF d
<1>3. Tokens(p \o d, ",") = Tokens(t, ",") \o Tokens(d, ",")
  BY <1>1, TokensConcat, CharsHaveSeparators DEF Strings
<1>4. Sealed(t) => Sealed(t \o Ending)
  BY EndingTyped, SealedConcat
<1> QED
  BY <1>1, <1>2, <1>3, <1>4 DEF d

\* The fields of an entry of a message.
LEMMA BodyFields ==
    ASSUME NEW m \in Message
    PROVE  /\ MessageBody(m) \in Strings
           /\ Tokens(MessageBody(m), ",") = <<<<m.from>>>> \o Tokens(m.text \o Ending, ",")
           /\ Sealed(m.text) => Sealed(MessageBody(m))
<1> DEFINE f == m.from
           r == m.text \o Ending
           b == MessageBody(m)
<1>1. f \in Chars /\ f \notin {",", ";"} /\ r \in Strings /\ (Sealed(m.text) => Sealed(r))
  BY MessageTyped, EndedTokens
<1>2. b = <<f, ",">> \o r
  BY DEF MessageBody
<1> HIDE DEF f, r, b
<1>3. b \in Strings /\ Tokens(b, ",") = <<<<f>>>> \o Tokens(r, ",") /\ (Sealed(r) => Sealed(b))
  BY <1>1, <1>2, BodyTokens
<1> QED
  BY <1>1, <1>3 DEF f, r, b

\* An entry of a plain text is read as its message.
LEMMA PlainParsed ==
    ASSUME NEW m \in Message, Plain(m.text)
    PROVE  Parsed(AsMessage, 3, MessageBody(m)) = <<Shows(m)>>
<1> DEFINE f == <<m.from>>
           t == m.text
           d == <<Time>>
           b == MessageBody(m)
           w == Tokens(b, ",")
<1>1. t \in Strings /\ t # <<>> /\ f \in Strings /\ d \in Strings /\ Id(f) = m.from
  BY MessageTyped, OneChar, TimeIsRead DEF Strings
<1>2. b \in Strings /\ w = <<f>> \o Tokens(t \o Ending, ",") /\ Sealed(b)
  <2>1. Sealed(t)
    BY <1>1, SealedConcat
  <2> QED
    BY <2>1, BodyFields
<1>3. Tokens(t \o Ending, ",") = Tokens(t, ",") \o <<d>>
  BY <1>1, EndedTokens
<1>4. Tokens(t, ",") = <<t>>
  BY <1>1, TokensOne DEF Plain, Strings
<1> HIDE DEF f, t, d, b
<1>5. w = <<f>> \o (<<t>> \o <<d>>)
  BY <1>2, <1>3, <1>4
<1>6. w \in Seq(Strings) /\ Len(w) = 3 /\ w[1] = f /\ w[2] = t
  <2>1. /\ <<f>> \in Seq(Strings) /\ <<t>> \in Seq(Strings) /\ <<d>> \in Seq(Strings)
        /\ Len(<<f>>) = 1 /\ Len(<<t>>) = 1 /\ Len(<<d>>) = 1
        /\ <<f>>[1] = f /\ <<t>>[1] = t
    BY <1>1
  <2> DEFINE x == <<f>>
             y == <<t>>
             z == <<d>>
             v == y \o z
             u == x \o v
  <2> HIDE DEF x, y, z
  <2>2. v \in Seq(Strings) /\ Len(v) = 2 /\ v[1] = t
    BY <2>1, ConcatProperties DEF x, y, z
  <2> HIDE DEF v
  <2>4. x \in Seq(Strings) /\ Len(x) = 1 /\ x[1] = f
    BY <2>1 DEF x
  <2>5. u \in Seq(Strings) /\ Len(u) = Len(x) + Len(v)
        /\ \A i \in 1..(Len(x) + Len(v)) : u[i] = IF i <= Len(x) THEN x[i] ELSE v[i - Len(x)]
    BY <2>2, <2>4, ConcatProperties
  <2> HIDE DEF u
  <2>3. u \in Seq(Strings) /\ Len(u) = 3 /\ u[1] = f /\ u[2] = v[1]
    BY <2>2, <2>4, <2>5
  <2> QED
    BY <1>5, <2>2, <2>3 DEF u, v, x, y, z
<1> HIDE DEF w
<1>9. EntryParsed(AsMessage, 3, b, w)
  <2>1. w = Tokens(b, ",") /\ \A i \in DOMAIN b : b[i] # ";"
    BY <1>2 DEF w, Sealed
  <2> DEFINE n == 3
  <2>2. n \in Nat /\ n >= 1
    OBVIOUS
  <2> HIDE DEF n
  <2>3. EntryParsed(AsMessage, n, b, w)
    BY <1>2, <2>1, <2>2, ParsedOne
  <2> QED
    BY <2>3 DEF n
<1>7. Parsed(AsMessage, 3, b) = IF Len(w) >= 3 THEN <<AsMessage[w]>> ELSE <<>>
  BY <1>9 DEF EntryParsed
<1>8. AsMessage[w] = Shows(m)
  BY <1>1, <1>6 DEF AsMessage, Shows, f, t
<1> QED
  BY <1>6, <1>7, <1>8 DEF b

\* An entry of a text without ";" is read as one of its sender, or dropped.
LEMMA SealedParsed ==
    ASSUME NEW m \in Message, Sealed(m.text), NEW p, p = Parsed(AsMessage, 3, MessageBody(m))
    PROVE  p = <<>> \/ \E x : p = <<x>> /\ x.sender = m.from
<1> DEFINE f == <<m.from>>
           t == m.text
           b == MessageBody(m)
           w == Tokens(b, ",")
           r == Tokens(t \o Ending, ",")
<1>1. t \in Strings /\ f \in Strings /\ Id(f) = m.from
  BY MessageTyped, OneChar DEF Strings
<1>2. b \in Strings /\ w = <<f>> \o r /\ Sealed(b)
  BY BodyFields
<1>3. r \in Seq(Strings)
  BY MessageTyped, TokensTyped DEF Strings
<1> HIDE DEF f, t, b, r
<1>4. w \in Seq(Strings) /\ w[1] = f
  <2>1. <<f>> \in Seq(Strings) /\ Len(<<f>>) = 1 /\ <<f>>[1] = f
    BY <1>1
  <2> DEFINE x == <<f>>
             u == x \o r
  <2>2. Len(r) \in Nat
    BY <1>3, LenProperties
  <2> HIDE DEF x
  <2>3. u \in Seq(Strings) /\ u[1] = f
    BY <1>3, <2>1, <2>2, ConcatProperties DEF x
  <2> QED
    BY <1>2, <2>3 DEF x, u
<1> HIDE DEF w
<1>7. EntryParsed(AsMessage, 3, b, w)
  <2>1. w = Tokens(b, ",") /\ \A i \in DOMAIN b : b[i] # ";"
    BY <1>2 DEF w, Sealed
  <2> DEFINE n == 3
  <2>2. n \in Nat /\ n >= 1
    OBVIOUS
  <2> HIDE DEF n
  <2>3. EntryParsed(AsMessage, n, b, w)
    BY <1>2, <2>1, <2>2, ParsedOne
  <2> QED
    BY <2>3 DEF n
<1>5. Parsed(AsMessage, 3, b) = IF Len(w) >= 3 THEN <<AsMessage[w]>> ELSE <<>>
  BY <1>7 DEF EntryParsed
<1>6. AsMessage[w].sender = m.from
  BY <1>1, <1>4 DEF AsMessage, f
<1> QED
  BY <1>5, <1>6 DEF b

-----------------------------------------------------------------------------
\* What an entry begins with.
LEMMA TokensEnded ==
    ASSUME NEW sep \in Chars, NEW s \in Strings
    PROVE  Tokens(Append(s, sep), sep) = Tokens(s, sep)
<1> DEFINE x == Split(s, sep)
           y == Split(Append(s, sep), sep)
<1>1. SplitStep(x, y, sep, sep)
  BY SplitLaws DEF Strings
<1> QED
  BY <1>1 DEF Tokens, SplitStep, Ended

Follows(p, s, t) == p = s \o t

\* How many fields a string has.
Few(s) == ~(Len(Tokens(s, ",")) >= 3)
OneField(s) == LET k == Len(Tokens(s, ",")) IN k = 0 \/ k = 1

\* The numbers of fields that occur here.
LEMMA SmallNumbers ==
    /\ \E n \in Nat : n = 3 /\ n >= 1
    /\ \A k : k = 0 \/ k = 1 => ~(1 + k >= 3) /\ ~(k >= 3)
OBVIOUS

\* An entry of less than three fields is dropped.
LEMMA ShortParsed ==
    ASSUME NEW p \in Strings, Sealed(p), Few(p)
    PROVE  Parsed(AsMessage, 3, p) = <<>>
<1>1. PICK n \in Nat : n = 3 /\ n >= 1
  BY SmallNumbers
<1> DEFINE w == Tokens(p, ",")
<1>2. \A i \in DOMAIN p : p[i] # ";"
  BY DEF Sealed
<1>3. w = Tokens(p, ",")
  OBVIOUS
<1>4. ~(Len(w) >= n)
  BY <1>1 DEF Few
<1> HIDE DEF w
<1>5. EntryParsed(AsMessage, n, p, w)
  BY <1>1, <1>2, <1>3, ParsedOne
<1>6. Parsed(AsMessage, n, p) = <<>>
  BY <1>4, <1>5 DEF EntryParsed
<1> QED
  BY <1>1, <1>6

\* What a string of two parts begins with.
LEMMA BeginsParts ==
    ASSUME NEW s \in Strings, NEW t \in Strings, NEW u, u = s \o t,
           NEW p \in Strings, Begins(p, u)
    PROVE  Begins(p, s) \/ Extends(Chars, p, s, t)
<1>1. s \in Seq(Chars) /\ t \in Seq(Chars) /\ p \in Seq(Chars) /\ Begins(p, s \o t)
  BY DEF Strings
<1> QED
  BY <1>1, BeginsEither

\* What a string of one character begins with.
LEMMA BeginsOne ==
    ASSUME NEW X, NEW c \in X, NEW q \in Seq(X), Begins(q, <<c>>)
    PROVE  q = <<>> \/ q = <<c>>
<1> DEFINE s == <<c>>
           k == Len(q)
<1>1. s \in Seq(X) /\ Len(s) = 1
  OBVIOUS
<1>2. k \in Nat /\ k <= 1 /\ \A i \in 1..k : q[i] = s[i]
  BY <1>1, LenProperties DEF Begins
<1> HIDE DEF s, k
<1>3. k = 0 \/ k = 1
  BY <1>2
<1>4. CASE k = 0
  BY <1>4, EmptySeq DEF k
<1>5. CASE k = 1
  <2>1. q = s
    BY <1>1, <1>2, <1>5, SeqEqual DEF k
  <2> QED
    BY <2>1 DEF s
<1> QED
  BY <1>3, <1>4, <1>5

\* What a string of two characters begins with.
LEMMA BeginsTwo ==
    ASSUME NEW c \in Chars, NEW d \in Chars, NEW q \in Strings, Begins(q, <<c, d>>)
    PROVE  q = <<>> \/ q = <<c>> \/ q = <<c, d>>
<1> DEFINE s == <<c>>
           t == <<d>>
           u == <<c, d>>
<1>1. s \in Strings /\ t \in Strings /\ s \in Seq(Chars) /\ t \in Seq(Chars)
  BY DEF Strings
<1>2. u = Append(s, d)
  BY AppendToOne
<1>3. Append(s, d) = s \o t
  <2> HIDE DEF s
  <2> QED
    BY <1>1, AppendIsConcat
<1>4. Begins(q, s) \/ Extends(Chars, q, s, t)
  <2>1. u = s \o t /\ Begins(q, u)
    BY <1>2, <1>3
  <2> HIDE DEF s, t, u
  <2> QED
    BY <1>1, <2>1, BeginsParts
<1>5. CASE Begins(q, s)
  BY <1>5, BeginsOne DEF Strings
<1>6. CASE Extends(Chars, q, s, t)
  <2>1. PICK v \in Strings : Begins(v, t) /\ q = s \o v
    BY <1>6 DEF Extends, Strings
  <2>2. v = <<>> \/ v = t
    BY <2>1, BeginsOne DEF Strings
  <2>3. s \o <<>> = s
    <3> HIDE DEF s
    <3> QED
      BY <1>1, ConcatEmptySeq
  <2> QED
    BY <1>2, <1>3, <2>1, <2>2, <2>3
<1> QED
  BY <1>4, <1>5, <1>6

\* An entry of a plain text that is cut anywhere is read as its message or not at all.
LEMMA PartialParsed ==
    ASSUME NEW m \in Message, Plain(m.text), NEW p \in Strings, Begins(p, MessageEntry(m))
    PROVE  Parsed(AsMessage, 3, p) = <<>> \/ Parsed(AsMessage, 3, p) = <<Shows(m)>>
<1> DEFINE f == m.from
           t == m.text
           b == MessageBody(m)
           a == <<f, ",">>
           r == t \o Ending
           s == <<f>>
           e == <<";">>
           Good == Parsed(AsMessage, 3, p) = <<>> \/ Parsed(AsMessage, 3, p) = <<Shows(m)>>
<1>1. /\ f \in Chars /\ f \notin {",", ";"} /\ t \in Strings /\ t # <<>> /\ r \in Strings
      /\ b \in Strings /\ MessageEntry(m) = Append(b, ";") /\ Sealed(t)
  BY MessageTyped, SealedConcat
<1>2. b = a \o r
  BY DEF MessageBody
<1>3. /\ s \in Strings /\ s # <<>> /\ Sealed(s) /\ a = Append(s, ",")
      /\ Tokens(s, ",") = <<s>>
  <2>1. /\ s \in Seq(Chars) /\ s # <<>> /\ \A i \in DOMAIN s : s[i] = f
    BY <1>1, OneChar
  <2>2. a = Append(s, ",")
    BY AppendToOne
  <2> HIDE DEF s, f
  <2>3. \A i \in DOMAIN s : s[i] # "," /\ s[i] # ";"
    BY <1>1, <2>1
  <2>4. Tokens(s, ",") = <<s>>
    BY <2>1, <2>3, TokensOne
  <2> QED
    BY <2>1, <2>2, <2>3, <2>4 DEF Strings, Sealed
<1>4. Parsed(AsMessage, 3, b) = <<Shows(m)>>
  BY PlainParsed
<1>5. Parsed(AsMessage, 3, Append(b, ";")) = <<Shows(m)>>
  BY <1>1, <1>4, ParsedLine
<1>6. \A i \in DOMAIN t : t[i] # ","
  BY DEF Plain
<1>7. a \in Strings /\ e \in Strings /\ Append(b, ";") = b \o e
  <2>1. \A x, y \in Chars : <<x>> \in Seq(Chars) /\ <<x, y>> \in Seq(Chars)
    OBVIOUS
  <2>2. a \in Strings /\ e \in Strings
    BY <1>1, <2>1, CharsHaveSeparators DEF Strings
  <2> HIDE DEF a, b
  <2>3. Append(b, ";") = b \o e
    BY <1>1, AppendIsConcat, CharsHaveSeparators DEF Strings
  <2> QED
    BY <2>2, <2>3
<1>8. ASSUME NEW q \in Strings, Follows(p, a, q), Sealed(q), OneField(q)
      PROVE  Good
  <2>1. Tokens(p, ",") = <<s>> \o Tokens(q, ",") /\ Sealed(p)
    <3> HIDE DEF f
    <3>1. p = <<f, ",">> \o q
      BY <1>8 DEF Follows
    <3>2. Tokens(p, ",") = <<<<f>>>> \o Tokens(q, ",") /\ (Sealed(q) => Sealed(p))
      BY <1>1, <3>1, BodyTokens
    <3> QED
      BY <1>8, <3>2
  <2>2. Tokens(q, ",") \in Seq(Strings)
    BY TokensTyped DEF Strings
  <2> DEFINE v == Tokens(q, ",")
             y == <<s>>
             u == y \o v
  <2>3. y \in Seq(Strings) /\ Len(y) = 1
    <3>1. s \in Strings
      BY <1>3
    <3> HIDE DEF s
    <3> QED
      BY <3>1
  <2>4. Len(v) = 0 \/ Len(v) = 1
    BY <1>8 DEF OneField
  <2> HIDE DEF v, y
  <2>5. Len(u) = Len(y) + Len(v)
    BY <2>2, <2>3, ConcatProperties DEF v
  <2>6. ~(Len(u) >= 3)
    <3> DEFINE k == Len(v)
               n == Len(u)
    <3>1. n = 1 + k /\ (k = 0 \/ k = 1)
      BY <2>3, <2>4, <2>5
    <3> HIDE DEF k, n
    <3>2. ~(n >= 3)
      BY <3>1, SmallNumbers
    <3> QED
      BY <3>2 DEF n
  <2>7. u = Tokens(p, ",")
    BY <2>1 DEF v, y
  <2>9. Few(p)
    BY <2>6, <2>7 DEF Few
  <2>8. Parsed(AsMessage, 3, p) = <<>>
    BY <2>1, <2>9, ShortParsed
  <2> QED
    BY <2>8
<1>9. Begins(p, b) \/ Extends(Chars, p, b, e)
  <2> DEFINE u == MessageEntry(m)
  <2>1. u = b \o e /\ Begins(p, u)
    BY <1>1, <1>7
  <2> HIDE DEF b, e, u
  <2> QED
    BY <1>1, <1>7, <2>1, BeginsParts
<1>10. CASE Extends(Chars, p, b, e)
  <2>1. PICK q \in Strings : Begins(q, e) /\ p = b \o q
    BY <1>10 DEF Extends, Strings
  <2>2. q = <<>> \/ q = e
    BY <2>1, BeginsOne, CharsHaveSeparators DEF Strings
  <2>3. b \o <<>> = b
    <3> HIDE DEF b
    <3> QED
      BY <1>1, ConcatEmptySeq DEF Strings
  <2>4. p = b \/ p = Append(b, ";")
    BY <1>7, <2>1, <2>2, <2>3
  <2> QED
    BY <1>4, <1>5, <2>4
<1>11. CASE Begins(p, b)
  <2>1. Begins(p, a) \/ Extends(Chars, p, a, r)
    <3>1. b = a \o r /\ Begins(p, b)
      BY <1>2, <1>11
    <3> HIDE DEF a, r, b
    <3> QED
      BY <1>1, <1>7, <3>1, BeginsParts
  <2>2. CASE Begins(p, a)
    <3>1. p = <<>> \/ p = s \/ p = a
      BY <1>1, <2>2, BeginsTwo, CharsHaveSeparators
    <3>2. CASE p = <<>>
      BY <3>2, ParsedEmpty
    <3>3. CASE p = s
      <4>1. Len(<<s>>) = 1
        OBVIOUS
      <4>4. Len(Tokens(p, ",")) = 1
        <5> HIDE DEF s
        <5> QED
          BY <1>3, <3>3, <4>1
      <4>2. Few(p)
        BY <4>4, SmallNumbers DEF Few
      <4>3. Parsed(AsMessage, 3, p) = <<>>
        BY <1>3, <3>3, <4>2, ShortParsed
      <4> QED
        BY <4>3
    <3>4. ASSUME p = a PROVE Good
      <4>1. a \o <<>> = a
        <5> HIDE DEF a
        <5> QED
          BY <1>7, ConcatEmptySeq DEF Strings
      <4> DEFINE z == <<>>
      <4>2. Tokens(z, ",") = z /\ z \in Strings /\ Len(z) = 0
        BY TokensEmpty, ParsedEmpty, EmptySeq
      <4>3. Sealed(z)
        <5>1. DOMAIN z = {}
          BY EmptySeq
        <5> HIDE DEF z
        <5> QED
          BY <5>1 DEF Sealed
      <4>4. Follows(p, a, z)
        BY <3>4, <4>1 DEF Follows
      <4>5. OneField(z)
        BY <4>2 DEF OneField
      <4> HIDE DEF Good, z, a
      <4> QED
        BY <1>8, <4>2, <4>3, <4>4, <4>5
    <3> QED
      BY <3>1, <3>2, <3>3, <3>4
  <2>3. CASE Extends(Chars, p, a, r)
    <3>1. PICK q \in Strings : Begins(q, r) /\ p = a \o q
      BY <2>3 DEF Extends, Strings
    <3>2. ASSUME Begins(q, t) PROVE Good
      <4>1. (\A i \in DOMAIN q : q[i] # ",") /\ \A i \in DOMAIN q : q[i] # ";"
        <5>1. \A i \in DOMAIN t : t[i] # ";"
          BY <1>1 DEF Sealed
        <5>2. t \in Seq(Chars) /\ q \in Seq(Chars) /\ Begins(q, t)
          BY <1>1, <3>2 DEF Strings
        <5> HIDE DEF t
        <5>3. \A i \in DOMAIN q : q[i] # ","
          <6> DEFINE c == ","
          <6>1. \A i \in DOMAIN t : t[i] # c
            BY <1>6
          <6> HIDE DEF c
          <6>2. \A i \in DOMAIN q : q[i] # c
            BY <5>2, <6>1, BeginsPlain
          <6> QED
            BY <6>2 DEF c
        <5>4. \A i \in DOMAIN q : q[i] # ";"
          <6> DEFINE c == ";"
          <6>1. \A i \in DOMAIN t : t[i] # c
            BY <5>1
          <6> HIDE DEF c
          <6>2. \A i \in DOMAIN q : q[i] # c
            BY <5>2, <6>1, BeginsPlain
          <6> QED
            BY <6>2 DEF c
        <5> QED
          BY <5>3, <5>4
      <4>2. Tokens(q, ",") = IF q = <<>> THEN <<>> ELSE <<q>>
        BY <4>1, TokensOne DEF Strings
      <4>3. Sealed(q)
        BY <4>1 DEF Sealed
      <4>4. OneField(q)
        <5>1. Len(<<>>) = 0 /\ Len(<<q>>) = 1
          OBVIOUS
        <5> QED
          BY <4>2, <5>1 DEF OneField
      <4>5. Follows(p, a, q)
        BY <3>1 DEF Follows
      <4> HIDE DEF Good, a
      <4> QED
        BY <1>8, <4>3, <4>4, <4>5
    <3>3. Begins(q, t) \/ Extends(Chars, q, t, Ending)
      <4>1. r = t \o Ending
        OBVIOUS
      <4> HIDE DEF t, r
      <4> QED
        BY <1>1, <3>1, <4>1, EndingTyped, BeginsParts
    <3>4. CASE Extends(Chars, q, t, Ending)
      <4>1. PICK v \in Strings : Begins(v, Ending) /\ q = t \o v
        BY <3>4 DEF Extends, Strings
      <4>2. v = <<>> \/ v = <<",">> \/ v = Ending
        BY <4>1, BeginsTwo, CharsHaveSeparators, TimeIsRead DEF Ending
      <4>3. CASE v = <<>>
        <5>1. q = t
          <6> HIDE DEF t
          <6> QED
            BY <1>1, <4>1, <4>3, ConcatEmptySeq DEF Strings
        <5>2. Begins(t, t)
          BY <1>1, BeginsSelf DEF Strings
        <5> QED
          BY <3>2, <5>1, <5>2
      <4>4. CASE v = <<",">>
        <5>1. q = Append(t, ",")
          <6> HIDE DEF t
          <6> QED
            BY <1>1, <4>1, <4>4, AppendIsConcat, CharsHaveSeparators DEF Strings
        <5>2. Tokens(q, ",") = Tokens(t, ",")
          BY <1>1, <5>1, TokensEnded, CharsHaveSeparators
        <5>3. Tokens(t, ",") = <<t>>
          <6> HIDE DEF t
          <6> QED
            BY <1>1, <1>6, TokensOne DEF Strings
        <5>4. Sealed(q)
          <6>1. \A i \in DOMAIN v : v[i] = ","
            BY <4>4, OneChar, CharsHaveSeparators
          <6>2. Sealed(v)
            BY <6>1, CharsHaveSeparators DEF Sealed
          <6> QED
            BY <1>1, <4>1, <6>2, SealedConcat
        <5>5. OneField(q)
          <6>1. Len(<<t>>) = 1
            OBVIOUS
          <6> HIDE DEF t
          <6> QED
            BY <5>2, <5>3, <6>1 DEF OneField
        <5>6. Follows(p, a, q)
          BY <3>1 DEF Follows
        <5>7. q \in Strings
          BY <3>1
        <5>8. Good
          <6> HIDE DEF Good, a, t
          <6> QED
            BY <1>8, <5>4, <5>5, <5>6, <5>7
        <5> QED
          BY <5>8
      <4>5. CASE v = Ending
        BY <1>2, <1>4, <3>1, <4>1, <4>5
      <4> QED
        BY <4>2, <4>3, <4>4, <4>5
    <3> QED
      BY <3>2, <3>3, <3>4
  <2> QED
    BY <2>1, <2>2, <2>3
<1> QED
  BY <1>9, <1>10, <1>11

-----------------------------------------------------------------------------
(***************************************************************************)
(* A chat, and what the client makes of it                                 *)
(***************************************************************************)
EntryOf == [m \in Message |-> MessageEntry(m)]
ShownOf == [m \in Message |-> Shows(m)]
Shapes == Images(AsMessage, Seq(Strings)) \cup Images(ShownOf, Message)

ChatNext(chat, m) ==
    /\ Entries(Append(chat, m)) = Append(Entries(chat), MessageEntry(m))
    /\ Sent(Append(chat, m)) = Append(Sent(chat), Shows(m))

\* Entries and Sent, as functions applied to each message.
LEMMA ChatMapped ==
    ASSUME NEW chat \in Seq(Message)
    PROVE  Entries(chat) = Mapped(EntryOf, chat) /\ Sent(chat) = Mapped(ShownOf, chat)
<1>1. DOMAIN chat = 1..Len(chat) /\ \A i \in 1..Len(chat) : chat[i] \in Message
  BY LenProperties, ElementOfSeq
<1>2. /\ \A i \in DOMAIN chat : EntryOf[chat[i]] = MessageEntry(chat[i])
      /\ \A i \in DOMAIN chat : ShownOf[chat[i]] = [sender |-> chat[i].from, text |-> chat[i].text]
  BY <1>1 DEF EntryOf, ShownOf, Shows
<1> QED
  BY <1>2 DEF Entries, Sent, Mapped

\* The entries are lines.
LEMMA ChatTyped ==
    ASSUME NEW chat \in Seq(Message)
    PROVE  /\ Entries(chat) \in Seq(Lines)
           /\ Sent(chat) \in Seq(Shapes)
<1>1. Entries(chat) \in Seq(Images(EntryOf, Message)) /\ Sent(chat) \in Seq(Images(ShownOf, Message))
  BY ChatMapped, MappedTyped
<1>2. Images(EntryOf, Message) \subseteq Lines
  <2>1. \A m \in Message : EntryOf[m] \in Lines
    BY MessageTyped DEF EntryOf
  <2> QED
    BY <2>1 DEF Images
<1>3. Images(ShownOf, Message) \subseteq Shapes
  BY DEF Shapes
<1> QED
  BY <1>1, <1>2, <1>3, SeqMonotonic

\* A chat without messages.
LEMMA ChatEmpty ==
    Entries(<<>>) = <<>> /\ Sent(<<>>) = <<>>
<1>1. <<>> \in Seq(Message)
  BY EmptySeq
<1> QED
  BY <1>1, ChatMapped, MappedOne

\* A chat with one more message has one more entry.
LEMMA ChatAppended ==
    ASSUME NEW chat \in Seq(Message), NEW m \in Message
    PROVE  ChatNext(chat, m)
<1> DEFINE u == Append(chat, m)
<1>1. u \in Seq(Message)
  BY AppendProperties
<1>2. Mapped(EntryOf, u) = Append(Mapped(EntryOf, chat), EntryOf[m])
  BY MappedAppend
<1>3. Mapped(ShownOf, u) = Append(Mapped(ShownOf, chat), ShownOf[m])
  BY MappedAppend
<1>4. EntryOf[m] = MessageEntry(m) /\ ShownOf[m] = Shows(m)
  BY DEF EntryOf, ShownOf
<1>5. /\ Entries(chat) = Mapped(EntryOf, chat) /\ Sent(chat) = Mapped(ShownOf, chat)
      /\ Entries(u) = Mapped(EntryOf, u) /\ Sent(u) = Mapped(ShownOf, u)
  <2> HIDE DEF u
  <2> QED
    BY <1>1, ChatMapped
<1> QED
  BY <1>2, <1>3, <1>4, <1>5 DEF ChatNext

AllPlain(chat) == \A i \in DOMAIN chat : Plain(chat[i].text)
AllSealed(chat) == \A i \in DOMAIN chat : Sealed(chat[i].text)

WholeShown(chat) == Parsed(AsMessage, 3, Joined(Entries(chat))) = Sent(chat)
PartShown(chat) ==
    \A p \in Strings : Begins(p, Joined(Entries(chat))) => Begins(Parsed(AsMessage, 3, p), Sent(chat))

\* What is true of all texts, with one more message.
LEMMA AppendedAll ==
    ASSUME NEW chat \in Seq(Message), NEW m \in Message
    PROVE  /\ AllPlain(Append(chat, m)) => AllPlain(chat) /\ Plain(m.text)
           /\ AllSealed(Append(chat, m)) => AllSealed(chat) /\ Sealed(m.text)
<1> DEFINE u == Append(chat, m)
           k == Len(chat)
<1>1. k \in Nat /\ DOMAIN chat = 1..k
  BY LenProperties
<1>2. u \in Seq(Message) /\ Len(u) = k + 1 /\ (\A i \in 1..k : u[i] = chat[i]) /\ u[k + 1] = m
  BY AppendProperties
<1>3. DOMAIN u = 1..(k + 1)
  BY <1>2, LenProperties
<1> HIDE DEF u, k
<1>4. k + 1 \in DOMAIN u /\ \A i \in DOMAIN chat : i \in DOMAIN u /\ u[i] = chat[i]
  BY <1>1, <1>2, <1>3
<1> QED
  BY <1>2, <1>4 DEF AllPlain, AllSealed, u

\* The client's list after one more entry.
LEMMA ChatParsed ==
    ASSUME NEW chat \in Seq(Message), NEW m \in Message, NEW u, u = Append(chat, m)
    PROVE  /\ u \in Seq(Message)
           /\ Joined(Entries(chat)) \in Strings /\ Joined(Entries(u)) \in Strings
           /\ Joined(Entries(u)) = Joined(Entries(chat)) \o MessageEntry(m)
           /\ Parsed(AsMessage, 3, Joined(Entries(u)))
                 = Parsed(AsMessage, 3, Joined(Entries(chat))) \o Parsed(AsMessage, 3, MessageBody(m))
<1> DEFINE es == Entries(chat)
           b == MessageBody(m)
           l == MessageEntry(m)
           h == AsMessage
           n == 3
<1>1. es \in Seq(Lines) /\ b \in Strings /\ l = Append(b, ";")
  BY ChatTyped, MessageTyped
<1>2. u \in Seq(Message)
  BY AppendProperties
<1>3. Entries(u) = Append(es, l)
  BY ChatAppended DEF ChatNext
<1>6. Joined(es) \in Strings
  BY <1>1, JoinedClosed
<1>7. Joined(Entries(u)) \in Strings
  BY <1>2, ChatTyped, JoinedClosed
<1> HIDE DEF es, b, l, h, n
<1>5. l \in Lines /\ l \in Strings
  BY <1>1, ParsedLine DEF Lines
<1>8. Joined(Append(es, l)) = Joined(es) \o l
  <2>1. es \in Seq(Seq(Chars)) /\ l \in Seq(Chars)
    <3>1. Lines \subseteq Strings
      BY ParsedLine DEF Lines
    <3> QED
      BY <1>1, <1>5, <3>1, SeqMonotonic DEF Strings
  <2> QED
    BY <2>1, JoinedLaws
<1>9. Parsed(h, n, Joined(es) \o l) = Parsed(h, n, Joined(es)) \o Parsed(h, n, l)
  BY <1>1, <1>5, ParsedJoined
<1>10. Parsed(h, n, l) = Parsed(h, n, b)
  BY <1>1, ParsedLine
<1> QED
  BY <1>2, <1>3, <1>6, <1>7, <1>8, <1>9, <1>10 DEF es, b, l, h, n

\* Plain texts are parsed as they were sent, and a reply that is cut as a prefix of them.
LEMMA PlainChat ==
    ASSUME NEW chat \in Seq(Message), AllPlain(chat)
    PROVE  WholeShown(chat) /\ PartShown(chat)
<1> DEFINE S == {c \in Seq(Message) : AllPlain(c) => WholeShown(c) /\ PartShown(c)}
           z == <<>>
           P(s) == Parsed(AsMessage, 3, s)
<1>1. z \in S
  <2>1. z \in Seq(Message) /\ Entries(z) = z /\ Sent(z) = z /\ z \in Strings /\ P(z) = z /\ Joined(z) = z
    BY EmptySeq, ChatEmpty, ParsedEmpty, JoinedLaws
  <2>2. ASSUME NEW p \in Strings, Begins(p, z) PROVE p = z
    <3>1. Len(p) <= 0 /\ Len(p) \in Nat
      BY <2>2, LenProperties, EmptySeq DEF Begins, Strings
    <3>2. Len(p) = 0
      BY <3>1
    <3> QED
      BY <3>2, EmptySeq DEF Strings
  <2>3. Begins(z, z)
    BY BeginsSelf, EmptySeq
  <2> HIDE DEF z
  <2>4. WholeShown(z)
    BY <2>1 DEF WholeShown
  <2>5. PartShown(z)
    BY <2>1, <2>2, <2>3 DEF PartShown
  <2> QED
    BY <2>1, <2>4, <2>5
<1>2. ASSUME NEW c \in Seq(Message), NEW m \in Message, c \in S, NEW u, u = Append(c, m) PROVE u \in S
  <2> DEFINE j == Joined(Entries(c))
             l == MessageEntry(m)
             v == Joined(Entries(u))
             one == <<Shows(m)>>
  <2>1. u \in Seq(Message) /\ j \in Strings /\ v \in Strings /\ v = j \o l
    BY <1>2, ChatParsed
  <2>2. P(v) = P(j) \o P(MessageBody(m))
    BY <1>2, ChatParsed
  <2> SUFFICES ASSUME AllPlain(u) PROVE WholeShown(u) /\ PartShown(u)
    BY <2>1
  <2>3. AllPlain(c) /\ Plain(m.text)
    BY <1>2, AppendedAll
  <2>4. P(j) = Sent(c) /\ PartShown(c)
    BY <1>2, <2>3 DEF WholeShown
  <2>5. P(MessageBody(m)) = one
    BY <2>3, PlainParsed
  <2>6. Shows(m) \in Shapes
    BY DEF Shapes, Images, ShownOf
  <2>7. Sent(c) \in Seq(Shapes) /\ one \in Seq(Shapes)
    BY <2>6, ChatTyped
  <2>8. Sent(u) = Sent(c) \o one
    <3>1. Sent(u) = Append(Sent(c), Shows(m))
      BY <1>2, ChatAppended DEF ChatNext
    <3> QED
      BY <2>6, <2>7, <3>1, AppendIsConcat
  <2>9. WholeShown(u)
    BY <2>2, <2>4, <2>5, <2>8 DEF WholeShown
  <2>10. ASSUME NEW p \in Strings, Begins(p, v) PROVE Begins(P(p), Sent(u))
    <3>1. Begins(Sent(c), Sent(u)) /\ Sent(u) \in Seq(Shapes)
      <4>1. Sent(u) \in Seq(Shapes)
        BY <2>1, ChatTyped
      <4> HIDE DEF one
      <4>2. Begins(Sent(c), Sent(c) \o one)
        BY <2>7, BeginsConcat
      <4> QED
        BY <4>1, <4>2, <2>8
    <3>2. P(p) \in Seq(Shapes)
      <4>1. P(p) \in Seq(Images(AsMessage, Seq(Strings)))
        BY ParsedTyped
      <4>2. Images(AsMessage, Seq(Strings)) \subseteq Shapes
        BY DEF Shapes
      <4> QED
        BY <4>1, <4>2, SeqMonotonic
    <3>3. Begins(p, j) \/ Extends(Chars, p, j, l)
      <4>1. l \in Strings
        BY MessageTyped, ParsedLine DEF Lines
      <4> HIDE DEF j, l, v
      <4> QED
        BY <2>1, <2>10, <4>1, BeginsParts
    <3>4. CASE Begins(p, j)
      <4>1. Begins(P(p), Sent(c))
        BY <2>4, <3>4 DEF PartShown
      <4> HIDE DEF P
      <4> QED
        BY <2>7, <3>1, <3>2, <4>1, BeginsTrans
    <3>5. CASE Extends(Chars, p, j, l)
      <4>1. PICK q \in Strings : Begins(q, l) /\ p = j \o q
        BY <3>5 DEF Extends, Strings
      <4>2. P(j \o q) = P(j) \o P(q)
        BY ChatTyped, ParsedJoined
      <4>3. P(q) = <<>> \/ P(q) = one
        BY <2>3, <4>1, PartialParsed
      <4>4. Sent(c) \o <<>> = Sent(c)
        BY <2>7, ConcatEmptySeq
      <4>5. P(p) = Sent(c) \/ P(p) = Sent(u)
        BY <2>4, <2>8, <4>1, <4>2, <4>3, <4>4
      <4>6. Begins(Sent(u), Sent(u))
        BY <3>1, BeginsSelf
      <4> QED
        BY <3>1, <4>5, <4>6
    <3> QED
      BY <3>3, <3>4, <3>5
  <2> QED
    BY <2>9, <2>10 DEF PartShown
<1>3. Seq(Message) \subseteq S
  <2>1. z \in S /\ \A c \in Seq(Message), m \in Message : c \in S => Append(c, m) \in S
    BY <1>1, <1>2
  <2> HIDE DEF S
  <2> QED
    BY <2>1, SeqInductionSet DEF z
<1> QED
  BY <1>3

-----------------------------------------------------------------------------
(***************************************************************************)
(* The server's buffers and what one recv takes of them                    *)
(***************************************************************************)
FillCorrect(es) ==
    /\ Filled(es).text \in Strings /\ Begins(Filled(es).text, Joined(es))
    /\ ~Filled(es).full => Filled(es).text = Joined(es)
    /\ Len(Joined(es)) < ReplyMax => ~Filled(es).full

\* What leaves room for more fits by itself.
LEMMA SumAtMost ==
    ASSUME NEW a \in Nat, NEW b \in Nat, NEW n \in Nat, a + b < n
    PROVE  a < n
OBVIOUS

\* The loop over the entries writes a prefix of them, and all that fit together.
LEMMA FillIsCorrect ==
    ASSUME NEW es \in Seq(Strings)
    PROVE  FillCorrect(es)
<1> DEFINE S == {s \in Seq(Strings) : FillCorrect(s)}
           z == <<>>
<1>1. z \in S
  <2>1. Filled(z) = [text |-> z, full |-> FALSE] /\ Joined(z) = z
    BY FilledLaws, JoinedLaws
  <2>2. z \in Seq(Strings) /\ z \in Strings /\ Begins(z, z)
    BY EmptySeq, BeginsSelf DEF Strings
  <2> HIDE DEF z
  <2>3. FillCorrect(z)
    BY <2>1, <2>2 DEF FillCorrect
  <2> QED
    BY <2>2, <2>3
<1>2. ASSUME NEW s \in Seq(Strings), NEW e \in Strings, s \in S, NEW u, u = Append(s, e) PROVE u \in S
  <2> DEFINE j == Joined(s)
             t == Filled(s).text
             full == Filled(s).full
             v == j \o e
             w == t \o e
  <2>1. u \in Seq(Strings)
    BY <1>2, AppendProperties
  <2>2. Joined(u) = v /\ j \in Strings /\ v \in Strings
    BY <1>2, JoinedLaws, ConcatProperties DEF Strings
  <2>3. FillCorrect(s)
    BY <1>2
  <2>4. t \in Strings /\ Begins(t, j) /\ (~full => t = j) /\ (Len(j) < ReplyMax => ~full)
    BY <2>3 DEF FillCorrect
  <2>5. Filled(u) = IF ~full /\ Len(t) + Len(e) < ReplyMax
                    THEN [text |-> w, full |-> FALSE] ELSE [text |-> t, full |-> TRUE]
    BY <1>2, FilledLaws DEF Strings
  <2>6. CASE ~full /\ Len(t) + Len(e) < ReplyMax
    <3>1. Filled(u) = [text |-> w, full |-> FALSE] /\ w = v
      BY <2>4, <2>5, <2>6
    <3>2. Begins(v, v)
      BY <2>2, BeginsSelf DEF Strings
    <3> HIDE DEF v, w
    <3>3. Filled(u).text = v /\ ~Filled(u).full
      BY <3>1
    <3>4. FillCorrect(u)
      BY <2>2, <3>2, <3>3 DEF FillCorrect
    <3> QED
      BY <2>1, <3>4
  <2>7. CASE ~(~full /\ Len(t) + Len(e) < ReplyMax)
    <3>1. Filled(u).text = t /\ Filled(u).full
      <4>1. Filled(u) = [text |-> t, full |-> TRUE]
        BY <2>5, <2>7
      <4> HIDE DEF t
      <4> QED
        BY <4>1
    <3>2. Begins(t, v)
      <4>1. j \in Seq(Chars) /\ e \in Seq(Chars) /\ t \in Seq(Chars) /\ v \in Seq(Chars) /\ Begins(t, j)
        BY <2>2, <2>4 DEF Strings
      <4> HIDE DEF j, t
      <4>2. Begins(j, v)
        BY <4>1, BeginsConcat
      <4> HIDE DEF v
      <4> QED
        BY <4>1, <4>2, BeginsTrans
    <3>3. ~(Len(v) < ReplyMax)
      <4> SUFFICES ASSUME Len(v) < ReplyMax PROVE FALSE
        OBVIOUS
      <4>1. Len(v) = Len(j) + Len(e) /\ Len(j) \in Nat /\ Len(e) \in Nat
        BY <2>2, ConcatProperties, LenProperties DEF Strings
      <4> DEFINE a == Len(j)
                 b == Len(e)
                 n == ReplyMax
      <4>2. a \in Nat /\ b \in Nat /\ n \in Nat /\ a + b < n
        BY <4>1, HistoryAssumption
      <4> HIDE DEF a, b, n
      <4>3. a < n
        BY <4>2, SumAtMost
      <4>4. ~full /\ t = j
        BY <2>4, <4>3 DEF a, n
      <4> QED
        BY <2>7, <4>2, <4>4 DEF a, b, n
    <3> HIDE DEF v, t
    <3>4. FillCorrect(u)
      BY <2>2, <2>4, <3>1, <3>2, <3>3 DEF FillCorrect
    <3> QED
      BY <2>1, <3>4
  <2> QED
    BY <2>6, <2>7
<1>3. Seq(Strings) \subseteq S
  <2>1. z \in S /\ \A s \in Seq(Strings), e \in Strings : s \in S => Append(s, e) \in S
    BY <1>1, <1>2
  <2> HIDE DEF S
  <2> QED
    BY <2>1, SeqInductionSet DEF z
<1> QED
  BY <1>3

\* So does the loop over the rooms.
LEMMA FillAllIsWhole ==
    ASSUME NEW es \in Seq(Strings), Len(Joined(es)) < ReplyMax
    PROVE  FillAll(es) = Joined(es)
<1> DEFINE S == {s \in Seq(Strings) : Len(Joined(s)) < ReplyMax => FillAll(s) = Joined(s)}
           z == <<>>
<1>1. z \in S
  BY EmptySeq, FillAllLaws, JoinedLaws
<1>2. ASSUME NEW s \in Seq(Strings), NEW e \in Strings, s \in S, NEW u, u = Append(s, e) PROVE u \in S
  <2> DEFINE j == Joined(s)
             f == FillAll(s)
             v == j \o e
  <2>1. u \in Seq(Strings)
    BY <1>2, AppendProperties
  <2>2. Joined(u) = v /\ j \in Strings
    BY <1>2, JoinedLaws DEF Strings
  <2>3. Len(j) < ReplyMax => f = j
    BY <1>2
  <2>4. FillAll(u) = IF Len(f) + Len(e) < ReplyMax THEN f \o e ELSE f
    BY <1>2, FillAllLaws DEF Strings
  <2> SUFFICES ASSUME Len(v) < ReplyMax PROVE FillAll(u) = v
    BY <2>1, <2>2
  <2>5. Len(v) = Len(j) + Len(e) /\ Len(j) \in Nat /\ Len(e) \in Nat
    BY <2>2, ConcatProperties, LenProperties DEF Strings
  <2> DEFINE a == Len(j)
             b == Len(e)
             n == ReplyMax
  <2>6. a \in Nat /\ b \in Nat /\ n \in Nat /\ a + b < n
    BY <2>5, HistoryAssumption
  <2> HIDE DEF a, b, n
  <2>7. a < n
    BY <2>6, SumAtMost
  <2>8. f = j
    BY <2>3, <2>7 DEF a, n
  <2> QED
    BY <2>4, <2>6, <2>8 DEF a, b, n
<1>3. Seq(Strings) \subseteq S
  <2>1. z \in S /\ \A s \in Seq(Strings), e \in Strings : s \in S => Append(s, e) \in S
    BY <1>1, <1>2
  <2> HIDE DEF S
  <2> QED
    BY <2>1, SeqInductionSet DEF z
<1> QED
  BY <1>3

\* One recv returns a prefix, and all of what fits.
LEMMA ReceivedBegins ==
    ASSUME NEW reply \in Strings
    PROVE  /\ Received(reply) \in Strings /\ Begins(Received(reply), reply)
           /\ Len(reply) <= SlotMax => Received(reply) = reply
<1> DEFINE n == Len(reply)
           l == IF n < SlotMax THEN n ELSE SlotMax
           p == Received(reply)
<1>1. n \in Nat /\ SlotMax \in Nat
  BY LenProperties, HistoryAssumption DEF Strings
<1>2. l \in Nat /\ l <= n /\ (n <= SlotMax => l = n)
  <2> HIDE DEF n
  <2> QED
    BY <1>1
<1>3. p = SubSeq(reply, 1, l)
  BY DEF Received
<1>5. SubSeq(reply, 1, n) = reply
  BY SubSeqFull DEF Strings
<1> HIDE DEF l, p
<1>4. p \in Strings /\ Begins(p, reply)
  BY <1>2, <1>3, BeginsSubSeq DEF Strings
<1> QED
  BY <1>2, <1>3, <1>4, <1>5 DEF p

\* What the client shows of a chat.
LEMMA ChatShown ==
    ASSUME NEW chat \in Seq(Message), NEW shown, shown = Parse(Received(Fill(Entries(chat))))
    PROVE  /\ shown \in Seq(Shapes)
           /\ Fits(Entries(chat)) => shown = Parsed(AsMessage, 3, Joined(Entries(chat)))
           /\ AllPlain(chat) => IsPrefix(shown, Sent(chat))
<1> DEFINE es == Entries(chat)
           j == Joined(es)
           f == Fill(es)
           r == Received(f)
<1>1. es \in Seq(Strings) /\ j \in Strings
  <2>1. es \in Seq(Lines) /\ j \in Strings
    BY ChatTyped, JoinedClosed
  <2>2. Lines \subseteq Strings
    BY ParsedLine DEF Lines
  <2> QED
    BY <2>1, <2>2, SeqMonotonic
<1>2. f \in Strings /\ Begins(f, j) /\ (Len(j) < ReplyMax => f = j)
  <2> HIDE DEF es
  <2>1. FillCorrect(es)
    BY <1>1, FillIsCorrect
  <2> QED
    BY <2>1 DEF FillCorrect, Fill
<1> HIDE DEF es, j, f
<1>3. r \in Strings /\ Begins(r, f) /\ (Len(f) <= SlotMax => r = f)
  BY <1>2, ReceivedBegins
<1>4. shown = Parsed(AsMessage, 3, r)
  <2>1. shown = Parse(r)
    BY DEF r, f, es
  <2> HIDE DEF r
  <2> QED
    BY <1>3, <2>1, ParsersAreParsed
<1> HIDE DEF r
<1>5. shown \in Seq(Shapes)
  <2>1. shown \in Seq(Images(AsMessage, Seq(Strings)))
    BY <1>3, <1>4, ParsedTyped
  <2>2. Images(AsMessage, Seq(Strings)) \subseteq Shapes
    BY DEF Shapes
  <2> QED
    BY <2>1, <2>2, SeqMonotonic
<1>6. Fits(es) => shown = Parsed(AsMessage, 3, j)
  BY <1>2, <1>3, <1>4 DEF Fits, j
<1>7. ASSUME AllPlain(chat) PROVE IsPrefix(shown, Sent(chat))
  <2>1. Begins(r, j)
    BY <1>1, <1>2, <1>3, BeginsTrans DEF Strings
  <2>2. PartShown(chat)
    BY <1>7, PlainChat
  <2>3. Begins(shown, Sent(chat))
    BY <1>3, <1>4, <2>1, <2>2 DEF PartShown, j, es
  <2>4. Sent(chat) \in Seq(Shapes)
    BY ChatTyped
  <2> QED
    BY <1>5, <2>3, <2>4, BeginsIsPrefix
<1> QED
  BY <1>5, <1>6, <1>7 DEF j, es

-----------------------------------------------------------------------------
(***************************************************************************)
(* Subsequences                                                            *)
(***************************************************************************)
LEMMA WithinEmpty ==
    ASSUME NEW s
    PROVE  Within(<<>>, s)
<1> DEFINE z == <<>>
           pos == [i \in {} |-> s]
<1>1. DOMAIN z = {}
  BY EmptySeq
<1>2. pos \in [DOMAIN z -> DOMAIN s]
  BY <1>1
<1>3. (\A i \in DOMAIN z : z[i] = s[pos[i]]) /\ (\A i, k \in DOMAIN z : i < k => pos[i] < pos[k])
  BY <1>1
<1> QED
  BY <1>2, <1>3 DEF Within

\* A subsequence stays one of a longer sequence.
LEMMA WithinConcat ==
    ASSUME NEW X, NEW t, NEW s \in Seq(X), NEW p \in Seq(X), Within(t, s)
    PROVE  Within(t, s \o p)
<1> DEFINE u == s \o p
           k == Len(s)
           n == Len(p)
<1>1. PICK pos \in [DOMAIN t -> DOMAIN s] :
         /\ \A i \in DOMAIN t : t[i] = s[pos[i]]
         /\ \A i, j \in DOMAIN t : i < j => pos[i] < pos[j]
  BY DEF Within
<1>2. k \in Nat /\ n \in Nat /\ DOMAIN s = 1..k
  BY LenProperties
<1>3. u \in Seq(X) /\ Len(u) = k + n
      /\ \A i \in 1..(k + n) : u[i] = IF i <= k THEN s[i] ELSE p[i - k]
  BY ConcatProperties
<1>4. DOMAIN u = 1..(k + n)
  BY <1>3, LenProperties
<1> HIDE DEF u, k, n
<1>5. \A x \in DOMAIN s : x \in DOMAIN u /\ u[x] = s[x]
  BY <1>2, <1>3, <1>4
<1>6. pos \in [DOMAIN t -> DOMAIN u] /\ \A i \in DOMAIN t : t[i] = u[pos[i]]
  BY <1>1, <1>5
<1> QED
  BY <1>1, <1>6 DEF Within, u

\* ... and of both with the same end.
LEMMA WithinAppend ==
    ASSUME NEW X, NEW t \in Seq(X), NEW s \in Seq(X), NEW e \in X, Within(t, s),
           NEW a, a = Append(t, e), NEW b, b = Append(s, e)
    PROVE  Within(a, b)
<1> DEFINE k == Len(s)
           n == Len(t)
           ta == a
           sa == b
<1>1. PICK pos \in [DOMAIN t -> DOMAIN s] :
         /\ \A i \in DOMAIN t : t[i] = s[pos[i]]
         /\ \A i, j \in DOMAIN t : i < j => pos[i] < pos[j]
  BY DEF Within
<1>2. k \in Nat /\ n \in Nat /\ DOMAIN s = 1..k /\ DOMAIN t = 1..n
  BY LenProperties
<1>3. /\ sa \in Seq(X) /\ Len(sa) = k + 1 /\ (\A i \in 1..k : sa[i] = s[i]) /\ sa[k + 1] = e
      /\ ta \in Seq(X) /\ Len(ta) = n + 1 /\ (\A i \in 1..n : ta[i] = t[i]) /\ ta[n + 1] = e
  BY AppendProperties
<1>4. DOMAIN sa = 1..(k + 1) /\ DOMAIN ta = 1..(n + 1)
  BY <1>3, LenProperties
<1> DEFINE to == [i \in 1..(n + 1) |-> IF i = n + 1 THEN k + 1 ELSE pos[i]]
<1> HIDE DEF k, n, sa, ta
<1>5. \A i \in 1..n : pos[i] \in 1..k /\ i \in 1..(n + 1) /\ i # n + 1
  BY <1>1, <1>2
<1>6. \A i \in 1..(n + 1) : i = n + 1 \/ i \in 1..n
  BY <1>2
<1>7. \A i \in 1..n : to[i] = pos[i]
  BY <1>5
<1>8. n + 1 \in 1..(n + 1) /\ to[n + 1] = k + 1
  BY <1>2
<1>9. \A i \in 1..(n + 1) : to[i] \in 1..(k + 1)
  BY <1>2, <1>5, <1>6, <1>7, <1>8
<1>10. to \in [DOMAIN ta -> DOMAIN sa]
  BY <1>4, <1>9
<1> HIDE DEF to
<1>11. ASSUME NEW i \in DOMAIN ta PROVE ta[i] = sa[to[i]]
  <2>1. CASE i = n + 1
    BY <1>3, <1>8, <2>1
  <2>2. CASE i \in 1..n
    <3>1. ta[i] = t[i] /\ t[i] = s[pos[i]] /\ to[i] = pos[i] /\ pos[i] \in 1..k
      BY <1>1, <1>2, <1>3, <1>5, <1>7, <2>2
    <3> QED
      BY <1>3, <3>1
  <2> QED
    BY <1>4, <1>6, <2>1, <2>2
<1>12. ASSUME NEW i \in DOMAIN ta, NEW j \in DOMAIN ta, i < j PROVE to[i] < to[j]
  <2>1. i \in 1..n
    BY <1>2, <1>4, <1>12
  <2>2. to[i] = pos[i] /\ pos[i] \in 1..k
    BY <1>5, <1>7, <2>1
  <2>3. CASE j = n + 1
    BY <1>2, <1>8, <2>2, <2>3
  <2>4. CASE j \in 1..n
    <3>1. pos[i] < pos[j]
      BY <1>1, <1>2, <1>12, <2>1, <2>4
    <3> QED
      BY <1>7, <2>2, <2>4, <3>1
  <2> QED
    BY <1>4, <1>6, <2>3, <2>4
<1> QED
  BY <1>10, <1>11, <1>12 DEF Within, ta, sa

-----------------------------------------------------------------------------
SenderOf == [x \in Shapes |-> x.sender]
FromOf == [m \in Message |-> m.from]
Senders(shown) == [i \in DOMAIN shown |-> shown[i].sender]
Froms(chat) == [i \in DOMAIN chat |-> chat[i].from]

PlainKept(chat) ==
    Within(Sent(Selected(chat, PlainMessages)), Parsed(AsMessage, 3, Joined(Entries(chat))))
SendersKept(chat) ==
    Within(Senders(Parsed(AsMessage, 3, Joined(Entries(chat)))), Froms(chat))

\* The senders, as functions applied to each message.
LEMMA SendersMapped ==
    /\ \A s \in Seq(Shapes) : Senders(s) = Mapped(SenderOf, s)
    /\ \A c \in Seq(Message) : Froms(c) = Mapped(FromOf, c)
<1>1. ASSUME NEW s \in Seq(Shapes) PROVE Senders(s) = Mapped(SenderOf, s)
  <2>1. DOMAIN s = 1..Len(s) /\ \A i \in 1..Len(s) : s[i] \in Shapes
    BY LenProperties, ElementOfSeq
  <2>2. \A i \in DOMAIN s : SenderOf[s[i]] = s[i].sender
    BY <2>1 DEF SenderOf
  <2> QED
    BY <2>2 DEF Senders, Mapped
<1>2. ASSUME NEW c \in Seq(Message) PROVE Froms(c) = Mapped(FromOf, c)
  <2>1. DOMAIN c = 1..Len(c) /\ \A i \in 1..Len(c) : c[i] \in Message
    BY LenProperties, ElementOfSeq
  <2>2. \A i \in DOMAIN c : FromOf[c[i]] = c[i].from
    BY <2>1 DEF FromOf
  <2> QED
    BY <2>2 DEF Froms, Mapped
<1> QED
  BY <1>1, <1>2

\* Every plain text among them is shown.
LEMMA PlainIsKept ==
    ASSUME NEW chat \in Seq(Message)
    PROVE  PlainKept(chat)
<1> DEFINE S == {c \in Seq(Message) : PlainKept(c)}
           z == <<>>
           P(s) == Parsed(AsMessage, 3, s)
           K(c) == Selected(c, PlainMessages)
<1>0. \A s \in Strings : P(s) \in Seq(Shapes)
  <2>1. \A s \in Strings : P(s) \in Seq(Images(AsMessage, Seq(Strings)))
    BY ParsedTyped
  <2>2. Images(AsMessage, Seq(Strings)) \subseteq Shapes
    BY DEF Shapes
  <2> HIDE DEF P
  <2> QED
    BY <2>1, <2>2, SeqMonotonic
<1>1. z \in S
  <2>1. z \in Seq(Message) /\ K(z) = z /\ Sent(z) = z
    BY EmptySeq, SelectedLaws, ChatEmpty
  <2> HIDE DEF z, K
  <2>2. PlainKept(z)
    BY <2>1, WithinEmpty DEF PlainKept, z, K
  <2> QED
    BY <2>1, <2>2
<1>2. ASSUME NEW c \in Seq(Message), NEW m \in Message, c \in S, NEW u, u = Append(c, m) PROVE u \in S
  <2> DEFINE j == Joined(Entries(c))
             v == Joined(Entries(u))
             one == <<Shows(m)>>
             q == P(MessageBody(m))
             t == Sent(K(c))
  <2>1. u \in Seq(Message) /\ j \in Strings /\ P(v) = P(j) \o q
    BY <1>2, ChatParsed
  <2>2. K(c) \in Seq(Message) /\ K(u) = IF m \in PlainMessages THEN Append(K(c), m) ELSE K(c)
    <3> DEFINE T == PlainMessages
    <3>1. \A x \in Seq(Message) : \A e \in Message :
             Selected(Append(x, e), T) = IF e \in T THEN Append(Selected(x, T), e) ELSE Selected(x, T)
      BY SelectedLaws
    <3>2. Selected(c, T) \in Seq(Message)
      BY SelectedLaws
    <3> HIDE DEF T
    <3>3. Selected(Append(c, m), T) = IF m \in T THEN Append(Selected(c, T), m) ELSE Selected(c, T)
      BY <3>1
    <3> QED
      BY <1>2, <3>2, <3>3 DEF T
  <2>3. t \in Seq(Shapes) /\ P(j) \in Seq(Shapes) /\ q \in Seq(Shapes) /\ Shows(m) \in Shapes
    <3>1. Shows(m) \in Shapes
      BY DEF Shapes, Images, ShownOf
    <3> QED
      BY <1>0, <2>1, <2>2, <3>1, ChatTyped, MessageTyped
  <2>4. Within(t, P(j))
    BY <1>2 DEF PlainKept
  <2>5. CASE m \in PlainMessages
    <3>1. Sent(K(u)) = Append(t, Shows(m))
      <4>1. K(u) = Append(K(c), m)
        BY <2>2, <2>5
      <4> HIDE DEF K
      <4>2. ChatNext(K(c), m)
        BY <2>2, ChatAppended
      <4> QED
        BY <4>1, <4>2 DEF ChatNext
    <3>2. q = one
      BY <2>5, PlainParsed DEF PlainMessages
    <3>3. P(v) = Append(P(j), Shows(m))
      <4> HIDE DEF P, v, j, q
      <4>1. Append(P(j), Shows(m)) = P(j) \o one
        BY <2>3, AppendIsConcat
      <4> QED
        BY <2>1, <3>2, <4>1
    <3> DEFINE x == Shows(m)
               a == Sent(K(u))
               b == P(v)
               s == P(j)
    <3>4. t \in Seq(Shapes) /\ s \in Seq(Shapes) /\ x \in Shapes /\ Within(t, s) /\ a = Append(t, x) /\ b = Append(s, x)
      BY <2>3, <2>4, <3>1, <3>3
    <3> HIDE DEF t, s, x, a, b
    <3>5. Within(a, b)
      BY <3>4, WithinAppend
    <3> QED
      BY <2>1, <3>5 DEF PlainKept, a, b
  <2>6. CASE m \notin PlainMessages
    <3>1. Sent(K(u)) = t
      BY <2>2, <2>6
    <3>2. Within(t, P(j) \o q)
      <4> HIDE DEF P, j, q, t
      <4> QED
        BY <2>3, <2>4, WithinConcat
    <3>3. PlainKept(u)
      BY <2>1, <3>1, <3>2 DEF PlainKept
    <3> QED
      BY <2>1, <3>3
  <2> QED
    BY <2>5, <2>6
<1>3. Seq(Message) \subseteq S
  <2>1. z \in S /\ \A c \in Seq(Message), m \in Message : c \in S => Append(c, m) \in S
    BY <1>1, <1>2
  <2> HIDE DEF S
  <2> QED
    BY <2>1, SeqInductionSet DEF z
<1> QED
  BY <1>3

\* Nobody is shown as the sender of another's text.
LEMMA SendersAreKept ==
    ASSUME NEW chat \in Seq(Message), AllSealed(chat)
    PROVE  SendersKept(chat)
<1> DEFINE S == {c \in Seq(Message) : AllSealed(c) => SendersKept(c)}
           z == <<>>
           P(s) == Parsed(AsMessage, 3, s)
           D == Images(SenderOf, Shapes) \cup Images(FromOf, Message)
<1>0. \A s \in Strings : P(s) \in Seq(Shapes)
  <2>1. \A s \in Strings : P(s) \in Seq(Images(AsMessage, Seq(Strings)))
    BY ParsedTyped
  <2>2. Images(AsMessage, Seq(Strings)) \subseteq Shapes
    BY DEF Shapes
  <2> HIDE DEF P
  <2> QED
    BY <2>1, <2>2, SeqMonotonic
<1>4. /\ \A s \in Seq(Shapes) : Senders(s) \in Seq(D)
      /\ \A c \in Seq(Message) : Froms(c) \in Seq(D)
  <2>1. \A s \in Seq(Shapes) : Senders(s) \in Seq(Images(SenderOf, Shapes))
    BY SendersMapped, MappedTyped
  <2>2. \A c \in Seq(Message) : Froms(c) \in Seq(Images(FromOf, Message))
    BY SendersMapped, MappedTyped
  <2>3. Images(SenderOf, Shapes) \subseteq D /\ Images(FromOf, Message) \subseteq D
    OBVIOUS
  <2> HIDE DEF D
  <2> QED
    BY <2>1, <2>2, <2>3, SeqMonotonic
<1>1. z \in S
  <2>1. z \in Seq(Message) /\ Entries(z) = z /\ Joined(z) = z /\ P(z) = z
    BY EmptySeq, ChatEmpty, JoinedLaws, ParsedEmpty
  <2>2. Senders(z) = z
    BY EmptySeq, SendersMapped, MappedOne
  <2> HIDE DEF z
  <2>3. SendersKept(z)
    BY <2>1, <2>2, WithinEmpty DEF SendersKept, z
  <2> QED
    BY <2>1, <2>3
<1>2. ASSUME NEW c \in Seq(Message), NEW m \in Message, c \in S, NEW u, u = Append(c, m) PROVE u \in S
  <2> DEFINE j == Joined(Entries(c))
             v == Joined(Entries(u))
             q == P(MessageBody(m))
             s == P(j)
             t == Senders(s)
             g == Froms(c)
             f == m.from
  <2>1. u \in Seq(Message) /\ j \in Strings /\ P(v) = s \o q
    BY <1>2, ChatParsed
  <2> SUFFICES ASSUME AllSealed(u) PROVE SendersKept(u)
    BY <2>1
  <2>2. AllSealed(c) /\ Sealed(m.text)
    BY <1>2, AppendedAll
  <2>3. s \in Seq(Shapes) /\ q \in Seq(Shapes)
    BY <1>0, <2>1, MessageTyped
  <2>4. Within(t, g) /\ t \in Seq(D) /\ g \in Seq(D)
    BY <1>2, <1>4, <2>2, <2>3 DEF SendersKept
  <2>5. Froms(u) = Append(g, f) /\ f \in D
    <3>1. Mapped(FromOf, Append(c, m)) = Append(Mapped(FromOf, c), FromOf[m])
      BY MappedAppend
    <3>2. FromOf[m] = f
      BY DEF FromOf
    <3>3. f \in D
      BY <3>2 DEF Images
    <3>4. Froms(u) = Mapped(FromOf, u) /\ Froms(c) = Mapped(FromOf, c)
      BY <2>1, SendersMapped
    <3> QED
      BY <1>2, <3>1, <3>2, <3>3, <3>4
  <2>6. q = <<>> \/ \E x : q = <<x>> /\ x.sender = f
    BY <2>2, SealedParsed
  <2>7. CASE q = <<>>
    <3>1. P(v) = s
      <4> HIDE DEF s, P, v, q
      <4> QED
        BY <2>1, <2>3, <2>7, ConcatEmptySeq
    <3>2. Within(t, Append(g, f))
      <4>1. <<f>> \in Seq(D) /\ Append(g, f) = g \o <<f>>
        <5> HIDE DEF g, f, D
        <5> QED
          BY <2>4, <2>5, AppendIsConcat
      <4> DEFINE w == <<f>>
      <4>2. w \in Seq(D) /\ t \in Seq(D) /\ g \in Seq(D) /\ Within(t, g)
        BY <2>4, <4>1
      <4> HIDE DEF w, t, g, D
      <4>3. Within(t, g \o w)
        BY <4>2, WithinConcat
      <4> QED
        BY <4>1, <4>3 DEF w
    <3> QED
      BY <2>5, <3>1, <3>2 DEF SendersKept
  <2>8. CASE \E x : q = <<x>> /\ x.sender = f
    <3>1. PICK x : q = <<x>> /\ x.sender = f
      BY <2>8
    <3>2. x \in Shapes
      <4>1. Len(<<x>>) = 1 /\ <<x>>[1] = x
        OBVIOUS
      <4> DEFINE w == <<x>>
      <4>2. w \in Seq(Shapes) /\ Len(w) = 1 /\ w[1] = x
        BY <2>3, <3>1, <4>1
      <4> HIDE DEF w
      <4>3. \A i \in 1..Len(w) : w[i] \in Shapes
        BY <4>2, ElementOfSeq
      <4> QED
        BY <4>2, <4>3
    <3>3. P(v) = Append(s, x)
      <4> HIDE DEF s, P, v, q
      <4> QED
        BY <2>1, <2>3, <3>1, <3>2, AppendIsConcat
    <3>4. Senders(P(v)) = Append(t, f)
      <4>1. Append(s, x) \in Seq(Shapes)
        <5> HIDE DEF s
        <5> QED
          BY <2>3, <3>2, AppendProperties
      <4>2. Senders(s) = Mapped(SenderOf, s) /\ Senders(Append(s, x)) = Mapped(SenderOf, Append(s, x))
        <5> HIDE DEF s
        <5> QED
          BY <2>3, <4>1, SendersMapped
      <4>3. Mapped(SenderOf, Append(s, x)) = Append(Mapped(SenderOf, s), SenderOf[x])
        <5> HIDE DEF s
        <5> QED
          BY <2>3, <3>2, MappedAppend
      <4>4. SenderOf[x] = f
        BY <3>1, <3>2 DEF SenderOf
      <4> QED
        BY <3>3, <4>2, <4>3, <4>4
    <3> DEFINE a == Senders(P(v))
               b == Froms(u)
    <3>5. t \in Seq(D) /\ g \in Seq(D) /\ f \in D /\ Within(t, g) /\ a = Append(t, f) /\ b = Append(g, f)
      BY <2>4, <2>5, <3>4
    <3> HIDE DEF t, g, f, a, b, D
    <3>6. Within(a, b)
      BY <3>5, WithinAppend
    <3> QED
      BY <3>6 DEF SendersKept, a, b
  <2> QED
    BY <2>6, <2>7, <2>8
<1>3. Seq(Message) \subseteq S
  <2>1. z \in S /\ \A c \in Seq(Message), m \in Message : c \in S => Append(c, m) \in S
    BY <1>1, <1>2
  <2> HIDE DEF S
  <2> QED
    BY <2>1, SeqInductionSet DEF z
<1> QED
  BY <1>3

-----------------------------------------------------------------------------
(***************************************************************************)
(* The list of the rooms                                                   *)
(***************************************************************************)
RoomBody(r) == <<r.id, ",">> \o r.name
RoomShape(r) == [id |-> r.id, name |-> r.name]
RoomEntryOf == [r \in Room |-> RoomEntry(r)]

\* An entry of a room is its body and a ";".
LEMMA RoomTyped ==
    ASSUME NEW r \in Room
    PROVE  /\ r.name \in Strings /\ r.name # <<>>
           /\ r.id \in Chars /\ r.id \notin {",", ";"} /\ Id(<<r.id>>) = r.id
           /\ RoomBody(r) \in Strings
           /\ RoomEntry(r) = Append(RoomBody(r), ";")
           /\ RoomEntry(r) \in Lines
<1> DEFINE f == r.id
           t == r.name
           a == <<f, ",">>
           c == ";"
           e == <<c>>
           b == RoomBody(r)
<1>1. f \in Rooms /\ t \in Texts
  BY DEF Room
<1>2. t \in Strings /\ t # <<>>
  BY <1>1, HistoryAssumption DEF Strings
<1>3. f \in Chars /\ f \notin {",", ";"} /\ Id(<<f>>) = f
  BY <1>1, IdIsRead
<1>4. b = a \o t
  BY DEF RoomBody
<1>5. b \in Strings
  <2> HIDE DEF b, f, t
  <2> QED
    BY <1>2, <1>3, <1>4, BodyTokens
<1>6. RoomEntry(r) = b \o e
  BY DEF RoomEntry, RoomBody
<1>7. c \in Chars
  BY CharsHaveSeparators
<1>8. Append(b, c) = b \o e
  <2>1. b \in Seq(Chars)
    BY <1>5 DEF Strings
  <2> HIDE DEF b, c
  <2> QED
    BY <1>7, <2>1, AppendIsConcat
<1> HIDE DEF b
<1>9. RoomEntry(r) \in Lines
  BY <1>5, <1>6, <1>8 DEF Lines
<1> QED
  BY <1>2, <1>3, <1>5, <1>6, <1>8, <1>9 DEF b

\* An entry of a plain name is read as its room.
LEMMA RoomParsed ==
    ASSUME NEW r \in Room, Plain(r.name)
    PROVE  Parsed(AsRoom, 2, RoomBody(r)) = <<RoomShape(r)>>
<1> DEFINE f == <<r.id>>
           t == r.name
           b == RoomBody(r)
           w == Tokens(b, ",")
<1>1. t \in Strings /\ t # <<>> /\ f \in Strings /\ Id(f) = r.id
  BY RoomTyped, OneChar DEF Strings
<1>2. b \in Strings /\ w = <<f>> \o Tokens(t, ",") /\ Sealed(b)
  <2>1. Sealed(t)
    BY <1>1, SealedConcat
  <2> DEFINE i == r.id
  <2>2. b = <<i, ",">> \o t
    BY DEF RoomBody
  <2>3. i \in Chars /\ i \notin {",", ";"}
    BY RoomTyped
  <2> HIDE DEF b, i, t
  <2>4. b \in Strings /\ Tokens(b, ",") = <<<<i>>>> \o Tokens(t, ",") /\ (Sealed(t) => Sealed(b))
    BY <1>1, <2>2, <2>3, BodyTokens
  <2> QED
    BY <2>1, <2>4 DEF i
<1>4. Tokens(t, ",") = <<t>>
  BY <1>1, TokensOne DEF Plain, Strings
<1> HIDE DEF f, t, b
<1>5. w = <<f>> \o <<t>>
  BY <1>2, <1>4
<1>6. w \in Seq(Strings) /\ Len(w) = 2 /\ w[1] = f /\ w[2] = t
  <2>1. /\ <<f>> \in Seq(Strings) /\ <<t>> \in Seq(Strings)
        /\ Len(<<f>>) = 1 /\ Len(<<t>>) = 1
        /\ <<f>>[1] = f /\ <<t>>[1] = t
    BY <1>1
  <2> DEFINE x == <<f>>
             y == <<t>>
             v == x \o y
  <2> HIDE DEF x, y
  <2>2. v \in Seq(Strings) /\ Len(v) = 2 /\ v[1] = f /\ v[2] = t
    BY <2>1, ConcatProperties DEF x, y
  <2> QED
    BY <1>5, <2>2 DEF v, x, y
<1> HIDE DEF w
<1>9. EntryParsed(AsRoom, 2, b, w)
  <2>1. w = Tokens(b, ",") /\ \A i \in DOMAIN b : b[i] # ";"
    BY <1>2 DEF w, Sealed
  <2> DEFINE n == 2
  <2>2. n \in Nat /\ n >= 1
    OBVIOUS
  <2> HIDE DEF n
  <2>3. EntryParsed(AsRoom, n, b, w)
    BY <1>2, <2>1, <2>2, ParsedOne
  <2> QED
    BY <2>3 DEF n
<1>7. Parsed(AsRoom, 2, b) = IF Len(w) >= 2 THEN <<AsRoom[w]>> ELSE <<>>
  BY <1>9 DEF EntryParsed
<1>8. AsRoom[w] = RoomShape(r)
  BY <1>1, <1>6 DEF AsRoom, RoomShape, f, t
<1> QED
  BY <1>6, <1>7, <1>8 DEF b

\* The entries of the rooms are lines.
LEMMA RoomsTyped ==
    /\ RoomEntries(<<>>) = <<>>
    /\ \A rooms \in Seq(Room) :
          RoomEntries(rooms) \in Seq(Lines) /\ RoomEntries(rooms) = Mapped(RoomEntryOf, rooms)
<1>1. ASSUME NEW s \in Seq(Room)
      PROVE  RoomEntries(s) \in Seq(Lines) /\ RoomEntries(s) = Mapped(RoomEntryOf, s)
  <2>1. DOMAIN s = 1..Len(s) /\ \A i \in 1..Len(s) : s[i] \in Room
    BY LenProperties, ElementOfSeq
  <2>2. \A i \in DOMAIN s : RoomEntryOf[s[i]] = RoomEntry(s[i])
    BY <2>1 DEF RoomEntryOf
  <2>3. RoomEntries(s) = Mapped(RoomEntryOf, s)
    BY <2>2 DEF RoomEntries, Mapped
  <2>4. Mapped(RoomEntryOf, s) \in Seq(Images(RoomEntryOf, Room))
    BY MappedTyped
  <2>5. Images(RoomEntryOf, Room) \subseteq Lines
    <3>1. \A r \in Room : RoomEntryOf[r] \in Lines
      BY RoomTyped DEF RoomEntryOf
    <3> QED
      BY <3>1 DEF Images
  <2> QED
    BY <2>3, <2>4, <2>5, SeqMonotonic
<1>2. RoomEntries(<<>>) = <<>>
  BY <1>1, EmptySeq, MappedOne
<1> QED
  BY <1>1, <1>2

RoomsKept(rooms) ==
    LET shown == Parsed(AsRoom, 2, Joined(RoomEntries(rooms)))
    IN  \A i \in DOMAIN rooms : Plain(rooms[i].name) =>
           \E j \in DOMAIN shown : shown[j] = RoomShape(rooms[i])

\* Every room with a plain name is listed.
LEMMA RoomsAreKept ==
    ASSUME NEW rooms \in Seq(Room)
    PROVE  RoomsKept(rooms)
<1> DEFINE S == {c \in Seq(Room) : RoomsKept(c)}
           z == <<>>
           P(s) == Parsed(AsRoom, 2, s)
           X == Images(AsRoom, Seq(Strings))
<1>0. \A s \in Strings : P(s) \in Seq(X)
  BY ParsedTyped
<1>1. z \in S
  <2>1. z \in Seq(Room) /\ DOMAIN z = {}
    BY EmptySeq
  <2> HIDE DEF z
  <2> QED
    BY <2>1 DEF RoomsKept
<1>2. ASSUME NEW c \in Seq(Room), NEW r \in Room, c \in S, NEW u, u = Append(c, r) PROVE u \in S
  <2> DEFINE j == Joined(RoomEntries(c))
             v == Joined(RoomEntries(u))
             l == RoomEntry(r)
             b == RoomBody(r)
             s == P(j)
             q == P(b)
             y == P(v)
             n == Len(c)
             k == Len(s)
             d == Len(q)
  <2>1. u \in Seq(Room) /\ Len(u) = n + 1 /\ (\A i \in 1..n : u[i] = c[i]) /\ u[n + 1] = r
    BY <1>2, AppendProperties
  <2>2. RoomEntries(u) = Append(RoomEntries(c), l)
    <3>1. Mapped(RoomEntryOf, Append(c, r)) = Append(Mapped(RoomEntryOf, c), RoomEntryOf[r])
      BY MappedAppend
    <3>2. RoomEntryOf[r] = l
      BY DEF RoomEntryOf
    <3>3. RoomEntries(u) = Mapped(RoomEntryOf, u) /\ RoomEntries(c) = Mapped(RoomEntryOf, c)
      BY <2>1, RoomsTyped
    <3> QED
      BY <1>2, <3>1, <3>2, <3>3
  <2>3. /\ RoomEntries(c) \in Seq(Lines) /\ l \in Lines /\ l \in Strings /\ b \in Strings
        /\ j \in Strings /\ v \in Strings
    <3>1. Lines \subseteq Strings
      BY ParsedLine DEF Lines
    <3> QED
      BY <2>1, <3>1, RoomsTyped, RoomTyped, JoinedClosed
  <2>4. v = j \o l
    <3>1. RoomEntries(c) \in Seq(Seq(Chars)) /\ l \in Seq(Chars)
      <4>1. Lines \subseteq Strings
        BY ParsedLine DEF Lines
      <4> QED
        BY <2>3, <4>1, SeqMonotonic DEF Strings
    <3> HIDE DEF l
    <3> QED
      BY <2>2, <3>1, JoinedLaws
  <2>5. P(j \o l) = P(j) \o P(l)
    BY <2>3, ParsedJoined
  <2>6. P(l) = q
    <3>1. l = Append(b, ";")
      BY RoomTyped
    <3> HIDE DEF l, b
    <3>2. P(Append(b, ";")) = P(b)
      BY <2>3, ParsedLine
    <3> QED
      BY <3>1, <3>2
  <2>7. y = s \o q
    BY <2>4, <2>5, <2>6
  <2>8. s \in Seq(X) /\ q \in Seq(X) /\ y \in Seq(X)
    BY <1>0, <2>3
  <2>9. k \in Nat /\ d \in Nat /\ n \in Nat /\ DOMAIN c = 1..n /\ DOMAIN s = 1..k
    BY <2>8, LenProperties
  <2>10. DOMAIN u = 1..(n + 1)
    BY <2>1, LenProperties
  <2>11. DOMAIN y = 1..(k + d) /\ \A i \in 1..(k + d) : y[i] = IF i <= k THEN s[i] ELSE q[i - k]
    <3> HIDE DEF s, q, y, X
    <3> QED
      BY <2>7, <2>8, ConcatProperties, LenProperties
  <2>12. ASSUME NEW i \in DOMAIN u, Plain(u[i].name)
         PROVE  \E x \in DOMAIN y : y[x] = RoomShape(u[i])
    <3>0. i \in 1..n \/ i = n + 1
      <4> HIDE DEF n
      <4> QED
        BY <2>9, <2>10
    <3>1. CASE i \in 1..n
      <4>1. i \in DOMAIN c /\ Plain(c[i].name) /\ u[i] = c[i]
        BY <2>1, <2>9, <2>12, <3>1
      <4>2. RoomsKept(c)
        BY <1>2
      <4>3. PICK x \in DOMAIN s : s[x] = RoomShape(c[i])
        BY <4>1, <4>2 DEF RoomsKept
      <4> HIDE DEF s, y, k, d
      <4>4. x \in 1..(k + d) /\ x <= k
        BY <2>9
      <4>5. x \in DOMAIN y /\ y[x] = s[x]
        BY <2>11, <4>4
      <4> QED
        BY <4>1, <4>3, <4>5
    <3>2. CASE i = n + 1
      <4>1. u[i] = r
        BY <2>1, <3>2
      <4>2. q = <<RoomShape(r)>>
        BY <2>12, <4>1, RoomParsed
      <4>3. d = 1 /\ q[1] = RoomShape(r)
        BY <4>2
      <4> HIDE DEF s, y, q, k, d
      <4>4. k + 1 \in 1..(k + d) /\ ~(k + 1 <= k) /\ (k + 1) - k = 1
        BY <2>9, <4>3
      <4>5. k + 1 \in DOMAIN y /\ y[k + 1] = q[1]
        BY <2>11, <4>4
      <4> QED
        BY <4>1, <4>3, <4>5
    <3> QED
      BY <3>0, <3>1, <3>2
  <2>13. RoomsKept(u)
    BY <2>12 DEF RoomsKept
  <2> QED
    BY <2>1, <2>13
<1>3. Seq(Room) \subseteq S
  <2>1. z \in S /\ \A c \in Seq(Room), r \in Room : c \in S => Append(c, r) \in S
    BY <1>1, <1>2
  <2> HIDE DEF S
  <2> QED
    BY <2>1, SeqInductionSet DEF z
<1> QED
  BY <1>3

-----------------------------------------------------------------------------
(***************************************************************************)
(* Every state                                                             *)
(***************************************************************************)
\* What is stored are messages and rooms.
HistoryTypeOK == messages \in Seq(Message) /\ created \in Seq(Room)

\* Messages and rooms are all that is stored.
LEMMA HistoryTyped == HistorySpec => []HistoryTypeOK
<1>1. HistoryInit => HistoryTypeOK
  BY EmptySeq DEF HistoryInit, HistoryTypeOK
<1>2. HistoryTypeOK /\ [HistoryNext]_historyVars => HistoryTypeOK'
  <2> SUFFICES ASSUME HistoryTypeOK, [HistoryNext]_historyVars PROVE HistoryTypeOK'
    OBVIOUS
  <2>0. messages \in Seq(Message) /\ created \in Seq(Room)
    BY DEF HistoryTypeOK
  <2>1. ASSUME NEW text \in Texts, NEW from \in Users, NEW to \in Users \cup Rooms, Send(from, to, text)
        PROVE  HistoryTypeOK'
    <3> DEFINE m == [from |-> from, to |-> to, text |-> text]
    <3>1. m \in Message
      BY DEF Message
    <3>2. messages' = Append(messages, m) /\ created' = created
      BY <2>1 DEF Send
    <3> HIDE DEF m
    <3>3. Append(messages, m) \in Seq(Message)
      BY <2>0, <3>1, AppendProperties
    <3> QED
      BY <2>0, <3>2, <3>3 DEF HistoryTypeOK
  <2>2. ASSUME NEW name \in Texts, NEW id \in Rooms, CreateRoom(id, name)
        PROVE  HistoryTypeOK'
    <3> DEFINE r == [id |-> id, name |-> name]
    <3>1. r \in Room
      BY DEF Room
    <3>2. created' = Append(created, r) /\ messages' = messages
      BY <2>2 DEF CreateRoom
    <3> HIDE DEF r
    <3>3. Append(created, r) \in Seq(Room)
      BY <2>0, <3>1, AppendProperties
    <3> QED
      BY <2>0, <3>2, <3>3 DEF HistoryTypeOK
  <2>3. CASE UNCHANGED historyVars
    BY <2>0, <2>3 DEF historyVars, HistoryTypeOK
  <2> QED
    BY <2>1, <2>2, <2>3 DEF HistoryNext
<1> QED
  BY <1>1, <1>2, PTL DEF HistorySpec

\* A conversation is a sequence of messages.
LEMMA ConversationTyped ==
    ASSUME HistoryTypeOK, NEW me, NEW with
    PROVE  Conversation(me, with) \in Seq(Message)
<1>1. messages \in Seq(Message)
  BY DEF HistoryTypeOK
<1> QED
  BY <1>1, SelectedLaws DEF Conversation

\* The three properties follow in every state: plain texts in order,
LEMMA PlainShown == HistoryTypeOK => PlainShownFromTheOldest
<1> SUFFICES ASSUME HistoryTypeOK, NEW c \in Chats,
                    NEW chat, chat = Conversation(c[1], c[2]),
                    \A i \in DOMAIN chat : Plain(chat[i].text)
             PROVE  /\ IsPrefix(Shown(c[1], c[2]), Sent(chat))
                    /\ Fits(Entries(chat)) => Shown(c[1], c[2]) = Sent(chat)
  BY DEF PlainShownFromTheOldest
<1> DEFINE shown == Shown(c[1], c[2])
<1>1. chat \in Seq(Message)
  BY ConversationTyped
<1>2. shown = Parse(Received(Fill(Entries(chat))))
  BY DEF Shown, HistoryReply
<1>3. AllPlain(chat)
  BY DEF AllPlain
<1> HIDE DEF shown
<1>4. /\ Fits(Entries(chat)) => shown = Parsed(AsMessage, 3, Joined(Entries(chat)))
      /\ IsPrefix(shown, Sent(chat))
  BY <1>1, <1>2, <1>3, ChatShown
<1>5. WholeShown(chat)
  BY <1>1, <1>3, PlainChat
<1> QED
  BY <1>4, <1>5 DEF WholeShown, shown

\* a text with separators by itself,
LEMMA SeparatorsSpoil == HistoryTypeOK => SeparatorsSpoilTheirOwn
<1> SUFFICES ASSUME HistoryTypeOK, NEW c \in Chats,
                    NEW chat, chat = Conversation(c[1], c[2]),
                    NEW shown, shown = Shown(c[1], c[2]),
                    Fits(Entries(chat))
             PROVE  /\ Within(Sent(Selected(chat, PlainMessages)), shown)
                    /\ (\A i \in DOMAIN chat : Sealed(chat[i].text)) =>
                          Within([i \in DOMAIN shown |-> shown[i].sender],
                                 [i \in DOMAIN chat |-> chat[i].from])
  BY DEF SeparatorsSpoilTheirOwn
<1>1. chat \in Seq(Message)
  BY ConversationTyped
<1>2. shown = Parse(Received(Fill(Entries(chat))))
  BY DEF Shown, HistoryReply
<1>3. shown = Parsed(AsMessage, 3, Joined(Entries(chat)))
  BY <1>1, <1>2, ChatShown
<1>4. Within(Sent(Selected(chat, PlainMessages)), shown)
  BY <1>1, <1>3, PlainIsKept DEF PlainKept
<1>5. ASSUME \A i \in DOMAIN chat : Sealed(chat[i].text)
      PROVE  Within([i \in DOMAIN shown |-> shown[i].sender], [i \in DOMAIN chat |-> chat[i].from])
  <2>1. AllSealed(chat)
    BY <1>5 DEF AllSealed
  <2>2. SendersKept(chat)
    BY <1>1, <2>1, SendersAreKept
  <2>3. Within(Senders(shown), Froms(chat))
    BY <1>3, <2>2 DEF SendersKept
  <2> QED
    BY <2>3 DEF Senders, Froms
<1> QED
  BY <1>4, <1>5

\* and the list of the rooms.
LEMMA RoomsListed == HistoryTypeOK => PlainRoomsListed
<1> SUFFICES ASSUME HistoryTypeOK, Fits(RoomEntries(created)),
                    NEW i \in DOMAIN created, Plain(created[i].name)
             PROVE  \E j \in DOMAIN RoomsShown :
                       RoomsShown[j] = [id |-> created[i].id, name |-> created[i].name]
  BY DEF PlainRoomsListed
<1> DEFINE es == RoomEntries(created)
           j == Joined(es)
           r == Received(RoomsReply)
<1>1. created \in Seq(Room)
  BY DEF HistoryTypeOK
<1>2. es \in Seq(Strings) /\ j \in Strings
  <2>1. es \in Seq(Lines) /\ j \in Strings
    BY <1>1, RoomsTyped, JoinedClosed
  <2>2. Lines \subseteq Strings
    BY ParsedLine DEF Lines
  <2> QED
    BY <2>1, <2>2, SeqMonotonic
<1>3. Len(j) <= SlotMax /\ Len(j) < ReplyMax
  BY DEF Fits
<1>4. RoomsReply = j
  <2>1. FillAll(es) = Joined(es)
    <3> HIDE DEF es
    <3> QED
      BY <1>2, <1>3, FillAllIsWhole
  <2> QED
    BY <2>1 DEF RoomsReply
<1>5. r = j
  <2> HIDE DEF j
  <2> QED
    BY <1>2, <1>3, <1>4, ReceivedBegins
<1>6. RoomsShown = Parsed(AsRoom, 2, j)
  <2>1. RoomsShown = ParseRooms(r)
    BY DEF RoomsShown
  <2> HIDE DEF j, r
  <2> QED
    BY <1>2, <1>5, <2>1, ParsersAreParsed
<1>7. RoomsKept(created)
  BY <1>1, RoomsAreKept
<1> QED
  BY <1>6, <1>7 DEF RoomsKept, RoomShape

\* Texts without separators are shown as they were sent, in the order they were sent,
\* from the first one on, and all of them if the chat fits: whatever the sizes of the
\* server's buffer and of the client's cut off of get_history's reply.
THEOREM PlainShownInOrder == HistorySpec => []PlainShownFromTheOldest
BY HistoryTyped, PlainShown, PTL

\* A text with "," or ";" in it takes no other text of the list away, and puts none
\* under another sender unless it has a ";" (parse_and_load_messages).
THEOREM SeparatorsStayInTheirText == HistorySpec => []SeparatorsSpoilTheirOwn
BY HistoryTyped, SeparatorsSpoil, PTL

\* The rooms with plain names are listed under their ids, whatever the others are
\* called (MessageService_get_my_groups).
THEOREM PlainRoomsAlwaysListed == HistorySpec => []PlainRoomsListed
BY HistoryTyped, RoomsListed, PTL

=============================================================================
