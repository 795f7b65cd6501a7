------------------------ MODULE PeachCollectionProofs ------------------------
(***************************************************************************)
(* Proofs about concurrent inserts into a collection, for every number of  *)
(* threads and every length of the file.                                   *)
(*                                                                         *)
(* The properties of the file are not inductive by themselves: they need   *)
(* what is known of the inserts under way (Pending).  The highest key of a *)
(* file exists because the keys are dense: 1, 2, ..., n for some n.        *)
(***************************************************************************)
EXTENDS PeachCollection, TLAPS

Dense == \E n \in Nat : Keys(file) = 1..n

\* What a thread knows of the file while its insert is under way.
PendingOf(t) ==
    /\ next[t] \in Nat \ {0}
    /\ next[t] = 1 \/ next[t] - 1 \in Keys(file)
    /\ seen[t] <= Len(file)
    /\ \A i \in DOMAIN file : i <= seen[t] => file[i].key < next[t]
    /\ \A i \in DOMAIN file : file[i].by = t => i <= seen[t]

Pending == \A t \in Threads : pc[t] # "idle" => PendingOf(t)

\* What it knows once its scan has found no duplicate.
Scanned ==
    \A t \in Threads : pc[t] = "append" =>
        /\ checked[t] <= Len(file)
        /\ \A i \in DOMAIN file : i <= checked[t] => file[i].key # next[t]

IInv == /\ TypeOK
        /\ Dense
        /\ Pending
        /\ Scanned
        /\ IdsFollowRealTime
        /\ DuplicateNeedsOverlap
        /\ WriterIdsIncrease

-----------------------------------------------------------------------------
(***************************************************************************)
(* Lemmas about the operators                                              *)
(***************************************************************************)

\* The highest key of a file whose keys are 1, ..., n is n.
LEMMA HighestOfDense ==
    ASSUME NEW f, NEW n \in Nat, Keys(f) = 1..n
    PROVE  HighestKey(f) = n
<1> DEFINE IsHighest(h) == h \in {0} \cup Keys(f) /\ \A k \in Keys(f) : k <= h
<1>1. n \in {0} \cup 1..n /\ \A k \in 1..n : k <= n
  OBVIOUS
<1>2. \A h : h \in {0} \cup 1..n /\ (\A k \in 1..n : k <= h) => h = n
  OBVIOUS
<1>3. HighestKey(f) = CHOOSE h \in {0} \cup 1..n : \A k \in 1..n : k <= h
  BY DEF HighestKey
<1> QED
  BY <1>1, <1>2, <1>3

\* A new record is the last one and leaves the others where they were.
LEMMA WithRecordFacts ==
    ASSUME NEW f \in Seq(Record), NEW r \in Record
    PROVE  /\ WithRecord(f, r) \in Seq(Record)
           /\ Len(WithRecord(f, r)) = Len(f) + 1
           /\ DOMAIN WithRecord(f, r) = 1..Len(f) + 1
           /\ \A i \in 1..Len(f) : WithRecord(f, r)[i] = f[i]
           /\ WithRecord(f, r)[Len(f) + 1] = r
           /\ Keys(WithRecord(f, r)) = Keys(f) \cup {r.key}
<1>1. /\ WithRecord(f, r) \in Seq(Record)
      /\ Len(WithRecord(f, r)) = Len(f) + 1
      /\ DOMAIN WithRecord(f, r) = 1..Len(f) + 1
      /\ \A i \in 1..Len(f) : WithRecord(f, r)[i] = f[i]
      /\ WithRecord(f, r)[Len(f) + 1] = r
  BY DEF WithRecord
<1>2. DOMAIN f = 1..Len(f) /\ Len(f) \in Nat
  OBVIOUS
<1>3. Keys(WithRecord(f, r)) = {WithRecord(f, r)[i].key : i \in 1..Len(f) + 1}
  BY <1>1 DEF Keys
<1>4. 1..Len(f) + 1 = (1..Len(f)) \cup {Len(f) + 1}
  BY <1>2
<1> QED
  BY <1>1, <1>2, <1>3, <1>4 DEF Keys

-----------------------------------------------------------------------------
(***************************************************************************)
(* The inductive invariant                                                 *)
(***************************************************************************)

\* The invariant holds at the start, ...
LEMMA InitIInv == Init => IInv
<1> SUFFICES ASSUME Init PROVE IInv
  OBVIOUS
<1>1. TypeOK
  BY DEF Init, TypeOK
<1>2. Keys(file) = 1..0
  BY DEF Init, Keys
<1>3. Dense
  BY <1>2 DEF Dense
<1>4. IdsFollowRealTime /\ DuplicateNeedsOverlap /\ WriterIdsIncrease
  BY DEF Init, IdsFollowRealTime, DuplicateNeedsOverlap, WriterIdsIncrease
<1>5. Pending /\ Scanned
  BY DEF Init, Pending, Scanned
<1> QED
  BY <1>1, <1>3, <1>4, <1>5 DEF IInv

\* Asking for the highest key changes what one thread knows, not the file.
LEMMA GetNextKeyIInv ==
    ASSUME IInv, NEW t \in Threads, GetNextKey(t)
    PROVE  IInv'
<1> USE DEF GetNextKey
<1>1. TypeOK /\ file' = file /\ Len(file) \in Nat /\ DOMAIN file = 1..Len(file)
  BY DEF IInv, TypeOK
<1>2. PICK n \in Nat : Keys(file) = 1..n
  BY DEF IInv, Dense
<1>3. HighestKey(file) = n
  BY <1>2, HighestOfDense
<1>4. TypeOK'
  BY <1>1, <1>3 DEF TypeOK
<1>5. Keys(file') = Keys(file)
  BY <1>1
<1>6. Dense'
  BY <1>2, <1>5 DEF Dense
<1>7. \A i \in DOMAIN file : file[i].key \in 1..n
  BY <1>2 DEF Keys
<1>8. PendingOf(t)'
  <2>1. next'[t] = n + 1 /\ seen'[t] = Len(file)
    BY <1>1, <1>3 DEF TypeOK
  <2>2. n + 1 = 1 \/ n \in Keys(file)
    BY <1>2
  <2> QED
    BY <1>1, <1>5, <1>7, <2>1, <2>2 DEF PendingOf
<1>9. ASSUME NEW u \in Threads, u # t, pc'[u] # "idle"
      PROVE  PendingOf(u)'
  <2>1. pc[u] = pc'[u] /\ next'[u] = next[u] /\ seen'[u] = seen[u]
    BY <1>1, <1>9 DEF TypeOK
  <2>2. PendingOf(u)
    BY <1>9, <2>1 DEF IInv, Pending
  <2> QED
    BY <1>1, <1>5, <2>1, <2>2 DEF PendingOf
<1>10. Pending'
  BY <1>8, <1>9 DEF Pending
<1>11. Scanned'
  BY <1>1 DEF IInv, Scanned, TypeOK
<1>12. (IdsFollowRealTime /\ DuplicateNeedsOverlap /\ WriterIdsIncrease)'
  BY <1>1 DEF IInv, IdsFollowRealTime, DuplicateNeedsOverlap, WriterIdsIncrease
<1> QED
  BY <1>4, <1>6, <1>10, <1>11, <1>12 DEF IInv

\* A scan that finds the key ends the insert.
LEMMA FindDuplicateIInv ==
    ASSUME IInv, NEW t \in Threads, FindDuplicate(t)
    PROVE  IInv'
<1> USE DEF FindDuplicate
<1>1. TypeOK /\ UNCHANGED <<file, next, seen, checked>>
  BY DEF IInv
<1>2. TypeOK'
  BY <1>1 DEF TypeOK
<1>3. \A u \in Threads : pc'[u] # "idle" => pc'[u] = pc[u]
  BY <1>1 DEF TypeOK
<1>4. Dense' /\ Pending' /\ Scanned'
  BY <1>1, <1>3 DEF IInv, Dense, Pending, PendingOf, Scanned, Keys
<1>5. (IdsFollowRealTime /\ DuplicateNeedsOverlap /\ WriterIdsIncrease)'
  BY <1>1 DEF IInv, IdsFollowRealTime, DuplicateNeedsOverlap, WriterIdsIncrease
<1> QED
  BY <1>2, <1>4, <1>5 DEF IInv

\* A scan that does not find the key covers the whole file of that moment.
LEMMA FindNoDuplicateIInv ==
    ASSUME IInv, NEW t \in Threads, FindNoDuplicate(t)
    PROVE  IInv'
<1> USE DEF FindNoDuplicate
<1>1. TypeOK /\ UNCHANGED <<file, next, seen>> /\ Len(file) \in Nat
  BY DEF IInv, TypeOK
<1>2. TypeOK'
  BY <1>1 DEF TypeOK
<1>3. Dense' /\ Keys(file') = Keys(file)
  BY <1>1 DEF IInv, Dense, Keys
<1>4. Pending'
  <2>1. \A u \in Threads : pc'[u] # "idle" => pc[u] # "idle"
    BY <1>1 DEF TypeOK
  <2>2. \A u \in Threads : PendingOf(u) => PendingOf(u)'
    BY <1>1, <1>3 DEF PendingOf
  <2> QED
    BY <2>1, <2>2 DEF IInv, Pending
<1>5. Scanned'
  <2>1. \A i \in DOMAIN file : file[i].key # next[t]
    BY DEF Keys
  <2>2. pc'[t] = "append" /\ checked'[t] = Len(file)
    BY <1>1 DEF TypeOK
  <2>3. \A u \in Threads \ {t} : pc'[u] = pc[u] /\ checked'[u] = checked[u]
    BY <1>1 DEF TypeOK
  <2> QED
    BY <1>1, <2>1, <2>2, <2>3 DEF IInv, Scanned
<1>6. (IdsFollowRealTime /\ DuplicateNeedsOverlap /\ WriterIdsIncrease)'
  BY <1>1 DEF IInv, IdsFollowRealTime, DuplicateNeedsOverlap, WriterIdsIncrease
<1> QED
  BY <1>2, <1>3, <1>4, <1>5, <1>6 DEF IInv

\* The append adds one record, of the thread that makes it.
LEMMA AppendRecordIInv ==
    ASSUME IInv, NEW t \in Threads, AppendRecord(t)
    PROVE  IInv'
<1> DEFINE r == NewRecord(t)
<1> DEFINE m == Len(file)
<1> USE DEF AppendRecord
<1>1. /\ TypeOK /\ UNCHANGED <<next, seen, checked>>
      /\ m \in Nat /\ DOMAIN file = 1..m
      /\ PendingOf(t)
      /\ checked[t] <= m
      /\ \A i \in DOMAIN file : i <= checked[t] => file[i].key # next[t]
  BY DEF IInv, TypeOK, Pending, Scanned
<1>2. /\ r \in Record
      /\ r.key = next[t] /\ r.by = t /\ r.seen = seen[t] /\ r.checked = checked[t]
  BY <1>1 DEF TypeOK, PendingOf, NewRecord, Record
<1>a. file' = WithRecord(file, r)
  OBVIOUS
<1> HIDE DEF r
<1>3. /\ file' \in Seq(Record)
      /\ Len(file') = m + 1 /\ DOMAIN file' = 1..m + 1
      /\ \A i \in 1..m : file'[i] = file[i]
      /\ file'[m + 1] = r
      /\ Keys(file') = Keys(file) \cup {next[t]}
  <2>1. file \in Seq(Record)
    BY <1>1 DEF TypeOK
  <2>2. /\ WithRecord(file, r) \in Seq(Record)
        /\ Len(WithRecord(file, r)) = Len(file) + 1
        /\ DOMAIN WithRecord(file, r) = 1..Len(file) + 1
        /\ \A i \in 1..Len(file) : WithRecord(file, r)[i] = file[i]
        /\ WithRecord(file, r)[Len(file) + 1] = r
        /\ Keys(WithRecord(file, r)) = Keys(file) \cup {r.key}
    BY <1>2, <2>1, WithRecordFacts
  <2> QED
    BY <1>2, <1>a, <2>2
<1>4. TypeOK'
  BY <1>1, <1>3 DEF TypeOK
<1>5. Dense'
  <2>1. PICK n \in Nat : Keys(file) = 1..n
    BY DEF IInv, Dense
  <2>2. next[t] \in 1..n + 1
    BY <1>1, <2>1 DEF PendingOf
  <2>3. CASE next[t] = n + 1
    <3>1. Keys(file') = 1..n + 1
      BY <1>3, <2>1, <2>3
    <3> QED
      BY <3>1 DEF Dense
  <2>4. CASE next[t] \in 1..n
    <3>1. Keys(file') = 1..n
      BY <1>3, <2>1, <2>4
    <3> QED
      BY <3>1 DEF Dense
  <2> QED
    BY <2>2, <2>3, <2>4
<1>6. \A i \in 1..m + 1 : i \in 1..m \/ i = m + 1
  BY <1>1
<1>7. Pending'
  <2>1. SUFFICES ASSUME NEW u \in Threads, pc'[u] # "idle"
                 PROVE  PendingOf(u)'
    BY DEF Pending
  <2>2. u # t /\ PendingOf(u)
    BY <1>1, <2>1 DEF IInv, Pending, TypeOK
  <2>3. \A i \in 1..m + 1 : i <= seen[u] => i \in 1..m
    BY <1>1, <2>2 DEF PendingOf, TypeOK
  <2>4. \A i \in 1..m + 1 : file'[i].by = u => i \in 1..m
    BY <1>2, <1>3, <1>6, <2>2
  <2> QED
    BY <1>1, <1>3, <2>2, <2>3, <2>4 DEF PendingOf, TypeOK
<1>8. Scanned'
  <2>1. SUFFICES ASSUME NEW u \in Threads, pc'[u] = "append"
                 PROVE  /\ checked[u] <= m + 1
                        /\ \A i \in 1..m + 1 : i <= checked[u] => file'[i].key # next[u]
    BY <1>1, <1>3 DEF Scanned
  <2>2. /\ checked[u] <= m
        /\ \A i \in 1..m : i <= checked[u] => file[i].key # next[u]
    BY <1>1, <2>1 DEF IInv, Scanned, TypeOK
  <2> QED
    BY <1>1, <1>3, <2>2 DEF TypeOK
<1>9. IdsFollowRealTime'
  BY <1>1, <1>2, <1>3, <1>6 DEF IInv, IdsFollowRealTime, PendingOf
<1>10. DuplicateNeedsOverlap'
  <2>1. SUFFICES ASSUME NEW i \in 1..m, file[i].key = next[t]
                 PROVE  checked[t] < i
    BY <1>1, <1>2, <1>3, <1>6 DEF IInv, DuplicateNeedsOverlap
  <2> QED
    BY <1>1, <2>1 DEF TypeOK
<1>11. WriterIdsIncrease'
  BY <1>1, <1>2, <1>3, <1>6 DEF IInv, WriterIdsIncrease, PendingOf
<1> QED
  BY <1>4, <1>5, <1>7, <1>8, <1>9, <1>10, <1>11 DEF IInv

\* ... every step keeps it, ...
LEMMA NextIInv == IInv /\ [Next]_vars => IInv'
<1> SUFFICES ASSUME IInv, [Next]_vars PROVE IInv'
  OBVIOUS
<1>1. ASSUME NEW t \in Threads, Step(t) PROVE IInv'
  BY <1>1, GetNextKeyIInv, FindDuplicateIInv, FindNoDuplicateIInv, AppendRecordIInv
     DEF Step
<1>2. CASE UNCHANGED vars
  <2>1. UNCHANGED <<file, pc, next, seen, checked>>
    BY <1>2 DEF vars
  <2>2. TypeOK' /\ Dense'
    BY <2>1 DEF IInv, TypeOK, Dense, Keys
  <2>3. Pending' /\ Scanned'
    BY <2>1 DEF IInv, Pending, PendingOf, Scanned, Keys
  <2>4. (IdsFollowRealTime /\ DuplicateNeedsOverlap /\ WriterIdsIncrease)'
    BY <2>1 DEF IInv, IdsFollowRealTime, DuplicateNeedsOverlap, WriterIdsIncrease
  <2> QED
    BY <2>2, <2>3, <2>4 DEF IInv
<1> QED
  BY <1>1, <1>2 DEF Next

\* ... and so it holds in any execution.
LEMMA Inductive == Spec => []IInv
<1> QED
  BY InitIInv, NextIInv, PTL DEF Spec

-----------------------------------------------------------------------------
(***************************************************************************)
(* Theorems                                                                *)
(***************************************************************************)

\* Type correctness: the code never writes a record with key 0 or less, the
\* value its callers take for an error.
THEOREM TypeCorrect == Spec => []TypeOK
<1>1. IInv => TypeOK
  BY DEF IInv
<1> QED
  BY <1>1, Inductive, PTL

\* The keys of a collection are always 1, ..., HighestKey: inserts that fail or
\* collide in Peach_write_record leave no hole.
THEOREM DenseKeys == Spec => []KeysDense
<1>1. IInv => KeysDense
  BY HighestOfDense DEF IInv, Dense, KeysDense
<1> QED
  BY <1>1, Inductive, PTL

\* A message stored before another one asked for its id has the smaller id.
THEOREM RealTimeOrder == Spec => []IdsFollowRealTime
<1>1. IInv => IdsFollowRealTime
  BY DEF IInv
<1> QED
  BY <1>1, Inductive, PTL

\* Peach_write_record lets a duplicate key through only between its scan and
\* its append.
THEOREM DuplicateWindow == Spec => []DuplicateNeedsOverlap
<1>1. IInv => DuplicateNeedsOverlap
  BY DEF IInv
<1> QED
  BY <1>1, Inductive, PTL

\* One thread never writes a key twice, and its ids increase along the file.
THEOREM WriterOrder == Spec => []WriterIdsIncrease
<1>1. IInv => WriterIdsIncrease
  BY DEF IInv
<1> QED
  BY <1>1, Inductive, PTL

\* A failed insert is the loser of a conflict whose winner is in the file.
THEOREM FailureHasWinner == Spec => FailureNeedsConflict
<1> DEFINE Winner(t) == \E i \in DOMAIN file : /\ i > seen[t]
                                               /\ file[i].key = next[t]
                                               /\ file[i].by # t
<1> DEFINE FailsOnlyThen == \A t \in Threads :
                              pc[t] = "check" /\ pc'[t] = "idle" => Winner(t)
<1>1. ASSUME IInv, [Next]_vars PROVE FailsOnlyThen
  <2>1. SUFFICES ASSUME NEW t \in Threads, pc[t] = "check", pc'[t] = "idle"
                 PROVE  Winner(t)
    OBVIOUS
  <2>2. next[t] \in Keys(file)
    <3>1. PICK u \in Threads : Step(u)
      BY <1>1, <2>1 DEF Next, vars
    <3>2. u = t
      BY <1>1, <2>1, <3>1
         DEF IInv, TypeOK, Step, GetNextKey, FindDuplicate, FindNoDuplicate, AppendRecord
    <3>3. pc \in [Threads -> {"idle", "check", "append"}]
      BY <1>1 DEF IInv, TypeOK
    <3>4. ~GetNextKey(t) /\ ~FindNoDuplicate(t) /\ ~AppendRecord(t)
      BY <2>1, <3>3 DEF GetNextKey, FindNoDuplicate, AppendRecord
    <3> QED
      BY <3>1, <3>2, <3>4 DEF Step, FindDuplicate
  <2>3. PICK i \in DOMAIN file : file[i].key = next[t]
    BY <2>2 DEF Keys
  <2>4. /\ PendingOf(t) /\ seen[t] \in Nat /\ i \in Nat
        /\ file[i].key \in Nat /\ next[t] \in Nat
    <3>1. TypeOK /\ Pending /\ pc[t] # "idle"
      BY <1>1, <2>1 DEF IInv
    <3>2. PendingOf(t)
      BY <3>1 DEF Pending
    <3>3. file[i] \in Record /\ i \in Nat
      BY <3>1 DEF TypeOK
    <3> QED
      BY <3>1, <3>2, <3>3 DEF TypeOK, Record
  <2>5. ~(i <= seen[t])
    BY <2>3, <2>4 DEF PendingOf
  <2>6. i > seen[t] /\ file[i].by # t
    BY <2>3, <2>4, <2>5 DEF PendingOf
  <2> QED
    BY <2>3, <2>6
<1>2. IInv /\ [Next]_vars => [FailsOnlyThen]_vars
  BY <1>1
<1> QED
  BY <1>2, Inductive, PTL DEF Spec, FailureNeedsConflict

\* What was acknowledged stays where it is in the file.
THEOREM Durable == Spec => AcknowledgedStay
<1> DEFINE Stays == /\ Len(file) <= Len(file')
                    /\ \A i \in DOMAIN file : file'[i] = file[i]
<1>1. ASSUME IInv, Next PROVE Stays
  <2>1. PICK t \in Threads : Step(t)
    BY <1>1 DEF Next
  <2>2. file \in Seq(Record) /\ Len(file) \in Nat /\ DOMAIN file = 1..Len(file)
    BY <1>1 DEF IInv, TypeOK
  <2>3. CASE file' = file
    BY <2>2, <2>3
  <2>4. CASE AppendRecord(t)
    <3> DEFINE r == NewRecord(t)
    <3>1. r \in Record
      BY <1>1, <2>4 DEF IInv, TypeOK, Pending, PendingOf, AppendRecord, NewRecord, Record
    <3>2. file' = WithRecord(file, r)
      BY <2>4 DEF AppendRecord
    <3> HIDE DEF r
    <3>3. /\ Len(WithRecord(file, r)) = Len(file) + 1
          /\ \A i \in 1..Len(file) : WithRecord(file, r)[i] = file[i]
      BY <2>2, <3>1, WithRecordFacts
    <3> QED
      BY <2>2, <3>2, <3>3
  <2> QED
    BY <2>1, <2>3, <2>4 DEF Step, GetNextKey, FindDuplicate, FindNoDuplicate
<1>2. IInv /\ [Next]_vars => [Stays]_vars
  BY <1>1
<1> QED
  BY <1>2, Inductive, PTL DEF Spec, AcknowledgedStay

=============================================================================
