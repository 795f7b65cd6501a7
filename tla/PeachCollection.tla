--------------------------- MODULE PeachCollection ---------------------------
(***************************************************************************)
(* One collection of PeachDB under concurrent inserts.                     *)
(*                                                                         *)
(* Every insert of the server (a direct message, a group message, a user,  *)
(* a group, a membership) has the same three steps, each of which opens    *)
(* and closes the collection's file on its own:                            *)
(*    1. the caller asks for the highest key and adds one to it;           *)
(*    2. Peach_write_record scans the file for a record with that key and  *)
(*       gives up if there is one;                                         *)
(*    3. it opens the file again and appends the record.                   *)
(* Nothing holds a lock between two steps, so the handler threads of two   *)
(* clients interleave freely.                                              *)
(*                                                                         *)
(* A scan reads a file that only grows: it takes effect when it reaches    *)
(* the end of the file.  An append is one write to a file opened with "a"  *)
(* and takes effect at that write.                                         *)
(***************************************************************************)
EXTENDS Integers, Sequences

CONSTANTS Threads,     \* the handler threads of the server
          MaxRecords   \* bound: no insert begins on a file of this length

ASSUME MaxRecordsAssumption == MaxRecords \in Nat

VARIABLES file,     \* the records of the collection, in the order of the lines
          pc,       \* what each thread does next with the collection
          next,     \* the key each thread computed for its record
          seen,     \* history: length of the file when the key was computed
          checked   \* history: length of the file when it was scanned for the key

vars == <<file, pc, next, seen, checked>>

(***************************************************************************)
(* A record is known by its key and its writer; its other fields play no   *)
(* part here.  The fields seen and checked are history.                    *)
(***************************************************************************)
Record == [key : Nat \ {0}, by : Threads, seen : Nat, checked : Nat]

Keys(f) == {f[i].key : i \in DOMAIN f}

(***************************************************************************)
(* Variants of the definitions below with a bug each, used to show that    *)
(* the properties at the end of the module can fail.                       *)
(***************************************************************************)
\* The key of the last line taken for the highest one.
LastKey(f) == IF f = <<>> THEN 0 ELSE f[Len(f)].key

\* The error value returned for a collection without records.
HighestKeyOrError(f) == IF f = <<>> THEN -1 ELSE f[Len(f)].key

\* The file opened with "w" instead of "a".
TruncateAndWrite(f, r) == <<r>>

\* The new record placed right after the header.
WriteFirst(f, r) == <<r>> \o f

\* The scan skipped.
SkipDuplicateCheck(t) ==
    /\ pc[t] = "check"
    /\ checked' = [checked EXCEPT ![t] = Len(file)]
    /\ pc' = [pc EXCEPT ![t] = "append"]
    /\ UNCHANGED <<file, next, seen>>

(***************************************************************************)
(* The steps of an insert.                                                 *)
(***************************************************************************)
\* The highest key of the records, 0 when the file has only its header.
HighestKey(f) ==
    CHOOSE h \in {0} \cup Keys(f) : \A k \in Keys(f) : k <= h

\* The file once fopen(..., "a") has put one more line at its end.
WithRecord(f, r) == Append(f, r)

\* A file the three steps may start from: the tests and the shipped database
\* start from the header alone.
Init == /\ file = <<>>
        /\ pc = [t \in Threads |-> "idle"]
        /\ next = [t \in Threads |-> 0]
        /\ seen = [t \in Threads |-> 0]
        /\ checked = [t \in Threads |-> 0]

\* Step 1: next_id = Peach_get_highest_key(...) + 1.
GetNextKey(t) ==
    /\ pc[t] = "idle"
    /\ Len(file) < MaxRecords
    /\ next' = [next EXCEPT ![t] = HighestKey(file) + 1]
    /\ seen' = [seen EXCEPT ![t] = Len(file)]
    /\ pc' = [pc EXCEPT ![t] = "check"]
    /\ UNCHANGED <<file, checked>>

\* Step 2: the scan of Peach_write_record that finds the key: it returns -1
\* and the caller reports that the record could not be saved.
FindDuplicate(t) ==
    /\ pc[t] = "check"
    /\ next[t] \in Keys(file)
    /\ pc' = [pc EXCEPT ![t] = "idle"]
    /\ UNCHANGED <<file, next, seen, checked>>

\* Step 2 when the scan does not find the key.
FindNoDuplicate(t) ==
    /\ pc[t] = "check"
    /\ next[t] \notin Keys(file)
    /\ checked' = [checked EXCEPT ![t] = Len(file)]
    /\ pc' = [pc EXCEPT ![t] = "append"]
    /\ UNCHANGED <<file, next, seen>>

NewRecord(t) == [key |-> next[t], by |-> t,
                 seen |-> seen[t], checked |-> checked[t]]

\* Step 3: fopen(..., "a"), one line, fclose: the insert has succeeded.
AppendRecord(t) ==
    /\ pc[t] = "append"
    /\ file' = WithRecord(file, NewRecord(t))
    /\ pc' = [pc EXCEPT ![t] = "idle"]
    /\ UNCHANGED <<next, seen, checked>>

Step(t) == \/ GetNextKey(t)
           \/ FindDuplicate(t)
           \/ FindNoDuplicate(t)
           \/ AppendRecord(t)

Next == \E t \in Threads : Step(t)

Spec == Init /\ [][Next]_vars

-----------------------------------------------------------------------------
(***************************************************************************)
(* Properties                                                              *)
(***************************************************************************)

\* The type invariant; a key written to the file is positive.
TypeOK ==
    /\ file \in Seq(Record)
    /\ pc \in [Threads -> {"idle", "check", "append"}]
    /\ next \in [Threads -> Nat]
    /\ seen \in [Threads -> Nat]
    /\ checked \in [Threads -> Nat]

\* The keys in the file are 1, 2, ..., HighestKey, whatever the interleaving:
\* an insert that fails uses no key up, and neither do two that take the same.
KeysDense == Keys(file) = 1..HighestKey(file)

\* Ids respect real time: when a record was in the file before another insert
\* asked for the highest key, it has the smaller id.  A reply that carries an
\* id is therefore larger than every id its client could have seen before.
IdsFollowRealTime ==
    \A i, j \in DOMAIN file :
        i < j /\ i <= file[j].seen => file[i].key < file[j].key

\* Two records share a key only when the first was appended after the second
\* insert had finished its scan: the window between the scan and the append is
\* the only one in which Peach_write_record lets a duplicate through.
DuplicateNeedsOverlap ==
    \A i, j \in DOMAIN file :
        i < j /\ file[i].key = file[j].key => file[j].checked < i

\* The records of one thread have increasing ids in the order of the file, so
\* a thread never writes the same key twice and a key has at most as many
\* copies as there are threads.
WriterIdsIncrease ==
    \A i, j \in DOMAIN file :
        i < j /\ file[i].by = file[j].by => file[i].key < file[j].key

\* An insert fails on a duplicate key only when another thread has appended
\* that key since this one computed it: of two inserts in conflict one succeeds.
FailureNeedsConflict ==
    [][\A t \in Threads :
          pc[t] = "check" /\ pc'[t] = "idle" =>
              \E i \in DOMAIN file : /\ i > seen[t]
                                     /\ file[i].key = next[t]
                                     /\ file[i].by # t]_vars

\* A record that was acknowledged keeps its place and its content, whatever
\* the other threads write.
AcknowledgedStay ==
    [][/\ Len(file) <= Len(file')
       /\ \A i \in DOMAIN file : file'[i] = file[i]]_vars

=============================================================================
