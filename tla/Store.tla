-------------------------------- MODULE Store --------------------------------
(***************************************************************************)
(* The files of PeachDB over starts and crashes of the server: the index,  *)
(* one file for each collection, and the temporary files of updates and    *)
(* deletions.                                                              *)
(*                                                                         *)
(* A start runs UserService_createDocument: Peach_initPeachDb creates an   *)
(* index of no collections if there is no index, and                       *)
(* Peach_collection_create adds each collection that is not listed.  The   *)
(* result of a creation is ignored, and main ignores the result of         *)
(* createDocument.  Then records are inserted, updated and deleted.        *)
(*                                                                         *)
(* A file opened with "w" is empty from fopen on and has its content from  *)
(* fclose on; between the two, and between any two steps, the process may  *)
(* be killed.  What it closed stays.  One operation runs at a time: the    *)
(* races of inserts are in PeachCollection.                                *)
(***************************************************************************)
EXTENDS Integers, Sequences, FiniteSets

CONSTANTS Collections,   \* the names of the collections
          Order,         \* the order in which createDocument creates them
          NoFile,        \* a file that does not exist
          Empty,         \* an index of no bytes: not even a count
          MaxRecords,    \* bound: no insert into a file of more lines
          MaxCrashes,    \* bound: crashes
          MaxFailures    \* bound: calls of the C library that fail

ASSUME StoreAssumption ==
    /\ Order \in Seq(Collections) /\ Order # <<>>
    /\ \A i, j \in DOMAIN Order : Order[i] = Order[j] => i = j
    /\ {MaxRecords, MaxCrashes, MaxFailures} \subseteq Nat
    /\ NoFile \notin Seq(Int)
    /\ Empty \notin Seq(Collections) /\ NoFile \notin Seq(Collections) \cup {Empty}

VARIABLES index,      \* the collections listed in index.mpdb, in order
          file,       \* the lines of each {collection}.lpdb
          temp,       \* the lines of each {collection}.lpdb.tmp
          pc,         \* what the process does next
          at,         \* which collection of Order is being created
          lines,      \* the lines of the index it has in memory
          job,        \* the update or deletion it is running
          acked,      \* history: the keys whose insert has returned success and
                      \* for which no deletion has begun
          skipped,    \* history: has a start left something out because a
                      \* call of the C library had failed?
          crashes, failures   \* how often each has happened

memory == <<at, lines, job>>
disk == <<index, file, temp>>
vars == <<disk, pc, memory, acked, skipped, crashes, failures>>

\* A line is the header or a record, of which only the key matters.  Every
\* reader skips the first line, whatever it is.
Header == -1

Rows(f) == IF f \in {NoFile, <<>>} THEN {} ELSE {f[i] : i \in 2..Len(f)}

HighestKey(f) == CHOOSE h \in {0} \cup Rows(f) : \A k \in Rows(f) : k <= h

Listed(x) == IF x \in {NoFile, Empty} THEN {} ELSE {x[i] : i \in DOMAIN x}

NoJob == [op |-> "none", coll |-> Order[1], key |-> 0]

\* The first line and the records a deletion, or an update, copies, one by one.
Copy(f, op, k) ==
    LET upTo[i \in 0..Len(f)] ==
            IF i = 0 THEN <<>>
            ELSE IF i = 1 \/ op = "update" \/ f[i] # k
                 THEN Append(upTo[i - 1], f[i])
                 ELSE upTo[i - 1]
    IN  upTo[Len(f)]

Fail == /\ failures < MaxFailures
        /\ failures' = failures + 1

FailAtStart == Fail /\ skipped' = TRUE

(***************************************************************************)
(* Variants with a bug each, used to show that the properties can fail.    *)
(***************************************************************************)
\* The count read from the index not checked: an empty index taken for one of
\* no collections.
ReadUnchecked ==
    /\ pc = "read"
    /\ Order[at] \notin Listed(index)
    /\ lines' = IF index = Empty THEN <<>> ELSE index
    /\ pc' = "file"
    /\ UNCHANGED <<disk, at, job, acked, skipped, crashes, failures>>

\* The original opened for the result before it was read.
ReplaceInPlace(c, k, op) ==
    /\ pc = "serving"
    /\ file[c] # NoFile
    /\ temp' = [temp EXCEPT ![c] = <<>>]
    /\ file' = [file EXCEPT ![c] = <<Header>>]
    /\ job' = [op |-> op, coll |-> c, key |-> k]
    /\ pc' = "copy"
    /\ acked' = [acked EXCEPT ![c] = IF op = "delete" THEN @ \ {k} ELSE @]
    /\ UNCHANGED <<index, at, lines, skipped, crashes, failures>>

-----------------------------------------------------------------------------
\* createDocument goes on whatever Peach_collection_create has returned.
NextCollection ==
    /\ pc' = IF at = Len(Order) THEN "serving" ELSE "read"
    /\ at' = IF at = Len(Order) THEN 1 ELSE at + 1
    /\ lines' = <<>>
    /\ UNCHANGED job

Init == /\ index = NoFile
        /\ file = [c \in Collections |-> NoFile]
        /\ temp = [c \in Collections |-> NoFile]
        /\ pc = "down"
        /\ at = 1
        /\ lines = <<>>
        /\ job = NoJob
        /\ acked = [c \in Collections |-> {}]
        /\ skipped = FALSE
        /\ crashes = 0
        /\ failures = 0

(***************************************************************************)
(* Peach_initPeachDb                                                       *)
(***************************************************************************)
Boot == /\ pc = "down"
        /\ pc' = "init"
        /\ UNCHANGED <<disk, memory, acked, skipped, crashes, failures>>

IndexExists ==
    /\ pc = "init"
    /\ index # NoFile
    /\ pc' = "read"
    /\ UNCHANGED <<disk, memory, acked, skipped, crashes, failures>>

NewIndex ==
    /\ pc = "init"
    /\ index = NoFile
    /\ index' = Empty
    /\ pc' = "count"
    /\ UNCHANGED <<file, temp, memory, acked, skipped, crashes, failures>>

\* createDocument returns -1 and main serves all the same.
NewIndexFails ==
    /\ pc = "init"
    /\ index = NoFile
    /\ FailAtStart
    /\ pc' = "serving"
    /\ UNCHANGED <<disk, memory, acked, crashes>>

WriteCount ==
    /\ pc = "count"
    /\ index' = <<>>
    /\ pc' = "read"
    /\ UNCHANGED <<file, temp, memory, acked, skipped, crashes, failures>>

(***************************************************************************)
(* Peach_collection_create                                                 *)
(***************************************************************************)
\* The index has no count, or lists the collection: nothing is created.
ReadRefuses ==
    /\ pc = "read"
    /\ index = Empty \/ Order[at] \in Listed(index)
    /\ NextCollection
    /\ UNCHANGED <<disk, acked, skipped, crashes, failures>>

ReadNew ==
    /\ pc = "read"
    /\ index # Empty
    /\ Order[at] \notin Listed(index)
    /\ lines' = index
    /\ pc' = "file"
    /\ UNCHANGED <<disk, at, job, acked, skipped, crashes, failures>>

OpenFile ==
    /\ pc = "file"
    /\ file' = [file EXCEPT ![Order[at]] = <<>>]
    /\ pc' = "header"
    /\ UNCHANGED <<index, temp, memory, acked, skipped, crashes, failures>>

\* The index, or the file of the collection, cannot be opened.
OpenFails ==
    /\ pc \in {"read", "file"}
    /\ FailAtStart
    /\ NextCollection
    /\ UNCHANGED <<disk, acked, crashes>>

WriteHeader ==
    /\ pc = "header"
    /\ file' = [file EXCEPT ![Order[at]] = <<Header>>]
    /\ pc' = "index"
    /\ UNCHANGED <<index, temp, memory, acked, skipped, crashes, failures>>

OpenIndex ==
    /\ pc = "index"
    /\ index' = Empty
    /\ pc' = "list"
    /\ UNCHANGED <<file, temp, memory, acked, skipped, crashes, failures>>

\* The new file is removed again.
OpenIndexFails ==
    /\ pc = "index"
    /\ FailAtStart
    /\ file' = [file EXCEPT ![Order[at]] = NoFile]
    /\ NextCollection
    /\ UNCHANGED <<index, temp, acked, crashes>>

WriteIndex ==
    /\ pc = "list"
    /\ index' = Append(lines, Order[at])
    /\ NextCollection
    /\ UNCHANGED <<file, temp, acked, skipped, crashes, failures>>

(***************************************************************************)
(* Records                                                                 *)
(***************************************************************************)
\* Peach_write_record adds a record whose key is not there yet.
Write(c, k) ==
    /\ pc = "serving"
    /\ file[c] # NoFile
    /\ Len(file[c]) <= MaxRecords
    /\ k \notin Rows(file[c])
    /\ file' = [file EXCEPT ![c] = Append(@, k)]
    /\ acked' = [acked EXCEPT ![c] = @ \cup {k}]
    /\ UNCHANGED <<index, temp, pc, memory, skipped, crashes>>

\* An insert; into a collection without a file it fails and changes nothing.
Insert(c) == /\ Write(c, HighestKey(file[c]) + 1)
             /\ UNCHANGED failures

\* The file cannot be opened for the highest key, which is then -1; nobody looks,
\* and the record gets the key 0, if it can be opened now and has no such record.
InsertUnderKeyZero(c) == Fail /\ Write(c, 0)

\* It cannot be opened for the scan or the append: nothing is added.
InsertFails ==
    /\ pc = "serving"
    /\ Fail
    /\ UNCHANGED <<disk, pc, memory, acked, skipped, crashes>>

\* Peach_update_record and Peach_delete_record: the temporary file is opened.
Replace(c, k, op) ==
    /\ pc = "serving"
    /\ file[c] # NoFile
    /\ temp' = [temp EXCEPT ![c] = <<>>]
    /\ job' = [op |-> op, coll |-> c, key |-> k]
    /\ pc' = "copy"
    /\ acked' = [acked EXCEPT ![c] = IF op = "delete" THEN @ \ {k} ELSE @]
    /\ UNCHANGED <<index, file, at, lines, skipped, crashes, failures>>

Return == /\ pc' = "serving"
          /\ job' = NoJob
          /\ UNCHANGED <<at, lines>>

KeyNotFound ==
    LET c == job.coll
    IN  /\ pc = "copy"
        /\ job.key \notin Rows(file[c])
        /\ temp' = [temp EXCEPT ![c] = NoFile]
        /\ Return
        /\ UNCHANGED <<index, file, acked, skipped, crashes, failures>>

CopyRecords ==
    LET c == job.coll
    IN  /\ pc = "copy"
        /\ job.key \in Rows(file[c])
        /\ temp' = [temp EXCEPT ![c] = Copy(file[c], job.op, job.key)]
        /\ pc' = "remove"
        /\ UNCHANGED <<index, file, memory, acked, skipped, crashes, failures>>

RemoveOriginal ==
    /\ pc = "remove"
    /\ file' = [file EXCEPT ![job.coll] = NoFile]
    /\ pc' = "rename"
    /\ UNCHANGED <<index, temp, memory, acked, skipped, crashes, failures>>

RemoveFails ==
    /\ pc = "remove"
    /\ Fail
    /\ temp' = [temp EXCEPT ![job.coll] = NoFile]
    /\ Return
    /\ UNCHANGED <<index, file, acked, skipped, crashes>>

Rename ==
    /\ pc = "rename"
    /\ file' = [file EXCEPT ![job.coll] = temp[job.coll]]
    /\ temp' = [temp EXCEPT ![job.coll] = NoFile]
    /\ Return
    /\ UNCHANGED <<index, acked, skipped, crashes, failures>>

\* The original is gone and the result stays under the temporary name.
RenameFails ==
    /\ pc = "rename"
    /\ Fail
    /\ Return
    /\ UNCHANGED <<disk, acked, skipped, crashes>>

Crash ==
    /\ pc # "down"
    /\ crashes < MaxCrashes
    /\ crashes' = crashes + 1
    /\ pc' = "down"
    /\ at' = 1
    /\ lines' = <<>>
    /\ job' = NoJob
    /\ UNCHANGED <<disk, acked, skipped, failures>>

Start == \/ Boot \/ IndexExists \/ NewIndex \/ NewIndexFails \/ WriteCount

Create == \/ ReadRefuses \/ ReadNew \/ OpenFile \/ OpenFails
          \/ WriteHeader \/ OpenIndex \/ OpenIndexFails \/ WriteIndex

Serve == \/ \E c \in Collections : Insert(c) \/ InsertUnderKeyZero(c)
         \/ InsertFails
         \/ \E c \in Collections, k \in 0..MaxRecords, op \in {"update", "delete"} :
                Replace(c, k, op)
         \/ KeyNotFound \/ CopyRecords
         \/ RemoveOriginal \/ RemoveFails \/ Rename \/ RenameFails

Next == Start \/ Create \/ Serve \/ Crash

Spec == Init /\ [][Next]_vars

-----------------------------------------------------------------------------
(***************************************************************************)
(* Properties                                                              *)
(***************************************************************************)
OnDisk(f) == IF f = NoFile THEN {} ELSE {f[i] : i \in DOMAIN f}

\* A record whose insert has returned success, even under the key 0, is on the disk
\* until its deletion begins: no start, however the ones before it were cut short,
\* truncates a collection with records, and an interrupted update or deletion leaves
\* the others in the original file or, once that is gone, in the temporary one.
\* This needs starts in which no library call has failed: a start that passes
\* over a file without its header lets records into it, and the next one
\* creates the collection again.
AcknowledgedKept ==
    ~skipped =>
        \A c \in Collections :
            acked[c] \subseteq
                IF file[c] = NoFile THEN OnDisk(temp[c]) ELSE OnDisk(file[c])

\* An index that a crash has left without a count is never repaired: no later
\* start creates a collection that is missing.
BrokenIndexStays == [](index = Empty /\ pc = "down" => [](index = Empty))

=============================================================================
