--------------------------- MODULE PersistentHashMap ---------------------------
(***************************************************************************)
(* TPersistentImmutableHashMap, containers/persistent/immutable_hashmap: a  *)
(* file with one link per bucket and a chain of records behind each link.   *)
(* It is created as Path.new and renamed to Path by Close; a file at Path   *)
(* may be opened again to append to it.  The process may end at any point.  *)
(*                                                                         *)
(* Offsets are those of the code counted from the end of the header, from 1, *)
(* with 0 for none.  The unit is such that a record with value v is v long. *)
(***************************************************************************)
EXTENDS Integers, Sequences, SequencesExt

CONSTANTS
    Keys,
    Values,         \* values: positive numbers, each the length of its record
    BucketCount,
    Bucket,         \* Bucket[k]: hash of key k, modulo BucketCount
    MaxInserts,     \* bound: insertions in a behaviour
    MaxRestarts     \* bound: how often the file is created or opened

ASSUME HashMapAssumption ==
    /\ Values \subseteq Nat \ {0}
    /\ BucketCount \in Nat \ {0}
    /\ Bucket \in [Keys -> 0..(BucketCount - 1)]
    /\ MaxInserts \in Nat /\ MaxRestarts \in Nat

Names == {"Path", "Path.new"}

VARIABLES
    file,       \* file[n]: [head, records, size] as on disk
    exists,     \* the names that have a file
    File,       \* name of the open file, "none" without a handle
    writable,   \* the handle was created, or opened with rw
    DataPos,    \* member: offset of the next record
    mapped,     \* File().Size(): how much of the data the handle has mapped
    pc, key, value, prev,   \* locals of Insert
    CurrentBucket, Offset,  \* the iterator; CurrentBucket = BucketCount: at the end
    reach,      \* how much of the data is mapped at Ptr of the iterator, -1: Ptr dangles
    yielded,    \* history: what the iterator returned, <<key, value>>
    latest,     \* history: latest[n][k]: value last linked in file n, 0 if none
    inserts, restarts       \* history: counters for the bounds

handle == <<File, writable, DataPos, mapped>>
locals == <<pc, key, value, prev>>
iterator == <<CurrentBucket, Offset, reach, yielded>>
vars == <<file, exists, handle, locals, iterator, latest, inserts, restarts>>

Empty == [head |-> [b \in 0..(BucketCount - 1) |-> 0],
          records |-> [o \in {} |-> 0], size |-> 0]
Nothing == [k \in Keys |-> 0]

Init ==
    /\ file = [n \in Names |-> Empty] /\ exists = {}
    /\ File = "none" /\ writable = FALSE /\ DataPos = 1 /\ mapped = 0
    /\ pc = "ready" /\ key \in Keys /\ value = 0 /\ prev = 0
    /\ CurrentBucket = 0 /\ Offset = 0 /\ reach = 0 /\ yielded = <<>>
    /\ latest = [n \in Names |-> Nothing]
    /\ inserts = 0 /\ restarts = 0

----------------------------------------------------------------------------
\* Opening and closing.

Restart ==
    /\ File = "none" /\ restarts < MaxRestarts
    /\ restarts' = restarts + 1
    /\ UNCHANGED <<locals, iterator, inserts>>

\* Mutant: a new map is written in place.
InPlace == "Path"

\* the name a new map is written under
NewName == "Path.new"

\* the constructor of create mode
Create ==
    /\ Restart
    /\ file' = [file EXCEPT ![NewName] = Empty]
    /\ latest' = [latest EXCEPT ![NewName] = Nothing]
    /\ exists' = exists \cup {NewName}
    /\ File' = NewName /\ writable' = TRUE
    /\ DataPos' = 1 /\ mapped' = 0

\* Mutant: the position of the next record is not counted from 1.
OpenFromZero(rw) ==
    /\ Restart /\ "Path" \in exists
    /\ File' = "Path" /\ writable' = rw
    /\ mapped' = file["Path"].size
    /\ DataPos' = file["Path"].size
    /\ UNCHANGED <<file, exists, latest>>

\* the constructor of read and append mode
Open(rw) ==
    /\ Restart /\ "Path" \in exists
    /\ File' = "Path" /\ writable' = rw
    /\ mapped' = file["Path"].size
    /\ DataPos' = file["Path"].size + 1
    /\ UNCHANGED <<file, exists, latest>>

Gone ==
    /\ File' = "none" /\ writable' = FALSE /\ DataPos' = 1 /\ mapped' = 0
    /\ pc' = "ready" /\ value' = 0 /\ prev' = 0
    /\ CurrentBucket' = 0 /\ Offset' = 0 /\ reach' = 0 /\ yielded' = <<>>
    /\ UNCHANGED <<key, inserts, restarts>>

\* Close: rename, and open what has the name Path read-only
Close ==
    /\ pc = "ready" /\ File # "none"
    /\ file' = [file EXCEPT !["Path"] = file[File]]
    /\ latest' = [latest EXCEPT !["Path"] = latest[File]]
    /\ exists' = (exists \ {File}) \cup {"Path"}
    /\ File' = "Path" /\ writable' = FALSE
    /\ mapped' = file[File].size
    /\ UNCHANGED <<DataPos, locals, iterator, inserts, restarts>>

\* the process ends, or the map is destroyed
Crash ==
    /\ File # "none"
    /\ Gone
    /\ UNCHANGED <<file, exists, latest>>

----------------------------------------------------------------------------
\* Insert.

Insert(k, v) ==
    /\ pc = "ready" /\ File # "none" /\ writable
    /\ inserts < MaxInserts /\ inserts' = inserts + 1
    /\ key' = k /\ value' = v
    /\ prev' = file[File].head[Bucket[k]]
    /\ pc' = "append"
    /\ UNCHANGED <<file, exists, handle, iterator, latest, restarts>>

\* file f with a record at its end
Dumped(f, record) ==
    [f EXCEPT !.records = [o \in DOMAIN f.records \cup {f.size + 1} |->
                              IF o = f.size + 1 THEN record ELSE f.records[o]],
              !.size = f.size + record.value]

Append1 ==
    /\ pc = "append"
    /\ file' = [file EXCEPT ![File] =
                  Dumped(file[File], [key |-> key, value |-> value, prev |-> prev])]
    /\ pc' = "link"
    /\ UNCHANGED <<exists, handle, key, value, prev, iterator, latest, inserts, restarts>>

\* the process ends in one of the five writes of a record, with a part of it in the file
CrashInAppend ==
    /\ pc = "append"
    /\ \E part \in 1..(value - 1) : file' = [file EXCEPT ![File].size = @ + part]
    /\ Gone
    /\ UNCHANGED <<exists, latest>>

\* the bucket is linked to the record, and DataPos goes behind it
Link ==
    /\ pc = "link"
    /\ file' = [file EXCEPT ![File].head[Bucket[key]] = DataPos]
    /\ DataPos' = DataPos + value
    /\ latest' = [latest EXCEPT ![File][key] = value]
    /\ pc' = "ready"
    /\ UNCHANGED <<exists, File, writable, mapped, key, value, prev, iterator, inserts, restarts>>

----------------------------------------------------------------------------
\* Get.

\* the offsets Get visits for key k, and the value it returns: 0 when there is none
Chain(f, k) ==
    LET from[o \in 0..f.size] ==
          IF o \notin DOMAIN f.records THEN <<o>>
          ELSE IF f.records[o].key = k \/ f.records[o].prev = 0 THEN <<o>>
          ELSE <<o>> \o from[f.records[o].prev]
        first == f.head[Bucket[k]]
    IN  IF first = 0 THEN <<>> ELSE from[first]

Found(f, k) ==
    LET chain == Chain(f, k)
    IN  IF chain = <<>> \/ Last(chain) \notin DOMAIN f.records THEN 0
        ELSE IF f.records[Last(chain)].key = k THEN f.records[Last(chain)].value ELSE 0

\* Mutant: a file that has grown is not mapped again.
NotRemapped == mapped

\* what is mapped when Get reads
Remapped == IF mapped < DataPos - 1 THEN DataPos - 1 ELSE mapped

\* also during an iteration, whose Ptr the new mapping may leave dangling
Get ==
    /\ pc \in {"ready", "iterating"} /\ File # "none" /\ mapped # Remapped
    /\ mapped' = Remapped
    /\ reach' \in IF pc = "iterating" THEN {-1, Remapped} ELSE {reach}
    /\ UNCHANGED <<file, exists, File, writable, DataPos, locals, CurrentBucket, Offset,
                   yielded, latest, inserts, restarts>>

----------------------------------------------------------------------------
\* TIterator.

\* nothing maps the file again: what was inserted since it was mapped may be out of reach
GetAll ==
    /\ pc = "ready" /\ File # "none"
    /\ pc' = "iterating"
    /\ CurrentBucket' = 0 /\ Offset' = 0 /\ reach' = mapped /\ yielded' = <<>>
    /\ UNCHANGED <<file, exists, handle, key, value, prev, latest, inserts, restarts>>

Filled(from) == {b \in from..(BucketCount - 1) : file[File].head[b] # 0}
First(S) == CHOOSE b \in S : \A c \in S : b <= c

\* Mutant: the iterator does not go on along a chain.
NextOfBucket(r) == 0

\* the record behind r in its chain
NextOf(r) == r.prev

\* the record to return: at Offset, or in the first bucket from CurrentBucket on with any
More == Offset # 0 \/ Filled(CurrentBucket) # {}
NextBucket == IF Offset # 0 THEN CurrentBucket ELSE First(Filled(CurrentBucket))
NextAt == IF Offset # 0 THEN Offset ELSE file[File].head[NextBucket]

\* a record out of reach may still be read right, from the last page that is mapped
Next1 ==
    LET r == file[File].records[NextAt]
    IN  /\ pc = "iterating" /\ More
        /\ yielded' = Append(yielded, <<r.key, r.value>>)
        /\ Offset' = NextOf(r)
        /\ CurrentBucket' = IF NextOf(r) = 0 THEN NextBucket + 1 ELSE NextBucket
        /\ UNCHANGED <<file, exists, handle, locals, reach, latest, inserts, restarts>>

Rest ==
    /\ pc' = "ready"
    /\ CurrentBucket' = 0 /\ Offset' = 0 /\ reach' = 0 /\ yielded' = <<>>
    /\ UNCHANGED <<file, exists, handle, key, value, prev, latest, inserts, restarts>>

\* Next reads something else behind the mapping, or through the dangling Ptr: what it
\* returns from there on is not followed (the end of the process is Crash)
NextAstray ==
    /\ pc = "iterating"
    /\ \/ reach = -1
       \/ More /\ reach < NextAt + file[File].records[NextAt].value - 1
    /\ Rest

IteratorEnds ==
    /\ pc = "iterating" /\ ~More
    /\ Rest

Next ==
    \/ Create \/ \E rw \in BOOLEAN : Open(rw)
    \/ Close \/ Crash \/ CrashInAppend
    \/ \E k \in Keys, v \in Values : Insert(k, v)
    \/ Append1 \/ Link
    \/ Get
    \/ GetAll \/ Next1 \/ NextAstray \/ IteratorEnds

Spec == Init /\ [][Next]_vars

----------------------------------------------------------------------------
\* Properties.

\* A file holds what was last inserted under each key, whether its writer is still at work,
\* has closed it, or ended in the middle of a later insertion and another one went on: a
\* record is linked only after it was written, and a part of a record that a crash left
\* behind moves neither the records before it nor those after it.
LastInsertIsFound ==
    \A n \in exists : \A k \in Keys : Found(file[n], k) = latest[n][k]

\* Get maps the file again before it reads what was appended: it never follows a link to a
\* record that is not mapped to its end.
ReadsAreMapped ==
    pc = "ready" /\ File # "none" =>
        \A k \in Keys : \A i \in DOMAIN Chain(file[File], k) :
            LET o == Chain(file[File], k)[i]
            IN  /\ o \in DOMAIN file[File].records
                /\ o + file[File].records[o].value - 1 <= Remapped

\* Path is only ever replaced as a whole, or appended to: no step takes a key away from it
\* unless it is the Close of a new file, and no step of a creation touches it before.
PathIsReplacedWhole ==
    [][\A k \in Keys :
          Found(file'["Path"], k) # Found(file["Path"], k) =>
             \/ File = "Path.new" /\ File' = "Path"
             \/ File = "Path" /\ pc = "link" /\ k = key]_vars

\* An iterator that reached its end without going astray, also over records inserted since
\* the file was mapped, has returned every key, and the latest value of a key first.
IterationFindsAll ==
    pc = "iterating" /\ ~More =>
        \A k \in Keys :
            LET of == {i \in DOMAIN yielded : yielded[i][1] = k}
            IN  IF latest[File][k] = 0 THEN of = {}
                ELSE of # {} /\ yielded[First(of)][2] = latest[File][k]
=============================================================================
