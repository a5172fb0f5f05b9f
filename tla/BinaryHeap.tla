------------------------------ MODULE BinaryHeap ------------------------------
(***************************************************************************)
(* TPersistentBinaryHeap, containers/persistent/binary_heap: a file of      *)
(* records of one size.  Records are appended to Path.new; Close sorts them  *)
(* and renames the file to Path, where they are found by binary search.     *)
(* The iterator starts at any match and goes down and then up from it.      *)
(*                                                                         *)
(* A record is a sequence of symbols.  Positions count from 0 as in the code. *)
(***************************************************************************)
EXTENDS Integers, Sequences, FiniteSets, SequencesExt

CONSTANTS
    Records,        \* sequences of one length
    IterPrefixes,   \* prefixes to look for
    MaxRecords,     \* bound: records in a file
    MaxRestarts     \* bound: how often a file is created or opened

ASSUME BinaryHeapAssumption == MaxRecords \in Nat /\ MaxRestarts \in Nat

\* records are of one size, and not empty: Size() is 0 for a record size of 0
ASSUME RecordsAssumption ==
    /\ \A r \in Records : r \in Seq(0..255) /\ r # <<>> /\ \A q \in Records : Len(q) = Len(r)
    /\ \A p \in IterPrefixes : p \in Seq(0..255) /\ \A r \in Records : Len(p) <= Len(r)

VARIABLES
    published,  \* records of the file at Path, in file order; NoFile if there is none
    fresh,      \* records of the file at Path.new while it is being written
    mode,       \* the heap object: "none", "create" or "read"
    pc,         \* step of Close, or "ready"
    Heap,       \* the iterator: "none", "open", or "ended" when it returned its last record
    Prefix, Pivot, Pos, Direction,  \* members of the iterator
    yielded,    \* history: records returned since GetAll, or since the last ToMin
    fromMin,    \* history: ToMin was called
    restarts    \* history: counter for the bound

iterator == <<Heap, Prefix, Pivot, Pos, Direction, yielded, fromMin>>
vars == <<published, fresh, mode, pc, iterator, restarts>>

NoFile == << <<>> >>

\* memcmp, on sequences of one length
Less(a, b) == \E i \in DOMAIN a : a[i] < b[i] /\ \A j \in 1..(i - 1) : a[j] = b[j]

Ascending(s) == \A i \in 1..(Len(s) - 1) : ~Less(s[i + 1], s[i])

\* Sorted: what std::sort makes of the records, here one by one behind those not above it;
\* records that compare equal are equal, so that there is one such order.
Inserted(r, t) == InsertAt(t, Min({i \in DOMAIN t : Less(r, t[i])} \cup {Len(t) + 1}), r)
Sorted(s) ==
    LET sorted[n \in 0..Len(s)] == IF n = 0 THEN <<>> ELSE Inserted(s[n], sorted[n - 1])
    IN  sorted[Len(s)]

\* TBlob::Cmp of a prefix with as much of a record
PrefixOf(p, r) == SubSeq(r, 1, Len(p))

Init ==
    /\ published = NoFile /\ fresh = <<>> /\ mode = "none" /\ pc = "ready"
    /\ Heap = "none" /\ Prefix = <<>> /\ Pivot = 0 /\ Pos = 0 /\ Direction = -1
    /\ yielded = <<>> /\ fromMin = FALSE
    /\ restarts = 0

----------------------------------------------------------------------------
\* The file.

Create ==
    /\ mode = "none" /\ restarts < MaxRestarts
    /\ mode' = "create" /\ fresh' = <<>>
    /\ restarts' = restarts + 1
    /\ UNCHANGED <<published, pc, iterator>>

Open ==
    /\ mode = "none" /\ restarts < MaxRestarts /\ published # NoFile
    /\ mode' = "read"
    /\ restarts' = restarts + 1
    /\ UNCHANGED <<published, fresh, pc, iterator>>

Insert(r) ==
    /\ mode = "create" /\ pc = "ready" /\ Len(fresh) < MaxRecords
    /\ fresh' = Append(fresh, r)
    /\ UNCHANGED <<published, mode, pc, iterator, restarts>>

\* Mutant: the file gets its name first.
CloseRenamesFirst ==
    /\ mode = "create" /\ pc = "ready"
    /\ published' = fresh
    /\ pc' = "rename"
    /\ UNCHANGED <<fresh, mode, iterator, restarts>>

\* Close: the mapped records are sorted where they are ...
CloseSorts ==
    /\ mode = "create" /\ pc = "ready"
    /\ fresh' = Sorted(fresh)
    /\ pc' = "rename"
    /\ UNCHANGED <<published, mode, iterator, restarts>>

\* ... and the file gets its name and is opened to be read
CloseRenames ==
    /\ pc = "rename"
    /\ published' = fresh /\ fresh' = <<>>
    /\ mode' = "read"
    /\ pc' = "ready"
    /\ UNCHANGED <<iterator, restarts>>

NoIterator ==
    /\ Heap' = "none" /\ Prefix' = <<>> /\ Pivot' = 0 /\ Pos' = 0 /\ Direction' = -1
    /\ yielded' = <<>> /\ fromMin' = FALSE

\* the process ends; what it leaves at Path.new is not used again
Crash ==
    /\ mode # "none"
    /\ mode' = "none" /\ fresh' = <<>> /\ pc' = "ready"
    /\ NoIterator
    /\ UNCHANGED <<published, restarts>>

----------------------------------------------------------------------------
\* GetAll and its iterator.

Size == Len(published)
At(pos) == published[pos + 1]
Matches(p, pos) == PrefixOf(p, At(pos)) = p

\* the position of a record with the prefix, -1 if the search finds none
Search(p) ==
    LET between[ends \in (0..(Size + 1)) \X (0..Size)] ==
          LET left == ends[1]
              right == ends[2]
              pivot == (left + right) \div 2
          IN  IF right < left \/ pivot >= Size THEN -1
              ELSE IF Matches(p, pivot) THEN pivot
              ELSE IF Less(PrefixOf(p, At(pivot)), p) THEN between[<<pivot + 1, right>>]
              ELSE IF pivot = 0 THEN -1 ELSE between[<<left, pivot - 1>>]
    IN  IF Size = 0 THEN -1
        ELSE IF Size = 1 THEN IF Matches(p, 0) THEN 0 ELSE -1
        ELSE between[<<0, Size>>]

\* on a file that was closed: before, the records are neither mapped nor sorted
GetAll(p) ==
    /\ mode = "read" /\ Heap = "none"
    /\ Prefix' = p
    /\ IF Search(p) = -1
       THEN Heap' = "ended" /\ UNCHANGED <<Pivot, Pos>>
       ELSE Heap' = "open" /\ Pivot' = Search(p) /\ Pos' = Search(p)
    /\ UNCHANGED <<published, fresh, mode, pc, Direction, yielded, fromMin, restarts>>

\* Mutant: the way up starts at the pivot again.
UpwardsFromPivot == Pivot

\* where the way up starts
Upwards == Pivot + 1

\* a record below that does not match turns the iterator before it returns anything
IterNext ==
    LET turns == Direction < 0 /\ ~Matches(Prefix, Pos)
        pos == IF turns THEN Upwards ELSE Pos
        direction == IF turns THEN 1 ELSE Direction
        turnsAtStart == pos = 0 /\ direction < 0
    IN  /\ Heap = "open"
        /\ \/ /\ pos < Size /\ Matches(Prefix, pos)
              /\ yielded' = Append(yielded, At(pos))
              /\ Direction' = IF turnsAtStart THEN 1 ELSE direction
              /\ Pos' = IF turnsAtStart THEN Upwards ELSE pos + direction
              /\ UNCHANGED Heap
           \/ /\ ~(pos < Size /\ Matches(Prefix, pos))
              /\ Heap' = "ended"
              /\ Direction' = direction /\ Pos' = pos
              /\ UNCHANGED yielded
        /\ UNCHANGED <<published, fresh, mode, pc, Prefix, Pivot, fromMin, restarts>>

\* down from where the iterator is, or from the pivot when it is on its way up, to the
\* first match
ToMin ==
    LET start == IF Direction > 0 /\ Pos > Pivot THEN Pivot ELSE Pos
        others == {pos \in 0..start : ~Matches(Prefix, pos)}
    IN  /\ Heap = "open"
        /\ Pos' = IF Prefix = <<>> THEN 0 ELSE Max({-1} \cup others) + 1
        /\ Direction' = 1
        /\ yielded' = <<>> /\ fromMin' = TRUE
        /\ UNCHANGED <<published, fresh, mode, pc, Heap, Prefix, Pivot, restarts>>

IteratorEnds ==
    /\ Heap = "ended"
    /\ NoIterator
    /\ UNCHANGED <<published, fresh, mode, pc, restarts>>

Next ==
    \/ Create \/ Open \/ Crash
    \/ \E r \in Records : Insert(r)
    \/ CloseSorts \/ CloseRenames
    \/ \E p \in IterPrefixes : GetAll(p)
    \/ IterNext \/ ToMin \/ IteratorEnds

Spec == Init /\ [][Next]_vars

----------------------------------------------------------------------------
\* Properties.

\* how often a record is in a sequence
Times(r, s) == Cardinality({i \in DOMAIN s : s[i] = r})

\* A file at Path is sorted, also when a process ended in the middle of Close: whoever
\* opens it may search it.
PublishedIsSorted ==
    published # NoFile => Ascending(published)

\* An iterator at its end has returned every record with the prefix, as often as it is in
\* the file, although it starts in the middle of them; from ToMin on, wherever it was then,
\* it returns them in order.
IterationFindsAll ==
    Heap = "ended" =>
        /\ fromMin => Ascending(yielded)
        /\ \A r \in Range(published) \cup Range(yielded) :
              Times(r, yielded) = IF PrefixOf(Prefix, r) = Prefix THEN Times(r, published) ELSE 0
=============================================================================
