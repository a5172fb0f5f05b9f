-------------------------------- MODULE RBTree --------------------------------
(***************************************************************************)
(* TRBTreeBase, containers/rbtree/rbtree.cpp: a red-black tree kept in one  *)
(* growing region of memory or of a file, and its iterator.                *)
(*                                                                         *)
(* The code reads a node into a local copy (Load), changes the copy and    *)
(* writes it back (Dump).  The copies are variables here, and an insertion *)
(* is a sequence of steps, so that a copy which is stale when it is dumped *)
(* destroys what was written in between, as it would in the code.          *)
(*                                                                         *)
(* A node is known by the number of the insertion that made its region: 1  *)
(* is offset 0, and the code's "1 + offset, 0 for none" is the number      *)
(* itself.  The value stored by an insertion is its number too.            *)
(***************************************************************************)
EXTENDS Integers, Sequences, FiniteSets, SequencesExt

CONSTANTS
    Keys,           \* keys: sequences of symbols, in lexicographic order
    IterPrefixes,   \* prefixes to iterate over; << >> is GetAll without a prefix
    MaxInserts,     \* bound: insertions in a behaviour
    MaxVaried       \* bound: insertions in a behaviour where a key is stored again or
                    \* without a value; from MaxInserts on it excludes nothing

ASSUME KeysAssumption ==
    /\ Keys \subseteq Seq(Nat) \ {<<>>}
    /\ IterPrefixes \subseteq Seq(Nat)
    /\ MaxInserts \in Nat /\ MaxVaried \in Nat

VARIABLES
    mem,        \* node headers in the region: [parent, left, right, value, red]
    keys,       \* keys[i]: the key stored in the region of insertion i
    RootOffset, \* member of the tree
    pc,
    dataOffset, node,           \* locals of Insert: the node being placed or fixed,
    rootOffset, root,           \* its parent,
    parentRootOffset, parentRoot,   \* and its grandparent
    latest,     \* history: the insertion that last set each key, 0 if without value
    prefix, top, current,       \* the iterator: Prefix, RootOffset, CurrentOffset
    yielded     \* history: what Next returned, [key, value]

locals == <<dataOffset, node, rootOffset, root, parentRootOffset, parentRoot>>
iterator == <<prefix, top, current, yielded>>
vars == <<mem, keys, RootOffset, pc, locals, latest, iterator>>

\* TRBTreeNode(), and what is never read of the region of an overwriting insertion
Blank == [parent |-> 0, left |-> 0, right |-> 0, value |-> 0, red |-> FALSE]

Init ==
    /\ mem = <<>> /\ keys = <<>> /\ RootOffset = 1
    /\ pc = "ready"
    /\ dataOffset = 0 /\ node = Blank
    /\ rootOffset = 0 /\ root = Blank
    /\ parentRootOffset = 0 /\ parentRoot = Blank
    /\ latest = [k \in {} |-> 0]
    /\ prefix = <<>> /\ top = 0 /\ current = 0 /\ yielded = <<>>

\* TBlob::Cmp
Less(a, b) ==
    \/ IsStrictPrefix(a, b)
    \/ \E i \in DOMAIN a \cap DOMAIN b :
         a[i] < b[i] /\ SubSeq(a, 1, i - 1) = SubSeq(b, 1, i - 1)

\* TBlob::PrefixCmp as the code uses it: 0 when p is a prefix of k
Before(k, p) == ~IsPrefix(p, k) /\ Less(k, p)
After(k, p) == ~IsPrefix(p, k) /\ ~Less(k, p)

\* Root(): climb from a node to the root
Root(m, from) ==
    LET climb[i \in DOMAIN m] == IF m[i].parent = 0 THEN i ELSE climb[m[i].parent]
    IN  climb[from]

----------------------------------------------------------------------------
\* Insert.

\* locals end with the call
Return ==
    /\ pc' = "ready"
    /\ dataOffset' = 0 /\ node' = Blank
    /\ rootOffset' = 0 /\ root' = Blank
    /\ parentRootOffset' = 0 /\ parentRoot' = Blank

\* Reserve and write the key and the value; then start at the root
Insert(k, withValue) ==
    LET n == Len(mem) + 1
        value == IF withValue THEN n ELSE 0
        varied == \/ k \in DOMAIN latest \/ ~withValue
                  \/ Cardinality(DOMAIN latest) < Len(keys)
                  \/ \E j \in DOMAIN latest : latest[j] = 0
    IN  /\ pc = "ready" /\ n <= MaxInserts
        /\ varied => n <= MaxVaried
        /\ mem' = Append(mem, IF n = 1 THEN [Blank EXCEPT !.value = value] ELSE Blank)
        /\ keys' = Append(keys, k)
        /\ latest' = [j \in DOMAIN latest \cup {k} |-> IF j = k THEN value ELSE latest[j]]
        /\ \/ n = 1 /\ Return /\ UNCHANGED RootOffset
           \/ /\ n > 1
              /\ RootOffset' = Root(mem, RootOffset)
              /\ rootOffset' = RootOffset'
              /\ root' = mem[RootOffset']
              /\ dataOffset' = n
              /\ node' = [Blank EXCEPT !.value = value, !.red = TRUE]
              /\ UNCHANGED <<parentRootOffset, parentRoot>>
              /\ pc' = "place"
        /\ UNCHANGED iterator

\* Mutant: storing a key without a value keeps the old value.
OverwrittenIfGiven == IF node.value = 0 THEN root ELSE [root EXCEPT !.value = node.value]

\* the node of a key that is there already
Overwritten == [root EXCEPT !.value = node.value]

\* one round of the loop of InsertImpl
Place ==
    LET k == keys[dataOffset]
        side == IF Less(k, keys[rootOffset]) THEN "left" ELSE "right"
    IN  /\ pc = "place"
        /\ \/ /\ k = keys[rootOffset]
              /\ mem' = [mem EXCEPT ![rootOffset] = Overwritten]
              /\ Return
           \/ /\ k # keys[rootOffset] /\ root[side] # 0
              /\ rootOffset' = root[side]
              /\ root' = mem[root[side]]
              /\ UNCHANGED <<mem, pc, dataOffset, node, parentRootOffset, parentRoot>>
           \/ /\ k # keys[rootOffset] /\ root[side] = 0
              /\ root' = [root EXCEPT ![side] = dataOffset]
              /\ node' = [node EXCEPT !.parent = rootOffset]
              /\ mem' = [mem EXCEPT ![dataOffset] = node']
              /\ pc' = "placed"
              /\ UNCHANGED <<dataOffset, rootOffset, parentRootOffset, parentRoot>>
        /\ UNCHANGED <<keys, RootOffset, latest, iterator>>

\* insert case 1/2: the parent is black, or the root
Placed ==
    /\ pc = "placed"
    /\ \/ /\ ~root.red \/ root.parent = 0
          /\ mem' = [mem EXCEPT ![rootOffset] = root]
          /\ Return
       \/ /\ root.red /\ root.parent # 0
          /\ pc' = "fix"
          /\ UNCHANGED <<mem, locals>>
    /\ UNCHANGED <<keys, RootOffset, latest, iterator>>

\* the grandparent as the loop loads it, and the sibling of the parent
Grand == mem[root.parent]
Uncle == IF Grand.left = node.parent THEN Grand.right ELSE Grand.left
UncleIsRed == Uncle # 0 /\ mem[Uncle].red

\* insert case 3: parent and uncle turn black, and the grandparent is fixed next
Recolour ==
    LET grand == root.parent
        black == [mem EXCEPT ![rootOffset] = [root EXCEPT !.red = FALSE],
                             ![Uncle].red = FALSE]
        up == Grand.parent
    IN  /\ pc = "fix" /\ UncleIsRed
        /\ parentRootOffset' = grand
        /\ parentRoot' = [Grand EXCEPT !.red = up # 0]
        /\ mem' = [black EXCEPT ![grand] = parentRoot']
        /\ \/ /\ up = 0
              /\ pc' = "findroot"
              /\ UNCHANGED <<dataOffset, node, rootOffset, root>>
           \/ /\ up # 0
              /\ rootOffset' = up
              /\ root' = mem'[up]
              /\ \/ /\ ~root'.red \/ root'.parent = 0
                    /\ pc' = "findroot"
                    /\ UNCHANGED <<dataOffset, node>>
                 \/ /\ root'.red /\ root'.parent # 0
                    /\ node' = parentRoot'
                    /\ dataOffset' = grand
                    /\ UNCHANGED pc
        /\ UNCHANGED <<keys, RootOffset, latest, iterator>>

Other(side) == IF side = "left" THEN "right" ELSE "left"

\* Mutant: the moved subtree keeps its parent.
RotateKeepsParent(m, above, aboveOffset, at, n, side) ==
    LET down == n[Other(side)]
        child == m[down]
        moved == child[side]
        m2 == IF n.parent = 0 THEN m
              ELSE [m EXCEPT ![aboveOffset] =
                     [above EXCEPT ![IF at = above.left THEN "left" ELSE "right"] = down]]
    IN  [m2 EXCEPT ![down] = [child EXCEPT ![side] = at, !.parent = n.parent],
                   ![at] = [n EXCEPT ![Other(side)] = moved, !.parent = down]]

\* Rotate: node n at offset "at" goes down to the given side, its other child takes
\* its place under "above", the copy of the node at aboveOffset
Rotate(m, above, aboveOffset, at, n, side) ==
    LET down == n[Other(side)]
        child == m[down]
        moved == child[side]
        m1 == IF moved = 0 THEN m ELSE [m EXCEPT ![moved].parent = at]
        m2 == IF n.parent = 0 THEN m1
              ELSE [m1 EXCEPT ![aboveOffset] =
                     [above EXCEPT ![IF at = above.left THEN "left" ELSE "right"] = down]]
    IN  IF down = 0 THEN m
        ELSE [m2 EXCEPT ![down] = [child EXCEPT ![side] = at, !.parent = n.parent],
                        ![at] = [n EXCEPT ![Other(side)] = moved, !.parent = down]]

\* insert case 4, first half: a node between its parent and grandparent is rotated out,
\* and the parent becomes the node
RotateInner ==
    LET side == IF dataOffset = root.right THEN "left" ELSE "right"
        inner == /\ dataOffset = root[Other(side)]
                 /\ node.parent = Grand[side]
    IN  /\ pc = "fix" /\ ~UncleIsRed
        /\ \/ /\ inner
              /\ mem' = Rotate(mem, Grand, root.parent, rootOffset, root, side)
              /\ dataOffset' = mem'[dataOffset][side]
              /\ node' = mem'[dataOffset']
              /\ rootOffset' = node'.parent
              /\ root' = mem'[rootOffset']
              /\ parentRootOffset' = root'.parent
              /\ parentRoot' = mem'[parentRootOffset']
           \/ /\ ~inner
              /\ mem' = [mem EXCEPT ![rootOffset] = root]
              /\ parentRootOffset' = root.parent
              /\ parentRoot' = Grand
              /\ UNCHANGED <<dataOffset, node, rootOffset, root>>
        /\ pc' = "outer"
        /\ UNCHANGED <<keys, RootOffset, latest, iterator>>

\* insert case 4, second half: the grandparent goes down on the other side, and the two
\* swap colours.  (The exits for a node or a parent without a parent are never taken: the
\* loop is entered, and the inner rotation left, with a grandparent.)
RotateOuter ==
    LET above == IF parentRoot.parent # 0 THEN mem[parentRoot.parent] ELSE node
        side == IF dataOffset = root.left THEN "right" ELSE "left"
        rotated == Rotate(mem, above, parentRoot.parent, parentRootOffset, parentRoot, side)
    IN  /\ pc = "outer"
        /\ mem' = [rotated EXCEPT ![rootOffset].red = FALSE, ![parentRootOffset].red = TRUE]
        /\ pc' = "findroot"
        /\ UNCHANGED <<keys, RootOffset, latest, iterator, locals>>

FindNewRoot ==
    /\ pc = "findroot"
    /\ RootOffset' = Root(mem, RootOffset)
    /\ Return
    /\ UNCHANGED <<mem, keys, latest, iterator>>

\* the file is opened again and FindRoot called
Reopen ==
    /\ pc = "ready" /\ mem # <<>>
    /\ RootOffset' = Root(mem, 1)
    /\ UNCHANGED <<mem, keys, pc, locals, latest, iterator>>

----------------------------------------------------------------------------
\* Get.

Get(k) ==
    LET search[i \in DOMAIN mem] ==
          LET next == mem[i][IF Less(k, keys[i]) THEN "left" ELSE "right"]
          IN  IF k = keys[i] THEN mem[i].value
              ELSE IF next = 0 THEN 0 ELSE search[next]
    IN  search[RootOffset]

----------------------------------------------------------------------------
\* TIterator: in post-order over the topmost node with the prefix.

\* GetAll(prefix): the topmost node whose key has the prefix, 0 if there is none
Topmost(p) ==
    LET search[i \in DOMAIN mem] ==
          LET next == mem[i][IF Before(keys[i], p) THEN "right" ELSE "left"]
          IN  IF IsPrefix(p, keys[i]) THEN i
              ELSE IF next = 0 THEN 0 ELSE search[next]
    IN  search[RootOffset]

\* Descend without a prefix: to a leaf, to the left where it can
DescendAll(from) ==
    LET down[i \in DOMAIN mem] ==
          IF mem[i].left # 0 THEN down[mem[i].left]
          ELSE IF mem[i].right # 0 THEN down[mem[i].right] ELSE i
    IN  down[from]

\* the node the loop of Descend is at, the last match, and the right subtree of that match
\* while it is to be tried (isLeft and lastOkRight)
Loop == [at : DOMAIN mem, found : 0..Len(mem), right : 0..Len(mem)]

\* Mutant: the right subtree of the last match is not tried.
DescendNoRetry(from, default, p) ==
    LET down[s \in Loop] ==
          LET n == mem[s.at]
              next == IF Before(keys[s.at], p) THEN n.right
                      ELSE IF After(keys[s.at], p) \/ n.left # 0 THEN n.left ELSE n.right
              best == IF IsPrefix(p, keys[s.at]) THEN s.at ELSE s.found
          IN  IF next # 0 THEN down[[at |-> next, found |-> best, right |-> 0]] ELSE best
    IN  down[[at |-> from, found |-> default, right |-> 0]]

\* Descend with a prefix: where the left subtree of the last match ends without one, its
\* right subtree is tried
DescendPrefix(from, default, p) ==
    LET down[s \in Loop] ==
          LET n == mem[s.at]
              matches == IsPrefix(p, keys[s.at])
              next == IF Before(keys[s.at], p) THEN n.right
                      ELSE IF After(keys[s.at], p) \/ n.left # 0 THEN n.left ELSE n.right
              best == IF matches THEN s.at ELSE s.found
              right == IF ~matches THEN s.right ELSE IF n.left # 0 THEN n.right ELSE 0
          IN  IF next # 0 THEN down[[at |-> next, found |-> best, right |-> right]]
              ELSE IF right # 0 THEN down[[at |-> right, found |-> best, right |-> 0]]
              ELSE best
    IN  down[[at |-> from, found |-> default, right |-> 0]]

Descend(from, default) ==
    IF prefix = <<>> THEN DescendAll(from) ELSE DescendPrefix(from, default, prefix)

GetAll(p) ==
    /\ pc = "ready" /\ mem # <<>>
    /\ prefix' = p
    /\ top' = IF p = <<>> THEN RootOffset ELSE Topmost(p)
    /\ current' = IF top' = 0 THEN 0
                  ELSE IF p = <<>> THEN DescendAll(top') ELSE DescendPrefix(top', top', p)
    /\ yielded' = <<>>
    /\ pc' = "iterating"
    /\ UNCHANGED <<mem, keys, RootOffset, locals, latest>>

\* the loop of Next: from node i to the next node to return, 0 for the end
NextFrom(i) ==
    LET step[at \in DOMAIN mem] ==
          LET up == mem[at].parent
              to == IF at = mem[up].left /\ mem[up].right # 0
                    THEN Descend(mem[up].right, up) ELSE up
          IN  IF up = 0 THEN 0
              ELSE IF prefix = <<>> \/ to # up \/ IsPrefix(prefix, keys[up]) THEN to
              ELSE IF to = top /\ mem[up].parent # 0 THEN to ELSE step[up]
    IN  step[i]

Next1 ==
    /\ pc = "iterating" /\ current # 0
    /\ yielded' = Append(yielded, [key |-> keys[current], value |-> mem[current].value])
    /\ current' = IF current = top THEN 0 ELSE NextFrom(current)
    /\ UNCHANGED <<mem, keys, RootOffset, pc, locals, latest, prefix, top>>

IteratorEnds ==
    /\ pc = "iterating" /\ current = 0
    /\ pc' = "ready"
    /\ prefix' = <<>> /\ top' = 0 /\ yielded' = <<>>
    /\ UNCHANGED <<mem, keys, RootOffset, locals, latest, current>>

Next ==
    \/ \E k \in Keys, withValue \in BOOLEAN : Insert(k, withValue)
    \/ Place \/ Placed \/ Recolour \/ RotateInner \/ RotateOuter \/ FindNewRoot
    \/ Reopen
    \/ \E p \in IterPrefixes : GetAll(p)
    \/ Next1 \/ IteratorEnds

Spec == Init /\ [][Next]_vars

----------------------------------------------------------------------------
\* Properties.

\* Between two insertions a lookup finds what was last stored for its key, also in a
\* tree that was opened again: no rotation loses a subtree, puts it on the wrong side or
\* brings back an old value.
GetFindsLatest ==
    pc = "ready" /\ mem # <<>> =>
        \A k \in Keys : Get(k) = IF k \in DOMAIN latest THEN latest[k] ELSE 0

BlackHeight ==
    LET height[i \in 0..Len(mem)] ==
          IF i = 0 THEN 1
          ELSE LET l == height[mem[i].left]
                   r == height[mem[i].right]
               IN  IF l = 0 \/ l # r THEN 0 ELSE l + (IF mem[i].red THEN 0 ELSE 1)
    IN  height[RootOffset]

\* Between two insertions the region holds a red-black tree, whatever copies of nodes the
\* insertions wrote back: links are numbers of nodes; the tree hangs from RootOffset and the
\* children of a node point back to it, so that Root() and the iterator, which climb, end
\* where Get starts; the root is black, no red node is under a red one, and all ways down
\* have as many black nodes.
IsRedBlackTree ==
    pc = "ready" /\ mem # <<>> =>
        /\ mem \in Seq([parent : 0..Len(mem), left : 0..Len(mem), right : 0..Len(mem),
                        value : 0..Len(mem), red : BOOLEAN])
        /\ mem[RootOffset].parent = 0 /\ ~mem[RootOffset].red
        /\ \A i \in DOMAIN mem :
              /\ \A c \in {mem[i].left, mem[i].right} \ {0} : mem[c].parent = i
              /\ mem[i].red => ~mem[mem[i].parent].red
        /\ BlackHeight # 0

\* An iterator that has reached its end has returned every key with the prefix once, with
\* its value, and no other key.
IterationIsComplete ==
    pc = "iterating" /\ current = 0 =>
        LET matching == {k \in DOMAIN latest : IsPrefix(prefix, k)}
        IN  /\ ToSet(yielded) = {[key |-> k, value |-> latest[k]] : k \in matching}
            /\ Len(yielded) = Cardinality(matching)
=============================================================================
