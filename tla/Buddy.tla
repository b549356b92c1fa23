------------------------------- MODULE Buddy -------------------------------
(***************************************************************************)
(* malloc (malloc.c) over the buddy tree (buddy.c): a node of order o is a *)
(* block of 2^o bytes, its children are the block's halves, and the word   *)
(* near a block's end is set to 0xdeadbeef when it is granted and looked   *)
(* at when it is freed.                                                    *)
(*                                                                         *)
(* A node is named by its order and its start, counted from               *)
(* USER_START_ADDR; tree maps the nodes that are reachable from buddy_root *)
(* to their states.  Nodes come from the kernel's heap, of which only the  *)
(* number of nodes it still has room for matters (SysHeap is the heap).    *)
(* The clients are external: nothing calls malloc at this commit.          *)
(***************************************************************************)
EXTENDS Integers, FiniteSets

CONSTANTS
    MAX_ORDER,  \* 18
    Width,      \* 32, the bits of an int
    NodeRoom,   \* nodes the kernel's heap has room for
    Handle,     \* the clients' pointers
    Sizes,      \* the sizes they ask for
    NoBlock

\* 1 << i.
Shifted ==
    LET double[i \in 0..Width - 1] == IF i = 0 THEN 1 ELSE 2 * double[i - 1]
    IN  [i \in 0..Width - 1 |-> double[i]]

\* A node is its order and its start.
Node == {n \in (0..MAX_ORDER) \X (0..Shifted[MAX_ORDER] - 1) : n[2] % Shifted[n[1]] = 0}

ASSUME BuddyAssumption ==
    /\ MAX_ORDER \in Nat \ {0} /\ Width \in Nat /\ MAX_ORDER < Width - 1 /\ NodeRoom \in Nat
    /\ Sizes \subseteq Int /\ \A s \in Sizes : s < Shifted[Width - 1]
    /\ NoBlock \notin Node

VARIABLES
    tree,       \* state of every node
    taken,      \* nodes held from the kernel's heap
    marked,     \* where there is a whole 0xdeadbeef
    block,      \* what each client holds
    mishap      \* history: "cut": a node with children was dropped; "null":
                \* written to through NULL; "hung": a loop without end

vars == <<tree, taken, marked, block, mishap>>

Root == <<MAX_ORDER, 0>>
Left(n) == <<n[1] - 1, n[2]>>
Right(n) == <<n[1] - 1, n[2] + Shifted[n[1] - 1]>>
Leaf(t, n) == n[1] = 0 \/ Left(n) \notin DOMAIN t
Bytes == [n \in Node |-> n[2]..n[2] + Shifted[n[1]] - 1]
Below(n) == {m \in Node : m[1] < n[1] /\ m[2] \in Bytes[n]}

\* The order that (1 << order) < size ends with.  1 << (Width - 1) is
\* negative, so that it does not end for more than 1 << (Width - 2).
Endless(size) == size > Shifted[Width - 2]
Order(size) == CHOOSE o \in 0..Width - 2 : Shifted[o] >= size /\ (o = 0 \/ Shifted[o - 1] < size)

-----------------------------------------------------------------------------
(* The tree.  A result has the tree, the nodes taken and what is returned. *)

\* All the nodes of N are split; the kmallocs are not checked.
split_buddy(s, N) ==
    LET halves == {Left(n) : n \in N} \cup {Right(n) : n \in N}
        taken_ == s.taken + 2 * Cardinality(N)
    IN  [s EXCEPT !.tree = [m \in DOMAIN @ \cup halves |-> IF m \in DOMAIN @ THEN @[m] ELSE "FREE"],
                  !.taken = taken_,
                  !.null = @ \/ (N # {} /\ taken_ > NodeRoom)]

\* The node that alloc_buddy returns, and the nodes it calls itself from.
Search(n, order) ==
    LET call[m \in Node] ==
            IF order > m[1] THEN [ret |-> NoBlock, from |-> {}]
            ELSE IF order = m[1] THEN [ret |-> m, from |-> {}]
            ELSE LET left == call[Left(m)]
                     right == call[Right(m)]
                 IN  IF left.ret # NoBlock THEN [left EXCEPT !.from = @ \cup {m}]
                     ELSE [ret |-> right.ret, from |-> left.from \cup right.from \cup {m}]
    IN  call[n]

\* What a search did: nodes without children were split on the way.
Granting(s, found) ==
    LET split == split_buddy(s, {m \in found.from : Leaf(s.tree, m)})
    IN  IF found.ret = NoBlock THEN [split EXCEPT !.ret = NoBlock]
        ELSE [split EXCEPT !.tree[found.ret] = "ALLOCATED", !.ret = found.ret]

\* The state of a node, and what is in use below it, do not matter.
alloc_buddy(s, n, order) == Granting(s, Search(n, order))

\* Mutant of merge_buddy: the pointer to the right child stays.
MergeKeepsRight(s, n) ==
    IF Leaf(s.tree, n) \/ "ALLOCATED" \in {s.tree[Left(n)], s.tree[Right(n)]} THEN s
    ELSE [s EXCEPT !.tree = [m \in DOMAIN @ \ (Below(Left(n)) \cup {Left(n)}) |-> @[m]], !.taken = @ - 2]

\* Only the children are given back: what is below them is lost.
merge_buddy(s, n) ==
    IF Leaf(s.tree, n) \/ "ALLOCATED" \in {s.tree[Left(n)], s.tree[Right(n)]} THEN s
    ELSE [s EXCEPT !.tree = [m \in DOMAIN @ \ Below(n) |-> @[m]],
                   !.taken = @ - 2,
                   !.cut = @ \/ ~Leaf(s.tree, Left(n)) \/ ~Leaf(s.tree, Right(n))]

\* The nodes free_buddy's loop goes through to a block, from the root.
Path(start, order) == {n \in Node : n[1] >= order /\ start \in Bytes[n]}
Parent(n) == CHOOSE p \in Path(n[2], n[1]) : p[1] = n[1] + 1

\* Mutant of free_buddy: the state of the node above is set.
FreeAbove(s, start, order) ==
    LET node == CHOOSE n \in Path(start, order) : n[1] = order
        root == IF node = Root THEN Root ELSE Parent(node)
    IN  IF node \notin DOMAIN s.tree THEN s
        ELSE merge_buddy([s EXCEPT !.tree[root] = "FREE"], root)

\* A block whose node is not there only gets a message.  The loop leaves root
\* and node the same for a block of order MAX_ORDER, whose children need not
\* exist: line 89 then reads through NULL, and merge_buddy returns at once.
free_buddy(s, start, order) ==
    LET node == CHOOSE n \in Path(start, order) : n[1] = order
        root == IF node = Root THEN Root ELSE Parent(node)
    IN  IF node \notin DOMAIN s.tree THEN s
        ELSE merge_buddy([s EXCEPT !.tree[node] = "FREE"], root)

-----------------------------------------------------------------------------
(* The mark. *)

\* Mutant of MarkOf: the mark is in the middle.
MarkMiddle(start, order) == start + Shifted[order] \div 2

\* The first of the mark's four bytes: three words before the last byte.
MarkOf(start, order) == start + Shifted[order] - 1 - 12

Written(marks, from, to) == {m \in marks : m > to \/ m + 3 < from}
set_dead_beef(marks, start, order) ==
    LET m == MarkOf(start, order) IN Written(marks, m, m + 3) \cup {m}

-----------------------------------------------------------------------------
(* What the clients call. *)

Now == [tree |-> tree, taken |-> taken, ret |-> NoBlock, null |-> FALSE, cut |-> FALSE]
Become(s) ==
    /\ tree' = s.tree /\ taken' = s.taken
    /\ mishap' = mishap \cup (IF s.null THEN {"null"} ELSE {}) \cup (IF s.cut THEN {"cut"} ELSE {})

Held(h) == block[h] # NoBlock

\* A grant, and what a block goes through by what all clients do: its mark
\* may be used, the mark of another small block may overlap it, and "over"
\* says that a block of its size or a larger one was freed.
Granted(node, size) == [start |-> node[2], size |-> size, over |-> FALSE, used |-> FALSE, overlapped |-> FALSE]
SeeGrant(b, order) == [b EXCEPT !.overlapped = @ \/ (order < 3 /\ Order(b.size) < 3 /\ Order(b.size) # order)]
SeeFree(b, order) == [b EXCEPT !.over = @ \/ order >= Order(b.size)]
SeeWrite(b, n) == [b EXCEPT !.used = @ \/ n > Shifted[Order(b.size)] - 13]
Others(h, Op(_)) == [i \in Handle |-> IF i = h \/ ~Held(i) THEN block[i] ELSE Op(block[i])]

Hang(size) ==
    /\ Endless(size)
    /\ mishap' = mishap \cup {"hung"}
    /\ UNCHANGED <<tree, taken, marked, block>>

\* malloc, calloc and realloc to a new size return NULL.
Refuse(size) ==
    /\ size <= 0 \/ (~Endless(size) /\ alloc_buddy(Now, Root, Order(size)).ret = NoBlock)
    /\ UNCHANGED vars

\* free and realloc of NULL only print a message.
Ignore(h) == ~Held(h) /\ UNCHANGED vars

\* malloc, and calloc, which clears the block from its first byte on.
Malloc(h, size, clear) ==
    /\ ~Held(h) /\ size > 0 /\ ~Endless(size)
    /\ LET order == Order(size)
           got == alloc_buddy(Now, Root, order)
           marks == set_dead_beef(marked, got.ret[2], order)
           fresh == Granted(got.ret, size)
       IN  /\ got.ret # NoBlock
           /\ Become(got)
           /\ marked' = IF clear THEN Written(marks, got.ret[2], got.ret[2] + size - 1) ELSE marks
           /\ block' = [Others(h, LAMBDA b : IF clear THEN SeeWrite(SeeGrant(b, order), size) ELSE SeeGrant(b, order))
                           EXCEPT ![h] = IF clear THEN SeeWrite(fresh, size) ELSE fresh]

\* The mark is looked at for a message only.
Free(h) ==
    /\ Held(h)
    /\ LET order == Order(block[h].size)
       IN  /\ Become(free_buddy(Now, block[h].start, order))
           /\ block' = [Others(h, LAMBDA b : SeeFree(b, order)) EXCEPT ![h] = NoBlock]
    /\ UNCHANGED marked

\* buddy_realloc: a new block, the old contents, and the old block's free.
\* The copy changes nothing when both start at the same address.
Realloc(h, size) ==
    /\ Held(h) /\ size > 0 /\ ~Endless(size)
    /\ LET old == Order(block[h].size)
           order == Order(size)
           got == alloc_buddy(Now, Root, order)
           marks == set_dead_beef(marked, got.ret[2], order)
           moved == got.ret[2] # block[h].start
       IN  /\ got.ret # NoBlock
           /\ Become(free_buddy(got, block[h].start, old))
           /\ marked' = IF moved THEN Written(marks, got.ret[2], got.ret[2] + block[h].size - 1) ELSE marks
           /\ block' = [Others(h, LAMBDA b : SeeFree(SeeGrant(b, order), old))
                           EXCEPT ![h] = SeeFree(Granted(got.ret, size), old)]

\* A client fills its block.
Fill(h) ==
    /\ Held(h)
    /\ LET b == block[h]
       IN  /\ marked' = Written(marked, b.start, b.start + b.size - 1)
           /\ block' = [Others(h, LAMBDA c : SeeWrite(c, b.size)) EXCEPT ![h] = SeeWrite(b, b.size)]
    /\ UNCHANGED <<tree, taken, mishap>>

Init ==
    /\ tree = [n \in {Root} |-> "FREE"] /\ taken = 0 /\ marked = {}
    /\ block = [h \in Handle |-> NoBlock] /\ mishap = {}

Next ==
    /\ mishap \cap {"null", "hung"} = {}
    /\ \/ \E size \in Sizes : Hang(size) \/ Refuse(size)
       \/ \E h \in Handle, size \in Sizes : Realloc(h, size) \/ \E clear \in BOOLEAN : Malloc(h, size, clear)
       \/ \E h \in Handle : Ignore(h) \/ Free(h) \/ Fill(h)

Spec == Init /\ [][Next]_vars

-----------------------------------------------------------------------------
\* A block that is held has its node, marked as in use, until the same client
\* or another one frees a block at least as large: a free clears the state of
\* one node and takes away what is below its parent (buddy.c:71-91).
NodeStays ==
    \A h \in Handle :
        Held(h) /\ ~block[h].over =>
            LET node == <<Order(block[h].size), block[h].start>>
            IN  node \in DOMAIN tree /\ tree[node] = "ALLOCATED"

\* Nodes come in pairs of halves under a node, and the kernel's heap holds
\* exactly those of the tree until merge_buddy drops a node with children; only
\* what is lost then lets the tree run out of nodes, if there was room for two of
\* every order (buddy.c:14-45, buddy.h:10-17).
NodesAccounted ==
    /\ \A n \in DOMAIN tree \ {Root} : {Parent(n), Left(Parent(n)), Right(Parent(n))} \subseteq DOMAIN tree
    /\ "cut" \notin mishap => taken = Cardinality(DOMAIN tree) - 1
    /\ "null" \in mishap /\ NodeRoom >= 2 * MAX_ORDER => "cut" \in mishap

\* The mark of a held block is there until some client uses its bytes up to
\* the mark, or a block of another of the three smallest orders, whose marks
\* overlap below the arena, is granted (mm.c:31-41).
MarkKept ==
    \A h \in Handle :
        LET b == block[h]
            order == Order(b.size)
        IN  Held(h) => \/ order > 3 /\ b.used
                       \/ order < 3 /\ b.overlapped
                       \/ b.start + Shifted[order] - 13 \in marked

\* What buddy.c:39-40 says: only lowest nodes are ever granted.
OnlyLowestGranted == \A n \in DOMAIN tree : tree[n] = "ALLOCATED" => Leaf(tree, n)

-----------------------------------------------------------------------------
(* The inductive invariant.  A search takes the left half at every node, so *)
(* all grants are at the arena's start, and the tree is the spine along     *)
(* which the start was halved, as far down as low, with the other halves.   *)
Spine(low) ==
    {Root} \cup ((low..MAX_ORDER - 1) \X {0}) \cup {<<o, Shifted[o]>> : o \in low..MAX_ORDER - 1}

Blocks ==
    [start : {0}, size : 1..Shifted[MAX_ORDER], over : BOOLEAN, used : BOOLEAN, overlapped : BOOLEAN]

TypeOK ==
    /\ block \in [Handle -> Blocks \cup {NoBlock}]
    /\ taken \in Int /\ marked \subseteq Int

SpineOK ==
    \E low \in 0..MAX_ORDER :
        /\ DOMAIN tree = Spine(low)
        /\ "cut" \notin mishap => taken = 2 * (MAX_ORDER - low)

NullOK == "null" \in mishap /\ NodeRoom >= 2 * MAX_ORDER => "cut" \in mishap

IInv == TypeOK /\ SpineOK /\ NullOK /\ NodeStays /\ MarkKept
=============================================================================
