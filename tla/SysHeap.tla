------------------------------- MODULE SysHeap -------------------------------
(***************************************************************************)
(* The kernel heap: kmalloc.c and sys_heap.c over the bitmap of bitmap.c.  *)
(*                                                                         *)
(* One bit of the bitmap stands for one byte of sys_heap, so a bit number  *)
(* is also a heap offset.  Blocks below SYS_HEAP_ALLOC_THRESHOLD are found *)
(* bit by bit (alloc_bits), the others byte by byte of the map, that is in *)
(* units of eight heap bytes (alloc_aligned_bits).  Both search next-fit   *)
(* from the static "last" of sys_heap_alloc.                               *)
(*                                                                         *)
(* A search does not reset its count when it passes the end of the map, so *)
(* a run may straddle the end: the block it returns starts before the heap *)
(* (or, when "last" stands past the map, ends after it), and marking it    *)
(* writes outside sys_heap_bitmap.  "broken" records that, and a kfree or  *)
(* a krealloc of an address that kmemalign moved into its block, which     *)
(* frees other bytes than were reserved.  Both end the model: what the     *)
(* program does with a neighbouring object overwritten is not modelled.  A *)
(* byte that is only read past the map is an arbitrary value.              *)
(***************************************************************************)
EXTENDS Integers, FiniteSets

CONSTANTS
    MapSize,    \* sys_heap_bitmap_size, the bytes of the bitmap
    Base,       \* the address of sys_heap, for the arithmetic of kmemalign
    Handle,     \* the pointers clients keep
    Sizes,      \* the sizes clients ask for
    Aligns,     \* the alignments clients ask kmemalign for
    AddrBits,   \* the width of an address: 32, the heap being below 4 GB (ld.script)
    NoBlock     \* a pointer that is NULL

ASSUME MapSizeAssumption == MapSize \in Nat /\ MapSize >= 2
ASSUME BaseAssumption == Base \in Nat /\ Base >= 8 * MapSize
ASSUME SizesAssumption == Sizes \subseteq Nat \ {0}
ASSUME AlignsAssumption == Aligns \subseteq Nat \ {0}
ASSUME AddrBitsAssumption ==
    AddrBits \in Nat /\ \A align \in Aligns : Base + 8 * MapSize + 8 + align < 2^AddrBits
ASSUME NoBlockAssumption ==
    NoBlock \notin [index : Int, asked : Nat, addr : Int, size : Nat]

VARIABLES
    bitmap,     \* the bits of sys_heap_bitmap that are set
    last,       \* the static "last" of sys_heap_alloc
    block,      \* block[h]: the block client h holds, or NoBlock
    broken,     \* history: an access went out of the allocator's discipline
    hung        \* alloc_bits is in a search that never ends

vars == <<bitmap, last, block, broken, hung>>

N == 8 * MapSize
Bits == 0..(N - 1)
Threshold == 16

\* A block: the offset and size sys_heap_alloc was asked for, and the address
\* and size the client knows (they differ for kmemalign only).
Block == [index : Int, asked : Nat, addr : Int, size : Nat]
Whole(i, s) == [index |-> i, asked |-> s, addr |-> i, size |-> s]

Bytes(size) == (size + 7) \div 8
ByteRun(i, n) == (8 * i)..(8 * i + 8 * n - 1)

-----------------------------------------------------------------------------
(* alloc_bits.  The positions a search visits are numbered on from last;   *)
(* position v is bit v % N, except that a search started with last past    *)
(* the map first reads the rest of the byte after it ("past" are the bits  *)
(* found set there).                                                       *)

PastByte == N..(N + 7)
Bit(v) == IF last >= N /\ v < N + 8 THEN v ELSE v % N
Busy(past, v) == Bit(v) \in bitmap \cup past

\* The lap test compares byte numbers: the bits before last in last's own
\* byte are never looked at again, and from past the map the test never
\* holds (every run there is shows within two laps).
\* Mutant of SearchEnd: the search stops at the end of the map.
SearchEndNoWrap == IF last < N THEN N ELSE 2 * N + 8 + Threshold
\* Mutant of SearchEnd: started past the map, the search ends when it comes
\* back to byte 0.
SearchEndAtZero == IF last < N THEN N + 8 * (last \div 8) ELSE N + 8

SearchEnd == IF last < N THEN N + 8 * (last \div 8) ELSE 2 * N + 8 + Threshold

\* Mutant of Ends: a bit in use does not reset the count of free bits.
EndsNoReset(past, size) ==
    {e \in (last + size)..SearchEnd :
        ~Busy(past, e - 1) /\ Cardinality({v \in last..(e - 1) : ~Busy(past, v)}) >= size}

Ends(past, size) ==
    {e \in (last + size)..SearchEnd : \A v \in (e - size)..(e - 1) : ~Busy(past, v)}

FirstEnd(past, size) ==
    LET ends == Ends(past, size) IN {e \in ends : \A f \in ends : e <= f}

\* The run that ends before position e is contiguous and inside the map.
InMap(e, size) ==
    /\ last >= N => e - size >= N + 8
    /\ (e - size) \div N = (e - 1) \div N

\* A search uses at most one free run of that byte, so the rest may be set.
AnyPast ==
    IF last < N THEN {{}} ELSE {PastByte \ (a..b) : a \in PastByte, b \in PastByte \cup {N - 1}}

\* What a search leaves behind: index is -1 for "no run", and also when a
\* straddling run happens to start one bit before the map.
Failed == [index |-> -1, last |-> last, map |-> bitmap, wild |-> FALSE]
\* Mutant of FoundBits: the position is kept without the "% map_size".
FoundBitsUnwrapped(e, size) ==
    [index |-> Bit(e - 1) + 1 - size, last |-> e,
     map   |-> bitmap \cup ((Bit(e - 1) + 1 - size..Bit(e - 1)) \cap Bits),
     wild  |-> ~InMap(e, size)]

FoundBits(e, size) ==
    LET top == Bit(e - 1) + 1
    IN  [index |-> top - size,
         last  |-> top,
         map   |-> bitmap \cup (((top - size)..(top - 1)) \cap Bits),
         wild  |-> ~InMap(e, size)]

alloc_bits(size) ==
    {Failed : x \in {p \in AnyPast : last < N /\ Ends(p, size) = {}}}
    \cup UNION {{FoundBits(e, size) : e \in FirstEnd(p, size)} : p \in AnyPast}

-----------------------------------------------------------------------------
(* alloc_aligned_bits: the same, over whole bytes of the map, except that  *)
(* the lap test comes after a byte is counted: a run found on the last     *)
(* byte of the lap is given up.                                            *)

StartByte == Bytes(last) % MapSize

\* Mutant of AlignedEnds: only the first bit of a map byte is tested.
AlignedEndsByFirstBit(n) ==
    {e \in (StartByte + n)..(StartByte + MapSize - 1) :
        \A v \in (e - n)..(e - 1) : 8 * (v % MapSize) \notin bitmap}

AlignedEnds(n) ==
    {e \in (StartByte + n)..(StartByte + MapSize - 1) :
        \A v \in (e - n)..(e - 1) : ByteRun(v % MapSize, 1) \cap bitmap = {}}

FirstAlignedEnd(n) ==
    LET ends == AlignedEnds(n) IN {e \in ends : \A f \in ends : e <= f}

FoundBytes(e, n) ==
    LET top == e % MapSize
    IN  [index |-> 8 * top - 8 * n,
         last  |-> 8 * top,
         map   |-> bitmap \cup (ByteRun(top - n, n) \cap Bits),
         wild  |-> ~(n <= top)]

alloc_aligned_bits(size) ==
    IF AlignedEnds(Bytes(size)) = {}
    THEN {Failed}
    ELSE {FoundBytes(e, Bytes(size)) : e \in FirstAlignedEnd(Bytes(size))}

-----------------------------------------------------------------------------
(* sys_heap.c *)

\* Mutant of sys_heap_alloc: every size is searched bit by bit.
BitwiseAlloc(size) == alloc_bits(size)

sys_heap_alloc(size) ==
    IF size < Threshold THEN alloc_bits(size) ELSE alloc_aligned_bits(size)

\* The bits sys_heap_free clears: exactly the block for a small one, and
\* whole bytes from the first boundary at or after the address otherwise.
\* Mutant of Freed: free_bits clears one bit too many ("i <= size").
FreedOneMore(addr, size) ==
    IF size < Threshold
    THEN addr..(addr + size)
    ELSE ByteRun(Bytes(addr), Bytes(size))

Freed(addr, size) ==
    IF size < Threshold
    THEN addr..(addr + size - 1)
    ELSE ByteRun(Bytes(addr), Bytes(size))

\* "x & ~mask": the one number whose bits are those of x that mask has not.
Binary(x, k) == (x \div 2^k) % 2
Cleared(x, mask) ==
    {a \in (x - mask)..x :
        \A k \in 0..(AddrBits - 1) : Binary(a, k) = IF Binary(mask, k) = 1 THEN 0 ELSE Binary(x, k)}

\* Where kmemalign moves the address of the block at i: to a multiple of
\* align when that is a power of two.
AlignUp(i, align) == {a - Base : a \in Cleared(Base + i + align, align - 1)}

\* The bits a block of s bytes at i is entitled to.
Extent(i, s) == IF s < Threshold THEN i..(i + s - 1) ELSE i..(i + 8 * Bytes(s) - 1)
Reserved(b) == Extent(b.index, b.asked)
Live(h) == block[h] # NoBlock
Held(h) == IF Live(h) THEN Reserved(block[h]) ELSE {}

-----------------------------------------------------------------------------
(* kmalloc.c *)

Running == ~broken /\ ~hung

\* A search that ends as r.
Searched(r) ==
    /\ last' = r.last
    /\ hung' = hung

Moved(h) == block[h].addr # block[h].index

Kmalloc(h, size) ==
    /\ ~Live(h) /\ Running
    /\ \E r \in sys_heap_alloc(size) :
        /\ Searched(r) /\ broken' = r.wild
        /\ bitmap' = r.map
        /\ block' = IF r.index = -1 THEN block
                    ELSE [block EXCEPT ![h] = Whole(r.index, size)]

Kmemalign(h, size, align) ==
    /\ ~Live(h) /\ Running
    /\ \E r \in sys_heap_alloc(size + align) :
        /\ Searched(r) /\ broken' = r.wild
        /\ bitmap' = r.map
        /\ IF r.index = -1 THEN UNCHANGED block
           ELSE \E moved \in AlignUp(r.index, align) :
                   block' = [block EXCEPT ![h] =
                                [index |-> r.index, asked |-> size + align,
                                 addr |-> moved, size |-> size]]

\* kfree and krealloc hand sys_heap_free the address and size the client has.
Kfree(h) ==
    /\ Running /\ Live(h)
    /\ bitmap' = bitmap \ Freed(block[h].addr, block[h].size)
    /\ block' = [block EXCEPT ![h] = NoBlock]
    /\ broken' = Moved(h)
    /\ UNCHANGED <<last, hung>>

Krealloc(h, size) ==
    /\ Live(h) /\ Running
    /\ \E r \in sys_heap_alloc(size) :
        /\ Searched(r)
        /\ IF r.index = -1
           THEN bitmap' = r.map /\ broken' = r.wild /\ UNCHANGED block
           ELSE /\ bitmap' = r.map \ Freed(block[h].addr, block[h].size)
                /\ broken' = (r.wild \/ Moved(h))
                /\ block' = [block EXCEPT ![h] = Whole(r.index, size)]

\* The sizes sys_heap_alloc is asked for.
Asked == Sizes \cup {size + align : size \in Sizes, align \in Aligns}

\* alloc_bits started past the map finds no run and goes round for ever.
Hang(size) ==
    /\ Running
    /\ size < Threshold /\ N <= last
    /\ \E past \in AnyPast : Ends(past, size) = {}
    /\ hung' = TRUE
    /\ UNCHANGED <<bitmap, last, block, broken>>

\* The loop of alloc_bits going round, and the end of the model.
Stopped == ~Running /\ UNCHANGED vars

Init ==
    /\ bitmap = {}
    /\ last = 0
    /\ block = [h \in Handle |-> NoBlock]
    /\ broken = FALSE
    /\ hung = FALSE

Next ==
    \/ \E h \in Handle, size \in Sizes : Kmalloc(h, size)
    \/ \E h \in Handle, size \in Sizes, align \in Aligns : Kmemalign(h, size, align)
    \/ \E h \in Handle : Kfree(h)
    \/ \E h \in Handle, size \in Sizes : Krealloc(h, size)
    \/ \E size \in Asked : Hang(size)
    \/ Stopped

Spec == Init /\ [][Next]_vars

-----------------------------------------------------------------------------
\* Type correctness of the heap's state (bitmap.c, sys_heap.c:9-29).
TypeOK ==
    /\ bitmap \subseteq Bits
    /\ last \in 0..(N + 8)
    /\ block \in [Handle -> Block \cup {NoBlock}]
    /\ broken \in BOOLEAN
    /\ hung \in BOOLEAN

\* Two clients never hold a common byte: next-fit searches, reallocations and
\* the two granularities of free never hand out or release part of a block
\* somebody else has (bitmap.c:13-73).
Exclusive ==
    ~broken => \A g, h \in Handle : g # h => Held(g) \cap Held(h) = {}

\* The bitmap is exactly the memory that is held: nothing leaks, nothing held
\* is marked free, and so every block lies inside the heap (sys_heap.c:9-48).
MapExact ==
    ~broken => bitmap = UNION {Held(h) : h \in Handle}

\* What a client passes to kfree denotes exactly what was reserved for it,
\* unless kmemalign moved its address: sys_heap_free rounds the address of a
\* large block up and its size to whole bytes of the map, and those are the
\* block's own only because every large block starts on one (bitmap.c:60-73).
Freeable ==
    ~broken => \A h \in Handle : Live(h) =>
        LET b == block[h]
        IN  /\ b.addr = b.index => Freed(b.addr, b.size) = Reserved(b)
            /\ b.asked > 0
            /\ b.asked >= Threshold => b.index % 8 = 0

\* The inductive invariant behind the theorems of SysHeapProofs.
IInv == TypeOK /\ Exclusive /\ MapExact /\ Freeable

FreeBits(i, size) == \A v \in i..(i + size - 1) : v \in Bits \ bitmap
FreeBytes(i, n) == ByteRun(i, n) \cap bitmap = {} /\ i + n <= MapSize

\* An allocation fails only when every free run that is large enough touches
\* the one byte of the map its search cannot reach: the byte it starts in for
\* alloc_bits, the byte before that for alloc_aligned_bits (bitmap.c:19-25, 44-53).
FailsOnlyWhenFull ==
    \A size \in Asked : Failed \in sys_heap_alloc(size) =>
        IF size < Threshold
        THEN \A i \in Bits : FreeBits(i, size) =>
                (last \div 8) \in (i \div 8)..((i + size - 1) \div 8)
        ELSE \A i \in 0..(MapSize - 1) : FreeBytes(i, Bytes(size)) =>
                ((StartByte - 1) % MapSize) \in i..(i + Bytes(size) - 1)

\* The endless search of alloc_bits is at least an honest one: it starts only
\* when no run of that many free bytes exists anywhere (bitmap.c:17-31).
HangsOnlyWhenFull ==
    hung => \E size \in Asked :
        size < Threshold /\ \A i \in Bits : ~FreeBits(i, size)

\* The heap implements KernelHeap: clients cannot tell the bitmap from an
\* allocator that grants any free run, until "broken".
Abstract == INSTANCE KernelHeap WITH
    Cells <- Bits,
    Request <- Asked,
    Granule <- 8,
    owned <- [h \in Handle |-> Held(h)]

ImplementsKernelHeap == Abstract!Spec
=============================================================================
