---------------------------- MODULE SysHeapProofs ----------------------------
(***************************************************************************)
(* For every size of the heap and every set of clients and sizes: the      *)
(* blocks of the kernel heap never overlap, its bitmap is exactly the      *)
(* memory that is held, it fails and hangs only when its search has no     *)
(* room to find, and it implements KernelHeap.                             *)
(***************************************************************************)
EXTENDS SysHeap, TLAPS

USE MapSizeAssumption, SizesAssumption, AlignsAssumption, NoBlockAssumption

-----------------------------------------------------------------------------
(* Arithmetic of bits and bytes. *)

\* A run of bits that does not cross a multiple of N keeps its order under
\* "% N": the bits a search saw are the bits it marks (bitmap.c:22, 32-34).
LEMMA RunModulo ==
    ASSUME NEW m \in Nat, m > 0, NEW a \in Nat, NEW b \in Nat,
           a <= b, a \div m = b \div m, NEW v \in a..b
    PROVE  v % m = (b % m) - (b - v)
    OBVIOUS

\* The memory a request is granted is never empty and, for a large one, is
\* whole bytes of the map (bitmap.c:42).
LEMMA BytesOfSize ==
    ASSUME NEW size \in Nat
    PROVE  /\ Bytes(size) \in Nat
           /\ size <= 8 * Bytes(size) /\ 8 * Bytes(size) <= size + 7
           /\ size > 0 => Bytes(size) > 0
    BY DEF Bytes

\* kmemalign never returns the address of the block itself, whatever align
\* is: clearing bits takes align - 1 away at most (sys_heap.c:64).
LEMMA AlignUpMoves ==
    ASSUME NEW i \in Int, NEW align \in Aligns, NEW moved \in AlignUp(i, align)
    PROVE  moved \in Int /\ moved > i
<1> DEFINE x == Base + i + align
<1>1. PICK a \in (x - (align - 1))..x : moved = a - Base
    BY DEF AlignUp, Cleared
<1>2. Base \in Int /\ x \in Int /\ a \in Int /\ align \in Nat /\ a >= x - (align - 1)
    BY <1>1, BaseAssumption
<1> QED  BY <1>1, <1>2

-----------------------------------------------------------------------------
(* What a search returns. *)

\* The result of a search for "size" bytes: either nothing, with the map as
\* it was, or a free run inside the heap, now marked; unless it was wild.
SearchResult(r, size) ==
    /\ r.index \in Int /\ r.last \in 0..(N + 8)
    /\ r.map \subseteq Bits /\ r.wild \in BOOLEAN
    /\ ~r.wild =>
        \/ r.index = -1 /\ r.map = bitmap
        \/ /\ r.index \in Nat
           /\ size >= Threshold => r.index % 8 = 0
           /\ Extent(r.index, size) \subseteq Bits \ bitmap
           /\ r.map = bitmap \cup Extent(r.index, size)

\* alloc_bits returns nothing or a free run it has marked (bitmap.c:13-36).
LEMMA AllocBitsResult ==
    ASSUME TypeOK, NEW size \in Nat, 0 < size, size < Threshold,
           NEW r \in alloc_bits(size)
    PROVE  SearchResult(r, size)
<1>1. N \in Nat /\ N >= 16 /\ last \in Nat /\ bitmap \subseteq Bits
    BY DEF N, TypeOK
<1>2. CASE r = Failed
    BY <1>1, <1>2 DEF Failed, SearchResult, TypeOK, N
<1>3. CASE \E past \in AnyPast : \E e \in FirstEnd(past, size) : r = FoundBits(e, size)
    <2>1. PICK past \in AnyPast : \E e \in FirstEnd(past, size) : r = FoundBits(e, size)
        BY <1>3
    <2>2. PICK e \in Ends(past, size) : r = FoundBits(e, size)
        BY <2>1 DEF FirstEnd
    <2>3. e \in Nat /\ e >= last + size /\ \A v \in (e - size)..(e - 1) : ~Busy(past, v)
        BY <1>1, <2>2 DEF Ends
    <2>4. Bit(e - 1) \in 0..(N + 7)
        BY <1>1, <2>3 DEF Bit
    <2> DEFINE top == Bit(e - 1) + 1
    <2>5. /\ r.index = top - size /\ r.last = top
          /\ r.map = bitmap \cup (((top - size)..(top - 1)) \cap Bits)
          /\ r.wild = ~InMap(e, size)
        BY <2>2 DEF FoundBits
    <2>a. /\ r.index \in Int /\ r.last \in 0..(N + 8)
          /\ r.map \subseteq Bits
        BY <1>1, <2>4, <2>5
    <2>b. r.wild \in BOOLEAN /\ (~r.wild => InMap(e, size))
        BY <2>5, Zenon
    <2>6. SUFFICES ASSUME InMap(e, size)
                   PROVE  /\ top - size \in Nat
                          /\ Extent(top - size, size) = (top - size)..(top - 1)
                          /\ (top - size)..(top - 1) \subseteq Bits \ bitmap
        <3>1. size < 16
            BY DEF Threshold
        <3>2. CASE InMap(e, size)
            BY <2>5, <2>6, <2>a, <2>b, <3>1, <3>2 DEF SearchResult, Threshold
        <3>3. CASE ~InMap(e, size)
            BY <2>a, <2>b, <3>3 DEF SearchResult
        <3> QED  BY <3>2, <3>3
    <2>7. \A v \in (e - size)..(e - 1) : Bit(v) = v % N /\ v \in Nat
        BY <1>1, <2>3, <2>6 DEF InMap, Bit
    <2>8. \A v \in (e - size)..(e - 1) : Bit(v) = Bit(e - 1) - (e - 1 - v)
        <3> TAKE v \in (e - size)..(e - 1)
        <3>1. (e - size) \div N = (e - 1) \div N
            BY <2>6 DEF InMap
        <3>2. v % N = ((e - 1) % N) - ((e - 1) - v)
            BY <1>1, <2>3, <3>1, RunModulo
        <3> QED  BY <1>1, <2>3, <2>7, <3>2
    <2>9. \A v \in (e - size)..(e - 1) : Bit(v) \in Bits \ bitmap
        BY <1>1, <2>3, <2>7 DEF Busy, Bits
    <2>10. \A w \in (top - size)..(top - 1) : w \in Bits \ bitmap
        <3> TAKE w \in (top - size)..(top - 1)
        <3>1. e - (top - w) \in (e - size)..(e - 1) /\ w = Bit(e - 1) - (e - 1 - (e - (top - w)))
            BY <2>3, <2>4
        <3> QED  BY <2>8, <2>9, <3>1
    <2>11. top - size \in Nat
        BY <2>4, <2>10, 0 < size DEF Bits
    <2> QED  BY <2>4, <2>10, <2>11 DEF Extent
<1> QED  BY <1>2, <1>3 DEF alloc_bits

\* alloc_aligned_bits likewise, and its block starts on a byte of the map
\* (bitmap.c:39-58).
LEMMA AllocAlignedBitsResult ==
    ASSUME TypeOK, NEW size \in Nat, size >= Threshold,
           NEW r \in alloc_aligned_bits(size)
    PROVE  SearchResult(r, size)
<1> DEFINE n == Bytes(size)
<1>1. N \in Nat /\ N = 8 * MapSize /\ last \in Nat /\ bitmap \subseteq Bits
    BY DEF N, TypeOK
<1>2. n \in Nat /\ n > 0
    BY BytesOfSize DEF Threshold
<1>3. CASE r = Failed
    BY <1>1, <1>3 DEF Failed, SearchResult, TypeOK, N
<1>4. CASE \E e \in FirstAlignedEnd(n) : r = FoundBytes(e, n)
    <2>1. PICK e \in AlignedEnds(n) : r = FoundBytes(e, n)
        BY <1>4 DEF FirstAlignedEnd
    <2>2. StartByte \in 0..(MapSize - 1)
        BY <1>1 DEF StartByte, Bytes
    <2>3. /\ e \in Nat /\ e >= StartByte + n /\ e <= StartByte + MapSize - 1
          /\ \A v \in (e - n)..(e - 1) : ByteRun(v % MapSize, 1) \cap bitmap = {}
        BY <1>2, <2>1, <2>2 DEF AlignedEnds
    <2> DEFINE top == e % MapSize
    <2>4. top \in 0..(MapSize - 1)
        BY <2>3
    <2>5. /\ r.index = 8 * top - 8 * n /\ r.last = 8 * top
          /\ r.map = bitmap \cup (ByteRun(top - n, n) \cap Bits)
          /\ r.wild = ~(n <= top)
        BY <2>1 DEF FoundBytes
    <2>a. /\ r.index \in Int /\ r.last \in 0..(N + 8)
          /\ r.map \subseteq Bits
        BY <1>1, <1>2, <2>4, <2>5
    <2>b. r.wild \in BOOLEAN /\ (~r.wild => n <= top)
        BY <2>5, Zenon
    <2>6. SUFFICES ASSUME n <= top
                   PROVE  /\ (8 * top - 8 * n) % 8 = 0
                          /\ Extent(8 * top - 8 * n, size) = ByteRun(top - n, n)
                          /\ ByteRun(top - n, n) \subseteq Bits \ bitmap
        <3>1. CASE n <= top
            <4>1. r.index \in Nat
                BY <1>2, <2>4, <2>5, <3>1
            <4> QED  BY <2>5, <2>6, <2>a, <2>b, <3>1, <4>1 DEF SearchResult
        <3>2. CASE ~(n <= top)
            BY <2>5, <2>a, <2>b, <3>2 DEF SearchResult
        <3> QED  BY <3>1, <3>2
    <2>7. e = top \/ e = top + MapSize
        BY <2>2, <2>3
    <2>8. \A u \in (top - n)..(top - 1) : ByteRun(u, 1) \cap bitmap = {}
        <3> TAKE u \in (top - n)..(top - 1)
        <3>1. u \in 0..(MapSize - 1) /\ u % MapSize = u
            BY <1>2, <2>4, <2>6
        <3>2. (u + MapSize) % MapSize = u
            BY <3>1
        <3> QED  BY <1>2, <2>3, <2>4, <2>6, <2>7, <3>1, <3>2
    <2>9. \A w \in ByteRun(top - n, n) : w \in Bits \ bitmap
        <3> TAKE w \in ByteRun(top - n, n)
        <3>1. w \in Nat /\ w \div 8 \in (top - n)..(top - 1) /\ w \in ByteRun(w \div 8, 1)
            BY <1>2, <2>4, <2>6 DEF ByteRun
        <3>2. w \in Bits
            BY <1>1, <2>4, <3>1 DEF Bits
        <3> QED  BY <2>8, <3>1, <3>2
    <2>10. Extent(8 * top - 8 * n, size) = ByteRun(top - n, n)
        BY <1>2, <2>4 DEF Extent, ByteRun, Threshold
    <2> QED  BY <1>2, <2>4, <2>6, <2>9, <2>10
<1> QED  BY <1>3, <1>4 DEF alloc_aligned_bits

\* Whatever sys_heap_alloc searches with, the result is the same kind.
LEMMA AllocResult ==
    ASSUME TypeOK, NEW size \in Nat, 0 < size, NEW r \in sys_heap_alloc(size)
    PROVE  SearchResult(r, size)
    BY AllocBitsResult, AllocAlignedBitsResult DEF sys_heap_alloc, Threshold

-----------------------------------------------------------------------------
(* Type correctness. *)

\* The state of the heap keeps its types, wild searches included.
THEOREM TypeCorrect == Spec => []TypeOK
<1>1. Init => TypeOK
    <2>1. 0 \in 0..(N + 8)
        BY DEF N
    <2> QED  BY <2>1 DEF Init, TypeOK
<1>2. TypeOK /\ [Next]_vars => TypeOK'
    <2> SUFFICES ASSUME TypeOK, [Next]_vars PROVE TypeOK'
        OBVIOUS
    <2>1. ASSUME NEW h \in Handle, NEW size \in Sizes, Kmalloc(h, size) PROVE TypeOK'
        <3>1. PICK r \in sys_heap_alloc(size) :
                /\ Searched(r) /\ broken' = r.wild /\ bitmap' = r.map
                /\ block' = IF r.index = -1 THEN block
                            ELSE [block EXCEPT ![h] = Whole(r.index, size)]
            BY <2>1 DEF Kmalloc
        <3>2. SearchResult(r, size)
            BY AllocResult
        <3>3. Whole(r.index, size) \in Block
            BY <3>2 DEF SearchResult, Whole, Block
        <3> QED  BY <3>1, <3>2, <3>3 DEF SearchResult, Searched, TypeOK, N, Bits
    <2>2. ASSUME NEW h \in Handle, NEW size \in Sizes, NEW align \in Aligns,
                 Kmemalign(h, size, align)
          PROVE  TypeOK'
        <3>1. PICK r \in sys_heap_alloc(size + align) :
                /\ Searched(r) /\ broken' = r.wild /\ bitmap' = r.map
                /\ IF r.index = -1 THEN UNCHANGED block
                   ELSE \E moved \in AlignUp(r.index, align) :
                          block' = [block EXCEPT ![h] =
                                      [index |-> r.index, asked |-> size + align,
                                       addr |-> moved, size |-> size]]
            BY <2>2 DEF Kmemalign
        <3>2. SearchResult(r, size + align)
            BY AllocResult
        <3>3. \A moved \in AlignUp(r.index, align) :
                [index |-> r.index, asked |-> size + align, addr |-> moved, size |-> size] \in Block
            <4>1. size + align \in Nat /\ size \in Nat
                OBVIOUS
            <4>2. r.index \in Int
                BY <3>2 DEF SearchResult
            <4> QED  BY <4>1, <4>2, AlignUpMoves DEF Block
        <3> QED  BY <3>1, <3>2, <3>3 DEF SearchResult, Searched, TypeOK, N, Bits
    <2>3. ASSUME NEW h \in Handle, Kfree(h) PROVE TypeOK'
        BY <2>3 DEF Kfree, Moved, TypeOK
    <2>4. ASSUME NEW h \in Handle, NEW size \in Sizes, Krealloc(h, size) PROVE TypeOK'
        <3>1. PICK r \in sys_heap_alloc(size) :
                /\ Searched(r)
                /\ IF r.index = -1
                   THEN bitmap' = r.map /\ broken' = r.wild /\ UNCHANGED block
                   ELSE /\ bitmap' = r.map \ Freed(block[h].addr, block[h].size)
                        /\ broken' = (r.wild \/ Moved(h))
                        /\ block' = [block EXCEPT ![h] = Whole(r.index, size)]
            BY <2>4 DEF Krealloc
        <3>2. SearchResult(r, size)
            BY AllocResult
        <3>3. Whole(r.index, size) \in Block
            BY <3>2 DEF SearchResult, Whole, Block
        <3> QED  BY <3>1, <3>2, <3>3 DEF SearchResult, Searched, TypeOK, N, Bits
    <2>5. ASSUME NEW size \in Asked, Hang(size) PROVE TypeOK'
        BY <2>5 DEF Hang, TypeOK, N, Bits
    <2>6. CASE UNCHANGED vars
        BY <2>6 DEF vars, TypeOK, N, Bits
    <2> QED  BY <2>1, <2>2, <2>3, <2>4, <2>5, <2>6 DEF Next, Stopped
<1> QED  BY <1>1, <1>2, PTL DEF Spec

-----------------------------------------------------------------------------
(* Integrity: the blocks are disjoint and the bitmap is their union. *)

\* sys_heap_free clears what sys_heap_alloc reserved, for a block that starts
\* on a byte of the map or is freed bit by bit (bitmap.c:60-73).
LEMMA FreedIsExtent ==
    ASSUME NEW i \in Int, NEW size \in Nat, size >= Threshold => i % 8 = 0
    PROVE  Freed(i, size) = Extent(i, size)
<1>1. CASE size < Threshold
    BY <1>1 DEF Freed, Extent
<1>2. CASE size >= Threshold
    <2>1. 8 * Bytes(i) = i
        BY <1>2 DEF Bytes
    <2> QED  BY <1>2, <2>1, BytesOfSize DEF Freed, Extent, ByteRun, Threshold
<1> QED  BY <1>1, <1>2 DEF Threshold

\* Exchanging what h holds for free bits, in the blocks and in the bitmap,
\* keeps the blocks disjoint and the bitmap exact.
LEMMA Exchange ==
    ASSUME NEW h \in Handle, NEW X, ~broken, Exclusive, MapExact,
           X \cap bitmap = {},
           bitmap' = (bitmap \cup X) \ Held(h),
           \A g \in Handle : Held(g)' = IF g = h THEN X ELSE Held(g)
    PROVE  Exclusive' /\ MapExact'
<1>1. \A g \in Handle : Held(g) \subseteq bitmap
    BY DEF MapExact
<1>2. ASSUME NEW f \in Handle, NEW g \in Handle, f # g
      PROVE  Held(f)' \cap Held(g)' = {}
    BY <1>1, <1>2 DEF Exclusive
<1>3. \A w : w \in bitmap' <=> \E g \in Handle : w \in Held(g)'
    BY <1>1 DEF Exclusive, MapExact
<1> QED  BY <1>2, <1>3 DEF Exclusive, MapExact

\* A client without a block is granted the free run r found.
LEMMA Granted ==
    ASSUME IInv, ~broken, NEW h \in Handle, ~Live(h),
           NEW size \in Nat, 0 < size, NEW r, SearchResult(r, size), ~r.wild, r.index # -1,
           NEW b \in Block, b.index = r.index, b.asked = size,
           b.addr = b.index => Freed(b.addr, b.size) = Reserved(b),
           bitmap' = r.map, block' = [block EXCEPT ![h] = b]
    PROVE  Exclusive' /\ MapExact' /\ Freeable'
<1> DEFINE X == Extent(r.index, size)
<1>1. /\ X \subseteq Bits \ bitmap /\ r.map = bitmap \cup X
      /\ size >= Threshold => r.index % 8 = 0
    BY DEF SearchResult
<1>2. block'[h] = b /\ \A g \in Handle : g # h => block'[g] = block[g]
    BY DEF IInv, TypeOK
<1>3. \A g \in Handle : Held(g)' = IF g = h THEN X ELSE Held(g)
    BY <1>2, NoBlockAssumption DEF Held, Live, Reserved, Block
<1>4. Held(h) = {}
    BY DEF Held
<1>5. Exclusive' /\ MapExact'
    BY <1>1, <1>3, <1>4, Exchange DEF IInv
<1>6. Freeable'
    BY <1>1, <1>2 DEF Freeable, IInv, Live, Reserved
<1> QED  BY <1>5, <1>6

\* A block of "size" bytes where a search put it can be freed.
LEMMA WholeFreeable ==
    ASSUME NEW size \in Nat, NEW r, SearchResult(r, size), ~r.wild, r.index # -1
    PROVE  /\ Whole(r.index, size) \in Block
           /\ Freed(r.index, size) = Reserved(Whole(r.index, size))
<1>1. r.index \in Int /\ (size >= Threshold => r.index % 8 = 0)
    BY DEF SearchResult
<1> QED  BY <1>1, FreedIsExtent DEF Whole, Block, Reserved

\* The inductive invariant is preserved by every step.
LEMMA IInvStep == IInv /\ [Next]_vars /\ TypeOK' => IInv'
<1> SUFFICES ASSUME IInv, [Next]_vars, TypeOK' PROVE Exclusive' /\ MapExact' /\ Freeable'
    BY DEF IInv
<1>0. TypeOK
    BY DEF IInv
<1>a. ASSUME broken' PROVE Exclusive' /\ MapExact' /\ Freeable'
    BY <1>a DEF Exclusive, MapExact, Freeable
\* Nothing the invariant speaks of changes: a failed search, a hang, a stutter.
<1>b. ASSUME UNCHANGED <<bitmap, block>>, ~broken
      PROVE  Exclusive' /\ MapExact' /\ Freeable'
    BY <1>b DEF IInv, Exclusive, MapExact, Freeable, Held, Live
<1>1. ASSUME NEW h \in Handle, NEW size \in Sizes, Kmalloc(h, size)
      PROVE  Exclusive' /\ MapExact' /\ Freeable'
    <2>1. PICK r \in sys_heap_alloc(size) :
            /\ Searched(r) /\ broken' = r.wild /\ bitmap' = r.map
            /\ block' = IF r.index = -1 THEN block
                        ELSE [block EXCEPT ![h] = Whole(r.index, size)]
        BY <1>1 DEF Kmalloc
    <2>2. SearchResult(r, size) /\ ~broken /\ ~Live(h) /\ broken' = r.wild
        BY <1>0, <1>1, <2>1, AllocResult DEF Kmalloc, Running, Searched
    <2>3. CASE r.wild
        BY <1>a, <2>2, <2>3
    <2>4. CASE ~r.wild /\ r.index = -1
        <3>1. r.map = bitmap
            BY <2>2, <2>4 DEF SearchResult
        <3> QED  BY <1>b, <2>1, <2>2, <2>4, <3>1
    <2>5. CASE ~r.wild /\ r.index # -1
        <3>1. /\ Whole(r.index, size) \in Block
              /\ Freed(r.index, size) = Reserved(Whole(r.index, size))
            BY <2>2, <2>5, WholeFreeable
        <3>2. block' = [block EXCEPT ![h] = Whole(r.index, size)]
            BY <2>1, <2>5
        <3> DEFINE b == Whole(r.index, size)
        <3>3. b.index = r.index /\ b.asked = size /\ b.addr = r.index /\ b.size = size
            BY DEF Whole
        <3>4. size \in Nat /\ 0 < size
            OBVIOUS
        <3> HIDE DEF b
        <3>5. /\ b \in Block /\ Freed(b.addr, b.size) = Reserved(b)
              /\ block' = [block EXCEPT ![h] = b]
            BY <3>1, <3>2, <3>3 DEF b
        <3>6. /\ ~broken /\ ~Live(h) /\ bitmap' = r.map
              /\ SearchResult(r, size) /\ ~r.wild /\ r.index # -1
            BY <2>1, <2>2, <2>5
        <3> QED  BY <3>3, <3>4, <3>5, <3>6, Granted
    <2> QED  BY <2>3, <2>4, <2>5
<1>2. ASSUME NEW h \in Handle, NEW size \in Sizes, NEW align \in Aligns,
             Kmemalign(h, size, align)
      PROVE  Exclusive' /\ MapExact' /\ Freeable'
    <2> DEFINE b(r, moved) == [index |-> r.index, asked |-> size + align, addr |-> moved, size |-> size]
    <2>1. PICK r \in sys_heap_alloc(size + align) :
            /\ Searched(r) /\ broken' = r.wild /\ bitmap' = r.map
            /\ IF r.index = -1 THEN UNCHANGED block
               ELSE \E moved \in AlignUp(r.index, align) : block' = [block EXCEPT ![h] = b(r, moved)]
        BY <1>2 DEF Kmemalign
    <2>2. SearchResult(r, size + align) /\ ~broken /\ ~Live(h) /\ broken' = r.wild
        BY <1>0, <1>2, <2>1, AllocResult DEF Kmemalign, Running
    <2>3. CASE r.wild
        BY <1>a, <2>2, <2>3
    <2>4. CASE ~r.wild /\ r.index = -1
        <3>1. r.map = bitmap
            BY <2>2, <2>4 DEF SearchResult
        <3> QED  BY <1>b, <2>1, <2>2, <2>4, <3>1
    <2>5. CASE ~r.wild /\ r.index # -1
        <3>1. r.index \in Nat
            BY <2>2, <2>5 DEF SearchResult
        <3>3. PICK moved \in AlignUp(r.index, align) : block' = [block EXCEPT ![h] = b(r, moved)]
            BY <2>1, <2>5
        <3>a. moved \in Int /\ moved > r.index
            BY <3>1, AlignUpMoves
        <3>2. b(r, moved) \in Block /\ b(r, moved).addr # b(r, moved).index
            BY <3>1, <3>a DEF Block
        <3>4. b(r, moved).index = r.index /\ b(r, moved).asked = size + align
            OBVIOUS
        <3>5. size + align \in Nat /\ 0 < size + align
            OBVIOUS
        <3> HIDE DEF b
        <3>6. /\ ~broken /\ ~Live(h) /\ bitmap' = r.map
              /\ SearchResult(r, size + align) /\ ~r.wild /\ r.index # -1
            BY <2>1, <2>2, <2>5
        <3> QED  BY <3>2, <3>3, <3>4, <3>5, <3>6, Granted
    <2> QED  BY <2>3, <2>4, <2>5
<1>3. ASSUME NEW h \in Handle, Kfree(h)
      PROVE  Exclusive' /\ MapExact' /\ Freeable'
    <2>1. CASE Moved(h)
        BY <1>a, <1>3, <2>1 DEF Kfree
    <2>2. CASE ~Moved(h)
        <3>1. /\ ~broken /\ Live(h) /\ block' = [block EXCEPT ![h] = NoBlock]
              /\ bitmap' = bitmap \ Held(h)
            BY <1>3, <2>2 DEF Kfree, Running, IInv, Freeable, Held, Moved
        <3>2. block'[h] = NoBlock /\ \A g \in Handle : g # h => block'[g] = block[g]
            BY <1>0, <3>1 DEF TypeOK
        <3>3. \A g \in Handle : Held(g)' = IF g = h THEN {} ELSE Held(g)
            BY <3>2 DEF Held, Live
        <3>4. bitmap' = (bitmap \cup {}) \ Held(h)
            BY <3>1
        <3>5. Exclusive' /\ MapExact'
            BY <3>1, <3>3, <3>4, Exchange DEF IInv
        <3>6. Freeable'
            BY <3>1, <3>2 DEF Freeable, IInv, Live
        <3> QED  BY <3>5, <3>6
    <2> QED  BY <2>1, <2>2
<1>4. ASSUME NEW h \in Handle, NEW size \in Sizes, Krealloc(h, size)
      PROVE  Exclusive' /\ MapExact' /\ Freeable'
    <2>1. PICK r \in sys_heap_alloc(size) :
            /\ Searched(r)
            /\ IF r.index = -1
               THEN bitmap' = r.map /\ broken' = r.wild /\ UNCHANGED block
               ELSE /\ bitmap' = r.map \ Freed(block[h].addr, block[h].size)
                    /\ broken' = (r.wild \/ Moved(h))
                    /\ block' = [block EXCEPT ![h] = Whole(r.index, size)]
        BY <1>4 DEF Krealloc
    <2>2. /\ SearchResult(r, size) /\ ~broken /\ Live(h)
          /\ ~Moved(h) => Freed(block[h].addr, block[h].size) = Held(h)
        <3>1. ~broken /\ Live(h)
            BY <1>4 DEF Krealloc, Running
        <3>2. SearchResult(r, size)
            BY <1>0, AllocResult
        <3>3. ~Moved(h) => Freed(block[h].addr, block[h].size) = Held(h)
            BY <3>1 DEF IInv, Freeable, Held, Moved
        <3> QED  BY <3>1, <3>2, <3>3
    <2>3. CASE broken'
        BY <1>a, <2>2, <2>3
    <2>4. CASE ~broken' /\ r.index = -1
        <3>1. r.map = bitmap
            BY <2>1, <2>2, <2>4 DEF SearchResult
        <3> QED  BY <1>b, <2>1, <2>2, <2>4, <3>1
    <2>5. CASE ~broken' /\ r.index # -1
        <3>0. ~r.wild /\ ~Moved(h) /\ Freed(block[h].addr, block[h].size) = Held(h)
            BY <2>1, <2>2, <2>5
        <3> DEFINE X == Extent(r.index, size)
        <3>1. /\ Whole(r.index, size) \in Block
              /\ Freed(r.index, size) = Reserved(Whole(r.index, size))
              /\ Reserved(Whole(r.index, size)) = X
            BY <2>2, <2>5, <3>0, WholeFreeable DEF Reserved, Whole
        <3>2. /\ X \subseteq Bits \ bitmap /\ bitmap' = (bitmap \cup X) \ Held(h)
              /\ size >= Threshold => r.index % 8 = 0
            BY <2>1, <2>2, <2>5, <3>0 DEF SearchResult
        <3>3. /\ block'[h] = Whole(r.index, size)
              /\ \A g \in Handle : g # h => block'[g] = block[g]
            BY <1>0, <2>1, <2>5 DEF TypeOK
        <3>4. \A g \in Handle : Held(g)' = IF g = h THEN X ELSE Held(g)
            BY <3>1, <3>3, NoBlockAssumption DEF Held, Live, Block
        <3>5. Exclusive' /\ MapExact'
            BY <2>2, <3>2, <3>4, Exchange DEF IInv
        <3>6. block'[h].asked = size /\ block'[h].index = r.index
              /\ Freed(block'[h].addr, block'[h].size) = Reserved(block'[h])
            BY <3>1, <3>3 DEF Whole
        <3>7. size > 0
            OBVIOUS
        <3>8. ~broken /\ \A g \in Handle : g # h /\ Live(g)' => Live(g)
            BY <2>2, <3>3 DEF Live
        <3>9. Freeable'
            BY <3>2, <3>3, <3>6, <3>7, <3>8 DEF Freeable, IInv
        <3> QED  BY <3>5, <3>9
    <2> QED  BY <2>3, <2>4, <2>5
<1>5. ASSUME NEW size \in Asked, Hang(size)
      PROVE  Exclusive' /\ MapExact' /\ Freeable'
    BY <1>b, <1>5 DEF Hang, Running
<1>6. CASE UNCHANGED vars
    BY <1>a, <1>b, <1>6 DEF vars
<1> QED  BY <1>1, <1>2, <1>3, <1>4, <1>5, <1>6 DEF Next, Stopped

LEMMA Invariant == Spec => []IInv
<1>1. Init => IInv
    <2> SUFFICES ASSUME Init PROVE IInv
        OBVIOUS
    <2>1. \A h \in Handle : ~Live(h) /\ Held(h) = {}
        BY DEF Init, Held, Live
    <2>2. TypeOK
        <3>1. 0 \in 0..(N + 8)
            BY DEF N
        <3> QED  BY <3>1 DEF Init, TypeOK
    <2>3. Exclusive /\ Freeable
        BY <2>1 DEF Exclusive, Freeable
    <2>4. MapExact
        BY <2>1 DEF MapExact, Init
    <2> QED  BY <2>2, <2>3, <2>4 DEF IInv
<1> QED  BY <1>1, IInvStep, TypeCorrect, PTL DEF Spec

\* No two clients ever share a byte of the heap.
THEOREM BlocksExclusive == Spec => []Exclusive
    BY Invariant, PTL DEF IInv

\* Nothing leaks and nothing held is ever marked free.
THEOREM BitmapExact == Spec => []MapExact
    BY Invariant, PTL DEF IInv

\* kfree of an address kmalloc or krealloc returned frees exactly its block.
THEOREM FreeExact == Spec => []Freeable
    BY Invariant, PTL DEF IInv

-----------------------------------------------------------------------------
(* When the searches fail. *)

\* A position of a search within one, two or three laps of the map.
LEMMA Laps ==
    ASSUME NEW m \in Nat, m > 0, NEW v \in Nat
    PROVE  /\ v < m => v % m = v
           /\ m <= v /\ v < 2 * m => v % m = v - m
           /\ 2 * m <= v /\ v < 3 * m => v % m = v - 2 * m
    OBVIOUS

\* A run that was found inside the map is never taken for "no run": its index
\* is not -1 (bitmap.c:32-36, 54-58).
LEMMA FoundBitsSucceeds ==
    ASSUME TypeOK, NEW size \in Nat, 0 < size, size < Threshold,
           NEW past, NEW e \in Ends(past, size)
    PROVE  FoundBits(e, size) # Failed
<1>1. N \in Nat /\ N >= 16 /\ last \in Nat
    BY DEF N, TypeOK
<1>2. e \in Nat /\ e >= last + size
    BY <1>1 DEF Ends
<1>3. SUFFICES ASSUME NEW r, r = FoundBits(e, size), r = Failed PROVE FALSE
    OBVIOUS
<1>4. r.index = (Bit(e - 1) + 1) - size /\ r.wild = ~InMap(e, size)
    BY <1>3 DEF FoundBits
<1>5. r.index = -1 /\ r.wild = FALSE
    BY <1>3 DEF Failed
<1>6. InMap(e, size)
    BY <1>3, <1>4, <1>5, Zenon
<1>7. Bit(e - 1) = (e - 1) % N
    BY <1>1, <1>2, <1>6 DEF InMap, Bit
<1>8. (e - size) % N = ((e - 1) % N) - ((e - 1) - (e - size)) /\ (e - size) % N \in Nat
    <2>1. (e - size) \div N = (e - 1) \div N
        BY <1>6 DEF InMap
    <2> QED  BY <1>1, <1>2, <2>1, RunModulo
<1>9. (e - 1) % N \in Int
    BY <1>1, <1>2
<1> QED  BY <1>2, <1>3, <1>4, <1>5, <1>7, <1>8, <1>9

LEMMA FoundBytesSucceeds ==
    ASSUME TypeOK, NEW n \in Nat, n > 0, NEW e \in AlignedEnds(n)
    PROVE  FoundBytes(e, n) # Failed
<1>1. StartByte \in 0..(MapSize - 1)
    BY DEF StartByte, Bytes, TypeOK, N
<1>2. e \in Nat /\ e % MapSize \in Nat
    BY <1>1 DEF AlignedEnds
<1>3. SUFFICES ASSUME FoundBytes(e, n) = Failed PROVE FALSE
    OBVIOUS
<1>4. /\ FoundBytes(e, n).index = 8 * (e % MapSize) - 8 * n
      /\ FoundBytes(e, n).wild = ~(n <= e % MapSize)
    BY DEF FoundBytes
<1>5. Failed.index = -1 /\ Failed.wild = FALSE
    BY DEF Failed
<1>6. n <= e % MapSize
    BY <1>3, <1>4, <1>5, Zenon
<1>7. 8 * (e % MapSize) - 8 * n >= 0
    BY <1>2, <1>6
<1> QED  BY <1>3, <1>4, <1>5, <1>7

\* alloc_bits visits every run of the map that does not touch the byte it
\* started in (bitmap.c:17-31).
LEMMA BitsSearched ==
    ASSUME TypeOK, last < N, NEW size \in Nat, 0 < size, size < Threshold,
           Ends({}, size) = {}, NEW i \in Bits, FreeBits(i, size)
    PROVE  (last \div 8) \in (i \div 8)..((i + size - 1) \div 8)
<1>1. N \in Nat /\ N >= 16 /\ last \in Nat /\ i \in Nat /\ N = 8 * (N \div 8)
    BY DEF N, TypeOK, Bits
<1>2. \A v \in i..(i + size - 1) : v \in Nat /\ v < N /\ v \notin bitmap
    BY <1>1 DEF FreeBits, Bits
<1>3. i + size - 1 \in i..(i + size - 1) /\ i + size <= N
    BY <1>1, <1>2
<1>4. SUFFICES ASSUME last \div 8 \notin (i \div 8)..((i + size - 1) \div 8)
               PROVE  \E e : e \in Ends({}, size)
    OBVIOUS
<1>5. SearchEnd = N + 8 * (last \div 8) /\ last \div 8 \in Nat
    BY <1>1 DEF SearchEnd
<1>6. CASE last \div 8 < i \div 8
    <2> DEFINE e == i + size
    <2>1. last < i /\ e \in (last + size)..SearchEnd
        BY <1>1, <1>3, <1>5, <1>6
    <2>2. ASSUME NEW v \in (e - size)..(e - 1) PROVE ~Busy({}, v)
        <3>1. v \in i..(i + size - 1)
            BY <1>1
        <3>2. v \in Nat /\ v < N /\ v \notin bitmap
            BY <1>2, <3>1
        <3>3. v % N = v
            BY <1>1, <3>2, Laps
        <3>4. Bit(v) = v
            BY <3>3 DEF Bit
        <3> QED  BY <3>2, <3>4 DEF Busy
    <2> QED  BY <2>1, <2>2 DEF Ends
<1>7. CASE ~(last \div 8 < i \div 8)
    <2> DEFINE e == N + i + size
    <2>1. (i + size - 1) \div 8 < last \div 8
        BY <1>1, <1>4, <1>7
    <2>2. i + size - 1 < 8 * (last \div 8)
        BY <1>1, <2>1
    <2>3. e \in (last + size)..SearchEnd
        BY <1>1, <1>5, <2>2, last < N
    <2>4. ASSUME NEW v \in (e - size)..(e - 1) PROVE ~Busy({}, v)
        <3>1. v - N \in i..(i + size - 1)
            BY <1>1
        <3>2. v - N \in Nat /\ v - N < N /\ v - N \notin bitmap
            BY <1>2, <3>1
        <3>3. v \in Nat /\ N <= v /\ v < 2 * N
            BY <1>1, <3>2
        <3>4. v % N = v - N
            BY <1>1, <3>3, Laps
        <3>5. Bit(v) = v - N
            BY <1>1, <3>4, last < N DEF Bit
        <3> QED  BY <3>2, <3>5 DEF Busy
    <2> QED  BY <2>3, <2>4 DEF Ends
<1> QED  BY <1>6, <1>7

\* alloc_aligned_bits visits every run of bytes but those with the byte before
\* the one it started on (bitmap.c:42-53).
LEMMA BytesSearched ==
    ASSUME TypeOK, NEW n \in Nat, n > 0, AlignedEnds(n) = {},
           NEW i \in 0..(MapSize - 1), FreeBytes(i, n)
    PROVE  ((StartByte - 1) % MapSize) \in i..(i + n - 1)
<1>1. StartByte \in 0..(MapSize - 1)
    BY DEF StartByte, Bytes, TypeOK, N
<1>2. i \in Nat /\ i + n <= MapSize
    BY DEF FreeBytes
<1>3. ASSUME NEW u \in i..(i + n - 1) PROVE ByteRun(u, 1) \cap bitmap = {}
    <2>1. ByteRun(u, 1) \subseteq ByteRun(i, n)
        BY <1>2 DEF ByteRun
    <2> QED  BY <2>1 DEF FreeBytes
<1>4. (StartByte - 1) % MapSize = IF StartByte = 0 THEN MapSize - 1 ELSE StartByte - 1
    BY <1>1
<1>5. SUFFICES ASSUME (StartByte - 1) % MapSize \notin i..(i + n - 1)
               PROVE  \E e : e \in AlignedEnds(n)
    OBVIOUS
<1>6. CASE StartByte <= i /\ i + n <= StartByte + MapSize - 1
    <2> DEFINE e == i + n
    <2>1. e \in (StartByte + n)..(StartByte + MapSize - 1)
        BY <1>1, <1>2, <1>6
    <2>2. ASSUME NEW v \in (e - n)..(e - 1) PROVE ByteRun(v % MapSize, 1) \cap bitmap = {}
        <3>1. v \in i..(i + n - 1) /\ v \in Nat /\ v < MapSize
            BY <1>2
        <3>2. v % MapSize = v
            BY <3>1, Laps
        <3> QED  BY <1>3, <3>1, <3>2
    <2> QED  BY <2>1, <2>2 DEF AlignedEnds
<1>7. CASE ~(StartByte <= i /\ i + n <= StartByte + MapSize - 1)
    <2> DEFINE e == MapSize + i + n
    <2>1. i + n <= StartByte - 1
        BY <1>1, <1>2, <1>4, <1>5, <1>7
    <2>2. e \in (StartByte + n)..(StartByte + MapSize - 1)
        BY <1>1, <1>2, <2>1
    <2>3. ASSUME NEW v \in (e - n)..(e - 1) PROVE ByteRun(v % MapSize, 1) \cap bitmap = {}
        <3>1. v - MapSize \in i..(i + n - 1) /\ v \in Nat /\ MapSize <= v /\ v < 2 * MapSize
            BY <1>2
        <3>2. v % MapSize = v - MapSize
            BY <3>1, Laps
        <3> QED  BY <1>3, <3>1, <3>2
    <2> QED  BY <2>2, <2>3 DEF AlignedEnds
<1> QED  BY <1>6, <1>7

\* An allocation fails only when every run that is large enough touches the
\* one byte its search does not reach (bitmap.c:19-25, 44-53).
THEOREM FailureHonest == Spec => []FailsOnlyWhenFull
<1>1. TypeOK => FailsOnlyWhenFull
    <2> SUFFICES ASSUME TypeOK, NEW size \in Asked, Failed \in sys_heap_alloc(size)
                 PROVE  IF size < Threshold
                        THEN \A i \in Bits : FreeBits(i, size) =>
                                (last \div 8) \in (i \div 8)..((i + size - 1) \div 8)
                        ELSE \A i \in 0..(MapSize - 1) : FreeBytes(i, Bytes(size)) =>
                                ((StartByte - 1) % MapSize) \in i..(i + Bytes(size) - 1)
        BY DEF FailsOnlyWhenFull
    <2>1. size \in Nat /\ 0 < size
        BY DEF Asked
    <2>2. CASE size < Threshold
        <3>1. Failed \in alloc_bits(size)
            BY <2>2 DEF sys_heap_alloc
        <3>2. \A past \in AnyPast : \A e \in FirstEnd(past, size) : FoundBits(e, size) # Failed
            BY <2>1, <2>2, FoundBitsSucceeds DEF FirstEnd
        <3>3. \E past \in AnyPast : last < N /\ Ends(past, size) = {}
            BY <3>1, <3>2 DEF alloc_bits
        <3>4. last < N /\ Ends({}, size) = {}
            BY <3>3 DEF AnyPast
        <3> QED  BY <2>1, <2>2, <3>4, BitsSearched
    <2>3. CASE ~(size < Threshold)
        <3>1. Failed \in alloc_aligned_bits(size)
            BY <2>3 DEF sys_heap_alloc
        <3>2. Bytes(size) \in Nat /\ Bytes(size) > 0
            BY <2>1, BytesOfSize
        <3>3. \A e \in FirstAlignedEnd(Bytes(size)) : FoundBytes(e, Bytes(size)) # Failed
            BY <3>2, FoundBytesSucceeds DEF FirstAlignedEnd
        <3>4. AlignedEnds(Bytes(size)) = {}
            BY <3>1, <3>3 DEF alloc_aligned_bits
        <3> QED  BY <2>3, <3>2, <3>4, BytesSearched
    <2> QED  BY <2>2, <2>3
<1> QED  BY <1>1, TypeCorrect, PTL

\* The search that alloc_bits starts past the map visits every run, whatever
\* the byte after the map holds (bitmap.c:17-31).
LEMMA WholeMapSearched ==
    ASSUME TypeOK, N <= last, NEW size \in Nat, 0 < size, size < Threshold,
           NEW past \in AnyPast, Ends(past, size) = {}, NEW i \in Bits
    PROVE  ~FreeBits(i, size)
<1>1. N \in Nat /\ N >= 16 /\ last \in Nat /\ last <= N + 8 /\ i \in Nat /\ size < 16
    BY DEF N, TypeOK, Bits, Threshold
<1>2. SUFFICES ASSUME FreeBits(i, size) PROVE \E e : e \in Ends(past, size)
    OBVIOUS
<1>3. \A v \in i..(i + size - 1) : v \in Nat /\ v < N /\ v \notin bitmap
    BY <1>1, <1>2 DEF FreeBits, Bits
<1>4. \A w \in past : w >= N
    <2>1. \A w \in PastByte : w >= N
        BY <1>1 DEF PastByte
    <2> QED  BY <2>1 DEF AnyPast
<1>5. SearchEnd = 2 * N + 8 + 16
    BY <1>1, N <= last DEF SearchEnd, Threshold
<1>6. i + size - 1 \in i..(i + size - 1) /\ i + size <= N
    BY <1>1, <1>3
\* The lap in which the search comes to bit i: the second or the third.
<1>7. PICK base \in {N, 2 * N} : N + 8 <= base + i /\ base + i + size <= 2 * N + 24
    <2>1. i >= 8 \/ i < 8
        BY <1>1
    <2> QED  BY <1>1, <1>6, <2>1
<1> DEFINE e == base + i + size
<1>8. base \in Nat /\ e \in (last + size)..SearchEnd
    BY <1>1, <1>5, <1>7
<1>9. ASSUME NEW v \in (e - size)..(e - 1) PROVE ~Busy(past, v)
    <2>1. v - base \in i..(i + size - 1) /\ v \in Nat /\ v >= N + 8
        BY <1>1, <1>7, <1>8
    <2>2. v - base \in Nat /\ v - base < N /\ v - base \notin bitmap
        BY <1>3, <2>1
    <2>3. v % N = v - base
        <3>1. CASE base = N
            BY <1>1, <2>1, <2>2, <3>1, Laps
        <3>2. CASE base = 2 * N
            <4>1. 2 * N <= v /\ v < 3 * N
                BY <1>1, <2>1, <2>2, <3>2
            <4> QED  BY <1>1, <2>1, <3>2, <4>1, Laps
        <3> QED  BY <3>1, <3>2
    <2>4. Bit(v) = v - base
        BY <1>1, <2>1, <2>3 DEF Bit
    <2>5. v - base \notin past
        BY <1>1, <1>4, <2>2
    <2> QED  BY <2>2, <2>4, <2>5 DEF Busy
<1> QED  BY <1>8, <1>9 DEF Ends

\* The endless search starts only when no free run of that length exists
\* anywhere (bitmap.c:17-31).
THEOREM HangHonest == Spec => []HangsOnlyWhenFull
<1>1. Init => HangsOnlyWhenFull
    BY DEF Init, HangsOnlyWhenFull
<1>2. TypeOK /\ HangsOnlyWhenFull /\ [Next]_vars => HangsOnlyWhenFull'
    <2> SUFFICES ASSUME TypeOK, HangsOnlyWhenFull, [Next]_vars PROVE HangsOnlyWhenFull'
        OBVIOUS
    <2>1. ASSUME NEW size \in Asked, Hang(size) PROVE HangsOnlyWhenFull'
        <3>1. size \in Nat /\ 0 < size /\ size < Threshold /\ N <= last /\ bitmap' = bitmap
            BY <2>1 DEF Hang, Asked
        <3>2. \A i \in Bits : ~FreeBits(i, size)
            BY <2>1, <3>1, WholeMapSearched DEF Hang
        <3>3. \A i \in Bits : ~FreeBits(i, size)'
            BY <3>1, <3>2 DEF FreeBits
        <3> QED  BY <3>1, <3>3 DEF HangsOnlyWhenFull
    <2>2. CASE Stopped \/ UNCHANGED vars
        BY <2>2 DEF Stopped, vars, HangsOnlyWhenFull, FreeBits
    <2>3. CASE ~hung'
        BY <2>3 DEF HangsOnlyWhenFull
    <2>4. ASSUME NEW h \in Handle, NEW size \in Sizes, Kmalloc(h, size) \/ Krealloc(h, size)
          PROVE  ~hung'
        BY <2>4 DEF Kmalloc, Krealloc, Searched, Running
    <2>5. ASSUME NEW h \in Handle, NEW size \in Sizes, NEW align \in Aligns, Kmemalign(h, size, align)
          PROVE  ~hung'
        BY <2>5 DEF Kmemalign, Searched, Running
    <2>6. ASSUME NEW h \in Handle, Kfree(h) PROVE ~hung'
        BY <2>6 DEF Kfree, Running
    <2> QED  BY <2>1, <2>2, <2>3, <2>4, <2>5, <2>6 DEF Next
<1> QED  BY <1>1, <1>2, TypeCorrect, PTL DEF Spec

-----------------------------------------------------------------------------
(* The heap implements KernelHeap. *)

\* A successful search seen through the mapping: h is granted a free run.
LEMMA GrantMaps ==
    ASSUME IInv, TypeOK', ~broken, ~broken', NEW h \in Handle,
           NEW size \in Asked,
           NEW r, SearchResult(r, size), ~r.wild, r.index # -1,
           NEW b \in Block, b.index = r.index, b.asked = size,
           block' = [block EXCEPT ![h] = b]
    PROVE  Abstract!Grant(h)
<1> DEFINE X == Extent(r.index, size)
           waste == IF size < Threshold THEN 0 ELSE 8 * Bytes(size) - size
<1>1. size \in Nat /\ size > 0
    BY DEF Asked
<1>2. r.index \in Nat /\ X \subseteq Bits \ bitmap
    BY DEF SearchResult
<1>a. /\ Bytes(size) \in Nat
      /\ size <= 8 * Bytes(size) /\ 8 * Bytes(size) <= size + 7
    BY <1>1, BytesOfSize
<1>3. waste \in 0..(8 - 1) /\ X = r.index..(r.index + size + waste - 1)
    <2>1. CASE size < Threshold
        BY <1>1, <1>2, <2>1 DEF Extent
    <2>2. CASE ~(size < Threshold)
        <3>1. waste = 8 * Bytes(size) - size /\ X = r.index..(r.index + 8 * Bytes(size) - 1)
            BY <2>2 DEF Extent
        <3>2. 8 * Bytes(size) - size \in 0..(8 - 1)
            BY <1>1, <1>a
        <3>3. r.index + size + (8 * Bytes(size) - size) = r.index + 8 * Bytes(size)
            BY <1>1, <1>2, <1>a
        <3> HIDE DEF waste, X
        <3>4. waste \in Int /\ r.index + size + waste = r.index + 8 * Bytes(size)
            BY <1>1, <1>a, <3>1, <3>3
        <3>5. r.index + size + waste - 1 = r.index + 8 * Bytes(size) - 1
            BY <1>1, <1>2, <1>a, <3>4
        <3> QED  BY <3>1, <3>2, <3>5, Zenon
    <2> QED  BY <2>1, <2>2
<1> HIDE DEF waste, X
<1>4. r.index \in Bits /\ r.index + size + waste - 1 \in Bits
    BY <1>1, <1>2, <1>3
<1>5. \A g \in Handle : Held(g) \cap X = {}
    BY <1>2 DEF IInv, MapExact
<1>b. Held(h)' = X /\ \A g \in Handle : g # h => Held(g)' = Held(g)
    <2>1. block'[h] = b /\ \A g \in Handle : g # h => block'[g] = block[g]
        BY DEF IInv, TypeOK
    <2> QED  BY <2>1, NoBlockAssumption DEF Held, Live, Reserved, Block, X
<1>8. [g \in Handle |-> Held(g)]' = [[g \in Handle |-> Held(g)] EXCEPT ![h] = X]
    <2>1. \A g \in Handle : Held(g)' = IF g = h THEN X ELSE Held(g)
        BY <1>b
    <2> QED  BY <2>1
<1>9. broken' = broken
    BY DEF IInv, TypeOK
<1>10. Abstract!FreeRun(r.index, size, waste)
    BY <1>3, <1>4, <1>5 DEF Abstract!FreeRun
<1>11. Abstract!StartsAt([g \in Handle |-> Held(g)]'[h], r.index)
    <2>1. [g \in Handle |-> Held(g)]'[h] = X
        BY <1>b
    <2>2. r.index \in X /\ r.index - 1 \notin X
        BY <1>1, <1>2, <1>3
    <2> QED  BY <2>1, <2>2 DEF Abstract!StartsAt
<1> QED  BY <1>3, <1>4, <1>8, <1>9, <1>10, <1>11 DEF Abstract!Grant

\* Every step of the heap is a step of KernelHeap, or one its clients cannot
\* see: a failed call, or a hang.
LEMMA StepMaps ==
    ASSUME IInv, IInv', [Next]_vars
    PROVE  [Abstract!Next]_(Abstract!vars)
<1>0. TypeOK /\ TypeOK'
    BY DEF IInv
<1>a. ASSUME broken' PROVE Abstract!Next
    <2>1. broken' = TRUE
        BY <1>0, <1>a DEF TypeOK
    <2> QED  BY <2>1 DEF Abstract!Next, Abstract!Break
<1>b. ASSUME UNCHANGED <<block, broken>> PROVE UNCHANGED Abstract!vars
    BY <1>b DEF Abstract!vars, Held, Live
<1>c. ASSUME ~broken, NEW h \in Handle, Abstract!Grant(h) \/ Abstract!Return(h)
      PROVE  Abstract!Next
    BY <1>c DEF Abstract!Next
<1>1. ASSUME NEW h \in Handle, NEW size \in Sizes,
             Kmalloc(h, size) \/ Krealloc(h, size), ~broken'
      PROVE  [Abstract!Next]_(Abstract!vars)
    <2>1. PICK r \in sys_heap_alloc(size) :
            /\ ~broken' => ~r.wild
            /\ block' = IF r.index = -1 THEN block
                        ELSE [block EXCEPT ![h] = Whole(r.index, size)]
        BY <1>1 DEF Kmalloc, Krealloc
    <2>a. Running
        BY <1>1 DEF Kmalloc, Krealloc
    <2>b. SearchResult(r, size)
        BY <1>0, AllocResult
    <2>2. SearchResult(r, size) /\ ~broken /\ ~r.wild
        BY <1>1, <2>1, <2>a, <2>b DEF Running
    <2>3. CASE r.index = -1
        <3>1. UNCHANGED <<block, broken>>
            BY <1>0, <1>1, <2>1, <2>2, <2>3 DEF TypeOK
        <3> QED  BY <1>b, <3>1
    <2>4. CASE r.index # -1
        <3> DEFINE b == Whole(r.index, size)
        <3>1. b \in Block /\ b.index = r.index /\ b.asked = size
            BY <2>2, <2>4, WholeFreeable DEF Whole
        <3>2. block' = [block EXCEPT ![h] = b]
            BY <2>1, <2>4
        <3>a. size \in Asked
            BY DEF Asked
        <3> HIDE DEF b
        <3>3. Abstract!Grant(h)
            BY <1>0, <1>1, <2>2, <2>4, <3>1, <3>2, <3>a, GrantMaps
        <3> QED  BY <1>c, <2>2, <3>3
    <2> QED  BY <2>3, <2>4
<1>2. ASSUME NEW h \in Handle, NEW size \in Sizes, NEW align \in Aligns,
             Kmemalign(h, size, align), ~broken'
      PROVE  [Abstract!Next]_(Abstract!vars)
    <2> DEFINE b(r, moved) == [index |-> r.index, asked |-> size + align, addr |-> moved, size |-> size]
    <2>1. PICK r \in sys_heap_alloc(size + align) :
            /\ broken' = r.wild
            /\ IF r.index = -1 THEN UNCHANGED block
               ELSE \E moved \in AlignUp(r.index, align) : block' = [block EXCEPT ![h] = b(r, moved)]
        BY <1>2 DEF Kmemalign
    <2>2. SearchResult(r, size + align) /\ ~broken /\ ~r.wild
        BY <1>0, <1>2, <2>1, AllocResult DEF Kmemalign, Running
    <2>3. CASE r.index = -1
        <3>1. UNCHANGED <<block, broken>>
            BY <1>0, <1>2, <2>1, <2>2, <2>3 DEF TypeOK
        <3> QED  BY <1>b, <3>1
    <2>4. CASE r.index # -1
        <3>1. r.index \in Nat
            BY <2>2, <2>4 DEF SearchResult
        <3>3. PICK moved \in AlignUp(r.index, align) : block' = [block EXCEPT ![h] = b(r, moved)]
            BY <2>1, <2>4
        <3>2. b(r, moved) \in Block /\ b(r, moved).index = r.index /\ b(r, moved).asked = size + align
            <4>1. size + align \in Nat /\ size \in Nat /\ moved \in Int
                BY <3>1, AlignUpMoves
            <4> QED  BY <3>1, <4>1 DEF Block
        <3>4. size + align \in Asked
            BY DEF Asked
        <3> HIDE DEF b
        <3>5. Abstract!Grant(h)
            BY <1>0, <1>2, <2>2, <2>4, <3>2, <3>3, <3>4, GrantMaps
        <3> QED  BY <1>c, <2>2, <3>5
    <2> QED  BY <2>3, <2>4
<1>3. ASSUME NEW h \in Handle, Kfree(h), ~broken'
      PROVE  [Abstract!Next]_(Abstract!vars)
    <2>1. ~broken /\ block' = [block EXCEPT ![h] = NoBlock]
        BY <1>3 DEF Kfree, Running
    <2>2. broken' = broken
        BY <1>0, <1>3, <2>1 DEF TypeOK
    <2>3. block'[h] = NoBlock /\ \A g \in Handle : g # h => block'[g] = block[g]
        BY <1>0, <2>1 DEF TypeOK
    <2>4. \A g \in Handle : Held(g)' = IF g = h THEN {} ELSE Held(g)
        BY <2>3 DEF Held, Live
    <2>5. [g \in Handle |-> Held(g)]' = [[g \in Handle |-> Held(g)] EXCEPT ![h] = {}]
        BY <2>4
    <2>6. Abstract!Return(h)
        BY <2>2, <2>5 DEF Abstract!Return
    <2> QED  BY <1>c, <2>1, <2>6
<1>4. ASSUME NEW size \in Asked, Hang(size) PROVE [Abstract!Next]_(Abstract!vars)
    BY <1>b, <1>4 DEF Hang
<1>5. CASE UNCHANGED vars
    BY <1>b, <1>5 DEF vars
<1> QED  BY <1>a, <1>1, <1>2, <1>3, <1>4, <1>5 DEF Next, Stopped

\* The kernel heap implements KernelHeap: until it is broken, clients see an
\* allocator that grants any free run, and nothing else.
THEOREM HeapImplements == Spec => ImplementsKernelHeap
<1>1. Init => Abstract!Init
    <2> SUFFICES ASSUME Init PROVE Abstract!Init
        OBVIOUS
    <2>1. \A h \in Handle : Held(h) = {}
        BY DEF Init, Held, Live
    <2> QED  BY <2>1 DEF Init, Abstract!Init
<1>2. IInv /\ IInv' /\ [Next]_vars => [Abstract!Next]_(Abstract!vars)
    BY StepMaps
<1> QED  BY <1>1, <1>2, Invariant, PTL DEF Spec, ImplementsKernelHeap, Abstract!Spec
=============================================================================
