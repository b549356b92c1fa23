----------------------------- MODULE KernelHeap -----------------------------
(***************************************************************************)
(* What the kernel's heap promises to its clients, without its bitmap: a   *)
(* client that asks for memory either gets a run of heap cells nobody else *)
(* holds, or gets nothing; it keeps that run until it gives it back.       *)
(*                                                                         *)
(* The promise ends when "broken" becomes TRUE (SysHeap names the two ways *)
(* that happens): from then on nothing is said about who owns what.        *)
(***************************************************************************)
EXTENDS Integers

CONSTANTS
    Handle,     \* the clients' pointers: each holds at most one block
    Cells,      \* the bytes of the heap
    Request,    \* the sizes clients may ask for
    Granule     \* the unit blocks are rounded up to

VARIABLES
    owned,      \* owned[h]: the cells h may use, {} when h holds no block
    broken

vars == <<owned, broken>>

Init ==
    /\ owned = [h \in Handle |-> {}]
    /\ broken = FALSE

\* The run of cells from i that serves a request for "size" cells: it is
\* contiguous, wastes less than a granule and nobody holds any of it.
FreeRun(i, size, waste) ==
    /\ i \in Cells /\ i + size + waste - 1 \in Cells
    /\ \A h \in Handle : owned[h] \cap (i..(i + size + waste - 1)) = {}

StartsAt(run, i) == i \in run /\ i - 1 \notin run

\* A block is granted to a client without one, or, by a reallocation, in
\* exchange for the block it has: both blocks are held for a moment, so the
\* new one does not meet the old one either.
Grant(h) ==
    \E i \in Cells :
        /\ StartsAt(owned'[h], i)
        /\ \E size \in Request, waste \in 0..(Granule - 1) :
            /\ FreeRun(i, size, waste)
            /\ owned' = [owned EXCEPT ![h] = i..(i + size + waste - 1)]
        /\ UNCHANGED broken

Return(h) ==
    /\ owned' = [owned EXCEPT ![h] = {}]
    /\ UNCHANGED broken

Break == broken' = TRUE

Next ==
    \/ /\ ~broken
       /\ \E h \in Handle : Grant(h) \/ Return(h)
    \/ Break

Spec == Init /\ [][Next]_vars
=============================================================================
