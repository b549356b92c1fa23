------------------------------ MODULE MCSysHeap ------------------------------
\* Small heaps for TLC.
EXTENDS SysHeap, TLC

Symmetry == Permutations(Handle)
=============================================================================
