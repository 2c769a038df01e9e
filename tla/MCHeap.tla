-------------------------------- MODULE MCHeap --------------------------------
(* A heap of 5 blocks of 2 bytes whose size_t wraps at 14: every size is asked
   for, so requests fit, are longer than the pool, and wrap to no block at all. *)
EXTENDS Heap

MCSizes == 0..(WordMod - 1)
===============================================================================
