----------------------------- MODULE MCMemPool ------------------------------
(* MemPool on six blocks of two bytes.  Requests: nothing, one block       *)
(* (rounded up and exact), two, three, and more than the pool.             *)
EXTENDS MemPool

MCSizes == {0, 1, 2, 3, 5, 14}
=============================================================================
