------------------------------- MODULE MCHeap -------------------------------
(* A heap of 88 bytes with 12-byte headers: up to four blocks.  size_t has *)
(* seven bits.                                                             *)
EXTENDS Heap

const_Requests == {0, 1, 8, 13, 28}
=============================================================================
