------------------------------- MODULE MCMmPool -------------------------------
(* Blocks of 32, 64 and 128 bytes in a chunk of 256: requests that fill a   *)
(* block exactly, that are one byte more, and that are one byte more than   *)
(* the largest block has room for.                                          *)
EXTENDS MmPool

MCRequests == {16, 17, 113}

(* Clients free any block, or keep what they hold in the first largest one. *)
Everywhere == Addresses
AfterTheFirst == {a \in Addresses : a >= MaxSize}
===============================================================================
