------------------------------ MODULE MCRingBuf ------------------------------
(* A ring of five bytes and blocks of one to four: every offset is     *)
(* reached, blocks end at, before and beyond the end of the memory.         *)
EXTENDS RingBuf

MCBlocks == 1 .. 4
==============================================================================
