------------------------------ MODULE MCMmCache ------------------------------
(* Slabs of one and of two pages: of the three objects of the larger, the   *)
(* second lies over the start of the second page and the third behind it.   *)
EXTENDS MmCache

MCObjSize == [z \in Zones |-> IF z = "small" THEN 1 ELSE 3]
===============================================================================
