------------------------------- MODULE MCMmSpace -------------------------------
(* An area of each kind of allocator and two sections more; a size for the  *)
(* nubble area, one for the page area, and one that is too large for it.    *)
EXTENDS MmSpace

MCAreas == <<"nubble", "page", "stack">>
MCSlots == [a \in AreaSet |-> 1]
MCLargest == [a \in AreaSet |-> CASE a = "nubble" -> 1 [] a = "page" -> 2 [] OTHER -> 3]
MCAreaOf == [n \in Sizes |-> IF n = 1 THEN "nubble" ELSE "page"]
===============================================================================
