------------------------------ MODULE ObjectCache ------------------------------
(***************************************************************************)
(* What the object caches of a memory space promise: an object handed out  *)
(* is memory nobody else has, and stays so until it is freed.  MmCache     *)
(* implements it.                                                          *)
(***************************************************************************)
EXTENDS Integers

CONSTANTS Zones, ObjSize, Memory   \* caches, their object sizes, addresses

VARIABLE objects                   \* handed out: records of zone and address

Bytes(o) == o.at .. (o.at + ObjSize[o.zone] - 1)

Init == objects = {}

Hand(o) == /\ Bytes(o) \subseteq Memory
           /\ \A q \in objects : Bytes(o) \cap Bytes(q) = {}
           /\ objects' = objects \cup {o}

Free(o) == objects' = objects \ {o}

Next == \/ \E z \in Zones, a \in Memory : Hand([zone |-> z, at |-> a])
        \/ \E o \in objects : Free(o)

Spec == Init /\ [][Next]_objects
===============================================================================
