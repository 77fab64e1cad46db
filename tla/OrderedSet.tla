------------------------------ MODULE OrderedSet ------------------------------
(***************************************************************************)
(* What the tree of rbtree.c stands for: a set of keys that grows by a key *)
(* it does not have and shrinks by one it has.  RbTree implements it.      *)
(***************************************************************************)
CONSTANT Keys

VARIABLE members

Init == members = {}

Insert(k) == k \notin members /\ members' = members \cup {k}

Remove(k) == k \in members /\ members' = members \ {k}

Next == \E k \in Keys : Insert(k) \/ Remove(k)

Spec == Init /\ [][Next]_members
===============================================================================
