------------------------------ MODULE PageAlloc ------------------------------
(***************************************************************************)
(* What a page allocator promises its clients: every allocation is a run   *)
(* of consecutive pages of the chunk, no two allocations share a page, an  *)
(* allocation keeps its extent until it is freed, and only a page that     *)
(* starts an allocation can be freed.  PgPool implements it.               *)
(***************************************************************************)
EXTENDS Naturals

CONSTANT Pages      \* the pages of the chunk, an initial segment of Nat

VARIABLE held       \* first page of an allocation -> its number of pages

Extent(p, n) == p .. (p + n - 1)

Disjoint == \A p, q \in DOMAIN held :
              p # q => Extent(p, held[p]) \cap Extent(q, held[q]) = {}

Init == held = [p \in {} |-> 0]

Grant(p, n) ==
  /\ n > 0
  /\ held' = [q \in DOMAIN held \cup {p} |-> IF q = p THEN n ELSE held[q]]
  /\ Extent(p, n) \subseteq Pages
  /\ \A q \in DOMAIN held : Extent(p, n) \cap Extent(q, held[q]) = {}

Release(p) ==
  /\ p \in DOMAIN held
  /\ held' = [q \in DOMAIN held \ {p} |-> held[q]]

Next == \/ \E p \in DOMAIN held : Release(p)
        \/ \E p \in Pages \ DOMAIN held : \E q \in Pages : p <= q /\ Grant(p, q - p + 1)

Spec == Init /\ [][Next]_held
==============================================================================
