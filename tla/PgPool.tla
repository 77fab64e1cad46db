-------------------------------- MODULE PgPool --------------------------------
(***************************************************************************)
(* The page pool of pgpool.c.  A chunk of pages is cut into nodes: runs of *)
(* pages described by a _pg_node, which is in the red-black tree _pgn_tree *)
(* under its payload address and, when it is not in use, in the free list  *)
(* _flh[log_2(its page count)].  Allocation takes a node off a free list   *)
(* and splits it; freeing merges a node with its free successors.          *)
(*                                                                         *)
(* A page address is its number in the chunk.  The tree is the function    *)
(* count, whose domain is the set of first pages; the descriptors are      *)
(* anonymous, so of _free_pgn_list only the length matters.  The memory a  *)
(* pool is created in is zero-filled, as that of a shared memory segment   *)
(* is: no descriptor starts with its using bits set.                       *)
(***************************************************************************)
EXTENDS Integers, FiniteSets, DList

CONSTANTS
  ChunkPgcount,   \* _chunk_pgcount: descriptors in _pgn_pool
  MaxPg,          \* _cfg.maxpg_count: no node is larger
  Requests        \* page counts clients ask for

(* bsrq on a 64-bit word: the index of its highest set bit. *)
Log2(n) == CHOOSE k \in 0 .. 63 :
             /\ n < 2^(k + 1) \/ k = 63
             /\ \A j \in 0 .. (k - 1) : n >= 2^(j + 1)

(* is_2power(1) takes log_2(0), which bsrq leaves undefined: either answer. *)
Is2Power(n) == IF n = 1 THEN BOOLEAN ELSE {n = 2^Log2(n)}

Lists == 0 .. Log2(MaxPg)                \* freelist_count of them
Limit == ChunkPgcount - MaxPg            \* pages _pgp_init_chunk hands out
Pages == 0 .. (Limit - 1)
NoPage == -1

ASSUME SizeAssumption == /\ MaxPg \in Nat \ {0}
                         /\ ChunkPgcount \in Nat
                         /\ ChunkPgcount >= MaxPg

(* A larger power of two would index past the list heads (pgpool.c:237). *)
ASSUME RequestAssumption ==
  /\ Requests \subseteq Nat \ {0}
  /\ \A n \in Requests : TRUE \in Is2Power(n) => Log2(n) \in Lists

VARIABLES
  phase,          \* "carving", "ready", "failed" or "destroyed"
  carved,         \* pages already in nodes: pg of _pgp_init_chunk
  count,          \* _pgn_tree: first page of a node -> _pg_count
  using,          \* first pages of the nodes whose using bits are set
  flh,            \* _flh: list index -> first pages of its nodes, head first
  free_pgn,       \* descriptors left in _free_pgn_list
  freeing,        \* the node _return_free_node is at, or NoPage
  live,           \* the clients' view: pages granted -> pages requested
  last            \* the last call that returned: operation, argument, result

vars == <<phase, carved, count, using, flh, free_pgn, freeing, live, last>>

Returned(op, arg, res) == last' = [op |-> op, arg |-> arg, res |-> res]

LinkFln(lists, p, n) == [lists EXCEPT ![Log2(n)] = lst_push_front(@, p)]
UnlinkFln(lists, p, n) == [lists EXCEPT ![Log2(n)] = lst_remove(@, p)]

-------------------------------------------------------------------------------
(* pgp_create: all pages but the last MaxPg are cut into nodes of MaxPg     *)
(* pages and one of what remains.  Nothing is in a node before.             *)
Init ==
  /\ phase = "carving"
  /\ carved = 0
  /\ count = [p \in {} |-> 0]
  /\ using = {}
  /\ flh = [i \in Lists |-> lst_new]
  /\ free_pgn = ChunkPgcount
  /\ freeing = NoPage
  /\ live = [p \in {} |-> 0]
  /\ last = [op |-> "create", arg |-> 0, res |-> 0]

(* Slip: the last node is cut at full size. *)
CarveFull ==
  /\ phase = "carving"
  /\ carved < Limit
  /\ count' = [p \in DOMAIN count \cup {carved} |->
                 IF p = carved THEN MaxPg ELSE count[p]]
  /\ flh' = LinkFln(flh, carved, MaxPg)
  /\ carved' = carved + MaxPg
  /\ free_pgn' = free_pgn - 1
  /\ UNCHANGED <<phase, using, freeing, live, last>>

(* One turn of the loop of _pgp_init_chunk.  It then tests rslt, which was  *)
(* never assigned: the creation may fail here, and pgp_create returns null  *)
(* with the label already written.                                          *)
Carve ==
  /\ phase = "carving"
  /\ carved < Limit
  /\ LET n == IF Limit - carved >= MaxPg THEN MaxPg ELSE Limit - carved
     IN  /\ count' = [p \in DOMAIN count \cup {carved} |->
                        IF p = carved THEN n ELSE count[p]]
         /\ flh' = LinkFln(flh, carved, n)
         /\ carved' = carved + n
  /\ free_pgn' = free_pgn - 1
  /\ phase' \in {"carving", "failed"}
  /\ UNCHANGED <<using, freeing, live, last>>

CreateEnd ==
  /\ phase = "carving"
  /\ carved = Limit
  /\ phase' = "ready"
  /\ UNCHANGED <<carved, count, using, flh, free_pgn, freeing, live, last>>

Idle == phase = "ready" /\ freeing = NoPage

(* pgp_load looks at the label only, so it also accepts the pool a failed  *)
(* creation left.                                                          *)
Load ==
  /\ phase \in {"failed", "destroyed"} \/ Idle
  /\ IF phase = "destroyed" THEN phase' = phase /\ Returned("load", 0, -1)
     ELSE phase' = "ready" /\ Returned("load", 0, 0)
  /\ UNCHANGED <<carved, count, using, flh, free_pgn, freeing, live>>

Destroy ==
  /\ Idle
  /\ phase' = "destroyed"
  /\ Returned("destroy", 0, 0)
  /\ UNCHANGED <<carved, count, using, flh, free_pgn, freeing, live>>

-------------------------------------------------------------------------------
(* Slip: any count takes the head of its list. *)
HeadBranchAny(n) == ~lst_empty(flh[Log2(n)])

(* pgp_alloc of n pages.  _take_free_node first pops the head of list       *)
(* log_2(n) when n is a power of two, whatever the size of the node there.  *)
(* Its error return for a node in use is unreachable (FreeListsExact).      *)
HeadBranch(n) == TRUE \in Is2Power(n) /\ ~lst_empty(flh[Log2(n)])

Grant(p, n) ==
  /\ using' = using \cup {p}
  /\ live' = [q \in DOMAIN live \cup {p} |-> IF q = p THEN n ELSE live[q]]
  /\ Returned("alloc", n, p)

AllocHead(n) ==
  /\ Idle
  /\ HeadBranch(n)
  /\ LET p == lst_first(flh[Log2(n)])
     IN  /\ p \notin using
         /\ Grant(p, n)
  /\ flh' = [flh EXCEPT ![Log2(n)] = lst_pop_front(@)]
  /\ UNCHANGED <<phase, carved, count, free_pgn, freeing>>

ScanBranch(n) == FALSE \in Is2Power(n) \/ ~HeadBranch(n)

(* Slip: a node of exactly n pages is passed over. *)
FitsLarger(i, k, n) == count[flh[i][k]] > n /\ flh[i][k] \notin using

(* The node at position k of list i serves a request for n pages. *)
Fits(i, k, n) == /\ count[flh[i][k]] >= n
                 /\ flh[i][k] \notin using

FirstFit(i, k, n) ==
  /\ Fits(i, k, n)
  /\ \A j \in 1 .. (k - 1) : ~Fits(i, j, n)
  /\ \A h \in Log2(n) .. (i - 1) : \A j \in 1 .. Len(flh[h]) : ~Fits(h, j, n)

(* Slip: the node split keeps its page count. *)
TakeNodeWhole(p, n) ==
  LET rest == count[p] - n
      unlinked == UnlinkFln(flh, p, count[p])
  IN  /\ Grant(p, n)
      /\ flh' = IF rest > 0 THEN LinkFln(unlinked, p + n, rest) ELSE unlinked
      /\ count' = IF rest > 0
                  THEN [q \in DOMAIN count \cup {p + n} |->
                          IF q = p + n THEN rest ELSE count[q]]
                  ELSE count
      /\ free_pgn' = IF rest > 0 THEN free_pgn - 1 ELSE free_pgn

(* Unlinks node p and grants n of its pages; what is left becomes a node of *)
(* its own.  _fetch_free_pgn does not check that a descriptor is left:      *)
(* free_pgn below zero stands for the null pointer it would hand out.       *)
TakeNode(p, n) ==
  LET rest == count[p] - n
      unlinked == UnlinkFln(flh, p, count[p])
  IN  /\ Grant(p, n)
      /\ \/ /\ rest = 0
            /\ flh' = unlinked
            /\ UNCHANGED <<count, free_pgn>>
         \/ /\ rest > 0
            /\ flh' = LinkFln(unlinked, p + n, rest)
            /\ count' = [q \in DOMAIN count \cup {p + n} |->
                           IF q = p + n THEN rest
                           ELSE IF q = p THEN n ELSE count[q]]
            /\ free_pgn' = free_pgn - 1

(* Otherwise the lists are scanned upwards for the first node large enough. *)
AllocFit(n) ==
  /\ Idle
  /\ ScanBranch(n)
  /\ \E i \in {h \in Lists : h >= Log2(n)} : \E k \in 1 .. Len(flh[i]) :
       FirstFit(i, k, n) /\ TakeNode(flh[i][k], n)
  /\ UNCHANGED <<phase, carved, freeing>>

AllocFail(n) ==
  /\ Idle
  /\ ScanBranch(n)
  /\ \A i \in {h \in Lists : h >= Log2(n)} :
       \A k \in 1 .. Len(flh[i]) : ~Fits(i, k, n)
  /\ Returned("alloc", n, NoPage)
  /\ UNCHANGED <<phase, carved, count, using, flh, free_pgn, freeing, live>>

-------------------------------------------------------------------------------
(* pgp_free of page p, which any client may call with any page address. *)
FreeReject(p) ==
  /\ Idle
  /\ p \notin DOMAIN count \/ p \notin using
  /\ Returned("free", p, -1)
  /\ UNCHANGED <<phase, carved, count, using, flh, free_pgn, freeing, live>>

FreeBegin(p) ==
  /\ Idle
  /\ p \in DOMAIN count /\ p \in using
  /\ using' = using \ {p}
  /\ freeing' = p
  /\ live' = [q \in DOMAIN live \ {p} |-> live[q]]
  /\ Returned("freeing", p, 0)
  /\ UNCHANGED <<phase, carved, count, flh, free_pgn>>

(* rb_succ *)
Succ(p, s) == /\ s \in DOMAIN count
              /\ s > p
              /\ \A q \in DOMAIN count : q > p => s <= q

(* The loop of _return_free_node goes on: the successor is free, together   *)
(* they are not too large, and _merge_free_node finds it adjacent.          *)
Mergeable(s) == /\ Succ(freeing, s)
                /\ s \notin using
                /\ count[freeing] + count[s] <= MaxPg
                /\ s = freeing + count[freeing]

(* Slips: the node merged stays in its free list; its descriptor is lost. *)
MergeNextLinked ==
  /\ freeing # NoPage
  /\ \E s \in DOMAIN count :
       /\ Mergeable(s)
       /\ count' = [q \in DOMAIN count \ {s} |->
                      IF q = freeing THEN count[q] + count[s] ELSE count[q]]
  /\ free_pgn' = free_pgn + 1
  /\ UNCHANGED <<phase, carved, using, flh, freeing, live, last>>

MergeNextLost ==
  /\ freeing # NoPage
  /\ \E s \in DOMAIN count :
       /\ Mergeable(s)
       /\ flh' = UnlinkFln(flh, s, count[s])
       /\ count' = [q \in DOMAIN count \ {s} |->
                      IF q = freeing THEN count[q] + count[s] ELSE count[q]]
  /\ UNCHANGED <<phase, carved, using, free_pgn, freeing, live, last>>

MergeNext ==
  /\ freeing # NoPage
  /\ \E s \in DOMAIN count :
       /\ Mergeable(s)
       /\ flh' = UnlinkFln(flh, s, count[s])
       /\ count' = [q \in DOMAIN count \ {s} |->
                      IF q = freeing THEN count[q] + count[s] ELSE count[q]]
  /\ free_pgn' = free_pgn + 1
  /\ UNCHANGED <<phase, carved, using, freeing, live, last>>

FreeEnd ==
  /\ freeing # NoPage
  /\ \A s \in DOMAIN count : ~Mergeable(s)
  /\ flh' = LinkFln(flh, freeing, count[freeing])
  /\ freeing' = NoPage
  /\ Returned("free", freeing, 0)
  /\ UNCHANGED <<phase, carved, count, using, free_pgn, live>>

-------------------------------------------------------------------------------
Next ==
  \/ Carve \/ CreateEnd \/ Load \/ Destroy
  \/ \E n \in Requests : AllocHead(n) \/ AllocFit(n) \/ AllocFail(n)
  \/ \E p \in Pages : FreeReject(p) \/ FreeBegin(p)
  \/ MergeNext \/ FreeEnd

Spec == Init /\ [][Next]_vars

-------------------------------------------------------------------------------
TypeOK ==
  /\ phase \in {"carving", "ready", "failed", "destroyed"}
  /\ carved \in 0 .. Limit
  /\ count \in [DOMAIN count -> 1 .. MaxPg]
  /\ DOMAIN count \subseteq Pages
  /\ using \subseteq DOMAIN count
  /\ flh \in [Lists -> Seq(Pages)]
  /\ free_pgn \in Int
  /\ freeing \in DOMAIN count \cup {NoPage}
  /\ live \in [DOMAIN live -> Requests]
  /\ last \in [op : {"create", "load", "destroy", "alloc", "free", "freeing"},
               arg : Nat, res : Pages \cup {0, -1}]

(* The nodes tile what has been carved of the chunk: the first starts at    *)
(* page 0, each ends where the next one starts, and none overlap -- however *)
(* splits and merges have interleaved.                                      *)
NodesTile ==
  /\ carved > 0 => 0 \in DOMAIN count
  /\ \A p \in DOMAIN count : p + count[p] \in DOMAIN count \cup {carved}
  /\ \A p, q \in DOMAIN count : p < q => p + count[p] <= q

FreeNodes(i) == {p \in (DOMAIN count \ using) \ {freeing} : Log2(count[p]) = i}

(* A free node is in the list of its own size class, exactly once, and no   *)
(* node in use is in any: the size of a node changes only while it is off   *)
(* the lists.                                                               *)
FreeListsExact == \A i \in Lists : ListsOnce(flh[i], FreeNodes(i))

(* _fetch_free_pgn never finds _free_pgn_list empty: every node has at      *)
(* least one page, and there are as many descriptors as pages and MaxPg     *)
(* more.                                                                    *)
DescriptorsSuffice == /\ free_pgn >= MaxPg
                      /\ free_pgn + Cardinality(DOMAIN count) = ChunkPgcount

(* What the clients hold is what the pool has marked in use, and every one  *)
(* of them got at least the pages it asked for: the head branch, which does *)
(* not look at the size of the node it pops, never under-serves.            *)
LiveServed == /\ DOMAIN live = using
              /\ \A p \in DOMAIN live : live[p] <= count[p]

(* pgp_alloc fails only when no free node is large enough: starting the     *)
(* scan at list log_2(n) skips no candidate.                                *)
FailsOnlyWithoutFit ==
  last.op = "alloc" /\ last.res = NoPage =>
    \A p \in DOMAIN count \ using : count[p] < last.arg

(* The pool implements the page allocator: an allocation is a free run of   *)
(* pages, disjoint from all others, until it is freed.                      *)
Alloc == INSTANCE PageAlloc WITH held <- [p \in using |-> count[p]]
ImplementsPageAlloc == Alloc!Spec
===============================================================================
