----------------------------- MODULE PgPoolProofs -----------------------------
(***************************************************************************)
(* Proofs about PgPool for every chunk size, node limit and set of         *)
(* requests.                                                               *)
(***************************************************************************)
EXTENDS PgPool, CommonLemmas, FiniteSetTheorems

-------------------------------------------------------------------------------
(* Facts about log_2. *)

(* log_2 returns the number of a bit of the word, and n is below the next   *)
(* power of two; no smaller bit number would do.                            *)
LEMMA Log2Def ==
  ASSUME NEW n \in Nat
  PROVE  /\ Log2(n) \in 0 .. 63
         /\ n < 2^(Log2(n) + 1) \/ Log2(n) = 63
         /\ \A j \in 0 .. (Log2(n) - 1) : n >= 2^(j + 1)
<1> DEFINE P(k) == n < 2^(k + 1) \/ k = 63
           S == {k \in 0 .. 63 : P(k)}
<1>1. S \subseteq Nat /\ S # {}
  <2>1. 63 \in S
    OBVIOUS
  <2> QED BY <2>1
<1>2. PICK k \in S : \A m \in S : k <= m
  BY <1>1, LeastElement
<1>3. \A j \in 0 .. (k - 1) : n >= 2^(j + 1)
  <2> SUFFICES ASSUME NEW j \in 0 .. (k - 1) PROVE n >= 2^(j + 1)
    OBVIOUS
  <2>1. j \in 0 .. 63 /\ j \notin S /\ j # 63
    BY <1>2
  <2>2. ~(n < 2^(j + 1))
    BY <2>1
  <2>3. 2^(j + 1) \in Int
    OBVIOUS
  <2> QED BY <2>2, <2>3
<1> QED BY <1>2, <1>3 DEF Log2

(* log_2 is monotone. *)
LEMMA Log2Monotone ==
  ASSUME NEW m \in Nat, NEW n \in Nat, m <= n
  PROVE  Log2(m) <= Log2(n)
<1> DEFINE a == Log2(m)
           b == Log2(n)
<1>1. a \in 0 .. 63 /\ \A j \in 0 .. (a - 1) : m >= 2^(j + 1)
  BY Log2Def
<1>2. b \in 0 .. 63 /\ (n < 2^(b + 1) \/ b = 63)
  BY Log2Def
<1> HIDE DEF a, b
<1> SUFFICES ASSUME a > b PROVE FALSE
  BY <1>1, <1>2 DEF a, b
<1>3. b \in 0 .. (a - 1) /\ b # 63
  BY <1>1, <1>2
<1>4. n < 2^(b + 1) /\ m >= 2^(b + 1)
  BY <1>1, <1>2, <1>3
<1>5. 2^(b + 1) \in Int
  BY <1>3
<1> QED BY <1>4, <1>5

(* A node of a legal size has a list. *)
LEMMA SizeClass ==
  ASSUME NEW n \in 1 .. MaxPg
  PROVE  Log2(n) \in Lists
BY SizeAssumption, Log2Def, Log2Monotone DEF Lists

-------------------------------------------------------------------------------
(* Facts about the free lists: F[i] is the set of nodes list i holds. *)

(* _link_fln puts a node that is in no list into the list of its size. *)
LEMMA LinkFlnOnce ==
  ASSUME NEW lists \in [Lists -> Seq(Pages)], NEW F,
         \A i \in Lists : ListsOnce(lists[i], F[i]),
         NEW p \in Pages, NEW n \in 1 .. MaxPg, p \notin F[Log2(n)]
  PROVE  /\ LinkFln(lists, p, n) \in [Lists -> Seq(Pages)]
         /\ \A i \in Lists : ListsOnce(LinkFln(lists, p, n)[i],
                                       IF i = Log2(n) THEN F[i] \cup {p} ELSE F[i])
<1>1. Log2(n) \in Lists
  BY SizeClass
<1>2. /\ lst_push_front(lists[Log2(n)], p) \in Seq(Pages)
      /\ ListsOnce(lst_push_front(lists[Log2(n)], p), F[Log2(n)] \cup {p})
  BY <1>1, PushFrontOnce
<1> QED BY <1>1, <1>2 DEF LinkFln

(* _unlink_fln takes a node out of the list of its size. *)
LEMMA UnlinkFlnOnce ==
  ASSUME NEW lists \in [Lists -> Seq(Pages)], NEW F,
         \A i \in Lists : ListsOnce(lists[i], F[i]),
         NEW p \in Pages, NEW n \in 1 .. MaxPg, p \in F[Log2(n)]
  PROVE  /\ UnlinkFln(lists, p, n) \in [Lists -> Seq(Pages)]
         /\ \A i \in Lists : ListsOnce(UnlinkFln(lists, p, n)[i],
                                       IF i = Log2(n) THEN F[i] \ {p} ELSE F[i])
<1>1. Log2(n) \in Lists
  BY SizeClass
<1>2. /\ lst_remove(lists[Log2(n)], p) \in Seq(Pages)
      /\ ListsOnce(lst_remove(lists[Log2(n)], p), F[Log2(n)] \ {p})
  BY <1>1, RemoveOnce
<1> QED BY <1>1, <1>2 DEF UnlinkFln

-------------------------------------------------------------------------------
(* The inductive invariant.  The properties of the runs need each other:    *)
(* a split or a merge keeps the tiling because the free lists hold free     *)
(* nodes only, and the lists stay exact because the tiling makes the first  *)
(* page of a new node new.  Bounds says where the nodes and the merge in    *)
(* progress may be.                                                         *)
Bounds ==
  /\ \A p \in DOMAIN count : p + count[p] <= carved
  /\ freeing \notin using
  /\ phase # "ready" => freeing = NoPage

Accounting == free_pgn + Cardinality(DOMAIN count) = ChunkPgcount

IInv == TypeOK /\ NodesTile /\ FreeListsExact /\ Accounting /\ LiveServed /\ Bounds

(* The first pages of the nodes are finitely many. *)
LEMMA FiniteNodes ==
  ASSUME TypeOK
  PROVE  /\ IsFiniteSet(Pages) /\ Cardinality(Pages) = Limit
         /\ IsFiniteSet(DOMAIN count) /\ Cardinality(DOMAIN count) \in Nat
         /\ Cardinality(DOMAIN count) <= Limit
<1>1. Limit \in Nat
  BY SizeAssumption DEF Limit
<1>2. IsFiniteSet(Pages) /\ Cardinality(Pages) = Limit
  BY <1>1, FS_Interval DEF Pages
<1>3. DOMAIN count \in SUBSET Pages
  BY DEF TypeOK
<1> QED BY <1>2, <1>3, FS_Subset, FS_CardinalityType

(* The empty chunk satisfies the invariant. *)
LEMMA InitIInv == Init => IInv
<1> SUFFICES ASSUME Init PROVE IInv
  OBVIOUS
<1> USE DEF Init
<1>1. TypeOK
  <2>1. Limit \in Nat
    BY SizeAssumption DEF Limit
  <2>2. flh \in [Lists -> Seq(Pages)]
    BY DEF lst_new
  <2> QED BY <2>1, <2>2, SizeAssumption DEF TypeOK, NoPage
<1>2. NodesTile
  BY DEF NodesTile
<1>3. FreeListsExact
  BY NewOnce DEF FreeListsExact, FreeNodes
<1>4. Accounting
  BY SizeAssumption, FS_EmptySet DEF Accounting
<1>5. LiveServed /\ Bounds
  BY DEF LiveServed, Bounds, NoPage
<1> QED BY <1>1, <1>2, <1>3, <1>4, <1>5 DEF IInv

(* A turn of the carving loop adds the node at carved, behind all others. *)
LEMMA CarveIInv == IInv /\ Carve => IInv'
<1> SUFFICES ASSUME IInv, Carve PROVE IInv'
  OBVIOUS
<1> USE DEF IInv
<1> DEFINE n == IF Limit - carved >= MaxPg THEN MaxPg ELSE Limit - carved
<1>1. /\ n \in 1 .. MaxPg
      /\ carved \in Pages /\ carved + n \in 0 .. Limit /\ carved \in Nat
      /\ carved' = carved + n
      /\ count' = [p \in DOMAIN count \cup {carved} |->
                    IF p = carved THEN n ELSE count[p]]
      /\ flh' = LinkFln(flh, carved, n)
      /\ free_pgn' = free_pgn - 1
      /\ phase' \in {"carving", "failed"}
      /\ using' = using /\ freeing' = freeing /\ live' = live /\ last' = last
      /\ phase = "carving"
  BY SizeAssumption DEF Carve, TypeOK, Limit, Pages
<1> HIDE DEF n
<1>2. \A p \in DOMAIN count : /\ p \in Nat /\ count[p] \in 1 .. MaxPg
                              /\ p + count[p] <= carved /\ p < carved
  BY <1>1 DEF TypeOK, Bounds, Pages
<1>3. carved \notin DOMAIN count
  BY <1>1, <1>2
<1>4. freeing = NoPage
  BY <1>1 DEF Bounds
<1>5. /\ flh' \in [Lists -> Seq(Pages)]
      /\ \A i \in Lists : ListsOnce(flh'[i], IF i = Log2(n) THEN FreeNodes(i) \cup {carved}
                                             ELSE FreeNodes(i))
  <2> DEFINE F == [i \in Lists |-> FreeNodes(i)]
  <2>1. flh \in [Lists -> Seq(Pages)] /\ \A i \in Lists : ListsOnce(flh[i], F[i])
    BY DEF TypeOK, FreeListsExact
  <2>2. Log2(n) \in Lists /\ carved \notin F[Log2(n)]
    BY <1>1, <1>3, SizeClass DEF FreeNodes
  <2>3. \A i \in Lists : F[i] = FreeNodes(i)
    OBVIOUS
  <2> HIDE DEF F
  <2>4. /\ flh' \in [Lists -> Seq(Pages)]
        /\ \A i \in Lists : ListsOnce(flh'[i], IF i = Log2(n) THEN F[i] \cup {carved}
                                               ELSE F[i])
    BY <1>1, <2>1, <2>2, LinkFlnOnce
  <2> QED BY <2>3, <2>4
<1>6. \A i \in Lists : FreeNodes(i)' = IF i = Log2(n) THEN FreeNodes(i) \cup {carved}
                                                  ELSE FreeNodes(i)
  BY <1>1, <1>3, <1>4 DEF FreeNodes, NoPage, TypeOK
<1>7. TypeOK'
  BY <1>1, <1>4, <1>5 DEF TypeOK
<1>8. NodesTile'
  <2>1. (carved > 0 => 0 \in DOMAIN count)'
    BY <1>1 DEF NodesTile
  <2>2. (\A p \in DOMAIN count : p + count[p] \in DOMAIN count \cup {carved})'
    BY <1>1, <1>2, <1>3 DEF NodesTile
  <2>3. (\A p, q \in DOMAIN count : p < q => p + count[p] <= q)'
    BY <1>1, <1>2, <1>3 DEF NodesTile
  <2> QED BY <2>1, <2>2, <2>3 DEF NodesTile
<1>9. FreeListsExact'
  BY <1>5, <1>6 DEF FreeListsExact
<1>10. Accounting'
  <2>1. Cardinality(DOMAIN count') = Cardinality(DOMAIN count) + 1
    BY <1>1, <1>3, FiniteNodes, FS_AddElement
  <2> QED BY <1>1, <2>1, FiniteNodes DEF Accounting, TypeOK
<1>11. LiveServed'
  BY <1>1, <1>3 DEF LiveServed, TypeOK
<1>12. Bounds'
  BY <1>1, <1>2, <1>3, <1>4 DEF Bounds, NoPage
<1> QED BY <1>7, <1>8, <1>9, <1>10, <1>11, <1>12

(* Popping the head of a list grants a free node of at least 2^log_2(n)     *)
(* pages, and n is that power of two.                                       *)
LEMMA AllocHeadIInv ==
  ASSUME NEW n \in Requests, IInv, AllocHead(n)
  PROVE  IInv'
<1> USE DEF IInv
<1> DEFINE i == Log2(n)
           p == lst_first(flh[i])
<1>1. /\ n \in Nat \ {0}
      /\ TRUE \in Is2Power(n) /\ flh[i] # <<>>
      /\ freeing = NoPage /\ phase = "ready"
      /\ using' = using \cup {p}
      /\ live' = [q \in DOMAIN live \cup {p} |-> IF q = p THEN n ELSE live[q]]
      /\ last' = [op |-> "alloc", arg |-> n, res |-> p]
      /\ flh' = [flh EXCEPT ![i] = lst_pop_front(@)]
      /\ UNCHANGED <<phase, carved, count, free_pgn, freeing>>
  BY RequestAssumption DEF AllocHead, HeadBranch, Idle, Grant, Returned, lst_empty
<1>2. i \in Lists
  BY <1>1, RequestAssumption
<1>3. flh \in [Lists -> Seq(Pages)] /\ ListsOnce(flh[i], FreeNodes(i))
  BY <1>2 DEF TypeOK, FreeListsExact
<1>4. /\ p \in FreeNodes(i)
      /\ lst_pop_front(flh[i]) \in Seq(Pages)
      /\ ListsOnce(lst_pop_front(flh[i]), FreeNodes(i) \ {p})
  BY <1>1, <1>2, <1>3, PopFrontOnce
<1> HIDE DEF p
<1>5. p \in DOMAIN count /\ p \in Pages /\ p \notin using /\ Log2(count[p]) = i
  BY <1>4 DEF FreeNodes, TypeOK
<1>6. n <= count[p]
  <2>1. count[p] \in 1 .. MaxPg
    BY <1>5 DEF TypeOK
  <2>2. CASE n = 1
    BY <2>1, <2>2
  <2>3. CASE n # 1
    <3>1. n = 2^i
      BY <1>1, <2>3 DEF Is2Power
    <3>2. CASE i = 0
      <4>1. 2^0 = 1
        OBVIOUS
      <4> QED BY <3>1, <3>2, <4>1, <2>3
    <3>3. CASE i # 0
      <4>1. i - 1 \in 0 .. (Log2(count[p]) - 1) /\ (i - 1) + 1 = i
        <5>1. i \in 0 .. 63
          BY <1>1, Log2Def
        <5> QED BY <1>5, <3>3, <5>1
      <4>2. count[p] >= 2^((i - 1) + 1)
        BY <4>1, <2>1, Log2Def, SizeAssumption
      <4> QED BY <3>1, <4>1, <4>2, <2>1, <1>1
    <3> QED BY <3>2, <3>3
  <2> QED BY <2>2, <2>3
<1> HIDE DEF i
<1>7. \A j \in Lists : FreeNodes(j)' = IF j = i THEN FreeNodes(j) \ {p} ELSE FreeNodes(j)
  BY <1>1, <1>5 DEF FreeNodes
<1>8. TypeOK'
  <2>1. flh' \in [Lists -> Seq(Pages)]
    BY <1>1, <1>2, <1>3, <1>4
  <2>2. live' \in [DOMAIN live' -> Requests]
    BY <1>1 DEF TypeOK
  <2>3. using' \subseteq DOMAIN count'
    BY <1>1, <1>5 DEF TypeOK
  <2>4. last' \in [op : {"create", "load", "destroy", "alloc", "free", "freeing"},
                   arg : Nat, res : Pages \cup {0, -1}]
    BY <1>1, <1>5
  <2> QED BY <1>1, <2>1, <2>2, <2>3, <2>4 DEF TypeOK
<1>9. NodesTile' /\ Accounting'
  BY <1>1 DEF NodesTile, Accounting
<1>10. FreeListsExact'
  BY <1>1, <1>2, <1>3, <1>4, <1>7 DEF FreeListsExact
<1>11. LiveServed'
  BY <1>1, <1>5, <1>6 DEF LiveServed
<1>12. Bounds'
  BY <1>1, <1>5 DEF Bounds, NoPage, Pages
<1> QED BY <1>8, <1>9, <1>10, <1>11, <1>12

(* Scanning the lists grants a free node of at least n pages; what is left  *)
(* of it starts where no node started.                                      *)
LEMMA AllocFitIInv ==
  ASSUME NEW n \in Requests, IInv, AllocFit(n)
  PROVE  IInv'
<1> USE DEF IInv
<1>1. /\ n \in Nat \ {0}
      /\ freeing = NoPage /\ phase = "ready"
      /\ UNCHANGED <<phase, carved, freeing>>
  BY RequestAssumption DEF AllocFit, Idle
<1>2. PICK i \in Lists : \E k \in 1 .. Len(flh[i]) :
        Fits(i, k, n) /\ TakeNode(flh[i][k], n)
  BY DEF AllocFit, FirstFit
<1>2a. PICK k \in 1 .. Len(flh[i]) : Fits(i, k, n) /\ TakeNode(flh[i][k], n)
  BY <1>2
<1> DEFINE p == flh[i][k]
           rest == count[p] - n
           unlinked == UnlinkFln(flh, p, count[p])
           F == [j \in Lists |-> FreeNodes(j)]
           G == [j \in Lists |-> IF j = i THEN FreeNodes(j) \ {p} ELSE FreeNodes(j)]
<1>3. /\ p \in FreeNodes(i)
      /\ p \in DOMAIN count /\ p \in Pages /\ p \in Nat /\ p \notin using
      /\ Log2(count[p]) = i /\ count[p] \in 1 .. MaxPg /\ n <= count[p]
  BY <1>2a DEF FreeListsExact, ListsOnce, FreeNodes, TypeOK, Fits, Pages
<1>4. /\ using' = using \cup {p}
      /\ live' = [q \in DOMAIN live \cup {p} |-> IF q = p THEN n ELSE live[q]]
      /\ last' = [op |-> "alloc", arg |-> n, res |-> p]
  BY <1>2a DEF TakeNode, Grant, Returned
<1>5. /\ unlinked \in [Lists -> Seq(Pages)]
      /\ \A j \in Lists : ListsOnce(unlinked[j], G[j])
  <2>1. flh \in [Lists -> Seq(Pages)] /\ \A j \in Lists : ListsOnce(flh[j], F[j])
    BY DEF TypeOK, FreeListsExact
  <2>2. p \in F[Log2(count[p])]
    BY <1>3
  <2>3. \A j \in Lists : G[j] = IF j = Log2(count[p]) THEN F[j] \ {p} ELSE F[j]
    BY <1>3
  <2> HIDE DEF F, G
  <2>4. /\ unlinked \in [Lists -> Seq(Pages)]
        /\ \A j \in Lists : ListsOnce(unlinked[j], IF j = Log2(count[p]) THEN F[j] \ {p}
                                                   ELSE F[j])
    BY <1>3, <2>1, <2>2, UnlinkFlnOnce
  <2> QED BY <2>3, <2>4
<1>6. /\ live' \in [DOMAIN live' -> Requests]
      /\ last' \in [op : {"create", "load", "destroy", "alloc", "free", "freeing"},
                    arg : Nat, res : Pages \cup {0, -1}]
  <2>1. live' \in [DOMAIN live' -> Requests]
    BY <1>4 DEF TypeOK
  <2>2. last' \in [op : {"create", "load", "destroy", "alloc", "free", "freeing"},
                   arg : Nat, res : Pages \cup {0, -1}]
    BY <1>1, <1>3, <1>4
  <2> QED BY <2>1, <2>2
<1>7. CASE rest = 0
  <2>1. flh' = unlinked /\ UNCHANGED <<count, free_pgn>> /\ count[p] = n
    BY <1>1, <1>2a, <1>3, <1>7 DEF TakeNode
  <2> HIDE DEF p, unlinked, rest
  <2>2. \A j \in Lists : FreeNodes(j)' = G[j]
    BY <1>1, <1>3, <1>4, <2>1 DEF FreeNodes
  <2>3. TypeOK'
    <3>1. using' \subseteq DOMAIN count'
      BY <1>3, <1>4, <2>1 DEF TypeOK
    <3> QED BY <1>1, <1>5, <1>6, <2>1, <3>1 DEF TypeOK
  <2>4. NodesTile' /\ Accounting'
    BY <1>1, <2>1 DEF NodesTile, Accounting
  <2>5. FreeListsExact'
    <3>1. \A j \in Lists : ListsOnce(flh'[j], FreeNodes(j)')
      BY <1>5, <2>1, <2>2
    <3> QED BY <3>1 DEF FreeListsExact
  <2>6. LiveServed'
    BY <1>3, <1>4, <2>1 DEF LiveServed, TypeOK
  <2>7. Bounds'
    BY <1>1, <1>3, <1>4, <2>1 DEF Bounds, NoPage
  <2> QED BY <2>3, <2>4, <2>5, <2>6, <2>7
<1>8. CASE rest > 0
  <2>1. /\ flh' = LinkFln(unlinked, p + n, rest)
        /\ count' = [q \in DOMAIN count \cup {p + n} |->
                       IF q = p + n THEN rest ELSE IF q = p THEN n ELSE count[q]]
        /\ free_pgn' = free_pgn - 1
    BY <1>1, <1>2a, <1>3, <1>8 DEF TakeNode
  <2>2. rest \in 1 .. MaxPg /\ n \in 1 .. MaxPg /\ rest = count[p] - n
    BY <1>1, <1>3, <1>8, SizeAssumption
  <2> HIDE DEF p, unlinked, rest
  <2>3. \A q \in DOMAIN count : /\ q \in Nat /\ count[q] \in 1 .. MaxPg
                                /\ q + count[q] <= carved
    BY DEF TypeOK, Bounds, Pages
  <2> DEFINE d == p + n
  <2>a. d \in Nat /\ d > p /\ d < p + count[p] /\ d + rest = p + count[p]
    BY <1>1, <1>3, <2>2
  <2>b. carved \in Nat /\ carved <= Limit /\ carved' = carved /\ Limit \in Nat
    BY <1>1, SizeAssumption DEF TypeOK, Limit
  <2>c. \A q, r \in DOMAIN count : q < r => q + count[q] <= r
    BY DEF NodesTile
  <2>4. d \notin DOMAIN count /\ d \in Pages
    <3>1. d \notin DOMAIN count
      BY <1>3, <2>a, <2>c, <2>3
    <3>2. p + count[p] <= carved
      BY <1>3, <2>3
    <3> QED BY <3>1, <3>2, <2>a, <2>b, <1>3, <2>2 DEF Pages
  <2>d. /\ DOMAIN count' = DOMAIN count \cup {d}
        /\ count'[d] = rest /\ count'[p] = n
        /\ \A q \in DOMAIN count : q # p => count'[q] = count[q]
    BY <1>3, <2>1, <2>4
  <2>5. /\ flh' \in [Lists -> Seq(Pages)]
        /\ \A j \in Lists : ListsOnce(flh'[j], IF j = Log2(rest) THEN G[j] \cup {d}
                                               ELSE G[j])
    <3>1. Log2(rest) \in Lists /\ d \notin G[Log2(rest)]
      BY <2>2, <2>4, SizeClass DEF FreeNodes
    <3> HIDE DEF G
    <3> QED BY <1>5, <2>1, <2>2, <2>4, <3>1, LinkFlnOnce
  <2>6. \A j \in Lists : FreeNodes(j)' = IF j = Log2(rest) THEN G[j] \cup {d} ELSE G[j]
    <3>1. d # p /\ d # freeing /\ freeing' = NoPage /\ d \notin using'
      BY <1>1, <1>3, <1>4, <2>4 DEF TypeOK, NoPage, Pages
    <3> HIDE DEF d
    <3> QED BY <1>1, <1>3, <1>4, <2>d, <2>4, <3>1 DEF FreeNodes
  <2>7. TypeOK'
    <3>1. using' \subseteq DOMAIN count' /\ DOMAIN count' \subseteq Pages
      BY <1>3, <1>4, <2>1, <2>4 DEF TypeOK
    <3>2. count' \in [DOMAIN count' -> 1 .. MaxPg]
      BY <2>1, <2>2, <2>3
    <3>3. free_pgn' \in Int /\ freeing' \in DOMAIN count' \cup {NoPage}
      BY <1>1, <2>1 DEF TypeOK
    <3> QED BY <1>1, <1>6, <2>5, <3>1, <3>2, <3>3 DEF TypeOK
  <2>8. NodesTile'
    <3>1. (carved > 0 => 0 \in DOMAIN count)'
      BY <2>b, <2>d DEF NodesTile
    <3>2. \A q \in DOMAIN count' : q + count'[q] \in DOMAIN count' \cup {carved'}
      <4> TAKE q \in DOMAIN count'
      <4>1. CASE q = d
        BY <1>3, <2>a, <2>b, <2>d, <4>1 DEF NodesTile
      <4>2. CASE q = p
        BY <2>d, <4>2
      <4>3. CASE q \in DOMAIN count /\ q # p
        BY <2>b, <2>d, <4>3 DEF NodesTile
      <4> QED BY <2>d, <4>1, <4>2, <4>3
    <3>3. \A q, r \in DOMAIN count' : q < r => q + count'[q] <= r
      <4> SUFFICES ASSUME NEW q \in DOMAIN count', NEW r \in DOMAIN count', q < r
                   PROVE  q + count'[q] <= r
        OBVIOUS
      <4>0. DOMAIN count' = DOMAIN count \cup {d} /\ p \in Nat /\ n \in Nat
        BY <1>1, <1>3, <2>d
      <4> HIDE DEF d
      <4>1. CASE q = d
        <5>1. r \in DOMAIN count /\ p < r
          BY <4>0, <4>1, <2>a, <2>3
        <5> QED BY <5>1, <1>3, <2>a, <2>c, <2>d, <4>1
      <4>2. CASE q \in DOMAIN count /\ r = d
        <5>1. CASE q = p
          BY <5>1, <4>0, <2>d, <4>2 DEF d
        <5>2. CASE q < p
          BY <5>2, <1>3, <2>a, <2>c, <2>d, <2>3, <4>2
        <5>3. CASE q > p
          BY <5>3, <1>3, <2>a, <2>c, <2>3, <4>2
        <5> QED BY <5>1, <5>2, <5>3, <2>3, <4>2, <4>0
      <4>3. CASE q \in DOMAIN count /\ r \in DOMAIN count
        <5>1. q + count[q] <= r
          BY <2>c, <4>3
        <5> QED BY <5>1, <1>1, <1>3, <2>2, <2>3, <2>d, <4>3
      <4> QED BY <4>0, <4>1, <4>2, <4>3
    <3> QED BY <3>1, <3>2, <3>3 DEF NodesTile
  <2>9. FreeListsExact'
    <3>1. \A j \in Lists : ListsOnce(flh'[j], FreeNodes(j)')
      BY <2>5, <2>6
    <3> QED BY <3>1 DEF FreeListsExact
  <2>10. Accounting'
    <3>1. Cardinality(DOMAIN count') = Cardinality(DOMAIN count) + 1
      BY <2>d, <2>4, FiniteNodes, FS_AddElement
    <3>2. free_pgn' = free_pgn - 1 /\ free_pgn \in Int
      BY <2>1 DEF TypeOK
    <3>3. Cardinality(DOMAIN count) \in Nat
      BY FiniteNodes
    <3>4. free_pgn + Cardinality(DOMAIN count) = ChunkPgcount
      BY DEF Accounting
    <3>5. free_pgn' + Cardinality(DOMAIN count') = ChunkPgcount
      BY <3>1, <3>2, <3>3, <3>4
    <3> QED BY <3>5 DEF Accounting
  <2>11. LiveServed'
    <3>1. DOMAIN live' = using'
      BY <1>4 DEF LiveServed
    <3>2. \A q \in DOMAIN live' : live'[q] <= count'[q]
      <4> TAKE q \in DOMAIN live'
      <4>1. CASE q = p
        BY <1>1, <1>4, <2>d, <4>1
      <4>2. CASE q # p
        BY <1>4, <2>d, <4>2 DEF LiveServed, TypeOK
      <4> QED BY <4>1, <4>2
    <3> QED BY <3>1, <3>2 DEF LiveServed
  <2>12. Bounds'
    <3>0. /\ p \in DOMAIN count /\ p + count[p] <= carved /\ carved' = carved
          /\ d + rest = p + count[p] /\ p + n = d
      BY <1>3, <2>a, <2>b, <2>3
    <3>1. \A q \in DOMAIN count' : q + count'[q] <= carved'
      <4> TAKE q \in DOMAIN count'
      <4> HIDE DEF d
      <4>1. CASE q = d
        BY <2>d, <3>0, <4>1
      <4>2. CASE q = p
        BY <2>a, <2>b, <2>d, <2>2, <3>0, <4>2
      <4>3. CASE q \in DOMAIN count /\ q # p
        BY <2>d, <2>3, <3>0, <4>3
      <4> QED BY <2>d, <4>1, <4>2, <4>3
    <3> QED BY <1>1, <1>3, <1>4, <3>1 DEF Bounds, NoPage, Pages
  <2> QED BY <2>7, <2>8, <2>9, <2>10, <2>11, <2>12
<1>9. rest = 0 \/ rest > 0
  BY <1>1, <1>3
<1> QED BY <1>7, <1>8, <1>9

(* A node being freed is in no list and not in use. *)
LEMMA FreeBeginIInv ==
  ASSUME NEW p \in Pages, IInv, FreeBegin(p)
  PROVE  IInv'
<1> USE DEF IInv
<1>1. /\ freeing = NoPage /\ phase = "ready"
      /\ p \in DOMAIN count /\ p \in using
      /\ using' = using \ {p} /\ freeing' = p
      /\ live' = [q \in DOMAIN live \ {p} |-> live[q]]
      /\ last' = [op |-> "freeing", arg |-> p, res |-> 0]
      /\ UNCHANGED <<phase, carved, count, flh, free_pgn>>
  BY DEF FreeBegin, Idle, Returned
<1>2. \A i \in Lists : FreeNodes(i)' = FreeNodes(i)
  BY <1>1 DEF FreeNodes, TypeOK, NoPage, Pages
<1>3. TypeOK'
  <2>1. p \in Nat
    BY DEF Pages
  <2>2. last' \in [op : {"create", "load", "destroy", "alloc", "free", "freeing"},
                   arg : Nat, res : Pages \cup {0, -1}]
    BY <1>1, <2>1
  <2> QED BY <1>1, <2>2 DEF TypeOK
<1>4. NodesTile' /\ Accounting'
  BY <1>1 DEF NodesTile, Accounting
<1>5. FreeListsExact'
  BY <1>1, <1>2 DEF FreeListsExact
<1>6. LiveServed' /\ Bounds'
  BY <1>1 DEF LiveServed, Bounds
<1> QED BY <1>3, <1>4, <1>5, <1>6

(* Merging takes the successor off its list and out of the tree, and the    *)
(* node being freed reaches to where the successor did.                     *)
LEMMA MergeNextIInv == IInv /\ MergeNext => IInv'
<1> SUFFICES ASSUME IInv, MergeNext PROVE IInv'
  OBVIOUS
<1> USE DEF IInv
<1>1. PICK s \in DOMAIN count :
        /\ Mergeable(s)
        /\ flh' = UnlinkFln(flh, s, count[s])
        /\ count' = [q \in DOMAIN count \ {s} |->
                       IF q = freeing THEN count[q] + count[s] ELSE count[q]]
  BY DEF MergeNext
<1> DEFINE f == freeing
           n == count[f] + count[s]
<1>2. /\ f \in DOMAIN count /\ f \in Nat /\ f \notin using
      /\ free_pgn' = free_pgn + 1
      /\ UNCHANGED <<phase, carved, using, freeing, live, last>>
  BY DEF MergeNext, TypeOK, Bounds, Pages
<1>3. /\ s > f /\ s \notin using /\ n <= MaxPg
      /\ s = f + count[f]
  BY <1>1 DEF Mergeable, Succ
<1>4. \A q \in DOMAIN count : /\ q \in Nat /\ count[q] \in 1 .. MaxPg
                              /\ q + count[q] <= carved /\ q \in Pages
  BY DEF TypeOK, Bounds, Pages
<1>5. n \in 1 .. MaxPg /\ s # f /\ f + n = s + count[s] /\ s \in Nat
  BY <1>2, <1>3, <1>4, SizeAssumption
<1>6. /\ DOMAIN count' = DOMAIN count \ {s}
      /\ count'[f] = n
      /\ \A q \in DOMAIN count \ {s} : q # f => count'[q] = count[q]
  BY <1>1, <1>2, <1>5
<1>7. /\ flh' \in [Lists -> Seq(Pages)]
      /\ \A i \in Lists : ListsOnce(flh'[i], IF i = Log2(count[s]) THEN FreeNodes(i) \ {s}
                                             ELSE FreeNodes(i))
  <2> DEFINE F == [i \in Lists |-> FreeNodes(i)]
  <2>1. flh \in [Lists -> Seq(Pages)] /\ \A i \in Lists : ListsOnce(flh[i], F[i])
    BY DEF TypeOK, FreeListsExact
  <2>2. Log2(count[s]) \in Lists
    BY <1>4, SizeClass
  <2>3. s \in F[Log2(count[s])]
    BY <1>3, <1>5, <2>2 DEF FreeNodes
  <2>4. \A i \in Lists : F[i] = FreeNodes(i)
    OBVIOUS
  <2> HIDE DEF F
  <2>5. /\ flh' \in [Lists -> Seq(Pages)]
        /\ \A i \in Lists : ListsOnce(flh'[i], IF i = Log2(count[s]) THEN F[i] \ {s}
                                               ELSE F[i])
    BY <1>1, <1>4, <2>1, <2>3, UnlinkFlnOnce
  <2> QED BY <2>4, <2>5
<1> HIDE DEF n
<1>8. \A i \in Lists : FreeNodes(i)' = IF i = Log2(count[s]) THEN FreeNodes(i) \ {s}
                                                      ELSE FreeNodes(i)
  BY <1>2, <1>3, <1>5, <1>6 DEF FreeNodes
<1>9. TypeOK'
  <2>1. count' \in [DOMAIN count' -> 1 .. MaxPg]
    BY <1>1, <1>4, <1>5, <1>6
  <2>2. using' \subseteq DOMAIN count' /\ freeing' \in DOMAIN count' \cup {NoPage}
    BY <1>2, <1>3, <1>5, <1>6 DEF TypeOK
  <2>3. DOMAIN count' \subseteq Pages /\ free_pgn' \in Int
    BY <1>2, <1>6 DEF TypeOK
  <2> QED BY <1>2, <1>7, <2>1, <2>2, <2>3 DEF TypeOK
<1>10. NodesTile'
  <2>1. \A q, r \in DOMAIN count : q < r => q + count[q] <= r
    BY DEF NodesTile
  <2>2. (carved > 0 => 0 \in DOMAIN count)'
    BY <1>2, <1>3, <1>5, <1>6 DEF NodesTile
  <2>3. \A q \in DOMAIN count' : q + count'[q] \in DOMAIN count' \cup {carved'}
    <3> TAKE q \in DOMAIN count'
    <3>1. CASE q = f
      <4>1. s + count[s] \in DOMAIN count \cup {carved} /\ s + count[s] # s
        BY <1>4, <1>5 DEF NodesTile
      <4> QED BY <1>2, <1>5, <1>6, <3>1, <4>1
    <3>2. CASE q # f
      <4>1. q \in DOMAIN count /\ q # s /\ count'[q] = count[q]
        BY <1>6, <3>2
      <4>2. q + count[q] \in DOMAIN count \cup {carved}
        BY <4>1 DEF NodesTile
      <4>3. q + count[q] # s
        BY <1>2, <1>3, <1>4, <2>1, <3>2, <4>1
      <4> QED BY <1>2, <1>6, <4>1, <4>2, <4>3
    <3> QED BY <3>1, <3>2
  <2>4. \A q, r \in DOMAIN count' : q < r => q + count'[q] <= r
    <3> SUFFICES ASSUME NEW q \in DOMAIN count', NEW r \in DOMAIN count', q < r
                 PROVE  q + count'[q] <= r
      OBVIOUS
    <3>0. q \in DOMAIN count /\ r \in DOMAIN count /\ q # s /\ r # s
      BY <1>6
    <3>1. CASE q = f
      <4>1. s < r
        BY <1>2, <1>3, <1>4, <2>1, <3>0, <3>1
      <4>2. s + count[s] <= r
        BY <2>1, <3>0, <4>1
      <4> QED BY <1>5, <1>6, <3>1, <4>2
    <3>2. CASE q # f
      BY <1>6, <2>1, <3>0, <3>2
    <3> QED BY <3>1, <3>2
  <2> QED BY <2>2, <2>3, <2>4 DEF NodesTile
<1>11. FreeListsExact'
  BY <1>7, <1>8 DEF FreeListsExact
<1>12. Accounting'
  <2>1. Cardinality(DOMAIN count') = Cardinality(DOMAIN count) - 1
    BY <1>6, FiniteNodes, FS_RemoveElement
  <2>2. free_pgn' = free_pgn + 1 /\ free_pgn \in Int
    BY <1>2 DEF TypeOK
  <2>3. Cardinality(DOMAIN count) \in Nat
    BY FiniteNodes
  <2>4. free_pgn + Cardinality(DOMAIN count) = ChunkPgcount
    BY DEF Accounting
  <2>5. free_pgn' + Cardinality(DOMAIN count') = ChunkPgcount
    BY <2>1, <2>2, <2>3, <2>4
  <2> QED BY <2>5 DEF Accounting
<1>13. LiveServed'
  BY <1>2, <1>3, <1>6 DEF LiveServed, TypeOK
<1>14. Bounds'
  <2>1. \A q \in DOMAIN count' : q + count'[q] <= carved'
    <3> TAKE q \in DOMAIN count'
    <3>1. CASE q = f
      BY <1>2, <1>4, <1>5, <1>6, <3>1
    <3>2. CASE q # f
      BY <1>2, <1>4, <1>6, <3>2
    <3> QED BY <3>1, <3>2
  <2> QED BY <1>2, <2>1 DEF Bounds
<1> QED BY <1>9, <1>10, <1>11, <1>12, <1>13, <1>14

(* The freed node, whatever it has grown to, goes into its list. *)
LEMMA FreeEndIInv == IInv /\ FreeEnd => IInv'
<1> SUFFICES ASSUME IInv, FreeEnd PROVE IInv'
  OBVIOUS
<1> USE DEF IInv
<1> DEFINE f == freeing
           n == count[f]
<1>1. /\ f \in DOMAIN count /\ f \in Pages /\ f \notin using /\ f \in Nat
      /\ flh' = LinkFln(flh, f, n) /\ freeing' = NoPage
      /\ last' = [op |-> "free", arg |-> f, res |-> 0]
      /\ UNCHANGED <<phase, carved, count, using, free_pgn, live>>
      /\ n \in 1 .. MaxPg
  BY DEF FreeEnd, TypeOK, Bounds, Returned, Pages
<1>2. Log2(n) \in Lists
  BY <1>1, SizeClass
<1>3. /\ flh' \in [Lists -> Seq(Pages)]
      /\ \A i \in Lists : ListsOnce(flh'[i], IF i = Log2(n) THEN FreeNodes(i) \cup {f}
                                             ELSE FreeNodes(i))
  <2> DEFINE F == [i \in Lists |-> FreeNodes(i)]
  <2>1. flh \in [Lists -> Seq(Pages)] /\ \A i \in Lists : ListsOnce(flh[i], F[i])
    BY DEF TypeOK, FreeListsExact
  <2>2. f \notin F[Log2(n)]
    BY <1>2 DEF FreeNodes
  <2>3. \A i \in Lists : F[i] = FreeNodes(i)
    OBVIOUS
  <2> HIDE DEF F, n
  <2>4. /\ flh' \in [Lists -> Seq(Pages)]
        /\ \A i \in Lists : ListsOnce(flh'[i], IF i = Log2(n) THEN F[i] \cup {f} ELSE F[i])
    BY <1>1, <2>1, <2>2, LinkFlnOnce
  <2> QED BY <2>3, <2>4
<1>4. \A i \in Lists : FreeNodes(i)' = IF i = Log2(n) THEN FreeNodes(i) \cup {f}
                                                ELSE FreeNodes(i)
  <2>1. NoPage \notin DOMAIN count
    BY DEF TypeOK, NoPage, Pages
  <2> HIDE DEF n
  <2>2. ASSUME NEW i \in Lists, NEW q
        PROVE  q \in FreeNodes(i)' <=> q \in FreeNodes(i) \/ (i = Log2(n) /\ q = f)
    BY <1>1, <2>1 DEF FreeNodes, n
  <2> QED BY <2>2
<1>5. TypeOK'
  <2>1. last' \in [op : {"create", "load", "destroy", "alloc", "free", "freeing"},
                   arg : Nat, res : Pages \cup {0, -1}]
    BY <1>1
  <2> QED BY <1>1, <1>3, <2>1 DEF TypeOK
<1>6. NodesTile' /\ Accounting'
  BY <1>1 DEF NodesTile, Accounting
<1>7. FreeListsExact'
  BY <1>3, <1>4 DEF FreeListsExact
<1>8. LiveServed' /\ Bounds'
  BY <1>1 DEF LiveServed, Bounds, TypeOK, NoPage, Pages
<1> QED BY <1>5, <1>6, <1>7, <1>8

(* The other actions change at most the phase and the last call. *)
LEMMA QuietIInv ==
  ASSUME IInv,
         \/ CreateEnd \/ Load \/ Destroy
         \/ \E n \in Requests : AllocFail(n)
         \/ \E p \in Pages : FreeReject(p)
         \/ UNCHANGED vars
  PROVE  IInv'
<1> USE DEF IInv
<1>1. UNCHANGED <<carved, count, using, flh, free_pgn, freeing, live>>
  BY DEF CreateEnd, Load, Destroy, AllocFail, FreeReject, vars
<1>2. /\ phase' \in {"carving", "ready", "failed", "destroyed"}
      /\ phase' # "ready" => freeing' = NoPage
  BY <1>1 DEF CreateEnd, Load, Destroy, AllocFail, FreeReject, vars, Idle, TypeOK, Bounds
<1>3. last' \in [op : {"create", "load", "destroy", "alloc", "free", "freeing"},
                 arg : Nat, res : Pages \cup {0, -1}]
  BY RequestAssumption
     DEF CreateEnd, Load, Destroy, AllocFail, FreeReject, vars, TypeOK, Returned, NoPage, Pages
<1>4. TypeOK'
  BY <1>1, <1>2, <1>3 DEF TypeOK
<1>5. NodesTile' /\ Accounting' /\ LiveServed' /\ Bounds'
  BY <1>1, <1>2 DEF NodesTile, Accounting, LiveServed, Bounds
<1>6. FreeListsExact'
  BY <1>1 DEF FreeListsExact, FreeNodes
<1> QED BY <1>4, <1>5, <1>6

(* Every step keeps the invariant. *)
LEMMA NextIInv == IInv /\ [Next]_vars => IInv'
BY CarveIInv, AllocHeadIInv, AllocFitIInv, FreeBeginIInv, MergeNextIInv, FreeEndIInv,
   QuietIInv DEF Next

(* The inductive invariant holds of every reachable state. *)
THEOREM Invariance == Spec => []IInv
BY InitIInv, NextIInv, PTL DEF Spec

(* The pool's state is well formed. *)
THEOREM TypeCorrect == Spec => []TypeOK
BY Invariance, PTL DEF IInv

(* Splits and merges keep the nodes a partition of the carved pages.        *)
THEOREM NodesAlwaysTile == Spec => []NodesTile
BY Invariance, PTL DEF IInv

(* The free lists hold the free nodes, each once and in the right list.     *)
THEOREM FreeListsAlwaysExact == Spec => []FreeListsExact
BY Invariance, PTL DEF IInv

(* Clients hold what is marked in use and got at least what they asked for. *)
THEOREM LiveAlwaysServed == Spec => []LiveServed
BY Invariance, PTL DEF IInv

(* Descriptors never run out: the nodes are at most the pages, which are    *)
(* MaxPg fewer than the descriptors.                                        *)
THEOREM DescriptorsAlwaysSuffice == Spec => []DescriptorsSuffice
<1>1. IInv => DescriptorsSuffice
  <2> SUFFICES ASSUME IInv PROVE DescriptorsSuffice
    OBVIOUS
  <2>1. /\ Cardinality(DOMAIN count) \in Nat /\ Cardinality(DOMAIN count) <= Limit
        /\ free_pgn \in Int /\ free_pgn + Cardinality(DOMAIN count) = ChunkPgcount
    BY FiniteNodes DEF IInv, Accounting, TypeOK
  <2>2. free_pgn >= MaxPg
    BY <2>1, SizeAssumption DEF Limit
  <2> QED BY <2>1, <2>2 DEF DescriptorsSuffice
<1> QED BY <1>1, Invariance, PTL

-------------------------------------------------------------------------------
(* Failing allocations.  While nodes are being made or merged, the last     *)
(* call recorded is not an allocation.                                      *)
Calls == /\ freeing # NoPage => last.op = "freeing"
         /\ phase = "carving" => last.op = "create"

(* The recorded call follows the phase and the merge in progress. *)
LEMMA CallsInv == Spec => []Calls
<1>1. Init => Calls
  BY DEF Init, Calls
<1>2. IInv /\ Calls /\ [Next]_vars => Calls'
  <2> SUFFICES ASSUME IInv, Calls, [Next]_vars PROVE Calls'
    OBVIOUS
  <2>1. freeing # NoPage => phase = "ready"
    BY DEF IInv, Bounds
  <2>2. CASE Carve \/ CreateEnd \/ MergeNext \/ UNCHANGED vars
    BY <2>1, <2>2 DEF Calls, Carve, CreateEnd, MergeNext, vars
  <2>3. CASE Load \/ Destroy \/ FreeEnd
    <3>1. freeing' = NoPage /\ phase' # "carving"
      BY <2>1, <2>3 DEF Load, Destroy, FreeEnd, Idle
    <3> QED BY <3>1 DEF Calls
  <2>4. ASSUME NEW n \in Requests, AllocHead(n) \/ AllocFit(n) \/ AllocFail(n)
        PROVE  Calls'
    <3>1. freeing' = NoPage /\ phase' = "ready"
      BY <2>4 DEF AllocHead, AllocFit, AllocFail, Idle
    <3> QED BY <3>1 DEF Calls
  <2>5. ASSUME NEW p \in Pages, FreeReject(p) \/ FreeBegin(p)
        PROVE  Calls'
    <3>1. CASE FreeReject(p)
      BY <3>1 DEF FreeReject, Idle, Calls
    <3>2. CASE FreeBegin(p)
      BY <3>2 DEF FreeBegin, Idle, Calls, Returned
    <3> QED BY <2>5, <3>1, <3>2
  <2> QED BY <2>2, <2>3, <2>4, <2>5 DEF Next
<1> QED BY <1>1, <1>2, Invariance, PTL DEF Spec

(* A free node of n pages or more is in a list the scan for n looks at. *)
LEMMA ScanSeesAll ==
  ASSUME IInv, freeing = NoPage, NEW n \in Nat, NEW p \in DOMAIN count \ using,
         count[p] >= n
  PROVE  \E i \in Lists : i >= Log2(n) /\ \E k \in 1 .. Len(flh[i]) : Fits(i, k, n)
<1>1. p \in Nat /\ count[p] \in 1 .. MaxPg /\ p # NoPage
  BY DEF IInv, TypeOK, Pages, NoPage
<1> DEFINE i == Log2(count[p])
<1>2. i \in Lists /\ i >= Log2(n)
  BY <1>1, SizeClass, Log2Monotone, Log2Def
<1>3. p \in FreeNodes(i)
  BY <1>1 DEF FreeNodes
<1>4. PICK k \in 1 .. Len(flh[i]) : flh[i][k] = p
  BY <1>2, <1>3 DEF IInv, FreeListsExact, ListsOnce
<1> QED BY <1>2, <1>4 DEF Fits

(* An allocation fails only when no free node is large enough. *)
THEOREM FailsOnlyWhenNothingFits == Spec => []FailsOnlyWithoutFit
<1>1. Init => FailsOnlyWithoutFit
  BY DEF Init, FailsOnlyWithoutFit
<1>2. IInv /\ Calls /\ FailsOnlyWithoutFit /\ [Next]_vars => FailsOnlyWithoutFit'
  <2> SUFFICES ASSUME IInv, Calls, FailsOnlyWithoutFit, [Next]_vars,
                      last'.op = "alloc", last'.res = NoPage,
                      NEW p \in DOMAIN count' \ using'
               PROVE  count'[p] < last'.arg
    BY DEF FailsOnlyWithoutFit
  <2>1. CASE UNCHANGED vars
    BY <2>1 DEF vars, FailsOnlyWithoutFit
  <2>2. CASE Carve \/ CreateEnd \/ MergeNext
    <3>1. (last' = last /\ last.op # "alloc") \/ CreateEnd
      BY <2>2 DEF Carve, MergeNext, Calls
    <3>2. CASE CreateEnd
      BY <3>2 DEF CreateEnd, FailsOnlyWithoutFit
    <3> QED BY <3>1, <3>2
  <2>3. CASE Load \/ Destroy \/ FreeEnd \/ \E q \in Pages : FreeReject(q) \/ FreeBegin(q)
    <3>1. last'.op # "alloc"
      <4>1. CASE Load \/ Destroy \/ FreeEnd
        BY <4>1 DEF Load, Destroy, FreeEnd, Returned
      <4>2. ASSUME NEW q \in Pages, FreeReject(q) \/ FreeBegin(q)
            PROVE  last'.op # "alloc"
        BY <4>2 DEF FreeReject, FreeBegin, Returned
      <4> QED BY <2>3, <4>1, <4>2
    <3> QED BY <3>1
  <2>4. ASSUME NEW n \in Requests, AllocHead(n)
        PROVE  FALSE
    <3>1. Log2(n) \in Lists /\ last'.res = lst_first(flh[Log2(n)]) /\ flh[Log2(n)] # <<>>
      BY <2>4, RequestAssumption DEF AllocHead, HeadBranch, Grant, Returned, lst_empty
    <3>2. flh[Log2(n)] \in Seq(Pages) /\ ListsOnce(flh[Log2(n)], FreeNodes(Log2(n)))
      BY <3>1 DEF IInv, TypeOK, FreeListsExact
    <3>3. last'.res \in FreeNodes(Log2(n))
      BY <3>1, <3>2, PopFrontOnce
    <3> QED BY <3>3 DEF FreeNodes, IInv, TypeOK, NoPage, Pages
  <2>5. ASSUME NEW n \in Requests, AllocFit(n)
        PROVE  FALSE
    <3>1. PICK i \in Lists : \E k \in 1 .. Len(flh[i]) : TakeNode(flh[i][k], n)
      BY <2>5 DEF AllocFit
    <3>2. PICK k \in 1 .. Len(flh[i]) : TakeNode(flh[i][k], n)
      BY <3>1
    <3>3. last'.res = flh[i][k]
      BY <3>2 DEF TakeNode, Grant, Returned
    <3>4. flh[i][k] \in Pages
      BY DEF IInv, TypeOK
    <3> QED BY <3>3, <3>4 DEF NoPage, Pages
  <2>6. ASSUME NEW n \in Requests, AllocFail(n)
        PROVE  count'[p] < last'.arg
    <3>1. /\ freeing = NoPage /\ last'.arg = n /\ n \in Nat
          /\ count' = count /\ using' = using
          /\ \A i \in {h \in Lists : h >= Log2(n)} :
               \A k \in 1 .. Len(flh[i]) : ~Fits(i, k, n)
      BY <2>6, RequestAssumption DEF AllocFail, Idle, Returned
    <3>2. ~(count[p] >= n)
      BY <3>1, ScanSeesAll
    <3>3. count[p] \in Nat
      BY <3>1 DEF IInv, TypeOK
    <3> QED BY <3>1, <3>2, <3>3
  <2> QED BY <2>1, <2>2, <2>3, <2>4, <2>5, <2>6 DEF Next
<1> QED BY <1>1, <1>2, Invariance, CallsInv, PTL DEF Spec

-------------------------------------------------------------------------------
(* The refinement.  The allocations the clients see are the nodes in use.   *)
Held == [p \in using |-> count[p]]

(* Granting a node that was free is a step of the abstract allocator. *)
LEMMA GrantRefines ==
  ASSUME IInv, IInv', NEW p \in DOMAIN count, p \notin using, using' = using \cup {p},
         \A q \in using : count'[q] = count[q]
  PROVE  Alloc!Next
<1>0. /\ DOMAIN count' \subseteq Pages /\ using' \subseteq DOMAIN count'
      /\ count' \in [DOMAIN count' -> 1 .. MaxPg]
      /\ carved' \in 0 .. Limit
      /\ \A q \in DOMAIN count' : q + count'[q] <= carved'
  BY DEF IInv, TypeOK, Bounds
<1>1. /\ p \in DOMAIN count' /\ p \in Pages /\ p \in Nat
      /\ \A q \in using' : q \in DOMAIN count' /\ q \in Nat /\ count'[q] \in Nat \ {0}
  BY <1>0, SizeAssumption DEF Pages
<1> DEFINE n == count'[p]
<1>2. n \in Nat \ {0} /\ p + n <= carved' /\ carved' <= Limit /\ Limit \in Nat /\ carved' \in Nat
  <2>1. Limit \in Nat
    BY SizeAssumption DEF Limit
  <2> QED BY <1>0, <1>1, <2>1
<1>3. Alloc!Grant(p, n)
  <2>1. Alloc!Extent(p, n) \subseteq Pages
    BY <1>1, <1>2 DEF Alloc!Extent, Pages
  <2>2. ASSUME NEW q \in DOMAIN Held
        PROVE  Alloc!Extent(p, n) \cap Alloc!Extent(q, Held[q]) = {}
    <3>1. q \in using /\ q # p /\ Held[q] = count'[q] /\ q \in using'
      BY DEF Held
    <3>2. (p < q => p + n <= q) /\ (q < p => q + count'[q] <= p)
      BY <1>1, <3>1 DEF IInv, NodesTile
    <3> QED BY <1>1, <1>2, <3>1, <3>2 DEF Alloc!Extent
  <2>3. Held' = [q \in DOMAIN Held \cup {p} |-> IF q = p THEN n ELSE Held[q]]
    BY DEF Held
  <2> QED BY <1>2, <2>1, <2>2, <2>3 DEF Alloc!Grant, Held
<1> HIDE DEF n
<1>4. PICK m \in Pages : p <= m /\ m - p + 1 = n
  <2>1. p + n - 1 \in Pages /\ p <= p + n - 1 /\ (p + n - 1) - p + 1 = n
    BY <1>1, <1>2 DEF Pages
  <2> QED BY <2>1
<1>5. Alloc!Grant(p, m - p + 1)
  BY <1>3, <1>4 DEF Alloc!Grant
<1> QED BY <1>1, <1>4, <1>5 DEF Alloc!Next

(* Every allocation the pool grants is a step of the abstract allocator,    *)
(* so is the start of a free, and the rest it does not see.                 *)
THEOREM Refinement == Spec => ImplementsPageAlloc
<1>1. Init => Alloc!Init
  BY DEF Init, Alloc!Init
<1>2. IInv /\ IInv' /\ [Next]_vars => [Alloc!Next]_Held
  <2> SUFFICES ASSUME IInv, IInv', [Next]_vars PROVE [Alloc!Next]_Held
    OBVIOUS
  <2>1. CASE \/ CreateEnd \/ Load \/ Destroy \/ FreeEnd
             \/ \E n \in Requests : AllocFail(n)
             \/ \E p \in Pages : FreeReject(p)
             \/ UNCHANGED vars
    <3>1. UNCHANGED <<using, count>>
      BY <2>1 DEF CreateEnd, Load, Destroy, FreeEnd, AllocFail, FreeReject, vars
    <3> QED BY <3>1 DEF Held
  <2>2. CASE Carve
    <3>1. using' = using /\ carved \notin DOMAIN count
      BY <2>2 DEF Carve, IInv, TypeOK, Bounds, Pages
    <3>2. \A q \in DOMAIN count : count'[q] = count[q]
      BY <2>2, <3>1 DEF Carve
    <3> QED BY <3>1, <3>2 DEF Held, IInv, TypeOK
  <2>3. CASE MergeNext
    <3>1. using' = using /\ freeing \notin using
      BY <2>3 DEF MergeNext, IInv, Bounds
    <3>2. \A q \in using : count'[q] = count[q]
      <4>1. PICK s \in DOMAIN count :
              /\ s \notin using
              /\ count' = [q \in DOMAIN count \ {s} |->
                             IF q = freeing THEN count[q] + count[s] ELSE count[q]]
        BY <2>3 DEF MergeNext, Mergeable
      <4> QED BY <3>1, <4>1 DEF IInv, TypeOK
    <3> QED BY <3>1, <3>2 DEF Held
  <2>4. ASSUME NEW n \in Requests, AllocHead(n)
        PROVE  Alloc!Next
    <3> DEFINE p == lst_first(flh[Log2(n)])
    <3>1. /\ Log2(n) \in Lists /\ flh[Log2(n)] # <<>>
          /\ p \notin using /\ using' = using \cup {p} /\ count' = count
      BY <2>4, RequestAssumption DEF AllocHead, HeadBranch, Grant, lst_empty
    <3>2. flh[Log2(n)] \in Seq(Pages) /\ ListsOnce(flh[Log2(n)], FreeNodes(Log2(n)))
      BY <3>1 DEF IInv, TypeOK, FreeListsExact
    <3>3. p \in FreeNodes(Log2(n))
      BY <3>1, <3>2, PopFrontOnce
    <3> QED BY <3>1, <3>3, GrantRefines DEF FreeNodes
  <2>5. ASSUME NEW n \in Requests, AllocFit(n)
        PROVE  Alloc!Next
    <3>1. PICK i \in Lists : \E k \in 1 .. Len(flh[i]) : TakeNode(flh[i][k], n)
      BY <2>5 DEF AllocFit
    <3>2. PICK k \in 1 .. Len(flh[i]) : TakeNode(flh[i][k], n)
      BY <3>1
    <3> DEFINE p == flh[i][k]
    <3>3. p \in FreeNodes(i)
      BY DEF IInv, FreeListsExact, ListsOnce
    <3>4. using' = using \cup {p}
      BY <3>2 DEF TakeNode, Grant
    <3>5. \A q \in using : count'[q] = count[q]
      <4> SUFFICES ASSUME NEW q \in using PROVE count'[q] = count[q]
        OBVIOUS
      <4>1. CASE count' = count
        BY <4>1
      <4>2. CASE count[p] - n > 0 /\
                 count' = [r \in DOMAIN count \cup {p + n} |->
                             IF r = p + n THEN count[p] - n
                             ELSE IF r = p THEN n ELSE count[r]]
        <5>0. /\ DOMAIN count \subseteq Pages /\ using \subseteq DOMAIN count
              /\ count \in [DOMAIN count -> 1 .. MaxPg]
          BY DEF IInv, TypeOK
        <5>a. p \in DOMAIN count /\ p \notin using /\ q \in DOMAIN count
          BY <3>3, <5>0 DEF FreeNodes
        <5>b. n \in Nat \ {0} /\ MaxPg \in Nat
          BY RequestAssumption, SizeAssumption
        <5>1. /\ p \in DOMAIN count /\ p \notin using /\ q \in DOMAIN count
              /\ p \in Nat /\ q \in Nat /\ count[p] \in Nat /\ n \in Nat \ {0}
          <6> HIDE DEF p
          <6> QED BY <5>0, <5>a, <5>b DEF Pages
        <5>2. p + n # q
          BY <4>2, <5>1 DEF IInv, NodesTile
        <5> QED BY <4>2, <5>1, <5>2
      <4> QED BY <3>2, <4>1, <4>2 DEF TakeNode
    <3> QED BY <3>3, <3>4, <3>5, GrantRefines DEF FreeNodes
  <2>6. ASSUME NEW p \in Pages, FreeBegin(p)
        PROVE  Alloc!Next
    <3>1. p \in using /\ using' = using \ {p} /\ count' = count
      BY <2>6 DEF FreeBegin
    <3>2. Alloc!Release(p)
      BY <3>1 DEF Alloc!Release
    <3> QED BY <3>1, <3>2 DEF Alloc!Next
  <2> QED BY <2>1, <2>2, <2>3, <2>4, <2>5, <2>6 DEF Next
<1> QED BY <1>1, <1>2, Invariance, PTL DEF Spec, ImplementsPageAlloc, Alloc!Spec, Held
===============================================================================
