-------------------------------- MODULE MmPool --------------------------------
(***************************************************************************)
(* The buddy allocator of mmpool.c.  A chunk is cut into blocks of         *)
(* 2^_min_block_order to 2^_max_block_order bytes, each between a head and *)
(* a tail that repeat its size.  A free block is described by a node of    *)
(* _fln_pool, whose index is in the block's head, and which is in the list *)
(* _flh of the block's size; a spare node is in _free_fln_list.            *)
(*                                                                         *)
(* Addresses and block sizes are in blocks of the smallest size, from      *)
(* _chunk_addr.  The heads and the tails are memory that only _make_block  *)
(* and the list operations write: what a merge leaves inside a block stays *)
(* there until a client, which overwrites its whole payload, clears it.    *)
(***************************************************************************)
EXTENDS Integers, FiniteSets, DList, Powers

CONSTANTS
  MinBytes,       \* 2^_min_block_order
  MaxClass,       \* _max_block_order - _min_block_order
  Chunk,          \* _chunk_size, in smallest blocks
  FlnCount,       \* _fln_count: nodes in _fln_pool
  Requests,       \* payload sizes clients ask for, in bytes
  Freeable        \* addresses of the blocks clients free

HEAD_TAIL_SIZE == 16

Classes == 0 .. MaxClass                 \* indices of _flh
BlockSize(c) == Power(2)[c]              \* of the blocks in its list c
MaxSize == BlockSize(MaxClass)
Addresses == 0 .. (Chunk - 1)
Flns == 0 .. (FlnCount - 1)
None == -1

(* _mmp_init_chunk rounds _chunk_size down to whole largest blocks and pads  *)
(* the node pool to 64 bytes, which leaves at most _fln_count smallest ones. *)
(* The orders are shifts of an int.                                          *)
ASSUME SizeAssumption == /\ MinBytes \in Nat /\ MinBytes >= 2 * HEAD_TAIL_SIZE
                         /\ MaxClass \in 1 .. 31
                         /\ Chunk \in Nat \ {0} /\ Chunk % MaxSize = 0
                         /\ FlnCount \in Nat /\ FlnCount >= Chunk
                         /\ Requests \subseteq Nat
                         /\ Freeable \subseteq Addresses

VARIABLES
  label,          \* _chunck_label is CHUNK_LABEL
  carved,         \* chk1 of _mmp_init_chunk: the chunk up to it is blocks
  head,           \* address -> the head last written there
  tail,           \* address -> the size in the tail last written before it
  flh,            \* class -> the nodes in its list, first to last
  free_fln,       \* _free_fln_list
  block,          \* node -> its _block, or None
  taking,         \* the request mmp_alloc is serving, or None
  cut,            \* the block _take_free_node is splitting for it
  freeing,        \* the block mmp_free is merging, or None
  live,           \* the clients' view: blocks granted -> bytes requested
  refused         \* the call just refused: operation and argument, or NoCall

lists == <<flh, free_fln, block>>
vars == <<label, carved, head, tail, flh, free_fln, block, taking, cut, freeing,
          live, refused>>

NoCall == [op |-> "none", arg |-> 0]
Refuse(op, arg) == refused' = [op |-> op, arg |-> arg]
Succeed == refused' = NoCall

Log2(n) == CHOOSE k \in 0 .. 63 : BlockSize(k) <= n /\ n < BlockSize(k + 1)

(* Slip: the head and the tail are not counted. *)
BlockFitsPayload(n, c) == n <= MinBytes * BlockSize(c)

(* _flh_idx: the list of the smallest blocks that n bytes, a head and a     *)
(* tail fit in, for n up to _max_payload_size.                              *)
BlockFits(n, c) == n + HEAD_TAIL_SIZE <= MinBytes * BlockSize(c)
FlhIdx(n) == CHOOSE c \in Classes :
               BlockFits(n, c) /\ \A d \in 0 .. (c - 1) : ~BlockFits(n, d)

NoHead == [used |-> FALSE, fln |-> 0, size |-> 0]
NoCut == [at |-> None, size |-> 0, left |-> 0, fln |-> 0]

-------------------------------------------------------------------------------
(* Slip: the tail is not rewritten. *)
MakeFreeNoTail(a, s, spare) ==
  /\ spare # lst_new
  /\ head' = [head EXCEPT ![a] = [used |-> FALSE, fln |-> lst_first(spare), size |-> s]]
  /\ flh' = [flh EXCEPT ![Log2(s)] = lst_push_front(@, lst_first(spare))]
  /\ UNCHANGED tail

(* _make_block of s at a, then _return_free_node_to_head.  With no spare    *)
(* node left _fetch_free_fln would write through a null pointer.            *)
MakeFree(a, s, spare) ==
  LET f == lst_first(spare)
  IN  /\ spare # lst_new
      /\ head' = [head EXCEPT ![a] = [used |-> FALSE, fln |-> f, size |-> s]]
      /\ tail' = [tail EXCEPT ![a + s] = s]
      /\ flh' = [flh EXCEPT ![Log2(s)] = lst_push_front(@, f)]

Fetched(a, f) == [block EXCEPT ![f] = a]

(* _mmp_init_chunk: every node is spare, and the chunk, in memory that is   *)
(* zero, is cut into blocks of the largest size.  The word before the chunk *)
(* belongs to the node pool or to padding after it, and reads as size 0.    *)
Init ==
  /\ label = TRUE
  /\ carved = 0
  /\ head = [a \in 0 .. Chunk |-> NoHead]
  /\ tail = [a \in 0 .. Chunk |-> 0]
  /\ flh = [c \in Classes |-> lst_new]
  /\ free_fln = [k \in 1 .. FlnCount |-> k - 1]
  /\ block = [f \in Flns |-> None]
  /\ taking = None /\ cut = NoCut /\ freeing = None
  /\ live = [a \in {} |-> 0]
  /\ refused = NoCall

Carve ==
  /\ carved < Chunk
  /\ MakeFree(carved, MaxSize, free_fln)
  /\ block' = Fetched(carved, lst_first(free_fln))
  /\ free_fln' = lst_pop_front(free_fln)
  /\ carved' = carved + MaxSize
  /\ UNCHANGED <<label, taking, cut, freeing, live, refused>>

Idle == carved = Chunk /\ label /\ taking = None /\ freeing = None

(* mmp_load accepts what carries the label; mmp_destroy removes it. *)
Load ==
  /\ Idle \/ ~label
  /\ IF label THEN Succeed ELSE Refuse("load", 0)
  /\ UNCHANGED <<label, carved, head, tail, lists, taking, cut, freeing, live>>

Destroy ==
  /\ Idle
  /\ label' = FALSE
  /\ Succeed
  /\ UNCHANGED <<carved, head, tail, lists, taking, cut, freeing, live>>

-------------------------------------------------------------------------------
(* mmp_alloc of n bytes: _take_free_node is called until it gives a block.  *)
Serves(n) == Idle \/ (taking = n /\ cut.at = None)
TooLarge(n) == n = 0 \/ ~BlockFits(n, MaxClass)

FirstList(n, i) == /\ ~lst_empty(flh[i])
                   /\ \A c \in FlhIdx(n) .. (i - 1) : lst_empty(flh[c])

(* A block of the class is there: its node is spare again, and the client   *)
(* gets it.  Zeroes stand for whatever the client writes in its payload.    *)
Overwritten(m, from, to, blank) ==
  [a \in DOMAIN m |-> IF from <= a /\ a <= to THEN blank ELSE m[a]]

TakeExact(n) ==
  LET c == FlhIdx(n)
      f == lst_first(flh[c])
      a == block[f]
      end == a + head[a].size
  IN  /\ Serves(n) /\ ~TooLarge(n)
      /\ ~lst_empty(flh[c])
      /\ flh' = [flh EXCEPT ![c] = lst_pop_front(@)]
      /\ free_fln' = lst_push_front(free_fln, f)
      /\ block' = [block EXCEPT ![f] = None]
      /\ taking' = None
      /\ \/ /\ head[a].used
            /\ head' = [head EXCEPT ![a].fln = 0]
            /\ Refuse("alloc", n)
            /\ UNCHANGED <<tail, live>>
         \/ /\ ~head[a].used
            /\ head' = Overwritten([head EXCEPT ![a].used = TRUE, ![a].fln = 0],
                                   a + 1, end - 1, NoHead)
            /\ tail' = Overwritten(tail, a + 1, end - 1, 0)
            /\ live' = [b \in DOMAIN live \cup {a} |-> IF b = a THEN n ELSE live[b]]
            /\ Succeed
      /\ UNCHANGED <<label, carved, cut, freeing>>

(* The first block of a larger class is taken off its list to be halved.    *)
TakeLarger(n) ==
  /\ Serves(n) /\ ~TooLarge(n)
  /\ \E i \in {c \in Classes : c > FlhIdx(n)} :
       LET f == lst_first(flh[i])
       IN  /\ FirstList(n, i)
           /\ flh' = [flh EXCEPT ![i] = lst_pop_front(@)]
           /\ cut' = [at |-> block[f], size |-> head[block[f]].size,
                      left |-> i - FlhIdx(n), fln |-> f]
  /\ taking' = n
  /\ UNCHANGED <<label, carved, head, tail, free_fln, block, freeing, live, refused>>

(* One turn of its loop returns the upper half of what is left ...          *)
SplitHalf ==
  LET half == cut.size \div 2
      upper == cut.at + half
  IN  /\ cut.at # None /\ cut.left > 0
      /\ MakeFree(upper, half, free_fln)
      /\ block' = Fetched(upper, lst_first(free_fln))
      /\ free_fln' = lst_pop_front(free_fln)
      /\ cut' = [cut EXCEPT !.size = half, !.left = @ - 1]
      /\ UNCHANGED <<label, carved, taking, freeing, live, refused>>

(* Slip: the node of the block split is forgotten. *)
SplitEndLeak ==
  /\ cut.at # None /\ cut.left = 0
  /\ MakeFree(cut.at, cut.size, free_fln)
  /\ block' = Fetched(cut.at, lst_first(free_fln))
  /\ free_fln' = lst_pop_front(free_fln)
  /\ cut' = NoCut
  /\ UNCHANGED <<label, carved, taking, freeing, live, refused>>

(* ... and after the last one what is left, and the node of the block.      *)
SplitEnd ==
  /\ cut.at # None /\ cut.left = 0
  /\ MakeFree(cut.at, cut.size, free_fln)
  /\ block' = [Fetched(cut.at, lst_first(free_fln)) EXCEPT ![cut.fln] = None]
  /\ free_fln' = lst_push_front(lst_pop_front(free_fln), cut.fln)
  /\ cut' = NoCut
  /\ UNCHANGED <<label, carved, taking, freeing, live, refused>>

(* Slip: only the list of the request's own class is looked at. *)
AllocFailOwnList(n) ==
  /\ Serves(n)
  /\ ~TooLarge(n) => lst_empty(flh[FlhIdx(n)])
  /\ taking' = None
  /\ Refuse("alloc", n)
  /\ UNCHANGED <<label, carved, head, tail, lists, cut, freeing, live>>

AllocFail(n) ==
  /\ Serves(n)
  /\ ~TooLarge(n) => \A c \in Classes : c >= FlhIdx(n) => lst_empty(flh[c])
  /\ taking' = None
  /\ Refuse("alloc", n)
  /\ UNCHANGED <<label, carved, head, tail, lists, cut, freeing, live>>

-------------------------------------------------------------------------------
(* Slip: a block is taken back whether in use or not. *)
AcceptsUnused(a) == head[a].size > 0 /\ tail[a + head[a].size] = head[a].size

(* mmp_free of the block at a: the tail must repeat the head's size, and    *)
(* the block be in use.                                                     *)
Accepts(a) == /\ head[a].size > 0
              /\ tail[a + head[a].size] = head[a].size
              /\ head[a].used

FreeReject(a) ==
  /\ Idle
  /\ ~Accepts(a)
  /\ Refuse("free", a)
  /\ UNCHANGED <<label, carved, head, tail, lists, taking, cut, freeing, live>>

FreeBegin(a) ==
  /\ Idle
  /\ Accepts(a)
  /\ head' = [head EXCEPT ![a].used = FALSE]
  /\ freeing' = a
  /\ live' = [b \in DOMAIN live \ {a} |-> live[b]]
  /\ Succeed
  /\ UNCHANGED <<label, carved, tail, lists, taking, cut>>

(* Slip: the block after is not asked whether it is in use. *)
BuddiesUsed(x, y) == /\ ~head[x].used
                     /\ head[x].size = head[y].size
                     /\ x \div (2 * head[x].size) = y \div (2 * head[x].size)

(* What _merge_buddy_next and _merge_buddy_prev both check of a block and   *)
(* the one after it ...                                                     *)
Buddies(x, y) ==
  LET s == head[x].size
  IN  /\ ~head[x].used /\ ~head[y].used
      /\ s = head[y].size
      /\ x \div (2 * s) = y \div (2 * s)

(* ... before _unlink_block of the one that was free.  It removes the node  *)
(* of the block's index from whichever list it is in, as long as the list   *)
(* of the block's size is not empty.                                        *)
Unlinkable(x) == ~lst_empty(flh[Log2(head[x].size)])

Merge(x, y, unlinked) ==
  LET f == head[unlinked].fln
      s == 2 * head[x].size
  IN  /\ flh' = [c \in Classes |-> lst_remove(flh[c], f)]
      /\ free_fln' = lst_push_front(lst_remove(free_fln, f), f)
      /\ block' = [block EXCEPT ![f] = None]
      /\ head' = [[head EXCEPT ![unlinked].fln = 0]
                    EXCEPT ![x].size = s, ![x].used = FALSE]
      /\ tail' = [tail EXCEPT ![x + s] = s]
      /\ freeing' = x
      /\ UNCHANGED <<label, carved, taking, cut, live, refused>>

Growing == freeing # None /\ head[freeing].size < MaxSize
NextBlock == freeing + head[freeing].size
PrevBlock == freeing - tail[freeing]

MergesNext == Growing /\ Buddies(freeing, NextBlock) /\ Unlinkable(NextBlock)
(* Slip: the block before is never tried. *)
MergesPrevNever == FALSE

MergesPrev == Growing /\ ~MergesNext /\ Buddies(PrevBlock, freeing) /\ Unlinkable(PrevBlock)

MergeNext == MergesNext /\ Merge(freeing, NextBlock, NextBlock)
MergePrev == MergesPrev /\ Merge(PrevBlock, freeing, PrevBlock)

FreeEnd ==
  LET f == lst_first(free_fln)
  IN  /\ freeing # None
      /\ ~MergesNext /\ ~MergesPrev
      /\ free_fln # lst_new
      /\ head' = [head EXCEPT ![freeing].fln = f]
      /\ flh' = [flh EXCEPT ![Log2(head[freeing].size)] = lst_push_front(@, f)]
      /\ block' = Fetched(freeing, f)
      /\ free_fln' = lst_pop_front(free_fln)
      /\ freeing' = None
      /\ Succeed
      /\ UNCHANGED <<label, carved, tail, taking, cut, live>>

-------------------------------------------------------------------------------
Next ==
  \/ Carve \/ Load \/ Destroy
  \/ \E n \in Requests : TakeExact(n) \/ TakeLarger(n) \/ AllocFail(n)
  \/ SplitHalf \/ SplitEnd
  \/ \E a \in Addresses : FreeReject(a)
  \/ \E a \in Freeable : FreeBegin(a)
  \/ MergeNext \/ MergePrev \/ FreeEnd

Spec == Init /\ [][Next]_vars

-------------------------------------------------------------------------------
TypeOK ==
  /\ label \in BOOLEAN
  /\ carved \in 0 .. Chunk
  /\ head \in [0 .. Chunk -> [used : BOOLEAN, fln : Flns, size : 0 .. MaxSize]]
  /\ tail \in [0 .. Chunk -> 0 .. MaxSize]
  /\ flh \in [Classes -> Seq(Flns)]
  /\ free_fln \in Seq(Flns)
  /\ block \in [Flns -> Addresses \cup {None}]
  /\ taking \in Requests \cup {None}
  /\ cut \in [at : Addresses \cup {None}, size : 0 .. MaxSize,
              left : Classes, fln : Flns]
  /\ freeing \in Addresses \cup {None}
  /\ live \in [DOMAIN live -> Requests] /\ DOMAIN live \subseteq Addresses
  /\ refused \in [op : {"none", "load", "alloc", "free"}, arg : Addresses \cup Requests]

(* The blocks there are: those of the clients, those in the free lists, and *)
(* the one being split or merged.                                           *)
Described == {block[f] : f \in Flns}
Blocks == (DOMAIN live \cup Described \cup {cut.at, freeing}) \ {None}
SizeOf(a) == IF a = cut.at THEN cut.size ELSE head[a].size
FreeBlocks == Described \ {None, cut.at}

(* Blocks cover what is carved of the chunk, no unit twice, and each is     *)
(* aligned to its size, which is a power of two and is in its tail.         *)
BlocksTile ==
  /\ TypeOK
  /\ \A a \in Blocks : /\ SizeOf(a) \in {BlockSize(c) : c \in Classes}
                       /\ a % SizeOf(a) = 0
                       /\ a # cut.at => tail[a + SizeOf(a)] = SizeOf(a)
  /\ carved > 0 => 0 \in Blocks
  /\ \A a \in Blocks : a + SizeOf(a) \in Blocks \cup {carved}
  /\ \A a, b \in Blocks : a < b => a + SizeOf(a) <= b

(* A node is in one list, once: the list of the size of the free block it   *)
(* describes, whose head has its index, or that of the spare ones.  A split *)
(* or a merge under way finds a spare node for each block it makes free:    *)
(* _fetch_free_fln does not check that there is one.                        *)
FlnsExact ==
  /\ \A c \in Classes :
       ListsOnce(flh[c], {f \in Flns : /\ block[f] \notin {None, cut.at}
                                       /\ head[block[f]].size = BlockSize(c)})
  /\ ListsOnce(free_fln, {f \in Flns : block[f] = None})
  /\ \A f \in Flns : block[f] # None =>
       ~head[block[f]].used /\ head[block[f]].fln = f
  /\ carved < Chunk \/ cut.at # None \/ freeing # None => free_fln # lst_new

(* Clients hold the blocks in use, and each is large enough for the bytes   *)
(* asked for with the head and the tail.                                    *)
LiveServed ==
  \A a \in DOMAIN live : head[a].used /\ live[a] + HEAD_TAIL_SIZE <= MinBytes * head[a].size

(* Between calls no two buddies are free: mmp_free merges as far as it can, *)
(* and the halves of a split are used at once.                              *)
Coalesced ==
  Idle => \A a, b \in FreeBlocks :
            /\ a < b /\ a + head[a].size = b /\ head[a].size < MaxSize
            => ~Buddies(a, b)

(* mmp_alloc fails only when no free block is large enough for the request. *)
FailsOnlyWithoutFit ==
  refused.op = "alloc" /\ refused.arg > 0 =>
    \A a \in FreeBlocks : refused.arg + HEAD_TAIL_SIZE > MinBytes * head[a].size

(* mmp_free takes back every block a client holds and no other address: no  *)
(* head a merge or a split left behind passes for that of a block in use.   *)
FreesExactlyLive == Idle => \A a \in Addresses : Accepts(a) <=> a \in DOMAIN live

(* A block a client holds can be freed: test_mmp of test/host.c takes a     *)
(* negative result of mmp_free for an error of the allocator.               *)
LiveFreeable ==
  refused.op = "free" => refused.arg \notin DOMAIN live

(* The pool is an allocator of runs of smallest blocks, each disjoint from  *)
(* all others until it is freed.                                            *)
Alloc == INSTANCE PageAlloc WITH Pages <- Addresses,
                                 held <- [a \in DOMAIN live |-> head[a].size]
ImplementsPageAlloc == Alloc!Spec
===============================================================================
