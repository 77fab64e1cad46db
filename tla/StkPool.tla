-------------------------------- MODULE StkPool --------------------------------
(***************************************************************************)
(* The stack pool of stkpool.c: a chunk with a node per stack frame at its *)
(* start and the frames at its end.  A frame is a guard page and a stack;  *)
(* it is its index here, as stkp_free computes it from an address.         *)
(***************************************************************************)
EXTENDS Integers, DList

CONSTANTS
  PoolSize,                 \* from the first node to addr_end
  NodeSize, FrmSize         \* sizeof(struct _stkp_node), _stk_frm_size

(* _stkp_init counts frames up until nodes and frames overlap, and takes    *)
(* one back.                                                                *)
Overlap(n) == n * NodeSize > PoolSize - n * FrmSize
FrmCnt == CHOOSE n \in 0 .. PoolSize : Overlap(n + 1) /\ \A m \in 0 .. n : ~Overlap(m)
Frames == 0 .. (FrmCnt - 1)

(* A node and its frame fit; otherwise _stkp_init fails. *)
Holds ==
  /\ NodeSize \in Nat \ {0} /\ FrmSize \in Nat
  /\ PoolSize \in Nat /\ PoolSize >= NodeSize + FrmSize

VARIABLES
  free_list,                \* _free_list: frames
  using                     \* the frames whose node has using set

Init ==
  /\ free_list = [i \in 1 .. FrmCnt |-> i - 1]
  /\ using = {}

(* stkp_alloc, when there is a frame. *)
Alloc(f) ==
  /\ ~lst_empty(free_list)
  /\ f = lst_first(free_list)
  /\ free_list' = lst_pop_front(free_list)
  /\ using' = using \cup {f}

(* stkp_free, which refuses a frame that is not used. *)
Free(f) ==
  /\ f \in using
  /\ using' = using \ {f}
  /\ free_list' = lst_push_front(free_list, f)
===============================================================================
