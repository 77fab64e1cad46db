-------------------------------- MODULE MmSpace --------------------------------
(***************************************************************************)
(* The memory space of mmspace.c, in System V segments.  The root segment  *)
(* lies at a fixed address and holds struct _mm_space_impl; every section  *)
(* is a segment of its own with the allocator of its area.  The segments   *)
(* outlive the process, which may die before each step and be started      *)
(* again.                                                                  *)
(*                                                                         *)
(* A section is its key, which mm_create_shm_key makes of the area and a   *)
(* running number of eight bits.  Allocators are PageAllocs that serve     *)
(* requests up to a size and may refuse at any time; a block is a slot of  *)
(* its section.  A section whose allocator could not be created has lost   *)
(* its segment, and its key, but stays in the list and the tree.           *)
(***************************************************************************)
EXTENDS Integers, FiniteSets, DList

CONSTANTS
  Areas,                    \* MM_AREA_BEGIN .. MM_AREA_COUNT - 1, in order
  Slots, Largest,           \* area -> blocks of a section, size it can serve
  Sizes, AreaOf,            \* sizes clients ask for; the area mm_alloc takes
  Direct,                   \* areas the library asks by mm_area_alloc itself
  Guarded,                  \* areas whose alloc_func refuses a null allocator
  MaxShmm,                  \* max_shmm_count
  KeySpan                   \* values of ar_idx, an unsigned char

AreaSet == {Areas[i] : i \in 1 .. Len(Areas)}
Sections == [area : AreaSet, idx : 0 .. (KeySpan - 1)]
Ruin(a) == [area |-> a, idx |-> -1]     \* those of the area without allocator
Ruins == {Ruin(a) : a \in AreaSet}
Blocks == UNION {[sec : {s \in Sections : s.area = a}, at : 1 .. Slots[a]] : a \in AreaSet}
None == [area |-> "none", idx |-> 0]
Unset == <<None>>           \* a list that was never made: its head is zero
NoCall == [area |-> "none", size |-> 0, at |-> 0]

ASSUME SpaceAssumption ==
  /\ Len(Areas) \in Nat \ {0}
  /\ Slots \in [AreaSet -> Nat] /\ Largest \in [AreaSet -> Nat]
  /\ Sizes \subseteq Nat \ {0} /\ AreaOf \in [Sizes -> AreaSet]
  /\ Direct \subseteq AreaSet /\ Guarded \subseteq AreaSet
  /\ MaxShmm \in Nat \ {0} /\ KeySpan \in Nat \ {0}
  /\ "none" \notin AreaSet

VARIABLES
  root,       \* the root segment: absent, blank (without its label), labelled
  segs,       \* the section segments that exist
  total, next_key,          \* _total_shmm_count, _next_shmm_key
  section_list,             \* area -> _section_list
  free_section,             \* area -> _free_section
  section_tree,             \* _all_section_tree: sections
  held,                     \* blocks the allocators have granted
  proc,                     \* none, starting, up, failed, down
  attached,                 \* the root's address is taken in this process
  making,                   \* the area mm_initialize is at, 0 before the first
  call                      \* the mm_area_alloc under way, or NoCall

space == <<total, next_key, section_list, free_section, section_tree>>
process == <<proc, attached, making>>
vars == <<root, segs, space, held, process, call>>

Blank ==
  /\ total = 0 /\ next_key = 0
  /\ section_list = [a \in AreaSet |-> Unset]
  /\ free_section = [a \in AreaSet |-> None]
  /\ section_tree = {}

Init ==
  /\ root = "absent" /\ segs = {} /\ Blank /\ held = {}
  /\ proc = "none" /\ attached = FALSE /\ making = 0
  /\ call = NoCall

-------------------------------------------------------------------------------
NextKey(a) == [area |-> a, idx |-> (next_key + 1) % KeySpan]

(* Slip: the tree forgets the sections that the new list forgets. *)
MakeSectionAlone(a) ==
  LET s == NextKey(a)
  IN  /\ total < MaxShmm
      /\ s \notin segs
      /\ segs' = segs \cup {s}
      /\ total' = total + 1
      /\ next_key' = (next_key + 1) % KeySpan
      /\ section_list' = [section_list EXCEPT ![a] = lst_push_back(lst_new, s)]
      /\ free_section' = [free_section EXCEPT ![a] = s]
      /\ section_tree' = {t \in section_tree : t.area # a} \cup {s}

(* _mm_create_section: the new section is the only one in the list of its   *)
(* area, as the list is made anew.                                          *)
MakeSection(a) ==
  LET s == NextKey(a)
  IN  /\ total < MaxShmm
      /\ s \notin segs
      /\ segs' = segs \cup {s}
      /\ total' = total + 1
      /\ next_key' = (next_key + 1) % KeySpan
      /\ section_list' = [section_list EXCEPT ![a] = lst_push_back(lst_new, s)]
      /\ free_section' = [free_section EXCEPT ![a] = s]
      /\ section_tree' = section_tree \cup {s}

(* Slip: the section is asked first before its allocator is looked at. *)
AllocatorRefusedFirst(a) ==
  /\ total < MaxShmm
  /\ NextKey(a) \notin segs
  /\ next_key' = (next_key + 1) % KeySpan
  /\ section_list' = [section_list EXCEPT ![a] = lst_push_back(lst_new, Ruin(a))]
  /\ section_tree' = section_tree \cup {Ruin(a)}
  /\ free_section' = [free_section EXCEPT ![a] = Ruin(a)]
  /\ UNCHANGED <<segs, total>>

(* The area's create_func refuses, when the section is in tree and list:    *)
(* mprotect fails for a stack frame, or pgpool's result is not set.  The    *)
(* segment is destroyed but stays attached.  rb_insert and lst_push_back    *)
(* cannot refuse a new segment, which lies apart from the others.           *)
AllocatorRefused(a) ==
  /\ total < MaxShmm
  /\ NextKey(a) \notin segs
  /\ next_key' = (next_key + 1) % KeySpan
  /\ section_list' = [section_list EXCEPT ![a] = lst_push_back(lst_new, Ruin(a))]
  /\ section_tree' = section_tree \cup {Ruin(a)}
  /\ UNCHANGED <<segs, total, free_section>>

(* There are MaxShmm sections. *)
TooMany == total >= MaxShmm /\ UNCHANGED <<segs, space>>

(* The key is taken, or the system has no memory. *)
SegmentRefused ==
  /\ total < MaxShmm
  /\ next_key' = (next_key + 1) % KeySpan
  /\ UNCHANGED <<segs, total, section_list, free_section, section_tree>>

SectionRefused(a) == TooMany \/ SegmentRefused \/ AllocatorRefused(a)

-------------------------------------------------------------------------------
(* mm_initialize.  In a process where the address of the root is taken it   *)
(* cannot attach the segment it has just created, which stays blank.        *)
Idle == proc \in {"none", "failed", "down"}

Create ==
  /\ Idle /\ root = "absent"
  /\ root' = "blank"
  /\ proc' = IF attached THEN "failed" ELSE "starting"
  /\ attached' = TRUE
  /\ making' = 0
  /\ UNCHANGED <<segs, space, held, call>>

CreateRefused ==
  /\ Idle /\ root = "absent"
  /\ proc' = "failed"
  /\ UNCHANGED <<root, segs, space, held, attached, making, call>>

Fill ==
  /\ proc = "starting" /\ making = 0
  /\ root' = "labelled"
  /\ making' = 1
  /\ UNCHANGED <<segs, space, held, proc, attached, call>>

CreateArea ==
  /\ proc = "starting" /\ making > 0
  /\ MakeSection(Areas[making])
  /\ making' = making + 1
  /\ proc' = IF making = Len(Areas) THEN "up" ELSE proc
  /\ UNCHANGED <<root, held, attached, call>>

CreateAreaFail ==
  /\ proc = "starting" /\ making > 0
  /\ SectionRefused(Areas[making])
  /\ proc' = "failed"
  /\ UNCHANGED <<root, held, attached, making, call>>

(* A root that is there: one without a label, or one that cannot be         *)
(* attached, is an error.                                                   *)
LoadRefused ==
  /\ Idle
  /\ root = "blank" \/ (root = "labelled" /\ attached)
  /\ proc' = "failed"
  /\ UNCHANGED <<root, segs, space, held, attached, making, call>>

(* _mm_load_area: at an area whose list was never made it follows a null    *)
(* pointer, at one whose list holds a section that was destroyed a pointer  *)
(* to nothing, and the process dies; otherwise stkp_load, which looks for   *)
(* its tag at the pointer to the pool inside the header and not at the      *)
(* header, refuses the stack area, the last.  The root stays attached.      *)
Load ==
  /\ Idle /\ root = "labelled" /\ ~attached
  /\ IF \E a \in AreaSet : section_list[a] \in {Unset, <<Ruin(a)>>}
     THEN proc' = "none" /\ UNCHANGED attached
     ELSE proc' = "failed" /\ attached' = TRUE
  /\ UNCHANGED <<root, segs, space, held, making, call>>

(* mm_uninitialize destroys every section and the root, but detaches none,  *)
(* as shmm_close passes on an address inside the segment.  mm_initialize    *)
(* does the same, and fails, in a process that has the space.               *)
Uninitialize ==
  /\ proc = "up" /\ call = NoCall
  /\ root' = "absent" /\ segs' = {}
  /\ total' = 0 /\ next_key' = 0
  /\ section_list' = [a \in AreaSet |-> Unset]
  /\ free_section' = [a \in AreaSet |-> None]
  /\ section_tree' = {} /\ held' = {}
  /\ proc' = "down"
  /\ UNCHANGED <<attached, making, call>>

(* The process dies, between calls or within one. *)
Die ==
  /\ proc # "none"
  /\ proc' = "none" /\ attached' = FALSE
  /\ call' = NoCall
  /\ UNCHANGED <<root, segs, space, held, making>>

-------------------------------------------------------------------------------
(* mm_alloc, or mm_area_alloc for another area. *)
AllocBegin(n, a) ==
  /\ proc = "up" /\ call = NoCall
  /\ a = AreaOf[n] \/ a \in Direct
  /\ call' = [area |-> a, size |-> n, at |-> 0]
  /\ UNCHANGED <<root, segs, space, held, process>>

(* The section asked next: _free_section, then those of the list in order.  *)
Listed == section_list[call.area]
Asked == IF call.at = 0 THEN free_section[call.area] ELSE Listed[call.at]

Serve ==
  /\ call # NoCall /\ call.at <= Len(Listed) /\ Asked \notin Ruins
  /\ call.size <= Largest[call.area]
  /\ \E i \in 1 .. Slots[call.area] :
       LET b == [sec |-> Asked, at |-> i]
       IN  b \notin held /\ held' = held \cup {b}
  /\ free_section' = [free_section EXCEPT ![call.area] = Asked]
  /\ call' = NoCall
  /\ UNCHANGED <<root, segs, total, next_key, section_list, section_tree, process>>

AskNext ==
  /\ call # NoCall /\ call.at <= Len(Listed)
  /\ Asked \notin Ruins \/ call.area \in Guarded
  /\ free_section' = [free_section EXCEPT ![call.area] = Asked]
  /\ call' = [call EXCEPT !.at = @ + 1]
  /\ UNCHANGED <<root, segs, total, next_key, section_list, section_tree, held, process>>

(* The pools follow a null allocator, and the process dies. *)
AskNull ==
  /\ call # NoCall /\ call.at <= Len(Listed)
  /\ Asked \in Ruins /\ call.area \notin Guarded
  /\ free_section' = [free_section EXCEPT ![call.area] = Asked]
  /\ proc' = "none" /\ attached' = FALSE /\ call' = NoCall
  /\ UNCHANGED <<root, segs, total, next_key, section_list, section_tree, held, making>>

(* No section serves: a new one is made, and the search starts again. *)
Extend ==
  /\ call # NoCall /\ call.at > Len(Listed)
  /\ MakeSection(call.area)
  /\ call' = [call EXCEPT !.at = 0]
  /\ UNCHANGED <<root, held, process>>

(* Slip: whether a section could be made is not looked at. *)
AllocFailRetries ==
  /\ call # NoCall /\ call.at > Len(Listed)
  /\ SectionRefused(call.area)
  /\ call' = [call EXCEPT !.at = 0]
  /\ UNCHANGED <<root, held, process>>

AllocFail ==
  /\ call # NoCall /\ call.at > Len(Listed)
  /\ SectionRefused(call.area)
  /\ call' = NoCall
  /\ UNCHANGED <<root, held, process>>

(* mm_free finds the section of an address in the tree. *)
Free(b) ==
  /\ proc = "up" /\ call = NoCall
  /\ b \in held /\ b.sec \in section_tree
  /\ held' = held \ {b}
  /\ UNCHANGED <<root, segs, space, process, call>>

InCall == Serve \/ AskNext \/ AskNull \/ Extend \/ AllocFail

Next ==
  \/ Create \/ CreateRefused \/ Fill \/ CreateArea \/ CreateAreaFail
  \/ LoadRefused \/ Load \/ Uninitialize \/ Die
  \/ \E n \in Sizes, a \in AreaSet : AllocBegin(n, a)
  \/ InCall
  \/ \E b \in held : Free(b)

(* A process that is in a call goes on with it. *)
Fairness == WF_vars(InCall)
Spec == Init /\ [][Next]_vars /\ Fairness

-------------------------------------------------------------------------------
TypeOK ==
  /\ root \in {"absent", "blank", "labelled"}
  /\ segs \subseteq Sections /\ section_tree \subseteq Sections \cup Ruins
  /\ total \in 0 .. MaxShmm /\ next_key \in 0 .. (KeySpan - 1)
  /\ section_list \in [AreaSet -> Seq(Sections \cup Ruins \cup {None})]
  /\ free_section \in [AreaSet -> Sections \cup Ruins \cup {None}]
  /\ held \subseteq Blocks
  /\ proc \in {"none", "starting", "up", "failed", "down"}
  /\ attached \in BOOLEAN /\ making \in 0 .. (Len(Areas) + 1)
  /\ call = NoCall \/ call \in [area : AreaSet, size : Sizes, at : Nat]

(* Whatever deaths and refusals came before, that of create_func, which     *)
(* comes when the section is already in tree and list, included: as many    *)
(* sections are counted, and so can be destroyed and loaded again, as have  *)
(* a segment.  A process that has the space has all of it, with a section   *)
(* in the list of each area, and mm_free finds each of them; the one asked  *)
(* first has its allocator, unless the area refuses without one.            *)
SpaceSound ==
  /\ TypeOK
  /\ Cardinality(section_tree \ Ruins) = total /\ section_tree \ Ruins \subseteq segs
  /\ proc = "up" =>
       /\ root = "labelled" /\ attached
       /\ \A a \in AreaSet :
            /\ section_list[a] # Unset /\ ~lst_empty(section_list[a])
            /\ \A k \in 1 .. Len(section_list[a]) : section_list[a][k] \in section_tree
            /\ free_section[a] \in {s \in section_tree : s.area = a}
            /\ a \in Guarded \/ free_section[a] \notin Ruins

(* A block can be freed as long as the process runs, though its section     *)
(* may no longer be in the list of its area: mm_free looks in the tree.     *)
LiveFreeable == proc = "up" => \A b \in held : b.sec \in section_tree

(* mm_area_alloc returns, also for a request that no section of its area    *)
(* will ever serve: each retry has used up a section.                       *)
AllocEnds == (call # NoCall) ~> (call = NoCall)
===============================================================================
