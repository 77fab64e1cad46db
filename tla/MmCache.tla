-------------------------------- MODULE MmCache --------------------------------
(***************************************************************************)
(* The object caches of mmspace.c.  A cache, a zone, keeps its objects in  *)
(* slabs: runs of pages of the cache area with a struct _mm_cache at the   *)
(* start and the objects at the end.  Its slabs are in one of three lists, *)
(* by how many objects are free.  When the area has no pages left, the     *)
(* empty slabs of all zones are given back to it.                          *)
(*                                                                         *)
(* A page is its number in the area, a slab its first page, an object its  *)
(* address.  What lies at the start of a page is memory: the header of a   *)
(* slab that was given back stays there until the page starts another slab *)
(* or a client writes the object it is in.  A write to such an object is   *)
(* taken to cover the header.  The area is a PageAlloc, which may refuse   *)
(* at any time, as its free pages may be scattered.                        *)
(***************************************************************************)
EXTENDS Integers, FiniteSets, DList

CONSTANTS
  Zones,                      \* the caches in _zone_list
  ObjSize,                    \* zone -> _the_zone.obj_size
  PageSize, MaxPg,            \* page_size and maxpg_count of MM_AREA_CACHE
  HeaderSize,                 \* sizeof(struct _mm_cache)
  MinObjects, MaxObjects,     \* CACHE_OBJ_COUNT, CACHE_OBJ_COUNT_MAX
  AreaPages                   \* pages of the area

Pages == 0 .. (AreaPages - 1)
Memory == 0 .. (AreaPages * PageSize - 1)
None == "none"
NoSlab == -1

(* mm_cache_create refuses a zone whose slabs have MaxPg pages or more.     *)
RoundUp(n, a) == ((n + a - 1) \div a) * a
CacheSize(z) == RoundUp(ObjSize[z] * MinObjects + HeaderSize, PageSize)

ASSUME SizeAssumption ==
  /\ PageSize \in Nat \ {0} /\ MaxPg \in Nat /\ AreaPages \in Nat
  /\ HeaderSize \in 1 .. PageSize
  /\ MinObjects \in Nat /\ MinObjects >= 2
  /\ MaxObjects \in Nat /\ MaxObjects >= MinObjects
  /\ ObjSize \in [Zones -> Nat \ {0}]
  /\ \A z \in Zones : CacheSize(z) < PageSize * MaxPg
  /\ None \notin Zones

VARIABLES
  held,                       \* the area's runs of pages in use
  header,                     \* page -> what a struct _mm_cache at its start is
  empty, partial, full,       \* _empty_slab_list and so on: zone -> slabs
  recalling,                  \* the zone for which slabs were recalled, or None
  live,                       \* the clients' view: objects they hold
  refused                     \* the call just refused, or NoCall

lists == <<empty, partial, full>>
vars == <<held, header, lists, recalling, live, refused>>

Area == INSTANCE PageAlloc

NoHeader == [label |-> FALSE, zone |-> None, bits |-> {}, free |-> 0]
NoCall == [op |-> "none", zone |-> None, at |-> NoSlab]

(* mm_cache_create of each zone. *)
Init ==
  /\ Area!Init
  /\ header = [p \in Pages |-> NoHeader]
  /\ empty = [z \in Zones |-> lst_new]
  /\ partial = [z \in Zones |-> lst_new]
  /\ full = [z \in Zones |-> lst_new]
  /\ recalling = None
  /\ live = {}
  /\ refused = NoCall

-------------------------------------------------------------------------------
(* _obj_count and _obj_ptr of a slab, from which its objects follow. *)
ObjCount(z) == LET n == (CacheSize(z) - HeaderSize) \div ObjSize[z]
               IN  IF n <= MaxObjects THEN n ELSE MaxObjects
ObjPtr(z, p) == p * PageSize + CacheSize(z) - ObjCount(z) * ObjSize[z]
Object(z, p, i) == [zone |-> z, at |-> ObjPtr(z, p) + i * ObjSize[z]]

(* _mmc_next_free_obj and _mm_zfetch_obj of a slab with a free object. *)
NextFree(h) == CHOOSE i \in 0 .. (MaxObjects - 1) :
                 i \notin h.bits /\ \A j \in 0 .. (i - 1) : j \in h.bits
Fetched(h) == [h EXCEPT !.bits = @ \cup {NextFree(h)}, !.free = @ - 1]

Idle == recalling = None

Hand(z, p, h) ==
  /\ header' = [header EXCEPT ![p] = Fetched(h)]
  /\ live' = live \cup {Object(z, p, NextFree(h))}
  /\ recalling' = None
  /\ refused' = NoCall

(* mm_cache_alloc: from the first partial slab ... *)
AllocPartial(z) ==
  /\ Idle
  /\ ~lst_empty(partial[z])
  /\ LET p == lst_first(partial[z])
     IN  /\ Hand(z, p, header[p])
         /\ \/ header'[p].free > 0 /\ UNCHANGED <<partial, full>>
            \/ /\ header'[p].free = 0
               /\ partial' = [partial EXCEPT ![z] = lst_remove(@, p)]
               /\ full' = [full EXCEPT ![z] = lst_push_front(@, p)]
  /\ UNCHANGED <<held, empty>>

(* ... or from an empty one ... *)
AllocEmpty(z) ==
  /\ Idle
  /\ lst_empty(partial[z]) /\ ~lst_empty(empty[z])
  /\ LET p == lst_first(empty[z])
     IN  /\ Hand(z, p, header[p])
         /\ empty' = [empty EXCEPT ![z] = lst_remove(@, p)]
         /\ partial' = [partial EXCEPT ![z] = lst_push_front(@, p)]
  /\ UNCHANGED <<held, full>>

(* ... or from a new one, which _mm_zcache_new makes of pages of the area.  *)
NoneLeft(z) == lst_empty(partial[z]) /\ lst_empty(empty[z])
NewSlab(z) == [label |-> TRUE, zone |-> z, bits |-> {}, free |-> ObjCount(z)]

AllocNew(z) ==
  /\ (Idle /\ NoneLeft(z)) \/ recalling = z
  /\ \E p \in Pages \ DOMAIN held :
       /\ Area!Grant(p, CacheSize(z) \div PageSize)
       /\ Hand(z, p, NewSlab(z))
       /\ partial' = [partial EXCEPT ![z] = lst_push_front(@, p)]
  /\ UNCHANGED <<empty, full>>

(* Slips: the zone's own slabs only are recalled; the lists keep them.      *)
RecallOwn(z) ==
  /\ Idle /\ NoneLeft(z)
  /\ recalling' = z
  /\ UNCHANGED <<held, header, lists, live, refused>>

Recalled == UNION {{empty[z][k] : k \in 1 .. Len(empty[z])} : z \in Zones}

RecallKeeps(z) ==
  /\ Idle /\ NoneLeft(z)
  /\ held' = [p \in DOMAIN held \ Recalled |-> held[p]]
  /\ recalling' = z
  /\ UNCHANGED <<header, lists, live, refused>>

(* The area refuses, and _mm_ztry_recall gives it the empty slabs of every  *)
(* zone.                                                                    *)
Recall(z) ==
  /\ Idle /\ NoneLeft(z)
  /\ held' = [p \in DOMAIN held \ Recalled |-> held[p]]
  /\ empty' = [y \in Zones |-> lst_new]
  /\ recalling' = z
  /\ UNCHANGED <<header, partial, full, live, refused>>

(* It refuses again. *)
AllocFail(z) ==
  /\ recalling = z
  /\ recalling' = None
  /\ refused' = [op |-> "alloc", zone |-> z, at |-> NoSlab]
  /\ UNCHANGED <<held, header, lists, live>>

-------------------------------------------------------------------------------
(* _cache_of_obj: the nearest page at or before the object with a label. *)
CacheOf(a) ==
  LET last == a \div PageSize
      labelled == {p \in Pages : last - MaxPg < p /\ p <= last /\ header[p].label}
  IN  IF labelled = {} THEN NoSlab
      ELSE CHOOSE p \in labelled : \A q \in labelled : q <= p

(* What _mm_zreturn_obj makes of the address in the slab at p. *)
IndexIn(p, a) == (a - ObjPtr(header[p].zone, p)) \div ObjSize[header[p].zone]

TakesBack(p, a) ==
  /\ p # NoSlab
  /\ header[p].free < ObjCount(header[p].zone)
  /\ a >= ObjPtr(header[p].zone, p)
  /\ IndexIn(p, a) \in header[p].bits

(* mm_cache_free, by a client that holds the object or freed it before.     *)
Objects(z) == {Object(z, p, i) : p \in {q \in DOMAIN held : header[q].zone = z},
                                 i \in 0 .. (ObjCount(z) - 1)}

FreeReject(o) ==
  /\ Idle
  /\ ~TakesBack(CacheOf(o.at), o.at)
  /\ refused' = [op |-> "free", zone |-> o.zone, at |-> o.at]
  /\ UNCHANGED <<held, header, lists, recalling, live>>

(* Slip: a slab that was full stays in its list. *)
FreeStaysFull(o) ==
  LET p == CacheOf(o.at)
      z == o.zone
  IN  /\ Idle
      /\ TakesBack(p, o.at)
      /\ header' = [header EXCEPT ![p].free = @ + 1,
                                  ![p].bits = @ \ {IndexIn(p, o.at)}]
      /\ live' = live \ {o}
      /\ \/ /\ header'[p].free = ObjCount(z)
            /\ partial' = [partial EXCEPT ![z] = lst_remove(@, p)]
            /\ empty' = [empty EXCEPT ![z] = lst_push_front(@, p)]
         \/ /\ header'[p].free < ObjCount(z)
            /\ UNCHANGED <<partial, empty>>
      /\ refused' = NoCall
      /\ UNCHANGED <<held, full, recalling>>

(* As a slab has more than one object, it is not full before and empty     *)
(* after the call.                                                          *)
Free(o) ==
  LET p == CacheOf(o.at)
      z == o.zone
  IN  /\ Idle
      /\ TakesBack(p, o.at)
      /\ header' = [header EXCEPT ![p].free = @ + 1,
                                  ![p].bits = @ \ {IndexIn(p, o.at)}]
      /\ live' = live \ {o}
      /\ \/ /\ header'[p].free = ObjCount(z)
            /\ partial' = [partial EXCEPT ![z] = lst_remove(@, p)]
            /\ empty' = [empty EXCEPT ![z] = lst_push_front(@, p)]
            /\ UNCHANGED full
         \/ /\ header[p].free = 0
            /\ full' = [full EXCEPT ![z] = lst_remove(@, p)]
            /\ partial' = [partial EXCEPT ![z] = lst_push_front(@, p)]
            /\ UNCHANGED empty
         \/ /\ header[p].free > 0 /\ header'[p].free < ObjCount(z)
            /\ UNCHANGED lists
      /\ refused' = NoCall
      /\ UNCHANGED <<held, recalling>>

(* A client writes an object that lies over the start of a page. *)
Write(o) ==
  LET over == {p \in Pages : p * PageSize \in o.at .. (o.at + ObjSize[o.zone] - 1)}
  IN  /\ Idle
      /\ \E p \in over : header[p].label
      /\ header' = [p \in Pages |-> IF p \in over THEN NoHeader ELSE header[p]]
      /\ UNCHANGED <<held, lists, recalling, live, refused>>

Next ==
  \/ \E z \in Zones : \/ AllocPartial(z) \/ AllocEmpty(z) \/ AllocNew(z)
                      \/ Recall(z) \/ AllocFail(z)
                      \/ \E o \in Objects(z) : FreeReject(o) \/ Free(o)
  \/ \E o \in live : Write(o)

Spec == Init /\ [][Next]_vars

-------------------------------------------------------------------------------
TypeOK ==
  /\ DOMAIN held \subseteq Pages
  /\ header \in [Pages -> [label : BOOLEAN, zone : Zones \cup {None},
                           bits : SUBSET (0 .. (MaxObjects - 1)), free : 0 .. MaxObjects]]
  /\ {empty, partial, full} \subseteq [Zones -> Seq(Pages)]
  /\ recalling \in Zones \cup {None}
  /\ live \subseteq [zone : Zones, at : Memory]
  /\ refused \in [op : {"none", "alloc", "free"}, zone : Zones \cup {None},
                  at : Memory \cup {NoSlab}]

(* Every run of pages the area has given away is a slab with a header of    *)
(* its own, in the one list of its zone that its free objects say; and what *)
(* its bits mark is what the clients hold.                                  *)
Slabs(z, S) == {p \in DOMAIN held : header[p].zone = z /\ header[p].free \in S}

SlabsExact ==
  /\ TypeOK
  /\ \A p \in DOMAIN held :
       LET h == header[p]
       IN  /\ h.label
           /\ held[p] * PageSize = CacheSize(h.zone)
           /\ h.free + Cardinality(h.bits) = ObjCount(h.zone)
  /\ \A z \in Zones : /\ ListsOnce(empty[z], Slabs(z, {ObjCount(z)}))
                      /\ ListsOnce(partial[z], Slabs(z, 1 .. (ObjCount(z) - 1)))
                      /\ ListsOnce(full[z], Slabs(z, {0}))
  /\ live = UNION {{Object(header[p].zone, p, i) : i \in header[p].bits} : p \in DOMAIN held}

(* A client is refused an object only when no zone has an empty slab left   *)
(* to recall, and its own has no free object.                               *)
FailsOnlyWhenFull ==
  refused.op = "alloc" => /\ \A z \in Zones : lst_empty(empty[z])
                          /\ lst_empty(partial[refused.zone])

(* An object that a client holds can be freed: for test_mmspace of          *)
(* test/host.c a negative result of mm_cache_free is an error.              *)
FreesLive == refused.op = "free" => [zone |-> refused.zone, at |-> refused.at] \notin live

(* No object handed out lies over another one, of whatever zone, however    *)
(* slabs were recalled and their pages made slabs of other zones.           *)
Cache == INSTANCE ObjectCache WITH objects <- live
ImplementsObjectCache == Cache!Spec
===============================================================================
