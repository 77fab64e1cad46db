---------------------------- MODULE MmCacheProofs ----------------------------
(***************************************************************************)
(* Proofs about the object caches for every area, page size and set of     *)
(* zones: the slabs, their lists and the clients' objects agree, a client  *)
(* is refused only when nothing is free or to be recalled, and no object   *)
(* handed out lies over another.                                           *)
(***************************************************************************)
EXTENDS MmCache, CommonLemmas, FiniteSetTheorems

-------------------------------------------------------------------------------
(* Facts about the zones. *)

(* The pages of a slab of zone z. *)
SlabPages(z) == CacheSize(z) \div PageSize

(* Rounding up gives a whole number of pages, of at least the size asked. *)
LEMMA RoundUpFits ==
  ASSUME NEW n \in Nat \ {0}, NEW a \in Nat \ {0}
  PROVE  \E q \in Nat \ {0} : RoundUp(n, a) = q * a /\ n <= q * a
<1> DEFINE q == (n + a - 1) \div a
<1>1. n + a - 1 \in Nat
  OBVIOUS
<1>2. q \in Nat /\ q * a <= n + a - 1 /\ n + a - 1 < (q + 1) * a
  BY <1>1, Quotient
<1>3. RoundUp(n, a) = q * a
  BY DEF RoundUp
<1> HIDE DEF q
<1>4. (q + 1) * a = q * a + a /\ q * a \in Nat
  BY <1>2
<1>5. n <= q * a
  BY <1>1, <1>2, <1>4
<1>6. q # 0
  BY <1>4, <1>5
<1> QED BY <1>2, <1>3, <1>5, <1>6

(* A slab is a few whole pages and holds its header and its objects. *)
LEMMA ZoneFacts ==
  ASSUME NEW z \in Zones
  PROVE  /\ CacheSize(z) \in Nat /\ ObjSize[z] \in Nat \ {0}
         /\ SlabPages(z) \in Nat \ {0} /\ SlabPages(z) < MaxPg
         /\ CacheSize(z) = SlabPages(z) * PageSize
         /\ ObjCount(z) \in MinObjects .. MaxObjects
         /\ ObjCount(z) * ObjSize[z] + HeaderSize <= CacheSize(z)
         /\ ObjCount(z) * ObjSize[z] \in Nat
<1> DEFINE s == ObjSize[z]
           c == CacheSize(z)
           n == (c - HeaderSize) \div s
<1>1. /\ s \in Nat \ {0} /\ PageSize \in Nat \ {0} /\ HeaderSize \in Nat \ {0} /\ MaxPg \in Nat
      /\ MinObjects \in Nat /\ MinObjects >= 2 /\ MaxObjects \in Nat /\ MinObjects <= MaxObjects
      /\ c < PageSize * MaxPg
  BY SizeAssumption
<1> HIDE DEF s
<1>2. s * MinObjects \in Nat /\ s * MinObjects + HeaderSize \in Nat \ {0}
  BY <1>1
<1>3. PICK q \in Nat \ {0} : c = q * PageSize /\ s * MinObjects + HeaderSize <= q * PageSize
  BY <1>1, <1>2, RoundUpFits DEF CacheSize, s
<1> HIDE DEF c
<1>4. c \in Nat /\ c - HeaderSize \in Nat /\ s * MinObjects <= c - HeaderSize
  BY <1>1, <1>2, <1>3
<1>5. SlabPages(z) = q
  BY <1>1, <1>3, DivideExactly DEF SlabPages, c
<1>6. q < MaxPg
  <2>1. q * PageSize < MaxPg * PageSize
    BY <1>1, <1>3
  <2> QED BY <1>1, <2>1, TimesStrict
<1>7. n \in Nat /\ n * s <= c - HeaderSize /\ c - HeaderSize < (n + 1) * s
  BY <1>1, <1>4, Quotient
<1> HIDE DEF n
<1>8. MinObjects <= n
  <2>1. MinObjects * s < (n + 1) * s
    BY <1>1, <1>2, <1>4, <1>7
  <2> QED BY <1>1, <1>7, <2>1, TimesStrict
<1>9. ObjCount(z) = IF n <= MaxObjects THEN n ELSE MaxObjects
  BY DEF ObjCount, n, c, s
<1>10. ObjCount(z) \in MinObjects .. MaxObjects /\ ObjCount(z) \in Nat /\ ObjCount(z) <= n
  BY <1>1, <1>7, <1>8, <1>9
<1>11. ObjCount(z) * s <= n * s /\ ObjCount(z) * s \in Nat /\ n * s \in Nat
  BY <1>1, <1>7, <1>10, TimesMonotone
<1>12. ObjCount(z) * s + HeaderSize <= c
  BY <1>1, <1>4, <1>7, <1>11
<1> QED BY <1>1, <1>3, <1>4, <1>5, <1>6, <1>10, <1>11, <1>12 DEF c, s

-------------------------------------------------------------------------------
(* Where objects lie. *)
Slots(z) == 0 .. ObjCount(z) - 1

(* Behind the header of its slab and within its pages. *)
LEMMA ObjectWithin ==
  ASSUME NEW z \in Zones, NEW p \in Nat, NEW i \in Slots(z)
  PROVE  /\ Object(z, p, i).zone = z
         /\ Object(z, p, i).at \in Nat /\ ObjPtr(z, p) \in Nat
         /\ Object(z, p, i).at = ObjPtr(z, p) + i * ObjSize[z]
         /\ i * ObjSize[z] \in Nat
         /\ p * PageSize \in Nat /\ (p + SlabPages(z)) * PageSize \in Nat
         /\ p * PageSize + HeaderSize <= Object(z, p, i).at
         /\ Object(z, p, i).at + ObjSize[z] <= (p + SlabPages(z)) * PageSize
<1> DEFINE s == ObjSize[z]
           n == ObjCount(z)
           c == CacheSize(z)
           k == SlabPages(z)
<1>1. /\ s \in Nat \ {0} /\ n \in Nat /\ c \in Nat /\ k \in Nat /\ PageSize \in Nat
      /\ HeaderSize \in Nat /\ c = k * PageSize /\ n * s \in Nat /\ n * s + HeaderSize <= c
  BY ZoneFacts, SizeAssumption
<1>2. i * s \in Nat /\ i * s + s <= n * s
  BY <1>1, SlotEnds DEF Slots
<1>3. /\ ObjPtr(z, p) = p * PageSize + c - n * s
      /\ Object(z, p, i) = [zone |-> z, at |-> ObjPtr(z, p) + i * s]
  BY DEF ObjPtr, Object
<1> HIDE DEF s, n, c, k
<1>4. p * PageSize \in Nat /\ (p + k) * PageSize = p * PageSize + c
  BY <1>1
<1>5. ObjPtr(z, p) \in Nat /\ ObjPtr(z, p) = p * PageSize + (c - n * s)
  BY <1>1, <1>3, <1>4
<1>6. Object(z, p, i).at = ObjPtr(z, p) + i * s /\ Object(z, p, i).zone = z
  BY <1>3
<1> HIDE DEF Object, ObjPtr
<1>7. /\ p * PageSize + HeaderSize <= Object(z, p, i).at
      /\ Object(z, p, i).at + s <= p * PageSize + c
  BY <1>1, <1>2, <1>4, <1>5, <1>6
<1> QED BY <1>1, <1>2, <1>4, <1>5, <1>6, <1>7 DEF s, k

(* The address names the slot. *)
LEMMA IndexOfSlot ==
  ASSUME NEW z \in Zones, NEW p \in Nat, NEW i \in Slots(z)
  PROVE  (Object(z, p, i).at - ObjPtr(z, p)) \div ObjSize[z] = i
<1>1. i \in Nat /\ ObjSize[z] \in Nat \ {0}
  BY ZoneFacts DEF Slots
<1>2. Object(z, p, i).at - ObjPtr(z, p) = i * ObjSize[z]
  BY ObjectWithin
<1> QED BY <1>1, <1>2, DivideExactly

(* Runs of pages without a common page lie one after the other. *)
LEMMA RunsApart ==
  ASSUME NEW p \in Nat, NEW m \in Nat \ {0}, NEW q \in Nat, NEW n \in Nat \ {0},
         Area!Extent(p, m) \cap Area!Extent(q, n) = {}
  PROVE  p + m <= q \/ q + n <= p
<1> SUFFICES ASSUME ~(p + m <= q), ~(q + n <= p) PROVE FALSE
  OBVIOUS
<1>1. CASE p <= q
  <2>1. q \in Area!Extent(p, m) /\ q \in Area!Extent(q, n)
    BY <1>1 DEF Area!Extent
  <2> QED BY <2>1
<1>2. CASE q <= p
  <2>1. p \in Area!Extent(p, m) /\ p \in Area!Extent(q, n)
    BY <1>2 DEF Area!Extent
  <2> QED BY <2>1
<1> QED BY <1>1, <1>2

(* An object lies on the pages of its slab. *)
LEMMA ObjectPage ==
  ASSUME NEW z \in Zones, NEW p \in Nat, NEW i \in Slots(z)
  PROVE  Object(z, p, i).at \div PageSize \in p .. p + SlabPages(z) - 1
<1> DEFINE a == Object(z, p, i).at
           l == a \div PageSize
           k == SlabPages(z)
<1>1. /\ a \in Nat /\ p * PageSize \in Nat /\ (p + k) * PageSize \in Nat
      /\ p * PageSize + HeaderSize <= a /\ a + ObjSize[z] <= (p + k) * PageSize
      /\ HeaderSize \in Nat \ {0} /\ ObjSize[z] \in Nat \ {0} /\ PageSize \in Nat \ {0}
      /\ k \in Nat
  BY ObjectWithin, ZoneFacts, SizeAssumption
<1> HIDE DEF a, k
<1>2. l \in Nat /\ l * PageSize <= a /\ a < (l + 1) * PageSize
  BY <1>1, Quotient
<1> HIDE DEF l
<1>3. l * PageSize \in Nat /\ (l + 1) * PageSize \in Nat
  BY <1>1, <1>2
<1>4. p < l + 1
  <2>1. p * PageSize < (l + 1) * PageSize
    BY <1>1, <1>2, <1>3
  <2> QED BY <1>1, <1>2, <2>1, TimesStrict
<1>5. l < p + k
  <2>1. l * PageSize < (p + k) * PageSize
    BY <1>1, <1>2, <1>3
  <2> QED BY <1>1, <1>2, <2>1, TimesStrict
<1> QED BY <1>1, <1>2, <1>4, <1>5 DEF l, a, k

(* Objects in different slots, or in slabs without a common page, lie apart. *)
LEMMA ObjectsApart ==
  ASSUME NEW z \in Zones, NEW p \in Nat, NEW i \in Slots(z),
         NEW y \in Zones, NEW q \in Nat, NEW j \in Slots(y),
         \/ z = y /\ p = q /\ i # j
         \/ Area!Extent(p, SlabPages(z)) \cap Area!Extent(q, SlabPages(y)) = {}
  PROVE  /\ Cache!Bytes(Object(z, p, i)) \cap Cache!Bytes(Object(y, q, j)) = {}
         /\ Object(z, p, i) # Object(y, q, j)
<1> DEFINE a == Object(z, p, i).at
           b == Object(y, q, j).at
<1>1. /\ a \in Nat /\ b \in Nat /\ ObjSize[z] \in Nat \ {0} /\ ObjSize[y] \in Nat \ {0}
      /\ Object(z, p, i).zone = z /\ Object(y, q, j).zone = y
  BY ObjectWithin, ZoneFacts
<1>2. a + ObjSize[z] <= b \/ b + ObjSize[y] <= a
  <2>1. CASE z = y /\ p = q /\ i < j
    <3>1. i \in Nat /\ j \in Nat
      BY <2>1 DEF Slots
    <3>2. i * ObjSize[z] + ObjSize[z] <= j * ObjSize[z]
      BY <1>1, <2>1, <3>1, SlotsApart
    <3>3. /\ a = ObjPtr(z, p) + i * ObjSize[z] /\ b = ObjPtr(z, p) + j * ObjSize[z]
          /\ ObjPtr(z, p) \in Nat /\ i * ObjSize[z] \in Nat /\ j * ObjSize[z] \in Nat
      BY <2>1, ObjectWithin
    <3> QED BY <1>1, <3>2, <3>3
  <2>2. CASE z = y /\ p = q /\ j < i
    <3>1. i \in Nat /\ j \in Nat
      BY <2>2 DEF Slots
    <3>2. j * ObjSize[z] + ObjSize[z] <= i * ObjSize[z]
      BY <1>1, <2>2, <3>1, SlotsApart
    <3>3. /\ a = ObjPtr(z, p) + i * ObjSize[z] /\ b = ObjPtr(z, p) + j * ObjSize[z]
          /\ ObjPtr(z, p) \in Nat /\ i * ObjSize[z] \in Nat /\ j * ObjSize[z] \in Nat
      BY <2>2, ObjectWithin
    <3> QED BY <1>1, <2>2, <3>2, <3>3
  <2>3. CASE Area!Extent(p, SlabPages(z)) \cap Area!Extent(q, SlabPages(y)) = {}
    <3> DEFINE m == SlabPages(z)
               n == SlabPages(y)
    <3>1. m \in Nat \ {0} /\ n \in Nat \ {0} /\ PageSize \in Nat \ {0} /\ HeaderSize \in Nat
      BY ZoneFacts, SizeAssumption
    <3>2. p + m <= q \/ q + n <= p
      BY <2>3, <3>1, RunsApart
    <3>3. /\ p * PageSize + HeaderSize <= a /\ a + ObjSize[z] <= (p + m) * PageSize
          /\ q * PageSize + HeaderSize <= b /\ b + ObjSize[y] <= (q + n) * PageSize
      BY ObjectWithin
    <3> HIDE DEF m, n, a, b
    <3>4. CASE p + m <= q
      <4>1. /\ (p + m) * PageSize <= q * PageSize
            /\ (p + m) * PageSize \in Nat /\ q * PageSize \in Nat
        BY <3>1, <3>4, TimesMonotone
      <4> QED BY <1>1, <3>1, <3>3, <4>1
    <3>5. CASE q + n <= p
      <4>1. /\ (q + n) * PageSize <= p * PageSize
            /\ (q + n) * PageSize \in Nat /\ p * PageSize \in Nat
        BY <3>1, <3>5, TimesMonotone
      <4> QED BY <1>1, <3>1, <3>3, <4>1
    <3> QED BY <3>2, <3>4, <3>5
  <2>4. i \in Int /\ j \in Int
    BY DEF Slots
  <2> QED BY <2>1, <2>2, <2>3, <2>4
<1> HIDE DEF a, b
<1>3. Cache!Bytes(Object(z, p, i)) = a .. a + ObjSize[z] - 1
  BY <1>1 DEF Cache!Bytes, a
<1>4. Cache!Bytes(Object(y, q, j)) = b .. b + ObjSize[y] - 1
  BY <1>1 DEF Cache!Bytes, b
<1>5. a # b
  BY <1>1, <1>2
<1>6. (a .. a + ObjSize[z] - 1) \cap (b .. b + ObjSize[y] - 1) = {}
  BY <1>1, <1>2
<1> QED BY <1>3, <1>4, <1>5, <1>6 DEF a, b

-------------------------------------------------------------------------------
(* Headers. *)
Headers == [label : BOOLEAN, zone : Zones \cup {None},
            bits : SUBSET (0 .. (MaxObjects - 1)), free : 0 .. MaxObjects]

(* The header of a slab in use. *)
Sound(h) ==
  /\ h \in Headers /\ h.label /\ h.zone \in Zones
  /\ h.bits \subseteq Slots(h.zone)
  /\ h.free + Cardinality(h.bits) = ObjCount(h.zone)

(* How many bits are set says whether all are. *)
LEMMA BitsFinite ==
  ASSUME NEW h \in Headers, NEW z \in Zones, h.bits \subseteq Slots(z)
  PROVE  /\ IsFiniteSet(h.bits) /\ Cardinality(h.bits) \in Nat
         /\ Cardinality(h.bits) = ObjCount(z) => h.bits = Slots(z)
         /\ h.free \in Nat /\ ObjCount(z) \in Nat
         /\ Cardinality(Slots(z)) = ObjCount(z)
<1>1. ObjCount(z) \in Nat /\ ObjCount(z) >= 2 /\ MaxObjects \in Nat
  BY ZoneFacts, SizeAssumption
<1>2. 0 \in Int /\ ObjCount(z) - 1 \in Int
  BY <1>1
<1>3. /\ IsFiniteSet(Slots(z))
      /\ Cardinality(Slots(z)) = IF 0 > ObjCount(z) - 1 THEN 0 ELSE ObjCount(z) - 1 - 0 + 1
  BY <1>2, FS_Interval DEF Slots
<1>4. Cardinality(Slots(z)) = ObjCount(z)
  BY <1>1, <1>3
<1>5. /\ IsFiniteSet(h.bits)
      /\ Cardinality(Slots(z)) = Cardinality(h.bits) => Slots(z) = h.bits
  BY <1>3, FS_Subset
<1>6. Cardinality(h.bits) \in Nat
  BY <1>5, FS_CardinalityType
<1>7. h.free \in Nat
  BY <1>1 DEF Headers
<1> QED BY <1>1, <1>4, <1>5, <1>6, <1>7

(* A slab with a free object has a next one, and what it becomes is sound. *)
LEMMA FetchFits ==
  ASSUME NEW h, Sound(h), h.free > 0
  PROVE  /\ NextFree(h) \in Slots(h.zone) /\ NextFree(h) \notin h.bits
         /\ Sound(Fetched(h)) /\ Fetched(h).zone = h.zone
         /\ Fetched(h).free = h.free - 1
         /\ Fetched(h).bits = h.bits \cup {NextFree(h)}
<1> DEFINE z == h.zone
           i == NextFree(h)
<1>1. /\ z \in Zones /\ h \in Headers /\ h.bits \subseteq Slots(z)
      /\ h.free + Cardinality(h.bits) = ObjCount(z)
  BY DEF Sound
<1> HIDE DEF z
<1>2. /\ IsFiniteSet(h.bits) /\ Cardinality(h.bits) \in Nat /\ h.free \in Nat
      /\ Cardinality(Slots(z)) = ObjCount(z) /\ ObjCount(z) \in Nat
  BY <1>1, BitsFinite
<1>3. /\ ObjCount(z) <= MaxObjects /\ MaxObjects \in Nat
  BY <1>1, ZoneFacts, SizeAssumption
<1>4. PICK k \in Slots(z) : k \notin h.bits
  <2>1. Cardinality(h.bits) # Cardinality(Slots(z))
    BY <1>1, <1>2
  <2>2. h.bits # Slots(z)
    BY <2>1
  <2> QED BY <1>1, <2>2
<1>5. \E m \in 0 .. (MaxObjects - 1) : m \notin h.bits /\ \A j \in 0 .. (m - 1) : j \in h.bits
  <2> DEFINE F == Slots(z) \ h.bits
  <2>1. F \in SUBSET Nat /\ F # {}
    BY <1>2, <1>4 DEF Slots
  <2>2. PICK m \in F : \A j \in F : m <= j
    BY <2>1, LeastElement
  <2>3. m \in 0 .. (MaxObjects - 1) /\ m \notin h.bits
    BY <1>2, <1>3, <2>2 DEF Slots
  <2>4. \A j \in 0 .. (m - 1) : j \in h.bits
    BY <1>2, <2>2 DEF Slots
  <2> QED BY <2>3, <2>4
<1>6. i \in 0 .. (MaxObjects - 1) /\ i \notin h.bits /\ \A j \in 0 .. (i - 1) : j \in h.bits
  BY <1>5 DEF NextFree
<1> HIDE DEF i
<1>7. i \in Slots(z)
  <2>1. ~(k \in 0 .. (i - 1))
    BY <1>4, <1>6
  <2> QED BY <1>2, <1>4, <1>6, <2>1 DEF Slots
<1>8. /\ IsFiniteSet(h.bits \cup {i})
      /\ Cardinality(h.bits \cup {i}) = Cardinality(h.bits) + 1
  BY <1>2, <1>6, FS_AddElement
<1>9. Fetched(h) = [h EXCEPT !.bits = @ \cup {i}, !.free = @ - 1]
  BY DEF Fetched, i
<1>10. h.free - 1 \in 0 .. MaxObjects
  BY <1>1, <1>2, <1>3
<1>11. h.bits \cup {i} \in SUBSET (0 .. (MaxObjects - 1))
  BY <1>1, <1>6 DEF Headers
<1>12. /\ Fetched(h) \in Headers /\ Fetched(h).label = h.label /\ Fetched(h).zone = z
       /\ Fetched(h).bits = h.bits \cup {i} /\ Fetched(h).free = h.free - 1
  BY <1>1, <1>9, <1>10, <1>11 DEF Headers, z
<1>13. Sound(Fetched(h))
  BY <1>1, <1>2, <1>7, <1>8, <1>12 DEF Sound
<1> QED BY <1>6, <1>7, <1>12, <1>13 DEF i, z

(* A slab that takes an object back is sound. *)
LEMMA ReturnFits ==
  ASSUME NEW h, Sound(h), NEW i \in h.bits, NEW g,
         g = [h EXCEPT !.free = @ + 1, !.bits = @ \ {i}]
  PROVE  /\ Sound(g) /\ g.zone = h.zone /\ g.free = h.free + 1 /\ g.bits = h.bits \ {i}
         /\ h.free < ObjCount(h.zone)
<1> DEFINE z == h.zone
<1>1. /\ z \in Zones /\ h \in Headers /\ h.bits \subseteq Slots(z)
      /\ h.free + Cardinality(h.bits) = ObjCount(z)
  BY DEF Sound
<1> HIDE DEF z
<1>2. /\ IsFiniteSet(h.bits) /\ Cardinality(h.bits) \in Nat /\ h.free \in Nat
      /\ ObjCount(z) \in Nat
  BY <1>1, BitsFinite
<1>3. ObjCount(z) <= MaxObjects /\ MaxObjects \in Nat
  BY <1>1, ZoneFacts, SizeAssumption
<1>4. /\ IsFiniteSet(h.bits \ {i})
      /\ Cardinality(h.bits \ {i}) = Cardinality(h.bits) - 1
      /\ Cardinality(h.bits \ {i}) \in Nat
  BY <1>2, FS_RemoveElement, FS_CardinalityType
<1>5. h.free + 1 \in 0 .. MaxObjects /\ h.free < ObjCount(z)
  BY <1>1, <1>2, <1>3, <1>4
<1>6. h.bits \ {i} \in SUBSET (0 .. (MaxObjects - 1))
  BY <1>1 DEF Headers
<1>7. /\ g \in Headers /\ g.label = h.label /\ g.zone = z
      /\ g.bits = h.bits \ {i} /\ g.free = h.free + 1
  BY <1>1, <1>5, <1>6 DEF Headers, z
<1>8. Sound(g)
  BY <1>1, <1>2, <1>4, <1>7 DEF Sound
<1> QED BY <1>5, <1>7, <1>8 DEF z

-------------------------------------------------------------------------------
(* The inductive invariant. *)

(* The area's runs lie in it and apart. *)
Runs ==
  /\ DOMAIN held \subseteq Pages
  /\ \A p \in DOMAIN held : held[p] \in Nat \ {0} /\ Area!Extent(p, held[p]) \subseteq Pages
  /\ Area!Disjoint

(* Each is a slab, as long as its zone's are. *)
Headed ==
  /\ header \in [Pages -> Headers]
  /\ \A p \in DOMAIN held : Sound(header[p]) /\ held[p] = SlabPages(header[p].zone)

(* A header that was left behind is that of an empty slab. *)
Stale ==
  \A p \in Pages \ DOMAIN held :
    header[p].label => /\ header[p].zone \in Zones
                       /\ header[p].free = ObjCount(header[p].zone)

ListsTyped == /\ empty \in [Zones -> Seq(Pages)] /\ partial \in [Zones -> Seq(Pages)]
              /\ full \in [Zones -> Seq(Pages)]

Listed ==
  \A z \in Zones : /\ ListsOnce(empty[z], Slabs(z, {ObjCount(z)}))
                   /\ ListsOnce(partial[z], Slabs(z, 1 .. (ObjCount(z) - 1)))
                   /\ ListsOnce(full[z], Slabs(z, {0}))

(* The objects of the slab at p that its bits mark. *)
Marked(p) == {Object(header[p].zone, p, i) : i \in header[p].bits}
LiveMarked == live = UNION {Marked(p) : p \in DOMAIN held}

(* After a recall, and when an allocation was refused, there is no empty    *)
(* slab, nor one of the zone with a free object.                            *)
Nothing(z) == (\A y \in Zones : lst_empty(empty[y])) /\ lst_empty(partial[z])
Calls ==
  /\ recalling \in Zones \cup {None}
  /\ recalling # None => Nothing(recalling)
  /\ refused \in [op : {"none", "alloc", "free"}, zone : Zones \cup {None},
                  at : Memory \cup {NoSlab}]
  /\ refused.op = "alloc" => Nothing(refused.zone)

IInv == Runs /\ Headed /\ Stale /\ ListsTyped /\ Listed /\ LiveMarked /\ Calls

(* Pages are numbered. *)
LEMMA PagesNat == Pages \subseteq Nat
BY SizeAssumption DEF Pages

(* An object of a slab in use is memory of the area. *)
LEMMA ObjectInMemory ==
  ASSUME NEW z \in Zones, NEW p \in Pages, Area!Extent(p, SlabPages(z)) \subseteq Pages,
         NEW i \in Slots(z)
  PROVE  /\ Object(z, p, i) \in [zone : Zones, at : Memory]
         /\ Cache!Bytes(Object(z, p, i)) \subseteq Memory
<1> DEFINE o == Object(z, p, i)
           k == SlabPages(z)
<1>1. /\ p \in Nat /\ k \in Nat \ {0} /\ AreaPages \in Nat /\ PageSize \in Nat \ {0}
      /\ HeaderSize \in Nat /\ ObjSize[z] \in Nat \ {0}
  BY ZoneFacts, SizeAssumption, PagesNat
<1>2. /\ o.zone = z /\ o.at \in Nat /\ (p + k) * PageSize \in Nat
      /\ o.at + ObjSize[z] <= (p + k) * PageSize
  BY <1>1, ObjectWithin
<1>3. o = [zone |-> z, at |-> o.at]
  BY DEF Object
<1> HIDE DEF o, k
<1>4. p + k <= AreaPages
  <2>1. p + k - 1 \in Area!Extent(p, k)
    BY <1>1 DEF Area!Extent
  <2>2. p + k - 1 \in Pages
    BY <2>1 DEF k
  <2> QED BY <1>1, <2>2 DEF Pages
<1>5. (p + k) * PageSize <= AreaPages * PageSize /\ AreaPages * PageSize \in Nat
  BY <1>1, <1>4, TimesMonotone
<1>6. o.at .. (o.at + ObjSize[z] - 1) \subseteq Memory /\ o.at \in Memory
  BY <1>1, <1>2, <1>5 DEF Memory
<1> QED BY <1>2, <1>3, <1>6 DEF o, Cache!Bytes

(* What IInv says of a slab in use. *)
LEMMA SlabFacts ==
  ASSUME IInv, NEW p \in DOMAIN held
  PROVE  /\ p \in Pages /\ p \in Nat /\ Sound(header[p]) /\ header[p] \in Headers
         /\ header[p].zone \in Zones /\ header[p].bits \subseteq Slots(header[p].zone)
         /\ header[p].free \in 0 .. ObjCount(header[p].zone)
         /\ Area!Extent(p, SlabPages(header[p].zone)) \subseteq Pages
         /\ p \in Slabs(header[p].zone, {header[p].free})
<1>1. /\ p \in Pages /\ p \in Nat /\ Sound(header[p]) /\ header[p] \in Headers
      /\ header[p].zone \in Zones /\ header[p].bits \subseteq Slots(header[p].zone)
      /\ Area!Extent(p, SlabPages(header[p].zone)) \subseteq Pages
      /\ header[p].free + Cardinality(header[p].bits) = ObjCount(header[p].zone)
  BY PagesNat DEF IInv, Runs, Headed, Sound
<1>2. header[p].free \in 0 .. ObjCount(header[p].zone)
  BY <1>1, BitsFinite
<1> QED BY <1>1, <1>2 DEF Slabs

(* Two slabs in use have no page in common. *)
LEMMA SlabsApart ==
  ASSUME IInv, NEW p \in DOMAIN held, NEW q \in DOMAIN held, p # q
  PROVE  Area!Extent(p, SlabPages(header[p].zone)) \cap Area!Extent(q, SlabPages(header[q].zone)) = {}
BY DEF IInv, Runs, Headed, Area!Disjoint

(* Different slots of slabs in use are objects apart. *)
LEMMA HeldApart ==
  ASSUME IInv, NEW p \in DOMAIN held, NEW q \in DOMAIN held,
         NEW i \in Slots(header[p].zone), NEW j \in Slots(header[q].zone), p # q \/ i # j
  PROVE  /\ Cache!Bytes(Object(header[p].zone, p, i)) \cap Cache!Bytes(Object(header[q].zone, q, j)) = {}
         /\ Object(header[p].zone, p, i) # Object(header[q].zone, q, j)
<1>1. /\ p \in Nat /\ q \in Nat /\ header[p].zone \in Zones /\ header[q].zone \in Zones
  BY SlabFacts
<1>2. \/ header[p].zone = header[q].zone /\ p = q /\ i # j
      \/ Area!Extent(p, SlabPages(header[p].zone)) \cap Area!Extent(q, SlabPages(header[q].zone)) = {}
  BY SlabsApart
<1> QED BY <1>1, <1>2, ObjectsApart

-------------------------------------------------------------------------------
(* The initial state. *)
LEMMA InitIInv == Init => IInv
<1> SUFFICES ASSUME Init PROVE IInv
  OBVIOUS
<1>1. held = [p \in {} |-> 0] /\ DOMAIN held = {}
  BY DEF Init, Area!Init
<1>2. Runs
  BY <1>1 DEF Runs, Area!Disjoint
<1>3. NoHeader \in Headers /\ ~NoHeader.label
  BY SizeAssumption DEF NoHeader, Headers
<1>4. Headed /\ Stale
  BY <1>1, <1>3 DEF Init, Headed, Stale
<1>5. <<>> \in Seq(Pages)
  OBVIOUS
<1>6. ListsTyped
  BY <1>5 DEF Init, ListsTyped, lst_new
<1>7. \A z \in Zones : \A S : Slabs(z, S) = {}
  BY <1>1 DEF Slabs
<1>8. Listed
  BY <1>7, NewOnce DEF Init, Listed
<1>9. LiveMarked
  BY <1>1 DEF Init, LiveMarked
<1>10. NoCall \in [op : {"none", "alloc", "free"}, zone : Zones \cup {None},
                   at : Memory \cup {NoSlab}] /\ NoCall.op = "none"
  BY DEF NoCall
<1>11. Calls
  BY <1>10 DEF Init, Calls
<1> QED BY <1>2, <1>4, <1>6, <1>8, <1>9, <1>11 DEF IInv

(* Of all slabs, only those of z change, and of all lists, only those of z. *)
SlabsOf(z) == \A y \in Zones \ {z} : \A S : Slabs(y, S)' = Slabs(y, S)
ListsOf(z) == \A y \in Zones \ {z} : /\ empty'[y] = empty[y] /\ partial'[y] = partial[y]
                                     /\ full'[y] = full[y]

(* Of the slabs of z, the one at p comes to have f free objects. *)
Refiled(z, p, f) ==
  \A S : Slabs(z, S)' = (Slabs(z, S) \ {p}) \cup (IF f \in S THEN {p} ELSE {})

(* The header of one slab changes, and with it the list it belongs in. *)
LEMMA OneChanges ==
  ASSUME IInv, NEW p \in DOMAIN held, NEW z \in Zones, header[p].zone = z,
         NEW g, Sound(g), g.zone = z, held' = held, header' = [header EXCEPT ![p] = g]
  PROVE  /\ Runs' /\ Headed' /\ Stale'
         /\ header'[p] = g /\ \A q \in Pages \ {p} : header'[q] = header[q]
         /\ SlabsOf(z) /\ Refiled(z, p, g.free)
<1>1. /\ header \in [Pages -> Headers] /\ p \in Pages /\ DOMAIN held \subseteq Pages
      /\ held[p] = SlabPages(z) /\ g \in Headers
  BY DEF IInv, Runs, Headed, Sound
<1>2. /\ header' \in [Pages -> Headers] /\ header'[p] = g
      /\ \A q \in Pages \ {p} : header'[q] = header[q]
  BY <1>1
<1>3. Runs'
  BY DEF IInv, Runs, Area!Disjoint
<1>4. Headed'
  BY <1>1, <1>2 DEF IInv, Headed
<1>5. Stale'
  BY <1>1, <1>2 DEF IInv, Stale
<1>6. SlabsOf(z)
  BY <1>1, <1>2 DEF Slabs, SlabsOf
<1>7. Refiled(z, p, g.free)
  BY <1>1, <1>2 DEF Slabs, Refiled
<1> QED BY <1>2, <1>3, <1>4, <1>5, <1>6, <1>7

(* An object apart from all that are held. *)
Handed(o) == /\ o \in [zone : Zones, at : Memory] /\ Cache!Bytes(o) \subseteq Memory
             /\ \A q \in live : Cache!Bytes(o) \cap Cache!Bytes(q) = {}
             /\ live' = live \cup {o}

(* Hand from a slab in use that has a free object. *)
LEMMA HandKeeps ==
  ASSUME IInv, NEW p \in DOMAIN held, NEW z \in Zones, header[p].zone = z,
         header[p].free > 0, held' = held, Hand(z, p, header[p])
  PROVE  /\ Runs' /\ Headed' /\ Stale' /\ LiveMarked'
         /\ header'[p].free = header[p].free - 1
         /\ SlabsOf(z) /\ Refiled(z, p, header[p].free - 1)
         /\ Handed(Object(z, p, NextFree(header[p])))
<1> DEFINE h == header[p]
           i == NextFree(h)
<1>1. /\ p \in Pages /\ p \in Nat /\ Sound(h) /\ Area!Extent(p, SlabPages(z)) \subseteq Pages
      /\ DOMAIN held \subseteq Pages
  BY SlabFacts DEF IInv, Runs
<1>2. /\ i \in Slots(z) /\ i \notin h.bits /\ Sound(Fetched(h)) /\ Fetched(h).zone = z
      /\ Fetched(h).free = h.free - 1 /\ Fetched(h).bits = h.bits \cup {i}
  BY <1>1, FetchFits
<1>3. PICK g : g = Fetched(h)
  OBVIOUS
<1>4. PICK j \in Slots(z) : j = i
  BY <1>2
<1>5. /\ header' = [header EXCEPT ![p] = g] /\ live' = live \cup {Object(z, p, j)}
  BY <1>3, <1>4 DEF Hand
<1> HIDE DEF i
<1>6. /\ Sound(g) /\ g.zone = z /\ g.free = h.free - 1 /\ g.bits = h.bits \cup {j} /\ j \notin h.bits
  BY <1>2, <1>3, <1>4
<1>7. /\ Runs' /\ Headed' /\ Stale'
      /\ header'[p] = g /\ \A q \in Pages \ {p} : header'[q] = header[q]
      /\ SlabsOf(z) /\ Refiled(z, p, g.free)
  BY <1>5, <1>6, OneChanges
<1>8. LiveMarked'
  <2>1. \A q \in DOMAIN held \ {p} : Marked(q)' = Marked(q)
    BY <1>1, <1>7 DEF Marked
  <2>2. Marked(p)' = Marked(p) \cup {Object(z, p, j)}
    BY <1>6, <1>7 DEF Marked
  <2> QED BY <1>5, <2>1, <2>2 DEF IInv, LiveMarked
<1>9. \A o \in live : Cache!Bytes(Object(z, p, j)) \cap Cache!Bytes(o) = {}
  <2> TAKE o \in live
  <2>1. PICK q \in DOMAIN held : \E k \in header[q].bits : o = Object(header[q].zone, q, k)
    BY DEF IInv, LiveMarked, Marked
  <2>2. PICK k \in header[q].bits : o = Object(header[q].zone, q, k)
    BY <2>1
  <2>3. k \in Slots(header[q].zone) /\ (p # q \/ j # k)
    BY <1>6, <2>2, SlabFacts
  <2> QED BY <2>2, <2>3, HeldApart
<1>10. Handed(Object(z, p, j))
  BY <1>1, <1>5, <1>9, ObjectInMemory DEF Handed
<1> QED BY <1>4, <1>6, <1>7, <1>8, <1>10 DEF i

(* A slab goes to the front of its zone's list, or leaves it. *)
LEMMA IntoList ==
  ASSUME NEW f \in [Zones -> Seq(Pages)], NEW z \in Zones, NEW x \in Pages, NEW T, x \notin T,
         ListsOnce(f[z], T), NEW g, g = [f EXCEPT ![z] = lst_push_front(@, x)]
  PROVE  /\ g \in [Zones -> Seq(Pages)] /\ ListsOnce(g[z], T \cup {x}) /\ g[z] # <<>>
         /\ \A y \in Zones \ {z} : g[y] = f[y]
<1>1. /\ lst_push_front(f[z], x) \in Seq(Pages)
      /\ ListsOnce(lst_push_front(f[z], x), T \cup {x})
  BY PushFrontOnce
<1>2. g[z] = lst_push_front(f[z], x)
  OBVIOUS
<1>3. g[z] # <<>>
  <2>1. \E k \in 1 .. Len(g[z]) : g[z][k] = x
    BY <1>1, <1>2 DEF ListsOnce
  <2> QED BY <2>1
<1> QED BY <1>1, <1>2, <1>3

LEMMA OutOfList ==
  ASSUME NEW f \in [Zones -> Seq(Pages)], NEW z \in Zones, NEW T, NEW x \in T,
         ListsOnce(f[z], T), NEW g, g = [f EXCEPT ![z] = lst_remove(@, x)]
  PROVE  /\ g \in [Zones -> Seq(Pages)] /\ ListsOnce(g[z], T \ {x})
         /\ \A y \in Zones \ {z} : g[y] = f[y]
<1>1. /\ lst_remove(f[z], x) \in Seq(Pages)
      /\ ListsOnce(lst_remove(f[z], x), T \ {x})
  BY RemoveOnce
<1>2. g[z] = lst_remove(f[z], x)
  OBVIOUS
<1> QED BY <1>1, <1>2

(* The lists of one zone change, as its slabs do. *)
LEMMA ListedAgain ==
  ASSUME IInv, NEW z \in Zones, SlabsOf(z), ListsOf(z),
         ListsOnce(empty'[z], Slabs(z, {ObjCount(z)})'),
         ListsOnce(partial'[z], Slabs(z, 1 .. (ObjCount(z) - 1))'),
         ListsOnce(full'[z], Slabs(z, {0})')
  PROVE  Listed'
<1> SUFFICES ASSUME NEW y \in Zones
             PROVE /\ ListsOnce(empty'[y], Slabs(y, {ObjCount(y)})')
                   /\ ListsOnce(partial'[y], Slabs(y, 1 .. (ObjCount(y) - 1))')
                   /\ ListsOnce(full'[y], Slabs(y, {0})')
  BY DEF Listed
<1>1. /\ ListsOnce(empty[y], Slabs(y, {ObjCount(y)}))
      /\ ListsOnce(partial[y], Slabs(y, 1 .. (ObjCount(y) - 1)))
      /\ ListsOnce(full[y], Slabs(y, {0}))
  BY DEF IInv, Listed
<1>2. CASE y # z
  BY <1>1, <1>2 DEF SlabsOf, ListsOf
<1>3. CASE y = z
  BY <1>3
<1> QED BY <1>2, <1>3

(* Where IInv lists a slab, and how its lists are typed. *)
LEMMA ListFacts ==
  ASSUME IInv, NEW z \in Zones
  PROVE  /\ empty \in [Zones -> Seq(Pages)] /\ partial \in [Zones -> Seq(Pages)]
         /\ full \in [Zones -> Seq(Pages)]
         /\ empty[z] \in Seq(Pages) /\ partial[z] \in Seq(Pages) /\ full[z] \in Seq(Pages)
         /\ ListsOnce(empty[z], Slabs(z, {ObjCount(z)}))
         /\ ListsOnce(partial[z], Slabs(z, 1 .. (ObjCount(z) - 1)))
         /\ ListsOnce(full[z], Slabs(z, {0}))
         /\ ObjCount(z) \in Nat /\ ObjCount(z) >= 2
<1>1. ObjCount(z) \in Nat /\ ObjCount(z) >= 2
  BY ZoneFacts, SizeAssumption
<1>2. /\ empty \in [Zones -> Seq(Pages)] /\ partial \in [Zones -> Seq(Pages)]
      /\ full \in [Zones -> Seq(Pages)]
  BY DEF IInv, ListsTyped
<1>3. /\ empty[z] \in Seq(Pages) /\ partial[z] \in Seq(Pages) /\ full[z] \in Seq(Pages)
  BY <1>2
<1>4. /\ ListsOnce(empty[z], Slabs(z, {ObjCount(z)}))
      /\ ListsOnce(partial[z], Slabs(z, 1 .. (ObjCount(z) - 1)))
      /\ ListsOnce(full[z], Slabs(z, {0}))
  BY DEF IInv, Listed
<1> QED BY <1>1, <1>2, <1>3, <1>4

(* A call that hands an object out or takes one back ends as it should. *)
LEMMA CallEnds ==
  ASSUME recalling' = None, refused' = NoCall
  PROVE  Calls'
<1>1. /\ NoCall \in [op : {"none", "alloc", "free"}, zone : Zones \cup {None},
                     at : Memory \cup {NoSlab}]
      /\ NoCall.op = "none"
  BY DEF NoCall
<1> QED BY <1>1 DEF Calls

(* An object of a partial slab; the slab becomes full or stays. *)
LEMMA AllocPartialIInv ==
  ASSUME IInv, NEW z \in Zones, AllocPartial(z)
  PROVE  IInv' /\ \E o : Handed(o)
<1> DEFINE p == lst_first(partial[z])
           n == ObjCount(z)
<1>1. /\ partial[z] \in Seq(Pages) /\ partial[z] # <<>>
      /\ ListsOnce(partial[z], Slabs(z, 1 .. (n - 1)))
  BY DEF IInv, ListsTyped, Listed, AllocPartial, lst_empty
<1>2. PICK s \in Slabs(z, 1 .. (n - 1)) : s = p
  BY <1>1, PopFrontOnce
<1> HIDE DEF p
<1>3. n \in Nat /\ n >= 2
  BY ZoneFacts, SizeAssumption
<1>4. /\ s \in DOMAIN held /\ s \in Pages /\ header[s].zone = z
      /\ header[s].free \in 1 .. (n - 1) /\ header[s].free > 0
  BY <1>2, <1>3 DEF Slabs, IInv, Runs
<1>5. /\ Hand(z, s, header[s]) /\ held' = held /\ empty' = empty
      /\ recalling' = None /\ refused' = NoCall
      /\ \/ header'[s].free > 0 /\ UNCHANGED <<partial, full>>
         \/ /\ header'[s].free = 0
            /\ partial' = [partial EXCEPT ![z] = lst_remove(@, s)]
            /\ full' = [full EXCEPT ![z] = lst_push_front(@, s)]
  BY <1>2 DEF AllocPartial, Hand, p
<1>6. /\ Runs' /\ Headed' /\ Stale' /\ LiveMarked' /\ header'[s].free = header[s].free - 1
      /\ SlabsOf(z) /\ Refiled(z, s, header[s].free - 1)
      /\ Handed(Object(z, s, NextFree(header[s])))
  BY <1>4, <1>5, HandKeeps
<1>7. /\ empty \in [Zones -> Seq(Pages)] /\ partial \in [Zones -> Seq(Pages)]
      /\ full \in [Zones -> Seq(Pages)]
      /\ ListsOnce(empty[z], Slabs(z, {n})) /\ ListsOnce(full[z], Slabs(z, {0}))
  BY ListFacts
<1> HIDE DEF n
<1>8. \A S : s \in Slabs(z, S) <=> header[s].free \in S
  BY <1>4 DEF Slabs
<1>9. /\ s \notin Slabs(z, {n}) /\ s \notin Slabs(z, {0})
      /\ header[s].free - 1 \notin {n}
  BY <1>3, <1>4, <1>8
<1>10. /\ Slabs(z, {n})' = (Slabs(z, {n}) \ {s})
                           \cup (IF header[s].free - 1 \in {n} THEN {s} ELSE {})
       /\ Slabs(z, {0})' = (Slabs(z, {0}) \ {s})
                           \cup (IF header[s].free - 1 \in {0} THEN {s} ELSE {})
       /\ Slabs(z, 1 .. (n - 1))' = (Slabs(z, 1 .. (n - 1)) \ {s})
                           \cup (IF header[s].free - 1 \in 1 .. (n - 1) THEN {s} ELSE {})
  BY <1>6 DEF Refiled
<1>11. Slabs(z, {n})' = Slabs(z, {n})
  BY <1>9, <1>10
<1>12. ListsTyped' /\ Listed'
  <2>1. CASE header'[s].free > 0 /\ UNCHANGED <<partial, full>>
    <3>1. header[s].free - 1 \in 1 .. (n - 1) /\ header[s].free - 1 # 0
      BY <1>3, <1>4, <1>6, <2>1
    <3>2. /\ Slabs(z, 1 .. (n - 1))' = Slabs(z, 1 .. (n - 1))
          /\ Slabs(z, {0})' = Slabs(z, {0})
      <4>1. s \in Slabs(z, 1 .. (n - 1)) /\ header[s].free - 1 \notin {0}
        BY <1>2, <3>1
      <4>2. Slabs(z, 1 .. (n - 1))' = Slabs(z, 1 .. (n - 1))
        BY <1>10, <3>1, <4>1
      <4>3. Slabs(z, {0})' = Slabs(z, {0})
        BY <1>9, <1>10, <4>1
      <4> QED BY <4>2, <4>3
    <3>3. Listed'
      <4>1. /\ ListsOnce(empty'[z], Slabs(z, {n})')
             /\ ListsOnce(partial'[z], Slabs(z, 1 .. (n - 1))')
             /\ ListsOnce(full'[z], Slabs(z, {0})')
        BY <1>1, <1>5, <1>7, <1>11, <2>1, <3>2
      <4>2. ListsOf(z)
        BY <1>1, <1>5, <1>7, <1>11, <2>1, <3>2 DEF ListsOf
      <4> QED BY <1>6, <4>1, <4>2, ListedAgain DEF n
    <3> QED BY <1>5, <1>7, <2>1, <3>3 DEF ListsTyped
  <2>2. CASE /\ header'[s].free = 0
             /\ partial' = [partial EXCEPT ![z] = lst_remove(@, s)]
             /\ full' = [full EXCEPT ![z] = lst_push_front(@, s)]
    <3>1. header[s].free - 1 = 0
      BY <1>6, <2>2
    <3>2. header[s].free - 1 \notin 1 .. (n - 1)
      BY <1>3, <3>1
    <3>3. /\ Slabs(z, 1 .. (n - 1))' = Slabs(z, 1 .. (n - 1)) \ {s}
          /\ Slabs(z, {0})' = Slabs(z, {0}) \cup {s}
      BY <1>9, <1>10, <3>1, <3>2
    <3>4. /\ partial' \in [Zones -> Seq(Pages)]
          /\ ListsOnce(partial'[z], Slabs(z, 1 .. (n - 1)) \ {s})
          /\ \A y \in Zones \ {z} : partial'[y] = partial[y]
      BY <1>1, <1>2, <1>7, <2>2, OutOfList
    <3>5. /\ full' \in [Zones -> Seq(Pages)]
          /\ ListsOnce(full'[z], Slabs(z, {0}) \cup {s})
          /\ \A y \in Zones \ {z} : full'[y] = full[y]
      <4>1. PICK T, f, g : T = Slabs(z, {0}) /\ f = full /\ g = full'
        OBVIOUS
      <4>2. /\ f \in [Zones -> Seq(Pages)] /\ ListsOnce(f[z], T) /\ s \notin T /\ s \in Pages
            /\ g = [f EXCEPT ![z] = lst_push_front(@, s)]
        BY <1>4, <1>7, <1>9, <2>2, <4>1
      <4>3. /\ g \in [Zones -> Seq(Pages)] /\ ListsOnce(g[z], T \cup {s})
            /\ \A y \in Zones \ {z} : g[y] = f[y]
        BY <4>2, IntoList
      <4> QED BY <4>1, <4>3
    <3>6. Listed'
      <4>1. /\ ListsOnce(empty'[z], Slabs(z, {n})')
             /\ ListsOnce(partial'[z], Slabs(z, 1 .. (n - 1))')
             /\ ListsOnce(full'[z], Slabs(z, {0})')
        BY <1>5, <1>7, <1>11, <3>3, <3>4, <3>5
      <4>2. ListsOf(z)
        BY <1>5, <1>7, <1>11, <3>3, <3>4, <3>5 DEF ListsOf
      <4> QED BY <1>6, <4>1, <4>2, ListedAgain DEF n
    <3> QED BY <1>5, <1>7, <3>4, <3>5, <3>6 DEF ListsTyped
  <2> QED BY <1>5, <2>1, <2>2
<1>13. Calls'
  BY <1>5, CallEnds
<1> QED BY <1>6, <1>12, <1>13 DEF IInv

(* The first object of an empty slab. *)
LEMMA AllocEmptyIInv ==
  ASSUME IInv, NEW z \in Zones, AllocEmpty(z)
  PROVE  IInv' /\ \E o : Handed(o)
<1> DEFINE p == lst_first(empty[z])
           n == ObjCount(z)
<1>1. /\ empty[z] \in Seq(Pages) /\ empty[z] # <<>>
      /\ ListsOnce(empty[z], Slabs(z, {n}))
  BY DEF IInv, ListsTyped, Listed, AllocEmpty, lst_empty
<1>2. PICK s \in Slabs(z, {n}) : s = p
  BY <1>1, PopFrontOnce
<1> HIDE DEF p
<1>3. n \in Nat /\ n >= 2
  BY ZoneFacts, SizeAssumption
<1>4. /\ s \in DOMAIN held /\ s \in Pages /\ header[s].zone = z
      /\ header[s].free = n /\ header[s].free > 0
  BY <1>2, <1>3 DEF Slabs, IInv, Runs
<1>5. /\ Hand(z, s, header[s]) /\ held' = held /\ full' = full
      /\ recalling' = None /\ refused' = NoCall
      /\ empty' = [empty EXCEPT ![z] = lst_remove(@, s)]
      /\ partial' = [partial EXCEPT ![z] = lst_push_front(@, s)]
  BY <1>2 DEF AllocEmpty, Hand, p
<1>6. /\ Runs' /\ Headed' /\ Stale' /\ LiveMarked'
      /\ SlabsOf(z) /\ Refiled(z, s, header[s].free - 1)
      /\ Handed(Object(z, s, NextFree(header[s])))
  BY <1>4, <1>5, HandKeeps
<1>7. /\ empty \in [Zones -> Seq(Pages)] /\ partial \in [Zones -> Seq(Pages)]
      /\ full \in [Zones -> Seq(Pages)]
      /\ ListsOnce(partial[z], Slabs(z, 1 .. (n - 1))) /\ ListsOnce(full[z], Slabs(z, {0}))
  BY ListFacts
<1> HIDE DEF n
<1>8. /\ s \notin Slabs(z, 1 .. (n - 1)) /\ s \notin Slabs(z, {0})
      /\ header[s].free - 1 \in 1 .. (n - 1) /\ header[s].free - 1 \notin {0, n}
  BY <1>3, <1>4 DEF Slabs
<1>9. /\ Slabs(z, {n})' = (Slabs(z, {n}) \ {s})
                           \cup (IF header[s].free - 1 \in {n} THEN {s} ELSE {})
       /\ Slabs(z, {0})' = (Slabs(z, {0}) \ {s})
                           \cup (IF header[s].free - 1 \in {0} THEN {s} ELSE {})
       /\ Slabs(z, 1 .. (n - 1))' = (Slabs(z, 1 .. (n - 1)) \ {s})
                           \cup (IF header[s].free - 1 \in 1 .. (n - 1) THEN {s} ELSE {})
  BY <1>6 DEF Refiled
<1>10. /\ Slabs(z, {n})' = Slabs(z, {n}) \ {s}
      /\ Slabs(z, 1 .. (n - 1))' = Slabs(z, 1 .. (n - 1)) \cup {s}
      /\ Slabs(z, {0})' = Slabs(z, {0})
  BY <1>8, <1>9
<1>11. /\ empty' \in [Zones -> Seq(Pages)]
       /\ ListsOnce(empty'[z], Slabs(z, {n}) \ {s})
       /\ \A y \in Zones \ {z} : empty'[y] = empty[y]
  <2>1. PICK T, f, g : T = Slabs(z, {n}) /\ f = empty /\ g = empty'
    OBVIOUS
  <2>2. /\ f \in [Zones -> Seq(Pages)] /\ ListsOnce(f[z], T) /\ s \in T
        /\ g = [f EXCEPT ![z] = lst_remove(@, s)]
    BY <1>1, <1>2, <1>5, <1>7, <2>1
  <2>3. /\ g \in [Zones -> Seq(Pages)] /\ ListsOnce(g[z], T \ {s})
        /\ \A y \in Zones \ {z} : g[y] = f[y]
    BY <2>2, OutOfList
  <2> QED BY <2>1, <2>3
<1>12. /\ partial' \in [Zones -> Seq(Pages)]
       /\ ListsOnce(partial'[z], Slabs(z, 1 .. (n - 1)) \cup {s})
       /\ \A y \in Zones \ {z} : partial'[y] = partial[y]
  <2>1. PICK T, f, g : T = Slabs(z, 1 .. (n - 1)) /\ f = partial /\ g = partial'
    OBVIOUS
  <2>2. /\ f \in [Zones -> Seq(Pages)] /\ ListsOnce(f[z], T) /\ s \notin T /\ s \in Pages
        /\ g = [f EXCEPT ![z] = lst_push_front(@, s)]
    BY <1>4, <1>5, <1>7, <1>8, <2>1
  <2>3. /\ g \in [Zones -> Seq(Pages)] /\ ListsOnce(g[z], T \cup {s})
        /\ \A y \in Zones \ {z} : g[y] = f[y]
    BY <2>2, IntoList
  <2> QED BY <2>1, <2>3
<1>13. Listed'
  <2>1. /\ ListsOnce(empty'[z], Slabs(z, {n})')
         /\ ListsOnce(partial'[z], Slabs(z, 1 .. (n - 1))')
         /\ ListsOnce(full'[z], Slabs(z, {0})')
    BY <1>5, <1>7, <1>10, <1>11, <1>12
  <2>2. ListsOf(z)
    BY <1>5, <1>7, <1>10, <1>11, <1>12 DEF ListsOf
  <2> QED BY <1>6, <2>1, <2>2, ListedAgain DEF n
<1>14. ListsTyped'
  BY <1>5, <1>7, <1>11, <1>12 DEF ListsTyped
<1>15. Calls'
  BY <1>5, CallEnds
<1> QED BY <1>6, <1>13, <1>14, <1>15 DEF IInv

(* The header of a slab of which nothing was handed out. *)
LEMMA NewSlabSound ==
  ASSUME NEW z \in Zones
  PROVE  /\ Sound(NewSlab(z)) /\ NewSlab(z).free > 0 /\ NewSlab(z).zone = z
         /\ NewSlab(z).free = ObjCount(z) /\ NewSlab(z).bits = {}
<1>1. ObjCount(z) \in MinObjects .. MaxObjects /\ MinObjects \in Nat /\ MinObjects >= 2
      /\ MaxObjects \in Nat
  BY ZoneFacts, SizeAssumption
<1>2. Cardinality({}) = 0
  BY FS_EmptySet
<1>3. ObjCount(z) \in 0 .. MaxObjects
  BY <1>1
<1>4. NewSlab(z) \in Headers
  BY <1>3 DEF NewSlab, Headers
<1>5. /\ NewSlab(z).label /\ NewSlab(z).zone = z /\ NewSlab(z).bits = {}
      /\ NewSlab(z).free = ObjCount(z)
  BY DEF NewSlab
<1> QED BY <1>1, <1>2, <1>4, <1>5 DEF Sound

(* The first object of a slab made of pages of the area. *)
LEMMA AllocNewIInv ==
  ASSUME IInv, NEW z \in Zones, AllocNew(z)
  PROVE  IInv' /\ \E o : Handed(o)
<1> DEFINE n == ObjCount(z)
           i == NextFree(NewSlab(z))
           k == SlabPages(z)
<1>1. PICK p \in Pages \ DOMAIN held :
        /\ Area!Grant(p, k) /\ Hand(z, p, NewSlab(z))
        /\ partial' = [partial EXCEPT ![z] = lst_push_front(@, p)]
  BY DEF AllocNew, SlabPages
<1>2. /\ empty' = empty /\ full' = full /\ recalling' = None /\ refused' = NoCall
  BY <1>1 DEF AllocNew, Hand
<1>3. n \in Nat /\ n >= 2 /\ k \in Nat \ {0} /\ p \in Nat
  BY ZoneFacts, SizeAssumption, PagesNat
<1>4. /\ i \in Slots(z) /\ Sound(Fetched(NewSlab(z))) /\ Fetched(NewSlab(z)).zone = z
      /\ Fetched(NewSlab(z)).free = n - 1 /\ Fetched(NewSlab(z)).bits = {i}
  BY NewSlabSound, FetchFits
<1>5. PICK g : g = Fetched(NewSlab(z))
  OBVIOUS
<1>6. /\ header' = [header EXCEPT ![p] = g] /\ live' = live \cup {Object(z, p, i)}
      /\ Sound(g) /\ g.zone = z /\ g.free = n - 1 /\ g.bits = {i}
  BY <1>1, <1>4, <1>5 DEF Hand
<1>7. /\ held' = [q \in DOMAIN held \cup {p} |-> IF q = p THEN k ELSE held[q]]
      /\ Area!Extent(p, k) \subseteq Pages
      /\ \A q \in DOMAIN held : Area!Extent(p, k) \cap Area!Extent(q, held[q]) = {}
  BY <1>1 DEF Area!Grant
<1> HIDE DEF n, i, k
<1>8. /\ DOMAIN held' = DOMAIN held \cup {p} /\ held'[p] = k
      /\ \A q \in DOMAIN held : held'[q] = held[q] /\ q # p
  BY <1>1, <1>7
<1>9. /\ DOMAIN held \subseteq Pages /\ header \in [Pages -> Headers] /\ g \in Headers
      /\ \A q \in DOMAIN held : held[q] \in Nat \ {0} /\ Area!Extent(q, held[q]) \subseteq Pages
      /\ Area!Disjoint
  BY <1>6 DEF IInv, Runs, Headed, Sound
<1>10. /\ header' \in [Pages -> Headers] /\ header'[p] = g
       /\ \A q \in Pages \ {p} : header'[q] = header[q]
  BY <1>6, <1>9
<1>11. Runs'
  <2>1. Area!Disjoint'
    <3> SUFFICES ASSUME NEW q \in DOMAIN held', NEW r \in DOMAIN held', q # r
                 PROVE Area!Extent(q, held'[q]) \cap Area!Extent(r, held'[r]) = {}
      BY DEF Area!Disjoint, Area!Extent
    <3>1. CASE q = p
      BY <1>7, <1>8, <3>1
    <3>2. CASE r = p
      BY <1>7, <1>8, <3>2
    <3>3. CASE q # p /\ r # p
      BY <1>8, <1>9, <3>3 DEF Area!Disjoint
    <3> QED BY <3>1, <3>2, <3>3
  <2>2. \A q \in DOMAIN held' : held'[q] \in Nat \ {0} /\ Area!Extent(q, held'[q]) \subseteq Pages
    BY <1>3, <1>7, <1>8, <1>9
  <2>3. DOMAIN held' \subseteq Pages
    BY <1>8, <1>9
  <2> QED BY <2>1, <2>2, <2>3 DEF Runs, Area!Extent
<1>12. Headed'
  BY <1>6, <1>8, <1>9, <1>10 DEF IInv, Headed, k
<1>13. Stale'
  BY <1>8, <1>10 DEF IInv, Stale
<1>14. SlabsOf(z)
  BY <1>6, <1>8, <1>9, <1>10 DEF Slabs, SlabsOf
<1>15. \A S : /\ Slabs(z, S)' = Slabs(z, S) \cup (IF n - 1 \in S THEN {p} ELSE {})
              /\ p \notin Slabs(z, S)
  BY <1>1, <1>6, <1>8, <1>9, <1>10 DEF Slabs
<1>16. /\ Slabs(z, {n})' = Slabs(z, {n}) \cup (IF n - 1 \in {n} THEN {p} ELSE {})
       /\ Slabs(z, {0})' = Slabs(z, {0}) \cup (IF n - 1 \in {0} THEN {p} ELSE {})
       /\ Slabs(z, 1 .. (n - 1))' = Slabs(z, 1 .. (n - 1))
                                   \cup (IF n - 1 \in 1 .. (n - 1) THEN {p} ELSE {})
       /\ p \notin Slabs(z, 1 .. (n - 1))
  BY <1>15
<1>17. n - 1 \in 1 .. (n - 1) /\ n - 1 \notin {n} /\ n - 1 \notin {0}
  BY <1>3
<1>18. /\ Slabs(z, {n})' = Slabs(z, {n}) /\ Slabs(z, {0})' = Slabs(z, {0})
       /\ Slabs(z, 1 .. (n - 1))' = Slabs(z, 1 .. (n - 1)) \cup {p}
  BY <1>16, <1>17
<1>19. /\ partial \in [Zones -> Seq(Pages)] /\ empty \in [Zones -> Seq(Pages)]
       /\ full \in [Zones -> Seq(Pages)]
       /\ ListsOnce(empty[z], Slabs(z, {n})) /\ ListsOnce(full[z], Slabs(z, {0}))
       /\ ListsOnce(partial[z], Slabs(z, 1 .. (n - 1)))
  BY ListFacts DEF n
<1>20. /\ partial' \in [Zones -> Seq(Pages)]
       /\ ListsOnce(partial'[z], Slabs(z, 1 .. (n - 1)) \cup {p})
       /\ \A y \in Zones \ {z} : partial'[y] = partial[y]
  <2>1. PICK T, f, r : T = Slabs(z, 1 .. (n - 1)) /\ f = partial /\ r = partial'
    OBVIOUS
  <2>2. /\ f \in [Zones -> Seq(Pages)] /\ ListsOnce(f[z], T) /\ p \notin T /\ p \in Pages
        /\ r = [f EXCEPT ![z] = lst_push_front(@, p)]
    BY <1>1, <1>16, <1>19, <2>1
  <2>3. /\ r \in [Zones -> Seq(Pages)] /\ ListsOnce(r[z], T \cup {p})
        /\ \A y \in Zones \ {z} : r[y] = f[y]
    BY <2>2, IntoList
  <2> QED BY <2>1, <2>3
<1>21. Listed'
  <2>1. /\ ListsOnce(empty'[z], Slabs(z, {n})')
         /\ ListsOnce(partial'[z], Slabs(z, 1 .. (n - 1))')
         /\ ListsOnce(full'[z], Slabs(z, {0})')
    BY <1>2, <1>18, <1>19, <1>20
  <2>2. ListsOf(z)
    BY <1>2, <1>18, <1>19, <1>20 DEF ListsOf
  <2> QED BY <1>14, <2>1, <2>2, ListedAgain DEF n
<1>22. ListsTyped'
  BY <1>2, <1>19, <1>20 DEF ListsTyped
<1>23. LiveMarked'
  <2>1. \A q \in DOMAIN held : Marked(q)' = Marked(q)
    BY <1>8, <1>9, <1>10 DEF Marked
  <2>2. Marked(p)' = {Object(z, p, i)}
    BY <1>6, <1>10 DEF Marked
  <2> QED BY <1>6, <1>8, <2>1, <2>2 DEF IInv, LiveMarked
<1>24. \A o \in live : Cache!Bytes(Object(z, p, i)) \cap Cache!Bytes(o) = {}
  <2> TAKE o \in live
  <2>1. PICK q \in DOMAIN held : \E j \in header[q].bits : o = Object(header[q].zone, q, j)
    BY DEF IInv, LiveMarked, Marked
  <2>2. PICK j \in header[q].bits : o = Object(header[q].zone, q, j)
    BY <2>1
  <2>3. /\ j \in Slots(header[q].zone) /\ q \in Nat /\ header[q].zone \in Zones
        /\ held[q] = SlabPages(header[q].zone)
    BY <2>2, SlabFacts DEF IInv, Headed
  <2>4. Area!Extent(p, k) \cap Area!Extent(q, SlabPages(header[q].zone)) = {}
    BY <1>7, <2>3
  <2> QED BY <1>3, <1>4, <2>2, <2>3, <2>4, ObjectsApart DEF i, k
<1>25. Handed(Object(z, p, i))
  BY <1>1, <1>4, <1>6, <1>7, <1>24, ObjectInMemory DEF Handed, i, k
<1>26. Calls'
  BY <1>2, CallEnds
<1> QED BY <1>11, <1>12, <1>13, <1>21, <1>22, <1>23, <1>25, <1>26 DEF IInv

(* The slabs that are recalled are those without an object in use. *)
LEMMA RecalledEmpty ==
  ASSUME IInv
  PROVE  /\ Recalled = {p \in DOMAIN held : header[p].free = ObjCount(header[p].zone)}
         /\ \A p \in Recalled : Marked(p) = {}
<1>1. \A z \in Zones : {empty[z][k] : k \in 1 .. Len(empty[z])} = Slabs(z, {ObjCount(z)})
  BY DEF IInv, Listed, ListsOnce
<1>2. \A p : p \in Recalled <=> \E z \in Zones : p \in Slabs(z, {ObjCount(z)})
  <2> TAKE p
  <2>1. p \in Recalled <=> \E z \in Zones : p \in {empty[z][k] : k \in 1 .. Len(empty[z])}
    BY DEF Recalled
  <2> QED BY <1>1, <2>1
<1>3. \A p \in DOMAIN held : header[p].zone \in Zones
  BY SlabFacts
<1>4. Recalled = {p \in DOMAIN held : header[p].free = ObjCount(header[p].zone)}
  BY <1>2, <1>3 DEF Slabs
<1>5. ASSUME NEW p \in Recalled PROVE Marked(p) = {}
  <2>1. p \in DOMAIN held /\ header[p].free = ObjCount(header[p].zone)
    BY <1>4
  <2>2. /\ header[p] \in Headers /\ header[p].zone \in Zones
        /\ header[p].bits \subseteq Slots(header[p].zone)
        /\ header[p].free + Cardinality(header[p].bits) = ObjCount(header[p].zone)
    BY <2>1, SlabFacts DEF Sound
  <2>3. /\ IsFiniteSet(header[p].bits) /\ Cardinality(header[p].bits) \in Nat
        /\ header[p].free \in Nat
    BY <2>2, BitsFinite
  <2>4. Cardinality(header[p].bits) = 0
    BY <2>1, <2>2, <2>3
  <2>5. header[p].bits = {}
    BY <2>3, <2>4, FS_EmptySet
  <2> QED BY <2>5 DEF Marked
<1> QED BY <1>4, <1>5

(* The empty slabs go back to the area, their headers stay behind. *)
LEMMA RecallIInv ==
  ASSUME IInv, NEW z \in Zones, Recall(z)
  PROVE  IInv' /\ live' = live
<1>1. /\ held' = [p \in DOMAIN held \ Recalled |-> held[p]]
      /\ empty' = [y \in Zones |-> lst_new]
      /\ recalling' = z /\ header' = header /\ partial' = partial /\ full' = full
      /\ live' = live /\ refused' = refused /\ partial[z] = <<>>
  BY DEF Recall, NoneLeft, lst_empty
<1>2. /\ DOMAIN held' = DOMAIN held \ Recalled
      /\ \A p \in DOMAIN held' : held'[p] = held[p] /\ p \in DOMAIN held
  BY <1>1
<1>3. Runs'
  BY <1>2 DEF IInv, Runs, Area!Disjoint, Area!Extent
<1>4. Headed'
  BY <1>1, <1>2 DEF IInv, Headed
<1>5. Stale'
  <2> SUFFICES ASSUME NEW p \in Pages, p \notin DOMAIN held', header[p].label
               PROVE /\ header[p].zone \in Zones
                     /\ header[p].free = ObjCount(header[p].zone)
    BY <1>1 DEF Stale
  <2>1. CASE p \in DOMAIN held
    <3>1. p \in Recalled
      BY <1>2, <2>1
    <3> QED BY <2>1, <3>1, RecalledEmpty, SlabFacts
  <2>2. CASE p \notin DOMAIN held
    BY <2>2 DEF IInv, Stale
  <2> QED BY <2>1, <2>2
<1>6. <<>> \in Seq(Pages)
  OBVIOUS
<1>7. ListsTyped'
  BY <1>1, <1>6 DEF IInv, ListsTyped, lst_new
<1>8. Listed'
  <2> SUFFICES ASSUME NEW y \in Zones
               PROVE /\ ListsOnce(empty'[y], Slabs(y, {ObjCount(y)})')
                     /\ ListsOnce(partial'[y], Slabs(y, 1 .. (ObjCount(y) - 1))')
                     /\ ListsOnce(full'[y], Slabs(y, {0})')
    BY DEF Listed
  <2>1. ObjCount(y) \in Nat /\ ObjCount(y) >= 2
    BY ZoneFacts, SizeAssumption
  <2>2. \A S : ObjCount(y) \notin S => Slabs(y, S)' = Slabs(y, S)
    BY <1>1, <1>2, RecalledEmpty DEF Slabs
  <2>3. Slabs(y, {ObjCount(y)})' = {}
    BY <1>1, <1>2, RecalledEmpty DEF Slabs
  <2>4. ObjCount(y) \notin 1 .. (ObjCount(y) - 1) /\ ObjCount(y) \notin {0}
    BY <2>1
  <2>5. /\ Slabs(y, 1 .. (ObjCount(y) - 1))' = Slabs(y, 1 .. (ObjCount(y) - 1))
        /\ Slabs(y, {0})' = Slabs(y, {0})
    BY <2>2, <2>4
  <2>6. /\ ListsOnce(partial[y], Slabs(y, 1 .. (ObjCount(y) - 1)))
        /\ ListsOnce(full[y], Slabs(y, {0}))
    BY ListFacts
  <2>7. empty'[y] = lst_new
    BY <1>1
  <2> QED BY <1>1, <2>3, <2>5, <2>6, <2>7, NewOnce
<1>9. LiveMarked'
  <2>1. \A p \in DOMAIN held : Marked(p)' = Marked(p)
    BY <1>1 DEF Marked
  <2>2. live = UNION {Marked(p) : p \in DOMAIN held}
    BY DEF IInv, LiveMarked
  <2>3. \A p \in Recalled : Marked(p) = {}
    BY RecalledEmpty
  <2>4. UNION {Marked(p) : p \in DOMAIN held} = UNION {Marked(p) : p \in DOMAIN held \ Recalled}
    BY <2>3
  <2>5. live = UNION {Marked(p)' : p \in DOMAIN held \ Recalled}
    BY <2>1, <2>2, <2>4
  <2> QED BY <1>1, <1>2, <2>5 DEF LiveMarked
<1>10. Calls'
  <2>1. \A y \in Zones : lst_empty(empty'[y])
    BY <1>1 DEF lst_empty, lst_new
  <2> QED BY <1>1, <2>1 DEF IInv, Calls, Nothing, lst_empty
<1> QED BY <1>1, <1>3, <1>4, <1>5, <1>7, <1>8, <1>9, <1>10 DEF IInv

(* What a step that touches no slab keeps. *)
LEMMA SlabsStay ==
  ASSUME IInv, UNCHANGED <<held, header, lists, live>>
  PROVE  Runs' /\ Headed' /\ Stale' /\ ListsTyped' /\ Listed' /\ LiveMarked'
<1>1. Runs' /\ Headed' /\ Stale'
  BY DEF IInv, Runs, Area!Disjoint, Area!Extent, Headed, Stale
<1>2. ListsTyped'
  BY DEF IInv, ListsTyped, lists
<1>3. \A z, S : Slabs(z, S)' = Slabs(z, S)
  BY DEF Slabs
<1>4. Listed'
  BY <1>3 DEF IInv, Listed, lists
<1>5. \A p \in DOMAIN held : Marked(p)' = Marked(p)
  BY DEF Marked
<1>6. LiveMarked'
  BY <1>5 DEF IInv, LiveMarked
<1> QED BY <1>1, <1>2, <1>4, <1>6

(* The area refuses after a recall. *)
LEMMA AllocFailIInv ==
  ASSUME IInv, NEW z \in Zones, AllocFail(z)
  PROVE  IInv' /\ live' = live
<1>1. /\ UNCHANGED <<held, header, lists, live>> /\ recalling = z /\ recalling' = None
      /\ refused' = [op |-> "alloc", zone |-> z, at |-> NoSlab]
  BY DEF AllocFail
<1>2. z # None
  BY SizeAssumption
<1>3. Nothing(z)
  BY <1>1, <1>2 DEF IInv, Calls
<1>4. Nothing(z)'
  BY <1>1, <1>3 DEF Nothing, lists
<1>5. Calls'
  BY <1>1, <1>4 DEF Calls
<1> QED BY <1>1, <1>5, SlabsStay DEF IInv

(* An object that no slab takes back. *)
LEMMA FreeRejectIInv ==
  ASSUME IInv, NEW z \in Zones, NEW o \in Objects(z), FreeReject(o)
  PROVE  IInv' /\ live' = live
<1>1. /\ UNCHANGED <<held, header, lists, live>> /\ recalling = None /\ recalling' = None
      /\ refused' = [op |-> "free", zone |-> o.zone, at |-> o.at]
  BY DEF FreeReject, Idle
<1>2. PICK p \in DOMAIN held : \E i \in Slots(z) : header[p].zone = z /\ o = Object(z, p, i)
  BY DEF Objects, Slots
<1>3. o \in [zone : Zones, at : Memory]
  BY <1>2, SlabFacts, ObjectInMemory
<1>4. Calls'
  BY <1>1, <1>3 DEF Calls
<1> QED BY <1>1, <1>4, SlabsStay DEF IInv

(* Within a slab in use no other page starts one. *)
LEMMA OneSlabPerPage ==
  ASSUME IInv, NEW p \in DOMAIN held, NEW q \in DOMAIN held,
         q \in Area!Extent(p, SlabPages(header[p].zone))
  PROVE  p = q
<1>1. /\ q \in Nat /\ SlabPages(header[q].zone) \in Nat \ {0}
  BY SlabFacts, ZoneFacts
<1>2. q \in Area!Extent(q, SlabPages(header[q].zone))
  BY <1>1 DEF Area!Extent
<1> QED BY <1>2, SlabsApart

(* A header that takes an object back is that of the object's slab, however *)
(* many were left behind between the two; and the slot is the object's.     *)
LEMMA FindsSlab ==
  ASSUME IInv, NEW p \in DOMAIN held, NEW z \in Zones, header[p].zone = z, NEW i \in Slots(z),
         NEW o, o = Object(z, p, i), TakesBack(CacheOf(o.at), o.at)
  PROVE  CacheOf(o.at) = p /\ IndexIn(p, o.at) = i /\ i \in header[p].bits
<1> DEFINE last == o.at \div PageSize
           labelled == {q \in Pages : last - MaxPg < q /\ q <= last /\ header[q].label}
           c == CacheOf(o.at)
           k == SlabPages(z)
<1>1. /\ p \in Pages /\ p \in Nat /\ header[p].label
      /\ k \in Nat \ {0} /\ k < MaxPg /\ MaxPg \in Nat
  BY SlabFacts, ZoneFacts, SizeAssumption DEF Sound
<1>2. last \in p .. p + k - 1
  BY <1>1, ObjectPage
<1>3. c = IF labelled = {} THEN NoSlab ELSE CHOOSE q \in labelled : \A r \in labelled : r <= q
  BY DEF CacheOf
<1> HIDE DEF last, k
<1>4. last \in Nat /\ p <= last /\ last - MaxPg < p
  BY <1>1, <1>2
<1>5. p \in labelled
  BY <1>1, <1>4
<1>6. labelled \in SUBSET Nat /\ \A q \in labelled : q <= last
  BY PagesNat
<1>7. \E q \in labelled : \A r \in labelled : r <= q
  <2> HIDE DEF labelled
  <2>1. labelled # {}
    BY <1>5
  <2> QED BY <1>4, <1>6, <2>1, GreatestElement
<1>8. c \in labelled /\ \A r \in labelled : r <= c
  BY <1>3, <1>5, <1>7
<1> HIDE DEF c
<1>9. /\ c \in Pages /\ c \in Nat /\ p <= c /\ c <= last /\ header[c].label
  BY <1>5, <1>8, PagesNat
<1>10. c \in Area!Extent(p, k)
  BY <1>1, <1>2, <1>9 DEF Area!Extent
<1>11. c \in DOMAIN held
  <2>1. header[c].free < ObjCount(header[c].zone)
    BY DEF TakesBack, c
  <2> SUFFICES ASSUME c \notin DOMAIN held PROVE FALSE
    OBVIOUS
  <2>2. /\ header[c].zone \in Zones /\ header[c].free = ObjCount(header[c].zone)
    BY <1>9 DEF IInv, Stale
  <2>3. ObjCount(header[c].zone) \in Nat
    BY <2>2, ListFacts
  <2> QED BY <2>1, <2>2, <2>3
<1>12. c = p
  BY <1>10, <1>11, OneSlabPerPage DEF k
<1>13. IndexIn(p, o.at) = i
  BY <1>1, IndexOfSlot DEF IndexIn
<1>14. i \in header[p].bits
  BY <1>12, <1>13 DEF TakesBack, c
<1> QED BY <1>12, <1>13, <1>14 DEF c

(* Only the slab's own bit says that the object is held. *)
LEMMA LiveExactly ==
  ASSUME IInv, NEW p \in DOMAIN held, NEW i \in header[p].bits,
         NEW o, o = Object(header[p].zone, p, i)
  PROVE  /\ o \in live
         /\ \A q \in DOMAIN held \ {p} : o \notin Marked(q)
         /\ Marked(p) \ {o} = {Object(header[p].zone, p, j) : j \in header[p].bits \ {i}}
<1>1. o \in live
  BY DEF IInv, LiveMarked, Marked
<1>2. i \in Slots(header[p].zone)
  BY SlabFacts
<1>3. ASSUME NEW q \in DOMAIN held, NEW j \in header[q].bits, p # q \/ i # j
      PROVE  o # Object(header[q].zone, q, j)
  BY <1>2, <1>3, SlabFacts, HeldApart
<1>4. \A q \in DOMAIN held \ {p} : o \notin Marked(q)
  BY <1>3 DEF Marked
<1>5. Marked(p) \ {o} = {Object(header[p].zone, p, j) : j \in header[p].bits \ {i}}
  BY <1>3 DEF Marked
<1> QED BY <1>1, <1>4, <1>5

(* An object goes back to its slab, and the slab to the list it belongs in. *)
LEMMA FreeIInv ==
  ASSUME IInv, NEW z \in Zones, NEW o \in Objects(z), Free(o)
  PROVE  IInv' /\ o \in live /\ live' = live \ {o}
<1> DEFINE n == ObjCount(z)
<1>1. PICK p \in DOMAIN held : \E i \in Slots(z) : header[p].zone = z /\ o = Object(z, p, i)
  BY DEF Objects, Slots
<1>2. PICK i \in Slots(z) : header[p].zone = z /\ o = Object(z, p, i)
  BY <1>1
<1>3. CacheOf(o.at) = p /\ IndexIn(p, o.at) = i /\ i \in header[p].bits
  <2>1. TakesBack(CacheOf(o.at), o.at)
    BY DEF Free
  <2> QED BY <1>2, <2>1, FindsSlab
<1>4. p \in Pages /\ header \in [Pages -> Headers] /\ Sound(header[p]) /\ DOMAIN held \subseteq Pages
  BY SlabFacts DEF IInv, Headed, Runs
<1>5. o.zone = z
  BY <1>2 DEF Object
<1>6. /\ header' = [header EXCEPT ![p].free = @ + 1, ![p].bits = @ \ {i}]
      /\ live' = live \ {o} /\ refused' = NoCall /\ held' = held /\ recalling' = None
      /\ \/ /\ header'[p].free = n
            /\ partial' = [partial EXCEPT ![z] = lst_remove(@, p)]
            /\ empty' = [empty EXCEPT ![z] = lst_push_front(@, p)]
            /\ full' = full
         \/ /\ header[p].free = 0
            /\ full' = [full EXCEPT ![z] = lst_remove(@, p)]
            /\ partial' = [partial EXCEPT ![z] = lst_push_front(@, p)]
            /\ empty' = empty
         \/ /\ header[p].free > 0 /\ header'[p].free < n
            /\ UNCHANGED lists
  BY <1>3, <1>5 DEF Free, Idle
<1>7. PICK g : g = [header[p] EXCEPT !.free = @ + 1, !.bits = @ \ {i}]
  OBVIOUS
<1>8. header' = [header EXCEPT ![p] = g]
  BY <1>4, <1>6, <1>7
<1>9. /\ Sound(g) /\ g.zone = z /\ g.free = header[p].free + 1 /\ g.bits = header[p].bits \ {i}
      /\ header[p].free < n
  <2>1. PICK h : h = header[p]
    OBVIOUS
  <2>2. Sound(h) /\ i \in h.bits /\ g = [h EXCEPT !.free = @ + 1, !.bits = @ \ {i}]
    BY <1>3, <1>4, <1>7, <2>1
  <2>3. /\ Sound(g) /\ g.zone = h.zone /\ g.free = h.free + 1 /\ g.bits = h.bits \ {i}
        /\ h.free < ObjCount(h.zone)
    BY <2>2, ReturnFits
  <2> QED BY <1>2, <2>1, <2>3
<1>10. /\ Runs' /\ Headed' /\ Stale' /\ header'[p] = g
       /\ \A q \in Pages \ {p} : header'[q] = header[q]
       /\ SlabsOf(z) /\ Refiled(z, p, g.free)
  <2>1. /\ held' = held /\ header[p].zone = z /\ Sound(g) /\ g.zone = z
        /\ header' = [header EXCEPT ![p] = g]
    BY <1>2, <1>6, <1>8, <1>9
  <2> QED BY <2>1, OneChanges
<1>11. /\ n \in Nat /\ n >= 2 /\ header[p].free \in 0 .. n
  BY <1>2, ListFacts, SlabFacts
<1>12. /\ empty \in [Zones -> Seq(Pages)] /\ partial \in [Zones -> Seq(Pages)]
       /\ full \in [Zones -> Seq(Pages)]
       /\ ListsOnce(empty[z], Slabs(z, {n})) /\ ListsOnce(full[z], Slabs(z, {0}))
       /\ ListsOnce(partial[z], Slabs(z, 1 .. (n - 1)))
  BY ListFacts
<1> HIDE DEF n
<1>13. \A S : p \in Slabs(z, S) <=> header[p].free \in S
  BY <1>2 DEF Slabs
<1>14. /\ Slabs(z, {n})' = (Slabs(z, {n}) \ {p}) \cup (IF g.free \in {n} THEN {p} ELSE {})
       /\ Slabs(z, {0})' = (Slabs(z, {0}) \ {p}) \cup (IF g.free \in {0} THEN {p} ELSE {})
       /\ Slabs(z, 1 .. (n - 1))' = (Slabs(z, 1 .. (n - 1)) \ {p})
                                   \cup (IF g.free \in 1 .. (n - 1) THEN {p} ELSE {})
       /\ p \in Slabs(z, {n}) <=> header[p].free \in {n}
       /\ p \in Slabs(z, {0}) <=> header[p].free \in {0}
       /\ p \in Slabs(z, 1 .. (n - 1)) <=> header[p].free \in 1 .. (n - 1)
  BY <1>10, <1>13 DEF Refiled
<1>15. ListsTyped' /\ Listed'
  <2>1. CASE /\ header'[p].free = n
             /\ partial' = [partial EXCEPT ![z] = lst_remove(@, p)]
             /\ empty' = [empty EXCEPT ![z] = lst_push_front(@, p)]
             /\ full' = full
    <3>1. header[p].free = n - 1
      BY <1>9, <1>10, <1>11, <2>1
    <3>2. /\ g.free \in {n} /\ g.free \notin {0} /\ g.free \notin 1 .. (n - 1)
          /\ header[p].free \in 1 .. (n - 1) /\ header[p].free \notin {0, n}
      BY <1>9, <1>11, <3>1
    <3>3. /\ Slabs(z, {n})' = Slabs(z, {n}) \cup {p} /\ p \notin Slabs(z, {n})
          /\ Slabs(z, {0})' = Slabs(z, {0})
          /\ Slabs(z, 1 .. (n - 1))' = Slabs(z, 1 .. (n - 1)) \ {p}
          /\ p \in Slabs(z, 1 .. (n - 1))
      BY <1>14, <3>2
    <3>4. /\ partial' \in [Zones -> Seq(Pages)]
          /\ ListsOnce(partial'[z], Slabs(z, 1 .. (n - 1)) \ {p})
          /\ \A y \in Zones \ {z} : partial'[y] = partial[y]
      <4>1. PICK T, f, r : T = Slabs(z, 1 .. (n - 1)) /\ f = partial /\ r = partial'
        OBVIOUS
      <4>2. /\ f \in [Zones -> Seq(Pages)] /\ ListsOnce(f[z], T) /\ p \in T
            /\ r = [f EXCEPT ![z] = lst_remove(@, p)]
        BY <1>12, <2>1, <3>3, <4>1
      <4>3. /\ r \in [Zones -> Seq(Pages)] /\ ListsOnce(r[z], T \ {p})
            /\ \A y \in Zones \ {z} : r[y] = f[y]
        BY <4>2, OutOfList
      <4> QED BY <4>1, <4>3
    <3>5. /\ empty' \in [Zones -> Seq(Pages)]
          /\ ListsOnce(empty'[z], Slabs(z, {n}) \cup {p})
          /\ \A y \in Zones \ {z} : empty'[y] = empty[y]
      <4>1. PICK T, f, r : T = Slabs(z, {n}) /\ f = empty /\ r = empty'
        OBVIOUS
      <4>2. /\ f \in [Zones -> Seq(Pages)] /\ ListsOnce(f[z], T) /\ p \notin T /\ p \in Pages
            /\ r = [f EXCEPT ![z] = lst_push_front(@, p)]
        BY <1>4, <1>12, <2>1, <3>3, <4>1
      <4>3. /\ r \in [Zones -> Seq(Pages)] /\ ListsOnce(r[z], T \cup {p})
            /\ \A y \in Zones \ {z} : r[y] = f[y]
        BY <4>2, IntoList
      <4> QED BY <4>1, <4>3
    <3>6. Listed'
      <4>1. /\ ListsOnce(empty'[z], Slabs(z, {n})')
             /\ ListsOnce(partial'[z], Slabs(z, 1 .. (n - 1))')
             /\ ListsOnce(full'[z], Slabs(z, {0})')
        BY <1>12, <2>1, <3>3, <3>4, <3>5
      <4>2. ListsOf(z)
        BY <1>12, <2>1, <3>3, <3>4, <3>5 DEF ListsOf
      <4> QED BY <1>10, <4>1, <4>2, ListedAgain DEF n
    <3> QED BY <1>12, <2>1, <3>4, <3>5, <3>6 DEF ListsTyped
  <2>2. CASE /\ header[p].free = 0
             /\ full' = [full EXCEPT ![z] = lst_remove(@, p)]
             /\ partial' = [partial EXCEPT ![z] = lst_push_front(@, p)]
             /\ empty' = empty
    <3>2. /\ g.free \in 1 .. (n - 1) /\ g.free \notin {0} /\ g.free \notin {n}
          /\ header[p].free \notin 1 .. (n - 1) /\ header[p].free \in {0} /\ header[p].free \notin {n}
      BY <1>9, <1>11, <2>2
    <3>3. /\ Slabs(z, {n})' = Slabs(z, {n})
          /\ Slabs(z, {0})' = Slabs(z, {0}) \ {p} /\ p \in Slabs(z, {0})
          /\ Slabs(z, 1 .. (n - 1))' = Slabs(z, 1 .. (n - 1)) \cup {p}
          /\ p \notin Slabs(z, 1 .. (n - 1))
      BY <1>14, <3>2
    <3>4. /\ full' \in [Zones -> Seq(Pages)]
          /\ ListsOnce(full'[z], Slabs(z, {0}) \ {p})
          /\ \A y \in Zones \ {z} : full'[y] = full[y]
      <4>1. PICK T, f, r : T = Slabs(z, {0}) /\ f = full /\ r = full'
        OBVIOUS
      <4>2. /\ f \in [Zones -> Seq(Pages)] /\ ListsOnce(f[z], T) /\ p \in T
            /\ r = [f EXCEPT ![z] = lst_remove(@, p)]
        BY <1>12, <2>2, <3>3, <4>1
      <4>3. /\ r \in [Zones -> Seq(Pages)] /\ ListsOnce(r[z], T \ {p})
            /\ \A y \in Zones \ {z} : r[y] = f[y]
        BY <4>2, OutOfList
      <4> QED BY <4>1, <4>3
    <3>5. /\ partial' \in [Zones -> Seq(Pages)]
          /\ ListsOnce(partial'[z], Slabs(z, 1 .. (n - 1)) \cup {p})
          /\ \A y \in Zones \ {z} : partial'[y] = partial[y]
      <4>1. PICK T, f, r : T = Slabs(z, 1 .. (n - 1)) /\ f = partial /\ r = partial'
        OBVIOUS
      <4>2. /\ f \in [Zones -> Seq(Pages)] /\ ListsOnce(f[z], T) /\ p \notin T /\ p \in Pages
            /\ r = [f EXCEPT ![z] = lst_push_front(@, p)]
        BY <1>4, <1>12, <2>2, <3>3, <4>1
      <4>3. /\ r \in [Zones -> Seq(Pages)] /\ ListsOnce(r[z], T \cup {p})
            /\ \A y \in Zones \ {z} : r[y] = f[y]
        BY <4>2, IntoList
      <4> QED BY <4>1, <4>3
    <3>6. Listed'
      <4>1. /\ ListsOnce(empty'[z], Slabs(z, {n})')
             /\ ListsOnce(partial'[z], Slabs(z, 1 .. (n - 1))')
             /\ ListsOnce(full'[z], Slabs(z, {0})')
        BY <1>12, <2>2, <3>3, <3>4, <3>5
      <4>2. ListsOf(z)
        BY <1>12, <2>2, <3>3, <3>4, <3>5 DEF ListsOf
      <4> QED BY <1>10, <4>1, <4>2, ListedAgain DEF n
    <3> QED BY <1>12, <2>2, <3>4, <3>5, <3>6 DEF ListsTyped
  <2>3. CASE header[p].free > 0 /\ header'[p].free < n /\ UNCHANGED lists
    <3>1. /\ g.free \in 1 .. (n - 1) /\ g.free \notin {0} /\ g.free \notin {n}
          /\ header[p].free \in 1 .. (n - 1) /\ header[p].free \notin {0, n}
      BY <1>9, <1>10, <1>11, <2>3
    <3>2. /\ Slabs(z, {n})' = Slabs(z, {n}) /\ Slabs(z, {0})' = Slabs(z, {0})
          /\ Slabs(z, 1 .. (n - 1))' = Slabs(z, 1 .. (n - 1))
      BY <1>14, <3>1
    <3>3. empty' = empty /\ partial' = partial /\ full' = full
      BY <2>3 DEF lists
    <3>4. Listed'
      <4>1. /\ ListsOnce(empty'[z], Slabs(z, {n})')
             /\ ListsOnce(partial'[z], Slabs(z, 1 .. (n - 1))')
             /\ ListsOnce(full'[z], Slabs(z, {0})')
        BY <1>12, <3>2, <3>3
      <4>2. ListsOf(z)
        BY <1>12, <3>2, <3>3 DEF ListsOf
      <4> QED BY <1>10, <4>1, <4>2, ListedAgain DEF n
    <3> QED BY <1>12, <3>3, <3>4 DEF ListsTyped
  <2> QED BY <1>6, <2>1, <2>2, <2>3
<1>16. /\ o \in live /\ \A q \in DOMAIN held \ {p} : o \notin Marked(q)
       /\ Marked(p) \ {o} = {Object(z, p, j) : j \in header[p].bits \ {i}}
  BY <1>2, <1>3, LiveExactly
<1>17. LiveMarked'
  <2>1. \A q \in DOMAIN held \ {p} : Marked(q)' = Marked(q)
    BY <1>4, <1>10 DEF Marked
  <2>2. Marked(p)' = Marked(p) \ {o}
    BY <1>9, <1>10, <1>16 DEF Marked
  <2>3. live \ {o} = UNION {Marked(q)' : q \in DOMAIN held}
    BY <1>16, <2>1, <2>2 DEF IInv, LiveMarked
  <2> QED BY <1>6, <2>3 DEF LiveMarked
<1>18. Calls'
  BY <1>6, CallEnds
<1> QED BY <1>6, <1>10, <1>15, <1>16, <1>17, <1>18 DEF IInv

(* A write to an object covers the start of no slab in use. *)
LEMMA WriteIInv ==
  ASSUME IInv, NEW o \in live, Write(o)
  PROVE  IInv' /\ live' = live
<1> DEFINE over == {p \in Pages : p * PageSize \in o.at .. (o.at + ObjSize[o.zone] - 1)}
<1>1. /\ header' = [p \in Pages |-> IF p \in over THEN NoHeader ELSE header[p]]
      /\ UNCHANGED <<held, lists, recalling, live, refused>>
  BY DEF Write
<1>2. PICK q \in DOMAIN held : \E i \in header[q].bits : o = Object(header[q].zone, q, i)
  BY DEF IInv, LiveMarked, Marked
<1>3. PICK i \in header[q].bits : o = Object(header[q].zone, q, i)
  BY <1>2
<1> DEFINE z == header[q].zone
           k == SlabPages(z)
<1>4. /\ q \in Nat /\ z \in Zones /\ i \in Slots(z)
  BY <1>3, SlabFacts
<1>5. /\ o.at \in Nat /\ o.zone = z /\ q * PageSize \in Nat /\ (q + k) * PageSize \in Nat
      /\ q * PageSize + HeaderSize <= o.at /\ o.at + ObjSize[z] <= (q + k) * PageSize
      /\ HeaderSize \in Nat \ {0} /\ PageSize \in Nat \ {0} /\ k \in Nat /\ ObjSize[z] \in Nat \ {0}
  BY <1>3, <1>4, ObjectWithin, ZoneFacts, SizeAssumption
<1>6. ASSUME NEW p \in over PROVE p \notin DOMAIN held
  <2>1. p \in Nat /\ p * PageSize \in o.at .. (o.at + ObjSize[z] - 1)
    BY <1>5, PagesNat
  <2> HIDE DEF over, z, k
  <2>2. p * PageSize \in Nat /\ q * PageSize < p * PageSize /\ p * PageSize < (q + k) * PageSize
    BY <1>5, <2>1
  <2>3. q < p /\ p < q + k
    BY <1>4, <1>5, <2>1, <2>2, TimesStrict
  <2>4. p \in Area!Extent(q, k)
    BY <1>4, <1>5, <2>1, <2>3 DEF Area!Extent
  <2>5. p # q
    BY <1>4, <2>1, <2>3
  <2> QED BY <2>4, <2>5, OneSlabPerPage DEF z, k
<1> HIDE DEF over, z, k
<1>7. DOMAIN held \subseteq Pages /\ header \in [Pages -> Headers]
  BY DEF IInv, Runs, Headed
<1>8. \A p \in DOMAIN held : header'[p] = header[p]
  BY <1>1, <1>6, <1>7
<1>9. NoHeader \in Headers /\ ~NoHeader.label
  BY SizeAssumption DEF NoHeader, Headers
<1>10. Runs'
  BY <1>1 DEF IInv, Runs, Area!Disjoint, Area!Extent
<1>11. Headed'
  BY <1>1, <1>7, <1>8, <1>9 DEF IInv, Headed
<1>12. Stale'
  BY <1>1, <1>9 DEF IInv, Stale
<1>13. ListsTyped'
  BY <1>1 DEF IInv, ListsTyped, lists
<1>14. \A y, S : Slabs(y, S)' = Slabs(y, S)
  BY <1>1, <1>8 DEF Slabs
<1>15. Listed'
  BY <1>1, <1>14 DEF IInv, Listed, lists
<1>16. \A p \in DOMAIN held : Marked(p)' = Marked(p)
  BY <1>8 DEF Marked
<1>17. LiveMarked'
  BY <1>1, <1>16 DEF IInv, LiveMarked
<1>18. Calls'
  BY <1>1 DEF IInv, Calls, Nothing, lists
<1> QED BY <1>1, <1>10, <1>11, <1>12, <1>13, <1>15, <1>17, <1>18 DEF IInv

-------------------------------------------------------------------------------
(* What a step does to the objects held: it hands out one apart from all    *)
(* others, takes one back, or leaves them.                                  *)
Served == \/ \E o : Handed(o)
          \/ \E o \in live : live' = live \ {o}
          \/ live' = live

(* Every step keeps the invariant. *)
LEMMA NextIInv == (IInv /\ [Next]_vars) => (IInv' /\ Served)
<1> SUFFICES ASSUME IInv, [Next]_vars PROVE IInv' /\ Served
  OBVIOUS
<1>1. ASSUME NEW z \in Zones, AllocPartial(z) \/ AllocEmpty(z) \/ AllocNew(z)
      PROVE  IInv' /\ Served
  BY <1>1, AllocPartialIInv, AllocEmptyIInv, AllocNewIInv DEF Served
<1>2. ASSUME NEW z \in Zones, Recall(z) \/ AllocFail(z)
      PROVE  IInv' /\ Served
  BY <1>2, RecallIInv, AllocFailIInv DEF Served
<1>3. ASSUME NEW z \in Zones, NEW o \in Objects(z), FreeReject(o)
      PROVE  IInv' /\ Served
  BY <1>3, FreeRejectIInv DEF Served
<1>4. ASSUME NEW z \in Zones, NEW o \in Objects(z), Free(o)
      PROVE  IInv' /\ Served
  BY <1>4, FreeIInv DEF Served
<1>5. ASSUME NEW o \in live, Write(o)
      PROVE  IInv' /\ Served
  BY <1>5, WriteIInv DEF Served
<1>6. CASE UNCHANGED vars
  <2>1. /\ UNCHANGED <<held, header, lists, live>>
        /\ recalling' = recalling /\ refused' = refused
    BY <1>6 DEF vars
  <2>2. Calls'
    BY <2>1 DEF IInv, Calls, Nothing, lists
  <2> QED BY <2>1, <2>2, SlabsStay DEF IInv, Served
<1> QED BY <1>1, <1>2, <1>3, <1>4, <1>5, <1>6 DEF Next

(* The slabs, the headers, the lists and the objects held agree in every    *)
(* state that allocating, freeing, recalling and writing can reach.         *)
THEOREM Invariance == Spec => []IInv
<1>1. IInv /\ [Next]_vars => IInv'
  BY NextIInv
<1> QED BY InitIInv, <1>1, PTL DEF Spec

(* The invariant has the variables' types in it. *)
LEMMA IInvTyped == IInv => TypeOK
<1> SUFFICES ASSUME IInv PROVE TypeOK
  OBVIOUS
<1>1. live \subseteq [zone : Zones, at : Memory]
  <2> SUFFICES ASSUME NEW o \in live PROVE o \in [zone : Zones, at : Memory]
    OBVIOUS
  <2>1. PICK p \in DOMAIN held : \E i \in header[p].bits : o = Object(header[p].zone, p, i)
    BY DEF IInv, LiveMarked, Marked
  <2> QED BY <2>1, SlabFacts, ObjectInMemory
<1>2. header \in [Pages -> Headers]
  BY DEF IInv, Headed
<1> QED BY <1>1, <1>2 DEF IInv, Runs, ListsTyped, Calls, TypeOK, Headers

(* mm_cache_alloc, mm_cache_free and _mm_ztry_recall keep every slab in the *)
(* one list its free objects say, and its bits those of the objects that    *)
(* clients hold, for every area, page size and set of zones.                *)
THEOREM SlabsAlwaysExact == Spec => []SlabsExact
<1>1. IInv => SlabsExact
  <2> SUFFICES ASSUME IInv PROVE SlabsExact
    OBVIOUS
  <2>1. ASSUME NEW p \in DOMAIN held
        PROVE  /\ header[p].label
               /\ held[p] * PageSize = CacheSize(header[p].zone)
               /\ header[p].free + Cardinality(header[p].bits) = ObjCount(header[p].zone)
    <3>1. held[p] = SlabPages(header[p].zone)
      BY DEF IInv, Headed
    <3> QED BY <3>1, SlabFacts, ZoneFacts DEF Sound
  <2>2. live = UNION {{Object(header[p].zone, p, i) : i \in header[p].bits} : p \in DOMAIN held}
    BY DEF IInv, LiveMarked, Marked
  <2> QED BY <2>1, <2>2, IInvTyped DEF IInv, Listed, SlabsExact
<1> QED BY Invariance, <1>1, PTL

(* mm_cache_alloc returns NULL only when the zone has no slab with a free   *)
(* object and the recall has left no empty slab in any zone.                *)
THEOREM AlwaysFailsOnlyWhenFull == Spec => []FailsOnlyWhenFull
<1>1. IInv => FailsOnlyWhenFull
  BY DEF IInv, Calls, Nothing, FailsOnlyWhenFull
<1> QED BY Invariance, <1>1, PTL

(* What mm_cache_alloc returns is memory of the area over no object that a  *)
(* client of any zone holds, and mm_cache_free takes back the object it is  *)
(* given and no other: the caches are an ObjectCache.                       *)
THEOREM Refinement == Spec => ImplementsObjectCache
<1>1. Init => Cache!Init
  BY DEF Init, Cache!Init
<1>2. IInv /\ [Next]_vars => [Cache!Next]_live
  <2> SUFFICES ASSUME IInv, [Next]_vars PROVE [Cache!Next]_live
    OBVIOUS
  <2>1. Served
    BY NextIInv
  <2>2. ASSUME NEW o, Handed(o) PROVE Cache!Next
    <3>1. /\ o.zone \in Zones /\ o.at \in Memory /\ o = [zone |-> o.zone, at |-> o.at]
      BY <2>2 DEF Handed
    <3>2. Cache!Hand(o)
      BY <2>2 DEF Handed, Cache!Hand
    <3> QED BY <3>1, <3>2 DEF Cache!Next
  <2>3. ASSUME NEW o \in live, live' = live \ {o} PROVE Cache!Next
    BY <2>3 DEF Cache!Next, Cache!Free
  <2> QED BY <2>1, <2>2, <2>3 DEF Served
<1> QED BY <1>1, <1>2, Invariance, PTL DEF Spec, ImplementsObjectCache, Cache!Spec
===============================================================================
