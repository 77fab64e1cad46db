----------------------------- MODULE MmPoolProofs -----------------------------
(***************************************************************************)
(* Proofs about the buddy allocator for every block order and chunk: the   *)
(* blocks tile the chunk, each free one is described by one node in the    *)
(* list of its size, what is granted is in use until it is freed, and two  *)
(* buddies that are free are merged.                                       *)
(***************************************************************************)
EXTENDS MmPool, CommonLemmas, FiniteSetTheorems

(* The first largest block is not given back: the word before it, which     *)
(* _merge_buddy_prev takes for a tail, is not a tail.                       *)
KeepsFirst == \A a \in Freeable : a >= MaxSize

(* A split that ends finds a spare node even when all blocks are smallest.  *)
SpareNode == Chunk > 2 \/ FlnCount > Chunk

-------------------------------------------------------------------------------
(* The sizes of blocks, which are powers of two. *)
Sizes == {BlockSize(c) : c \in Classes}
Divides(s, a) == \E k \in Nat : a = k * s

LEMMA ClassFacts ==
  /\ MaxClass \in Nat /\ 0 \in Classes /\ MaxClass \in Classes
  /\ Classes \subseteq Nat
  /\ \A c \in Classes : c <= MaxClass
BY SizeAssumption DEF Classes

LEMMA SizeFacts ==
  /\ BlockSize(0) = 1
  /\ \A c \in Nat : BlockSize(c) \in Nat \ {0}
  /\ \A c \in Nat : BlockSize(c + 1) = 2 * BlockSize(c)
  /\ \A c, d \in Nat : c < d => 2 * BlockSize(c) <= BlockSize(d) /\ BlockSize(c) < BlockSize(d)
  /\ \A c, d \in Nat : BlockSize(c) = BlockSize(d) => c = d
  /\ \A c, d \in Nat : c <= d => BlockSize(c) <= BlockSize(d)
                                 /\ Divides(BlockSize(c), BlockSize(d))
<1>1. 2 \in Nat \ {0} /\ 2 \in Nat /\ 2 >= 2
  OBVIOUS
<1>2. BlockSize(0) = 1
  BY <1>1, PowerDef DEF BlockSize
<1>3. ASSUME NEW c \in Nat
      PROVE  BlockSize(c) \in Nat \ {0} /\ BlockSize(c + 1) = 2 * BlockSize(c)
  BY <1>1, PowerPositive, PowerDef DEF BlockSize
<1>4. ASSUME NEW c \in Nat, NEW d \in Nat, c < d
      PROVE  2 * BlockSize(c) <= BlockSize(d) /\ BlockSize(c) < BlockSize(d)
  BY <1>1, <1>4, PowerGrows DEF BlockSize
<1>5. ASSUME NEW c \in Nat, NEW d \in Nat, BlockSize(c) = BlockSize(d)
      PROVE  c = d
  BY <1>1, <1>5, PowerInjective DEF BlockSize
<1>6. ASSUME NEW c \in Nat, NEW d \in Nat, c <= d
      PROVE  BlockSize(c) <= BlockSize(d) /\ Divides(BlockSize(c), BlockSize(d))
  <2>1. BlockSize(c) <= BlockSize(d)
    <3>1. CASE c < d
      BY <1>3, <1>4, <3>1
    <3>2. CASE c = d
      BY <1>3, <3>2
    <3> QED BY <1>6, <3>1, <3>2
  <2>2. PICK k \in Nat \ {0} : BlockSize(d) = k * BlockSize(c)
    BY <1>1, <1>6, PowerDivides DEF BlockSize
  <2> QED BY <2>1, <2>2 DEF Divides
<1> QED BY <1>2, <1>3, <1>4, <1>5, <1>6

(* Half the size of a block that is not a smallest one is a size, and so is *)
(* twice the size of one that is not a largest.                             *)
LEMMA SizesOrder ==
  /\ Sizes \subseteq Nat \ {0} /\ MaxSize \in Sizes
  /\ \A s \in Sizes : s <= MaxSize /\ Divides(s, MaxSize)
  /\ \A s \in Sizes : s < MaxSize => 2 * s \in Sizes
<1>1. Sizes \subseteq Nat \ {0} /\ MaxSize \in Sizes
  BY SizeFacts, ClassFacts DEF Sizes, MaxSize
<1>2. ASSUME NEW s \in Sizes PROVE s <= MaxSize /\ Divides(s, MaxSize)
  BY SizeFacts, ClassFacts DEF Sizes, MaxSize
<1>3. ASSUME NEW s \in Sizes, s < MaxSize PROVE 2 * s \in Sizes
  <2>1. PICK c \in Classes : s = BlockSize(c)
    BY DEF Sizes
  <2>2. c # MaxClass
    BY <1>3, <2>1, SizeFacts, ClassFacts DEF MaxSize
  <2>3. c + 1 \in Classes /\ c \in Nat
    BY <2>2, ClassFacts DEF Classes
  <2> QED BY <2>1, <2>3, SizeFacts DEF Sizes
<1> QED BY <1>1, <1>2, <1>3

(* _log2 of a block size is the index of its list. *)
LEMMA LogOfSize ==
  ASSUME NEW c \in Classes
  PROVE  Log2(BlockSize(c)) = c
<1> DEFINE In(k) == k \in 0 .. 63 /\ BlockSize(k) <= BlockSize(c) /\ BlockSize(c) < BlockSize(k + 1)
<1>1. c \in Nat /\ c <= 31 /\ c \in 0 .. 63 /\ c < c + 1 /\ c + 1 \in Nat
  BY SizeAssumption DEF Classes
<1>2. In(c)
  BY <1>1, SizeFacts
<1>3. ASSUME NEW k \in 0 .. 63, In(k) PROVE k = c
  <2>1. k \in Nat /\ k + 1 \in Nat
    OBVIOUS
  <2>2. ~(c < k)
    BY <1>1, <1>3, <2>1, SizeFacts
  <2>3. ~(k + 1 <= c)
    BY <1>1, <1>3, <2>1, SizeFacts
  <2> QED BY <1>1, <2>1, <2>2, <2>3
<1>4. Log2(BlockSize(c)) = CHOOSE k \in 0 .. 63 : In(k)
  BY DEF Log2
<1> HIDE DEF In
<1> QED BY <1>1, <1>2, <1>3, <1>4

-------------------------------------------------------------------------------
(* Divisibility, which aligned addresses are about. *)
LEMMA DividesModulo ==
  ASSUME NEW n \in Nat, NEW s \in Nat \ {0}
  PROVE  Divides(s, n) <=> n % s = 0
<1>1. n \div s \in Nat /\ n = s * (n \div s) + (n % s)
  BY Quotient
<1>2. ASSUME n % s = 0 PROVE Divides(s, n)
  <2>1. PICK q \in Nat : q = n \div s
    BY <1>1
  <2>2. n = q * s
    BY <1>1, <1>2, <2>1
  <2> QED BY <2>2 DEF Divides
<1>3. ASSUME Divides(s, n) PROVE n % s = 0
  <2>1. PICK k \in Nat : n = k * s
    BY <1>3 DEF Divides
  <2>2. n \div s = k
    BY <2>1, DivideExactly
  <2>3. s * k = k * s
    BY <2>1
  <2>4. n % s \in Int
    OBVIOUS
  <2> QED BY <1>1, <2>1, <2>2, <2>3, <2>4
<1> QED BY <1>2, <1>3

LEMMA DividesSum ==
  ASSUME NEW s \in Nat, NEW m \in Nat, NEW n \in Nat, Divides(s, m), Divides(s, n)
  PROVE  Divides(s, m + n)
<1>1. PICK j \in Nat, k \in Nat : m = j * s /\ n = k * s
  BY DEF Divides
<1>2. m + n = (j + k) * s /\ j + k \in Nat
  BY <1>1
<1> QED BY <1>2 DEF Divides

LEMMA DividesTimes ==
  ASSUME NEW s \in Nat, NEW m \in Nat, NEW n \in Nat, Divides(s, m), Divides(m, n)
  PROVE  Divides(s, n)
<1>1. PICK j \in Nat, k \in Nat : m = j * s /\ n = k * m
  BY DEF Divides
<1>2. n = (k * j) * s /\ k * j \in Nat
  BY <1>1
<1> QED BY <1>2 DEF Divides

LEMMA DividesHalf ==
  ASSUME NEW s \in Nat, NEW m \in Nat, Divides(2 * s, m)
  PROVE  Divides(s, m)
<1>1. PICK k \in Nat : m = k * (2 * s)
  BY DEF Divides
<1>2. m = (2 * k) * s /\ 2 * k \in Nat
  BY <1>1
<1> QED BY <1>2 DEF Divides

LEMMA DividesSelf ==
  ASSUME NEW s \in Nat
  PROVE  Divides(s, s) /\ Divides(s, 0)
<1>1. s = 1 * s /\ 0 = 0 * s
  OBVIOUS
<1> QED BY <1>1 DEF Divides

(* Two blocks next to each other lie in one block of twice their size only  *)
(* when the first is aligned to that size.                                  *)
LEMMA PairIsAligned ==
  ASSUME NEW s \in Nat \ {0}, NEW x \in Nat, Divides(s, x),
         x \div (2 * s) = (x + s) \div (2 * s)
  PROVE  Divides(2 * s, x)
<1>1. PICK k \in Nat : x = k * s
  BY DEF Divides
<1> DEFINE d == 2 * s
           q == x \div d
<1>2. d \in Nat \ {0} /\ x + s \in Nat
  OBVIOUS
<1>3. q \in Nat /\ q * d <= x
  BY <1>2, Quotient
<1>4. x + s < (q + 1) * d
  BY <1>2, Quotient
<1> HIDE DEF q
<1>5. q * d = (2 * q) * s /\ (q + 1) * d = (2 * q + 2) * s /\ x + s = (k + 1) * s
  BY <1>1, <1>3
<1> HIDE DEF d
<1>6. ~(k < 2 * q)
  <2> SUFFICES ASSUME k < 2 * q PROVE FALSE
    OBVIOUS
  <2>1. k * s + s <= (2 * q) * s
    BY <1>3, SlotsApart
  <2> QED BY <1>1, <1>3, <1>5, <2>1
<1>7. k + 1 < 2 * q + 2
  <2>1. (k + 1) * s < (2 * q + 2) * s
    BY <1>4, <1>5
  <2>2. k + 1 \in Nat /\ 2 * q + 2 \in Nat /\ s \in Nat
    BY <1>3
  <2> QED BY <2>1, <2>2, TimesStrict
<1>8. k = 2 * q
  BY <1>3, <1>6, <1>7
<1> QED BY <1>1, <1>3, <1>5, <1>8 DEF Divides, d

(* A block aligned to twice its size is not the second of such a pair. *)
LEMMA AlignedIsFirst ==
  ASSUME NEW s \in Nat \ {0}, NEW x \in Nat, Divides(2 * s, x + s)
  PROVE  x \div (2 * s) # (x + s) \div (2 * s)
<1> DEFINE d == 2 * s
<1>1. d \in Nat \ {0}
  OBVIOUS
<1>2. PICK k \in Nat : x + s = k * d
  BY DEF Divides
<1>3. (x + s) \div d = k
  BY <1>1, <1>2, DivideExactly
<1>4. (x \div d) * d <= x /\ x < ((x \div d) + 1) * d /\ x \div d \in Nat
  BY <1>1, Quotient
<1> SUFFICES ASSUME x \div d = k PROVE FALSE
  BY <1>3
<1>5. k * d <= x
  BY <1>4
<1> QED BY <1>2, <1>5

(* The first of a pair that ends behind a multiple of its double is not     *)
(* before it.                                                               *)
LEMMA PairBehind ==
  ASSUME NEW s \in Nat \ {0}, NEW x \in Nat, NEW m \in Nat,
         Divides(2 * s, x), Divides(2 * s, m), x + s >= m
  PROVE  x >= m
<1>1. PICK j \in Nat, k \in Nat : x = j * (2 * s) /\ m = k * (2 * s)
  BY DEF Divides
<1>2. CASE j < k
  <2>1. j * (2 * s) + 2 * s <= k * (2 * s)
    BY <1>2, SlotsApart
  <2> QED BY <1>1, <2>1
<1>3. CASE k <= j
  <2>1. 2 * s \in Nat
    OBVIOUS
  <2> QED BY <1>1, <1>3, <2>1, TimesMonotone
<1> QED BY <1>2, <1>3

-------------------------------------------------------------------------------
(* What fits in a block fits in a larger one. *)
LEMMA FitsInLarger ==
  ASSUME NEW n \in Nat, NEW c \in Classes, NEW d \in Classes, c <= d, BlockFits(n, c)
  PROVE  BlockFits(n, d)
<1>1. PICK x \in Nat, y \in Nat : x = BlockSize(c) /\ y = BlockSize(d) /\ x <= y
  BY SizeFacts, ClassFacts
<1>2. MinBytes \in Nat
  BY SizeAssumption
<1>3. x * MinBytes <= y * MinBytes /\ x * MinBytes = MinBytes * x /\ y * MinBytes = MinBytes * y
  BY <1>1, <1>2, TimesMonotone
<1>4. MinBytes * x \in Nat /\ MinBytes * y \in Nat
  BY <1>1, <1>2
<1> QED BY <1>1, <1>3, <1>4 DEF BlockFits, HEAD_TAIL_SIZE

(* _flh_idx gives the class of the smallest blocks a request fits in. *)
LEMMA ClassOfRequest ==
  ASSUME NEW n \in Nat, ~TooLarge(n)
  PROVE  /\ FlhIdx(n) \in Classes
         /\ BlockFits(n, FlhIdx(n))
         /\ \A d \in Classes : d < FlhIdx(n) => ~BlockFits(n, d)
<1> DEFINE F == {c \in Classes : BlockFits(n, c)}
<1>1. MaxClass \in F /\ F \subseteq Nat
  BY ClassFacts DEF TooLarge
<1>2. PICK c \in F : \A d \in F : c <= d
  BY <1>1, LeastElement
<1>3. c \in Classes /\ BlockFits(n, c) /\ \A d \in 0 .. (c - 1) : ~BlockFits(n, d)
  <2>1. c \in Classes /\ c \in Nat /\ c <= MaxClass /\ MaxClass \in Nat
    BY <1>1, ClassFacts
  <2>2. \A d \in 0 .. (c - 1) : d \in Classes /\ d < c
    BY <2>1 DEF Classes
  <2>3. \A d \in F : ~(d < c)
    BY <1>1, <1>2, <2>1
  <2> QED BY <2>1, <2>2, <2>3
<1> DEFINE G == CHOOSE e \in Classes : BlockFits(n, e) /\ \A d \in 0 .. (e - 1) : ~BlockFits(n, d)
<1>4. G \in Classes /\ BlockFits(n, G) /\ \A d \in 0 .. (G - 1) : ~BlockFits(n, d)
  BY <1>3
<1>5. FlhIdx(n) = G
  BY DEF FlhIdx
<1> HIDE DEF G
<1>6. \A d \in Classes : d < G => d \in 0 .. (G - 1)
  BY <1>4, ClassFacts
<1> QED BY <1>4, <1>5, <1>6

-------------------------------------------------------------------------------
(* Blocks B of sizes z tile the chunk up to e. *)
Tile(B, z, e) ==
  /\ e \in Nat
  /\ B \subseteq Nat
  /\ \A a \in B : z[a] \in Sizes /\ Divides(z[a], a)
  /\ e > 0 => 0 \in B
  /\ \A a \in B : a + z[a] <= e /\ a + z[a] \in B \cup {e}
  /\ \A a, b \in B : a < b => a + z[a] <= b

LEMMA TileSame ==
  ASSUME NEW B, NEW z, NEW y, NEW e, Tile(B, z, e), \A a \in B : y[a] = z[a]
  PROVE  Tile(B, y, e)
BY DEF Tile

(* _mmp_init_chunk appends a largest block. *)
LEMMA TileAppend ==
  ASSUME NEW B, NEW z, NEW y, NEW e, Tile(B, z, e), Divides(MaxSize, e),
         \A a \in B : y[a] = z[a], y[e] = MaxSize
  PROVE  Tile(B \cup {e}, y, e + MaxSize) /\ Divides(MaxSize, e + MaxSize) /\ e \notin B
<1>1. MaxSize \in Nat \ {0} /\ MaxSize \in Sizes /\ Sizes \subseteq Nat \ {0}
  BY SizesOrder
<1>2. e \in Nat /\ B \subseteq Nat
  BY DEF Tile
<1>3. Divides(MaxSize, e + MaxSize)
  BY <1>1, <1>2, DividesSelf, DividesSum
<1>4. \A a \in B : z[a] \in Nat \ {0} /\ a + z[a] <= e /\ a < e
  <2>1. \A a \in B : a \in Nat /\ z[a] \in Nat \ {0} /\ a + z[a] <= e
    BY <1>1 DEF Tile
  <2> QED BY <1>2, <2>1
<1>5. \A a \in B \cup {e} : y[a] \in Sizes /\ Divides(y[a], a)
  BY <1>1 DEF Tile
<1>6. 0 \in B \cup {e}
  BY <1>2 DEF Tile
<1>7. \A a \in B \cup {e} : a + y[a] <= e + MaxSize
                            /\ a + y[a] \in (B \cup {e}) \cup {e + MaxSize}
  <2>1. ASSUME NEW a \in B
        PROVE  a + y[a] <= e + MaxSize /\ a + y[a] \in B \cup {e}
    <3>1. a + z[a] \in B \cup {e} /\ y[a] = z[a]
      BY DEF Tile
    <3> QED BY <1>1, <1>2, <1>4, <3>1
  <2> QED BY <1>1, <1>2, <2>1
<1>8. ASSUME NEW a \in B \cup {e}, NEW b \in B \cup {e}, a < b
      PROVE  a + y[a] <= b
  <2>1. CASE b = e
    BY <1>2, <1>4, <1>8, <2>1
  <2>2. CASE a = e /\ b # e
    BY <1>2, <1>4, <1>8, <2>2
  <2>3. CASE a # e /\ b # e
    BY <1>8, <2>3 DEF Tile
  <2> QED BY <2>1, <2>2, <2>3
<1>9. e + MaxSize \in Nat /\ B \cup {e} \subseteq Nat
  BY <1>1, <1>2
<1>10. e \notin B
  BY <1>2, <1>4
<1> QED BY <1>3, <1>5, <1>6, <1>7, <1>8, <1>9, <1>10 DEF Tile

(* A split halves a block. *)
LEMMA TileSplit ==
  ASSUME NEW B, NEW z, NEW y, NEW e, Tile(B, z, e),
         NEW b \in B, NEW h \in Sizes, z[b] = 2 * h,
         \A a \in B \ {b} : y[a] = z[a], y[b] = h, y[b + h] = h
  PROVE  Tile(B \cup {b + h}, y, e) /\ b + h \notin B
<1>1. h \in Nat \ {0} /\ b \in Nat /\ e \in Nat /\ B \subseteq Nat /\ Sizes \subseteq Nat \ {0}
  BY SizesOrder DEF Tile
<1>2. b + 2 * h <= e /\ b + 2 * h \in B \cup {e} /\ Divides(2 * h, b)
  BY DEF Tile
<1>3. Divides(h, b) /\ Divides(h, b + h)
  BY <1>1, <1>2, DividesHalf, DividesSelf, DividesSum
<1>4. \A a \in B : a < b => a + z[a] <= b
  BY DEF Tile
<1>5. \A a \in B : b < a => b + 2 * h <= a
  BY DEF Tile
<1>6. b + h \notin B
  BY <1>1, <1>5
<1>7. \A a \in B \cup {b + h} : y[a] \in Sizes /\ Divides(y[a], a)
  BY <1>3 DEF Tile
<1>8. \A a \in B \cup {b + h} : a + y[a] <= e /\ a + y[a] \in (B \cup {b + h}) \cup {e}
  <2>1. (b + h) + h = b + 2 * h
    BY <1>1
  <2>2. ASSUME NEW a \in B \ {b}
        PROVE  a + y[a] <= e /\ a + y[a] \in B \cup {e}
    BY DEF Tile
  <2>3. b + y[b] <= e /\ b + y[b] = b + h
    BY <1>1, <1>2
  <2>4. (b + h) + y[b + h] <= e /\ (b + h) + y[b + h] \in B \cup {e}
    BY <1>2, <2>1
  <2> QED BY <2>2, <2>3, <2>4
<1>9. ASSUME NEW a \in B \cup {b + h}, NEW c \in B \cup {b + h}, a < c
      PROVE  a + y[a] <= c
  <2>1. CASE a = b /\ c = b + h
    BY <1>1, <2>1
  <2>2. CASE a = b /\ c # b + h
    BY <1>1, <1>5, <1>9, <2>2
  <2>3. CASE a = b + h
    <3>1. c \in B /\ b < c
      BY <1>1, <1>9, <2>3
    <3> QED BY <1>1, <1>5, <2>3, <3>1
  <2>4. CASE a # b /\ a # b + h /\ c = b + h
    <3>1. a \in B /\ y[a] = z[a] /\ z[a] \in Nat
      BY <1>1, <2>4 DEF Tile
    <3>2. a < b
      BY <1>1, <1>5, <1>9, <2>4, <3>1
    <3> QED BY <1>1, <1>4, <2>4, <3>1, <3>2
  <2>5. CASE a # b /\ a # b + h /\ c # b + h
    BY <1>9, <2>5 DEF Tile
  <2> QED BY <2>1, <2>2, <2>3, <2>4, <2>5
<1>10. B \cup {b + h} \subseteq Nat
  BY <1>1
<1> QED BY <1>1, <1>6, <1>7, <1>8, <1>9, <1>10 DEF Tile

(* A merge makes one block of two. *)
LEMMA TileMerge ==
  ASSUME NEW B, NEW z, NEW y, NEW e, Tile(B, z, e),
         NEW b \in B, NEW s, s = z[b], b + s \in B, z[b + s] = s,
         2 * s \in Sizes, Divides(2 * s, b),
         \A a \in B \ {b, b + s} : y[a] = z[a], y[b] = 2 * s
  PROVE  Tile(B \ {b + s}, y, e)
<1>1. s \in Nat \ {0} /\ b \in Nat /\ e \in Nat /\ B \subseteq Nat
  BY SizesOrder DEF Tile
<1>2. (b + s) + s <= e /\ (b + s) + s \in B \cup {e} /\ (b + s) + s = b + 2 * s
  <2>1. (b + s) + z[b + s] <= e /\ (b + s) + z[b + s] \in B \cup {e}
    BY DEF Tile
  <2> QED BY <1>1, <2>1
<1>3. \A a \in B : a < b + s => a + z[a] <= b + s
  BY DEF Tile
<1>4. \A a \in B : b + s < a => b + 2 * s <= a
  <2>1. \A a \in B : b + s < a => (b + s) + z[b + s] <= a
    BY DEF Tile
  <2> QED BY <1>2, <2>1
<1>5. e > 0 => 0 \in B \ {b + s}
  BY <1>1 DEF Tile
<1>6. \A a \in B \ {b + s} : y[a] \in Sizes /\ Divides(y[a], a)
  BY DEF Tile
<1>7. ASSUME NEW a \in B \ {b + s}
      PROVE  a + y[a] <= e /\ a + y[a] \in (B \ {b + s}) \cup {e}
  <2>1. CASE a = b
    <3>1. b + 2 * s # b + s
      BY <1>1
    <3> QED BY <1>2, <2>1, <3>1
  <2>2. CASE a # b
    <3>1. a + y[a] <= e /\ a + y[a] \in B \cup {e} /\ y[a] = z[a] /\ z[a] \in Nat \ {0}
      BY <2>2, SizesOrder DEF Tile
    <3>2. a + z[a] # b + s \/ a + z[a] = e
      <4>1. CASE a < b
        <5>1. a + z[a] <= b
          BY <4>1 DEF Tile
        <5> QED BY <1>1, <3>1, <5>1
      <4>2. CASE b < a
        <5>1. b + z[b] <= a
          BY <4>2 DEF Tile
        <5> QED BY <1>1, <3>1, <5>1
      <4> QED BY <1>1, <2>2, <4>1, <4>2
    <3> QED BY <3>1, <3>2
  <2> QED BY <2>1, <2>2
<1>8. ASSUME NEW a \in B \ {b + s}, NEW c \in B \ {b + s}, a < c
      PROVE  a + y[a] <= c
  <2>1. CASE a = b
    <3>1. b + z[b] <= c
      BY <1>8, <2>1 DEF Tile
    <3>2. b + s < c
      BY <1>1, <1>8, <3>1
    <3> QED BY <1>4, <2>1, <3>2
  <2>2. CASE a # b
    BY <1>8, <2>2 DEF Tile
  <2> QED BY <2>1, <2>2
<1> QED BY <1>1, <1>5, <1>6, <1>7, <1>8 DEF Tile

(* Every block but the first follows one. *)
LEMMA TilePrevious ==
  ASSUME NEW B, NEW z, NEW e, Tile(B, z, e), NEW b \in B, b > 0
  PROVE  \E p \in B : p < b /\ p + z[p] = b
<1> DEFINE S == {a \in B : a < b}
<1>1. B \subseteq Nat /\ b \in Nat /\ e \in Nat /\ Sizes \subseteq Nat \ {0}
  BY SizesOrder DEF Tile
<1>2. b + z[b] <= e /\ z[b] \in Nat \ {0}
  BY <1>1 DEF Tile
<1>3. 0 \in S
  BY <1>1, <1>2 DEF Tile
<1>4. S \in SUBSET Nat /\ S # {} /\ \A m \in S : m <= b
  <2>1. S \subseteq B /\ \A m \in S : m < b
    OBVIOUS
  <2> HIDE DEF S
  <2>2. \A m \in S : m \in Nat /\ m <= b
    BY <1>1, <2>1
  <2> QED BY <1>3, <2>2
<1>5. PICK p \in S : \A m \in S : m <= p
  BY <1>1, <1>4, GreatestElement
<1>6. p + z[p] <= b /\ p + z[p] \in B \cup {e} /\ z[p] \in Nat \ {0} /\ p \in Nat
  BY <1>1 DEF Tile
<1>7. p + z[p] # e
  BY <1>1, <1>2, <1>6
<1>8. p + z[p] \notin S
  BY <1>5, <1>6
<1>9. p + z[p] = b
  BY <1>1, <1>6, <1>7, <1>8
<1> QED BY <1>9

-------------------------------------------------------------------------------
(* The nodes that describe blocks. *)
Owners(b) == {b[f] : f \in Flns} \ {None}

-------------------------------------------------------------------------------
(* The first of a list that is not empty is one of its nodes. *)
LEMMA FirstListed ==
  ASSUME NEW l \in Seq(Flns), NEW T, ListsOnce(l, T), l # <<>>
  PROVE  lst_first(l) \in T
BY PopFrontOnce

(* A list without nodes is empty. *)
LEMMA ListEmpty ==
  ASSUME NEW l \in Seq(Flns), NEW T, ListsOnce(l, T)
  PROVE  l = <<>> <=> T = {}
<1>1. ASSUME l # <<>> PROVE T # {}
  BY <1>1, FirstListed
<1>2. ASSUME l = <<>> PROVE T = {}
  BY <1>2 DEF ListsOnce
<1> QED BY <1>1, <1>2

-------------------------------------------------------------------------------
(* The inductive invariant, part by part. *)

(* The blocks tile what is carved, with the sizes their heads have; that of *)
(* a block being split is in the variable of the loop. *)
BlockSizes == [a \in Blocks |-> SizeOf(a)]
Tiled == Tile(Blocks, BlockSizes, carved) /\ Divides(MaxSize, carved)

(* A tail ends each block. *)
Tails == \A a \in Blocks : a # cut.at => tail[a + SizeOf(a)] = SizeOf(a)

(* The blocks in use are the clients', nothing is left of a head after the  *)
(* chunk, and the head of a free block has the index of its node.           *)
Heads ==
  /\ \A a \in 0 .. Chunk : head[a].used <=> a \in DOMAIN live
  /\ head[Chunk] = NoHead
  /\ \A f \in Flns : block[f] # None =>
       block[f] \notin DOMAIN live /\ head[block[f]].fln = f

(* Each node is in the list of its block's size, or with the spare ones. *)
NodesOf(b, h, x, c) == {f \in Flns : b[f] \notin {None, x} /\ h[b[f]].size = BlockSize(c)}
Nodes == [c \in Classes |-> NodesOf(block, head, cut.at, c)]
Spare == {f \in Flns : block[f] = None}
Listed == /\ \A c \in Classes : ListsOnce(flh[c], Nodes[c])
          /\ ListsOnce(free_fln, Spare)

(* The block being split is still described by its node; until the last     *)
(* half there is no block of the size the request needs, and then only the  *)
(* upper half just made.                                                    *)
Cutting == cut.at # None =>
  /\ taking \in Requests /\ ~TooLarge(taking)
  /\ block[cut.fln] = cut.at
  /\ FlhIdx(taking) + cut.left \in Classes
  /\ cut.size = BlockSize(FlhIdx(taking) + cut.left)
  /\ cut.left = 0 => Divides(2 * cut.size, cut.at)
  /\ \A a \in FreeBlocks : head[a].size = BlockSize(FlhIdx(taking))
                           => cut.left = 0 /\ a = cut.at + cut.size

(* What is under way, one thing at a time. *)
Phases ==
  /\ carved < Chunk => taking = None /\ freeing = None /\ refused = NoCall
  /\ ~label => carved = Chunk /\ taking = None /\ freeing = None
  /\ taking = None => cut.at = None
  /\ taking # None => freeing = None
  /\ taking # None /\ cut.at = None =>
       ~TooLarge(taking) /\ flh[FlhIdx(taking)] # <<>>
  /\ freeing # None => /\ freeing >= MaxSize /\ refused = NoCall
                       /\ freeing \notin DOMAIN live \cup Described

(* The lower half a split has just ended with waits for the request. *)
Halved == IF taking # None /\ cut.at = None
          THEN {block[lst_first(flh[FlhIdx(taking)])]} ELSE {}

(* No other two buddies are free. *)
Merged ==
  \A a \in FreeBlocks \ Halved, b \in FreeBlocks :
    a + head[a].size = b /\ head[a].size < MaxSize => ~Buddies(a, b)

(* What was refused still fits in no free block, and not in the one split. *)
Refusals ==
  refused.op = "alloc" /\ refused.arg > 0 =>
    \A a \in Owners(block) : refused.arg + HEAD_TAIL_SIZE > MinBytes * SizeOf(a)

Served == \A a \in DOMAIN live : live[a] + HEAD_TAIL_SIZE <= MinBytes * head[a].size

PoolInv == /\ TypeOK /\ Tiled /\ Tails /\ Heads /\ Listed /\ Cutting /\ Phases
           /\ Merged /\ Refusals /\ Served

-------------------------------------------------------------------------------
(* What the invariant says of the blocks, in the terms the proofs use. *)
LEMMA BlockFacts ==
  ASSUME PoolInv
  PROVE  /\ Blocks = (DOMAIN live \cup Owners(block) \cup {freeing}) \ {None}
         /\ FreeBlocks = Owners(block) \ {cut.at}
         /\ carved \in Nat /\ Chunk \in Nat \ {0} /\ carved <= Chunk
         /\ \A a \in Blocks : /\ a \in Addresses /\ a \in Nat
                              /\ SizeOf(a) \in Sizes /\ SizeOf(a) \in Nat \ {0}
                              /\ Divides(SizeOf(a), a)
                              /\ a + SizeOf(a) <= carved /\ a + SizeOf(a) \in 0 .. Chunk
                              /\ a + SizeOf(a) \in Blocks \cup {carved}
         /\ \A a, b \in Blocks : a < b => a + SizeOf(a) <= b
<1>1. Chunk \in Nat \ {0} /\ carved \in 0 .. Chunk
  BY SizeAssumption DEF PoolInv, TypeOK
<1>2. carved \in Nat /\ carved <= Chunk
  BY <1>1
<1>3. cut.at # None => cut.at \in Owners(block)
  <2>1. cut.fln \in Flns
    BY DEF PoolInv, TypeOK
  <2> QED BY <2>1 DEF PoolInv, Cutting, Owners
<1>4. Blocks = (DOMAIN live \cup Owners(block) \cup {freeing}) \ {None}
  BY <1>3 DEF Blocks, Described, Owners
<1>5. FreeBlocks = Owners(block) \ {cut.at}
  BY DEF FreeBlocks, Described, Owners
<1>6. Tile(Blocks, BlockSizes, carved) /\ \A a \in Blocks : BlockSizes[a] = SizeOf(a)
  BY DEF PoolInv, Tiled, BlockSizes
<1>7. ASSUME NEW a \in Blocks
      PROVE  /\ a \in Addresses /\ a \in Nat
             /\ SizeOf(a) \in Sizes /\ SizeOf(a) \in Nat \ {0}
             /\ Divides(SizeOf(a), a)
             /\ a + SizeOf(a) <= carved /\ a + SizeOf(a) \in 0 .. Chunk
             /\ a + SizeOf(a) \in Blocks \cup {carved}
  <2> PICK s : s = SizeOf(a)
    OBVIOUS
  <2>1. a \in Nat /\ s \in Sizes /\ Divides(s, a) /\ a + s <= carved /\ a + s \in Blocks \cup {carved}
    BY <1>6 DEF Tile
  <2>2. s \in Nat \ {0}
    BY <2>1, SizesOrder
  <2>3. a \in Addresses /\ a + s \in 0 .. Chunk
    BY <1>1, <1>2, <2>1, <2>2 DEF Addresses
  <2> QED BY <2>1, <2>2, <2>3
<1>8. \A a, b \in Blocks : a < b => a + SizeOf(a) <= b
  BY <1>6 DEF Tile
<1> QED BY <1>1, <1>2, <1>4, <1>5, <1>7, <1>8

LEMMA OwnerFacts ==
  ASSUME PoolInv
  PROVE  /\ \A f, g \in Flns : block[f] # None /\ block[g] = block[f] => g = f
         /\ \A f \in Flns : block[f] # None => block[f] \in Owners(block)
         /\ \A a \in Owners(block) :
              /\ a \in Blocks /\ a \notin DOMAIN live /\ ~head[a].used
              /\ head[a].fln \in Flns /\ block[head[a].fln] = a
         /\ freeing # None => freeing \in Blocks /\ freeing \notin Owners(block)
                              /\ freeing \notin DOMAIN live
         /\ \A a \in DOMAIN live : a \in Blocks /\ a # cut.at
         /\ None \notin 0 .. Chunk
<1>1. \A f \in Flns : block[f] # None =>
        block[f] \notin DOMAIN live /\ head[block[f]].fln = f
  BY DEF PoolInv, Heads
<1>2. \A f, g \in Flns : block[f] # None /\ block[g] = block[f] => g = f
  BY <1>1
<1>3. None \notin 0 .. Chunk
  BY DEF None
<1>4. DOMAIN live \subseteq Addresses /\ None \notin Addresses
  BY DEF PoolInv, TypeOK, None, Addresses
<1>5. ASSUME NEW a \in Owners(block)
      PROVE  /\ a \in Blocks /\ a \notin DOMAIN live /\ ~head[a].used
             /\ head[a].fln \in Flns /\ block[head[a].fln] = a
  <2>1. PICK f \in Flns : block[f] = a /\ a # None
    BY DEF Owners
  <2>2. a \in Blocks
    BY <2>1, BlockFacts
  <2>3. a \in 0 .. Chunk
    BY <2>2, BlockFacts DEF Addresses
  <2> QED BY <1>1, <2>1, <2>2, <2>3 DEF PoolInv, Heads
<1>6. freeing # None => freeing \in Blocks /\ freeing \notin Owners(block)
                        /\ freeing \notin DOMAIN live
  <2>1. freeing # None => freeing \in Blocks
    BY BlockFacts
  <2> QED BY <2>1 DEF PoolInv, Phases, Described, Owners
<1>7. ASSUME NEW a \in DOMAIN live PROVE a \in Blocks /\ a # cut.at
  <2>1. a \in Blocks
    BY <1>4, BlockFacts
  <2>2. cut.at # None => cut.at \in Owners(block)
    <3>1. cut.fln \in Flns
      BY DEF PoolInv, TypeOK
    <3> QED BY <3>1 DEF PoolInv, Cutting, Owners
  <2> QED BY <1>4, <1>5, <2>1, <2>2
<1> QED BY <1>2, <1>3, <1>5, <1>6, <1>7 DEF Owners

(* A free block has its node in the list of its size, where no block of     *)
(* another size has one.                                                    *)
LEMMA FreeBlockListed ==
  ASSUME PoolInv, NEW a \in FreeBlocks
  PROVE  \E c \in Classes : /\ head[a].size = BlockSize(c) /\ SizeOf(a) = BlockSize(c)
                            /\ Log2(head[a].size) = c
                            /\ head[a].fln \in Nodes[c] /\ flh[c] # <<>>
                            /\ \A d \in Classes : d # c => head[a].fln \notin Nodes[d]
<1>1. a \in Owners(block) /\ a # cut.at /\ a \in Blocks
  BY BlockFacts, OwnerFacts
<1>2. SizeOf(a) = head[a].size
  BY <1>1 DEF SizeOf
<1>3. PICK c \in Classes : head[a].size = BlockSize(c)
  BY <1>1, <1>2, BlockFacts DEF Sizes
<1>4. head[a].fln \in Flns /\ block[head[a].fln] = a /\ a # None
  BY <1>1, OwnerFacts DEF Owners
<1>5. head[a].fln \in Nodes[c]
  BY <1>1, <1>3, <1>4 DEF Nodes, NodesOf
<1>6. \A d \in Classes : d # c => head[a].fln \notin Nodes[d]
  BY <1>3, <1>4, SizeFacts, ClassFacts DEF Nodes, NodesOf
<1>7. flh[c] \in Seq(Flns) /\ ListsOnce(flh[c], Nodes[c])
  BY DEF PoolInv, TypeOK, Listed
<1>8. flh[c] # <<>>
  BY <1>5, <1>7, ListEmpty
<1> QED BY <1>2, <1>3, <1>5, <1>6, <1>8, LogOfSize

(* The first node of a list describes a free block of its size. *)
LEMMA FirstOfList ==
  ASSUME PoolInv, NEW c \in Classes, flh[c] # <<>>
  PROVE  LET f == lst_first(flh[c])
         IN  /\ f \in Flns /\ f \in Nodes[c]
             /\ block[f] \in FreeBlocks /\ block[f] \in Owners(block) /\ block[f] \in Blocks
             /\ block[f] # cut.at /\ block[f] \in Nat
             /\ head[block[f]].size = BlockSize(c) /\ SizeOf(block[f]) = BlockSize(c)
<1> DEFINE f == lst_first(flh[c])
<1>1. flh[c] \in Seq(Flns) /\ ListsOnce(flh[c], Nodes[c])
  BY DEF PoolInv, TypeOK, Listed
<1>2. f \in Nodes[c]
  BY <1>1, FirstListed
<1> HIDE DEF f
<1>3. f \in Flns /\ block[f] \notin {None, cut.at} /\ head[block[f]].size = BlockSize(c)
  BY <1>2 DEF Nodes, NodesOf
<1>4. block[f] \in Owners(block) /\ block[f] \in FreeBlocks
  BY <1>3, BlockFacts DEF Owners
<1>5. block[f] \in Blocks /\ block[f] \in Nat
  BY <1>4, OwnerFacts, BlockFacts
<1>6. SizeOf(block[f]) = BlockSize(c)
  BY <1>3 DEF SizeOf
<1> QED BY <1>2, <1>3, <1>4, <1>5, <1>6 DEF f

-------------------------------------------------------------------------------
(* A chunk that _mmp_init_chunk has not cut yet. *)
LEMMA InitInv == Init => PoolInv
<1> SUFFICES ASSUME Init PROVE PoolInv
  OBVIOUS
<1>1. Chunk \in Nat \ {0} /\ FlnCount \in Nat \ {0} /\ MaxClass \in Nat /\ MaxSize \in Nat \ {0}
  BY SizeAssumption, SizesOrder
<1>2. 0 \in Flns /\ 0 \in Addresses /\ 0 \in Classes /\ None \notin 0 .. Chunk
  BY <1>1, ClassFacts DEF Flns, Addresses, None
<1>3. free_fln \in Seq(Flns) /\ Len(free_fln) = FlnCount
      /\ \A k \in 1 .. FlnCount : free_fln[k] = k - 1
  <2>1. free_fln = [k \in 1 .. FlnCount |-> k - 1]
    BY DEF Init
  <2>2. \A k \in 1 .. FlnCount : k - 1 \in Flns
    BY <1>1 DEF Flns
  <2> QED BY <1>1, <2>1, <2>2
<1>4. Owners(block) = {} /\ Described \subseteq {None} /\ Spare = Flns /\ DOMAIN live = {}
  BY DEF Init, Owners, Described, Spare
<1>5. Blocks = {} /\ FreeBlocks = {}
  BY <1>4 DEF Init, Blocks, FreeBlocks, NoCut
<1>6. ListsOnce(free_fln, Spare)
  <2>1. \A f \in Flns : f + 1 \in 1 .. FlnCount /\ free_fln[f + 1] = f
    BY <1>1, <1>3 DEF Flns
  <2>2. \A k \in 1 .. FlnCount : free_fln[k] \in Flns /\ free_fln[k] = k - 1
    BY <1>1, <1>3 DEF Flns
  <2> QED BY <1>3, <1>4, <2>1, <2>2 DEF ListsOnce
<1>7. ASSUME NEW c \in Classes PROVE ListsOnce(flh[c], Nodes[c]) /\ flh[c] \in Seq(Flns)
  <2>1. Nodes[c] = {}
    BY DEF Init, Nodes, NodesOf
  <2>2. flh[c] = lst_new
    BY DEF Init
  <2> QED BY <2>1, <2>2, NewOnce DEF lst_new
<1>8. Listed
  BY <1>6, <1>7 DEF Listed
<1>9. TypeOK
  <2>1. label \in BOOLEAN /\ carved \in 0 .. Chunk
    BY <1>1 DEF Init
  <2>2. NoHead \in [used : BOOLEAN, fln : Flns, size : 0 .. MaxSize] /\ 0 \in 0 .. MaxSize
    BY <1>1, <1>2 DEF NoHead
  <2>3. /\ head \in [0 .. Chunk -> [used : BOOLEAN, fln : Flns, size : 0 .. MaxSize]]
        /\ tail \in [0 .. Chunk -> 0 .. MaxSize]
    BY <2>2 DEF Init
  <2>4. flh \in [Classes -> Seq(Flns)]
    <3>1. flh = [c \in Classes |-> lst_new]
      BY DEF Init
    <3> QED BY <1>7, <3>1
  <2>5. block \in [Flns -> Addresses \cup {None}]
    BY DEF Init
  <2>6. cut \in [at : Addresses \cup {None}, size : 0 .. MaxSize, left : Classes, fln : Flns]
    BY <1>2, <2>2 DEF Init, NoCut
  <2>7. live \in [DOMAIN live -> Requests] /\ DOMAIN live \subseteq Addresses
    BY DEF Init
  <2>8. refused \in [op : {"none", "load", "alloc", "free"}, arg : Addresses \cup Requests]
    BY <1>2 DEF Init, NoCall
  <2>9. taking \in Requests \cup {None} /\ freeing \in Addresses \cup {None}
    BY DEF Init
  <2> QED BY <1>3, <2>1, <2>3, <2>4, <2>5, <2>6, <2>7, <2>8, <2>9 DEF TypeOK
<1>10. Tiled
  <2>1. carved = 0 /\ Divides(MaxSize, 0)
    BY <1>1, DividesSelf DEF Init
  <2> QED BY <1>5, <2>1 DEF Tiled, Tile
<1>11. Heads
  BY <1>1, <1>4 DEF Heads, Init, NoHead
<1>12. Tails /\ Merged /\ Served
  BY <1>4, <1>5 DEF Tails, Merged, Served
<1>13. Cutting /\ Phases /\ Refusals
  BY <1>4 DEF Init, Cutting, Phases, Refusals, NoCut, NoCall
<1> QED BY <1>8, <1>9, <1>10, <1>11, <1>12, <1>13 DEF PoolInv

-------------------------------------------------------------------------------
(* Steps that leave the blocks as they are. *)
LEMMA SameBlocks ==
  ASSUME UNCHANGED <<carved, head, lists, cut, freeing, live>>
  PROVE  /\ Blocks' = Blocks /\ BlockSizes' = BlockSizes /\ FreeBlocks' = FreeBlocks
         /\ Owners(block)' = Owners(block) /\ Nodes' = Nodes /\ Spare' = Spare
         /\ Described' = Described
         /\ \A a : SizeOf(a)' = SizeOf(a)
         /\ \A a, b : Buddies(a, b)' = Buddies(a, b)
<1>1. carved' = carved /\ head' = head /\ flh' = flh /\ free_fln' = free_fln /\ block' = block
      /\ cut' = cut /\ freeing' = freeing /\ live' = live
  BY DEF lists
<1>2. \A a : SizeOf(a)' = SizeOf(a)
  BY <1>1 DEF SizeOf
<1>3. Described' = Described /\ Owners(block)' = Owners(block)
  BY <1>1 DEF Described, Owners
<1>4. Blocks' = Blocks /\ FreeBlocks' = FreeBlocks
  BY <1>1, <1>3 DEF Blocks, FreeBlocks
<1>5. BlockSizes' = BlockSizes
  BY <1>2, <1>4 DEF BlockSizes
<1>6. Nodes' = Nodes /\ Spare' = Spare
  BY <1>1 DEF Nodes, NodesOf, Spare
<1>7. \A a, b : Buddies(a, b)' = Buddies(a, b)
  BY <1>1 DEF Buddies
<1> QED BY <1>2, <1>3, <1>4, <1>5, <1>6, <1>7

LEMMA QuietStep ==
  ASSUME PoolInv, UNCHANGED <<carved, head, tail, lists, cut, freeing, live, taking>>,
         label' \in BOOLEAN,
         refused' \in [op : {"none", "load", "alloc", "free"}, arg : Addresses \cup Requests],
         ~label' => carved = Chunk /\ taking = None /\ freeing = None,
         carved < Chunk \/ freeing # None => refused' = NoCall,
         Refusals'
  PROVE  PoolInv'
<1>1. /\ Blocks' = Blocks /\ BlockSizes' = BlockSizes /\ FreeBlocks' = FreeBlocks
      /\ Owners(block)' = Owners(block) /\ Nodes' = Nodes /\ Spare' = Spare
      /\ Described' = Described
      /\ \A a : SizeOf(a)' = SizeOf(a)
      /\ \A a, b : Buddies(a, b)' = Buddies(a, b)
  BY SameBlocks
<1>2. carved' = carved /\ head' = head /\ flh' = flh /\ free_fln' = free_fln /\ block' = block
      /\ cut' = cut /\ freeing' = freeing /\ live' = live /\ tail' = tail /\ taking' = taking
  BY DEF lists
<1>3. TypeOK'
  BY <1>2 DEF PoolInv, TypeOK
<1>4. Tiled' /\ Tails'
  BY <1>1, <1>2 DEF PoolInv, Tiled, Tails
<1>5. Heads' /\ Served' /\ Listed'
  BY <1>1, <1>2 DEF PoolInv, Heads, Served, Listed
<1>6. Cutting'
  BY <1>1, <1>2 DEF PoolInv, Cutting
<1>7. Phases'
  BY <1>1, <1>2 DEF PoolInv, Phases
<1>8. Merged'
  <2>1. Halved' = Halved
    BY <1>2 DEF Halved
  <2>2. \A a, b : a \in (FreeBlocks \ Halved) /\ b \in FreeBlocks
                  /\ a + head[a].size = b /\ head[a].size < MaxSize => ~Buddies(a, b)
    BY DEF PoolInv, Merged
  <2> QED BY <1>1, <1>2, <2>1, <2>2 DEF Merged
<1> QED BY <1>3, <1>4, <1>5, <1>6, <1>7, <1>8 DEF PoolInv

LEMMA RefusedTypes ==
  /\ NoCall \in [op : {"none", "load", "alloc", "free"}, arg : Addresses \cup Requests]
  /\ \A o \in {"none", "load", "alloc", "free"}, x \in Addresses \cup Requests :
       [op |-> o, arg |-> x] \in [op : {"none", "load", "alloc", "free"}, arg : Addresses \cup Requests]
  /\ 0 \in Addresses
<1>1. 0 \in Addresses
  BY SizeAssumption DEF Addresses
<1> QED BY <1>1 DEF NoCall

LEMMA LoadInv == ASSUME PoolInv, Load PROVE PoolInv'
<1>1. /\ label' = label /\ UNCHANGED <<carved, head, tail, lists, cut, freeing, live, taking>>
      /\ (Idle \/ ~label) /\ (refused' = NoCall \/ refused' = [op |-> "load", arg |-> 0])
  BY DEF Load, Refuse, Succeed
<1>2. refused' \in [op : {"none", "load", "alloc", "free"}, arg : Addresses \cup Requests]
  BY <1>1, RefusedTypes
<1>3. carved = Chunk /\ freeing = None /\ Chunk \in Nat
  BY <1>1, SizeAssumption DEF Idle, PoolInv, Phases
<1>4. Refusals'
  BY <1>1 DEF Refusals, NoCall
<1> QED BY <1>1, <1>2, <1>3, <1>4, QuietStep DEF PoolInv, TypeOK, Phases

LEMMA DestroyInv == ASSUME PoolInv, Destroy PROVE PoolInv'
<1>1. /\ UNCHANGED <<carved, head, tail, lists, cut, freeing, live, taking>>
      /\ label' = FALSE /\ Idle /\ refused' = NoCall
  BY DEF Destroy, Succeed
<1>2. Refusals'
  BY <1>1 DEF Refusals, NoCall
<1> QED BY <1>1, <1>2, RefusedTypes, QuietStep DEF Idle

LEMMA FreeRejectInv == ASSUME PoolInv, NEW a \in Addresses, FreeReject(a) PROVE PoolInv'
<1>1. /\ UNCHANGED <<carved, head, tail, lists, cut, freeing, live, taking>>
      /\ label' = label /\ Idle /\ refused' = [op |-> "free", arg |-> a]
  BY DEF FreeReject, Refuse
<1>2. refused' \in [op : {"none", "load", "alloc", "free"}, arg : Addresses \cup Requests]
  BY <1>1, RefusedTypes
<1>3. Refusals'
  BY <1>1 DEF Refusals
<1>4. Chunk \in Nat /\ carved = Chunk /\ freeing = None /\ label' \in BOOLEAN
  BY <1>1, SizeAssumption DEF Idle, PoolInv, TypeOK
<1> QED BY <1>1, <1>2, <1>3, <1>4, QuietStep DEF Idle

(* A pool serves a request from idle, or from the block a split has made. *)
LEMMA ServesFacts ==
  ASSUME PoolInv, NEW n \in Requests, Serves(n)
  PROVE  /\ carved = Chunk /\ Chunk \in Nat /\ freeing = None /\ cut.at = None /\ n \in Nat
         /\ label
         /\ taking = None \/ (taking = n /\ ~TooLarge(n) /\ flh[FlhIdx(n)] # <<>>)
         /\ Blocks = DOMAIN live \cup Owners(block) /\ FreeBlocks = Owners(block)
         /\ \A a \in Owners(block) : SizeOf(a) = head[a].size
<1>1. Requests \subseteq Nat /\ None \notin Nat /\ Chunk \in Nat
  BY SizeAssumption DEF None
<1>2. carved \in 0 .. Chunk
  BY DEF PoolInv, TypeOK
<1>3. /\ carved = Chunk /\ freeing = None /\ cut.at = None /\ label
      /\ taking = None \/ (taking = n /\ ~TooLarge(n) /\ flh[FlhIdx(n)] # <<>>)
  <2>1. CASE Idle
    BY <2>1 DEF PoolInv, Phases, Idle
  <2>2. CASE taking = n /\ cut.at = None
    <3>1. taking # None
      BY <1>1, <2>2
    <3>2. ~(carved < Chunk) /\ freeing = None /\ ~TooLarge(n) /\ flh[FlhIdx(n)] # <<>>
      BY <2>2, <3>1 DEF PoolInv, Phases
    <3>3. label
      BY <3>1 DEF PoolInv, Phases, TypeOK
    <3> QED BY <1>1, <1>2, <2>2, <3>2, <3>3
  <2> QED BY <2>1, <2>2 DEF Serves
<1>4. DOMAIN live \cup Owners(block) \cup {freeing} = (DOMAIN live \cup Owners(block)) \cup {None}
      /\ None \notin DOMAIN live /\ None \notin Owners(block)
  <2>1. DOMAIN live \subseteq Addresses /\ None \notin Addresses
    BY DEF PoolInv, TypeOK, Addresses, None
  <2> QED BY <1>3, <2>1 DEF Owners
<1>5. Blocks = DOMAIN live \cup Owners(block) /\ FreeBlocks = Owners(block)
  <2>1. Blocks = (DOMAIN live \cup Owners(block) \cup {freeing}) \ {None}
        /\ FreeBlocks = Owners(block) \ {cut.at}
    BY BlockFacts
  <2> QED BY <1>3, <1>4, <2>1
<1>6. \A a \in Owners(block) : SizeOf(a) = head[a].size
  BY <1>3, <1>4 DEF SizeOf
<1> QED BY <1>1, <1>3, <1>5, <1>6

LEMMA AllocFailInv == ASSUME PoolInv, NEW n \in Requests, AllocFail(n) PROVE PoolInv'
<1>1. /\ UNCHANGED <<carved, head, tail, lists, cut, freeing, live>> /\ label' = label
      /\ Serves(n) /\ taking' = None /\ refused' = [op |-> "alloc", arg |-> n]
      /\ (~TooLarge(n) => \A c \in Classes : c >= FlhIdx(n) => flh[c] = <<>>)
  BY DEF AllocFail, Refuse, lst_empty
<1>2. /\ carved = Chunk /\ Chunk \in Nat /\ freeing = None /\ cut.at = None /\ n \in Nat
      /\ label
      /\ taking = None \/ (taking = n /\ ~TooLarge(n) /\ flh[FlhIdx(n)] # <<>>)
      /\ FreeBlocks = Owners(block)
      /\ \A a \in Owners(block) : SizeOf(a) = head[a].size
  BY <1>1, ServesFacts
<1>3. taking = None
  <2>1. ~TooLarge(n) => FlhIdx(n) \in Classes
    BY <1>2, ClassOfRequest
  <2>2. \A c \in Classes : c >= c
    BY ClassFacts
  <2> QED BY <1>1, <1>2, <2>1, <2>2
<1>4. ASSUME n > 0, NEW a \in Owners(block)
      PROVE  n + HEAD_TAIL_SIZE > MinBytes * SizeOf(a)
  <2>1. PICK c \in Classes : SizeOf(a) = BlockSize(c) /\ flh[c] # <<>>
    BY <1>2, FreeBlockListed
  <2>2. ~BlockFits(n, c)
    <3>1. CASE TooLarge(n)
      <4>1. ~BlockFits(n, MaxClass) /\ MaxClass \in Classes /\ c <= MaxClass
        BY <1>4, <3>1, <1>2, ClassFacts DEF TooLarge
      <4> QED BY <1>2, <4>1, FitsInLarger
    <3>2. CASE ~TooLarge(n)
      <4>1. /\ FlhIdx(n) \in Classes
            /\ \A d \in Classes : d < FlhIdx(n) => ~BlockFits(n, d)
        BY <1>2, <3>2, ClassOfRequest
      <4>2. c < FlhIdx(n)
        <5>1. ~(c >= FlhIdx(n))
          BY <1>1, <2>1, <3>2
        <5>2. \A d \in Classes : d \in Int
          BY ClassFacts
        <5> QED BY <4>1, <5>1, <5>2
      <4> QED BY <4>1, <4>2
    <3> QED BY <3>1, <3>2
  <2>3. BlockSize(c) \in Nat /\ MinBytes \in Nat
    BY SizeFacts, ClassFacts, SizeAssumption
  <2>4. MinBytes * BlockSize(c) \in Nat
    BY <2>3
  <2> QED BY <1>2, <2>1, <2>2, <2>4 DEF BlockFits, HEAD_TAIL_SIZE
<1>5. Refusals'
  <2>1. Owners(block)' = Owners(block) /\ \A a : SizeOf(a)' = SizeOf(a)
    BY <1>1, SameBlocks
  <2>2. n > 0 => \A a \in Owners(block) : n + HEAD_TAIL_SIZE > MinBytes * SizeOf(a)
    BY <1>4
  <2>3. refused'.arg = n
    BY <1>1
  <2> QED BY <2>1, <2>2, <2>3 DEF Refusals
<1>6. refused' \in [op : {"none", "load", "alloc", "free"}, arg : Addresses \cup Requests]
  BY <1>1, RefusedTypes
<1>7. UNCHANGED <<carved, head, tail, lists, cut, freeing, live, taking>>
  BY <1>1, <1>3
<1>8. label' \in BOOLEAN /\ label'
  BY <1>1, <1>2
<1>9. ~(carved < Chunk \/ freeing # None)
  BY <1>2
<1> QED BY <1>5, <1>6, <1>7, <1>8, <1>9, QuietStep

-------------------------------------------------------------------------------
(* The node _fetch_free_fln takes. *)
LEMMA SpareNodeFetched ==
  ASSUME PoolInv, free_fln # <<>>
  PROVE  LET f == lst_first(free_fln)
         IN  /\ f \in Flns /\ block[f] = None /\ f \in Spare
             /\ lst_pop_front(free_fln) \in Seq(Flns)
             /\ ListsOnce(lst_pop_front(free_fln), Spare \ {f})
<1> PICK l, T : l = free_fln /\ T = Spare
  OBVIOUS
<1>1. l \in Seq(Flns) /\ ListsOnce(l, T) /\ l # <<>>
  BY DEF PoolInv, TypeOK, Listed
<1>2. lst_first(l) \in T /\ lst_pop_front(l) \in Seq(Flns)
      /\ ListsOnce(lst_pop_front(l), T \ {lst_first(l)})
  BY <1>1, PopFrontOnce
<1>3. lst_first(l) \in Flns /\ block[lst_first(l)] = None
  BY <1>2 DEF Spare
<1> QED BY <1>2, <1>3

(* A step that makes a block a free: node f describes it and goes to the    *)
(* front of the list of class d.  The nodes are b before and e after, the   *)
(* heads h and k, the lists l and m; x is the block being split.            *)
Gaining(b, e, h, k, x, f, a, d, l, m) ==
  /\ DOMAIN b = Flns /\ f \in Flns /\ b[f] = None /\ a \notin {None, x}
  /\ d \in Classes /\ k[a].size = BlockSize(d)
  /\ e[f] = a /\ \A g \in Flns : g # f => e[g] = b[g]
  /\ \A g \in Flns : b[g] \notin {None, x} => k[b[g]].size = h[b[g]].size
  /\ \A c \in Classes : l[c] \in Seq(Flns) /\ ListsOnce(l[c], NodesOf(b, h, x, c))
  /\ m[d] = lst_push_front(l[d], f) /\ \A c \in Classes : c # d => m[c] = l[c]

LEMMA GainedOwners ==
  ASSUME NEW b, NEW e, NEW h, NEW k, NEW x, NEW f, NEW a, NEW d, NEW l, NEW m,
         Gaining(b, e, h, k, x, f, a, d, l, m)
  PROVE  Owners(e) = Owners(b) \cup {a}
<1>1. /\ f \in Flns /\ b[f] = None /\ a # None
      /\ e[f] = a /\ \A g \in Flns : g # f => e[g] = b[g]
  BY DEF Gaining
<1>2. Owners(e) \subseteq Owners(b) \cup {a}
  BY <1>1 DEF Owners
<1>3. Owners(b) \cup {a} \subseteq Owners(e)
  BY <1>1 DEF Owners
<1> QED BY <1>2, <1>3

LEMMA GainedNodes ==
  ASSUME NEW b, NEW e, NEW h, NEW k, NEW x, NEW f, NEW a, NEW d, NEW l, NEW m,
         Gaining(b, e, h, k, x, f, a, d, l, m)
  PROVE  \A c \in Classes : m[c] \in Seq(Flns) /\ ListsOnce(m[c], NodesOf(e, k, x, c))
<1> DEFINE N(c) == NodesOf(b, h, x, c)
           K(c) == NodesOf(e, k, x, c)
<1>1. /\ f \in Flns /\ d \in Classes
      /\ \A c \in Classes : l[c] \in Seq(Flns) /\ ListsOnce(l[c], N(c))
      /\ m[d] = lst_push_front(l[d], f) /\ \A c \in Classes : c # d => m[c] = l[c]
  BY DEF Gaining
<1>2. \A c \in Classes : N(c) \subseteq Flns /\ K(c) \subseteq Flns /\ f \notin N(c)
  BY DEF Gaining, NodesOf
<1>3. \A c \in Classes : \A g \in Flns : g # f => (g \in K(c) <=> g \in N(c))
  BY DEF Gaining, NodesOf
<1>4. \A c \in Classes : f \in K(c) <=> c = d
  BY SizeFacts, ClassFacts DEF Gaining, NodesOf
<1> HIDE DEF N, K
<1>5. K(d) = N(d) \cup {f}
  BY <1>1, <1>2, <1>3, <1>4
<1>6. ASSUME NEW c \in Classes, c # d PROVE K(c) = N(c)
  <2>1. K(c) \subseteq N(c) /\ N(c) \subseteq K(c)
    BY <1>2, <1>3, <1>4, <1>6
  <2> QED BY <2>1
<1>7. m[d] \in Seq(Flns) /\ ListsOnce(m[d], K(d))
  <2> PICK s, T : s = l[d] /\ T = N(d)
    OBVIOUS
  <2>1. s \in Seq(Flns) /\ ListsOnce(s, T) /\ f \notin T /\ f \in Flns
    BY <1>1, <1>2
  <2>2. lst_push_front(s, f) \in Seq(Flns) /\ ListsOnce(lst_push_front(s, f), T \cup {f})
    BY <2>1, PushFrontOnce
  <2> QED BY <1>1, <1>5, <2>2
<1>8. ASSUME NEW c \in Classes, c # d PROVE m[c] \in Seq(Flns) /\ ListsOnce(m[c], K(c))
  BY <1>1, <1>6, <1>8
<1> QED BY <1>7, <1>8 DEF K

LEMMA GainStep ==
  ASSUME PoolInv, NEW f \in Flns, block[f] = None, NEW a, a # None, a # cut.at,
         NEW d \in Classes, head'[a].size = BlockSize(d),
         block' = [block EXCEPT ![f] = a], cut'.at = cut.at,
         \A g \in Flns : block[g] \notin {None, cut.at}
                         => head'[block[g]].size = head[block[g]].size,
         flh' = [flh EXCEPT ![d] = lst_push_front(@, f)]
  PROVE  /\ flh' \in [Classes -> Seq(Flns)]
         /\ \A c \in Classes : ListsOnce(flh'[c], Nodes'[c])
         /\ Owners(block') = Owners(block) \cup {a}
         /\ Spare' = Spare \ {f}
<1>1. DOMAIN block = Flns /\ flh \in [Classes -> Seq(Flns)]
      /\ \A c \in Classes : ListsOnce(flh[c], Nodes[c])
  BY DEF PoolInv, TypeOK, Listed
<1>2. block'[f] = a /\ \A g \in Flns : g # f => block'[g] = block[g]
  BY <1>1
<1>3. Spare' = Spare \ {f}
  BY <1>2 DEF Spare
<1>4. \A c \in Classes : Nodes[c] = NodesOf(block, head, cut.at, c)
                         /\ Nodes'[c] = NodesOf(block', head', cut.at, c)
  BY DEF Nodes
<1>5. Gaining(block, block', head, head', cut.at, f, a, d, flh, flh')
  BY <1>1, <1>2, <1>4 DEF Gaining
<1>6. \A c \in Classes : flh'[c] \in Seq(Flns) /\ ListsOnce(flh'[c], Nodes'[c])
  <2>1. \A c \in Classes : flh'[c] \in Seq(Flns)
                            /\ ListsOnce(flh'[c], NodesOf(block', head', cut.at, c))
    BY <1>5, GainedNodes, ZenonT(30)
  <2> QED BY <1>4, <2>1
<1>7. Owners(block') = Owners(block) \cup {a}
  BY <1>5, GainedOwners
<1>8. flh' \in [Classes -> Seq(Flns)]
  BY <1>1, <1>6
<1> QED BY <1>3, <1>6, <1>7, <1>8

(* A step that takes the node f of a block of class d from it. *)
Losing(b, e, h, k, x, f, d) ==
  /\ DOMAIN b = Flns /\ f \in Flns /\ b[f] \notin {None, x}
  /\ d \in Classes /\ h[b[f]].size = BlockSize(d)
  /\ \A g \in Flns : b[g] = b[f] => g = f
  /\ e[f] = None /\ \A g \in Flns : g # f => e[g] = b[g]
  /\ \A g \in Flns : g # f /\ b[g] \notin {None, x} => k[b[g]].size = h[b[g]].size

LEMMA LostOwners ==
  ASSUME NEW b, NEW e, NEW h, NEW k, NEW x, NEW f, NEW d, Losing(b, e, h, k, x, f, d)
  PROVE  Owners(e) = Owners(b) \ {b[f]}
<1>1. /\ f \in Flns /\ e[f] = None
      /\ \A g \in Flns : g # f => e[g] = b[g] /\ b[g] # b[f]
  BY DEF Losing
<1>2. Owners(e) \subseteq Owners(b) \ {b[f]}
  BY <1>1 DEF Owners
<1>3. Owners(b) \ {b[f]} \subseteq Owners(e)
  BY <1>1 DEF Owners
<1> QED BY <1>2, <1>3

LEMMA LostNodes ==
  ASSUME NEW b, NEW e, NEW h, NEW k, NEW x, NEW f, NEW d, Losing(b, e, h, k, x, f, d)
  PROVE  /\ NodesOf(e, k, x, d) = NodesOf(b, h, x, d) \ {f}
         /\ f \in NodesOf(b, h, x, d)
         /\ \A c \in Classes : c # d => /\ NodesOf(e, k, x, c) = NodesOf(b, h, x, c)
                                        /\ f \notin NodesOf(b, h, x, c)
<1> DEFINE N(c) == NodesOf(b, h, x, c)
           K(c) == NodesOf(e, k, x, c)
<1>1. f \in Flns /\ d \in Classes
  BY DEF Losing
<1>2. \A c \in Classes : N(c) \subseteq Flns /\ K(c) \subseteq Flns /\ f \notin K(c)
  BY DEF Losing, NodesOf
<1>3. \A c \in Classes : \A g \in Flns : g # f => (g \in K(c) <=> g \in N(c))
  BY DEF Losing, NodesOf
<1>4. \A c \in Classes : f \in N(c) <=> c = d
  BY SizeFacts, ClassFacts DEF Losing, NodesOf
<1> HIDE DEF N, K
<1>5. K(d) = N(d) \ {f}
  BY <1>1, <1>2, <1>3, <1>4
<1>6. ASSUME NEW c \in Classes, c # d PROVE K(c) = N(c)
  <2>1. K(c) \subseteq N(c) /\ N(c) \subseteq K(c)
    BY <1>2, <1>3, <1>4, <1>6
  <2> QED BY <2>1
<1> QED BY <1>1, <1>4, <1>5, <1>6 DEF N, K

LEMMA LoseStep ==
  ASSUME PoolInv, NEW f \in Flns, block[f] # None, block[f] # cut.at,
         NEW d \in Classes, head[block[f]].size = BlockSize(d),
         block' = [block EXCEPT ![f] = None], cut'.at = cut.at,
         \A g \in Flns : g # f /\ block[g] \notin {None, cut.at}
                         => head'[block[g]].size = head[block[g]].size
  PROVE  /\ f \in Nodes[d] /\ Nodes'[d] = Nodes[d] \ {f}
         /\ \A c \in Classes : c # d => Nodes'[c] = Nodes[c] /\ f \notin Nodes[c]
         /\ Owners(block') = Owners(block) \ {block[f]}
         /\ Spare' = Spare \cup {f} /\ f \notin Spare
<1>1. DOMAIN block = Flns
  BY DEF PoolInv, TypeOK
<1>2. block'[f] = None /\ \A g \in Flns : g # f => block'[g] = block[g]
  BY <1>1
<1>3. Spare' = Spare \cup {f} /\ f \notin Spare
  BY <1>2 DEF Spare
<1>4. \A c \in Classes : Nodes[c] = NodesOf(block, head, cut.at, c)
                         /\ Nodes'[c] = NodesOf(block', head', cut.at, c)
  BY DEF Nodes
<1>5. Losing(block, block', head, head', cut.at, f, d)
  <2>1. \A g \in Flns : block[g] = block[f] => g = f
    BY OwnerFacts
  <2> QED BY <1>1, <1>2, <2>1 DEF Losing
<1>6. /\ NodesOf(block', head', cut.at, d) = NodesOf(block, head, cut.at, d) \ {f}
      /\ f \in NodesOf(block, head, cut.at, d)
      /\ \A c \in Classes : c # d =>
           /\ NodesOf(block', head', cut.at, c) = NodesOf(block, head, cut.at, c)
           /\ f \notin NodesOf(block, head, cut.at, c)
  <2>1. PICK b, e, h, k, x :
          b = block /\ e = block' /\ h = head /\ k = head' /\ x = cut.at
    OBVIOUS
  <2>2. Losing(b, e, h, k, x, f, d)
    BY <1>5, <2>1
  <2>3. /\ NodesOf(e, k, x, d) = NodesOf(b, h, x, d) \ {f}
        /\ f \in NodesOf(b, h, x, d)
        /\ \A c \in Classes : c # d => /\ NodesOf(e, k, x, c) = NodesOf(b, h, x, c)
                                       /\ f \notin NodesOf(b, h, x, c)
    BY <2>2, LostNodes, ZenonT(30)
  <2> QED BY <2>1, <2>3
<1>7. Owners(block') = Owners(block) \ {block[f]}
  BY <1>5, LostOwners
<1> QED BY <1>3, <1>4, <1>6, <1>7

LEMMA BlocksOf ==
  /\ Blocks = (DOMAIN live \cup Owners(block) \cup {cut.at, freeing}) \ {None}
  /\ FreeBlocks = Owners(block) \ {cut.at}
  /\ Blocks' = (DOMAIN live' \cup Owners(block') \cup {cut'.at, freeing'}) \ {None}
  /\ FreeBlocks' = Owners(block') \ {cut'.at}
BY DEF Blocks, FreeBlocks, Described, Owners

-------------------------------------------------------------------------------
(* _mmp_init_chunk makes one more largest block. *)
LEMMA CarveRoom ==
  ASSUME PoolInv, carved < Chunk
  PROVE  /\ carved + MaxSize <= Chunk /\ carved + MaxSize \in 0 .. Chunk
         /\ carved \in 0 .. Chunk /\ carved \in Addresses /\ carved # Chunk /\ carved # None
         /\ carved \in Nat /\ carved + MaxSize > carved
<1>1. MaxSize \in Nat \ {0} /\ Chunk \in Nat \ {0} /\ carved \in Nat
  BY SizesOrder, BlockFacts
<1>2. Divides(MaxSize, Chunk)
  BY <1>1, SizeAssumption, DividesModulo
<1>3. PICK i \in Nat, j \in Nat : carved = i * MaxSize /\ Chunk = j * MaxSize
  BY <1>2 DEF PoolInv, Tiled, Divides
<1>4. i < j
  BY <1>1, <1>3, TimesStrict
<1>5. i * MaxSize + MaxSize <= j * MaxSize
  BY <1>1, <1>4, SlotsApart
<1>6. carved + MaxSize <= Chunk
  BY <1>3, <1>5
<1> QED BY <1>1, <1>6 DEF Addresses, None

LEMMA CarveInv == ASSUME PoolInv, Carve PROVE PoolInv'
<1>1. /\ carved < Chunk /\ free_fln # <<>> /\ carved' = carved + MaxSize
      /\ UNCHANGED <<label, taking, cut, freeing, live, refused>>
  BY DEF Carve, MakeFree, lst_new
<1>2. /\ carved + MaxSize <= Chunk /\ carved + MaxSize \in 0 .. Chunk
      /\ carved \in 0 .. Chunk /\ carved \in Addresses /\ carved # Chunk /\ carved # None
      /\ carved \in Nat /\ carved + MaxSize > carved
  BY <1>1, CarveRoom
<1>3. PICK f : f = lst_first(free_fln)
  OBVIOUS
<1>4. /\ f \in Flns /\ block[f] = None /\ f \in Spare
      /\ lst_pop_front(free_fln) \in Seq(Flns)
      /\ ListsOnce(lst_pop_front(free_fln), Spare \ {f})
  BY <1>1, <1>3, SpareNodeFetched
<1>5. /\ head' = [head EXCEPT ![carved] = [used |-> FALSE, fln |-> f, size |-> MaxSize]]
      /\ tail' = [tail EXCEPT ![carved + MaxSize] = MaxSize]
      /\ flh' = [flh EXCEPT ![Log2(MaxSize)] = lst_push_front(@, f)]
      /\ block' = [block EXCEPT ![f] = carved]
      /\ free_fln' = lst_pop_front(free_fln)
  BY <1>3 DEF Carve, MakeFree, Fetched
<1>6. taking = None /\ freeing = None /\ cut.at = None /\ label /\ refused = NoCall
  BY <1>1 DEF PoolInv, Phases, TypeOK
<1>7. /\ head \in [0 .. Chunk -> [used : BOOLEAN, fln : Flns, size : 0 .. MaxSize]]
      /\ tail \in [0 .. Chunk -> 0 .. MaxSize] /\ block \in [Flns -> Addresses \cup {None}]
  BY DEF PoolInv, TypeOK
<1>8. MaxSize \in 0 .. MaxSize /\ MaxSize \in Nat \ {0} /\ MaxSize = BlockSize(MaxClass)
      /\ MaxClass \in Classes /\ Log2(MaxSize) = MaxClass
  <2>1. MaxSize \in Nat \ {0} /\ MaxClass \in Classes
    BY SizesOrder, ClassFacts
  <2>2. MaxSize \in 0 .. MaxSize
    BY <2>1
  <2>3. MaxSize = BlockSize(MaxClass) /\ Log2(BlockSize(MaxClass)) = MaxClass
    BY <2>1, LogOfSize DEF MaxSize
  <2> QED BY <2>1, <2>2, <2>3
<1>9. Tile(Blocks, BlockSizes, carved) /\ Divides(MaxSize, carved) /\ carved \notin Blocks
  <2>1. Tile(Blocks, BlockSizes, carved) /\ Divides(MaxSize, carved)
    BY DEF PoolInv, Tiled
  <2>2. \A a \in Blocks : a \in Nat /\ SizeOf(a) \in Nat \ {0} /\ a + SizeOf(a) <= carved
    BY BlockFacts
  <2> QED BY <1>2, <2>1, <2>2
<1>10. head'[carved] = [used |-> FALSE, fln |-> f, size |-> MaxSize]
       /\ \A a \in 0 .. Chunk : a # carved => head'[a] = head[a]
  BY <1>2, <1>5, <1>7
<1>11. tail'[carved + MaxSize] = MaxSize
       /\ \A a \in 0 .. Chunk : a # carved + MaxSize => tail'[a] = tail[a]
  BY <1>2, <1>5, <1>7
<1>12. \A a \in Blocks : a \in 0 .. Chunk /\ a # carved /\ head'[a] = head[a]
  BY <1>9, <1>10, BlockFacts DEF Addresses
<1>13. \A g \in Flns : block[g] # None => block[g] \in Blocks
  BY OwnerFacts
<1>14. /\ flh' \in [Classes -> Seq(Flns)]
       /\ \A c \in Classes : ListsOnce(flh'[c], Nodes'[c])
       /\ Owners(block') = Owners(block) \cup {carved}
       /\ Spare' = Spare \ {f}
  <2>1. \A g \in Flns : block[g] \notin {None, cut.at}
                         => head'[block[g]].size = head[block[g]].size
    BY <1>12, <1>13
  <2>2. head'[carved].size = BlockSize(MaxClass) /\ cut' = cut
    BY <1>1, <1>8, <1>10
  <2> QED BY <1>2, <1>4, <1>5, <1>6, <1>8, <2>1, <2>2, GainStep
<1>15. Blocks' = Blocks \cup {carved} /\ FreeBlocks' = FreeBlocks \cup {carved}
  BY <1>1, <1>2, <1>6, <1>14, BlocksOf
<1>16. \A a : SizeOf(a)' = head'[a].size \/ a = None
  BY <1>1, <1>6 DEF SizeOf
<1>17. \A a \in Blocks : SizeOf(a)' = SizeOf(a) /\ SizeOf(a) = head[a].size
  BY <1>6, <1>12, <1>16 DEF SizeOf, None
<1>18. TypeOK'
  <2>1. carved' \in 0 .. Chunk
    BY <1>1, <1>2
  <2>2. head' \in [0 .. Chunk -> [used : BOOLEAN, fln : Flns, size : 0 .. MaxSize]]
    BY <1>4, <1>5, <1>7, <1>8
  <2>3. tail' \in [0 .. Chunk -> 0 .. MaxSize] /\ block' \in [Flns -> Addresses \cup {None}]
    BY <1>2, <1>4, <1>5, <1>7, <1>8
  <2> QED BY <1>1, <1>4, <1>5, <1>14, <2>1, <2>2, <2>3 DEF PoolInv, TypeOK
<1>19. Tiled'
  <2>1. \A a \in Blocks : BlockSizes'[a] = BlockSizes[a]
    BY <1>15, <1>17 DEF BlockSizes
  <2>2. BlockSizes'[carved] = MaxSize
    BY <1>2, <1>10, <1>15, <1>16 DEF BlockSizes
  <2>3. Tile(Blocks \cup {carved}, BlockSizes', carved + MaxSize)
        /\ Divides(MaxSize, carved + MaxSize)
    BY <1>9, <2>1, <2>2, TileAppend
  <2> QED BY <1>1, <1>15, <2>3 DEF Tiled
<1>20. Tails'
  <2>1. ASSUME NEW a \in Blocks PROVE tail'[a + SizeOf(a)'] = SizeOf(a)'
    <3>1. tail[a + SizeOf(a)] = SizeOf(a)
      BY <1>6, <1>12, <1>2 DEF PoolInv, Tails, None
    <3>2. a + SizeOf(a) \in 0 .. Chunk /\ a + SizeOf(a) <= carved
      BY BlockFacts
    <3> QED BY <1>2, <1>11, <1>17, <3>1, <3>2
  <2>2. \A a : a = carved => SizeOf(a)' = MaxSize
    BY <1>2, <1>10, <1>16
  <2> QED BY <1>11, <1>15, <2>1, <2>2 DEF Tails
<1>21. Heads'
  <2>1. carved \notin DOMAIN live
    BY <1>9, OwnerFacts
  <2>2. \A a \in 0 .. Chunk : head'[a].used <=> a \in DOMAIN live
    BY <1>10, <2>1 DEF PoolInv, Heads
  <2>3. head'[Chunk] = NoHead
    BY <1>2, <1>10, BlockFacts DEF PoolInv, Heads
  <2>4. \A g \in Flns : block'[g] # None =>
          block'[g] \notin DOMAIN live /\ head'[block'[g]].fln = g
    <3> TAKE g \in Flns
    <3>1. CASE g = f
      BY <1>4, <1>5, <1>7, <1>10, <2>1, <3>1
    <3>2. CASE g # f
      <4>1. block'[g] = block[g]
        BY <1>5, <3>2
      <4> QED BY <1>12, <1>13, <4>1 DEF PoolInv, Heads
    <3> QED BY <3>1, <3>2
  <2> QED BY <1>1, <2>2, <2>3, <2>4 DEF Heads
<1>22. Listed'
  BY <1>4, <1>5, <1>14 DEF Listed
<1>23. Cutting'
  BY <1>1, <1>6 DEF Cutting
<1>24. Phases'
  <2>1. carved' # carved
    BY <1>1, <1>2
  <2> QED BY <1>1, <1>6 DEF Phases
<1>25. Merged'
  <2>1. Halved = {} /\ Halved' = {}
    BY <1>1, <1>6 DEF Halved
  <2>2. ASSUME NEW a \in FreeBlocks', NEW b \in FreeBlocks',
               a + head'[a].size = b, head'[a].size < MaxSize, Buddies(a, b)'
        PROVE  FALSE
    <3>1. a # carved
      BY <1>8, <1>10, <2>2
    <3>2. b # carved
      <4>1. head'[a].size = head'[b].size
        BY <2>2 DEF Buddies
      <4> QED BY <1>8, <1>10, <2>2, <4>1
    <3>3. a \in FreeBlocks /\ b \in FreeBlocks
      BY <1>15, <3>1, <3>2
    <3>4. head'[a] = head[a] /\ head'[b] = head[b]
      <4>1. a \in Blocks /\ b \in Blocks
        BY <3>3, BlocksOf, OwnerFacts
      <4> QED BY <1>12, <4>1
    <3>5. Buddies(a, b)
      BY <2>2, <3>4 DEF Buddies
    <3> QED BY <2>1, <2>2, <3>3, <3>4, <3>5 DEF PoolInv, Merged
  <2> QED BY <2>1, <2>2 DEF Merged
<1>26. Refusals'
  BY <1>1, <1>6 DEF Refusals, NoCall
<1>27. Served'
  BY <1>1, <1>12, OwnerFacts DEF PoolInv, Served
<1> QED BY <1>18, <1>19, <1>20, <1>21, <1>22, <1>23, <1>24, <1>25, <1>26, <1>27 DEF PoolInv

-------------------------------------------------------------------------------
(* A node that becomes spare goes to the front of the spare ones. *)
LEMMA Returned ==
  ASSUME PoolInv, NEW f \in Flns, f \notin Spare
  PROVE  /\ lst_push_front(free_fln, f) \in Seq(Flns)
         /\ ListsOnce(lst_push_front(free_fln, f), Spare \cup {f})
         /\ lst_remove(free_fln, f) = free_fln
<1> PICK l, T : l = free_fln /\ T = Spare
  OBVIOUS
<1>1. l \in Seq(Flns) /\ ListsOnce(l, T) /\ f \notin T
  BY DEF PoolInv, TypeOK, Listed
<1>2. lst_push_front(l, f) \in Seq(Flns) /\ ListsOnce(lst_push_front(l, f), T \cup {f})
  BY <1>1, PushFrontOnce
<1>3. lst_remove(l, f) = l
  BY <1>1, RemoveAbsent
<1> QED BY <1>2, <1>3

(* No block begins inside another. *)
LEMMA Interior ==
  ASSUME PoolInv, NEW a \in Blocks
  PROVE  /\ \A x \in Blocks : ~(a + 1 <= x /\ x <= (a + SizeOf(a)) - 1)
         /\ \A x \in Blocks : ~(a + 1 <= x + SizeOf(x) /\ x + SizeOf(x) <= (a + SizeOf(a)) - 1)
         /\ ~(a + 1 <= carved /\ carved <= (a + SizeOf(a)) - 1)
<1> PICK s : s = SizeOf(a)
  OBVIOUS
<1>1. a \in Nat /\ s \in Nat \ {0} /\ a + s <= carved /\ carved \in Nat
  BY BlockFacts
<1>2. \A x \in Blocks : x \in Nat /\ (a < x => a + s <= x)
  BY BlockFacts
<1>3. \A x \in Blocks : ~(a + 1 <= x /\ x <= (a + s) - 1)
  BY <1>1, <1>2
<1>4. ~(a + 1 <= carved /\ carved <= (a + s) - 1)
  BY <1>1
<1>5. \A x \in Blocks : x + SizeOf(x) \in Blocks \cup {carved}
  BY BlockFacts
<1> QED BY <1>3, <1>4, <1>5

(* _take_free_node finds a block of the request's class. *)
LEMMA TakeExactInv == ASSUME PoolInv, NEW n \in Requests, TakeExact(n) PROVE PoolInv'
<1>1. PICK c, f, a, s : c = FlhIdx(n) /\ f = lst_first(flh[c]) /\ a = block[f] /\ s = head[a].size
  OBVIOUS
<1>2. /\ Serves(n) /\ ~TooLarge(n) /\ flh[c] # <<>>
      /\ flh' = [flh EXCEPT ![c] = lst_pop_front(@)]
      /\ free_fln' = lst_push_front(free_fln, f)
      /\ block' = [block EXCEPT ![f] = None]
      /\ taking' = None
      /\ UNCHANGED <<label, carved, cut, freeing>>
  BY <1>1 DEF TakeExact, lst_empty
<1>3. /\ carved = Chunk /\ Chunk \in Nat /\ freeing = None /\ cut.at = None /\ n \in Nat
      /\ label
      /\ taking = None \/ (taking = n /\ ~TooLarge(n) /\ flh[FlhIdx(n)] # <<>>)
      /\ Blocks = DOMAIN live \cup Owners(block) /\ FreeBlocks = Owners(block)
      /\ \A x \in Owners(block) : SizeOf(x) = head[x].size
  BY <1>2, ServesFacts
<1>4. c \in Classes /\ BlockFits(n, c)
  BY <1>1, <1>2, <1>3, ClassOfRequest
<1>5. /\ f \in Flns /\ f \in Nodes[c] /\ a \in FreeBlocks /\ a \in Owners(block) /\ a \in Blocks
      /\ a # None /\ a \in Nat /\ s = BlockSize(c) /\ SizeOf(a) = s
  <2>1. a \in Owners(block) => a # None
    BY DEF Owners
  <2> QED BY <1>1, <1>2, <1>4, <2>1, FirstOfList
<1>6. ~head[a].used /\ a \notin DOMAIN live
  BY <1>5, OwnerFacts
<1>7. /\ head' = Overwritten([head EXCEPT ![a].used = TRUE, ![a].fln = 0], a + 1, (a + s) - 1, NoHead)
      /\ tail' = Overwritten(tail, a + 1, (a + s) - 1, 0)
      /\ live' = [b \in DOMAIN live \cup {a} |-> IF b = a THEN n ELSE live[b]]
      /\ refused' = NoCall
  BY <1>1, <1>6 DEF TakeExact, Succeed
<1>8. /\ head \in [0 .. Chunk -> [used : BOOLEAN, fln : Flns, size : 0 .. MaxSize]]
      /\ tail \in [0 .. Chunk -> 0 .. MaxSize] /\ block \in [Flns -> Addresses \cup {None}]
      /\ live \in [DOMAIN live -> Requests] /\ DOMAIN live \subseteq Addresses
  BY DEF PoolInv, TypeOK
<1>9. a \in 0 .. Chunk /\ a \in Addresses /\ a # Chunk /\ s \in Nat \ {0} /\ 0 \in Flns
      /\ Chunk \in Nat \ {0} /\ MaxSize \in Nat /\ 0 \in 0 .. MaxSize
  <2>1. a \in Addresses /\ s \in Nat \ {0} /\ Chunk \in Nat \ {0}
    BY <1>5, BlockFacts
  <2>2. FlnCount \in Nat \ {0} /\ MaxSize \in Nat
    BY <2>1, SizeAssumption, SizesOrder
  <2> QED BY <2>1, <2>2 DEF Addresses, Flns
<1>10. /\ \A x \in Blocks : ~(a + 1 <= x /\ x <= (a + s) - 1)
       /\ \A x \in Blocks : ~(a + 1 <= x + SizeOf(x) /\ x + SizeOf(x) <= (a + s) - 1)
       /\ ~(a + 1 <= Chunk /\ Chunk <= (a + s) - 1)
  BY <1>3, <1>5, Interior
<1>11. ~(a + 1 <= a /\ a <= (a + s) - 1)
  BY <1>5
<1> DEFINE g == [head EXCEPT ![a].used = TRUE, ![a].fln = 0]
           in(x) == a + 1 <= x /\ x <= (a + s) - 1
<1>12. /\ g \in [0 .. Chunk -> [used : BOOLEAN, fln : Flns, size : 0 .. MaxSize]]
       /\ g[a].used /\ g[a].size = s
       /\ \A x \in 0 .. Chunk : x # a => g[x] = head[x]
  <2>1. head[a] \in [used : BOOLEAN, fln : Flns, size : 0 .. MaxSize]
    BY <1>8, <1>9
  <2>2. DOMAIN g = 0 .. Chunk /\ g = [x \in 0 .. Chunk |-> g[x]]
    BY <1>8
  <2>3. \A x \in 0 .. Chunk : x # a => g[x] = head[x]
    BY <1>8
  <2>4. g[a] = [[head[a] EXCEPT !.used = TRUE] EXCEPT !.fln = 0]
    BY <1>8, <1>9
  <2>5. g[a].used /\ g[a].size = s /\ g[a] \in [used : BOOLEAN, fln : Flns, size : 0 .. MaxSize]
    <3>1. PICK r : r = head[a]
      OBVIOUS
    <3>2. r.size = s /\ r \in [used : BOOLEAN, fln : Flns, size : 0 .. MaxSize] /\ 0 \in Flns
      BY <1>1, <1>9, <2>1, <3>1
    <3>3. g[a] = [[r EXCEPT !.used = TRUE] EXCEPT !.fln = 0]
      BY <2>4, <3>1
    <3> QED BY <3>2, <3>3
  <2>6. \A x \in 0 .. Chunk : g[x] \in [used : BOOLEAN, fln : Flns, size : 0 .. MaxSize]
    BY <1>8, <2>3, <2>5
  <2> QED BY <2>2, <2>3, <2>5, <2>6
<1> HIDE DEF g
<1>13. /\ \A x \in 0 .. Chunk : head'[x] = IF in(x) THEN NoHead ELSE g[x]
       /\ DOMAIN head' = 0 .. Chunk /\ head' = [x \in 0 .. Chunk |-> head'[x]]
  BY <1>7, <1>12 DEF Overwritten, g
<1>14. /\ \A x \in 0 .. Chunk : tail'[x] = IF in(x) THEN 0 ELSE tail[x]
       /\ DOMAIN tail' = 0 .. Chunk /\ tail' = [x \in 0 .. Chunk |-> tail'[x]]
  BY <1>7, <1>8 DEF Overwritten
<1> HIDE DEF in
<1>15. ~in(a) /\ ~in(Chunk) /\ \A x \in Blocks : ~in(x) /\ ~in(x + SizeOf(x))
  BY <1>10, <1>11 DEF in
<1>16. \A x \in Blocks : x \in 0 .. Chunk /\ x + SizeOf(x) \in 0 .. Chunk
  BY BlockFacts DEF Addresses
<1>17. /\ \A x \in Blocks : x # a => head'[x] = head[x]
       /\ head'[a].used /\ head'[a].size = s
       /\ \A x \in Blocks : head'[x].size = head[x].size
       /\ \A x \in Blocks : tail'[x + SizeOf(x)] = tail[x + SizeOf(x)]
  BY <1>1, <1>9, <1>12, <1>13, <1>14, <1>15, <1>16
<1>18. \A h \in Flns : block[h] # None => block[h] \in Blocks
  BY OwnerFacts
<1>19. /\ f \in Nodes[c] /\ Nodes'[c] = Nodes[c] \ {f}
       /\ \A d \in Classes : d # c => Nodes'[d] = Nodes[d] /\ f \notin Nodes[d]
       /\ Owners(block') = Owners(block) \ {a}
       /\ Spare' = Spare \cup {f} /\ f \notin Spare
  <2>1. \A h \in Flns : h # f /\ block[h] \notin {None, cut.at}
                        => head'[block[h]].size = head[block[h]].size
    BY <1>17, <1>18
  <2>2. block[f] # None /\ block[f] # cut.at /\ head[block[f]].size = BlockSize(c) /\ cut' = cut
    BY <1>1, <1>2, <1>3, <1>5
  <2>3. /\ f \in Nodes[c] /\ Nodes'[c] = Nodes[c] \ {f}
        /\ \A d \in Classes : d # c => Nodes'[d] = Nodes[d] /\ f \notin Nodes[d]
        /\ Owners(block') = Owners(block) \ {block[f]}
        /\ Spare' = Spare \cup {f} /\ f \notin Spare
    BY <1>2, <1>4, <1>5, <2>1, <2>2, LoseStep
  <2> QED BY <1>1, <2>3
<1>20. Blocks' = Blocks /\ FreeBlocks' = FreeBlocks \ {a} /\ DOMAIN live' = DOMAIN live \cup {a}
  <2>1. DOMAIN live' = DOMAIN live \cup {a}
    BY <1>7
  <2>2. Blocks' = (DOMAIN live' \cup Owners(block') \cup {None}) \ {None}
        /\ FreeBlocks' = Owners(block') \ {None}
    BY <1>2, <1>3, BlocksOf
  <2>3. None \notin Blocks /\ None \notin Owners(block)
    BY BlocksOf DEF Owners
  <2> QED BY <1>3, <1>5, <1>19, <2>1, <2>2, <2>3
<1>21. \A x \in Blocks : SizeOf(x)' = SizeOf(x)
  <2>1. \A x \in Blocks : x # None
    BY BlocksOf
  <2> QED BY <1>2, <1>3, <1>17, <2>1 DEF SizeOf
<1>22. TypeOK'
  <2>1. head' \in [0 .. Chunk -> [used : BOOLEAN, fln : Flns, size : 0 .. MaxSize]]
    <3>1. NoHead \in [used : BOOLEAN, fln : Flns, size : 0 .. MaxSize]
      BY <1>9 DEF NoHead
    <3>2. \A x \in 0 .. Chunk : head'[x] \in [used : BOOLEAN, fln : Flns, size : 0 .. MaxSize]
      BY <1>12, <1>13, <3>1
    <3> QED BY <1>13, <3>2
  <2>2. tail' \in [0 .. Chunk -> 0 .. MaxSize]
    <3>1. \A x \in 0 .. Chunk : tail'[x] \in 0 .. MaxSize
      BY <1>8, <1>9, <1>14
    <3> QED BY <1>14, <3>1
  <2>3. block' \in [Flns -> Addresses \cup {None}]
    BY <1>2, <1>8
  <2>4. live' \in [DOMAIN live' -> Requests] /\ DOMAIN live' \subseteq Addresses
    BY <1>7, <1>8, <1>9, <1>20
  <2>5. free_fln' \in Seq(Flns)
    BY <1>2, <1>5, <1>19, Returned
  <2>6. flh' \in [Classes -> Seq(Flns)]
    <3>1. flh \in [Classes -> Seq(Flns)]
      BY DEF PoolInv, TypeOK
    <3>2. lst_pop_front(flh[c]) \in Seq(Flns)
      <4>1. PICK l : l = flh[c]
        OBVIOUS
      <4>2. l \in Seq(Flns) /\ l # <<>>
        BY <1>2, <1>4, <3>1, <4>1
      <4> QED BY <4>1, <4>2 DEF lst_pop_front
    <3> QED BY <1>2, <3>1, <3>2
  <2> QED BY <1>2, <1>7, <2>1, <2>2, <2>3, <2>4, <2>5, <2>6, RefusedTypes DEF PoolInv, TypeOK
<1>23. Tiled'
  <2>1. \A x \in Blocks : BlockSizes'[x] = BlockSizes[x]
    BY <1>20, <1>21 DEF BlockSizes
  <2>2. Tile(Blocks, BlockSizes, carved)
    BY DEF PoolInv, Tiled
  <2>3. Tile(Blocks, BlockSizes', carved)
    BY <2>1, <2>2, TileSame
  <2> QED BY <1>2, <1>20, <2>3 DEF PoolInv, Tiled
<1>24. Tails'
  <2>1. \A x \in Blocks : tail[x + SizeOf(x)] = SizeOf(x)
    <3>1. None \notin Blocks
      BY BlocksOf
    <3> QED BY <1>3, <3>1 DEF PoolInv, Tails
  <2> QED BY <1>17, <1>20, <1>21, <2>1 DEF Tails
<1>25. Heads'
  <2>1. \A x \in 0 .. Chunk : head'[x].used <=> x \in DOMAIN live'
    <3> TAKE x \in 0 .. Chunk
    <3>1. CASE in(x)
      <4>1. x # a /\ x \notin Blocks /\ ~head'[x].used
        BY <1>13, <1>15, <3>1 DEF NoHead
      <4> QED BY <1>3, <1>20, <4>1
    <3>2. CASE x = a
      BY <1>17, <1>20, <3>2
    <3>3. CASE ~in(x) /\ x # a
      BY <1>12, <1>13, <1>20, <3>3 DEF PoolInv, Heads
    <3> QED BY <3>1, <3>2, <3>3
  <2>2. head'[Chunk] = NoHead
    <3>1. Chunk \in 0 .. Chunk /\ head[Chunk] = NoHead
      BY <1>9 DEF PoolInv, Heads
    <3> QED BY <1>9, <1>12, <1>13, <1>15, <3>1
  <2>3. \A h \in Flns : block'[h] # None =>
          block'[h] \notin DOMAIN live' /\ head'[block'[h]].fln = h
    <3> TAKE h \in Flns
    <3>1. CASE h = f
      BY <1>2, <1>8, <3>1
    <3>2. CASE h # f /\ block[h] # None
      <4>1. block'[h] = block[h] /\ block[h] \in Blocks /\ block[h] # a
        BY <1>1, <1>2, <1>5, <1>8, <1>18, <3>2, OwnerFacts
      <4>2. block[h] \notin DOMAIN live /\ head[block[h]].fln = h
        BY <3>2 DEF PoolInv, Heads
      <4> QED BY <1>17, <1>20, <4>1, <4>2
    <3> QED BY <1>2, <1>8, <3>1, <3>2
  <2> QED BY <2>1, <2>2, <2>3 DEF Heads
<1>26. Listed'
  <2>1. ListsOnce(free_fln', Spare')
    BY <1>2, <1>5, <1>19, Returned
  <2>2. flh \in [Classes -> Seq(Flns)] /\ \A d \in Classes : ListsOnce(flh[d], Nodes[d])
    BY DEF PoolInv, TypeOK, Listed
  <2>3. ListsOnce(flh'[c], Nodes'[c])
    <3>1. PICK l, T : l = flh[c] /\ T = Nodes[c]
      OBVIOUS
    <3>2. l \in Seq(Flns) /\ l # <<>> /\ ListsOnce(l, T)
      BY <1>2, <1>4, <2>2, <3>1
    <3>3. ListsOnce(lst_pop_front(l), T \ {lst_first(l)})
      BY <3>2, PopFrontOnce
    <3>4. flh'[c] = lst_pop_front(l) /\ Nodes'[c] = T \ {lst_first(l)}
      BY <1>1, <1>2, <1>4, <1>19, <2>2, <3>1
    <3> QED BY <3>3, <3>4
  <2>4. \A d \in Classes : d # c => ListsOnce(flh'[d], Nodes'[d])
    BY <1>2, <1>19, <2>2
  <2> QED BY <2>1, <2>3, <2>4 DEF Listed
<1>27. Cutting'
  BY <1>2, <1>3 DEF Cutting
<1>28. Phases'
  BY <1>2, <1>3, <1>7 DEF Phases
<1>29. Merged'
  <2>1. Halved' = {}
    BY <1>2 DEF Halved
  <2>2. Halved \subseteq {a}
    BY <1>1, <1>3 DEF Halved
  <2>3. ASSUME NEW x \in FreeBlocks', NEW y \in FreeBlocks',
               x + head'[x].size = y, head'[x].size < MaxSize, Buddies(x, y)'
        PROVE  FALSE
    <3>1. x \in FreeBlocks /\ y \in FreeBlocks /\ x # a /\ y # a
      BY <1>20
    <3>2. head'[x] = head[x] /\ head'[y] = head[y]
      BY <1>3, <1>17, <3>1
    <3>3. Buddies(x, y)
      BY <2>3, <3>2 DEF Buddies
    <3> QED BY <2>2, <2>3, <3>1, <3>2, <3>3 DEF PoolInv, Merged
  <2> QED BY <2>1, <2>3 DEF Merged
<1>30. Refusals'
  BY <1>7 DEF Refusals, NoCall
<1>31. Served'
  <2>1. live'[a] = n /\ \A x \in DOMAIN live : live'[x] = live[x]
    BY <1>6, <1>7
  <2>2. n + HEAD_TAIL_SIZE <= MinBytes * head'[a].size
    BY <1>4, <1>5, <1>17 DEF BlockFits
  <2>3. \A x \in DOMAIN live : head'[x].size = head[x].size
    BY <1>3, <1>17
  <2> QED BY <1>20, <2>1, <2>2, <2>3 DEF PoolInv, Served
<1> QED BY <1>22, <1>23, <1>24, <1>25, <1>26, <1>27, <1>28, <1>29, <1>30, <1>31 DEF PoolInv

-------------------------------------------------------------------------------
(* _take_free_node takes a block of a larger class off its list. *)
LEMMA TakeLargerInv == ASSUME PoolInv, NEW n \in Requests, TakeLarger(n) PROVE PoolInv'
<1>1. PICK i \in Classes : i > FlhIdx(n) /\ FirstList(n, i)
        /\ flh' = [flh EXCEPT ![i] = lst_pop_front(@)]
        /\ cut' = [at |-> block[lst_first(flh[i])], size |-> head[block[lst_first(flh[i])]].size,
                   left |-> i - FlhIdx(n), fln |-> lst_first(flh[i])]
  BY DEF TakeLarger
<1>2. /\ Serves(n) /\ ~TooLarge(n) /\ taking' = n
      /\ UNCHANGED <<label, carved, head, tail, free_fln, block, freeing, live, refused>>
  BY DEF TakeLarger
<1>3. PICK f, a, c : f = lst_first(flh[i]) /\ a = block[f] /\ c = FlhIdx(n)
  OBVIOUS
<1>4. /\ carved = Chunk /\ Chunk \in Nat /\ freeing = None /\ cut.at = None /\ n \in Nat
      /\ label
      /\ taking = None \/ (taking = n /\ ~TooLarge(n) /\ flh[FlhIdx(n)] # <<>>)
      /\ Blocks = DOMAIN live \cup Owners(block) /\ FreeBlocks = Owners(block)
      /\ \A x \in Owners(block) : SizeOf(x) = head[x].size
  BY <1>2, ServesFacts
<1>5. c \in Classes /\ c \in Nat /\ i \in Nat /\ c < i /\ i - c \in Classes /\ i - c # 0 /\ c + (i - c) = i
  <2>1. c \in Classes
    BY <1>2, <1>3, <1>4, ClassOfRequest
  <2>2. c \in Nat /\ i \in Nat /\ MaxClass \in Nat /\ i <= MaxClass /\ c < i
    BY <1>1, <1>3, <2>1, ClassFacts
  <2> QED BY <2>1, <2>2 DEF Classes
<1>6. flh[i] # <<>> /\ \A d \in c .. (i - 1) : flh[d] = <<>>
  BY <1>1, <1>3 DEF FirstList, lst_empty
<1>7. flh[c] = <<>> /\ taking = None
  <2>1. c \in c .. (i - 1)
    BY <1>5
  <2> QED BY <1>3, <1>4, <1>6, <2>1
<1>8. /\ f \in Flns /\ f \in Nodes[i] /\ a \in FreeBlocks /\ a \in Owners(block) /\ a \in Blocks
      /\ a # None /\ a \in Nat /\ head[a].size = BlockSize(i) /\ SizeOf(a) = BlockSize(i)
  <2>1. a \in Owners(block) => a # None
    BY DEF Owners
  <2> QED BY <1>1, <1>3, <1>6, <2>1, FirstOfList
<1>9. cut' = [at |-> a, size |-> BlockSize(i), left |-> i - c, fln |-> f]
  BY <1>1, <1>3, <1>8
<1>10. /\ cut'.at = a /\ cut'.size = BlockSize(i) /\ cut'.left = i - c /\ cut'.fln = f
  BY <1>9
<1>11. n # None /\ n \in Requests
  BY <1>4 DEF None
<1>12. \A g \in Flns : block[g] = a => g = f
  BY <1>3, <1>8, OwnerFacts
<1>13. Blocks' = Blocks /\ FreeBlocks' = FreeBlocks \ {a} /\ Owners(block') = Owners(block)
  <2>1. Blocks' = (DOMAIN live \cup Owners(block) \cup {a, None}) \ {None}
        /\ FreeBlocks' = Owners(block) \ {a}
    BY <1>2, <1>4, <1>10, BlocksOf
  <2>2. None \notin Blocks
    BY BlocksOf
  <2> QED BY <1>2, <1>4, <1>8, <2>1, <2>2
<1>14. \A x \in Blocks : SizeOf(x)' = SizeOf(x)
  <2>1. None \notin Blocks
    BY BlocksOf
  <2> QED BY <1>2, <1>4, <1>8, <1>10, <2>1 DEF SizeOf
<1>15. /\ Nodes'[i] = Nodes[i] \ {f}
       /\ \A d \in Classes : d # i => Nodes'[d] = Nodes[d]
       /\ Spare' = Spare
  <2>1. \A d \in Classes : Nodes[d] = NodesOf(block, head, None, d)
                           /\ Nodes'[d] = NodesOf(block, head, a, d)
    BY <1>2, <1>4, <1>10 DEF Nodes
  <2>2. \A d \in Classes : NodesOf(block, head, a, d) = NodesOf(block, head, None, d) \ {f}
    BY <1>3, <1>12 DEF NodesOf
  <2>3. \A d \in Classes : d # i => f \notin NodesOf(block, head, None, d)
    BY <1>3, <1>8, SizeFacts, ClassFacts DEF NodesOf
  <2>4. \A d \in Classes : d # i => Nodes'[d] = Nodes[d]
    BY <2>1, <2>2, <2>3
  <2>5. Spare' = Spare
    BY <1>2 DEF Spare
  <2> QED BY <2>1, <2>2, <2>4, <2>5
<1>16. /\ flh \in [Classes -> Seq(Flns)] /\ \A d \in Classes : ListsOnce(flh[d], Nodes[d])
  BY DEF PoolInv, TypeOK, Listed
<1>17. flh'[i] \in Seq(Flns) /\ ListsOnce(flh'[i], Nodes'[i])
  <2>1. PICK l, T : l = flh[i] /\ T = Nodes[i]
    OBVIOUS
  <2>2. l \in Seq(Flns) /\ l # <<>> /\ ListsOnce(l, T)
    BY <1>6, <1>16, <2>1
  <2>3. lst_pop_front(l) \in Seq(Flns) /\ ListsOnce(lst_pop_front(l), T \ {lst_first(l)})
    BY <2>2, PopFrontOnce
  <2>4. flh'[i] = lst_pop_front(l) /\ Nodes'[i] = T \ {lst_first(l)}
    BY <1>1, <1>3, <1>15, <1>16, <2>1
  <2> QED BY <2>3, <2>4
<1>18. \A d \in Classes : d # i => flh'[d] = flh[d]
  BY <1>1, <1>16
<1>19. TypeOK'
  <2>1. flh' \in [Classes -> Seq(Flns)]
    BY <1>1, <1>16, <1>17, <1>18
  <2>2. a \in Addresses /\ BlockSize(i) \in 0 .. MaxSize
    <3>1. BlockSize(i) \in Sizes /\ MaxSize \in Nat
      BY SizesOrder DEF Sizes
    <3>2. BlockSize(i) \in Nat /\ BlockSize(i) <= MaxSize
      BY <3>1, SizesOrder
    <3> QED BY <1>8, <3>1, <3>2, BlockFacts
  <2>3. cut' \in [at : Addresses \cup {None}, size : 0 .. MaxSize, left : Classes, fln : Flns]
    BY <1>5, <1>8, <1>9, <2>2
  <2> QED BY <1>2, <2>1, <2>3 DEF PoolInv, TypeOK
<1>20. Tiled'
  <2>1. \A x \in Blocks : BlockSizes'[x] = BlockSizes[x]
    BY <1>13, <1>14 DEF BlockSizes
  <2>2. Tile(Blocks, BlockSizes, carved)
    BY DEF PoolInv, Tiled
  <2>3. Tile(Blocks, BlockSizes', carved)
    BY <2>1, <2>2, TileSame
  <2> QED BY <1>2, <1>13, <2>3 DEF PoolInv, Tiled
<1>21. Tails'
  <2>1. \A x \in Blocks : tail[x + SizeOf(x)] = SizeOf(x)
    <3>1. None \notin Blocks
      BY BlocksOf
    <3> QED BY <1>4, <3>1 DEF PoolInv, Tails
  <2> QED BY <1>2, <1>13, <1>14, <2>1 DEF Tails
<1>22. Heads'
  BY <1>2 DEF PoolInv, Heads
<1>23. Listed'
  <2>1. ListsOnce(free_fln', Spare')
    BY <1>2, <1>15 DEF PoolInv, Listed
  <2>2. \A d \in Classes : d # i => ListsOnce(flh'[d], Nodes'[d])
    BY <1>15, <1>16, <1>18
  <2> QED BY <1>17, <2>1, <2>2 DEF Listed
<1>24. Cutting'
  <2>1. ASSUME NEW x \in FreeBlocks', head'[x].size = BlockSize(c) PROVE FALSE
    <3>1. x \in FreeBlocks /\ head[x].size = BlockSize(c)
      BY <1>2, <1>13, <2>1
    <3>2. PICK d \in Classes : head[x].size = BlockSize(d) /\ flh[d] # <<>>
      BY <3>1, FreeBlockListed
    <3>3. d = c
      BY <1>5, <3>1, <3>2, SizeFacts, ClassFacts
    <3> QED BY <1>7, <3>2, <3>3
  <2>2. FlhIdx(taking') = c /\ taking' \in Requests /\ ~TooLarge(taking')
    BY <1>2, <1>3, <1>11
  <2>3. c + cut'.left \in Classes /\ cut'.size = BlockSize(c + cut'.left) /\ cut'.left # 0
    BY <1>5, <1>10
  <2>4. block'[cut'.fln] = cut'.at
    BY <1>2, <1>3, <1>10
  <2> QED BY <2>1, <2>2, <2>3, <2>4 DEF Cutting
<1>25. Phases'
  BY <1>2, <1>4, <1>8, <1>10, <1>11 DEF Phases
<1>26. Merged'
  <2>1. Halved' = {} /\ Halved = {}
    BY <1>2, <1>7, <1>8, <1>10 DEF Halved
  <2>2. ASSUME NEW x \in FreeBlocks', NEW y \in FreeBlocks',
               x + head'[x].size = y, head'[x].size < MaxSize, Buddies(x, y)'
        PROVE  FALSE
    <3>1. x \in FreeBlocks /\ y \in FreeBlocks /\ head' = head
      BY <1>2, <1>13
    <3>2. Buddies(x, y)
      BY <2>2, <3>1 DEF Buddies
    <3> QED BY <2>1, <2>2, <3>1, <3>2 DEF PoolInv, Merged
  <2> QED BY <2>1, <2>2 DEF Merged
<1>27. Refusals'
  <2>1. \A x \in Owners(block) : x \in Blocks
    BY OwnerFacts
  <2> QED BY <1>2, <1>13, <1>14, <2>1 DEF PoolInv, Refusals
<1>28. Served'
  BY <1>2 DEF PoolInv, Served
<1> QED BY <1>19, <1>20, <1>21, <1>22, <1>23, <1>24, <1>25, <1>26, <1>27, <1>28 DEF PoolInv

(* The block being split. *)
LEMMA CutFacts ==
  ASSUME PoolInv, cut.at # None
  PROVE  /\ taking # None /\ taking \in Requests /\ taking \in Nat /\ ~TooLarge(taking)
         /\ freeing = None /\ carved = Chunk /\ label
         /\ cut.at \in Owners(block) /\ cut.at \in Blocks /\ cut.at \in Nat
         /\ cut.at \notin DOMAIN live
         /\ cut.fln \in Flns /\ block[cut.fln] = cut.at
         /\ \A g \in Flns : block[g] = cut.at => g = cut.fln
         /\ FlhIdx(taking) \in Classes /\ FlhIdx(taking) \in Nat /\ cut.left \in Nat
         /\ FlhIdx(taking) + cut.left \in Classes
         /\ cut.size = BlockSize(FlhIdx(taking) + cut.left)
         /\ SizeOf(cut.at) = cut.size
         /\ Halved = {}
<1>1. taking # None
  BY DEF PoolInv, Phases
<1>2. freeing = None /\ label /\ carved = Chunk
  <2>1. carved \in 0 .. Chunk /\ Chunk \in Nat
    BY SizeAssumption DEF PoolInv, TypeOK
  <2> QED BY <1>1, <2>1 DEF PoolInv, Phases, TypeOK
<1>3. /\ taking \in Requests /\ ~TooLarge(taking) /\ block[cut.fln] = cut.at
      /\ FlhIdx(taking) + cut.left \in Classes
      /\ cut.size = BlockSize(FlhIdx(taking) + cut.left)
  BY DEF PoolInv, Cutting
<1>4. cut.fln \in Flns /\ cut.left \in Classes /\ taking \in Nat
  BY <1>3, SizeAssumption DEF PoolInv, TypeOK
<1>5. FlhIdx(taking) \in Classes /\ FlhIdx(taking) \in Nat /\ cut.left \in Nat
  BY <1>3, <1>4, ClassOfRequest, ClassFacts
<1>6. cut.at \in Owners(block)
  BY <1>3, <1>4 DEF Owners
<1>7. cut.at \in Blocks /\ cut.at \notin DOMAIN live
  BY <1>6, OwnerFacts
<1>8. cut.at \in Nat
  BY <1>7, BlockFacts
<1>9. \A g \in Flns : block[g] = cut.at => g = cut.fln
  BY <1>3, <1>4, OwnerFacts
<1>10. SizeOf(cut.at) = cut.size
  BY DEF SizeOf
<1>11. Halved = {}
  BY DEF Halved
<1> QED BY <1>1, <1>2, <1>3, <1>4, <1>5, <1>6, <1>7, <1>8, <1>9, <1>10, <1>11

-------------------------------------------------------------------------------
(* The loop returns the upper half of what is left. *)
LEMMA SplitHalfInv == ASSUME PoolInv, SplitHalf PROVE PoolInv'
<1>1. cut.at # None /\ cut.left > 0 /\ free_fln # <<>>
      /\ UNCHANGED <<label, carved, taking, freeing, live, refused>>
  BY DEF SplitHalf, MakeFree, lst_new
<1>2. PICK f, b, h, c : /\ f = lst_first(free_fln) /\ b = cut.at /\ h = cut.size \div 2
                        /\ c = FlhIdx(taking) + (cut.left - 1)
  OBVIOUS
<1>3. /\ head' = [head EXCEPT ![b + h] = [used |-> FALSE, fln |-> f, size |-> h]]
      /\ tail' = [tail EXCEPT ![(b + h) + h] = h]
      /\ flh' = [flh EXCEPT ![Log2(h)] = lst_push_front(@, f)]
      /\ block' = [block EXCEPT ![f] = b + h]
      /\ free_fln' = lst_pop_front(free_fln)
      /\ cut' = [cut EXCEPT !.size = h, !.left = @ - 1]
  BY <1>2 DEF SplitHalf, MakeFree, Fetched
<1>4. /\ taking # None /\ taking \in Requests /\ taking \in Nat /\ ~TooLarge(taking)
      /\ freeing = None /\ carved = Chunk /\ label
      /\ b \in Owners(block) /\ b \in Blocks /\ b \in Nat /\ b \notin DOMAIN live /\ b # None
      /\ cut.fln \in Flns /\ block[cut.fln] = b
      /\ FlhIdx(taking) \in Classes /\ FlhIdx(taking) \in Nat /\ cut.left \in Nat
      /\ FlhIdx(taking) + cut.left \in Classes
      /\ cut.size = BlockSize(FlhIdx(taking) + cut.left)
      /\ SizeOf(b) = cut.size /\ Halved = {}
  BY <1>1, <1>2, CutFacts
<1>5. /\ f \in Flns /\ block[f] = None /\ f \in Spare
      /\ lst_pop_front(free_fln) \in Seq(Flns)
      /\ ListsOnce(lst_pop_front(free_fln), Spare \ {f})
  BY <1>1, <1>2, SpareNodeFetched
<1>6. /\ c \in Nat /\ c \in Classes /\ c + 1 = FlhIdx(taking) + cut.left
      /\ cut.left - 1 \in Nat /\ cut.left - 1 \in Classes /\ c >= FlhIdx(taking)
  <2>1. cut.left - 1 \in Nat
    BY <1>1, <1>4
  <2>2. c \in Nat /\ c + 1 = FlhIdx(taking) + cut.left /\ c >= FlhIdx(taking)
    BY <1>2, <1>4, <2>1
  <2>3. c + 1 <= MaxClass /\ MaxClass \in Nat
    BY <1>4, <2>2, ClassFacts
  <2>4. cut.left - 1 <= c
    BY <1>2, <1>4, <2>1
  <2> QED BY <2>1, <2>2, <2>3, <2>4 DEF Classes
<1>7. h = BlockSize(c) /\ h \in Nat \ {0} /\ cut.size = 2 * h /\ h \in Sizes /\ Log2(h) = c
  <2>1. PICK x \in Nat \ {0} : x = BlockSize(c)
    BY <1>6, SizeFacts
  <2>2. cut.size = 2 * x
    BY <1>4, <1>6, <2>1, SizeFacts
  <2>3. (2 * x) \div 2 = x
    BY <2>1
  <2> QED BY <1>2, <1>6, <2>1, <2>2, <2>3, LogOfSize DEF Sizes
<1>8. SizeOf(b) = 2 * h /\ b + 2 * h \in 0 .. Chunk /\ b + 2 * h <= carved
      /\ Divides(2 * h, b) /\ (b + h) + h = b + 2 * h
  BY <1>4, <1>7, BlockFacts
<1>9. b + h \in 0 .. Chunk /\ b + h \in Addresses /\ b + h \in Nat /\ b + h # Chunk /\ b + h # None
      /\ b + h # b /\ Chunk \in Nat
  <2>1. Chunk \in Nat
    BY BlockFacts
  <2> QED BY <1>4, <1>7, <1>8, <2>1 DEF Addresses, None
<1>10. /\ cut'.at = b /\ cut'.size = h /\ cut'.left = cut.left - 1 /\ cut'.fln = cut.fln
       /\ cut' \in [at : Addresses \cup {None}, size : 0 .. MaxSize, left : Classes, fln : Flns]
  <2>1. cut \in [at : Addresses \cup {None}, size : 0 .. MaxSize, left : Classes, fln : Flns]
    BY DEF PoolInv, TypeOK
  <2>2. h \in 0 .. MaxSize
    BY <1>7, SizesOrder
  <2> QED BY <1>2, <1>3, <1>6, <2>1, <2>2
<1>11. /\ head \in [0 .. Chunk -> [used : BOOLEAN, fln : Flns, size : 0 .. MaxSize]]
       /\ tail \in [0 .. Chunk -> 0 .. MaxSize] /\ block \in [Flns -> Addresses \cup {None}]
       /\ h \in 0 .. MaxSize
  <2>1. h \in 0 .. MaxSize
    BY <1>7, SizesOrder
  <2> QED BY <2>1 DEF PoolInv, TypeOK
<1>12. head'[b + h] = [used |-> FALSE, fln |-> f, size |-> h]
       /\ \A x \in 0 .. Chunk : x # b + h => head'[x] = head[x]
  BY <1>3, <1>9, <1>11
<1>13. tail'[b + 2 * h] = h /\ \A x \in 0 .. Chunk : x # b + 2 * h => tail'[x] = tail[x]
  BY <1>3, <1>8, <1>11
<1>14. Tile(Blocks, BlockSizes, carved) /\ \A x \in Blocks : BlockSizes[x] = SizeOf(x)
  BY DEF PoolInv, Tiled, BlockSizes
<1>15. b + h \notin Blocks
  <2>1. \A x \in Blocks : b < x => b + SizeOf(b) <= x
    BY <1>4, BlockFacts
  <2> QED BY <1>4, <1>7, <1>8, <1>9, <2>1
<1>16. \A x \in Blocks : x \in 0 .. Chunk /\ x # b + h /\ head'[x] = head[x]
  BY <1>12, <1>15, BlockFacts DEF Addresses
<1>17. \A g \in Flns : block[g] # None => block[g] \in Blocks
  BY OwnerFacts
<1>18. /\ flh' \in [Classes -> Seq(Flns)]
       /\ \A d \in Classes : ListsOnce(flh'[d], Nodes'[d])
       /\ Owners(block') = Owners(block) \cup {b + h}
       /\ Spare' = Spare \ {f}
  <2>1. \A g \in Flns : block[g] \notin {None, cut.at}
                         => head'[block[g]].size = head[block[g]].size
    BY <1>16, <1>17
  <2>2. head'[b + h].size = BlockSize(c) /\ cut'.at = cut.at /\ b + h # cut.at
    BY <1>2, <1>7, <1>9, <1>10, <1>12
  <2>3. flh' = [flh EXCEPT ![c] = lst_push_front(@, f)]
    BY <1>3, <1>7
  <2> QED BY <1>3, <1>5, <1>6, <1>9, <2>1, <2>2, <2>3, GainStep
<1>19. Blocks' = Blocks \cup {b + h} /\ FreeBlocks' = FreeBlocks \cup {b + h}
  <2>1. b # None /\ b + h # None /\ b + h # b
    BY <1>4, <1>9
  <2> QED BY <1>1, <1>2, <1>10, <1>18, <2>1, BlocksOf
<1>20. /\ \A x \in Blocks : x # b => SizeOf(x)' = SizeOf(x) /\ SizeOf(x) = head[x].size
       /\ SizeOf(b)' = h /\ SizeOf(b + h)' = h
  BY <1>2, <1>9, <1>10, <1>12, <1>16 DEF SizeOf
<1>21. TypeOK'
  <2>1. head' \in [0 .. Chunk -> [used : BOOLEAN, fln : Flns, size : 0 .. MaxSize]]
    <3>1. [used |-> FALSE, fln |-> f, size |-> h] \in [used : BOOLEAN, fln : Flns, size : 0 .. MaxSize]
      BY <1>5, <1>11
    <3> QED BY <1>3, <1>11, <3>1
  <2>2. tail' \in [0 .. Chunk -> 0 .. MaxSize] /\ block' \in [Flns -> Addresses \cup {None}]
    BY <1>3, <1>9, <1>11
  <2>3. free_fln' \in Seq(Flns)
    BY <1>3, <1>5
  <2> QED BY <1>1, <1>10, <1>18, <2>1, <2>2, <2>3 DEF PoolInv, TypeOK
<1>22. Tiled'
  <2>1. \A x \in Blocks \ {b} : BlockSizes'[x] = BlockSizes[x]
    BY <1>14, <1>19, <1>20 DEF BlockSizes
  <2>2. BlockSizes'[b] = h /\ BlockSizes'[b + h] = h
    BY <1>4, <1>19, <1>20 DEF BlockSizes
  <2>3. BlockSizes[b] = 2 * h
    BY <1>4, <1>8, <1>14
  <2>4. Tile(Blocks \cup {b + h}, BlockSizes', carved)
    <3>1. PICK B, z, y, e : B = Blocks /\ z = BlockSizes /\ y = BlockSizes' /\ e = carved
      OBVIOUS
    <3>2. /\ Tile(B, z, e) /\ b \in B /\ h \in Sizes /\ z[b] = 2 * h
          /\ \A x \in B \ {b} : y[x] = z[x]
          /\ y[b] = h /\ y[b + h] = h
      BY <1>4, <1>7, <1>14, <2>1, <2>2, <2>3, <3>1
    <3>3. Tile(B \cup {b + h}, y, e)
      BY <3>2, TileSplit
    <3> QED BY <3>1, <3>3
  <2> QED BY <1>1, <1>19, <2>4 DEF PoolInv, Tiled
<1>23. Tails'
  <2>1. ASSUME NEW x \in Blocks, x # b PROVE tail'[x + SizeOf(x)'] = SizeOf(x)'
    <3>1. tail[x + SizeOf(x)] = SizeOf(x)
      BY <1>2, <2>1 DEF PoolInv, Tails
    <3>2. x + SizeOf(x) # b + 2 * h
      <4>1. CASE x < b
        <5>1. x + SizeOf(x) <= b /\ SizeOf(x) \in Nat /\ x \in Nat
          BY <1>4, <4>1, BlockFacts
        <5> QED BY <1>4, <1>7, <5>1
      <4>2. CASE b < x
        <5>1. b + SizeOf(b) <= x /\ SizeOf(x) \in Nat \ {0} /\ x \in Nat
          BY <1>4, <4>2, BlockFacts
        <5> QED BY <1>4, <1>7, <1>8, <5>1
      <4>3. x \in Nat
        BY BlockFacts
      <4>4. x < b \/ b < x
        BY <1>4, <2>1, <4>3
      <4> QED BY <4>1, <4>2, <4>4
    <3>3. x + SizeOf(x) \in 0 .. Chunk
      BY BlockFacts
    <3> QED BY <1>13, <1>20, <2>1, <3>1, <3>2, <3>3
  <2>2. tail'[(b + h) + SizeOf(b + h)'] = SizeOf(b + h)'
    BY <1>8, <1>13, <1>20
  <2> QED BY <1>10, <1>19, <2>1, <2>2 DEF Tails
<1>24. Heads'
  <2>1. b + h \notin DOMAIN live
    BY <1>15, OwnerFacts
  <2>2. \A x \in 0 .. Chunk : head'[x].used <=> x \in DOMAIN live
    BY <1>12, <2>1 DEF PoolInv, Heads
  <2>3. head'[Chunk] = NoHead
    BY <1>9, <1>12 DEF PoolInv, Heads
  <2>4. \A g \in Flns : block'[g] # None =>
          block'[g] \notin DOMAIN live /\ head'[block'[g]].fln = g
    <3> TAKE g \in Flns
    <3>1. CASE g = f
      BY <1>3, <1>11, <1>12, <2>1, <3>1
    <3>2. CASE g # f
      <4>1. block'[g] = block[g]
        BY <1>3, <1>11, <3>2
      <4> QED BY <1>16, <1>17, <4>1 DEF PoolInv, Heads
    <3> QED BY <3>1, <3>2
  <2> QED BY <1>1, <2>2, <2>3, <2>4 DEF Heads
<1>25. Listed'
  BY <1>3, <1>5, <1>18 DEF Listed
<1>26. Cutting'
  <2>1. FlhIdx(taking') + cut'.left = c /\ cut'.size = BlockSize(c)
    BY <1>1, <1>2, <1>7, <1>10
  <2>2. block'[cut'.fln] = cut'.at
    <3>1. cut.fln # f
      BY <1>4, <1>5
    <3> QED BY <1>3, <1>4, <1>10, <1>11, <3>1
  <2>3. cut'.left = 0 => Divides(2 * cut'.size, cut'.at)
    BY <1>8, <1>10
  <2>4. ASSUME NEW x \in FreeBlocks', head'[x].size = BlockSize(FlhIdx(taking'))
        PROVE  cut'.left = 0 /\ x = cut'.at + cut'.size
    <3>1. CASE x = b + h
      <4>1. BlockSize(c) = BlockSize(FlhIdx(taking))
        BY <1>1, <1>7, <1>12, <2>4, <3>1
      <4>2. c = FlhIdx(taking)
        BY <1>4, <1>6, <4>1, SizeFacts
      <4>3. cut.left - 1 = 0
        BY <1>4, <1>6, <4>2
      <4> QED BY <1>10, <3>1, <4>3
    <3>2. CASE x # b + h
      <4>1. x \in FreeBlocks /\ x \in Blocks
        BY <1>19, <3>2, BlocksOf, OwnerFacts
      <4>2. head[x].size = BlockSize(FlhIdx(taking))
        BY <1>1, <1>16, <2>4, <4>1
      <4>3. cut.left = 0
        BY <1>1, <4>1, <4>2 DEF PoolInv, Cutting
      <4> QED BY <1>1, <4>3
    <3> QED BY <3>1, <3>2
  <2>5. taking' \in Requests /\ ~TooLarge(taking')
    BY <1>1, <1>4
  <2>6. FlhIdx(taking') + cut'.left \in Classes
        /\ cut'.size = BlockSize(FlhIdx(taking') + cut'.left)
    BY <1>6, <2>1
  <2> QED BY <2>2, <2>3, <2>4, <2>5, <2>6 DEF Cutting
<1>27. Phases'
  <2>1. cut'.at # None /\ taking' # None /\ freeing' = None /\ carved' = Chunk /\ label'
    BY <1>1, <1>4, <1>10
  <2>2. ~(carved' < Chunk)
    BY <1>9, <2>1
  <2> QED BY <2>1, <2>2 DEF Phases
<1>28. Merged'
  <2>1. ASSUME NEW x \in FreeBlocks', NEW y \in FreeBlocks',
               x + head'[x].size = y, head'[x].size < MaxSize, Buddies(x, y)'
        PROVE  FALSE
    <3>1. x # b /\ y # b
      BY <1>10, <2>1, BlocksOf
    <3>2. CASE x = b + h
      <4>1. y = b + 2 * h /\ head'[x].size = h
        BY <1>8, <1>12, <2>1, <3>2
      <4>2. x \div (2 * h) = y \div (2 * h)
        BY <2>1, <4>1 DEF Buddies
      <4>3. 2 * h \in Nat /\ Divides(2 * h, x + h) /\ y = x + h
        <5>1. 2 * h \in Nat /\ x + h = b + 2 * h /\ y = x + h
          BY <1>4, <1>7, <1>8, <3>2, <4>1
        <5>2. Divides(2 * h, 2 * h)
          BY <5>1, DividesSelf
        <5>3. Divides(2 * h, b + 2 * h)
          BY <1>4, <1>8, <5>1, <5>2, DividesSum
        <5> QED BY <5>1, <5>3
      <4> QED BY <1>7, <1>9, <3>2, <4>2, <4>3, AlignedIsFirst
    <3>3. CASE x # b + h /\ y = b + h
      <4>1. x \in FreeBlocks /\ x \in Blocks /\ x \in Nat
        BY <1>19, <3>3, BlocksOf, OwnerFacts, BlockFacts
      <4>2. head'[x].size = SizeOf(x)
        BY <1>16, <1>20, <3>1, <4>1
      <4>3. x + SizeOf(x) \in Blocks \cup {carved}
        BY <4>1, BlockFacts
      <4> QED BY <1>4, <1>9, <1>15, <2>1, <3>3, <4>2, <4>3
    <3>4. CASE x # b + h /\ y # b + h
      <4>1. x \in FreeBlocks /\ y \in FreeBlocks /\ head'[x] = head[x] /\ head'[y] = head[y]
        BY <1>16, <1>19, <3>4, BlocksOf, OwnerFacts
      <4>2. Buddies(x, y)
        BY <2>1, <4>1 DEF Buddies
      <4> QED BY <1>4, <2>1, <4>1, <4>2 DEF PoolInv, Merged
    <3> QED BY <3>2, <3>3, <3>4
  <2> QED BY <2>1 DEF Merged
<1>29. Refusals'
  <2>1. SUFFICES ASSUME refused.op = "alloc", refused.arg > 0, NEW x \in Owners(block')
                 PROVE  refused.arg + HEAD_TAIL_SIZE > MinBytes * SizeOf(x)'
    BY <1>1 DEF Refusals
  <2>2. \A y \in Owners(block) : refused.arg + HEAD_TAIL_SIZE > MinBytes * SizeOf(y)
    BY <2>1 DEF PoolInv, Refusals
  <2>3. CASE x = b \/ x = b + h
    <3>1. refused.arg + HEAD_TAIL_SIZE > MinBytes * (2 * h) /\ SizeOf(x)' = h
      BY <1>4, <1>8, <1>20, <2>2, <2>3
    <3>2. MinBytes \in Nat
      BY SizeAssumption
    <3>3. refused.arg \in Int
      <4>1. refused.arg \in Addresses \cup Requests
        BY DEF PoolInv, TypeOK
      <4>2. \A v \in Addresses : v \in Int
        BY SizeAssumption DEF Addresses
      <4>3. \A v \in Requests : v \in Int
        BY SizeAssumption
      <4> QED BY <4>1, <4>2, <4>3
    <3>4. MinBytes * (2 * h) = MinBytes * h + MinBytes * h /\ MinBytes * h \in Nat
      BY <1>7, <3>2
    <3> QED BY <3>1, <3>3, <3>4 DEF HEAD_TAIL_SIZE
  <2>4. CASE x # b /\ x # b + h
    <3>1. x \in Owners(block) /\ x \in Blocks
      BY <1>18, <2>4, OwnerFacts
    <3> QED BY <1>20, <2>2, <2>4, <3>1
  <2> QED BY <2>3, <2>4
<1>30. Served'
  BY <1>1, <1>16, OwnerFacts DEF PoolInv, Served
<1> QED BY <1>21, <1>22, <1>23, <1>24, <1>25, <1>26, <1>27, <1>28, <1>29, <1>30 DEF PoolInv

-------------------------------------------------------------------------------
(* Two blocks do not end at one place. *)
LEMMA EndsApart ==
  ASSUME PoolInv, NEW x \in Blocks, NEW b \in Blocks, x # b
  PROVE  x + SizeOf(x) # b + SizeOf(b)
<1>1. PICK s, t : s = SizeOf(x) /\ t = SizeOf(b)
  OBVIOUS
<1>2. x \in Nat /\ b \in Nat /\ s \in Nat \ {0} /\ t \in Nat \ {0}
  BY <1>1, BlockFacts
<1>3. (x < b => x + s <= b) /\ (b < x => b + t <= x)
  BY <1>1, BlockFacts
<1> QED BY <1>1, <1>2, <1>3

LEMMA PushedFirst ==
  ASSUME NEW l \in Seq(Flns), NEW f \in Flns
  PROVE  lst_first(lst_push_front(l, f)) = f /\ lst_push_front(l, f) # <<>>
<1>1. <<f>> \in Seq(Flns) /\ Len(<<f>>) = 1 /\ <<f>>[1] = f
  OBVIOUS
<1>2. /\ <<f>> \o l \in Seq(Flns) /\ Len(<<f>> \o l) = 1 + Len(l) /\ Len(l) \in Nat
      /\ (<<f>> \o l)[1] = f
  BY <1>1, ConcatProperties
<1> PICK r : r = <<f>> \o l
  OBVIOUS
<1>3. r # <<>> /\ Head(r) = f
  BY <1>2
<1> QED BY <1>3 DEF lst_first, lst_push_front, Cons

(* The loop ends: what is left is free, and the node of the block spare. *)
LEMMA SplitEndInv == ASSUME PoolInv, SplitEnd PROVE PoolInv'
<1>1. cut.at # None /\ cut.left = 0 /\ free_fln # <<>> /\ cut' = NoCut
      /\ UNCHANGED <<label, carved, taking, freeing, live, refused>>
  BY DEF SplitEnd, MakeFree, lst_new
<1>2. PICK f, b, s, c, k : /\ f = lst_first(free_fln) /\ b = cut.at /\ s = cut.size
                           /\ c = FlhIdx(taking) /\ k = cut.fln
  OBVIOUS
<1>3. /\ head' = [head EXCEPT ![b] = [used |-> FALSE, fln |-> f, size |-> s]]
      /\ tail' = [tail EXCEPT ![b + s] = s]
      /\ flh' = [flh EXCEPT ![Log2(s)] = lst_push_front(@, f)]
      /\ block' = [[block EXCEPT ![f] = b] EXCEPT ![k] = None]
      /\ free_fln' = lst_push_front(lst_pop_front(free_fln), k)
  BY <1>2 DEF SplitEnd, MakeFree, Fetched
<1>4. /\ taking # None /\ taking \in Requests /\ taking \in Nat /\ ~TooLarge(taking)
      /\ freeing = None /\ carved = Chunk /\ label
      /\ b \in Owners(block) /\ b \in Blocks /\ b \in Nat /\ b \notin DOMAIN live /\ b # None
      /\ k \in Flns /\ block[k] = b /\ \A g \in Flns : block[g] = b => g = k
      /\ c \in Classes /\ c \in Nat
      /\ s = BlockSize(c)
      /\ SizeOf(b) = s /\ Halved = {}
  <2>1. FlhIdx(taking) \in Nat /\ cut.left = 0
    BY <1>1, CutFacts
  <2>2. FlhIdx(taking) + cut.left = FlhIdx(taking)
    BY <2>1
  <2> QED BY <1>1, <1>2, <2>2, CutFacts
<1>5. /\ f \in Flns /\ block[f] = None /\ f \in Spare /\ f # k
      /\ lst_pop_front(free_fln) \in Seq(Flns)
      /\ ListsOnce(lst_pop_front(free_fln), Spare \ {f})
  BY <1>1, <1>2, <1>4, SpareNodeFetched
<1>6. s \in Nat \ {0} /\ s \in Sizes /\ Log2(s) = c /\ s \in 0 .. MaxSize
      /\ b + s \in 0 .. Chunk /\ Divides(2 * s, b)
  <2>1. s \in Nat \ {0} /\ s \in Sizes /\ Log2(s) = c
    BY <1>4, SizeFacts, LogOfSize DEF Sizes
  <2>2. s \in 0 .. MaxSize
    BY <2>1, SizesOrder
  <2>3. b + s \in 0 .. Chunk
    BY <1>4, BlockFacts
  <2>4. Divides(2 * s, b)
    BY <1>1, <1>2 DEF PoolInv, Cutting
  <2> QED BY <2>1, <2>2, <2>3, <2>4
<1>7. b \in 0 .. Chunk /\ b \in Addresses /\ b # Chunk /\ Chunk \in Nat
  BY <1>4, BlockFacts DEF Addresses
<1>8. /\ head \in [0 .. Chunk -> [used : BOOLEAN, fln : Flns, size : 0 .. MaxSize]]
      /\ tail \in [0 .. Chunk -> 0 .. MaxSize] /\ block \in [Flns -> Addresses \cup {None}]
      /\ flh \in [Classes -> Seq(Flns)] /\ \A d \in Classes : ListsOnce(flh[d], Nodes[d])
  BY DEF PoolInv, TypeOK, Listed
<1>9. head'[b] = [used |-> FALSE, fln |-> f, size |-> s]
      /\ \A x \in 0 .. Chunk : x # b => head'[x] = head[x]
  BY <1>3, <1>7, <1>8
<1>10. tail'[b + s] = s /\ \A x \in 0 .. Chunk : x # b + s => tail'[x] = tail[x]
  BY <1>3, <1>6, <1>8
<1>11. block'[f] = b /\ block'[k] = None /\ \A g \in Flns : g \notin {f, k} => block'[g] = block[g]
  BY <1>3, <1>4, <1>5, <1>8
<1>12. \A x \in Blocks : x \in 0 .. Chunk /\ (x # b => head'[x] = head[x])
  BY <1>9, BlockFacts DEF Addresses
<1>13. \A g \in Flns : block[g] # None => block[g] \in Blocks
  BY OwnerFacts
<1>14. flh' = [flh EXCEPT ![c] = lst_push_front(@, f)]
  BY <1>3, <1>6
<1>15. cut'.at = None
  BY <1>1 DEF NoCut
<1>16. \A d \in Classes : flh'[d] \in Seq(Flns) /\ ListsOnce(flh'[d], Nodes'[d])
  <2>1. PICK p : p = [block EXCEPT ![k] = None]
    OBVIOUS
  <2>2. DOMAIN p = Flns /\ p[k] = None /\ \A g \in Flns : g # k => p[g] = block[g] /\ p[g] # b
    BY <1>4, <1>8, <2>1
  <2>3. \A d \in Classes : NodesOf(p, head, None, d) = Nodes[d]
    <3>1. \A d \in Classes : Nodes[d] = NodesOf(block, head, b, d)
      BY <1>2 DEF Nodes
    <3>2. \A g \in Flns : p[g] # None <=> block[g] \notin {None, b}
      BY <1>4, <2>2
    <3>3. \A g \in Flns : p[g] # None => p[g] = block[g]
      BY <1>4, <2>2
    <3>4. \A d \in Classes : NodesOf(p, head, None, d) = NodesOf(block, head, b, d)
      BY <3>2, <3>3 DEF NodesOf
    <3> QED BY <3>1, <3>4
  <2>4. \A g \in Flns : p[g] \notin {None} => head'[p[g]].size = head[p[g]].size
    BY <1>4, <1>12, <1>13, <2>2
  <2>5. Gaining(p, block', head, head', None, f, b, c, flh, flh')
    <3>1. DOMAIN p = Flns /\ f \in Flns /\ p[f] = None /\ b \notin {None, None}
      BY <1>4, <1>5, <2>2
    <3>2. c \in Classes /\ head'[b].size = BlockSize(c)
      BY <1>4, <1>9
    <3>3. block'[f] = b /\ \A g \in Flns : g # f => block'[g] = p[g]
      BY <1>11, <2>2
    <3>4. \A d \in Classes : flh[d] \in Seq(Flns) /\ ListsOnce(flh[d], NodesOf(p, head, None, d))
      BY <1>8, <2>3
    <3>5. flh'[c] = lst_push_front(flh[c], f) /\ \A d \in Classes : d # c => flh'[d] = flh[d]
      BY <1>4, <1>8, <1>14
    <3> QED BY <2>4, <3>1, <3>2, <3>3, <3>4, <3>5 DEF Gaining
  <2>6. \A d \in Classes : flh'[d] \in Seq(Flns)
                            /\ ListsOnce(flh'[d], NodesOf(block', head', None, d))
    BY <2>5, GainedNodes, ZenonT(30)
  <2>7. \A d \in Classes : Nodes'[d] = NodesOf(block', head', None, d)
    BY <1>15 DEF Nodes
  <2> QED BY <2>6, <2>7
<1>17. Owners(block') = Owners(block)
  <2>1. Owners(block') \subseteq Owners(block)
    BY <1>4, <1>5, <1>11 DEF Owners
  <2>2. Owners(block) \subseteq Owners(block')
    <3>1. ASSUME NEW x \in Owners(block) PROVE x \in Owners(block')
      <4>1. PICK g \in Flns : block[g] = x /\ x # None
        BY DEF Owners
      <4>2. CASE g = k
        BY <1>4, <1>5, <1>11, <4>1, <4>2 DEF Owners
      <4>3. CASE g # k
        <5>1. g # f
          BY <1>5, <4>1
        <5>2. block'[g] = x
          BY <1>11, <4>1, <4>3, <5>1
        <5> QED BY <4>1, <5>2 DEF Owners
      <4> QED BY <4>2, <4>3
    <3> QED BY <3>1
  <2> QED BY <2>1, <2>2
<1>18. Spare' = (Spare \ {f}) \cup {k} /\ k \notin Spare
  <2>1. \A g \in Flns : block'[g] = None <=> g = k \/ (block[g] = None /\ g # f)
    BY <1>4, <1>5, <1>11
  <2> QED BY <1>4, <2>1 DEF Spare
<1>19. free_fln' \in Seq(Flns) /\ ListsOnce(free_fln', Spare')
  <2>1. PICK l, T : l = lst_pop_front(free_fln) /\ T = Spare \ {f}
    OBVIOUS
  <2>2. l \in Seq(Flns) /\ ListsOnce(l, T) /\ k \notin T /\ k \in Flns
    BY <1>4, <1>5, <1>18, <2>1
  <2>3. lst_push_front(l, k) \in Seq(Flns) /\ ListsOnce(lst_push_front(l, k), T \cup {k})
    BY <2>2, PushFrontOnce
  <2> QED BY <1>3, <1>18, <2>1, <2>3
<1>20. Blocks' = Blocks /\ FreeBlocks' = FreeBlocks \cup {b}
  <2>1. Blocks' = (DOMAIN live \cup Owners(block) \cup {None, None}) \ {None}
        /\ FreeBlocks' = Owners(block) \ {None}
    BY <1>1, <1>4, <1>15, <1>17, BlocksOf
  <2>2. Blocks = (DOMAIN live \cup Owners(block) \cup {b, None}) \ {None}
        /\ FreeBlocks = Owners(block) \ {b}
    BY <1>2, <1>4, BlocksOf
  <2>3. Owners(block) \ {None} = Owners(block)
    BY DEF Owners
  <2> QED BY <1>4, <2>1, <2>2, <2>3
<1>21. \A x \in Blocks : SizeOf(x)' = SizeOf(x) /\ head'[x].size = SizeOf(x)
  <2>1. None \notin Blocks
    BY BlocksOf
  <2> QED BY <1>2, <1>4, <1>9, <1>12, <1>15, <2>1 DEF SizeOf
<1>22. TypeOK'
  <2>1. head' \in [0 .. Chunk -> [used : BOOLEAN, fln : Flns, size : 0 .. MaxSize]]
    <3>1. [used |-> FALSE, fln |-> f, size |-> s] \in [used : BOOLEAN, fln : Flns, size : 0 .. MaxSize]
      BY <1>5, <1>6
    <3> QED BY <1>3, <1>8, <3>1
  <2>2. tail' \in [0 .. Chunk -> 0 .. MaxSize]
    BY <1>3, <1>6, <1>8
  <2>3. block' \in [Flns -> Addresses \cup {None}]
    BY <1>3, <1>7, <1>8
  <2>4. flh' \in [Classes -> Seq(Flns)]
    BY <1>8, <1>14, <1>16
  <2>5. cut' \in [at : Addresses \cup {None}, size : 0 .. MaxSize, left : Classes, fln : Flns]
    <3>1. MaxSize \in Nat /\ 0 \in Classes /\ 0 \in 0 .. MaxSize
      BY SizesOrder, ClassFacts
    <3>2. 0 \in Flns
      BY SizeAssumption DEF Flns
    <3> QED BY <1>1, <3>1, <3>2 DEF NoCut
  <2> QED BY <1>1, <1>19, <2>1, <2>2, <2>3, <2>4, <2>5 DEF PoolInv, TypeOK
<1>23. Tiled'
  <2>1. \A x \in Blocks : BlockSizes'[x] = BlockSizes[x]
    BY <1>20, <1>21 DEF BlockSizes
  <2>2. Tile(Blocks, BlockSizes, carved)
    BY DEF PoolInv, Tiled
  <2>3. Tile(Blocks, BlockSizes', carved)
    BY <2>1, <2>2, TileSame
  <2> QED BY <1>1, <1>20, <2>3 DEF PoolInv, Tiled
<1>24. Tails'
  <2>1. ASSUME NEW x \in Blocks PROVE tail'[x + SizeOf(x)] = SizeOf(x)
    <3>1. CASE x = b
      BY <1>4, <1>10, <3>1
    <3>2. CASE x # b
      <4>1. tail[x + SizeOf(x)] = SizeOf(x)
        BY <1>2, <3>2 DEF PoolInv, Tails
      <4>2. x + SizeOf(x) # b + s /\ x + SizeOf(x) \in 0 .. Chunk
        BY <1>4, <3>2, EndsApart, BlockFacts
      <4> QED BY <1>10, <4>1, <4>2
    <3> QED BY <3>1, <3>2
  <2> QED BY <1>20, <1>21, <2>1 DEF Tails
<1>25. Heads'
  <2>1. \A x \in 0 .. Chunk : head'[x].used <=> x \in DOMAIN live
    BY <1>4, <1>9 DEF PoolInv, Heads
  <2>2. head'[Chunk] = NoHead
    BY <1>7, <1>9 DEF PoolInv, Heads
  <2>3. \A g \in Flns : block'[g] # None =>
          block'[g] \notin DOMAIN live /\ head'[block'[g]].fln = g
    <3> TAKE g \in Flns
    <3>1. CASE g = f
      BY <1>4, <1>9, <1>11, <3>1
    <3>2. CASE g # f /\ g # k
      <4>1. block'[g] = block[g] /\ block[g] # b
        BY <1>4, <1>11, <3>2
      <4> QED BY <1>12, <1>13, <4>1 DEF PoolInv, Heads
    <3> QED BY <1>11, <3>1, <3>2
  <2> QED BY <1>1, <2>1, <2>2, <2>3 DEF Heads
<1>26. Listed'
  BY <1>16, <1>19 DEF Listed
<1>27. Cutting'
  BY <1>15 DEF Cutting
<1>28. lst_first(flh'[c]) = f /\ flh'[c] # <<>>
  <2>1. flh'[c] = lst_push_front(flh[c], f) /\ flh[c] \in Seq(Flns)
    BY <1>4, <1>8, <1>14
  <2>2. PICK l : l = flh[c]
    OBVIOUS
  <2>3. lst_first(lst_push_front(l, f)) = f /\ lst_push_front(l, f) # <<>>
    BY <1>5, <2>1, <2>2, PushedFirst
  <2> QED BY <2>1, <2>2, <2>3
<1>29. FlhIdx(taking') = c
  BY <1>1, <1>2
<1>30. Phases'
  <2>1. cut'.at = None /\ taking' # None /\ freeing' = None /\ carved' = Chunk /\ label'
    BY <1>1, <1>4, <1>15
  <2>2. ~(carved' < Chunk)
    BY <1>7, <2>1
  <2>3. ~TooLarge(taking') /\ flh'[FlhIdx(taking')] # <<>>
    BY <1>1, <1>4, <1>28, <1>29
  <2> QED BY <2>1, <2>2, <2>3 DEF Phases
<1>31. Merged'
  <2>1. Halved' = {b}
    BY <1>1, <1>4, <1>11, <1>15, <1>28, <1>29 DEF Halved
  <2>2. ASSUME NEW x \in FreeBlocks', x # b, NEW y \in FreeBlocks',
               x + head'[x].size = y, head'[x].size < MaxSize, Buddies(x, y)'
        PROVE  FALSE
    <3>1. x \in FreeBlocks /\ x \in Blocks /\ x \in Nat /\ head'[x] = head[x]
      BY <1>12, <1>20, <2>2, BlocksOf, OwnerFacts, BlockFacts
    <3>2. CASE y = b
      <4>1. head'[x].size = s /\ x \div (2 * s) = b \div (2 * s)
        BY <1>9, <2>2, <3>2 DEF Buddies
      <4>2. x + s = b
        BY <2>2, <3>2, <4>1
      <4> QED BY <1>6, <3>1, <4>1, <4>2, AlignedIsFirst
    <3>3. CASE y # b
      <4>1. y \in FreeBlocks /\ head'[y] = head[y]
        BY <1>12, <1>20, <3>3, BlocksOf, OwnerFacts
      <4>2. Buddies(x, y)
        BY <2>2, <3>1, <4>1 DEF Buddies
      <4> QED BY <1>4, <2>2, <3>1, <4>1, <4>2 DEF PoolInv, Merged
    <3> QED BY <3>2, <3>3
  <2> QED BY <2>1, <2>2 DEF Merged
<1>32. Refusals'
  <2>1. \A x \in Owners(block) : x \in Blocks
    BY OwnerFacts
  <2> QED BY <1>1, <1>17, <1>21, <2>1 DEF PoolInv, Refusals
<1>33. Served'
  <2>1. \A x \in DOMAIN live : head'[x] = head[x]
    BY <1>4, <1>12, OwnerFacts
  <2> QED BY <1>1, <2>1 DEF PoolInv, Served
<1> QED BY <1>22, <1>23, <1>24, <1>25, <1>26, <1>27, <1>30, <1>31, <1>32, <1>33 DEF PoolInv

-------------------------------------------------------------------------------
(* mmp_free takes a block back from its client. *)
LEMMA FreeBeginInv ==
  ASSUME KeepsFirst, PoolInv, NEW a \in Freeable, FreeBegin(a) PROVE PoolInv'
<1>1. /\ Idle /\ head[a].used
      /\ head' = [head EXCEPT ![a].used = FALSE]
      /\ freeing' = a
      /\ live' = [b \in DOMAIN live \ {a} |-> live[b]]
      /\ refused' = NoCall
      /\ label' = label /\ carved' = carved /\ tail' = tail /\ taking' = taking /\ cut' = cut
      /\ flh' = flh /\ free_fln' = free_fln /\ block' = block
  BY DEF FreeBegin, Accepts, Succeed, lists
<1>2. carved = Chunk /\ label /\ taking = None /\ freeing = None /\ cut.at = None
  BY <1>1 DEF Idle, PoolInv, Phases
<1>3. a \in Addresses /\ a \in 0 .. Chunk /\ a # Chunk /\ a # None /\ a >= MaxSize /\ Chunk \in Nat
  BY SizeAssumption DEF KeepsFirst, Addresses, None
<1>4. a \in DOMAIN live /\ a \in Blocks /\ a \notin Owners(block)
  <2>1. a \in DOMAIN live
    BY <1>1, <1>3 DEF PoolInv, Heads
  <2> QED BY <2>1, OwnerFacts
<1>5. /\ head \in [0 .. Chunk -> [used : BOOLEAN, fln : Flns, size : 0 .. MaxSize]]
      /\ live \in [DOMAIN live -> Requests] /\ DOMAIN live \subseteq Addresses
  BY DEF PoolInv, TypeOK
<1>6. /\ ~head'[a].used /\ head'[a].size = head[a].size
      /\ head'[a] \in [used : BOOLEAN, fln : Flns, size : 0 .. MaxSize]
      /\ \A x \in 0 .. Chunk : x # a => head'[x] = head[x]
  <2>1. head[a] \in [used : BOOLEAN, fln : Flns, size : 0 .. MaxSize]
    BY <1>3, <1>5
  <2>2. head'[a] = [head[a] EXCEPT !.used = FALSE]
    BY <1>1, <1>3, <1>5
  <2>3. \A x \in 0 .. Chunk : x # a => head'[x] = head[x]
    BY <1>1, <1>5
  <2> QED BY <2>1, <2>2, <2>3
<1>7. \A x \in Blocks : x \in 0 .. Chunk /\ head'[x].size = head[x].size
  <2>1. \A x \in Blocks : x \in 0 .. Chunk
    BY BlockFacts DEF Addresses
  <2> QED BY <1>6, <2>1
<1>8. \A x \in Owners(block) : x \in Blocks /\ x # a /\ head'[x] = head[x]
  BY <1>4, <1>6, <1>7, OwnerFacts
<1>9. DOMAIN live' = DOMAIN live \ {a} /\ \A x \in DOMAIN live' : live'[x] = live[x]
  BY <1>1
<1>10. Blocks' = Blocks /\ FreeBlocks' = FreeBlocks /\ Owners(block)' = Owners(block)
       /\ FreeBlocks = Owners(block)
  <2>1. Owners(block)' = Owners(block)
    BY <1>1
  <2>2. Blocks = (DOMAIN live \cup Owners(block) \cup {None, None}) \ {None}
        /\ FreeBlocks = Owners(block) \ {None}
    BY <1>2, BlocksOf
  <2>3. Blocks' = ((DOMAIN live \ {a}) \cup Owners(block) \cup {None, a}) \ {None}
        /\ FreeBlocks' = Owners(block) \ {None}
    BY <1>1, <1>2, <1>9, BlocksOf
  <2>4. None \notin Owners(block)
    BY DEF Owners
  <2> QED BY <1>3, <1>4, <2>1, <2>2, <2>3, <2>4
<1>11. \A x \in Blocks : SizeOf(x)' = SizeOf(x)
  BY <1>1, <1>7 DEF SizeOf
<1>12. TypeOK'
  <2>1. head' \in [0 .. Chunk -> [used : BOOLEAN, fln : Flns, size : 0 .. MaxSize]]
    <3>1. DOMAIN head' = 0 .. Chunk /\ head' = [x \in 0 .. Chunk |-> head'[x]]
      BY <1>1, <1>5
    <3>2. \A x \in 0 .. Chunk : head'[x] \in [used : BOOLEAN, fln : Flns, size : 0 .. MaxSize]
      BY <1>5, <1>6
    <3> QED BY <3>1, <3>2
  <2>2. live' \in [DOMAIN live' -> Requests] /\ DOMAIN live' \subseteq Addresses
    BY <1>1, <1>5
  <2> QED BY <1>1, <1>3, <2>1, <2>2, RefusedTypes DEF PoolInv, TypeOK
<1>13. Tiled'
  <2>1. \A x \in Blocks : BlockSizes'[x] = BlockSizes[x]
    BY <1>10, <1>11 DEF BlockSizes
  <2>2. Tile(Blocks, BlockSizes, carved)
    BY DEF PoolInv, Tiled
  <2>3. Tile(Blocks, BlockSizes', carved)
    BY <2>1, <2>2, TileSame
  <2> QED BY <1>1, <1>10, <2>3 DEF PoolInv, Tiled
<1>14. Tails'
  BY <1>1, <1>10, <1>11 DEF PoolInv, Tails
<1>15. Heads'
  <2>1. \A x \in 0 .. Chunk : head'[x].used <=> x \in DOMAIN live'
    <3> TAKE x \in 0 .. Chunk
    <3>1. CASE x = a
      BY <1>6, <1>9, <3>1
    <3>2. CASE x # a
      BY <1>6, <1>9, <3>2 DEF PoolInv, Heads
    <3> QED BY <3>1, <3>2
  <2>2. head'[Chunk] = NoHead
    BY <1>3, <1>6 DEF PoolInv, Heads
  <2>3. \A g \in Flns : block[g] # None =>
          block[g] \notin DOMAIN live' /\ head'[block[g]].fln = g
    <3> TAKE g \in Flns
    <3> HAVE block[g] # None
    <3>1. block[g] \in Owners(block)
      BY OwnerFacts
    <3> QED BY <1>8, <1>9, <3>1 DEF PoolInv, Heads
  <2> QED BY <1>1, <2>1, <2>2, <2>3 DEF Heads
<1>16. Listed'
  <2>1. \A c \in Classes : Nodes'[c] = Nodes[c]
    <3> TAKE c \in Classes
    <3>1. \A g \in Flns : block[g] # None => head'[block[g]].size = head[block[g]].size
      BY <1>7, OwnerFacts
    <3>2. NodesOf(block, head', cut.at, c) = NodesOf(block, head, cut.at, c)
      BY <3>1 DEF NodesOf
    <3> QED BY <1>1, <3>2 DEF Nodes
  <2>2. Spare' = Spare
    BY <1>1 DEF Spare
  <2> QED BY <1>1, <2>1, <2>2 DEF PoolInv, Listed
<1>17. Cutting'
  BY <1>1, <1>2 DEF Cutting
<1>18. Phases'
  <2>1. a \notin DOMAIN live' /\ a \notin Described'
    <3>1. a \notin Described
      BY <1>3, <1>4 DEF Described, Owners
    <3> QED BY <1>1, <1>9, <3>1 DEF Described
  <2>2. ~(carved' < Chunk)
    BY <1>1, <1>2, <1>3
  <2> QED BY <1>1, <1>2, <1>3, <2>1, <2>2 DEF Phases
<1>19. Merged'
  <2>1. Halved = {}
    BY <1>2 DEF Halved
  <2>2. ASSUME NEW x \in FreeBlocks, NEW y \in FreeBlocks,
               x + head'[x].size = y, head'[x].size < MaxSize, Buddies(x, y)'
        PROVE  FALSE
    <3>1. head'[x] = head[x] /\ head'[y] = head[y]
      BY <1>8, <1>10
    <3>2. Buddies(x, y)
      BY <2>2, <3>1 DEF Buddies
    <3> QED BY <2>1, <2>2, <3>1, <3>2 DEF PoolInv, Merged
  <2> QED BY <1>10, <2>2 DEF Merged
<1>20. Refusals'
  BY <1>1 DEF Refusals, NoCall
<1>21. Served'
  <2>1. \A x \in DOMAIN live : head'[x].size = head[x].size
    BY <1>7, OwnerFacts
  <2> QED BY <1>9, <2>1 DEF PoolInv, Served
<1> QED BY <1>12, <1>13, <1>14, <1>15, <1>16, <1>17, <1>18, <1>19, <1>20, <1>21 DEF PoolInv

-------------------------------------------------------------------------------
(* A block being given back: nothing else is under way. *)
LEMMA FreeingFacts ==
  ASSUME PoolInv, freeing # None
  PROVE  /\ cut.at = None /\ taking = None /\ carved = Chunk /\ label /\ refused = NoCall
         /\ freeing \in Blocks /\ freeing \in Nat /\ freeing \in Addresses /\ freeing >= MaxSize
         /\ freeing \notin Owners(block) /\ freeing \notin DOMAIN live
         /\ Blocks = DOMAIN live \cup Owners(block) \cup {freeing}
         /\ FreeBlocks = Owners(block) /\ Halved = {}
         /\ \A x \in Blocks : SizeOf(x) = head[x].size
         /\ Chunk \in Nat
<1>1. carved \in 0 .. Chunk /\ Chunk \in Nat
  BY SizeAssumption DEF PoolInv, TypeOK
<1>2. /\ taking = None /\ cut.at = None /\ carved = Chunk /\ label /\ refused = NoCall
      /\ freeing >= MaxSize
  BY <1>1 DEF PoolInv, Phases, TypeOK
<1>3. freeing \in Blocks /\ freeing \notin Owners(block) /\ freeing \notin DOMAIN live
  BY OwnerFacts
<1>4. freeing \in Nat /\ freeing \in Addresses
  BY <1>3, BlockFacts
<1>5. None \notin Blocks /\ None \notin DOMAIN live /\ None \notin Owners(block)
  BY BlocksOf, OwnerFacts
<1>6. Blocks = DOMAIN live \cup Owners(block) \cup {freeing} /\ FreeBlocks = Owners(block)
  <2>1. Blocks = (DOMAIN live \cup Owners(block) \cup {freeing}) \ {None}
        /\ FreeBlocks = Owners(block) \ {cut.at}
    BY BlockFacts
  <2> QED BY <1>2, <1>5, <2>1
<1>7. \A x \in Blocks : SizeOf(x) = head[x].size
  BY <1>2, <1>5 DEF SizeOf
<1>8. Halved = {}
  BY <1>2 DEF Halved
<1> QED BY <1>1, <1>2, <1>3, <1>4, <1>6, <1>7, <1>8

(* Blocks x and y are halves of one that is aligned, free but for the one   *)
(* given back; u is the other.                                              *)
Merging(x, y, u) ==
  LET s == head[x].size
  IN  /\ freeing # None /\ x \in Blocks /\ y \in Blocks
      /\ u \in Owners(block) /\ {x, y} = {freeing, u}
      /\ y = x + s /\ head[y].size = s
      /\ s \in Sizes /\ 2 * s \in Sizes /\ Divides(2 * s, x)
      /\ x >= MaxSize

(* The block behind one that is given back. *)
LEMMA NextMerging ==
  ASSUME PoolInv, MergesNext
  PROVE  Merging(freeing, NextBlock, NextBlock)
<1>1. PICK x, y, s : x = freeing /\ y = NextBlock /\ s = head[x].size
  OBVIOUS
<1>2. x # None /\ s < MaxSize /\ Buddies(x, y) /\ y = x + s
  BY <1>1 DEF MergesNext, Growing, NextBlock
<1>3. /\ x \in Blocks /\ x \in Nat /\ x >= MaxSize /\ carved = Chunk /\ SizeOf(x) = s
      /\ Blocks = DOMAIN live \cup Owners(block) \cup {x}
      /\ Chunk \in Nat
  BY <1>1, <1>2, FreeingFacts
<1>4. s \in Sizes /\ s \in Nat \ {0} /\ Divides(s, x) /\ y \in Blocks \cup {Chunk}
  BY <1>2, <1>3, BlockFacts
<1>5. ~head[y].used /\ head[y].size = s /\ x \div (2 * s) = y \div (2 * s)
  BY <1>1, <1>2 DEF Buddies
<1>6. y # Chunk
  BY <1>4, <1>5 DEF PoolInv, Heads, NoHead
<1>7. y \in Owners(block)
  <2>1. y \in Blocks /\ y # x
    BY <1>2, <1>3, <1>4, <1>6
  <2>2. y \in 0 .. Chunk
    BY <2>1, BlockFacts DEF Addresses
  <2>3. y \notin DOMAIN live
    BY <1>5, <2>2 DEF PoolInv, Heads
  <2> QED BY <1>3, <2>1, <2>3
<1>8. 2 * s \in Sizes
  BY <1>2, <1>4, SizesOrder
<1>9. Divides(2 * s, x)
  BY <1>2, <1>3, <1>4, <1>5, PairIsAligned
<1> QED BY <1>1, <1>2, <1>3, <1>4, <1>5, <1>6, <1>7, <1>8, <1>9 DEF Merging

(* The block before one that is given back, which its tail gives. *)
LEMMA PreviousBlock ==
  ASSUME PoolInv, freeing # None
  PROVE  /\ PrevBlock \in Blocks /\ PrevBlock \in Nat /\ PrevBlock \in 0 .. Chunk
         /\ PrevBlock # freeing
         /\ PrevBlock + head[PrevBlock].size = freeing
         /\ \A b \in Blocks : b + head[b].size = freeing => b = PrevBlock
<1>1. /\ freeing \in Blocks /\ freeing \in Nat /\ freeing >= MaxSize /\ cut.at = None
      /\ \A x \in Blocks : SizeOf(x) = head[x].size
  BY FreeingFacts
<1>2. Tile(Blocks, BlockSizes, carved) /\ \A x \in Blocks : BlockSizes[x] = SizeOf(x)
  BY DEF PoolInv, Tiled, BlockSizes
<1>3. freeing > 0
  BY <1>1, SizesOrder
<1>4. PICK q \in Blocks : q < freeing /\ q + BlockSizes[q] = freeing
  <2>1. PICK B, z, e, b : B = Blocks /\ z = BlockSizes /\ e = carved /\ b = freeing
    OBVIOUS
  <2>2. Tile(B, z, e) /\ b \in B /\ b > 0
    BY <1>1, <1>2, <1>3, <2>1
  <2>3. \E p \in B : p < b /\ p + z[p] = b
    BY <2>2, TilePrevious
  <2> QED BY <2>1, <2>3
<1>5. ASSUME NEW b \in Blocks
      PROVE  b \in Nat /\ b \in 0 .. Chunk /\ head[b].size \in Nat
             /\ tail[b + head[b].size] = head[b].size
  <2>1. b \in Nat /\ b \in Addresses /\ SizeOf(b) \in Nat \ {0} /\ b # None
    BY BlockFacts, BlocksOf
  <2>2. SizeOf(b) = head[b].size /\ b # cut.at
    BY <1>1, <2>1
  <2>3. tail[b + SizeOf(b)] = SizeOf(b)
    BY <2>2 DEF PoolInv, Tails
  <2>4. b \in 0 .. Chunk
    BY <2>1, SizeAssumption DEF Addresses
  <2> QED BY <2>1, <2>2, <2>3, <2>4
<1>6. ASSUME NEW b \in Blocks, b + head[b].size = freeing PROVE b = PrevBlock
  <2>1. PICK s : s = head[b].size
    OBVIOUS
  <2>2. b \in Nat /\ s \in Nat /\ tail[freeing] = s /\ b + s = freeing
    BY <1>5, <1>6, <2>1
  <2>3. PrevBlock = freeing - s
    BY <2>2 DEF PrevBlock
  <2> QED BY <1>1, <2>2, <2>3
<1>7. q + head[q].size = freeing /\ q # freeing
  BY <1>1, <1>2, <1>4
<1>8. q = PrevBlock
  BY <1>6, <1>7
<1>9. PrevBlock \in Blocks /\ PrevBlock # freeing /\ PrevBlock + head[PrevBlock].size = freeing
  BY <1>7, <1>8
<1>10. PrevBlock \in Nat /\ PrevBlock \in 0 .. Chunk
  BY <1>5, <1>9
<1> QED BY <1>6, <1>9, <1>10

LEMMA PrevMerging ==
  ASSUME PoolInv, MergesPrev
  PROVE  Merging(PrevBlock, freeing, PrevBlock)
<1>1. PICK x, y, s : x = PrevBlock /\ y = freeing /\ s = head[x].size
  OBVIOUS
<1>2. y # None /\ head[y].size < MaxSize /\ Buddies(x, y)
  BY <1>1 DEF MergesPrev, Growing
<1>3. /\ y \in Blocks /\ y \in Nat /\ y >= MaxSize
      /\ Blocks = DOMAIN live \cup Owners(block) \cup {y}
      /\ \A b \in Blocks : SizeOf(b) = head[b].size
  BY <1>1, <1>2, FreeingFacts
<1>4. x \in Blocks /\ x \in Nat /\ x \in 0 .. Chunk /\ x # y /\ x + s = y
  BY <1>1, <1>2, PreviousBlock
<1>5. s \in Sizes /\ s \in Nat \ {0} /\ Divides(s, x)
  BY <1>1, <1>3, <1>4, BlockFacts
<1>6. ~head[x].used /\ head[y].size = s /\ x \div (2 * s) = y \div (2 * s)
  BY <1>1, <1>2 DEF Buddies
<1>7. x \in Owners(block)
  <2>1. x \notin DOMAIN live
    BY <1>4, <1>6 DEF PoolInv, Heads
  <2> QED BY <1>3, <1>4, <2>1
<1>8. 2 * s \in Sizes
  BY <1>2, <1>5, <1>6, SizesOrder
<1>9. Divides(2 * s, x)
  BY <1>4, <1>5, <1>6, PairIsAligned
<1>10. x >= MaxSize
  <2>1. Divides(2 * s, MaxSize) /\ MaxSize \in Nat
    BY <1>8, SizesOrder
  <2> QED BY <1>3, <1>4, <1>5, <1>9, <2>1, PairBehind
<1> QED BY <1>1, <1>2, <1>3, <1>4, <1>5, <1>6, <1>7, <1>8, <1>9, <1>10 DEF Merging

(* _merge_buddy_next and _merge_buddy_prev make one block of two. *)
LEMMA MergeInv ==
  ASSUME PoolInv, NEW x, NEW y, NEW u, Merging(x, y, u), Merge(x, y, u) PROVE PoolInv'
<1>1. PICK f, s, t : f = head[u].fln /\ s = head[x].size /\ t = 2 * s
  OBVIOUS
<1>2. /\ flh' = [c \in Classes |-> lst_remove(flh[c], f)]
      /\ free_fln' = lst_push_front(lst_remove(free_fln, f), f)
      /\ block' = [block EXCEPT ![f] = None]
      /\ head' = [[head EXCEPT ![u].fln = 0] EXCEPT ![x].size = t, ![x].used = FALSE]
      /\ tail' = [tail EXCEPT ![x + t] = t]
      /\ freeing' = x
      /\ label' = label /\ carved' = carved /\ taking' = taking /\ cut' = cut
      /\ live' = live /\ refused' = refused
  BY <1>1 DEF Merge
<1>3. /\ freeing # None /\ x \in Blocks /\ y \in Blocks
      /\ u \in Owners(block) /\ {x, y} = {freeing, u}
      /\ y = x + s /\ head[y].size = s
      /\ s \in Sizes /\ t \in Sizes /\ Divides(t, x) /\ x >= MaxSize
  BY <1>1 DEF Merging
<1>4. /\ cut.at = None /\ taking = None /\ carved = Chunk /\ label /\ refused = NoCall
      /\ freeing \notin Owners(block) /\ freeing \notin DOMAIN live
      /\ Blocks = DOMAIN live \cup Owners(block) \cup {freeing}
      /\ FreeBlocks = Owners(block) /\ Halved = {}
      /\ \A z \in Blocks : SizeOf(z) = head[z].size
      /\ Chunk \in Nat
  BY <1>3, FreeingFacts
<1>5. s \in Nat \ {0} /\ t \in 0 .. MaxSize /\ t \in Nat \ {0} /\ MaxSize \in Nat
  BY <1>3, SizesOrder
<1>6. /\ x \in Nat /\ y \in Nat /\ x # y /\ u \in {x, y} /\ u # freeing
      /\ x \in Addresses /\ x \in 0 .. Chunk /\ x # Chunk /\ u \in 0 .. Chunk /\ u # Chunk
      /\ x # None /\ x + t = y + s /\ x + t \in 0 .. Chunk
  <2>1. x \in Nat /\ y \in Nat /\ x \in Addresses /\ y \in Addresses
    BY <1>3, BlockFacts
  <2>2. x # y /\ x + t = y + s
    <3>1. y = x + s /\ t = 2 * s
      BY <1>1, <1>3
    <3> QED BY <1>5, <2>1, <3>1
  <2>3. u \in {x, y} /\ u # freeing
    BY <1>3, <1>4
  <2>4. y + SizeOf(y) \in 0 .. Chunk /\ SizeOf(y) = s
    BY <1>3, <1>4, BlockFacts
  <2>5. \A z \in Addresses : z \in 0 .. Chunk /\ z # Chunk /\ z # None
    BY <1>4 DEF Addresses, None
  <2> QED BY <2>1, <2>2, <2>3, <2>4, <2>5
<1>7. x \notin DOMAIN live /\ y \notin DOMAIN live /\ u \notin DOMAIN live
  <2>1. u \notin DOMAIN live
    BY <1>3, OwnerFacts
  <2> QED BY <1>3, <1>4, <2>1
<1>8. f \in Flns /\ block[f] = u /\ u # None
  <2>1. u # None
    BY <1>3 DEF Owners
  <2> QED BY <1>1, <1>3, <2>1, OwnerFacts
<1>9. /\ head \in [0 .. Chunk -> [used : BOOLEAN, fln : Flns, size : 0 .. MaxSize]]
      /\ tail \in [0 .. Chunk -> 0 .. MaxSize] /\ block \in [Flns -> Addresses \cup {None}]
      /\ flh \in [Classes -> Seq(Flns)] /\ free_fln \in Seq(Flns)
      /\ \A d \in Classes : ListsOnce(flh[d], Nodes[d])
  BY DEF PoolInv, TypeOK, Listed
<1>10. ~head[x].used /\ ~head[u].used /\ 0 \in Flns
  <2>1. 0 \in Flns
    BY <1>8, SizeAssumption DEF Flns
  <2> QED BY <1>6, <1>7, <2>1 DEF PoolInv, Heads
<1>11. /\ head' \in [0 .. Chunk -> [used : BOOLEAN, fln : Flns, size : 0 .. MaxSize]]
       /\ ~head'[x].used /\ head'[x].size = t /\ ~head'[u].used
       /\ \A z \in 0 .. Chunk : z \notin {x, u} => head'[z] = head[z]
  <2>1. PICK g : g = [head EXCEPT ![u].fln = 0]
    OBVIOUS
  <2>2. /\ g \in [0 .. Chunk -> [used : BOOLEAN, fln : Flns, size : 0 .. MaxSize]]
        /\ ~g[u].used
        /\ \A z \in 0 .. Chunk : z # u => g[z] = head[z]
    <3>1. head[u] \in [used : BOOLEAN, fln : Flns, size : 0 .. MaxSize]
      BY <1>6, <1>9
    <3>2. g[u] = [head[u] EXCEPT !.fln = 0]
      BY <1>6, <1>9, <2>1
    <3>3. g[u] \in [used : BOOLEAN, fln : Flns, size : 0 .. MaxSize] /\ ~g[u].used
      BY <1>10, <3>1, <3>2
    <3>4. DOMAIN g = 0 .. Chunk /\ g = [z \in 0 .. Chunk |-> g[z]]
          /\ \A z \in 0 .. Chunk : z # u => g[z] = head[z]
      BY <1>9, <2>1
    <3>5. \A z \in 0 .. Chunk : g[z] \in [used : BOOLEAN, fln : Flns, size : 0 .. MaxSize]
      BY <1>9, <3>3, <3>4
    <3> QED BY <3>3, <3>4, <3>5
  <2>3. head' = [g EXCEPT ![x].size = t, ![x].used = FALSE]
    BY <1>2, <2>1
  <2>4. g[x] \in [used : BOOLEAN, fln : Flns, size : 0 .. MaxSize]
    BY <1>6, <2>2
  <2>5. head'[x] = [[g[x] EXCEPT !.size = t] EXCEPT !.used = FALSE]
    BY <1>6, <2>2, <2>3
  <2>6. /\ head'[x] \in [used : BOOLEAN, fln : Flns, size : 0 .. MaxSize]
        /\ ~head'[x].used /\ head'[x].size = t
    BY <1>5, <2>4, <2>5
  <2>7. DOMAIN head' = 0 .. Chunk /\ head' = [z \in 0 .. Chunk |-> head'[z]]
        /\ \A z \in 0 .. Chunk : z # x => head'[z] = g[z]
    BY <2>2, <2>3
  <2>8. \A z \in 0 .. Chunk : head'[z] \in [used : BOOLEAN, fln : Flns, size : 0 .. MaxSize]
    BY <2>2, <2>6, <2>7
  <2>9. ~head'[u].used
    BY <1>6, <2>2, <2>6, <2>7
  <2> QED BY <2>2, <2>6, <2>7, <2>8, <2>9
<1>12. \A z \in Blocks : z \in 0 .. Chunk /\ (z \notin {x, y} => head'[z] = head[z])
  <2>1. \A z \in Blocks : z \in 0 .. Chunk
    BY BlockFacts DEF Addresses
  <2> QED BY <1>6, <1>11, <2>1
<1>13. \A g \in Flns : g # f /\ block[g] # None => block[g] \in Blocks \ {x, y}
  <2> TAKE g \in Flns
  <2> HAVE g # f /\ block[g] # None
  <2>1. block[g] \in Owners(block) /\ block[g] \in Blocks
    BY OwnerFacts
  <2>2. block[g] # u
    BY <1>8, OwnerFacts
  <2>3. block[g] # freeing
    BY <1>4, <2>1
  <2> QED BY <1>3, <2>1, <2>2, <2>3
<1>14. PICK c \in Classes : s = BlockSize(c)
  BY <1>3 DEF Sizes
<1>15. head[u].size = s
  BY <1>1, <1>3, <1>6
<1>16. /\ f \in Nodes[c] /\ Nodes'[c] = Nodes[c] \ {f}
       /\ \A d \in Classes : d # c => Nodes'[d] = Nodes[d] /\ f \notin Nodes[d]
       /\ Owners(block') = Owners(block) \ {u}
       /\ Spare' = Spare \cup {f} /\ f \notin Spare
  <2>1. \A g \in Flns : g # f /\ block[g] \notin {None, cut.at}
                        => head'[block[g]].size = head[block[g]].size
    BY <1>12, <1>13
  <2>2. block[f] # None /\ block[f] # cut.at /\ head[block[f]].size = BlockSize(c) /\ cut' = cut
    BY <1>2, <1>4, <1>8, <1>14, <1>15
  <2>3. /\ f \in Nodes[c] /\ Nodes'[c] = Nodes[c] \ {f}
        /\ \A d \in Classes : d # c => Nodes'[d] = Nodes[d] /\ f \notin Nodes[d]
        /\ Owners(block') = Owners(block) \ {block[f]}
        /\ Spare' = Spare \cup {f} /\ f \notin Spare
    BY <1>2, <1>8, <2>1, <2>2, LoseStep
  <2> QED BY <1>8, <2>3
<1>17. Blocks' = Blocks \ {y} /\ FreeBlocks' = FreeBlocks \ {u} /\ y \in Blocks
  <2>1. Blocks' = (DOMAIN live \cup (Owners(block) \ {u}) \cup {None, x}) \ {None}
        /\ FreeBlocks' = (Owners(block) \ {u}) \ {None}
    BY <1>2, <1>4, <1>16, BlocksOf
  <2>2. None \notin Blocks /\ None \notin Owners(block)
    BY BlocksOf DEF Owners
  <2>3. Blocks' = (DOMAIN live \cup (Owners(block) \ {u})) \cup {x}
    BY <1>4, <1>6, <2>1, <2>2
  <2>4. DOMAIN live \cup (Owners(block) \ {u}) = Blocks \ {x, y}
    BY <1>3, <1>4, <1>7
  <2>5. Blocks' = Blocks \ {y}
    BY <1>3, <1>6, <2>3, <2>4
  <2>6. FreeBlocks' = FreeBlocks \ {u}
    BY <1>4, <2>1, <2>2
  <2> QED BY <1>3, <2>5, <2>6
<1>18. /\ \A z \in Blocks \ {x, y} : SizeOf(z)' = SizeOf(z)
       /\ SizeOf(x)' = t /\ SizeOf(x) = s /\ SizeOf(y) = s
  <2>1. \A z \in Blocks : z # None
    BY BlocksOf
  <2>2. ASSUME NEW z \in Blocks \ {x, y} PROVE SizeOf(z)' = SizeOf(z)
    <3>1. z # None /\ z # cut.at /\ z # cut'.at
      BY <1>2, <1>4, <2>1
    <3>2. head'[z] = head[z]
      BY <1>12
    <3> QED BY <3>1, <3>2 DEF SizeOf
  <2>3. SizeOf(x)' = t
    BY <1>2, <1>4, <1>6, <1>11 DEF SizeOf
  <2> QED BY <1>1, <1>3, <1>4, <2>2, <2>3
<1>19. TypeOK'
  <2>1. tail' \in [0 .. Chunk -> 0 .. MaxSize]
    BY <1>2, <1>5, <1>6, <1>9
  <2>2. block' \in [Flns -> Addresses \cup {None}]
    BY <1>2, <1>9
  <2>3. free_fln' \in Seq(Flns)
    BY <1>2, <1>8, <1>16, Returned
  <2>4. flh' \in [Classes -> Seq(Flns)]
    <3>1. ASSUME NEW d \in Classes PROVE lst_remove(flh[d], f) \in Seq(Flns)
      <4>1. PICK l, T : l = flh[d] /\ T = Nodes[d]
        OBVIOUS
      <4>2. l \in Seq(Flns) /\ ListsOnce(l, T)
        BY <1>9, <4>1
      <4>3. CASE f \in T
        BY <4>1, <4>2, <4>3, RemoveOnce
      <4>4. CASE f \notin T
        BY <4>1, <4>2, <4>4, RemoveAbsent
      <4> QED BY <4>3, <4>4
    <3> QED BY <1>2, <3>1
  <2>5. freeing' \in Addresses \cup {None}
    BY <1>2, <1>6
  <2> QED BY <1>2, <1>11, <2>1, <2>2, <2>3, <2>4, <2>5 DEF PoolInv, TypeOK
<1>20. Tiled'
  <2>1. PICK B, z, w, e : B = Blocks /\ z = BlockSizes /\ w = BlockSizes' /\ e = carved
    OBVIOUS
  <2>2. Tile(B, z, e) /\ x \in B /\ z[x] = s /\ x + s \in B /\ z[x + s] = s
    BY <1>3, <1>18, <2>1 DEF PoolInv, Tiled, BlockSizes
  <2>3. w[x] = t /\ \A a \in B \ {x, x + s} : w[a] = z[a]
    <3>1. \A a \in Blocks \ {y} : BlockSizes'[a] = SizeOf(a)'
      BY <1>17 DEF BlockSizes
    <3>2. \A a \in Blocks : BlockSizes[a] = SizeOf(a)
      BY DEF BlockSizes
    <3> QED BY <1>3, <1>6, <1>18, <2>1, <3>1, <3>2
  <2>4. Tile(B \ {x + s}, w, e)
    <3>1. w[x] = 2 * s /\ 2 * s \in Sizes /\ Divides(2 * s, x)
      BY <1>1, <1>3, <2>3
    <3>2. s = z[x] /\ x + s \in B /\ z[x + s] = s /\ x \in B /\ Tile(B, z, e)
      BY <2>2
    <3>3. \A a \in B \ {x, x + s} : w[a] = z[a]
      BY <2>3
    <3> QED BY <3>1, <3>2, <3>3, TileMerge
  <2>5. Tile(Blocks', BlockSizes', carved')
    BY <1>2, <1>3, <1>17, <2>1, <2>4
  <2> QED BY <1>2, <2>5 DEF PoolInv, Tiled
<1>21. Tails'
  <2>1. tail'[x + t] = t /\ \A z \in 0 .. Chunk : z # x + t => tail'[z] = tail[z]
    BY <1>2, <1>6, <1>9
  <2>2. ASSUME NEW z \in Blocks \ {x, y} PROVE tail'[z + SizeOf(z)] = SizeOf(z)
    <3>1. z # cut.at
      BY <1>4, BlocksOf
    <3>2. tail[z + SizeOf(z)] = SizeOf(z)
      BY <3>1 DEF PoolInv, Tails
    <3>3. z + SizeOf(z) # y + SizeOf(y) /\ z + SizeOf(z) \in 0 .. Chunk
      BY <1>3, EndsApart, BlockFacts
    <3> QED BY <1>6, <1>18, <2>1, <3>2, <3>3
  <2> QED BY <1>17, <1>18, <2>1, <2>2 DEF Tails
<1>22. Heads'
  <2>1. \A z \in 0 .. Chunk : head'[z].used <=> z \in DOMAIN live
    <3> TAKE z \in 0 .. Chunk
    <3>1. CASE z \in {x, u}
      BY <1>7, <1>11, <3>1
    <3>2. CASE z \notin {x, u}
      BY <1>11, <3>2 DEF PoolInv, Heads
    <3> QED BY <3>1, <3>2
  <2>2. head'[Chunk] = NoHead
    BY <1>4, <1>6, <1>11 DEF PoolInv, Heads
  <2>3. \A g \in Flns : block'[g] # None =>
          block'[g] \notin DOMAIN live /\ head'[block'[g]].fln = g
    <3> TAKE g \in Flns
    <3>1. CASE g = f
      BY <1>2, <1>9, <3>1
    <3>2. CASE g # f /\ block[g] # None
      <4>1. block'[g] = block[g]
        BY <1>2, <1>9, <3>2
      <4>2. head'[block[g]] = head[block[g]]
        BY <1>12, <1>13, <3>2
      <4> QED BY <3>2, <4>1, <4>2 DEF PoolInv, Heads
    <3> QED BY <1>2, <1>9, <3>1, <3>2
  <2> QED BY <1>2, <2>1, <2>2, <2>3 DEF Heads
<1>23. Listed'
  <2>1. ListsOnce(free_fln', Spare')
    BY <1>2, <1>8, <1>16, Returned
  <2>2. ASSUME NEW d \in Classes PROVE ListsOnce(flh'[d], Nodes'[d])
    <3>1. PICK l, T : l = flh[d] /\ T = Nodes[d]
      OBVIOUS
    <3>2. l \in Seq(Flns) /\ ListsOnce(l, T) /\ flh'[d] = lst_remove(l, f)
      BY <1>2, <1>9, <3>1
    <3>3. CASE d = c
      <4>1. f \in T /\ Nodes'[d] = T \ {f}
        BY <1>16, <3>1, <3>3
      <4>2. ListsOnce(lst_remove(l, f), T \ {f})
        BY <3>2, <4>1, RemoveOnce
      <4> QED BY <3>2, <4>1, <4>2
    <3>4. CASE d # c
      <4>1. f \notin T /\ Nodes'[d] = T
        BY <1>16, <3>1, <3>4
      <4>2. lst_remove(l, f) = l
        BY <3>2, <4>1, RemoveAbsent
      <4> QED BY <3>2, <4>1, <4>2
    <3> QED BY <3>3, <3>4
  <2> QED BY <2>1, <2>2 DEF Listed
<1>24. Cutting'
  BY <1>2, <1>4 DEF Cutting
<1>25. Phases'
  <2>1. x \notin DOMAIN live' /\ x \notin Described'
    <3>1. x \notin Owners(block')
      BY <1>3, <1>4, <1>6, <1>16
    <3>2. Described' \subseteq Owners(block') \cup {None}
      BY DEF Described, Owners
    <3> QED BY <1>2, <1>6, <1>7, <3>1, <3>2
  <2>2. ~(carved' < Chunk)
    BY <1>2, <1>4
  <2> QED BY <1>2, <1>3, <1>4, <2>1, <2>2 DEF Phases
<1>26. Merged'
  <2>1. ASSUME NEW z \in FreeBlocks', NEW w \in FreeBlocks',
               z + head'[z].size = w, head'[z].size < MaxSize, Buddies(z, w)'
        PROVE  FALSE
    <3>1. z \in FreeBlocks /\ w \in FreeBlocks /\ z \notin {x, y} /\ w \notin {x, y}
          /\ z \in Blocks /\ w \in Blocks
      <4>1. z \in Owners(block) \ {u} /\ w \in Owners(block) \ {u}
        BY <1>4, <1>17
      <4> QED BY <1>3, <1>4, <4>1
    <3>2. head'[z] = head[z] /\ head'[w] = head[w]
      BY <1>12, <3>1
    <3>3. Buddies(z, w)
      BY <2>1, <3>2 DEF Buddies
    <3> QED BY <1>4, <2>1, <3>1, <3>2, <3>3 DEF PoolInv, Merged
  <2> QED BY <2>1 DEF Merged
<1>27. Refusals'
  BY <1>2, <1>4 DEF Refusals, NoCall
<1>28. Served'
  <2>1. \A z \in DOMAIN live : head'[z] = head[z]
    BY <1>3, <1>7, <1>12, OwnerFacts
  <2> QED BY <1>2, <2>1 DEF PoolInv, Served
<1> QED BY <1>19, <1>20, <1>21, <1>22, <1>23, <1>24, <1>25, <1>26, <1>27, <1>28 DEF PoolInv

LEMMA MergeNextInv == ASSUME PoolInv, MergeNext PROVE PoolInv'
BY NextMerging, MergeInv DEF MergeNext

LEMMA MergePrevInv == ASSUME PoolInv, MergePrev PROVE PoolInv'
BY PrevMerging, MergeInv DEF MergePrev

-------------------------------------------------------------------------------
(* The block given back, merged as far as it goes, is listed. *)
LEMMA FreeEndInv == ASSUME PoolInv, FreeEnd PROVE PoolInv'
<1>1. PICK x, f, s : x = freeing /\ f = lst_first(free_fln) /\ s = head[x].size
  OBVIOUS
<1>2. /\ x # None /\ ~MergesNext /\ ~MergesPrev /\ free_fln # <<>>
      /\ head' = [head EXCEPT ![x].fln = f]
      /\ flh' = [flh EXCEPT ![Log2(s)] = lst_push_front(@, f)]
      /\ block' = [block EXCEPT ![f] = x]
      /\ free_fln' = lst_pop_front(free_fln)
      /\ freeing' = None /\ refused' = NoCall
      /\ label' = label /\ carved' = carved /\ tail' = tail /\ taking' = taking
      /\ cut' = cut /\ live' = live
  BY <1>1 DEF FreeEnd, Succeed, Fetched, lst_new
<1>3. /\ cut.at = None /\ taking = None /\ carved = Chunk /\ label
      /\ x \in Blocks /\ x \in Nat /\ x \in Addresses /\ x >= MaxSize
      /\ x \notin Owners(block) /\ x \notin DOMAIN live
      /\ Blocks = DOMAIN live \cup Owners(block) \cup {x}
      /\ FreeBlocks = Owners(block) /\ Halved = {}
      /\ \A z \in Blocks : SizeOf(z) = head[z].size
      /\ Chunk \in Nat
  BY <1>1, <1>2, FreeingFacts
<1>4. s \in Sizes /\ s \in Nat \ {0} /\ SizeOf(x) = s
  BY <1>1, <1>3, BlockFacts
<1>5. PICK c \in Classes : s = BlockSize(c) /\ Log2(s) = c
  BY <1>4, LogOfSize DEF Sizes
<1>6. /\ f \in Flns /\ block[f] = None /\ f \in Spare
      /\ lst_pop_front(free_fln) \in Seq(Flns)
      /\ ListsOnce(lst_pop_front(free_fln), Spare \ {f})
  BY <1>1, <1>2, SpareNodeFetched
<1>7. /\ head \in [0 .. Chunk -> [used : BOOLEAN, fln : Flns, size : 0 .. MaxSize]]
      /\ block \in [Flns -> Addresses \cup {None}]
  BY DEF PoolInv, TypeOK
<1>8. x \in 0 .. Chunk /\ x # Chunk
  BY <1>3 DEF Addresses
<1>9. /\ head' \in [0 .. Chunk -> [used : BOOLEAN, fln : Flns, size : 0 .. MaxSize]]
      /\ head'[x].fln = f /\ head'[x].size = s /\ head'[x].used = head[x].used
      /\ \A z \in 0 .. Chunk : z # x => head'[z] = head[z]
  <2>1. head[x] \in [used : BOOLEAN, fln : Flns, size : 0 .. MaxSize]
    BY <1>7, <1>8
  <2>2. head'[x] = [head[x] EXCEPT !.fln = f]
    BY <1>2, <1>7, <1>8
  <2>3. /\ head'[x] \in [used : BOOLEAN, fln : Flns, size : 0 .. MaxSize]
        /\ head'[x].fln = f /\ head'[x].size = s /\ head'[x].used = head[x].used
    BY <1>1, <1>6, <2>1, <2>2
  <2>4. DOMAIN head' = 0 .. Chunk /\ head' = [z \in 0 .. Chunk |-> head'[z]]
        /\ \A z \in 0 .. Chunk : z # x => head'[z] = head[z]
    BY <1>2, <1>7
  <2>5. \A z \in 0 .. Chunk : head'[z] \in [used : BOOLEAN, fln : Flns, size : 0 .. MaxSize]
    BY <1>7, <2>3, <2>4
  <2> QED BY <2>3, <2>4, <2>5
<1>10. \A z \in Blocks : /\ z \in 0 .. Chunk
                         /\ head'[z].size = head[z].size /\ head'[z].used = head[z].used
                         /\ (z # x => head'[z] = head[z])
  <2>1. \A z \in Blocks : z \in 0 .. Chunk
    BY BlockFacts DEF Addresses
  <2> QED BY <1>1, <1>9, <2>1
<1>11. \A g \in Flns : block[g] # None => block[g] \in Blocks /\ block[g] # x
  BY <1>3, OwnerFacts
<1>12. /\ flh' \in [Classes -> Seq(Flns)]
       /\ \A d \in Classes : ListsOnce(flh'[d], Nodes'[d])
       /\ Owners(block') = Owners(block) \cup {x}
       /\ Spare' = Spare \ {f}
  <2>1. \A g \in Flns : block[g] \notin {None, cut.at}
                        => head'[block[g]].size = head[block[g]].size
    BY <1>10, <1>11
  <2>2. x # cut.at /\ head'[x].size = BlockSize(c) /\ cut'.at = cut.at
        /\ flh' = [flh EXCEPT ![c] = lst_push_front(@, f)]
    BY <1>2, <1>3, <1>5, <1>9
  <2> QED BY <1>2, <1>6, <2>1, <2>2, GainStep
<1>13. Blocks' = Blocks /\ FreeBlocks' = FreeBlocks \cup {x}
  <2>1. Blocks' = (DOMAIN live \cup (Owners(block) \cup {x}) \cup {None, None}) \ {None}
        /\ FreeBlocks' = (Owners(block) \cup {x}) \ {None}
    BY <1>2, <1>3, <1>12, BlocksOf
  <2>2. None \notin Blocks /\ None \notin Owners(block)
    BY BlocksOf DEF Owners
  <2> QED BY <1>2, <1>3, <2>1, <2>2
<1>14. \A z \in Blocks : SizeOf(z)' = SizeOf(z)
  BY <1>2, <1>10 DEF SizeOf
<1>15. TypeOK'
  <2>1. block' \in [Flns -> Addresses \cup {None}]
    BY <1>2, <1>3, <1>7
  <2> QED BY <1>2, <1>6, <1>9, <1>12, <2>1, RefusedTypes DEF PoolInv, TypeOK
<1>16. Tiled'
  <2>1. \A z \in Blocks : BlockSizes'[z] = BlockSizes[z]
    BY <1>13, <1>14 DEF BlockSizes
  <2>2. Tile(Blocks, BlockSizes, carved)
    BY DEF PoolInv, Tiled
  <2>3. Tile(Blocks, BlockSizes', carved)
    BY <2>1, <2>2, TileSame
  <2> QED BY <1>2, <1>13, <2>3 DEF PoolInv, Tiled
<1>17. Tails'
  BY <1>2, <1>13, <1>14 DEF PoolInv, Tails
<1>18. Heads'
  <2>1. \A z \in 0 .. Chunk : head'[z].used <=> z \in DOMAIN live
    BY <1>9 DEF PoolInv, Heads
  <2>2. head'[Chunk] = NoHead
    BY <1>3, <1>8, <1>9 DEF PoolInv, Heads
  <2>3. \A g \in Flns : block'[g] # None =>
          block'[g] \notin DOMAIN live /\ head'[block'[g]].fln = g
    <3> TAKE g \in Flns
    <3>1. CASE g = f
      BY <1>2, <1>3, <1>7, <1>9, <3>1
    <3>2. CASE g # f /\ block[g] # None
      <4>1. block'[g] = block[g]
        BY <1>2, <1>7, <3>2
      <4>2. head'[block[g]] = head[block[g]]
        BY <1>10, <1>11, <3>2
      <4> QED BY <3>2, <4>1, <4>2 DEF PoolInv, Heads
    <3> QED BY <1>2, <1>7, <3>1, <3>2
  <2> QED BY <1>2, <2>1, <2>2, <2>3 DEF Heads
<1>19. Listed'
  BY <1>2, <1>6, <1>12 DEF Listed
<1>20. Cutting'
  BY <1>2, <1>3 DEF Cutting
<1>21. Phases'
  <2>1. ~(carved' < Chunk)
    BY <1>2, <1>3
  <2> QED BY <1>2, <1>3, <2>1 DEF Phases
<1>22. Merged'
  <2>1. ASSUME NEW z \in FreeBlocks', NEW w \in FreeBlocks',
               z + head'[z].size = w, head'[z].size < MaxSize, Buddies(z, w)'
        PROVE  FALSE
    <3>1. /\ z \in Blocks /\ w \in Blocks /\ z \in FreeBlocks \cup {x} /\ w \in FreeBlocks \cup {x}
      BY <1>3, <1>13
    <3>2. /\ head'[z].size = head[z].size /\ head'[z].used = head[z].used
          /\ head'[w].size = head[w].size /\ head'[w].used = head[w].used
      BY <1>10, <3>1
    <3>3. Buddies(z, w) /\ z + head[z].size = w /\ head[z].size < MaxSize
          /\ head[w].size = head[z].size
      BY <2>1, <3>2 DEF Buddies
    <3>4. z # w
      <4>1. z \in Nat /\ SizeOf(z) \in Nat \ {0} /\ SizeOf(z) = head[z].size
        BY <1>3, <3>1, BlockFacts
      <4>2. PICK r : r = head[z].size
        OBVIOUS
      <4> QED BY <3>3, <4>1, <4>2
    <3>5. \A b \in FreeBlocks : Unlinkable(b)
      BY FreeBlockListed DEF Unlinkable, lst_empty
    <3>6. CASE z = x
      <4>1. NextBlock = w /\ Growing /\ w \in FreeBlocks
        BY <1>1, <1>2, <3>1, <3>3, <3>4, <3>6 DEF NextBlock, Growing
      <4> QED BY <1>1, <1>2, <3>3, <3>5, <3>6, <4>1 DEF MergesNext
    <3>7. CASE w = x
      <4>1. z = PrevBlock
        BY <1>1, <1>2, <3>1, <3>3, <3>7, PreviousBlock
      <4>2. Growing /\ z \in FreeBlocks
        BY <1>1, <1>2, <3>1, <3>3, <3>4, <3>7 DEF Growing
      <4> QED BY <1>1, <1>2, <3>3, <3>5, <3>7, <4>1, <4>2 DEF MergesPrev
    <3>8. CASE z # x /\ w # x
      BY <1>3, <3>1, <3>3, <3>8 DEF PoolInv, Merged
    <3> QED BY <3>6, <3>7, <3>8
  <2> QED BY <2>1 DEF Merged
<1>23. Refusals'
  BY <1>2 DEF Refusals, NoCall
<1>24. Served'
  <2>1. \A z \in DOMAIN live : head'[z].size = head[z].size
    BY <1>10, OwnerFacts
  <2> QED BY <1>2, <2>1 DEF PoolInv, Served
<1> QED BY <1>15, <1>16, <1>17, <1>18, <1>19, <1>20, <1>21, <1>22, <1>23, <1>24 DEF PoolInv

-------------------------------------------------------------------------------
(* PoolInv is inductive: no step of the pool breaks any part of it.         *)
THEOREM PoolInvariant ==
  ASSUME KeepsFirst
  PROVE  Spec => []PoolInv
<1>1. Init => PoolInv
  BY InitInv
<1>2. ASSUME PoolInv, [Next]_vars PROVE PoolInv'
  <2>1. CASE Carve
    BY <1>2, <2>1, CarveInv
  <2>2. CASE Load
    BY <1>2, <2>2, LoadInv
  <2>3. CASE Destroy
    BY <1>2, <2>3, DestroyInv
  <2>4. CASE \E n \in Requests : TakeExact(n) \/ TakeLarger(n) \/ AllocFail(n)
    BY <1>2, <2>4, TakeExactInv, TakeLargerInv, AllocFailInv
  <2>5. CASE SplitHalf
    BY <1>2, <2>5, SplitHalfInv
  <2>6. CASE SplitEnd
    BY <1>2, <2>6, SplitEndInv
  <2>7. CASE \E a \in Addresses : FreeReject(a)
    BY <1>2, <2>7, FreeRejectInv
  <2>8. CASE \E a \in Freeable : FreeBegin(a)
    BY <1>2, <2>8, FreeBeginInv
  <2>9. CASE MergeNext
    BY <1>2, <2>9, MergeNextInv
  <2>10. CASE MergePrev
    BY <1>2, <2>10, MergePrevInv
  <2>11. CASE FreeEnd
    BY <1>2, <2>11, FreeEndInv
  <2>12. CASE UNCHANGED vars
    <3>1. /\ UNCHANGED <<carved, head, tail, lists, cut, freeing, live, taking>>
          /\ label' = label /\ refused' = refused
      BY <2>12 DEF vars, lists
    <3>2. /\ label' \in BOOLEAN
          /\ refused' \in [op : {"none", "load", "alloc", "free"}, arg : Addresses \cup Requests]
      BY <1>2, <3>1 DEF PoolInv, TypeOK
    <3>3. /\ (~label' => carved = Chunk /\ taking = None /\ freeing = None)
          /\ (carved < Chunk \/ freeing # None => refused' = NoCall)
      BY <1>2, <3>1 DEF PoolInv, Phases
    <3>4. Refusals'
      BY <1>2, <3>1, SameBlocks DEF PoolInv, Refusals
    <3> QED BY <1>2, <3>1, <3>2, <3>3, <3>4, QuietStep
  <2> QED BY <1>2, <2>1, <2>2, <2>3, <2>4, <2>5, <2>6, <2>7, <2>8, <2>9, <2>10, <2>11, <2>12
          DEF Next
<1> QED BY <1>1, <1>2, PTL DEF Spec

-------------------------------------------------------------------------------
(* What the invariant says of the properties the runs check. *)

LEMMA TileOfInv == PoolInv => BlocksTile
<1> SUFFICES ASSUME PoolInv PROVE BlocksTile
  OBVIOUS
<1>1. TypeOK
  BY DEF PoolInv
<1>2. ASSUME NEW a \in Blocks
      PROVE  /\ SizeOf(a) \in {BlockSize(c) : c \in Classes}
             /\ a % SizeOf(a) = 0
             /\ a # cut.at => tail[a + SizeOf(a)] = SizeOf(a)
  <2>1. /\ a \in Nat /\ SizeOf(a) \in Nat \ {0} /\ Divides(SizeOf(a), a)
        /\ SizeOf(a) \in Sizes
    BY BlockFacts
  <2>2. a % SizeOf(a) = 0
    BY <2>1, DividesModulo
  <2>3. a # cut.at => tail[a + SizeOf(a)] = SizeOf(a)
    BY DEF PoolInv, Tails
  <2> QED BY <2>1, <2>2, <2>3 DEF Sizes
<1>3. carved > 0 => 0 \in Blocks
  BY DEF PoolInv, Tiled, Tile
<1>4. \A a \in Blocks : a + SizeOf(a) \in Blocks \cup {carved}
  BY BlockFacts
<1>5. \A a, b \in Blocks : a < b => a + SizeOf(a) <= b
  BY BlockFacts
<1> QED BY <1>1, <1>2, <1>3, <1>4, <1>5 DEF BlocksTile

LEMMA ServedOfInv == PoolInv => LiveServed
<1> SUFFICES ASSUME PoolInv PROVE LiveServed
  OBVIOUS
<1>1. \A a \in DOMAIN live : a \in 0 .. Chunk
  BY SizeAssumption DEF PoolInv, TypeOK, Addresses
<1> QED BY <1>1 DEF PoolInv, Heads, Served, LiveServed

LEMMA CoalescedOfInv == PoolInv => Coalesced
<1> SUFFICES ASSUME PoolInv, Idle, NEW a \in FreeBlocks, NEW b \in FreeBlocks,
                    a < b /\ a + head[a].size = b /\ head[a].size < MaxSize
             PROVE  ~Buddies(a, b)
  BY DEF Coalesced
<1>1. Halved = {}
  BY DEF Halved, Idle
<1> QED BY <1>1 DEF PoolInv, Merged

LEMMA FailsOfInv == PoolInv => FailsOnlyWithoutFit
<1> SUFFICES ASSUME PoolInv, refused.op = "alloc" /\ refused.arg > 0, NEW a \in FreeBlocks
             PROVE  refused.arg + HEAD_TAIL_SIZE > MinBytes * head[a].size
  BY DEF FailsOnlyWithoutFit
<1>1. a \in Owners(block) /\ a # cut.at
  BY BlockFacts
<1>2. SizeOf(a) = head[a].size
  BY <1>1 DEF SizeOf
<1> QED BY <1>1, <1>2 DEF PoolInv, Refusals

LEMMA FreesOfInv == PoolInv => FreesExactlyLive
<1> SUFFICES ASSUME PoolInv, Idle, NEW a \in Addresses
             PROVE  Accepts(a) <=> a \in DOMAIN live
  BY DEF FreesExactlyLive
<1>1. a \in 0 .. Chunk
  BY SizeAssumption DEF Addresses
<1>2. head[a].used <=> a \in DOMAIN live
  BY <1>1 DEF PoolInv, Heads
<1>3. ASSUME a \in DOMAIN live PROVE head[a].size > 0 /\ tail[a + head[a].size] = head[a].size
  <2>1. a \in Blocks /\ a # cut.at
    BY <1>3, OwnerFacts
  <2>2. SizeOf(a) = head[a].size
    BY <2>1 DEF SizeOf
  <2>3. SizeOf(a) \in Nat \ {0}
    BY <2>1, BlockFacts
  <2>4. tail[a + SizeOf(a)] = SizeOf(a)
    BY <2>1 DEF PoolInv, Tails
  <2>5. head[a].size > 0
    BY <2>2, <2>3
  <2> QED BY <2>2, <2>4, <2>5
<1> QED BY <1>2, <1>3 DEF Accepts

(* With no spare node left each smallest block of the chunk is free.        *)
LEMMA NoneSpare ==
  ASSUME PoolInv, free_fln = <<>>
  PROVE  Owners(block) = Addresses /\ FlnCount = Chunk
<1>1. block \in [Flns -> Addresses \cup {None}] /\ free_fln \in Seq(Flns)
      /\ ListsOnce(free_fln, Spare)
  BY DEF PoolInv, TypeOK, Listed
<1>2. Spare = {}
  BY <1>1, ListEmpty
<1>3. \A f \in Flns : block[f] # None
  BY <1>2 DEF Spare
<1>4. block \in [Flns -> Addresses]
  BY <1>1, <1>3
<1>5. block \in Injection(Flns, Addresses)
  BY <1>3, <1>4, OwnerFacts DEF Injection, IsInjective
<1>6. IsFiniteSet(Flns) /\ Cardinality(Flns) = FlnCount
      /\ IsFiniteSet(Addresses) /\ Cardinality(Addresses) = Chunk
      /\ FlnCount \in Nat /\ Chunk \in Nat /\ FlnCount >= Chunk
  <2>1. FlnCount \in Nat /\ Chunk \in Nat /\ FlnCount >= Chunk /\ Chunk > 0
    BY SizeAssumption
  <2>2. /\ IsFiniteSet(0 .. (FlnCount - 1)) /\ Cardinality(0 .. (FlnCount - 1)) = FlnCount
    <3>1. 0 \in Int /\ FlnCount - 1 \in Int /\ ~(0 > FlnCount - 1)
      BY <2>1
    <3>2. /\ IsFiniteSet(0 .. (FlnCount - 1))
          /\ Cardinality(0 .. (FlnCount - 1)) = ((FlnCount - 1) - 0) + 1
      BY <3>1, FS_Interval
    <3> QED BY <2>1, <3>2
  <2>3. /\ IsFiniteSet(0 .. (Chunk - 1)) /\ Cardinality(0 .. (Chunk - 1)) = Chunk
    <3>1. 0 \in Int /\ Chunk - 1 \in Int /\ ~(0 > Chunk - 1)
      BY <2>1
    <3>2. /\ IsFiniteSet(0 .. (Chunk - 1))
          /\ Cardinality(0 .. (Chunk - 1)) = ((Chunk - 1) - 0) + 1
      BY <3>1, FS_Interval
    <3> QED BY <2>1, <3>2
  <2> QED BY <2>1, <2>2, <2>3 DEF Flns, Addresses
<1>7. /\ Cardinality(Flns) <= Cardinality(Addresses)
      /\ Cardinality(Flns) = Cardinality(Addresses) <=> block \in Surjection(Flns, Addresses)
  BY <1>5, <1>6, FS_Injection
<1>8. FlnCount = Chunk /\ block \in Surjection(Flns, Addresses)
  BY <1>6, <1>7
<1>9. \A a \in Addresses : \E f \in Flns : block[f] = a
  BY <1>8 DEF Surjection
<1>10. None \notin Addresses
  BY <1>6 DEF None, Addresses
<1> QED BY <1>4, <1>8, <1>9, <1>10 DEF Owners

LEMMA FlnsOfInv == ASSUME SpareNode PROVE PoolInv => FlnsExact
<1> SUFFICES ASSUME PoolInv PROVE FlnsExact
  OBVIOUS
<1>1. \A c \in Classes :
        ListsOnce(flh[c], {f \in Flns : /\ block[f] \notin {None, cut.at}
                                        /\ head[block[f]].size = BlockSize(c)})
  BY DEF PoolInv, Listed, Nodes, NodesOf
<1>2. ListsOnce(free_fln, {f \in Flns : block[f] = None})
  BY DEF PoolInv, Listed, Spare
<1>3. \A f \in Flns : block[f] # None =>
        ~head[block[f]].used /\ head[block[f]].fln = f
  BY OwnerFacts DEF PoolInv, Heads
<1>4. ASSUME free_fln = <<>> PROVE ~(carved < Chunk) /\ freeing = None /\ cut.at = None
  <2>1. Owners(block) = Addresses /\ Chunk > 2 /\ Chunk \in Nat
    BY <1>4, NoneSpare, SizeAssumption DEF SpareNode
  <2>2. \A a \in Addresses : a \in Blocks /\ a \in Nat
    BY <2>1, OwnerFacts DEF Addresses
  <2>3. ~(carved < Chunk)
    <3> SUFFICES ASSUME carved < Chunk PROVE FALSE
      OBVIOUS
    <3>1. carved \in Nat /\ carved \in Addresses
      BY BlockFacts, <2>1 DEF Addresses
    <3>2. PICK s : s = SizeOf(carved)
      OBVIOUS
    <3>3. s \in Nat \ {0} /\ carved + s <= carved
      BY <2>2, <3>1, <3>2, BlockFacts
    <3> QED BY <3>1, <3>3
  <2>4. freeing = None
    <3>1. freeing # None => freeing \in Addresses /\ freeing \notin Owners(block)
      BY FreeingFacts
    <3> QED BY <2>1, <3>1
  <2>5. cut.at = None
    <3> SUFFICES ASSUME cut.at # None PROVE FALSE
      OBVIOUS
    <3>1. \A a \in Addresses : a + 1 \in Addresses => SizeOf(a) = 1
      <4> TAKE a \in Addresses
      <4> HAVE a + 1 \in Addresses
      <4>1. PICK s : s = SizeOf(a)
        OBVIOUS
      <4>2. a \in Nat /\ a < a + 1 /\ s \in Nat \ {0}
        BY <2>2, <4>1, BlockFacts
      <4>3. a + s <= a + 1
        BY <2>2, <4>1, <4>2, BlockFacts
      <4> QED BY <4>1, <4>2, <4>3
    <3>2. \A a \in Addresses : SizeOf(a) = 1
      <4> TAKE a \in Addresses
      <4>1. PICK s : s = SizeOf(a)
        OBVIOUS
      <4>2. a \in Nat /\ s \in Nat \ {0} /\ a + s \in 0 .. Chunk
        BY <2>2, <4>1, BlockFacts
      <4>3. CASE s = 1
        BY <4>1, <4>3
      <4>4. CASE s # 1
        <5>1. a + 1 \in Addresses
          BY <2>1, <4>2, <4>4 DEF Addresses
        <5> QED BY <3>1, <5>1
      <4> QED BY <4>3, <4>4
    <3>3. PICK b, i, l : b = cut.at /\ i = FlhIdx(taking) /\ l = cut.left
      OBVIOUS
    <3>4. /\ b \in Addresses /\ b \in Nat /\ cut.size = BlockSize(i + l) /\ SizeOf(b) = cut.size
          /\ i \in Nat /\ l \in Nat
      BY <2>1, <3>3, CutFacts
    <3>5. cut.size = 1
      BY <3>2, <3>4
    <3>6. i + l = 0
      <4>1. BlockSize(0) = 1
        BY SizeFacts
      <4>2. i + l \in Nat /\ BlockSize(i + l) = BlockSize(0) /\ 0 \in Nat
        BY <3>4, <3>5, <4>1
      <4> QED BY <4>2, SizeFacts
    <3>7. i = 0 /\ BlockSize(i) = 1
      BY <3>4, <3>6, SizeFacts
    <3>8. ASSUME NEW a \in Addresses, a # b PROVE a = b + 1
      <4>1. a \in FreeBlocks /\ SizeOf(a) = head[a].size
        BY <2>1, <3>3, <3>8, BlockFacts DEF SizeOf
      <4>2. head[a].size = BlockSize(FlhIdx(taking))
        BY <3>2, <3>3, <3>7, <4>1
      <4>3. a = cut.at + cut.size
        BY <4>1, <4>2 DEF PoolInv, Cutting
      <4> QED BY <3>3, <3>5, <4>3
    <3>9. 0 \in Addresses /\ 1 \in Addresses /\ 2 \in Addresses
      BY <2>1 DEF Addresses
    <3> QED BY <3>4, <3>8, <3>9
  <2> QED BY <2>3, <2>4, <2>5
<1> QED BY <1>1, <1>2, <1>3, <1>4 DEF FlnsExact, lst_new

(* At any moment blocks tile the chunk as far as it is carved: none         *)
(* overlaps another, none is lost, each is aligned to its size, a power of  *)
(* two, and ends with its tail (mmp_alloc, mmp_free, _mmp_init_chunk).      *)
THEOREM PoolTiles ==
  ASSUME KeepsFirst
  PROVE  Spec => []BlocksTile
BY PoolInvariant, TileOfInv, PTL

(* A node is in one list, once: that of the size of the free block its head *)
(* leads back to, or the spare ones; and _fetch_free_fln finds one whenever *)
(* it is called.                                                            *)
THEOREM PoolNodes ==
  ASSUME KeepsFirst, SpareNode
  PROVE  Spec => []FlnsExact
BY PoolInvariant, FlnsOfInv, PTL

(* What mmp_alloc gave to a client stays in use and large enough until      *)
(* mmp_free.                                                                *)
THEOREM PoolServes ==
  ASSUME KeepsFirst
  PROVE  Spec => []LiveServed
BY PoolInvariant, ServedOfInv, PTL

(* mmp_free merges as far as it can, and no later request undoes that       *)
(* without need: two free buddies never stay beside each other.             *)
THEOREM PoolCoalesces ==
  ASSUME KeepsFirst
  PROVE  Spec => []Coalesced
BY PoolInvariant, CoalescedOfInv, PTL

(* A null result of mmp_alloc means that no free block is large enough.     *)
THEOREM PoolFailsOnlyWithoutFit ==
  ASSUME KeepsFirst
  PROVE  Spec => []FailsOnlyWithoutFit
BY PoolInvariant, FailsOfInv, PTL

(* mmp_free accepts the blocks clients hold and no other address of the     *)
(* chunk, whatever heads and tails are left inside blocks.                  *)
THEOREM PoolFreesExactlyLive ==
  ASSUME KeepsFirst
  PROVE  Spec => []FreesExactlyLive
BY PoolInvariant, FreesOfInv, PTL

-------------------------------------------------------------------------------
(* The pool implements the abstract allocator of runs. *)
Held == [a \in DOMAIN live |-> head[a].size]

LEMMA HeldSame ==
  ASSUME DOMAIN live' = DOMAIN live, \A a \in DOMAIN live : head'[a].size = head[a].size
  PROVE  Held' = Held
BY DEF Held

(* A head written where no client has a block. *)
LEMMA HeldElsewhere ==
  ASSUME PoolInv, live' = live, NEW z, z \notin DOMAIN live, NEW r,
         head' = [head EXCEPT ![z] = r]
  PROVE  Held' = Held
<1>1. \A a \in DOMAIN live : a \in 0 .. Chunk
  BY SizeAssumption DEF PoolInv, TypeOK, Addresses
<1>2. DOMAIN head = 0 .. Chunk
  BY DEF PoolInv, TypeOK
<1>3. \A a \in DOMAIN live : head'[a] = head[a]
  BY <1>1, <1>2
<1> QED BY <1>3, HeldSame

LEMMA CarveHeld == ASSUME PoolInv, Carve PROVE Held' = Held
<1>1. PICK c, r : c = carved /\ head' = [head EXCEPT ![c] = r] /\ live' = live
  BY DEF Carve, MakeFree
<1>2. c \notin DOMAIN live
  <2> SUFFICES ASSUME c \in DOMAIN live PROVE FALSE
    OBVIOUS
  <2>1. PICK s : s = SizeOf(c)
    OBVIOUS
  <2>2. c \in Nat /\ s \in Nat \ {0} /\ c + s <= c
    BY <1>1, <2>1, OwnerFacts, BlockFacts
  <2> QED BY <2>2
<1> QED BY <1>1, <1>2, HeldElsewhere

LEMMA SplitHeld == ASSUME PoolInv, SplitHalf \/ SplitEnd PROVE Held' = Held
<1>1. CASE SplitHalf
  <2>1. PICK b, s, u, r : /\ b = cut.at /\ s = cut.size /\ u = b + (s \div 2) /\ b # None
                          /\ head' = [head EXCEPT ![u] = r] /\ live' = live
    BY <1>1 DEF SplitHalf, MakeFree
  <2>2. b \in Blocks /\ b \notin DOMAIN live /\ SizeOf(b) = s
    BY <2>1, CutFacts
  <2>3. b \in Nat /\ s \in Nat \ {0}
    BY <2>2, BlockFacts
  <2>4. u = b \/ (b + 1 <= u /\ u <= (b + s) - 1)
    <3>1. s \div 2 \in Nat /\ s \div 2 < s
      BY <2>3
    <3>2. PICK h : h = s \div 2
      OBVIOUS
    <3> QED BY <2>1, <2>3, <3>1, <3>2
  <2>5. u \notin DOMAIN live
    <3>1. u \notin Blocks \/ u = b
      BY <2>2, <2>4, Interior
    <3> QED BY <2>2, <3>1, OwnerFacts
  <2> QED BY <2>1, <2>5, HeldElsewhere
<1>2. CASE SplitEnd
  <2>1. PICK b, r : b = cut.at /\ b # None /\ head' = [head EXCEPT ![b] = r] /\ live' = live
    BY <1>2 DEF SplitEnd, MakeFree
  <2>2. b \notin DOMAIN live
    BY <2>1, CutFacts
  <2> QED BY <2>1, <2>2, HeldElsewhere
<1> QED BY <1>1, <1>2

LEMMA MergeHeld ==
  ASSUME PoolInv, NEW x, NEW y, NEW u, Merging(x, y, u), Merge(x, y, u) PROVE Held' = Held
<1>1. live' = live /\ \E s : head' = [[head EXCEPT ![u].fln = 0]
                                        EXCEPT ![x].size = s, ![x].used = FALSE]
  BY DEF Merge
<1>2. u \notin DOMAIN live /\ x \notin DOMAIN live
  <2>1. u \in Owners(block) /\ x \in {freeing, u} /\ freeing # None
    BY DEF Merging
  <2> QED BY <2>1, OwnerFacts
<1>3. \A a \in DOMAIN live : a \in 0 .. Chunk
  BY SizeAssumption DEF PoolInv, TypeOK, Addresses
<1>4. DOMAIN head = 0 .. Chunk
  BY DEF PoolInv, TypeOK
<1>5. \A a \in DOMAIN live : head'[a] = head[a]
  BY <1>1, <1>2, <1>3, <1>4
<1> QED BY <1>1, <1>5, HeldSame

LEMMA FreeEndHeld == ASSUME PoolInv, FreeEnd PROVE Held' = Held
<1>1. PICK x, f : x = freeing /\ x # None /\ head' = [head EXCEPT ![x].fln = f] /\ live' = live
  BY DEF FreeEnd
<1>2. x \notin DOMAIN live
  BY <1>1, FreeingFacts
<1>3. \A a \in DOMAIN live : a \in 0 .. Chunk
  BY SizeAssumption DEF PoolInv, TypeOK, Addresses
<1>4. DOMAIN head = 0 .. Chunk
  BY DEF PoolInv, TypeOK
<1>5. \A a \in DOMAIN live : head'[a] = head[a]
  BY <1>1, <1>2, <1>3, <1>4
<1> QED BY <1>1, <1>5, HeldSame

(* mmp_free releases what the client holds. *)
LEMMA FreeBeginReleases == ASSUME PoolInv, NEW a \in Freeable, FreeBegin(a) PROVE Alloc!Release(a)
<1>1. /\ head[a].used /\ head' = [head EXCEPT ![a].used = FALSE]
      /\ live' = [b \in DOMAIN live \ {a} |-> live[b]]
  BY DEF FreeBegin, Accepts
<1>2. a \in 0 .. Chunk
  BY SizeAssumption DEF Addresses
<1>3. a \in DOMAIN live
  BY <1>1, <1>2 DEF PoolInv, Heads
<1>4. \A b \in DOMAIN live : b \in 0 .. Chunk
  BY SizeAssumption DEF PoolInv, TypeOK, Addresses
<1>5. DOMAIN head = 0 .. Chunk
  BY DEF PoolInv, TypeOK
<1>6. \A b \in DOMAIN live \ {a} : head'[b] = head[b]
  BY <1>1, <1>4, <1>5
<1>7. DOMAIN live' = DOMAIN live \ {a}
  BY <1>1
<1>8. Held' = [b \in DOMAIN live \ {a} |-> Held[b]] /\ DOMAIN Held = DOMAIN live
  BY <1>6, <1>7 DEF Held
<1> QED BY <1>3, <1>8 DEF Alloc!Release, Held

(* mmp_alloc grants a run that overlaps no other. *)
LEMMA TakeExactGrants == ASSUME PoolInv, NEW n \in Requests, TakeExact(n) PROVE Alloc!Next
<1>1. PICK c, f, a, s : c = FlhIdx(n) /\ f = lst_first(flh[c]) /\ a = block[f] /\ s = head[a].size
  OBVIOUS
<1>2. Serves(n) /\ ~TooLarge(n) /\ flh[c] # <<>>
  BY <1>1 DEF TakeExact, lst_empty
<1>3. c \in Classes
  <2>1. n \in Nat
    BY SizeAssumption
  <2> QED BY <1>1, <1>2, <2>1, ClassOfRequest
<1>4. a \in Owners(block) /\ a \in Blocks /\ SizeOf(a) = s
  BY <1>1, <1>2, <1>3, FirstOfList
<1>5. ~head[a].used /\ a \notin DOMAIN live
  BY <1>4, OwnerFacts
<1>6. /\ head' = Overwritten([head EXCEPT ![a].used = TRUE, ![a].fln = 0], a + 1, (a + s) - 1, NoHead)
      /\ live' = [b \in DOMAIN live \cup {a} |-> IF b = a THEN n ELSE live[b]]
  BY <1>1, <1>5 DEF TakeExact
<1>7. a \in Nat /\ a \in Addresses /\ s \in Nat \ {0} /\ a + s \in 0 .. Chunk /\ Chunk \in Nat
  BY <1>4, BlockFacts
<1>8. \A b \in Blocks : b \in 0 .. Chunk /\ b \in Nat
  <2>1. \A b \in Blocks : b \in Addresses /\ b \in Nat
    BY BlockFacts
  <2> QED BY <1>7, <2>1 DEF Addresses
<1>9. \A b \in Blocks : head'[b].size = head[b].size
  <2>1. \A b \in Blocks : ~(a + 1 <= b /\ b <= (a + s) - 1)
    BY <1>4, Interior
  <2>2. PICK g : g = [head EXCEPT ![a].used = TRUE, ![a].fln = 0]
    OBVIOUS
  <2>3. head \in [0 .. Chunk -> [used : BOOLEAN, fln : Flns, size : 0 .. MaxSize]]
    BY DEF PoolInv, TypeOK
  <2>4. DOMAIN g = 0 .. Chunk /\ \A b \in Blocks : g[b].size = head[b].size
    <3>1. DOMAIN g = 0 .. Chunk /\ \A b \in Blocks : b # a => g[b] = head[b]
      BY <1>8, <2>2, <2>3
    <3>2. g[a] = [[head[a] EXCEPT !.used = TRUE] EXCEPT !.fln = 0]
      BY <1>4, <1>8, <2>2, <2>3
    <3>3. head[a] \in [used : BOOLEAN, fln : Flns, size : 0 .. MaxSize]
      BY <1>4, <1>8, <2>3
    <3>4. g[a].size = head[a].size
      BY <3>2, <3>3
    <3> QED BY <3>1, <3>4
  <2>5. \A b \in Blocks : head'[b] = g[b]
    BY <1>6, <1>8, <2>1, <2>2, <2>4 DEF Overwritten
  <2> QED BY <2>4, <2>5
<1>10. DOMAIN live' = DOMAIN live \cup {a} /\ \A b \in DOMAIN live : b \in Blocks
  BY <1>6, OwnerFacts
<1>11. Held' = [b \in DOMAIN live \cup {a} |-> IF b = a THEN s ELSE Held[b]]
       /\ DOMAIN Held = DOMAIN live
  <2>1. \A b \in DOMAIN live \cup {a} : head'[b].size = IF b = a THEN s ELSE Held[b]
    BY <1>1, <1>4, <1>9, <1>10 DEF Held
  <2> QED BY <1>10, <2>1 DEF Held
<1>12. ASSUME NEW b \in DOMAIN live
       PROVE  Alloc!Extent(a, s) \cap Alloc!Extent(b, Held[b]) = {}
  <2>1. PICK t : t = SizeOf(b)
    OBVIOUS
  <2>2. b \in Blocks /\ b \in Nat /\ t \in Nat \ {0} /\ Held[b] = t /\ b # a
    <3>1. b \in Blocks /\ b # cut.at
      BY OwnerFacts
    <3> QED BY <1>5, <2>1, <3>1, BlockFacts DEF Held, SizeOf
  <2>3. (a < b => a + s <= b) /\ (b < a => b + t <= a)
    BY <1>4, <2>1, <2>2, BlockFacts
  <2> QED BY <1>7, <2>2, <2>3 DEF Alloc!Extent
<1>13. Alloc!Extent(a, s) \subseteq Addresses
  BY <1>7 DEF Alloc!Extent, Addresses
<1>14. PICK q : q = (a + s) - 1
  OBVIOUS
<1>15. q \in Addresses /\ a <= q /\ (q - a) + 1 = s
  BY <1>7, <1>14 DEF Addresses
<1>16. Alloc!Grant(a, s)
  BY <1>7, <1>11, <1>12, <1>13 DEF Alloc!Grant, Held
<1>17. Alloc!Grant(a, (q - a) + 1) /\ a \in Addresses \ DOMAIN Held
  BY <1>5, <1>7, <1>11, <1>15, <1>16
<1> QED BY <1>15, <1>17 DEF Alloc!Next, Held

(* The pool is the abstract allocator: to its clients mmp_alloc and         *)
(* mmp_free are the grant and the release of a run of smallest blocks, and  *)
(* carving, splitting and merging change nothing they hold.                 *)
THEOREM PoolRefines ==
  ASSUME KeepsFirst
  PROVE  Spec => ImplementsPageAlloc
<1>1. Init => Alloc!Init
  <2>1. Init => Held = [p \in {} |-> 0]
    BY DEF Init, Held
  <2> QED BY <2>1 DEF Alloc!Init, Held
<1>2. PoolInv /\ [Next]_vars => [Alloc!Next]_Held
  <2> SUFFICES ASSUME PoolInv, [Next]_vars PROVE [Alloc!Next]_Held
    OBVIOUS
  <2>1. CASE \/ Load \/ Destroy \/ UNCHANGED vars
             \/ \E n \in Requests : TakeLarger(n) \/ AllocFail(n)
             \/ \E a \in Addresses : FreeReject(a)
    <3>1. live' = live /\ head' = head
      BY <2>1 DEF Load, Destroy, TakeLarger, AllocFail, FreeReject, vars
    <3> QED BY <3>1, HeldSame
  <2>2. CASE Carve
    BY <2>2, CarveHeld
  <2>3. CASE SplitHalf \/ SplitEnd
    BY <2>3, SplitHeld
  <2>4. CASE MergeNext
    BY <2>4, NextMerging, MergeHeld DEF MergeNext
  <2>5. CASE MergePrev
    BY <2>5, PrevMerging, MergeHeld DEF MergePrev
  <2>6. CASE FreeEnd
    BY <2>6, FreeEndHeld
  <2>7. ASSUME NEW n \in Requests, TakeExact(n) PROVE Alloc!Next
    BY <2>7, TakeExactGrants
  <2>8. ASSUME NEW a \in Freeable, FreeBegin(a) PROVE Alloc!Next
    <3>1. Alloc!Release(a)
      BY <2>8, FreeBeginReleases
    <3> QED BY <3>1 DEF Alloc!Release, Alloc!Next
  <2> QED BY <2>1, <2>2, <2>3, <2>4, <2>5, <2>6, <2>7, <2>8 DEF Next
<1> QED BY <1>1, <1>2, PoolInvariant, PTL DEF Spec, ImplementsPageAlloc, Alloc!Spec, Held
===============================================================================
