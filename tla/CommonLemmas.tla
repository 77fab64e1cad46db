---------------------------- MODULE CommonLemmas ----------------------------
(***************************************************************************)
(* Facts the proofs about the components share: what the list operations   *)
(* do to the set of nodes a list holds, how numbers divide and multiply,   *)
(* and what a recursively defined power is worth.                          *)
(***************************************************************************)
EXTENDS DList, Powers, SequenceTheorems, NaturalsInduction, WellFoundedInduction, TLAPS

(* The list lst_new makes holds nothing. *)
LEMMA NewOnce == lst_new \in Seq({}) /\ ListsOnce(lst_new, {})
BY DEF lst_new, ListsOnce

(* lst_push_front adds a node that was not in the list. *)
LEMMA PushFrontOnce ==
  ASSUME NEW P, NEW T, NEW s \in Seq(P), NEW x \in P, x \notin T, ListsOnce(s, T)
  PROVE  /\ lst_push_front(s, x) \in Seq(P)
         /\ ListsOnce(lst_push_front(s, x), T \cup {x})
<1> DEFINE r == lst_push_front(s, x)
<1>1. <<x>> \in Seq(P) /\ Len(<<x>>) = 1 /\ <<x>>[1] = x
  OBVIOUS
<1>2. /\ r \in Seq(P)
      /\ Len(r) = Len(s) + 1
      /\ \A i \in 1 .. Len(s) + 1 : r[i] = IF i <= 1 THEN x ELSE s[i - 1]
  BY <1>1, ConcatProperties DEF lst_push_front, Cons
<1> HIDE DEF r
<1>3. Len(s) \in Nat
  OBVIOUS
<1>4. \A k \in 1 .. Len(r) : r[k] \in T \cup {x}
  BY <1>2, <1>3 DEF ListsOnce
<1>5. \A p \in T \cup {x} : \E k \in 1 .. Len(r) : r[k] = p
  <2> TAKE p \in T \cup {x}
  <2>1. CASE p = x
    BY <1>2, <1>3, <2>1
  <2>2. CASE p \in T
    <3>1. PICK k \in 1 .. Len(s) : s[k] = p
      BY <2>2 DEF ListsOnce
    <3>2. k + 1 \in 1 .. Len(r) /\ r[k + 1] = p
      BY <1>2, <1>3, <3>1
    <3> QED BY <3>2
  <2> QED BY <2>1, <2>2
<1>6. \A j, k \in 1 .. Len(r) : r[j] = r[k] => j = k
  <2> SUFFICES ASSUME NEW j \in 1 .. Len(r), NEW k \in 1 .. Len(r), r[j] = r[k]
               PROVE  j = k
    OBVIOUS
  <2>1. CASE j > 1 /\ k > 1
    <3>1. j - 1 \in 1 .. Len(s) /\ k - 1 \in 1 .. Len(s) /\ s[j - 1] = s[k - 1]
      BY <1>2, <1>3, <2>1
    <3>2. \A a, b \in 1 .. Len(s) : s[a] = s[b] => a = b
      BY DEF ListsOnce
    <3>3. j - 1 = k - 1
      BY <3>1, <3>2
    <3>4. j \in Int /\ k \in Int
      BY <1>2, <1>3
    <3> QED BY <3>3, <3>4
  <2>2. \A m \in 2 .. Len(r) : r[m] # x
    <3> SUFFICES ASSUME NEW m \in 2 .. Len(r)
                 PROVE  r[m] # x
      OBVIOUS
    <3>1. m - 1 \in 1 .. Len(s) /\ r[m] = s[m - 1]
      BY <1>2, <1>3
    <3>2. \A i \in 1 .. Len(s) : s[i] \in T
      BY DEF ListsOnce
    <3> QED BY <3>1, <3>2
  <2>3. r[1] = x
    BY <1>2, <1>3
  <2>4. j \in Nat /\ k \in Nat /\ j >= 1 /\ k >= 1 /\ Len(r) \in Nat
    BY <1>2, <1>3
  <2>5. CASE j = 1
    BY <2>2, <2>3, <2>4, <2>5
  <2>6. CASE k = 1
    BY <2>2, <2>3, <2>4, <2>6
  <2> QED BY <2>1, <2>4, <2>5, <2>6
<1> QED BY <1>2, <1>4, <1>5, <1>6 DEF ListsOnce, r

(* lst_push_back adds a node that was not in the list. *)
LEMMA PushBackOnce ==
  ASSUME NEW P, NEW T, NEW s \in Seq(P), NEW x \in P, x \notin T, ListsOnce(s, T)
  PROVE  /\ lst_push_back(s, x) \in Seq(P)
         /\ ListsOnce(lst_push_back(s, x), T \cup {x})
<1> DEFINE r == lst_push_back(s, x)
<1>1. /\ r \in Seq(P)
      /\ Len(r) = Len(s) + 1
      /\ \A i \in 1 .. Len(s) : r[i] = s[i]
      /\ r[Len(s) + 1] = x
  BY AppendProperties DEF lst_push_back
<1>2. Len(s) \in Nat
  OBVIOUS
<1> HIDE DEF r
<1>3. \A k \in 1 .. Len(r) : r[k] \in T \cup {x}
  BY <1>1, <1>2 DEF ListsOnce
<1>4. \A p \in T \cup {x} : \E k \in 1 .. Len(r) : r[k] = p
  BY <1>1, <1>2 DEF ListsOnce
<1>5. \A j, k \in 1 .. Len(r) : r[j] = r[k] => j = k
  BY <1>1, <1>2 DEF ListsOnce
<1> QED BY <1>1, <1>3, <1>4, <1>5 DEF ListsOnce, r

(* lst_pop_front takes the first node out. *)
LEMMA PopFrontOnce ==
  ASSUME NEW P, NEW T, NEW s \in Seq(P), s # <<>>, ListsOnce(s, T)
  PROVE  /\ lst_first(s) \in T
         /\ lst_pop_front(s) \in Seq(P)
         /\ ListsOnce(lst_pop_front(s), T \ {lst_first(s)})
<1> DEFINE r == lst_pop_front(s)
           x == lst_first(s)
<1>1. /\ r \in Seq(P)
      /\ Len(r) = Len(s) - 1
      /\ \A i \in 1 .. Len(r) : r[i] = s[i + 1]
  BY HeadTailProperties DEF lst_pop_front
<1>2. Len(s) \in Nat \ {0} /\ x = s[1]
  BY EmptySeq DEF lst_first
<1> HIDE DEF r, x
<1>3. x \in T
  BY <1>2 DEF ListsOnce
<1>4. \A k \in 1 .. Len(r) : r[k] \in T \ {x}
  BY <1>1, <1>2 DEF ListsOnce
<1>5. \A p \in T \ {x} : \E k \in 1 .. Len(r) : r[k] = p
  <2> TAKE p \in T \ {x}
  <2>1. PICK k \in 1 .. Len(s) : s[k] = p
    BY DEF ListsOnce
  <2>2. k - 1 \in 1 .. Len(r) /\ r[k - 1] = p
    BY <1>1, <1>2, <2>1
  <2> QED BY <2>2
<1>6. \A j, k \in 1 .. Len(r) : r[j] = r[k] => j = k
  <2> SUFFICES ASSUME NEW j \in 1 .. Len(r), NEW k \in 1 .. Len(r), r[j] = r[k]
               PROVE  j = k
    OBVIOUS
  <2>1. j + 1 \in 1 .. Len(s) /\ k + 1 \in 1 .. Len(s) /\ s[j + 1] = s[k + 1]
    BY <1>1, <1>2
  <2> QED BY <2>1 DEF ListsOnce
<1> QED BY <1>1, <1>3, <1>4, <1>5, <1>6 DEF ListsOnce, r, x

(* lst_remove moves what follows the node up by one. *)
LEMMA RemoveShifts ==
  ASSUME NEW P, NEW s \in Seq(P), NEW i \in 1 .. Len(s), NEW x, s[i] = x,
         \A j \in 1 .. Len(s) : s[j] = x => j = i
  PROVE  /\ lst_remove(s, x) \in Seq(P)
         /\ Len(lst_remove(s, x)) = Len(s) - 1
         /\ \A j \in 1 .. Len(s) - 1 : lst_remove(s, x)[j] = IF j < i THEN s[j] ELSE s[j + 1]
<1> DEFINE r == lst_remove(s, x)
<1>1. SelectInSeq(s, LAMBDA v : v = x) = i
  <2>1. {j \in 1 .. Len(s) : s[j] = x} = {i}
    OBVIOUS
  <2>2. Min({i}) = i
    BY DEF Min
  <2>3. {i} # {}
    OBVIOUS
  <2> QED BY <2>1, <2>2, <2>3 DEF SelectInSeq
<1>2. r = RemoveAt(s, i)
  BY <1>1 DEF lst_remove, RemoveFirst
<1>3. Len(s) \in Nat /\ \A j \in 1 .. Len(s) : s[j] \in P
  OBVIOUS
<1>4. /\ SubSeq(s, 1, i - 1) \in Seq(P)
      /\ Len(SubSeq(s, 1, i - 1)) = i - 1
      /\ \A j \in 1 .. i - 1 : SubSeq(s, 1, i - 1)[j] = s[j]
  <2>1. 1 \in Int /\ i - 1 \in Int /\ \A j \in 1 .. i - 1 : s[j] \in P
    BY <1>3
  <2> QED BY <2>1, SubSeqProperties
<1>5. /\ SubSeq(s, i + 1, Len(s)) \in Seq(P)
      /\ Len(SubSeq(s, i + 1, Len(s))) = Len(s) - i
      /\ \A j \in 1 .. Len(s) - i : SubSeq(s, i + 1, Len(s))[j] = s[i + j]
  <2>1. i + 1 \in Int /\ Len(s) \in Int /\ \A j \in i + 1 .. Len(s) : s[j] \in P
    BY <1>3
  <2> QED BY <2>1, SubSeqProperties
<1>6. /\ r \in Seq(P)
      /\ Len(r) = Len(s) - 1
      /\ \A j \in 1 .. Len(s) - 1 : r[j] = IF j < i THEN s[j] ELSE s[j + 1]
  <2> DEFINE a == SubSeq(s, 1, i - 1)
             b == SubSeq(s, i + 1, Len(s))
  <2>1. /\ a \o b \in Seq(P)
        /\ Len(a \o b) = Len(a) + Len(b)
        /\ \A j \in 1 .. Len(a) + Len(b) :
             (a \o b)[j] = IF j <= Len(a) THEN a[j] ELSE b[j - Len(a)]
    BY <1>4, <1>5, ConcatProperties
  <2>2. r = a \o b
    BY <1>2 DEF RemoveAt
  <2> HIDE DEF a, b, r
  <2>3. Len(a) = i - 1 /\ Len(b) = Len(s) - i
    BY <1>4, <1>5 DEF a, b
  <2>4. \A j \in 1 .. i - 1 : a[j] = s[j]
    BY <1>4 DEF a
  <2>5. \A j \in 1 .. Len(s) - i : b[j] = s[i + j]
    BY <1>5 DEF b
  <2>6. ASSUME NEW j \in 1 .. Len(s) - 1
        PROVE  r[j] = IF j < i THEN s[j] ELSE s[j + 1]
    <3>1. CASE j < i
      BY <1>3, <2>1, <2>2, <2>3, <2>4, <3>1
    <3>2. CASE j >= i
      <4>1. r[j] = b[j - (i - 1)] /\ j - (i - 1) \in 1 .. Len(s) - i
        BY <1>3, <2>1, <2>2, <2>3, <3>2
      <4>2. i + (j - (i - 1)) = j + 1
        BY <1>3
      <4> QED BY <4>1, <4>2, <2>5, <3>2
    <3> QED BY <3>1, <3>2
  <2>7. r \in Seq(P) /\ Len(r) = (i - 1) + (Len(s) - i)
    BY <2>1, <2>2, <2>3
  <2>8. (i - 1) + (Len(s) - i) = Len(s) - 1
    BY <1>3
  <2> QED BY <2>6, <2>7, <2>8
<1> QED BY <1>6 DEF r

(* lst_remove takes out the node it is given. *)
LEMMA RemoveOnce ==
  ASSUME NEW P, NEW T, NEW s \in Seq(P), NEW x \in T, ListsOnce(s, T)
  PROVE  /\ lst_remove(s, x) \in Seq(P)
         /\ ListsOnce(lst_remove(s, x), T \ {x})
<1> DEFINE r == lst_remove(s, x)
<1>1. PICK i \in 1 .. Len(s) : s[i] = x
  BY DEF ListsOnce
<1>2. \A j \in 1 .. Len(s) : s[j] = x => j = i
  BY <1>1 DEF ListsOnce
<1>3. Len(s) \in Nat /\ \A j \in 1 .. Len(s) : s[j] \in P
  OBVIOUS
<1>4. /\ r \in Seq(P)
      /\ Len(r) = Len(s) - 1
      /\ \A j \in 1 .. Len(s) - 1 : r[j] = IF j < i THEN s[j] ELSE s[j + 1]
  BY <1>1, <1>2, RemoveShifts
<1> HIDE DEF r
<1>5. \A k \in 1 .. Len(r) : r[k] \in T \ {x}
  BY <1>2, <1>3, <1>4 DEF ListsOnce
<1>6. \A p \in T \ {x} : \E k \in 1 .. Len(r) : r[k] = p
  <2> TAKE p \in T \ {x}
  <2>1. PICK k \in 1 .. Len(s) : s[k] = p
    BY DEF ListsOnce
  <2>2. CASE k < i
    BY <1>3, <1>4, <2>1, <2>2
  <2>3. CASE k > i
    <3>1. k - 1 \in 1 .. Len(r) /\ r[k - 1] = p
      BY <1>3, <1>4, <2>1, <2>3
    <3> QED BY <3>1
  <2> QED BY <1>1, <2>1, <2>2, <2>3
<1>7. \A j, k \in 1 .. Len(r) : r[j] = r[k] => j = k
  <2> SUFFICES ASSUME NEW j \in 1 .. Len(r), NEW k \in 1 .. Len(r), r[j] = r[k]
               PROVE  j = k
    OBVIOUS
  <2> DEFINE old(m) == IF m < i THEN m ELSE m + 1
  <2>1. old(j) \in 1 .. Len(s) /\ old(k) \in 1 .. Len(s) /\ s[old(j)] = s[old(k)]
    BY <1>3, <1>4
  <2>2. old(j) = old(k)
    BY <2>1 DEF ListsOnce
  <2> QED BY <2>2
<1> QED BY <1>4, <1>5, <1>6, <1>7 DEF ListsOnce, r

(* lst_remove leaves a list alone that a node is not in. *)
LEMMA RemoveAbsent ==
  ASSUME NEW T, NEW s, NEW x, x \notin T, ListsOnce(s, T)
  PROVE  lst_remove(s, x) = s
BY DEF lst_remove, RemoveFirst, ListsOnce

-------------------------------------------------------------------------------
(* Numbers. *)

(* The least-number principle for a set of naturals. *)
LEMMA LeastElement ==
  ASSUME NEW S \in SUBSET Nat, S # {}
  PROVE  \E k \in S : \A m \in S : k <= m
<1> DEFINE R == OpToRel(<, Nat)
<1>1. PICK k \in S : \A m \in S : ~ (<<m, k>> \in R)
  BY NatLessThanWellFounded, WFMin
<1>2. \A m \in S : ~(m < k)
  BY <1>1 DEF OpToRel
<1> QED BY <1>2

(* A set of naturals below a bound has a greatest element. *)
LEMMA GreatestElement ==
  ASSUME NEW S \in SUBSET Nat, S # {}, NEW b \in Nat, \A m \in S : m <= b
  PROVE  \E k \in S : \A m \in S : m <= k
<1> DEFINE T == {b - m : m \in S}
<1>1. T \in SUBSET Nat /\ T # {}
  OBVIOUS
<1> HIDE DEF T
<1>2. PICK d \in T : \A e \in T : d <= e
  BY <1>1, LeastElement
<1>3. PICK k \in S : d = b - k
  BY DEF T
<1>4. \A m \in S : b - m \in T
  BY DEF T
<1>5. \A m \in S : m <= k
  <2> TAKE m \in S
  <2>1. b - k <= b - m
    BY <1>2, <1>3, <1>4
  <2> QED BY <2>1
<1> QED BY <1>5

(* What integer division yields. *)
LEMMA Quotient ==
  ASSUME NEW p \in Nat, NEW s \in Nat \ {0}
  PROVE  /\ p \div s \in Nat /\ p \div s <= p
         /\ (p \div s) * s <= p /\ p < ((p \div s) + 1) * s
<1> DEFINE q == p \div s
<1>1. q \in Int /\ p = s * q + (p % s) /\ p % s \in 0 .. s - 1
  OBVIOUS
<1> HIDE DEF q
<1>2. q >= 0
  BY <1>1
<1>3. q <= p
  BY <1>1, <1>2
<1> QED BY <1>1, <1>2, <1>3 DEF q

(* Multiplication keeps the order ... *)
LEMMA TimesMonotone ==
  ASSUME NEW m \in Nat, NEW n \in Nat, NEW s \in Nat, m <= n
  PROVE  m * s <= n * s /\ m * s \in Nat /\ n * s \in Nat
OBVIOUS

(* ... and reflects it. *)
LEMMA TimesStrict ==
  ASSUME NEW m \in Nat, NEW n \in Nat, NEW s \in Nat, m * s < n * s
  PROVE  m < n
<1>1. CASE n <= m
  BY <1>1, TimesMonotone
<1> QED BY <1>1

(* Exact division. *)
LEMMA DivideExactly ==
  ASSUME NEW n \in Nat, NEW s \in Nat \ {0}
  PROVE  (n * s) \div s = n
<1> DEFINE q == (n * s) \div s
<1>1. n * s \in Nat
  OBVIOUS
<1>2. q \in Nat /\ q * s <= n * s /\ n * s < (q + 1) * s
  BY <1>1, Quotient
<1> HIDE DEF q
<1>3. n < q + 1
  BY <1>2, TimesStrict
<1>4. q <= n
  <2>1. CASE n + 1 <= q
    <3>1. (n + 1) * s <= q * s
      BY <1>2, <2>1, TimesMonotone
    <3>2. (n + 1) * s = n * s + s
      OBVIOUS
    <3> QED BY <1>1, <1>2, <3>1, <3>2
  <2> QED BY <1>2, <2>1
<1> QED BY <1>2, <1>3, <1>4 DEF q

(* The bytes of a slot. *)
LEMMA SlotEnds ==
  ASSUME NEW n \in Nat, NEW i \in 0 .. n - 1, NEW s \in Nat \ {0}
  PROVE  i * s \in Nat /\ i * s + s <= n * s /\ n * s \in Nat
<1>1. i \in Nat /\ i + 1 \in Nat /\ i + 1 <= n
  OBVIOUS
<1>2. (i + 1) * s <= n * s /\ n * s \in Nat /\ i * s \in Nat
  BY <1>1, TimesMonotone
<1>3. (i + 1) * s = i * s + s
  BY <1>1
<1> QED BY <1>2, <1>3

(* Two slots do not overlap. *)
LEMMA SlotsApart ==
  ASSUME NEW i \in Nat, NEW j \in Nat, i < j, NEW s \in Nat \ {0}
  PROVE  i * s + s <= j * s
<1>1. (i + 1) * s <= j * s
  BY TimesMonotone
<1>2. (i + 1) * s = i * s + s
  OBVIOUS
<1> QED BY <1>1, <1>2

-------------------------------------------------------------------------------
(* Induction and powers. *)

(* Induction, over the numbers for which something holds. *)
LEMMA SetInduction ==
  ASSUME NEW S \in SUBSET Nat, 0 \in S, \A n \in S : n + 1 \in S
  PROVE  S = Nat
<1> SUFFICES ASSUME Nat \ S # {} PROVE FALSE
  OBVIOUS
<1>1. PICK k \in Nat \ S : \A m \in Nat \ S : k <= m
  <2>1. Nat \ S \in SUBSET Nat
    OBVIOUS
  <2> QED BY <2>1, LeastElement
<1>2. k - 1 \in Nat /\ k - 1 < k
  BY <1>1
<1>3. k - 1 \in S
  BY <1>1, <1>2
<1>4. (k - 1) + 1 \in S
  BY <1>3
<1> QED BY <1>1, <1>4

(* The powers of b are what their recursion says. *)
PowerTo(b, n, f) ==
  /\ f \in [0 .. n -> Nat]
  /\ \A i \in 0 .. n : f[i] = IF i = 0 THEN 1 ELSE b * f[i - 1]

LEMMA PowerToExists ==
  ASSUME NEW b \in Nat
  PROVE  \A n \in Nat : \E f : PowerTo(b, n, f)
<1> DEFINE S == {n \in Nat : \E f : PowerTo(b, n, f)}
<1>1. 0 \in S
  <2>1. PowerTo(b, 0, [i \in 0 .. 0 |-> 1])
    BY DEF PowerTo
  <2> QED BY <2>1
<1>2. ASSUME NEW n \in S PROVE n + 1 \in S
  <2>1. n \in Nat
    OBVIOUS
  <2>2. PICK f : PowerTo(b, n, f)
    OBVIOUS
  <2> DEFINE g == [i \in 0 .. n + 1 |-> IF i = n + 1 THEN b * f[n] ELSE f[i]]
  <2>3. f[n] \in Nat /\ b * f[n] \in Nat
    BY <2>1, <2>2 DEF PowerTo
  <2>4. g \in [0 .. n + 1 -> Nat]
    BY <2>1, <2>2, <2>3 DEF PowerTo
  <2>5. ASSUME NEW i \in 0 .. n + 1
        PROVE  g[i] = IF i = 0 THEN 1 ELSE b * g[i - 1]
    <3>1. CASE i = n + 1
      <4>1. i # 0 /\ i - 1 = n /\ n \in 0 .. n + 1 /\ n # n + 1
        BY <2>1, <3>1
      <4> QED BY <3>1, <4>1
    <3>2. CASE i # n + 1
      <4>1. i \in 0 .. n /\ g[i] = f[i]
        BY <2>1, <3>2
      <4>2. i # 0 => i - 1 \in 0 .. n + 1 /\ i - 1 # n + 1 /\ g[i - 1] = f[i - 1]
        BY <2>1, <4>1
      <4> QED BY <2>2, <4>1, <4>2 DEF PowerTo
    <3> QED BY <3>1, <3>2
  <2> HIDE DEF g
  <2>6. PowerTo(b, n + 1, g)
    BY <2>4, <2>5 DEF PowerTo
  <2> QED BY <2>1, <2>6
<1> HIDE DEF S
<1>3. S = Nat
  <2>1. S \in SUBSET Nat
    BY DEF S
  <2> QED BY <1>1, <1>2, <2>1, SetInduction
<1> QED BY <1>3 DEF S

LEMMA PowerToUnique ==
  ASSUME NEW b \in Nat, NEW m \in Nat, NEW n \in Nat, NEW f, PowerTo(b, m, f),
         NEW g, PowerTo(b, n, g)
  PROVE  \A i \in Nat : i <= m /\ i <= n => f[i] = g[i]
<1> DEFINE S == {i \in Nat : i <= m /\ i <= n => f[i] = g[i]}
<1>1. 0 \in S
  BY DEF PowerTo
<1>2. ASSUME NEW i \in S PROVE i + 1 \in S
  <2>1. i \in Nat
    OBVIOUS
  <2>2. CASE i + 1 <= m /\ i + 1 <= n
    <3>1. i <= m /\ i <= n /\ i + 1 \in 0 .. m /\ i + 1 \in 0 .. n /\ i + 1 # 0 /\ (i + 1) - 1 = i
      BY <2>1, <2>2
    <3>2. f[i] = g[i]
      BY <3>1
    <3>3. f[i + 1] = b * f[i] /\ g[i + 1] = b * g[i]
      BY <3>1 DEF PowerTo
    <3> QED BY <2>1, <3>2, <3>3
  <2> QED BY <2>1, <2>2
<1> HIDE DEF S
<1>3. S = Nat
  <2>1. S \in SUBSET Nat
    BY DEF S
  <2> QED BY <1>1, <1>2, <2>1, SetInduction
<1> QED BY <1>3 DEF S

LEMMA PowerDef ==
  ASSUME NEW b \in Nat
  PROVE  /\ Power(b) \in [Nat -> Nat]
         /\ Power(b)[0] = 1
         /\ \A n \in Nat : Power(b)[n + 1] = b * Power(b)[n]
<1> DEFINE To(n) == CHOOSE f : PowerTo(b, n, f)
           g == [n \in Nat |-> To(n)[n]]
           Eq(h) == h = [n \in Nat |-> IF n = 0 THEN 1 ELSE b * h[n - 1]]
<1>1. \A n \in Nat : PowerTo(b, n, To(n))
  BY PowerToExists
<1> HIDE DEF To
<1>2. \A n \in Nat : To(n)[n] \in Nat
  BY <1>1 DEF PowerTo
<1>3. g \in [Nat -> Nat]
  BY <1>2
<1>4. g[0] = 1
  BY <1>1 DEF PowerTo
<1>5. ASSUME NEW n \in Nat PROVE g[n + 1] = b * g[n]
  <2>1. n + 1 \in Nat /\ n + 1 \in 0 .. n + 1 /\ n + 1 # 0 /\ (n + 1) - 1 = n
    OBVIOUS
  <2>2. To(n + 1)[n + 1] = b * To(n + 1)[n]
    BY <1>1, <2>1 DEF PowerTo
  <2>3. To(n + 1)[n] = To(n)[n]
    <3>1. PICK e, f : e = To(n) /\ f = To(n + 1)
      OBVIOUS
    <3>2. PowerTo(b, n, e) /\ PowerTo(b, n + 1, f)
      BY <1>1, <3>1
    <3>3. f[n] = e[n]
      BY <3>2, PowerToUnique
    <3> QED BY <3>1, <3>3
  <2> QED BY <2>1, <2>2, <2>3
<1> HIDE DEF g
<1>6. \A n \in Nat : g[n] = IF n = 0 THEN 1 ELSE b * g[n - 1]
  <2> TAKE n \in Nat
  <2>1. CASE n # 0
    <3>1. n - 1 \in Nat /\ (n - 1) + 1 = n
      BY <2>1
    <3>2. g[(n - 1) + 1] = b * g[n - 1]
      BY <1>5, <3>1
    <3> QED BY <2>1, <3>1, <3>2
  <2> QED BY <1>4, <2>1
<1>7. Eq(g)
  BY <1>3, <1>6
<1>8. Power(b) = CHOOSE h : Eq(h)
  BY DEF Power
<1> HIDE DEF Eq
<1>9. Eq(Power(b))
  <2>1. Eq(CHOOSE h : Eq(h))
    BY <1>7
  <2> QED BY <1>8, <2>1
<1>10. Power(b) = [n \in Nat |-> IF n = 0 THEN 1 ELSE b * Power(b)[n - 1]]
  BY <1>9 DEF Eq
<1> DEFINE p == Power(b)
<1>11. p[0] = 1 /\ \A n \in Nat : p[n + 1] = b * p[n]
  <2>1. p[0] = 1
    BY <1>10
  <2>2. ASSUME NEW n \in Nat PROVE p[n + 1] = b * p[n]
    <3>1. n + 1 \in Nat /\ n + 1 # 0 /\ (n + 1) - 1 = n
      OBVIOUS
    <3> QED BY <1>10, <3>1
  <2> QED BY <2>1, <2>2
<1> DEFINE S == {n \in Nat : p[n] \in Nat}
<1>12. S = Nat
  <2> HIDE DEF p
  <2>1. S \in SUBSET Nat /\ 0 \in S
    BY <1>11
  <2>2. ASSUME NEW n \in S PROVE n + 1 \in S
    <3>1. n \in Nat /\ p[n] \in Nat
      OBVIOUS
    <3>2. p[n + 1] = b * p[n] /\ b * p[n] \in Nat
      BY <1>11, <3>1
    <3> QED BY <3>1, <3>2
  <2> HIDE DEF S
  <2> QED BY <2>1, <2>2, SetInduction
<1>13. p \in [Nat -> Nat]
  <2>1. \A n \in Nat : p[n] \in Nat
    BY <1>12
  <2>2. DOMAIN p = Nat /\ p = [n \in Nat |-> p[n]]
    BY <1>10
  <2> HIDE DEF p
  <2> QED BY <2>1, <2>2
<1> QED BY <1>11, <1>13

LEMMA PowerPositive ==
  ASSUME NEW b \in Nat \ {0}, NEW n \in Nat
  PROVE  Power(b)[n] \in Nat \ {0}
<1> DEFINE p == Power(b)
           S == {i \in Nat : p[i] \in Nat \ {0}}
<1>1. p[0] = 1 /\ \A i \in Nat : p[i + 1] = b * p[i]
  BY PowerDef
<1> HIDE DEF p
<1>2. S \in SUBSET Nat /\ 0 \in S
  BY <1>1
<1>3. ASSUME NEW i \in S PROVE i + 1 \in S
  <2>1. i \in Nat /\ p[i] \in Nat \ {0}
    OBVIOUS
  <2>2. p[i + 1] = b * p[i] /\ b * p[i] \in Nat \ {0}
    BY <1>1, <2>1
  <2> QED BY <2>1, <2>2
<1>4. n \in S
  <2> HIDE DEF S
  <2> QED BY <1>2, <1>3, SetInduction
<1> QED BY <1>4 DEF p

LEMMA PowerSum ==
  ASSUME NEW b \in Nat, NEW m \in Nat, NEW n \in Nat
  PROVE  Power(b)[m + n] = Power(b)[m] * Power(b)[n]
<1> DEFINE p == Power(b)
           S == {i \in Nat : p[m + i] = p[m] * p[i]}
<1>1. p \in [Nat -> Nat] /\ p[0] = 1 /\ \A i \in Nat : p[i + 1] = b * p[i]
  BY PowerDef
<1> HIDE DEF p
<1>2. S \in SUBSET Nat /\ 0 \in S
  <2>1. p[m] \in Nat /\ m + 0 = m
    BY <1>1
  <2> QED BY <1>1, <2>1
<1>3. ASSUME NEW i \in S PROVE i + 1 \in S
  <2>1. i \in Nat /\ p[m + i] = p[m] * p[i] /\ m + i \in Nat
    OBVIOUS
  <2>2. p[(m + i) + 1] = b * p[m + i] /\ p[i + 1] = b * p[i] /\ p[m] \in Nat /\ p[i] \in Nat
    BY <1>1, <2>1
  <2>3. b * (p[m] * p[i]) = p[m] * (b * p[i])
    BY <2>2
  <2>4. m + (i + 1) = (m + i) + 1
    BY <2>1
  <2> QED BY <2>1, <2>2, <2>3, <2>4
<1>4. n \in S
  <2> HIDE DEF S
  <2> QED BY <1>2, <1>3, SetInduction
<1> QED BY <1>4 DEF p

(* A smaller power divides a larger one. *)
LEMMA PowerDivides ==
  ASSUME NEW b \in Nat \ {0}, NEW m \in Nat, NEW n \in Nat, m <= n
  PROVE  \E k \in Nat \ {0} : Power(b)[n] = k * Power(b)[m]
<1>1. n - m \in Nat /\ m + (n - m) = n
  OBVIOUS
<1>2. Power(b)[n] = Power(b)[m] * Power(b)[n - m]
  BY <1>1, PowerSum
<1>3. Power(b)[n - m] \in Nat \ {0} /\ Power(b)[m] \in Nat \ {0}
  BY <1>1, PowerPositive
<1>4. Power(b)[n] = Power(b)[n - m] * Power(b)[m]
  BY <1>2, <1>3
<1> QED BY <1>3, <1>4

(* A larger exponent makes a larger power. *)
LEMMA PowerGrows ==
  ASSUME NEW b \in Nat, b >= 2, NEW m \in Nat, NEW n \in Nat, m < n
  PROVE  b * Power(b)[m] <= Power(b)[n] /\ Power(b)[m] < Power(b)[n]
<1>1. b \in Nat \ {0} /\ m + 1 \in Nat /\ m + 1 <= n
  OBVIOUS
<1>2. PICK k \in Nat \ {0} : Power(b)[n] = k * Power(b)[m + 1]
  BY <1>1, PowerDivides
<1>3. Power(b)[m + 1] = b * Power(b)[m]
  BY PowerDef
<1>4. PICK x \in Nat \ {0} : x = Power(b)[m]
  BY <1>1, PowerPositive
<1>5. b * x \in Nat /\ x < b * x
  BY <1>1, <1>4
<1>6. 1 * (b * x) <= k * (b * x)
  BY <1>2, <1>5, TimesMonotone
<1> QED BY <1>2, <1>3, <1>4, <1>5, <1>6

(* Different exponents make different powers. *)
LEMMA PowerInjective ==
  ASSUME NEW b \in Nat, b >= 2, NEW m \in Nat, NEW n \in Nat, Power(b)[m] = Power(b)[n]
  PROVE  m = n
<1>1. Power(b)[m] \in Nat /\ Power(b)[n] \in Nat
  BY PowerDef
<1>2. CASE m < n
  BY <1>1, <1>2, PowerGrows
<1>3. CASE n < m
  BY <1>1, <1>3, PowerGrows
<1> QED BY <1>2, <1>3
===============================================================================
