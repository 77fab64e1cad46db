--------------------------- MODULE TimerWheelProofs ---------------------------
(***************************************************************************)
(* Proofs about the timer wheel for every number and size of wheels: a     *)
(* timer of a careful client waits in one list, and on_tick runs it at the *)
(* tick it was added for.                                                  *)
(***************************************************************************)
EXTENDS TimerWheel, CommonLemmas, FiniteSetTheorems

(* The lists a timer can wait in: those of the first wheel, and the others. *)
First == -1
Places == ({First} \X (0 .. (SIZE0 - 1))) \cup (Levels \X (0 .. (SIZE - 1)))

(* A timer in list s of wheel i waits for the m-th turn of the wheel below: *)
(* that turn comes up before the list is used again, and the timer is due   *)
(* in it or the next.                                                       *)
Awaits(r, i, s, now, at) ==
  \E m \in Nat \ {0} :
    /\ s = m % SIZE
    /\ m * Span(i) <= r /\ r < (m + 2) * Span(i)
    /\ m * Span(i) < now + Span(i + 1)
    /\ now < m * Span(i) \/ (now = m * Span(i) /\ at <= i)

(* A timer due at tick r may wait at p: in the first wheel for a tick of    *)
(* this turn, further up for a turn to come.                                *)
Waits(r, p, now, at) ==
  /\ r >= now
  /\ \/ /\ p[1] = First
        /\ \E c \in Nat : /\ c * SIZE0 <= now /\ r < (c + 1) * SIZE0
                          /\ p[2] = r - c * SIZE0
     \/ p[1] # First /\ Awaits(r, p[1], p[2], now, at)

(* The lists of the wheels s0 and s have the timers whose place they are.   *)
Holds(h, s0, s) ==
  /\ \A x \in 0 .. (SIZE0 - 1) : ListsOnce(s0[x], {t \in DOMAIN h : h[t] = <<First, x>>})
  /\ \A i \in Levels, x \in 0 .. (SIZE - 1) :
       ListsOnce(s[i][x], {t \in DOMAIN h : h[t] = <<i, x>>})

Placed == \E h \in [DOMAIN due -> Places] :
            /\ Holds(h, set0, set)
            /\ \A t \in DOMAIN due : Waits(due[t], h[t], current_tick, stage)

(* A timer that repeats takes a turn of the first wheel or longer. *)
Repeats == \A t \in DOMAIN delay : delay[t] >= SIZE0

(* on_tick runs the list of the tick from its first timer on, which is      *)
(* still in it while its callback is executing.                             *)
Walking ==
  /\ stage # -1 => current_tick <= Horizon
  /\ stage # Sets => running = None /\ node = None
  /\ stage = Sets =>
       LET l == set0[Slot0]
       IN  /\ running = None => node = IF l = <<>> THEN Tail0 ELSE l[1]
           /\ running # None => /\ l # <<>> /\ l[1] = running
                                /\ node = IF Len(l) = 1 THEN Tail0 ELSE l[2]

WheelInv == TypeOK /\ Placed /\ Repeats /\ Walking

-------------------------------------------------------------------------------
(* Numbers: quotients, remainders and the turns of the wheels. *)
LEMMA Remainder ==
  ASSUME NEW q \in Nat, NEW s \in Nat \ {0}, NEW r \in 0 .. (s - 1)
  PROVE  (q * s + r) \div s = q /\ (q * s + r) % s = r
<1> PICK p \in Nat : p = q * s
  OBVIOUS
<1> PICK x \in Nat : x = p + r
  OBVIOUS
<1>1. /\ x \div s \in Nat /\ (x \div s) * s <= x /\ x < ((x \div s) + 1) * s
      /\ x = s * (x \div s) + (x % s) /\ x % s \in 0 .. (s - 1)
  BY Quotient
<1> PICK d \in Nat : d = x \div s
  BY <1>1
<1>2. d * s <= x /\ x < (d + 1) * s /\ (q + 1) * s = p + s /\ s * d = d * s
  BY <1>1
<1>3. d < q + 1
  <2>1. d * s < (q + 1) * s
    BY <1>2
  <2> QED BY <2>1, TimesStrict
<1>4. q < d + 1
  <2>1. q * s < (d + 1) * s
    BY <1>2
  <2> QED BY <2>1, TimesStrict
<1>5. d = q
  BY <1>3, <1>4
<1>6. x % s = r
  BY <1>1, <1>2, <1>5
<1> QED BY <1>5, <1>6

(* A number is its quotient times the divisor and its remainder. *)
LEMMA Division ==
  ASSUME NEW x \in Nat, NEW s \in Nat \ {0}
  PROVE  /\ x \div s \in Nat /\ x % s \in 0 .. (s - 1)
         /\ x = (x \div s) * s + (x % s)
<1>1. x \div s \in Nat
  BY Quotient
<1>2. x = s * (x \div s) + (x % s) /\ x % s \in 0 .. (s - 1)
  OBVIOUS
<1> QED BY <1>1, <1>2

(* Of s numbers in a row no two have the same remainder. *)
LEMMA RemainderApart ==
  ASSUME NEW a \in Nat, NEW b \in Nat, NEW s \in Nat \ {0},
         a <= b, b < a + s, a % s = b % s
  PROVE  a = b
<1> PICK j \in Nat, k \in Nat, r \in 0 .. (s - 1) : a = j * s + r /\ b = k * s + r
  BY Division
<1>1. CASE j < k
  BY <1>1, SlotsApart
<1>2. CASE k < j
  BY <1>2, SlotsApart
<1>3. CASE j = k
  BY <1>3
<1> QED BY <1>1, <1>2, <1>3

LEMMA RemainderSmall ==
  ASSUME NEW s \in Nat \ {0}, NEW n \in 0 .. (s - 1)
  PROVE  n % s = n
<1>1. \A p \in Nat : (p * s + n) % s = n
  BY Remainder
<1> PICK z \in Nat : z = 0
  OBVIOUS
<1>2. (z * s + n) % s = n
  BY <1>1
<1>3. z * s + n = n
  OBVIOUS
<1> QED BY <1>2, <1>3

(* Adding to a remainder. *)
LEMMA RemainderSum ==
  ASSUME NEW c \in Nat, NEW s \in Nat \ {0}, NEW d \in 0 .. (s - 1)
  PROVE  (d + (c % s)) % s = (c + d) % s
<1> PICK q \in Nat, r \in 0 .. (s - 1) : c = q * s + r /\ r = c % s
  BY Division
<1>1. \A y \in 0 .. (s - 1) : \A p \in Nat : (p * s + y) % s = y
  BY Remainder
<1>2. CASE d + r < s
  <2> d + r \in 0 .. (s - 1)
    BY <1>2
  <2>1. PICK p \in Nat, y \in 0 .. (s - 1) : p = 0 /\ y = d + r
    OBVIOUS
  <2>2. (p * s + y) % s = y /\ (q * s + y) % s = y
    BY <1>1
  <2>3. p * s + y = d + r /\ q * s + y = c + d
    BY <2>1
  <2> QED BY <2>2, <2>3
<1>3. CASE d + r >= s
  <2> d + r - s \in 0 .. (s - 1)
    BY <1>3
  <2> PICK n \in Nat : n = q + 1
    OBVIOUS
  <2>1. PICK p \in Nat, y \in 0 .. (s - 1) : p = 1 /\ y = d + r - s
    OBVIOUS
  <2>2. (p * s + y) % s = y /\ (n * s + y) % s = y
    BY <1>1
  <2>3. p * s + y = d + r /\ n * s + y = c + d
    BY <2>1
  <2> QED BY <2>2, <2>3
<1> QED BY <1>2, <1>3

(* The sizes of the wheels and the ticks that their lists stand for. *)
LEMMA WheelSizes ==
  /\ SIZE0 \in Nat \ {0} /\ SIZE0 >= 2 /\ SIZE \in Nat \ {0} /\ SIZE >= 2
  /\ Span(0) = SIZE0
  /\ \A i \in Nat : Span(i) \in Nat \ {0} /\ Span(i + 1) = SIZE * Span(i)
<1>1. Bits0 \in Nat /\ Bits \in Nat /\ 0 < Bits0 /\ 0 < Bits
  BY SizeAssumption
<1>2. \A n \in Nat : 0 < n => Power(2)[n] \in Nat /\ Power(2)[n] >= 2
  <2>1. 2 \in Nat /\ 2 >= 2 /\ Power(2)[0] = 1 /\ \A n \in Nat : Power(2)[n] \in Nat
    BY PowerDef
  <2>2. \A n \in Nat : 0 < n => 2 * Power(2)[0] <= Power(2)[n]
    BY <2>1, PowerGrows
  <2> QED BY <2>1, <2>2
<1>3. SIZE0 \in Nat \ {0} /\ SIZE0 >= 2 /\ SIZE \in Nat \ {0} /\ SIZE >= 2
  BY <1>1, <1>2 DEF SIZE0, SIZE
<1>4. Power(SIZE)[0] = 1 /\ \A i \in Nat : Power(SIZE)[i + 1] = SIZE * Power(SIZE)[i]
  BY <1>3, PowerDef
<1>5. Span(0) = SIZE0
  BY <1>3, <1>4 DEF Span
<1>6. ASSUME NEW i \in Nat
      PROVE  Span(i) \in Nat \ {0} /\ Span(i + 1) = SIZE * Span(i)
  <2>1. PICK x \in Nat \ {0} : x = Power(SIZE)[i]
    BY <1>3, PowerPositive
  <2>2. SIZE0 * x \in Nat \ {0} /\ SIZE0 * (SIZE * x) = SIZE * (SIZE0 * x)
    BY <1>3
  <2> QED BY <1>4, <2>1, <2>2 DEF Span
<1> QED BY <1>3, <1>5, <1>6

(* A list of a wheel further up stands for at least twice as many ticks. *)
LEMMA SpanGrows ==
  ASSUME NEW i \in Nat, NEW j \in Nat, i < j
  PROVE  2 * Span(i) <= Span(j) /\ Span(i) < Span(j)
<1>1. PICK x \in Nat \ {0}, y \in Nat \ {0} : x = Power(SIZE)[i] /\ y = Power(SIZE)[j]
  BY WheelSizes, PowerPositive
<1>2. SIZE * x <= y
  BY <1>1, WheelSizes, PowerGrows
<1>3. 2 * x <= SIZE * x
  BY WheelSizes, TimesMonotone
<1>4. 2 * x <= y
  BY <1>2, <1>3, WheelSizes
<1>5. (2 * x) * SIZE0 <= y * SIZE0
  BY <1>4, WheelSizes, TimesMonotone
<1>6. PICK b \in Nat \ {0} : b = SIZE0
  BY WheelSizes
<1>7. (2 * x) * b = 2 * (b * x) /\ y * b = b * y /\ b * x \in Nat \ {0}
  BY <1>6
<1> QED BY <1>1, <1>5, <1>6, <1>7 DEF Span

(* The lists of every wheel stand for whole turns of the first. *)
LEMMA SpanWhole ==
  ASSUME NEW i \in Nat
  PROVE  \E k \in Nat \ {0} : Span(i) = k * SIZE0
<1>1. PICK x \in Nat \ {0} : x = Power(SIZE)[i]
  BY WheelSizes, PowerPositive
<1>2. SIZE0 * x = x * SIZE0
  BY WheelSizes
<1> QED BY <1>1, <1>2 DEF Span

LEMMA CarefulFacts ==
  ASSUME Careful
  PROVE  /\ Sets \in Nat /\ Sets >= 2 /\ Levels \subseteq Nat /\ {0, 1} \subseteq Levels
         /\ Horizon \in Nat /\ Horizon < Span(2)
         /\ Span(2) \in Nat /\ Span(Sets) \in Nat /\ Span(2) <= Span(Sets)
         /\ Delays \subseteq Nat /\ \A d \in Delays : d < Span(Sets)
<1>1. Sets \in Nat /\ Sets >= 2 /\ Levels \subseteq Nat /\ {0, 1} \subseteq Levels
  BY SizeAssumption DEF Levels
<1>2. Horizon \in Nat /\ Horizon < Span(2)
  BY SizeAssumption
<1>3. Span(2) \in Nat /\ Span(Sets) \in Nat
  BY <1>1, WheelSizes
<1>4. Span(2) <= Span(Sets)
  BY <1>1, <1>3, SpanGrows
<1>5. Delays \subseteq Nat /\ \A d \in Delays : d < Span(Sets)
  BY <1>3, SizeAssumption
<1> QED BY <1>1, <1>2, <1>3, <1>4, <1>5

-------------------------------------------------------------------------------
(* Lists and places. *)

(* What of the state the lists' proofs need. *)
ListTypes(s0, s) ==
  /\ s0 \in [0 .. (SIZE0 - 1) -> Seq(Timers)]
  /\ s \in [Levels -> [0 .. (SIZE - 1) -> Seq(Timers)]]

At(h, p) == {t \in DOMAIN h : h[t] = p}

LEMMA HoldsAt ==
  ASSUME NEW h, NEW s0, NEW s
  PROVE  Holds(h, s0, s) <=> /\ \A x \in 0 .. (SIZE0 - 1) : ListsOnce(s0[x], At(h, <<First, x>>))
                             /\ \A i \in Levels, x \in 0 .. (SIZE - 1) :
                                  ListsOnce(s[i][x], At(h, <<i, x>>))
BY DEF Holds, At

LEMMA PlacesApart ==
  /\ Levels \subseteq Nat
  /\ \A x, i, y : i \in Levels => <<First, x>> # <<i, y>>
BY SizeAssumption DEF Levels, First

(* A timer that had no place gets one. *)
LEMMA AtAdded ==
  ASSUME NEW h, NEW t, t \notin DOMAIN h, NEW p, NEW k, k = With(h, t, p)
  PROVE  At(k, p) = At(h, p) \cup {t} /\ \A q : q # p => At(k, q) = At(h, q)
BY DEF With, At

(* A timer loses its place. *)
LEMMA AtRemoved ==
  ASSUME NEW h, NEW t \in DOMAIN h, NEW p, p = h[t], NEW k, k = Without(h, t)
  PROVE  At(k, p) = At(h, p) \ {t} /\ \A q : q # p => At(k, q) = At(h, q)
BY DEF Without, At

LEMMA FirstAdded ==
  ASSUME NEW h, NEW s0, NEW s, ListTypes(s0, s), Holds(h, s0, s),
         NEW t \in Timers, t \notin DOMAIN h, NEW x \in 0 .. (SIZE0 - 1)
  PROVE  /\ ListTypes([s0 EXCEPT ![x] = lst_push_back(@, t)], s)
         /\ Holds(With(h, t, <<First, x>>), [s0 EXCEPT ![x] = lst_push_back(@, t)], s)
<1> PICK p : p = <<First, x>>
  OBVIOUS
<1> PICK r : r = [s0 EXCEPT ![x] = lst_push_back(@, t)]
  OBVIOUS
<1> PICK k : k = With(h, t, p)
  OBVIOUS
<1>1. At(k, p) = At(h, p) \cup {t} /\ \A q : q # p => At(k, q) = At(h, q)
  BY AtAdded
<1>2. /\ \A y \in 0 .. (SIZE0 - 1) : ListsOnce(s0[y], At(h, <<First, y>>))
      /\ \A i \in Levels, y \in 0 .. (SIZE - 1) : ListsOnce(s[i][y], At(h, <<i, y>>))
  BY HoldsAt
<1>3. s0[x] \in Seq(Timers) /\ ListsOnce(s0[x], At(h, p))
  BY <1>2 DEF ListTypes
<1>4. lst_push_back(s0[x], t) \in Seq(Timers)
      /\ ListsOnce(lst_push_back(s0[x], t), At(h, p) \cup {t})
  <2>1. t \notin At(h, p)
    BY DEF At
  <2> QED BY <1>3, <2>1, PushBackOnce
<1>5. /\ r \in [0 .. (SIZE0 - 1) -> Seq(Timers)] /\ r[x] = lst_push_back(s0[x], t)
      /\ \A y \in 0 .. (SIZE0 - 1) : y # x => r[y] = s0[y]
  BY <1>4 DEF ListTypes
<1>6. \A y \in 0 .. (SIZE0 - 1) : ListsOnce(r[y], At(k, <<First, y>>))
  <2> TAKE y \in 0 .. (SIZE0 - 1)
  <2>1. CASE y = x
    BY <1>1, <1>4, <1>5, <2>1
  <2>2. CASE y # x
    <3>1. <<First, y>> # p
      BY <2>2
    <3> QED BY <1>1, <1>2, <1>5, <2>2, <3>1
  <2> QED BY <2>1, <2>2
<1>7. \A i \in Levels, y \in 0 .. (SIZE - 1) : ListsOnce(s[i][y], At(k, <<i, y>>))
  BY <1>1, <1>2, PlacesApart
<1> QED BY <1>5, <1>6, <1>7, HoldsAt DEF ListTypes

LEMMA LevelAdded ==
  ASSUME NEW h, NEW s0, NEW s, ListTypes(s0, s), Holds(h, s0, s),
         NEW t \in Timers, t \notin DOMAIN h, NEW j \in Levels, NEW x \in 0 .. (SIZE - 1)
  PROVE  /\ ListTypes(s0, [s EXCEPT ![j][x] = lst_push_back(@, t)])
         /\ Holds(With(h, t, <<j, x>>), s0, [s EXCEPT ![j][x] = lst_push_back(@, t)])
<1> PICK p : p = <<j, x>>
  OBVIOUS
<1> PICK r : r = [s EXCEPT ![j][x] = lst_push_back(@, t)]
  OBVIOUS
<1> PICK k : k = With(h, t, p)
  OBVIOUS
<1>1. At(k, p) = At(h, p) \cup {t} /\ \A q : q # p => At(k, q) = At(h, q)
  BY AtAdded
<1>2. /\ \A y \in 0 .. (SIZE0 - 1) : ListsOnce(s0[y], At(h, <<First, y>>))
      /\ \A i \in Levels, y \in 0 .. (SIZE - 1) : ListsOnce(s[i][y], At(h, <<i, y>>))
  BY HoldsAt
<1>3. s[j][x] \in Seq(Timers) /\ ListsOnce(s[j][x], At(h, p))
  BY <1>2 DEF ListTypes
<1>4. lst_push_back(s[j][x], t) \in Seq(Timers)
      /\ ListsOnce(lst_push_back(s[j][x], t), At(h, p) \cup {t})
  <2>1. t \notin At(h, p)
    BY DEF At
  <2> QED BY <1>3, <2>1, PushBackOnce
<1>5. /\ r \in [Levels -> [0 .. (SIZE - 1) -> Seq(Timers)]]
      /\ r[j][x] = lst_push_back(s[j][x], t)
      /\ \A i \in Levels, y \in 0 .. (SIZE - 1) : i # j \/ y # x => r[i][y] = s[i][y]
  BY <1>4 DEF ListTypes
<1>6. \A y \in 0 .. (SIZE0 - 1) : ListsOnce(s0[y], At(k, <<First, y>>))
  BY <1>1, <1>2, PlacesApart
<1>7. \A i \in Levels, y \in 0 .. (SIZE - 1) : ListsOnce(r[i][y], At(k, <<i, y>>))
  <2> TAKE i \in Levels, y \in 0 .. (SIZE - 1)
  <2>1. CASE i = j /\ y = x
    BY <1>1, <1>4, <1>5, <2>1
  <2>2. CASE i # j \/ y # x
    <3>1. <<i, y>> # p
      BY <2>2
    <3> QED BY <1>1, <1>2, <1>5, <2>2, <3>1
  <2> QED BY <2>1, <2>2
<1> QED BY <1>5, <1>6, <1>7, HoldsAt DEF ListTypes

(* The first timer of a list is taken off it. *)
Popped(s, j, x) == [s EXCEPT ![j][x] = lst_pop_front(@)]

LEMMA LevelPopped ==
  ASSUME NEW h, NEW s0, NEW s, ListTypes(s0, s), Holds(h, s0, s),
         NEW j \in Levels, NEW x \in 0 .. (SIZE - 1), ~lst_empty(s[j][x]),
         NEW t, t = lst_first(s[j][x]), NEW p, p = <<j, x>>
  PROVE  /\ t \in DOMAIN h /\ h[t] = p
         /\ ListTypes(s0, Popped(s, j, x)) /\ Holds(Without(h, t), s0, Popped(s, j, x))
<1> PICK r : r = Popped(s, j, x)
  OBVIOUS
<1> PICK k : k = Without(h, t)
  OBVIOUS
<1>1. /\ \A y \in 0 .. (SIZE0 - 1) : ListsOnce(s0[y], At(h, <<First, y>>))
      /\ \A i \in Levels, y \in 0 .. (SIZE - 1) : ListsOnce(s[i][y], At(h, <<i, y>>))
  BY HoldsAt
<1>2. s[j][x] \in Seq(Timers) /\ s[j][x] # <<>> /\ ListsOnce(s[j][x], At(h, p))
  BY <1>1 DEF ListTypes, lst_empty
<1>3. t \in At(h, p) /\ lst_pop_front(s[j][x]) \in Seq(Timers)
      /\ ListsOnce(lst_pop_front(s[j][x]), At(h, p) \ {t})
  BY <1>2, PopFrontOnce
<1>4. t \in DOMAIN h /\ h[t] = p
  BY <1>3 DEF At
<1>5. At(k, p) = At(h, p) \ {t} /\ \A q : q # p => At(k, q) = At(h, q)
  BY <1>4, AtRemoved
<1>6. /\ r \in [Levels -> [0 .. (SIZE - 1) -> Seq(Timers)]]
      /\ r[j][x] = lst_pop_front(s[j][x])
      /\ \A i \in Levels, y \in 0 .. (SIZE - 1) : i # j \/ y # x => r[i][y] = s[i][y]
  BY <1>3 DEF ListTypes, Popped
<1>7. \A y \in 0 .. (SIZE0 - 1) : ListsOnce(s0[y], At(k, <<First, y>>))
  BY <1>1, <1>5, PlacesApart
<1>8. \A i \in Levels, y \in 0 .. (SIZE - 1) : ListsOnce(r[i][y], At(k, <<i, y>>))
  <2> TAKE i \in Levels, y \in 0 .. (SIZE - 1)
  <2>1. CASE i = j /\ y = x
    BY <1>3, <1>5, <1>6, <2>1
  <2>2. CASE i # j \/ y # x
    <3>1. <<i, y>> # p
      BY <2>2
    <3> QED BY <1>1, <1>5, <1>6, <2>2, <3>1
  <2> QED BY <2>1, <2>2
<1>9. Holds(k, s0, r)
  BY <1>7, <1>8, HoldsAt
<1> QED BY <1>4, <1>6, <1>9 DEF ListTypes

(* lst_remove_node takes a timer out of its list and out of no other. *)
LEMMA TimerUnlinked ==
  ASSUME NEW h, ListTypes(set0, set), Holds(h, set0, set), NEW t \in DOMAIN h,
         h[t] \in Places
  PROVE  ListTypes(Unlinked0(t), Unlinked(t)) /\ Holds(Without(h, t), Unlinked0(t), Unlinked(t))
<1> PICK p : p = h[t]
  OBVIOUS
<1> PICK k : k = Without(h, t)
  OBVIOUS
<1> PICK r0, r : r0 = Unlinked0(t) /\ r = Unlinked(t)
  OBVIOUS
<1>1. /\ \A y \in 0 .. (SIZE0 - 1) : ListsOnce(set0[y], At(h, <<First, y>>))
      /\ \A i \in Levels, y \in 0 .. (SIZE - 1) : ListsOnce(set[i][y], At(h, <<i, y>>))
  BY HoldsAt
<1>2. /\ DOMAIN set0 = 0 .. (SIZE0 - 1) /\ \A y \in 0 .. (SIZE0 - 1) : set0[y] \in Seq(Timers)
      /\ \A i \in Levels : DOMAIN set[i] = 0 .. (SIZE - 1)
      /\ \A i \in Levels, y \in 0 .. (SIZE - 1) : set[i][y] \in Seq(Timers)
  BY DEF ListTypes
<1>3. /\ At(k, p) = At(h, p) \ {t} /\ \A q : q # p => At(k, q) = At(h, q)
      /\ t \in At(h, p) /\ \A q : q # p => t \notin At(h, q)
  <2>1. At(k, p) = At(h, p) \ {t} /\ \A q : q # p => At(k, q) = At(h, q)
    BY AtRemoved
  <2>2. t \in At(h, p) /\ \A q : q # p => t \notin At(h, q)
    BY DEF At
  <2> QED BY <2>1, <2>2
<1>4. ASSUME NEW q, NEW l \in Seq(Timers), ListsOnce(l, At(h, q))
      PROVE  lst_remove(l, t) \in Seq(Timers) /\ ListsOnce(lst_remove(l, t), At(k, q))
  <2>1. CASE q = p
    BY <1>3, <1>4, <2>1, RemoveOnce
  <2>2. CASE q # p
    <3>1. lst_remove(l, t) = l
      BY <1>3, <1>4, <2>2, RemoveAbsent
    <3> QED BY <1>3, <1>4, <2>2, <3>1
  <2> QED BY <2>1, <2>2
<1>5. /\ r0 \in [0 .. (SIZE0 - 1) -> Seq(Timers)]
      /\ \A y \in 0 .. (SIZE0 - 1) : ListsOnce(r0[y], At(k, <<First, y>>))
  <2>1. r0 = [y \in 0 .. (SIZE0 - 1) |-> lst_remove(set0[y], t)]
    BY <1>2 DEF Unlinked0
  <2>2. \A y \in 0 .. (SIZE0 - 1) :
          /\ lst_remove(set0[y], t) \in Seq(Timers)
          /\ ListsOnce(lst_remove(set0[y], t), At(k, <<First, y>>))
    BY <1>1, <1>2, <1>4
  <2> QED BY <2>1, <2>2
<1>6. /\ r \in [Levels -> [0 .. (SIZE - 1) -> Seq(Timers)]]
      /\ \A i \in Levels, y \in 0 .. (SIZE - 1) : ListsOnce(r[i][y], At(k, <<i, y>>))
  <2>1. r = [i \in Levels |-> [y \in 0 .. (SIZE - 1) |-> lst_remove(set[i][y], t)]]
    BY <1>2 DEF Unlinked
  <2>2. \A i \in Levels, y \in 0 .. (SIZE - 1) :
          /\ lst_remove(set[i][y], t) \in Seq(Timers)
          /\ ListsOnce(lst_remove(set[i][y], t), At(k, <<i, y>>))
    BY <1>1, <1>2, <1>4
  <2>3. \A i \in Levels : [y \in 0 .. (SIZE - 1) |-> lst_remove(set[i][y], t)]
                            \in [0 .. (SIZE - 1) -> Seq(Timers)]
    BY <2>2
  <2>4. r \in [Levels -> [0 .. (SIZE - 1) -> Seq(Timers)]]
    BY <2>1, <2>3
  <2>5. \A i \in Levels, y \in 0 .. (SIZE - 1) : r[i][y] = lst_remove(set[i][y], t)
    BY <2>1
  <2> QED BY <2>2, <2>4, <2>5
<1> QED BY <1>5, <1>6, HoldsAt DEF ListTypes

-------------------------------------------------------------------------------
(* Where _add_timer files a timer. *)

(* A distance of at least the span of wheel i and less than that of the     *)
(* next one is filed in wheel i.                                            *)
LEMMA LevelIs ==
  ASSUME NEW i \in Levels, NEW diff \in Nat, Span(i) <= diff, diff < Span(i + 1)
  PROVE  /\ LevelOf(diff) = i /\ Index(i, diff) = diff \div Span(i)
         /\ diff \div Span(i) \in 1 .. (SIZE - 1)
<1>1. Levels \subseteq Nat /\ i \in Nat
  BY SizeAssumption DEF Levels
<1> PICK w \in Nat \ {0} : w = Span(i) /\ Span(i + 1) = SIZE * w
  BY <1>1, WheelSizes
<1> PICK d \in Nat : d = diff \div w /\ d * w <= diff /\ diff < (d + 1) * w
  BY Quotient
<1>2. d # 0
  BY TimesStrict
<1>3. d < SIZE
  <2>1. d * w < SIZE * w
    BY <1>1, WheelSizes
  <2> QED BY <2>1, WheelSizes, TimesStrict
<1>4. \A n \in 0 .. (SIZE - 1) : n % SIZE = n
  BY WheelSizes, RemainderSmall
<1>5. d \in 1 .. (SIZE - 1) /\ Index(i, diff) = d
  BY <1>2, <1>3, <1>4, WheelSizes DEF Index
<1>6. ASSUME NEW j \in Levels, j > i PROVE Index(j, diff) = 0
  <2>1. j \in Nat /\ Span(j) \in Nat \ {0} /\ diff < Span(j)
    <3>1. j \in Nat /\ i + 1 \in Nat /\ Span(j) \in Nat \ {0} /\ Span(i + 1) \in Nat
      BY <1>1, WheelSizes
    <3>2. CASE j = i + 1
      BY <3>1, <3>2
    <3>3. CASE i + 1 < j
      BY <3>1, <3>3, SpanGrows
    <3> QED BY <1>1, <1>6, <3>1, <3>2, <3>3
  <2> PICK q \in Nat : q = diff \div Span(j) /\ q * Span(j) <= diff
    BY <2>1, Quotient
  <2> PICK u \in Nat, o \in Nat : u = Span(j) /\ o = 1
    BY <2>1
  <2>2. q * u < o * u
    BY <2>1
  <2>3. q < o
    BY <2>2, TimesStrict
  <2>4. q = 0
    BY <2>3
  <2>5. 0 \in 0 .. (SIZE - 1)
    BY WheelSizes
  <2> QED BY <1>4, <2>4, <2>5 DEF Index
<1>7. \A k \in Levels : Index(k, diff) > 0 /\ (\A j \in Levels : j > k => Index(j, diff) = 0) => k = i
  <2> TAKE k \in Levels
  <2>1. k \in Nat
    BY <1>1
  <2>2. CASE k > i
    BY <1>6, <2>2
  <2>3. CASE i > k
    BY <1>5, <2>3
  <2> QED BY <1>1, <2>1, <2>2, <2>3
<1>8. Index(i, diff) > 0 /\ \A j \in Levels : j > i => Index(j, diff) = 0
  BY <1>5, <1>6
<1>9. LevelOf(diff) = i
  BY <1>7, <1>8 DEF LevelOf
<1> QED BY <1>5, <1>9

(* Every distance has such a wheel. *)
LEMMA LevelExists ==
  ASSUME NEW diff \in Nat, SIZE0 <= diff, diff < Span(Sets)
  PROVE  \E i \in Levels : Span(i) <= diff /\ diff < Span(i + 1)
<1> DEFINE S == {i \in Levels : Span(i) <= diff}
<1>1. /\ Sets \in Nat \ {0} /\ Levels \subseteq Nat /\ 0 \in Levels
      /\ \A i \in Levels : i <= Sets
      /\ \A i \in Nat : i < Sets => i \in Levels
  BY SizeAssumption DEF Levels
<1>2. S \in SUBSET Nat /\ 0 \in S /\ \A i \in S : i <= Sets
  <2>1. Span(0) <= diff
    BY WheelSizes
  <2>2. 0 \in S
    BY <1>1, <2>1
  <2>3. \A i \in S : i <= Sets
    BY <1>1
  <2>4. S \in SUBSET Nat
    BY <1>1
  <2> QED BY <2>2, <2>3, <2>4
<1> HIDE DEF S
<1>3. PICK i \in S : \A j \in S : j <= i
  <2>1. S # {} /\ Sets \in Nat
    BY <1>1, <1>2
  <2> QED BY <1>2, <2>1, GreatestElement
<1>4. i \in Levels /\ Span(i) <= diff /\ i \in Nat /\ i + 1 \in Nat /\ i < Sets
  BY <1>1 DEF S, Levels
<1>5. CASE i + 1 = Sets
  BY <1>4, <1>5
<1>6. CASE i + 1 # Sets
  <2>1. i + 1 \in Levels
    BY <1>1, <1>4, <1>6
  <2>2. i + 1 \notin S
    BY <1>3, <1>4
  <2>3. ~(Span(i + 1) <= diff)
    BY <2>1, <2>2 DEF S
  <2>4. Span(i + 1) \in Nat
    BY <1>4, WheelSizes
  <2> QED BY <1>4, <2>3, <2>4
<1> QED BY <1>5, <1>6

(* The list of wheel i that _add_timer chooses comes up before the timer is *)
(* due, and less than two spans before.                                     *)
LEMMA AwaitsFiled ==
  ASSUME NEW now \in Nat, NEW r \in Nat, NEW i \in Levels,
         NEW diff \in Nat, r = now + diff, Span(i) <= diff, diff < Span(i + 1),
         NEW at \in Int
  PROVE  Awaits(r, i, (Index(i, diff) + Index(i, now)) % SIZE, now, at)
<1> PICK w \in Nat \ {0} : w = Span(i) /\ Span(i + 1) = SIZE * w
  BY WheelSizes, SizeAssumption DEF Levels
<1> PICK d \in 1 .. (SIZE - 1) : d = Index(i, diff) /\ d = diff \div w
  BY LevelIs
<1>1. d * w <= diff /\ diff < (d + 1) * w
  BY Quotient
<1> PICK c \in Nat : c = now \div w /\ c * w <= now /\ now < (c + 1) * w
  BY Quotient
<1> PICK m \in Nat \ {0} : m = c + d
  BY WheelSizes
<1>2. (d + (c % SIZE)) % SIZE = (c + d) % SIZE
  <2>1. d \in 0 .. (SIZE - 1)
    BY WheelSizes
  <2> QED BY <2>1, WheelSizes, RemainderSum
<1>3. (Index(i, diff) + Index(i, now)) % SIZE = m % SIZE
  BY <1>2 DEF Index
<1> PICK cw \in Nat, dw \in Nat : cw = c * w /\ dw = d * w
  BY TimesMonotone
<1>4. m * w = cw + dw /\ (m + 2) * w = cw + dw + w + w /\ (c + 1) * w = cw + w /\ (d + 1) * w = dw + w
  <2>1. d \in Nat
    BY WheelSizes
  <2>2. m * w = cw + dw
    BY <2>1
  <2>3. (m + 2) * w = m * w + w + w
    OBVIOUS
  <2>4. (c + 1) * w = cw + w
    OBVIOUS
  <2>5. (d + 1) * w = dw + w
    BY <2>1
  <2> QED BY <2>2, <2>3, <2>4, <2>5
<1>5. m * w <= r /\ r < (m + 2) * w
  BY <1>1, <1>4
<1>6. dw + w <= SIZE * w
  <2> PICK e \in Nat : e = d + 1 /\ e <= SIZE
    BY WheelSizes
  <2>1. e * w <= SIZE * w
    BY WheelSizes, TimesMonotone
  <2> QED BY <2>1, <1>4
<1>7. w <= dw
  <2>1. d \in Nat
    BY WheelSizes
  <2> PICK o \in Nat : o = 1 /\ o <= d
    BY <2>1
  <2>2. o * w <= d * w
    BY <2>1, TimesMonotone
  <2> QED BY <2>2
<1>8. SIZE * w \in Nat
  BY WheelSizes
<1>9. m * w < now + SIZE * w
  BY <1>4, <1>6, <1>8
<1>10. now < m * w
  BY <1>4, <1>7
<1> QED BY <1>3, <1>5, <1>9, <1>10 DEF Awaits

(* A timer that _add_timer files has one place, at which it is on time. *)
LEMMA FiledPlace ==
  ASSUME Careful, NEW h, NEW s0, NEW s, ListTypes(s0, s), Holds(h, s0, s),
         current_tick \in Nat, NEW t \in Timers, t \notin DOMAIN h,
         NEW r \in Nat, r >= current_tick, r - current_tick < Span(Sets),
         r - current_tick < SIZE0 => current_tick % SIZE0 = 0,
         Filed(t, r, s0, s)
  PROVE  /\ ListTypes(set0', set')
         /\ \E p \in Places : /\ Holds(With(h, t, p), set0', set')
                              /\ \A at \in Int : Waits(r, p, current_tick, at)
<1> PICK now \in Nat : now = current_tick
  OBVIOUS
<1> PICK diff \in Nat : diff = r - now /\ r = now + diff
  OBVIOUS
<1>1. CASE diff < SIZE0
  <2>1. set0' = [s0 EXCEPT ![diff] = lst_push_back(@, t)] /\ set' = s
    BY <1>1, WheelSizes DEF Filed
  <2>2. diff \in 0 .. (SIZE0 - 1)
    BY <1>1, WheelSizes
  <2> PICK p : p = <<First, diff>>
    OBVIOUS
  <2>3. ListTypes(set0', set') /\ Holds(With(h, t, p), set0', set')
    BY <2>1, <2>2, FirstAdded
  <2>4. p \in Places /\ p[1] = First /\ p[2] = diff
    BY <2>2 DEF Places
  <2> PICK c \in Nat : c = now \div SIZE0 /\ now = c * SIZE0
    <3>1. now % SIZE0 = 0
      BY <1>1
    <3>2. now \div SIZE0 \in Nat /\ now = (now \div SIZE0) * SIZE0 + (now % SIZE0)
      BY WheelSizes, Division
    <3>3. (now \div SIZE0) * SIZE0 \in Nat
      BY <3>2, WheelSizes
    <3> QED BY <3>1, <3>2, <3>3
  <2>5. (c + 1) * SIZE0 = c * SIZE0 + SIZE0
    BY WheelSizes
  <2>6. c * SIZE0 <= now /\ r < (c + 1) * SIZE0 /\ p[2] = r - c * SIZE0
    <3> PICK b \in Nat : b = SIZE0
      BY WheelSizes
    <3>1. r < now + b
      BY <1>1
    <3> QED BY <2>4, <2>5, <3>1
  <2>7. \A at \in Int : Waits(r, p, current_tick, at)
    BY <2>4, <2>6 DEF Waits
  <2> QED BY <2>3, <2>4, <2>7
<1>2. CASE diff >= SIZE0
  <2> PICK i \in Levels : Span(i) <= diff /\ diff < Span(i + 1)
    BY <1>2, LevelExists
  <2> PICK x : x = (Index(i, diff) + Index(i, now)) % SIZE
    OBVIOUS
  <2>1. i \in Nat
    BY SizeAssumption DEF Levels
  <2>2. x \in 0 .. (SIZE - 1)
    <3>1. Span(i) \in Nat \ {0} /\ SIZE \in Nat \ {0}
      BY <2>1, WheelSizes
    <3>2. Index(i, diff) \in Nat /\ Index(i, now) \in Nat
      <4>1. diff \div Span(i) \in Nat /\ now \div Span(i) \in Nat
        BY <3>1, Division
      <4>2. \A n \in Nat : n % SIZE \in 0 .. (SIZE - 1)
        BY <3>1, Division
      <4> QED BY <3>1, <4>1, <4>2 DEF Index
    <3> QED BY <3>1, <3>2, Division
  <2>3. set0' = s0 /\ set' = [s EXCEPT ![i][x] = lst_push_back(@, t)]
    <3>1. LevelOf(diff) = i
      BY LevelIs
    <3>2. r - current_tick = diff /\ diff \notin 0 .. (SIZE0 - 1)
      BY <1>2, WheelSizes
    <3> QED BY <3>1, <3>2 DEF Filed
  <2> PICK p : p = <<i, x>>
    OBVIOUS
  <2>4. ListTypes(set0', set') /\ Holds(With(h, t, p), set0', set')
    BY <2>2, <2>3, LevelAdded
  <2>5. p \in Places /\ p[1] = i /\ p[2] = x
    BY <2>2 DEF Places
  <2>6. \A at \in Int : Waits(r, p, current_tick, at)
    <3> TAKE at \in Int
    <3>1. Awaits(r, i, x, now, at)
      BY AwaitsFiled
    <3>2. i # First
      BY <2>1 DEF First
    <3> QED BY <2>5, <3>1, <3>2 DEF Waits
  <2> QED BY <2>4, <2>5, <2>6
<1> QED BY <1>1, <1>2, WheelSizes

-------------------------------------------------------------------------------
(* The invariant, from the initial state on. *)

LEMMA InvFacts ==
  ASSUME Careful, WheelInv
  PROVE  /\ current_tick \in Nat /\ current_tick <= Horizon + 1 /\ ListTypes(set0, set)
         /\ DOMAIN due \subseteq Timers /\ \A t \in DOMAIN due : due[t] \in Nat
         /\ stage \in Int /\ stage >= -1 /\ stage <= Sets
         /\ None \notin Timers /\ Tail0 \notin Timers /\ None # Tail0
         /\ Slot0 \in 0 .. (SIZE0 - 1)
<1>1. current_tick \in Nat /\ current_tick <= Horizon + 1 /\ ListTypes(set0, set)
  BY CarefulFacts DEF WheelInv, TypeOK, ListTypes
<1>2. DOMAIN due \subseteq Timers /\ \A t \in DOMAIN due : due[t] \in Nat
  BY DEF WheelInv, TypeOK
<1>3. stage \in Int /\ stage >= -1 /\ stage <= Sets
  BY CarefulFacts DEF WheelInv, TypeOK
<1>4. None \notin Timers /\ Tail0 \notin Timers /\ None # Tail0
  BY SizeAssumption DEF None, Tail0
<1>5. Slot0 \in 0 .. (SIZE0 - 1)
  BY <1>1, WheelSizes, Division DEF Slot0
<1> QED BY <1>1, <1>2, <1>3, <1>4, <1>5

LEMMA InitWheel == ASSUME Careful, Init PROVE WheelInv
<1>1. TypeOK
  <2>1. 0 \in 0 .. (Horizon + 1) /\ -1 \in -1 .. Sets
    BY CarefulFacts
  <2>2. <<>> \in Seq(Timers)
    OBVIOUS
  <2>3. /\ set0 \in [0 .. (SIZE0 - 1) -> Seq(Timers)]
        /\ set \in [Levels -> [0 .. (SIZE - 1) -> Seq(Timers)]]
    BY <2>2 DEF Init, lst_new
  <2>4. /\ DOMAIN due = {} /\ due \in [DOMAIN due -> Nat]
        /\ DOMAIN delay = {} /\ delay \in [DOMAIN delay -> Delays]
    BY DEF Init
  <2> QED BY <2>1, <2>3, <2>4 DEF Init, TypeOK
<1>2. Placed
  <2> PICK h : h = [t \in {} |-> <<First, 0>>]
    OBVIOUS
  <2>1. h \in [DOMAIN due -> Places] /\ DOMAIN h = {} /\ DOMAIN due = {}
    BY DEF Init
  <2>2. \A p : At(h, p) = {}
    BY <2>1 DEF At
  <2>3. ListsOnce(<<>>, {})
    BY DEF ListsOnce
  <2>4. /\ \A x \in 0 .. (SIZE0 - 1) : set0[x] = <<>>
        /\ \A i \in Levels, x \in 0 .. (SIZE - 1) : set[i][x] = <<>>
    BY DEF Init, lst_new
  <2>5. Holds(h, set0, set)
    BY <2>2, <2>3, <2>4, HoldsAt
  <2> QED BY <2>1, <2>5 DEF Placed
<1>3. Repeats
  BY DEF Init, Repeats
<1>4. Walking
  BY CarefulFacts DEF Init, Walking
<1> QED BY <1>1, <1>2, <1>3, <1>4 DEF WheelInv

-------------------------------------------------------------------------------
(* Clients' calls. *)

(* A new timer of a careful client is filed in the first wheel only between *)
(* ticks, at the start of a turn.                                           *)
LEMMA AddInv ==
  ASSUME Careful, WheelInv, NEW t \in Timers, NEW d \in Delays, NEW o \in BOOLEAN,
         add_timer(t, d, o)
  PROVE  WheelInv'
<1>1. /\ Calling /\ t \notin DOMAIN due /\ OnTime(d, o)
      /\ due' = With(due, t, current_tick + d)
      /\ delay' = IF o THEN delay ELSE With(delay, t, d)
      /\ Filed(t, current_tick + d, set0, set)
      /\ UNCHANGED <<current_tick, stage, node, running>>
  BY DEF add_timer
<1>2. d \in Nat /\ d < Span(Sets) /\ Sets \in Nat /\ Sets >= 2
  BY CarefulFacts
<1> PICK r \in Nat : r = current_tick + d
  BY <1>2, InvFacts
<1>3. r >= current_tick /\ r - current_tick = d
  BY <1>2, InvFacts
<1>4. d < SIZE0 => stage = -1 /\ current_tick % SIZE0 = 0 /\ o
  BY <1>1, <1>2, WheelSizes DEF OnTime
<1>5. PICK h \in [DOMAIN due -> Places] :
        /\ Holds(h, set0, set)
        /\ \A u \in DOMAIN due : Waits(due[u], h[u], current_tick, stage)
  BY DEF WheelInv, Placed
<1>6. t \notin DOMAIN h
  BY <1>1
<1>7. /\ ListTypes(set0', set')
      /\ \E p \in Places : /\ Holds(With(h, t, p), set0', set')
                           /\ \A at \in Int : Waits(r, p, current_tick, at)
  BY <1>1, <1>2, <1>3, <1>4, <1>5, <1>6, InvFacts, FiledPlace
<1>8. PICK p \in Places : /\ Holds(With(h, t, p), set0', set')
                          /\ \A at \in Int : Waits(r, p, current_tick, at)
  BY <1>7
<1>9. due \in [DOMAIN due -> Nat] /\ DOMAIN due \subseteq Timers
      /\ DOMAIN delay \subseteq DOMAIN due /\ delay \in [DOMAIN delay -> Delays]
  BY DEF WheelInv, TypeOK
<1>10. /\ due' \in [DOMAIN due \cup {t} -> Nat] /\ due'[t] = r
       /\ \A u \in DOMAIN due : due'[u] = due[u]
  BY <1>1, <1>9 DEF With
<1>11. DOMAIN due' = DOMAIN due \cup {t}
  BY <1>10
<1>12. /\ DOMAIN delay' \subseteq DOMAIN due' /\ delay' \in [DOMAIN delay' -> Delays]
       /\ \A u \in DOMAIN delay' : delay'[u] >= SIZE0
  <2>1. CASE o
    BY <1>1, <1>9, <1>11, <2>1 DEF WheelInv, Repeats
  <2>2. CASE ~o
    <3>1. d >= SIZE0
      BY <1>2, <1>4, <2>2, WheelSizes
    <3>2. t \notin DOMAIN delay
      BY <1>1, <1>9
    <3>3. /\ delay' \in [DOMAIN delay \cup {t} -> Delays] /\ delay'[t] = d
          /\ \A u \in DOMAIN delay : delay'[u] = delay[u]
      BY <1>1, <1>9, <2>2, <3>2 DEF With
    <3>4. DOMAIN delay' = DOMAIN delay \cup {t}
      BY <3>3
    <3> QED BY <1>9, <1>11, <3>1, <3>3, <3>4 DEF WheelInv, Repeats
  <2> QED BY <2>1, <2>2
<1>13. TypeOK'
  <2>1. DOMAIN due' \subseteq Timers /\ due' \in [DOMAIN due' -> Nat]
    BY <1>9, <1>10, <1>11
  <2>2. running' \in DOMAIN due' \cup {None}
    BY <1>1, <1>11 DEF WheelInv, TypeOK
  <2> QED BY <1>1, <1>7, <1>12, <2>1, <2>2 DEF WheelInv, TypeOK, ListTypes
<1>14. Placed'
  <2> PICK k : k = With(h, t, p)
    OBVIOUS
  <2>1. /\ k \in [DOMAIN due' -> Places] /\ k[t] = p
        /\ \A u \in DOMAIN due : k[u] = h[u]
    BY <1>1, <1>11 DEF With
  <2>2. ASSUME NEW u \in DOMAIN due' PROVE Waits(due'[u], k[u], current_tick', stage')
    <3>1. CASE u = t
      BY <1>1, <1>8, <1>10, <2>1, <3>1, InvFacts
    <3>2. CASE u \in DOMAIN due
      BY <1>1, <1>5, <1>10, <2>1, <3>2
    <3> QED BY <1>11, <3>1, <3>2
  <2> QED BY <1>8, <2>1, <2>2 DEF Placed
<1>15. Walking'
  <2>1. CASE running = None
    <3>1. stage = -1 /\ stage # Sets
      BY <1>1, <1>2, <2>1 DEF Calling
    <3> QED BY <1>1, <3>1 DEF WheelInv, Walking
  <2>2. CASE running # None
    <3>1. stage = Sets /\ stage # -1
      BY <1>2, <2>2 DEF WheelInv, Walking
    <3>2. set0' = set0
      BY <1>1, <1>2, <1>3, <1>4, <3>1, WheelSizes DEF Filed
    <3>3. Slot0' = Slot0
      BY <1>1 DEF Slot0
    <3> QED BY <1>1, <3>2, <3>3 DEF WheelInv, Walking
  <2> QED BY <2>1, <2>2
<1> QED BY <1>12, <1>13, <1>14, <1>15 DEF WheelInv, Repeats

(* Taking a timer out, of the lists and of the records. *)
LEMMA DeletedInv ==
  ASSUME Careful, WheelInv, NEW t \in DOMAIN due, Deleted(t), UNCHANGED <<current_tick, stage>>
  PROVE  /\ ListTypes(set0', set') /\ DOMAIN due' = DOMAIN due \ {t}
         /\ due' \in [DOMAIN due' -> Nat]
         /\ DOMAIN delay' \subseteq DOMAIN due' /\ delay' \in [DOMAIN delay' -> Delays]
         /\ Placed' /\ Repeats'
<1>1. /\ due' = Without(due, t) /\ delay' = Without(delay, t)
      /\ set0' = Unlinked0(t) /\ set' = Unlinked(t)
  BY DEF Deleted
<1>2. due \in [DOMAIN due -> Nat] /\ DOMAIN due \subseteq Timers
      /\ DOMAIN delay \subseteq DOMAIN due /\ delay \in [DOMAIN delay -> Delays]
      /\ \A u \in DOMAIN delay : delay[u] >= SIZE0
  BY DEF WheelInv, TypeOK, Repeats
<1>3. PICK h \in [DOMAIN due -> Places] :
        /\ Holds(h, set0, set)
        /\ \A u \in DOMAIN due : Waits(due[u], h[u], current_tick, stage)
  BY DEF WheelInv, Placed
<1>4. /\ DOMAIN due' = DOMAIN due \ {t} /\ due' \in [DOMAIN due' -> Nat]
      /\ \A u \in DOMAIN due' : due'[u] = due[u]
  BY <1>1, <1>2 DEF Without
<1>5. /\ DOMAIN delay' = DOMAIN delay \ {t} /\ delay' \in [DOMAIN delay' -> Delays]
      /\ \A u \in DOMAIN delay' : delay'[u] = delay[u]
  BY <1>1, <1>2 DEF Without
<1>6. ListTypes(set0', set') /\ Holds(Without(h, t), set0', set')
  <2>1. t \in DOMAIN h /\ h[t] \in Places
    BY <1>3
  <2> QED BY <1>1, <1>3, <2>1, InvFacts, TimerUnlinked
<1>7. Placed'
  <2> PICK k : k = Without(h, t)
    OBVIOUS
  <2>1. k \in [DOMAIN due' -> Places] /\ \A u \in DOMAIN due' : k[u] = h[u]
    BY <1>4 DEF Without
  <2>2. \A u \in DOMAIN due' : Waits(due'[u], k[u], current_tick', stage')
    BY <1>3, <1>4, <2>1
  <2> QED BY <1>6, <2>1, <2>2 DEF Placed
<1>8. Repeats'
  BY <1>2, <1>5 DEF Repeats
<1> QED BY <1>2, <1>4, <1>5, <1>6, <1>7, <1>8

(* What follows the first two timers of a list may be taken out of it. *)
LEMMA FrontKept ==
  ASSUME NEW T, NEW P, NEW l \in Seq(P), ListsOnce(l, T), NEW t, l # <<>>,
         l[1] # t, Len(l) # 1 => l[2] # t
  PROVE  /\ lst_remove(l, t) # <<>> /\ lst_remove(l, t)[1] = l[1]
         /\ Len(lst_remove(l, t)) = 1 <=> Len(l) = 1
         /\ Len(l) # 1 => lst_remove(l, t)[2] = l[2]
<1>1. CASE t \notin T
  BY <1>1, RemoveAbsent
<1>2. CASE t \in T
  <2>1. PICK i \in 1 .. Len(l) : l[i] = t
    BY <1>2 DEF ListsOnce
  <2>2. \A j \in 1 .. Len(l) : l[j] = t => j = i
    BY <2>1 DEF ListsOnce
  <2>3. Len(l) \in Nat /\ i \in Nat /\ i >= 3 /\ Len(l) >= 3
    BY <2>1
  <2> PICK r : r = lst_remove(l, t)
    OBVIOUS
  <2>4. /\ r \in Seq(P) /\ Len(r) = Len(l) - 1
        /\ \A j \in 1 .. Len(l) - 1 : r[j] = IF j < i THEN l[j] ELSE l[j + 1]
    BY <2>1, <2>2, RemoveShifts
  <2> QED BY <2>3, <2>4
<1> QED BY <1>1, <1>2

(* The timers clients delete are not the two the loop of on_tick holds on   *)
(* to.                                                                      *)
LEMMA DelInv ==
  ASSUME Careful, WheelInv, NEW t \in Timers, del_timer(t)
  PROVE  WheelInv'
<1>1. /\ Calling /\ t \in DOMAIN due /\ t # node /\ t # running /\ Deleted(t)
      /\ UNCHANGED <<current_tick, stage, node, running>>
  BY DEF del_timer
<1>2. /\ ListTypes(set0', set') /\ DOMAIN due' = DOMAIN due \ {t}
      /\ due' \in [DOMAIN due' -> Nat]
      /\ DOMAIN delay' \subseteq DOMAIN due' /\ delay' \in [DOMAIN delay' -> Delays]
      /\ Placed' /\ Repeats'
  BY <1>1, DeletedInv
<1>3. TypeOK'
  <2>1. running' \in DOMAIN due' \cup {None} /\ DOMAIN due' \subseteq Timers
    BY <1>1, <1>2 DEF WheelInv, TypeOK
  <2> QED BY <1>1, <1>2, <2>1 DEF WheelInv, TypeOK, ListTypes
<1>4. Walking'
  <2>1. CASE running = None
    <3>1. stage = -1 /\ stage # Sets
      BY <1>1, <2>1, CarefulFacts DEF Calling
    <3> QED BY <1>1, <3>1 DEF WheelInv, Walking
  <2>2. CASE running # None
    <3>1. stage = Sets /\ stage # -1 /\ current_tick <= Horizon
      BY <2>2, CarefulFacts DEF WheelInv, Walking
    <3> PICK l : l = set0[Slot0]
      OBVIOUS
    <3>2. /\ l # <<>> /\ l[1] = running
          /\ node = IF Len(l) = 1 THEN Tail0 ELSE l[2]
      BY <2>2, <3>1 DEF WheelInv, Walking
    <3>3. PICK h : Holds(h, set0, set)
      BY DEF WheelInv, Placed
    <3>4. l \in Seq(Timers) /\ ListsOnce(l, At(h, <<First, Slot0>>))
      BY <3>3, HoldsAt, InvFacts DEF ListTypes
    <3>5. set0'[Slot0] = lst_remove(l, t)
      <4>1. Slot0 \in DOMAIN set0
        BY InvFacts DEF ListTypes
      <4> QED BY <1>1, <4>1 DEF Deleted, Unlinked0
    <3>6. l[1] # t /\ (Len(l) # 1 => l[2] # t)
      BY <1>1, <3>2
    <3>7. /\ set0'[Slot0] # <<>> /\ set0'[Slot0][1] = l[1]
          /\ Len(set0'[Slot0]) = 1 <=> Len(l) = 1
          /\ Len(l) # 1 => set0'[Slot0][2] = l[2]
      BY <3>2, <3>4, <3>5, <3>6, FrontKept
    <3>8. Slot0' = Slot0
      BY <1>1 DEF Slot0
    <3> QED BY <1>1, <2>2, <3>1, <3>2, <3>7, <3>8 DEF Walking
  <2> QED BY <2>1, <2>2
<1> QED BY <1>2, <1>3, <1>4 DEF WheelInv

-------------------------------------------------------------------------------
(* The cascades of on_tick. *)

LEMMA TickBeginInv == ASSUME Careful, WheelInv, TickBegin PROVE WheelInv'
<1>1. /\ stage = -1 /\ stage' = 0 /\ current_tick <= Horizon
      /\ UNCHANGED <<current_tick, set0, set, due, delay, node, running>>
  BY DEF TickBegin, wheel
<1>2. Sets \in Nat /\ Sets >= 2
  BY CarefulFacts
<1>3. TypeOK'
  <2>1. 0 \in -1 .. Sets
    BY <1>2
  <2> QED BY <1>1, <2>1 DEF WheelInv, TypeOK
<1>4. Placed'
  <2>1. \A r : \A p \in Places : Waits(r, p, current_tick, -1) => Waits(r, p, current_tick, 0)
    <3>1. \A p \in Places : p[1] = First \/ p[1] \in Nat
      BY CarefulFacts DEF Places, Levels
    <3> QED BY <3>1 DEF Waits, Awaits
  <2>2. UNCHANGED <<due, set0, set>>
    BY <1>1
  <2> QED BY <1>1, <2>1, <2>2 DEF WheelInv, Placed
<1>5. Walking'
  BY <1>1, <1>2 DEF WheelInv, Walking
<1> QED BY <1>1, <1>3, <1>4, <1>5 DEF WheelInv, Repeats

(* The wheels that cascade begin a turn at this tick, and are the first two *)
(* as far as the model's Horizon goes.                                      *)
LEMMA CascadesAt ==
  ASSUME Careful, NEW i \in Levels, NEW now \in Nat, now = current_tick, now <= Horizon, Cascades(i)
  PROVE  /\ i \in 0 .. 1 /\ now % SIZE0 = 0
         /\ \E c \in Nat : now = c * Span(i) /\ c = now \div Span(i)
<1>1. i \in Nat /\ Span(i) \in Nat \ {0} /\ Span(i + 1) \in Nat \ {0} /\ Span(2) \in Nat
  BY CarefulFacts, WheelSizes
<1>2. now % Span(i) = 0 /\ (i # 0 => now % Span(i + 1) # 0)
  BY DEF Cascades
<1> PICK c \in Nat : c = now \div Span(i) /\ now = c * Span(i)
  <2>1. now \div Span(i) \in Nat /\ now = (now \div Span(i)) * Span(i) + (now % Span(i))
    BY <1>1, Division
  <2>2. (now \div Span(i)) * Span(i) \in Nat
    BY <1>1, <2>1
  <2> QED BY <1>2, <2>1, <2>2
<1>3. i \in 0 .. 1
  <2> SUFFICES ASSUME i >= 2 PROVE FALSE
    BY <1>1
  <2>1. now < Span(2) /\ Span(2) <= Span(i) /\ Span(i) <= Span(i + 1)
    <3>1. now < Span(2)
      BY CarefulFacts
    <3>2. i > 2 => Span(2) < Span(i)
      BY <1>1, SpanGrows
    <3>3. Span(i) < Span(i + 1)
      BY <1>1, SpanGrows
    <3> QED BY <1>1, <3>1, <3>2, <3>3
  <2>2. now \in 0 .. (Span(i) - 1) /\ now \in 0 .. (Span(i + 1) - 1)
    BY <1>1, <2>1
  <2>3. now % Span(i) = now /\ now % Span(i + 1) = now
    BY <1>1, <2>2, RemainderSmall
  <2> QED BY <1>1, <1>2, <2>3
<1>4. now % SIZE0 = 0
  <2> PICK k \in Nat : Span(i) = k * SIZE0
    BY <1>1, SpanWhole
  <2> PICK b \in Nat \ {0} : b = SIZE0
    BY WheelSizes
  <2> PICK q \in Nat, z \in 0 .. (b - 1) : q = c * k /\ z = 0
    OBVIOUS
  <2>1. c * (k * b) = q * b + z
    OBVIOUS
  <2>2. (q * b + z) % b = z
    BY Remainder
  <2> QED BY <2>1, <2>2
<1> QED BY <1>3, <1>4

(* A timer in the list that the current tick comes to is due within two of  *)
(* its spans.                                                               *)
LEMMA CascadedSoon ==
  ASSUME NEW i \in Nat, NEW now \in Nat, NEW c \in Nat, now = c * Span(i), NEW r \in Nat,
         c = now \div Span(i), NEW at, Awaits(r, i, Index(i, now), now, at)
  PROVE  r < now + Span(i + 1)
<1> PICK w \in Nat \ {0} : w = Span(i) /\ Span(i + 1) = SIZE * w
  BY WheelSizes
<1> PICK b \in Nat \ {0} : b = SIZE /\ b >= 2
  BY WheelSizes
<1>1. PICK m \in Nat : /\ Index(i, now) = m % b
                       /\ r < (m + 2) * w
                       /\ m * w < now + Span(i + 1)
                       /\ now <= m * w
  <2>1. PICK m \in Nat \ {0} : /\ Index(i, now) = m % SIZE
                               /\ r < (m + 2) * Span(i)
                               /\ m * Span(i) < now + Span(i + 1)
                               /\ now < m * Span(i) \/ now = m * Span(i)
    BY DEF Awaits
  <2>2. m * w \in Nat /\ m * w = m * Span(i) /\ (m + 2) * w = (m + 2) * Span(i)
    OBVIOUS
  <2>3. now <= m * w
    BY <2>1, <2>2
  <2> QED BY <2>1, <2>2, <2>3
<1>2. c <= m
  <2>1. m < c => (m + 1) * w <= c * w
    BY TimesMonotone
  <2>2. (m + 1) * w = m * w + w
    OBVIOUS
  <2>3. m * w \in Nat
    OBVIOUS
  <2> QED BY <1>1, <2>1, <2>2, <2>3
<1>3. m < c + b
  <2>1. (c + b) * w = c * w + b * w
    OBVIOUS
  <2> PICK e \in Nat : e = c + b
    OBVIOUS
  <2>2. m * w < e * w
    BY <1>1, <2>1
  <2> QED BY <2>2, TimesStrict
<1>4. m % b = c % b
  BY <1>1 DEF Index
<1>5. m = c
  BY <1>2, <1>3, <1>4, RemainderApart
<1>6. (m + 2) * w = m * w + 2 * w
  OBVIOUS
<1>7. 2 * w <= b * w
  BY TimesMonotone
<1> QED BY <1>1, <1>5, <1>6, <1>7

LEMMA IndexIn ==
  ASSUME NEW i \in Nat, NEW now \in Nat
  PROVE  Index(i, now) \in 0 .. (SIZE - 1)
<1>1. now \div Span(i) \in Nat
  BY WheelSizes, Division
<1> QED BY <1>1, WheelSizes, Division DEF Index

(* A timer that changes place. *)
LEMMA PlaceChanged ==
  ASSUME NEW h \in [DOMAIN due -> Places], NEW t \in DOMAIN due, NEW p \in Places,
         NEW now, NEW at, \A u \in DOMAIN due : Waits(due[u], h[u], now, at),
         Waits(due[t], p, now, at), NEW s0, NEW s, Holds(With(Without(h, t), t, p), s0, s)
  PROVE  \E k \in [DOMAIN due -> Places] :
           Holds(k, s0, s) /\ \A u \in DOMAIN due : Waits(due[u], k[u], now, at)
<1> PICK k : k = With(Without(h, t), t, p)
  OBVIOUS
<1>1. /\ k \in [DOMAIN due -> Places] /\ k[t] = p
      /\ \A u \in DOMAIN due : u # t => k[u] = h[u]
  BY DEF With, Without
<1>2. ASSUME NEW u \in DOMAIN due PROVE Waits(due[u], k[u], now, at)
  <2>1. CASE u = t
    BY <1>1, <2>1
  <2>2. CASE u # t
    BY <1>1, <2>2
  <2> QED BY <2>1, <2>2
<1> QED BY <1>1, <1>2

LEMMA CascadeNodeInv == ASSUME Careful, WheelInv, CascadeNode PROVE WheelInv'
<1> PICK i : i = stage
  OBVIOUS
<1> PICK x : x = Index(i, current_tick)
  OBVIOUS
<1> PICK t : t = lst_first(set[i][x])
  OBVIOUS
<1> PICK s : s = [set EXCEPT ![i][x] = lst_pop_front(@)]
  OBVIOUS
<1>1. /\ i \in Levels /\ Cascades(i) /\ ~lst_empty(set[i][x]) /\ Filed(t, due[t], set0, s)
      /\ UNCHANGED <<current_tick, due, delay, stage, node, running>>
  BY DEF CascadeNode, CascadeList
<1>2. Levels \subseteq Nat /\ i # Sets /\ i # -1 /\ i + 1 \in Nat /\ i + 1 <= Sets /\ Sets \in Nat
  BY <1>1, CarefulFacts DEF Levels
<1>3. current_tick <= Horizon
  BY <1>2 DEF WheelInv, Walking
<1> PICK now \in Nat : now = current_tick
  BY InvFacts
<1>4. i \in 0 .. 1 /\ now % SIZE0 = 0
  BY <1>1, <1>3, CascadesAt
<1>5. PICK c \in Nat : now = c * Span(i) /\ c = now \div Span(i)
  BY <1>1, <1>3, CascadesAt
<1>6. x \in 0 .. (SIZE - 1)
  BY <1>1, <1>2, IndexIn
<1>7. PICK h \in [DOMAIN due -> Places] :
        /\ Holds(h, set0, set)
        /\ \A u \in DOMAIN due : Waits(due[u], h[u], current_tick, stage)
  BY DEF WheelInv, Placed
<1>8. /\ t \in DOMAIN h /\ h[t] = <<i, x>>
      /\ ListTypes(set0, s) /\ Holds(Without(h, t), set0, s)
  <2>1. ListTypes(set0, set) /\ Holds(h, set0, set) /\ i \in Levels /\ ~lst_empty(set[i][x])
    BY <1>1, <1>7, InvFacts
  <2>2. s = Popped(set, i, x)
    BY DEF Popped
  <2> PICK p : p = <<i, x>>
    OBVIOUS
  <2>3. ListTypes(set0, Popped(set, i, x)) /\ Holds(h, set0, set)
    BY <1>6, <2>1, LevelPopped
  <2>4. t \in DOMAIN h /\ Holds(Without(h, t), set0, Popped(set, i, x))
    BY <1>6, <2>1, LevelPopped
  <2>5. h[t] = p /\ Holds(Without(h, t), set0, Popped(set, i, x))
    BY <1>6, <2>1, LevelPopped
  <2> QED BY <2>2, <2>3, <2>4, <2>5
<1>9. t \in DOMAIN due /\ t \in Timers /\ due[t] \in Nat
  BY <1>7, <1>8, InvFacts
<1>10. due[t] >= now /\ Awaits(due[t], i, x, now, i)
  <2>1. Waits(due[t], h[t], now, i)
    BY <1>7, <1>9
  <2>2. h[t][1] = i /\ h[t][2] = x /\ i # First
    BY <1>4, <1>8 DEF First
  <2> QED BY <2>1, <2>2 DEF Waits
<1>11. due[t] < now + Span(i + 1)
  BY <1>2, <1>1, <1>5, <1>9, <1>10, CascadedSoon
<1>12. Span(i + 1) <= Span(Sets) /\ Span(i + 1) \in Nat /\ Span(Sets) \in Nat
  <2>1. i + 1 < Sets => Span(i + 1) < Span(Sets)
    BY <1>2, SpanGrows
  <2>2. Span(i + 1) \in Nat /\ Span(Sets) \in Nat
    BY <1>2, WheelSizes
  <2> QED BY <1>2, <2>1, <2>2
<1> PICK r \in Nat : r = due[t]
  BY <1>9
<1>13. r >= current_tick /\ r - current_tick < Span(Sets)
  BY <1>10, <1>11, <1>12
<1>14. t \notin DOMAIN Without(h, t)
  BY DEF Without
<1>15. /\ ListTypes(set0', set')
       /\ \E p \in Places : /\ Holds(With(Without(h, t), t, p), set0', set')
                            /\ \A at \in Int : Waits(r, p, current_tick, at)
  BY <1>1, <1>4, <1>8, <1>9, <1>13, <1>14, FiledPlace
<1>16. PICK p \in Places : /\ Holds(With(Without(h, t), t, p), set0', set')
                           /\ \A at \in Int : Waits(r, p, current_tick, at)
  BY <1>15
<1>17. TypeOK'
  BY <1>1, <1>15 DEF WheelInv, TypeOK, ListTypes
<1>18. Placed'
  <2>1. due \in [DOMAIN due -> Nat] /\ stage \in Int
    BY InvFacts DEF WheelInv, TypeOK
  <2>2. Waits(due[t], p, current_tick, stage)
    BY <1>16, <2>1
  <2>3. \E k \in [DOMAIN due -> Places] :
           Holds(k, set0', set') /\ \A u \in DOMAIN due : Waits(due[u], k[u], current_tick, stage)
    BY <1>7, <1>9, <1>16, <2>1, <2>2, PlaceChanged
  <2> QED BY <1>1, <2>3 DEF Placed
<1>19. Walking'
  BY <1>1, <1>2, <1>3 DEF WheelInv, Walking
<1> QED BY <1>1, <1>17, <1>18, <1>19 DEF WheelInv, Repeats

(* When the list that the current tick comes to is empty, or has been left  *)
(* out, nothing waits for it.                                               *)
LEMMA CascadeOver ==
  ASSUME Careful, NEW h \in [DOMAIN due -> Places], Holds(h, set0, set), NEW i \in Levels,
         Cascades(i) => lst_empty(set[i][Index(i, current_tick)]),
         current_tick \in Nat, current_tick <= Horizon,
         NEW t \in DOMAIN due, NEW r, Waits(r, h[t], current_tick, i)
  PROVE  Waits(r, h[t], current_tick, i + 1)
<1>1. Levels \subseteq Nat
  BY CarefulFacts
<1>2. h[t] \in Places
  OBVIOUS
<1>3. CASE h[t][1] = First
  BY <1>3 DEF Waits
<1>4. CASE h[t][1] # First
  <2> PICK j \in Levels, x \in 0 .. (SIZE - 1) : h[t] = <<j, x>>
    BY <1>2, <1>4 DEF Places, First
  <2> PICK now \in Nat : now = current_tick
    OBVIOUS
  <2>1. r >= now /\ Awaits(r, j, x, now, i) /\ h[t][1] = j /\ h[t][2] = x
    <3>1. h[t][1] = j /\ h[t][2] = x /\ j # First
      BY <1>4
    <3> QED BY <3>1 DEF Waits
  <2>2. PICK m \in Nat \ {0} :
              /\ x = m % SIZE
              /\ m * Span(j) <= r /\ r < (m + 2) * Span(j)
              /\ m * Span(j) < now + Span(j + 1)
              /\ now < m * Span(j) \/ (now = m * Span(j) /\ i <= j)
    BY <2>1 DEF Awaits
  <2> PICK w \in Nat \ {0} : w = Span(j)
    BY <1>1, WheelSizes
  <2>3. now = m * w => ~(i = j)
    <3> SUFFICES ASSUME now = m * w, i = j PROVE FALSE
      OBVIOUS
    <3>1. now \div w = m
      BY DivideExactly
    <3>2. Index(i, now) = x
      BY <2>2, <3>1 DEF Index
    <3>3. set[i][x] # <<>>
      <4>1. t \in At(h, <<i, x>>)
        BY DEF At
      <4>2. ListsOnce(set[i][x], At(h, <<i, x>>))
        BY HoldsAt
      <4>3. \E k \in 1 .. Len(set[i][x]) : set[i][x][k] = t
        BY <4>1, <4>2 DEF ListsOnce
      <4>4. Len(<<>>) = 0
        OBVIOUS
      <4> QED BY <4>3, <4>4
    <3>4. ~Cascades(i)
      BY <3>2, <3>3 DEF lst_empty
    <3>5. now % w = 0
      <4> PICK z \in 0 .. (w - 1) : z = 0
        OBVIOUS
      <4>1. (m * w + z) % w = z
        BY Remainder
      <4> QED BY <4>1
    <3>6. now > 0
      <4> PICK e \in Nat : e = 1 /\ e <= m
        OBVIOUS
      <4>1. e * w <= m * w
        BY TimesMonotone
      <4> QED BY <4>1
    <3>7. CASE i = 0
      BY <3>4, <3>5, <3>6, <3>7 DEF Cascades
    <3>8. CASE i # 0
      <4>1. i \in Nat /\ i + 1 \in Nat /\ i + 1 >= 2
        BY <1>1, <3>8
      <4> PICK v \in Nat \ {0} : v = Span(i + 1)
        BY <4>1, WheelSizes
      <4>2. now < v
        <5>1. Span(2) \in Nat /\ now < Span(2)
          BY CarefulFacts
        <5>2. 2 < i + 1 => Span(2) < Span(i + 1)
          BY <4>1, SpanGrows
        <5> QED BY <4>1, <5>1, <5>2
      <4>3. now % v = now
        BY <4>2, RemainderSmall
      <4> QED BY <3>4, <3>5, <3>6, <3>8, <4>3 DEF Cascades
    <3> QED BY <3>7, <3>8
  <2>4. now < m * Span(j) \/ (now = m * Span(j) /\ i + 1 <= j)
    BY <1>1, <2>2, <2>3
  <2>5. Awaits(r, j, x, now, i + 1)
    BY <2>2, <2>4 DEF Awaits
  <2> QED BY <2>1, <2>5 DEF Waits
<1> QED BY <1>3, <1>4

LEMMA CascadeNextInv == ASSUME Careful, WheelInv, CascadeNext PROVE WheelInv'
<1> PICK i : i = stage
  OBVIOUS
<1>1. /\ i \in Levels /\ stage' = i + 1
      /\ Cascades(i) => lst_empty(set[i][Index(i, current_tick)])
      /\ node' = IF stage' < Sets THEN None
                 ELSE IF lst_empty(set0[Slot0]) THEN Tail0 ELSE lst_first(set0[Slot0])
      /\ UNCHANGED <<current_tick, set0, set, due, delay, running>>
  BY DEF CascadeNext, CascadeList, wheel
<1>2. i \in Nat /\ i + 1 <= Sets /\ Sets \in Nat /\ i # Sets /\ i # -1
  BY <1>1, CarefulFacts DEF Levels
<1>3. current_tick <= Horizon /\ running = None
  BY <1>2 DEF WheelInv, Walking
<1>4. node' = IF stage' = Sets THEN (IF set0[Slot0] = <<>> THEN Tail0 ELSE set0[Slot0][1]) ELSE None
  BY <1>1, <1>2 DEF lst_empty, lst_first
<1>5. set0[Slot0] # <<>> => set0[Slot0][1] \in Timers
  <2>1. set0[Slot0] \in Seq(Timers)
    BY InvFacts DEF ListTypes
  <2> QED BY <2>1
<1>6. TypeOK'
  <2>1. stage' \in -1 .. Sets
    BY <1>1, <1>2
  <2>2. node' \in Timers \cup {Tail0, None}
    BY <1>4, <1>5
  <2> QED BY <1>1, <2>1, <2>2 DEF WheelInv, TypeOK
<1>7. Placed'
  <2>1. PICK h \in [DOMAIN due -> Places] :
        /\ Holds(h, set0, set)
        /\ \A u \in DOMAIN due : Waits(due[u], h[u], current_tick, stage)
    BY DEF WheelInv, Placed
  <2>2. \A u \in DOMAIN due : Waits(due[u], h[u], current_tick, i + 1)
    BY <1>1, <1>3, <2>1, InvFacts, CascadeOver
  <2> QED BY <1>1, <2>1, <2>2 DEF Placed
<1>8. Walking'
  <2>1. Slot0' = Slot0
    BY <1>1 DEF Slot0
  <2> QED BY <1>1, <1>2, <1>3, <1>4, <2>1 DEF Walking
<1> QED BY <1>1, <1>6, <1>7, <1>8 DEF WheelInv, Repeats

-------------------------------------------------------------------------------
(* The loop of on_tick and the callbacks. *)

(* The list run at this tick, with what the loop knows of it. *)
LEMMA RunList ==
  ASSUME Careful, WheelInv, stage = Sets
  PROVE  \E h \in [DOMAIN due -> Places], l \in Seq(Timers) :
           /\ l = set0[Slot0] /\ ListsOnce(l, At(h, <<First, Slot0>>))
           /\ Holds(h, set0, set)
           /\ \A u \in DOMAIN due : Waits(due[u], h[u], current_tick, stage)
           /\ running = None => node = IF l = <<>> THEN Tail0 ELSE l[1]
           /\ running # None => /\ l # <<>> /\ l[1] = running
                                /\ node = IF Len(l) = 1 THEN Tail0 ELSE l[2]
<1>1. PICK h \in [DOMAIN due -> Places] :
        /\ Holds(h, set0, set)
        /\ \A u \in DOMAIN due : Waits(due[u], h[u], current_tick, stage)
  BY DEF WheelInv, Placed
<1>2. set0[Slot0] \in Seq(Timers) /\ ListsOnce(set0[Slot0], At(h, <<First, Slot0>>))
  BY <1>1, HoldsAt, InvFacts DEF ListTypes
<1> QED BY <1>1, <1>2 DEF WheelInv, Walking

LEMMA RunCallInv == ASSUME Careful, WheelInv, RunCall PROVE WheelInv'
<1>1. /\ stage = Sets /\ running = None /\ node # Tail0
      /\ running' = node /\ node' = After(node, set0[Slot0])
      /\ UNCHANGED <<current_tick, set0, set, due, delay, stage>>
  BY DEF RunCall, wheel
<1>2. PICK h \in [DOMAIN due -> Places], l \in Seq(Timers) :
           /\ l = set0[Slot0] /\ ListsOnce(l, At(h, <<First, Slot0>>))
           /\ running = None => node = IF l = <<>> THEN Tail0 ELSE l[1]
  BY <1>1, RunList
<1>3. l # <<>> /\ node = l[1] /\ Len(l) \in Nat \ {0}
  BY <1>1, <1>2
<1>4. node \in DOMAIN due
  BY <1>2, <1>3 DEF ListsOnce, At
<1>5. node' = IF Len(l) = 1 THEN Tail0 ELSE l[2]
  <2>1. 1 \in 1 .. Len(l) /\ l[1] = node
    BY <1>3
  <2>2. \A k \in 1 .. Len(l) : l[k] = node => k = 1
    BY <1>2, <2>1 DEF ListsOnce
  <2> DEFINE c == CHOOSE k \in 1 .. Len(l) : l[k] = node
  <2>3. c = 1
    BY <2>1, <2>2
  <2>4. After(node, l) = IF c = Len(l) THEN Tail0 ELSE l[c + 1]
    BY DEF After
  <2> HIDE DEF c
  <2>5. 1 + 1 = 2 /\ (1 = Len(l) <=> Len(l) = 1)
    OBVIOUS
  <2>6. node' = After(node, l)
    BY <1>1, <1>2
  <2> QED BY <2>3, <2>4, <2>5, <2>6
<1>6. Len(l) # 1 => l[2] \in Timers
  <2> PICK n \in Nat : n = Len(l) /\ n # 0
    BY <1>3
  <2>1. n # 1 => 2 \in 1 .. n
    OBVIOUS
  <2> QED BY <2>1
<1>7. node # None
  BY <1>4, InvFacts
<1>8. TypeOK'
  <2>1. node' \in Timers \cup {Tail0, None}
    BY <1>5, <1>6
  <2> QED BY <1>1, <1>4, <2>1 DEF WheelInv, TypeOK
<1>9. Placed'
  BY <1>1 DEF WheelInv, Placed
<1>10. Walking'
  <2>1. Slot0' = Slot0
    BY <1>1 DEF Slot0
  <2>2. stage # -1 /\ current_tick <= Horizon
    BY <1>1, CarefulFacts DEF WheelInv, Walking
  <2> QED BY <1>1, <1>2, <1>3, <1>5, <1>7, <2>1, <2>2 DEF Walking
<1> QED BY <1>1, <1>8, <1>9, <1>10 DEF WheelInv, Repeats

(* When the first timer is taken out of a list, the second is the first. *)
LEMMA FrontRemoved ==
  ASSUME NEW T, NEW P, NEW l \in Seq(P), ListsOnce(l, T), l # <<>>, NEW t, t = l[1]
  PROVE  (IF lst_remove(l, t) = <<>> THEN Tail0 ELSE lst_remove(l, t)[1])
           = IF Len(l) = 1 THEN Tail0 ELSE l[2]
<1>1. Len(l) \in Nat \ {0} /\ 1 \in 1 .. Len(l)
  OBVIOUS
<1>2. \A j \in 1 .. Len(l) : l[j] = t => j = 1
  BY <1>1 DEF ListsOnce
<1> PICK r : r = lst_remove(l, t)
  OBVIOUS
<1> PICK i \in 1 .. Len(l) : i = 1
  BY <1>1
<1>3. /\ r \in Seq(P) /\ Len(r) = Len(l) - 1
      /\ \A j \in 1 .. Len(l) - 1 : r[j] = IF j < i THEN l[j] ELSE l[j + 1]
  BY <1>2, RemoveShifts
<1>4. CASE Len(l) = 1
  <2>1. r = <<>>
    BY <1>3, <1>4
  <2> QED BY <1>4, <2>1
<1>5. CASE Len(l) # 1
  <2> PICK n \in Nat : n = Len(l) /\ n # 0 /\ n # 1
    BY <1>1, <1>5
  <2>1. 1 \in 1 .. n - 1 /\ ~(1 < i) /\ 1 + 1 = 2 /\ n - 1 # 0
    OBVIOUS
  <2>2. r[1] = l[2]
    BY <1>3, <2>1
  <2>3. r # <<>>
    <3>1. Len(r) # 0
      BY <1>3, <2>1
    <3> QED BY <3>1
  <2> QED BY <1>5, <2>2, <2>3
<1> QED BY <1>4, <1>5

LEMMA RunReturnInv == ASSUME Careful, WheelInv, RunReturn PROVE WheelInv'
<1> PICK t : t = running
  OBVIOUS
<1>1. running # None /\ running' = None /\ UNCHANGED <<current_tick, stage, node>>
  BY DEF RunReturn
<1>2. t \in DOMAIN due /\ t \in Timers
  BY <1>1, InvFacts DEF WheelInv, TypeOK
<1>3. stage = Sets /\ stage # -1 /\ current_tick <= Horizon
  BY <1>1, CarefulFacts DEF WheelInv, Walking
<1>4. PICK h \in [DOMAIN due -> Places], l \in Seq(Timers) :
           /\ l = set0[Slot0] /\ ListsOnce(l, At(h, <<First, Slot0>>))
           /\ Holds(h, set0, set)
           /\ \A u \in DOMAIN due : Waits(due[u], h[u], current_tick, stage)
           /\ running # None => /\ l # <<>> /\ l[1] = running
                                /\ node = IF Len(l) = 1 THEN Tail0 ELSE l[2]
  BY <1>3, RunList
<1>5. Unlinked0(t)[Slot0] = lst_remove(l, t)
  <2>1. Slot0 \in DOMAIN set0
    BY InvFacts DEF ListTypes
  <2> QED BY <1>4, <2>1 DEF Unlinked0
<1>6. set0' = Unlinked0(t) => Walking'
  <2>1. Slot0' = Slot0
    BY <1>1 DEF Slot0
  <2>2. l # <<>> /\ t = l[1]
    BY <1>1, <1>4
  <2>3. node = IF lst_remove(l, t) = <<>> THEN Tail0 ELSE lst_remove(l, t)[1]
    BY <1>1, <1>4, <2>2, FrontRemoved
  <2> QED BY <1>1, <1>3, <1>5, <2>1, <2>3 DEF Walking
<1>7. CASE Deleted(t)
  <2>1. /\ ListTypes(set0', set') /\ DOMAIN due' = DOMAIN due \ {t}
        /\ due' \in [DOMAIN due' -> Nat]
        /\ DOMAIN delay' \subseteq DOMAIN due' /\ delay' \in [DOMAIN delay' -> Delays]
        /\ Placed' /\ Repeats'
    BY <1>1, <1>2, <1>7, DeletedInv
  <2>2. DOMAIN due' \subseteq Timers /\ running' \in DOMAIN due' \cup {None}
    BY <1>1, <2>1 DEF WheelInv, TypeOK
  <2>3. TypeOK'
    BY <1>1, <2>1, <2>2 DEF WheelInv, TypeOK, ListTypes
  <2> QED BY <1>6, <1>7, <2>1, <2>3 DEF WheelInv, Deleted
<1>8. CASE ~Deleted(t)
  <2>1. /\ t \in DOMAIN delay /\ UNCHANGED delay
        /\ due' = [due EXCEPT ![t] = current_tick + delay[t]]
        /\ Filed(t, current_tick + delay[t], Unlinked0(t), Unlinked(t))
    BY <1>8 DEF RunReturn
  <2> PICK d \in Nat : d = delay[t] /\ d >= SIZE0 /\ d < Span(Sets)
    <3>1. delay[t] \in Delays /\ delay[t] >= SIZE0
      BY <2>1 DEF WheelInv, TypeOK, Repeats
    <3> QED BY <3>1, CarefulFacts
  <2> PICK r \in Nat : r = current_tick + d
    BY InvFacts
  <2>2. r >= current_tick /\ r - current_tick = d
    BY InvFacts
  <2>3. set0' = Unlinked0(t)
    BY <2>1, <2>2, WheelSizes DEF Filed
  <2>4. due' \in [DOMAIN due -> Nat] /\ due'[t] = r
        /\ \A u \in DOMAIN due : u # t => due'[u] = due[u]
    BY <2>1 DEF WheelInv, TypeOK
  <2>5. ListTypes(Unlinked0(t), Unlinked(t)) /\ Holds(Without(h, t), Unlinked0(t), Unlinked(t))
    <3>1. t \in DOMAIN h /\ h[t] \in Places
      BY <1>2
    <3> QED BY <1>4, <3>1, InvFacts, TimerUnlinked
  <2>6. t \notin DOMAIN Without(h, t)
    BY DEF Without
  <2>7. /\ ListTypes(set0', set')
        /\ \E p \in Places : /\ Holds(With(Without(h, t), t, p), set0', set')
                             /\ \A at \in Int : Waits(r, p, current_tick, at)
    <3>1. ~(r - current_tick < SIZE0) /\ r - current_tick < Span(Sets)
      <4> PICK b \in Nat : b = SIZE0
        BY WheelSizes
      <4> QED BY <2>2
    <3> QED BY <1>2, <2>1, <2>2, <2>5, <2>6, <3>1, InvFacts, FiledPlace
  <2>8. PICK p \in Places : /\ Holds(With(Without(h, t), t, p), set0', set')
                            /\ \A at \in Int : Waits(r, p, current_tick, at)
    BY <2>7
  <2>9. DOMAIN due' = DOMAIN due
    BY <2>4
  <2>10. TypeOK'
    BY <1>1, <2>1, <2>4, <2>7, <2>9 DEF WheelInv, TypeOK, ListTypes
  <2>11. Placed'
    <3>1. Waits(due'[t], p, current_tick, stage)
      BY <2>4, <2>8, InvFacts
    <3>2. \E k \in [DOMAIN due -> Places] :
           Holds(k, set0', set') /\ \A u \in DOMAIN due : Waits(due'[u], k[u], current_tick, stage)
      <4> PICK k : k = With(Without(h, t), t, p)
        OBVIOUS
      <4>1. /\ k \in [DOMAIN due -> Places] /\ k[t] = p
            /\ \A u \in DOMAIN due : u # t => k[u] = h[u]
        BY <1>2 DEF With, Without
      <4>2. \A u \in DOMAIN due : Waits(due'[u], k[u], current_tick, stage)
        BY <1>4, <2>4, <3>1, <4>1
      <4> QED BY <2>8, <4>1, <4>2
    <3> QED BY <1>1, <2>9, <3>2 DEF Placed
  <2> QED BY <1>6, <2>1, <2>3, <2>10, <2>11 DEF WheelInv, Repeats
<1> QED BY <1>7, <1>8

(* The slot of a timer in the first wheel is that of its tick. *)
LEMMA SlotOf ==
  ASSUME NEW r \in Nat, NEW now \in Nat, NEW p,
         \E c \in Nat : c * SIZE0 <= now /\ r < (c + 1) * SIZE0 /\ p[2] = r - c * SIZE0,
         now <= r
  PROVE  p[2] = r % SIZE0 /\ p[2] \in 0 .. (SIZE0 - 1) /\ r < now + SIZE0
<1> PICK c \in Nat : c * SIZE0 <= now /\ r < (c + 1) * SIZE0 /\ p[2] = r - c * SIZE0
  OBVIOUS
<1> PICK b \in Nat \ {0} : b = SIZE0
  BY WheelSizes
<1>1. (c + 1) * b = c * b + b /\ c * b \in Nat
  OBVIOUS
<1> PICK y \in 0 .. (b - 1) : y = r - c * b /\ r = c * b + y
  BY <1>1
<1>2. (c * b + y) % b = y
  BY Remainder
<1> QED BY <1>1, <1>2

(* When the list run at a tick is empty no timer is due at the tick. *)
LEMMA TickOver ==
  ASSUME Careful, WheelInv, stage = Sets, running = None, node = Tail0,
         NEW h \in [DOMAIN due -> Places], Holds(h, set0, set), NEW u \in DOMAIN due,
         Waits(due[u], h[u], current_tick, Sets)
  PROVE  due[u] > current_tick /\ Waits(due[u], h[u], current_tick + 1, -1)
<1> PICK now \in Nat, r \in Nat : now = current_tick /\ r = due[u]
  BY InvFacts
<1>1. now <= Horizon /\ Sets \in Nat /\ Sets >= 2 /\ Horizon \in Nat /\ Horizon < Span(2) /\ Span(2) \in Nat
  BY CarefulFacts DEF WheelInv, Walking
<1>2. set0[Slot0] = <<>>
  <2>1. node = IF set0[Slot0] = <<>> THEN Tail0 ELSE set0[Slot0][1]
    BY DEF WheelInv, Walking
  <2>2. set0[Slot0] \in Seq(Timers)
    BY InvFacts DEF ListTypes
  <2>3. set0[Slot0] # <<>> => set0[Slot0][1] \in Timers
    BY <2>2
  <2> QED BY <2>1, <2>3, InvFacts
<1>3. h[u] # <<First, Slot0>>
  <2>1. ListsOnce(set0[Slot0], At(h, <<First, Slot0>>))
    BY HoldsAt, InvFacts
  <2>2. Len(<<>>) = 0
    OBVIOUS
  <2>3. At(h, <<First, Slot0>>) = {}
    BY <1>2, <2>1, <2>2 DEF ListsOnce
  <2> QED BY <2>3 DEF At
<1>4. r >= now
  BY DEF Waits
<1>5. CASE h[u][1] = First /\ \E c \in Nat : /\ c * SIZE0 <= now /\ r < (c + 1) * SIZE0
                                             /\ h[u][2] = r - c * SIZE0
  <2>1. h[u][2] = r % SIZE0
    BY <1>4, <1>5, SlotOf
  <2>2. r # now
    <3> SUFFICES ASSUME r = now PROVE FALSE
      OBVIOUS
    <3>1. h[u][2] = Slot0
      BY <2>1 DEF Slot0
    <3>2. h[u] = <<h[u][1], h[u][2]>>
      BY DEF Places
    <3> QED BY <1>3, <1>5, <3>1, <3>2
  <2>3. PICK c \in Nat : c * SIZE0 <= now /\ r < (c + 1) * SIZE0 /\ h[u][2] = r - c * SIZE0
    BY <1>5
  <2>4. c * SIZE0 \in Nat
    BY WheelSizes
  <2>5. c * SIZE0 <= now + 1 /\ r >= now + 1
    BY <1>4, <2>2, <2>3, <2>4
  <2> QED BY <1>5, <2>3, <2>5 DEF Waits
<1>6. CASE h[u][1] # First /\ Awaits(r, h[u][1], h[u][2], now, Sets)
  <2> PICK i \in Nat : i = h[u][1] /\ i < Sets
    BY <1>6, CarefulFacts DEF Places, Levels, First
  <2> PICK v \in Nat : v = Span(i + 1)
    BY WheelSizes
  <2>1. PICK m \in Nat \ {0} :
          /\ h[u][2] = m % SIZE
          /\ m * Span(i) <= r /\ r < (m + 2) * Span(i)
          /\ m * Span(i) < now + Span(i + 1)
          /\ now < m * Span(i) \/ (now = m * Span(i) /\ Sets <= i)
    BY <1>6 DEF Awaits
  <2> PICK mw \in Nat : mw = m * Span(i)
    BY WheelSizes
  <2>2. now < mw /\ mw <= r /\ mw < now + v
    BY <1>1, <2>1
  <2>3. r >= now + 1 /\ mw < (now + 1) + v /\ (now + 1 < mw \/ (now + 1 = mw /\ -1 <= i))
    BY <2>2
  <2>4. Awaits(r, i, h[u][2], now + 1, -1)
    BY <2>1, <2>3 DEF Awaits
  <2> QED BY <1>6, <2>3, <2>4 DEF Waits
<1> QED BY <1>5, <1>6 DEF Waits

LEMMA TickEndInv == ASSUME Careful, WheelInv, TickEnd PROVE WheelInv'
<1>1. /\ stage = Sets /\ running = None /\ node = Tail0
      /\ current_tick' = current_tick + 1 /\ stage' = -1 /\ node' = None
      /\ UNCHANGED <<set0, set, due, delay, running>>
  BY DEF TickEnd, wheel
<1>2. Sets \in Nat /\ Sets >= 2 /\ current_tick <= Horizon /\ Horizon \in Nat
  BY <1>1, CarefulFacts DEF WheelInv, Walking
<1>3. TypeOK'
  <2>1. current_tick' \in 0 .. (Horizon + 1) /\ stage' \in -1 .. Sets
    BY <1>1, <1>2, InvFacts
  <2> QED BY <1>1, <2>1 DEF WheelInv, TypeOK
<1>4. Placed'
  <2>1. PICK h \in [DOMAIN due -> Places] :
        /\ Holds(h, set0, set)
        /\ \A u \in DOMAIN due : Waits(due[u], h[u], current_tick, Sets)
    BY <1>1 DEF WheelInv, Placed
  <2>2. \A u \in DOMAIN due : Waits(due[u], h[u], current_tick + 1, -1)
    BY <1>1, <2>1, TickOver
  <2> QED BY <1>1, <2>1, <2>2 DEF Placed
<1>5. Walking'
  BY <1>1, <1>2 DEF Walking
<1> QED BY <1>1, <1>3, <1>4, <1>5 DEF WheelInv, Repeats

-------------------------------------------------------------------------------
(* The invariant holds, on_tick calling no client that is not careful. *)
THEOREM WheelInvariant == ASSUME Careful PROVE Spec => []WheelInv
<1>1. Init => WheelInv
  BY InitWheel
<1>2. WheelInv /\ [Next]_vars => WheelInv'
  <2> SUFFICES ASSUME WheelInv, [Next]_vars PROVE WheelInv'
    OBVIOUS
  <2>1. ASSUME NEW t \in Timers, NEW d \in Delays, NEW o \in BOOLEAN, add_timer(t, d, o)
        PROVE  WheelInv'
    BY <2>1, AddInv
  <2>2. ASSUME NEW t \in Timers, del_timer(t) PROVE WheelInv'
    BY <2>2, DelInv
  <2>3. CASE TickBegin
    BY <2>3, TickBeginInv
  <2>4. CASE CascadeNode
    BY <2>4, CascadeNodeInv
  <2>5. CASE CascadeNext
    BY <2>5, CascadeNextInv
  <2>6. CASE RunCall
    BY <2>6, RunCallInv
  <2>7. CASE RunReturn
    BY <2>7, RunReturnInv
  <2>8. CASE TickEnd
    BY <2>8, TickEndInv
  <2>9. CASE UNCHANGED vars
    BY <2>9 DEF vars, wheel, WheelInv, TypeOK, Placed, Repeats, Walking, Slot0
  <2> QED BY <2>1, <2>2, <2>3, <2>4, <2>5, <2>6, <2>7, <2>8, <2>9 DEF Next
<1> QED BY <1>1, <1>2, PTL DEF Spec

-------------------------------------------------------------------------------
(* What follows from the invariant. *)

(* The lists a timer is in are its place. *)
LEMMA InLists ==
  ASSUME NEW h, ListTypes(set0, set), Holds(h, set0, set), NEW t
  PROVE  /\ \A s : s \in In0(t) <=> /\ s \in 0 .. (SIZE0 - 1)
                                    /\ t \in DOMAIN h /\ h[t] = <<First, s>>
         /\ \A p : p \in InSet(t) <=> /\ p \in Levels \X (0 .. (SIZE - 1))
                                      /\ t \in DOMAIN h /\ h[t] = p
<1>1. ASSUME NEW l, NEW q, ListsOnce(l, At(h, q))
      PROVE  (\E k \in 1 .. Len(l) : l[k] = t) <=> (t \in DOMAIN h /\ h[t] = q)
  BY <1>1 DEF ListsOnce, At
<1>2. ASSUME NEW s
      PROVE  s \in In0(t) <=> s \in 0 .. (SIZE0 - 1) /\ t \in DOMAIN h /\ h[t] = <<First, s>>
  <2>1. DOMAIN set0 = 0 .. (SIZE0 - 1)
    BY DEF ListTypes
  <2>2. s \in 0 .. (SIZE0 - 1) => ListsOnce(set0[s], At(h, <<First, s>>))
    BY HoldsAt
  <2>3. s \in In0(t) <=> s \in 0 .. (SIZE0 - 1) /\ \E k \in 1 .. Len(set0[s]) : set0[s][k] = t
    BY <2>1 DEF In0
  <2> QED BY <1>1, <2>2, <2>3
<1>3. ASSUME NEW p
      PROVE  p \in InSet(t) <=> p \in Levels \X (0 .. (SIZE - 1)) /\ t \in DOMAIN h /\ h[t] = p
  <2>1. CASE p \in Levels \X (0 .. (SIZE - 1))
    <3> PICK i \in Levels, x \in 0 .. (SIZE - 1) : p = <<i, x>>
      BY <2>1
    <3>1. ListsOnce(set[i][x], At(h, p))
      BY HoldsAt
    <3>2. p[1] = i /\ p[2] = x
      OBVIOUS
    <3>3. p \in InSet(t) <=> \E k \in 1 .. Len(set[i][x]) : set[i][x][k] = t
      BY <2>1, <3>2 DEF InSet
    <3> QED BY <1>1, <2>1, <3>1, <3>3
  <2>2. CASE p \notin Levels \X (0 .. (SIZE - 1))
    BY <2>2 DEF InSet
  <2> QED BY <2>1, <2>2
<1> QED BY <1>2, <1>3

(* Two ticks with no turn's end between them are of the same turn. *)
LEMMA SameTurn ==
  ASSUME NEW r \in Nat, NEW now \in Nat, now <= r,
         \E c \in Nat : c * SIZE0 <= now /\ r < (c + 1) * SIZE0
  PROVE  r \div SIZE0 = now \div SIZE0
<1> PICK c \in Nat, b \in Nat \ {0} : b = SIZE0 /\ c * b <= now /\ r < (c + 1) * b
  BY WheelSizes
<1>1. ASSUME NEW x \in Nat, c * b <= x, x < (c + 1) * b PROVE x \div b = c
  <2> PICK y \in 0 .. (b - 1) : x = c * b + y
    <3> PICK e \in Nat : e = c * b
      OBVIOUS
    <3>1. (c + 1) * b = e + b
      OBVIOUS
    <3>2. x - e \in 0 .. (b - 1) /\ x = e + (x - e)
      BY <1>1, <3>1
    <3> QED BY <3>2
  <2> QED BY Remainder
<1>2. /\ c * b <= r /\ now < (c + 1) * b
  <2> PICK e \in Nat, f \in Nat : e = c * b /\ f = (c + 1) * b
    OBVIOUS
  <2> QED OBVIOUS
<1>3. r \div b = c /\ now \div b = c
  BY <1>1, <1>2
<1> QED BY <1>3

(* The turn that a timer awaits begins at the latest at its tick. *)
LEMMA AwaitsAhead ==
  ASSUME NEW r \in Nat, NEW i \in Nat, NEW x, Awaits(r, i, x, current_tick, stage)
  PROVE  StillAhead(r, i, x)
<1> PICK w \in Nat \ {0} : w = Span(i)
  BY WheelSizes
<1>1. PICK m \in Nat \ {0} :
        /\ x = m % SIZE
        /\ m * w <= r /\ r < (m + 2) * w
        /\ m * w < current_tick + Span(i + 1)
        /\ current_tick < m * w \/ (current_tick = m * w /\ stage <= i)
  BY DEF Awaits
<1>2. (m + 2) * w = m * w + 2 * w
  OBVIOUS
<1>3. m \in 1 .. (r \div w)
  <2> PICK q \in Nat : q = r \div w /\ r < (q + 1) * w
    BY Quotient
  <2>1. m * w < (q + 1) * w
    <3> PICK e \in Nat, f \in Nat : e = m * w /\ f = (q + 1) * w
      OBVIOUS
    <3> QED BY <1>1
  <2>2. m < q + 1
    BY <2>1, TimesStrict
  <2> QED BY <2>2
<1> QED BY <1>1, <1>2, <1>3 DEF StillAhead

LEMMA InvExact == ASSUME Careful, WheelInv PROVE WheelExact
<1>1. PICK h \in [DOMAIN due -> Places] :
        /\ Holds(h, set0, set)
        /\ \A u \in DOMAIN due : Waits(due[u], h[u], current_tick, stage)
  BY DEF WheelInv, Placed
<1>2. \A t : /\ \A s : s \in In0(t) <=> /\ s \in 0 .. (SIZE0 - 1)
                                        /\ t \in DOMAIN due /\ h[t] = <<First, s>>
             /\ \A p : p \in InSet(t) <=> /\ p \in Levels \X (0 .. (SIZE - 1))
                                          /\ t \in DOMAIN due /\ h[t] = p
  BY <1>1, InvFacts, InLists
<1>3. Cardinality({}) = 0 /\ \A x : Cardinality({x}) = 1
  BY FS_EmptySet, FS_Singleton
<1>4. ASSUME NEW t \in Timers
      PROVE  Cardinality(In0(t)) + Cardinality(InSet(t)) = IF t \in DOMAIN due THEN 1 ELSE 0
  <2>1. CASE t \notin DOMAIN due
    <3>1. In0(t) = {} /\ InSet(t) = {}
      BY <1>2, <2>1
    <3> QED BY <1>3, <2>1, <3>1
  <2>2. CASE t \in DOMAIN due /\ h[t] \in {First} \X (0 .. (SIZE0 - 1))
    <3> PICK x \in 0 .. (SIZE0 - 1) : h[t] = <<First, x>>
      BY <2>2
    <3>1. In0(t) = {x}
      BY <1>2, <2>2
    <3>2. InSet(t) = {}
      <4>1. h[t] \notin Levels \X (0 .. (SIZE - 1))
        BY PlacesApart
      <4> QED BY <1>2, <4>1
    <3>3. Cardinality(In0(t)) = 1 /\ Cardinality(InSet(t)) = 0
      BY <1>3, <3>1, <3>2
    <3> QED BY <2>2, <3>3
  <2>3. CASE t \in DOMAIN due /\ h[t] \in Levels \X (0 .. (SIZE - 1))
    <3>1. InSet(t) = {h[t]}
      BY <1>2, <2>3
    <3>2. In0(t) = {}
      <4>1. \A x : h[t] # <<First, x>>
        BY <2>3, PlacesApart
      <4> QED BY <1>2, <4>1
    <3>3. Cardinality(InSet(t)) = 1 /\ Cardinality(In0(t)) = 0
      BY <1>3, <3>1, <3>2
    <3> QED BY <2>3, <3>3
  <2> QED BY <1>1, <2>1, <2>2, <2>3 DEF Places
<1>5. /\ \A x \in DOMAIN set0 : IsInjective(set0[x])
      /\ \A i \in Levels : \A x \in DOMAIN set[i] : IsInjective(set[i][x])
  <2>1. \A l, T : ListsOnce(l, T) /\ l \in Seq(Timers) => IsInjective(l)
    BY DEF ListsOnce, IsInjective
  <2>2. /\ DOMAIN set0 = 0 .. (SIZE0 - 1)
        /\ \A x \in DOMAIN set0 : set0[x] \in Seq(Timers)
        /\ \A i \in Levels : DOMAIN set[i] = 0 .. (SIZE - 1)
        /\ \A i \in Levels : \A x \in DOMAIN set[i] : set[i][x] \in Seq(Timers)
    BY InvFacts DEF ListTypes
  <2> QED BY <1>1, <2>1, <2>2 DEF Holds
<1>6. ASSUME NEW t \in DOMAIN due
      PROVE  /\ due[t] >= current_tick
             /\ \A s \in In0(t) : /\ s = due[t] % SIZE0
                                  /\ due[t] \div SIZE0 = current_tick \div SIZE0
             /\ \A p \in InSet(t) : StillAhead(due[t], p[1], p[2])
  <2> PICK now \in Nat, r \in Nat : now = current_tick /\ r = due[t]
    BY InvFacts
  <2>1. Waits(r, h[t], now, stage)
    BY <1>1
  <2>2. r >= now
    BY <2>1 DEF Waits
  <2>3. ASSUME NEW s \in In0(t)
        PROVE  s = r % SIZE0 /\ r \div SIZE0 = now \div SIZE0
    <3>1. h[t][1] = First /\ h[t][2] = s
      BY <1>2
    <3>2. \E c \in Nat : c * SIZE0 <= now /\ r < (c + 1) * SIZE0 /\ h[t][2] = r - c * SIZE0
      BY <2>1, <3>1 DEF Waits
    <3> QED BY <2>2, <3>1, <3>2, SlotOf, SameTurn
  <2>4. ASSUME NEW p \in InSet(t)
        PROVE  StillAhead(r, p[1], p[2])
    <3> PICK i \in Levels, x \in 0 .. (SIZE - 1) : p = <<i, x>>
      BY DEF InSet
    <3>1. h[t] = p /\ p[1] = i /\ p[2] = x /\ i # First /\ i \in Nat
      BY <1>2, CarefulFacts DEF First
    <3>2. Awaits(r, i, x, now, stage)
      BY <2>1, <3>1 DEF Waits
    <3> QED BY <3>1, <3>2, AwaitsAhead
  <2> QED BY <2>2, <2>3, <2>4
<1> QED BY <1>4, <1>5, <1>6 DEF WheelExact, WheelInv

(* The list run at a tick holds timers due at the tick and no others. *)
LEMMA InvOnTime ==
  ASSUME Careful, WheelInv, running # None
  PROVE  running \in DOMAIN due /\ due[running] = current_tick
<1>1. stage = Sets /\ running \in DOMAIN due
  BY CarefulFacts DEF WheelInv, Walking, TypeOK
<1>2. PICK h \in [DOMAIN due -> Places], l \in Seq(Timers) :
           /\ ListsOnce(l, At(h, <<First, Slot0>>))
           /\ \A u \in DOMAIN due : Waits(due[u], h[u], current_tick, stage)
           /\ running # None => l # <<>> /\ l[1] = running
  BY <1>1, RunList
<1> PICK now \in Nat, r \in Nat : now = current_tick /\ r = due[running]
  BY <1>1, InvFacts
<1> PICK p : p = h[running]
  OBVIOUS
<1>3. p = <<First, Slot0>>
  <2>1. 1 \in 1 .. Len(l)
    BY <1>2
  <2> QED BY <1>2, <2>1 DEF ListsOnce, At
<1>4. p[1] = First /\ p[2] = now % SIZE0
  BY <1>3 DEF Slot0
<1>5. /\ r >= now
      /\ \E c \in Nat : c * SIZE0 <= now /\ r < (c + 1) * SIZE0 /\ p[2] = r - c * SIZE0
  <2>1. Waits(r, p, now, stage)
    BY <1>1, <1>2
  <2> QED BY <1>4, <2>1 DEF Waits
<1>6. p[2] = r % SIZE0 /\ r < now + SIZE0
  BY <1>5, SlotOf
<1>7. now = r
  BY <1>4, <1>5, <1>6, WheelSizes, RemainderApart
<1> QED BY <1>1, <1>7

(* Every timer in use is in one list and there once, and waits for a tick   *)
(* that has not passed: in the first wheel at the slot of its tick, further *)
(* up in a list whose turn is still to be cascaded.                         *)
THEOREM WheelIsExact == ASSUME Careful PROVE Spec => []WheelExact
<1>1. WheelInv => WheelExact
  BY InvExact
<1> QED BY <1>1, WheelInvariant, PTL

(* on_tick calls a timer back at the tick it was added for. *)
THEOREM WheelRunsOnTime == ASSUME Careful PROVE Spec => []RunsOnTime
<1>1. WheelInv => RunsOnTime
  BY InvOnTime DEF RunsOnTime
<1> QED BY <1>1, WheelInvariant, PTL

(* The wheel is a timer service: add_timer arms a timer, del_timer cancels  *)
(* it, on_tick fires the timers of the tick and passes none that is due.    *)
THEOREM WheelImplements == ASSUME Careful PROVE Spec => ImplementsTimerService
<1>1. Init => Service!Init
  BY DEF Init, Service!Init
<1>2. WheelInv /\ [Next]_vars => [Service!Next]_<<current_tick, due>>
  <2> SUFFICES ASSUME WheelInv, [Next]_vars
               PROVE  Service!Next \/ UNCHANGED <<current_tick, due>>
    OBVIOUS
  <2>1. ASSUME NEW t \in Timers, NEW d \in Delays, NEW o \in BOOLEAN, add_timer(t, d, o)
        PROVE  Service!Next
    <3>1. Service!Arm(t, d)
      BY <2>1 DEF add_timer, With, Service!Arm, Service!With
    <3> QED BY <3>1 DEF Service!Next
  <2>2. ASSUME NEW t \in Timers, del_timer(t) PROVE Service!Next
    <3>1. Service!Cancel(t)
      BY <2>2 DEF del_timer, Deleted, Without, Service!Cancel, Service!Without
    <3> QED BY <3>1 DEF Service!Next
  <2>3. CASE RunReturn
    <3> PICK t \in Timers : t = running /\ t \in DOMAIN due /\ due[t] = current_tick
      BY <2>3, InvOnTime, InvFacts DEF RunReturn
    <3>1. due' = Service!Without(t) \/ \E d \in Delays : due' = Service!With(t, d)
      <4>1. CASE Deleted(t)
        BY <4>1 DEF Deleted, Without, Service!Without
      <4>2. CASE ~Deleted(t)
        <5> PICK d \in Delays : d = delay[t] /\ due' = [due EXCEPT ![t] = current_tick + d]
          BY <2>3, <4>2 DEF RunReturn, WheelInv, TypeOK
        <5>1. due \in [DOMAIN due -> Nat]
          BY DEF WheelInv, TypeOK
        <5>2. due' = Service!With(t, d)
          BY <5>1 DEF Service!With
        <5> QED BY <5>2
      <4> QED BY <4>1, <4>2
    <3>2. Service!Fire(t)
      BY <2>3, <3>1 DEF RunReturn, Service!Fire
    <3> QED BY <3>2 DEF Service!Next
  <2>4. CASE TickEnd
    <3>1. \A t \in DOMAIN due : due[t] > current_tick
      <4>1. stage = Sets /\ running = None /\ node = Tail0
        BY <2>4 DEF TickEnd
      <4>2. PICK h \in [DOMAIN due -> Places] :
              /\ Holds(h, set0, set)
              /\ \A u \in DOMAIN due : Waits(due[u], h[u], current_tick, Sets)
        BY <4>1 DEF WheelInv, Placed
      <4> QED BY <4>1, <4>2, TickOver
    <3>2. Service!Tick
      BY <2>4, <3>1 DEF TickEnd, Service!Tick
    <3> QED BY <3>2 DEF Service!Next
  <2>5. CASE TickBegin \/ CascadeNode \/ CascadeNext \/ RunCall \/ UNCHANGED vars
    BY <2>5 DEF TickBegin, CascadeNode, CascadeNext, RunCall, vars
  <2> QED BY <2>1, <2>2, <2>3, <2>4, <2>5 DEF Next
<1> QED BY <1>1, <1>2, WheelInvariant, PTL DEF Spec, ImplementsTimerService, Service!Spec
===============================================================================
