------------------------------ MODULE RbTreeProofs ------------------------------
(***************************************************************************)
(* Proofs about the red-black tree for every set of keys: that the links,  *)
(* the order and the colours hold through every call, that a search finds  *)
(* what was inserted, and that the tree is a set.  A layout of the tree on *)
(* a line stands for the order of its nodes, which rotations do not change *)
(* and of which a search knows on which side to go on.                     *)
(*                                                                         *)
(* Then the memory space, which finds its sections by such a tree: proofs  *)
(* for every set of areas, every size of sections and every limit on their *)
(* number.                                                                 *)
(***************************************************************************)
EXTENDS RbTree, MmSpace, CommonLemmas, FiniteSetTheorems

(* Walks along links that lower a rank come to an end. *)

(* Of things that are ranked one is ranked lowest. *)
LEMMA LeastRanked ==
  ASSUME NEW S, NEW rank \in [S -> Nat], NEW T \in SUBSET S, T # {}
  PROVE  \E n \in T : \A m \in T : rank[n] <= rank[m]
<1> DEFINE R == {rank[n] : n \in T}
<1>1. R \in SUBSET Nat /\ R # {}
  OBVIOUS
<1>2. PICK k \in R : \A m \in R : k <= m
  BY <1>1, LeastElement
<1> QED BY <1>2

(* Steps that lower a rank, everywhere or in a set that they do not leave. *)
Descends(S, Stop, step) ==
  /\ Stop \in SUBSET S /\ step \in [S -> S]
  /\ \E rank \in [S -> Nat] : \A n \in S \ Stop : rank[step[n]] < rank[n]

StaysIn(G, S, Stop, step) ==
  /\ G \in SUBSET S /\ \A n \in G \ Stop : step[n] \in G

Walks(f, G, Stop, step) == \A n \in G : f[n] = IF n \in Stop THEN n ELSE f[step[n]]

(* A recursion along such steps defines a function.  A function on the      *)
(* things ranked below j exists for every j; those for all j agree.         *)
WalksBelow(f, S, Stop, step, rank, j) ==
  /\ f \in [S -> S]
  /\ \A n \in S : rank[n] < j => f[n] = IF n \in Stop THEN n ELSE f[step[n]]

(* Two such functions agree on what both are right on. *)
LEMMA WalksAgree ==
  ASSUME NEW S, NEW Stop, NEW step \in [S -> S], Stop \in SUBSET S,
         NEW rank \in [S -> Nat], \A n \in S \ Stop : rank[step[n]] < rank[n],
         NEW i \in Nat, NEW j \in Nat, i <= j,
         NEW f, WalksBelow(f, S, Stop, step, rank, i),
         NEW g, WalksBelow(g, S, Stop, step, rank, j)
  PROVE  \A n \in S : rank[n] < i => f[n] = g[n]
<1> DEFINE T == {n \in S : rank[n] < i /\ f[n] # g[n]}
<1> SUFFICES ASSUME T # {} PROVE FALSE
  OBVIOUS
<1>1. PICK n \in T : \A m \in T : rank[n] <= rank[m]
  BY LeastRanked
<1>2. n \in S /\ rank[n] < i /\ rank[n] < j /\ f[n] # g[n] /\ rank[n] \in Nat
  BY <1>1
<1>3. n \notin Stop
  BY <1>2 DEF WalksBelow
<1>4. step[n] \in S /\ rank[step[n]] < rank[n] /\ rank[step[n]] \in Nat
  BY <1>2, <1>3
<1>5. f[step[n]] = g[step[n]]
  BY <1>1, <1>2, <1>4
<1> QED BY <1>2, <1>3, <1>5 DEF WalksBelow

(* One more rank at a time, there is a function that is right below any      *)
(* rank.                                                                     *)
LEMMA WalkBelowExists ==
  ASSUME NEW S, NEW Stop, NEW step \in [S -> S], Stop \in SUBSET S,
         NEW rank \in [S -> Nat], \A n \in S \ Stop : rank[step[n]] < rank[n]
  PROVE  \A j \in Nat : \E f : WalksBelow(f, S, Stop, step, rank, j)
<1> DEFINE J == {j \in Nat : \E f : WalksBelow(f, S, Stop, step, rank, j)}
<1>1. 0 \in J
  <2>1. WalksBelow([n \in S |-> n], S, Stop, step, rank, 0)
    BY DEF WalksBelow
  <2> QED BY <2>1
<1>2. ASSUME NEW j \in J PROVE j + 1 \in J
  <2>1. PICK f : WalksBelow(f, S, Stop, step, rank, j)
    BY <1>2
  <2>2. PICK g : g = [n \in S |-> IF rank[n] < j THEN f[n] ELSE IF n \in Stop THEN n ELSE f[step[n]]]
    OBVIOUS
  <2>3. g \in [S -> S]
    BY <2>1, <2>2 DEF WalksBelow
  <2>4. ASSUME NEW n \in S, rank[n] < j + 1
        PROVE  g[n] = IF n \in Stop THEN n ELSE g[step[n]]
    <3>1. CASE n \in Stop
      BY <2>1, <2>2, <3>1 DEF WalksBelow
    <3>2. CASE n \notin Stop
      <4>1. rank[step[n]] < rank[n] /\ step[n] \in S /\ rank[n] \in Nat /\ rank[step[n]] \in Nat
        BY <3>2
      <4>2. rank[step[n]] < j
        BY <1>2, <2>4, <4>1
      <4>3. g[step[n]] = f[step[n]]
        BY <2>2, <4>1, <4>2
      <4>4. g[n] = f[step[n]]
        BY <2>1, <2>2, <3>2 DEF WalksBelow
      <4> QED BY <3>2, <4>3, <4>4
    <3> QED BY <3>1, <3>2
  <2>5. WalksBelow(g, S, Stop, step, rank, j + 1)
    BY <2>3, <2>4 DEF WalksBelow
  <2> QED BY <1>2, <2>5
<1>3. J = Nat
  <2> HIDE DEF J
  <2>1. J \in SUBSET Nat
    BY DEF J
  <2> QED BY <1>1, <1>2, <2>1, SetInduction
<1> QED BY <1>3

(* So there is one that is right everywhere: what a loop along the links     *)
(* returns is defined.                                                       *)
LEMMA WalkExists ==
  ASSUME NEW S, NEW Stop, NEW step, Descends(S, Stop, step)
  PROVE  \E f \in [S -> S] : Walks(f, S, Stop, step)
<1>1. Stop \in SUBSET S /\ step \in [S -> S]
  BY DEF Descends
<1>2. PICK rank \in [S -> Nat] : \A n \in S \ Stop : rank[step[n]] < rank[n]
  BY DEF Descends
<1> DEFINE Fn(j) == CHOOSE f : WalksBelow(f, S, Stop, step, rank, j)
<1>3. \A j \in Nat : WalksBelow(Fn(j), S, Stop, step, rank, j)
  <2>1. \A j \in Nat : \E f : WalksBelow(f, S, Stop, step, rank, j)
    BY <1>1, <1>2, WalkBelowExists
  <2> QED BY <2>1
<1> HIDE DEF Fn
<1>4. PICK g : g = [n \in S |-> Fn(rank[n] + 1)[n]]
  OBVIOUS
<1>5. \A n \in S : rank[n] \in Nat /\ rank[n] + 1 \in Nat /\ WalksBelow(Fn(rank[n] + 1), S, Stop, step, rank, rank[n] + 1)
  BY <1>2, <1>3
<1>6. g \in [S -> S]
  BY <1>4, <1>5 DEF WalksBelow
<1>7. ASSUME NEW n \in S PROVE g[n] = IF n \in Stop THEN n ELSE g[step[n]]
  <2>1. g[n] = (IF n \in Stop THEN n ELSE Fn(rank[n] + 1)[step[n]])
    BY <1>4, <1>5 DEF WalksBelow
  <2>2. ASSUME n \notin Stop PROVE Fn(rank[n] + 1)[step[n]] = g[step[n]]
    <3>1. step[n] \in S /\ rank[step[n]] < rank[n] /\ rank[step[n]] \in Nat
      BY <1>1, <1>2, <2>2
    <3>2. \A m \in S : rank[m] < rank[step[n]] + 1 => Fn(rank[step[n]] + 1)[m] = Fn(rank[n] + 1)[m]
      BY <1>1, <1>2, <1>5, <3>1, WalksAgree
    <3>3. Fn(rank[step[n]] + 1)[step[n]] = Fn(rank[n] + 1)[step[n]]
      BY <3>1, <3>2
    <3> QED BY <1>4, <3>1, <3>3
  <2> QED BY <2>1, <2>2
<1> QED BY <1>6, <1>7 DEF Walks

(* It ends where the steps stop, in any set that they do not leave. *)
LEMMA WalkEnds ==
  ASSUME NEW S, NEW Stop, NEW step, Descends(S, Stop, step),
         NEW G, StaysIn(G, S, Stop, step), NEW f, Walks(f, G, Stop, step)
  PROVE  \A n \in G : f[n] \in G /\ f[n] \in Stop
<1>1. PICK rank \in [S -> Nat] : \A n \in S \ Stop : rank[step[n]] < rank[n]
  BY DEF Descends
<1> DEFINE T == {n \in G : ~ (f[n] \in G /\ f[n] \in Stop)}
<1> SUFFICES ASSUME T # {} PROVE FALSE
  OBVIOUS
<1>2. T \in SUBSET S
  BY DEF StaysIn
<1>3. PICK n \in T : \A m \in T : rank[n] <= rank[m]
  BY <1>2, LeastRanked
<1>4. n \in G /\ n \notin Stop /\ f[n] = f[step[n]]
  BY <1>3 DEF Walks
<1>5. step[n] \in G /\ step[n] \in S /\ n \in S /\ rank[step[n]] < rank[n] /\ rank[n] \in Nat
      /\ rank[step[n]] \in Nat
  BY <1>1, <1>2, <1>4 DEF StaysIn
<1>6. step[n] \in T
  BY <1>3, <1>4, <1>5
<1> QED BY <1>3, <1>5, <1>6

Trees == [root : Keys \cup {Nil}, child : [Sides -> [Keys -> Keys \cup {Nil}]],
          p : [Keys -> Keys \cup {Nil}], black : SUBSET Keys]

(* The links of the nodes N are inverse of one another, other keys have none. *)
Linked(t, N) ==
  /\ t.root \in N \cup {Nil}
  /\ \A n \in Keys \ N : t.p[n] = Nil /\ \A s \in Sides : t.child[s][n] = Nil
  /\ \A n \in N, s \in Sides :
       /\ t.child[s][n] \in N \cup {Nil}
       /\ t.child[s][n] # Nil => t.p[t.child[s][n]] = n
  /\ \A n \in N : IF n = t.root THEN t.p[n] = Nil
                  ELSE t.p[n] \in N /\ \E s \in Sides : t.child[s][t.p[n]] = n

(* o lays the tree out on a line: a node is at a place between the ends of  *)
(* its subtree, and divides what is between them among its children.        *)
Layouts == [at : [Keys -> Nat], end : [Sides -> [Keys -> Nat]], top : Nat]

Fits(t, N, o) ==
  /\ o \in Layouts
  /\ \A n \in N : /\ o.end["l"][n] < o.at[n] /\ o.at[n] < o.end["r"][n]
                  /\ o.end["r"][n] <= o.top
  /\ \A n \in N, s \in Sides :
       t.child[s][n] # Nil => /\ o.end[s][t.child[s][n]] = o.end[s][n]
                              /\ o.end[Other(s)][t.child[s][n]] = o.at[n]

(* The places of the nodes are in the order of their keys, but for that of  *)
(* x, a node that is being removed.                                         *)
Sorted(o, N, x) == \A m \in N \ {x}, n \in N \ {x} : m < n => o.at[m] < o.at[n]

Shape(t, N, o, x) ==
  t \in Trees /\ N \in SUBSET Keys /\ Linked(t, N) /\ Fits(t, N, o) /\ Sorted(o, N, x)

-------------------------------------------------------------------------------
(* Sides, keys and single links. *)

(* A side has one other side, and there is no third. *)
LEMMA SidesFacts ==
  ASSUME NEW s \in Sides
  PROVE  /\ Other(s) \in Sides /\ Other(Other(s)) = s /\ Other(s) # s
         /\ \A q \in Sides : q = s \/ q = Other(s)
BY DEF Sides, Other

(* The sides are left and right. *)
LEMMA TwoSides ==
  /\ "l" \in Sides /\ "r" \in Sides /\ Other("l") = "r" /\ Other("r") = "l"
  /\ \A s \in Sides : s = "l" \/ s = "r"
BY DEF Sides, Other

(* The keys are finitely many numbers other than 0, the null pointer. *)
LEMMA KeysFacts == IsFiniteSet(Keys) /\ Keys \subseteq Nat /\ Nil \notin Keys
BY KeysAssumption DEF Nil

(* The types of the links of a laid out tree. *)
LEMMA ShapeSets ==
  ASSUME NEW t, NEW N, NEW o, NEW x, Shape(t, N, o, x)
  PROVE  /\ N \subseteq Keys /\ Nil \notin N /\ Nil \notin Keys /\ N \subseteq Nat
         /\ t.root \in N \cup {Nil}
         /\ t.black \subseteq Keys
         /\ \A n \in Keys : t.p[n] \in Keys \cup {Nil}
         /\ \A n \in Keys, s \in Sides : t.child[s][n] \in Keys \cup {Nil}
<1>1. N \in SUBSET Keys /\ t \in Trees /\ t.root \in N \cup {Nil}
  BY DEF Shape, Linked
<1>2. N \subseteq Keys /\ Nil \notin N /\ Nil \notin Keys /\ N \subseteq Nat /\ t.root \in N \cup {Nil}
  BY <1>1, KeysFacts
<1>3. /\ t.black \subseteq Keys
      /\ \A n \in Keys : t.p[n] \in Keys \cup {Nil}
      /\ \A n \in Keys, s \in Sides : t.child[s][n] \in Keys \cup {Nil}
  BY <1>1 DEF Trees
<1> QED BY <1>2, <1>3

(* The ends of a subtree. *)
LEMMA Ends ==
  ASSUME NEW t, NEW N, NEW o, NEW x, Shape(t, N, o, x), NEW n \in N
  PROVE  /\ o.at[n] \in Nat /\ o.end["l"][n] \in Nat /\ o.end["r"][n] \in Nat /\ o.top \in Nat
         /\ o.end["l"][n] < o.at[n] /\ o.at[n] < o.end["r"][n] /\ o.end["r"][n] <= o.top
<1>1. n \in Keys /\ "l" \in Sides /\ "r" \in Sides
  BY ShapeSets, TwoSides
<1>2. o \in Layouts /\ o.end["l"][n] < o.at[n] /\ o.at[n] < o.end["r"][n] /\ o.end["r"][n] <= o.top
  BY DEF Shape, Fits
<1> QED BY <1>1, <1>2 DEF Layouts

Wide(o, n) == o.end["r"][n] - o.end["l"][n]

(* The width of a subtree, by which the walks down end. *)
LEMMA WideType ==
  ASSUME NEW t, NEW N, NEW o, NEW x, Shape(t, N, o, x), NEW n \in N
  PROVE  Wide(o, n) \in 0 .. o.top /\ o.top \in Nat
BY Ends DEF Wide

(* A child names its parent and has the part of the line on its side. *)
LEMMA Children ==
  ASSUME NEW t, NEW N, NEW o, NEW x, Shape(t, N, o, x), NEW n \in N, NEW s \in Sides,
         NEW c, c = t.child[s][n]
  PROVE  /\ n \in Keys /\ n # Nil /\ c \in N \cup {Nil} /\ c \in Keys \cup {Nil}
         /\ c \in N => t.p[c] = n /\ c # t.root /\ c # n /\ c # Nil /\ Wide(o, c) < Wide(o, n)
         /\ c \in N => o.end[s][c] = o.end[s][n] /\ o.end[Other(s)][c] = o.at[n]
         /\ c # Nil => c \in N
<1>1. n \in Keys /\ n # Nil /\ Nil \notin N /\ N \subseteq Keys
  BY ShapeSets
<1>2. /\ c \in N \cup {Nil} /\ (c # Nil => t.p[c] = n)
      /\ \A m \in N : m = t.root => t.p[m] = Nil
  BY DEF Shape, Linked
<1>3. c # Nil => o.end[s][c] = o.end[s][n] /\ o.end[Other(s)][c] = o.at[n]
  BY DEF Shape, Fits
<1>4. ASSUME c \in N PROVE Wide(o, c) < Wide(o, n)
  <2>1. /\ o.at[n] \in Nat /\ o.end["l"][n] \in Nat /\ o.end["r"][n] \in Nat
        /\ o.end["l"][n] < o.at[n] /\ o.at[n] < o.end["r"][n]
    BY Ends
  <2>2. CASE s = "l"
    BY <1>1, <1>3, <1>4, <2>1, <2>2, TwoSides DEF Wide
  <2>3. CASE s = "r"
    BY <1>1, <1>3, <1>4, <2>1, <2>3, TwoSides DEF Wide
  <2> QED BY <2>2, <2>3, TwoSides
<1>5. c \in N => c # n
  <2>1. Wide(o, n) \in Nat
    BY WideType
  <2> QED BY <1>4, <2>1
<1> QED BY <1>1, <1>2, <1>3, <1>4, <1>5

(* A node is not the child of its parent on both sides. *)
LEMMA TwoChildren ==
  ASSUME NEW t, NEW N, NEW o, NEW x, Shape(t, N, o, x), NEW n \in N, NEW s \in Sides
  PROVE  t.child[s][n] = t.child[Other(s)][n] => t.child[s][n] = Nil
<1> SUFFICES ASSUME NEW c \in N, c = t.child["l"][n], c = t.child["r"][n] PROVE FALSE
  BY Children, TwoSides
<1>1. o.end["r"][c] = o.at[n]
  <2>1. o.end[Other("l")][c] = o.at[n]
    <3>1. "l" \in Sides /\ c = t.child["l"][n] /\ c \in N
      BY TwoSides
    <3> QED BY ONLY <3>1, Shape(t, N, o, x), n \in N, Children
  <2> QED BY <2>1, TwoSides
<1>3. o.end["l"][c] = o.at[n]
  <2>1. o.end[Other("r")][c] = o.at[n]
    BY Children, TwoSides
  <2> QED BY <2>1, TwoSides
<1>2. o.end["r"][c] \in Nat /\ o.end["l"][c] < o.at[c] /\ o.at[c] < o.end["r"][c] /\ o.at[c] \in Nat
  BY Ends
<1> QED BY <1>1, <1>2, <1>3

(* The side on which a node is a child, as the code finds it. *)
LEMMA SideIs ==
  ASSUME NEW t, NEW n, NEW u, NEW s \in Sides, t.p[n] = u, t.child[s][u] = n,
         t.child[Other(s)][u] # n
  PROVE  SideOf(t, n) = s
BY DEF SideOf, Sides, Other

(* A node that is not the root has a parent, of which it is the child on the *)
(* side SideOf says.                                                         *)
LEMMA AtParent ==
  ASSUME NEW t, NEW N, NEW o, NEW x, Shape(t, N, o, x), NEW n \in N, n # t.root,
         NEW u, u = t.p[n]
  PROVE  /\ u \in N /\ u # n /\ u # Nil /\ u \in Keys /\ n \in Keys /\ n # Nil
         /\ SideOf(t, n) \in Sides
         /\ t.child[SideOf(t, n)][u] = n /\ t.child[Other(SideOf(t, n))][u] # n
         /\ Wide(o, n) < Wide(o, u)
<1>1. u \in N /\ n \in Keys /\ n # Nil /\ \E s \in Sides : t.child[s][u] = n
  BY ShapeSets DEF Shape, Linked
<1>2. PICK s \in Sides : t.child[s][u] = n
  BY <1>1
<1>3. t.child[Other(s)][u] # n
  BY <1>1, <1>2, TwoChildren
<1>4. SideOf(t, n) = s
  BY <1>2, <1>3, SideIs
<1>5. u # n /\ u # Nil /\ u \in Keys /\ Wide(o, n) < Wide(o, u)
  BY <1>1, <1>2, Children
<1> QED BY <1>1, <1>2, <1>3, <1>4, <1>5

(* The root alone has no parent. *)
LEMMA RootParent ==
  ASSUME NEW t, NEW N, NEW o, NEW x, Shape(t, N, o, x), NEW n \in N
  PROVE  /\ t.p[n] = Nil <=> n = t.root
         /\ t.p[n] \in N \cup {Nil} /\ t.p[n] \in Keys \cup {Nil} /\ t.p[n] # n
<1>1. n # t.root => t.p[n] \in N /\ t.p[n] # Nil /\ t.p[n] # n /\ t.p[n] \in Keys
  BY AtParent
<1>2. n = t.root => t.p[n] = Nil
  BY DEF Shape, Linked
<1>3. n # Nil
  BY ShapeSets
<1> QED BY <1>1, <1>2, <1>3

(* A node with a given parent is one of its children. *)
LEMMA ChildOf ==
  ASSUME NEW t, NEW N, NEW o, NEW x, Shape(t, N, o, x), NEW n \in N, NEW m \in N, t.p[m] = n,
         NEW s \in Sides
  PROVE  m = t.child[s][n] \/ m = t.child[Other(s)][n]
<1>1. n # Nil
  BY ShapeSets
<1>2. m # t.root
  BY <1>1, RootParent
<1> QED BY <1>2, AtParent, SidesFacts

-------------------------------------------------------------------------------
(* Where nodes are. *)

(* In a set of nodes one is the root or has its parent outside: the widest. *)
LEMMA Widest ==
  ASSUME NEW t, NEW N, NEW o, NEW x, Shape(t, N, o, x), NEW S \in SUBSET N, S # {}
  PROVE  \E m \in S : m = t.root \/ t.p[m] \notin S
<1>0. \A n \in N : Wide(o, n) \in 0 .. o.top /\ o.top \in Nat
  BY WideType
<1>1. PICK rank : rank = [n \in N |-> o.top - Wide(o, n)]
  OBVIOUS
<1>2. rank \in [N -> Nat]
  BY <1>0, <1>1
<1>3. PICK m \in S : \A j \in S : rank[m] <= rank[j]
  BY <1>2, LeastRanked
<1>4. ASSUME m # t.root, t.p[m] \in S PROVE FALSE
  <2>1. Wide(o, m) < Wide(o, t.p[m])
    BY <1>3, <1>4, AtParent
  <2>2. /\ rank[m] = o.top - Wide(o, m) /\ rank[t.p[m]] = o.top - Wide(o, t.p[m])
        /\ rank[m] <= rank[t.p[m]]
    BY <1>1, <1>3, <1>4
  <2>3. Wide(o, m) \in Nat /\ Wide(o, t.p[m]) \in Nat /\ o.top \in Nat
    BY <1>0, <1>3, <1>4
  <2> QED BY <2>1, <2>2, <2>3
<1> QED BY <1>3, <1>4

(* A tree with a node has a root. *)
LEMMA RootOnTop ==
  ASSUME NEW t, NEW N, NEW o, NEW x, Shape(t, N, o, x), NEW n \in N
  PROVE  t.root \in N /\ t.root \in Keys /\ t.root # Nil /\ t.p[t.root] = Nil
<1>1. \E m \in N : m = t.root
  BY Widest, AtParent
<1> QED BY <1>1, ShapeSets, RootParent

(* What has the root, and the children of all it has, has all nodes. *)
LEMMA ClosedHasAll ==
  ASSUME NEW t, NEW N, NEW o, NEW x, Shape(t, N, o, x), NEW S, t.root \in S \cup {Nil},
         \A n \in N \cap S, s \in Sides : t.child[s][n] \in S \cup {Nil}
  PROVE  N \subseteq S
<1> DEFINE T == N \ S
<1> SUFFICES ASSUME T # {} PROVE FALSE
  OBVIOUS
<1>1. PICK m \in T : m = t.root \/ t.p[m] \notin T
  BY Widest
<1>2. m # t.root /\ m # Nil
  BY <1>1, ShapeSets
<1> QED BY <1>1, <1>2, AtParent

Covers(o, n, k) == o.end["l"][n] < o.at[k] /\ o.at[k] < o.end["r"][n]

(* The nodes on the way from the root to a node. *)
PathTo(t, N, o, U, k) ==
  /\ U \in SUBSET N /\ t.root \in U /\ k \in U
  /\ \A n \in U : Covers(o, n, k)
  /\ \A n \in U \ {k} : \E s \in Sides : t.child[s][n] \in U

(* There is a way from the root to every node: those that cover it. *)
LEMMA PathExists ==
  ASSUME NEW t, NEW N, NEW o, NEW x, Shape(t, N, o, x), NEW k \in N
  PROVE  \E U : PathTo(t, N, o, U, k)
<1> DEFINE Closed(V) == V \in SUBSET N /\ k \in V /\ \A m \in V : m # t.root => t.p[m] \in V
           U == {m \in N : \A V : Closed(V) => m \in V}
           W == {m \in N : /\ o.end["l"][m] <= o.end["l"][k]
                           /\ o.end["r"][k] <= o.end["r"][m]}
<1>1. \A m \in N : m # t.root => t.p[m] \in N
  BY AtParent
<1>2. Closed(U)
  BY <1>1
<1>3. Closed(W)
  <2>1. k \in W
    BY Ends
  <2>2. ASSUME NEW m \in W, m # t.root PROVE t.p[m] \in W
    <3>1. PICK u \in N, s \in Sides : u = t.p[m] /\ t.child[s][u] = m
      BY <2>2, AtParent
    <3>2. o.end[s][m] = o.end[s][u] /\ o.end[Other(s)][m] = o.at[u]
      BY <3>1, Children
    <3>3. /\ o.at[u] \in Nat /\ o.end["l"][u] \in Nat /\ o.end["r"][u] \in Nat
          /\ o.end["l"][u] < o.at[u] /\ o.at[u] < o.end["r"][u]
      BY Ends
    <3>4. /\ o.end["l"][k] \in Nat /\ o.end["r"][k] \in Nat
      BY Ends
    <3>5. CASE s = "l"
      BY <2>2, <3>1, <3>2, <3>3, <3>4, <3>5, TwoSides
    <3>6. CASE s = "r"
      BY <2>2, <3>1, <3>2, <3>3, <3>4, <3>6, TwoSides
    <3> QED BY <3>5, <3>6, TwoSides
  <2> QED BY <2>1, <2>2
<1>4. U \subseteq W
  BY <1>3
<1>5. \A n \in U : Covers(o, n, k)
  <2> TAKE n \in U
  <2>1. n \in W
    BY <1>4
  <2>2. /\ o.end["l"][k] < o.at[k] /\ o.at[k] < o.end["r"][k]
        /\ o.at[k] \in Nat /\ o.end["l"][k] \in Nat /\ o.end["r"][k] \in Nat
    BY Ends
  <2>3. o.end["l"][n] \in Nat /\ o.end["r"][n] \in Nat
    BY Ends
  <2> QED BY <2>1, <2>2, <2>3 DEF Covers
<1>6. t.root \in U
  <2>1. U \in SUBSET N /\ U # {}
    BY <1>2
  <2>2. PICK m \in U : m = t.root \/ t.p[m] \notin U
    BY <2>1, Widest
  <2> QED BY <1>2, <2>2
<1>7. ASSUME NEW n \in U \ {k} PROVE \E s \in Sides : t.child[s][n] \in U
  <2>1. ~ Closed(U \ {n})
    BY <1>7
  <2>2. PICK m \in U \ {n} : m # t.root /\ t.p[m] = n
    BY <1>2, <1>7, <2>1
  <2>3. t.child[SideOf(t, m)][n] = m /\ SideOf(t, m) \in Sides
    BY <2>2, AtParent
  <2> QED BY <2>2, <2>3
<1> HIDE DEF U
<1> QED BY <1>2, <1>5, <1>6, <1>7 DEF PathTo

(* What is below a child is on its side. *)
LEMMA ChildCovers ==
  ASSUME NEW t, NEW N, NEW o, NEW x, Shape(t, N, o, x), NEW n \in N, NEW s \in Sides,
         NEW c \in N, c = t.child[s][n], NEW k \in N, Covers(o, c, k)
  PROVE  /\ Covers(o, n, k)
         /\ s = "l" => o.at[k] < o.at[n]
         /\ s = "r" => o.at[n] < o.at[k]
<1>1. o.end[s][c] = o.end[s][n] /\ o.end[Other(s)][c] = o.at[n]
  BY Children
<1>2. /\ o.at[n] \in Nat /\ o.end["l"][n] \in Nat /\ o.end["r"][n] \in Nat
      /\ o.end["l"][n] < o.at[n] /\ o.at[n] < o.end["r"][n]
  BY Ends
<1>3. o.at[k] \in Nat
  BY Ends
<1>4. CASE s = "l"
  BY <1>1, <1>2, <1>3, <1>4, TwoSides DEF Covers
<1>5. CASE s = "r"
  BY <1>1, <1>2, <1>3, <1>5, TwoSides DEF Covers
<1> QED BY <1>4, <1>5, TwoSides

(* What covers a node is on the way to it. *)
LEMMA OnThePath ==
  ASSUME NEW t, NEW N, NEW o, NEW x, Shape(t, N, o, x), NEW n \in N, NEW k \in N,
         Covers(o, n, k), NEW U, PathTo(t, N, o, U, k)
  PROVE  n \in U
<1> DEFINE S == {m \in N : \E j, V : j \in N /\ Covers(o, m, j) /\ PathTo(t, N, o, V, j) /\ m \notin V}
<1> SUFFICES ASSUME S # {} PROVE FALSE
  OBVIOUS
<1>1. PICK m \in S : m = t.root \/ t.p[m] \notin S
  BY Widest
<1>2. PICK j, V : j \in N /\ Covers(o, m, j) /\ PathTo(t, N, o, V, j) /\ m \notin V
  BY <1>1
<1>3. t.root \in V /\ V \subseteq N /\ (\A i \in V : Covers(o, i, j))
      /\ \A i \in V \ {j} : \E s \in Sides : t.child[s][i] \in V
  BY <1>2 DEF PathTo
<1>4. PICK u \in N, s \in Sides : u = t.p[m] /\ t.child[s][u] = m
  BY <1>1, <1>2, <1>3, AtParent
<1>5. Covers(o, u, j) /\ (s = "l" => o.at[j] < o.at[u]) /\ (s = "r" => o.at[u] < o.at[j])
  BY <1>1, <1>2, <1>4, ChildCovers
<1>6. u \in V
  BY <1>1, <1>2, <1>3, <1>4, <1>5
<1>7. o.at[j] \in Nat /\ o.at[u] \in Nat
  BY <1>2, Ends
<1>8. u # j
  BY <1>5, <1>7, TwoSides
<1>9. PICK q \in Sides : t.child[q][u] \in V
  BY <1>3, <1>6, <1>8
<1>10. (q = "l" => o.at[j] < o.at[u]) /\ (q = "r" => o.at[u] < o.at[j])
  BY <1>2, <1>3, <1>9, ChildCovers
<1>11. q = s
  BY <1>5, <1>7, <1>10, TwoSides
<1> QED BY <1>2, <1>4, <1>9, <1>11

(* A node within the ends of a subtree is in it: at its top, or below the   *)
(* child on its side.                                                       *)
LEMMA Inside ==
  ASSUME NEW t, NEW N, NEW o, NEW x, Shape(t, N, o, x), NEW n \in N, NEW k \in N,
         Covers(o, n, k), n # k
  PROVE  /\ o.at[k] # o.at[n]
         /\ \A s \in Sides : (o.at[k] < o.at[n] <=> s = "l") =>
              t.child[s][n] \in N /\ Covers(o, t.child[s][n], k)
<1>1. PICK U : PathTo(t, N, o, U, k)
  BY PathExists
<1>2. n \in U
  BY <1>1, OnThePath
<1>3. PICK q \in Sides : t.child[q][n] \in N /\ Covers(o, t.child[q][n], k)
  BY <1>1, <1>2 DEF PathTo
<1>4. (q = "l" => o.at[k] < o.at[n]) /\ (q = "r" => o.at[n] < o.at[k])
  BY <1>3, ChildCovers
<1>5. o.at[k] \in Nat /\ o.at[n] \in Nat
  BY Ends
<1> QED BY <1>3, <1>4, <1>5, TwoSides

(* The root covers every node. *)
LEMMA RootCovers ==
  ASSUME NEW t, NEW N, NEW o, NEW x, Shape(t, N, o, x), NEW k \in N
  PROVE  Covers(o, t.root, k)
<1>1. PICK U : PathTo(t, N, o, U, k)
  BY PathExists
<1> QED BY <1>1 DEF PathTo

(* No two nodes are at one place. *)
LEMMA PlacesDiffer ==
  ASSUME NEW t, NEW N, NEW o, NEW x, Shape(t, N, o, x), NEW n \in N, NEW k \in N, n # k
  PROVE  o.at[k] # o.at[n]
<1> SUFFICES ASSUME o.at[k] = o.at[n] PROVE FALSE
  OBVIOUS
<1>1. Covers(o, n, k)
  BY Ends DEF Covers
<1> QED BY <1>1, Inside

(* With no node being removed, places are in the order of keys. *)
LEMMA InOrder ==
  ASSUME NEW t, NEW N, NEW o, NEW x, Shape(t, N, o, x), NEW n \in N \ {x}, NEW k \in N \ {x}
  PROVE  o.at[k] < o.at[n] <=> k < n
<1>1. o.at[k] \in Nat /\ o.at[n] \in Nat /\ k \in Nat /\ n \in Nat
  BY Ends, ShapeSets
<1>2. (k < n => o.at[k] < o.at[n]) /\ (n < k => o.at[n] < o.at[k])
  BY DEF Shape, Sorted
<1> QED BY <1>1, <1>2

-------------------------------------------------------------------------------
(* Walks in the tree. *)

(* A walk returns what the recursion gives at one of the places where it     *)
(* stops.                                                                    *)
LEMMA WalkEndsTo ==
  ASSUME NEW S, NEW Stop, NEW step, Descends(S, Stop, step),
         NEW G, StaysIn(G, S, Stop, step), NEW f, NEW out,
         \A n \in G : f[n] = IF n \in Stop THEN out[n] ELSE f[step[n]]
  PROVE  \A n \in G : \E e \in G \cap Stop : f[n] = out[e]
<1>1. PICK rank \in [S -> Nat] : \A n \in S \ Stop : rank[step[n]] < rank[n]
  BY DEF Descends
<1> DEFINE T == {n \in G : ~ \E e \in G \cap Stop : f[n] = out[e]}
<1> SUFFICES ASSUME T # {} PROVE FALSE
  OBVIOUS
<1>2. T \in SUBSET S
  BY DEF StaysIn
<1>3. PICK n \in T : \A m \in T : rank[n] <= rank[m]
  BY <1>2, LeastRanked
<1>4. n \in G /\ n \notin Stop /\ f[n] = f[step[n]]
  BY <1>3
<1>5. step[n] \in G /\ step[n] \in S /\ n \in S /\ rank[step[n]] < rank[n] /\ rank[n] \in Nat
      /\ rank[step[n]] \in Nat
  BY <1>1, <1>2, <1>4 DEF StaysIn
<1>6. step[n] \in T
  BY <1>3, <1>4, <1>5
<1> QED BY <1>3, <1>5, <1>6

(* The links to the children lower a rank, so that every loop downwards      *)
(* ends.                                                                     *)
LEMMA Descent ==
  ASSUME NEW t, NEW N, NEW o, NEW x, Shape(t, N, o, x)
  PROVE  \E rank \in [Keys \cup {Nil} -> Nat] : \A n \in Keys, s \in Sides :
           t.child[s][n] \in Keys \cup {Nil} /\ rank[t.child[s][n]] < rank[n]
<1>1. PICK rank : rank = [m \in Keys \cup {Nil} |->
                            IF m = Nil THEN 0 ELSE IF m \in N THEN 2 + Wide(o, m) ELSE 1]
  OBVIOUS
<1>2. \A m \in N : Wide(o, m) \in Nat /\ m # Nil /\ m \in Keys
  BY WideType, ShapeSets
<1>3. rank \in [Keys \cup {Nil} -> Nat]
  BY <1>1, <1>2
<1>4. ASSUME NEW n \in Keys, NEW s \in Sides
      PROVE  t.child[s][n] \in Keys \cup {Nil} /\ rank[t.child[s][n]] < rank[n]
  <2>1. n # Nil /\ rank[Nil] = 0
    BY <1>1, ShapeSets
  <2>2. CASE n \in N
    <3>1. PICK c \in Keys \cup {Nil} : c = t.child[s][n] /\ (c # Nil => c \in N /\ Wide(o, c) < Wide(o, n))
      BY <2>2, Children
    <3>2. rank[n] = 2 + Wide(o, n) /\ Wide(o, n) \in Nat
      BY <1>1, <1>2, <2>2
    <3>3. CASE c = Nil
      BY <2>1, <3>1, <3>2, <3>3
    <3>4. CASE c # Nil
      <4>1. rank[c] = 2 + Wide(o, c) /\ Wide(o, c) \in Nat
        BY <1>1, <1>2, <3>1, <3>4
      <4> QED BY <3>1, <3>2, <3>4, <4>1
    <3> QED BY <3>3, <3>4
  <2>3. CASE n \notin N
    <3>1. t.child[s][n] = Nil
      BY <2>3 DEF Shape, Linked
    <3> QED BY <1>1, <2>1, <2>3, <3>1
  <2> QED BY <2>2, <2>3
<1> QED BY <1>3, <1>4

(* The links to the parents do too. *)
LEMMA Ascent ==
  ASSUME NEW t, NEW N, NEW o, NEW x, Shape(t, N, o, x)
  PROVE  \E rank \in [Keys -> Nat] : \A n \in Keys : t.p[n] # Nil =>
           t.p[n] \in Keys /\ rank[t.p[n]] < rank[n]
<1>1. PICK rank : rank = [m \in Keys |-> IF m \in N THEN o.top - Wide(o, m) ELSE 0]
  OBVIOUS
<1>2. \A m \in N : Wide(o, m) \in 0 .. o.top /\ o.top \in Nat /\ m \in Keys
  BY WideType, ShapeSets
<1>3. rank \in [Keys -> Nat]
  BY <1>1, <1>2
<1>4. ASSUME NEW n \in Keys, t.p[n] # Nil PROVE t.p[n] \in Keys /\ rank[t.p[n]] < rank[n]
  <2>1. n \in N
    BY <1>4 DEF Shape, Linked
  <2>2. t.p[n] \in N /\ Wide(o, n) < Wide(o, t.p[n])
    BY <1>4, <2>1, RootParent, AtParent
  <2>3. /\ rank[n] = o.top - Wide(o, n) /\ rank[t.p[n]] = o.top - Wide(o, t.p[n])
        /\ Wide(o, n) \in Nat /\ Wide(o, t.p[n]) \in Nat /\ o.top \in Nat /\ t.p[n] \in Keys
    BY <1>1, <1>2, <2>1, <2>2
  <2> QED BY <2>2, <2>3
<1> QED BY <1>3, <1>4

(* The loop at the end of _fix_rr goes up to the root. *)
LEMMA TopIsRoot ==
  ASSUME NEW t, NEW N, NEW o, NEW x, Shape(t, N, o, x), NEW k \in N
  PROVE  Top(t, k) = t.root
<1> DEFINE Stop == {n \in Keys : t.p[n] = Nil}
           step == [n \in Keys |-> IF t.p[n] = Nil THEN n ELSE t.p[n]]
           Eq(h) == h = [n \in Keys |-> IF t.p[n] = Nil THEN n ELSE h[t.p[n]]]
           up == CHOOSE h : Eq(h)
<1>1. PICK rank \in [Keys -> Nat] : \A n \in Keys : t.p[n] # Nil =>
           t.p[n] \in Keys /\ rank[t.p[n]] < rank[n]
  BY Ascent
<1>2. step \in [Keys -> Keys] /\ Stop \in SUBSET Keys
  BY <1>1
<1>3. \A n \in Keys : /\ n \in Stop <=> t.p[n] = Nil
                      /\ n \notin Stop => step[n] = t.p[n] /\ rank[step[n]] < rank[n]
  BY <1>1
<1> HIDE DEF Stop, step
<1>4. Descends(Keys, Stop, step)
  BY <1>2, <1>3 DEF Descends
<1>5. \E h : Eq(h)
  <2>1. PICK f \in [Keys -> Keys] : Walks(f, Keys, Stop, step)
    BY <1>4, WalkExists
  <2>2. \A n \in Keys : f[n] = IF t.p[n] = Nil THEN n ELSE f[t.p[n]]
    BY <1>3, <2>1 DEF Walks
  <2> QED BY <2>2
<1>6. Eq(up)
  BY <1>5
<1>7. Top(t, k) = up[k]
  BY DEF Top
<1> HIDE DEF up
<1>8. N \subseteq Keys
  BY ShapeSets
<1>9. Walks(up, N, Stop, step)
  BY <1>3, <1>6, <1>8 DEF Walks
<1>10. StaysIn(N, Keys, Stop, step)
  BY <1>3, <1>8, RootParent, AtParent DEF StaysIn
<1>11. up[k] \in N /\ up[k] \in Stop
  BY <1>4, <1>9, <1>10, WalkEnds
<1> QED BY <1>3, <1>7, <1>8, <1>11, RootParent

-------------------------------------------------------------------------------
(* Lookups. *)

(* The side rb_search turns to is the one on which the key is laid out. *)
LEMMA TowardIs ==
  ASSUME NEW t, NEW N, NEW o, Shape(t, N, o, Nil), NEW n \in N, NEW k \in N
  PROVE  Toward(k, n) \in Sides /\ (o.at[k] < o.at[n] <=> Toward(k, n) = "l")
<1>1. n # Nil /\ k # Nil
  BY ShapeSets
<1> QED BY <1>1, InOrder DEF Toward, Sides

(* rb_search finds a node that is in the tree and no other. *)
LEMMA SearchFinds ==
  ASSUME NEW t, NEW N, NEW o, Shape(t, N, o, Nil), NEW k \in Keys
  PROVE  Search(t, k) = IF k \in N THEN k ELSE Nil
<1> DEFINE S == Keys \cup {Nil}
           Stop == {Nil, k}
           c(n) == t.child[Toward(k, n)][n]
           step == [n \in S |-> IF n \in Stop THEN n ELSE c(n)]
           Eq(h) == h = [n \in S |-> IF n \in Stop THEN n ELSE h[c(n)]]
           down == CHOOSE h : Eq(h)
<1>1. PICK rank \in [S -> Nat] : \A n \in Keys, s \in Sides :
           t.child[s][n] \in S /\ rank[t.child[s][n]] < rank[n]
  BY Descent
<1>2. \A n : Toward(k, n) \in Sides
  BY DEF Toward, Sides
<1>3. \A n \in S \ Stop : c(n) \in S /\ step[n] = c(n) /\ rank[step[n]] < rank[n]
  BY <1>1, <1>2
<1>4. Stop \in SUBSET S /\ step \in [S -> S]
  BY <1>3
<1>5. Search(t, k) = down[t.root]
  BY DEF Search
<1> HIDE DEF step, Stop, S
<1>6. Descends(S, Stop, step)
  BY <1>3, <1>4 DEF Descends
<1> HIDE DEF c
<1>7. \E h : Eq(h)
  <2>1. PICK f \in [S -> S] : Walks(f, S, Stop, step)
    BY <1>6, WalkExists
  <2>2. \A n \in S : f[n] = IF n \in Stop THEN n ELSE f[c(n)]
    BY <1>3, <2>1 DEF Walks
  <2> QED BY <2>2
<1>8. Eq(down)
  BY <1>7
<1> HIDE DEF down
<1>9. Walks(down, S, Stop, step)
  BY <1>3, <1>8 DEF Walks
<1>10. t.root \in N \cup {Nil} /\ N \subseteq Keys /\ Nil \notin N
  BY ShapeSets
<1>11. ASSUME k \notin N PROVE down[t.root] = Nil
  <2> DEFINE G == N \cup {Nil}
  <2>1. G \in SUBSET S
    BY <1>10 DEF S
  <2>2. \A n \in G \ Stop : step[n] \in G
    <3> TAKE n \in G \ Stop
    <3>1. n \in N /\ n \in S /\ Toward(k, n) \in Sides
      BY <1>2, <2>1 DEF Stop
    <3>2. t.child[Toward(k, n)][n] \in G
      BY <3>1, Children
    <3> QED BY <1>3, <3>1, <3>2 DEF c
  <2>3. StaysIn(G, S, Stop, step) /\ Walks(down, G, Stop, step)
    BY <1>9, <2>1, <2>2 DEF StaysIn, Walks
  <2>4. down[t.root] \in G /\ down[t.root] \in Stop
    BY <1>6, <1>10, <2>3, WalkEnds
  <2> QED BY <1>11, <2>4 DEF Stop
<1>12. ASSUME k \in N PROVE down[t.root] = k
  <2> DEFINE G == {n \in N : Covers(o, n, k)}
  <2>1. G \in SUBSET S
    BY <1>10 DEF S
  <2>2. \A n \in G \ Stop : step[n] \in G
    <3> TAKE n \in G \ Stop
    <3>1. n \in N /\ n \in S /\ n # k /\ Covers(o, n, k)
      BY <2>1 DEF Stop
    <3>2. Toward(k, n) \in Sides /\ (o.at[k] < o.at[n] <=> Toward(k, n) = "l")
      BY <1>12, <3>1, TowardIs
    <3>3. t.child[Toward(k, n)][n] \in G
      BY <1>12, <3>1, <3>2, Inside
    <3> QED BY <1>3, <3>1, <3>3 DEF c
  <2>3. StaysIn(G, S, Stop, step) /\ Walks(down, G, Stop, step)
    BY <1>9, <2>1, <2>2 DEF StaysIn, Walks
  <2>4. t.root \in G
    BY <1>12, RootOnTop, RootCovers
  <2>5. down[t.root] \in G /\ down[t.root] \in Stop
    BY <1>6, <2>3, <2>4, WalkEnds
  <2> QED BY <1>10, <2>5 DEF Stop
<1> QED BY <1>5, <1>11, <1>12

(* The leftmost node of a subtree is the first from where it begins. *)
LEMMA LeftmostFirst ==
  ASSUME NEW t, NEW N, NEW o, NEW x, Shape(t, N, o, x), NEW r \in N, NEW y, y = Leftmost(t, r)
  PROVE  /\ y \in N /\ t.child["l"][y] = Nil /\ o.end["l"][y] = o.end["l"][r]
         /\ o.end["l"][r] < o.at[y]
         /\ \A k \in N : o.end["l"][r] < o.at[k] => o.at[y] <= o.at[k]
<1> DEFINE c(n) == t.child["l"][n]
           Stop == {n \in Keys : c(n) = Nil}
           step == [n \in Keys |-> IF c(n) = Nil THEN n ELSE c(n)]
           Eq(h) == h = [n \in Keys |-> IF c(n) = Nil THEN n ELSE h[c(n)]]
           down == CHOOSE h : Eq(h)
           G == {m \in N : o.end["l"][m] = o.end["l"][r]}
<1>1. PICK rank \in [Keys \cup {Nil} -> Nat] : \A n \in Keys, s \in Sides :
           t.child[s][n] \in Keys \cup {Nil} /\ rank[t.child[s][n]] < rank[n]
  BY Descent
<1> DEFINE R == [n \in Keys |-> rank[n]]
<1>2. R \in [Keys -> Nat] /\ \A n \in Keys : R[n] = rank[n]
  OBVIOUS
<1> HIDE DEF R
<1>3. \A n \in Keys : /\ n \in Stop <=> c(n) = Nil
                      /\ n \notin Stop => step[n] = c(n) /\ c(n) \in Keys /\ R[step[n]] < R[n]
  BY <1>1, <1>2, TwoSides
<1>4. Stop \in SUBSET Keys /\ step \in [Keys -> Keys]
  BY <1>3
<1>5. y = down[r]
  BY DEF Leftmost
<1> HIDE DEF step, Stop
<1>6. Descends(Keys, Stop, step)
  BY <1>2, <1>3, <1>4 DEF Descends
<1>7. \E h : Eq(h)
  <2>1. PICK f \in [Keys -> Keys] : Walks(f, Keys, Stop, step)
    BY ONLY <1>6, WalkExists
  <2>2. \A n \in Keys : f[n] = IF c(n) = Nil THEN n ELSE f[c(n)]
    BY ONLY <1>3, <2>1 DEF Walks
  <2> QED BY ONLY <2>2
<1>8. Eq(down)
  BY <1>7
<1> HIDE DEF down
<1>9. Walks(down, Keys, Stop, step)
  BY <1>3, <1>8 DEF Walks
<1>10. G \in SUBSET Keys
  BY ShapeSets
<1>11. \A n \in G \ Stop : step[n] \in G
  <2> TAKE n \in G \ Stop
  <2>1. n \in N /\ n \in Keys /\ o.end["l"][n] = o.end["l"][r] /\ c(n) # Nil /\ step[n] = c(n)
    BY <1>3, <1>10
  <2>2. c(n) \in N /\ o.end["l"][c(n)] = o.end["l"][n]
    BY <2>1, TwoSides, Children
  <2> QED BY <2>1, <2>2
<1>12. StaysIn(G, Keys, Stop, step) /\ Walks(down, G, Stop, step) /\ r \in G
  BY <1>9, <1>10, <1>11 DEF StaysIn, Walks
<1>13. y \in G /\ y \in Stop
  <2> HIDE DEF G
  <2> QED BY <1>5, <1>6, <1>12, WalkEnds
<1>14. y \in N /\ t.child["l"][y] = Nil /\ o.end["l"][y] = o.end["l"][r]
  BY <1>3, <1>10, <1>13
<1>15. /\ o.at[y] \in Nat /\ o.end["l"][r] \in Nat /\ o.end["l"][r] < o.at[y] /\ o.at[y] < o.end["r"][y]
       /\ o.end["r"][y] \in Nat
  BY <1>14, Ends
<1>16. ASSUME NEW k \in N, o.end["l"][r] < o.at[k] PROVE o.at[y] <= o.at[k]
  <2>1. o.at[k] \in Nat
    BY Ends
  <2>2. ASSUME o.at[k] < o.at[y] PROVE FALSE
    <3>1. Covers(o, y, k) /\ y # k
      BY <1>14, <1>15, <1>16, <2>1, <2>2 DEF Covers
    <3>2. t.child["l"][y] \in N
      BY <1>14, <2>2, <3>1, Inside, TwoSides
    <3> QED BY <1>14, <3>2, ShapeSets
  <2> QED BY <1>15, <2>1, <2>2
<1> QED BY <1>14, <1>15, <1>16

(* rb_succ gives the next place, if there is one. *)
Follows(o, N, n, v) ==
  /\ v = Nil => \A k \in N : ~ (o.at[n] < o.at[k])
  /\ v # Nil => v \in N /\ o.at[n] < o.at[v] /\ \A k \in N : o.at[n] < o.at[k] => o.at[v] <= o.at[k]

(* A node without a right child is the last in its subtree. *)
LEMMA LastBelow ==
  ASSUME NEW t, NEW N, NEW o, NEW x, Shape(t, N, o, x), NEW n \in N, t.child["r"][n] = Nil,
         NEW k \in N, o.at[n] < o.at[k]
  PROVE  o.end["r"][n] <= o.at[k]
<1>1. /\ o.at[n] \in Nat /\ o.end["l"][n] \in Nat /\ o.end["r"][n] \in Nat /\ o.at[k] \in Nat
      /\ o.end["l"][n] < o.at[n]
  BY Ends
<1>2. ASSUME o.at[k] < o.end["r"][n] PROVE FALSE
  <2>1. Covers(o, n, k) /\ n # k /\ ~(o.at[k] < o.at[n])
    BY <1>1, <1>2 DEF Covers
  <2>2. t.child["r"][n] \in N
    BY <2>1, Inside, TwoSides
  <2> QED BY <2>2, ShapeSets
<1> QED BY <1>1, <1>2

(* rb_succ returns the next node on the line. *)
LEMMA SuccFollows ==
  ASSUME NEW t, NEW N, NEW o, NEW x, Shape(t, N, o, x), NEW n \in N, NEW v, v = RbSucc(t, n)
  PROVE  Follows(o, N, n, v)
<1>0. Nil \notin N /\ N \subseteq Keys
  BY ShapeSets
<1>1. CASE t.child["r"][n] # Nil
  <2>1. PICK r \in N : r = t.child["r"][n] /\ v = Leftmost(t, r)
    BY <1>1, Children, TwoSides DEF RbSucc
  <2>2. o.end["l"][r] = o.at[n]
    <3>1. "r" \in Sides /\ Other("r") = "l"
      BY TwoSides
    <3> QED BY <2>1, <3>1, Children
  <2> QED BY <1>0, <2>1, <2>2, LeftmostFirst DEF Follows
<1>2. CASE t.child["r"][n] = Nil
  <2> DEFINE Right(m) == t.p[m] # Nil /\ m = t.child["r"][t.p[m]]
             Stop == {m \in Keys : ~ Right(m)}
             step == [m \in Keys |-> IF Right(m) THEN t.p[m] ELSE m]
             Eq(h) == h = [m \in Keys |-> IF Right(m) THEN h[t.p[m]] ELSE t.p[m]]
             up == CHOOSE h : Eq(h)
             G == {m \in N : o.end["r"][m] = o.end["r"][n]}
  <2>1. PICK rank \in [Keys -> Nat] : \A m \in Keys : t.p[m] # Nil =>
           t.p[m] \in Keys /\ rank[t.p[m]] < rank[m]
    BY Ascent
  <2>2. /\ Stop \in SUBSET Keys /\ step \in [Keys -> Keys]
        /\ \A m \in Keys : (m \in Stop <=> ~ Right(m)) /\ (Right(m) => step[m] = t.p[m])
        /\ \A m \in Keys \ Stop : rank[step[m]] < rank[m]
    BY <2>1
  <2>3. v = up[n]
    BY <1>2 DEF RbSucc
  <2> HIDE DEF Stop, step
  <2>4. Descends(Keys, Stop, step)
    BY <2>1, <2>2 DEF Descends
  <2>5. \E h : Eq(h)
    <3>1. PICK f \in [Keys -> Keys] : Walks(f, Keys, Stop, step)
      BY <2>4, WalkExists
    <3>2. PICK h : h = [m \in Keys |-> t.p[f[m]]]
      OBVIOUS
    <3>3. \A m \in Keys : h[m] = IF Right(m) THEN h[t.p[m]] ELSE t.p[m]
      <4> TAKE m \in Keys
      <4>1. CASE Right(m)
        <5>1. f[m] = f[t.p[m]] /\ t.p[m] \in Keys
          BY <2>1, <2>2, <3>1, <4>1 DEF Walks
        <5> QED BY <3>2, <4>1, <5>1
      <4>2. CASE ~ Right(m)
        <5>1. f[m] = m
          BY ONLY <2>2, <3>1, <4>2 DEF Walks
        <5> QED BY <3>2, <4>2, <5>1
      <4> QED BY <4>1, <4>2
    <3>4. Eq(h)
      BY ONLY <3>2, <3>3
    <3> HIDE DEF Eq
    <3> QED BY <3>4
  <2>6. Eq(up)
    BY <2>5
  <2> HIDE DEF up
  <2>7. G \in SUBSET Keys /\ n \in G
    BY ONLY <1>0
  <2>8. \A m \in G \ Stop : step[m] \in G
    <3> TAKE m \in G \ Stop
    <3>1. PICK u \in N : u = t.p[m] /\ m = t.child["r"][u] /\ m \in N /\ step[m] = u
      BY <2>2, <2>7, RootParent
    <3>2. o.end["r"][m] = o.end["r"][u]
      <4>1. m = t.child["r"][u] /\ "r" \in Sides
        BY <3>1, TwoSides
      <4>2. m \in N => o.end["r"][m] = o.end["r"][u]
        BY ONLY Shape(t, N, o, x), u \in N, <4>1, Children
      <4> QED BY ONLY <3>1, <4>2
    <3> QED BY ONLY <3>1, <3>2
  <2>9. \A m \in G : up[m] = IF m \in Stop THEN t.p[m] ELSE up[step[m]]
    BY <2>2, <2>6, <2>7
  <2>10. StaysIn(G, Keys, Stop, step)
    BY <2>7, <2>8 DEF StaysIn
  <2>11. \E e \in G \cap Stop : up[n] = t.p[e]
    <3> HIDE DEF G
    <3> QED BY <2>4, <2>7, <2>9, <2>10, WalkEndsTo
  <2>12. PICK e \in N : /\ o.end["r"][e] = o.end["r"][n] /\ v = t.p[e]
                        /\ ~ (t.p[e] # Nil /\ e = t.child["r"][t.p[e]])
    BY <2>2, <2>3, <2>7, <2>11
  <2>13. \A k \in N : o.at[n] < o.at[k] => o.end["r"][e] <= o.at[k]
    BY <1>2, <2>12, LastBelow
  <2>14. /\ o.at[n] \in Nat /\ o.end["r"][n] \in Nat /\ o.at[n] < o.end["r"][n]
    BY Ends
  <2>15. CASE v = Nil
    <3>1. e = t.root
      BY ONLY Shape(t, N, o, x), <2>12, <2>15, RootParent
    <3>2. \A k \in N : o.at[k] < o.end["r"][e] /\ o.at[k] \in Nat
      BY <3>1, RootCovers, Ends DEF Covers
    <3> QED BY <2>12, <2>13, <2>14, <2>15, <3>2 DEF Follows
  <2>16. CASE v # Nil
    <3>1. e # t.root
      BY <2>12, <2>16, RootParent
    <3>2. v \in N /\ \E s \in Sides : t.child[s][v] = e
      BY <2>12, <3>1, AtParent
    <3>3. t.child["l"][v] = e
      BY <2>12, <2>16, <3>2, TwoSides
    <3>4. o.end["r"][e] = o.at[v]
      <4>1. "l" \in Sides /\ Other("l") = "r"
        BY TwoSides
      <4> QED BY <3>2, <3>3, <4>1, Children
    <3> QED BY <2>12, <2>13, <2>14, <2>16, <3>2, <3>4 DEF Follows
  <2> QED BY <2>15, <2>16
<1> QED BY <1>1, <1>2

-------------------------------------------------------------------------------
(* A new node belongs below n, if anywhere there: those before n's subtree  *)
(* have smaller keys, those after it larger ones.                           *)
Belongs(o, N, n, k) ==
  \A m \in N : (o.at[m] <= o.end["l"][n] => m < k) /\ (o.end["r"][n] <= o.at[m] => k < m)

(* rb_search for an absent key ends at a node that is free on the side of    *)
(* the key, and between whose ends the key belongs.                          *)
LEMMA HotPlace ==
  ASSUME NEW t, NEW N, NEW o, Shape(t, N, o, Nil), NEW k \in Keys \ N, t.root # Nil,
         NEW hot, hot = Hot(t, k)
  PROVE  hot \in N /\ t.child[Toward(k, hot)][hot] = Nil /\ Belongs(o, N, hot, k)
<1> DEFINE c(n) == t.child[Toward(k, n)][n]
           Stop == {n \in Keys : c(n) = Nil}
           step == [n \in Keys |-> IF c(n) = Nil THEN n ELSE c(n)]
           Eq(h) == h = [n \in Keys |-> IF c(n) = Nil THEN n ELSE h[c(n)]]
           down == CHOOSE h : Eq(h)
           G == {n \in N : Belongs(o, N, n, k)}
<1>1. PICK rank \in [Keys \cup {Nil} -> Nat] : \A n \in Keys, s \in Sides :
           t.child[s][n] \in Keys \cup {Nil} /\ rank[t.child[s][n]] < rank[n]
  BY Descent
<1>2. \A n : Toward(k, n) \in Sides
  BY DEF Toward, Sides
<1> DEFINE R == [n \in Keys |-> rank[n]]
<1>3. R \in [Keys -> Nat] /\ \A n \in Keys : R[n] = rank[n]
  OBVIOUS
<1> HIDE DEF R
<1>4. \A n \in Keys : /\ n \in Stop <=> c(n) = Nil
                      /\ n \notin Stop => step[n] = c(n) /\ c(n) \in Keys /\ R[step[n]] < R[n]
  BY <1>1, <1>2, <1>3
<1>5. Stop \in SUBSET Keys /\ step \in [Keys -> Keys]
  BY <1>4
<1>6. hot = down[t.root]
  BY DEF Hot
<1> HIDE DEF step, Stop
<1>7. Descends(Keys, Stop, step)
  BY <1>3, <1>4, <1>5 DEF Descends
<1> HIDE DEF c
<1>8. \E h : Eq(h)
  <2>1. PICK f \in [Keys -> Keys] : Walks(f, Keys, Stop, step)
    BY <1>7, WalkExists
  <2>2. \A n \in Keys : f[n] = IF c(n) = Nil THEN n ELSE f[c(n)]
    BY <1>4, <2>1 DEF Walks
  <2> QED BY <2>2
<1>9. Eq(down)
  BY <1>8
<1> HIDE DEF down
<1>10. Walks(down, Keys, Stop, step)
  BY <1>4, <1>9 DEF Walks
<1>11. N \subseteq Keys /\ N \subseteq Nat /\ k \in Nat /\ t.root \in N /\ Nil \notin N
  BY ShapeSets, KeysFacts
<1>12. t.root \in G
  <2>1. \A m \in N : o.end["l"][t.root] < o.at[m] /\ o.at[m] < o.end["r"][t.root]
    BY RootCovers DEF Covers
  <2>2. /\ o.end["l"][t.root] \in Nat /\ o.end["r"][t.root] \in Nat
        /\ \A m \in N : o.at[m] \in Nat
    BY <1>11, Ends
  <2> QED BY <1>11, <2>1, <2>2 DEF Belongs
<1>13. \A n \in G \ Stop : step[n] \in G
  <2> TAKE n \in G \ Stop
  <2>1. PICK s \in Sides, d \in N : s = Toward(k, n) /\ d = t.child[s][n] /\ step[n] = d
    <3>1. PICK s \in Sides : s = Toward(k, n)
      BY <1>2
    <3>2. n \in N /\ n \in Keys /\ step[n] = t.child[s][n] /\ t.child[s][n] \in Keys
      BY <1>4, <1>11, <3>1 DEF c
    <3>3. t.child[s][n] \in N
      BY <1>11, <3>2, Children, KeysFacts
    <3> QED BY <3>1, <3>2, <3>3
  <2>2. o.end[s][d] = o.end[s][n] /\ o.end[Other(s)][d] = o.at[n]
    BY <2>1, Children
  <2>3. \A m \in N : (o.at[m] <= o.end["l"][d] => m < k) /\ (o.end["r"][d] <= o.at[m] => k < m)
    <3> TAKE m \in N
    <3>1. (o.at[m] <= o.end["l"][n] => m < k) /\ (o.end["r"][n] <= o.at[m] => k < m)
      BY DEF Belongs
    <3>2. o.at[m] \in Nat /\ o.at[n] \in Nat /\ m \in Nat /\ n \in Nat /\ n # k
      BY <1>11, Ends
    <3>3. (o.at[m] < o.at[n] <=> m < n) /\ (o.at[n] < o.at[m] <=> n < m)
      BY <1>11, InOrder
    <3>4. CASE s = "l"
      BY <1>11, <2>1, <2>2, <3>1, <3>2, <3>3, <3>4, TwoSides DEF Toward
    <3>5. CASE s = "r"
      BY <1>11, <2>1, <2>2, <3>1, <3>2, <3>3, <3>5, TwoSides DEF Toward
    <3> QED BY <3>4, <3>5, TwoSides
  <2> QED BY <2>1, <2>3 DEF Belongs
<1>14. StaysIn(G, Keys, Stop, step) /\ Walks(down, G, Stop, step)
  BY <1>10, <1>11, <1>13 DEF StaysIn, Walks
<1>15. hot \in G /\ hot \in Stop
  <2> HIDE DEF G
  <2> QED BY <1>6, <1>7, <1>12, <1>14, WalkEnds
<1> QED BY <1>4, <1>11, <1>15 DEF c

-------------------------------------------------------------------------------
(* Painting and rotating. *)

(* Painting a node leaves the links alone. *)
LEMMA Painting ==
  ASSUME NEW t \in Trees, NEW n \in Keys \cup {Nil}
  PROVE  /\ Black(t, n) \in Trees /\ Red(t, n) \in Trees
         /\ Black(t, n).root = t.root /\ Black(t, n).child = t.child /\ Black(t, n).p = t.p
         /\ Red(t, n).root = t.root /\ Red(t, n).child = t.child /\ Red(t, n).p = t.p
         /\ Black(t, n).black = t.black \cup ({n} \ {Nil})
         /\ Red(t, n).black = t.black \ {n}
<1>1. t.black \in SUBSET Keys /\ t = [root |-> t.root, child |-> t.child, p |-> t.p, black |-> t.black]
  BY DEF Trees
<1>2. /\ Black(t, n) = [root |-> t.root, child |-> t.child, p |-> t.p, black |-> t.black \cup ({n} \ {Nil})]
      /\ Red(t, n) = [root |-> t.root, child |-> t.child, p |-> t.p, black |-> t.black \ {n}]
  BY <1>1 DEF Black, Red
<1>3. t.black \cup ({n} \ {Nil}) \in SUBSET Keys /\ t.black \ {n} \in SUBSET Keys
  BY <1>1
<1> QED BY <1>2, <1>3 DEF Trees

(* Colours do not matter to the shape. *)
SameLinks(t, r) ==
  t \in Trees /\ r \in Trees /\ r.root = t.root /\ r.child = t.child /\ r.p = t.p

(* The layout is about links only. *)
LEMMA PaintedShape ==
  ASSUME NEW t, NEW N, NEW o, NEW x, Shape(t, N, o, x), NEW r, SameLinks(t, r)
  PROVE  Shape(r, N, o, x)
BY ONLY Shape(t, N, o, x), SameLinks(t, r) DEF Shape, Linked, Fits, SameLinks

(* A node n, its parent u, and its child c that comes up; i is the child of *)
(* c that changes hands.                                                    *)
Around(t, N, n, s, u, c, i) ==
  /\ n \in N /\ c \in N /\ s \in Sides /\ u = t.p[n] /\ c = t.child[Other(s)][n] /\ i = t.child[s][c]
  /\ u \in N \cup {Nil} /\ i \in N \cup {Nil} /\ N \subseteq Keys /\ Nil \notin N
  /\ n # c /\ u # n /\ u # c /\ i # n /\ i # c /\ (i # Nil => i # u)
  /\ t.p[c] = n /\ (i # Nil => t.p[i] = c)
  /\ (u # Nil <=> n # t.root) /\ (u # Nil => \E q \in Sides : t.child[q][u] = n)
  /\ c # t.root /\ i # t.root

(* The nodes a rotation moves, and that they differ. *)
LEMMA AroundIs ==
  ASSUME NEW t, NEW N, NEW o, NEW x, Shape(t, N, o, x), NEW n \in N, NEW s \in Sides,
         NEW u, u = t.p[n], NEW c, c = t.child[Other(s)][n], c # Nil, NEW i, i = t.child[s][c]
  PROVE  Around(t, N, n, s, u, c, i)
<1>1. Other(s) \in Sides /\ N \subseteq Keys /\ Nil \notin N
  BY SidesFacts, ShapeSets
<1>2. c \in N /\ t.p[c] = n /\ c # n /\ c # t.root /\ Wide(o, c) < Wide(o, n)
  BY <1>1, Children
<1>3. /\ i \in N \cup {Nil}
      /\ i # Nil => t.p[i] = c /\ i # c /\ i # t.root /\ Wide(o, i) < Wide(o, c)
  BY <1>2, Children
<1>4. u \in N \cup {Nil} /\ u # n /\ (u # Nil <=> n # t.root)
  BY <1>1, RootParent
<1>5. u # Nil => Wide(o, n) < Wide(o, u) /\ \E q \in Sides : t.child[q][u] = n
  BY <1>4, AtParent
<1>6. \A m \in N : Wide(o, m) \in Nat
  BY WideType
<1>7. u # c
  BY <1>1, <1>2, <1>4, <1>5, <1>6
<1>8. i # n
  BY <1>1, <1>2, <1>3, <1>6
<1>9. i # Nil => i # u
  BY <1>2, <1>3, <1>4, <1>5, <1>6
<1>10. i # t.root /\ i # c
  <2>1. t.root # Nil
    BY ONLY Shape(t, N, o, x), <1>1, RootOnTop
  <2> QED BY ONLY <1>1, <1>2, <1>3, <2>1
<1> QED BY <1>1, <1>2, <1>3, <1>4, <1>5, <1>7, <1>8, <1>9, <1>10 DEF Around

Turned(t, r, n, s, u, c, i) ==
  /\ r \in Trees /\ r.black = t.black /\ r.root = (IF u = Nil THEN c ELSE t.root)
  /\ \A m \in Keys : r.p[m] = IF m = c THEN u ELSE IF m = n THEN c ELSE IF m = i THEN n ELSE t.p[m]
  /\ \A m \in Keys, q \in Sides :
       r.child[q][m] = IF m = n /\ q = Other(s) THEN i ELSE IF m = c /\ q = s THEN n
                       ELSE IF m = u /\ t.child[q][u] = n THEN c ELSE t.child[q][m]

(* Rotate changes the links that _left_rotate and _right_rotate assign. *)
LEMMA RotateTurns ==
  ASSUME NEW t, NEW N, NEW o, NEW x, Shape(t, N, o, x), NEW n, NEW s,
         NEW u, NEW c, NEW i, Around(t, N, n, s, u, c, i)
  PROVE  Turned(t, Rotate(t, n, s), n, s, u, c, i)
<1>1. /\ n \in N /\ c \in N /\ s \in Sides /\ u = t.p[n] /\ c = t.child[Other(s)][n]
      /\ i = t.child[s][c] /\ n # Nil /\ c # Nil
      /\ u \in N \cup {Nil} /\ i \in N \cup {Nil} /\ N \subseteq Keys /\ Nil \notin N
      /\ n # c /\ u # n /\ u # c /\ i # n /\ i # c
  BY DEF Around
<1>2. /\ t.child \in [Sides -> [Keys -> Keys \cup {Nil}]] /\ t.p \in [Keys -> Keys \cup {Nil}]
      /\ t.root \in Keys \cup {Nil} /\ t.black \in SUBSET Keys
      /\ t = [root |-> t.root, child |-> t.child, p |-> t.p, black |-> t.black]
  BY DEF Shape, Trees
<1> DEFINE P == [m \in Keys |-> CASE m = c -> u [] m = n -> c [] m = i -> n [] OTHER -> t.p[m]]
           C == [q \in Sides |-> [m \in Keys |->
                      CASE m = n /\ q = Other(s) -> i
                        [] m = c /\ q = s -> n
                        [] m = u /\ q = SideOf(t, n) -> c
                        [] OTHER -> t.child[q][m]]]
           R == IF u = Nil THEN c ELSE t.root
<1>3. Rotate(t, n, s) = [root |-> R, child |-> C, p |-> P, black |-> t.black]
  <2>1. Parent(t, n) = u /\ Child(t, n, Other(s)) = c /\ Child(t, c, s) = i
    BY <1>1 DEF Parent, Child
  <2> QED BY ONLY <1>1, <1>2, <2>1, ZenonT(60) DEF Rotate
<1>4. \A m \in Keys : P[m] = IF m = c THEN u ELSE IF m = n THEN c ELSE IF m = i THEN n ELSE t.p[m]
  <2> TAKE m \in Keys
  <2>1. CASE m = c
    BY <1>1, <2>1
  <2>2. CASE m = n
    BY ONLY <1>1, <2>2
  <2>3. CASE m = i
    BY <1>1, <2>3
  <2>4. CASE m \notin {c, n, i}
    BY <2>4
  <2> QED BY <2>1, <2>2, <2>3, <2>4
<1>5. \A m \in Keys, q \in Sides :
       C[q][m] = IF m = n /\ q = Other(s) THEN i ELSE IF m = c /\ q = s THEN n
                       ELSE IF m = u /\ t.child[q][u] = n THEN c ELSE t.child[q][m]
  <2> TAKE m \in Keys, q \in Sides
  <2>0. m = u => (q = SideOf(t, n) <=> t.child[q][u] = n)
    <3> SUFFICES ASSUME m = u PROVE q = SideOf(t, n) <=> t.child[q][u] = n
      OBVIOUS
    <3>1. u # Nil
      BY <1>1, KeysFacts
    <3>2. n # t.root
      BY <1>1, <3>1, RootParent
    <3>3. SideOf(t, n) \in Sides /\ t.child[SideOf(t, n)][u] = n /\ t.child[Other(SideOf(t, n))][u] # n
      BY <1>1, <3>2, AtParent
    <3>4. q = SideOf(t, n) \/ q = Other(SideOf(t, n))
      BY <3>3, SidesFacts
    <3> QED BY <3>3, <3>4
  <2>1. CASE m = n /\ q = Other(s)
    BY ONLY <1>1, <2>1
  <2>2. CASE m = c /\ q = s
    BY <1>1, <2>2
  <2>3. CASE m = u /\ q = SideOf(t, n)
    BY ONLY <1>1, <2>0, <2>3
  <2>4. CASE ~(m = n /\ q = Other(s)) /\ ~(m = c /\ q = s) /\ ~(m = u /\ q = SideOf(t, n))
    BY ONLY <2>0, <2>4
  <2> QED BY <2>1, <2>2, <2>3, <2>4
<1>6. P \in [Keys -> Keys \cup {Nil}]
  <2>1. \A m \in Keys : P[m] \in Keys \cup {Nil}
    BY <1>1, <1>2, <1>4
  <2>2. P = [m \in Keys |-> P[m]]
    OBVIOUS
  <2> HIDE DEF P
  <2> QED BY ONLY <2>1, <2>2
<1>7. C \in [Sides -> [Keys -> Keys \cup {Nil}]]
  <2> HIDE DEF C
  <2>1. \A q \in Sides, m \in Keys : C[q][m] \in Keys \cup {Nil}
    <3>1. i \in Keys \cup {Nil} /\ n \in Keys /\ c \in Keys
      BY ONLY <1>1
    <3> QED BY ONLY <1>2, <1>5, <3>1
  <2> USE DEF C
  <2>2. C = [q \in Sides |-> C[q]] /\ \A q \in Sides : C[q] = [m \in Keys |-> C[q][m]]
    OBVIOUS
  <2> HIDE DEF C
  <2>3. \A q \in Sides : C[q] \in [Keys -> Keys \cup {Nil}]
    BY <2>1, <2>2
  <2> QED BY <2>2, <2>3
<1>8. R \in Keys \cup {Nil}
  BY <1>1, <1>2
<1> HIDE DEF P, C
<1> QED BY ONLY <1>2, <1>3, <1>4, <1>5, <1>6, <1>7, <1>8 DEF Turned, Trees

(* The layout after a rotation: c takes the room of n and leaves n its part. *)
Moved(o, n, s, c) ==
  [o EXCEPT !.end = [q \in Sides |-> [m \in Keys |->
     IF m = c THEN o.end[q][n] ELSE IF m = n /\ q = Other(s) THEN o.at[c] ELSE o.end[q][m]]]]

(* The layout of the rotated tree differs by the ends of two nodes. *)
LEMMA MovedIs ==
  ASSUME NEW o \in Layouts, NEW n \in Keys, NEW s \in Sides, NEW c \in Keys
  PROVE  /\ Moved(o, n, s, c) \in Layouts
         /\ Moved(o, n, s, c).at = o.at /\ Moved(o, n, s, c).top = o.top
         /\ \A q \in Sides, m \in Keys : Moved(o, n, s, c).end[q][m] =
              IF m = c THEN o.end[q][n] ELSE IF m = n /\ q = Other(s) THEN o.at[c] ELSE o.end[q][m]
<1> DEFINE E == [q \in Sides |-> [m \in Keys |->
     IF m = c THEN o.end[q][n] ELSE IF m = n /\ q = Other(s) THEN o.at[c] ELSE o.end[q][m]]]
<1>1. /\ o.at \in [Keys -> Nat] /\ o.end \in [Sides -> [Keys -> Nat]] /\ o.top \in Nat
      /\ o = [at |-> o.at, end |-> o.end, top |-> o.top]
  BY DEF Layouts
<1>2. \A q \in Sides, m \in Keys : o.end[q][m] \in Nat
  BY <1>1
<1>3. E \in [Sides -> [Keys -> Nat]]
  BY <1>1, <1>2
<1>4. \A q \in Sides, m \in Keys : E[q][m] =
         IF m = c THEN o.end[q][n] ELSE IF m = n /\ q = Other(s) THEN o.at[c] ELSE o.end[q][m]
  OBVIOUS
<1>5. Moved(o, n, s, c) = [at |-> o.at, end |-> E, top |-> o.top]
  <2>1. Moved(o, n, s, c) = [o EXCEPT !.end = E]
    BY ONLY DEF Moved
  <2> HIDE DEF E
  <2> QED BY ONLY <2>1 DEF Layouts
<1> HIDE DEF E
<1> QED BY <1>1, <1>3, <1>4, <1>5 DEF Layouts

(* After a rotation the links are each other's inverse again. *)
LEMMA RotateLinked ==
  ASSUME NEW t, NEW N, NEW o, NEW x, Shape(t, N, o, x), NEW n, NEW s, NEW u, NEW c, NEW i,
         Around(t, N, n, s, u, c, i), NEW r, Turned(t, r, n, s, u, c, i)
  PROVE  Linked(r, N)
<1>1. /\ n \in N /\ c \in N /\ s \in Sides /\ u = t.p[n] /\ c = t.child[Other(s)][n] /\ i = t.child[s][c]
      /\ u \in N \cup {Nil} /\ i \in N \cup {Nil} /\ N \subseteq Keys /\ Nil \notin N
      /\ n # c /\ u # n /\ u # c /\ i # n /\ i # c /\ (i # Nil => i # u)
      /\ t.p[c] = n /\ (i # Nil => t.p[i] = c)
      /\ (u # Nil <=> n # t.root) /\ (u # Nil => \E q \in Sides : t.child[q][u] = n)
      /\ c # t.root /\ i # t.root
  BY ONLY Around(t, N, n, s, u, c, i) DEF Around
<1>2. /\ r.root = (IF u = Nil THEN c ELSE t.root)
      /\ \A m \in Keys : r.p[m] = IF m = c THEN u ELSE IF m = n THEN c ELSE IF m = i THEN n ELSE t.p[m]
      /\ \A m \in Keys, q \in Sides :
           r.child[q][m] = IF m = n /\ q = Other(s) THEN i ELSE IF m = c /\ q = s THEN n
                           ELSE IF m = u /\ t.child[q][u] = n THEN c ELSE t.child[q][m]
  BY ONLY Turned(t, r, n, s, u, c, i) DEF Turned
<1>3. /\ t.root \in N \cup {Nil}
      /\ \A m \in Keys \ N : t.p[m] = Nil /\ \A q \in Sides : t.child[q][m] = Nil
      /\ \A m \in N, q \in Sides :
           /\ t.child[q][m] \in N \cup {Nil}
           /\ t.child[q][m] # Nil => t.p[t.child[q][m]] = m
      /\ \A m \in N : IF m = t.root THEN t.p[m] = Nil
                      ELSE t.p[m] \in N /\ \E q \in Sides : t.child[q][t.p[m]] = m
  BY ONLY Shape(t, N, o, x) DEF Shape, Linked
<1>4. Other(s) \in Sides /\ Other(s) # s /\ \A q \in Sides : q = s \/ q = Other(s)
  BY ONLY <1>1, SidesFacts
<1>5. r.root \in N \cup {Nil}
  BY ONLY <1>1, <1>2, <1>3
<1>6. ASSUME NEW m \in Keys \ N PROVE r.p[m] = Nil /\ \A q \in Sides : r.child[q][m] = Nil
  <2>1. m # n /\ m # c /\ m # i /\ m # u
    BY ONLY <1>1, <1>6, KeysFacts
  <2> QED BY ONLY <1>2, <1>3, <1>6, <2>1
<1>7. ASSUME NEW m \in N, NEW q \in Sides, NEW d, d = r.child[q][m]
      PROVE  d \in N \cup {Nil} /\ (d # Nil => r.p[d] = m)
  <2>0. m \in Keys
    BY ONLY <1>1, <1>7
  <2>1. CASE m = n /\ q = Other(s)
    BY ONLY <1>1, <1>2, <1>7, <2>0, <2>1, SMTT(30)
  <2>2. CASE m = c /\ q = s
    BY ONLY <1>1, <1>2, <1>7, <2>0, <2>2
  <2>3. CASE m = u /\ t.child[q][u] = n
    BY ONLY <1>1, <1>2, <1>7, <2>0, <2>3
  <2>4. CASE ~(m = n /\ q = Other(s)) /\ ~(m = c /\ q = s) /\ ~(m = u /\ t.child[q][u] = n)
    <3>1. d = t.child[q][m] /\ d \in N \cup {Nil} /\ (d # Nil => t.p[d] = m)
      BY ONLY <1>2, <1>3, <1>7, <2>0, <2>4
    <3>2. ASSUME d # Nil PROVE d # c /\ d # n /\ d # i
      <4>1. d = c => m = n /\ q = s
        BY <1>1, <1>4, <2>4, <3>1, <3>2
      <4>2. d # c
        <5>1. t.child[s][n] = t.child[Other(s)][n] => t.child[s][n] = Nil
          BY ONLY Shape(t, N, o, x), <1>1, TwoChildren
        <5> QED BY ONLY <1>1, <3>1, <3>2, <4>1, <5>1
      <4>3. d # n
        BY ONLY <1>1, <2>4, <3>1, <3>2, SMTT(30)
      <4>4. d = i => m = c /\ q = Other(s)
        BY <1>1, <1>4, <2>4, <3>1, <3>2
      <4>5. d # i
        <5>1. t.child[s][c] = t.child[Other(s)][c] => t.child[s][c] = Nil
          BY ONLY Shape(t, N, o, x), <1>1, TwoChildren
        <5> QED BY ONLY <1>1, <3>1, <3>2, <4>4, <5>1
      <4> QED BY ONLY <4>2, <4>3, <4>5, SMTT(30)
    <3> QED BY ONLY <1>1, <1>2, <3>1, <3>2
  <2> QED BY ONLY <2>1, <2>2, <2>3, <2>4
<1>8. ASSUME NEW m \in N
      PROVE  IF m = r.root THEN r.p[m] = Nil
             ELSE r.p[m] \in N /\ \E q \in Sides : r.child[q][r.p[m]] = m
  <2>0. m \in Keys /\ n \in Keys /\ c \in Keys /\ m # Nil
    BY ONLY <1>1
  <2>1. CASE m = c
    <3>1. r.p[c] = u
      BY ONLY <1>2, <2>0
    <3>2. u = Nil <=> c = r.root
      BY ONLY <1>1, <1>2
    <3>3. ASSUME u # Nil PROVE \E q \in Sides : r.child[q][u] = c
      <4>1. PICK q \in Sides : t.child[q][u] = n
        BY ONLY <1>1, <3>3
      <4>2. r.child[q][u] = c
        BY ONLY <1>1, <1>2, <3>3, <4>1
      <4> QED BY ONLY <4>2
    <3> QED BY ONLY <1>1, <2>1, <3>1, <3>2, <3>3
  <2>2. CASE m = n
    <3>1. r.p[n] = c /\ r.child[s][c] = n /\ n # r.root
      BY ONLY <1>1, <1>2, <1>4, <2>0
    <3> QED BY ONLY <1>1, <2>2, <3>1
  <2>3. CASE m = i
    <3>1. r.p[i] = n /\ r.child[Other(s)][n] = i /\ i # r.root
      BY ONLY <1>1, <1>2, <1>4, <2>0, <2>3
    <3> QED BY ONLY <1>1, <1>4, <2>3, <3>1
  <2>4. CASE m \notin {c, n, i}
    <3>1. r.p[m] = t.p[m]
      BY ONLY <1>2, <2>0, <2>4, SMTT(30)
    <3>2. m = r.root <=> m = t.root
      BY <1>1, <1>2, <2>4
    <3>3. ASSUME m # t.root PROVE t.p[m] \in N /\ \E q \in Sides : r.child[q][t.p[m]] = m
      <4>0. t.p[m] \in N /\ \E q \in Sides : t.child[q][t.p[m]] = m
        BY ONLY Shape(t, N, o, x), m \in N, <3>3 DEF Shape, Linked
      <4>1. PICK q \in Sides : t.child[q][t.p[m]] = m
        BY ONLY <4>0
      <4>2. t.p[m] \in N /\ t.p[m] \in Keys
        BY ONLY Shape(t, N, o, x), <4>0, ShapeSets
      <4>3. CASE t.p[m] = n
        <5>1. q = s
          BY ONLY <1>1, <1>4, <2>4, q \in Sides, <4>1, <4>3
        <5>2. n # u /\ n # c /\ s # Other(s)
          BY ONLY <1>1, <1>4
        <5>3. r.child[s][n] = t.child[s][n]
          BY ONLY <1>1, <1>2, <2>0, <5>2
        <5> QED BY ONLY <4>1, <4>2, <4>3, <5>1, <5>3, q \in Sides
      <4>4. CASE t.p[m] = c
        <5>1. q = Other(s)
          BY ONLY <1>1, <1>4, <2>4, q \in Sides, <4>1, <4>4
        <5>2. c # u /\ c # n /\ s # Other(s) /\ Other(s) \in Sides
          BY ONLY <1>1, <1>4
        <5>3. r.child[Other(s)][c] = t.child[Other(s)][c]
          BY ONLY <1>2, <2>0, <5>2
        <5> QED BY ONLY <4>1, <4>2, <4>4, <5>1, <5>3, q \in Sides
      <4>5. CASE t.p[m] \notin {n, c}
        <5>1. ~(q = s /\ t.p[m] = c) /\ ~(t.p[m] = u /\ t.child[q][u] = n)
          BY ONLY <2>4, <4>1, <4>5
        <5>2. r.child[q][t.p[m]] = t.child[q][t.p[m]]
          BY ONLY <1>2, <4>2, <4>5, <5>1, q \in Sides
        <5> QED BY ONLY <4>1, <4>2, <5>2, q \in Sides
      <4> QED BY ONLY <4>2, <4>3, <4>4, <4>5
    <3> QED BY ONLY <1>3, <1>8, <3>1, <3>2, <3>3
  <2> QED BY ONLY <2>1, <2>2, <2>3, <2>4
<1> QED BY ONLY <1>5, <1>6, <1>7, <1>8 DEF Linked

(* A rotation moves no node along the line: the order of the keys stays. *)
LEMMA RotateShape ==
  ASSUME NEW t, NEW N, NEW o, NEW x, Shape(t, N, o, x), NEW n, NEW s, NEW u, NEW c, NEW i,
         Around(t, N, n, s, u, c, i), NEW r, Turned(t, r, n, s, u, c, i)
  PROVE  Shape(r, N, Moved(o, n, s, c), x)
<1>1. /\ n \in N /\ c \in N /\ s \in Sides /\ u = t.p[n] /\ c = t.child[Other(s)][n] /\ i = t.child[s][c]
      /\ u \in N \cup {Nil} /\ i \in N \cup {Nil} /\ N \subseteq Keys /\ Nil \notin N
      /\ n # c /\ u # n /\ u # c /\ i # n /\ i # c /\ t.p[c] = n /\ (i # Nil => t.p[i] = c)
      /\ n \in Keys /\ c \in Keys
  BY DEF Around
<1>2. \A m \in Keys, q \in Sides :
           r.child[q][m] = IF m = n /\ q = Other(s) THEN i ELSE IF m = c /\ q = s THEN n
                           ELSE IF m = u /\ t.child[q][u] = n THEN c ELSE t.child[q][m]
  BY DEF Turned
<1>3. PICK o2 : o2 = Moved(o, n, s, c)
  OBVIOUS
<1>4. /\ o2 \in Layouts /\ o2.at = o.at /\ o2.top = o.top
      /\ \A q \in Sides, m \in Keys : o2.end[q][m] =
              IF m = c THEN o.end[q][n] ELSE IF m = n /\ q = Other(s) THEN o.at[c] ELSE o.end[q][m]
  <2>1. o \in Layouts
    BY ONLY Shape(t, N, o, x) DEF Shape, Fits
  <2>2. n \in Keys /\ s \in Sides /\ c \in Keys
    BY ONLY <1>1
  <2>3. /\ Moved(o, n, s, c) \in Layouts
         /\ Moved(o, n, s, c).at = o.at /\ Moved(o, n, s, c).top = o.top
         /\ \A q \in Sides, m \in Keys : Moved(o, n, s, c).end[q][m] =
              IF m = c THEN o.end[q][n] ELSE IF m = n /\ q = Other(s) THEN o.at[c] ELSE o.end[q][m]
    BY ONLY <2>1, <2>2, MovedIs
  <2> QED BY ONLY <1>3, <2>3
<1>5. /\ Other(s) \in Sides /\ Other(s) # s /\ Other(Other(s)) = s
      /\ \A q \in Sides : q = s \/ q = Other(s)
  BY <1>1, SidesFacts
<1>6. o.end[Other(s)][c] = o.end[Other(s)][n] /\ o.end[s][c] = o.at[n]
  <2>1. c = t.child[Other(s)][n] /\ n \in N /\ c \in N /\ Other(s) \in Sides /\ Other(Other(s)) = s
    BY ONLY <1>1, <1>5
  <2> QED BY ONLY Shape(t, N, o, x), <2>1, Children
<1>7. ASSUME NEW m \in N
      PROVE  /\ o2.end["l"][m] < o2.at[m] /\ o2.at[m] < o2.end["r"][m]
             /\ o2.end["r"][m] <= o2.top
  <2>0. m \in Keys /\ "l" \in Sides /\ "r" \in Sides
    BY ONLY <1>1, TwoSides
  <2>1. /\ o.end["l"][m] < o.at[m] /\ o.at[m] < o.end["r"][m] /\ o.end["r"][m] <= o.top
        /\ o.end["l"][n] < o.at[n] /\ o.at[n] < o.end["r"][n] /\ o.end["r"][n] <= o.top
        /\ o.end["l"][c] < o.at[c] /\ o.at[c] < o.end["r"][c] /\ o.end["r"][c] <= o.top
        /\ o.at[m] \in Nat /\ o.at[n] \in Nat /\ o.at[c] \in Nat /\ o.top \in Nat
        /\ o.end["l"][n] \in Nat /\ o.end["r"][n] \in Nat /\ o.end["l"][c] \in Nat /\ o.end["r"][c] \in Nat
    BY ONLY Shape(t, N, o, x), <1>1, m \in N, Ends
  <2>2. CASE m = c
    <3>1. o2.end["l"][m] = o.end["l"][n] /\ o2.end["r"][m] = o.end["r"][n]
      BY <1>4, <2>0, <2>2
    <3>2. CASE s = "l"
      BY <1>4, <1>6, <2>1, <2>2, <3>1, <3>2, TwoSides
    <3>3. CASE s = "r"
      BY ONLY <1>4, <1>6, <2>1, <2>2, <3>1, <3>3, TwoSides, SMTT(30)
    <3> QED BY <1>1, <3>2, <3>3, TwoSides
  <2>3. CASE m = n
    <3>1. o2.end[s][m] = o.end[s][n] /\ o2.end[Other(s)][m] = o.at[c]
      BY <1>1, <1>4, <1>5, <2>0, <2>3
    <3>2. CASE s = "l"
      BY <1>4, <1>6, <2>1, <2>3, <3>1, <3>2, TwoSides
    <3>3. CASE s = "r"
      BY <1>4, <1>6, <2>1, <2>3, <3>1, <3>3, TwoSides
    <3> QED BY <1>1, <3>2, <3>3, TwoSides
  <2>4. CASE m # c /\ m # n
    BY <1>4, <2>0, <2>1, <2>4
  <2> QED BY ONLY <2>2, <2>3, <2>4
<1>8. ASSUME NEW m \in N, NEW q \in Sides, NEW d, d = r.child[q][m], d # Nil
      PROVE  o2.end[q][d] = o2.end[q][m] /\ o2.end[Other(q)][d] = o2.at[m]
  <2>0. m \in Keys /\ Other(q) \in Sides
    BY ONLY <1>1, <1>8, SidesFacts, SMTT(30)
  <2>1. CASE m = n /\ q = Other(s)
    <3>1. d = i /\ d \in N /\ d \in Keys /\ d # c /\ d # n
      BY <1>1, <1>2, <1>8, <2>0, <2>1
    <3>2. o.end[s][i] = o.end[s][c] /\ o.end[Other(s)][i] = o.at[c]
      <4>1. c \in N /\ s \in Sides /\ t.child[s][c] # Nil /\ i = t.child[s][c]
        BY ONLY <1>1, <3>1, SMTT(30)
      <4> QED BY ONLY Shape(t, N, o, x), <3>1, <4>1 DEF Shape, Fits
    <3>3. o2.end[s][d] = o.end[s][i] /\ o2.end[Other(s)][d] = o.end[Other(s)][i]
      BY ONLY <1>1, <1>4, <1>5, <3>1
    <3> QED BY ONLY <1>1, <1>4, <1>5, <1>6, <2>1, <3>2, <3>3, SMTT(30)
  <2>2. CASE m = c /\ q = s
    <3>1. d = n
      BY ONLY <1>1, <1>2, <1>5, <1>8, <2>0, <2>2
    <3> QED BY ONLY <1>1, <1>4, <1>5, <1>6, <2>2, <3>1
  <2>3. CASE m = u /\ t.child[q][u] = n
    <3>1. d = c
      BY ONLY <1>1, <1>2, <1>8, <2>0, <2>3
    <3>2. o.end[q][n] = o.end[q][u] /\ o.end[Other(q)][n] = o.at[u]
      <4>1. n = t.child[q][u] /\ u \in N /\ n \in N
        BY ONLY <1>1, <1>8, <2>3, SMTT(30)
      <4> QED BY ONLY Shape(t, N, o, x), q \in Sides, <4>1, Children
    <3>3. o2.end[q][c] = o.end[q][n] /\ o2.end[Other(q)][c] = o.end[Other(q)][n]
          /\ o2.end[q][u] = o.end[q][u]
      BY <1>1, <1>4, <2>0, <1>8, <2>3
    <3> QED BY ONLY <1>4, <2>3, <3>1, <3>2, <3>3
  <2>4. CASE ~(m = n /\ q = Other(s)) /\ ~(m = c /\ q = s) /\ ~(m = u /\ t.child[q][u] = n)
    <3>1. d = t.child[q][m]
      BY <1>2, <1>8, <2>0, <2>4
    <3>2. d \in N /\ d \in Keys /\ t.p[d] = m /\ o.end[q][d] = o.end[q][m] /\ o.end[Other(q)][d] = o.at[m]
      <4>1. d \in N /\ d \in Keys
        <5>1. d \in N \cup {Nil} /\ (d # Nil => d \in N)
          BY ONLY Shape(t, N, o, x), m \in N, q \in Sides, <3>1, Children
        <5> QED BY ONLY <1>1, <1>8, <5>1
      <4> QED BY ONLY Shape(t, N, o, x), m \in N, q \in Sides, <3>1, <4>1, Children
    <3>3. d # c
      <4>1. t.child[s][n] = t.child[Other(s)][n] => t.child[s][n] = Nil
        BY ONLY Shape(t, N, o, x), <1>1, TwoChildren
      <4>2. d = c => m = n /\ q = s
        BY ONLY <1>1, <1>5, <2>4, <3>2, q \in Sides
      <4> QED BY ONLY <1>1, <1>8, <3>1, <4>1, <4>2
    <3>4. d # n
      BY <1>1, <2>4, <3>1, <3>2
    <3>5. o2.end[q][d] = o.end[q][d] /\ o2.end[Other(q)][d] = o.end[Other(q)][d]
      BY <1>4, <2>0, <1>8, <3>2, <3>3, <3>4
    <3>6. o2.end[q][m] = o.end[q][m]
      <4>1. CASE m = c
        BY <1>4, <1>5, <1>6, <2>0, <2>4, <4>1
      <4>2. CASE m # c
        BY <1>4, <1>5, <2>0, <2>4, <4>2
      <4> QED BY <4>1, <4>2
    <3> QED BY <1>4, <3>2, <3>5, <3>6
  <2> QED BY ONLY <2>1, <2>2, <2>3, <2>4
<1>9. Fits(r, N, o2)
  BY <1>4, <1>7, <1>8 DEF Fits
<1>10. Sorted(o2, N, x)
  BY <1>4 DEF Shape, Sorted
<1>11. Linked(r, N) /\ r \in Trees /\ N \in SUBSET Keys
  BY RotateLinked DEF Turned, Shape
<1> QED BY ONLY <1>3, <1>9, <1>10, <1>11, SMTT(30) DEF Shape

-------------------------------------------------------------------------------
(* Colours and heights. *)

(* The black nodes that m stands for: a node x being removed for none, the  *)
(* node e of _fix_bb_new for one more.                                      *)
Weight(t, m, x, e) == (IF m = x \/ m \notin t.black THEN 0 ELSE 1) + (IF m = e THEN 1 ELSE 0)

(* H[m] is the number of black nodes on any way down from m. *)
Heights == [Keys \cup {Nil} -> Nat]
EvenBut(t, H, x, e, M) ==
  /\ H \in Heights /\ H[Nil] = 0
  /\ \A m \in Keys \ M, s \in Sides : H[m] = H[t.child[s][m]] + Weight(t, m, x, e)
Even(t, H, x, e) == EvenBut(t, H, x, e, {})

(* No red node has a red parent, but for a and for what is below e. *)
Coloured(t, N, a, e) ==
  \A m \in N : m \notin t.black /\ t.p[m] \notin t.black \cup {Nil} => m = a \/ t.p[m] = e

(* A node adds 0, 1 or 2 to the height of its children. *)
LEMMA WeightType ==
  ASSUME NEW t, NEW m, NEW x, NEW e
  PROVE  Weight(t, m, x, e) \in 0 .. 2
BY DEF Weight

(* A height is a number. *)
LEMMA HeightType ==
  ASSUME NEW t, NEW H, NEW x, NEW e, NEW M, EvenBut(t, H, x, e, M), NEW n \in Keys \cup {Nil}
  PROVE  H[n] \in Nat
BY DEF EvenBut, Heights

(* The height of a node is free where no node is above it. *)
LEMMA RootAdjust ==
  ASSUME NEW t, NEW N, NEW o, NEW x, Shape(t, N, o, x), NEW n \in N,
         NEW H, NEW e, EvenBut(t, H, x, e, {t.root}),
         H[t.child["l"][t.root]] = H[t.child["r"][t.root]]
  PROVE  \E G : Even(t, G, x, e) /\ \A m \in Keys \ {t.root} : G[m] = H[m]
<1>1. /\ t.root \in N /\ t.root \in Keys /\ t.root # Nil
      /\ \A m \in Keys, s \in Sides : t.child[s][m] \in Keys \cup {Nil}
      /\ N \subseteq Keys
  BY RootOnTop, ShapeSets
<1>2. PICK W : W = Weight(t, t.root, x, e)
  OBVIOUS
<1>3. W \in Nat
  BY <1>2, WeightType
<1>4. H \in [Keys \cup {Nil} -> Nat] /\ H[Nil] = 0
  BY DEF EvenBut, Heights
<1>5. PICK G : G = [H EXCEPT ![t.root] = H[t.child["l"][t.root]] + W]
  OBVIOUS
<1>6. /\ G \in [Keys \cup {Nil} -> Nat] /\ G[t.root] = H[t.child["l"][t.root]] + W
      /\ \A m \in Keys \cup {Nil} : m # t.root => G[m] = H[m]
  BY <1>1, <1>3, <1>4, <1>5, TwoSides
<1>7. \A m \in Keys, s \in Sides : t.child[s][m] # t.root
  <2> SUFFICES ASSUME NEW m \in Keys, NEW s \in Sides, t.child[s][m] = t.root PROVE FALSE
    OBVIOUS
  <2>1. CASE m \in N
    BY <1>1, <2>1, Children
  <2>2. CASE m \notin N
    BY <1>1, <2>2 DEF Shape, Linked
  <2> QED BY <2>1, <2>2
<1>8. ASSUME NEW m \in Keys, NEW s \in Sides PROVE G[m] = G[t.child[s][m]] + Weight(t, m, x, e)
  <2>1. G[t.child[s][m]] = H[t.child[s][m]]
    BY <1>1, <1>6, <1>7
  <2>2. CASE m = t.root
    <3>1. H[t.child[s][m]] = H[t.child["l"][t.root]]
      BY <2>2, TwoSides
    <3> QED BY <1>2, <1>6, <2>1, <2>2, <3>1
  <2>3. CASE m # t.root
    BY <1>6, <2>1, <2>3 DEF EvenBut
  <2> QED BY <2>2, <2>3
<1>9. Even(t, G, x, e)
  BY ONLY <1>1, <1>4, <1>6, <1>8 DEF Even, EvenBut, Heights
<1> QED BY <1>6, <1>9

(* A rotation evens what it turns: the heights of n and c are made anew. *)
LEMMA RotateEven ==
  ASSUME NEW t, NEW N, NEW o, NEW x, Shape(t, N, o, x),
         NEW n, NEW s, NEW u, NEW c, NEW i, Around(t, N, n, s, u, c, i),
         NEW r, Turned(t, r, n, s, u, c, i),
         NEW H, NEW e, EvenBut(t, H, x, e, {n, c}),
         H[t.child[s][n]] = H[i],
         H[t.child[Other(s)][c]] = H[i] + Weight(t, n, x, e),
         u # Nil => H[n] = H[i] + Weight(t, n, x, e) + Weight(t, c, x, e)
  PROVE  \E G : /\ Even(r, G, x, e)
                /\ \A m \in Keys \ {n, c} : G[m] = H[m]
                /\ G[n] = H[i] + Weight(t, n, x, e)
                /\ G[c] = H[i] + Weight(t, n, x, e) + Weight(t, c, x, e)
<1>1. /\ n \in N /\ c \in N /\ s \in Sides /\ u = t.p[n] /\ c = t.child[Other(s)][n] /\ i = t.child[s][c]
      /\ u \in N \cup {Nil} /\ i \in N \cup {Nil} /\ N \subseteq Keys /\ Nil \notin N
      /\ n # c /\ u # n /\ u # c /\ i # n /\ i # c /\ t.p[c] = n /\ (i # Nil => t.p[i] = c)
      /\ n \in Keys /\ c \in Keys /\ i \in Keys \cup {Nil} /\ n # Nil /\ c # Nil
  BY ONLY Shape(t, N, o, x), Around(t, N, n, s, u, c, i) DEF Around
<1>2. /\ r.black = t.black
      /\ \A m \in Keys, q \in Sides :
           r.child[q][m] = IF m = n /\ q = Other(s) THEN i ELSE IF m = c /\ q = s THEN n
                           ELSE IF m = u /\ t.child[q][u] = n THEN c ELSE t.child[q][m]
  BY ONLY Turned(t, r, n, s, u, c, i), SMTT(30) DEF Turned
<1>3. /\ Other(s) \in Sides /\ Other(s) # s /\ Other(Other(s)) = s
      /\ \A q \in Sides : q = s \/ q = Other(s)
  BY <1>1, SidesFacts
<1>4. /\ H \in [Keys \cup {Nil} -> Nat] /\ H[Nil] = 0
      /\ \A m \in Keys \ {n, c}, q \in Sides : H[m] = H[t.child[q][m]] + Weight(t, m, x, e)
  BY DEF EvenBut, Heights
<1>5. PICK A, B : A = Weight(t, n, x, e) /\ B = Weight(t, c, x, e)
  OBVIOUS
<1>6. A \in Nat /\ B \in Nat /\ H[i] \in Nat
  <2>1. A \in 0 .. 2 /\ B \in 0 .. 2
    BY ONLY <1>5, WeightType
  <2>2. A \in Nat /\ B \in Nat
    BY ONLY <2>1
  <2>3. H[i] \in Nat
    BY ONLY <1>1, <1>4
  <2> QED BY <2>2, <2>3
<1>7. PICK G : G = [m \in Keys \cup {Nil} |-> IF m = n THEN H[i] + A ELSE IF m = c THEN H[i] + A + B ELSE H[m]]
  BY ZenonT(30)
<1>8. /\ G \in [Keys \cup {Nil} -> Nat] /\ G[n] = H[i] + A /\ G[c] = H[i] + A + B
      /\ \A m \in Keys \cup {Nil} : m \notin {n, c} => G[m] = H[m]
  <2>1. \A m \in Keys \cup {Nil} : (IF m = n THEN H[i] + A ELSE IF m = c THEN H[i] + A + B ELSE H[m]) \in Nat
    BY ONLY <1>4, <1>6
  <2> QED BY ONLY <1>1, <1>7, <2>1
<1>9. \A m : Weight(r, m, x, e) = Weight(t, m, x, e)
  BY <1>2 DEF Weight
<1>10. ASSUME NEW m \in Keys, NEW q \in Sides PROVE G[m] = G[r.child[q][m]] + Weight(r, m, x, e)
  <2>1. CASE m = n
    <3>1. PICK a : a = r.child[q][n]
      BY Zenon
    <3>2. H[a] = H[i] /\ a \in Keys \cup {Nil} /\ a \notin {n, c}
      <4>1. CASE q = Other(s)
        BY ONLY <1>1, <1>2, <3>1, <4>1
      <4>2. CASE q = s
        <5>1. a = t.child[s][n]
          BY ONLY <1>1, <1>2, <1>3, <3>1, <4>2
        <5>2. a \in Keys \cup {Nil} /\ a # n
          <6>1. a \in Keys \cup {Nil} /\ (a \in N => a # n)
            BY ONLY Shape(t, N, o, x), <1>1, <5>1, Children
          <6> QED BY ONLY <1>1, <6>1
        <5>3. a # c
          <6>1. t.child[s][n] = t.child[Other(s)][n] => t.child[s][n] = Nil
            BY ONLY Shape(t, N, o, x), <1>1, TwoChildren
          <6> QED BY ONLY <1>1, <5>1, <6>1
        <5> QED BY ONLY H[t.child[s][n]] = H[i], <5>1, <5>2, <5>3
      <4> QED BY ONLY <1>3, <4>1, <4>2
    <3> QED BY ONLY <1>5, <1>8, <1>9, <2>1, <3>1, <3>2
  <2>2. CASE m = c
    <3>1. PICK a : a = r.child[q][c]
      OBVIOUS
    <3>2. G[a] = H[i] + A
      <4>1. CASE q = s
        BY ONLY <1>1, <1>2, <1>3, <1>8, <3>1, <4>1
      <4>2. CASE q = Other(s)
        <5>1. a = t.child[Other(s)][c]
          BY ONLY <1>1, <1>2, <1>3, <3>1, <4>2
        <5>2. a \in Keys \cup {Nil} /\ a # c
          <6>1. a \in Keys \cup {Nil} /\ (a \in N => a # c)
            BY ONLY Shape(t, N, o, x), <1>1, <1>3, <5>1, Children
          <6> QED BY ONLY <1>1, <6>1
        <5>3. a # n
          <6> SUFFICES ASSUME a = n PROVE FALSE
            BY Zenon
          <6>1. t.p[n] = c
            <7>1. c \in N /\ n # Nil
              BY ONLY <1>1
            <7>2. Other(s) \in Sides
              BY ONLY <1>3
            <7>3. n = t.child[Other(s)][c]
              BY ONLY <5>1, a = n
            <7> QED BY ONLY <7>1, <7>2, <7>3, Shape(t, N, o, x) DEF Shape, Linked
          <6> QED BY ONLY <1>1, <6>1
        <5> QED BY ONLY H[t.child[Other(s)][c]] = H[i] + Weight(t, n, x, e), <1>5, <1>8, <5>1, <5>2, <5>3
      <4>3. q = s \/ q = Other(s)
        BY ONLY <1>3, q \in Sides
      <4> QED BY ONLY <4>1, <4>2, <4>3
    <3> QED BY <1>5, <1>6, <1>8, <1>9, <2>2, <3>1, <3>2
  <2>3. CASE m \notin {n, c} /\ m = u /\ t.child[q][u] = n
    <3>1. r.child[q][m] = c /\ u # Nil
      BY <1>2, <2>3, KeysFacts
    <3>2. H[m] = H[n] + Weight(t, m, x, e)
      BY <1>4, <2>3
    <3> QED BY <1>5, <1>8, <1>9, <2>3, <3>1, <3>2
  <2>4. CASE m \notin {n, c} /\ ~(m = u /\ t.child[q][u] = n)
    <3>1. PICK a : a = t.child[q][m]
      OBVIOUS
    <3>2. r.child[q][m] = a
      BY <1>2, <2>4, <3>1
    <3>3. a \in Keys \cup {Nil}
      BY <3>1, ShapeSets
    <3>4. a # n /\ a # c
      <4>1. CASE m \in N
        <5>1. a \in N => t.p[a] = m
          BY ONLY Shape(t, N, o, x), <3>1, <4>1, q \in Sides, Children
        <5>2. n \in N /\ c \in N /\ t.p[n] = u /\ t.p[c] = n /\ m # n
          BY ONLY <1>1, <2>4
        <5>3. m = u => a # n
          BY ONLY <2>4, <3>1
        <5> QED BY ONLY <5>1, <5>2, <5>3
      <4>2. CASE m \notin N
        <5>1. a = Nil
          BY ONLY Shape(t, N, o, x), <3>1, <4>2, m \in Keys, q \in Sides DEF Shape, Linked
        <5> QED BY ONLY <1>1, <5>1
      <4> QED BY <4>1, <4>2
    <3> QED BY <1>4, <1>8, <1>9, <2>4, <3>1, <3>2, <3>3, <3>4
  <2> QED BY <2>1, <2>2, <2>3, <2>4
<1>11. Even(r, G, x, e)
  <2>1. G[Nil] = 0
    BY ONLY <1>1, <1>4, <1>8
  <2> QED BY ONLY <1>8, <1>10, <2>1 DEF Even, EvenBut, Heights
<1> QED BY ONLY <1>5, <1>8, <1>11

-------------------------------------------------------------------------------
(* Insertion. *)

(* The tree of the nodes N is a search tree with even ways down; a red node *)
(* a may have a red parent, and z may be a red root.                        *)
Good(t, N, a, z) ==
  /\ \E o, H : Shape(t, N, o, Nil) /\ Even(t, H, Nil, Nil)
  /\ Coloured(t, N, a, Nil) /\ t.root \in t.black \cup {z}

(* r is t with k linked below hot on the side s. *)
Linking(t, r, k, hot, s) ==
  /\ r \in Trees /\ r.root = t.root /\ r.black = t.black \ {k}
  /\ \A m \in Keys : r.p[m] = IF m = k THEN hot ELSE t.p[m]
  /\ \A m \in Keys, q \in Sides :
       r.child[q][m] = IF m = k THEN Nil ELSE IF m = hot /\ q = s THEN k ELSE t.child[q][m]

(* What rb_insert assigns when it links k below hot. *)
LEMMA LinkingIs ==
  ASSUME NEW t \in Trees, NEW k \in Keys, NEW hot \in Keys, hot # k, NEW s \in Sides,
         NEW r, r = [t EXCEPT !.p[k] = hot,
                              !.child = [q \in Sides |-> [n \in Keys |->
                                  CASE n = k -> Nil
                                    [] n = hot /\ q = s -> k
                                    [] OTHER -> @[q][n]]],
                              !.black = @ \ {k}]
  PROVE  Linking(t, r, k, hot, s)
<1>1. /\ t.child \in [Sides -> [Keys -> Keys \cup {Nil}]] /\ t.p \in [Keys -> Keys \cup {Nil}]
      /\ t.root \in Keys \cup {Nil} /\ t.black \in SUBSET Keys
      /\ t = [root |-> t.root, child |-> t.child, p |-> t.p, black |-> t.black]
  BY DEF Trees
<1> DEFINE P == [t.p EXCEPT ![k] = hot]
           C == [q \in Sides |-> [n \in Keys |-> CASE n = k -> Nil
                                    [] n = hot /\ q = s -> k
                                    [] OTHER -> t.child[q][n]]]
<1>2. r = [root |-> t.root, child |-> C, p |-> P, black |-> t.black \ {k}]
  BY <1>1
<1>3. \A m \in Keys : P[m] = IF m = k THEN hot ELSE t.p[m]
  BY <1>1
<1>4. \A m \in Keys, q \in Sides :
       C[q][m] = IF m = k THEN Nil ELSE IF m = hot /\ q = s THEN k ELSE t.child[q][m]
  <2> TAKE m \in Keys, q \in Sides
  <2>1. CASE m = k
    BY <2>1
  <2>2. CASE m = hot /\ q = s
    BY <2>2
  <2>3. CASE m # k /\ ~(m = hot /\ q = s)
    BY <2>3
  <2> QED BY <2>1, <2>2, <2>3
<1>5. P \in [Keys -> Keys \cup {Nil}]
  BY <1>1
<1>6. C \in [Sides -> [Keys -> Keys \cup {Nil}]]
  <2>1. \A q \in Sides, m \in Keys : C[q][m] \in Keys \cup {Nil}
    BY <1>1, <1>4
  <2>2. C = [q \in Sides |-> C[q]] /\ \A q \in Sides : C[q] = [m \in Keys |-> C[q][m]]
    OBVIOUS
  <2> HIDE DEF C
  <2>3. \A q \in Sides : C[q] \in [Keys -> Keys \cup {Nil}]
    BY <2>1, <2>2
  <2> QED BY <2>2, <2>3
<1> HIDE DEF P, C
<1>7. r.root = t.root /\ r.child = C /\ r.p = P /\ r.black = t.black \ {k}
  BY ONLY <1>2
<1>8. r \in Trees
  <2>1. t.black \ {k} \in SUBSET Keys /\ t.root \in Keys \cup {Nil}
    BY <1>1
  <2> QED BY ONLY <1>2, <1>5, <1>6, <2>1 DEF Trees
<1> QED BY ONLY <1>3, <1>4, <1>7, <1>8 DEF Linking

(* The layout with k: places are doubled, and k is next to hot. *)
Widened(o, k, hot, s) ==
  [at |-> [m \in Keys |-> IF m = k THEN (IF s = "l" THEN 2 * o.at[hot] - 1 ELSE 2 * o.at[hot] + 1)
                          ELSE 2 * o.at[m]],
   end |-> [q \in Sides |-> [m \in Keys |->
              IF m = k THEN (IF q = s THEN 2 * o.end[s][hot] ELSE 2 * o.at[hot])
              ELSE 2 * o.end[q][m]]],
   top |-> 2 * o.top]

(* The new layout stretches the line to make room for k. *)
LEMMA WidenedIs ==
  ASSUME NEW o \in Layouts, NEW k \in Keys, NEW hot \in Keys, NEW s \in Sides, o.at[hot] > 0,
         NEW o2, o2 = Widened(o, k, hot, s)
  PROVE  /\ o2 \in Layouts /\ o2.top = 2 * o.top
         /\ o2.at[k] = IF s = "l" THEN 2 * o.at[hot] - 1 ELSE 2 * o.at[hot] + 1
         /\ \A m \in Keys : m # k => o2.at[m] = 2 * o.at[m]
         /\ o2.end[s][k] = 2 * o.end[s][hot] /\ o2.end[Other(s)][k] = 2 * o.at[hot]
         /\ \A m \in Keys, q \in Sides : m # k => o2.end[q][m] = 2 * o.end[q][m]
<1>1. /\ o.at \in [Keys -> Nat] /\ o.end \in [Sides -> [Keys -> Nat]] /\ o.top \in Nat
  BY DEF Layouts
<1>2. /\ \A m \in Keys : o.at[m] \in Nat
      /\ \A m \in Keys, q \in Sides : o.end[q][m] \in Nat
  BY <1>1
<1> DEFINE A == [m \in Keys |-> IF m = k THEN (IF s = "l" THEN 2 * o.at[hot] - 1 ELSE 2 * o.at[hot] + 1)
                          ELSE 2 * o.at[m]]
           E == [q \in Sides |-> [m \in Keys |->
                    IF m = k THEN (IF q = s THEN 2 * o.end[s][hot] ELSE 2 * o.at[hot])
                    ELSE 2 * o.end[q][m]]]
<1>3. o2 = [at |-> A, end |-> E, top |-> 2 * o.top]
  BY DEF Widened
<1>4. \A m \in Keys : A[m] \in Nat
  BY <1>2
<1>5. \A q \in Sides, m \in Keys : E[q][m] \in Nat
  <2> TAKE q \in Sides, m \in Keys
  <2>1. o.end[s][hot] \in Nat /\ o.at[hot] \in Nat /\ o.end[q][m] \in Nat
    BY <1>2
  <2>2. E[q][m] = IF m = k THEN (IF q = s THEN 2 * o.end[s][hot] ELSE 2 * o.at[hot])
                    ELSE 2 * o.end[q][m]
    OBVIOUS
  <2> HIDE DEF E
  <2> QED BY ONLY <2>1, <2>2
<1>6. A \in [Keys -> Nat]
  <2>1. A = [m \in Keys |-> A[m]]
    OBVIOUS
  <2> HIDE DEF A
  <2> QED BY <1>4, <2>1
<1>7. E \in [Sides -> [Keys -> Nat]]
  <2>2. E = [q \in Sides |-> E[q]] /\ \A q \in Sides : E[q] = [m \in Keys |-> E[q][m]]
    OBVIOUS
  <2> HIDE DEF E
  <2>3. \A q \in Sides : E[q] \in [Keys -> Nat]
    BY <1>5, <2>2
  <2> QED BY <2>2, <2>3
<1>8. /\ A[k] = IF s = "l" THEN 2 * o.at[hot] - 1 ELSE 2 * o.at[hot] + 1
      /\ \A m \in Keys : m # k => A[m] = 2 * o.at[m]
  OBVIOUS
<1>9. /\ E[s][k] = 2 * o.end[s][hot] /\ E[Other(s)][k] = 2 * o.at[hot]
      /\ \A m \in Keys, q \in Sides : m # k => E[q][m] = 2 * o.end[q][m]
  BY SidesFacts
<1>10. 2 * o.top \in Nat
  BY <1>1
<1> HIDE DEF A, E
<1> QED BY <1>3, <1>6, <1>7, <1>8, <1>9, <1>10 DEF Layouts

(* Where k comes in the order of the nodes. *)
LEMMA Between ==
  ASSUME NEW t, NEW N, NEW o, Shape(t, N, o, Nil), NEW k \in Keys \ N, NEW hot \in N,
         NEW s, s = Toward(k, hot), t.child[s][hot] = Nil, Belongs(o, N, hot, k), NEW m \in N
  PROVE  /\ s = "l" => \/ m < k /\ o.at[m] < o.at[hot]
                       \/ k < m /\ o.at[hot] <= o.at[m]
         /\ s = "r" => \/ m < k /\ o.at[m] <= o.at[hot]
                       \/ k < m /\ o.at[hot] < o.at[m]
<1>1. /\ o.at[m] \in Nat /\ o.at[hot] \in Nat /\ o.end["l"][hot] \in Nat /\ o.end["r"][hot] \in Nat
      /\ o.end["l"][hot] < o.at[hot] /\ o.at[hot] < o.end["r"][hot]
  BY Ends
<1>2. m \in Nat /\ hot \in Nat /\ k \in Nat /\ hot # k /\ Nil \notin N
  BY ShapeSets, KeysFacts
<1>3. /\ o.at[m] < o.at[hot] <=> m < hot
      /\ o.at[hot] < o.at[m] <=> hot < m
  BY <1>2, InOrder
<1>4. (o.at[m] <= o.end["l"][hot] => m < k) /\ (o.end["r"][hot] <= o.at[m] => k < m)
  BY DEF Belongs
<1>5. ASSUME Covers(o, hot, m), hot # m, s = (IF o.at[m] < o.at[hot] THEN "l" ELSE "r") PROVE FALSE
  <2>1. s \in Sides /\ (o.at[m] < o.at[hot] <=> s = "l")
    BY <1>5 DEF Sides
  <2>2. t.child[s][hot] \in N
    BY <1>5, <2>1, Inside
  <2> QED BY <1>2, <2>2
<1>6. m = hot => o.at[m] = o.at[hot]
  OBVIOUS
<1>7. s = (IF k < hot THEN "l" ELSE "r")
  BY DEF Toward
<1> QED BY <1>1, <1>2, <1>3, <1>4, <1>5, <1>6, <1>7 DEF Covers

(* The new node is in its order among the others. *)
LEMMA LinkShape ==
  ASSUME NEW t, NEW N, NEW o, Shape(t, N, o, Nil), NEW k \in Keys \ N, NEW hot \in N,
         NEW s, s = Toward(k, hot), t.child[s][hot] = Nil, Belongs(o, N, hot, k),
         NEW r, Linking(t, r, k, hot, s)
  PROVE  Shape(r, N \cup {k}, Widened(o, k, hot, s), Nil)
<1>1. /\ N \subseteq Keys /\ Nil \notin N /\ k # Nil /\ hot # k /\ hot # Nil /\ hot \in Keys /\ s \in Sides
  BY ShapeSets, KeysFacts DEF Toward, Sides
<1>2. /\ r \in Trees /\ r.root = t.root
      /\ \A m \in Keys : r.p[m] = IF m = k THEN hot ELSE t.p[m]
      /\ \A m \in Keys, q \in Sides :
           r.child[q][m] = IF m = k THEN Nil ELSE IF m = hot /\ q = s THEN k ELSE t.child[q][m]
  BY DEF Linking
<1>3. PICK o2 : o2 = Widened(o, k, hot, s)
  OBVIOUS
<1>4. /\ o2 \in Layouts /\ o2.top = 2 * o.top
      /\ o2.at[k] = IF s = "l" THEN 2 * o.at[hot] - 1 ELSE 2 * o.at[hot] + 1
      /\ \A m \in Keys : m # k => o2.at[m] = 2 * o.at[m]
      /\ o2.end[s][k] = 2 * o.end[s][hot] /\ o2.end[Other(s)][k] = 2 * o.at[hot]
      /\ \A m \in Keys, q \in Sides : m # k => o2.end[q][m] = 2 * o.end[q][m]
  <2>1. o \in Layouts /\ o.at[hot] > 0
    <3>1. o \in Layouts
      BY DEF Shape, Fits
    <3>2. o.at[hot] \in Nat /\ o.end["l"][hot] < o.at[hot] /\ o.end["l"][hot] \in Nat
      BY Ends
    <3> QED BY <3>1, <3>2
  <2> QED BY ONLY <1>1, <1>3, <2>1, k \in Keys, WidenedIs
<1>5. /\ t.root \in N \cup {Nil}
      /\ \A n \in Keys \ N : t.p[n] = Nil /\ \A q \in Sides : t.child[q][n] = Nil
      /\ \A n \in N, q \in Sides :
           /\ t.child[q][n] \in N \cup {Nil}
           /\ t.child[q][n] # Nil => t.p[t.child[q][n]] = n
      /\ \A n \in N : IF n = t.root THEN t.p[n] = Nil
                      ELSE t.p[n] \in N /\ \E q \in Sides : t.child[q][t.p[n]] = n
  BY DEF Shape, Linked
<1>6. ASSUME NEW n \in N \cup {k}, NEW q \in Sides
      PROVE  /\ r.child[q][n] \in N \cup {k} \cup {Nil}
             /\ r.child[q][n] # Nil => r.p[r.child[q][n]] = n
  <2>1. CASE n = k
    BY <1>1, <1>2, <2>1
  <2>2. CASE n = hot /\ q = s
    BY <1>1, <1>2, <2>2
  <2>3. CASE n # k /\ ~(n = hot /\ q = s)
    <3>1. r.child[q][n] = t.child[q][n] /\ t.child[q][n] \in N \cup {Nil} /\ t.child[q][n] # k
      BY <1>1, <1>2, <1>5, <1>6, <2>3
    <3> QED BY <1>1, <1>2, <1>5, <1>6, <2>3, <3>1
  <2> QED BY <2>1, <2>2, <2>3
<1>7. ASSUME NEW n \in N \cup {k}
      PROVE  IF n = r.root THEN r.p[n] = Nil
             ELSE r.p[n] \in N \cup {k} /\ \E q \in Sides : r.child[q][r.p[n]] = n
  <2>1. CASE n = k
    <3>1. k # r.root /\ r.p[k] = hot /\ r.child[s][hot] = k
      BY <1>1, <1>2, <1>5
    <3> QED BY <1>1, <2>1, <3>1
  <2>2. CASE n # k /\ n = t.root
    BY <1>1, <1>2, <1>5, <2>2
  <2>3. CASE n # k /\ n # t.root
    <3>1. PICK u, q : u = t.p[n] /\ u \in N /\ q \in Sides /\ t.child[q][u] = n
      BY <1>5, <2>3
    <3>2. n \in N /\ n \in Keys /\ n # Nil /\ u # k /\ u \in Keys
      BY <1>1, <2>3, <3>1
    <3>3. r.p[n] = u
      BY <1>2, <2>3, <3>1, <3>2
    <3>4. r.child[q][u] = n
      BY <1>2, <3>1, <3>2
    <3> QED BY <1>2, <2>3, <3>1, <3>3, <3>4
  <2> QED BY <2>1, <2>2, <2>3
<1>8. Linked(r, N \cup {k})
  <2>1. ASSUME NEW n \in Keys \ (N \cup {k})
        PROVE  r.p[n] = Nil /\ \A q \in Sides : r.child[q][n] = Nil
    BY <1>2, <1>5, <2>1
  <2> QED BY <1>2, <1>5, <1>6, <1>7, <2>1 DEF Linked
<1>9. ASSUME NEW n \in N \cup {k}
      PROVE  o2.end["l"][n] < o2.at[n] /\ o2.at[n] < o2.end["r"][n] /\ o2.end["r"][n] <= o2.top
  <2>1. /\ o.at[hot] \in Nat /\ o.end["l"][hot] \in Nat /\ o.end["r"][hot] \in Nat /\ o.top \in Nat
        /\ o.end["l"][hot] < o.at[hot] /\ o.at[hot] < o.end["r"][hot] /\ o.end["r"][hot] <= o.top
    BY Ends
  <2>2. CASE n = k /\ s = "l"
    BY <1>4, <2>1, <2>2, TwoSides
  <2>3. CASE n = k /\ s = "r"
    BY <1>4, <2>1, <2>3, TwoSides
  <2>4. CASE n # k
    <3>1. /\ o.at[n] \in Nat /\ o.end["l"][n] \in Nat /\ o.end["r"][n] \in Nat
          /\ o.end["l"][n] < o.at[n] /\ o.at[n] < o.end["r"][n] /\ o.end["r"][n] <= o.top
      BY <2>4, Ends
    <3>2. o2.at[n] = 2 * o.at[n] /\ o2.end["l"][n] = 2 * o.end["l"][n] /\ o2.end["r"][n] = 2 * o.end["r"][n]
      BY <1>1, <1>4, <2>4, TwoSides
    <3> QED BY <1>4, <2>1, <3>1, <3>2
  <2> QED BY <1>1, <2>2, <2>3, <2>4, TwoSides
<1>10. ASSUME NEW n \in N \cup {k}, NEW q \in Sides, NEW d, d = r.child[q][n], d # Nil
       PROVE  o2.end[q][d] = o2.end[q][n] /\ o2.end[Other(q)][d] = o2.at[n]
  <2>0. Other(q) \in Sides /\ n \in Keys
    BY <1>1, <1>10, SidesFacts
  <2>1. n # k
    BY <1>2, <1>10
  <2>2. CASE n = hot /\ q = s
    <3>1. d = k
      BY <1>1, <1>2, <1>10, <2>2
    <3> QED BY <1>1, <1>4, <2>2, <3>1
  <2>3. CASE ~(n = hot /\ q = s)
    <3>1. d = t.child[q][n] /\ n \in N
      BY <1>2, <1>10, <2>0, <2>1, <2>3
    <3>2. d \in Keys /\ d # k
      BY <1>1, <1>5, <1>10, <3>1
    <3>3. o.end[q][d] = o.end[q][n] /\ o.end[Other(q)][d] = o.at[n]
      BY <1>10, <3>1 DEF Shape, Fits
    <3>4. /\ o2.end[q][d] = 2 * o.end[q][d] /\ o2.end[Other(q)][d] = 2 * o.end[Other(q)][d]
          /\ o2.end[q][n] = 2 * o.end[q][n] /\ o2.at[n] = 2 * o.at[n]
      BY <1>4, <1>10, <2>0, <2>1, <3>2
    <3> QED BY <3>3, <3>4
  <2> QED BY <2>2, <2>3
<1>11. Fits(r, N \cup {k}, o2)
  BY <1>4, <1>9, <1>10 DEF Fits
<1>12. Sorted(o2, N \cup {k}, Nil)
  <2>1. \A m \in N : /\ o.at[m] \in Nat /\ m \in Nat /\ m \in Keys /\ m # k /\ o2.at[m] = 2 * o.at[m]
                     /\ m < k => 2 * o.at[m] < o2.at[k]
                     /\ k < m => o2.at[k] < 2 * o.at[m]
    <3> TAKE m \in N
    <3>1. o.at[m] \in Nat /\ o.at[hot] \in Nat /\ m \in Nat /\ k \in Nat
      BY Ends, ShapeSets, KeysFacts
    <3>2. m \in Keys /\ m # k /\ o2.at[m] = 2 * o.at[m]
      BY <1>1, <1>4
    <3>3. /\ s = "l" => \/ m < k /\ o.at[m] < o.at[hot]
                        \/ k < m /\ o.at[hot] <= o.at[m]
          /\ s = "r" => \/ m < k /\ o.at[m] <= o.at[hot]
                        \/ k < m /\ o.at[hot] < o.at[m]
      BY Between
    <3> QED BY <1>1, <1>4, <3>1, <3>2, <3>3, TwoSides
  <2>2. k \in Nat
    BY KeysFacts
  <2>3. \A m, n \in N : m < n => o.at[m] < o.at[n]
    BY <1>1 DEF Shape, Sorted
  <2>4. ASSUME NEW m \in N \cup {k}, NEW n \in N \cup {k}, m < n PROVE o2.at[m] < o2.at[n]
    <3>1. CASE m \in N /\ n \in N
      BY <2>1, <2>3, <2>4, <3>1
    <3>2. CASE m = k /\ n \in N
      BY <2>1, <2>4, <3>2
    <3>3. CASE m \in N /\ n = k
      BY <2>1, <2>4, <3>3
    <3> QED BY <2>2, <2>4, <3>1, <3>2, <3>3
  <2> QED BY <2>4 DEF Sorted
<1> QED BY <1>1, <1>2, <1>3, <1>8, <1>11, <1>12 DEF Shape

(* A red leaf is added: the heights stay, and only it may be below a red     *)
(* node.                                                                     *)
LEMMA LinkGood ==
  ASSUME NEW t, NEW N, Good(t, N, Nil, Nil), NEW k \in Keys \ N, t.root # Nil,
         NEW hot, hot = Hot(t, k), NEW r, Linking(t, r, k, hot, Toward(k, hot))
  PROVE  Good(r, N \cup {k}, k, k) /\ k \notin r.black
<1>1. PICK o, H : Shape(t, N, o, Nil) /\ Even(t, H, Nil, Nil)
  BY DEF Good
<1>2. PICK s : s = Toward(k, hot)
  OBVIOUS
<1>3. hot \in N /\ t.child[s][hot] = Nil /\ Belongs(o, N, hot, k) /\ s \in Sides
  BY <1>1, <1>2, HotPlace DEF Toward, Sides
<1>4. \E o2 : Shape(r, N \cup {k}, o2, Nil)
  <2>1. Linking(t, r, k, hot, s)
    BY <1>2
  <2> QED BY ONLY <1>1, <1>2, <1>3, <2>1, k \in Keys \ N, LinkShape
<1>5. /\ r.root = t.root /\ r.black = t.black \ {k}
      /\ \A m \in Keys : r.p[m] = IF m = k THEN hot ELSE t.p[m]
      /\ \A m \in Keys, q \in Sides :
           r.child[q][m] = IF m = k THEN Nil ELSE IF m = hot /\ q = s THEN k ELSE t.child[q][m]
  BY <1>2 DEF Linking
<1>6. /\ N \subseteq Keys /\ Nil \notin Keys /\ t.root \in N
      /\ \A n \in Keys \ N : \A q \in Sides : t.child[q][n] = Nil
      /\ \A n \in N, q \in Sides : t.child[q][n] \in N \cup {Nil}
      /\ \A n \in N : t.p[n] \in N \cup {Nil}
  <2>1. \A n \in N : t.p[n] \in N \cup {Nil}
    BY <1>1, RootParent
  <2> QED BY <1>1, <2>1, ShapeSets DEF Shape, Linked
<1>7. /\ H \in [Keys \cup {Nil} -> Nat] /\ H[Nil] = 0
      /\ \A m \in Keys, q \in Sides : H[m] = H[t.child[q][m]] + Weight(t, m, Nil, Nil)
  BY <1>1 DEF Even, EvenBut, Heights
<1>8. PICK G : G = [H EXCEPT ![k] = 0]
  OBVIOUS
<1>9. G \in [Keys \cup {Nil} -> Nat] /\ G[k] = 0 /\ \A m \in Keys \cup {Nil} : m # k => G[m] = H[m]
  BY <1>7, <1>8
<1>10. Weight(r, k, Nil, Nil) = 0 /\ \A m \in Keys : m # k => Weight(r, m, Nil, Nil) = Weight(t, m, Nil, Nil)
  BY <1>5, <1>6 DEF Weight
<1>11. ASSUME NEW m \in Keys, NEW q \in Sides PROVE G[m] = G[r.child[q][m]] + Weight(r, m, Nil, Nil)
  <2>1. CASE m = k
    BY <1>5, <1>6, <1>7, <1>9, <1>10, <2>1
  <2>2. CASE m = hot /\ q = s
    <3>1. m # k /\ r.child[q][m] = k /\ t.child[q][m] = Nil
      BY <1>3, <1>5, <2>2
    <3> QED BY <1>7, <1>9, <1>10, <3>1
  <2>3. CASE m # k /\ ~(m = hot /\ q = s)
    <3>1. r.child[q][m] = t.child[q][m] /\ t.child[q][m] \in Keys \cup {Nil} /\ t.child[q][m] # k
      BY <1>5, <1>6, <2>3
    <3> QED BY <1>7, <1>9, <1>10, <2>3, <3>1
  <2> QED BY <2>1, <2>2, <2>3
<1>12. Even(r, G, Nil, Nil)
  BY <1>6, <1>7, <1>9, <1>11 DEF Even, EvenBut, Heights
<1>13. Coloured(r, N \cup {k}, k, Nil)
  <2> SUFFICES ASSUME NEW m \in N, m \notin r.black, r.p[m] \notin r.black \cup {Nil}, m # k PROVE FALSE
    BY DEF Coloured
  <2>1. r.p[m] = t.p[m] /\ t.p[m] # k /\ m \notin t.black /\ t.p[m] \notin t.black \cup {Nil}
    BY <1>5, <1>6
  <2>2. m = Nil \/ t.p[m] = Nil
    BY <2>1 DEF Good, Coloured
  <2> QED BY <1>6, <2>1, <2>2
<1>14. r.root \in r.black
  BY <1>5, <1>6 DEF Good
<1> QED BY <1>4, <1>5, <1>12, <1>13, <1>14 DEF Good

(* The first node of a tree. *)
LEMMA FirstGood ==
  ASSUME NEW t, NEW N, Good(t, N, Nil, Nil), NEW k \in Keys, t.root = Nil,
         NEW r, r \in Trees, r.root = k, k \in r.black,
         \A m \in Keys : r.p[m] = IF m = k THEN Nil ELSE t.p[m],
         \A m \in Keys, q \in Sides : r.child[q][m] = IF m = k THEN Nil ELSE t.child[q][m]
  PROVE  Good(r, N \cup {k}, Nil, Nil)
<1>1. PICK o : Shape(t, N, o, Nil)
  BY DEF Good
<1>2. N = {}
  BY <1>1, RootOnTop
<1>3. \A m \in Keys : r.p[m] = Nil /\ \A q \in Sides : r.child[q][m] = Nil
  BY <1>1, <1>2 DEF Shape, Linked
<1>4. k # Nil /\ k \in Nat
  BY KeysFacts
<1>5. PICK b : b = [at |-> [m \in Keys |-> 1],
                    end |-> [q \in Sides |-> [m \in Keys |-> IF q = "l" THEN 0 ELSE 2]], top |-> 2]
  OBVIOUS
<1>6. b \in Layouts /\ b.at[k] = 1 /\ b.end["l"][k] = 0 /\ b.end["r"][k] = 2 /\ b.top = 2
  BY <1>5, TwoSides DEF Layouts
<1>7. Shape(r, {k}, b, Nil)
  <2>1. Fits(r, {k}, b)
    BY <1>3, <1>6 DEF Fits
  <2>2. Sorted(b, {k}, Nil)
    BY <1>4 DEF Sorted
  <2>3. Linked(r, {k})
    BY <1>3 DEF Linked
  <2> QED BY <2>1, <2>2, <2>3 DEF Shape
<1>8. PICK H : H = [m \in Keys \cup {Nil} |-> IF m = Nil THEN 0 ELSE Weight(r, m, Nil, Nil)]
  OBVIOUS
<1>9. Even(r, H, Nil, Nil)
  <2>1. \A m \in Keys : m # Nil /\ Weight(r, m, Nil, Nil) \in Nat
    BY KeysFacts, WeightType
  <2>2. H \in [Keys \cup {Nil} -> Nat] /\ H[Nil] = 0 /\ \A m \in Keys : H[m] = Weight(r, m, Nil, Nil)
    BY <1>8, <2>1
  <2> QED BY <1>3, <2>1, <2>2 DEF Even, EvenBut, Heights
<1>10. Coloured(r, {k}, Nil, Nil)
  BY DEF Coloured
<1> QED BY <1>2, <1>7, <1>9, <1>10 DEF Good

(* A red node with a red parent has a black grandparent. *)
Grand(t, N, o, H, n, up, g, s) ==
  /\ Shape(t, N, o, Nil) /\ Even(t, H, Nil, Nil) /\ Coloured(t, N, n, Nil)
  /\ n \in N \ t.black /\ up = t.p[n] /\ up \in N \ t.black
  /\ g = t.p[up] /\ g \in N \cap t.black
  /\ s = SideOf(t, up) /\ s \in Sides /\ t.child[s][g] = up
  /\ t.root \in t.black

(* A red node with a red parent has a black grandparent. *)
LEMMA GrandFacts ==
  ASSUME NEW t, NEW N, NEW n \in N, Good(t, N, n, n), n \notin t.black,
         NEW up, up = Parent(t, n), ~IsBlack(t, up), NEW g, g = Parent(t, up),
         NEW s, s = SideOf(t, up)
  PROVE  \E o, H : Grand(t, N, o, H, n, up, g, s)
<1>1. PICK o, H : Shape(t, N, o, Nil) /\ Even(t, H, Nil, Nil)
  BY DEF Good
<1>2. n # Nil /\ Nil \notin Keys
  BY <1>1, ShapeSets
<1>3. up = t.p[n] /\ up # Nil /\ up \notin t.black
  BY <1>2 DEF Parent, IsBlack
<1>4. n # t.root /\ up \in N /\ up # n
  BY <1>1, <1>2, <1>3, RootParent
<1>5. t.root \in t.black /\ up # t.root
  BY <1>3, <1>4 DEF Good
<1>6. g = t.p[up] /\ g \in N /\ s \in Sides /\ t.child[s][g] = up
  BY <1>1, <1>3, <1>4, <1>5, AtParent DEF Parent
<1>7. g \in t.black
  <2>1. g # Nil
    BY <1>1, <1>6, ShapeSets
  <2>2. Coloured(t, N, n, Nil)
    BY DEF Good
  <2> QED BY <1>3, <1>4, <1>6, <2>1, <2>2 DEF Coloured
<1> QED BY <1>1, <1>3, <1>4, <1>5, <1>6, <1>7 DEF Grand, Good

(* What painting a node black changes. *)
LEMMA PaintBlack ==
  ASSUME NEW t0, NEW t, SameLinks(t0, t), NEW n \in Keys, NEW b, b = Black(t, n)
  PROVE  SameLinks(t0, b) /\ b.black = t.black \cup {n}
<1>1. t \in Trees /\ n \in Keys \cup {Nil} /\ n # Nil
  BY KeysFacts DEF SameLinks
<1>2. /\ b \in Trees /\ b.root = t.root /\ b.child = t.child /\ b.p = t.p
      /\ b.black = t.black \cup ({n} \ {Nil})
  BY ONLY <1>1, b = Black(t, n), Painting
<1> QED BY <1>1, <1>2 DEF SameLinks

(* What painting it red changes. *)
LEMMA PaintRed ==
  ASSUME NEW t0, NEW t, SameLinks(t0, t), NEW n \in Keys, NEW b, b = Red(t, n)
  PROVE  SameLinks(t0, b) /\ b.black = t.black \ {n}
<1>1. t \in Trees /\ n \in Keys \cup {Nil}
  BY ONLY SameLinks(t0, t), n \in Keys DEF SameLinks
<1>2. /\ b \in Trees /\ b.root = t.root /\ b.child = t.child /\ b.p = t.p
      /\ b.black = t.black \ {n}
  BY ONLY <1>1, b = Red(t, n), Painting
<1> QED BY <1>1, <1>2 DEF SameLinks

(* The round of _fix_rr with a red uncle: the grandparent turns red and is   *)
(* the only one that may be below a red node.                                *)
LEMMA RecolourGood ==
  ASSUME NEW t, NEW N, NEW o, NEW H, NEW n, NEW up, NEW g, NEW s, Grand(t, N, o, H, n, up, g, s),
         NEW u, u = Child(t, g, Other(s)), ~IsBlack(t, u),
         NEW r, r = Red(Black(Black(t, up), u), g)
  PROVE  Good(r, N, g, g) /\ g \in N /\ g \notin r.black
<1>1. /\ Shape(t, N, o, Nil) /\ Even(t, H, Nil, Nil) /\ Coloured(t, N, n, Nil)
      /\ n \in N \ t.black /\ up = t.p[n] /\ up \in N \ t.black
      /\ g = t.p[up] /\ g \in N \cap t.black
      /\ s \in Sides /\ t.child[s][g] = up /\ t.root \in t.black
  BY DEF Grand
<1>2. N \subseteq Keys /\ Nil \notin Keys /\ t \in Trees /\ Other(s) \in Sides
      /\ \A m \in Keys, q \in Sides : t.child[q][m] \in Keys \cup {Nil}
  BY ONLY <1>1, ShapeSets, SidesFacts DEF Shape
<1>3. u = t.child[Other(s)][g] /\ u # Nil /\ u \notin t.black
  BY ONLY u = Child(t, g, Other(s)), ~IsBlack(t, u), <1>1, <1>2 DEF Child, IsBlack
<1>4. u \in N /\ t.p[u] = g /\ u # up /\ u # g /\ up # g
  BY <1>1, <1>2, <1>3, Children, TwoChildren
<1>5. SameLinks(t, r) /\ r.black = ((t.black \cup {up}) \cup {u}) \ {g}
  <2>1. up \in Keys /\ u \in Keys /\ g \in Keys
    BY <1>1, <1>2, <1>4
  <2>2. SameLinks(t, t)
    BY <1>2 DEF SameLinks
  <2>3. PICK a : a = Black(t, up)
    OBVIOUS
  <2>4. SameLinks(t, a) /\ a.black = t.black \cup {up}
    BY ONLY <2>1, <2>2, <2>3, PaintBlack
  <2>5. PICK b : b = Black(a, u)
    OBVIOUS
  <2>6. SameLinks(t, b) /\ b.black = a.black \cup {u}
    BY ONLY <2>1, <2>4, <2>5, PaintBlack
  <2>7. r = Red(b, g)
    BY <2>3, <2>5
  <2>8. SameLinks(t, r) /\ r.black = b.black \ {g}
    BY ONLY <2>1, <2>6, <2>7, PaintRed
  <2> QED BY <2>4, <2>6, <2>8
<1>6. r.root = t.root /\ r.child = t.child /\ r.p = t.p
  BY <1>5 DEF SameLinks
<1>7. Shape(r, N, o, Nil)
  BY <1>1, <1>5, PaintedShape
<1>8. /\ H \in [Keys \cup {Nil} -> Nat] /\ H[Nil] = 0
      /\ \A m \in Keys, q \in Sides : H[m] = H[t.child[q][m]] + Weight(t, m, Nil, Nil)
  BY <1>1 DEF Even, EvenBut, Heights
<1>9. PICK G : G = [m \in Keys \cup {Nil} |-> IF m \in {up, u} THEN H[m] + 1 ELSE H[m]]
  OBVIOUS
<1>10. /\ G \in [Keys \cup {Nil} -> Nat] /\ G[up] = H[up] + 1 /\ G[u] = H[u] + 1
       /\ \A m \in Keys \cup {Nil} : m \notin {up, u} => G[m] = H[m]
  <2>1. up \in Keys /\ u \in Keys
    BY <1>1, <1>2, <1>4
  <2> QED BY ONLY <1>8, <1>9, <2>1
<1>11. /\ Weight(t, g, Nil, Nil) = 1 /\ Weight(r, g, Nil, Nil) = 0
       /\ Weight(t, up, Nil, Nil) = 0 /\ Weight(r, up, Nil, Nil) = 1
       /\ Weight(t, u, Nil, Nil) = 0 /\ Weight(r, u, Nil, Nil) = 1
       /\ \A m \in Keys : m \notin {g, up, u} => Weight(r, m, Nil, Nil) = Weight(t, m, Nil, Nil)
  <2>1. /\ g \in t.black /\ up \notin t.black /\ u \notin t.black /\ g # up /\ g # u
        /\ g # Nil /\ up # Nil /\ u # Nil
    BY <1>1, <1>2, <1>3, <1>4
  <2>2. \A m : m \in r.black <=> m # g /\ (m \in t.black \/ m = up \/ m = u)
    BY ONLY <1>5
  <2>3. \A m \in Keys : m # Nil
    BY ONLY <1>2
  <2> QED BY ONLY <2>1, <2>2, <2>3 DEF Weight
<1>12. ASSUME NEW m \in Keys, NEW q \in Sides PROVE G[m] = G[r.child[q][m]] + Weight(r, m, Nil, Nil)
  <2>1. PICK d : d = t.child[q][m]
    OBVIOUS
  <2>2. H[m] = H[d] + Weight(t, m, Nil, Nil) /\ d \in Keys \cup {Nil} /\ r.child[q][m] = d
        /\ H[d] \in Nat /\ H[m] \in Nat
    BY <1>2, <1>6, <1>8, <2>1
  <2>3. CASE m = g
    <3>1. d = up \/ d = u
      BY ONLY <1>1, <1>3, <2>1, <2>3, SidesFacts
    <3> QED BY ONLY <1>4, <1>10, <1>11, <2>2, <2>3, <3>1
  <2>4. CASE m # g
    <3>1. d # up /\ d # u
      <4>1. CASE m \in N
        BY <1>1, <1>2, <1>4, <2>1, <2>4, <4>1, Children
      <4>2. CASE m \notin N
        BY <1>1, <1>2, <1>4, <2>1, <4>2 DEF Shape, Linked
      <4> QED BY <4>1, <4>2
    <3>2. G[d] = H[d]
      BY <1>10, <2>2, <3>1
    <3>3. CASE m \in {up, u}
      BY <1>4, <1>10, <1>11, <2>2, <3>2, <3>3
    <3>4. CASE m \notin {up, u}
      BY ONLY <1>10, <1>11, <2>2, <2>4, <3>2, <3>4
    <3> QED BY <3>3, <3>4
  <2> QED BY <2>3, <2>4
<1>13. Even(r, G, Nil, Nil)
  <2>1. G[Nil] = 0
    BY <1>1, <1>2, <1>4, <1>8, <1>10
  <2> QED BY ONLY <1>10, <1>12, <2>1 DEF Even, EvenBut, Heights
<1>14. Coloured(r, N, g, Nil)
  <2> SUFFICES ASSUME NEW m \in N, m \notin r.black, r.p[m] \notin r.black \cup {Nil}, m # g PROVE FALSE
    BY DEF Coloured
  <2>1. m \notin t.black /\ m \notin {up, u} /\ t.p[m] # Nil /\ t.p[m] \notin {up, u}
        /\ (t.p[m] \notin t.black \/ t.p[m] = g)
    BY <1>4, <1>5, <1>6
  <2>2. t.p[m] # g
    <3>1. t.p[m] = g => m = t.child[s][g] \/ m = t.child[Other(s)][g]
      BY ONLY <1>1, ChildOf
    <3> QED BY ONLY <1>1, <1>3, <2>1, <3>1
  <2>3. m = n \/ t.p[m] = Nil
    BY ONLY <1>1, <2>1, <2>2 DEF Coloured
  <2> QED BY ONLY <1>1, <2>1, <2>3
<1>15. r.root \in r.black \cup {g}
  BY ONLY <1>1, <1>5, <1>6
<1> QED BY <1>1, <1>5, <1>7, <1>13, <1>14, <1>15 DEF Good

(* The two red nodes are in line: low is below mid on the side mid is on. *)
Straight(t, N, o, H, g, mid, low, s) ==
  /\ Shape(t, N, o, Nil) /\ Even(t, H, Nil, Nil) /\ Coloured(t, N, low, Nil)
  /\ mid \in N \ t.black /\ low \in N \ t.black /\ g \in N \cap t.black
  /\ s \in Sides /\ t.child[s][g] = mid /\ t.child[s][mid] = low /\ t.p[mid] = g
  /\ t.root \in t.black

(* The first rotation of _fix_rr, which brings the two red nodes on one      *)
(* side.                                                                     *)
LEMMA ZigZag ==
  ASSUME NEW t, NEW N, NEW o, NEW H, NEW n, NEW up, NEW g, NEW s, Grand(t, N, o, H, n, up, g, s),
         n = Child(t, up, Other(s)), NEW r, r = Rotate(t, up, s)
  PROVE  (\E o2, H2 : Straight(r, N, o2, H2, g, n, up, s)) /\ r.child[Other(s)][g] = t.child[Other(s)][g]
<1>1. /\ Shape(t, N, o, Nil) /\ Even(t, H, Nil, Nil) /\ Coloured(t, N, n, Nil)
      /\ n \in N \ t.black /\ up = t.p[n] /\ up \in N \ t.black
      /\ g = t.p[up] /\ g \in N \cap t.black
      /\ s \in Sides /\ t.child[s][g] = up /\ t.root \in t.black
  BY ONLY Grand(t, N, o, H, n, up, g, s) DEF Grand
<1>2. N \subseteq Keys /\ Nil \notin Keys /\ Nil \notin N /\ Other(s) \in Sides /\ Other(s) # s
  BY ONLY <1>1, ShapeSets, SidesFacts, SMTT(30)
<1>3. n = t.child[Other(s)][up]
  BY ONLY n = Child(t, up, Other(s)), <1>1, <1>2 DEF Child
<1>4. PICK i : i = t.child[s][n]
  BY ZenonT(30)
<1>5. Around(t, N, up, s, g, n, i)
  BY ONLY <1>1, <1>2, <1>3, <1>4, AroundIs
<1>6. Turned(t, r, up, s, g, n, i)
  BY <1>1, <1>5, RotateTurns
<1>7. Shape(r, N, Moved(o, up, s, n), Nil)
  BY <1>1, <1>5, <1>6, RotateShape
<1>8. /\ H \in [Keys \cup {Nil} -> Nat]
      /\ \A m \in Keys, q \in Sides : H[m] = H[t.child[q][m]] + Weight(t, m, Nil, Nil)
      /\ EvenBut(t, H, Nil, Nil, {up, n})
  BY <1>1 DEF Even, EvenBut, Heights
<1>9. Weight(t, up, Nil, Nil) = 0 /\ Weight(t, n, Nil, Nil) = 0
  BY <1>1, <1>2 DEF Weight
<1>10. H[t.child[s][up]] = H[i] /\ H[t.child[Other(s)][n]] = H[i] /\ H[up] = H[i] /\ H[i] \in Nat
  <2>1. /\ H[up] = H[t.child[s][up]] + 0 /\ H[up] = H[n] + 0
        /\ H[n] = H[i] + 0 /\ H[n] = H[t.child[Other(s)][n]] + 0
    <3>1. up \in Keys /\ n \in Keys
      BY <1>1, <1>2
    <3>2. \A q \in Sides : H[up] = H[t.child[q][up]] + Weight(t, up, Nil, Nil)
      BY ONLY <1>8, <3>1
    <3>3. \A q \in Sides : H[n] = H[t.child[q][n]] + Weight(t, n, Nil, Nil)
      BY ONLY <1>8, <3>1
    <3>4. s \in Sides /\ Other(s) \in Sides
      BY <1>1, <1>2
    <3> QED BY ONLY <1>3, <1>4, <1>9, <3>2, <3>3, <3>4
  <2>2. t.child[s][up] \in Keys \cup {Nil} /\ i \in Keys \cup {Nil} /\ t.child[Other(s)][n] \in Keys \cup {Nil}
        /\ n \in Keys \cup {Nil} /\ up \in Keys \cup {Nil}
    BY <1>1, <1>2, <1>4, ShapeSets
  <2>3. /\ H[t.child[s][up]] \in Nat /\ H[i] \in Nat /\ H[t.child[Other(s)][n]] \in Nat
        /\ H[n] \in Nat /\ H[up] \in Nat
    BY <1>8, <2>2
  <2> QED BY <2>1, <2>3
<1>11. \E H2 : Even(r, H2, Nil, Nil)
  <2>1. /\ H[t.child[s][up]] = H[i]
        /\ H[t.child[Other(s)][n]] = H[i] + Weight(t, up, Nil, Nil)
        /\ H[up] = H[i] + Weight(t, up, Nil, Nil) + Weight(t, n, Nil, Nil)
    BY ONLY <1>9, <1>10
  <2>2. Shape(t, N, o, Nil) /\ EvenBut(t, H, Nil, Nil, {up, n})
    BY ONLY <1>1, <1>8
  <2> QED BY ONLY <1>5, <1>6, <2>1, <2>2, RotateEven
<1>12. /\ n # up /\ g # up /\ g # n /\ i # up /\ i # n /\ (i # Nil => i # g) /\ t.p[n] = up
       /\ (i # Nil => t.p[i] = n) /\ g # Nil
  BY ONLY <1>1, <1>2, <1>5 DEF Around
<1>13. /\ r.black = t.black /\ r.root = t.root
       /\ \A m \in Keys : r.p[m] = IF m = n THEN g ELSE IF m = up THEN n ELSE IF m = i THEN up ELSE t.p[m]
       /\ \A m \in Keys, q \in Sides :
            r.child[q][m] = IF m = up /\ q = Other(s) THEN i ELSE IF m = n /\ q = s THEN up
                            ELSE IF m = g /\ t.child[q][g] = up THEN n ELSE t.child[q][m]
  BY <1>6, <1>12 DEF Turned
<1>14. Coloured(r, N, up, Nil)
  <2> SUFFICES ASSUME NEW m \in N, m \notin t.black, r.p[m] \notin t.black \cup {Nil}, m # up PROVE FALSE
    BY <1>13 DEF Coloured
  <2>1. m # n
    BY <1>1, <1>2, <1>13
  <2>2. t.p[m] \notin t.black \cup {Nil}
    <3>1. CASE m = i
      BY <1>1, <1>2, <1>12, <3>1
    <3>2. CASE m # i
      BY <1>2, <1>13, <2>1, <3>2
    <3> QED BY <3>1, <3>2
  <2>3. m = n \/ t.p[m] = Nil
    BY <1>1, <2>2 DEF Coloured
  <2> QED BY <2>1, <2>2, <2>3
<1>15. t.child[Other(s)][g] # up
  BY ONLY <1>1, <1>2, TwoChildren, SMTT(30)
<1>16. r.child[s][g] = n /\ r.child[s][n] = up /\ r.p[n] = g /\ r.child[Other(s)][g] = t.child[Other(s)][g]
  BY <1>1, <1>2, <1>12, <1>13, <1>15
<1> QED BY ONLY <1>1, <1>7, <1>11, <1>13, <1>14, <1>16 DEF Straight

(* The last rotation of _fix_rr leaves no red node below another. *)
LEMMA StraightenGood ==
  ASSUME NEW t, NEW N, NEW o, NEW H, NEW g, NEW mid, NEW low, NEW s, Straight(t, N, o, H, g, mid, low, s),
         NEW w, w = t.child[Other(s)][g], IsBlack(t, w),
         NEW r, r = Rotate(Red(Black(t, mid), g), g, Other(s))
  PROVE  Good(r, N, Nil, mid)
<1>1. /\ Shape(t, N, o, Nil) /\ Even(t, H, Nil, Nil) /\ Coloured(t, N, low, Nil)
      /\ mid \in N \ t.black /\ low \in N \ t.black /\ g \in N \cap t.black
      /\ s \in Sides /\ t.child[s][g] = mid /\ t.child[s][mid] = low /\ t.p[mid] = g
      /\ t.root \in t.black
  BY DEF Straight
<1>2. /\ N \subseteq Keys /\ Nil \notin Keys /\ Nil \notin N /\ t \in Trees
      /\ Other(s) \in Sides /\ Other(s) # s /\ Other(Other(s)) = s
      /\ \A q \in Sides : q = s \/ q = Other(s)
  BY <1>1, ShapeSets, SidesFacts DEF Shape
<1>3. PICK a : a = Red(Black(t, mid), g)
  OBVIOUS
<1>4. SameLinks(t, a) /\ a.black = (t.black \cup {mid}) \ {g}
  <2>1. mid \in Keys /\ g \in Keys
    BY <1>1, <1>2
  <2>2. SameLinks(t, t)
    BY <1>2 DEF SameLinks
  <2>3. PICK b : b = Black(t, mid)
    OBVIOUS
  <2>4. SameLinks(t, b) /\ b.black = t.black \cup {mid}
    BY ONLY <2>1, <2>2, <2>3, PaintBlack
  <2>5. a = Red(b, g)
    BY <1>3, <2>3
  <2>6. SameLinks(t, a) /\ a.black = b.black \ {g}
    BY ONLY <2>1, <2>4, <2>5, PaintRed
  <2> QED BY <2>4, <2>6
<1>5. a.root = t.root /\ a.child = t.child /\ a.p = t.p /\ Shape(a, N, o, Nil)
  BY <1>1, <1>4, PaintedShape DEF SameLinks
<1>6. PICK u, i : u = t.p[g] /\ i = t.child[Other(s)][mid]
  OBVIOUS
<1>7. Around(a, N, g, Other(s), u, mid, i)
  <2>1. mid = a.child[Other(Other(s))][g] /\ mid # Nil /\ i = a.child[Other(s)][mid] /\ u = a.p[g]
    BY <1>1, <1>2, <1>5, <1>6
  <2> QED BY <1>1, <1>2, <1>5, <2>1, AroundIs
<1>8. Turned(a, r, g, Other(s), u, mid, i)
  BY <1>3, <1>5, <1>7, RotateTurns
<1>9. Shape(r, N, Moved(o, g, Other(s), mid), Nil)
  BY <1>5, <1>7, <1>8, RotateShape
<1>10. /\ H \in [Keys \cup {Nil} -> Nat] /\ H[Nil] = 0
       /\ \A m \in Keys, q \in Sides : H[m] = H[t.child[q][m]] + Weight(t, m, Nil, Nil)
  BY <1>1 DEF Even, EvenBut, Heights
<1>11. /\ Weight(t, g, Nil, Nil) = 1 /\ Weight(a, g, Nil, Nil) = 0
       /\ Weight(t, mid, Nil, Nil) = 0 /\ Weight(a, mid, Nil, Nil) = 1
       /\ \A m \in Keys : m \notin {g, mid} => Weight(a, m, Nil, Nil) = Weight(t, m, Nil, Nil)
  BY ONLY <1>1, <1>2, <1>4 DEF Weight
<1>12. EvenBut(a, H, Nil, Nil, {g, mid})
  BY ONLY <1>5, <1>10, <1>11 DEF EvenBut, Heights
<1>13. /\ u \in N \cup {Nil} /\ i \in N \cup {Nil} /\ g # mid /\ u # g /\ u # mid /\ i # g /\ i # mid
       /\ (i # Nil => i # u) /\ (i # Nil => t.p[i] = mid) /\ (u # Nil <=> g # t.root)
  BY <1>5, <1>7 DEF Around
<1>14. H[w] = H[i] /\ H[low] = H[i] /\ H[g] = H[i] + 1 /\ H[i] \in Nat
  <2>1. /\ H[g] = H[mid] + 1 /\ H[g] = H[w] + 1 /\ H[mid] = H[low] + 0 /\ H[mid] = H[i] + 0
    BY <1>1, <1>2, <1>6, <1>10, <1>11
  <2>2. w \in Keys \cup {Nil} /\ i \in Keys \cup {Nil} /\ mid \in Keys /\ low \in Keys
    BY <1>1, <1>2, <1>13, ShapeSets
  <2>3. H[w] \in Nat /\ H[i] \in Nat /\ H[mid] \in Nat /\ H[low] \in Nat
    BY <1>10, <2>2
  <2> QED BY <2>1, <2>3
<1>15. \E G : Even(r, G, Nil, Nil)
  <2>1. /\ H[a.child[Other(s)][g]] = H[i]
        /\ H[a.child[Other(Other(s))][mid]] = H[i] + Weight(a, g, Nil, Nil)
        /\ H[g] = H[i] + Weight(a, g, Nil, Nil) + Weight(a, mid, Nil, Nil)
    BY <1>1, <1>2, <1>5, <1>11, <1>14
  <2> QED BY <1>5, <1>7, <1>8, <1>12, <2>1, RotateEven
<1>16. /\ r.black = (t.black \cup {mid}) \ {g} /\ r.root = IF u = Nil THEN mid ELSE t.root
       /\ \A m \in Keys : r.p[m] = IF m = mid THEN u ELSE IF m = g THEN mid ELSE IF m = i THEN g ELSE t.p[m]
  BY <1>4, <1>5, <1>8 DEF Turned
<1>17. i \in t.black \cup {Nil} /\ w \in t.black \cup {Nil} /\ w # mid
  <2>1. i # Nil => i # low
    BY <1>1, <1>6, TwoChildren
  <2>2. i # Nil => i \in t.black
    BY <1>1, <1>2, <1>13, <2>1 DEF Coloured
  <2>3. w # mid
    BY <1>1, <1>2, TwoChildren
  <2> QED BY <2>2, <2>3 DEF IsBlack
<1>18. Coloured(r, N, Nil, Nil)
  <2> SUFFICES ASSUME NEW m \in N, m \notin r.black, r.p[m] \notin r.black \cup {Nil} PROVE FALSE
    BY DEF Coloured
  <2>1. m # mid /\ m # g
    BY <1>1, <1>2, <1>13, <1>16
  <2>2. m # i /\ r.p[m] = t.p[m] /\ m \notin t.black
    BY <1>2, <1>13, <1>16, <1>17, <2>1
  <2>3. t.p[m] # g
    <3>1. t.p[m] = g => m = mid \/ m = w
      BY <1>1, ChildOf
    <3> QED BY <1>2, <1>17, <2>1, <2>2, <3>1
  <2>4. t.p[m] \notin t.black \cup {Nil} /\ t.p[m] # mid
    BY <1>16, <2>2, <2>3
  <2>5. m = low \/ t.p[m] = Nil
    BY <1>1, <2>2, <2>4 DEF Coloured
  <2>6. t.p[low] = mid
    BY <1>1, Children
  <2> QED BY <2>4, <2>5, <2>6
<1>19. r.root \in r.black \cup {mid}
  BY <1>1, <1>13, <1>16
<1> QED BY <1>9, <1>15, <1>18, <1>19 DEF Good

(* Paint does not matter to the heights where it leaves the weights alone,  *)
(* and at the root any weight is good.                                      *)
LEMMA PaintedEven ==
  ASSUME NEW t, NEW N, NEW o, NEW x, Shape(t, N, o, x), NEW n \in N,
         NEW H, NEW e, Even(t, H, x, e), NEW r, SameLinks(t, r), NEW f,
         \A m \in Keys : m # t.root => Weight(r, m, x, f) = Weight(t, m, x, e)
  PROVE  \E G : Even(r, G, x, f)
<1>1. r.root = t.root /\ r.child = t.child /\ Shape(r, N, o, x)
  BY PaintedShape DEF SameLinks
<1>2. EvenBut(r, H, x, f, {r.root})
  BY <1>1 DEF Even, EvenBut
<1>3. H[r.child["l"][r.root]] = H[r.child["r"][r.root]]
  <2>1. t.root \in Keys
    BY RootOnTop
  <2>2. /\ H[t.root] = H[t.child["l"][t.root]] + Weight(t, t.root, x, e)
        /\ H[t.root] = H[t.child["r"][t.root]] + Weight(t, t.root, x, e)
    BY <2>1, TwoSides DEF Even, EvenBut
  <2>3. H[t.child["l"][t.root]] \in Nat /\ H[t.child["r"][t.root]] \in Nat
    <3>1. t.child["l"][t.root] \in Keys \cup {Nil} /\ t.child["r"][t.root] \in Keys \cup {Nil}
      BY <2>1, ShapeSets, TwoSides
    <3> QED BY <3>1 DEF Even, EvenBut, Heights
  <2>4. Weight(t, t.root, x, e) \in 0 .. 2
    BY WeightType
  <2> QED BY <1>1, <2>2, <2>3, <2>4
<1> QED BY <1>1, <1>2, <1>3, RootAdjust

(* The end of rb_insert, which paints the root black. *)
LEMMA RootBlackened ==
  ASSUME NEW t, NEW N, NEW n \in N, Good(t, N, Nil, n), NEW top, top = Top(t, n),
         NEW r, r = Black([t EXCEPT !.root = top], top)
  PROVE  Good(r, N, Nil, Nil)
<1>1. PICK o, H : Shape(t, N, o, Nil) /\ Even(t, H, Nil, Nil)
  BY DEF Good
<1>2. top = t.root /\ top \in N /\ top \in Keys /\ t \in Trees /\ Nil \notin Keys
  BY <1>1, TopIsRoot, RootOnTop, ShapeSets DEF Shape
<1>3. SameLinks(t, t) /\ [t EXCEPT !.root = top] = t
  BY <1>2 DEF SameLinks, Trees
<1>4. r = Black(t, top)
  BY <1>3
<1>5. SameLinks(t, r) /\ r.black = t.black \cup {top}
  BY ONLY <1>2, <1>3, <1>4, PaintBlack
<1>6. r.root = t.root /\ r.p = t.p /\ Shape(r, N, o, Nil)
  BY <1>1, <1>5, PaintedShape DEF SameLinks
<1>7. \A m \in Keys : m # t.root => Weight(r, m, Nil, Nil) = Weight(t, m, Nil, Nil)
  BY <1>2, <1>5 DEF Weight
<1>8. \E G : Even(r, G, Nil, Nil)
  BY ONLY <1>1, <1>5, <1>7, n \in N, PaintedEven
<1>9. Coloured(r, N, Nil, Nil)
  BY <1>5, <1>6 DEF Coloured, Good
<1>10. r.root \in r.black
  BY <1>2, <1>5, <1>6
<1> QED BY <1>6, <1>8, <1>9, <1>10 DEF Good

-------------------------------------------------------------------------------
(* Removal. *)

(* x has y for its only child, or none. *)
Gone(t, x, y) == \E s \in Sides : t.child[s][x] = y /\ t.child[Other(s)][x] = Nil

(* What _fix_bb_new keeps: the ways through e are one black node short, but *)
(* that e counts for one more; x, which is being removed, is below e, and   *)
(* has a black parent, so that what takes its place may be red.             *)
Short(t, N, o, H, x, y, e) ==
  /\ Shape(t, N, o, x) /\ Even(t, H, x, e) /\ Coloured(t, N, Nil, e)
  /\ t.root \in t.black /\ x \in N \cap t.black /\ e \in N /\ Covers(o, e, x)
  /\ Gone(t, x, y) /\ (x # e => t.p[x] \in t.black \cup {e})

(* What is so when x is cut out of the tree. *)
Mended(t, N, o, H, x, y) ==
  /\ Shape(t, N, o, x) /\ Even(t, H, x, Nil) /\ Coloured(t, N, Nil, Nil)
  /\ t.root \in t.black /\ x \in N /\ Gone(t, x, y) /\ t.p[x] \in t.black \cup {Nil}

(* The loop ends at the root, or at a red node, which is painted black. *)
LEMMA ShortageEnds ==
  ASSUME NEW t, NEW N, NEW o, NEW H, NEW x, NEW y, NEW e, Short(t, N, o, H, x, y, e),
         e = t.root \/ ~IsBlack(t, e), NEW r, r = Black(t, e)
  PROVE  \E G : Mended(r, N, o, G, x, y)
<1>1. /\ Shape(t, N, o, x) /\ Even(t, H, x, e) /\ Coloured(t, N, Nil, e)
      /\ t.root \in t.black /\ x \in N \cap t.black /\ e \in N
      /\ Gone(t, x, y) /\ (x # e => t.p[x] \in t.black \cup {e})
  BY DEF Short
<1>2. e \in Keys /\ t \in Trees /\ SameLinks(t, t) /\ Nil \notin Keys
  BY <1>1, ShapeSets DEF Shape, SameLinks
<1>3. SameLinks(t, r) /\ r.black = t.black \cup {e}
  BY ONLY <1>2, r = Black(t, e), PaintBlack
<1>4. r.root = t.root /\ r.p = t.p /\ r.child = t.child /\ Shape(r, N, o, x)
  BY <1>1, <1>3, PaintedShape DEF SameLinks
<1>5. ASSUME NEW m \in Keys, m # t.root PROVE Weight(r, m, x, Nil) = Weight(t, m, x, e)
  <2>1. m = e => m \notin t.black /\ m # x
    BY <1>1, <1>2, <1>5 DEF IsBlack
  <2> QED BY <1>2, <1>3, <2>1 DEF Weight
<1>6. \E G : Even(r, G, x, Nil)
  <2>1. x \in N
    BY <1>1
  <2> QED BY ONLY <1>1, <1>3, <1>5, <2>1, PaintedEven
<1>7. Coloured(r, N, Nil, Nil)
  <2> SUFFICES ASSUME NEW m \in N, m \notin r.black, r.p[m] \notin r.black \cup {Nil} PROVE FALSE
    BY DEF Coloured
  <2>1. m \notin t.black /\ t.p[m] \notin t.black \cup {Nil} /\ t.p[m] # e /\ m # Nil
    BY <1>2, <1>3, <1>4, <1>1, ShapeSets
  <2> QED BY <1>1, <2>1 DEF Coloured
<1>8. r.p[x] \in r.black \cup {Nil}
  <2>1. CASE x # e
    BY <1>1, <1>3, <1>4, <2>1
  <2>2. CASE x = e
    <3>1. x = t.root
      BY <1>1, <2>2 DEF IsBlack
    <3> QED BY <1>1, <1>4, <3>1, RootParent
  <2> QED BY <2>1, <2>2
<1>9. Gone(r, x, y)
  BY <1>1, <1>4 DEF Gone
<1> QED BY <1>1, <1>3, <1>4, <1>6, <1>7, <1>8, <1>9 DEF Mended

(* The node e of a round, its parent u on whose side s it is, its sibling w, *)
(* and what x, which is below e, is not.                                     *)
Beside(t, N, o, H, x, y, e, u, s, w) ==
  /\ Short(t, N, o, H, x, y, e)
  /\ e # t.root /\ e \in t.black /\ u \in N /\ t.p[e] = u /\ s \in Sides
  /\ t.child[s][u] = e /\ w \in N /\ t.child[Other(s)][u] = w /\ t.p[w] = u
  /\ w # e /\ u # e /\ u # w /\ w # t.root

(* A node that is one black node short has a sibling: without one, its side  *)
(* would not be the lower one.                                               *)
LEMMA BesideIs ==
  ASSUME NEW t, NEW N, NEW o, NEW H, NEW x, NEW y, NEW e, Short(t, N, o, H, x, y, e),
         e # t.root, e \in t.black, NEW u \in N, NEW s \in Sides, t.child[s][u] = e,
         NEW w, w = t.child[Other(s)][u]
  PROVE  Beside(t, N, o, H, x, y, e, u, s, w)
<1>1. /\ Shape(t, N, o, x) /\ Even(t, H, x, e) /\ e \in N
  BY DEF Short
<1>2. N \subseteq Keys /\ Nil \notin Keys /\ Other(s) \in Sides
  BY <1>1, ShapeSets, SidesFacts
<1>3. t.p[e] = u /\ e # u
  BY <1>1, Children
<1>4. w # Nil
  <2>1. /\ H[u] = H[e] + Weight(t, u, x, e) /\ H[u] = H[w] + Weight(t, u, x, e)
        /\ H[e] = H[t.child[s][e]] + Weight(t, e, x, e)
        /\ H \in [Keys \cup {Nil} -> Nat] /\ H[Nil] = 0
    BY <1>1, <1>2 DEF Even, EvenBut, Heights
  <2>2. Weight(t, e, x, e) \in 1 .. 2 /\ Weight(t, u, x, e) \in 0 .. 2
    BY WeightType DEF Weight
  <2>3. t.child[s][e] \in Keys \cup {Nil} /\ w \in Keys \cup {Nil} /\ e \in Keys
    BY <1>1, <1>2, ShapeSets
  <2>4. H[t.child[s][e]] \in Nat /\ H[w] \in Nat /\ H[e] \in Nat
    BY <2>1, <2>3
  <2> QED BY <2>1, <2>2, <2>4
<1>5. w \in N /\ t.p[w] = u /\ w # u /\ w # t.root
  BY <1>1, <1>2, <1>4, Children
<1>6. w # e
  BY <1>1, <1>2, <1>4, TwoChildren
<1> QED BY <1>1, <1>3, <1>5, <1>6 DEF Beside

(* The node being removed is on the side of e, away from what is rotated     *)
(* there.                                                                    *)
LEMMA Aside ==
  ASSUME NEW t, NEW N, NEW o, NEW H, NEW x, NEW y, NEW e, NEW u, NEW s, NEW w,
         Beside(t, N, o, H, x, y, e, u, s, w)
  PROVE  /\ x # u /\ x # w /\ x # t.p[u] /\ Covers(o, u, x)
         /\ \A q \in Sides, d \in Keys : d = t.child[q][w] => x # d
         /\ \A q, b \in Sides, d, i \in Keys : d = t.child[q][w] /\ i = t.child[b][d] => x # i
<1>1. /\ Shape(t, N, o, x) /\ e \in N /\ x \in N /\ Covers(o, e, x)
      /\ u \in N /\ s \in Sides /\ t.child[s][u] = e /\ w \in N /\ t.child[Other(s)][u] = w
  BY DEF Beside, Short
<1>2. Other(s) \in Sides /\ N \subseteq Keys /\ Nil \notin Keys
  BY <1>1, SidesFacts, ShapeSets
<1>3. Covers(o, u, x) /\ (s = "l" => o.at[x] < o.at[u]) /\ (s = "r" => o.at[u] < o.at[x])
  BY <1>1, ChildCovers
<1>4. /\ o.at[x] \in Nat /\ o.at[u] \in Nat
      /\ \A m \in N : Covers(o, m, m)
  BY <1>1, Ends DEF Covers
<1>5. x # u
  BY <1>1, <1>3, <1>4, TwoSides
<1>6. ASSUME Covers(o, w, x) PROVE FALSE
  <2>1. (Other(s) = "l" => o.at[x] < o.at[u]) /\ (Other(s) = "r" => o.at[u] < o.at[x])
    BY <1>1, <1>2, <1>6, ChildCovers
  <2> QED BY <1>1, <1>3, <1>4, <2>1, TwoSides
<1>7. x # w
  BY <1>1, <1>4, <1>6
<1>8. ASSUME NEW q \in Sides, NEW d \in Keys, d = t.child[q][w] PROVE d \in N /\ Covers(o, w, d)
  <2>1. d \in N
    BY <1>1, <1>2, <1>8, Children
  <2> QED BY <1>1, <1>4, <1>8, <2>1, ChildCovers
<1>9. ASSUME NEW q \in Sides, NEW b \in Sides, NEW d \in Keys, NEW i \in Keys,
             d = t.child[q][w], i = t.child[b][d]
      PROVE  Covers(o, w, i)
  <2>1. d \in N /\ i \in N
    BY <1>1, <1>2, <1>8, <1>9, Children
  <2>2. Covers(o, d, i)
    BY <1>1, <1>4, <1>9, <2>1, ChildCovers
  <2> QED BY <1>1, <1>9, <2>1, <2>2, ChildCovers
<1>10. x # t.p[u]
  <2> SUFFICES ASSUME x = t.p[u] PROVE FALSE
    OBVIOUS
  <2>1. u # t.root
    BY <1>1, <1>2, RootParent
  <2>2. PICK q \in Sides : t.child[q][x] = u
    BY <1>1, <2>1, AtParent
  <2>3. (q = "l" => o.at[x] < o.at[x]) /\ (q = "r" => o.at[x] < o.at[x])
    BY ONLY <1>1, <1>3, <2>2, ChildCovers
  <2> QED BY <1>4, <2>3, TwoSides
<1> QED BY <1>3, <1>5, <1>6, <1>7, <1>8, <1>9, <1>10

(* A rotation leaves a node it does not touch, and its ends, alone. *)
LEMMA TurnedKeeps ==
  ASSUME NEW t, NEW N, NEW o, NEW n, NEW s, NEW u, NEW c, NEW i, Around(t, N, n, s, u, c, i),
         NEW r, Turned(t, r, n, s, u, c, i), NEW x \in N, x \notin {n, c, u, i}, NEW y,
         o \in Layouts, NEW e \in N, e \notin {n, c}
  PROVE  /\ Gone(t, x, y) => Gone(r, x, y)
         /\ r.p[x] = t.p[x]
         /\ Covers(o, e, x) => Covers(Moved(o, n, s, c), e, x)
<1>1. x \in Keys /\ e \in Keys /\ n \in Keys /\ c \in Keys /\ s \in Sides
  BY DEF Around
<1>2. r.p[x] = t.p[x] /\ \A q \in Sides : r.child[q][x] = t.child[q][x]
  BY <1>1 DEF Turned
<1>3. \A q \in Sides : Other(q) \in Sides
  BY SidesFacts
<1>4. /\ Moved(o, n, s, c).at = o.at
      /\ \A q \in Sides : Moved(o, n, s, c).end[q][e] = o.end[q][e]
  BY <1>1, MovedIs
<1> QED BY ONLY <1>2, <1>3, <1>4, TwoSides DEF Gone, Covers

(* A red sibling comes up, and one of its black children is the sibling.    *)
LEMMA SiblingMadeBlack ==
  ASSUME NEW t, NEW N, NEW o, NEW H, NEW x, NEW y, NEW e, NEW u, NEW s, NEW w,
         Beside(t, N, o, H, x, y, e, u, s, w), w \notin t.black,
         NEW r, r = Rotate(Red(Black(t, w), u), u, s)
  PROVE  \E b, G : LET i == t.child[s][w]
                   IN  Beside(r, N, b, G, x, y, e, u, s, i) /\ i \in r.black
<1>1. /\ Shape(t, N, o, x) /\ Even(t, H, x, e) /\ Coloured(t, N, Nil, e)
      /\ t.root \in t.black /\ x \in N \cap t.black /\ e \in N /\ Covers(o, e, x)
      /\ Gone(t, x, y) /\ (x # e => t.p[x] \in t.black \cup {e})
      /\ e # t.root /\ e \in t.black /\ u \in N /\ t.p[e] = u /\ s \in Sides
      /\ t.child[s][u] = e /\ w \in N /\ t.child[Other(s)][u] = w /\ t.p[w] = u
      /\ w # e /\ u # e /\ u # w /\ w # t.root
  BY DEF Beside, Short
<1>2. /\ N \subseteq Keys /\ Nil \notin Keys /\ Nil \notin N /\ t \in Trees
      /\ Other(s) \in Sides /\ Other(s) # s /\ Other(Other(s)) = s
  BY <1>1, ShapeSets, SidesFacts DEF Shape
<1>3. x # u /\ x # w /\ x # t.p[u]
  BY Aside
<1>4. u \in t.black
  BY <1>1, <1>2 DEF Coloured
<1>5. PICK a : a = Red(Black(t, w), u)
  OBVIOUS
<1>6. SameLinks(t, a) /\ a.black = (t.black \cup {w}) \ {u}
  <2>1. w \in Keys /\ u \in Keys
    BY <1>1, <1>2
  <2>2. SameLinks(t, t)
    BY <1>2 DEF SameLinks
  <2>3. PICK b : b = Black(t, w)
    OBVIOUS
  <2>4. SameLinks(t, b) /\ b.black = t.black \cup {w}
    BY ONLY <2>1, <2>2, <2>3, PaintBlack
  <2>5. a = Red(b, u)
    BY <1>5, <2>3
  <2>6. SameLinks(t, a) /\ a.black = b.black \ {u}
    BY ONLY <2>1, <2>4, <2>5, PaintRed
  <2> QED BY <2>4, <2>6
<1>7. a.root = t.root /\ a.child = t.child /\ a.p = t.p /\ Shape(a, N, o, x)
  BY <1>1, <1>6, PaintedShape DEF SameLinks
<1>8. PICK g, i : g = t.p[u] /\ i = t.child[s][w]
  OBVIOUS
<1>9. Around(a, N, u, s, g, w, i)
  <2>1. w = a.child[Other(s)][u] /\ w # Nil /\ i = a.child[s][w] /\ g = a.p[u]
    BY <1>1, <1>2, <1>7, <1>8
  <2>2. u \in N /\ s \in Sides
    BY <1>1
  <2> QED BY ONLY <1>7, <2>1, <2>2, AroundIs
<1>10. Turned(a, r, u, s, g, w, i)
  BY <1>5, <1>7, <1>9, RotateTurns
<1>11. PICK b : b = Moved(o, u, s, w)
  OBVIOUS
<1>12. Shape(r, N, b, x)
  BY ONLY <1>7, <1>9, <1>10, <1>11, RotateShape
<1>13. /\ g \in N \cup {Nil} /\ i \in N \cup {Nil} /\ g # u /\ g # w /\ i # u /\ i # w
       /\ (i # Nil => i # g) /\ (i # Nil => t.p[i] = w) /\ (g # Nil <=> u # t.root)
       /\ (i # Nil => t.p[i] = w)
  BY <1>7, <1>9 DEF Around
<1>14. /\ H \in [Keys \cup {Nil} -> Nat] /\ H[Nil] = 0
       /\ \A m \in Keys, q \in Sides : H[m] = H[t.child[q][m]] + Weight(t, m, x, e)
  BY <1>1 DEF Even, EvenBut, Heights
<1>15. /\ Weight(t, u, x, e) = 1 /\ Weight(a, u, x, e) = 0
       /\ Weight(t, w, x, e) = 0 /\ Weight(a, w, x, e) = 1
       /\ \A m \in Keys : m \notin {u, w} => Weight(a, m, x, e) = Weight(t, m, x, e)
  BY <1>1, <1>2, <1>3, <1>4, <1>6 DEF Weight
<1>16. EvenBut(a, H, x, e, {u, w})
  BY <1>7, <1>14, <1>15 DEF EvenBut, Heights
<1>17. /\ H[u] = H[e] + 1 /\ H[u] = H[w] + 1 /\ H[w] = H[i] + 0
       /\ H[w] = H[t.child[Other(s)][w]] + 0 /\ H[i] \in Nat /\ H[e] \in Nat
       /\ H[t.child[Other(s)][w]] \in Nat /\ H[u] \in Nat /\ H[w] \in Nat
  <2>1. u \in Keys /\ w \in Keys /\ e \in Keys /\ i \in Keys \cup {Nil}
        /\ t.child[Other(s)][w] \in Keys \cup {Nil}
    BY <1>1, <1>2, <1>13, ShapeSets
  <2>2. \A q \in Sides : H[u] = H[t.child[q][u]] + 1
    BY ONLY <1>14, <1>15, <2>1
  <2>3. \A q \in Sides : H[w] = H[t.child[q][w]] + 0
    BY ONLY <1>14, <1>15, <2>1
  <2>4. /\ H[i] \in Nat /\ H[e] \in Nat /\ H[t.child[Other(s)][w]] \in Nat /\ H[u] \in Nat /\ H[w] \in Nat
    BY ONLY <1>14, <2>1
  <2> QED BY <1>1, <1>2, <1>8, <2>2, <2>3, <2>4
<1>18. PICK G : Even(r, G, x, e)
  <2>1. /\ H[a.child[s][u]] = H[i]
        /\ H[a.child[Other(s)][w]] = H[i] + Weight(a, u, x, e)
        /\ H[u] = H[i] + Weight(a, u, x, e) + Weight(a, w, x, e)
    BY <1>1, <1>7, <1>15, <1>17
  <2> QED BY ONLY <1>7, <1>9, <1>10, <1>16, <2>1, RotateEven
<1>19. i \in N /\ i \in t.black /\ i # e
  <2>1. H[e] # 0
    <3>1. Weight(t, e, x, e) \in 1 .. 2
      BY DEF Weight
    <3>2. e \in Keys /\ t.child[s][e] \in Keys \cup {Nil}
      BY <1>1, <1>2, ShapeSets
    <3>3. H[e] = H[t.child[s][e]] + Weight(t, e, x, e) /\ H[t.child[s][e]] \in Nat
      BY <1>1, <1>14, <3>2
    <3> QED BY <3>1, <3>3
  <2>2. i # Nil
    BY ONLY <1>14, <1>17, <2>1
  <2> QED BY <1>1, <1>2, <1>13, <2>2 DEF Coloured
<1>20. /\ r.black = (t.black \cup {w}) \ {u} /\ r.root = IF g = Nil THEN w ELSE t.root
       /\ \A m \in Keys : r.p[m] = IF m = w THEN g ELSE IF m = u THEN w ELSE IF m = i THEN u ELSE t.p[m]
       /\ \A m \in Keys, q \in Sides :
            r.child[q][m] = IF m = u /\ q = Other(s) THEN i ELSE IF m = w /\ q = s THEN u
                            ELSE IF m = g /\ t.child[q][g] = u THEN w ELSE t.child[q][m]
  BY <1>6, <1>7, <1>10 DEF Turned
<1>21. Coloured(r, N, Nil, e)
  <2> SUFFICES ASSUME NEW m \in N, m \notin r.black, r.p[m] \notin r.black \cup {Nil}, r.p[m] # e PROVE FALSE
    BY DEF Coloured
  <2>1. m # w /\ m # u
    BY <1>1, <1>2, <1>20
  <2>2. m # i /\ m # e
    BY <1>1, <1>13, <1>19, <1>20
  <2>3. r.p[m] = t.p[m] /\ m \notin t.black
    BY <1>2, <1>20, <2>1, <2>2
  <2>4. t.p[m] # u
    <3>1. t.p[m] = u => m = e \/ m = w
      BY <1>1, ChildOf
    <3> QED BY <2>1, <2>2, <3>1
  <2>5. t.p[m] \notin t.black \cup {Nil}
    BY <1>20, <2>3, <2>4
  <2>6. m = Nil \/ t.p[m] = e
    BY <1>1, <2>3, <2>5 DEF Coloured
  <2> QED BY <1>2, <2>3, <2>6
<1>22. x # i
  BY <1>1, <1>2, <1>8, <1>19, Aside
<1>23. Gone(r, x, y) /\ r.p[x] = t.p[x] /\ Covers(b, e, x)
  <2>1. Gone(a, x, y) /\ a.p = t.p
    BY <1>1, <1>7 DEF Gone
  <2>2. o \in Layouts /\ x \notin {u, w, g, i} /\ e \notin {u, w} /\ x \in N /\ e \in N
    BY <1>1, <1>3, <1>8, <1>22 DEF Shape, Fits
  <2> QED BY <1>1, <1>9, <1>10, <1>11, <2>1, <2>2, TurnedKeeps
<1>24. r.root \in r.black /\ r.root # e
  BY <1>1, <1>13, <1>20
<1>25. x # e => r.p[x] \in r.black \cup {e}
  <2>1. t.p[x] = u => x = e \/ x = w
    BY <1>1, ChildOf
  <2> QED BY <1>1, <1>3, <1>20, <1>23, <2>1
<1>26. Short(r, N, b, G, x, y, e)
  <2>1. x \in r.black
    BY <1>1, <1>3, <1>20
  <2> QED BY <1>1, <1>12, <1>18, <1>21, <1>23, <1>24, <1>25, <2>1 DEF Short
<1>27. r.child[s][u] = e /\ r.child[Other(s)][u] = i /\ r.p[e] = u /\ r.p[i] = u
  BY <1>1, <1>2, <1>13, <1>19, <1>20
<1>28. i # r.root /\ i # u /\ e \in r.black /\ i \in r.black
  <2>1. i # t.root
    BY <1>1, <1>2, <1>13, <1>19, RootParent
  <2> QED BY <1>1, <1>13, <1>19, <1>20, <2>1
<1> QED BY <1>1, <1>8, <1>19, <1>24, <1>26, <1>27, <1>28 DEF Beside

(* With black nephews the sibling turns red and the shortage goes up. *)
LEMMA NephewsBlack ==
  ASSUME NEW t, NEW N, NEW o, NEW H, NEW x, NEW y, NEW e, NEW u, NEW s, NEW w,
         Beside(t, N, o, H, x, y, e, u, s, w), w \in t.black,
         \A q \in Sides : IsBlack(t, t.child[q][w]),
         NEW r, r = Red(t, w)
  PROVE  \E G : Short(r, N, o, G, x, y, u)
<1>1. /\ Shape(t, N, o, x) /\ Even(t, H, x, e) /\ Coloured(t, N, Nil, e)
      /\ t.root \in t.black /\ x \in N \cap t.black /\ e \in N /\ Covers(o, e, x)
      /\ Gone(t, x, y) /\ (x # e => t.p[x] \in t.black \cup {e})
      /\ e # t.root /\ e \in t.black /\ u \in N /\ t.p[e] = u /\ s \in Sides
      /\ t.child[s][u] = e /\ w \in N /\ t.child[Other(s)][u] = w /\ t.p[w] = u
      /\ w # e /\ u # e /\ u # w /\ w # t.root
  BY DEF Beside, Short
<1>2. /\ N \subseteq Keys /\ Nil \notin Keys /\ Nil \notin N /\ t \in Trees
      /\ Other(s) \in Sides /\ Other(s) # s /\ Other(Other(s)) = s
      /\ \A q \in Sides : q = s \/ q = Other(s)
  BY <1>1, ShapeSets, SidesFacts DEF Shape
<1>3. x # u /\ x # w /\ Covers(o, u, x) /\ \A q \in Sides, d \in Keys : d = t.child[q][w] => x # d
  BY Aside
<1>4. SameLinks(t, r) /\ r.black = t.black \ {w}
  <2>1. SameLinks(t, t) /\ w \in Keys
    BY <1>1, <1>2 DEF SameLinks
  <2> QED BY ONLY <2>1, r = Red(t, w), PaintRed
<1>5. r.root = t.root /\ r.child = t.child /\ r.p = t.p /\ Shape(r, N, o, x)
  BY <1>1, <1>4, PaintedShape DEF SameLinks
<1>6. /\ H \in [Keys \cup {Nil} -> Nat] /\ H[Nil] = 0
      /\ \A m \in Keys, q \in Sides : H[m] = H[t.child[q][m]] + Weight(t, m, x, e)
  BY <1>1 DEF Even, EvenBut, Heights
<1>7. /\ Weight(t, w, x, e) = 1 /\ Weight(r, w, x, u) = 0
      /\ Weight(t, e, x, e) \in 1 .. 2 /\ Weight(r, e, x, u) = Weight(t, e, x, e) - 1
      /\ Weight(r, u, x, u) = Weight(t, u, x, e) + 1 /\ Weight(t, u, x, e) \in 0 .. 2
      /\ \A m \in Keys : m \notin {w, e, u} => Weight(r, m, x, u) = Weight(t, m, x, e)
  BY <1>1, <1>2, <1>3, <1>4 DEF Weight
<1>8. H[e] \in Nat /\ H[w] \in Nat /\ H[e] >= 1 /\ H[w] >= 1
  <2>1. e \in Keys /\ w \in Keys /\ t.child[s][e] \in Keys \cup {Nil} /\ t.child[s][w] \in Keys \cup {Nil}
    BY <1>1, <1>2, ShapeSets
  <2>2. /\ H[e] = H[t.child[s][e]] + Weight(t, e, x, e) /\ H[t.child[s][e]] \in Nat
        /\ H[w] = H[t.child[s][w]] + 1 /\ H[t.child[s][w]] \in Nat
    BY <1>1, <1>6, <1>7, <2>1
  <2> QED BY <1>7, <2>2
<1>9. PICK G : G = [m \in Keys \cup {Nil} |-> IF m \in {e, w} THEN H[m] - 1 ELSE H[m]]
  OBVIOUS
<1>10. /\ G \in [Keys \cup {Nil} -> Nat] /\ G[e] = H[e] - 1 /\ G[w] = H[w] - 1
       /\ \A m \in Keys \cup {Nil} : m \notin {e, w} => G[m] = H[m]
  <2>1. \A m \in Keys \cup {Nil} : (IF m \in {e, w} THEN H[m] - 1 ELSE H[m]) \in Nat
    BY <1>6, <1>8
  <2> QED BY <1>1, <1>2, <1>9, <2>1
<1>11. ASSUME NEW m \in Keys, NEW q \in Sides PROVE G[m] = G[r.child[q][m]] + Weight(r, m, x, u)
  <2>1. PICK d : d = t.child[q][m]
    OBVIOUS
  <2>2. H[m] = H[d] + Weight(t, m, x, e) /\ d \in Keys \cup {Nil} /\ r.child[q][m] = d
        /\ H[d] \in Nat /\ H[m] \in Nat
    <3>1. d \in Keys \cup {Nil}
      BY <1>1, <2>1, ShapeSets
    <3> QED BY <1>5, <1>6, <2>1, <3>1
  <2>3. CASE m = u
    <3>1. d = e \/ d = w
      BY <1>1, <1>2, <2>1, <2>3
    <3>2. G[m] = H[m] /\ G[d] = H[d] - 1
      BY <1>1, <1>10, <2>3, <3>1
    <3> QED BY <1>7, <2>2, <2>3, <3>2
  <2>4. CASE m # u
    <3>1. d # e /\ d # w
      <4>1. CASE m \in N
        BY <1>1, <1>2, <2>1, <2>4, <4>1, Children
      <4>2. CASE m \notin N
        BY <1>1, <1>2, <2>1, <4>2 DEF Shape, Linked
      <4> QED BY <4>1, <4>2
    <3>2. G[d] = H[d]
      BY <1>10, <2>2, <3>1
    <3>3. CASE m = e
      BY <1>7, <1>10, <2>2, <3>2, <3>3
    <3>4. CASE m = w
      BY <1>7, <1>10, <2>2, <3>2, <3>4
    <3>5. CASE m \notin {w, e}
      BY <1>7, <1>10, <2>2, <2>4, <3>2, <3>5
    <3> QED BY <3>3, <3>4, <3>5
  <2> QED BY <2>3, <2>4
<1>12. Even(r, G, x, u)
  BY <1>1, <1>2, <1>6, <1>10, <1>11 DEF Even, EvenBut, Heights
<1>13. Coloured(r, N, Nil, u)
  <2> SUFFICES ASSUME NEW m \in N, m \notin r.black, r.p[m] \notin r.black \cup {Nil}, r.p[m] # u PROVE FALSE
    BY DEF Coloured
  <2>1. m # w /\ r.p[m] = t.p[m] /\ m \notin t.black
    BY <1>1, <1>4, <1>5
  <2>2. t.p[m] # w
    <3>1. t.p[m] = w => m = t.child[s][w] \/ m = t.child[Other(s)][w]
      BY <1>1, ChildOf
    <3> QED BY <1>1, <1>2, <2>1, <3>1 DEF IsBlack
  <2>3. m = Nil \/ t.p[m] = e
    BY <1>1, <1>4, <2>1, <2>2 DEF Coloured
  <2> QED BY <1>1, <1>2, <1>4, <2>1, <2>3
<1>14. t.p[x] \in r.black \cup {u}
  <2>1. t.p[x] = w => x = t.child[s][w] \/ x = t.child[Other(s)][w]
    BY <1>1, ChildOf
  <2>2. t.p[x] # w
    BY ONLY <1>1, <1>2, <1>3, <2>1
  <2> QED BY <1>1, <1>4, <2>2
<1>15. Gone(r, x, y)
  BY ONLY <1>1, <1>5 DEF Gone
<1> QED BY <1>1, <1>3, <1>4, <1>5, <1>12, <1>13, <1>14, <1>15 DEF Short

(* With a red near nephew it comes up, and the far one will be red. *)
LEMMA NephewNear ==
  ASSUME NEW t, NEW N, NEW o, NEW H, NEW x, NEW y, NEW e, NEW u, NEW s, NEW w,
         Beside(t, N, o, H, x, y, e, u, s, w), w \in t.black,
         NEW v, v = t.child[s][w], ~IsBlack(t, v), IsBlack(t, t.child[Other(s)][w]),
         NEW r, r = Rotate(Red(Black(t, v), w), w, Other(s))
  PROVE  \E b, G : Short(r, N, b, G, x, y, e)
<1>1. /\ Shape(t, N, o, x) /\ Even(t, H, x, e) /\ Coloured(t, N, Nil, e)
      /\ t.root \in t.black /\ x \in N \cap t.black /\ e \in N /\ Covers(o, e, x)
      /\ Gone(t, x, y) /\ (x # e => t.p[x] \in t.black \cup {e})
      /\ e # t.root /\ e \in t.black /\ u \in N /\ t.p[e] = u /\ s \in Sides
      /\ t.child[s][u] = e /\ w \in N /\ t.child[Other(s)][u] = w /\ t.p[w] = u
      /\ w # e /\ u # e /\ u # w /\ w # t.root
  BY DEF Beside, Short
<1>2. /\ N \subseteq Keys /\ Nil \notin Keys /\ Nil \notin N /\ t \in Trees
      /\ Other(s) \in Sides /\ Other(s) # s /\ Other(Other(s)) = s
      /\ \A q \in Sides : q = s \/ q = Other(s)
  BY <1>1, ShapeSets, SidesFacts DEF Shape
<1>3. /\ x # u /\ x # w /\ \A q \in Sides, d \in Keys : d = t.child[q][w] => x # d
      /\ \A q, b \in Sides, d, i \in Keys : d = t.child[q][w] /\ i = t.child[b][d] => x # i
  BY Aside
<1>4. v # Nil /\ v \notin t.black /\ v \in N /\ t.p[v] = w /\ v # w /\ v # t.root
  <2>1. v # Nil /\ v \notin t.black
    BY DEF IsBlack
  <2> QED BY <1>1, <2>1, Children
<1>5. PICK a : a = Red(Black(t, v), w)
  OBVIOUS
<1>6. SameLinks(t, a) /\ a.black = (t.black \cup {v}) \ {w}
  <2>1. w \in Keys /\ v \in Keys
    BY <1>1, <1>2, <1>4
  <2>2. SameLinks(t, t)
    BY <1>2 DEF SameLinks
  <2>3. PICK b : b = Black(t, v)
    OBVIOUS
  <2>4. SameLinks(t, b) /\ b.black = t.black \cup {v}
    BY ONLY <2>1, <2>2, <2>3, PaintBlack
  <2>5. a = Red(b, w)
    BY <1>5, <2>3
  <2>6. SameLinks(t, a) /\ a.black = b.black \ {w}
    BY ONLY <2>1, <2>4, <2>5, PaintRed
  <2> QED BY <2>4, <2>6
<1>7. a.root = t.root /\ a.child = t.child /\ a.p = t.p /\ Shape(a, N, o, x)
  BY <1>1, <1>6, PaintedShape DEF SameLinks
<1>8. PICK i : i = t.child[Other(s)][v]
  OBVIOUS
<1>9. Around(a, N, w, Other(s), u, v, i)
  <2>1. v = a.child[Other(Other(s))][w] /\ v # Nil /\ i = a.child[Other(s)][v] /\ u = a.p[w]
    BY <1>1, <1>2, <1>4, <1>7, <1>8
  <2>2. w \in N /\ Other(s) \in Sides
    BY <1>1, <1>2
  <2> QED BY ONLY <1>7, <2>1, <2>2, AroundIs
<1>10. Turned(a, r, w, Other(s), u, v, i)
  BY <1>5, <1>7, <1>9, RotateTurns
<1>11. PICK b : b = Moved(o, w, Other(s), v)
  OBVIOUS
<1>12. Shape(r, N, b, x)
  BY ONLY <1>7, <1>9, <1>10, <1>11, RotateShape
<1>13. /\ i \in N \cup {Nil} /\ u # v /\ i # v /\ i # w /\ (i # Nil => i # u) /\ (i # Nil => t.p[i] = v)
  BY <1>7, <1>9 DEF Around
<1>14. v # e
  BY <1>1, <1>4
<1>15. /\ H \in [Keys \cup {Nil} -> Nat] /\ H[Nil] = 0
       /\ \A m \in Keys, q \in Sides : H[m] = H[t.child[q][m]] + Weight(t, m, x, e)
  BY <1>1 DEF Even, EvenBut, Heights
<1>16. /\ Weight(t, w, x, e) = 1 /\ Weight(a, w, x, e) = 0
       /\ Weight(t, v, x, e) = 0 /\ Weight(a, v, x, e) = 1
       /\ \A m \in Keys : m \notin {w, v} => Weight(a, m, x, e) = Weight(t, m, x, e)
  <2>1. v # x
    BY <1>1, <1>4
  <2> QED BY <1>1, <1>2, <1>3, <1>4, <1>6, <1>14, <2>1 DEF Weight
<1>17. EvenBut(a, H, x, e, {w, v})
  BY ONLY <1>7, <1>15, <1>16 DEF EvenBut, Heights
<1>18. /\ H[w] = H[v] + 1 /\ H[w] = H[t.child[Other(s)][w]] + 1 /\ H[v] = H[i] + 0
       /\ H[v] = H[t.child[s][v]] + 0 /\ H[i] \in Nat /\ H[v] \in Nat
       /\ H[t.child[Other(s)][w]] \in Nat /\ H[t.child[s][v]] \in Nat /\ H[w] \in Nat
  <2>1. w \in Keys /\ v \in Keys /\ i \in Keys \cup {Nil} /\ t.child[s][v] \in Keys \cup {Nil}
        /\ t.child[Other(s)][w] \in Keys \cup {Nil}
    BY <1>1, <1>2, <1>4, <1>13, ShapeSets
  <2>2. \A q \in Sides : H[w] = H[t.child[q][w]] + 1
    BY ONLY <1>15, <1>16, <2>1
  <2>3. \A q \in Sides : H[v] = H[t.child[q][v]] + 0
    BY ONLY <1>15, <1>16, <2>1
  <2>4. /\ H[i] \in Nat /\ H[v] \in Nat /\ H[t.child[Other(s)][w]] \in Nat
        /\ H[t.child[s][v]] \in Nat /\ H[w] \in Nat
    BY ONLY <1>15, <2>1
  <2> QED BY <1>1, <1>2, <1>8, <2>2, <2>3, <2>4
<1>19. PICK G : Even(r, G, x, e)
  <2>1. /\ H[a.child[Other(s)][w]] = H[i]
        /\ H[a.child[Other(Other(s))][v]] = H[i] + Weight(a, w, x, e)
        /\ H[w] = H[i] + Weight(a, w, x, e) + Weight(a, v, x, e)
    BY <1>2, <1>7, <1>16, <1>18
  <2> QED BY ONLY <1>7, <1>9, <1>10, <1>17, <2>1, RotateEven
<1>20. /\ r.black = (t.black \cup {v}) \ {w} /\ r.root = t.root
       /\ \A m \in Keys : r.p[m] = IF m = v THEN u ELSE IF m = w THEN v ELSE IF m = i THEN w ELSE t.p[m]
  BY <1>1, <1>2, <1>6, <1>7, <1>10 DEF Turned
<1>21. i # Nil => i \in t.black
  BY <1>1, <1>2, <1>4, <1>13 DEF Coloured
<1>22. Coloured(r, N, Nil, e)
  <2> SUFFICES ASSUME NEW m \in N, m \notin r.black, r.p[m] \notin r.black \cup {Nil}, r.p[m] # e PROVE FALSE
    BY DEF Coloured
  <2>1. m # v /\ m # w
    BY <1>1, <1>2, <1>4, <1>20
  <2>2. m # i /\ r.p[m] = t.p[m] /\ m \notin t.black
    BY <1>2, <1>13, <1>20, <1>21, <2>1
  <2>3. t.p[m] # w
    <3>1. t.p[m] = w => m = v \/ m = t.child[Other(s)][w]
      BY <1>1, ChildOf
    <3> QED BY <1>2, <2>1, <2>2, <3>1 DEF IsBlack
  <2>4. t.p[m] \notin t.black \cup {Nil}
    BY <1>20, <2>2, <2>3
  <2>5. m = Nil \/ t.p[m] = e
    BY <1>1, <2>2, <2>4 DEF Coloured
  <2> QED BY <1>2, <2>2, <2>5
<1>23. x # v /\ x # i
  <2>1. x # v
    BY <1>1, <1>4
  <2>2. i \in Keys => x # i
    BY <1>1, <1>2, <1>3, <1>4, <1>8
  <2> QED BY <1>1, <1>2, <2>1, <2>2
<1>24. Gone(r, x, y) /\ r.p[x] = t.p[x] /\ Covers(b, e, x)
  <2>1. Gone(a, x, y) /\ a.p = t.p
    BY <1>1, <1>7 DEF Gone
  <2>2. o \in Layouts /\ x \notin {w, v, u, i} /\ e \notin {w, v} /\ x \in N /\ e \in N
    BY <1>1, <1>3, <1>14, <1>23 DEF Shape, Fits
  <2> QED BY <1>1, <1>9, <1>10, <1>11, <2>1, <2>2, TurnedKeeps
<1>25. x # e => r.p[x] \in r.black \cup {e}
  <2>1. t.p[x] = w => x = v \/ x = t.child[Other(s)][w]
    BY <1>1, ChildOf
  <2>2. t.p[x] # w
    BY <1>1, <1>2, <1>3, <1>23, <2>1
  <2> QED BY <1>1, <1>20, <1>24, <2>2
<1>26. x \in r.black /\ r.root \in r.black
  BY ONLY <1>1, <1>3, <1>20, SMTT(30)
<1> QED BY <1>1, <1>12, <1>19, <1>22, <1>24, <1>25, <1>26 DEF Short

(* With a red far nephew the sibling comes up in the colour of the parent,  *)
(* and nothing is short any more: the loop ends at the root.                *)
LEMMA NephewFar ==
  ASSUME NEW t, NEW N, NEW o, NEW H, NEW x, NEW y, NEW e, NEW u, NEW s, NEW w,
         Beside(t, N, o, H, x, y, e, u, s, w), w \in t.black,
         NEW z, z = t.child[Other(s)][w], ~IsBlack(t, z),
         NEW r, r = Rotate(Black(Black(CopyColor(t, w, u), u), z), u, s)
  PROVE  \E b, G : Short(r, N, b, G, x, y, r.root)
<1>1. /\ Shape(t, N, o, x) /\ Even(t, H, x, e) /\ Coloured(t, N, Nil, e)
      /\ t.root \in t.black /\ x \in N \cap t.black /\ e \in N /\ Covers(o, e, x)
      /\ Gone(t, x, y) /\ (x # e => t.p[x] \in t.black \cup {e})
      /\ e # t.root /\ e \in t.black /\ u \in N /\ t.p[e] = u /\ s \in Sides
      /\ t.child[s][u] = e /\ w \in N /\ t.child[Other(s)][u] = w /\ t.p[w] = u
      /\ w # e /\ u # e /\ u # w /\ w # t.root
  BY DEF Beside, Short
<1>2. /\ N \subseteq Keys /\ Nil \notin Keys /\ Nil \notin N /\ t \in Trees
      /\ Other(s) \in Sides /\ Other(s) # s /\ Other(Other(s)) = s
      /\ \A q \in Sides : q = s \/ q = Other(s)
  BY <1>1, ShapeSets, SidesFacts DEF Shape
<1>3. /\ x # u /\ x # w /\ x # t.p[u] /\ \A q \in Sides, d \in Keys : d = t.child[q][w] => x # d
  BY Aside
<1>4. z # Nil /\ z \notin t.black /\ z \in N /\ t.p[z] = w /\ z # w /\ z # u /\ z # e /\ z # x /\ z # t.root
  <2>1. z # Nil /\ z \notin t.black
    BY DEF IsBlack
  <2>2. z \in N /\ t.p[z] = w /\ z # w
    BY <1>1, <1>2, <2>1, Children
  <2>3. z # u
    <3> SUFFICES ASSUME z = u PROVE FALSE
      OBVIOUS
    <3>0. Wide(o, w) < Wide(o, u)
      BY <1>1, <1>2, Children
    <3>3. Wide(o, z) < Wide(o, w)
      <4>1. Shape(t, N, o, x) /\ w \in N /\ Other(s) \in Sides /\ z = t.child[Other(s)][w] /\ z \in N
        BY <1>1, <1>2, <2>2
      <4> QED BY ONLY <4>1, Children
    <3>1. Wide(o, w) < Wide(o, u) /\ Wide(o, u) < Wide(o, w)
      BY <3>0, <3>3
    <3>2. Wide(o, w) \in Nat /\ Wide(o, u) \in Nat
      BY <1>1, WideType
    <3> QED BY <3>1, <3>2
  <2> QED BY <1>1, <2>1, <2>2, <2>3
<1>5. PICK a : a = Black(Black(CopyColor(t, w, u), u), z)
  OBVIOUS
<1>6. /\ SameLinks(t, a)
      /\ a.black = (IF u \in t.black THEN t.black ELSE t.black \ {w}) \cup {u, z}
  <2>1. w \in Keys /\ u \in Keys /\ z \in Keys /\ u # Nil
    BY <1>1, <1>2, <1>4
  <2>2. SameLinks(t, t)
    BY <1>2 DEF SameLinks
  <2>3. PICK b : b = CopyColor(t, w, u)
    OBVIOUS
  <2>4. SameLinks(t, b) /\ b.black = IF u \in t.black THEN t.black ELSE t.black \ {w}
    <3>1. CASE u \in t.black
      <4>1. b = Black(t, w)
        BY <2>3, <3>1 DEF CopyColor, IsBlack
      <4>2. SameLinks(t, b) /\ b.black = t.black \cup {w}
        BY ONLY <2>1, <2>2, <4>1, PaintBlack
      <4> QED BY <3>1, <4>2
    <3>2. CASE u \notin t.black
      <4>1. b = Red(t, w)
        BY <2>1, <2>3, <3>2 DEF CopyColor, IsBlack
      <4>2. SameLinks(t, b) /\ b.black = t.black \ {w}
        BY ONLY <2>1, <2>2, <4>1, PaintRed
      <4> QED BY <3>2, <4>2
    <3> QED BY <3>1, <3>2
  <2>5. PICK c : c = Black(b, u)
    OBVIOUS
  <2>6. SameLinks(t, c) /\ c.black = b.black \cup {u}
    BY ONLY <2>1, <2>4, <2>5, PaintBlack
  <2>7. a = Black(c, z)
    BY <1>5, <2>3, <2>5
  <2>8. SameLinks(t, a) /\ a.black = c.black \cup {z}
    BY ONLY <2>1, <2>6, <2>7, PaintBlack
  <2> QED BY <2>4, <2>6, <2>8
<1>7. a.root = t.root /\ a.child = t.child /\ a.p = t.p /\ Shape(a, N, o, x)
  BY <1>1, <1>6, PaintedShape DEF SameLinks
<1>8. PICK g, i : g = t.p[u] /\ i = t.child[s][w]
  OBVIOUS
<1>9. Around(a, N, u, s, g, w, i)
  <2>1. w = a.child[Other(s)][u] /\ w # Nil /\ i = a.child[s][w] /\ g = a.p[u]
    BY <1>1, <1>2, <1>7, <1>8
  <2>2. u \in N /\ s \in Sides
    BY <1>1
  <2> QED BY ONLY <1>7, <2>1, <2>2, AroundIs
<1>10. Turned(a, r, u, s, g, w, i)
  BY <1>5, <1>7, <1>9, RotateTurns
<1>11. PICK b : b = Moved(o, u, s, w)
  OBVIOUS
<1>12. Shape(r, N, b, x)
  BY <1>7, <1>9, <1>10, <1>11, RotateShape
<1>13. /\ g \in N \cup {Nil} /\ i \in N \cup {Nil} /\ g # u /\ g # w /\ i # u /\ i # w
       /\ (i # Nil => i # g) /\ (i # Nil => t.p[i] = w) /\ (g # Nil <=> u # t.root)
  BY <1>7, <1>9 DEF Around
<1>14. i # e /\ i # x /\ i # z
  <2>1. i # e
    BY <1>1, <1>2, <1>13
  <2>2. i \in Keys => i # x
    BY <1>1, <1>3, <1>8
  <2>3. i # z
    BY <1>1, <1>2, <1>4, <1>8, TwoChildren
  <2> QED BY <1>1, <1>2, <2>1, <2>2, <2>3
<1>15. /\ H \in [Keys \cup {Nil} -> Nat] /\ H[Nil] = 0
       /\ \A m \in Keys, q \in Sides : H[m] = H[t.child[q][m]] + Weight(t, m, x, e)
  BY <1>1 DEF Even, EvenBut, Heights
<1>16. PICK V : V = Weight(t, u, x, e)
  OBVIOUS
<1>17. /\ V \in 0 .. 1 /\ Weight(a, w, x, Nil) = V /\ Weight(a, u, x, Nil) = 1
       /\ Weight(t, w, x, e) = 1 /\ Weight(t, z, x, e) = 0 /\ Weight(a, z, x, Nil) = 1
       /\ Weight(t, e, x, e) \in 1 .. 2 /\ Weight(a, e, x, Nil) = Weight(t, e, x, e) - 1
       /\ \A m \in Keys : m \notin {u, w, z, e} => Weight(a, m, x, Nil) = Weight(t, m, x, e)
  BY <1>1, <1>2, <1>3, <1>4, <1>6, <1>16 DEF Weight
<1>18. /\ H[u] = H[e] + V /\ H[u] = H[w] + V /\ H[w] = H[z] + 1 /\ H[w] = H[i] + 1
       /\ H[u] \in Nat /\ H[e] \in Nat /\ H[w] \in Nat /\ H[z] \in Nat /\ H[i] \in Nat
  <2>1. u \in Keys /\ w \in Keys /\ e \in Keys /\ z \in Keys /\ i \in Keys \cup {Nil}
    BY <1>1, <1>2, <1>4, <1>13
  <2>2. \A q \in Sides : H[u] = H[t.child[q][u]] + V
    BY ONLY <1>15, <1>16, <2>1
  <2>3. \A q \in Sides : H[w] = H[t.child[q][w]] + 1
    BY ONLY <1>15, <1>17, <2>1
  <2>4. H[u] \in Nat /\ H[e] \in Nat /\ H[w] \in Nat /\ H[z] \in Nat /\ H[i] \in Nat
    BY ONLY <1>15, <2>1
  <2> QED BY <1>1, <1>2, <1>8, <2>2, <2>3, <2>4
<1>19. H[e] = H[i] + 1 /\ H[z] = H[i] /\ H[u] = H[i] + 1 + V
  BY <1>17, <1>18
<1>20. PICK K : K = [m \in Keys \cup {Nil} |-> IF m = e THEN H[i] ELSE IF m = z THEN H[i] + 1 ELSE H[m]]
  OBVIOUS
<1>21. /\ K \in [Keys \cup {Nil} -> Nat] /\ K[e] = H[i] /\ K[z] = H[i] + 1 /\ K[i] = H[i] /\ K[Nil] = 0
       /\ K[u] = H[u] /\ \A m \in Keys \cup {Nil} : m \notin {e, z} => K[m] = H[m]
  <2>1. \A m \in Keys \cup {Nil} :
          (IF m = e THEN H[i] ELSE IF m = z THEN H[i] + 1 ELSE H[m]) \in Nat
    BY <1>15, <1>18
  <2>2. e \in Keys /\ z \in Keys /\ u \in Keys /\ i \in Keys \cup {Nil} /\ e # Nil /\ z # Nil
    BY <1>1, <1>2, <1>4, <1>13
  <2> QED BY ONLY <1>1, <1>4, <1>14, <1>15, <1>20, <2>1, <2>2
<1>22. EvenBut(a, K, x, Nil, {u, w})
  <2>1. ASSUME NEW m \in Keys \ {u, w}, NEW q \in Sides
        PROVE  K[m] = K[a.child[q][m]] + Weight(a, m, x, Nil)
    <3>1. PICK d : d = t.child[q][m]
      OBVIOUS
    <3>2. H[m] = H[d] + Weight(t, m, x, e) /\ d \in Keys \cup {Nil} /\ a.child[q][m] = d /\ m \in Keys
      <4>1. d \in Keys \cup {Nil}
        BY <1>1, <3>1, ShapeSets
      <4> QED BY <1>7, <1>15, <3>1, <4>1
    <3>3. H[d] \in Nat /\ H[m] \in Nat
      BY <1>15, <3>2
    <3>4. d # e /\ d # z
      <4>1. CASE m \in N
        BY <1>1, <1>2, <1>4, <2>1, <3>1, <4>1, Children
      <4>2. CASE m \notin N
        BY <1>1, <1>2, <1>4, <3>1, <4>2 DEF Shape, Linked
      <4> QED BY <4>1, <4>2
    <3>5. K[d] = H[d]
      BY <1>21, <3>2, <3>4
    <3>6. CASE m = e
      BY <1>17, <1>19, <1>21, <3>2, <3>3, <3>5, <3>6
    <3>7. CASE m = z
      BY <1>17, <1>19, <1>21, <3>2, <3>3, <3>5, <3>7
    <3>8. CASE m \notin {e, z}
      BY <1>17, <1>21, <2>1, <3>2, <3>3, <3>5, <3>8
    <3> QED BY <3>6, <3>7, <3>8
  <2> QED BY <1>21, <2>1 DEF EvenBut, Heights
<1>23. PICK F : Even(r, F, x, Nil)
  <2>1. /\ K[a.child[s][u]] = K[i]
        /\ K[a.child[Other(s)][w]] = K[i] + Weight(a, u, x, Nil)
        /\ K[u] = K[i] + Weight(a, u, x, Nil) + Weight(a, w, x, Nil)
    BY <1>1, <1>7, <1>17, <1>19, <1>21
  <2> QED BY ONLY <1>7, <1>9, <1>10, <1>22, <2>1, RotateEven
<1>24. r \in Trees /\ r.root \in N
  <2>1. u \in N
    BY <1>1
  <2> QED BY <1>12, <2>1, RootOnTop DEF Shape
<1>25. PICK G : Even(r, G, x, r.root)
  <2>1. SameLinks(r, r)
    BY <1>24 DEF SameLinks
  <2>2. \A m \in Keys : m # r.root => Weight(r, m, x, r.root) = Weight(r, m, x, Nil)
    BY <1>2 DEF Weight
  <2> QED BY ONLY <1>12, <1>23, <1>24, <2>1, <2>2, PaintedEven
<1>26. /\ r.black = (IF u \in t.black THEN t.black ELSE t.black \ {w}) \cup {u, z}
       /\ r.root = IF g = Nil THEN w ELSE t.root
       /\ \A m \in Keys : r.p[m] = IF m = w THEN g ELSE IF m = u THEN w ELSE IF m = i THEN u ELSE t.p[m]
  BY <1>6, <1>7, <1>10 DEF Turned
<1>27. Coloured(r, N, Nil, r.root)
  <2> SUFFICES ASSUME NEW m \in N, m \notin r.black, r.p[m] \notin r.black \cup {Nil} PROVE FALSE
    BY DEF Coloured
  <2>1. m # u /\ m # z /\ m \in Keys
    BY <1>2, <1>26
  <2>2. m # w
    <3> SUFFICES ASSUME m = w PROVE FALSE
      OBVIOUS
    <3>1. u \notin t.black /\ r.p[w] = g /\ g # Nil
      BY <1>1, <1>26, <2>1
    <3>2. g \in t.black
      <4>1. g # e
        <5> SUFFICES ASSUME g = e PROVE FALSE
          OBVIOUS
        <5>1. Wide(o, e) < Wide(o, u)
          BY <1>1, Children
        <5>2. u # t.root
          BY <1>1, <3>1
        <5>3. Wide(o, u) < Wide(o, g)
          BY <1>1, <1>8, <5>2, AtParent
        <5>4. Wide(o, u) \in Nat /\ Wide(o, e) \in Nat
          BY <1>1, WideType
        <5> QED BY <5>1, <5>3, <5>4
      <4> QED BY <1>1, <1>2, <1>8, <3>1, <4>1 DEF Coloured
    <3> QED BY <1>13, <1>26, <3>1, <3>2
  <2>3. m # i /\ r.p[m] = t.p[m] /\ m \notin t.black
    BY <1>26, <2>1, <2>2
  <2>4. t.p[m] # w
    <3>1. t.p[m] = w => m = i \/ m = z
      BY <1>1, <1>8, ChildOf
    <3> QED BY <2>1, <2>3, <3>1
  <2>5. t.p[m] \notin t.black \cup {Nil}
    BY <1>26, <2>3, <2>4
  <2>6. m = Nil \/ t.p[m] = e
    BY <1>1, <2>3, <2>5 DEF Coloured
  <2> QED BY <1>1, <1>2, <2>5, <2>6
<1>28. r.root \in r.black
  BY <1>1, <1>13, <1>26
<1>29. Gone(r, x, y) /\ r.p[x] = t.p[x]
  <2>1. Gone(a, x, y) /\ a.p = t.p
    BY <1>1, <1>7 DEF Gone
  <2>2. o \in Layouts /\ x \notin {u, w, g, i} /\ e \notin {u, w} /\ x \in N /\ e \in N
    BY <1>1, <1>3, <1>8, <1>14 DEF Shape, Fits
  <2>3. /\ Gone(a, x, y) => Gone(r, x, y)
        /\ r.p[x] = a.p[x]
        /\ Covers(o, e, x) => Covers(Moved(o, u, s, w), e, x)
    BY ONLY <1>9, <1>10, <2>2, TurnedKeeps
  <2> QED BY <2>1, <2>3
<1>30. r.p[x] \in r.black
  <2>1. t.p[x] # w
    <3>1. t.p[x] = w => x = i \/ x = z
      BY <1>1, <1>8, ChildOf
    <3> QED BY <1>4, <1>14, <3>1
  <2> QED BY <1>1, <1>26, <1>29, <2>1
<1>31. x \in r.black /\ x \in N
  BY <1>1, <1>3, <1>26
<1>32. Covers(b, r.root, x)
  BY <1>12, <1>31, RootCovers
<1> QED BY <1>12, <1>24, <1>25, <1>27, <1>28, <1>29, <1>30, <1>31, <1>32 DEF Short

(* What every round of _fix_bb_new begins with. *)
LEMMA RoundBegins ==
  ASSUME NEW t, NEW N, NEW o, NEW H, NEW x, NEW y, NEW e, Short(t, N, o, H, x, y, e),
         e # t.root, IsBlack(t, e), NEW u, u = Parent(t, e), NEW s, s = SideOf(t, e),
         NEW w0, w0 = Child(t, u, Other(s)),
         NEW r, r = IF IsBlack(t, w0) THEN t ELSE Rotate(Red(Black(t, w0), u), u, s),
         NEW w, w = Child(r, u, Other(s))
  PROVE  /\ \E b, G : Beside(r, N, b, G, x, y, e, u, s, w)
         /\ w \in r.black /\ r \in Trees /\ w \in N /\ w # Nil /\ u \in N
         /\ s \in Sides /\ Other(s) \in Sides /\ \A q \in Sides : q = s \/ q = Other(s)
<1>1. Shape(t, N, o, x) /\ e \in N
  BY DEF Short
<1>2. e # Nil /\ Nil \notin N /\ e \in t.black
  BY <1>1, ShapeSets DEF IsBlack
<1>3. u = t.p[e]
  BY <1>2 DEF Parent
<1>4. u \in N /\ s \in Sides /\ t.child[s][u] = e /\ u # Nil
  BY <1>1, <1>3, AtParent
<1>5. w0 = t.child[Other(s)][u] /\ Other(s) \in Sides /\ \A q \in Sides : q = s \/ q = Other(s)
  BY <1>4, SidesFacts DEF Child
<1>6. Beside(t, N, o, H, x, y, e, u, s, w0)
  BY ONLY Short(t, N, o, H, x, y, e), e # t.root, <1>2, <1>4, <1>5, BesideIs
<1>7. w0 # Nil
  BY <1>2, <1>6 DEF Beside
<1>8. CASE w0 \in t.black
  <2>1. r = t /\ w = w0
    BY <1>4, <1>5, <1>8 DEF IsBlack, Child
  <2>2. w \in N
    BY ONLY <1>6, <2>1 DEF Beside
  <2>3. r \in Trees
    BY ONLY <1>1, <2>1 DEF Shape
  <2> QED BY <1>2, <1>4, <1>5, <1>6, <1>8, <2>1, <2>2, <2>3
<1>9. CASE w0 \notin t.black
  <2>1. r = Rotate(Red(Black(t, w0), u), u, s)
    BY <1>7, <1>9 DEF IsBlack
  <2>2. PICK i : i = t.child[s][w0]
    OBVIOUS
  <2>3. PICK b, G : Beside(r, N, b, G, x, y, e, u, s, i) /\ i \in r.black
    BY <1>6, <1>9, <2>1, <2>2, SiblingMadeBlack
  <2>4. i \in N /\ r.child[Other(s)][u] = i /\ r \in Trees
    BY <2>3 DEF Beside, Short, Shape
  <2>5. w = i
    BY <1>4, <2>4 DEF Child
  <2> QED BY <1>2, <1>4, <1>5, <2>3, <2>4, <2>5
<1> QED BY <1>8, <1>9

-------------------------------------------------------------------------------
(* A node with two children trades places with its successor. *)

Swaps(t, r, x, y, g) ==
  /\ r \in Trees /\ g = [n \in Keys \cup {Nil} |-> IF n = x THEN y ELSE IF n = y THEN x ELSE n]
  /\ r.root = g[t.root] /\ r.black = {n \in Keys : g[n] \in t.black}
  /\ \A n \in Keys : r.p[n] = g[t.p[g[n]]]
  /\ \A n \in Keys, s \in Sides : r.child[s][n] = g[t.child[s][g[n]]]

Traded(x, y) == [n \in Keys \cup {Nil} |-> IF n = x THEN y ELSE IF n = y THEN x ELSE n]

(* The exchange of two names is its own inverse. *)
LEMMA TradedIs ==
  ASSUME NEW x \in Keys, NEW y \in Keys, x # y, NEW g, g = Traded(x, y)
  PROVE  /\ g \in [Keys \cup {Nil} -> Keys \cup {Nil}] /\ g[Nil] = Nil /\ g[x] = y /\ g[y] = x
         /\ \A n \in Keys \cup {Nil} : (n \notin {x, y} => g[n] = n) /\ g[g[n]] = n
         /\ \A n \in Keys : g[n] \in Keys
<1>1. Nil \notin Keys
  BY KeysFacts
<1> QED BY <1>1 DEF Traded

(* Swapped renames the two nodes everywhere. *)
LEMMA SwapSwaps ==
  ASSUME NEW t \in Trees, NEW x \in Keys, NEW y \in Keys, x # y
  PROVE  Swaps(t, Swapped(t, x, y), x, y, Traded(x, y))
<1>1. /\ t.child \in [Sides -> [Keys -> Keys \cup {Nil}]] /\ t.p \in [Keys -> Keys \cup {Nil}]
      /\ t.root \in Keys \cup {Nil} /\ t.black \in SUBSET Keys
  BY DEF Trees
<1>2. PICK g : g = Traded(x, y)
  OBVIOUS
<1>3. /\ g \in [Keys \cup {Nil} -> Keys \cup {Nil}] /\ g[Nil] = Nil /\ g[x] = y /\ g[y] = x
      /\ \A n \in Keys \cup {Nil} : n \notin {x, y} => g[n] = n
      /\ \A n \in Keys : g[n] \in Keys
  BY ONLY x \in Keys, y \in Keys, x # y, <1>2, TradedIs
<1> DEFINE sigma(n) == CASE n = x -> y [] n = y -> x [] OTHER -> n
           C == [s \in Sides |-> [n \in Keys |-> sigma(t.child[s][sigma(n)])]]
           P == [n \in Keys |-> sigma(t.p[sigma(n)])]
           B == {n \in Keys : sigma(n) \in t.black}
<1>4. Swapped(t, x, y) = [root |-> sigma(t.root), child |-> C, p |-> P, black |-> B]
  BY DEF Swapped
<1>5. \A n \in Keys \cup {Nil} : sigma(n) = g[n]
  <2> TAKE n \in Keys \cup {Nil}
  <2>1. CASE n = x
    BY <1>3, <2>1
  <2>2. CASE n = y
    BY <1>3, <2>2
  <2>3. CASE n \notin {x, y}
    BY <1>3, <2>3
  <2> QED BY <2>1, <2>2, <2>3
<1> HIDE DEF sigma
<1>6. \A n \in Keys : P[n] = g[t.p[g[n]]] /\ P[n] \in Keys \cup {Nil}
  BY <1>1, <1>3, <1>5
<1>7. \A n \in Keys, s \in Sides : C[s][n] = g[t.child[s][g[n]]] /\ C[s][n] \in Keys \cup {Nil}
  <2> TAKE n \in Keys, s \in Sides
  <2>1. g[n] \in Keys /\ sigma(n) = g[n] /\ t.child[s][g[n]] \in Keys \cup {Nil}
    BY <1>1, <1>3, <1>5
  <2>2. sigma(t.child[s][g[n]]) = g[t.child[s][g[n]]]
    BY <1>5, <2>1
  <2> QED BY <1>3, <2>1, <2>2
<1>8. B = {n \in Keys : g[n] \in t.black} /\ sigma(t.root) = g[t.root] /\ g[t.root] \in Keys \cup {Nil}
  BY <1>1, <1>3, <1>5
<1>9. P \in [Keys -> Keys \cup {Nil}]
  <2>1. P = [n \in Keys |-> P[n]]
    OBVIOUS
  <2> HIDE DEF P
  <2> QED BY <1>6, <2>1
<1>10. C \in [Sides -> [Keys -> Keys \cup {Nil}]]
  <2>1. C = [q \in Sides |-> C[q]] /\ \A q \in Sides : C[q] = [m \in Keys |-> C[q][m]]
    OBVIOUS
  <2> HIDE DEF C
  <2>2. \A q \in Sides : C[q] \in [Keys -> Keys \cup {Nil}]
    BY <1>7, <2>1
  <2> QED BY <2>1, <2>2
<1> HIDE DEF P, C, B
<1>11. PICK r : r = Swapped(t, x, y)
  OBVIOUS
<1>12. r.root = g[t.root] /\ r.child = C /\ r.p = P /\ r.black = B
  BY <1>4, <1>8, <1>11
<1>13. r \in Trees
  <2>1. B \in SUBSET Keys
    BY <1>8
  <2>2. r = [root |-> g[t.root], child |-> C, p |-> P, black |-> B]
    BY <1>4, <1>8, <1>11
  <2> QED BY ONLY <1>8, <1>9, <1>10, <2>1, <2>2 DEF Trees
<1>14. Swaps(t, r, x, y, g)
  <2>1. g = [n \in Keys \cup {Nil} |-> IF n = x THEN y ELSE IF n = y THEN x ELSE n]
    BY <1>2 DEF Traded
  <2> QED BY ONLY <1>6, <1>7, <1>8, <1>12, <1>13, <2>1, SMTT(30) DEF Swaps
<1> QED BY <1>2, <1>11, <1>14

(* The layout: x and y trade their places. *)
Renamed(o, g) ==
  [at |-> [n \in Keys |-> o.at[g[n]]],
   end |-> [s \in Sides |-> [n \in Keys |-> o.end[s][g[n]]]], top |-> o.top]

(* The layout with the two names exchanged. *)
LEMMA RenamedIs ==
  ASSUME NEW o \in Layouts, NEW g, \A n \in Keys : g[n] \in Keys, NEW b, b = Renamed(o, g)
  PROVE  /\ b \in Layouts /\ b.top = o.top
         /\ \A n \in Keys : b.at[n] = o.at[g[n]]
         /\ \A n \in Keys, s \in Sides : b.end[s][n] = o.end[s][g[n]]
<1>1. /\ o.at \in [Keys -> Nat] /\ o.end \in [Sides -> [Keys -> Nat]] /\ o.top \in Nat
  BY DEF Layouts
<1> DEFINE A == [n \in Keys |-> o.at[g[n]]]
           E == [s \in Sides |-> [n \in Keys |-> o.end[s][g[n]]]]
<1>2. A \in [Keys -> Nat]
  BY <1>1
<1>3. \A s \in Sides : [n \in Keys |-> o.end[s][g[n]]] \in [Keys -> Nat]
  BY <1>1
<1>4. E \in [Sides -> [Keys -> Nat]]
  BY <1>3
<1>5. /\ \A n \in Keys : A[n] = o.at[g[n]]
      /\ \A n \in Keys, s \in Sides : E[s][n] = o.end[s][g[n]]
  OBVIOUS
<1>6. b = [at |-> A, end |-> E, top |-> o.top]
  BY DEF Renamed
<1> HIDE DEF A, E
<1> QED BY <1>1, <1>2, <1>4, <1>5, <1>6 DEF Layouts

(* The links stay each other's inverse, for a child and its parent as well. *)
LEMMA SwapLinked ==
  ASSUME NEW t, NEW N, NEW o, Shape(t, N, o, Nil), NEW x \in N, NEW y \in N, x # y,
         NEW r, NEW g, Swaps(t, r, x, y, g)
  PROVE  Linked(r, N)
<1>1. x \in Keys /\ y \in Keys /\ N \subseteq Keys /\ Nil \notin N /\ Nil \notin Keys
  BY ShapeSets
<1>2. g = Traded(x, y)
  BY DEF Swaps, Traded
<1>3. /\ g \in [Keys \cup {Nil} -> Keys \cup {Nil}] /\ g[Nil] = Nil /\ g[x] = y /\ g[y] = x
      /\ \A n \in Keys \cup {Nil} : (n \notin {x, y} => g[n] = n) /\ g[g[n]] = n
      /\ \A n \in Keys : g[n] \in Keys
  <2>1. g = Traded(x, y) /\ x \in Keys /\ y \in Keys /\ x # y
    BY <1>1, <1>2
  <2>2. g \in [Keys \cup {Nil} -> Keys \cup {Nil}] /\ g[Nil] = Nil /\ g[x] = y /\ g[y] = x
    BY ONLY <2>1, KeysFacts DEF Traded
  <2>3. \A n \in Keys \cup {Nil} : n \notin {x, y} => g[n] = n
    BY ONLY <2>1, TradedIs
  <2>4. \A n \in Keys \cup {Nil} : g[g[n]] = n
    BY ONLY <2>1, TradedIs
  <2>5. \A n \in Keys : g[n] \in Keys
    BY ONLY <2>1, TradedIs
  <2> QED BY ONLY <2>2, <2>3, <2>4, <2>5
<1>4. /\ \A n \in N : g[n] \in N
      /\ \A n \in Keys \ N : g[n] = n
      /\ \A n \in N \cup {Nil} : g[n] \in N \cup {Nil} /\ (g[n] = Nil => n = Nil)
  BY <1>1, <1>3
<1>5. /\ r.root = g[t.root]
      /\ \A n \in Keys : r.p[n] = g[t.p[g[n]]]
      /\ \A n \in Keys, s \in Sides : r.child[s][n] = g[t.child[s][g[n]]]
  BY DEF Swaps
<1>6. /\ t.root \in N \cup {Nil}
      /\ \A n \in Keys \ N : t.p[n] = Nil /\ \A s \in Sides : t.child[s][n] = Nil
      /\ \A n \in N, s \in Sides :
           /\ t.child[s][n] \in N \cup {Nil}
           /\ t.child[s][n] # Nil => t.p[t.child[s][n]] = n
      /\ \A n \in N : IF n = t.root THEN t.p[n] = Nil
                      ELSE t.p[n] \in N /\ \E s \in Sides : t.child[s][t.p[n]] = n
  BY DEF Shape, Linked
<1>7. r.root \in N \cup {Nil}
  BY <1>4, <1>5, <1>6
<1>8. ASSUME NEW n \in Keys \ N PROVE r.p[n] = Nil /\ \A s \in Sides : r.child[s][n] = Nil
  BY <1>3, <1>4, <1>5, <1>6
<1>9. ASSUME NEW n \in N, NEW s \in Sides
      PROVE  /\ r.child[s][n] \in N \cup {Nil}
             /\ r.child[s][n] # Nil => r.p[r.child[s][n]] = n
  <2>1. PICK d : d = t.child[s][g[n]]
    OBVIOUS
  <2>2. g[n] \in N /\ d \in N \cup {Nil} /\ (d # Nil => t.p[d] = g[n]) /\ r.child[s][n] = g[d]
    BY <1>1, <1>4, <1>5, <1>6, <2>1
  <2>3. d # Nil => r.p[g[d]] = n
    <3> SUFFICES ASSUME d # Nil PROVE r.p[g[d]] = n
      OBVIOUS
    <3>1. g[d] \in Keys /\ g[g[d]] = d /\ g[g[n]] = n
      BY <1>1, <1>3, <1>4, <2>2
    <3> QED BY <1>5, <2>2, <3>1
  <2> QED BY <1>3, <1>4, <2>2, <2>3
<1>10. ASSUME NEW n \in N
       PROVE  IF n = r.root THEN r.p[n] = Nil
              ELSE r.p[n] \in N /\ \E s \in Sides : r.child[s][r.p[n]] = n
  <2>1. g[n] \in N /\ g[g[n]] = n /\ r.p[n] = g[t.p[g[n]]] /\ g[g[t.root]] = t.root
    BY ONLY <1>1, <1>3, <1>4, <1>5, <1>6
  <2>2. n = r.root <=> g[n] = t.root
    BY ONLY <1>5, <2>1
  <2>3. CASE g[n] = t.root
    BY ONLY <1>3, <1>6, <2>1, <2>2, <2>3
  <2>4. CASE g[n] # t.root
    <3>1. PICK u, s : u = t.p[g[n]] /\ u \in N /\ s \in Sides /\ t.child[s][u] = g[n]
      BY <1>6, <2>1, <2>4
    <3>2. r.p[n] = g[u] /\ g[u] \in N /\ g[u] \in Keys /\ g[g[u]] = u
      BY <1>1, <1>3, <1>4, <2>1, <3>1
    <3>3. r.child[s][g[u]] = n
      BY <1>5, <2>1, <3>1, <3>2
    <3> QED BY <2>2, <2>4, <3>1, <3>2, <3>3
  <2> QED BY <2>3, <2>4
<1> QED BY <1>7, <1>8, <1>9, <1>10 DEF Linked

(* After the exchange with its successor only x is out of order. *)
LEMMA SwapShape ==
  ASSUME NEW t, NEW N, NEW o, Shape(t, N, o, Nil), NEW x \in N, NEW y \in N, x # y,
         o.at[x] < o.at[y], \A k \in N : o.at[x] < o.at[k] => o.at[y] <= o.at[k],
         NEW r, NEW g, Swaps(t, r, x, y, g)
  PROVE  Shape(r, N, Renamed(o, g), x)
<1>1. x \in Keys /\ y \in Keys /\ N \subseteq Keys /\ Nil \notin N /\ Nil \notin Keys
  BY ShapeSets
<1>2. g = Traded(x, y)
  BY DEF Swaps, Traded
<1>3. /\ g \in [Keys \cup {Nil} -> Keys \cup {Nil}] /\ g[Nil] = Nil /\ g[x] = y /\ g[y] = x
      /\ \A n \in Keys \cup {Nil} : (n \notin {x, y} => g[n] = n) /\ g[g[n]] = n
      /\ \A n \in Keys : g[n] \in Keys
  <2>1. g = Traded(x, y) /\ x \in Keys /\ y \in Keys /\ x # y
    BY <1>1, <1>2
  <2>2. g \in [Keys \cup {Nil} -> Keys \cup {Nil}] /\ g[Nil] = Nil /\ g[x] = y /\ g[y] = x
    BY ONLY <2>1, KeysFacts DEF Traded
  <2>3. \A n \in Keys \cup {Nil} : n \notin {x, y} => g[n] = n
    BY ONLY <2>1, TradedIs
  <2>4. \A n \in Keys \cup {Nil} : g[g[n]] = n
    BY ONLY <2>1, TradedIs
  <2>5. \A n \in Keys : g[n] \in Keys
    BY ONLY <2>1, TradedIs
  <2> QED BY ONLY <2>2, <2>3, <2>4, <2>5
<1>4. \A n \in N : g[n] \in N
  BY <1>1, <1>3
<1>5. \A n \in Keys, s \in Sides : r.child[s][n] = g[t.child[s][g[n]]]
  BY DEF Swaps
<1>6. PICK b : b = Renamed(o, g)
  OBVIOUS
<1>7. /\ b \in Layouts /\ b.top = o.top
      /\ \A n \in Keys : b.at[n] = o.at[g[n]]
      /\ \A n \in Keys, s \in Sides : b.end[s][n] = o.end[s][g[n]]
  <2>1. o \in Layouts
    BY DEF Shape, Fits
  <2> QED BY ONLY <1>3, <1>6, <2>1, RenamedIs
<1>8. /\ \A n \in N : /\ o.end["l"][n] < o.at[n] /\ o.at[n] < o.end["r"][n]
                      /\ o.end["r"][n] <= o.top
      /\ \A n \in N, s \in Sides :
           t.child[s][n] # Nil => /\ o.end[s][t.child[s][n]] = o.end[s][n]
                                  /\ o.end[Other(s)][t.child[s][n]] = o.at[n]
  BY DEF Shape, Fits
<1>9. ASSUME NEW n \in N
      PROVE  b.end["l"][n] < b.at[n] /\ b.at[n] < b.end["r"][n] /\ b.end["r"][n] <= b.top
  <2>1. n \in Keys
    BY <1>1
  <2> QED BY <1>4, <1>7, <1>8, <2>1, TwoSides
<1>10. ASSUME NEW n \in N, NEW s \in Sides, NEW d, d = r.child[s][n], d # Nil
       PROVE  b.end[s][d] = b.end[s][n] /\ b.end[Other(s)][d] = b.at[n]
  <2>1. PICK c : c = t.child[s][g[n]]
    OBVIOUS
  <2>2. g[n] \in N /\ n \in Keys /\ d = g[c] /\ c \in Keys \cup {Nil} /\ Other(s) \in Sides
    BY <1>1, <1>4, <1>5, <1>10, <2>1, ShapeSets, SidesFacts
  <2>3. c # Nil /\ g[d] = c /\ d \in Keys
    BY ONLY <1>3, <1>10, <2>2
  <2>4. o.end[s][c] = o.end[s][g[n]] /\ o.end[Other(s)][c] = o.at[g[n]]
    BY <1>8, <1>10, <2>1, <2>2, <2>3
  <2>5. /\ b.end[s][d] = o.end[s][c] /\ b.end[Other(s)][d] = o.end[Other(s)][c]
        /\ b.end[s][n] = o.end[s][g[n]] /\ b.at[n] = o.at[g[n]]
    BY <1>7, <1>10, <2>2, <2>3
  <2> QED BY <2>4, <2>5
<1>11. Fits(r, N, b)
  BY <1>7, <1>9, <1>10 DEF Fits
<1>12. Sorted(b, N, x)
  <2> SUFFICES ASSUME NEW m \in N \ {x}, NEW n \in N \ {x}, m < n PROVE b.at[m] < b.at[n]
    BY DEF Sorted
  <2>1. /\ m \in Nat /\ n \in Nat /\ x \in Nat /\ y \in Nat
        /\ o.at[m] \in Nat /\ o.at[n] \in Nat /\ o.at[x] \in Nat /\ o.at[y] \in Nat
    BY ShapeSets, Ends
  <2>2. o.at[m] < o.at[n]
    BY <1>1, InOrder
  <2>3. b.at[m] = o.at[g[m]] /\ b.at[n] = o.at[g[n]]
    BY <1>1, <1>7
  <2>4. CASE m # y /\ n # y
    BY <1>1, <1>3, <2>2, <2>3, <2>4
  <2>5. CASE m = y
    <3>1. n # y
      BY <2>1, <2>5
    <3>2. g[m] = x /\ g[n] = n
      BY <1>1, <1>3, <2>5, <3>1
    <3> QED BY <2>1, <2>2, <2>3, <2>5, <3>2
  <2>6. CASE n = y
    <3>1. m # y
      BY <2>1, <2>6
    <3>2. g[n] = x /\ g[m] = m
      BY <1>1, <1>3, <2>6, <3>1
    <3>3. ~ (o.at[x] < o.at[m])
      BY <2>1, <2>2, <2>6
    <3>4. o.at[m] # o.at[x]
      BY PlacesDiffer
    <3> QED BY <2>1, <2>3, <3>2, <3>3, <3>4
  <2> QED BY <2>4, <2>5, <2>6
<1>13. Linked(r, N) /\ r \in Trees /\ N \in SUBSET Keys
  BY <1>1, SwapLinked DEF Swaps
<1> QED BY <1>6, <1>11, <1>12, <1>13 DEF Shape

(* x has at most the child y, and has not been taken out of the order yet.  *)
Leaving(t, N, o, H, x, y) ==
  /\ Shape(t, N, o, x) /\ Even(t, H, Nil, Nil) /\ Coloured(t, N, Nil, Nil)
  /\ t.root \in t.black /\ x \in N /\ Gone(t, x, y)

(* rb_remove_node of a node with two children: in its successor's place it   *)
(* has one child at most.                                                    *)
LEMMA SwapLeaves ==
  ASSUME NEW t, NEW N, Good(t, N, Nil, Nil), NEW x \in N, NEW c, c = t.child["r"][x], c # Nil,
         NEW y, y = Leftmost(t, c), NEW r, r = Swapped(t, x, y)
  PROVE  \E o, H : Leaving(r, N, o, H, x, Child(t, y, "r"))
<1>1. PICK o, H : Shape(t, N, o, Nil) /\ Even(t, H, Nil, Nil)
  BY DEF Good
<1>2. N \subseteq Keys /\ Nil \notin Keys /\ Nil \notin N /\ x \in Keys /\ t \in Trees
  BY <1>1, ShapeSets DEF Shape
<1>3. c \in N /\ o.end["l"][c] = o.at[x]
  BY <1>1, <1>2, Children, TwoSides
<1>4. /\ y \in N /\ t.child["l"][y] = Nil /\ o.end["l"][y] = o.at[x] /\ o.at[x] < o.at[y]
      /\ \A k \in N : o.at[x] < o.at[k] => o.at[y] <= o.at[k]
  <2>1. /\ y \in N /\ t.child["l"][y] = Nil /\ o.end["l"][y] = o.end["l"][c]
        /\ o.end["l"][c] < o.at[y]
        /\ \A k \in N : o.end["l"][c] < o.at[k] => o.at[y] <= o.at[k]
    BY <1>1, <1>3, LeftmostFirst
  <2> QED BY <1>3, <2>1
<1>5. x # y
  BY <1>1, <1>4, Ends
<1>6. PICK g : g = Traded(x, y)
  OBVIOUS
<1>7. Swaps(t, r, x, y, g)
  BY <1>2, <1>4, <1>5, <1>6, SwapSwaps
<1>8. Shape(r, N, Renamed(o, g), x)
  BY ONLY <1>1, <1>4, <1>5, <1>7, x \in N, SwapShape
<1>9. /\ g \in [Keys \cup {Nil} -> Keys \cup {Nil}] /\ g[Nil] = Nil /\ g[x] = y /\ g[y] = x
      /\ \A n \in Keys \cup {Nil} : n \notin {x, y} => g[n] = n
      /\ \A n \in Keys \cup {Nil} : g[g[n]] = n
      /\ \A n \in Keys : g[n] \in Keys
  <2>1. g = Traded(x, y) /\ x \in Keys /\ y \in Keys /\ x # y
    BY <1>2, <1>4, <1>5, <1>6
  <2>2. g \in [Keys \cup {Nil} -> Keys \cup {Nil}] /\ g[Nil] = Nil /\ g[x] = y /\ g[y] = x
    BY ONLY <2>1, KeysFacts DEF Traded
  <2>3. \A n \in Keys \cup {Nil} : n \notin {x, y} => g[n] = n
    BY ONLY <2>1, TradedIs
  <2>4. \A n \in Keys \cup {Nil} : g[g[n]] = n
    BY ONLY <2>1, TradedIs
  <2>5. \A n \in Keys : g[n] \in Keys
    BY ONLY <2>1, TradedIs
  <2> QED BY ONLY <2>2, <2>3, <2>4, <2>5
<1>10. \A n \in N : g[n] \in N
  BY ONLY <1>2, <1>4, <1>9
<1>11. /\ r.root = g[t.root] /\ r.black = {n \in Keys : g[n] \in t.black}
       /\ \A n \in Keys : r.p[n] = g[t.p[g[n]]]
       /\ \A n \in Keys, s \in Sides : r.child[s][n] = g[t.child[s][g[n]]]
  BY ONLY <1>7 DEF Swaps
<1>12. /\ t.black \subseteq Keys /\ t.root \in t.black
       /\ \A n \in Keys : t.p[n] \in Keys \cup {Nil}
       /\ \A n \in Keys, s \in Sides : t.child[s][n] \in Keys \cup {Nil}
  <2>1. t.root # Nil
    BY <1>1, RootOnTop
  <2> QED BY <1>1, <2>1, ShapeSets DEF Good
<1>13. /\ H \in [Keys \cup {Nil} -> Nat] /\ H[Nil] = 0
       /\ \A m \in Keys, s \in Sides : H[m] = H[t.child[s][m]] + Weight(t, m, Nil, Nil)
  BY ONLY <1>1 DEF Even, EvenBut, Heights
<1>14. PICK K : K = [n \in Keys \cup {Nil} |-> H[g[n]]]
  OBVIOUS
<1>15. K \in [Keys \cup {Nil} -> Nat] /\ K[Nil] = 0 /\ \A n \in Keys \cup {Nil} : K[n] = H[g[n]]
  BY ONLY <1>9, <1>13, <1>14
<1>16. Even(r, K, Nil, Nil)
  <2>1. ASSUME NEW m \in Keys, NEW s \in Sides PROVE K[m] = K[r.child[s][m]] + Weight(r, m, Nil, Nil)
    <3>1. PICK d : d = t.child[s][g[m]]
      OBVIOUS
    <3>2. g[m] \in Keys /\ d \in Keys \cup {Nil} /\ r.child[s][m] = g[d] /\ g[d] \in Keys \cup {Nil} /\ g[g[d]] = d
      BY <1>9, <1>11, <1>12, <3>1
    <3>3. Weight(r, m, Nil, Nil) = Weight(t, g[m], Nil, Nil)
      BY <1>2, <1>11, <3>2 DEF Weight
    <3>4. H[g[m]] = H[d] + Weight(t, g[m], Nil, Nil)
      BY <1>13, <3>1, <3>2
    <3> QED BY ONLY <1>15, <3>2, <3>3, <3>4
  <2> QED BY <1>15, <2>1 DEF Even, EvenBut, Heights
<1>17. Coloured(r, N, Nil, Nil)
  <2> SUFFICES ASSUME NEW m \in N, m \notin r.black, r.p[m] \notin r.black \cup {Nil} PROVE FALSE
    BY DEF Coloured
  <2>1. g[m] \in N /\ g[m] \in Keys /\ m \in Keys /\ g[m] \notin t.black
    BY <1>2, <1>10, <1>11
  <2>2. PICK d : d = t.p[g[m]]
    BY Zenon
  <2>3. r.p[m] = g[d] /\ d \in Keys \cup {Nil} /\ g[g[d]] = d /\ g[d] \in Keys \cup {Nil}
    BY <1>9, <1>11, <1>12, <2>1, <2>2
  <2>4. d # Nil /\ d \notin t.black
    BY <1>9, <1>11, <2>3
  <2> QED BY <1>2, <2>1, <2>2, <2>4 DEF Good, Coloured
<1>18. r.root \in r.black
  <2>1. g[t.root] \in Keys /\ g[g[t.root]] = t.root
    BY <1>9, <1>12
  <2> QED BY <1>11, <1>12, <2>1
<1>19. Gone(r, x, Child(t, y, "r"))
  <2>1. PICK d : d = t.child["r"][y]
    OBVIOUS
  <2>2. d # y /\ d # x /\ d \in Keys \cup {Nil}
    <3>1. d # y /\ d \in Keys \cup {Nil}
      BY <1>1, <1>4, <2>1, Children, TwoSides
    <3>2. ASSUME d = x PROVE FALSE
      <4>1. o.end[Other("r")][x] = o.at[y]
        <5>1. "r" \in Sides /\ t.child["r"][y] = x /\ x # Nil
          BY <1>2, <2>1, <3>2, TwoSides
        <5> QED BY ONLY <1>1, <1>4, <5>1 DEF Shape, Fits
      <4>2. o.end["l"][x] < o.at[x] /\ o.end["l"][x] \in Nat /\ o.at[x] \in Nat /\ o.at[y] \in Nat
        BY <1>1, <1>4, Ends
      <4> QED BY <1>4, <4>1, <4>2, TwoSides
    <3> QED BY <3>1, <3>2
  <2>3. g[d] = d
    BY <1>9, <2>2
  <2>4. y \in Keys /\ y # Nil /\ "l" \in Sides /\ "r" \in Sides /\ Other("r") = "l"
    BY <1>2, <1>4, TwoSides
  <2>5. r.child["r"][x] = d /\ r.child["l"][x] = Nil
    <3>1. r.child["r"][x] = g[t.child["r"][g[x]]] /\ r.child["l"][x] = g[t.child["l"][g[x]]]
      BY <1>2, <1>11, <2>4
    <3> QED BY <1>2, <1>4, <1>9, <2>1, <2>3, <3>1
  <2>6. Child(t, y, "r") = d
    BY <2>1, <2>4 DEF Child
  <2> QED BY <2>4, <2>5, <2>6 DEF Gone
<1> QED BY <1>8, <1>16, <1>17, <1>18, <1>19 DEF Leaving

(* A node without two children stays where it is. *)
LEMMA StaysLeaving ==
  ASSUME NEW t, NEW N, Good(t, N, Nil, Nil), NEW x \in N, NEW l, l = Child(t, x, "l"),
         NEW r, r = Child(t, x, "r"), ~ (l # Nil /\ r # Nil)
  PROVE  \E o, H : Leaving(t, N, o, H, x, IF r = Nil THEN l ELSE r)
<1>1. PICK o, H : Shape(t, N, o, Nil) /\ Even(t, H, Nil, Nil)
  BY DEF Good
<1>2. x # Nil
  BY <1>1, ShapeSets
<1>3. l = t.child["l"][x] /\ r = t.child["r"][x]
  BY <1>2 DEF Child
<1>4. Gone(t, x, IF r = Nil THEN l ELSE r)
  <2>1. CASE r = Nil
    BY <1>3, <2>1, TwoSides DEF Gone
  <2>2. CASE r # Nil
    BY <1>3, <2>2, TwoSides DEF Gone
  <2> QED BY <2>1, <2>2
<1>5. Shape(t, N, o, x)
  <2>1. Sorted(o, N, x)
    <3>1. Nil \notin N /\ Sorted(o, N, Nil)
      BY <1>1, ShapeSets DEF Shape
    <3> QED BY ONLY <3>1 DEF Sorted
  <2> QED BY <1>1, <2>1 DEF Shape
<1>6. t.root \in t.black
  <2>1. t.root # Nil
    BY <1>1, RootOnTop
  <2> QED BY <2>1 DEF Good
<1> QED BY <1>1, <1>4, <1>5, <1>6 DEF Leaving, Good

(* Cutting out a black node makes its place one black node short. *)
LEMMA LeavingBlack ==
  ASSUME NEW t, NEW N, NEW o, NEW H, NEW x, NEW y, Leaving(t, N, o, H, x, y), x \in t.black
  PROVE  Short(t, N, o, H, x, y, x)
<1>1. /\ Shape(t, N, o, x) /\ Even(t, H, Nil, Nil) /\ Coloured(t, N, Nil, Nil)
      /\ t.root \in t.black /\ x \in N /\ Gone(t, x, y)
  BY DEF Leaving
<1>2. Covers(o, x, x) /\ Nil \notin Keys
  BY <1>1, Ends, ShapeSets DEF Covers
<1>3. \A m \in Keys : Weight(t, m, x, x) = Weight(t, m, Nil, Nil)
  BY <1>2 DEF Weight
<1>4. Even(t, H, x, x)
  BY <1>1, <1>3 DEF Even, EvenBut
<1>5. Coloured(t, N, Nil, x)
  BY <1>1 DEF Coloured
<1> QED BY <1>1, <1>2, <1>4, <1>5 DEF Short

(* Cutting out a red node changes no height. *)
LEMMA LeavingRed ==
  ASSUME NEW t, NEW N, NEW o, NEW H, NEW x, NEW y, Leaving(t, N, o, H, x, y), x \notin t.black
  PROVE  Mended(t, N, o, H, x, y)
<1>1. /\ Shape(t, N, o, x) /\ Even(t, H, Nil, Nil) /\ Coloured(t, N, Nil, Nil)
      /\ t.root \in t.black /\ x \in N /\ Gone(t, x, y)
  BY DEF Leaving
<1>2. Nil \notin Keys /\ x # Nil
  BY <1>1, ShapeSets
<1>3. \A m \in Keys : Weight(t, m, x, Nil) = Weight(t, m, Nil, Nil)
  BY <1>2 DEF Weight
<1>4. Even(t, H, x, Nil)
  BY <1>1, <1>3 DEF Even, EvenBut
<1>5. t.p[x] \in t.black \cup {Nil}
  BY <1>1, <1>2 DEF Coloured
<1> QED BY <1>1, <1>4, <1>5 DEF Mended

(* What takes the place of x is red and has no children. *)
LEMMA MendedLeaf ==
  ASSUME NEW t, NEW N, NEW o, NEW H, NEW x, NEW y, Mended(t, N, o, H, x, y), y # Nil
  PROVE  y \in N /\ y \notin t.black /\ t.p[y] = x /\ x # y /\ \A s \in Sides : t.child[s][y] = Nil
<1>1. /\ Shape(t, N, o, x) /\ Even(t, H, x, Nil) /\ Coloured(t, N, Nil, Nil)
      /\ x \in N /\ Gone(t, x, y)
  BY DEF Mended
<1>2. PICK s \in Sides : t.child[s][x] = y /\ t.child[Other(s)][x] = Nil
  BY <1>1 DEF Gone
<1>3. y \in N /\ t.p[y] = x /\ x # y
  BY <1>1, <1>2, Children
<1>4. N \subseteq Keys /\ Nil \notin Keys /\ Nil \notin N /\ Other(s) \in Sides
  BY <1>1, ShapeSets, SidesFacts
<1>5. /\ H \in [Keys \cup {Nil} -> Nat] /\ H[Nil] = 0
      /\ \A m \in Keys, q \in Sides : H[m] = H[t.child[q][m]] + Weight(t, m, x, Nil)
  BY <1>1 DEF Even, EvenBut, Heights
<1>6. H[y] = 0
  <2>1. /\ H[x] = H[y] + Weight(t, x, x, Nil) /\ H[x] = H[Nil] + Weight(t, x, x, Nil)
    BY <1>1, <1>2, <1>4, <1>5
  <2>2. Weight(t, x, x, Nil) = 0
    BY <1>1, <1>4 DEF Weight
  <2>3. H[y] \in Nat
    BY <1>3, <1>4, <1>5
  <2> QED BY <1>5, <2>1, <2>2, <2>3
<1>7. ASSUME NEW m \in N, H[m] = 0, m # x PROVE m \notin t.black
  <2>1. t.child[s][m] \in Keys \cup {Nil} /\ m \in Keys
    BY <1>1, <1>4, ShapeSets
  <2>2. H[m] = H[t.child[s][m]] + Weight(t, m, x, Nil) /\ H[t.child[s][m]] \in Nat
    BY <1>5, <2>1
  <2>3. m \in t.black => Weight(t, m, x, Nil) # 0
    BY <1>7 DEF Weight
  <2>4. Weight(t, m, x, Nil) \in 0 .. 2
    BY WeightType
  <2> QED BY <1>7, <2>2, <2>3, <2>4
<1>8. y \notin t.black
  BY <1>3, <1>6, <1>7
<1>9. ASSUME NEW q \in Sides, NEW d, d = t.child[q][y], d # Nil PROVE FALSE
  <2>1. d \in N /\ t.p[d] = y /\ d # y
    BY <1>1, <1>3, <1>9, Children
  <2>2. H[d] = 0
    <3>1. H[y] = H[d] + Weight(t, y, x, Nil) /\ H[d] \in Nat /\ y \in Keys
      BY <1>3, <1>4, <1>5, <1>9, <2>1
    <3>2. Weight(t, y, x, Nil) \in 0 .. 2
      BY WeightType
    <3> QED BY <1>6, <3>1, <3>2
  <2>3. d # x
    <3>1. Wide(o, d) < Wide(o, y) /\ Wide(o, y) < Wide(o, x)
      BY <1>1, <1>2, <1>3, <1>9, <2>1, Children
    <3>2. Wide(o, y) \in Nat /\ Wide(o, x) \in Nat
      BY <1>1, <1>3, WideType
    <3> QED BY <3>1, <3>2
  <2>4. d \notin t.black
    BY <1>7, <2>1, <2>2, <2>3
  <2> QED BY <1>1, <1>3, <1>4, <1>8, <2>1, <2>4 DEF Coloured
<1> QED BY <1>3, <1>8, <1>9

Cut(t, b, x, y, up) ==
  /\ b \in Trees /\ b.black = t.black /\ b.root = IF up = Nil THEN y ELSE t.root
  /\ \A n \in Keys : b.p[n] = IF n = x THEN Nil ELSE IF n = y THEN up ELSE t.p[n]
  /\ \A n \in Keys, s \in Sides :
       b.child[s][n] = IF n \in {x, y} THEN Nil
                       ELSE IF n = up /\ t.child[s][up] = x THEN y ELSE t.child[s][n]

(* What _transplant assigns. *)
LEMMA TransplantCuts ==
  ASSUME NEW t \in Trees, NEW x \in Keys, NEW y \in Keys \cup {Nil}, x # y,
         NEW up, up = t.p[x], up \notin {x, y} \ {Nil}
  PROVE  Cut(t, Transplanted(t, x, y), x, y, up)
<1>1. /\ t.child \in [Sides -> [Keys -> Keys \cup {Nil}]] /\ t.p \in [Keys -> Keys \cup {Nil}]
      /\ t.root \in Keys \cup {Nil} /\ t.black \in SUBSET Keys
      /\ t = [root |-> t.root, child |-> t.child, p |-> t.p, black |-> t.black]
      /\ up \in Keys \cup {Nil} /\ x # Nil /\ Nil \notin Keys
  BY KeysFacts DEF Trees
<1> DEFINE P == [n \in Keys |-> CASE n = x -> Nil [] n = y -> up [] OTHER -> t.p[n]]
           C == [s \in Sides |-> [n \in Keys |->
                      CASE n \in {x, y} -> Nil
                        [] n = up /\ t.child[s][up] = x -> y
                        [] OTHER -> t.child[s][n]]]
           R == IF up = Nil THEN y ELSE t.root
<1>2. Transplanted(t, x, y) = [root |-> R, child |-> C, p |-> P, black |-> t.black]
  <2>1. Parent(t, x) = up
    BY <1>1 DEF Parent
  <2>2. Transplanted(t, x, y) = [t EXCEPT !.root = R, !.p = P, !.child = C]
    BY ONLY <2>1 DEF Transplanted
  <2> HIDE DEF P, C, R
  <2> QED BY ONLY <1>1, <2>2
<1>3. \A n \in Keys : P[n] = IF n = x THEN Nil ELSE IF n = y THEN up ELSE t.p[n]
  <2> TAKE n \in Keys
  <2>1. CASE n = x
    BY <2>1
  <2>2. CASE n = y
    BY <2>2
  <2>3. CASE n \notin {x, y}
    BY <2>3
  <2> QED BY <2>1, <2>2, <2>3
<1>4. \A n \in Keys, s \in Sides :
       C[s][n] = IF n \in {x, y} THEN Nil
                 ELSE IF n = up /\ t.child[s][up] = x THEN y ELSE t.child[s][n]
  <2> TAKE n \in Keys, s \in Sides
  <2>1. CASE n \in {x, y}
    BY <1>1, <2>1
  <2>2. CASE n = up /\ t.child[s][up] = x
    BY <1>1, <2>2
  <2>3. CASE n \notin {x, y} /\ ~(n = up /\ t.child[s][up] = x)
    BY <2>3
  <2> QED BY <2>1, <2>2, <2>3
<1>5. P \in [Keys -> Keys \cup {Nil}]
  <2>1. \A n \in Keys : P[n] \in Keys \cup {Nil}
    BY <1>1, <1>3
  <2>2. P = [n \in Keys |-> P[n]]
    OBVIOUS
  <2> HIDE DEF P
  <2> QED BY <2>1, <2>2
<1>6. C \in [Sides -> [Keys -> Keys \cup {Nil}]]
  <2>1. \A s \in Sides, n \in Keys : C[s][n] \in Keys \cup {Nil}
    BY <1>1, <1>4
  <2>2. C = [q \in Sides |-> C[q]] /\ \A q \in Sides : C[q] = [m \in Keys |-> C[q][m]]
    OBVIOUS
  <2> HIDE DEF C
  <2>3. \A q \in Sides : C[q] \in [Keys -> Keys \cup {Nil}]
    BY <2>1, <2>2
  <2> QED BY <2>2, <2>3
<1> HIDE DEF P, C
<1>7. R \in Keys \cup {Nil}
  BY <1>1
<1>8. PICK b : b = Transplanted(t, x, y)
  OBVIOUS
<1>9. b.root = R /\ b.child = C /\ b.p = P /\ b.black = t.black
  BY <1>2, <1>8
<1>10. b \in Trees
  BY ONLY <1>1, <1>2, <1>5, <1>6, <1>7, <1>8 DEF Trees
<1>11. Cut(t, b, x, y, up)
  BY ONLY <1>3, <1>4, <1>9, <1>10 DEF Cut
<1> QED BY <1>8, <1>11

(* x has y for its only child, which is a leaf, and up for its parent. *)
Spliced(t, N, o, x, y, up, s) ==
  /\ Shape(t, N, o, x) /\ x \in N /\ y \in (N \ {x}) \cup {Nil} /\ up = t.p[x]
  /\ s \in Sides /\ t.child[s][x] = y /\ t.child[Other(s)][x] = Nil
  /\ (y # Nil => t.p[y] = x /\ \A q \in Sides : t.child[q][y] = Nil)
  /\ up \in (N \ {x, y}) \cup {Nil} /\ (up = Nil <=> x = t.root)
  /\ N \subseteq Keys /\ Nil \notin Keys

(* The node that is cut out has one child at most, which is a leaf. *)
LEMMA MendedSplices ==
  ASSUME NEW t, NEW N, NEW o, NEW H, NEW x, NEW y, Mended(t, N, o, H, x, y)
  PROVE  \E s : Spliced(t, N, o, x, y, t.p[x], s)
<1>1. Shape(t, N, o, x) /\ x \in N /\ Gone(t, x, y)
  BY DEF Mended
<1>2. PICK s \in Sides : t.child[s][x] = y /\ t.child[Other(s)][x] = Nil
  BY <1>1 DEF Gone
<1>3. N \subseteq Keys /\ Nil \notin Keys
  BY <1>1, ShapeSets
<1>4. y # Nil => y \in N /\ t.p[y] = x /\ x # y /\ \A q \in Sides : t.child[q][y] = Nil
  BY MendedLeaf
<1>5. t.p[x] \in N \cup {Nil} /\ t.p[x] # x /\ (t.p[x] = Nil <=> x = t.root)
  BY <1>1, RootParent
<1>6. t.p[x] # Nil => t.p[x] # y
  <2> SUFFICES ASSUME t.p[x] = y, y # Nil PROVE FALSE
    OBVIOUS
  <2>1. x # t.root
    BY <1>5
  <2>2. \E q \in Sides : t.child[q][y] = x
    BY <1>1, <2>1, AtParent
  <2> QED BY <1>1, <1>3, <1>4, <2>2
<1> QED BY <1>1, <1>2, <1>3, <1>4, <1>5, <1>6 DEF Spliced

(* What is left is linked, and the node that was cut out has no links. *)
LEMMA CutLinked ==
  ASSUME NEW t, NEW N, NEW o, NEW x, NEW y, NEW up, NEW s, Spliced(t, N, o, x, y, up, s),
         NEW b, Cut(t, b, x, y, up)
  PROVE  Linked(b, N \ {x})
<1>1. /\ Shape(t, N, o, x) /\ x \in N /\ y \in (N \ {x}) \cup {Nil} /\ up = t.p[x]
      /\ s \in Sides /\ t.child[s][x] = y /\ t.child[Other(s)][x] = Nil
      /\ (y # Nil => t.p[y] = x /\ \A q \in Sides : t.child[q][y] = Nil)
      /\ up \in (N \ {x, y}) \cup {Nil} /\ (up = Nil <=> x = t.root)
      /\ N \subseteq Keys /\ Nil \notin Keys
  BY DEF Spliced
<1>2. /\ b.root = IF up = Nil THEN y ELSE t.root
      /\ \A n \in Keys : b.p[n] = IF n = x THEN Nil ELSE IF n = y THEN up ELSE t.p[n]
      /\ \A n \in Keys, q \in Sides :
           b.child[q][n] = IF n \in {x, y} THEN Nil
                           ELSE IF n = up /\ t.child[q][up] = x THEN y ELSE t.child[q][n]
  BY DEF Cut
<1>3. /\ t.root \in N \cup {Nil}
      /\ \A n \in Keys \ N : t.p[n] = Nil /\ \A q \in Sides : t.child[q][n] = Nil
      /\ \A n \in N, q \in Sides :
           /\ t.child[q][n] \in N \cup {Nil}
           /\ t.child[q][n] # Nil => t.p[t.child[q][n]] = n
      /\ \A n \in N : IF n = t.root THEN t.p[n] = Nil
                      ELSE t.p[n] \in N /\ \E q \in Sides : t.child[q][t.p[n]] = n
  BY <1>1 DEF Shape, Linked
<1>4. \A m \in N : t.p[m] = x => m = y
  <2> SUFFICES ASSUME NEW m \in N, t.p[m] = x PROVE m = y
    OBVIOUS
  <2>1. m = t.child[s][x] \/ m = t.child[Other(s)][x]
    BY <1>1, ChildOf
  <2> QED BY <1>1, <2>1
<1>5. b.root \in (N \ {x}) \cup {Nil}
  BY <1>1, <1>2, <1>3
<1>6. ASSUME NEW n \in Keys \ (N \ {x}) PROVE b.p[n] = Nil /\ \A q \in Sides : b.child[q][n] = Nil
  <2>1. CASE n = x
    BY <1>1, <1>2, <2>1
  <2>2. CASE n # x
    <3>1. n \notin N /\ n # y /\ n # up
      BY <1>1, <1>6, <2>2
    <3> QED BY <1>2, <1>3, <2>2, <3>1
  <2> QED BY <2>1, <2>2
<1>7. ASSUME NEW n \in N \ {x}, NEW q \in Sides
      PROVE  /\ b.child[q][n] \in (N \ {x}) \cup {Nil}
             /\ b.child[q][n] # Nil => b.p[b.child[q][n]] = n
  <2>1. CASE n = y
    BY <1>1, <1>2, <2>1
  <2>2. CASE n = up /\ t.child[q][up] = x
    <3>1. b.child[q][n] = y
      BY <1>1, <1>2, <1>7, <2>2
    <3> QED BY <1>1, <1>2, <2>2, <3>1
  <2>3. CASE n # y /\ ~(n = up /\ t.child[q][up] = x)
    <3>1. PICK d : d = t.child[q][n]
      OBVIOUS
    <3>2. b.child[q][n] = d /\ d \in N \cup {Nil} /\ (d # Nil => t.p[d] = n)
      BY <1>1, <1>2, <1>3, <1>7, <2>3, <3>1
    <3>3. d # x
      BY <1>1, <2>3, <3>1, <3>2
    <3>4. d # Nil => d # y
      BY <1>1, <1>7, <3>2
    <3> QED BY <1>1, <1>2, <3>2, <3>3, <3>4
  <2> QED BY <2>1, <2>2, <2>3
<1>8. ASSUME NEW n \in N \ {x}
      PROVE  IF n = b.root THEN b.p[n] = Nil
             ELSE b.p[n] \in N \ {x} /\ \E q \in Sides : b.child[q][b.p[n]] = n
  <2>0. n \in Keys /\ n # x /\ n # Nil
    BY <1>1, <1>8
  <2>1. CASE n = y
    <3>1. b.p[n] = up /\ (up = Nil <=> n = b.root)
      <4>1. y # t.root
        BY <1>1, <1>3, <2>0, <2>1
      <4> QED BY <1>2, <2>0, <2>1, <4>1
    <3>2. ASSUME up # Nil PROVE \E q \in Sides : b.child[q][up] = n
      <4>1. PICK q \in Sides : t.child[q][up] = x
        BY <1>1, <1>3, <3>2
      <4>2. b.child[q][up] = y
        BY <1>1, <1>2, <3>2, <4>1
      <4> QED BY <2>1, <4>2
    <3> QED BY <1>1, <3>1, <3>2
  <2>2. CASE n # y
    <3>1. b.p[n] = t.p[n] /\ t.p[n] # x
      BY <1>2, <1>4, <1>8, <2>0, <2>2
    <3>2. n = b.root <=> n = t.root
      BY <1>1, <1>2, <2>0, <2>2
    <3>3. ASSUME n # t.root PROVE t.p[n] \in N \ {x} /\ \E q \in Sides : b.child[q][t.p[n]] = n
      <4>1. PICK u, q : u = t.p[n] /\ u \in N /\ u # x /\ q \in Sides /\ t.child[q][u] = n
        BY <1>3, <1>8, <3>1, <3>3
      <4>2. u # y
        BY <1>1, <2>0, <4>1
      <4>3. b.child[q][u] = n
        BY <1>1, <1>2, <2>0, <4>1, <4>2
      <4> QED BY <4>1, <4>3
    <3> QED BY <1>3, <1>8, <3>1, <3>2, <3>3
  <2> QED BY <2>1, <2>2
<1> QED BY <1>5, <1>6, <1>7, <1>8 DEF Linked

(* The layout: y takes the room of x. *)
Grown(o, x, y) ==
  [o EXCEPT !.end = [q \in Sides |-> [m \in Keys |-> IF m = y THEN o.end[q][x] ELSE o.end[q][m]]]]

(* The child takes over the part of the line that was its parent's. *)
LEMMA GrownIs ==
  ASSUME NEW o \in Layouts, NEW x \in Keys, NEW y, NEW b, b = Grown(o, x, y)
  PROVE  /\ b \in Layouts /\ b.at = o.at /\ b.top = o.top
         /\ \A q \in Sides, m \in Keys : b.end[q][m] = IF m = y THEN o.end[q][x] ELSE o.end[q][m]
<1> DEFINE E == [q \in Sides |-> [m \in Keys |-> IF m = y THEN o.end[q][x] ELSE o.end[q][m]]]
<1>1. /\ o.at \in [Keys -> Nat] /\ o.end \in [Sides -> [Keys -> Nat]] /\ o.top \in Nat
      /\ o = [at |-> o.at, end |-> o.end, top |-> o.top]
  BY DEF Layouts
<1>2. \A q \in Sides, m \in Keys : o.end[q][m] \in Nat
  BY <1>1
<1>3. E \in [Sides -> [Keys -> Nat]]
  BY <1>1, <1>2
<1>4. \A q \in Sides, m \in Keys : E[q][m] = IF m = y THEN o.end[q][x] ELSE o.end[q][m]
  OBVIOUS
<1>5. b = [at |-> o.at, end |-> E, top |-> o.top]
  <2>1. b = [o EXCEPT !.end = E]
    BY DEF Grown
  <2> HIDE DEF E
  <2> QED BY <1>1, <2>1
<1> HIDE DEF E
<1> QED BY <1>1, <1>3, <1>4, <1>5 DEF Layouts

(* What is left is in order. *)
LEMMA CutShape ==
  ASSUME NEW t, NEW N, NEW o, NEW x, NEW y, NEW up, NEW s, Spliced(t, N, o, x, y, up, s),
         NEW b, Cut(t, b, x, y, up)
  PROVE  Shape(b, N \ {x}, Grown(o, x, y), Nil)
<1>1. /\ Shape(t, N, o, x) /\ x \in N /\ y \in (N \ {x}) \cup {Nil} /\ up = t.p[x]
      /\ s \in Sides /\ t.child[s][x] = y /\ t.child[Other(s)][x] = Nil
      /\ (y # Nil => t.p[y] = x /\ \A q \in Sides : t.child[q][y] = Nil)
      /\ up \in (N \ {x, y}) \cup {Nil}
      /\ N \subseteq Keys /\ Nil \notin Keys /\ x \in Keys
  BY DEF Spliced
<1>2. /\ b \in Trees
      /\ \A n \in Keys, q \in Sides :
           b.child[q][n] = IF n \in {x, y} THEN Nil
                           ELSE IF n = up /\ t.child[q][up] = x THEN y ELSE t.child[q][n]
  BY DEF Cut
<1>3. PICK o2 : o2 = Grown(o, x, y)
  OBVIOUS
<1>4. /\ o2 \in Layouts /\ o2.at = o.at /\ o2.top = o.top
      /\ \A q \in Sides, m \in Keys : o2.end[q][m] = IF m = y THEN o.end[q][x] ELSE o.end[q][m]
  <2>1. o \in Layouts
    BY <1>1 DEF Shape, Fits
  <2> QED BY ONLY <1>1, <1>3, <2>1, GrownIs
<1>5. ASSUME NEW m \in N \ {x}
      PROVE  o2.end["l"][m] < o2.at[m] /\ o2.at[m] < o2.end["r"][m] /\ o2.end["r"][m] <= o2.top
  <2>1. m \in N /\ m \in Keys
    BY <1>1, <1>5
  <2>2. /\ o.end["l"][m] < o.at[m] /\ o.at[m] < o.end["r"][m] /\ o.end["r"][m] <= o.top
        /\ o.at[m] \in Nat
    BY <1>1, <2>1, Ends
  <2>3. CASE m = y
    <3>1. /\ o.end["l"][x] < o.at[x] /\ o.at[x] < o.end["r"][x] /\ o.end["r"][x] <= o.top
          /\ o.at[x] \in Nat /\ o.end["l"][x] \in Nat /\ o.end["r"][x] \in Nat
      BY <1>1, Ends
    <3>2. Covers(o, y, y)
      BY <2>2, <2>3 DEF Covers
    <3>3. Covers(o, x, y)
      BY <1>1, <2>1, <2>3, <3>2, ChildCovers
    <3>4. o2.end["l"][m] = o.end["l"][x] /\ o2.end["r"][m] = o.end["r"][x]
      BY <1>4, <2>1, <2>3, TwoSides
    <3> QED BY <1>4, <2>3, <3>1, <3>3, <3>4 DEF Covers
  <2>4. CASE m # y
    BY <1>4, <2>1, <2>2, <2>4, TwoSides
  <2> QED BY <2>3, <2>4
<1>6. ASSUME NEW m \in N \ {x}, NEW q \in Sides, NEW d, d = b.child[q][m], d # Nil
      PROVE  o2.end[q][d] = o2.end[q][m] /\ o2.end[Other(q)][d] = o2.at[m]
  <2>0. m \in Keys /\ m # x /\ m \in N /\ Other(q) \in Sides
    BY <1>1, <1>6, SidesFacts
  <2>1. m # y
    BY <1>2, <1>6, <2>0
  <2>2. CASE m = up /\ t.child[q][up] = x
    <3>1. d = y /\ y \in Keys
      BY <1>1, <1>2, <1>6, <2>0, <2>1, <2>2
    <3>2. o.end[q][x] = o.end[q][m] /\ o.end[Other(q)][x] = o.at[m]
      <4>1. m \in N /\ t.child[q][m] = x /\ x # Nil
        BY <1>1, <2>0, <2>2
      <4> QED BY <1>1, <4>1 DEF Shape, Fits
    <3> QED BY <1>4, <2>0, <1>6, <2>1, <3>1, <3>2
  <2>3. CASE ~(m = up /\ t.child[q][up] = x)
    <3>1. d = t.child[q][m]
      BY <1>2, <1>6, <2>0, <2>1, <2>3
    <3>2. d \in N /\ d \in Keys /\ t.p[d] = m
      BY <1>1, <1>6, <2>0, <3>1, Children
    <3>3. o.end[q][d] = o.end[q][m] /\ o.end[Other(q)][d] = o.at[m]
      BY <1>1, <1>6, <2>0, <3>1 DEF Shape, Fits
    <3>4. d # y
      BY <1>1, <2>0, <3>2
    <3> QED BY <1>4, <1>6, <2>0, <2>1, <3>2, <3>3, <3>4
  <2> QED BY <2>2, <2>3
<1>7. Fits(b, N \ {x}, o2)
  BY <1>4, <1>5, <1>6 DEF Fits
<1>8. Sorted(o2, N \ {x}, Nil)
  BY <1>1, <1>4 DEF Shape, Sorted
<1>9. Linked(b, N \ {x}) /\ N \ {x} \in SUBSET Keys
  BY <1>1, CutLinked
<1> QED BY <1>2, <1>3, <1>7, <1>8, <1>9 DEF Shape

(* The heights of what is left are even. *)
LEMMA CutEven ==
  ASSUME NEW t, NEW N, NEW o, NEW x, NEW y, NEW up, NEW s, Spliced(t, N, o, x, y, up, s),
         NEW H, Even(t, H, x, Nil), NEW c, Cut(t, c, x, y, up),
         NEW b, SameLinks(c, b), b.black = c.black \ {x}
  PROVE  \E G : Even(b, G, Nil, Nil)
<1>1. /\ Shape(t, N, o, x) /\ x \in N /\ y \in (N \ {x}) \cup {Nil} /\ up = t.p[x]
      /\ s \in Sides /\ t.child[s][x] = y /\ t.child[Other(s)][x] = Nil
      /\ (y # Nil => t.p[y] = x /\ \A q \in Sides : t.child[q][y] = Nil)
      /\ up \in (N \ {x, y}) \cup {Nil}
      /\ N \subseteq Keys /\ Nil \notin Keys /\ x \in Keys /\ y \in Keys \cup {Nil}
  BY DEF Spliced
<1>2. /\ b.black = t.black \ {x}
      /\ \A n \in Keys, q \in Sides :
           b.child[q][n] = IF n \in {x, y} THEN Nil
                           ELSE IF n = up /\ t.child[q][up] = x THEN y ELSE t.child[q][n]
  BY DEF Cut, SameLinks
<1>3. /\ H \in [Keys \cup {Nil} -> Nat] /\ H[Nil] = 0
      /\ \A m \in Keys, q \in Sides : H[m] = H[t.child[q][m]] + Weight(t, m, x, Nil)
  BY DEF Even, EvenBut, Heights
<1>4. /\ Weight(t, x, x, Nil) = 0 /\ Weight(b, x, Nil, Nil) = 0
      /\ \A m \in Keys : m # x => Weight(b, m, Nil, Nil) = Weight(t, m, x, Nil)
  BY <1>1, <1>2 DEF Weight
<1>5. H[x] = H[y]
  <2>1. H[x] = H[y] + 0
    BY <1>1, <1>3, <1>4
  <2>2. H[y] \in Nat
    BY <1>1, <1>3
  <2> QED BY <2>1, <2>2
<1>6. PICK G : G = [H EXCEPT ![x] = 0]
  OBVIOUS
<1>7. G \in [Keys \cup {Nil} -> Nat] /\ G[x] = 0 /\ \A m \in Keys \cup {Nil} : m # x => G[m] = H[m]
  BY <1>1, <1>3, <1>6
<1>8. G[Nil] = 0 /\ G[y] = H[x]
  BY <1>1, <1>3, <1>5, <1>7
<1>9. ASSUME NEW m \in Keys, NEW q \in Sides PROVE G[m] = G[b.child[q][m]] + Weight(b, m, Nil, Nil)
  <2>1. CASE m = x
    <3>1. b.child[q][m] = Nil
      BY <1>2, <2>1
    <3> QED BY <1>4, <1>7, <1>8, <2>1, <3>1
  <2>2. CASE m # x /\ m = y
    <3>1. b.child[q][m] = Nil /\ t.child[q][m] = Nil
      BY <1>1, <1>2, <2>2
    <3>2. H[m] = H[Nil] + Weight(t, m, x, Nil)
      BY <1>3, <3>1
    <3> QED BY <1>3, <1>4, <1>7, <1>8, <2>2, <3>1, <3>2
  <2>3. CASE m \notin {x, y} /\ m = up /\ t.child[q][up] = x
    <3>1. b.child[q][m] = y
      BY <1>2, <2>3
    <3>2. H[m] = H[x] + Weight(t, m, x, Nil)
      BY <1>3, <2>3
    <3> QED BY <1>4, <1>7, <1>8, <2>3, <3>1, <3>2
  <2>4. CASE m \notin {x, y} /\ ~(m = up /\ t.child[q][up] = x)
    <3>1. PICK d : d = t.child[q][m]
      OBVIOUS
    <3>2. b.child[q][m] = d /\ d \in Keys \cup {Nil}
      BY <1>1, <1>2, <2>4, <3>1, ShapeSets
    <3>3. d # x
      <4>1. CASE m \in N
        BY <1>1, <2>4, <3>1, <4>1, Children
      <4>2. CASE m \notin N
        BY <1>1, <3>1, <4>2 DEF Shape, Linked
      <4> QED BY <4>1, <4>2
    <3>4. H[m] = H[d] + Weight(t, m, x, Nil)
      BY <1>3, <3>1
    <3> QED BY <1>4, <1>7, <2>4, <3>2, <3>3, <3>4
  <2> QED BY <2>1, <2>2, <2>3, <2>4
<1> QED BY <1>7, <1>8, <1>9 DEF Even, EvenBut, Heights

Blackened(r, c, x) == r = Black(Red(c, x), c.root)

(* The end of rb_remove_node. *)
LEMMA RemovedGood ==
  ASSUME NEW t, NEW N, NEW o, NEW H, NEW x, NEW y, Mended(t, N, o, H, x, y),
         NEW c, c = Transplanted(t, x, y), NEW r, Blackened(r, c, x)
  PROVE  Good(r, N \ {x}, Nil, Nil) /\ r.root \in (N \ {x}) \cup {Nil} /\ r \in Trees
<1>1. PICK up, s : up = t.p[x] /\ Spliced(t, N, o, x, y, up, s)
  BY MendedSplices
<1>2. /\ Shape(t, N, o, x) /\ x \in N /\ y \in (N \ {x}) \cup {Nil} /\ up = t.p[x]
      /\ s \in Sides /\ t.child[s][x] = y /\ t.child[Other(s)][x] = Nil
      /\ up \in (N \ {x, y}) \cup {Nil} /\ (up = Nil <=> x = t.root)
      /\ N \subseteq Keys /\ Nil \notin Keys /\ x \in Keys /\ y \in Keys \cup {Nil} /\ t \in Trees
  BY <1>1 DEF Spliced, Shape
<1>3. /\ Even(t, H, x, Nil) /\ Coloured(t, N, Nil, Nil) /\ t.root \in t.black
      /\ up \in t.black \cup {Nil}
  BY <1>1 DEF Mended
<1>4. Cut(t, c, x, y, up)
  <2>1. x # y /\ up \notin {x, y} \ {Nil}
    BY <1>2
  <2> QED BY <1>2, <2>1, TransplantCuts
<1>5. Shape(c, N \ {x}, Grown(o, x, y), Nil)
  BY <1>1, <1>4, CutShape
<1>6. c \in Trees /\ SameLinks(c, c) /\ c.root \in (N \ {x}) \cup {Nil}
  <2>1. c \in Trees
    BY <1>4 DEF Cut
  <2> QED BY <1>5, <2>1, ShapeSets DEF SameLinks
<1>7. PICK b : b = Red(c, x)
  OBVIOUS
<1>8. SameLinks(c, b) /\ b.black = c.black \ {x}
  BY ONLY <1>2, <1>6, <1>7, PaintRed
<1>9. Shape(b, N \ {x}, Grown(o, x, y), Nil) /\ b.root = c.root /\ b \in Trees
  BY <1>5, <1>8, PaintedShape DEF SameLinks
<1>10. PICK G : Even(b, G, Nil, Nil)
  BY ONLY <1>1, <1>3, <1>4, <1>8, CutEven
<1>11. SameLinks(b, r) /\ r.black = b.black \cup ({b.root} \ {Nil})
  <2>1. r = Black(b, b.root) /\ b.root \in Keys \cup {Nil}
    BY <1>2, <1>6, <1>7, <1>9 DEF Blackened
  <2>2. /\ r \in Trees /\ r.root = b.root /\ r.child = b.child /\ r.p = b.p
        /\ r.black = b.black \cup ({b.root} \ {Nil})
    BY ONLY <1>9, <2>1, Painting
  <2> QED BY <1>9, <2>2 DEF SameLinks
<1>12. Shape(r, N \ {x}, Grown(o, x, y), Nil)
  BY <1>9, <1>11, PaintedShape
<1>13. \E K : Even(r, K, Nil, Nil)
  <2>1. CASE b.root = Nil
    <3>1. r.black = b.black /\ r.child = b.child
      BY <1>11, <2>1 DEF SameLinks
    <3>2. Even(r, G, Nil, Nil)
      BY <1>10, <3>1 DEF Even, EvenBut, Weight
    <3> QED BY <3>2
  <2>2. CASE b.root # Nil
    <3>1. b.root \in N \ {x}
      BY <1>6, <1>9, <2>2
    <3>2. \A m \in Keys : m # b.root => Weight(r, m, Nil, Nil) = Weight(b, m, Nil, Nil)
      BY <1>11 DEF Weight
    <3> QED BY ONLY <1>9, <1>10, <1>11, <3>1, <3>2, PaintedEven
  <2> QED BY <2>1, <2>2
<1>14. Coloured(r, N \ {x}, Nil, Nil)
  <2> SUFFICES ASSUME NEW m \in N \ {x}, m \notin r.black, r.p[m] \notin r.black \cup {Nil} PROVE FALSE
    BY DEF Coloured
  <2>1. /\ r.p = c.p /\ c.black = t.black
        /\ \A n \in Keys : c.p[n] = IF n = x THEN Nil ELSE IF n = y THEN up ELSE t.p[n]
    BY <1>4, <1>8, <1>11 DEF Cut, SameLinks
  <2>2. m \in Keys /\ m # x /\ m \notin t.black
    BY <1>2, <1>8, <1>11, <2>1
  <2>3. m # y
    <3> SUFFICES ASSUME m = y PROVE FALSE
      OBVIOUS
    <3>1. r.p[m] = up
      BY <2>1, <2>2
    <3>2. up \in t.black /\ up # x
      BY <1>2, <1>3, <3>1
    <3> QED BY <1>8, <1>11, <2>1, <3>1, <3>2
  <2>4. r.p[m] = t.p[m]
    BY <2>1, <2>2, <2>3
  <2>5. t.p[m] # x
    <3>1. t.p[m] = x => m = t.child[s][x] \/ m = t.child[Other(s)][x]
      BY <1>2, ChildOf
    <3> QED BY <1>2, <2>2, <2>3, <3>1
  <2>6. t.p[m] \notin t.black \cup {Nil}
    BY <1>8, <1>11, <2>1, <2>4, <2>5
  <2> QED BY <1>2, <1>3, <2>2, <2>6 DEF Coloured
<1>15. r.root \in r.black \cup {Nil} /\ r.root \in (N \ {x}) \cup {Nil} /\ r \in Trees
  BY <1>6, <1>9, <1>11 DEF SameLinks
<1> QED BY <1>12, <1>13, <1>14, <1>15 DEF Good

-------------------------------------------------------------------------------
(* The inductive invariant. *)

RbIdle ==
  /\ op = "none" /\ node = Nil /\ rm = Nil /\ sc = Nil
  /\ size = Cardinality(inserted) /\ Good(tree, inserted, Nil, Nil)

RbInserting ==
  /\ op \in {"fix_rr", "rooted"} /\ rm = Nil /\ sc = Nil /\ node \in inserted
  /\ Cardinality(inserted) = size + 1
  /\ op = "fix_rr" => node \notin tree.black /\ Good(tree, inserted, node, node)
  /\ op = "rooted" => Good(tree, inserted, Nil, node)

RbRemoving ==
  /\ op \in {"fix_bb", "transplant"} /\ rm \in Keys \ inserted /\ node \in inserted \cup {rm}
  /\ size = Cardinality(inserted) + 1
  /\ op = "fix_bb" => \E o, H : Short(tree, inserted \cup {rm}, o, H, rm, sc, node)
  /\ op = "transplant" => \E o, H : Mended(tree, inserted \cup {rm}, o, H, rm, sc)

RbInv == inserted \subseteq Keys /\ size \in Nat /\ (RbIdle \/ RbInserting \/ RbRemoving)

(* Counting the nodes, as size does. *)
LEMMA InsertedCount ==
  ASSUME NEW N \in SUBSET Keys
  PROVE  /\ Cardinality(N) \in Nat /\ Cardinality(N) <= Cardinality(Keys) /\ Cardinality(Keys) \in Nat
         /\ \A k \in Keys \ N : Cardinality(N \cup {k}) = Cardinality(N) + 1
         /\ \A k \in N : Cardinality(N \ {k}) = Cardinality(N) - 1
         /\ Cardinality(N) = 0 => N = {}
<1>1. IsFiniteSet(N) /\ IsFiniteSet(Keys) /\ Cardinality(N) <= Cardinality(Keys)
  BY KeysFacts, FS_Subset
<1>2. Cardinality(N) \in Nat /\ Cardinality(Keys) \in Nat
  BY <1>1, FS_CardinalityType
<1>3. \A k \in Keys \ N : Cardinality(N \cup {k}) = Cardinality(N) + 1
  BY <1>1, FS_AddElement
<1>4. \A k \in N : Cardinality(N \ {k}) = Cardinality(N) - 1
  BY <1>1, FS_RemoveElement
<1>5. Cardinality(N) = 0 => N = {}
  BY <1>1, FS_EmptySet
<1> QED BY <1>1, <1>2, <1>3, <1>4, <1>5

(* The empty tree. *)
LEMMA RbInitOK ==
  ASSUME RbInit
  PROVE  RbInv
<1>1. PICK t : t = tree
  OBVIOUS
<1>2. /\ t.root = Nil /\ t.black = {} /\ t \in Trees
      /\ \A n \in Keys : t.p[n] = Nil /\ \A s \in Sides : t.child[s][n] = Nil
  <2>1. t = [root |-> Nil, child |-> [s \in Sides |-> [n \in Keys |-> Nil]],
             p |-> [n \in Keys |-> Nil], black |-> {}]
    BY <1>1 DEF RbInit
  <2>2. /\ [s \in Sides |-> [n \in Keys |-> Nil]] \in [Sides -> [Keys -> Keys \cup {Nil}]]
        /\ [n \in Keys |-> Nil] \in [Keys -> Keys \cup {Nil}]
    OBVIOUS
  <2> QED BY <2>1, <2>2 DEF Trees
<1>3. PICK o : o = [at |-> [m \in Keys |-> 1],
                    end |-> [q \in Sides |-> [m \in Keys |-> 0]], top |-> 2]
  OBVIOUS
<1>4. o \in Layouts
  BY <1>3 DEF Layouts
<1>5. Shape(t, {}, o, Nil)
  BY <1>2, <1>4 DEF Shape, Linked, Fits, Sorted
<1>6. PICK H : H = [m \in Keys \cup {Nil} |-> 0]
  OBVIOUS
<1>7. Even(t, H, Nil, Nil)
  <2>1. \A m \in Keys : Weight(t, m, Nil, Nil) = 0
    BY <1>2, KeysFacts DEF Weight
  <2>2. H \in [Keys \cup {Nil} -> Nat] /\ \A m \in Keys \cup {Nil} : H[m] = 0
    BY <1>6
  <2> QED BY <1>2, <2>1, <2>2 DEF Even, EvenBut, Heights
<1>8. Good(t, {}, Nil, Nil)
  BY <1>2, <1>5, <1>7 DEF Good, Coloured
<1>9. Cardinality({}) = 0
  BY FS_EmptySet
<1> QED BY <1>1, <1>8, <1>9 DEF RbInit, RbInv, RbIdle

-------------------------------------------------------------------------------
(* The actions. *)

(* What Insert makes of an empty tree. *)
FirstLinked(t, k, q) ==
  [t EXCEPT !.p[k] = Nil,
            !.child = [s \in Sides |-> [n \in Keys |->
                         CASE n = k -> Nil
                           [] n = Nil /\ s = q -> k
                           [] OTHER -> @[s][n]]],
            !.black = @ \ {k}]

(* Its links. *)
LEMMA FirstTree ==
  ASSUME NEW t \in Trees, NEW k \in Keys, NEW q,
         NEW l, l = FirstLinked(t, k, q),
         NEW r, r = Black([l EXCEPT !.root = k], k)
  PROVE  /\ r \in Trees /\ r.root = k /\ k \in r.black
         /\ \A m \in Keys : r.p[m] = IF m = k THEN Nil ELSE t.p[m]
         /\ \A m \in Keys, s \in Sides : r.child[s][m] = IF m = k THEN Nil ELSE t.child[s][m]
<1>1. /\ t.child \in [Sides -> [Keys -> Keys \cup {Nil}]] /\ t.p \in [Keys -> Keys \cup {Nil}]
      /\ t.root \in Keys \cup {Nil} /\ t.black \in SUBSET Keys
      /\ t = [root |-> t.root, child |-> t.child, p |-> t.p, black |-> t.black]
      /\ Nil \notin Keys
  BY KeysFacts DEF Trees
<1> DEFINE P == [t.p EXCEPT ![k] = Nil]
           C == [s \in Sides |-> [n \in Keys |-> CASE n = k -> Nil
                                    [] n = Nil /\ s = q -> k
                                    [] OTHER -> t.child[s][n]]]
<1>2. l = [root |-> t.root, child |-> C, p |-> P, black |-> t.black \ {k}]
  BY <1>1 DEF FirstLinked
<1>3. \A m \in Keys : P[m] = IF m = k THEN Nil ELSE t.p[m]
  BY <1>1
<1>4. \A m \in Keys, s \in Sides : C[s][m] = IF m = k THEN Nil ELSE t.child[s][m]
  <2> TAKE m \in Keys, s \in Sides
  <2>1. m # Nil
    BY <1>1
  <2>2. CASE m = k
    BY <2>1, <2>2
  <2>3. CASE m # k
    BY <2>1, <2>3
  <2> QED BY <2>2, <2>3
<1>5. P \in [Keys -> Keys \cup {Nil}]
  BY <1>1
<1>6. C \in [Sides -> [Keys -> Keys \cup {Nil}]]
  <2>1. \A s \in Sides, m \in Keys : C[s][m] \in Keys \cup {Nil}
    BY <1>1, <1>4
  <2>2. C = [s \in Sides |-> C[s]] /\ \A s \in Sides : C[s] = [m \in Keys |-> C[s][m]]
    OBVIOUS
  <2> HIDE DEF C
  <2>3. \A s \in Sides : C[s] \in [Keys -> Keys \cup {Nil}]
    BY <2>1, <2>2
  <2> QED BY <2>2, <2>3
<1> HIDE DEF P, C
<1>7. PICK a : a = [root |-> k, child |-> C, p |-> P, black |-> t.black \ {k}]
  OBVIOUS
<1>8. a = [l EXCEPT !.root = k]
  BY ONLY <1>2, <1>7
<1>9. a \in Trees /\ a.root = k /\ a.child = C /\ a.p = P
  <2>1. t.black \ {k} \in SUBSET Keys
    BY <1>1
  <2>2. k \in Keys \cup {Nil}
    OBVIOUS
  <2> QED BY ONLY <1>5, <1>6, <1>7, <2>1, <2>2 DEF Trees
<1>10. r = Black(a, k)
  BY <1>8
<1>11. SameLinks(a, a)
  BY ONLY <1>9 DEF SameLinks
<1>12. SameLinks(a, r) /\ r.black = a.black \cup {k}
  BY ONLY <1>10, <1>11, k \in Keys, PaintBlack
<1> QED BY ONLY <1>3, <1>4, <1>9, <1>12 DEF SameLinks

(* The invariant holds after rb_insert has linked its node, *)
LEMMA InsertOK ==
  ASSUME RbInv, NEW k \in Keys, RbInsert(k)
  PROVE  RbInv'
<1>1. RbIdle /\ inserted \subseteq Keys /\ size \in Nat /\ op = "none"
  BY DEF RbInv, RbInserting, RbRemoving, RbInsert
<1>2. PICK t : t = tree
  OBVIOUS
<1>3. /\ Good(t, inserted, Nil, Nil) /\ size = Cardinality(inserted) /\ node = Nil /\ rm = Nil /\ sc = Nil
  BY <1>1, <1>2 DEF RbIdle
<1>4. PICK o : Shape(t, inserted, o, Nil)
  BY <1>3 DEF Good
<1>5. k \notin inserted /\ k # Nil
  <2>1. Search(t, k) = Nil
    BY <1>2 DEF RbInsert
  <2> QED BY <1>4, <2>1, SearchFinds, KeysFacts
<1>6. t \in Trees
  BY <1>4 DEF Shape
<1>7. Cardinality(inserted \cup {k}) = size + 1 /\ inserted \cup {k} \subseteq Keys
  BY <1>1, <1>3, <1>5, InsertedCount
<1>8. inserted' = inserted \cup {k} /\ rm' = Nil /\ sc' = Nil
  BY <1>3 DEF RbInsert
<1>9. PICK hot, s : hot = Hot(t, k) /\ s = Toward(k, hot)
  OBVIOUS
<1>10. PICK l : l = [t EXCEPT !.p[k] = hot,
                              !.child = [q \in Sides |-> [n \in Keys |->
                                  CASE n = k -> Nil
                                    [] n = hot /\ q = s -> k
                                    [] OTHER -> @[q][n]]],
                              !.black = @ \ {k}]
  BY Zenon
<1>11. \/ hot # Nil /\ tree' = l /\ op' = "fix_rr" /\ node' = k /\ size' = size
       \/ hot = Nil /\ tree' = Black([l EXCEPT !.root = k], k) /\ size' = size + 1 /\ op' = op /\ node' = node
  BY <1>2, <1>9, <1>10 DEF RbInsert
<1>12. CASE hot # Nil
  <2>1. t.root # Nil
    BY <1>9, <1>12 DEF Hot
  <2>2. hot \in inserted
    BY <1>4, <1>5, <1>9, <2>1, HotPlace
  <2>3. hot \in Keys /\ hot # k /\ s \in Sides
    BY <1>1, <1>5, <1>9, <2>2 DEF Toward, Sides
  <2>4. Linking(t, l, k, hot, s)
    BY ONLY <1>6, <1>10, <2>3, k \in Keys, LinkingIs
  <2>5. Good(l, inserted \cup {k}, k, k) /\ k \notin l.black
    <3>1. Linking(t, l, k, hot, Toward(k, hot)) /\ k \in Keys \ inserted
      BY <1>5, <1>9, <2>4
    <3> QED BY ONLY <1>3, <1>9, <2>1, <3>1, LinkGood
  <2> QED BY ONLY <1>1, <1>7, <1>8, <1>11, <1>12, <2>5 DEF RbInv, RbInserting
<1>13. CASE hot = Nil
  <2>1. t.root = Nil
    <3> SUFFICES ASSUME t.root # Nil PROVE FALSE
      OBVIOUS
    <3>1. hot \in inserted
      BY <1>4, <1>5, <1>9, HotPlace
    <3> QED BY <1>1, <1>13, <3>1, KeysFacts
  <2>2. PICK r : r = Black([l EXCEPT !.root = k], k)
    OBVIOUS
  <2>3. /\ r \in Trees /\ r.root = k /\ k \in r.black
        /\ \A m \in Keys : r.p[m] = IF m = k THEN Nil ELSE t.p[m]
        /\ \A m \in Keys, q \in Sides : r.child[q][m] = IF m = k THEN Nil ELSE t.child[q][m]
    <3>1. l = FirstLinked(t, k, s)
      BY ONLY <1>10, <1>13 DEF FirstLinked
    <3> QED BY ONLY <1>6, <2>2, <3>1, k \in Keys, FirstTree
  <2>4. Good(r, inserted \cup {k}, Nil, Nil)
    BY ONLY <1>3, <2>1, <2>3, k \in Keys, FirstGood
  <2>5. tree' = r /\ size' = size + 1 /\ op' = "none" /\ node' = Nil
    BY <1>1, <1>3, <1>11, <1>13, <2>2
  <2> QED BY <1>1, <1>7, <1>8, <2>4, <2>5 DEF RbInv, RbIdle
<1> QED BY <1>12, <1>13

(* and in a round of its loop there is one red node whose parent may be red. *)
LEMMA AtFixRR ==
  ASSUME RbInv, op = "fix_rr"
  PROVE  /\ RbInserting /\ inserted \subseteq Keys /\ size \in Nat /\ rm = Nil /\ sc = Nil
         /\ node \in inserted /\ node \notin tree.black /\ Good(tree, inserted, node, node)
         /\ Cardinality(inserted) = size + 1
BY DEF RbInv, RbIdle, RbInserting, RbRemoving

(* The round with a red uncle. *)
LEMMA RecolourOK ==
  ASSUME RbInv, Recolour
  PROVE  RbInv'
<1>1. op = "fix_rr"
  BY DEF Recolour
<1>2. /\ inserted \subseteq Keys /\ size \in Nat /\ rm = Nil /\ sc = Nil
      /\ node \in inserted /\ node \notin tree.black /\ Good(tree, inserted, node, node)
      /\ Cardinality(inserted) = size + 1
  BY <1>1, AtFixRR
<1>3. PICK t, n, N : t = tree /\ n = node /\ N = inserted
  OBVIOUS
<1>4. PICK up : up = Parent(t, n)
  OBVIOUS
<1>5. PICK g, s : g = Parent(t, up) /\ s = SideOf(t, up)
  OBVIOUS
<1>6. PICK u : u = Child(t, g, Other(s))
  OBVIOUS
<1>7. PICK r : r = Red(Black(Black(t, up), u), g)
  OBVIOUS
<1>8. /\ ~IsBlack(t, up) /\ ~IsBlack(t, u) /\ tree' = r /\ node' = g
      /\ size' = size /\ op' = op /\ rm' = rm /\ sc' = sc /\ inserted' = inserted
  BY <1>3, <1>4, <1>5, <1>6, <1>7 DEF Recolour
<1>9. n \in N /\ n \notin t.black /\ Good(t, N, n, n)
  BY <1>2, <1>3
<1>10. PICK o, H : Grand(t, N, o, H, n, up, g, s)
  BY ONLY <1>4, <1>5, <1>8, <1>9, GrandFacts
<1>11. Good(r, N, g, g) /\ g \in N /\ g \notin r.black
  BY ONLY <1>6, <1>7, <1>8, <1>10, RecolourGood
<1> QED BY <1>1, <1>2, <1>3, <1>8, <1>11 DEF RbInv, RbInserting

(* The rotations that end the loop. *)
LEMMA StraightenOK ==
  ASSUME RbInv, Straighten
  PROVE  RbInv'
<1>1. op = "fix_rr"
  BY DEF Straighten
<1>2. /\ inserted \subseteq Keys /\ size \in Nat /\ rm = Nil /\ sc = Nil
      /\ node \in inserted /\ node \notin tree.black /\ Good(tree, inserted, node, node)
      /\ Cardinality(inserted) = size + 1
  BY <1>1, AtFixRR
<1>3. PICK t, n, N : t = tree /\ n = node /\ N = inserted
  OBVIOUS
<1>4. PICK up : up = Parent(t, n)
  OBVIOUS
<1>5. PICK g, s : g = Parent(t, up) /\ s = SideOf(t, up)
  OBVIOUS
<1>6. PICK u, w : u = Child(t, g, Other(s)) /\ w = t.child[Other(s)][g]
  OBVIOUS
<1>7. PICK mid : mid = IF n = Child(t, up, Other(s)) THEN n ELSE up
  OBVIOUS
<1>8. PICK a : a = IF n = Child(t, up, Other(s)) THEN Rotate(t, up, s) ELSE t
  OBVIOUS
<1>9. PICK r : r = Rotate(Red(Black(a, mid), g), g, Other(s))
  OBVIOUS
<1>10. /\ ~IsBlack(t, up) /\ IsBlack(t, u) /\ tree' = r /\ node' = mid /\ op' = "rooted"
       /\ size' = size /\ rm' = rm /\ sc' = sc /\ inserted' = inserted
  BY <1>3, <1>4, <1>5, <1>6, <1>7, <1>8, <1>9 DEF Straighten
<1>11. n \in N /\ n \notin t.black /\ Good(t, N, n, n)
  BY <1>2, <1>3
<1>12. PICK o, H : Grand(t, N, o, H, n, up, g, s)
  BY ONLY <1>4, <1>5, <1>10, <1>11, GrandFacts
<1>13. /\ Shape(t, N, o, Nil) /\ Even(t, H, Nil, Nil) /\ Coloured(t, N, n, Nil)
       /\ n \in N \ t.black /\ up = t.p[n] /\ up \in N \ t.black
       /\ g = t.p[up] /\ g \in N \cap t.black
       /\ s \in Sides /\ t.child[s][g] = up /\ t.root \in t.black
  BY <1>12 DEF Grand
<1>14. Nil \notin N /\ t.black \subseteq Keys
  BY <1>13, ShapeSets
<1>15. u = w /\ mid \in N
  BY <1>6, <1>7, <1>13, <1>14 DEF Child
<1>16. (\E b, G, low : Straight(a, N, b, G, g, mid, low, s)) /\ a.child[Other(s)][g] = w
  <2>1. CASE n = Child(t, up, Other(s))
    <3>1. (\E b, G : Straight(a, N, b, G, g, n, up, s)) /\ a.child[Other(s)][g] = t.child[Other(s)][g]
      <4>1. a = Rotate(t, up, s)
        BY <1>8, <2>1
      <4> QED BY ONLY <1>12, <2>1, <4>1, ZigZag
    <3>2. mid = n
      BY <1>7, <2>1
    <3> QED BY ONLY <1>6, <3>1, <3>2
  <2>2. CASE n # Child(t, up, Other(s))
    <3>1. a = t /\ mid = up
      BY <1>7, <1>8, <2>2
    <3>2. n = t.child[s][up]
      <4>1. n = t.child[s][up] \/ n = t.child[Other(s)][up]
        BY ONLY <1>13, ChildOf
      <4> QED BY <1>13, <1>14, <2>2, <4>1 DEF Child
    <3>3. Straight(t, N, o, H, g, up, n, s)
      BY <1>13, <3>2 DEF Straight
    <3> QED BY <1>6, <3>1, <3>3
  <2> QED BY <2>1, <2>2
<1>17. PICK b, G, low : Straight(a, N, b, G, g, mid, low, s)
  BY <1>16
<1>18. IsBlack(a, w)
  <2>1. w = Nil \/ w \in t.black
    BY <1>10, <1>15 DEF IsBlack
  <2>2. a.black = t.black
    BY <1>8 DEF Rotate
  <2> QED BY <2>1, <2>2 DEF IsBlack
<1>19. Good(r, N, Nil, mid)
  <2>1. w = a.child[Other(s)][g]
    BY <1>16
  <2> QED BY ONLY <1>9, <1>17, <1>18, <2>1, StraightenGood
<1> QED BY <1>2, <1>3, <1>10, <1>15, <1>19 DEF RbInv, RbInserting

(* The end of the loop where the parent is black. *)
LEMMA FixRREndOK ==
  ASSUME RbInv, FixRREnd
  PROVE  RbInv'
<1>1. op = "fix_rr" /\ op' = "rooted" /\ IsBlack(tree, Parent(tree, node))
      /\ UNCHANGED <<tree, size, node, rm, sc, inserted>>
  BY DEF FixRREnd
<1>2. /\ inserted \subseteq Keys /\ size \in Nat /\ rm = Nil /\ sc = Nil
      /\ node \in inserted /\ node \notin tree.black /\ Good(tree, inserted, node, node)
      /\ Cardinality(inserted) = size + 1
  BY <1>1, AtFixRR
<1>3. tree.p[node] \in tree.black \cup {Nil}
  BY <1>1, <1>2, KeysFacts DEF Parent, IsBlack
<1>4. Good(tree, inserted, Nil, node)
  BY <1>2, <1>3 DEF Good, Coloured
<1> QED BY <1>1, <1>2, <1>4 DEF RbInv, RbInserting

(* The end of the call. *)
LEMMA InsertEndOK ==
  ASSUME RbInv, InsertEnd
  PROVE  RbInv'
<1>1. op = "rooted"
  BY DEF InsertEnd
<1>2. /\ inserted \subseteq Keys /\ size \in Nat /\ rm = Nil /\ sc = Nil
      /\ node \in inserted /\ Good(tree, inserted, Nil, node)
      /\ Cardinality(inserted) = size + 1
  BY <1>1 DEF RbInv, RbIdle, RbInserting, RbRemoving
<1>3. PICK t, n, N : t = tree /\ n = node /\ N = inserted
  OBVIOUS
<1>4. PICK top : top = Top(t, n)
  OBVIOUS
<1>5. PICK r : r = Black([t EXCEPT !.root = top], top)
  OBVIOUS
<1>6. /\ tree' = r /\ size' = size + 1 /\ op' = "none" /\ node' = Nil
      /\ rm' = rm /\ sc' = sc /\ inserted' = inserted
  BY <1>3, <1>4, <1>5 DEF InsertEnd
<1>7. n \in N /\ Good(t, N, Nil, n)
  BY <1>2, <1>3
<1>8. Good(r, N, Nil, Nil)
  BY ONLY <1>4, <1>5, <1>7, RootBlackened
<1> QED BY <1>2, <1>3, <1>6, <1>8 DEF RbInv, RbIdle

(* rb_remove_node up to the loop. *)
LEMMA RemoveOK ==
  ASSUME RbInv, NEW x \in Keys, RbRemove(x)
  PROVE  RbInv'
<1>1. RbIdle /\ inserted \subseteq Keys /\ size \in Nat
  BY DEF RbInv, RbInserting, RbRemoving, RbRemove
<1>2. PICK t, N : t = tree /\ N = inserted
  OBVIOUS
<1>3. Good(t, N, Nil, Nil) /\ size = Cardinality(N)
  BY <1>1, <1>2 DEF RbIdle
<1>4. PICK o : Shape(t, N, o, Nil)
  BY <1>3 DEF Good
<1>5. x \in N
  <2>1. Search(t, x) # Nil
    BY <1>2 DEF RbRemove
  <2> QED BY <1>4, <2>1, SearchFinds
<1>6. PICK l, c : l = Child(t, x, "l") /\ c = Child(t, x, "r")
  OBVIOUS
<1>7. PICK y : y = Leftmost(t, c)
  OBVIOUS
<1>8. PICK r : r = IF l # Nil /\ c # Nil THEN Swapped(t, x, y) ELSE t
  OBVIOUS
<1>9. PICK z : z = IF l # Nil /\ c # Nil THEN Child(t, y, "r") ELSE IF c = Nil THEN l ELSE c
  OBVIOUS
<1>10. /\ sc' = z /\ tree' = r /\ op' = IF IsBlack(r, x) THEN "fix_bb" ELSE "transplant"
       /\ rm' = x /\ node' = x /\ inserted' = N \ {x} /\ size' = size
  BY <1>2, <1>6, <1>7, <1>8, <1>9 DEF RbRemove
<1>11. x # Nil
  BY KeysFacts
<1>12. \E b, G : Leaving(r, N, b, G, x, z)
  <2>1. CASE l # Nil /\ c # Nil
    <3>1. c = t.child["r"][x] /\ c # Nil /\ r = Swapped(t, x, y) /\ z = Child(t, y, "r")
      BY <1>6, <1>8, <1>9, <1>11, <2>1 DEF Child
    <3> QED BY ONLY <1>3, <1>5, <1>7, <3>1, SwapLeaves
  <2>2. CASE ~ (l # Nil /\ c # Nil)
    <3>1. r = t /\ z = IF c = Nil THEN l ELSE c
      BY <1>8, <1>9, <2>2
    <3> QED BY ONLY <1>3, <1>5, <1>6, <2>2, <3>1, StaysLeaving
  <2> QED BY <2>1, <2>2
<1>13. PICK b, G : Leaving(r, N, b, G, x, z)
  BY <1>12
<1>14. N = inserted' \cup {rm'} /\ rm' \in Keys \ inserted' /\ node' \in inserted' \cup {rm'}
       /\ inserted' \subseteq Keys
  BY <1>1, <1>2, <1>5, <1>10
<1>15. size' = Cardinality(inserted') + 1
  <2>1. Cardinality(N \ {x}) = Cardinality(N) - 1 /\ Cardinality(N) \in Nat
    BY <1>1, <1>2, <1>5, InsertedCount
  <2> QED BY <1>3, <1>10, <2>1
<1>16. CASE IsBlack(r, x)
  <2>1. x \in r.black
    BY <1>11, <1>16 DEF IsBlack
  <2>2. Short(r, N, b, G, x, z, x)
    BY ONLY <1>13, <2>1, LeavingBlack
  <2> QED BY <1>1, <1>10, <1>14, <1>15, <1>16, <2>2 DEF RbInv, RbRemoving
<1>17. CASE ~IsBlack(r, x)
  <2>1. x \notin r.black
    BY <1>17 DEF IsBlack
  <2>2. Mended(r, N, b, G, x, z)
    BY ONLY <1>13, <2>1, LeavingRed
  <2> QED BY <1>1, <1>10, <1>14, <1>15, <1>17, <2>2 DEF RbInv, RbRemoving
<1> QED BY <1>16, <1>17

(* In a round of _fix_bb_new one place is one black node short. *)
LEMMA AtFixBB ==
  ASSUME RbInv, op = "fix_bb"
  PROVE  /\ inserted \subseteq Keys /\ size \in Nat /\ rm \in Keys \ inserted
         /\ node \in inserted \cup {rm} /\ size = Cardinality(inserted) + 1
         /\ \E o, H : Short(tree, inserted \cup {rm}, o, H, rm, sc, node)
BY DEF RbInv, RbIdle, RbInserting, RbRemoving

(* The round, by the colours of the sibling's children. *)
LEMMA FixBBOK ==
  ASSUME RbInv, FixBB
  PROVE  RbInv'
<1>1. op = "fix_bb"
  BY DEF FixBB
<1>2. /\ inserted \subseteq Keys /\ size \in Nat /\ rm \in Keys \ inserted
      /\ node \in inserted \cup {rm} /\ size = Cardinality(inserted) + 1
  BY <1>1, AtFixBB
<1>3. PICK t, N, e, x, y : t = tree /\ N = inserted \cup {rm} /\ e = node /\ x = rm /\ y = sc
  BY Zenon
<1>4. PICK o, H : Short(t, N, o, H, x, y, e)
  BY <1>1, <1>3, AtFixBB
<1>5. PICK u, s : u = Parent(t, e) /\ s = SideOf(t, e)
  OBVIOUS
<1>6. PICK w0 : w0 = Child(t, u, Other(s))
  OBVIOUS
<1>7. PICK a : a = IF IsBlack(t, w0) THEN t ELSE Rotate(Red(Black(t, w0), u), u, s)
  OBVIOUS
<1>8. PICK w : w = Child(a, u, Other(s))
  OBVIOUS
<1>9. PICK v, z : v = Child(a, w, s) /\ z = Child(a, w, Other(s))
  OBVIOUS
<1>10. PICK r1 : r1 = Red(a, w)
  OBVIOUS
<1>11. PICK r2 : r2 = Rotate(Red(Black(a, v), w), w, Other(s))
  OBVIOUS
<1>12. PICK r3 : r3 = Rotate(Black(Black(CopyColor(a, w, u), u), z), u, s)
  BY Zenon
<1>13. e # t.root /\ IsBlack(t, e)
  BY <1>3 DEF FixBB
<1>14. /\ size' = size /\ op' = op /\ rm' = rm /\ sc' = sc /\ inserted' = inserted
       /\ \/ /\ IsBlack(a, v) /\ IsBlack(a, z)
             /\ tree' = r1 /\ node' = u
          \/ /\ ~IsBlack(a, v) /\ IsBlack(a, z)
             /\ tree' = r2 /\ node' = node
          \/ /\ ~IsBlack(a, z)
             /\ tree' = r3 /\ node' = r3.root
  BY <1>3, <1>5, <1>6, <1>7, <1>8, <1>9, <1>10, <1>11, <1>12 DEF FixBB
<1>15. /\ \E b, G : Beside(a, N, b, G, x, y, e, u, s, w)
       /\ w \in a.black /\ a \in Trees /\ w \in N /\ w # Nil /\ u \in N
       /\ s \in Sides /\ Other(s) \in Sides /\ \A q \in Sides : q = s \/ q = Other(s)
  BY ONLY <1>4, <1>5, <1>6, <1>7, <1>8, <1>13, RoundBegins
<1>16. PICK b, G : Beside(a, N, b, G, x, y, e, u, s, w)
  BY <1>15
<1>17. v = a.child[s][w] /\ z = a.child[Other(s)][w]
  BY <1>9, <1>15 DEF Child
<1>18. ASSUME NEW r, NEW f, \E c, F : Short(r, N, c, F, x, y, f), tree' = r, node' = f
       PROVE  RbInv'
  <2>1. f \in N
    BY <1>18 DEF Short
  <2> QED BY <1>1, <1>2, <1>3, <1>14, <1>18, <2>1 DEF RbInv, RbRemoving
<1>19. CASE IsBlack(a, v) /\ IsBlack(a, z) /\ tree' = r1 /\ node' = u
  <2>1. \A q \in Sides : IsBlack(a, a.child[q][w])
    BY <1>15, <1>17, <1>19
  <2>2. \E F : Short(r1, N, b, F, x, y, u)
    BY ONLY <1>10, <1>15, <1>16, <2>1, NephewsBlack
  <2> QED BY <1>18, <1>19, <2>2
<1>20. CASE ~IsBlack(a, v) /\ IsBlack(a, z) /\ tree' = r2 /\ node' = node
  <2>1. IsBlack(a, a.child[Other(s)][w])
    BY <1>17, <1>20
  <2>2. \E c, F : Short(r2, N, c, F, x, y, e)
    BY ONLY <1>11, <1>15, <1>16, <1>17, <1>20, <2>1, NephewNear
  <2> QED BY <1>3, <1>18, <1>20, <2>2
<1>21. CASE ~IsBlack(a, z) /\ tree' = r3 /\ node' = r3.root
  <2>1. \E c, F : Short(r3, N, c, F, x, y, r3.root)
    BY ONLY <1>12, <1>15, <1>16, <1>17, <1>21, NephewFar
  <2> QED BY <1>18, <1>21, <2>1
<1> QED BY <1>14, <1>19, <1>20, <1>21

(* The end of the loop. *)
LEMMA FixBBEndOK ==
  ASSUME RbInv, FixBBEnd
  PROVE  RbInv'
<1>1. op = "fix_bb"
  BY DEF FixBBEnd
<1>2. /\ inserted \subseteq Keys /\ size \in Nat /\ rm \in Keys \ inserted
      /\ node \in inserted \cup {rm} /\ size = Cardinality(inserted) + 1
  BY <1>1, AtFixBB
<1>3. PICK t, N, e, x, y : t = tree /\ N = inserted \cup {rm} /\ e = node /\ x = rm /\ y = sc
  OBVIOUS
<1>4. PICK o, H : Short(t, N, o, H, x, y, e)
  BY <1>1, <1>3, AtFixBB
<1>5. PICK r : r = Black(t, e)
  OBVIOUS
<1>6. /\ e = t.root \/ ~IsBlack(t, e)
      /\ tree' = r /\ op' = "transplant"
      /\ size' = size /\ node' = node /\ rm' = rm /\ sc' = sc /\ inserted' = inserted
  BY <1>3, <1>5 DEF FixBBEnd
<1>7. \E G : Mended(r, N, o, G, x, y)
  BY ONLY <1>4, <1>5, <1>6, ShortageEnds
<1> QED BY <1>2, <1>3, <1>6, <1>7 DEF RbInv, RbRemoving

(* The end of the call, where the node is cut out. *)
LEMMA RemoveEndOK ==
  ASSUME RbInv, RemoveEnd
  PROVE  RbInv'
<1>1. op = "transplant"
  BY DEF RemoveEnd
<1>2. /\ inserted \subseteq Keys /\ size \in Nat /\ rm \in Keys \ inserted
      /\ size = Cardinality(inserted) + 1
      /\ \E o, H : Mended(tree, inserted \cup {rm}, o, H, rm, sc)
  BY <1>1 DEF RbInv, RbIdle, RbInserting, RbRemoving
<1>3. PICK t, N, x, y : t = tree /\ N = inserted \cup {rm} /\ x = rm /\ y = sc
  OBVIOUS
<1>4. PICK o, H : Mended(t, N, o, H, x, y)
  BY <1>2, <1>3
<1>5. PICK c : c = Transplanted(t, x, y)
  OBVIOUS
<1>6. PICK r : r = Black(Red(c, x), c.root)
  OBVIOUS
<1>7. Good(r, N \ {x}, Nil, Nil) /\ r.root \in (N \ {x}) \cup {Nil} /\ r \in Trees
  <2>1. Blackened(r, c, x)
    BY ONLY <1>6 DEF Blackened
  <2> QED BY ONLY <1>4, <1>5, <2>1, RemovedGood
<1>8. N \ {x} = inserted
  BY <1>2, <1>3
<1>9. /\ size' = size - 1 /\ op' = "none" /\ node' = Nil /\ rm' = Nil /\ sc' = Nil
      /\ inserted' = inserted /\ tree' = IF size <= 1 THEN [r EXCEPT !.root = Nil] ELSE r
  <2>1. r = Black(Red(c, x), Transplanted(t, x, y).root)
    BY <1>5, <1>6
  <2> QED BY <1>3, <1>5, <1>6 DEF RemoveEnd, Black, Red
<1>10. Cardinality(inserted) \in Nat /\ (Cardinality(inserted) = 0 => inserted = {})
  BY <1>2, InsertedCount
<1>11. tree' = r
  <2>1. CASE size <= 1
    <3>1. r.root = Nil
      BY <1>2, <1>7, <1>8, <1>10, <2>1
    <3>2. [r EXCEPT !.root = Nil] = r
      BY <1>7, <3>1 DEF Trees
    <3> QED BY <1>9, <2>1, <3>2
  <2>2. CASE ~ (size <= 1)
    BY <1>9, <2>2
  <2> QED BY <2>1, <2>2
<1>12. size' \in Nat /\ size' = Cardinality(inserted)
  BY <1>2, <1>9, <1>10
<1> QED BY <1>2, <1>7, <1>8, <1>9, <1>11, <1>12 DEF RbInv, RbIdle

(* Every step keeps the invariant. *)
LEMMA RbStepOK ==
  ASSUME RbInv, [RbNext]_rb_vars
  PROVE  RbInv'
<1>1. CASE \E k \in Keys : RbInsert(k) \/ RbRemove(k)
  BY <1>1, InsertOK, RemoveOK
<1>2. CASE Recolour \/ Straighten \/ FixRREnd \/ InsertEnd
  BY <1>2, RecolourOK, StraightenOK, FixRREndOK, InsertEndOK
<1>3. CASE FixBB \/ FixBBEnd \/ RemoveEnd
  BY <1>3, FixBBOK, FixBBEndOK, RemoveEndOK
<1>4. CASE UNCHANGED rb_vars
  BY <1>4 DEF rb_vars, RbInv, RbIdle, RbInserting, RbRemoving
<1> QED BY <1>1, <1>2, <1>3, <1>4 DEF RbNext, Step

(* The links, the order of the keys, the colours and the black heights hold *)
(* all through the calls of rb_insert and rb_remove_node, as far as the     *)
(* rebalancing has come, for every set of keys.                             *)
THEOREM TreeInvariant == RbSpec => []RbInv
<1>1. RbInit => RbInv
  BY RbInitOK
<1>2. RbInv /\ [RbNext]_rb_vars => RbInv'
  BY RbStepOK
<1> QED BY <1>1, <1>2, PTL DEF RbSpec

-------------------------------------------------------------------------------
(* The nodes that are reached from the root. *)

Below(t, b) == (b \cup {Child(t, m, s) : m \in b, s \in Sides}) \ {Nil}

(* f[d] is what is at most d links below n, for the first j of its numbers. *)
Levels(f, t, n, C, j) ==
  /\ f \in [0 .. C -> SUBSET Keys] /\ f[0] = {n} \ {Nil}
  /\ \A d \in 1 .. C : d <= j => f[d] = Below(t, f[d - 1])

(* One level more. *)
LEMMA BelowIn ==
  ASSUME NEW t \in Trees, NEW b \in SUBSET Keys
  PROVE  /\ Below(t, b) \in SUBSET Keys /\ b \subseteq Below(t, b)
         /\ \A m \in b, s \in Sides : t.child[s][m] \in Below(t, b) \cup {Nil}
<1>1. \A m \in b, s \in Sides : Child(t, m, s) = t.child[s][m] /\ Child(t, m, s) \in Keys \cup {Nil}
  BY KeysFacts DEF Trees, Child
<1>2. Nil \notin b
  BY KeysFacts
<1>3. Below(t, b) \in SUBSET Keys
  BY <1>1 DEF Below
<1>4. b \subseteq Below(t, b)
  BY <1>2 DEF Below
<1>5. \A m \in b, s \in Sides : t.child[s][m] \in Below(t, b) \cup {Nil}
  BY <1>1 DEF Below
<1> QED BY <1>3, <1>4, <1>5

(* The recursion of Subtree defines a function. *)
LEMMA LevelsExist ==
  ASSUME NEW t \in Trees, NEW n \in Keys \cup {Nil}, NEW C \in Nat
  PROVE  \E f : Levels(f, t, n, C, C)
<1> DEFINE J == {j \in Nat : \E f : Levels(f, t, n, C, j)}
<1>1. 0 \in J
  <2>1. PICK f : f = [d \in 0 .. C |-> {n} \ {Nil}]
    OBVIOUS
  <2>2. Levels(f, t, n, C, 0)
    BY <2>1 DEF Levels
  <2> QED BY <2>2
<1>2. ASSUME NEW j \in J PROVE j + 1 \in J
  <2>1. PICK f : Levels(f, t, n, C, j)
    BY <1>2
  <2>2. f \in [0 .. C -> SUBSET Keys] /\ j \in Nat
    BY <2>1, <1>2 DEF Levels
  <2>3. PICK g : g = [d \in 0 .. C |-> IF d = j + 1 THEN Below(t, f[j]) ELSE f[d]]
    OBVIOUS
  <2>4. \A d \in 0 .. C : g[d] = IF d = j + 1 THEN Below(t, f[j]) ELSE f[d]
    BY <2>3
  <2>5. g \in [0 .. C -> SUBSET Keys]
    <3>1. ASSUME NEW d \in 0 .. C PROVE g[d] \in SUBSET Keys
      <4>1. CASE d = j + 1
        <5>1. f[j] \in SUBSET Keys
          BY <2>2, <4>1
        <5> QED BY <2>4, <4>1, <5>1, BelowIn
      <4>2. CASE d # j + 1
        BY <2>2, <2>4, <4>2
      <4> QED BY <4>1, <4>2
    <3> QED BY <2>3, <3>1
  <2>6. g[0] = {n} \ {Nil}
    BY <2>1, <2>2, <2>4 DEF Levels
  <2>7. ASSUME NEW d \in 1 .. C, d <= j + 1 PROVE g[d] = Below(t, g[d - 1])
    <3>1. d - 1 \in 0 .. C /\ d \in 0 .. C /\ g[d - 1] = f[d - 1]
      BY <2>2, <2>4, <2>7
    <3>2. CASE d = j + 1
      BY <2>2, <2>4, <3>1, <3>2
    <3>3. CASE d # j + 1
      BY <2>1, <2>2, <2>4, <2>7, <3>1, <3>3 DEF Levels
    <3> QED BY <3>2, <3>3
  <2>8. Levels(g, t, n, C, j + 1)
    BY <2>5, <2>6, <2>7 DEF Levels
  <2> QED BY <2>2, <2>8
<1>3. J = Nat
  <2> HIDE DEF J
  <2>1. J \in SUBSET Nat
    BY DEF J
  <2> QED BY <1>1, <1>2, <2>1, SetInduction
<1> QED BY <1>3

(* As many levels as there are keys reach every node. *)
LEMMA LevelsReach ==
  ASSUME NEW t, NEW N, NEW o, NEW x, Shape(t, N, o, x), NEW C, C = Cardinality(Keys),
         NEW f, Levels(f, t, t.root, C, C)
  PROVE  f[C] = N
<1>1. /\ t \in Trees /\ N \subseteq Keys /\ Nil \notin N /\ t.root \in N \cup {Nil} /\ IsFiniteSet(Keys)
      /\ Nil \notin Keys
  BY ShapeSets, KeysFacts DEF Shape
<1>2. C \in Nat
  BY <1>1, FS_CardinalityType
<1>3. /\ f \in [0 .. C -> SUBSET Keys] /\ f[0] = {t.root} \ {Nil}
      /\ \A d \in 1 .. C : f[d] = Below(t, f[d - 1])
  BY <1>2 DEF Levels
<1>4. \A b \in SUBSET N : Below(t, b) \in SUBSET N
  <2> TAKE b \in SUBSET N
  <2>1. \A m \in b, s \in Sides : Child(t, m, s) \in N \cup {Nil}
    BY <1>1 DEF Child, Shape, Linked
  <2> QED BY <2>1 DEF Below
<1> DEFINE Far(d) == N \subseteq f[d] \/ Cardinality(f[d]) > d
           J == {d \in Nat : d <= C => f[d] \subseteq N /\ Far(d)}
<1>5. 0 \in J
  <2>1. f[0] \subseteq N
    BY <1>1, <1>3
  <2>2. CASE t.root = Nil
    <3>1. N = {}
      BY <2>2, <1>1, RootOnTop
    <3> QED BY <1>2, <2>1, <3>1
  <2>3. CASE t.root # Nil
    <3>1. f[0] = {t.root}
      BY <1>3, <2>3
    <3>2. Cardinality(f[0]) = 1
      BY <3>1, FS_Singleton
    <3> QED BY <1>2, <2>1, <3>2
  <2> QED BY <2>2, <2>3
<1>6. ASSUME NEW d \in J PROVE d + 1 \in J
  <2> SUFFICES ASSUME d + 1 <= C PROVE f[d + 1] \subseteq N /\ Far(d + 1)
    OBVIOUS
  <2>1. d \in Nat /\ d \in 0 .. C /\ d + 1 \in 1 .. C /\ d + 1 \in 0 .. C /\ (d + 1) - 1 = d
    BY <1>2, <1>6
  <2>2. f[d] \subseteq N /\ Far(d)
    BY <1>2, <1>6, <2>1
  <2>3. f[d + 1] = Below(t, f[d]) /\ f[d] \in SUBSET Keys /\ f[d + 1] \in SUBSET Keys
    BY <1>3, <2>1
  <2>4. f[d + 1] \subseteq N /\ f[d] \subseteq f[d + 1]
    BY <1>1, <1>4, <2>2, <2>3, BelowIn
  <2>5. CASE N \subseteq f[d]
    BY <2>4, <2>5
  <2>6. CASE Cardinality(f[d]) > d /\ f[d + 1] = f[d]
    <3>1. t.root \in f[d] \cup {Nil}
      <4>1. \A k \in Nat : k <= C => {t.root} \ {Nil} \subseteq f[k]
        <5> DEFINE K == {k \in Nat : k <= C => {t.root} \ {Nil} \subseteq f[k]}
        <5>1. 0 \in K
          BY <1>3
        <5>2. ASSUME NEW k \in K PROVE k + 1 \in K
          <6> SUFFICES ASSUME k + 1 <= C PROVE {t.root} \ {Nil} \subseteq f[k + 1]
            OBVIOUS
          <6>1. k \in 0 .. C /\ k + 1 \in 1 .. C /\ (k + 1) - 1 = k /\ {t.root} \ {Nil} \subseteq f[k]
            BY <1>2, <5>2
          <6>2. f[k + 1] = Below(t, f[k]) /\ f[k] \in SUBSET Keys
            BY <1>3, <6>1
          <6> QED BY <1>1, <6>1, <6>2, BelowIn
        <5>3. K = Nat
          <6> HIDE DEF K
          <6>1. K \in SUBSET Nat
            BY DEF K
          <6> QED BY <5>1, <5>2, <6>1, SetInduction
        <5> QED BY <5>3
      <4> QED BY <1>2, <2>1, <4>1
    <3>2. \A m \in N \cap f[d], s \in Sides : t.child[s][m] \in f[d] \cup {Nil}
      <4>1. \A m \in f[d], s \in Sides : t.child[s][m] \in Below(t, f[d]) \cup {Nil}
        BY ONLY <1>1, <2>3, BelowIn
      <4> QED BY ONLY <2>3, <2>6, <4>1
    <3>3. N \subseteq f[d]
      BY ONLY <3>1, <3>2, Shape(t, N, o, x), ClosedHasAll
    <3> QED BY <2>4, <2>6, <3>3
  <2>7. CASE Cardinality(f[d]) > d /\ f[d + 1] # f[d]
    <3>1. IsFiniteSet(f[d + 1])
      BY <1>1, <2>3, FS_Subset
    <3>2. IsFiniteSet(f[d])
      BY <1>1, <2>3, FS_Subset
    <3>3. Cardinality(f[d + 1]) \in Nat /\ Cardinality(f[d]) \in Nat
      BY <3>1, <3>2, FS_CardinalityType
    <3>4. /\ Cardinality(f[d]) <= Cardinality(f[d + 1])
          /\ Cardinality(f[d + 1]) = Cardinality(f[d]) => f[d + 1] = f[d]
      BY <2>4, <3>1, FS_Subset
    <3> QED BY <2>1, <2>4, <2>7, <3>3, <3>4
  <2> QED BY <2>2, <2>5, <2>6, <2>7
<1>7. J = Nat
  <2> HIDE DEF J
  <2>1. J \in SUBSET Nat
    BY DEF J
  <2> QED BY <1>5, <1>6, <2>1, SetInduction
<1>8. f[C] \subseteq N /\ Far(C)
  BY <1>2, <1>7
<1>9. ~ (Cardinality(f[C]) > C)
  <2>1. f[C] \in SUBSET Keys
    BY <1>2, <1>3
  <2>2. Cardinality(f[C]) <= C /\ IsFiniteSet(f[C])
    BY <1>1, <2>1, FS_Subset
  <2>3. Cardinality(f[C]) \in Nat
    BY <2>2, FS_CardinalityType
  <2> QED BY <1>2, <2>2, <2>3
<1> QED BY <1>8, <1>9

(* Subtree of the root is the set of the nodes that are linked. *)
LEMMA SubtreeIs ==
  ASSUME NEW t, NEW N, NEW o, NEW x, Shape(t, N, o, x)
  PROVE  Subtree(t, t.root) = N
<1> DEFINE C == Cardinality(Keys)
           n == t.root
           Eq(h) == h = [d \in 0 .. C |->
                      IF d = 0 THEN {n} \ {Nil}
                      ELSE (h[d - 1] \cup {Child(t, m, s) : m \in h[d - 1], s \in Sides}) \ {Nil}]
           below == CHOOSE h : Eq(h)
<1>1. Subtree(t, n) = below[C]
  BY DEF Subtree
<1>2. C \in Nat /\ t \in Trees /\ n \in Keys \cup {Nil}
  BY KeysFacts, FS_CardinalityType, ShapeSets DEF Shape
<1>3. \A h : Eq(h) <=> h = [d \in 0 .. C |-> IF d = 0 THEN {n} \ {Nil} ELSE Below(t, h[d - 1])]
  BY DEF Below
<1> HIDE DEF Eq, C, n
<1>4. \E h : Eq(h)
  <2>1. PICK f : Levels(f, t, n, C, C)
    BY <1>2, LevelsExist
  <2>2. f \in [0 .. C -> SUBSET Keys] /\ f[0] = {n} \ {Nil} /\ \A d \in 1 .. C : f[d] = Below(t, f[d - 1])
    BY <1>2, <2>1 DEF Levels
  <2>3. \A d \in 0 .. C : f[d] = IF d = 0 THEN {n} \ {Nil} ELSE Below(t, f[d - 1])
    BY <1>2, <2>2
  <2>4. f = [d \in 0 .. C |-> IF d = 0 THEN {n} \ {Nil} ELSE Below(t, f[d - 1])]
    BY <2>2, <2>3
  <2> QED BY <1>3, <2>4
<1>5. Eq(below)
  BY <1>4
<1> HIDE DEF below
<1>6. below = [d \in 0 .. C |-> IF d = 0 THEN {n} \ {Nil} ELSE Below(t, below[d - 1])]
  BY <1>3, <1>5
<1>7. \A d \in 0 .. C : below[d] = IF d = 0 THEN {n} \ {Nil} ELSE Below(t, below[d - 1])
  BY <1>6
<1>8. below \in [0 .. C -> SUBSET Keys]
  <2> DEFINE J == {d \in Nat : d <= C => below[d] \in SUBSET Keys}
  <2>1. 0 \in J
    BY <1>2, <1>7
  <2>2. ASSUME NEW d \in J PROVE d + 1 \in J
    <3> SUFFICES ASSUME d + 1 <= C PROVE below[d + 1] \in SUBSET Keys
      OBVIOUS
    <3>1. d \in Nat /\ d + 1 \in 0 .. C /\ (d + 1) - 1 = d /\ d + 1 # 0 /\ below[d] \in SUBSET Keys
      BY <1>2, <2>2
    <3>2. below[d + 1] = Below(t, below[d])
      BY <1>7, <3>1
    <3> QED BY <1>2, <3>1, <3>2, BelowIn
  <2>3. J = Nat
    <3> HIDE DEF J
    <3>1. J \in SUBSET Nat
      BY DEF J
    <3> QED BY <2>1, <2>2, <3>1, SetInduction
  <2>4. \A d \in 0 .. C : below[d] \in SUBSET Keys
    BY <1>2, <2>3
  <2> QED BY <1>6, <2>4
<1>9. Levels(below, t, n, C, C)
  BY <1>2, <1>7, <1>8 DEF Levels
<1>10. below[C] = N
  <2>1. C = Cardinality(Keys) /\ Levels(below, t, t.root, C, C)
    BY <1>9 DEF C, n
  <2> QED BY ONLY <2>1, Shape(t, N, o, x), LevelsReach
<1> QED BY <1>1, <1>10 DEF n

-------------------------------------------------------------------------------
(* What the invariant says of the properties. *)

Linkedness == (inserted \cup {rm}) \ {Nil}

(* There is a layout and there are heights in every state. *)
LEMMA InvShape ==
  ASSUME RbInv
  PROVE  \E o, H : /\ Shape(tree, Linkedness, o, rm)
                   /\ Even(tree, H, rm, IF op = "fix_bb" THEN node ELSE Nil)
<1>1. CASE RbIdle \/ RbInserting
  <2>1. Linkedness = inserted /\ rm = Nil /\ op # "fix_bb"
    BY <1>1, KeysFacts DEF RbInv, RbIdle, RbInserting, Linkedness
  <2>2. \E o, H : Shape(tree, inserted, o, Nil) /\ Even(tree, H, Nil, Nil)
    <3>1. \E a, z : Good(tree, inserted, a, z)
      BY <1>1 DEF RbIdle, RbInserting
    <3> QED BY <3>1 DEF Good
  <2> QED BY <2>1, <2>2
<1>2. CASE RbRemoving
  <2>1. Linkedness = inserted \cup {rm}
    BY <1>2, KeysFacts DEF RbInv, RbRemoving, Linkedness
  <2>2. CASE op = "fix_bb"
    <3>1. \E o, H : Short(tree, inserted \cup {rm}, o, H, rm, sc, node)
      BY <1>2, <2>2 DEF RbRemoving
    <3> QED BY <2>1, <2>2, <3>1 DEF Short
  <2>3. CASE op # "fix_bb"
    <3>1. \E o, H : Mended(tree, inserted \cup {rm}, o, H, rm, sc)
      BY <1>2, <2>3 DEF RbRemoving
    <3> QED BY <2>1, <2>3, <3>1 DEF Mended
  <2> QED BY <2>2, <2>3
<1> QED BY <1>1, <1>2 DEF RbInv

(* The type invariant. *)
LEMMA InvTypes ==
  ASSUME RbInv
  PROVE  RbTypeOK
<1>1. PICK o : Shape(tree, Linkedness, o, rm)
  BY InvShape
<1>2. tree \in [root : Keys \cup {Nil}, child : [Sides -> [Keys -> Keys \cup {Nil}]],
                p : [Keys -> Keys \cup {Nil}], black : SUBSET Keys]
  BY <1>1 DEF Shape, Trees
<1>3. inserted \subseteq Keys /\ size \in Nat
  BY DEF RbInv
<1>4. Cardinality(inserted) \in Nat /\ Cardinality(inserted) <= Cardinality(Keys) /\ Cardinality(Keys) \in Nat
  BY <1>3, InsertedCount
<1>5. CASE RbIdle
  BY <1>2, <1>3, <1>4, <1>5 DEF RbIdle, RbTypeOK
<1>6. CASE RbInserting
  BY <1>2, <1>3, <1>4, <1>6 DEF RbInserting, RbTypeOK
<1>7. CASE RbRemoving
  <2>1. Cardinality(inserted \cup {rm}) = Cardinality(inserted) + 1 /\ rm \in Keys
        /\ Cardinality(inserted \cup {rm}) <= Cardinality(Keys)
    <3>1. rm \in Keys \ inserted /\ inserted \cup {rm} \in SUBSET Keys
      BY <1>3, <1>7 DEF RbRemoving
    <3>2. Cardinality(inserted \cup {rm}) <= Cardinality(Keys)
      BY <3>1, InsertedCount
    <3> QED BY <1>3, <3>1, <3>2, InsertedCount
  <2>2. size \in 0 .. Cardinality(Keys)
    BY <1>3, <1>4, <1>7, <2>1 DEF RbRemoving
  <2>3. sc \in Keys \cup {Nil}
    <3>1. \E s \in Sides : tree.child[s][rm] = sc
      BY <1>7 DEF RbRemoving, Short, Mended, Gone
    <3> QED BY <1>2, <2>1, <3>1
  <2>4. node \in Keys
    BY <1>3, <1>7, <2>1 DEF RbRemoving
  <2> QED BY <1>2, <1>3, <1>7, <2>1, <2>2, <2>3, <2>4 DEF RbRemoving, RbTypeOK
<1> QED BY <1>5, <1>6, <1>7 DEF RbInv

(* The links. *)
LEMMA InvLinked ==
  ASSUME RbInv
  PROVE  WellLinked
<1>1. PICK N : N = Linkedness
  OBVIOUS
<1>2. PICK o : Shape(tree, N, o, rm)
  BY <1>1, InvShape
<1>3. Subtree(tree, tree.root) = N
  BY <1>2, SubtreeIs
<1>4. N \subseteq Keys /\ Nil \notin Keys /\ Nil \notin N
  BY <1>2, ShapeSets
<1>5. ASSUME NEW n \in Keys, NEW s \in Sides, tree.child[s][n] # Nil
      PROVE  tree.p[tree.child[s][n]] = n /\ tree.child[s][n] # tree.child[Other(s)][n]
  <2>1. n \in N
    BY <1>2, <1>5 DEF Shape, Linked
  <2> QED BY <1>2, <1>5, <2>1, TwoChildren DEF Shape, Linked
<1>6. ASSUME NEW n \in Keys, tree.p[n] # Nil
      PROVE  n = tree.child[SideOf(tree, n)][tree.p[n]]
  <2>1. n \in N /\ n # tree.root
    BY <1>2, <1>6 DEF Shape, Linked
  <2> QED BY <1>2, <2>1, AtParent
<1>7. \A n \in Keys \ N : tree.p[n] = Nil
  BY <1>2 DEF Shape, Linked
<1>8. op = "none" => size = Cardinality(inserted)
  BY DEF RbInv, RbIdle, RbInserting, RbRemoving
<1> QED BY <1>1, <1>3, <1>5, <1>6, <1>7, <1>8, InvTypes DEF WellLinked, Linkedness

(* Between calls the search and the successor are what they should be. *)
LEMMA InvLooksUp ==
  ASSUME RbInv
  PROVE  LooksUpInOrder
<1> SUFFICES ASSUME op = "none"
             PROVE  /\ \A k \in Keys : Search(tree, k) = k <=> k \in inserted
                    /\ \A n \in inserted :
                         LET larger == {m \in inserted : m > n}
                             least == {m \in larger : \A j \in larger : m <= j}
                         IN  {RbSucc(tree, n)} = IF larger = {} THEN {Nil} ELSE least
  BY DEF LooksUpInOrder
<1>1. Good(tree, inserted, Nil, Nil) /\ inserted \subseteq Keys
  BY DEF RbInv, RbIdle, RbInserting, RbRemoving
<1>2. PICK o : Shape(tree, inserted, o, Nil)
  BY <1>1 DEF Good
<1>3. \A k \in Keys : Search(tree, k) = k <=> k \in inserted
  <2> TAKE k \in Keys
  <2>1. Search(tree, k) = IF k \in inserted THEN k ELSE Nil
    BY <1>2, SearchFinds
  <2> QED BY <2>1, KeysFacts
<1>4. ASSUME NEW n \in inserted, NEW larger, larger = {m \in inserted : m > n},
             NEW least, least = {m \in larger : \A j \in larger : m <= j}
      PROVE  {RbSucc(tree, n)} = IF larger = {} THEN {Nil} ELSE least
  <2>1. PICK v : v = RbSucc(tree, n)
    OBVIOUS
  <2>2. Follows(o, inserted, n, v)
    BY <1>2, <2>1, SuccFollows
  <2>3. inserted \subseteq Nat /\ Nil \notin inserted /\ n \in Nat /\ n \in inserted \ {Nil}
    BY <1>1, KeysFacts
  <2>4. \A k \in inserted : o.at[n] < o.at[k] <=> n < k
    BY <1>2, <2>3, InOrder
  <2>5. CASE v = Nil
    <3>1. larger = {}
      BY <1>4, <2>2, <2>3, <2>4, <2>5 DEF Follows
    <3> QED BY <2>1, <2>5, <3>1
  <2>6. CASE v # Nil
    <3>1. v \in inserted /\ n < v /\ \A k \in inserted : n < k => o.at[v] <= o.at[k]
      BY <2>2, <2>4, <2>6 DEF Follows
    <3>2. \A k \in inserted : n < k => v <= k
      <4> SUFFICES ASSUME NEW k \in inserted, n < k, k < v PROVE FALSE
        BY <2>3, <3>1
      <4>1. o.at[k] < o.at[v]
        BY <1>2, <2>3, <3>1, InOrder
      <4>2. o.at[v] <= o.at[k] /\ o.at[k] \in Nat /\ o.at[v] \in Nat
        BY <1>1, <1>2, <3>1, Ends
      <4> QED BY <4>1, <4>2
    <3>3. v \in larger /\ \A k \in larger : v <= k
      BY <1>4, <2>3, <3>1, <3>2
    <3>4. least = {v}
      <4>1. larger \subseteq Nat
        BY <1>4, <2>3
      <4>2. v \in least
        BY <1>4, <3>3
      <4>3. ASSUME NEW j \in least PROVE j = v
        <5>1. j \in larger /\ j <= v /\ v <= j
          BY <1>4, <3>3, <4>3
        <5> QED BY <3>3, <4>1, <5>1
      <4> QED BY <4>2, <4>3
    <3> QED BY <2>1, <3>3, <3>4
  <2> QED BY <2>5, <2>6
<1> QED BY <1>3, <1>4

(* BlackHeight is the height of the root in the invariant: the recursion has *)
(* one solution.                                                             *)
LEMMA InvBlackHeight ==
  ASSUME RbInv
  PROVE  BlackHeight # -1
<1> DEFINE S == Keys \cup {Nil}
           gone(n) == IF n = rm THEN 0 ELSE IF n \in tree.black THEN 1 ELSE 0
           more(n) == IF op = "fix_bb" /\ n = node THEN 1 ELSE 0
           Eq(h) == h = [n \in S |-> IF n = Nil THEN 0 ELSE
                                       IF h[tree.child["l"][n]] = h[tree.child["r"][n]] /\ h[tree.child["l"][n]] # -1
                                       THEN h[tree.child["l"][n]] + gone(n) + more(n) ELSE -1]
           height == CHOOSE h : Eq(h)
<1>1. BlackHeight = height[tree.root]
  BY DEF BlackHeight
<1>2. PICK o, H, e : /\ Shape(tree, Linkedness, o, rm) /\ Even(tree, H, rm, e)
                     /\ e = IF op = "fix_bb" THEN node ELSE Nil
  BY InvShape
<1>3. /\ H \in [S -> Nat] /\ H[Nil] = 0 /\ Nil \notin Keys
      /\ \A n \in Keys, s \in Sides : H[n] = H[tree.child[s][n]] + Weight(tree, n, rm, e)
  BY <1>2, KeysFacts DEF Even, EvenBut, Heights
<1>4. /\ tree.root \in S
      /\ \A n \in Keys, s \in Sides : tree.child[s][n] \in S
  BY <1>2 DEF Shape, Trees
<1>5. \A n \in Keys : Weight(tree, n, rm, e) = gone(n) + more(n) /\ gone(n) \in 0 .. 1 /\ more(n) \in 0 .. 1
  BY <1>2, <1>3 DEF Weight
<1> HIDE DEF gone, more
<1>6. \A n \in Keys : /\ H[tree.child["l"][n]] \in Nat /\ H[tree.child["r"][n]] \in Nat
                      /\ H[n] = H[tree.child["l"][n]] + gone(n) + more(n)
                      /\ H[tree.child["l"][n]] = H[tree.child["r"][n]]
  <2> TAKE n \in Keys
  <2>1. tree.child["l"][n] \in S /\ tree.child["r"][n] \in S
    BY <1>4, TwoSides
  <2>2. H[tree.child["l"][n]] \in Nat /\ H[tree.child["r"][n]] \in Nat
    BY <1>3, <2>1
  <2>3. /\ H[n] = H[tree.child["l"][n]] + Weight(tree, n, rm, e)
        /\ H[n] = H[tree.child["r"][n]] + Weight(tree, n, rm, e)
    BY <1>3, TwoSides
  <2> QED BY <1>5, <2>2, <2>3
<1>7. Eq(H)
  <2>1. \A n \in S : H[n] = IF n = Nil THEN 0 ELSE
           IF H[tree.child["l"][n]] = H[tree.child["r"][n]] /\ H[tree.child["l"][n]] # -1
           THEN H[tree.child["l"][n]] + gone(n) + more(n) ELSE -1
    <3> TAKE n \in S
    <3>1. CASE n = Nil
      BY ONLY <1>3, <3>1
    <3>2. CASE n \in Keys
      <4>1. n # Nil
        BY ONLY <1>3, <3>2
      <4>2. H[tree.child["l"][n]] # -1
        BY ONLY <1>6, <3>2
      <4> QED BY ONLY <1>6, <3>2, <4>1, <4>2
    <3> QED BY <3>1, <3>2
  <2> QED BY <1>3, <2>1
<1>8. Eq(height)
  BY ONLY <1>7
<1> HIDE DEF height
<1>9. \A n \in S : height[n] = H[n]
  <2> DEFINE T == {n \in S : height[n] # H[n]}
  <2> SUFFICES ASSUME T # {} PROVE FALSE
    OBVIOUS
  <2>1. PICK rank \in [S -> Nat] : \A n \in Keys, s \in Sides : rank[tree.child[s][n]] < rank[n]
    BY ONLY <1>2, Descent
  <2>2. PICK n \in T : \A m \in T : rank[n] <= rank[m]
    BY LeastRanked
  <2>3. n \in S /\ height[n] # H[n] /\ rank[n] \in Nat
    BY ONLY <2>1, <2>2
  <2>4. \A m \in S : height[m] = IF m = Nil THEN 0 ELSE
           IF height[tree.child["l"][m]] = height[tree.child["r"][m]] /\ height[tree.child["l"][m]] # -1
           THEN height[tree.child["l"][m]] + gone(m) + more(m) ELSE -1
    BY ONLY <1>8
  <2>5. n \in Keys
    BY <1>3, <2>3, <2>4
  <2>6. ASSUME NEW s \in Sides PROVE height[tree.child[s][n]] = H[tree.child[s][n]]
    <3>1. tree.child[s][n] \in S /\ rank[tree.child[s][n]] < rank[n]
      BY <1>4, <2>1, <2>5
    <3>2. rank[tree.child[s][n]] \in Nat
      BY <2>1, <3>1
    <3>3. tree.child[s][n] \notin T
      BY <2>2, <2>3, <3>1, <3>2
    <3> QED BY <3>1, <3>3
  <2>7. /\ height[tree.child["l"][n]] = H[tree.child["l"][n]]
        /\ height[tree.child["r"][n]] = H[tree.child["r"][n]]
    BY <2>6, TwoSides
  <2>8. height[n] = IF height[tree.child["l"][n]] = height[tree.child["r"][n]] /\ height[tree.child["l"][n]] # -1
           THEN height[tree.child["l"][n]] + gone(n) + more(n) ELSE -1
    BY <1>3, <2>3, <2>4, <2>5
  <2> QED BY <1>6, <2>3, <2>5, <2>7, <2>8
<1>10. height[tree.root] \in Nat
  BY <1>3, <1>4, <1>9
<1> QED BY <1>1, <1>10

(* The colours. *)
LEMMA InvRedBlack ==
  ASSUME RbInv
  PROVE  RedBlack
<1>1. op = "none" => IsBlack(tree, tree.root)
  BY DEF RbInv, RbIdle, RbInserting, RbRemoving, Good, IsBlack
<1>2. PICK o : Shape(tree, Linkedness, o, rm)
  BY InvShape
<1>3. ASSUME NEW n \in Keys, tree.p[n] # Nil, ~IsBlack(tree, n), ~IsBlack(tree, tree.p[n])
      PROVE  (op = "fix_rr" /\ n = node) \/ (op = "fix_bb" /\ tree.p[n] = node)
  <2>1. n \in Linkedness /\ n # tree.root
    BY <1>2, <1>3 DEF Shape, Linked
  <2>2. n \notin tree.black /\ tree.p[n] \notin tree.black \cup {Nil}
    BY <1>3 DEF IsBlack
  <2>3. CASE RbIdle
    BY <2>1, <2>2, <2>3 DEF RbIdle, Good, Coloured, Linkedness
  <2>4. CASE RbInserting
    <3>1. n \in inserted
      BY <2>1, <2>4 DEF RbInserting, Linkedness
    <3>2. CASE op = "fix_rr"
      <4>1. Coloured(tree, inserted, node, Nil)
        BY <2>4, <3>2 DEF RbInserting, Good
      <4>2. n = node
        BY ONLY <2>2, <3>1, <4>1 DEF Coloured
      <4> QED BY <3>2, <4>2
    <3>3. CASE op = "rooted"
      <4>1. Coloured(tree, inserted, Nil, Nil)
        BY <2>4, <3>3 DEF RbInserting, Good
      <4> QED BY <2>2, <3>1, <4>1, KeysFacts DEF Coloured
    <3> QED BY <2>4, <3>2, <3>3 DEF RbInserting
  <2>5. CASE RbRemoving
    <3>1. n \in inserted \cup {rm} /\ n # Nil
      BY <2>1 DEF Linkedness
    <3>2. CASE op = "fix_bb"
      <4>1. Coloured(tree, inserted \cup {rm}, Nil, node)
        BY <2>5, <3>2 DEF RbRemoving, Short
      <4> QED BY <2>2, <3>1, <3>2, <4>1 DEF Coloured
    <3>3. CASE op = "transplant"
      <4>1. Coloured(tree, inserted \cup {rm}, Nil, Nil)
        BY <2>5, <3>3 DEF RbRemoving, Mended
      <4> QED BY <2>2, <3>1, <4>1, KeysFacts DEF Coloured
    <3> QED BY <2>5, <3>2, <3>3 DEF RbRemoving
  <2> QED BY <2>3, <2>4, <2>5 DEF RbInv
<1> QED BY <1>1, <1>3, InvBlackHeight DEF RedBlack

-------------------------------------------------------------------------------
(* A node is below one parent, on one side; the parent links are the        *)
(* inverse of the child links; the tree is the nodes inserted, with the one *)
(* that is being removed; a removed node has no links left: after every     *)
(* step of rb_insert and rb_remove_node, for every set of keys.             *)
THEOREM LinksAreWell == RbSpec => []WellLinked
BY TreeInvariant, InvLinked, PTL

(* Every way down has as many black nodes as any other, and no red node a   *)
(* red parent, but for what _fix_rr and _fix_bb_new still have to mend.     *)
THEOREM TreeIsRedBlack == RbSpec => []RedBlack
BY TreeInvariant, InvRedBlack, PTL

(* rb_search finds what was inserted and nothing else, and rb_succ takes    *)
(* each node to the one with the next larger key.                           *)
THEOREM LooksUp == RbSpec => []LooksUpInOrder
BY TreeInvariant, InvLooksUp, PTL

-------------------------------------------------------------------------------
(* The tree stands for the set of the nodes inserted. *)

(* The members of the set are the nodes inserted, *)
LEMMA InvMembers ==
  ASSUME RbInv
  PROVE  Subtree(tree, tree.root) \ {rm} = inserted
<1>1. PICK N, o : N = Linkedness /\ Shape(tree, N, o, rm)
  BY InvShape
<1>2. Subtree(tree, tree.root) = Linkedness
  BY <1>1, SubtreeIs
<1>3. rm \notin inserted /\ inserted \subseteq Keys
  BY KeysFacts DEF RbInv, RbIdle, RbInserting, RbRemoving
<1> QED BY <1>2, <1>3, KeysFacts DEF Linkedness

(* after a step, too. *)
LEMMA InvMembersNext == RbInv' => (Subtree(tree, tree.root) \ {rm} = inserted)'
BY InvMembers, PTL

(* rb_insert adds a key the tree does not have. *)
LEMMA InsertAdds ==
  ASSUME RbInv, NEW k \in Keys, RbInsert(k)
  PROVE  k \notin inserted /\ inserted' = inserted \cup {k}
<1>1. Good(tree, inserted, Nil, Nil)
  BY DEF RbInv, RbIdle, RbInserting, RbRemoving, RbInsert
<1>2. PICK o : Shape(tree, inserted, o, Nil)
  BY <1>1 DEF Good
<1>3. Search(tree, k) = Nil /\ inserted' = inserted \cup {k}
  BY DEF RbInsert
<1> QED BY <1>2, <1>3, SearchFinds, KeysFacts

(* rb_remove_node takes one it has. *)
LEMMA RemoveTakes ==
  ASSUME RbInv, NEW k \in Keys, RbRemove(k)
  PROVE  k \in inserted /\ inserted' = inserted \ {k}
<1>1. Good(tree, inserted, Nil, Nil)
  BY DEF RbInv, RbIdle, RbInserting, RbRemoving, RbRemove
<1>2. PICK o : Shape(tree, inserted, o, Nil)
  BY <1>1 DEF Good
<1>3. Search(tree, k) # Nil /\ inserted' = inserted \ {k}
  BY DEF RbRemove
<1> QED BY <1>2, <1>3, SearchFinds

(* A step is a step of the set, or leaves the set as it is. *)
LEMMA SetSteps ==
  ASSUME RbInv, RbInv', [RbNext]_rb_vars
  PROVE  [Set!Next]_(Subtree(tree, tree.root) \ {rm})
<1>1. PICK was, is : was = Subtree(tree, tree.root) \ {rm} /\ is = (Subtree(tree, tree.root) \ {rm})'
  OBVIOUS
<1>2. was = inserted
  BY <1>1, InvMembers
<1>3. is = inserted'
  BY <1>1, InvMembersNext
<1>4. (\E k \in Keys : Set!Insert(k) \/ Set!Remove(k)) \/ inserted' = inserted
  <2>1. ASSUME NEW k \in Keys, RbInsert(k) PROVE Set!Insert(k)
    BY <1>1, <1>2, <1>3, <2>1, InsertAdds DEF Set!Insert
  <2>2. ASSUME NEW k \in Keys, RbRemove(k) PROVE Set!Remove(k)
    BY <1>1, <1>2, <1>3, <2>2, RemoveTakes DEF Set!Remove
  <2>3. CASE Step
    BY <2>3 DEF Step, Recolour, Straighten, FixRREnd, InsertEnd, FixBB, FixBBEnd, RemoveEnd
  <2>4. CASE UNCHANGED rb_vars
    BY <2>4 DEF rb_vars
  <2> QED BY <2>1, <2>2, <2>3, <2>4 DEF RbNext
<1> QED BY <1>1, <1>2, <1>3, <1>4 DEF Set!Next

(* The rotations and the exchange of nodes lose none and add none: the tree *)
(* implements a set that rb_insert adds a key to and rb_remove_node takes   *)
(* one from.                                                                *)
THEOREM TreeImplementsSet == RbSpec => ImplementsOrderedSet
<1>1. RbInit => Set!Init
  <2> SUFFICES ASSUME RbInit PROVE Set!Init
    OBVIOUS
  <2>1. inserted = {}
    BY DEF RbInit
  <2> QED BY <2>1, RbInitOK, InvMembers DEF Set!Init
<1>2. RbInv /\ RbInv' /\ [RbNext]_rb_vars => [Set!Next]_(Subtree(tree, tree.root) \ {rm})
  BY SetSteps
<1> QED BY <1>1, <1>2, TreeInvariant, PTL DEF RbSpec, ImplementsOrderedSet, Set!Spec

-------------------------------------------------------------------------------
(* The memory space. *)

AnySection == Sections \cup Ruins
Whole == section_tree \ Ruins      \* the sections of the tree that have a segment

(* An area's list was made and it has a section to ask first. *)
Made(a) == section_list[a] # Unset /\ free_section[a] # None

(* A list that was made holds sections of its area that are in the tree, as *)
(* is the section asked first, if there is one.                             *)
AreaSound(a) ==
  /\ section_list[a] # Unset =>
       /\ section_list[a] \in Seq(AnySection) /\ Len(section_list[a]) > 0
       /\ \A k \in 1 .. Len(section_list[a]) :
            section_list[a][k] \in section_tree /\ section_list[a][k].area = a
  /\ free_section[a] # None => free_section[a] \in section_tree /\ free_section[a].area = a

(* The section asked first has its allocator, or the area refuses without.  *)
FirstAsked(a) == a \in Guarded \/ free_section[a] \notin Ruins

(* The sections with a segment are counted, and only those of the tree hold *)
(* blocks.                                                                  *)
TreeSound ==
  /\ IsFiniteSet(Whole) /\ Cardinality(Whole) = total /\ Whole \subseteq segs
  /\ \A b \in held : b.sec \in section_tree

(* How far mm_initialize has come, and what a process that has the space,   *)
(* alone, may do.                                                           *)
ProcSound ==
  /\ proc \in {"starting", "up"} => attached
  /\ proc = "starting" => making <= Len(Areas)
  /\ proc = "starting" /\ making > 0 =>
       root = "labelled" /\ \A i \in 1 .. (making - 1) : Made(Areas[i])
  /\ proc = "up" => root = "labelled" /\ \A a \in AreaSet : Made(a)
  /\ call # NoCall => proc = "up" /\ call.area \in AreaSet
  /\ root # "labelled" => \A a \in AreaSet : free_section[a] = None
  /\ proc \in {"starting", "up"} => \A a \in AreaSet : FirstAsked(a)

IInv ==
  /\ TypeOK
  /\ \A a \in AreaSet : AreaSound(a)
  /\ TreeSound
  /\ ProcSound

-------------------------------------------------------------------------------
(* A ruined section is no other, nor no section. *)
LEMMA RuinFacts ==
  /\ Sections \cap Ruins = {} /\ None \notin AnySection
  /\ \A a \in AreaSet : Ruin(a) \in Ruins /\ Ruin(a).area = a
<1>1. None.area = "none" /\ \A s \in AnySection : s.area \in AreaSet
  BY DEF None, AnySection, Sections, Ruins, Ruin
<1>2. (\A s \in Sections : s.idx >= 0) /\ \A s \in Ruins : s.idx = -1
  BY SpaceAssumption DEF Sections, Ruins, Ruin
<1>3. \A a \in AreaSet : Ruin(a) \in Ruins /\ Ruin(a).area = a
  BY DEF Ruins, Ruin
<1> QED BY <1>1, <1>2, <1>3, SpaceAssumption

(* _mm_create_section puts section s alone into the list of area a and into *)
(* the tree: a new section, which is asked first from now on, or a ruined   *)
(* one.                                                                     *)
LEMMA SectionListed ==
  ASSUME TypeOK, \A b \in AreaSet : AreaSound(b),
         NEW a \in AreaSet, NEW s \in AnySection, s.area = a,
         section_tree' = section_tree \cup {s},
         section_list' = [section_list EXCEPT ![a] = <<s>>],
         \/ UNCHANGED free_section
         \/ s \notin Ruins /\ free_section' = [free_section EXCEPT ![a] = s]
  PROVE  /\ section_list' \in [AreaSet -> Seq(Sections \cup Ruins \cup {None})]
         /\ free_section' \in [AreaSet -> Sections \cup Ruins \cup {None}]
         /\ \A b \in AreaSet : AreaSound(b)'
         /\ \A b \in AreaSet : Made(b) => Made(b)'
         /\ \A b \in AreaSet : FirstAsked(b) => FirstAsked(b)'
         /\ section_list'[a] # Unset
<1>1. None \notin AnySection /\ s # None
  BY RuinFacts
<1>2. <<s>> \in Seq(AnySection) /\ Len(<<s>>) = 1 /\ <<s>>[1] = s /\ <<s>> # Unset
  BY <1>1 DEF Unset
<1>3. /\ section_list' \in [AreaSet -> Seq(Sections \cup Ruins \cup {None})]
      /\ section_list'[a] = <<s>>
      /\ \A b \in AreaSet \ {a} : section_list'[b] = section_list[b]
  BY <1>2 DEF TypeOK, AnySection
<1>4. /\ free_section' \in [AreaSet -> Sections \cup Ruins \cup {None}]
      /\ \A b \in AreaSet : \/ free_section'[b] = free_section[b]
                            \/ b = a /\ free_section'[b] = s /\ s \notin Ruins
  BY DEF TypeOK, AnySection
<1>5. \A b \in AreaSet : AreaSound(b)'
  <2> SUFFICES ASSUME NEW b \in AreaSet PROVE AreaSound(b)'
    OBVIOUS
  <2>1. /\ section_list'[b] \in Seq(AnySection) /\ Len(section_list'[b]) > 0
        /\ \A k \in 1 .. Len(section_list'[b]) :
             section_list'[b][k] \in section_tree' /\ section_list'[b][k].area = b
        \/ section_list'[b] = Unset
    <3>1. CASE b = a
      BY <1>2, <1>3, <3>1
    <3>2. CASE b # a
      BY <1>3, <3>2 DEF AreaSound
    <3> QED BY <3>1, <3>2
  <2>2. free_section'[b] # None =>
          free_section'[b] \in section_tree' /\ free_section'[b].area = b
    BY <1>4 DEF AreaSound
  <2> QED BY <2>1, <2>2 DEF AreaSound
<1>6. \A b \in AreaSet : Made(b) => Made(b)'
  BY <1>1, <1>2, <1>3, <1>4 DEF Made
<1>7. \A b \in AreaSet : FirstAsked(b) => FirstAsked(b)'
  BY <1>4 DEF FirstAsked
<1> QED BY <1>2, <1>3, <1>4, <1>5, <1>6, <1>7

(* It gives area a one section more, which is the only one in its list, and *)
(* leaves the lists of the other areas as they are.                         *)
LEMMA SectionMade ==
  ASSUME TypeOK, \A b \in AreaSet : AreaSound(b), TreeSound,
         NEW a \in AreaSet, MakeSection(a)
  PROVE  /\ segs' \subseteq Sections /\ section_tree' \subseteq Sections \cup Ruins
         /\ total' \in 0 .. MaxShmm /\ next_key' \in 0 .. (KeySpan - 1)
         /\ section_list' \in [AreaSet -> Seq(Sections \cup Ruins \cup {None})]
         /\ free_section' \in [AreaSet -> Sections \cup Ruins \cup {None}]
         /\ \A b \in AreaSet : AreaSound(b)'
         /\ IsFiniteSet(Whole') /\ Cardinality(Whole') = total' /\ Whole' \subseteq segs'
         /\ section_tree \subseteq section_tree'
         /\ Made(a)' /\ \A b \in AreaSet : Made(b) => Made(b)'
         /\ \A b \in AreaSet : FirstAsked(b) => FirstAsked(b)'
<1> DEFINE s == NextKey(a)
<1>1. (next_key + 1) % KeySpan \in 0 .. (KeySpan - 1)
  BY SpaceAssumption DEF TypeOK
<1>2. s \in Sections /\ s.area = a
  BY <1>1 DEF NextKey, Sections
<1>3. s \notin segs
  BY DEF MakeSection
<1>4. /\ segs' = segs \cup {s} /\ section_tree' = section_tree \cup {s}
      /\ total' = total + 1 /\ total < MaxShmm
      /\ next_key' = (next_key + 1) % KeySpan
      /\ section_list' = [section_list EXCEPT ![a] = <<s>>]
      /\ free_section' = [free_section EXCEPT ![a] = s]
  BY DEF MakeSection, lst_push_back, lst_new
<1> HIDE DEF s
<1>5. s \notin Ruins /\ s \in AnySection /\ s # None
  BY <1>2, RuinFacts DEF AnySection
<1>6. /\ section_list' \in [AreaSet -> Seq(Sections \cup Ruins \cup {None})]
      /\ free_section' \in [AreaSet -> Sections \cup Ruins \cup {None}]
      /\ \A b \in AreaSet : AreaSound(b)'
      /\ \A b \in AreaSet : Made(b) => Made(b)'
      /\ \A b \in AreaSet : FirstAsked(b) => FirstAsked(b)'
      /\ section_list'[a] # Unset
  BY <1>2, <1>4, <1>5, SectionListed
<1>7. Whole' = Whole \cup {s} /\ s \notin Whole
  BY <1>3, <1>4, <1>5 DEF Whole, TreeSound
<1>8. IsFiniteSet(Whole') /\ Cardinality(Whole') = total' /\ Whole' \subseteq segs'
  BY <1>4, <1>7, FS_AddElement DEF TreeSound
<1>9. Made(a)'
  <2>1. free_section'[a] = s
    BY <1>4 DEF TypeOK
  <2> QED BY <1>5, <1>6, <2>1 DEF Made
<1>10. segs' \subseteq Sections /\ section_tree' \subseteq Sections \cup Ruins /\ total' \in 0 .. MaxShmm
  BY <1>2, <1>4, SpaceAssumption DEF TypeOK
<1> QED BY <1>1, <1>4, <1>6, <1>8, <1>9, <1>10

(* A section that is refused changes the running number or, when it is the  *)
(* allocator that is refused, leaves a ruined section in list and tree.     *)
LEMMA SectionNotMade ==
  ASSUME TypeOK, \A b \in AreaSet : AreaSound(b), TreeSound,
         NEW a \in AreaSet, SectionRefused(a)
  PROVE  /\ UNCHANGED <<segs, total>> /\ next_key' \in 0 .. (KeySpan - 1)
         /\ section_tree' \subseteq Sections \cup Ruins
         /\ section_list' \in [AreaSet -> Seq(Sections \cup Ruins \cup {None})]
         /\ free_section' \in [AreaSet -> Sections \cup Ruins \cup {None}]
         /\ \A b \in AreaSet : AreaSound(b)'
         /\ Whole' = Whole /\ section_tree \subseteq section_tree'
         /\ \A b \in AreaSet : Made(b) => Made(b)'
         /\ \A b \in AreaSet : FirstAsked(b) => FirstAsked(b)'
<1>1. UNCHANGED <<segs, total>> /\ next_key' \in 0 .. (KeySpan - 1)
  <2>1. (next_key + 1) % KeySpan \in 0 .. (KeySpan - 1)
    BY SpaceAssumption DEF TypeOK
  <2> QED BY <2>1 DEF SectionRefused, TooMany, SegmentRefused, AllocatorRefused, TypeOK, space
<1>2. CASE AllocatorRefused(a)
  <2>1. Ruin(a) \in Ruins /\ Ruin(a) \in AnySection /\ Ruin(a).area = a
    BY RuinFacts DEF AnySection
  <2>2. /\ section_tree' = section_tree \cup {Ruin(a)} /\ UNCHANGED free_section
        /\ section_list' = [section_list EXCEPT ![a] = <<Ruin(a)>>]
    BY <1>2 DEF AllocatorRefused, lst_push_back, lst_new
  <2>3. /\ section_list' \in [AreaSet -> Seq(Sections \cup Ruins \cup {None})]
        /\ free_section' \in [AreaSet -> Sections \cup Ruins \cup {None}]
        /\ \A b \in AreaSet : AreaSound(b)'
        /\ \A b \in AreaSet : Made(b) => Made(b)'
        /\ \A b \in AreaSet : FirstAsked(b) => FirstAsked(b)'
    BY <2>1, <2>2, SectionListed
  <2>4. Whole' = Whole
    BY <2>1, <2>2 DEF Whole
  <2> QED BY <1>1, <2>1, <2>2, <2>3, <2>4 DEF TypeOK
<1>3. CASE TooMany \/ SegmentRefused
  <2>1. UNCHANGED <<section_list, free_section, section_tree>>
    BY <1>3 DEF TooMany, SegmentRefused, space
  <2> QED BY <1>1, <2>1 DEF TypeOK, Whole, AreaSound, Made, FirstAsked
<1> QED BY <1>2, <1>3 DEF SectionRefused

(* A section that is asked is one of the tree, and of the area. *)
LEMMA AskedKnown ==
  ASSUME IInv, call # NoCall, call.at <= Len(Listed)
  PROVE  Asked \in section_tree /\ Asked.area = call.area /\ call.area \in AreaSet
<1>1. call.area \in AreaSet /\ Made(call.area) /\ AreaSound(call.area)
  BY DEF IInv, ProcSound
<1>2. call.at \in Nat
  BY DEF IInv, TypeOK
<1>3. CASE call.at = 0
  BY <1>1, <1>3 DEF AreaSound, Made, Asked
<1>4. CASE call.at # 0
  <2>1. Len(Listed) \in Nat
    BY <1>1 DEF AreaSound, Made, Listed
  <2>2. call.at \in 1 .. Len(Listed)
    BY <1>2, <1>4, <2>1
  <2> QED BY <1>1, <1>4, <2>2 DEF AreaSound, Made, Asked, Listed
<1> QED BY <1>3, <1>4

-------------------------------------------------------------------------------
LEMMA InitIInv == Init => IInv
<1> SUFFICES ASSUME Init PROVE IInv
  OBVIOUS
<1> USE DEF Init, Blank
<1>1. TypeOK
  <2>1. Unset \in Seq(Sections \cup Ruins \cup {None})
    BY DEF Unset
  <2>2. section_list \in [AreaSet -> Seq(Sections \cup Ruins \cup {None})]
    BY <2>1
  <2>3. free_section \in [AreaSet -> Sections \cup Ruins \cup {None}]
    OBVIOUS
  <2>4. 0 \in 0 .. MaxShmm /\ 0 \in 0 .. (KeySpan - 1) /\ 0 \in 0 .. (Len(Areas) + 1)
    BY SpaceAssumption
  <2> QED BY <2>2, <2>3, <2>4 DEF TypeOK
<1>2. \A a \in AreaSet : AreaSound(a)
  BY DEF AreaSound, Made
<1>3. TreeSound
  BY FS_EmptySet DEF TreeSound, Whole
<1>4. ProcSound
  BY DEF ProcSound
<1> QED BY <1>1, <1>2, <1>3, <1>4 DEF IInv

(* The steps of mm_initialize. *)
LEMMA InitializeIInv ==
  ASSUME IInv, Create \/ CreateRefused \/ Fill \/ LoadRefused \/ Load
  PROVE  IInv'
<1>1. UNCHANGED <<segs, space, held, call>>
  BY DEF Create, CreateRefused, Fill, LoadRefused, Load
<1>2. \A a \in AreaSet : AreaSound(a)' /\ (Made(a)' <=> Made(a))
  BY <1>1 DEF IInv, AreaSound, Made, space
<1>3. TreeSound'
  BY <1>1 DEF IInv, TreeSound, Whole, space
<1>4. TypeOK'
  <2>1. /\ root' \in {"absent", "blank", "labelled"}
        /\ proc' \in {"none", "starting", "up", "failed", "down"}
        /\ attached' \in BOOLEAN /\ making' \in 0 .. (Len(Areas) + 1)
    <3>1. 0 \in 0 .. (Len(Areas) + 1) /\ 1 \in 0 .. (Len(Areas) + 1)
      BY SpaceAssumption
    <3>2. making' \in {0, 1, making} /\ root' \in {root, "blank", "labelled"}
      BY DEF Create, CreateRefused, Fill, LoadRefused, Load
    <3>3. proc' \in {proc, "none", "starting", "failed"} /\ attached' \in {attached, TRUE}
      BY DEF Create, CreateRefused, Fill, LoadRefused, Load
    <3> QED BY <3>1, <3>2, <3>3 DEF IInv, TypeOK
  <2> QED BY <1>1, <2>1 DEF IInv, TypeOK, space
<1>5. ProcSound'
  <2>0. UNCHANGED free_section
    BY <1>1 DEF space
  <2>1. call' # NoCall => proc = "up" /\ call'.area \in AreaSet
    BY <1>1 DEF IInv, ProcSound
  <2>2. CASE Fill
    BY <1>1, <2>0, <2>1, <2>2, SpaceAssumption DEF IInv, TypeOK, ProcSound, Fill, FirstAsked
  <2>3. CASE Create
    <3>1. root = "absent" /\ root' = "blank" /\ proc' \in {"starting", "failed"} /\ making' = 0 /\ attached'
      BY <2>3 DEF Create
    <3>2. \A a \in AreaSet : free_section[a] = None /\ None \notin Ruins
      BY <3>1, RuinFacts DEF IInv, ProcSound, AnySection
    <3>3. proc \notin {"starting", "up"}
      BY <2>3 DEF Create, Idle
    <3> QED BY <2>0, <2>1, <3>1, <3>2, <3>3, SpaceAssumption DEF ProcSound, FirstAsked
  <2>4. CASE CreateRefused \/ LoadRefused \/ Load
    BY <1>1, <2>0, <2>1, <2>4 DEF IInv, CreateRefused, LoadRefused, Load, Idle, ProcSound
  <2> QED BY <2>2, <2>3, <2>4
<1> QED BY <1>2, <1>3, <1>4, <1>5 DEF IInv

(* A section for an area, made by mm_initialize or by mm_area_alloc.        *)
LEMMA CreateAreaIInv ==
  ASSUME IInv, CreateArea
  PROVE  IInv'
<1>1. making \in 1 .. Len(Areas)
  BY SpaceAssumption DEF IInv, TypeOK, ProcSound, CreateArea
<1>a. PICK a \in AreaSet : a = Areas[making]
  BY <1>1 DEF AreaSet
<1>2. /\ segs' \subseteq Sections /\ section_tree' \subseteq Sections \cup Ruins
      /\ total' \in 0 .. MaxShmm /\ next_key' \in 0 .. (KeySpan - 1)
      /\ section_list' \in [AreaSet -> Seq(Sections \cup Ruins \cup {None})]
      /\ free_section' \in [AreaSet -> Sections \cup Ruins \cup {None}]
      /\ \A b \in AreaSet : AreaSound(b)'
      /\ IsFiniteSet(Whole') /\ Cardinality(Whole') = total' /\ Whole' \subseteq segs'
      /\ section_tree \subseteq section_tree'
      /\ Made(a)' /\ \A b \in AreaSet : Made(b) => Made(b)'
      /\ \A b \in AreaSet : FirstAsked(b) => FirstAsked(b)'
  BY <1>a, SectionMade DEF IInv, CreateArea
<1>3. UNCHANGED <<root, held, attached, call>> /\ making' = making + 1
      /\ proc = "starting" /\ making > 0
      /\ proc' = IF making = Len(Areas) THEN "up" ELSE proc
  BY DEF CreateArea
<1>4. TypeOK'
  BY <1>1, <1>2, <1>3 DEF IInv, TypeOK
<1>5. TreeSound'
  BY <1>2, <1>3 DEF IInv, TreeSound
<1>6. ProcSound'
  <2>1. root = "labelled" /\ attached /\ call = NoCall /\ \A b \in AreaSet : FirstAsked(b)'
    BY <1>2, <1>3 DEF IInv, ProcSound
  <2>2. \A i \in 1 .. making : Made(Areas[i])'
    <3> SUFFICES ASSUME NEW i \in 1 .. making PROVE Made(Areas[i])'
      OBVIOUS
    <3>1. CASE i = making
      BY <1>a, <1>2, <3>1 DEF Made
    <3>2. CASE i # making
      <4>1. i \in 1 .. (making - 1) /\ Areas[i] \in AreaSet
        BY <1>1, <3>2 DEF AreaSet
      <4>2. Made(Areas[i])
        BY <1>3, <4>1 DEF IInv, ProcSound
      <4> QED BY <1>2, <4>1, <4>2 DEF Made
    <3> QED BY <3>1, <3>2
  <2>3. CASE making = Len(Areas)
    <3>1. \A b \in AreaSet : Made(b)'
      BY <2>2, <2>3 DEF AreaSet, Made
    <3> QED BY <1>3, <2>1, <2>3, <3>1 DEF ProcSound
  <2>4. CASE making # Len(Areas)
    BY <1>1, <1>3, <2>1, <2>2, <2>4 DEF ProcSound
  <2> QED BY <2>3, <2>4
<1> QED BY <1>2, <1>4, <1>5, <1>6 DEF IInv

LEMMA ExtendIInv ==
  ASSUME IInv, Extend
  PROVE  IInv'
<1>1. call # NoCall /\ call.area \in AreaSet /\ proc = "up"
  BY DEF IInv, ProcSound, Extend
<1>a. PICK a \in AreaSet : a = call.area
  BY <1>1
<1>2. /\ segs' \subseteq Sections /\ section_tree' \subseteq Sections \cup Ruins
      /\ total' \in 0 .. MaxShmm /\ next_key' \in 0 .. (KeySpan - 1)
      /\ section_list' \in [AreaSet -> Seq(Sections \cup Ruins \cup {None})]
      /\ free_section' \in [AreaSet -> Sections \cup Ruins \cup {None}]
      /\ \A b \in AreaSet : AreaSound(b)'
      /\ IsFiniteSet(Whole') /\ Cardinality(Whole') = total' /\ Whole' \subseteq segs'
      /\ section_tree \subseteq section_tree'
      /\ \A b \in AreaSet : Made(b) => Made(b)'
      /\ \A b \in AreaSet : FirstAsked(b) => FirstAsked(b)'
  BY <1>a, SectionMade DEF IInv, Extend
<1>3. UNCHANGED <<root, held, proc, attached, making>> /\ call' = [call EXCEPT !.at = 0]
  BY DEF Extend, process
<1>4. TypeOK'
  <2>1. call' \in [area : AreaSet, size : Sizes, at : Nat]
    BY <1>1, <1>3 DEF IInv, TypeOK
  <2> QED BY <1>2, <1>3, <2>1 DEF IInv, TypeOK
<1>5. TreeSound'
  BY <1>2, <1>3 DEF IInv, TreeSound
<1>6. ProcSound'
  <2>1. call'.area \in AreaSet
    BY <1>1, <1>3 DEF IInv, TypeOK
  <2>2. root = "labelled" /\ attached /\ \A b \in AreaSet : Made(b) /\ FirstAsked(b)
    BY <1>1 DEF IInv, ProcSound
  <2> QED BY <1>1, <1>2, <1>3, <2>1, <2>2 DEF ProcSound
<1> QED BY <1>2, <1>4, <1>5, <1>6 DEF IInv

(* A section that cannot be made: mm_initialize or mm_area_alloc fails. *)
LEMMA NoSectionIInv ==
  ASSUME IInv, CreateAreaFail \/ AllocFail
  PROVE  IInv'
<1>1. PICK a \in AreaSet : SectionRefused(a)
  <2>1. CASE CreateAreaFail
    <3>1. making \in 1 .. Len(Areas)
      BY <2>1, SpaceAssumption DEF IInv, TypeOK, ProcSound, CreateAreaFail
    <3> QED BY <2>1, <3>1 DEF CreateAreaFail, AreaSet
  <2>2. CASE AllocFail
    BY <2>2 DEF AllocFail, IInv, ProcSound
  <2> QED BY <2>1, <2>2
<1>2. /\ UNCHANGED <<segs, total>> /\ next_key' \in 0 .. (KeySpan - 1)
      /\ section_tree' \subseteq Sections \cup Ruins
      /\ section_list' \in [AreaSet -> Seq(Sections \cup Ruins \cup {None})]
      /\ free_section' \in [AreaSet -> Sections \cup Ruins \cup {None}]
      /\ \A b \in AreaSet : AreaSound(b)'
      /\ Whole' = Whole /\ section_tree \subseteq section_tree'
      /\ \A b \in AreaSet : Made(b) => Made(b)'
      /\ \A b \in AreaSet : FirstAsked(b) => FirstAsked(b)'
  BY <1>1, SectionNotMade DEF IInv
<1>3. /\ UNCHANGED <<root, held, attached, making>>
      /\ proc' \in {proc, "failed"}
      /\ proc' # proc => proc = "starting"
      /\ call' \in {call, NoCall}
  BY DEF CreateAreaFail, AllocFail, process
<1>4. TypeOK'
  BY <1>2, <1>3 DEF IInv, TypeOK
<1>5. TreeSound'
  BY <1>2, <1>3 DEF IInv, TreeSound
<1>6. ProcSound'
  <2>0. root = "labelled"
    BY DEF IInv, ProcSound, CreateAreaFail, AllocFail
  <2>1. call # NoCall => proc = "up"
    BY DEF IInv, ProcSound
  <2>2. CASE proc' = proc
    <3>1. \A i \in 1 .. (making - 1) : proc = "starting" => Areas[i] \in AreaSet
      BY SpaceAssumption DEF IInv, ProcSound, TypeOK, AreaSet
    <3>2. proc' = "starting" /\ making' > 0 =>
            root' = "labelled" /\ \A i \in 1 .. (making' - 1) : Made(Areas[i])'
      BY <1>2, <1>3, <2>2, <3>1 DEF IInv, ProcSound, Made
    <3>3. proc' = "up" => root' = "labelled" /\ \A b \in AreaSet : Made(b)'
      BY <1>2, <1>3, <2>2 DEF IInv, ProcSound
    <3>4. proc' \in {"starting", "up"} => \A b \in AreaSet : FirstAsked(b)'
      BY <1>2, <2>2 DEF IInv, ProcSound
    <3> QED BY <1>3, <2>0, <2>2, <3>2, <3>3, <3>4 DEF IInv, ProcSound
  <2>3. CASE proc' # proc
    BY <1>3, <2>0, <2>1, <2>3 DEF ProcSound
  <2> QED BY <2>2, <2>3
<1> QED BY <1>2, <1>4, <1>5, <1>6 DEF IInv

(* mm_uninitialize leaves nothing. *)
LEMMA UninitializeIInv ==
  ASSUME IInv, Uninitialize
  PROVE  IInv'
<1> USE DEF Uninitialize
<1>1. section_list' \in [AreaSet -> Seq(Sections \cup Ruins \cup {None})]
  <2>1. Unset \in Seq(Sections \cup Ruins \cup {None})
    BY DEF Unset
  <2> QED BY <2>1
<1>2. TypeOK'
  BY <1>1, SpaceAssumption DEF IInv, TypeOK
<1>3. \A a \in AreaSet : AreaSound(a)'
  BY DEF AreaSound, Made
<1>4. TreeSound'
  BY FS_EmptySet DEF TreeSound, Whole
<1>5. ProcSound'
  BY DEF ProcSound
<1> QED BY <1>2, <1>3, <1>4, <1>5 DEF IInv

(* A death leaves the segments as they are; one within alloc_func has set   *)
(* the section asked first.                                                 *)
LEMMA DieIInv ==
  ASSUME IInv, Die \/ AskNull
  PROVE  IInv'
<1>1. /\ UNCHANGED <<root, segs, total, next_key, section_list, section_tree, held, making>>
      /\ proc' = "none" /\ attached' = FALSE /\ call' = NoCall
  BY DEF Die, AskNull, space
<1>2. /\ free_section' \in [AreaSet -> Sections \cup Ruins \cup {None}]
      /\ \A a \in AreaSet : \/ free_section'[a] = free_section[a]
                            \/ free_section'[a] \in section_tree /\ free_section'[a].area = a
      /\ root # "labelled" => free_section' = free_section
  <2>1. CASE Die
    BY <2>1 DEF IInv, TypeOK, Die, space
  <2>2. CASE AskNull
    <3>1. Asked \in section_tree /\ Asked.area = call.area /\ call.area \in AreaSet
      BY <2>2, AskedKnown DEF AskNull
    <3>2. free_section' = [free_section EXCEPT ![call.area] = Asked] /\ root = "labelled"
      BY <2>2 DEF IInv, ProcSound, AskNull
    <3> QED BY <3>1, <3>2 DEF IInv, TypeOK
  <2> QED BY <2>1, <2>2
<1>3. TypeOK'
  BY <1>1, <1>2 DEF IInv, TypeOK
<1>4. TreeSound' /\ \A a \in AreaSet : AreaSound(a)'
  BY <1>1, <1>2 DEF IInv, TreeSound, Whole, AreaSound
<1>5. ProcSound'
  BY <1>1, <1>2 DEF IInv, ProcSound
<1> QED BY <1>3, <1>4, <1>5 DEF IInv

(* mm_area_alloc asks a section, which serves it or does not. *)
LEMMA AskIInv ==
  ASSUME IInv, Serve \/ AskNext
  PROVE  IInv'
<1>1. call # NoCall /\ call.at <= Len(Listed)
  BY DEF Serve, AskNext
<1>2. /\ Asked \in section_tree /\ Asked.area = call.area /\ call.area \in AreaSet
      /\ Asked \notin Ruins \/ call.area \in Guarded
  BY <1>1, AskedKnown DEF Serve, AskNext
<1>3. /\ UNCHANGED <<root, segs, total, next_key, section_list, section_tree, proc, attached, making>>
      /\ free_section' = [free_section EXCEPT ![call.area] = Asked]
      /\ call' \in {NoCall, [call EXCEPT !.at = @ + 1]}
  BY DEF Serve, AskNext, process
<1>4. \A b \in held' : b \in held \/ (b \in Blocks /\ b.sec = Asked)
  <2> SUFFICES ASSUME NEW b \in held', b \notin held
               PROVE  b \in Blocks /\ b.sec = Asked
    OBVIOUS
  <2>0. Asked \notin Ruins
    BY DEF Serve, AskNext
  <2>1. PICK i \in 1 .. Slots[call.area] : b = [sec |-> Asked, at |-> i]
    BY DEF Serve, AskNext
  <2>2. Asked \in {s \in Sections : s.area = call.area}
    BY <1>2, <2>0 DEF IInv, TypeOK
  <2>3. b \in [sec : {s \in Sections : s.area = call.area}, at : 1 .. Slots[call.area]]
    BY <2>1, <2>2
  <2> QED BY <1>2, <2>1, <2>3 DEF Blocks
<1>5. TypeOK'
  <2>1. held' \subseteq Blocks
    BY <1>4 DEF IInv, TypeOK
  <2>2. free_section' \in [AreaSet -> Sections \cup Ruins \cup {None}]
    BY <1>2, <1>3 DEF IInv, TypeOK
  <2>3. call' = NoCall \/ call' \in [area : AreaSet, size : Sizes, at : Nat]
    <3>1. call \in [area : AreaSet, size : Sizes, at : Nat]
      BY <1>1 DEF IInv, TypeOK
    <3>2. [call EXCEPT !.at = @ + 1] \in [area : AreaSet, size : Sizes, at : Nat]
      BY <3>1
    <3> QED BY <1>3, <3>2
  <2> QED BY <1>3, <2>1, <2>2, <2>3 DEF IInv, TypeOK
<1>6. TreeSound'
  BY <1>2, <1>3, <1>4 DEF IInv, TreeSound, Whole
<1>7. \A a \in AreaSet : AreaSound(a)' /\ (Made(a)' <=> Made(a))
  <2> SUFFICES ASSUME NEW a \in AreaSet PROVE AreaSound(a)' /\ (Made(a)' <=> Made(a))
    OBVIOUS
  <2>1. free_section'[a] = IF a = call.area THEN Asked ELSE free_section[a]
    BY <1>2, <1>3 DEF IInv, TypeOK
  <2>2. Made(call.area) /\ Asked # None
    <3>1. Asked \in AnySection
      BY <1>2 DEF IInv, TypeOK, AnySection
    <3> QED BY <1>1, <3>1, RuinFacts DEF IInv, ProcSound
  <2>3. Made(a)' <=> Made(a)
    BY <1>3, <2>1, <2>2 DEF Made
  <2> QED BY <1>2, <1>3, <2>1, <2>3 DEF IInv, AreaSound
<1>8. ProcSound'
  <2>1. call' # NoCall => call'.area = call.area
    BY <1>1, <1>3 DEF IInv, TypeOK
  <2>2. root = "labelled" /\ \A a \in AreaSet : FirstAsked(a)
    BY <1>1 DEF IInv, ProcSound
  <2>3. \A a \in AreaSet : FirstAsked(a)'
    BY <1>2, <1>3, <2>2 DEF IInv, TypeOK, FirstAsked
  <2> QED BY <1>1, <1>3, <1>7, <2>1, <2>2, <2>3 DEF IInv, ProcSound, Made
<1> QED BY <1>5, <1>6, <1>7, <1>8 DEF IInv

(* The calls that begin, and mm_free. *)
LEMMA ClientIInv ==
  ASSUME IInv, (\E n \in Sizes, a \in AreaSet : AllocBegin(n, a)) \/ \E b \in held : Free(b)
  PROVE  IInv'
<1>1. /\ UNCHANGED <<root, segs, total, next_key, section_list, free_section, section_tree,
                     proc, attached, making>>
      /\ held' \subseteq held
  BY DEF AllocBegin, Free, space, process
<1>2. \/ call' = call
      \/ proc = "up" /\ call' \in [area : AreaSet, size : Sizes, at : Nat]
  BY DEF AllocBegin, Free
<1>3. TypeOK'
  BY <1>1, <1>2 DEF IInv, TypeOK
<1>4. TreeSound' /\ \A a \in AreaSet : AreaSound(a)'
  BY <1>1 DEF IInv, TreeSound, Whole, AreaSound, Made
<1>5. ProcSound'
  BY <1>1, <1>2 DEF IInv, ProcSound, Made, FirstAsked
<1> QED BY <1>3, <1>4, <1>5 DEF IInv

LEMMA NextIInv == IInv /\ [Next]_vars => IInv'
<1> SUFFICES ASSUME IInv, [Next]_vars PROVE IInv'
  OBVIOUS
<1>1. CASE UNCHANGED vars
  BY <1>1 DEF vars, space, process, IInv, TypeOK, AreaSound, Made, TreeSound, Whole, ProcSound, FirstAsked
<1>2. CASE Next
  BY <1>2, InitializeIInv, CreateAreaIInv, ExtendIInv, NoSectionIInv, UninitializeIInv,
     DieIInv, AskIInv, ClientIInv DEF Next, InCall
<1> QED BY <1>1, <1>2

-------------------------------------------------------------------------------
(* The inductive invariant holds throughout. *)
THEOREM Invariance == Spec => []IInv
BY InitIInv, NextIInv, PTL DEF Spec

(* Whatever deaths and refusals came before, that of create_func included,  *)
(* as many sections are counted as have a segment, and a process that has   *)
(* the space has all of it.                                                 *)
THEOREM SpaceAlwaysSound == Spec => []SpaceSound
<1>1. ASSUME IInv PROVE SpaceSound
  <2>1. TypeOK /\ Cardinality(section_tree \ Ruins) = total /\ section_tree \ Ruins \subseteq segs
    BY <1>1 DEF IInv, TreeSound, Whole
  <2>2. proc = "up" => root = "labelled" /\ attached /\ \A a \in AreaSet : Made(a) /\ FirstAsked(a)
    BY <1>1 DEF IInv, ProcSound
  <2>3. ASSUME NEW a \in AreaSet, Made(a)
        PROVE  /\ section_list[a] # Unset /\ ~lst_empty(section_list[a])
               /\ \A k \in 1 .. Len(section_list[a]) : section_list[a][k] \in section_tree
               /\ free_section[a] \in {s \in section_tree : s.area = a}
    <3>1. AreaSound(a)
      BY <1>1 DEF IInv
    <3>2. section_list[a] # <<>>
      BY <2>3, <3>1 DEF AreaSound, Made
    <3> QED BY <2>3, <3>1, <3>2 DEF AreaSound, Made, lst_empty
  <2> QED BY <2>1, <2>2, <2>3 DEF SpaceSound, FirstAsked
<1> QED BY <1>1, Invariance, PTL

(* mm_free finds the section of every block that is held, though a newer    *)
(* section may have emptied the list of its area.                           *)
THEOREM LiveAlwaysFreeable == Spec => []LiveFreeable
<1>1. IInv => LiveFreeable
  BY DEF IInv, TreeSound, LiveFreeable
<1> QED BY <1>1, Invariance, PTL
===============================================================================
