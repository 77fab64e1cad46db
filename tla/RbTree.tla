-------------------------------- MODULE RbTree --------------------------------
(***************************************************************************)
(* The red-black tree of rbtree.c, by which the pool allocators find their *)
(* blocks, the space its sections and the network its sockets.  A node is  *)
(* named by its key and the null pointer is 0.  The loops that rebalance   *)
(* are taken a round at a time; what the code writes out twice, for left   *)
(* and right, is written once here with the side as a parameter.           *)
(***************************************************************************)
EXTENDS Integers, FiniteSets

CONSTANT Keys

Nil == 0
ASSUME KeysAssumption == IsFiniteSet(Keys) /\ Keys \subseteq Nat \ {Nil}

Sides == {"l", "r"}
Other(s) == IF s = "l" THEN "r" ELSE "l"

VARIABLES
  tree,      \* root; child[side] and p, the links of the nodes; black
  size,
  op,        \* what is executing: "none" between calls, "fix_rr" or "rooted"
             \*   in an insertion, "fix_bb" or "transplant" in a removal
  node,      \* the node the rebalancing loop is at
  rm, sc,    \* a removal's node and the child that takes its place
  inserted   \* the nodes the clients have in the tree

rb_vars == <<tree, size, op, node, rm, sc, inserted>>

RbInit ==
  /\ tree = [root |-> Nil, child |-> [s \in Sides |-> [n \in Keys |-> Nil]],
             p |-> [n \in Keys |-> Nil], black |-> {}]
  /\ size = 0 /\ op = "none" /\ node = Nil /\ rm = Nil /\ sc = Nil
  /\ inserted = {}

-------------------------------------------------------------------------------
Child(t, n, s) == IF n = Nil THEN Nil ELSE t.child[s][n]
Parent(t, n) == IF n = Nil THEN Nil ELSE t.p[n]
SideOf(t, n) == IF n = t.child["l"][t.p[n]] THEN "l" ELSE "r"

IsBlack(t, n) == n = Nil \/ n \in t.black
Black(t, n) == [t EXCEPT !.black = @ \cup ({n} \ {Nil})]
Red(t, n) == [t EXCEPT !.black = @ \ {n}]
CopyColor(t, to, from) == IF IsBlack(t, from) THEN Black(t, to) ELSE Red(t, to)

(* Slip: the parent of the subtree keeps its child. *)
RotateDetached(t, n, s) ==
  LET up == Parent(t, n)
      c == Child(t, n, Other(s))
      inner == Child(t, c, s)
  IN  [t EXCEPT
         !.root = IF up = Nil THEN c ELSE @,
         !.p = [m \in Keys |-> CASE m = c -> up [] m = n -> c
                                 [] m = inner -> n [] OTHER -> @[m]],
         !.child = [q \in Sides |-> [m \in Keys |->
                      CASE m = n /\ q = Other(s) -> inner
                        [] m = c /\ q = s -> n
                        [] OTHER -> @[q][m]]]]

(* _left_rotate for s = "l": n goes down on side s, its child c comes up. *)
Rotate(t, n, s) ==
  LET up == Parent(t, n)
      c == Child(t, n, Other(s))
      inner == Child(t, c, s)
  IN  IF c = Nil THEN t ELSE
      [t EXCEPT
         !.root = IF up = Nil THEN c ELSE @,
         !.p = [m \in Keys |-> CASE m = c -> up [] m = n -> c
                                 [] m = inner -> n [] OTHER -> @[m]],
         !.child = [q \in Sides |-> [m \in Keys |->
                      CASE m = n /\ q = Other(s) -> inner
                        [] m = c /\ q = s -> n
                        [] m = up /\ q = SideOf(t, n) -> c
                        [] OTHER -> @[q][m]]]]

(* rb_search: the node with key k, and the last node on the way to it. *)
Toward(k, n) == IF k < n THEN "l" ELSE "r"
Search(t, k) ==
  LET down[n \in Keys \cup {Nil}] ==
        IF n \in {Nil, k} THEN n ELSE down[t.child[Toward(k, n)][n]]
  IN  down[t.root]
Hot(t, k) ==
  LET down[n \in Keys] ==
        LET c == t.child[Toward(k, n)][n] IN IF c = Nil THEN n ELSE down[c]
  IN  IF t.root = Nil THEN Nil ELSE down[t.root]

Leftmost(t, n) ==
  LET down[m \in Keys] ==
        IF t.child["l"][m] = Nil THEN m ELSE down[t.child["l"][m]]
  IN  down[n]

(* Slip: a node that is not a left child has no successor further up. *)
RbSuccBelow(t, n) ==
  LET right == t.child["r"][n]
  IN  IF right # Nil THEN Leftmost(t, right) ELSE
      IF t.p[n] = Nil \/ SideOf(t, n) = "r" THEN Nil ELSE t.p[n]

RbSucc(t, n) ==
  LET right == t.child["r"][n]
      up[m \in Keys] ==
        IF t.p[m] # Nil /\ m = t.child["r"][t.p[m]] THEN up[t.p[m]] ELSE t.p[m]
  IN  IF right # Nil THEN Leftmost(t, right) ELSE up[n]

Top(t, n) ==
  LET up[m \in Keys] == IF t.p[m] = Nil THEN m ELSE up[t.p[m]] IN up[n]

-------------------------------------------------------------------------------
(* rb_insert of a node with a key no node of the tree has. *)
RbInsert(k) ==
  /\ op = "none"
  /\ Search(tree, k) = Nil
  /\ LET hot == Hot(tree, k)
         linked == [tree EXCEPT !.p[k] = hot,
                                !.child = [s \in Sides |-> [n \in Keys |->
                                  CASE n = k -> Nil
                                    [] n = hot /\ s = Toward(k, hot) -> k
                                    [] OTHER -> @[s][n]]],
                                !.black = @ \ {k}]
     IN  \/ /\ hot # Nil
            /\ tree' = linked
            /\ op' = "fix_rr" /\ node' = k
            /\ UNCHANGED size
         \/ /\ hot = Nil
            /\ tree' = Black([linked EXCEPT !.root = k], k)
            /\ size' = size + 1
            /\ UNCHANGED <<op, node>>
  /\ inserted' = inserted \cup {k}
  /\ UNCHANGED <<rm, sc>>

(* _fix_rr, a round with a red uncle: the conflict moves two levels up. *)
Recolour ==
  /\ op = "fix_rr"
  /\ LET up == Parent(tree, node)
         g == Parent(tree, up)
         u == Child(tree, g, Other(SideOf(tree, up)))
     IN  /\ ~IsBlack(tree, up) /\ ~IsBlack(tree, u)
         /\ tree' = Red(Black(Black(tree, up), u), g)
         /\ node' = g
  /\ UNCHANGED <<size, op, rm, sc, inserted>>

(* With a black uncle one or two rotations end the loop. *)
Straighten ==
  /\ op = "fix_rr"
  /\ LET up == Parent(tree, node)
         g == Parent(tree, up)
         s == SideOf(tree, up)
         u == Child(tree, g, Other(s))
         zigzag == node = Child(tree, up, Other(s))
         mid == IF zigzag THEN node ELSE up
         straight == IF zigzag THEN Rotate(tree, up, s) ELSE tree
     IN  /\ ~IsBlack(tree, up) /\ IsBlack(tree, u)
         /\ tree' = Rotate(Red(Black(straight, mid), g), g, Other(s))
         /\ node' = mid
  /\ op' = "rooted"
  /\ UNCHANGED <<size, rm, sc, inserted>>

FixRREnd ==
  /\ op = "fix_rr" /\ IsBlack(tree, Parent(tree, node))
  /\ op' = "rooted"
  /\ UNCHANGED <<tree, size, node, rm, sc, inserted>>

(* The end of _fix_rr and of rb_insert. *)
InsertEnd ==
  /\ op = "rooted"
  /\ LET top == Top(tree, node) IN tree' = Black([tree EXCEPT !.root = top], top)
  /\ size' = size + 1
  /\ op' = "none" /\ node' = Nil
  /\ UNCHANGED <<rm, sc, inserted>>

-------------------------------------------------------------------------------
(* Slip: the root is not exchanged. *)
SwappedBelow(t, x, y) ==
  LET sigma(n) == CASE n = x -> y [] n = y -> x [] OTHER -> n
  IN  [root |-> t.root,
       child |-> [s \in Sides |-> [n \in Keys |-> sigma(t.child[s][sigma(n)])]],
       p |-> [n \in Keys |-> sigma(t.p[sigma(n)])],
       black |-> {n \in Keys : sigma(n) \in t.black}]

(* _swap_node, and t->root with it: x and y trade places, links and colour; *)
(* y may be the child of x.                                                 *)
Swapped(t, x, y) ==
  LET sigma(n) == CASE n = x -> y [] n = y -> x [] OTHER -> n
  IN  [root |-> sigma(t.root),
       child |-> [s \in Sides |-> [n \in Keys |-> sigma(t.child[s][sigma(n)])]],
       p |-> [n \in Keys |-> sigma(t.p[sigma(n)])],
       black |-> {n \in Keys : sigma(n) \in t.black}]

(* rb_remove_node up to _fix_bb_new: a node with two children first trades  *)
(* places with its successor.                                               *)
RbRemove(x) ==
  /\ op = "none"
  /\ Search(tree, x) # Nil
  /\ LET l == Child(tree, x, "l")
         r == Child(tree, x, "r")
         two == l # Nil /\ r # Nil
         y == Leftmost(tree, r)
         placed == IF two THEN Swapped(tree, x, y) ELSE tree
     IN  /\ sc' = IF two THEN Child(tree, y, "r") ELSE IF r = Nil THEN l ELSE r
         /\ tree' = placed
         /\ op' = IF IsBlack(placed, x) THEN "fix_bb" ELSE "transplant"
  /\ rm' = x /\ node' = x
  /\ inserted' = inserted \ {x}
  /\ UNCHANGED size

(* Slip: the sibling does not take the parent's colour. *)
FixBBBlack ==
  /\ op = "fix_bb"
  /\ node # tree.root /\ IsBlack(tree, node)
  /\ LET up == Parent(tree, node)
         s == SideOf(tree, node)
         w0 == Child(tree, up, Other(s))
         t == IF IsBlack(tree, w0) THEN tree
              ELSE Rotate(Red(Black(tree, w0), up), up, s)
         w == Child(t, up, Other(s))
         near == Child(t, w, s)
         far == Child(t, w, Other(s))
     IN  \/ /\ IsBlack(t, near) /\ IsBlack(t, far)
            /\ tree' = Red(t, w) /\ node' = up
         \/ /\ ~IsBlack(t, near) /\ IsBlack(t, far)
            /\ tree' = Rotate(Red(Black(t, near), w), w, Other(s))
            /\ UNCHANGED node
         \/ /\ ~IsBlack(t, far)
            /\ tree' = Rotate(Black(Black(t, up), far), up, s)
            /\ node' = tree'.root
  /\ UNCHANGED <<size, op, rm, sc, inserted>>

(* Slip: the loop does not stop after the last rotation. *)
FixBBGoesOn ==
  /\ op = "fix_bb"
  /\ node # tree.root /\ IsBlack(tree, node)
  /\ LET up == Parent(tree, node)
         s == SideOf(tree, node)
         w0 == Child(tree, up, Other(s))
         t == IF IsBlack(tree, w0) THEN tree
              ELSE Rotate(Red(Black(tree, w0), up), up, s)
         w == Child(t, up, Other(s))
         near == Child(t, w, s)
         far == Child(t, w, Other(s))
     IN  \/ /\ IsBlack(t, near) /\ IsBlack(t, far)
            /\ tree' = Red(t, w) /\ UNCHANGED node
         \/ /\ ~IsBlack(t, near) /\ IsBlack(t, far)
            /\ tree' = Rotate(Red(Black(t, near), w), w, Other(s))
            /\ UNCHANGED node
         \/ /\ ~IsBlack(t, far)
            /\ tree' = Rotate(Black(Black(CopyColor(t, w, up), up), far), up, s)
            /\ node' = tree'.root
  /\ UNCHANGED <<size, op, rm, sc, inserted>>

(* A round of _fix_bb_new: the side of node is one black node short.  A red *)
(* sibling is rotated away first; then the sibling's children decide.       *)
FixBB ==
  /\ op = "fix_bb"
  /\ node # tree.root /\ IsBlack(tree, node)
  /\ LET up == Parent(tree, node)
         s == SideOf(tree, node)
         w0 == Child(tree, up, Other(s))
         t == IF IsBlack(tree, w0) THEN tree
              ELSE Rotate(Red(Black(tree, w0), up), up, s)
         w == Child(t, up, Other(s))
         near == Child(t, w, s)
         far == Child(t, w, Other(s))
     IN  \/ /\ IsBlack(t, near) /\ IsBlack(t, far)
            /\ tree' = Red(t, w) /\ node' = up
         \/ /\ ~IsBlack(t, near) /\ IsBlack(t, far)
            /\ tree' = Rotate(Red(Black(t, near), w), w, Other(s))
            /\ UNCHANGED node
         \/ /\ ~IsBlack(t, far)
            /\ tree' = Rotate(Black(Black(CopyColor(t, w, up), up), far), up, s)
            /\ node' = tree'.root
  /\ UNCHANGED <<size, op, rm, sc, inserted>>

FixBBEnd ==
  /\ op = "fix_bb"
  /\ node = tree.root \/ ~IsBlack(tree, node)
  /\ tree' = Black(tree, node)
  /\ op' = "transplant"
  /\ UNCHANGED <<size, node, rm, sc, inserted>>

(* _transplant: y, the only child of x or null, takes the place of x and,   *)
(* by _link, the children x has besides it, which are none.                 *)
Transplanted(t, x, y) ==
  LET up == Parent(t, x)
  IN  [t EXCEPT
         !.root = IF up = Nil THEN y ELSE @,
         !.p = [n \in Keys |-> CASE n = x -> Nil [] n = y -> up [] OTHER -> @[n]],
         !.child = [s \in Sides |-> [n \in Keys |->
                      CASE n \in {x, y} -> Nil
                        [] n = up /\ @[s][up] = x -> y
                        [] OTHER -> @[s][n]]]]

(* The end of rb_remove_node; the colour of rm is not read again. *)
RemoveEnd ==
  /\ op = "transplant"
  /\ LET t == Transplanted(tree, rm, sc)
         b == Black(Red(t, rm), t.root)
     IN  tree' = IF size <= 1 THEN [b EXCEPT !.root = Nil] ELSE b
  /\ size' = size - 1
  /\ op' = "none" /\ node' = Nil /\ rm' = Nil /\ sc' = Nil
  /\ UNCHANGED inserted

Step == \/ Recolour \/ Straighten \/ FixRREnd \/ InsertEnd
        \/ FixBB \/ FixBBEnd \/ RemoveEnd

RbNext == (\E k \in Keys : RbInsert(k) \/ RbRemove(k)) \/ Step

(* A call runs to its end once it is made. *)
RbSpec == RbInit /\ [][RbNext]_rb_vars /\ WF_rb_vars(Step)

-------------------------------------------------------------------------------
Subtree(t, n) ==
  LET below[d \in 0 .. Cardinality(Keys)] ==
        IF d = 0 THEN {n} \ {Nil}
        ELSE LET b == below[d - 1]
             IN  (b \cup {Child(t, m, s) : m \in b, s \in Sides}) \ {Nil}
  IN  below[Cardinality(Keys)]

RbTypeOK ==
  /\ tree \in [root : Keys \cup {Nil}, child : [Sides -> [Keys -> Keys \cup {Nil}]],
               p : [Keys -> Keys \cup {Nil}], black : SUBSET Keys]
  /\ size \in 0 .. Cardinality(Keys)
  /\ op \in {"none", "fix_rr", "rooted", "fix_bb", "transplant"}
  /\ {node, rm, sc} \subseteq Keys \cup {Nil}
  /\ inserted \subseteq Keys

(* The parent links are the inverse of the child links, a node is below one *)
(* parent on one side, and what is in no tree has no links: a removed node  *)
(* can be freed.  While a call runs, too.                                   *)
WellLinked ==
  LET nodes == Subtree(tree, tree.root) IN
  /\ RbTypeOK
  /\ nodes = (inserted \cup {rm}) \ {Nil}
  /\ \A n \in Keys, s \in Sides :
       LET c == tree.child[s][n] IN c # Nil => tree.p[c] = n /\ c # tree.child[Other(s)][n]
  /\ \A n \in Keys : tree.p[n] # Nil => n = tree.child[SideOf(tree, n)][tree.p[n]]
  /\ \A n \in Keys \ nodes : tree.p[n] = Nil
  /\ op = "none" => size = Cardinality(inserted)

(* The black nodes on any way down from n, by a function that is -1 where   *)
(* two ways disagree.  A node being removed counts as gone already, and the *)
(* node _fix_bb_new is at stands for one black node more.                   *)
BlackHeight ==
  LET gone(n) == IF n = rm THEN 0 ELSE IF n \in tree.black THEN 1 ELSE 0
      more(n) == IF op = "fix_bb" /\ n = node THEN 1 ELSE 0
      height[n \in Keys \cup {Nil}] ==
        IF n = Nil THEN 0 ELSE
        LET l == height[tree.child["l"][n]]
            r == height[tree.child["r"][n]]
        IN  IF l = r /\ l # -1 THEN l + gone(n) + more(n) ELSE -1
  IN  height[tree.root]

(* Every way down has as many black nodes as any other, and no red node has *)
(* a red parent: but for the one node where the loop is still at work.      *)
RedBlack ==
  /\ BlackHeight # -1
  /\ \A n \in Keys : tree.p[n] # Nil /\ ~IsBlack(tree, n) /\ ~IsBlack(tree, tree.p[n])
                       => (op = "fix_rr" /\ n = node) \/ (op = "fix_bb" /\ tree.p[n] = node)
  /\ op = "none" => IsBlack(tree, tree.root)

(* Between calls rb_search finds the nodes that were inserted and no others, *)
(* and rb_succ goes through them in the order of their keys.                 *)
LooksUpInOrder ==
  op = "none" =>
    /\ \A k \in Keys : Search(tree, k) = k <=> k \in inserted
    /\ \A n \in inserted :
         LET larger == {m \in inserted : m > n}
             least == {m \in larger : \A j \in larger : m <= j}
         IN  {RbSucc(tree, n)} = IF larger = {} THEN {Nil} ELSE least

(* Rebalancing comes to an end. *)
CallsEnd == op # "none" ~> op = "none"

(* The tree implements a set: only its calls add and remove keys, whatever  *)
(* rotations move.                                                          *)
Set == INSTANCE OrderedSet WITH members <- Subtree(tree, tree.root) \ {rm}
ImplementsOrderedSet == Set!Spec
===============================================================================
