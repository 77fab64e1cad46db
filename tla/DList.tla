--------------------------------- MODULE DList ---------------------------------
(***************************************************************************)
(* The doubly linked list of dlist.c.  A list between its head and tail    *)
(* sentinels is the sequence of its nodes; a node that is in no list has   *)
(* null links.                                                             *)
(***************************************************************************)
EXTENDS Integers, SequencesExt

lst_new == <<>>

lst_empty(s) == s = <<>>

lst_push_front(s, x) == Cons(x, s)

lst_push_back(s, x) == Append(s, x)

(* The node lst_pop_front unlinks and the list it leaves. *)
lst_first(s) == Head(s)
lst_pop_front(s) == Tail(s)

(* lst_remove unlinks the node where it is, and refuses one with null links. *)
lst_remove(s, x) == RemoveFirst(s, x)

(* Every element of s is in T, every element of T is in s, once. *)
ListsOnce(s, T) ==
  /\ \A k \in 1 .. Len(s) : s[k] \in T
  /\ \A p \in T : \E k \in 1 .. Len(s) : s[k] = p
  /\ \A j, k \in 1 .. Len(s) : s[j] = s[k] => j = k
===============================================================================
