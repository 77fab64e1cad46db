------------------------------ MODULE ByteStream ------------------------------
(***************************************************************************)
(* What a ring buffer promises a writer and a reader: the reader gets the  *)
(* bytes that were written, in the order in which they were written, each  *)
(* once.  RingBuf implements it.                                           *)
(***************************************************************************)
EXTENDS Naturals, Sequences

CONSTANT Blocks             \* lengths of the blocks

VARIABLES queue,            \* written and not yet read
          got               \* the block the last read returned

Init == queue = <<>> /\ got = <<>>

(* n bytes, any, follow those in the queue. *)
Write(n) ==
  /\ Len(queue') = Len(queue) + n
  /\ queue' = queue \o [k \in 1 .. n |-> queue'[Len(queue) + k]]
  /\ UNCHANGED got

Read(n) ==
  /\ n <= Len(queue)
  /\ got' = SubSeq(queue, 1, n)
  /\ queue' = SubSeq(queue, n + 1, Len(queue))

(* The buffer is reset; what was not read is lost. *)
Discard == queue' = <<>> /\ got' = <<>>

Next == (\E n \in Blocks : Write(n) \/ Read(n)) \/ Discard

Spec == Init /\ [][Next]_<<queue, got>>
===============================================================================
