-------------------------------- MODULE RingBuf --------------------------------
(***************************************************************************)
(* The ring buffer of ringbuf.c between a process that writes and one that *)
(* reads.  A call reads both offsets, copies one or two pieces of memory   *)
(* and stores its own offset last; the calls of the two processes          *)
(* interleave at each of these.  Bytes are numbered as they are written,   *)
(* modulo one more than the ring holds.                                    *)
(***************************************************************************)
EXTENDS Integers, Sequences

CONSTANTS
  size,           \* of the memory the ring lies in
  Blocks,         \* lengths the two processes write and read
  LeavesOne       \* the writer never has size bytes unread

ASSUME RingAssumption == /\ size \in Nat \ {0}
                         /\ Blocks \subseteq 1 .. size
                         /\ LeavesOne \in BOOLEAN

Bytes == 0 .. size
NoCall == [pieces |-> <<>>, to |-> -1]

VARIABLES
  r_offset, w_offset,   \* _r_offset, _w_offset
  mem,                  \* the memory from addr_begin on
  sent,                 \* the byte the writer writes next
  writing, reading,     \* pieces <<offset, length>> a call has still to copy,
                        \*   and the offset it then stores
  buf,                  \* what the reader has copied out so far
  got                   \* the block its last call returned

ring == <<r_offset, w_offset, mem, sent, writing, reading, buf, got>>

(* rbuf_create. *)
RingInit ==
  /\ r_offset = 0 /\ w_offset = 0
  /\ mem = [i \in 0 .. (size - 1) |-> 0]
  /\ sent = 0
  /\ writing = NoCall /\ reading = NoCall
  /\ buf = <<>> /\ got = <<>>

(* n bytes from offset o on: in one piece, or in two around the end. *)
InOne(o, n) == [pieces |-> << <<o, n>> >>, to |-> o + n]

Around(o, n) ==
  IF size - o >= n THEN InOne(o, n)
  ELSE [pieces |-> << <<o, size - o>>, <<0, n - (size - o)>> >>,
        to |-> n - (size - o)]

(* What rbuf_write_block and rbuf_read_block check of their offsets. *)
HasRoom(n) ==
  IF w_offset < r_offset THEN n <= r_offset - w_offset
  ELSE w_offset + n < r_offset + size

(* Slip: the bytes before the end of the memory only. *)
HasUpToEnd(n) ==
  IF r_offset <= w_offset THEN n <= w_offset - r_offset
  ELSE r_offset + n < size

(* Slip: equal offsets are taken for a full ring. *)
HasWhenEmpty(n) ==
  IF r_offset < w_offset THEN n <= w_offset - r_offset
  ELSE r_offset + n < w_offset + size

Has(n) ==
  IF r_offset <= w_offset THEN n <= w_offset - r_offset
  ELSE r_offset + n < w_offset + size

Unread == IF r_offset <= w_offset THEN w_offset - r_offset
          ELSE w_offset + size - r_offset

(* A refused call returns -1 and changes nothing. *)
WriteBegin(n) ==
  /\ writing = NoCall
  /\ HasRoom(n)
  /\ LeavesOne => Unread + n < size
  /\ writing' = IF w_offset < r_offset THEN InOne(w_offset, n) ELSE Around(w_offset, n)
  /\ UNCHANGED <<r_offset, w_offset, mem, sent, reading, buf, got>>

WriteCopy ==
  /\ writing.pieces # <<>>
  /\ LET o == Head(writing.pieces)[1]
         n == Head(writing.pieces)[2]
     IN  /\ mem' = [i \in DOMAIN mem |->
                      IF i \in o .. (o + n - 1) THEN (sent + i - o) % (size + 1) ELSE mem[i]]
         /\ sent' = (sent + n) % (size + 1)
  /\ writing' = [writing EXCEPT !.pieces = Tail(@)]
  /\ UNCHANGED <<r_offset, w_offset, reading, buf, got>>

WriteEnd ==
  /\ writing # NoCall /\ writing.pieces = <<>>
  /\ w_offset' = writing.to
  /\ writing' = NoCall
  /\ UNCHANGED <<r_offset, mem, sent, reading, buf, got>>

ReadBegin(n) ==
  /\ reading = NoCall
  /\ Has(n)
  /\ reading' = IF r_offset <= w_offset THEN InOne(r_offset, n) ELSE Around(r_offset, n)
  /\ UNCHANGED <<r_offset, w_offset, mem, sent, writing, buf, got>>

ReadCopy ==
  /\ reading.pieces # <<>>
  /\ LET o == Head(reading.pieces)[1]
         n == Head(reading.pieces)[2]
     IN  buf' = buf \o [k \in 1 .. n |-> mem[o + k - 1]]
  /\ reading' = [reading EXCEPT !.pieces = Tail(@)]
  /\ UNCHANGED <<r_offset, w_offset, mem, sent, writing, got>>

ReadEnd ==
  /\ reading # NoCall /\ reading.pieces = <<>>
  /\ r_offset' = reading.to
  /\ reading' = NoCall
  /\ got' = buf /\ buf' = <<>>
  /\ UNCHANGED <<w_offset, mem, sent, writing>>

(* rbuf_reset, when neither process is in a call; the reader starts anew. *)
Reset ==
  /\ writing = NoCall /\ reading = NoCall
  /\ r_offset' = 0 /\ w_offset' = 0
  /\ got' = <<>>
  /\ UNCHANGED <<mem, sent, writing, reading, buf>>

RingNext == (\E n \in Blocks : WriteBegin(n) \/ ReadBegin(n))
        \/ WriteCopy \/ WriteEnd \/ ReadCopy \/ ReadEnd \/ Reset

RingSpec == RingInit /\ [][RingNext]_ring

-------------------------------------------------------------------------------
Calls == {NoCall} \cup
         [pieces : UNION {[1 .. k -> (0 .. size) \X (0 .. size)] : k \in 0 .. 2},
          to : 0 .. size]

RingTyped ==
  /\ r_offset \in 0 .. size /\ w_offset \in 0 .. size
  /\ mem \in [0 .. (size - 1) -> Bytes]
  /\ sent \in Bytes
  /\ writing \in Calls /\ reading \in Calls
  /\ Len(buf) <= size /\ \A k \in 1 .. Len(buf) : buf[k] \in Bytes
  /\ Len(got) <= size /\ \A k \in 1 .. Len(got) : got[k] \in Bytes

(* What is written while a byte stays free is accepted, and what is there   *)
(* can be read but for its last byte: neither process has to wait for the   *)
(* other to go on when it need not.                                         *)
RefusesOnlyAtLimits ==
  /\ RingTyped
  /\ \A n \in 1 .. size : /\ Unread + n < size => HasRoom(n)
                          /\ n < Unread => Has(n)

(* The ring is a stream of bytes: what lies between the offsets.  A write   *)
(* and a read take place when their offset is stored; until then no copy of *)
(* the other process disturbs them.                                         *)
Stream == INSTANCE ByteStream WITH
            queue <- [k \in 1 .. Unread |-> mem[(r_offset + k - 1) % size]]
ImplementsByteStream == Stream!Spec
===============================================================================
