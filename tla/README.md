# A TLA+ verification of syslib

syslib is a C library for Linux services: a shared memory space with its own
allocators, containers, timers, ring-buffer channels between processes, an
epoll/poll network layer and user-level tasks.  This directory holds models of
its parts, the TLC runs that check them and the proofs about them.  Paths below
are those of the repository, under `src/`.

## 1. The system

| part | code | state | operations |
|---|---|---|---|
| memory space | `src/mmspace.c`, `src/mmops.c` | sections in shared memory, areas (one per kind of allocator), zones (slab caches) in a hash by name, user slots | `mm_initialize`, `mm_load`/reload, `mm_alloc`, `mm_free`, `mm_cache_*`, `mm_save_globl_data` |
| slab caches | `src/mmspace.c` 138-451 | per cache: lists of empty, partial and full slabs; per slab: free objects, counts, a label in its first page | `mm_cache_create/alloc/free/destroy`, recall of empty slabs |
| page allocator | `src/pgpool.c` | chunk of pages cut in nodes; an ordered tree of all nodes; one free list per power of two and one for other sizes; list of spare descriptors | `pgp_create/load/destroy`, `pgp_alloc`, `pgp_free` |
| buddy allocator | `src/mmpool.c` | chunk cut in blocks with a head and a tail; one free list per order; a fixed list of free-list nodes | `mmp_create/load/destroy`, `mmp_alloc`, `mmp_free` |
| timers | `src/timer.c` | a first wheel of 256 slots and four upper wheels of 64; a tick count | `add_timer`, `del_timer`, `on_tick` (runs callbacks) |
| red-black tree | `src/rbtree.c` | colours and links, size | insert, remove, search, successor |
| lists | `src/dlist.c` | head, tail, links | new, push, pop, remove |
| ring buffer | `src/ringbuf.c` | memory, read and write offset | write, read, reset |
| channels | `src/ipc.c` | two rings and per-process offsets in shared memory | create, link, read, write |
| network | `src/net.c` | acceptors, sessions, send and receive buffers, epoll and poll loops | create, connect, send, run, disconnect |
| tasks | `src/utask.c`, `src/asm_*_task.s`, `src/stkpool.c` | task state and saved registers; a pool of guarded stacks | create, run, yield, resume |
| hash, shared memory, bits | `src/hash.c`, `src/shmem.c`, `src/misc.c` | | |

`src/bin_tree.c` and `src/radix.c` have no user in the library.

How they interact.  The memory space hands chunks of shared memory to the page
and the buddy allocators; the slab caches take pages from a page allocator; the
allocators keep their nodes in the lists and the tree.  Timers, sessions, rings
and tasks take their records from slab caches.  The library has no thread and no
lock.  What runs concurrently is *processes* (a ring is written by one and read
by the other with no synchronisation but the two offsets), *callbacks* (a timer's
or a session's callback calls the library again inside its loop), and *restarts*:
a process dies between two calls and the next one loads the shared memory.

What is hard in it, hence what the properties are about (the list with its lines
is `hazards` in `PROJECT.json`):

* long sequences of legal calls on the allocators: a block lost, doubled, or left
  in a list after a merge shows many calls later;
* pools of fixed length (node descriptors, free-list nodes) that must suffice;
* rebalancing, cascading and coalescing loops: their many cases, and that they end;
* two processes on one ring, interleaved at every access, and its boundaries;
* callbacks that add or delete timers while a list is walked, or send and disconnect
  inside the event loop;
* wakeups that come once: an edge-triggered socket that is not read or written
  to its end is never looked at again;
* a death between two calls, or between two steps of setting up the memory space;
* control that passes between stacks by saved stack pointers.

What makes each part correct: allocations are disjoint and large enough, and a
request fails only when nothing fits (allocators); a timer runs exactly at its tick
and every timer runs (timers); the tree is a set in order, balanced, properly
linked (tree); the reader reads what the writer wrote, in order (ring); a cache's
live objects are distinct and can be freed (slabs); no session is used after its
release, everything accepted is sent (network); control goes back to the task's
resumer (tasks).

## 2. Plan

| order | modules | what | state |
|---|---|---|---|
| 1 | `PageAlloc`, `DList`, `PgPool`, proofs | abstract allocator; page allocator over lists | modelled, checked, proved |
| 2 | `Powers`, `MmPool`, proofs | buddy allocator, implements `PageAlloc` | checked, proved |
| 3 | `TimerService`, `TimerWheel` | abstract timers; the wheels | checked, safety proved |
| 4 | `OrderedSet`, `RbTree` | abstract set; the tree at the grain of a loop turn | checked, safety proved |
| 5 | `ByteStream`, `RingBuf` | abstract stream; writer and reader interleaved | checked, proved |
| 6 | `ObjectCache`, `MmCache` | abstract object cache; slab caches and recall over a `PageAlloc` | checked, proved |
| 7 | `MmSpace` | root, sections, areas, the retry loop, death and restart | checked, safety proved |
| 8 | `Sessions`, `Net` | abstract sessions; both event loops, callbacks, peers | checked, safety proved |
| 9 | `Coroutines`, `StkPool`, `Utask` | abstract transfer of control; the pool of stacks; tasks over it | checked, proved |

Compositions: `PgPool` over `DList`; `MmCache` over the abstract `PageAlloc` (which
`PgPool` is proved to implement); `Utask` over `StkPool`, which it instantiates and
whose two operations are steps of its own; `MmSpace`, `Net`, `StkPool` and
`TimerWheel` over `DList`.  Modules to be proved about declare no RECURSIVE operator.

Every safety property that a passing run checks is also proved; what could follow is breadth,
the parts section 1 lists as not modelled.

## 3. The modules

Every module names in its comments the C function of an action and the field of a
variable; `map` in `PROJECT.json` gives the lines of each definition.  A definition
whose comment begins with "Slip" is a wrong version of the one it precedes or is
named after: it is not part of the model, and each property has been seen to fail
with one of them in place.

### PageAlloc, PgPool, DList (`src/pgpool.c`, `src/dlist.c`)

`PageAlloc` is the promise of both allocators: `held` maps the first page of each
allocation to its number of pages; an allocation takes pages nobody holds, a free
gives back exactly one allocation.  `DList` gives the list operations on sequences.

`PgPool` follows `struct pgpool`: the red-black tree of nodes is the function
`count` (first page of a node -> pages), `using` the nodes in use, `flh` the free
lists as sequences, `free_pgn` the number of spare descriptors.  `live` is what the
clients were granted and asked for, `last` the last call's result.  Creation is
`Carve`, one step per turn of the loop of `_pgp_init_chunk`; `Load` and `Destroy`;
`pgp_alloc` is `AllocHead`, `AllocFit` or `AllocFail` by the branches of
`_take_free_node`; `pgp_free` is `FreeReject` or `FreeBegin`, then `MergeNext` for each
turn of the loop of `_return_free_node`, then `FreeEnd`.  A process may die between any
two calls and another `Load` the chunk: the state is in shared memory, so nothing
is lost.  Merges go forward only, as in the code.

Undefined behaviour: `_pgp_init_chunk` tests an `rslt` it never assigned
(`pgpool.c:393`), so each turn may end in a failed creation; and `is_2power(1)` takes
`log_2(0)`, which `bsrq` leaves undefined, so for one page both branches are
possible.  A request is at least one page, and a power of two has a list
(`RequestAssumption`): beyond that the code reads past its array of lists.

### MmPool (`src/mmpool.c`)

Blocks between a `head` and a `tail`, kept per address and left in memory after a
merge until a client overwrites them; free lists `flh` of list nodes (`fln`) taken from
`free_fln`, a list of fixed length; `block` maps a node to its block.  `mmp_alloc` is
`TakeExact`, or `TakeLarger`, `SplitHalf` per turn of the splitting loop, `SplitEnd` and
`TakeExact` again; `mmp_free` is `FreeBegin`, `MergeNext` and `MergePrev` per turn of
its loop, `FreeEnd`.  Addresses and sizes are in smallest
blocks, request sizes in bytes, because head and tail are added to them before
rounding.  The shifts of `_block_size` are the recursive function `Power(2)` of
`Powers`.  What `_prev_block` reads in front of the first block is a zero word of the
node pool or of the padding after it.

`Freeable` says which blocks a client may free: every block but those at the
start of the chunk in `mm_pool`, every block in `mm_pool_any_free` (section 6).
`SizeAssumption` has at least as many list nodes as smallest blocks, which
`_mmp_init_chunk` gives by its rounding when the smallest block is 32 bytes or more.  One
node more is needed in a single degenerate pool (section 6).

### TimerService, TimerWheel (`src/timer.c`)

`TimerService` promises that a timer runs at the tick it is due at, once or
periodically, until deleted.  `TimerWheel` has `_tv_set0` and `_tv_set` as lists per slot,
`current_tick`, the due ticks and delays, and `on_tick` in steps: `TickBegin`; for every
wheel `CascadeNode` per timer and `CascadeNext`; `RunCall` and `RunReturn` around each
callback, during which the client may call `add_timer` and `del_timer`; `TickEnd`.
The shifts and masks of the `TV_SET` macros are the powers of `Powers`: `SIZE0`, `SIZE` and
`Span(i)`, the ticks that a list of `_tv_set[i]` stands for.

`Careful` restricts clients to what the wheel runs on time: delays of at least one
turn of the first wheel, or shorter delays that do not repeat, added between ticks
at a turn's start.  A callback deletes neither its own timer nor the one the loop
would run next, whose links the loop has already followed.  Ticks end at
`Horizon`, before the tick that comes round to the first list of the third wheel,
which `on_tick` never cascades (`timer.c:232`).

### OrderedSet, RbTree (`src/rbtree.c`)

A node is its key, 0 the null pointer; `tree` holds root, child links by side, parent
links and the set of black nodes.  `rb_insert` is `RbInsert`, then per turn of
`_fix_rr` a `Recolour`, and `Straighten` or `FixRREnd`, and `InsertEnd`.  `rb_remove_node` is
`RbRemove` (the search and the exchange with the successor), `FixBB` per turn of
`_fix_bb_new`, `FixBBEnd`, `RemoveEnd` (the transplant with the child read at the start).  The
mirrored halves of the code are written once, with the side as a parameter.  The
walks of `rb_search`, `rb_succ` and to the root are recursive functions.

### ByteStream, RingBuf (`src/ringbuf.c`)

One process writes, one reads.  A call reads both offsets (`WriteBegin`, `ReadBegin`),
copies in one or two pieces (`WriteCopy`, `ReadCopy`), and stores its offset
last (`WriteEnd`, `ReadEnd`); the steps of both processes interleave.  Bytes are
numbered as they are written, modulo `size + 1`: any two bytes that can be in the
ring at once differ.  The library is built without optimisation, for x86-64, so the
store of an offset stays behind the copy.  `LeavesOne` says that the writer leaves
one byte of the ring free, which the code checks in one of its branches only (section 6).

### ObjectCache, MmCache (`src/mmspace.c` 138-451)

`ObjectCache` promises that objects handed out never overlap.  `MmCache` has the three
slab lists of each zone, `held`, the runs of pages in use, and `header`, the
`struct _mm_cache` that the memory at the start of each page holds, whether the page
starts a slab now or did once.  Sizes, counts and addresses are computed as the code
computes them from object and page sizes.  `mm_cache_alloc` is `AllocPartial`,
`AllocEmpty`, `AllocNew`, or `Recall` followed by `AllocNew` or `AllocFail`; `mm_cache_free` is
`Free` or `FreeReject`, of an object the client holds or freed before.  `Write` is a
client writing an object that lies over the start of a page, which it may or may not do.

The area is the abstract `PageAlloc`, which `PgPool` is proved to implement; it may
refuse at any time, because free pages may be scattered over nodes.  The zones are
there from the start: names belong to the hash, of the next module.  A process may
die between calls, which changes nothing; inside a recall, between the release of the
slabs and the reset of their list, the code could not go on, and the model has no death there.

### MmSpace (`src/mmspace.c` 452-829, `src/shmem.c`, `src/mmops.c`)

`root` is the segment at a fixed address with `struct _mm_space_impl`: absent, without
its label, or labelled; `segs` the segments of sections, which are named by their key (area and
running number).  `total`, `next_key`, `section_list`, `free_section` and `section_tree` are the
fields of the root, `held` the blocks the sections' allocators have granted.  `proc` is how
far the process is, `attached` whether the root's address is taken in it, `call` an
`mm_area_alloc` under way: the area, the size and the section asked next.

`mm_initialize` is `Create` (or `CreateRefused`), `Fill`, and `CreateArea` per area, with
`_mm_create_section` in one step; or `LoadRefused` or `Load` of a root that is there.
`mm_alloc` is `AllocBegin`, then per section `Serve` or `AskNext`, then `Extend` and round
again, or `AllocFail`; `Free`; `Uninitialize`.  `Die` may come before any step and leaves what is
in shared memory.  The allocator of an area is a `PageAlloc` that serves requests of up to
`Largest` and may refuse at any time.

`_mm_create_section` refuses in three places (`SectionRefused`): at the limit of sections
(`TooMany`), for want of a segment (`SegmentRefused`), and when `create_func` returns null
(`AllocatorRefused`), as it does when `mprotect` fails for a stack frame, when
`pgpool.c:393` reads its unset result, or for a bad configuration.  Then the section is in list and tree
already; its segment is destroyed but stays attached, so both keep a section without
key and allocator, `Ruin(a)` for all of area `a`.  `stkp_alloc` refuses a null allocator, so the search
of the stack area goes on (`Guarded`); the pools follow it and the process dies (`AskNull`), as does
a later one that loads such a list.  Left out is the death inside `_mm_create_section`,
where the tree is being rebalanced.

### Coroutines, StkPool, Utask (`src/utask.c`, `src/stkpool.c`, `src/asm_*_task.s`)

`Coroutines` promises that control comes back to the caller that ran or resumed the
task last.  `StkPool` has `_free_list` and the `using` flags of the nodes; a frame is its index,
which `stkp_free` computes from an address, and `FrmCnt` is the count at which the loop of
`_stkp_init` ends.

In `Utask` a record of the cache `sys_utsk` has its magic number, state, stack, the
`finished` bit of `_jmp_flag` and its `home`, the place on the caller's stack that
`asm_run_task` saved.  `chain` is who called whom and `depth` how many calls are open on each
stack: the assembly returns through the word it finds at the home, which is the return address of
an open call only at the same depth of the same stack (`Landed`).  Otherwise control
is somewhere no one can tell, and `chain` is empty.  A record keeps what was in it when
it is free, its magic number and flag included, as the code leaves them.

`Careful` restricts clients to what works: a task is resumed from where it was run, is
not destroyed while it runs or after it ended, and records that were given back
are not used.  Section 6 says what happens otherwise.

### Sessions, Net (`src/net.c`)

`Sessions` promises a client the order of its callbacks.  `Net` has the records of the
cache `net_ses_zone` (`ses`: `_state`, `_sock_fd` and the two offsets of the send buffer),
`_ses_list`, the sockets behind the descriptors, the pass of `net_run` under way (`evs`, the
events still to be handled, and `at`, the handlers left of the one in hand), and `owed`,
a ghost: the bytes `net_send` took and the kernel did not, which a close leaves standing.  It starts with either kind of
net and has at most one acceptor.

| code | actions |
|---|---|
| `_internet_run`, `_intranet_run` | `EpollWait`, `Poll`; `Accept` and `Take` per event |
| `_net_on_acc` | `Accept` |
| `_net_on_send` | `OnConnect` up to its callback, then `OnSend` |
| `_net_on_recv` | `OnRecv` per `recv` that returns bytes, `OnRecvEnd` |
| `_net_on_error` | `OnError` |
| `_net_try_send_all`, `_net_close` | `SendAll`, `Drop`, parts of the actions that call them |
| `net_send`, `net_disconnect`, `net_connect` | `Send`, `Disconnect`, `Connect` |
| `net_create`, `net_destroy`, acceptors | `Create`, `Destroy`, `DestroySession`, `Listen`, `DestroyAcceptor` |

The client calls between passes for any session, and within a callback for
the session it is called for, as `test/test_net.c` does; within `func_disconn` it calls nothing.
Epoll is edge-triggered: `edge` says that something happened to a socket since `epoll_wait`
last told of it.  Descriptors are given out lowest first, so they are reused at once.
The kernel takes any part of what it is sent, and less than all only when it is full;
connections fail at any time; peers connect, send, read and end.  `errno` after a `recv` that
returns 0 is whatever an earlier call left, so `OnRecvEnd` may take an end of input for
nothing to read.  `Careful` keeps a byte of the send buffer free, which the code, as in the
ring, checks in one branch only.  A session for which there is no memory is left
out, as are operations bound to single sessions and a cut of the pass by `max_fd_count`.

## 4. The runs

| run | bounds | what it shows |
|---|---|---|
| `pg_pool` | 11 descriptors, nodes of up to 4 pages (7 pages handed out), requests of 1 to 5 pages | the allocator through every sequence of calls |
| `mm_pool` | two largest blocks of four smallest (32 bytes), requests of 16, 17 and 113 bytes | the buddy allocator through every sequence of calls |
| `mm_pool_any_free` | one largest block | section 6 |
| `timer_wheel` | wheels of 2, 4 and 4 slots, 2 timers, 6 delays, ticks to 31 | every filing, cascading and callback |
| `timer_any_delay` | the same with any delay | section 6 |
| `rb_tree` | 8 keys | every sequence of insertions and removals, at every turn of their loops |
| `ring_buf` | a ring of 5 bytes, blocks of 1 to 4 | every interleaving of writer and reader |
| `mm_cache` | 3 pages of 5 bytes, slabs of 1 and 2 pages with 3 objects each | every sequence of calls of two zones that take each other's pages |
| `mm_cache_labels` | the same | section 6 |
| `mm_space` | three areas, one of each kind of allocator, two sections more, one block each, six keys | creation, refusals, death at any step, restart, and every sequence of calls |
| `utask` | 3 tasks, stacks for 2, one call below each function | every nesting of run, resume, yield and end |
| `net` | 2 sessions, 2 descriptors, send buffer of 3 bytes, receive buffer of 2, sends of 1 and 2; sends, bytes from peers, ends and failures 2 in all (`MaxTraffic`) | both loops with every peer and every call within a callback |

The type invariant of a module is a conjunct of its first invariant, except in `PgPool`,
where it stands alone.

Properties by run.

`pg_pool`: `NodesTile` (the nodes cover the chunk, in order and without overlap),
`FreeListsExact` (a free node is in the list of its size and only there, a used one in
none), `DescriptorsSuffice` (a split, which does not check, always finds a descriptor),
`LiveServed` (a client has at least what it asked for), `FailsOnlyWithoutFit` (a refusal
means no free node is large enough), `ImplementsPageAlloc`.  The bounds: a node of full
size and one that is smaller after carving, a size that is no power of two in the
lists, merges up to and refused beyond the limit, and a request no node can hold.

`mm_pool`: `BlocksTile`, `FlnsExact`, `LiveServed`, `FailsOnlyWithoutFit` likewise;
`Coalesced` (no two free
buddies remain between calls); `FreesExactlyLive` (a call of `mmp_free` succeeds for
the live blocks and no other address: a head left by a merge is never
mistaken for a block); `ImplementsPageAlloc`.  The bounds: splits and merges over two
levels, two largest blocks side by side, which must not merge, and requests at a
block's capacity and one byte beyond.

`timer_wheel`: `WheelExact` (a timer in use is in one list and there once, in the first wheel in
the slot of its tick, in the others in a list whose turn begins at the latest at its tick and is
still to be cascaded: none is stranded), `RunsOnTime` (a callback runs at the tick the timer is due at), `OnTickEnds` and `RunsEventually` (liveness),
`ImplementsTimerService`.  The bounds: each wheel turns several times, delays lie
on and beside the boundaries between wheels, and two timers share lists.

`rb_tree`: `WellLinked` (parent and child links inverse of one another, also inside a call; a
removed node keeps no link), `RedBlack` (equal black heights but for the
node in hand, no red node below a red one), `LooksUpInOrder` (search and successor),
`CallsEnd` (liveness: the rebalancing loops end), `ImplementsOrderedSet`.  Eight keys reach every case of
both loops, at the root and below it.

`ring_buf`: `RefusesOnlyAtLimits` (a write is refused only when it would leave no byte
free, a read only when it asks for all that is there or more), `ImplementsByteStream` (what is read is what was
written, in order, under every interleaving).  A ring of five bytes and blocks up to
four: each offset is reached, blocks end before, at and beyond the end.

`mm_cache`: `SlabsExact` (a run of pages in use is a slab in the one list its count says, count
and bits agree, and the bits mark what clients hold), `FailsOnlyWhenFull` (an object is
refused only after every empty slab was recalled), `ImplementsObjectCache` (objects
never overlap, though slabs become pages and pages slabs of other zones).  The
bounds: of the three objects of the large slab one lies over the start of its second page and one
behind it; the small slab has room for one object more than the limit; three pages
leave every placement of a large slab over old small ones.

`mm_space`: `SpaceSound` (whatever deaths and refusals came before, as many sections are counted
as have a segment, and a process that has the space has all of it and first asks a section
with an allocator, or an area that does without), `LiveFreeable` (a block can
be freed though a later section has emptied its area's list), `AllocEnds` (liveness: the
retry loop uses up a section each time round).  The bounds: more sections than areas, so
that one area grows twice or two areas once; a size that no section serves; a limit on
sections that is reached; more keys than sections, and few enough for the running number to come
round.  The two areas left out have the allocators of two that are there.  As no process ever loads
a space (section 6), none has it after a death past `Create`: what `SpaceSound` says of restarts is
that none takes what it finds for whole.

`utask`: `TasksSound` (the states the calls test agree with the chain of callers),
`StacksExact` (stacks are neither shared nor lost, also when there is none left),
`ImplementsCoroutines`.  The bounds: one task more than stacks; tasks that run tasks,
to the depth of three; calls open above and below the home.

`net`: `SessionsSound` (list, records and descriptors agree, and the send buffer holds what
is owed), `ImplementsSessions`, `CloseJustified` (a session is closed only because its
connection failed, its peer ended the input, or the client asked and everything was sent, but
for `CutShort`, the loss at the shutdown of the input of section 6),
`DisconnectEnds` and `Told` (liveness, over epoll: a session to be closed is, and a session
being opened is told how it ended; no wakeup is lost).  The bounds: two sessions, one
of which may close while the other has an event in the pass, and whose record and
descriptor a third may get; a send buffer that wraps; a receive buffer that fills and one
that does not.  With more traffic the offsets take no value they do not take with two
sends, as the buffer has three bytes.

Fairness.  `TimerWheel` assumes weak fairness of `on_tick`: the host's loop calls it
again and again and callbacks return.  It assumes none for clients.  `RbTree`
assumes weak fairness of the steps inside a call: a process that made the call runs
to its end, and nothing runs in between.  `MmSpace` assumes the same of
`mm_area_alloc`; it may still die.  `Net` assumes weak fairness of the loop, as the
program calls `net_run` again and again, and for each descriptor that a full socket is
read or a connection being made comes to an end, which TCP's timeouts give; none for
clients, new connections or what peers send.  The other modules assume none.

## 5. The proofs

`PgPoolProofs` proves of `PgPool`, for every chunk, node limit and set of
requests that satisfy `SizeAssumption` and `RequestAssumption`, all the
properties `pg_pool` checks.

The properties are not inductive one by one.  A split or a merge keeps the tiling
only because the free lists hold free nodes and nothing else; the lists stay
exact only because, by the tiling, the first page of a new node is not that of
another; the head of a list is large enough for a client only because a node in list
`i` has at least `2^i` pages.  The inductive invariant `IInv` is the conjunction of `TypeOK`,
`NodesTile`, `FreeListsExact`, `LiveServed`, `Accounting` (spare descriptors and nodes add up) and
`Bounds` (nodes lie in the carved part; a node being merged is not in use; outside "ready"
nothing is being freed).  `InitIInv` and `NextIInv` establish it, with one lemma per
action that changes something, and `Invariance` concludes.  `TypeCorrect`,
`NodesAlwaysTile`, `FreeListsAlwaysExact` and `LiveAlwaysServed` are its parts;
`DescriptorsAlwaysSuffice` follows because nodes start at distinct pages, of which there are `MaxPg`
fewer than descriptors.  `FailsOnlyWhenNothingFits` is an invariant relative to
`IInv`: by `ScanSeesAll` a free node that is large enough is in a list the scan looks at,
as `log_2` is monotone, and only an allocation makes the last call an allocation.
`Refinement` maps `held` to the page counts of the nodes in use, and shows that carving, merging and
splitting are stutters of `PageAlloc` and the rest one of its steps.

`CommonLemmas` has what these proofs share: pushing, popping and removing on lists;
the least element of a set of numbers, and from it division with remainder and that
slots of equal size lie apart; and powers.  `Power` is a recursive function, so that its equations must be
proved: the least-element principle takes the place of the library's induction.

The proofs rest on the two named assumptions, on the model of `log_2` as the number of
the highest set bit of a 64-bit word, and on unbounded integers, which page counts
do not come near.

`TimerWheelProofs` proves the safety properties of `timer_wheel`, for every number and size of wheels,
every set of timers and delays and every horizon under `SizeAssumption`, for clients that are `Careful`
(otherwise `RunsOnTime` is false, section 6).  A wheel is right because of when its lists are walked: a list
of `_tv_set[i]` waits for a turn, a stretch of `Span(i)` ticks, and comes up again each time its wheel has
gone round.  The invariant `WheelInv` says, next to the types:

* `Placed`: there is a function from the timers in use to the lists, by which every list holds its
  timers once (`Holds`), but for the one whose callback runs; and every timer is in a list that
  `Waits` for it.
* `Awaits` names the turn that a list waits for by its number: the list is of that turn's number, the timer is due in it
  or in the next, and the turn has not been cascaded, which inside a tick depends on how far the
  cascades are.  It gives `StillAhead` of `WheelExact` (`AwaitsAhead`), and `SameTurn` the first wheel's part.
* `Repeats`: a timer that repeats has a delay of a turn of the first wheel, so that filing it again from
  within a tick puts it into no list of this tick.
* `Walking`: the timer the loop runs next is the first of its list or comes after the one that runs.

`CascadedSoon` concludes that a cascade meets only timers of its own turn, by `RemainderApart`: two ticks less
than a turn apart that have the same slot are the same.  So `_add_timer` files every timer it moves in a
lower wheel, and the first wheel runs a timer at its tick.  `TickOver` shows that no timer that is
due is left when `on_tick` ends.  In `WheelImplements` `add_timer` arms, `del_timer` cancels, the return
of a callback fires, `TickEnd` is the tick of `TimerService`, and everything else stutters.

The second part of `NetProofs` proves both properties `ring_buf` checks, for every size and set of
block lengths under `RingAssumption`, with `LeavesOne`.  The invariant says of
a call under way how far it is: all of `Around`, the piece at the start of the memory, or
only the offset to store.  With each goes what the other process may rely on: the writer's block
and what is unread leave a byte free (`WriteSound`), and what the reader has copied is the first
bytes of what is unread (`ReadSound`).  By `Apart` the cells being written and the cells to be read
never meet, so a copy by one process is a stutter, and the step that stores
an offset is the write or the read of `ByteStream`.  Without `LeavesOne` equal offsets stand for
both a full and an empty ring, and `WriterMoves` fails.

`RbTreeProofs` proves the safety properties of `rb_tree`, and the refinement of `OrderedSet`, for every
finite set of keys.  No order is spoken of while nodes turn: a layout of the tree on a line (`Fits`)
gives every node a place and the ends of its subtree.  A rotation moves no place
and two ends (`RotateShape`), so the order of the keys along the line (`Sorted`) stays as it
was; a new leaf stretches the line (`LinkShape`); the exchange with the successor puts one node, the
one that leaves, out of order (`SwapShape`), and cutting it out mends that (`CutShape`).  Nested ends
narrow on the way down and widen on the way up, which is why the recursive functions that stand for the
loops have values: `WalkExists` and `WalkEnds` say so of every walk along links that lower a rank,
`SearchFinds`, `HotPlace`, `SuccFollows` and `TopIsRoot` what the code's walks return.

A second function gives each node its black height (`Even`).  What is
not yet mended is in the invariant `RbInv` by name, for each stage of a call:

* `Good` with a red node that may be below another: `_fix_rr` recolours and moves the pair up
  (`RecolourGood`), or turns it, at once or after `ZigZag`, and is done (`StraightenGood`).
* `Short`: the ways through one place have a black node less than they need.  `RoundBegins` has `_fix_bb_new` at a node
  with a black sibling, which exists because of the heights; `NephewsBlack`, `NephewNear` and `NephewFar` are
  the three ends of its round.  The node being removed stays below that place, aside of all that turns
  (`Aside`), and its parent is black: so the leaf that takes its place may be red.
* `Mended`: the node to be removed counts for nothing, and has at most one child, which is a leaf.

`InvBlackHeight` concludes that the recursion of `BlackHeight` has that function as its one solution, and
`SubtreeIs` that what is reached from the root are the nodes inserted, with the one
being removed.  So calls are the steps of `OrderedSet` and turns of the loops are stutters.

The second part of `RbTreeProofs` is about `MmSpace`, whose sections are kept in such a tree.  It proves the safety properties of `mm_space` for any number of areas, sections, keys
and blocks under `SpaceAssumption`.  `SpaceSound` speaks of processes that have the space; the invariant
adds how far the others are: the areas `mm_initialize` has made (`ProcSound`), that the sections of
an area's list and its free section are of that area and in the tree (`AreaSound`), and
that the tree holds the section of every block held and `total` counts those that are not ruined
(`TreeSound`).  A refused allocator adds to list and tree what is not counted and asks nothing
of it (`SectionNotMade`); only the search of a guarded area makes it the section asked first (`FirstAsked`).  A death keeps all of it, and no `Load` ends with a process that has
the space (section 6), so a space cut short is never taken for whole.  Every step of `mm_area_alloc` asks a section that `AskedKnown` puts in the tree.

`UtaskProofs` proves all `utask` checks, for every set of tasks, pool and depth under
`TaskAssumption`, for clients that are `Careful`.  `TasksSound` needs one strengthening, `EndedStay`: the
record of a task that ended is never given back, so no later task inherits its flag.  By
`LandedCaller` the return through the home goes to the caller: the contexts of the chain are
distinct, and those under the one in control have the depth they called at.  `Refinement` reads
`Coroutines` off the same lemmas.  `StacksAlwaysExact` adds the type of the free list; it
rests on `FrmCntType`, that the count of `_stkp_init`'s loop exists for every pool that holds a
node and a frame.

`NetProofs` proves the safety properties of `net`, for any number of records, descriptors,
events in a pass and sizes of buffer under `NetAssumption`.  The invariant `Orderly` asks nothing of the client.
It says what is true in the middle of a pass, between the handlers of one event and between the
events collected: an event names a session that is still open, each session at
most once and never the one being handled (`Passing`), so that when a handler closes its session
and the acceptor uses the record again, no event left is taken for the new session's; and
an event that is old when it is handled still fits its session (`Fitting`), so that a session
hears that it is connected before it receives.  `Refinement` needs no more than that: the callbacks come in order for every client.
`SessionsAlwaysSound` and `ClosesJustified` add `OwedExact`, that the offsets of a send buffer stand
for the bytes the client is owed, which only holds for a client that is `Careful`: a buffer that
is filled to the last byte looks empty (section 6).

`MmCacheProofs` proves all `mm_cache` checks, for every area, page size and set of zones under
`SizeAssumption`.  The invariant adds three things to `SlabsExact`.  A header that was left behind on a page
that starts no slab says that nothing of it is in use (`Stale`): so a search that meets
it refuses the object (section 6, a live one perhaps) but never marks a slot of the wrong slab, and by `FindsSlab` a
free that is accepted reaches the object's own slab and slot.  After a recall no zone
has an empty slab and the caller's none with a free object (`Calls`), which is all
that a refused allocation says.  The runs of pages lie apart (`Runs`), and with `ZoneFacts`, that the header and
`ObjCount` objects fit in `CacheSize`, `ObjectsApart` concludes that objects do, and `WriteIInv`
that what a client writes covers no header of a slab in use.

`MmPoolProofs` proves all `mm_pool` checks, for every order of blocks up to 31 and every chunk, node
count and set of requests under `SizeAssumption`, with `KeepsFirst`: no client frees the first
largest block or what it was split into.  Without it the merge backwards doubles
that block (section 6).  `PoolNodes` also needs `SpareNode`, which excludes the degenerate pool of
section 6; that a spare node is always there is a count of the nodes against the blocks.  The
invariant `PoolInv` says:

* `Tiled`: the blocks of clients, of nodes and the one being merged tile the chunk, each
  aligned to its size.  `TileMerge` has two buddies become one block, which is aligned by `PairIsAligned`.
* `Tails`: each block ends in a tail of its size, so by `PreviousBlock` the word before a block leads
  to its neighbour, and `PairBehind` keeps the pair out of the first largest block.
* `Heads`: of all the heads in memory, those a merge left inside a block too, only the
  clients' say "used".  Hence `mmp_free` accepts nothing else, and a merge stops at no remnant.
* `Listed`, `Cutting`, `Phases`: the lists and the nodes agree with the heads, also in the middle of a split,
  when one node still names the block that is being cut.
* `Merged`: free buddies never lie beside each other, but for the lower half that a split
  has just ended with, which the request takes next (`Halved`).
* `Refusals` and `Served`: what was refused fits nowhere until the next call; what was granted is large enough.

`PoolRefines` maps `held` to the sizes in the heads of the clients' blocks.  Carving, splitting and merging
are stutters of `PageAlloc`, `TakeExact` a grant and `FreeBegin` a release.

Only model-checked are the liveness properties, which need fairness and ENABLED and are out of the
prover's reach: `CallsEnd`, `OnTickEnds`, `RunsEventually`, `AllocEnds`, `DisconnectEnds` and `Told`.

## 6. Where code and expectation differ

Each is a run that TLC finds violated.

* `mm_pool_any_free`, `LiveFreeable`: freeing the first block of a chunk.
  `_prev_block` reads a zero size before the chunk, so the block is
  taken for its own predecessor and doubled over the live block after it
  (`mmpool.c:219`).  That block cannot be freed and is granted again.
* `timer_any_delay`, `RunsOnTime`: a delay shorter than a turn of the first wheel is
  filed under the delay rather than the tick (`timer.c:123`), and runs at another tick.
* `mm_cache_labels`, `FreesLive`: slabs of one page are recalled and their pages made part
  of a larger slab.  The old label stays at the start of a page inside it, and
  `mm_cache_free` of an object on that page takes it for one of the old, empty slab and
  refuses (`mmspace.c:145`): the object is lost.

Further differences, which the models keep to or step around, and no run of their own shows:

* ring buffer: a write up to the reader's offset is accepted when it is ahead
  (`ringbuf.c:117`), and the full ring then looks empty, so `LeavesOne` has the writer leave
  a byte free; a read of all bytes is refused when they lie around the end (`ringbuf.c:173`).  The
  send buffer of a session is the same code (`net.c:311`, `Careful`).
* memory space: `stkp_load` looks for its tag at the pointer to the pool, so reloading a
  space never succeeds; a space whose creation was cut short makes the next start
  follow a null pointer; after `mm_uninitialize` the same process cannot initialize again, and
  leaves a root without a label; a section whose allocator cannot be created has its segment
  destroyed when it is already in tree and list (`mmspace.c:566`), and if its area is not that of the
  stacks the next request that comes to it follows a null pointer; system ids from 4096 on have
  the keys of the next type (`mmops.c:13`), though `mmops.h` allows 8191.
* buddy allocator: in a pool of a single largest block of two smallest, with no list node
  beyond one for each of these, the first split takes the last spare node for its upper half
  and finds none for the lower one before it gives back its own; `_fetch_free_fln` (`mmpool.c:183`)
  does not check.  `mm_pool` has a larger chunk, and in the model such a split stops there.
* tasks: `utsk_create` does not reset `_jmp_flag`, so the next task in the record of one that
  ended cannot be resumed; a task that ended stays "running"; `utsk_destroy` leaves the magic
  number, so a second destroy can free another's stack; a task resumed from another depth than it was
  run from returns past its resumer, which `test/host.c:1482` does from a timer's callback.
* network: `net_disconnect` shuts the input at once, with bytes left to send; over a full socket
  the next `recv` returns 0, and when `errno` is not `EAGAIN` the session is closed before the
  rest of the send buffer went out (`net.c:930`): bytes `net_send` accepted are lost, the case
  `CloseJustified` names `CutShort`; an acceptor of the intranet cannot be destroyed (`net.c:650`), and a
  destroyed one stays in `_acc_list`; `net_destroy` leaves the acceptors' sockets open; a
  connection that failed is told as connected first; bytes read just before an end or an
  error are dropped; an end of input that comes with a stale `EAGAIN` is never noticed
  over epoll; over `poll` a ready session behind idle ones starves (`net.c:1201`); a session for
  which no buffer is left loses its record; a peer that sends fast enough keeps `_net_on_recv`
  in its loop.

## 7. Not modelled

* Channels (`src/ipc.c`).  Host and client each allocate a ring header of their own, with
  their own offsets, for the memory they share; a client that links never sees what the
  host wrote, so there is no channel to state properties of.  Only a process forked
  after the creation shares the header, and that is `RingBuf`.
* Names (`src/hash.c`).  `_hash_search` returns the last node of a bucket for a name that is
  not in it, so that `mm_search_zone` finds another cache, and `mm_cache_create` of such a
  name, or of one that exists, frees an uninitialised pointer (`mmspace.c:338`).  What
  happens depends on the contents of the stack.
* Calls within a callback for another session than its own, `net_disconnect` within
  `func_disconn`, and deleting the timer whose callback runs: what follows depends on who
  gets the freed record.
* `pgp_alloc` of more pages than the free lists have powers of two for, which reads past the array.
* The printing and checking functions for debugging; traversals of the tree, which change
  nothing; `bin_tree.c` and `radix.c`, which nothing uses; guard pages and the contents of
  registers and stacks; the relink of list pointers after a load, which restores addresses.
