# ZToolLib in TLA+

ZToolLib is a C library of infrastructure parts: queues, threads that serve
them, an event loop with timers and TCP on top, memory pools, hash tables, a
database in shared memory, containers, and many small utilities. This directory
holds TLA+ models of its parts, TLC configurations that check them on small
instances, and TLAPS proofs for every instance. Source paths below are under
`src/src/ZToolLib/`. The models follow the GCC/Linux build on x86.

## Inventory

| Part | State | Operations | What is hard | What makes it correct |
|---|---|---|---|---|
| Lock-free queue (`lockfreequeue.c`) | circular array, `rdindex`, `wtindex`, `maxreadindex`, perhaps in shared memory | push, pop, head, size, create, attach | every access interleaves with every other; copies are not atomic; a process can die half way | each item once, in order, whole; full and empty are told truthfully |
| Simple event (`ztl_simple_event.c`) | mutex, condition variable, a flag nobody reads | signal, wait, timed wait | a signal that nobody waits for is lost | its users must not need it |
| Producer-consumer (`ztl_producer_consumer.c`) | queue, event, `count`, `started`, one worker | post, start, stop, release, pending | lost signals, a full queue at stop, restarts | nothing accepted is lost; stop returns |
| Event dispatcher (`ztl_event_dispatcher.c`) | handlers by type, a producer-consumer | register, post, callback, stop | registration while the worker runs | the registered handlers run, in order |
| Blocking queue (`ztl_blocking_queue.c`) | queue, event, `waitors` | push, timed pop | push between the failed pop and the wait | a waiter gets what was pushed |
| Thread pool (`ztl_threadpool.c`) | task list, `taskn`, `stop`, `activenum`, recycled task nodes | dispatch, remove, start, stop, join, release | tests outside the mutex, one signal per non-empty list, stop against sleep | each task once, none stranded, stop ends all workers |
| Locks (`ztl_locks.c`) | one word | spin lock, read lock, write lock, unlock | CAS loops, reader count | exclusion, no lost unlock |
| Memory pools (`ztl_mempool.c`, `ztl_palloc.c`) | blocks, free list, counters | alloc, free, reset | early return under the lock | a live object has one owner |
| Event loop and timers (`ztl_evloop*.c`, `ztl_evtimer.c`, `ztl_rbtree.c`) | connections by descriptor, fired events, timers by time | add, del, poll, timers, stop | handlers that delete what is about to fire; other threads adding timers | a timer fires once, not early; no handler of a closed connection runs |
| TCP server, client | connections, reconnect state | accept, read, connect, stop | reconnects and callbacks | a closed connection is reported once |
| Logger (`ztl_logger.c`) | queue, pool, writer thread | log, close | wait without the mutex, close with a backlog | what was logged is written |
| Shared memory (`ztl_shm.c`) | names, objects, mappings, a file lock | create, open, truncate, map, detach, release, remove, lock | several processes, removal while mapped, one that dies with the lock | one name is one memory; nobody maps past its end; one holder of the lock |
| Memory database (`ztl_memdb.c`) | entries and sequence in shared memory | alloc, append, free, open | crash between two stores | recovery finds every published entry |
| Dictionary, table (`ztl_dict.c`, `ztl_table.c`) | two hash tables while rehashing | insert, find, delete, iterate, expand | a rehash step inside every operation | a finite map; a traversal misses nothing |
| Map, set, tree (`ztl_map.c`, `ztl_rbtree.c`) | a red-black tree with a sentinel | add, delete, search, iterate | rotations at the root and the last node | a balanced search tree of what was added |
| Containers (`ztl_array.c`, `ztl_vector.c`, `ztl_dlist.c`, `ztl_linklist.*`, `ztl_ring.c`, `ztl_heap.c`, `ztl_bitset.h`) | arrays, links, positions | the usual | boundaries, recycled nodes, an iterator in between | sequence, bag, set, priority queue |
| Buffers (`ztl_buffer.c`, `ztl_bufcat.c`, `ztl_msg_buffer.c`) | bytes and a capacity | append, reserve, consume, join | growth at the limit | the bytes put in, no write outside |
| Texts, dates, encodings (`ztl_dstr.c`, `ztl_config.c`, `ztl_utils.c`, `ztl_times.c`, `ztl_base64.c`) | none, or a string and a list | convert, split, look up | the ends of texts, months, numbers | the reference function |

The lock-free queue is under nearly everything that runs in threads: the
producer-consumer, the blocking queue and the logger use it as their queue, the
thread pool to recycle task nodes. The event dispatcher is a client of the
producer-consumer, TCP server and client are clients of the event loop.

The three thread services of the first group sit on the queue; `ztl_array.c`
lives in a pool of `ztl_palloc.c`; the database lives in memory of `ztl_shm.c`.

## Plan

1. *Done.* `FifoQueue`, `LFQueue` with its proofs and its refinement;
   `ProducerConsumer`; `ThreadPool` with its proofs.
2. *Done.* The services with threads: `BlockingQueue`, `EventDispatcher`,
   `Logger`, `EvLoop` under `TcpServer`, `TcpClient`.
3. *Done.* `Locks`, `MemPool`, `EvTimer`; `Dict` and `Table` against a finite map;
   `RBTree` under `CMap`; `MemDB` and `Shm` with crashes.
4. *Done.* The containers, buffers, texts, dates and encodings against reference
   definitions.
5. *Done.* Proofs of every invariant of `LFQueue`, `ProducerConsumer`,
   `ThreadPool`, `Locks`, `MemPool`, `Shm` and of the services but the blocking
   queue.
6. *Done.* Proofs of the dictionary with its scans and iterators and of the memory
   database, whose loops need induction over numbers.
7. *Open.* Proofs of the other components of the `data` run, first `EvTimer`: see
   the end of the section on proofs.

## Modules

**FifoQueue** is the abstract bounded queue. A push has two effects, `Reserve`
and `Commit`, because the implementation has two: a place is taken when
`wtindex` moves and becomes readable when `maxreadindex` passes it. `Take` is a
pop.

**LFQueue** is `lockfreequeue.c`. One action is one access to shared memory: the
reads of `wtindex` and `rdindex`, the three CASes, the copies. A copy into the
array is two steps with a `Torn` value between, so that a racing reader would
show. `cw`, `cr` and `data` are the locals of each thread, `pc` where it is. A pop
copies the element into `*pdata` before its CAS, so one that loses the CAS and
then finds the queue empty returns an error and leaves the copy there. A
failed commit CAS changes nothing and is retried, so it has no action. `Crash`
is a process that dies inside an operation and attaches again with
`lfqueue_create_at_mem`, which keeps the indices. History variables record what
was reserved (`enq`), delivered (`deq`) and committed, what these counts were
when a thread read an index (`gw`, `gr`), and whether a CAS ever succeeded on an
index that had gone once around the array since it was read (`lapW`, `lapR`).
`Clean` says none did. x86 and the full barriers of `__sync_*` let the volatile
accesses be taken in program order.

**ProducerConsumer** is `ztl_producer_consumer.c` with `ztl_simple_event.c`, over the
actions of `FifoQueue`. The read of `wtindex` (`seen`), the full check and the CAS of a
push are steps: the others may move on between them, so the check may refuse a post that
would fit. The CAS compares the index modulo the size and does not see a whole round; a
push that enters a full queue so sets `overrun`. `count` wraps like the unsigned
counter. The event is the fact that the worker is asleep: `bsignaled` is never read.
Handlers go on or make the worker quit; the sentinel of `ztl_pc_stop` is such a handler.
`Start` may make no thread, since the result of its creation is ignored.

**ThreadPool** is `ztl_threadpool.c`. A critical section is one step, since only
`taskn` is read outside the mutex; the tests of `stop` and `taskn`, `_new_task`,
`_release_task`, the running of a task and the signals of `ztl_thrpool_stop` are
steps of their own. `mem` is what each task node holds and `idle` the recycled
nodes. `_new_task` pops a node in the queue's two steps, the copy (`CopyIdle`) and the
CAS (`NewTask`), which makes the other copies `lost`. A caller that has lost tries
again, or finds the queue empty and uses its copy all the same (`UseLost`, `stale`).
The idle queue may also claim to be empty or full when it is not.
`Start` may make only some of the threads, as its loop does when a creation
fails. After `Release` nothing happens: what workers do to freed memory has no
meaning.

### Services with threads

**BlockingQueue** (`ztl_blocking_queue.c`, `ztl_simple_event.c`): a push or pop of
the queue is one step; the test of `waitors`, the signal, the wait and the second
pop are steps. The time-out is computed as the code does, `timeoutMS * 1000` in an
`int` (`INT_MAX`, `UsecPerMs` scaled down), so "for ever" wraps to a wait that ends
at once.

**EventDispatcher**: handlers by event type, run by the worker of a producer-consumer,
which is here what `ProducerConsumer` promises of it. The test of `started` and the push
of a post are two steps, and a stop pushes its sentinel, clears `started` and joins in
three; an event that lands behind the sentinel waits for the next start (`promised`
counts those in front). A handler may register another one; another thread may not,
since nothing guards the table.

**Logger**: a caller formats a line, pushes it, counts it, and signals when the
count was 0; the writer tests, waits, pops, writes. Synchronous logging and the
UDP mode, where a second logger receives and writes, are other modes of the same
object. A datagram may be lost.

**EvLoop** has the operators of `ztl_evloop.c` over epoll; **TcpServer** runs them:
`IoStep` is one turn of the I/O thread, which waits, and handles a batch of fired events
one by one, so a handler can take away a connection whose event is later in the batch.
The kernel gives the lowest free descriptor, so numbers are used again. An echo whose
send fails, after the timer's `shutdown` always, is `lost`, because the result is
ignored. `RecvFails` and `Drop` are the two steps that touch memory which is not the
connection's: `rbuf[-1]` when nothing could be received, and the events of a connection
that its handler has just freed. **TcpClient** has the I/O thread (connect, poll,
receive, reconnect) and the user's thread (send, stop), with nothing locked between
them.

### Shared and persistent state

**Locks**: an action per atomic access. **MemPool**: threads that allocate and
free; taking a node from the free list is a read and a write, which only the lock
keeps together. An exhausted pool that may not expand returns with the lock held,
and so does the model. **EvTimer**: timers in the tree and in the list. The
I/O thread expires them in steps (look up, take out, handler, recycle) and takes no
lock; another thread adds under the lock, or finds a timer, locks and deletes. What
comes between two steps is interleaved; two threads inside tree or lists at once
(`Overlap`), and the deletion of a node that has left the tree meanwhile, set `broken`.
The clock wraps at `TimerWord`.

**MemDB**: each header and each field of the control block is written by a step of its
own where the next scan could tell the difference, and a crash may come between any two,
so between the number of an entry, its flag and `MaxIndex` (`AppendMark`, `AppendFill`,
`AppendPublish`); the next process scans the memory. Lengths are in units of a header.
The variable `harm` names the flaws met so far (see below). **Shm**: the names of a
file, a POSIX object and System V segments, handles, mappings, sizes, the file lock, and
the death of a process. `ipc` is the system's side and the `ztl_shm_t` of each handle,
`relied` what callers rely on.

### Data structures

**Dict** and **Table** hold the two tables, `rehashidx` and the iterators, and do
one rehash step in every operation that does one. `Dict` has the cursor of
`dictScan`, with the reversed bits. `Table` keeps the links of nodes as they are in
memory, because a recycled node keeps its own. **RBTree** is the tree with its
rotations; left and right halves of the code are one definition with a side.
**CMap** is the map and the set on it.

**Linked**, **Ring**, **DList**, **Heap**, **Arrays** over **Palloc**, **Buffers**,
**Bitset**, **Dates**, **DStr**, **Texts** and **Base64** are sequential. Each has
`obj`, what the program holds, and `spec`, the sequence, set, date or text it stands
for; a step calls an operation and changes both, and the property compares them.
The spec is what the calls mean, but for the few calls to which the code gives another
meaning; the list of what the code does names them. `spec.harm` is set by a call after
which memory is used that is not the object's.
Pure functions are compared with a reference (`DayOf` counts days from 1970, for
instance) at every value a walk reaches.

### Instances

`MCLFQueue`, `MCProducerConsumer` and `MCThreadPool` are the instances for TLC of
the first three components. `MCServices` and `MCData` hold the other components,
one per behaviour: `part` says which one runs, the variables of the others stay
`"off"` or as they began. `MCData` extends `Locks`, `MemPool`, `Shm`, `Dict` and
`MemDB`, whose actions and properties it takes as they are, and has instances of
the rest. `MCTable` and `MCLogger` are single components, and so is `MemDB` in
`MemDB.cfg`.

What the code leaves undefined, or cannot recover from, ends a behaviour of the
model: nothing is modelled, and no property is claimed, after it. The steps that lead
there are in the models, with the variable that remembers them:

| Module | Variable | Set by |
|---|---|---|
| `LFQueue` | `lapW`, `lapR` | a CAS that an index gone round satisfies (the model goes on; most properties are for `Clean`) |
| `ProducerConsumer` | `overrun` | a push into a full queue after such a CAS |
| `ThreadPool` | `stale` | a caller that uses a task node it has lost |
| `TcpServer` | `harmed` | `rbuf[-1]`; a handler called out of a freed connection |
| `EvTimer` | `broken` | two threads in the tree or the lists, a timer deleted twice |
| `MemDB` | `harm` | see the memory database below |
| `Arrays`, `Buffers`, `Texts` | `spec.harm` | see the list of what the code does |

Definitions that end in a suffix such as `_NoFullCheck` are variants of the
definition after them with one plausible mistake; each property is violated when
the definition is replaced by the variant `PROJECT.json` names.

## Runs

| Run | Instance | Shows |
|---|---|---|
| `lfq_mpmc` | 2 producers, 2 consumers, 3 slots, 4 pushes, 1 crash | the inductive invariant; delivery in order and once, slot ownership and the step-wise refinement of `FifoQueue`, all until an index laps a thread |
| `lfq_spsc` | 1 producer, 1 consumer, 3 slots, 7 pushes | no lapping; truthful full and empty; exact head and size; refinement of `FifoQueue`; every item is delivered |
| `lfq_aba` | 1 producer, 2 consumers, 2 slots | violation: an item twice, another never |
| `pc` | 2 posters, queue of 3 slots, 2 posts, 2 starts | until a push overruns the queue: exact count; a stop leaves no worker and nothing undone; no item waits for ever |
| `pc_stop` | 1 poster, queue of 2 slots | violation: a refused sentinel makes the stop hang |
| `thrpool` | 2 workers, 1 dispatcher beside the stopping thread, queue of 2, 2 tasks | until a caller uses a node it has lost: bound of the list, exclusive nodes, tasks once, none stranded, quiet after join, tasks run, stop ends |
| `thrpool_stop` | 2 workers, queue of 1 | violation: a worker sleeps through the stop |
| `services` | blocking queue: 3 threads, 2 pushes, a pop each; dispatcher: 2 types, 2 handlers; logger: 2 callers, 3 lines, queue of 2; server: 2 connections and a refused one; client: 3 sockets | pops get what was pushed though signals are lost; handlers in order, nothing left in front of a sentinel; the log in order; table and poll set of the server agree and no stale event is handled, until it harms memory; no socket of the client is lost; what is read is answered; the client's stop returns |
| `data` | see below | exclusion, one owner per buffer, finite maps, complete traversals, balanced tree, timers once and in order, recovery after a crash, shared memory, containers, texts |
| `table_idles` | 3 keys, 3 nodes | violation: a key is lost after a removal |
| `logger_close` | 2 callers, queue of 2 | violation: the close waits for ever |
| `memdb_recover` | memory of 9 units | violation: a gap after a merge makes entries disappear |

Bounds. With 3 slots and 4 (7) pushes the indices wrap and the queue is full and
empty in every phase; two threads on a side are enough for every race on an
index, since a CAS is lost to one other thread. In `pc`, `Wrap` is 8 in place of
2^32: `count` never leaves -1 .. 3, so it is not mistaken. In `thrpool` the stop
dispatches two more tasks, so the list reaches its bound of three; a second start
is not modelled. Symmetry (threads of one side) is used only in `lfq_mpmc`, which
checks no liveness. Deadlock is not checked: a program whose bounds are used up,
or that was released, stops.

In `services` the server's table has room for one descriptor less than the kernel
hands out, so an accept is refused; the client has three sockets, so that it
reconnects twice. In `data`:

* locks: 3 threads, and a writer's value of 4 in place of 2^32 - 1; pool: 2
  threads, 2 blocks of one buffer, with and without growth;
* dictionary and table: 3 keys whose hashes collide, first size 2: they grow and
  (the dictionary) shrink while an iterator or cursor is under way. `EmptyVisits`
  and `Word` scale the limits on empty buckets and on the cursor's bits;
* map: 4 keys, each at most twice, enough nodes for every case of the deletion; timers:
  3 nodes over a clock that wraps at 64;
* memory database: 7 or 9 units of memory, entries of 1, 2 or 4, sequences that
  start at 1 or 2; shared memory: 2 processes, 2 objects;
* lists of 4 nodes, heaps of 6 elements, arrays that grow twice and move to a
  large allocation, buffers of 6 bytes with a counter that wraps at 8;
* dates: 800 days from June 2019, through the leap day of 2020 and both ends of a
  year; texts of 6 characters, a list of 2
  configuration items, numbers of 3 digits, every text of up to four
  bytes taken from the ends and the middle of the range, through base64.

The constraint `Keep` of `data` ends a behaviour when the table is spoiled or the
database has met a flaw (`harm`), `GapsOnly` of `memdb_recover` when it has met another
than the gap. In the database that is after recovery: a process that dies half way
through an allocation, an append or a free behind published entries, and the one that
scans and merges after it, are in `data`; the next allocation is not, if it leaves a gap.

Fairness. Threads that are inside an operation run on (weak fairness), as any
scheduler gives; nobody is made to call an operation, and nobody is owed a
spurious wakeup. `WorkerTimeout` is fair because `pthread_cond_timedwait` ends
by itself. In `lfq_spsc` the consumer pops again and again (strong fairness of
popping, since peeking may come between), which is what the worker loops do. In
`services` the I/O threads of server and client and a thread inside a blocking
call run on; the network owes nothing. In `logger_close` the writer and the
closing thread run on.

## Disagreements found

* **Multiple consumers** (`lfq_aba`). `lockfreequeue.h` says the queue "supports
  multiple producers and multiple consumers". The CAS of `lfqueue_pop` compares
  an index that repeats after `quesize` pops. A consumer that stalls between its
  copy and its CAS for that long delivers an old element.
* **Stop of the producer-consumer** (`pc_stop`). The result of posting the
  sentinel is ignored. If the queue is full, or only looks so to a push that
  raced a post and a pop, `ztl_pc_stop` never returns.
* **Stop of the thread pool** (`thrpool_stop`). With fewer places than threads
  the empty tasks of `ztl_thrpool_stop` do not reach everybody. A worker that had
  just tested `stop` goes to sleep after the broadcast. With enough places the
  same happens only if somebody removes tasks meanwhile
  (`StopTerminatesUnremoved`).
* **Table** (`table_idles`). `table_node_free` puts a node before the idle list but
  sets its link only if the list was not empty: otherwise the link still leads
  to its successor in the chain, which is handed out again while in use.
* **Closing the logger** (`logger_close`). The signal of `ztl_log_close` is lost
  between the writer's test and its wait.
* **Memory database** (`memdb_recover`). `PrevHeadPtr` adds the previous length
  instead of subtracting it. The merge of a free or an open clears the last header and
  goes forward, to a header of length 0; the next allocation lies behind that one, and
  the scan of the next open ends there. What was published behind the gap is not found.

Other things the code does, which the models follow (the properties say what
still holds):

* `_new_task` of the thread pool looks at the task and not at what `lfqueue_pop`
  returned (`ztl_threadpool.c:69-71`). A pop that lost its CAS and then found the queue
  empty has left the winner's node there, and two callers fill one node.
* `ztl_pc_post` tests `started` before it pushes, `ztl_pc_stop` clears it after it has
  pushed its sentinel: an event accepted in between stays in the queue until the next
  start. The CAS of a push may hold on an index that has gone round, and the push then
  enters a full queue. `ztl_pc_start` ignores that no thread could be made.
* `_read_handler` of the server writes `rbuf[-1]` when nothing could be received, and
  ignores what its send returned, so an echo is lost after the timer's `shutdown`. The
  event loop reads the events of a connection after the handler that freed it.
* `ztl_evloop_addtimer` and `ztl_evloop_deltimer` take a lock that the I/O thread does
  not take, and the latter looks its timer up before: another thread that uses them
  while timers expire works on the same tree and lists.
* `ztl_bq_pop` without a time-out does not wait for ever, because `INT_MAX * 1000`
  wraps; its second pop makes up for that only while items are there.
* A message refused by the logger's queue still counts, and only the step from 0
  to 1 signals, so that the writer can sleep on a backlog. The writer subtracts
  the header from a size that does not include it, so a line in a file lacks its
  last bytes; texts are left out of `Logger`. The UDP receiver never advances
  `lSequence`, so repeated datagrams are written again.
* Timers count from the loop's last look at the clock, so they may fire before
  the time-out `ztl_evtimer.h` speaks of has passed since the call.
* A server loop without timers waits in epoll for ever and notices no stop;
  `ztl_tcp_server_release` does not join; the server passes `reuse_addr` as the
  flag for non-blocking sockets, and one that blocks would stay in accept.
* A client with `reconnect_ms` 0 gives up before its first connect; its `mutex` is
  never taken, so a stop that races a connect can lose or close twice a socket.
* `MemDB`: an append out of the order of allocation, an open with a size that cuts
  an entry off and a second open of one object harm recovery (`harm`). The entry cut
  off need not be a published one: where memory ends inside an entry that was only
  allocated, the next allocation and the scan no longer agree on where headers are.
  An entry of length 0 would end every later scan, and sequence numbers that start
  at 0 could not be told from a header that has none. The code refuses neither;
  `DbAssumption` leaves both out.
* `Shm`: all System V segments have the key -1, since `ftok` gets a pointer past
  the name; releasing a handle that never mapped may remove segment 0; a closed
  second handle gives up the lock of the first; `ztl_create_only` is not exclusive.
* `Heap`: an element keeps its last index when it leaves, so removing one that was
  popped takes out the element that stands there now. `heap_push` without memory to
  grow forgets all elements.
* Vector (`Buffers`): `cvector_remove` decrements `nelts` before it bounds the move.
  Removing the last but one moves nothing, so that the last one is lost in its place
  (`VecExact` takes this as the meaning of the call); in front of it one cell too many
  moves, from behind the block when it is full (`harm`).
* `Arrays`: `ztl_array_clear` gives back the elements and the header, both in use,
  `ztl_array_reserve` compares an address with a count, `ztl_array_push_n` doubles once,
  and `ztl_array_remove_index` accepts the index behind the end. `Palloc`: an address
  aligned past the end of a block passes as fitting. `Buffers`: a full fixed `bufcat`
  writes past its end, separators of three or more go to the front, a message is made
  with reference count 0. `Ring`: rotating an empty ring divides by zero.
* `Dates`: `ztl_next_date` skips the last day of most months, `ztl_prev_date` is
  wrong on the first of July, August and December, `ztl_str_ptime` never sets the
  milliseconds; the reference excludes exactly these.
* `DStr`: splitting a text shorter than the separator wraps the unsigned length.
  `Texts`: `parse_size` accepts negative sizes. `ztl_config_have` compares without
  case whatever its parameter for a strict look-up says (`ztl_config.h:63`,
  `ztl_config.c:258`); `ConfExact` says what is found, and nothing of what a strict
  caller should get. A list of items that is full is grown by `realloc`, although it
  is memory of the pool (`ztl_config.c:127-130`); this ends a behaviour. `Base64`: a refused text
  does not set the length.

## Proofs

All theorems hold for any sets of threads, any queue size and any bounds.

`LFQueueProofs` proves `LFQueue`. Types (`TypeCorrect`) need no more than that
`TO_INDEX` stays in the array. Safety rests on `Inv == Clean => Parts`:

* `Window`: the three indices are `Len(deq) <= commits <= Len(enq)` positions of
  one window shorter than the array, so a slot tells a position;
* `Contents`: committed slots hold the items reserved for them;
* `BeforeCas`, `AfterCas`, `DistinctPlaces`: a producer whose index is current
  still has its room; one that owns a slot owns a place nobody else does;
* `Reading`: a consumer whose index is current copies the head of the queue.

None of the safety properties is inductive without the ghost counts `gw` and
`gr`, which say whether a thread's index is still current. `Clean` cannot be
dropped: `lfq_aba` shows the invariant false without it. `FifoDelivery` and
`NoSharedSlot` follow from `Inv`. With one thread on a side only that thread moves
its index, so it is never lapped (`NeverLapped`), and delivery is unconditional
for one producer and one consumer (`SingleDelivery`). With one
producer (consumer) the early return for a full (empty) queue is taken only when it
is (`ReturnsAreTruthful`, from `Window` and the ghost counts). `lfqueue_head` called by
the only consumer copies the next item, and `lfqueue_size` counts the items reserved
when it read `wtindex` (`PeeksAreExact`; `Counting`, the second half, is inductive
because only that consumer moves `rdindex`).

Its last part proves that the steps simulate `FifoQueue` under the mapping
`pending = enq` beyond `commits`, `ready = enq` between `Len(deq)` and `commits`,
`delivered = deq`: every step until a lap (`Simulation`), and the whole
specification for one producer and one consumer (`SingleRefinement`).

`ThreadPoolProofs` proves the types of `ThreadPool` (`PoolTypeCorrect`) and, until a
caller uses a node it has lost (`stale`), the rest: that no task is stranded
(`NoTaskStranded`: a list that is not empty has had its signal, and a worker that takes
a task looks again before it sleeps), the bound of the list (`ListBounded`: the list
together with the dispatches in flight is bounded, which the list alone is not
inductively), and what a join gives (`JoinQuiet`: `activenum` counts exactly the workers
that have begun and not ended). A node is in one place only, on the list, on the free
list or in one thread's hands (`NodesAreExclusive`); the invariant `Places` adds that no
node beyond the ones made so far is anywhere (`NoneAhead`), without which a fresh node
could already be in use. A copy that a caller has made and not yet won is no place: only
the caller that is not `lost` may take it, and winning makes the other copies lost. A
job runs once at most and never after it was removed (`JobsRunOnce`): `OneCarrier` says
that two live nodes never carry one job and that a job still carried has neither run nor
been removed.

`ProducerConsumerProofs` proves, until a push overruns the queue, the pending count
(`CountIsExact`: `Counted` is the count as the code computes it, modulo the word, with
the posts that have pushed and not yet added) and the drain (`StopDrains`). The drain
needs to know where the one sentinel of a stop is: before the stop there is none, and
the worker of a started object lives (`NoSentinelYet`), from its push until the worker
leaves there is exactly one in the queue or in the worker's hand (`OneSentinel`), and
all that must be handled is handled, in the worker's hand, or in front of it
(`InFront`). A worker that was not made, or quit for another handler, leaves a sentinel
behind (`astray`), and the drain is claimed without.

`LockPoolProofs` proves `LocksExclude` and `PoolIsExact`. `RwWord` says what the word of
the read-write lock means: the writer's value while one writer is alone, else the number
of `Users`, which counts the threads that are about to decrement as well.

The pool pushes a node and unlocks before it
counts, so `nFreeCount` lags behind the list by the threads in between, and as
an unsigned word may pass below zero for a while: `FreeCounted` states it with
`AsWord`. `Places` has every buffer on the free list or with one thread, `LockHeld`
that one thread at most is inside the critical part, and that the lock is taken then,
or for ever once a pool that does not expand has run out.

`ShmProofs` proves `ShmIsSound`. The parts of its invariant are stated over fields of
the state and each has a lemma per kind of update (a handle changes, an object is
made, a name goes), from which the actions are put together. `OneNameOf`: an object has
one name at a time, its handles opened it by that name, and one that no longer has
it is known to be unnamed. `SizesOf`: the length of an object is what its callers
agree on, and a handle that sized or mapped it did so with that size. `LocksOf`: who
believes in a lock has the object open, and has the lock unless one was dropped.
That a kernel object is not reused while somebody has it open (`NewIsUnused`) is what
keeps a stale handle from meeting a new object.

`ServicesProofs` proves four parts of `services`. `EventsInOrder`: what was handled,
what is in hand and what is queued are together what was posted (`EvdInv`; `Queued` says
where in the queue the sentinel is, if there is one, with `promised` events before it
and the late ones behind), and the handlers run so far are a prefix of the table's.
`LinesInOrder`: file, writer's hand and queue concatenate to the accepted lines while
the logger is open, and the file is a prefix of them once it is closed (`LogInv`).
`ClientIsSound`: the flag `added` mirrors the poll set, the poll set holds at most the
client's own socket, and a connected client is polled and was announced (`CliInv`,
stated for the time in which the user does not release the client under the I/O thread).
`ServerIsSound`, until memory is harmed: every entry of the event loop belongs to an
open socket with the handler of its kind and every ready descriptor still to be
dispatched has its entry (`SvrInv`); that `accept` returns the lowest free descriptor,
which is not in the table, is the reason a stale entry is never met.

`DictProofs` proves `DictAlwaysIsMap`: in every state, half way through a rehash too,
lookups, counts and random draws are those of the map the calls made. The invariant
`DictOK` says that every entry is in the bucket of its key (`Good`), that a key is in
one chain and there once, that buckets below `rehashidx` are empty and the counts
exact, and that the entries of both tables are the pairs of the map (`AllEnts`). One
rehash step keeps the set of entries and takes one bucket from the old table to the
new one; every operation is put together from that and from an insertion at the head
of a chain or a removal from it. The loops (`_dictNextPower`, the walk through a
chain, `dictRehash` and the steps of `dictGetSomeKeys`) are functions of the number
of their turns.

`TraversalsComplete` says what `dictScan` and the iterators promise, for every size and
every width of the cursor. The *position* of a cursor or hash is its reversed word
(`Pos`). Three facts of number theory carry the scan: a word of `s * q` values reversed
is its low bits reversed, times `q`, plus its high bits reversed (`RevSplit`, by
induction over halvings); so the bucket of a key in a table of any size is the leading
part of its position (`PosParts`, `Place`); and `NextCursor` goes to the first position
that no bucket visited holds (`NextIs`). Hence each call of `dictScan`, with one table
or with two, reports every key whose position the cursor passes (`ScanReports`, with
`Walk` for the buckets of the larger table), and `ScanOK` is inductive: keys that are
owed are at or ahead of the cursor. A change of size between two calls does not matter,
because a position does not depend on it. For iterators, `IterOK` says that a safe one
that has begun is counted, so that nothing is rehashed; that it awaits every key it
owes and none it has returned (`Awaits`: behind its saved entry in the chain, in a later
bucket, in the second table); and that an unsafe one has the fingerprint of the tables.
Each operation is shown to keep the order of all keys but the one it adds or removes
(`Keeps`), which is what the saved entry needs.

`MemDBProofs` proves `DbAlwaysRecovers`. `Layout` says that the headers tile the
memory: whoever follows the lengths from the base meets every header and nothing
else, and each holds the length of the one before. `LogKept` ties the headers to what
was appended and not freed: each of those entries is a filled header with its number
and contents, in order. `OpenOk` adds what a process knows (its vector is the log, with
one entry more or less half way through an append or a free, its total is the sum of
their lengths, `max` is the last number) and `ClosedOk` what is left when it died:
anything that is not in the log has a number above `max` or none, so that the scan
rolls it back. `ScanInv` is the invariant of the scan itself: up to the header it is
at, the memory is rolled back and the vector is the log. The merge at the end of an
open and of a free (`Merged`) clears the last header, if at all, and leaves `cur` where
nothing is (`AstrayIn`), which harms nobody before the next allocation (`CurIsLast`).
The proof fixed the condition on `cut` above.

Loops and sums are proved by induction over a number of turns. No prover knows an
induction scheme, so `Lowest` and `UpTo` derive one for sets of numbers from
`WFMin`: the least turn at which the claim fails is not the first and its
predecessor does not fail. That a recursive function exists with its equation is
`LoopRuns`, from the library's theorem on inductive definitions by the same argument.

The proofs use the assumptions the modules name, and no others. They ask for positive
sizes and counts, finitely many threads where threads are counted (`FiniteAssumption`,
`PostersAssumption`, `FewThreads`, `CountersFit`), distinct roles of threads, and words
large enough for the threads and buffers there are: `FewThreads` keeps the readers below
the writer's value, `CountersFit` the buffers and threads below the range of the pool's
counters. `WordAssumption` says of the scan cursor what holds of an `unsigned long`: its
width and the first size are powers of two (stated as: a divisor of `Word` above 1 is
even), and no table outgrows it. The code has none of these checks; in a process they
hold by a wide margin. `ShmAssumption` says that a name is of one kind, as its form
decides, and numbers objects from 1. `WrapAssumption` asks nothing of the width of the
pending count, which is proved modulo it.

Only model-checked:

* liveness, since fairness is out of the prover's reach;
* the blocking queue (`BqDelivered`): what it promises is a property of a whole
  behaviour;
* in `data`: the red-black tree and what stands on it (`MapSound`, `TimersExact`),
  `TableIsMapUnspoiled`, `ContainersExact` and `TextsExact`. A tree after a rotation, a
  list after a sort or a text after a conversion is compared with a recursively defined
  function of trees, lists or texts. The provers cannot instantiate the library's
  induction over such data, which takes an operator as its parameter; the detour over
  numbers that the dictionary and the database take would be needed for each of these
  definitions.

## Not modelled

* Ciphers, digests and hash functions: published algorithms over bytes, for which
  test vectors say more than a small model. Copying and `ztl_memcpy.h`.
* Wrappers of threads, sockets and dynamic libraries, and of `malloc`: the models
  use what POSIX says of them.
* The select back end and everything that is only built on Windows; the vendored
  cJSON; the unit test framework.
* `ztl_fixapi.c`: nothing fills its map, and it computes its free room the wrong way
  round, so it cannot be used as it stands.
* Of modelled parts: `ztl_destroy_pool` and cleanup handlers, anonymous memory and
  `msync`, `ztl_memdb_free_seq_prefix` and `_suffix` (declared nowhere),
  `ztl_bitset_tostring`, `ztl_int_dt_combine` and `ztl_time_dt_combine`, options of
  sockets, reading the clock. Time zones with daylight saving.
* Two threads in one process on a `MemDB` (two mutexes guard one vector) and use of
  a component while it is released: the hazards list has them with the reason.
