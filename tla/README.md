# A verification project for RingDB

TLA+ modules of RingDB (`src/`), model-checked with TLC on small instances and, for
the central invariants, proved with TLAPS for every value of the constants.
`PROJECT.json` lists the components, the runs, the lines of code that each
definition models, the hazards and the theorems. This file says how they hang
together.

## 1. The system

RingDB is an LSM tree over io_uring. Level 0 lives in memory (memtables); below it
are levels of `LEVEL_FACTOR` sstables, each a file that is written at most once.

| Part | Code | Thread |
| --- | --- | --- |
| `initialize` | `lsm_tree.hpp:129-206` | main, once |
| `start_ringdb` | `lsm_tree.hpp:907-986` | main |
| `network_thread_routine` | `lsm_tree.hpp:1234-1495` | network |
| `sstable_worker_thread`, startup | `lsm_tree.hpp:407-664` | each worker |
| `sstable_worker_thread`, serving | `lsm_tree.hpp:666-900` | each worker |
| `insert_into_wqs`, `decompose` | `lsm_tree.hpp:1030-1230`, `level_info.hpp` | main and workers |
| `RequestBatchWaitQueue` | `request_batch_wait_queue.hpp` | pusher and poller |
| `BufferQueue`, idle transfer | `buffer_queue.hpp`, `lsm_tree.hpp:811-898`, `989-1020` | workers |
| `ReadWritePool`, `ConnectionPool` | `connection_pool/` | whoever owns the batch |
| `Filter`, `SparseIndex` | `level_info/` | whoever holds the level |
| `MemTable`, `RequestSegment` | `level_zero/`, `request_segment.hpp` | main |
| tree read, `Stack`, `SSTableCacheHelper` | `lsm_tree.hpp:253-405`, `sstable/` | workers |

A client's request goes network thread → main thread (as an entry of a request
batch) → wait queue of an sstable → its worker → next level, and back to the
network thread. A full memtable goes the same way down until a worker writes it to
a file. Threads talk through the completion rings of io_uring (`msg_ring`), through
wait queues and buffer queues, and through the guards of levels and queues.

State worth a model: the linked list of a wait queue; the guard byte of a level; the
flags that say which queue is shared; per sstable `is_flushed_to`, `waiting_on_io`,
filter, wait queue and file, the stack, ring and buffers of its reads; the counters of
startup; the sorted pool of a batch; the bytes of a memtable; the index of the
memtables; the connection pool and the entry of a network turn.

## 2. Modules

| Module | Models | State and actions |
| --- | --- | --- |
| `FifoQueue` | what the concept `RequestBatchWaitQueueLike` promises | numbers of enqueued and dequeued batches, last result; `Enqueue`, `Dequeue`, `PollEmpty` |
| `WaitQueue` | the linked list and its size and guard atomics | heap of nodes, `front`, `back`, a program counter per thread; one action per load or store that the other thread can see |
| `AtomicGuard` | the `compare_exchange_weak`/`store(1)` protocol | `atomic_guard`, each thread's `my_zero`; `Spin`, `Try`, `GiveUp`, `Release`; exchanges may fail spuriously |
| `Compaction` | a full memtable's way through the tree | per sstable the flags, filter, queue, file, and what startup has left to the kernel; actions of main thread, worker, kernel |
| `MCCompaction` | an instance of `Compaction` | fewer initial states |
| `Sharing` | the flags computed by `initialize`, and the workers on a buffer queue | loop variable and flag sets; the configuration is part of the initial state; then the steps of `AtomicGuard` for the workers that use one queue, and `Give` |
| `Startup` | from `initialize` to the serving loops | rings, counters, offsets; actions of workers, main thread, kernel |
| `ReadWritePool` | the sorted array of a request batch | the array and the variables of the binary search, one action per iteration |
| `BloomFilter` | insertion and check of a filter | set bits, counters, a call per thread; one action per iteration of the parallel loops |
| `Stack` | the class `Stack` | operators only |
| `MemTable` | `read`, `write`, `empty_out`, and `RequestSegment::insert_memtable` | the bytes, `size`, the search; one action per iteration, `FinishRead`, `FinishWrite`, `WriteToFull` |
| `BufferQueue` | `BufferQueue`, the stock of buffers of an sstable and what its worker does with both | ring, counters, `page_cache_buffers`; `Receive`, `TryAddBuffers`, `WaitOnce`, `PassNew`, `GiveOld`, `Forward` |
| `TreeRead` | a worker's service of one sstable: batches, traversal, reads, completions, answers | `BufferQueue`'s state, stack, offsets, submission queue, chains with the kernel; one action per branch of the turn, of the traversal's loop and per completion |
| `MCReads` | an instance of `TreeRead` | unwritten memory is the same everywhere |
| `MainThread` | `start_ringdb` and `SparseIndex::get_table_num` | index ranges, posted batches, `read_batch`; one action per branch of the loop |
| `Network` | accepting, pooling, submitting recvs | completion queue, the entry of the turn, pool; `Submit`, `Turn`, kernel actions |

The modules `*Proofs` extend the modules they are named after and hold the theorems;
`QueueProofs` is about `WaitQueue`, `AtomicGuard` and `Sharing`, `RequestProofs` about
`ReadWritePool` and `Network`.
`Sharing` composes the flags with `AtomicGuard` (`EXTENDS`, with the guard's actions as
conjuncts of its own); `TreeRead` composes `BufferQueue`, `Stack`, the worker and the
kernel. Elsewhere the composition is inside a module: `Compaction` joins main thread,
decompose, worker and kernel; `Startup` joins workers, main thread and kernel;
`MainThread` takes its batches from a `NetworkPosts` action. `WaitQueue`
implements `FifoQueue`, and `Compaction` uses sequences in its place. That step is
justified for a queue that one thread uses (section 4), which is why `Compaction` has
one worker. The queues of level 0 have a second user, the main thread, and no guard
(`lsm_tree.hpp:147`): what is pushed there may get lost (`kept` in `InsertAtLevel0`). The
queues of the other levels are taken to be flagged single-threaded, too; into one that is
not, nothing is ever pushed (`TryLockDead`).

An operator whose comment calls it "a variant" is a changed form of the definition
that follows it; no specification uses it. It shows that a property notices the
change.

### Conventions

- `fault`, and `overrun` in `MemTable`, become true in a step whose behaviour is undefined
  (null, deleted or unwritten memory, an index outside an array). Nothing is said of what
  follows, and nothing follows in the models, so those runs do not check for deadlock.
  Where undefined behaviour may also go unnoticed, both outcomes are explored (`Outcome(ends)`
  in `Compaction`). `hung` in `BufferQueue` names the loop a worker never leaves.
- Memory that the code reads before anything has written it holds what it likes: rows of the
  stack are zero or `Unknown` (`Stack`), cells of a buffer ring are `Null` or `Garbage`
  (`BufferQueue`). Large allocations are zero pages on Linux; the language does not say so.
- Atomics are sequentially consistent. The relaxed orders of the code allow more.
- io_uring is external. Operations complete in any order between rings, and a linked
  message comes after the operation it is linked to. The kernel breaks a chain at an operation
  that fails, at a write that falls short and at a read that does not fill its buffer, and
  the message is not sent. Failing setup calls are left out.
- In the default build a buffer has length 0 (`constinit_constants.hpp:56-65`: 1000
  bytes of page cache for 500 sstables), and a read of no byte fills it. `Startup` and
  `TreeRead` have that case as `zero_length`.
- Startup's chains fail where the code makes them: an open may fail, because the
  beginning of the path goes over the sstable's `SSTableInfo` and the rest is unwritten
  memory (`lsm_tree.hpp:607-620`), which also turns the guard of its wait queue into `'/'`; only
  one file is registered per ring, with index 0, so that the reads of every sstable but
  sstable 0 fail.
- Files are opened for reading only (`lsm_tree.hpp:619`), so that a flush fails.
  `Compaction` and `TreeRead` let a write succeed as well, except to a file that startup has
  not registered.

### What is taken as given although the code does not establish it

The source as it stands does not run as a whole. Each component is modelled at its
own interface as the code next to it uses it, and these points are assumed away:

- `struct io_uring*` variables are passed to `io_uring_queue_init_params` without
  memory behind them (`lsm_tree.hpp:194`, `475`, `592`, `1250`). The rings are taken
  to exist.
- The members of the union in a `RequestBatch` are not constructed. The length of the pool
  is taken to start at 0. Whatever `back` of a segment's stack holds is covered by the
  `overrun` of `WriteToFull`.
- `request_batch_wait_queue.hpp:139` declares `Node* node = ..., node2 = front`,
  which makes `node2` a `Node`. It is read as a pointer, as its later use needs.
- `set_is_single_thread` (`level_info.hpp:31-36`) assigns its parameter to itself.
  Both values of a guard's flag are modelled where the guard matters.

Several paths end at their first use in a fault that the models show: a write
(`lsm_tree.hpp:957`, table number -1; `NoMemtableFound` says that there is no other number),
the first recv completion (`1358`), and a read batch in `decompose`. Three components behind them are modelled at their own interface
all the same, because it is narrow and fully given by the code: the memtable (from
its calls in `start_ringdb`), the compaction path (from the point where a memtable is
full), and the service of reads by an sstable (from the batches in its wait queue).

## 3. What the runs check

| Run | Checks | Shows |
| --- | --- | --- |
| `wq_one_thread` | `NoFault`, `ImplementsFifo`, `EveryBatchDelivered` | A queue that one thread uses is a FIFO queue, for 8 batches and every way of emptying and refilling it. |
| `wq_shared` | `DeliveredInOrder` | On a shared queue what is delivered is in order and delivered once, up to the first fault. |
| `guards` | `WqFlagsExact`, `BqFlagsExact`, `TryLockNeverSucceeds`, `GiftsStayWithWorker`, `SpinConverges` | Between the first and the last level the flags are exact for all sstables of a level but the last one, if workers have whole levels (and, for buffer queues, as many levels as a level has sstables). On a guarded buffer queue a blocking caller always gets in and a trylock never does, so that, if workers have whole levels, no buffer goes down from one worker to another between the first and the last level. |
| `compaction` | `SchedulerRingSuffices`, `NoDataBehindEmptyFilter`, `OnlyOneTableWritten`, `SSTableImmutable`, `NoFlushAfterFailure`, `FlushRecorded` | Whatever startup hands over, a file that this run has written or that is marked as flushed is not written again, and none gets data behind an empty filter. One file at most is written in a run of the program, and after a failed write none. A flush that was submitted is recorded or fails. |
| `startup` | `OneChainPerTable`, `ServedTablesHaveRings`, `StallsOnlyInKernel`, `CountsStopShort`, `EveryFileAskedFor` | An sstable has one chain under way. Every file is asked for, and before its worker leaves the startup loop. No worker forgets an sstable: startup waits in vain only for chains that broke off. A worker counts fewer reads than twice its sstables, and none with buffers of length 0. |
| `pool` | `SortedNewestFirst`, `NothingLost`, `FindAnswers` | The pool stays sorted and complete, and the search finds what `decompose` asks for. |
| `filter` | `InsertedBitsSet`, `InsertedVerdict` | Concurrency costs a filter no bit and changes no answer. |
| `main` | `RepliesAccountForAll`, `ReadBatchBounded`, `EveryBatchReplied` | A batch that is posted back accounts for every request once, the batch that reads are forwarded in is never filled beyond its pool, and every batch is posted back unless the process ends. |
| `network` | `NoCompletionLost`, `BatchTaken` | No completion is released unseen, and once there is a batch of completions whoever has connected gets into the connection pool. |
| `memtable` | `InsertionKeepsBytes`, `SearchStaysInside`, `EveryCallReturns` | An insertion in front of stored bytes loses none of them, a search compares nothing behind the last entry, and every search ends, although all three mix bytes and entries. |
| `reads` | `BuffersInOrder`, `OneChain`, `AnswersInOrder`, `EveryBatchDealtWith` | Until the ring is full and in the first round of pops, buffers come out of it in the order they went in, and none twice. One chain at most is under way. On the last level answers keep their order, and no batch is left half-way unless a step is undefined, the worker hangs in the buffer queue or the sstable waits for ever. |
| `startup_barrier` (violation) | `NeverPremature` | The barrier opens before all sstables have been read, against the comment at `lsm_tree.hpp:552`. |

### Other disagreements between the code and its documents

Each property below is what a comment or a document states, and TLC refutes it. Where a
configuration lists several, all but the first are in comments: leave one of them in and
run `tlc -config <name>.cfg <module>`. Lines without a file are of `lsm_tree.hpp`.

| Configuration | Module | Property | What happens |
| --- | --- | --- | --- |
| `wq_level0` | `WaitQueue` | `NoFault`, `NothingLost` | Level 0 is flagged single-threaded (`147`) although the main thread pushes and a worker polls: a deleted node is used, a batch is lost. |
| `wq_shared_refuted` | `WaitQueue` | `NoFault` | The test of the unsigned size (`request_batch_wait_queue.hpp:137`) cannot fail; a poll of an empty queue follows a null `front`. |
| | | `NothingLost` | A push at size 1 does not move `back` (`request_batch_wait_queue.hpp:90`). |
| `filter_negatives` | `BloomFilter` | `NoFalseNegatives` | A check sums masked bytes where bits are meant (`bloom_filter.hpp:297`); an inserted string is reported absent, against `src/README.md:13`. |
| `memtable_refuted` | `MemTable` | `MissMeansAbsent` | Behind the last entry the key is not copied (`memtable.hpp:47`). |
| | | `SegmentHoldsMemtable` | Only the entry in the middle gets into the segment (`request_segment.hpp:30`, `stack.hpp:22`). |
| | | `FullMemtableEmptied` | `empty_out` clears the bytes and leaves `size` as it is (`memtable.hpp:68`): a memtable stays full once it was. |
| `guard_exclusion` | `AtomicGuard` | `MutualExclusion` | A failed exchange overwrites the expected value, and the next attempt succeeds whoever is inside (`1033`). |
| `guard_try` | `AtomicGuard` | `TryConverges` | The guard holds 1 for ever, and a trylock expects 0 (`1118`). |
| `compaction_refuted` | `MCCompaction` | `OldFilesKept` | A file with data of an earlier run that startup did not mark is written over. |
| | | `FilterKnowsFile` | The pointer to the key advances by the loop counter (`level_info.hpp:114`), so that keys 0, 1, 3, 6, ... enter the filter and the others do not, against the concept `LevelInfoDecompose` (line 34 of its `level_info.hpp`). |
| | | `PracticallyFullKnown` | After a restart the last level's files do not count (`686`). |
| | | `FileHoldsItsMemtable` | One compaction batch serves all memtables; a later one overtakes (`969`). |
| | | `MovesDownOnlyIfFull` | A batch leaves a level that has empty sstables (`level_info.hpp:108`). |
| | | `EveryMemtableTaken` | `waiting_on_io` is never reset after a flush (`684`). |
| `sharing_wq`, `sharing_bq`, `sharing_default` | `Sharing` | `WqUnguardedNotShared`, `BqUnguardedNotShared`, `FlagsComputed` | Shared queues are flagged single-threaded (`165`, `154`); with the values of the build the remainder at `152` is by zero. |
| `startup_refuted` | `Startup` | `MarkedTablesHoldData`, `TablesWithDataMarked` | The result of an open is taken for a read (`511`); a file with data is not noticed (`497`). |
| | | `NetworkFdCopied`, `WorkersServe` | A stray message is taken for the descriptor (`662`), or none ever comes (`1317`). |
| `startup_opens` | `Startup` | `BarrierOpens` | Only reads of sstable 0 succeed, so that with two workers the count at `204` is never reached and the database does not start, against `906`. |
| `main_refuted` | `MainThread` | `EveryWriteHasMemtable` | No range of the index ever gets a maximum, so that the first write goes to table -1 (`957`), against `src/README.md:11` and the test at `test_ringdb.hpp:28-48`. |
| | | `EveryRequestAnswered` | Reads wait in a batch that does not fill up (`951`). |
| `network_refuted` | `Network` | `AcceptsFromStart` | The file registered for the accept is not the server socket (`1282-1284`), against `1301`. |
| | | `EveryConnectionServed` | A turn has one submission entry for all its clients (`1352`): the last one gets a recv. |
| | | `ListensAgain` | The repeated accept is not on the server socket (`1368`). |
| `reads_refuted` | `MCReads` | `CountedBuffersHeld` | `insert_buffers_from` does not advance when buffers are added (`989-1020`): each is stored over the one before, against `1074`. |
| | | `AddingEnds` | The loop over the new buffers ends at a null cell, and cells are not cleared (`994`). |
| | | `GivingSucceeds` | The range of buffers an idle sstable gives away is removed from a cache that maps none (`893`), which runs out of its array, against `src/README.md:51`. |
| | | `WholeBatchTraversed` | `top()` reads the row behind the newest one (`stack.hpp:22`): a traversal sees the root of a batch and no children, against `250`. |
| | | `EveryAnswerLeaves` | An answer is prepared and not submitted (`397`); if no chain follows, it stays. |

### Bounds

- `wq_one_thread`: 8 batches with a size modulo 8, so that the size wraps around;
  `wq_shared`: 4 batches, enough for the branches at size 0, 1 and more and for a
  push behind each.
- `compaction`: 2 levels of 2 sstables are the smallest tree in which decompose has
  a target behind the first table, overflows to table 0, and passes a batch down;
  2 memtables, so that one may overtake the other (`MaxCompactions`); 3 keys in a segment
  (`ENTRIES`), one of which misses the filter; one sstable at most that startup is not
  through with (`MaxUnfinished`). `MCCompaction` takes all sets of marked sstables, with files
  and filters that are alike, which leaves every combination of mark, data and keys.
- `guards`: level factors 2 and 3, up to 27 sstables and 4 workers, which include three
  workers with three levels of three; every buffer queue of every such tree. Up to
  three workers meet on a guarded one, two of them blocking or all three trying.
- `startup`: one worker with three sstables, buffers with and without bytes, each set of
  files with data. The last sstable is neither the one whose reads succeed nor its neighbour.
  `startup_barrier` has one worker with two sstables, of which one is counted twice;
  `startup_opens` two workers with one each.
- `pool`: 4 entries of 3 keys, so that equal keys and both ends occur.
- `filter`: every function from two strings to two of three bits, two of which (0
  and 8) have the same place in different bytes; three calls of two threads.
- `main`: every two sorted batches of three requests over three keys, and two ranges
  of the index, so that ranges run out and the read batch fills in mid-batch.
- `network`: 4 clients and 2 completions per turn, so that completions are left over
  from a turn; 4 turns; one worker, whose message may fail.
- `memtable`: 5 entries of 3 bytes over two byte values. The array fills up and is
  emptied, searches stop at, inside and behind entries, and keys and values may be
  null bytes.
- `reads`: rings of 2 x 3 cells and 6 buffers received (`MaxPushes`), so that the ring fills,
  2 of them null (`MaxNulls`); unwritten memory is null or garbage, the same in all cells and
  rows (`MCReads`);
  counters modulo 16, which wrap below 0; batches of 3 requests; 4 batches on a submission
  queue of 3 (the code asks for 3, which the kernel rounds up to 4; with 3 it runs full
  within the bound).

### Fairness

Weak fairness is assumed of a thread's loop, which never blocks on anything but what
the action's guard says (`WaitQueue`, `Startup`, `MainThread`, `Network`), and of an
operation that has begun (`MemTable`, `TreeRead`). The kernel finishes what was
submitted, successfully or not. A blocking exchange is repeated, and one that could
succeed all the time does in the end: spurious failures of `compare_exchange_weak` do
not go on for ever (`AtomicGuard`, `Sharing`). In `Compaction` the worker, the
kernel for each sstable, and the main thread inside a compaction it has begun are fair. No
strong fairness is assumed anywhere. Clients need not connect, send or write anything.

## 4. What is proved

The theorems hold for every value of the constants that satisfies the named
assumptions of the modules: any number of batches, any shape of the tree, any keys
and sizes, any hash function.

**`QueueProofs`.** Four groups.

- A wait queue that one thread uses (`Producer = Consumer`, flagged single-threaded):
  `OneThreadListShape`, `OneThreadNoFault`, `OneThreadNothingLost` and `OneThreadFifo`, which
  is `Spec => Fifo!FifoSpec`. `NoFault` and `NothingLost` are not inductive: a pop is in the
  middle of things when it has read `front` and not yet stored it. `OneThreadInv` says for
  each place in an operation which nodes are allocated, where `front` and `back` point and
  what the locals hold. All nodes are numbered in the order of allocation, so the list is
  an interval of numbers, and each step moves one end of it.
- Any wait queue: `TypeCorrect` and `OrderOfDelivery`. A shared list may lose batches, yet
  what is left of it keeps the order (`OrderInv`): links lead to younger nodes, `front`
  only moves on, and the node that a push is about to make the front is younger than
  everything the consumer has seen or can reach.
- The guard is 1 in every state (`GuardStaysTaken`), hence `TryLockDead`: a trylock, which
  expects 0, never succeeds. `TreeTryLockDead` is the same for the workers of a tree in
  `Sharing`, and `OnlyFlaggedQueuesGiven` says that a queue gets buffers from above only if
  its flag lets the giver skip the guard. The invariant `GiftInv` joins the guard's value,
  the trylocks and the gifts.
- The flags: `WaitQueueFlagsExact`, `BufferQueueFlagsExact`, `UnguardedBufferQueues`. `FlagInv`
  says which queues below the loop variable are flagged. The rest is arithmetic: who uses a
  queue is a matter of the quotients of sstable numbers by the batch of a worker, and if
  that is a multiple of `LEVEL_FACTOR` the level's place in its worker decides.
  `GiftsWithinWorker` joins `FlagInv`, `GiftInv` and `GiftsFromAbove`: only a flagged queue is
  given anything, and the level above a flagged one has the same worker.

Two theorems are about progress. `PollsSucceed`: in a queue of one thread, each step of a poll
lowers `PollSteps` while a batch waits, and the last one hands out the oldest batch.
`OneFailureIsEnough`: a failed exchange leaves a blocking caller with the value of the guard in
`my_zero`, and since all that is ever stored is that value, no other thread can spoil it.

**`StartupProofs`.** `StartupTypeCorrect`, `OneChain`, `ServedTables`, `WorkersNeverStall`,
`CountStopsShort` and `BarrierNeverOpens`, from `StartupInvariant`, which joins five claims.
`ChainInv`: every sstable is in one stage of its initialization (not yet asked for, with the
kernel, with a message in its own worker's ring, or nothing under way), and its first
completion is that of the open. `RoundInv`: what a worker has passed in its round it has asked
for; the loop's condition is only tested between rounds, so a worker that leaves has passed
all its sstables, even if one of them was counted several times. `ResultInv`: where a read or a
message is under way nothing has broken off, so that the ring holds the descriptor and, for
sstable 0 alone, a complete read. `CountInv`: hence only worker 0 counts, at most once a turn,
which bounds the count by the turns it has taken in this round (`MayHaveCounted`). `StallInv`: an
sstable on which nothing is under way is done, or one of its chains broke off.

`BarrierNeverOpens` follows from the bound. It needs as many counts as there are sstables, and
with two workers that is twice a worker's number: the main thread stays at its barrier, whatever
the kernel answers. Its property `BarrierStaysClosed` is the reason for the counterexample of
`startup_opens`, and no run checks it.

`RoundsReachEverything`: `AskedIn` and `TakenIn` are the numbers of steps of the worker itself up
to a file that it has not asked for and up to a message in its ring. Each of its steps lowers
them by one, and nobody else's changes them. It needs `RoundInv` (a file not yet asked for is
still ahead in this round) and `ServedInv` (no such file is left behind).

**`CompactionProofs`.** `SchedulerRing`, `FilterNotEmpty` and `Immutable` (an action
property), from all states that `Init` allows and not only those of `MCCompaction`. The inductive
invariant is `TypeOK`, `Phases` and `Covered`. `Phases`: an sstable with a write under way has
`waiting_on_io` set and is not marked, and its file has nothing of this run; a message that
this run did not cause is one of startup's chain, of which there is one, and then the completions
of startup are still in the ring, so that the message ends in a fault; an sstable that does not
wait has a file without data of this run. `Covered`: an sstable with a batch in its queue, a write
under way or data of this run has a key in its filter. It rests on `DecomposeTarget`: the filter of
the table a compaction goes to is not empty afterwards, on the overflow path because no filter
of the level was empty.

`OnlyOneTable` and `FailureIsFinal` need to know where batches can be. `PathInv`
(`BatchesKeepToTheWay`): a batch waits, or is written, only at the target of a level, and
the targets of all levels above are flushed and do not wait; a written or failed table
waits for ever. Targets never change, so two tables that wait would each have to be
passed by the way to the other (`OneOnTheWay`).

`FlushInOneStage` and `FlushGoesOn` follow a flush from its write to `is_flushed_to`: a
waiting sstable is in exactly one of four stages, and a step of anyone leaves it there or
takes it to the next. That a batch which is taken from a queue has a segment to write
(`SegmentThere`) excludes a fifth stage, in which an sstable waits for nothing.

**`RequestProofs`.** For the pool, `Sorted`, `Complete`, `LowerBoundFound` and `FindCorrect`. The
invariant adds what a binary search knows half-way: entries left of `left` are smaller
than the key, entries from `right` on are not, and `conn_req` stands just before `left`
while `right` has not moved. Insertion at the end writes behind `conn_req` and relies
on the last part. `InsertAtLowerBound` is the lemma about the shifted array.

For the network thread, `NetworkTypeCorrect` and `CompletionsKept`. The thread looks at
completions again that it did not release, so that the number of accepts it prepares in
a turn is bounded only because the multishot accept ends once (`NetworkInv`), and a
completion is released only after it was looked at (`Released`). `TurnTakesAll`: after a turn
every client that had connected is in the connection pool. By `CompletionsKept` it was there
before or had its completion in the queue, and a turn looks at the whole queue, not only at
the part it releases.

**`BloomFilterProofs`.** `BitsKept`, `NotEmpty` and `YesHasEvidence`, from an invariant
about calls in progress: an insertion has set the bits of all finished iterations, and
a check with a sum other than 0 has seen a set bit. `VerdictOfInserted` says that the answer
for an inserted string is decided by its bits alone, whatever order the loop's iterations
take. Its invariant `VerdictInv` is about the sum over the hashes still to come, which the
model defines by recursion. `HashInduction` is induction over the number of hashes, taken
from the well-foundedness of the naturals; from it follow that the sum exists, is unique,
and grows by one hash's share in an iteration (`SumExists`, `TotalIs`, `TotalGrows`).

**`MainThreadProofs`.** `NoMemtableFound`, since no range ever gets a maximum (`RangesOpen`): it
is why the module has no branch for a request with a memtable. `RepliesAreComplete`, from
`Accounted`, which extends the claim about posted batches to the requests of the current batch
before `i`. `ReadBatchStaysBounded`: the test for a full read batch is an equality, which suffices
because the batch grows by one and nothing follows a full one (`Room`). `EveryStepCounts` gives the
work of the main thread a number, `Remaining` (for each batch one step to take it, one for
each request and one to post it back), that each of its steps lowers by one. By `NoneStranded`
that number is 0 only when all batches are posted back, and until then a branch of the loop
applies.

**`MemTableProofs`.** `InsertionLosesNothing`, `SearchInside` and `EachStepHalves`, for every
capacity and length of a value. The size is a multiple of an entry (`SizeInv`), a search ends less
than an entry behind `size` (`SearchInv`), and bytes from there on are zero (`TailZero`). An
insertion therefore moves enough bytes: `MovesEnough` is the inequality between the bytes
the loop counts and the entries it moves. The search compares nothing behind `size`, and each
iteration halves the bytes between its bounds, though it sets `left` an entry behind the middle
and `right` on it.

**`TreeReadProofs`.** `OutInOrder` needs more than the order: until as many buffers have come as
the ring has cells, the k-th pop returns what the push before the k-th put in, or what was in
the memory before (`OneBehind`). The ring then holds the buffers in the order they came, from
cell 1 on (`InCell`), and the front is as far as there have been pops (`BehindInv`).
`OneChainAtATime`, by induction: rows above row 0 are as the memory was, zero or unknown
(`StackInv`), and the stack holds one row exactly from the taking of a batch to the end of its
traversal, which ties it to the chain under way (`ServeInv`). `AnsweredInOrder` adds the count of
taken batches.
`BatchesAdvance` counts the steps a batch at hand still needs (`StepsLeft`, four at most):
every step lowers the count, except that neighbours may give buffers, which leaves it alone.
`NoneForgotten`: what was taken and not answered is the batch at hand, and its count is not 0,
unless the sstable is one that waits for ever. `TypeCorrect` types the ring and the worker.

Every safety invariant, action property and refinement of the passing runs has a theorem. The
liveness properties are only model-checked, as the prover does not reason about fairness
or `ENABLED`. What they rest on is proved, for every value of the constants: that the steps
lead towards the goal and nothing leads away from it, or that something is under way until
it is reached.

| liveness property | its safety part |
|---|---|
| `EveryBatchDelivered` | `PollsSucceed` |
| `SpinConverges` | `OneFailureIsEnough` |
| `FlushRecorded` | `FlushInOneStage`, `FlushGoesOn` |
| `EveryFileAskedFor` | `RoundsReachEverything` |
| `BatchTaken` | `TurnTakesAll` |
| `EveryBatchReplied` | `EveryStepCounts`, `NoneStranded` |
| `EveryCallReturns` | `EachStepHalves` |
| `EveryBatchDealtWith` | `BatchesAdvance`, `NoneForgotten` |

Left to TLC is the last step, from these facts and fairness to the property itself.
The violations are single behaviours and have no theorems.

## 5. What is not modelled

- The search inside a buffer (`lsm_tree.hpp:345-382`) and the mapping of buffers to
  offsets. `map_buffer_to_offset_boundary` is undefined at its first call, so that no
  buffer is ever mapped and the search is never reached. That the initial buffers of
  neighbouring sstables overlap (`635`) can therefore not be observed either.
- What `decompose` would do with a read batch behind the null pointer it dereferences.
- The completions of recv, send and of batches in the network thread
  (`lsm_tree.hpp:1380-1487`), behind the fault of the first recv completion. Two things
  there need a look once that is repaired: the request that finds its batch full is
  dropped (`1396`), and `length - 1` of an empty batch wraps around (`1454`).
- What a write with the table number -1 would touch (`957`); the process ends there.
- The key ranges and filters that startup collects (`lsm_tree.hpp:515-537`).
- The library functions of the Bloom filter that the database does not call.
- Weak memory orders, failing setup calls, string lengths and logarithms at compile time.

## 6. Plan

The rest of the network thread, the reads in `decompose` and the mapped buffers, when the
faults in front of them are repaired: until then a model of them would have no state of
the program to start from.
