------------------------------- MODULE Startup -------------------------------
(***************************************************************************)
(* From initialize to the main loops: every worker opens the files of its  *)
(* sstables and reads them to the end, driven by the messages of its       *)
(* scheduler ring; the main thread waits until num_read has reached        *)
(* NUM_SSTABLES and starts the network thread, which is to send the        *)
(* descriptor of its ring to every worker.                                 *)
(*                                                                         *)
(* A completion of an sstable's ring is looked at with                     *)
(* io_uring_peek_batch_cqe(io_ring, cqes, 2), which leaves it in the ring, *)
(* and nothing advances that ring during startup: only the first two       *)
(* completions are ever seen, and only these are kept here.  A chain of    *)
(* requests ends with a message to the scheduler ring, and the kernel      *)
(* breaks it at a request that fails or reads less than it was to.         *)
(*                                                                         *)
(* The kernel's results are what the requests of the code allow:           *)
(*   - The path of an sstable's file is made from memory that nothing has  *)
(*     written: its open may fail.                                         *)
(*   - The descriptor registered with an sstable's ring is the user_data   *)
(*     of the open, which nothing sets, in a table with the one index 0;   *)
(*     the reads name index sstable_num.  Those of sstable 0 read whatever *)
(*     that descriptor is, and those of any other fail.                    *)
(*                                                                         *)
(* zero_length: buffers have no bytes, as the default build's page cache   *)
(* gives them; a read is complete with no byte, and no result is less than *)
(* the length.  A descriptor is positive and less than a buffer is long.   *)
(* The key ranges and filters collected from the buffers are left out.     *)
(***************************************************************************)
EXTENDS Integers, Sequences, FiniteSets

CONSTANTS NUM_SSTABLE_WORKER_THREADS, WORKER_SSTABLE_BATCH_SIZE

ASSUME StartupAssumption ==
  /\ NUM_SSTABLE_WORKER_THREADS \in Nat \ {0}
  /\ WORKER_SSTABLE_BATCH_SIZE \in Nat \ {0}

Worker == 0..(NUM_SSTABLE_WORKER_THREADS - 1)
NUM_SSTABLES == NUM_SSTABLE_WORKER_THREADS * WORKER_SSTABLE_BATCH_SIZE
Table == 0..(NUM_SSTABLES - 1)
First(w) == w * WORKER_SSTABLE_BATCH_SIZE
Second(w) == First(w) + WORKER_SSTABLE_BATCH_SIZE - 1
Owner(t) == t \div WORKER_SSTABLE_BATCH_SIZE
NetworkFd == -2       \* the descriptor of the network thread's ring
NoFd == -1

VARIABLES
  zero_length,
  with_data,             \* the sstables whose file holds data
  atomic_consumer_guard, \* per sstable, the first byte of its SSTableInfo
  desired_sstable_offset,   \* "new": -2, "reading": not negative, "done": -1
  is_flushed_to,
  submitted,             \* per sstable, the chains the kernel works on
  io_ring,               \* per sstable, the results of its first two completions
  broken,                \* the sstables of which a chain broke off
  scheduler_ring,        \* per worker, the messages it has not seen
  num_initialized_read,
  num_read,
  network_ringfd,        \* each worker's copy
  i,                     \* per worker, the sstable of this turn of its loop
  pc,                    \* per worker
  main

build == <<zero_length, with_data>>
tableVars == <<atomic_consumer_guard, desired_sstable_offset, is_flushed_to>>
kernelVars == <<submitted, io_ring, broken>>
vars == <<build, tableVars, kernelVars, scheduler_ring, num_initialized_read, num_read,
          network_ringfd, i, pc, main>>

Chain == {"open", "read"}
\* A negative result, no byte, less than a buffer (a descriptor, too), a whole buffer.
Result == {"error", "nothing", "part", "buffer"}
Slash == 47            \* the character '/'

TypeOK ==
  /\ zero_length \in BOOLEAN /\ with_data \in SUBSET Table
  /\ atomic_consumer_guard \in [Table -> {1, Slash}]
  /\ desired_sstable_offset \in [Table -> {"new", "reading", "done"}]
  /\ is_flushed_to \in SUBSET Table
  /\ submitted \in [Table -> Seq(Chain)]
  /\ io_ring \in [Table -> Seq(Result)]
  /\ broken \in SUBSET Table
  /\ scheduler_ring \in [Worker -> Seq(Table)]
  /\ num_initialized_read \in [Worker -> Nat]
  /\ num_read \in Nat
  /\ network_ringfd \in [Worker -> Table \cup {NetworkFd, NoFd}]
  /\ i \in [Worker -> Table]
  /\ \A w \in Worker : i[w] \in First(w)..Second(w)
  /\ pc \in [Worker -> {"peek", "table", "fd", "serving"}]
  /\ main \in {"waiting", "started"}

Init ==
  /\ zero_length \in BOOLEAN /\ with_data \in SUBSET Table
  /\ atomic_consumer_guard = [t \in Table |-> 1]
  /\ desired_sstable_offset = [t \in Table |-> "new"]
  /\ is_flushed_to = {}
  /\ submitted = [t \in Table |-> <<>>]
  /\ io_ring = [t \in Table |-> <<>>]
  /\ broken = {}
  /\ scheduler_ring = [w \in Worker |-> <<>>]
  /\ num_initialized_read = [w \in Worker |-> 0]
  /\ num_read = 0
  /\ network_ringfd = [w \in Worker |-> NoFd]
  /\ i = [w \in Worker |-> First(w)]
  /\ pc = [w \in Worker |-> "peek"]
  /\ main = "waiting"

-----------------------------------------------------------------------------
(***************************************************************************)
(* The worker's loop: first a message, then the sstable of this turn.      *)
(***************************************************************************)
NoMessage(w) ==
  /\ pc[w] = "peek"
  /\ scheduler_ring[w] = <<>>
  /\ pc' = [pc EXCEPT ![w] = "table"]
  /\ UNCHANGED <<build, tableVars, kernelVars, scheduler_ring, num_initialized_read, num_read,
                 network_ringfd, i, main>>

\* A message of sstable t is taken from the scheduler ring.
Message(w, t) ==
  /\ pc[w] = "peek"
  /\ scheduler_ring[w] # <<>>
  /\ t = Head(scheduler_ring[w])
  /\ scheduler_ring' = [scheduler_ring EXCEPT ![w] = Tail(@)]
  /\ pc' = [pc EXCEPT ![w] = "table"]
  /\ UNCHANGED <<build, atomic_consumer_guard, io_ring, broken, network_ringfd, i, main>>

\* A variant that waits for the next message without a read.
no_initialization_read(t) == UNCHANGED submitted

schedule_initialization_read(t) == submitted' = [submitted EXCEPT ![t] = Append(@, "read")]

\* Fewer than two completions: the file has been opened.
Opened(w, t) ==
  /\ Message(w, t)
  /\ Len(io_ring[t]) < 2
  /\ desired_sstable_offset' = [desired_sstable_offset EXCEPT ![t] = "reading"]
  /\ schedule_initialization_read(t)
  /\ UNCHANGED <<is_flushed_to, num_initialized_read, num_read>>

\* res < fair_aligned_sstable_page_cache_buffer_size, an unsigned comparison: an error is
\* no small number.
Less(result) == result \in {"nothing", "part"} /\ ~zero_length

Short(t) == {j \in 1..2 : Less(io_ring[t][j])}

\* Both completions are looked at in turn: a positive result marks the sstable as
\* flushed, one short of a buffer counts it as initialized, and a whole buffer in the
\* second place asks for the next read.
ReadDone(w, t) ==
  /\ Message(w, t)
  /\ Len(io_ring[t]) = 2
  /\ is_flushed_to' = IF \E j \in 1..2 : io_ring[t][j] \in {"part", "buffer"}
                      THEN is_flushed_to \cup {t} ELSE is_flushed_to
  /\ num_read' = num_read + Cardinality(Short(t))
  /\ num_initialized_read' = [num_initialized_read EXCEPT ![w] = @ + Cardinality(Short(t))]
  /\ desired_sstable_offset' = [desired_sstable_offset EXCEPT ![t] =
                                  IF 2 \in Short(t) THEN "done" ELSE "reading"]
  /\ IF 2 \in Short(t) THEN UNCHANGED submitted ELSE schedule_initialization_read(t)

\* The last sstable of a round, and a variant that stops before it.
BeforeLast(w) == Second(w) - 1
LastOfRound(w) == Second(w)

\* A worker has counted as many reads as it has sstables, and a variant with one more.
MoreCounted(w) == num_initialized_read[w] > WORKER_SSTABLE_BATCH_SIZE
BatchCounted(w) == num_initialized_read[w] >= WORKER_SSTABLE_BATCH_SIZE

\* The end of a turn: num_initialized_read is looked at after a whole round.
EndOfTurn(w) ==
  /\ pc[w] = "table"
  /\ i' = [i EXCEPT ![w] = IF @ = LastOfRound(w) THEN First(w) ELSE @ + 1]
  /\ pc' = [pc EXCEPT ![w] =
              IF i[w] = LastOfRound(w) /\ BatchCounted(w) THEN "fd" ELSE "peek"]

TableKnown(w) ==
  /\ EndOfTurn(w)
  /\ desired_sstable_offset[i[w]] # "new"
  /\ UNCHANGED <<build, tableVars, kernelVars, scheduler_ring, num_initialized_read, num_read,
                 network_ringfd, main>>

\* The offset after the request to open, and a variant that leaves it as it is.
OffsetLeft == "new"
OffsetAfterOpen == "reading"

\* The beginning of the path goes over the sstable's SSTableInfo, which starts with the
\* consumer guard of its wait queue, and not into file_path.
OpenTable(w) ==
  /\ EndOfTurn(w)
  /\ desired_sstable_offset[i[w]] = "new"
  /\ atomic_consumer_guard' = [atomic_consumer_guard EXCEPT ![i[w]] = Slash]
  /\ submitted' = [submitted EXCEPT ![i[w]] = Append(@, "open")]
  /\ desired_sstable_offset' = [desired_sstable_offset EXCEPT ![i[w]] = OffsetAfterOpen]
  /\ UNCHANGED <<build, is_flushed_to, io_ring, broken, scheduler_ring, num_initialized_read,
                 num_read, network_ringfd, main>>

\* The first message that is found after the loop is taken for the descriptor of the
\* network ring.  It is not marked as seen.
TakeNetworkFd(w) ==
  /\ pc[w] = "fd"
  /\ scheduler_ring[w] # <<>>
  /\ network_ringfd' = [network_ringfd EXCEPT ![w] = Head(scheduler_ring[w])]
  /\ pc' = [pc EXCEPT ![w] = "serving"]
  /\ UNCHANGED <<build, tableVars, kernelVars, scheduler_ring, num_initialized_read, num_read,
                 i, main>>

(***************************************************************************)
(* The main thread leaves its barrier and starts the network thread, whose *)
(* messages with its descriptor go to fixed_file_fds[i].  That array holds *)
(* what the workers have put there for their sstables, never a scheduler   *)
(* ring: no worker gets the message.                                       *)
(***************************************************************************)
StartRingDB ==
  /\ main = "waiting"
  /\ num_read >= NUM_SSTABLES
  /\ main' = "started"
  /\ UNCHANGED <<build, tableVars, kernelVars, scheduler_ring, num_initialized_read, num_read,
                 network_ringfd, i, pc>>

Complete(result) == result = IF zero_length THEN "nothing" ELSE "buffer"

\* The results of the first request of a chain, and whether the message behind it is
\* posted: that of a read follows a second read, which may fail though the first did not.
Results(t, chain) ==
  IF chain = "open" THEN {"error", "part"}
  ELSE IF t # 0 THEN {"error"}
  ELSE IF zero_length THEN {"error", "nothing"} ELSE Result

Posts(chain, result) ==
  IF chain = "open" THEN {result = "part"}
  ELSE IF Complete(result) THEN BOOLEAN ELSE {FALSE}

\* The kernel finishes the oldest chain of sstable t.
KernelDone(t) ==
  /\ submitted[t] # <<>>
  /\ submitted' = [submitted EXCEPT ![t] = Tail(@)]
  /\ \E result \in Results(t, Head(submitted[t])) :
       /\ io_ring' = [io_ring EXCEPT ![t] = IF Len(@) < 2 THEN Append(@, result) ELSE @]
       /\ \E posts \in Posts(Head(submitted[t]), result) :
            /\ scheduler_ring' =
                 [scheduler_ring EXCEPT ![Owner(t)] = IF posts THEN Append(@, t) ELSE @]
            /\ broken' = IF posts THEN broken ELSE broken \cup {t}
  /\ UNCHANGED <<build, tableVars, num_initialized_read, num_read, network_ringfd, i, pc, main>>

WorkerStep(w) ==
  \/ NoMessage(w) \/ TableKnown(w) \/ OpenTable(w) \/ TakeNetworkFd(w)
  \/ \E t \in Table : Opened(w, t) \/ ReadDone(w, t)

Next ==
  \/ \E w \in Worker : WorkerStep(w)
  \/ StartRingDB
  \/ \E t \in Table : KernelDone(t)

Spec == Init /\ [][Next]_vars

\* Every thread runs, and the kernel finishes what was submitted.
FairSpec ==
  /\ Spec
  /\ \A w \in Worker : WF_vars(WorkerStep(w))
  /\ WF_vars(StartRingDB)
  /\ \A t \in Table : WF_vars(KernelDone(t))

-----------------------------------------------------------------------------
(***************************************************************************)
(* Properties.                                                             *)
(***************************************************************************)

\* The places of the messages of sstable t among those that its worker has not seen.
MessagesOf(t) ==
  LET ring == scheduler_ring[Owner(t)] IN {n \in 1..Len(ring) : ring[n] = t}

\* "allow receiving one linked message for each asynchronous I/O batch operation from
\* each sstable" (lsm_tree.hpp:470): an sstable has at most one chain under way or
\* message unseen, however often its file is read, so that the scheduler ring with an
\* entry per sstable does not overflow.
OneChainPerTable ==
  \A t \in Table : Len(submitted[t]) + Cardinality(MessagesOf(t)) <= 1

\* A worker serves only sstables whose ring has been set up and whose file has been
\* asked for: though sstables are counted twice, the count is looked at after a whole
\* round over them only (lsm_tree.hpp:497-498).
ServedTablesHaveRings ==
  \A w \in Worker : pc[w] \in {"fd", "serving"} =>
    \A t \in First(w)..Second(w) : desired_sstable_offset[t] # "new"

\* Every worker comes to every sstable of its batch and asks for its file
\* (lsm_tree.hpp:498-642), whatever the kernel makes of the requests before.
EveryFileAskedFor == \A t \in Table : <>(desired_sstable_offset[t] # "new")

\* While a worker is in its startup loop, none of its sstables is forgotten: its file is
\* still to be asked for, the kernel works on it, its message waits to be seen, or a chain
\* of it broke off (lsm_tree.hpp:499-641).  What startup waits for in vain is never left
\* undone by a worker.
StallsOnlyInKernel ==
  \A t \in Table : pc[Owner(t)] \in {"peek", "table"} =>
    \/ desired_sstable_offset[t] \in {"new", "done"}
    \/ submitted[t] # <<>> \/ MessagesOf(t) # {} \/ t \in broken

\* Only reads of sstable 0 are ever counted, once in a turn, and its worker stops after the
\* round in which it has counted as many as it has sstables (lsm_tree.hpp:497-498, 558-560):
\* the count stays short of twice that number.  Buffers of length 0
\* (constinit_constants.hpp:63) are never counted, however often they are read.
CountsStopShort ==
  /\ num_read < 2 * WORKER_SSTABLE_BATCH_SIZE
  /\ zero_length => num_read = 0

\* So the barrier of the main thread (lsm_tree.hpp:204) stays closed in every build with
\* more than one worker, or with buffers of length 0.
BarrierStaysClosed ==
  zero_length \/ NUM_SSTABLE_WORKER_THREADS > 1 => main = "waiting"

\* The main thread "will never start the network thread prematurely (i.e., before all
\* sstable initializations have completed)" (lsm_tree.hpp:552).
NeverPremature == main = "started" => \A t \in Table : desired_sstable_offset[t] = "done"

\* "nonempty (is flushed to)" (lsm_tree.hpp:1532): an sstable that has been read is
\* marked as flushed only if its file holds data.
MarkedTablesHoldData ==
  is_flushed_to \subseteq with_data

\* "The SSTable is flushed to at most once and is never written to again"
\* (README.md:11), also after a restart: a worker that has left its startup loop knows
\* of every file of its batch that holds data.
TablesWithDataMarked ==
  \A w \in Worker : pc[w] \in {"fd", "serving"} =>
    \A t \in First(w)..Second(w) : t \in with_data => t \in is_flushed_to

\* "first get network ring fd and copy it locally" (lsm_tree.hpp:655): what a worker
\* serves with is the descriptor of the network ring.
NetworkFdCopied ==
  \A w \in Worker : pc[w] = "serving" => network_ringfd[w] = NetworkFd

FilesOpened == \A t \in Table : io_ring[t] = <<>> \/ io_ring[t][1] # "error"

\* "Each SSTable worker thread cycles amongst all its SSTables, performing what is
\* effectively an event loop" (README.md:51): every worker gets to that loop, if all files
\* can be opened.
WorkersServe == []FilesOpened => \A w \in Worker : <>(pc[w] = "serving")

\* "start the network thread and start processing incoming requests" (lsm_tree.hpp:906):
\* the main thread gets past its barrier, if all files can be opened.
BarrierOpens == []FilesOpened => <>(main = "started")
==============================================================================
