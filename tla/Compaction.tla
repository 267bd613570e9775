------------------------------ MODULE Compaction ------------------------------
(***************************************************************************)
(* The way of a compaction through the tree: the main thread turns a full  *)
(* memtable into a request segment and hands it to level 0; a worker       *)
(* thread polls the wait queue of one sstable after the other, flushes the *)
(* segment, passes it on to the next level or deletes it; the kernel       *)
(* performs the writes and posts a message to the scheduler ring of the    *)
(* worker after each.                                                      *)
(*                                                                         *)
(* There is one worker, and wait queues are sequences (module WaitQueue    *)
(* looks inside them).  Those of level 0 are flagged single-threaded       *)
(* although two threads use them: what is pushed there may get lost.  The  *)
(* queues of the other levels are taken to be flagged, too: into one that  *)
(* is not, nothing is ever pushed (module AtomicGuard).                    *)
(*                                                                         *)
(* The main thread has one RequestBatch for all compactions: it is queued  *)
(* once per full memtable and its segment is replaced each time.           *)
(* Memtables are numbered in the order in which they fill up, and the      *)
(* segment made of the m-th one is called m; its keys are numbered by      *)
(* their place in it.  A queue entry remembers the memtable it was queued  *)
(* for, which the code does not.                                           *)
(*                                                                         *)
(* Read batches are not in this module: LevelInfo::decompose dereferences  *)
(* a null pointer for each of them before it changes any state.            *)
(***************************************************************************)
EXTENDS Integers, Sequences, FiniteSets

CONSTANTS
  LEVEL_FACTOR,        \* sstables per level
  NUM_SSTABLE_LEVELS,
  ENTRIES,             \* keys of a segment
  MaxCompactions,      \* bound: memtables that fill up in a behaviour
  MaxUnfinished        \* bound: sstables that startup is not through with

ASSUME TreeAssumption ==
  /\ LEVEL_FACTOR \in Nat /\ LEVEL_FACTOR > 1
  /\ NUM_SSTABLE_LEVELS \in Nat /\ NUM_SSTABLE_LEVELS > 0
  /\ ENTRIES \in Nat \ {0}
  /\ MaxCompactions \in Nat /\ MaxUnfinished \in Nat

VARIABLES
  filters,        \* per sstable, the keys in its bloom filter
  is_flushed_to,
  waiting_on_io,
  req_batch_wq,   \* per sstable, the memtables whose compaction waits there
  segment,        \* content.req_seg.data of the compaction batch
  filled,         \* segments that insert_memtable has filled
  compactions,    \* number of memtables that have filled up
  main,           \* where the main thread is
  cursor,         \* sstable the worker looks at in this turn of its loop
  worker,         \* where the worker is in that turn
  writing,        \* per sstable, the segment of the write the kernel performs
  meant,          \* per sstable, the memtable that write was queued for
  file,           \* per sstable, what its file holds
  posted,         \* per sstable, its messages in the scheduler ring
  failed,         \* sstables whose write failed or fell short
  leftovers,      \* startup has left completions in the rings of the sstables
  initialization, \* per sstable, what startup has left to the kernel
  deleted,        \* the compaction batch has been deleted
  is_practically_full,
  fault           \* a step had undefined behaviour and ended the process

batchVars == <<segment, filled, compactions, deleted>>
tableVars == <<filters, is_flushed_to, waiting_on_io, req_batch_wq>>
ioVars == <<writing, meant, file, posted, failed>>
startVars == <<leftovers, initialization>>
vars == <<batchVars, tableVars, ioVars, main, cursor, worker, startVars,
          is_practically_full, fault>>

Last == NUM_SSTABLE_LEVELS - 1
Index == 0..(LEVEL_FACTOR - 1)
SSTable == (0..Last) \X Index
Memtable == 1..MaxCompactions
Entry == 0..(ENTRIES - 1)
None == 0
Empty == [memtable |-> 0, meant |-> 0]   \* a file without data
Old == [memtable |-> -1, meant |-> -1]   \* a file of an earlier run
Garbage == 0

TypeOK ==
  /\ filters \in [SSTable -> SUBSET Entry]
  /\ is_flushed_to \in SUBSET SSTable
  /\ waiting_on_io \in SUBSET SSTable
  /\ req_batch_wq \in [SSTable -> Seq(Memtable)]
  /\ segment \in Memtable \cup {None}
  /\ filled \in SUBSET Memtable
  /\ compactions \in 0..MaxCompactions
  /\ main \in {"serving", "filling", "inserting"}
  /\ cursor \in SSTable
  /\ worker \in {"peek", "poll"}
  /\ writing \in [SSTable -> Memtable \cup {None}]
  /\ meant \in [SSTable -> Memtable \cup {None}]
  /\ file \in [SSTable -> [memtable : -1..MaxCompactions, meant : -1..MaxCompactions]]
  /\ posted \in [SSTable -> Nat]
  /\ failed \in SUBSET SSTable
  /\ initialization \in [SSTable -> {"over", "chain", "ended"}]
  /\ leftovers \in BOOLEAN /\ deleted \in BOOLEAN
  /\ is_practically_full \in BOOLEAN /\ fault \in BOOLEAN

(***************************************************************************)
(* What startup hands over.  Whatever it knows of the files may be wrong:  *)
(* a table with data may not be marked, a table without data may be, and   *)
(* the filter of a marked table may be empty.  It leaves its completions   *)
(* in the rings; without leftovers is what the comment at lsm_tree.hpp:683 *)
(* expects.  A chain of its requests may still be under way ("chain") or   *)
(* its message unseen ("ended"): the file of such a table is not           *)
(* registered, or the table is marked, as sstable 0 is while it is read.   *)
(***************************************************************************)
Init ==
  /\ is_flushed_to \in SUBSET SSTable
  /\ filters \in {f \in [SSTable -> {{}, Entry}] : \A t \in SSTable : f[t] # {} => t \in is_flushed_to}
  /\ waiting_on_io = {}
  /\ req_batch_wq = [t \in SSTable |-> <<>>]
  /\ segment = None
  /\ filled = {}
  /\ compactions = 0
  /\ main = "serving"
  /\ cursor = <<0, 0>>
  /\ worker = "peek"
  /\ writing = [t \in SSTable |-> None]
  /\ meant = [t \in SSTable |-> None]
  /\ file \in [SSTable -> {Empty, Old}]
  /\ leftovers \in BOOLEAN
  /\ initialization \in [SSTable -> {"over", "chain", "ended"}]
  /\ leftovers \/ \A t \in SSTable : initialization[t] = "over"
  /\ Cardinality({t \in SSTable : initialization[t] # "over"}) <= MaxUnfinished
  /\ posted = [t \in SSTable |-> IF initialization[t] = "ended" THEN 1 ELSE 0]
  /\ failed = {}
  /\ deleted = FALSE
  /\ is_practically_full = FALSE
  /\ fault = FALSE

-----------------------------------------------------------------------------
(***************************************************************************)
(* LevelInfo::decompose for a compaction.  "while (i < LEVEL_FACTOR &&     *)
(* !filters[i++].empty());" leaves i one behind the first table with an    *)
(* empty filter; beyond the last table the batch goes to table 0.          *)
(***************************************************************************)
FirstEmpty(level) ==
  {j \in Index : filters[<<level, j>>] = {} /\ \A k \in 0..(j - 1) : filters[<<level, k>>] # {}}

Behind(level) == {j + 1 : j \in FirstEmpty(level)} \cap Index

Target(level) == <<level, IF Behind(level) = {} THEN 0 ELSE CHOOSE j \in Behind(level) : TRUE>>

\* The filter that the keys enter, and a variant that takes the one the loop has found empty.
FoundEmpty(level) == <<level, Target(level)[2] - 1>>
KeysGoTo(level) == Target(level)

\* The keys that enter it: key += j, where j grows from turn to turn, too.
InsertedKeys == {(n * (n + 1)) \div 2 : n \in Entry} \cap Entry

\* The filters after decompose: no key enters one when the batch overflows to table 0.
FiltersAfter(level) ==
  IF Behind(level) = {} THEN filters
  ELSE [filters EXCEPT ![KeysGoTo(level)] = @ \cup InsertedKeys]

(***************************************************************************)
(* Undefined behaviour on the way into a wait queue: a deleted batch is    *)
(* read, decompose reads keys far behind the segment, insert_into_wqs      *)
(* writes behind the array could_contend_with_consumer and, on level 1 and *)
(* below, behind page_cache_buffers if no new buffers are queued.  Apart   *)
(* from the first, each may end the process or go unnoticed.               *)
(***************************************************************************)
Outcome(ends) == fault' = (ends \/ deleted)

(***************************************************************************)
(* The main thread.                                                        *)
(***************************************************************************)

\* A memtable is full: insert_memtable replaces the segment of the batch ...
NewSegment ==
  /\ ~fault
  /\ main = "serving"
  /\ compactions < MaxCompactions
  /\ compactions' = compactions + 1
  /\ segment' = compactions + 1
  /\ main' = "filling"
  /\ fault' = deleted
  /\ UNCHANGED <<filled, deleted, tableVars, ioVars, cursor, worker, startVars,
                 is_practically_full>>

\* ... and fills it with the tree made of the memtable, which is then emptied.
FillSegment ==
  /\ ~fault
  /\ main = "filling"
  /\ filled' = filled \cup {segment}
  /\ main' = "inserting"
  /\ UNCHANGED <<segment, compactions, deleted, tableVars, ioVars, cursor, worker,
                 startVars, is_practically_full, fault>>

\* insert_into_wqs(0, level_infos, compaction_batch): a batch that is pushed while the
\* worker pops another one may get lost.
InsertAtLevel0(ends, kept) ==
  /\ ~fault
  /\ main = "inserting"
  /\ filters' = FiltersAfter(0)
  /\ req_batch_wq' = IF kept THEN [req_batch_wq EXCEPT ![Target(0)] = Append(@, compactions)]
                     ELSE req_batch_wq
  /\ main' = "serving"
  /\ Outcome(ends)
  /\ UNCHANGED <<batchVars, is_flushed_to, waiting_on_io, ioVars, cursor, worker,
                 startVars, is_practically_full>>

(***************************************************************************)
(* The worker: one turn of its loop looks for a message in the scheduler   *)
(* ring and then at the sstable it has come to.                            *)
(***************************************************************************)
NextTable == IF cursor[2] < LEVEL_FACTOR - 1 THEN <<cursor[1], cursor[2] + 1>>
             ELSE IF cursor[1] < Last THEN <<cursor[1] + 1, 0>> ELSE <<0, 0>>

NoMessage ==
  /\ ~fault
  /\ worker = "peek"
  /\ \A t \in SSTable : posted[t] = 0
  /\ worker' = "poll"
  /\ UNCHANGED <<batchVars, tableVars, ioVars, main, cursor, startVars,
                 is_practically_full, fault>>

\* The sstables flushed after a flush of t, and a variant that forgets it.
FlushForgotten(t) == is_flushed_to
FlushedWith(t) == is_flushed_to \cup {t}

\* Those waiting after it, and a variant that frees t for the next batch.
WaitingWithout(t) == waiting_on_io \ {t}
WaitingAfterFlush(t) == waiting_on_io

\* A message of sstable t.  An empty completion ring stands for a finished flush;
\* otherwise the worker goes on with a read that was never begun, on an empty stack.
Completion(t) ==
  /\ ~fault
  /\ worker = "peek"
  /\ posted[t] > 0
  /\ posted' = [posted EXCEPT ![t] = @ - 1]
  /\ worker' = "poll"
  /\ is_flushed_to' = IF leftovers THEN is_flushed_to ELSE FlushedWith(t)
  /\ waiting_on_io' = WaitingAfterFlush(t)
  /\ is_practically_full' = IF leftovers THEN is_practically_full ELSE t[1] = Last
  /\ fault' = leftovers
  /\ UNCHANGED <<batchVars, filters, req_batch_wq, writing, meant, file, failed, main,
                 cursor, startVars>>

\* The end of a turn.
Turn(t) ==
  /\ ~fault
  /\ worker = "poll"
  /\ t = cursor
  /\ worker' = "peek"
  /\ cursor' = NextTable
  /\ UNCHANGED <<main, startVars, is_practically_full>>

\* The sstable waits for an I/O operation or has nothing in its wait queue.
NothingToDo(t) ==
  /\ Turn(t)
  /\ t \in waiting_on_io \/ req_batch_wq[t] = <<>>
  /\ UNCHANGED <<batchVars, tableVars, ioVars, fault>>

\* pop_front returns a batch; its request type is read at once.
Takes(t) ==
  /\ Turn(t)
  /\ t \notin waiting_on_io
  /\ req_batch_wq[t] # <<>>

\* The sstable is taken, the batch goes to the next level.
MoveDown(t, ends) ==
  /\ Takes(t)
  /\ t \in is_flushed_to
  /\ t[1] < Last
  /\ filters' = FiltersAfter(t[1] + 1)
  /\ req_batch_wq' = LET popped == [req_batch_wq EXCEPT ![t] = Tail(@)]
                     IN  [popped EXCEPT ![Target(t[1] + 1)] = Append(@, Head(req_batch_wq[t]))]
  /\ Outcome(ends)
  /\ UNCHANGED <<batchVars, is_flushed_to, waiting_on_io, ioVars>>

\* The sstables waiting after a flush is submitted, and a variant that does not mark t.
WaitingUnmarked(t) == waiting_on_io
WaitingWith(t) == waiting_on_io \cup {t}

\* The sstable is free: a write linked to a message to the scheduler ring.
SubmitFlush(t) ==
  /\ Takes(t)
  /\ t \notin is_flushed_to
  /\ writing' = [writing EXCEPT ![t] = segment]
  /\ meant' = [meant EXCEPT ![t] = Head(req_batch_wq[t])]
  /\ waiting_on_io' = WaitingWith(t)
  /\ req_batch_wq' = [req_batch_wq EXCEPT ![t] = Tail(@)]
  /\ fault' = deleted
  /\ UNCHANGED <<batchVars, filters, is_flushed_to, file, posted, failed>>

\* There is no next level: the batch is deleted and its segment with it.
DeleteBatch(t) ==
  /\ Takes(t)
  /\ t \in is_flushed_to
  /\ t[1] = Last
  /\ deleted' = TRUE
  /\ filled' = filled \ {segment}
  /\ req_batch_wq' = [req_batch_wq EXCEPT ![t] = Tail(@)]
  /\ fault' = deleted
  /\ UNCHANGED <<segment, compactions, filters, is_flushed_to, waiting_on_io, ioVars>>

(***************************************************************************)
(* The kernel performs the write, with what the memory of the segment      *)
(* holds by then, and posts the linked message.  A write that fails (the   *)
(* files are opened for reading only, lsm_tree.hpp:619) or falls short     *)
(* breaks the chain, and the message is not posted.  No write succeeds to  *)
(* a file that startup has not registered.                                 *)
(***************************************************************************)
KernelWrite(t) ==
  /\ ~fault
  /\ writing[t] # None
  /\ initialization[t] = "over"
  /\ file' = [file EXCEPT ![t] =
                [memtable |-> IF writing[t] \in filled THEN writing[t] ELSE Garbage,
                 meant |-> meant[t]]]
  /\ writing' = [writing EXCEPT ![t] = None]
  /\ posted' = [posted EXCEPT ![t] = @ + 1]
  /\ UNCHANGED <<batchVars, tableVars, meant, failed, main, cursor, worker, startVars,
                 is_practically_full, fault>>

KernelWriteFails(t, part) ==
  /\ ~fault
  /\ writing[t] # None
  /\ file' = IF part THEN [file EXCEPT ![t] = [memtable |-> Garbage, meant |-> meant[t]]] ELSE file
  /\ writing' = [writing EXCEPT ![t] = None]
  /\ failed' = failed \cup {t}
  /\ UNCHANGED <<batchVars, tableVars, meant, posted, main, cursor, worker, startVars,
                 is_practically_full, fault>>

\* A chain that startup has left ends, with its message or without.
InitializationEnds(t, posts) ==
  /\ ~fault
  /\ initialization[t] = "chain"
  /\ initialization' = [initialization EXCEPT ![t] = "ended"]
  /\ posted' = IF posts THEN [posted EXCEPT ![t] = @ + 1] ELSE posted
  /\ UNCHANGED <<batchVars, tableVars, writing, meant, file, failed, main, cursor, worker,
                 leftovers, is_practically_full, fault>>

Kernel(t) ==
  \/ KernelWrite(t)
  \/ \E part \in BOOLEAN : KernelWriteFails(t, part)
  \/ \E posts \in BOOLEAN : InitializationEnds(t, posts)

Main == NewSegment \/ FillSegment \/ (\E ends, kept \in BOOLEAN : InsertAtLevel0(ends, kept))

Worker ==
  \/ NoMessage
  \/ \E t \in SSTable : Completion(t)
  \/ \E t \in SSTable : NothingToDo(t)
  \/ \E t \in SSTable, ends \in BOOLEAN : MoveDown(t, ends)
  \/ \E t \in SSTable : SubmitFlush(t)
  \/ \E t \in SSTable : DeleteBatch(t)

Next == Main \/ Worker \/ (\E t \in SSTable : Kernel(t))

Spec == Init /\ [][Next]_vars

(***************************************************************************)
(* The worker loops for ever, the kernel ends every chain, and the main    *)
(* thread finishes a compaction it has begun.                              *)
(***************************************************************************)
Fairness ==
  /\ WF_vars(Worker)
  /\ \A t \in SSTable : WF_vars(Kernel(t))
  /\ WF_vars(Main /\ main # "serving")

FairSpec == Spec /\ Fairness

-----------------------------------------------------------------------------
(***************************************************************************)
(* Properties.                                                             *)
(***************************************************************************)

\* "The SSTable is flushed to at most once and is never written to again"
\* (README.md:11), within a run of the program: no step changes a file that this run has
\* written, or that is marked as flushed, whatever waits in the queue of its sstable.
SSTableImmutable ==
  [][\A t \in SSTable : t \in is_flushed_to \/ file[t] \notin {Empty, Old} => file'[t] = file[t]]_vars

\* An sstable has at most one message in the scheduler ring, with what startup may have
\* left, so that the ring with an entry per sstable (lsm_tree.hpp:470-473) does not
\* overflow.
SchedulerRingSuffices == \A t \in SSTable : posted[t] <= 1

\* No data of this run is behind an empty filter: the filter of an sstable holds a key
\* before its write is even submitted, because no table gets data by the overflow path of
\* decompose, which inserts none (level_info.hpp:107-129).  A table with data and an empty
\* filter would be passed over by reads and taken for a free one.
NoDataBehindEmptyFilter ==
  \A t \in SSTable : writing[t] # None \/ file[t] \notin {Empty, Old} => filters[t] # {}

\* At most one sstable of the whole tree is ever written: the table behind the first
\* empty filter is the target of its level for good, and once it is written it waits
\* for ever, so that nothing that is queued there later reaches another table.
OnlyOneTableWritten ==
  \A t, u \in SSTable : {file[t], file[u]} \cap {Empty, Old} = {} => t = u

\* A write that was submitted is recorded in is_flushed_to, so that reads find the
\* sstable, unless it fails or the process ends.
FlushRecorded == \A t \in SSTable : writing[t] # None ~> t \in is_flushed_to \cup failed \/ fault

\* A failed flush is never made up for: once a write has failed, no file changes and no
\* write is under way again, whatever fills up later (lsm_tree.hpp:803 marks the sstable
\* as waiting, and nothing takes the mark away).
NoFlushAfterFailure ==
  [][failed # {} => file' = file /\ \A t \in SSTable : writing'[t] = None]_vars

\* "The SSTable is flushed to at most once and is never written to again"
\* (README.md:11): the data of an earlier run stay where they are.
OldFilesKept == [][\A t \in SSTable : file[t] = Old => file'[t] = Old]_vars

\* "the decomposition method should insert all the keys of an sstable's request batch's
\* nonempty request segment into the sstable's bloom filter" (LevelInfoDecompose,
\* level_info.hpp:34), and "False negatives never occur" (README.md:13): the filter of an
\* sstable that this run has written knows all keys of its file.
FilterKnowsFile == \A t \in SSTable : file[t] \notin {Empty, Old} => filters[t] = Entry

\* A batch moves on only "if there are no empty SSTables on the current level to
\* flush the memtable to" (README.md:11).
MovesDownOnlyIfFull ==
  [][\A t \in SSTable : (\E ends \in BOOLEAN : MoveDown(t, ends)) =>
        \A j \in Index : <<t[1], j>> \in is_flushed_to]_vars

\* "the database is practically full if at least one sstable at the last level is
\* nonempty (is flushed to)" (lsm_tree.hpp:1532), also right after startup.
PracticallyFullKnown == (\E j \in Index : <<Last, j>> \in is_flushed_to) => is_practically_full

\* A memtable's "contents are moved [...] to a file" (README.md:11): the file
\* written for a compaction holds the memtable the compaction was queued for, unless the
\* write fails.
FileHoldsItsMemtable ==
  \A t \in SSTable \ failed : file[t] \notin {Empty, Old} => file[t].memtable = file[t].meant

\* A memtable that waits at an sstable moves on "and so on and so forth until it
\* finds" an empty one (README.md:11): it does not wait there for ever, unless a write fails.
EveryMemtableTaken ==
  \A t \in SSTable, m \in Memtable :
    (req_batch_wq[t] # <<>> /\ Head(req_batch_wq[t]) = m) ~>
      (fault \/ failed # {} \/ req_batch_wq[t] = <<>> \/ Head(req_batch_wq[t]) # m)
==============================================================================
