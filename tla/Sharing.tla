------------------------------- MODULE Sharing -------------------------------
(***************************************************************************)
(* Which wait queues and buffer queues LSMTree::initialize flags as used   *)
(* by a single thread, and which threads really use them.  The             *)
(* configuration is part of the initial state: initialize is explored for  *)
(* every choice of the compile-time constants within the bounds.  After    *)
(* it, the workers use one of the buffer queues, with its guard (module    *)
(* AtomicGuard) unless it is flagged.                                      *)
(*                                                                         *)
(* LevelInfo::set_is_single_thread assigns its parameter to itself and     *)
(* passes it on to the buffer queues: the flag of the level's own guard    *)
(* stays uninitialised, and is not part of the state here.                 *)
(***************************************************************************)
EXTENDS AtomicGuard, Integers, FiniteSets

CONSTANTS
  LevelFactors,      \* choices of LEVEL_FACTOR
  TableCounts,       \* choices of NUM_SSTABLES
  WorkerCounts       \* choices of NUM_SSTABLE_WORKER_THREADS

ASSUME ConfigurationAssumption ==
  /\ LevelFactors \subseteq Nat \ {0, 1}
  /\ TableCounts \subseteq Nat \ {0}
  /\ WorkerCounts \subseteq Nat \ {0}

VARIABLES
  config,      \* the compile-time constants
  level,       \* the loop variable of initialize
  wq_single,   \* the sstables whose req_batch_wq is flagged single-threaded
  bq_single,   \* the levels whose buffer queues are flagged single-threaded
  phase,
  queue,       \* the level and the index of the buffer queue in use
  given        \* workers that have given it a buffer from the level above

flags == <<wq_single, bq_single>>
sharingVars == <<lockVars, config, level, flags, phase, queue, given>>

LEVEL_FACTOR == config.factor
NUM_SSTABLES == config.tables
WORKER_SSTABLE_BATCH_SIZE == config.tables \div config.workers
NUM_SSTABLE_LEVELS == NUM_SSTABLES \div LEVEL_FACTOR
Last == NUM_SSTABLE_LEVELS - 1
Level == 0..Last
Index == 0..(LEVEL_FACTOR - 1)

\* The sstables make up whole levels ("level factor should divide the total sstable
\* storage space").
SharingInit ==
  /\ GuardInit /\ atomic_guard = 1
  /\ config \in [factor : LevelFactors, tables : TableCounts, workers : WorkerCounts]
  /\ NUM_SSTABLES % LEVEL_FACTOR = 0
  /\ level = 0
  /\ wq_single = {}
  /\ bq_single = {}
  /\ phase = "first"
  /\ queue = <<0, 0>> /\ given = {}

\* Level 0 is flagged single-threaded throughout.
FirstLevel ==
  /\ phase = "first"
  /\ bq_single' = bq_single \cup {0}
  /\ wq_single' = wq_single \cup ({0} \X Index)
  /\ level' = 1
  /\ phase' = "loop"
  /\ UNCHANGED <<lockVars, config, queue, given>>

\* location = level % (WORKER_SSTABLE_BATCH_SIZE / LEVEL_FACTOR)
Location == level % (WORKER_SSTABLE_BATCH_SIZE \div LEVEL_FACTOR)

\* Variants of the two tests with a comparison that is off by one.
NotBeginningOffByOne == Location >= 0

NotEndOffByOne == Location < LEVEL_FACTOR

NotBeginning == Location > 0

NotEnd == Location < LEVEL_FACTOR - 1

\* One turn of the loop over the levels between the first and the last.  The remainder
\* is undefined if a worker has less than a level.
InnerLevel ==
  /\ phase = "loop"
  /\ level < Last
  /\ WORKER_SSTABLE_BATCH_SIZE \div LEVEL_FACTOR > 0
  /\ bq_single' = IF NotBeginning /\ NotEnd THEN bq_single \cup {level} ELSE bq_single
  /\ wq_single' = wq_single
                    \cup {<<level, j>> : j \in IF NotBeginning THEN 0..(LEVEL_FACTOR - 2) ELSE {}}
                    \cup {<<level, j>> : j \in IF NotEnd THEN {LEVEL_FACTOR - 1} ELSE {}}
  /\ level' = level + 1
  /\ UNCHANGED <<lockVars, config, phase, queue, given>>

DivideByZero ==
  /\ phase = "loop"
  /\ level < Last
  /\ WORKER_SSTABLE_BATCH_SIZE \div LEVEL_FACTOR = 0
  /\ phase' = "fault"
  /\ UNCHANGED <<lockVars, config, level, flags, queue, given>>

\* The last level is flagged single-threaded throughout; initialize goes on with the
\* threads, and nothing changes the flags again.
LastLevel ==
  /\ phase = "loop"
  /\ level >= Last
  /\ bq_single' = bq_single \cup {Last}
  /\ wq_single' = wq_single \cup ({Last} \X Index)
  /\ phase' = "done"
  /\ queue' \in Level \X Index
  /\ UNCHANGED <<lockVars, config, level, given>>

-----------------------------------------------------------------------------
(***************************************************************************)
(* The threads that use a queue.  A worker polls the sstables of its       *)
(* batch, pushes to any sstable one level below, gives buffers to the      *)
(* sstables one level below and to the same index one level above.         *)
(***************************************************************************)
Owner(l, j) == (l * LEVEL_FACTOR + j) \div WORKER_SSTABLE_BATCH_SIZE

OwnersOfLevel(l) == IF l \in Level THEN {Owner(l, j) : j \in Index} ELSE {}

main == -1

WqUsers(l, j) == {Owner(l, j)} \cup (IF l = 0 THEN {main} ELSE OwnersOfLevel(l - 1))

BqUsers(l, j) == {Owner(l, j)} \cup OwnersOfLevel(l - 1)
                   \cup (IF l < Last THEN {Owner(l + 1, j)} ELSE {})

\* The worker of the sstable takes the guard of its queue by a loop before a compaction
\* and tries it before a read and when it is idle; a worker below spins on it; the
\* workers above try it until they succeed.
Blocks(t) == t \in {Owner(queue[1], queue[2])}
                   \cup (IF queue[1] < Last THEN {Owner(queue[1] + 1, queue[2])} ELSE {})

Above == OwnersOfLevel(queue[1] - 1)

Tries(t) == t \in {Owner(queue[1], queue[2])} \cup Above

Flagged == queue[1] \in bq_single

\* The worker threads run; every sstable has one.
Running == phase = "done" /\ NUM_SSTABLES % config.workers = 0

\* A step on the guard.
GuardStep ==
  /\ ~Flagged
  /\ UNCHANGED <<config, level, flags, phase, queue, given>>

BeginBlocking(t) == Running /\ Blocks(t) /\ GuardStep /\ StartSpin(t)
BeginTry(t) == Running /\ Tries(t) /\ GuardStep /\ StartTry(t)
Block(t, succeeds) == GuardStep /\ Spin(t, succeeds)
TryOnce(t, succeeds) == GuardStep /\ Try(t, succeeds)
GoOn(t) == Running /\ t = Owner(queue[1], queue[2]) /\ GuardStep /\ GiveUp(t)
Leave(t) == GuardStep /\ Release(t)

\* is_single_thread || compare_exchange_weak, and a variant without the exchange.
AccessUntried(t) == TRUE
Access(t) == Flagged \/ at[t] = "entered"

\* A worker gives a buffer to an sstable of the level below.
Give(t) ==
  /\ Running
  /\ t \in Above
  /\ Access(t)
  /\ given' = given \cup {t}
  /\ UNCHANGED <<lockVars, config, level, flags, phase, queue>>

SharingNext ==
  \/ FirstLevel \/ InnerLevel \/ DivideByZero \/ LastLevel
  \/ \E t \in GuardThreads : BeginBlocking(t) \/ BeginTry(t) \/ GoOn(t) \/ Leave(t) \/ Give(t)
  \/ \E t \in GuardThreads, succeeds \in BOOLEAN : Block(t, succeeds) \/ TryOnce(t, succeeds)

SharingSpec == SharingInit /\ [][SharingNext]_sharingVars

\* As in AtomicGuard.
SharingFairSpec ==
  /\ SharingSpec
  /\ \A t \in GuardThreads :
       /\ WF_sharingVars(Block(t, FALSE)) /\ WF_sharingVars(Block(t, TRUE))
       /\ WF_sharingVars(Leave(t))

-----------------------------------------------------------------------------
(***************************************************************************)
(* Properties.                                                             *)
(***************************************************************************)

\* Every sstable has a worker, and every worker has whole levels.
WholeLevels ==
  /\ NUM_SSTABLES % config.workers = 0
  /\ WORKER_SSTABLE_BATCH_SIZE % LEVEL_FACTOR = 0

\* On the levels between the first and the last, a wait queue is flagged exactly if
\* one thread uses it, for all sstables of the level but its last one, if every
\* worker has whole levels (lsm_tree.hpp:161-164).
WqFlagsExact ==
  phase = "done" /\ WholeLevels =>
    \A l \in 1..(Last - 1), j \in 0..(LEVEL_FACTOR - 2) :
      <<l, j>> \in wq_single <=> Cardinality(WqUsers(l, j)) = 1

\* Buffer queues of these levels are flagged exactly if one thread uses them,
\* provided that a worker has as many levels as a level has sstables: the test for the
\* end of a worker's batch takes one number for the other (lsm_tree.hpp:154).
BqFlagsExact ==
  phase = "done" /\ WholeLevels /\ WORKER_SSTABLE_BATCH_SIZE = LEVEL_FACTOR * LEVEL_FACTOR =>
    \A l \in 1..(Last - 1) :
      l \in bq_single <=> \A j \in Index : Cardinality(BqUsers(l, j)) = 1

\* If every worker has whole levels, buffers never go down from one worker to another
\* between the first and the last level: a queue on the boundary between two workers is
\* not flagged, and the trylock on its guard fails (lsm_tree.hpp:1184-1187).
GiftsStayWithWorker ==
  phase = "done" /\ WholeLevels /\ queue[1] \in 1..(Last - 1) =>
    given \subseteq {Owner(queue[1], queue[2])}

\* "level info as well as buffer queue are accessed by at most one thread ever if and
\* only if the level does not lie on the boundary" (lsm_tree.hpp:138): a buffer queue
\* that is used without a guard has one user.
BqUnguardedNotShared ==
  phase = "done" /\ WholeLevels =>
    \A l \in bq_single, j \in Index : Cardinality(BqUsers(l, j)) = 1

\* "only SSTables that live on the boundary between worker threads need store
\* operations to access their request batch wait queues safely" (README.md:41): a wait
\* queue between the first and the last level that is used without a guard has one
\* user.
WqUnguardedNotShared ==
  phase = "done" /\ WholeLevels =>
    \A t \in wq_single :
      t[1] \in 1..(Last - 1) => Cardinality(WqUsers(t[1], t[2])) = 1

\* The flags are computed without an undefined operation.  "number of sstable worker
\* threads [...] should be at least 200" (CMakeLists.txt:54), and the build's own
\* values are 500 sstables, 200 workers and a level factor of 10.
FlagsComputed == phase # "fault"
==============================================================================
