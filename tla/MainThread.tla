----------------------------- MODULE MainThread -----------------------------
(***************************************************************************)
(* LSMTree::start_ringdb: the main thread takes the batches of client      *)
(* requests that the network thread posts to its ring, looks every key up  *)
(* in the sparse index of the memtables, serves what it can, collects the  *)
(* other reads in read_batch for the sstables, and posts the batch back.   *)
(*                                                                         *)
(* A key is the number that memcmp compares; NullKey is the key of zero    *)
(* bytes.  The j-th request of the b-th batch is called <<b, j>>.  Only    *)
(* the socket of an entry changes (remove_via_index), so that a batch is   *)
(* its requests as posted and removed is the set of entries without a      *)
(* socket.  read_batch is a set: module ReadWritePool looks inside.        *)
(*                                                                         *)
(* What happens to a request for which the index names a memtable is left  *)
(* out: there is none (theorem NoMemtableFound of MainThreadProofs).       *)
(*                                                                         *)
(* fault is set by a step with undefined behaviour that ends the process.  *)
(***************************************************************************)
EXTENDS Integers, Sequences, FiniteSets

CONSTANTS
  MaxKey,              \* keys are 0 .. MaxKey
  Slots,               \* ranges that get_table_num looks at
  BATCH_NUM_REQUESTS,
  MaxBatches           \* bound: batches posted in a behaviour

ASSUME MainAssumption ==
  /\ MaxKey \in Nat
  /\ Slots \in Nat
  /\ BATCH_NUM_REQUESTS \in Nat /\ BATCH_NUM_REQUESTS > 0
  /\ MaxBatches \in Nat

VARIABLES
  index,       \* memtable_sparse_index.index
  batches,     \* the batches posted so far, oldest first
  taken,       \* how many of them the main thread has taken from its ring
  pc,          \* where it is: "wait" or "serve"
  i,           \* index of the request it looks at, from 1
  read_batch,  \* requests inserted into read_batch
  removed,     \* requests whose entry has lost its socket
  cleared,     \* requests whose socket buffer was filled with zeros
  replied,     \* number of batches posted back
  fault

vars == <<index, batches, taken, pc, i, read_batch, removed, cleared, replied, fault>>

NullKey == 0
Keys == NullKey .. MaxKey
Slot == 1 .. Slots
Request == [key : Keys, req_type : {"READ", "WRITE"}]
Batch == [1 .. BATCH_NUM_REQUESTS -> Request]
RequestId == (1 .. MaxBatches) \X (1 .. BATCH_NUM_REQUESTS)

TypeOK ==
  /\ index \in [Slot -> [min : Keys, max : Keys]]
  /\ batches \in Seq(Batch) /\ Len(batches) <= MaxBatches
  /\ taken \in 0 .. MaxBatches
  /\ pc \in {"wait", "serve"}
  /\ i \in 1 .. (BATCH_NUM_REQUESTS + 1)
  /\ read_batch \in SUBSET RequestId
  /\ removed \in SUBSET RequestId
  /\ cleared \in SUBSET RequestId
  /\ replied \in 0 .. MaxBatches
  /\ fault \in BOOLEAN

Init ==
  /\ index = [s \in Slot |-> [min |-> NullKey, max |-> NullKey]]
  /\ batches = <<>>
  /\ taken = 0
  /\ pc = "wait"
  /\ i = 1
  /\ read_batch = {} /\ removed = {} /\ cleared = {}
  /\ replied = 0
  /\ fault = FALSE

-----------------------------------------------------------------------------
(***************************************************************************)
(* SparseIndex::get_table_num.  The scan stops at a free range, which it   *)
(* claims by storing the key as its minimum, or at a range that holds the  *)
(* key.  Only the second kind of stop yields a table number.               *)
(***************************************************************************)
Free(s) == index[s].min = NullKey

Holds(s, k) ==
  /\ ~Free(s)
  /\ index[s].min <= k
  /\ index[s].max >= k

StopsAt(s, k) ==
  /\ Free(s) \/ Holds(s, k)
  /\ \A r \in 1 .. (s - 1) : ~Free(r) /\ ~Holds(r, k)

TableFound(k) == \E s \in Slot : StopsAt(s, k) /\ Holds(s, k)

\* The range after the scan.  A range that holds the key gets it as its maximum
\* if it has none.
RangeAfter(s, k) ==
  IF StopsAt(s, k) /\ Free(s) THEN [index[s] EXCEPT !.min = k]
  ELSE IF StopsAt(s, k) /\ index[s].max = NullKey THEN [index[s] EXCEPT !.max = k]
  ELSE index[s]

get_table_num(k) == index' = [s \in Slot |-> RangeAfter(s, k)]

-----------------------------------------------------------------------------
\* The network thread posts a batch once it is full; its pool is sorted by key.
NetworkPosts(batch) ==
  /\ ~fault
  /\ Len(batches) < MaxBatches
  /\ \A j \in 2 .. BATCH_NUM_REQUESTS : batch[j - 1].key <= batch[j].key
  /\ batches' = Append(batches, batch)
  /\ UNCHANGED <<index, taken, pc, i, read_batch, removed, cleared, replied, fault>>

\* A variant that leaves the newest batch in the ring.
PostedBefore == taken + 1 < Len(batches)

Posted == taken < Len(batches)

TakeBatch ==
  /\ ~fault
  /\ pc = "wait"
  /\ Posted
  /\ taken' = taken + 1
  /\ pc' = "serve"
  /\ i' = 1
  /\ UNCHANGED <<index, batches, read_batch, removed, cleared, replied, fault>>

conn_req == batches[taken][i]
Id == <<taken, i>>

\* The loop body up to the test of the key: the sparse index comes first.
Looks ==
  /\ ~fault
  /\ pc = "serve"
  /\ i <= BATCH_NUM_REQUESTS
  /\ get_table_num(conn_req.key)
  /\ UNCHANGED <<batches, taken, replied>>

ServeNullKey ==
  /\ Looks
  /\ conn_req.key = NullKey
  /\ cleared' = cleared \cup {Id}
  /\ i' = i + 1
  /\ UNCHANGED <<pc, read_batch, removed, fault>>

\* LevelInfo::decompose, reached through insert_into_wqs(0, ...), writes through a null
\* pointer for the first request of a read batch that still has its socket: it tests
\* for a batch where it should test for none, and marks decomposition[i] where it has
\* made decomposition[LEVEL_FACTOR].
DecomposeFaults(requests) == requests # {}

\* A variant that sends a batch that is more than full.
SendIfOverfull ==
  fault' = (Cardinality(read_batch') > BATCH_NUM_REQUESTS /\ DecomposeFaults(read_batch'))

SendIfFull ==
  fault' = (Cardinality(read_batch') = BATCH_NUM_REQUESTS /\ DecomposeFaults(read_batch'))

\* A variant that leaves the socket of the entry alone.
RemoveForgotten == removed' = removed

RemoveViaIndex == removed' = removed \cup {Id}

\* A read without a memtable joins read_batch, which is sent on when it is full.
ForwardRead ==
  /\ Looks
  /\ conn_req.key # NullKey
  /\ conn_req.req_type = "READ"
  /\ ~TableFound(conn_req.key)
  /\ read_batch' = read_batch \cup {Id}
  /\ SendIfFull
  /\ RemoveViaIndex
  /\ i' = i + 1
  /\ UNCHANGED <<pc, cleared>>

\* A write without a memtable: memtables[table_num] with the table number 2^32 - 1 lies
\* far outside the address space of the process.
WriteNowhere ==
  /\ Looks
  /\ conn_req.key # NullKey
  /\ conn_req.req_type = "WRITE"
  /\ ~TableFound(conn_req.key)
  /\ fault' = TRUE
  /\ UNCHANGED <<pc, i, read_batch, removed, cleared>>

\* All requests of the batch are done: it is posted to the ring of the network thread.
Reply ==
  /\ ~fault
  /\ pc = "serve"
  /\ i > BATCH_NUM_REQUESTS
  /\ replied' = replied + 1
  /\ pc' = "wait"
  /\ UNCHANGED <<index, batches, taken, i, read_batch, removed, cleared, fault>>

Main == TakeBatch \/ ServeNullKey \/ ForwardRead \/ WriteNowhere \/ Reply

Next == Main \/ \E batch \in Batch : NetworkPosts(batch)

Spec == Init /\ [][Next]_vars

\* The main thread loops for ever; nothing it waits for depends on the workers.
FairSpec == Spec /\ WF_vars(Main)

-----------------------------------------------------------------------------
(***************************************************************************)
(* Properties.                                                             *)
(***************************************************************************)

\* A batch that is posted back accounts for each of its requests exactly once: either
\* the entry keeps its socket and its buffer holds an answer, or it has lost its socket
\* and the request waits in read_batch.  Otherwise a client would get two answers on
\* one socket, or none although nothing waits for it any more.
RepliesAccountForAll ==
  \A b \in 1 .. replied, j \in 1 .. BATCH_NUM_REQUESTS :
    /\ <<b, j>> \in removed <=> <<b, j>> \in read_batch
    /\ <<b, j>> \in read_batch \cup cleared

\* The pool of read_batch has room for BATCH_NUM_REQUESTS requests.  It is never filled beyond
\* that, whatever reads, null keys and batches come in between, although read_batch outlives
\* the batches it collects from and the test for a full one is an equality
\* (lsm_tree.hpp:945-954).
ReadBatchBounded == Cardinality(read_batch) <= BATCH_NUM_REQUESTS

\* Every batch that is posted is posted back, in order, or the process ends.
EveryBatchReplied ==
  \A b \in 1 .. MaxBatches : Len(batches) >= b ~> (replied >= b \/ fault)

\* "unsatisfied requests are marked as unsatisfied and sent to the network thread for
\* termination" (README.md:43): every request reaches the network thread with its socket
\* in the end.  A read for which read_batch has no company waits for ever.
EveryRequestAnswered ==
  \A r \in RequestId :
    Len(batches) >= r[1] ~> (fault \/ (replied >= r[1] /\ r \notin removed))

\* "Level 0 is locked in memory and consists of [...] memtables" (README.md:11), and a test
\* writes a key and reads it back (test_ringdb.hpp:28-48): every write finds its memtable.
EveryWriteHasMemtable == [][~WriteNowhere]_vars
=============================================================================
