------------------------------ MODULE FifoQueue ------------------------------
(***************************************************************************)
(* What a request batch wait queue promises to the sstable it belongs to.  *)
(* Batches are numbered in the order in which they are handed to the       *)
(* queue; a poll hands out the oldest batch that is still waiting, and it  *)
(* comes back empty-handed only when nothing waits.                        *)
(***************************************************************************)
EXTENDS Naturals

VARIABLES
  enqueued,   \* number of batches handed to the queue so far
  dequeued,   \* number of batches handed out so far
  result      \* what the last poll returned; 0 stands for nullptr

fifoVars == <<enqueued, dequeued, result>>

FifoInit ==
  /\ enqueued = 0
  /\ dequeued = 0
  /\ result = 0

Enqueue ==
  /\ enqueued' = enqueued + 1
  /\ UNCHANGED <<dequeued, result>>

Dequeue ==
  /\ dequeued < enqueued
  /\ dequeued' = dequeued + 1
  /\ result' = dequeued + 1
  /\ UNCHANGED enqueued

PollEmpty ==
  /\ dequeued = enqueued
  /\ result' = 0
  /\ UNCHANGED <<enqueued, dequeued>>

FifoNext == Enqueue \/ Dequeue \/ PollEmpty

FifoSpec == FifoInit /\ [][FifoNext]_fifoVars
==============================================================================
