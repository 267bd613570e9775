------------------------------ MODULE TreeRead -------------------------------
(***************************************************************************)
(* How a worker serves the read batches of one sstable: it takes a batch   *)
(* from the wait queue, walks the batch's requests with the stack, reads   *)
(* the file through the sstable's ring when an offset is not in a buffer,  *)
(* goes on when the completion's message arrives, and answers or passes    *)
(* the batch on.  Of the compactions (module Compaction) those that the    *)
(* sstable takes are here: a flush uses the same ring, and one that goes   *)
(* to the next level takes buffers along (module BufferQueue).             *)
(*                                                                         *)
(* The b-th read batch to come is b.  The wait queue (module WaitQueue) is *)
(* left out: whenever the worker looks, it may hold a batch or none.       *)
(*                                                                         *)
(* No buffer is mapped to an offset: map_buffer_to_offset_boundary writes  *)
(* through two uninitialised pointers in a loop up to 2^32 - 1.  Hence     *)
(* every offset misses the page cache, the buffers are free, more than two *)
(* of them, so that nothing is prefetched, and the read goes to buffer 0   *)
(* and offset 0, the only one that stack rows hold;                        *)
(* round_to_block_size_multiple(0) = 0.                                    *)
(*                                                                         *)
(* The read or the write is linked to the message for the scheduler.       *)
(* io_uring breaks a chain at an operation that fails and at a read that   *)
(* does not fill its buffer, and the message is not sent.  In the default  *)
(* build the buffers have size 0 (zero_length), and a read that finds no   *)
(* bytes fills one.                                                        *)
(*                                                                         *)
(* What the worker does with a row of the stack that was never written and *)
(* is not zero is not defined.                                             *)
(***************************************************************************)
EXTENDS BufferQueue, Stack

CONSTANTS
  BatchLength,           \* requests in a read batch
  SqEntries,             \* entries of the sstable's submission queue
  MaxBatches             \* bound: read batches that arrive

ASSUME ReadAssumption ==
  /\ BatchLength \in Nat \ {0}
  /\ SqEntries \in Nat /\ SqEntries > 1
  /\ MaxBatches \in Nat

VARIABLES
  is_flushed_to, leftovers,   \* leftovers: start-up's completions are still in the ring
  zero_length,
  taken,                 \* read batches taken from the wait queue
  stack, desired_sstable_offset, cur_min_invalid_offset, waiting_on_io,
  sq,                    \* prepared and unsubmitted answers
  replied,               \* batches sent to the network thread
  reading, writing,      \* chains the kernel works on
  messages,              \* their messages in the scheduler's ring
  res,                   \* the last result; "silent" for a write, which posts none
  broken,                \* a chain was broken and sends no message
  pc                     \* "turn", or "tree" in the loop of the traversal

kernelVars == <<zero_length, leftovers>>
walk == <<stack, desired_sstable_offset>>
answers == <<sq, replied>>
chains == <<reading, writing>>
posted == <<messages, res, broken>>
serveVars == <<is_flushed_to, cur_min_invalid_offset, waiting_on_io, pc>>
readVars == <<kernelVars, taken, walk, answers, chains, posted, serveVars>>
vars == <<bufferVars, readVars>>

Batch == 1..MaxBatches
NoOffset == 1            \* the largest size_t: no offset is invalid yet
Result == {"error", "none", "part", "whole", "silent"}

TypeOK ==
  /\ BuffersTypeOK
  /\ is_flushed_to \in BOOLEAN /\ leftovers \in BOOLEAN /\ zero_length \in BOOLEAN
  /\ taken \in 0..MaxBatches
  /\ stack \in [back : Nat, data : [0..(max_sstable_height - 1) -> Row \cup {Unknown}]]
  /\ desired_sstable_offset \in Nat /\ cur_min_invalid_offset \in {0, NoOffset}
  /\ waiting_on_io \in BOOLEAN /\ broken \in BOOLEAN
  /\ sq \in Seq(Batch) /\ replied \in Seq(Batch)
  /\ reading \in Nat /\ writing \in Nat /\ messages \in Nat /\ res \in Result
  /\ pc \in {"turn", "tree"}

Init ==
  /\ BuffersInit
  /\ is_flushed_to \in BOOLEAN /\ leftovers \in BOOLEAN /\ zero_length \in BOOLEAN
  /\ taken = 0
  /\ stack \in NewStacks(max_sstable_height)
  /\ desired_sstable_offset = 0 /\ cur_min_invalid_offset = NoOffset
  /\ waiting_on_io = FALSE /\ broken = FALSE
  /\ sq = <<>> /\ replied = <<>>
  /\ reading = 0 /\ writing = 0 /\ messages = 0 /\ res = "none"
  /\ pc = "turn"

-----------------------------------------------------------------------------
(***************************************************************************)
(* A neighbour gives a buffer or a null pointer: one of the same worker    *)
(* between two turns of this sstable, another one at any time, if the      *)
(* queue is shared.                                                        *)
(***************************************************************************)
ReceiveBuffer ==
  /\ pc = "turn" \/ ~is_single_thread
  /\ \E buffer \in {Null, Len(pushed) + 1} : Receive(buffer)
  /\ UNCHANGED readVars

-----------------------------------------------------------------------------
(***************************************************************************)
(* The sstable's ring.  Submitting sends what was prepared before as well; *)
(* io_uring_get_sqe returns a null pointer when the queue is full.         *)
(***************************************************************************)
RoomFor(n) == Len(sq) + n <= SqEntries

\* A variant that drops what was prepared before.
SubmitChainOnly ==
  /\ sq' = <<>>
  /\ waiting_on_io' = TRUE
  /\ UNCHANGED replied

SubmitChain ==
  /\ replied' = replied \o sq
  /\ sq' = <<>>
  /\ waiting_on_io' = TRUE

(***************************************************************************)
(* The end of a batch on this level.  On the last one a message to the     *)
(* network thread is prepared, and left unsubmitted.  On another level the *)
(* batch is decomposed for the next one, which dereferences a null pointer *)
(* for the first request of a read batch.                                  *)
(***************************************************************************)
\* A variant that forgets the answer.
EndBatchSilently == UNCHANGED <<sq, fault>>

EndBatch ==
  IF level = "last" /\ RoomFor(1)
  THEN sq' = Append(sq, taken') /\ UNCHANGED fault
  ELSE fault' = TRUE /\ UNCHANGED sq

\* A variant that does not look at waiting_on_io.
MayTakeAlways == Live /\ pc = "turn"

MayTake == Live /\ pc = "turn" /\ ~waiting_on_io

\* A read batch is popped from the wait queue.
TakeBatch(present_in_level) ==
  /\ MayTake
  /\ taken < MaxBatches
  /\ taken' = taken + 1
  /\ IF present_in_level /\ is_flushed_to
     THEN /\ TryAddBuffers
          /\ desired_sstable_offset' = 0
          /\ stack' = push_top(stack, <<0, BatchLength \div 2, 0, BatchLength>>)
          /\ pc' = "tree"
          /\ UNCHANGED <<sq, fault>>
     ELSE EndBatch /\ UNCHANGED <<taking, stock, hung, walk, pc>>
  /\ UNCHANGED <<config, ring, already_waited, pushed, kernelVars, replied, chains,
                 posted, is_flushed_to, cur_min_invalid_offset, waiting_on_io>>

\* A compaction is popped: the sstable takes it ...
Flush ==
  /\ MayTake /\ ~is_flushed_to
  /\ IF RoomFor(2) THEN SubmitChain /\ writing' = writing + 1 /\ UNCHANGED fault
     ELSE fault' = TRUE /\ UNCHANGED <<answers, writing, waiting_on_io>>
  /\ UNCHANGED <<config, ring, taking, stock, already_waited, pushed, hung, kernelVars, taken,
                 walk, reading, posted, is_flushed_to, cur_min_invalid_offset, pc>>

\* ... or the next level; on the last level a compaction is deleted, and nothing changes here.
PassCompaction ==
  /\ MayTake /\ is_flushed_to
  /\ \E target_single, needy \in BOOLEAN : Forward(target_single, needy)
  /\ UNCHANGED readVars

IdleTurn ==
  /\ MayTake
  /\ Idle
  /\ UNCHANGED readVars

-----------------------------------------------------------------------------
(***************************************************************************)
(* try_sstable_tree_read_in_memory.                                        *)
(***************************************************************************)
\* move_down_to_children takes a row for <<cur_request, left, right>>.
Children ==
  LET row == top(stack)
      cur == row[1]
      leftChild == (row[2] + cur) \div 2
      rightChild == (cur + row[3]) \div 2
      withRight == IF rightChild > cur /\ rightChild < BatchLength
                   THEN push_top(pop_top(stack), <<desired_sstable_offset, rightChild, cur, row[3]>>)
                   ELSE pop_top(stack)
  IN  IF leftChild < cur
      THEN push_top(withRight, <<desired_sstable_offset, leftChild, row[2], cur>>)
      ELSE withRight

PastEnd == desired_sstable_offset >= cur_min_invalid_offset

\* One turn of the loop, if the row that top() returns was never written.
UnknownRow ==
  /\ Live /\ pc = "tree"
  /\ top(stack) = Unknown
  /\ fault' = TRUE
  /\ UNCHANGED <<config, ring, taking, stock, already_waited, pushed, hung, readVars>>

\* One turn of the loop whose request is over.  The loop goes on while requests are left
\* and no I/O is awaited; waiting_on_io is reset only after it.
EndRequest ==
  /\ Live /\ pc = "tree" /\ top(stack) # Unknown
  /\ PastEnd
  /\ stack' = Children
  /\ pc' = IF empty(stack') \/ waiting_on_io THEN "turn" ELSE "tree"
  /\ UNCHANGED taken
  /\ IF empty(stack') THEN waiting_on_io' = FALSE /\ EndBatch
     ELSE UNCHANGED <<waiting_on_io, sq, fault>>
  /\ UNCHANGED <<config, ring, taking, stock, already_waited, pushed, hung, kernelVars,
                 desired_sstable_offset, replied, chains, posted, is_flushed_to,
                 cur_min_invalid_offset>>

\* One turn of the loop that reads storage.
ReadStorage ==
  /\ Live /\ pc = "tree" /\ top(stack) # Unknown
  /\ ~PastEnd
  /\ desired_sstable_offset' = top(stack)[1]
  /\ IF RoomFor(2) THEN SubmitChain /\ reading' = reading + 1 /\ pc' = "turn" /\ UNCHANGED fault
     ELSE fault' = TRUE /\ UNCHANGED <<answers, reading, waiting_on_io, pc>>
  /\ UNCHANGED <<config, ring, taking, stock, already_waited, pushed, hung, kernelVars, taken,
                 stack, writing, posted, is_flushed_to, cur_min_invalid_offset>>

-----------------------------------------------------------------------------
\* The message of a chain is sent unless the chain is broken.
Post(kept) ==
  /\ messages' = IF kept THEN messages + 1 ELSE messages
  /\ broken' = (broken \/ ~kept)
  /\ UNCHANGED <<bufferVars, kernelVars, taken, walk, answers, serveVars>>

KernelReads ==
  /\ reading > 0
  /\ reading' = reading - 1
  /\ res' \in IF zero_length THEN {"error", "none"} ELSE {"error", "none", "part", "whole"}
  /\ Post(res' = IF zero_length THEN "none" ELSE "whole")
  /\ UNCHANGED writing

KernelWrites ==
  /\ writing > 0
  /\ writing' = writing - 1
  /\ res' \in {"silent", "error"}
  /\ Post(res' = "silent")
  /\ UNCHANGED reading

\* The worker sees a message and looks at the oldest completions.  None stands for a flush;
\* that of the open, which start-up left, has a descriptor for its result.
Completion ==
  /\ Live /\ pc = "turn" /\ messages > 0
  /\ messages' = messages - 1
  /\ fault' = (leftovers \/ res \in {"part", "whole"})
  /\ is_flushed_to' = (is_flushed_to \/ (~fault' /\ res = "silent"))
  /\ IF ~fault' /\ res # "silent" THEN cur_min_invalid_offset' = 0 /\ pc' = "tree"
     ELSE UNCHANGED <<cur_min_invalid_offset, pc>>
  /\ UNCHANGED <<config, ring, taking, stock, already_waited, pushed, hung, kernelVars, taken,
                 walk, answers, chains, res, broken, waiting_on_io>>

Take ==
  \/ \E present_in_level \in BOOLEAN : TakeBatch(present_in_level)
  \/ Flush
  \/ PassCompaction
  \/ IdleTurn

GoOn == UnknownRow \/ EndRequest \/ ReadStorage \/ Completion

Kernel == KernelReads \/ KernelWrites

Next == ReceiveBuffer \/ Take \/ GoOn \/ Kernel

Spec == Init /\ [][Next]_vars

\* The worker goes on with what it has begun and looks for messages for ever, and the kernel
\* completes what it was given.
Fairness == WF_vars(GoOn) /\ WF_vars(Kernel)

FairSpec == Spec /\ Fairness

-----------------------------------------------------------------------------
(***************************************************************************)
(* Properties.                                                             *)
(***************************************************************************)

Stuck == waiting_on_io /\ pc = "turn" /\ reading + writing + messages = 0

\* waiting_on_io is what keeps the worker from taking a batch while one is being read or
\* written (lsm_tree.hpp:738).  It is set whenever a chain is with the kernel or its message
\* on the way, and there is one at most.  It stays set without one only after a flush, or if
\* the chain was broken: no traversal leaves it behind.
OneChain ==
  /\ reading + writing + messages <= 1
  /\ reading + writing + messages = 1 => waiting_on_io
  /\ Stuck /\ ~fault => broken \/ res = "silent"

\* The batches of the last level are answered in the order they came, none twice and none
\* left out: what was sent and what is prepared are all the batches taken, but for the one
\* at hand.
AnswersInOrder ==
  level = "last" /\ ~fault =>
    LET done == replied \o sq
    IN  /\ \A i \in DOMAIN done : done[i] = i
        /\ Len(done) = IF stack.back = 1 THEN taken - 1 ELSE taken

\* Every read batch that is taken on the last level is dealt with, unless a step is undefined,
\* the worker hangs in the buffer queue or the sstable waits for ever (OneChain says when):
\* no order of batches, buffers and completions makes the traversal stop in the middle.
EveryBatchDealtWith ==
  \A b \in Batch : taken >= b /\ level = "last" ~> ~Live \/ Stuck \/ Len(replied) + Len(sq) >= b

\* "Traverse the sorted read request batch array" (lsm_tree.hpp:250): a batch of several
\* requests is not over when its middle one is.
WholeBatchTraversed ==
  [][EndRequest /\ stack.back = 1 /\ BatchLength > 1 => ~empty(stack')]_vars

\* "no more levels to go down to, so send back to network thread for completion"
\* (lsm_tree.hpp:396): a batch that is dealt with on the last level leaves for the network
\* thread in the end, unless a step is undefined or the worker hangs.
EveryAnswerLeaves ==
  \A b \in Batch : taken >= b /\ level = "last" ~> ~Live \/ Stuck \/ Len(replied) >= b
==============================================================================
