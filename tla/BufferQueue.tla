----------------------------- MODULE BufferQueue -----------------------------
(***************************************************************************)
(* The page cache buffers of one sstable: the ring buffer_queue in which   *)
(* the sstables of the levels above and below leave buffers for it, the    *)
(* array page_cache_buffers it reads into, and what its worker does with   *)
(* both.  The neighbours are inputs: they push buffers, and the upper one  *)
(* and the lower ones take what is given to them.                          *)
(*                                                                         *)
(* A buffer is its number: the own ones are -1, -2, ..., the i-th one that *)
(* is received is i.  The array of the ring is not initialised             *)
(* (buffer_queue.hpp:23): a cell that was never written holds the null     *)
(* pointer Null or any other one, Garbage.  A neighbour passes what it has *)
(* popped from such a cell on, so that Null may be received any time.      *)
(* Cells are not cleared when they are popped.                             *)
(*                                                                         *)
(* A queue flagged single-threaded is used without its guard.  The guard   *)
(* of a shared one lets a caller that repeats its exchange through and no  *)
(* trylock (theorem TryLockDead of QueueProofs).                           *)
(*                                                                         *)
(* fault: a step had undefined behaviour, and nothing is said of what      *)
(* follows; hung: the loop the worker never leaves.                        *)
(***************************************************************************)
EXTENDS Integers, Sequences, FiniteSets

CONSTANTS
  max_sstable_height,    \* buffers an sstable starts with
  LEVEL_FACTOR,
  UINT,                  \* number of values of an unsigned int
  MaxPushes,             \* bound: buffers received in a behaviour
  MaxNulls               \* bound: null pointers among them

Length == max_sstable_height * LEVEL_FACTOR

\* max_sstable_height is a positive multiple of 20.
ASSUME BufferAssumption ==
  /\ max_sstable_height \in Nat /\ max_sstable_height > 2
  /\ LEVEL_FACTOR \in Nat /\ LEVEL_FACTOR > 1
  /\ UINT \in Nat /\ UINT > Length
  /\ MaxPushes \in Nat /\ MaxNulls \in Nat

VARIABLES
  level,                 \* "first", "inner" or "last"
  is_single_thread,      \* the flag of the buffer queue
  queue, queue_front, back, cur_num_buffers, num_new_buffers,
  page_cache_buffers, insert_buffers_from, free_buffers_left,
  already_waited,
  pushed, popped,        \* what push_back got and what pop_front has returned so far
  fault, hung

config == <<level, is_single_thread>>
ring == <<queue, back>>
taking == <<queue_front, cur_num_buffers, num_new_buffers, popped>>
stock == <<page_cache_buffers, insert_buffers_from, free_buffers_left>>
bufferVars == <<config, ring, taking, stock, already_waited, pushed, fault, hung>>

Live == ~fault /\ hung = "no"

Null == 0
Garbage == -(max_sstable_height + 1)
Cell == 0..(Length - 1)
Buffer == Garbage..MaxPushes
Uint == 0..(UINT - 1)

BuffersTypeOK ==
  /\ level \in {"first", "inner", "last"}
  /\ is_single_thread \in BOOLEAN
  /\ queue \in [Cell -> Buffer]
  /\ queue_front \in Cell /\ back \in Cell
  /\ cur_num_buffers \in Uint /\ num_new_buffers \in Uint
  /\ page_cache_buffers \in [Cell -> Buffer]
  /\ insert_buffers_from \in Int
  /\ free_buffers_left \in Nat
  /\ already_waited \in BOOLEAN
  /\ pushed \in Seq(Buffer) /\ popped \in Seq(Buffer)
  /\ fault \in BOOLEAN /\ hung \in {"no", "adding", "giving"}

\* Nothing reads the cells of page_cache_buffers that were never written.
BuffersInit ==
  /\ level \in {"first", "inner", "last"}
  /\ is_single_thread \in BOOLEAN
  /\ queue \in [Cell -> {Null, Garbage}]
  /\ queue_front = 0 /\ back = 0
  /\ cur_num_buffers = max_sstable_height
  /\ num_new_buffers = 0
  /\ page_cache_buffers =
       [c \in Cell |-> IF c < max_sstable_height THEN -(c + 1) ELSE Garbage]
  /\ insert_buffers_from = max_sstable_height
  /\ free_buffers_left = max_sstable_height
  /\ already_waited = FALSE
  /\ pushed = <<>> /\ popped = <<>>
  /\ fault = FALSE /\ hung = "no"

-----------------------------------------------------------------------------
(***************************************************************************)
(* The methods of BufferQueue.                                             *)
(***************************************************************************)
NextCell == (back + 1) % Length

push_back(buffer) ==
  /\ back' = (back + 1) % Length
  /\ queue' = [queue EXCEPT ![NextCell] = buffer]
  /\ cur_num_buffers' = (cur_num_buffers + 1) % UINT
  /\ num_new_buffers' = (num_new_buffers + 1) % UINT
  /\ pushed' = Append(pushed, buffer)

\* The k-th of the next pops returns Popped(k), and a variant that does not advance.
PoppedAgain(k) == queue[queue_front]
Popped(k) == queue[(queue_front + k - 1) % Length]

Remembered(buffers) ==
  SubSeq(buffers, 1, IF Len(buffers) < MaxPushes THEN Len(buffers) ELSE MaxPushes)

\* n times pop_front(); the first MaxPushes buffers it returns are remembered.
pop_front(n) ==
  /\ queue_front' = (queue_front + n) % Length
  /\ cur_num_buffers' = (cur_num_buffers - n) % UINT
  /\ num_new_buffers' = (num_new_buffers - n) % UINT
  /\ popped' = Remembered(popped \o [k \in 1..n |-> Popped(k)])

-----------------------------------------------------------------------------
Nulls == {i \in DOMAIN pushed : pushed[i] = Null}

\* A neighbour gives a buffer, or the null pointer.
Receive(buffer) ==
  /\ Live
  /\ Len(pushed) < MaxPushes
  /\ buffer = Null => Cardinality(Nulls) < MaxNulls
  /\ push_back(buffer)
  /\ UNCHANGED <<config, queue_front, popped, stock, already_waited, fault, hung>>

\* How often front() may be popped until it is null.
NullAfter == {n \in 0..(Length - 1) : Popped(n + 1) = Null}

\* try_add_buffers_nonblockingly: "while (buffer_queue.front())" puts every buffer it
\* pops into the same place, and goes round for ever if no cell is null.
TryAddBuffers ==
  IF ~is_single_thread THEN UNCHANGED <<taking, stock, hung>>
  ELSE IF NullAfter = {} THEN hung' = "adding" /\ UNCHANGED <<taking, stock>>
  ELSE \E n \in NullAfter :
         /\ \A m \in NullAfter : n <= m
         /\ pop_front(n)
         /\ page_cache_buffers' =
              [c \in Cell |-> IF n > 0 /\ c = insert_buffers_from
                              THEN Popped(n) ELSE page_cache_buffers[c]]
         /\ free_buffers_left' = free_buffers_left + n
         /\ UNCHANGED <<insert_buffers_from, hung>>

(***************************************************************************)
(* An idle turn: the wait queue is empty.  On the first level, and if the  *)
(* trylock fails, nothing happens.                                         *)
(***************************************************************************)
WaitOnce ==
  /\ ~already_waited
  /\ already_waited' = TRUE
  /\ UNCHANGED <<config, ring, taking, stock, pushed, fault, hung>>

MayTransfer == already_waited /\ level # "first" /\ is_single_thread

Fair(n) == IF n < max_sstable_height THEN n ELSE max_sstable_height

\* New buffers go to the queue of the sstable above.
PassNew ==
  /\ MayTransfer
  /\ num_new_buffers # 0
  /\ pop_front(Fair(num_new_buffers))
  /\ UNCHANGED <<config, ring, stock, already_waited, pushed, fault, hung>>

AtLeastOne(n) == IF n < 1 THEN 1 ELSE n

ToGive == IF cur_num_buffers = 0 THEN 0
          ELSE AtLeastOne(Fair(cur_num_buffers) \div LEVEL_FACTOR)

\* SSTableCacheHelper::remove_buffer_range.  No buffer was ever mapped, so that the id of
\* the most recently selected one is 2^32 - 1, and the loop up to it starts there.
remove_buffer_range == fault' = TRUE

\* Without new ones, buffers of the own stock are given.
GiveOld ==
  /\ MayTransfer
  /\ num_new_buffers = 0
  /\ already_waited' = FALSE
  /\ cur_num_buffers' = cur_num_buffers - ToGive
  /\ insert_buffers_from' = IF ToGive = 0 THEN insert_buffers_from
                            ELSE insert_buffers_from - ToGive + 1
  /\ IF ToGive = 0 THEN UNCHANGED fault ELSE remove_buffer_range
  /\ UNCHANGED <<config, ring, queue_front, num_new_buffers, popped, page_cache_buffers,
                 free_buffers_left, pushed, hung>>

Idle == Live /\ (WaitOnce \/ PassNew \/ GiveOld)

(***************************************************************************)
(* The buffers that go along with a compaction to the next level           *)
(* (insert_into_wqs).  The queue's guard is taken by a loop.  All new      *)
(* buffers are popped into a local array of max_sstable_height, or one if  *)
(* there is none, whereupon num_new_buffers wraps around and the loop that *)
(* adds the rest runs past page_cache_buffers.  The count of the popped    *)
(* ones is lost, a target gets old buffers only if it is short of them     *)
(* (needy), and the trylock on a shared queue of the target, its wait      *)
(* queue or its buffer queue, is repeated for ever.                        *)
(***************************************************************************)
OldBuffers == (cur_num_buffers - num_new_buffers) % UINT

OldBufferLimit == IF OldBuffers = 0 THEN 0 ELSE AtLeastOne(OldBuffers \div LEVEL_FACTOR)

Forward(target_single, needy) ==
  /\ Live
  /\ level # "last"
  /\ pop_front(AtLeastOne(num_new_buffers))
  /\ hung' = IF target_single THEN "no" ELSE "giving"
  /\ LET given == IF needy /\ target_single THEN OldBufferLimit ELSE 0
     IN  /\ insert_buffers_from' = IF given > 0 THEN insert_buffers_from - given + 1
                                   ELSE insert_buffers_from
         /\ fault' = (num_new_buffers \notin 1..max_sstable_height \/ given > 0)
  /\ UNCHANGED <<config, ring, page_cache_buffers, free_buffers_left, already_waited, pushed>>

-----------------------------------------------------------------------------
(***************************************************************************)
(* Properties.                                                             *)
(***************************************************************************)

\* Buffers come out of the queue in the order in which they went in, and none comes out
\* twice, whatever the interleaving of receiving, passing on, adding and forwarding, as long
\* as fewer buffers have come than the ring has cells, and within the first round of pops,
\* since cells are not cleared (buffer_queue.hpp:34-47).
BuffersInOrder ==
  Len(pushed) < Length =>
    \A j, k \in DOMAIN popped :
      j < k /\ k <= Length /\ popped[j] > 0 /\ popped[k] > 0 => popped[j] < popped[k]

\* "we can check the buffer queue nonblockingly for new buffers instead of blockingly"
\* (lsm_tree.hpp:994): the loop that adds the new buffers ends.
AddingEnds == hung # "adding"

\* An sstable "can get more buffers if it needs more" (lsm_tree.hpp:1074): those it is given
\* enter its stock, and the cache helper counts no more free buffers than there are.
CountedBuffersHeld == ~fault => free_buffers_left <= insert_buffers_from

\* "the program transfers a fraction of the SSTable's buffers to the previous level"
\* (README.md:51): an idle sstable that has nothing but its own stock gives buffers of it
\* and goes on.
GivingSucceeds == [][Idle /\ GiveOld => ~fault']_bufferVars
==============================================================================
