------------------------------- MODULE MemTable ------------------------------
(***************************************************************************)
(* A memtable at its own interface: MemTable::read, write and empty_out as *)
(* the main thread calls them, with RequestSegment::insert_memtable for a  *)
(* full one.  It is an array of bytes, and positions are bytes, not        *)
(* entries: the binary search may stop inside an entry or behind the last  *)
(* one.  A key has one byte (KEY_LENGTH in the build).                     *)
(*                                                                         *)
(* A step that touches bytes outside the array sets overrun, and nothing   *)
(* is said of what follows.                                                *)
(***************************************************************************)
EXTENDS Integers, Sequences, Stack

CONSTANTS
  CAPACITY,       \* bytes in the array, 2^(MEMTABLE_SIZE_MB_BITS + 20)
  VALUE_LENGTH,
  Bytes           \* bytes of keys and values in requests

MEMTABLE_ENTRY_LENGTH == 1 + VALUE_LENGTH

Keys == Bytes
Values == [1..VALUE_LENGTH -> Bytes]

ASSUME MemTableAssumption ==
  /\ CAPACITY \in Nat \ {0}
  /\ VALUE_LENGTH \in Nat \ {0}
  /\ Bytes \subseteq Nat

VARIABLES
  data, size,
  range,          \* the memtable's range in memtable_sparse_index
  op,             \* the call under way: "none", "read" or "write"
  key, value,     \* its arguments, zero between calls like the two below
  left, right,    \* the search
  answer,         \* what the last read returned
  written,        \* keys written since the memtable was last emptied
  segment,        \* positions of the memtable copied to the last request segment
  compacted,      \* the memtable was full and has been emptied
  overrun

args == <<op, key, value>>
vars == <<data, size, range, args, left, right, answer, written, segment, compacted, overrun>>

Position == 0..(CAPACITY - 1)
NoValue == [j \in 1..VALUE_LENGTH |-> 0]
Zeros == [p \in Position |-> 0]
Answer == {"none", "miss", "hit"}

TypeOK ==
  /\ data \in [Position -> Nat]
  /\ size \in Nat
  /\ range \in [min : Nat, max : Nat]
  /\ op \in {"none", "read", "write"}
  /\ key \in Nat
  /\ value \in [1..VALUE_LENGTH -> Nat]
  /\ left \in Nat /\ right \in Nat
  /\ answer \in Answer
  /\ written \subseteq Keys
  /\ segment \subseteq Nat
  /\ compacted \in BOOLEAN /\ overrun \in BOOLEAN

Init ==
  /\ data = Zeros
  /\ size = 0
  /\ range = [min |-> 0, max |-> 0]
  /\ op = "none" /\ key = 0 /\ value = NoValue
  /\ left = 0 /\ right = 0
  /\ answer = "none"
  /\ written = {} /\ segment = {}
  /\ compacted = FALSE /\ overrun = FALSE

-----------------------------------------------------------------------------
Call(o, k, v) ==
  /\ op = "none" /\ ~overrun
  /\ op' = o /\ key' = k /\ value' = v
  /\ left' = 0

Read(k) ==
  /\ Call("read", k, NoValue)
  /\ right' = size
  /\ UNCHANGED <<data, size, range, answer, written, segment, compacted, overrun>>

Write(k, v) ==
  /\ size < CAPACITY
  /\ Call("write", k, v)
  /\ right' = size
  /\ UNCHANGED <<data, size, range, answer, written, segment, compacted, overrun>>

(***************************************************************************)
(* insert_memtable copies the entry in the middle and walks the tree below *)
(* it with the stack.  It reads the row that top() returns, which nobody   *)
(* has written.  back is -1 after the first pop, and a child would be      *)
(* stored in top_tree_index[-1].  The constructor of the union around the  *)
(* segment leaves the stack's own back unset as well; a value other than 0 *)
(* is one more way to leave the stack, and has no case of its own.         *)
(***************************************************************************)
Middle == CAPACITY \div 2

RootRow(stack) == top(push_top(stack, <<Middle, 0, CAPACITY, 0>>))

HasChildren(row) ==
  \/ (row[2] + row[1]) \div 2 < row[1]
  \/ (row[1] + row[3]) \div 2 > row[1]

\* A write to a full memtable: its range is removed, its content goes to a request segment,
\* its bytes are cleared, and the write follows.  empty_out leaves the size as it is.
WriteToFull(k, v) ==
  /\ size >= CAPACITY
  /\ Call("write", k, v)
  /\ right' = size
  /\ range' = [min |-> 0, max |-> 0]
  /\ segment' = {Middle}
  /\ data' = Zeros
  /\ written' = {}
  /\ compacted' = TRUE
  /\ \E stack \in NewStacks(2) :
       overrun' = \/ RootRow(stack) = Unknown \/ HasChildren(RootRow(stack))
                  \/ Middle + MEMTABLE_ENTRY_LENGTH > CAPACITY
  /\ UNCHANGED <<size, answer>>

\* A variant that rounds up.
MidRoundedUp == (left + right + 1) \div 2

Mid == (left + right) \div 2

Step ==
  /\ op # "none" /\ ~overrun
  /\ left < right
  /\ IF data[Mid] < key THEN left' = Mid + MEMTABLE_ENTRY_LENGTH /\ UNCHANGED right
     ELSE right' = Mid /\ UNCHANGED left
  /\ UNCHANGED <<data, size, range, args, answer, written, segment, compacted, overrun>>

\* The search has ended, and the call returns.
Found(o) ==
  /\ op = o /\ ~overrun
  /\ left >= right
  /\ op' = "none" /\ key' = 0 /\ value' = NoValue
  /\ left' = 0 /\ right' = 0

FinishRead ==
  /\ Found("read")
  /\ LET hit == left < size /\ data[left] = key
     IN  /\ answer' = IF hit THEN "hit" ELSE "miss"
         /\ overrun' = (hit /\ left + MEMTABLE_ENTRY_LENGTH > CAPACITY)
  /\ UNCHANGED <<data, size, range, written, segment, compacted>>

Entry(j) == IF j = 0 THEN key ELSE value[j]

\* Behind the last entry only the value is copied.
AppendValue ==
  /\ left = size
  /\ data' = [p \in Position |-> IF p \in (left + 1)..(left + VALUE_LENGTH)
                                 THEN value[p - left] ELSE data[p]]
  /\ overrun' = (left + MEMTABLE_ENTRY_LENGTH > CAPACITY)
  /\ range' = [range EXCEPT !.max = value[1]]

\* How many times the loop moves an entry, and a variant that counts whole entries.
MovesWhole == IF left < size THEN (size - left) \div MEMTABLE_ENTRY_LENGTH ELSE 0
Moves == IF left < size THEN size - left ELSE 0

\* The first byte that the loop and the copy after it leave alone.
MovedUpTo == left + MEMTABLE_ENTRY_LENGTH * (Moves + 1)

\* Elsewhere the entry is put at left, and what was there moves on by an entry.
InsertEntry ==
  /\ left # size
  /\ data' = [p \in Position |->
                IF p < left \/ p >= MovedUpTo THEN data[p]
                ELSE IF p < left + MEMTABLE_ENTRY_LENGTH THEN Entry(p - left)
                ELSE data[p - MEMTABLE_ENTRY_LENGTH]]
  /\ overrun' = (MovedUpTo > CAPACITY)
  /\ range' = IF left = 0 THEN [range EXCEPT !.min = value[1]] ELSE range

FinishWrite ==
  /\ Found("write")
  /\ AppendValue \/ InsertEntry
  /\ size' = size + MEMTABLE_ENTRY_LENGTH
  /\ written' = written \cup {key}
  /\ UNCHANGED <<answer, segment, compacted>>

Serve == Step \/ FinishRead \/ FinishWrite

Next ==
  \/ \E k \in Keys : Read(k)
  \/ \E k \in Keys, v \in Values : Write(k, v) \/ WriteToFull(k, v)
  \/ Serve

Spec == Init /\ [][Next]_vars

\* The main thread goes on with a call it has begun.
FairSpec == Spec /\ WF_vars(Serve)

-----------------------------------------------------------------------------
(***************************************************************************)
(* Properties.                                                             *)
(***************************************************************************)

\* An insertion in front of stored bytes loses none of them, although the loop counts bytes
\* and moves entries (memtable.hpp:58), and although the search may have left bytes of the
\* last entry behind size: whatever stood at or behind left stands an entry further on.
InsertionKeepsBytes ==
  [][op = "write" /\ op' = "none" /\ left < size /\ ~overrun' =>
       \A p \in Position :
         /\ p < left => data'[p] = data[p]
         /\ p >= left /\ data[p] # 0 => /\ p + MEMTABLE_ENTRY_LENGTH \in Position
                                        /\ data'[p + MEMTABLE_ENTRY_LENGTH] = data[p]]_vars

\* What a call looks at is inside the array and in front of size, although left, right and
\* size are positions of bytes and left moves by entries: the bytes the search compares
\* (memtable.hpp:18, 37), and the one a read looks at when the search has ended (25).
SearchStaysInside ==
  /\ op # "none" /\ ~overrun /\ left < right => Mid \in Position /\ Mid < size
  /\ op = "read" /\ ~overrun /\ left >= right /\ left < size => left \in Position

\* Every call returns: the search ends although it moves by bytes and by entries.
EveryCallReturns == op # "none" ~> op = "none" \/ overrun

\* "return true for success or false if the key is not in the memtable"
\* (concepts/level_zero/memtable.hpp:16): a read misses only keys that were not written.
MissMeansAbsent ==
  [][op = "read" /\ answer' = "miss" /\ op' = "none" => key \notin written]_vars

\* insert_memtable is "to construct a balanced binary search tree from the sorted memtable
\* array" (request_segment.hpp:15): every entry of the memtable is copied to the segment.
SegmentHoldsMemtable ==
  compacted /\ ~overrun =>
    \A e \in 0..(CAPACITY \div MEMTABLE_ENTRY_LENGTH - 1) : e * MEMTABLE_ENTRY_LENGTH \in segment

\* "When a memtable is filled, it is emptied and its contents are moved" (README.md:11); "must
\* compact to level 1 and then clear memtable" (lsm_tree.hpp:961): the write that finds it full
\* goes to an empty memtable.
FullMemtableEmptied ==
  [][\A k \in Keys, v \in Values : WriteToFull(k, v) => size' = 0]_vars
==============================================================================
