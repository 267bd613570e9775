---------------------------- MODULE MemTableProofs ----------------------------
(***************************************************************************)
(* Proofs about a memtable, for every capacity and value length.           *)
(***************************************************************************)
EXTENDS MemTable, TLAPS

ELength == MEMTABLE_ENTRY_LENGTH

\* The search never goes further than an entry behind the last byte it may look at.
SearchInv == op # "none" => right <= size /\ left <= size + ELength - 1

\* A call's key is one that a request has.
ArgsInv == op # "none" => key \in Keys

\* The size counts entries, and is within the array.
SizeInv ==
  /\ ~overrun => size <= CAPACITY
  /\ \E n \in Nat : size = n * ELength

\* Entries reach behind size by less than their length: the search stops there at the latest.
TailZero ==
  ~overrun => \A p \in Position : p >= size + ELength - 1 => data[p] = 0

Inv == TypeOK /\ ArgsInv /\ SearchInv /\ SizeInv /\ TailZero

-----------------------------------------------------------------------------
\* Moving n entries of E bytes moves at least n + E - 1 bytes.
LEMMA MovesEnough ==
  ASSUME NEW n \in Nat, NEW E \in Nat, n >= 1, E >= 1
  PROVE  /\ E * n \in Nat /\ E * n >= n + E - 1
         /\ E * (n + 1) = E * n + E
<1>1. PICK m \in Nat : n = m + 1
  <2> WITNESS n - 1 \in Nat
  <2> QED OBVIOUS
<1>2. PICK f \in Nat : E = f + 1
  <2> WITNESS E - 1 \in Nat
  <2> QED OBVIOUS
<1>3. E * n = f * m + f + m + 1 /\ f * m \in Nat
  BY <1>1, <1>2
<1>4. E * (n + 1) = E * n + E
  OBVIOUS
<1> QED
  BY <1>1, <1>2, <1>3, <1>4

\* One entry more is still a whole number of entries.
LEMMA OneMore ==
  ASSUME NEW s \in Nat, NEW E \in Nat, \E n \in Nat : s = n * E
  PROVE  \E n \in Nat : s + E = n * E
<1>1. PICK n \in Nat : s = n * E
  BY Zenon
<1>2. s + E = (n + 1) * E
  BY <1>1
<1> QED
  BY <1>2

\* An entry has a key and a value.
LEMMA EntryLength == ELength \in Nat /\ ELength >= 2 /\ ELength = 1 + VALUE_LENGTH
  BY MemTableAssumption DEF ELength, MEMTABLE_ENTRY_LENGTH

\* A write that does not overrun leaves room for one more entry's worth of bytes than before.
LEMMA MovedFar ==
  ASSUME left \in Nat, size \in Nat
  PROVE  /\ MovedUpTo \in Nat
         /\ MovedUpTo >= left + ELength
         /\ left < size => MovedUpTo >= size + 2 * ELength - 1
<1>1. CASE left < size
  <2>1. Moves = size - left /\ Moves \in Nat /\ Moves >= 1
    BY <1>1 DEF Moves
  <2>2. /\ ELength * Moves \in Nat /\ ELength * Moves >= Moves + ELength - 1
        /\ ELength * (Moves + 1) = ELength * Moves + ELength
    BY <2>1, EntryLength, MovesEnough
  <2>3. MovedUpTo = left + ELength * (Moves + 1)
    BY Zenon DEF MovedUpTo, ELength
  <2> QED
    BY <1>1, <2>1, <2>2, <2>3, EntryLength
<1>2. CASE left >= size
  <2>1. Moves = 0
    BY <1>2 DEF Moves
  <2>2. MovedUpTo = left + ELength
    BY <2>1, EntryLength DEF MovedUpTo, ELength
  <2> QED
    BY <1>2, <2>2, EntryLength
<1> QED
  BY <1>1, <1>2

-----------------------------------------------------------------------------
\* What the two kinds of write do to the array, without the function they build.
LEMMA WriteEffect ==
  ASSUME TypeOK, FinishWrite
  PROVE  /\ data' \in [Position -> Nat]
         /\ ~overrun' => left + ELength <= CAPACITY /\ (left < size => MovedUpTo <= CAPACITY)
         /\ \A p \in Position :
              \/ left = size /\ p \in (left + 1)..(left + VALUE_LENGTH)
              \/ left = size /\ data'[p] = data[p]
              \/ left # size /\ (p < left \/ p >= MovedUpTo) /\ data'[p] = data[p]
              \/ left # size /\ p >= left /\ p < left + ELength
              \/ left # size /\ p >= left + ELength /\ p < MovedUpTo
                 /\ data'[p] = data[p - ELength]
<1>0. left \in Nat /\ size \in Nat /\ data \in [Position -> Nat] /\ key \in Nat
      /\ value \in [1..VALUE_LENGTH -> Nat] /\ VALUE_LENGTH \in Nat
  BY MemTableAssumption, Zenon DEF TypeOK
<1>1. CASE AppendValue
  <2>1. left = size
        /\ data' = [p \in Position |-> IF p \in (left + 1)..(left + VALUE_LENGTH)
                                       THEN value[p - left] ELSE data[p]]
    BY <1>1, Zenon DEF AppendValue
  <2>2. ASSUME NEW p \in Position, p \in (left + 1)..(left + VALUE_LENGTH)
        PROVE  value[p - left] \in Nat
    <3>1. p - left \in 1..VALUE_LENGTH
      BY <1>0, <2>2 DEF Position
    <3> QED
      BY <1>0, <3>1, Zenon
  <2>3. data' \in [Position -> Nat]
    BY <1>0, <2>1, <2>2, Zenon
  <2>4. ~overrun' => left + ELength <= CAPACITY
    <3>1. overrun' = (left + ELength > CAPACITY)
      BY <1>1, Zenon DEF AppendValue, ELength
    <3>2. ~overrun' => ~(left + ELength > CAPACITY)
      BY <3>1, Zenon
    <3> QED
      BY <1>0, <3>2, EntryLength, MemTableAssumption
  <2>5. \A p \in Position : data'[p] = IF p \in (left + 1)..(left + VALUE_LENGTH)
                                       THEN value[p - left] ELSE data[p]
    BY <2>1, Zenon
  <2> QED
    BY <1>0, <2>1, <2>3, <2>4, <2>5
<1>2. CASE InsertEntry
  <2>1. left # size
        /\ data' = [p \in Position |->
                     IF p < left \/ p >= MovedUpTo THEN data[p]
                     ELSE IF p < left + ELength THEN Entry(p - left)
                     ELSE data[p - ELength]]
    BY <1>2, Zenon DEF InsertEntry, ELength
  <2>2. MovedUpTo \in Nat /\ MovedUpTo >= left + ELength
    BY <1>0, MovedFar, Zenon
  <2>3. ASSUME NEW p \in Position, p >= left, p < left + ELength PROVE Entry(p - left) \in Nat
    <3>1. p - left = 0 \/ p - left \in 1..VALUE_LENGTH
      BY <1>0, <2>3, EntryLength DEF Position
    <3> QED
      BY <1>0, <3>1, Zenon DEF Entry
  <2>4. ASSUME NEW p \in Position, p >= left + ELength PROVE p - ELength \in Position
    BY <1>0, <2>4, EntryLength, MemTableAssumption DEF Position
  <2>5. ASSUME NEW p \in Position
        PROVE  /\ data'[p] \in Nat
               /\ \/ (p < left \/ p >= MovedUpTo) /\ data'[p] = data[p]
                  \/ p >= left /\ p < left + ELength
                  \/ p >= left + ELength /\ p < MovedUpTo /\ data'[p] = data[p - ELength]
    <3>1. p \in Nat
      BY MemTableAssumption DEF Position
    <3>2. CASE p < left \/ p >= MovedUpTo
      BY <1>0, <2>1, <3>2, Zenon
    <3>3. CASE ~(p < left \/ p >= MovedUpTo) /\ p < left + ELength
      <4>1. p >= left
        BY <1>0, <3>1, <3>3
      <4>2. data'[p] = Entry(p - left)
        BY <2>1, <3>3, Zenon
      <4> QED
        BY <2>3, <3>3, <4>1, <4>2, Zenon
    <3>4. CASE ~(p < left \/ p >= MovedUpTo) /\ ~(p < left + ELength)
      <4>1. p >= left + ELength /\ p < MovedUpTo
        BY <1>0, <2>2, <3>1, <3>4, EntryLength
      <4>2. data'[p] = data[p - ELength]
        BY <2>1, <3>4, Zenon
      <4> QED
        BY <1>0, <2>4, <4>1, <4>2, Zenon
    <3> QED
      BY <3>2, <3>3, <3>4, Zenon
  <2>6. data' \in [Position -> Nat]
    BY <2>1, <2>5, Zenon
  <2>7. ~overrun' => MovedUpTo <= CAPACITY
    <3>1. overrun' = (MovedUpTo > CAPACITY)
      BY <1>2, Zenon DEF InsertEntry
    <3>2. ~overrun' => ~(MovedUpTo > CAPACITY)
      BY <3>1, Zenon
    <3> QED
      BY <2>2, <3>2, MemTableAssumption
  <2> QED
    BY <1>0, <2>1, <2>2, <2>5, <2>6, <2>7, EntryLength, MemTableAssumption
<1> QED
  BY <1>1, <1>2, Zenon DEF FinishWrite

-----------------------------------------------------------------------------
\* An empty memtable satisfies the invariant.
LEMMA InitInv == Init => Inv
<1> SUFFICES ASSUME Init PROVE Inv
  BY Zenon
<1>1. TypeOK
  BY Zenon, MemTableAssumption DEF Init, TypeOK, Zeros, NoValue, Answer
<1>2. ArgsInv /\ SearchInv
  BY Zenon DEF Init, ArgsInv, SearchInv
<1>3. SizeInv
  <2>1. 0 = 0 * ELength
    BY EntryLength
  <2> QED
    BY <2>1, MemTableAssumption DEF Init, SizeInv
<1>4. TailZero
  BY Zenon DEF Init, TailZero, Zeros
<1> QED
  BY <1>1, <1>2, <1>3, <1>4, Zenon DEF Inv

\* A call begins: the search interval is the whole memtable, also after a flush, which keeps
\* the size.
LEMMA CallInv ==
  ASSUME Inv, NEW k \in Keys, NEW v \in Values,
         Read(k) \/ Write(k, v) \/ WriteToFull(k, v)
  PROVE  Inv'
<1>0. TypeOK /\ SizeInv /\ TailZero /\ ~overrun /\ op = "none" /\ size \in Nat
  BY Zenon DEF Inv, Read, Write, WriteToFull, Call, TypeOK
<1>1. k \in Nat /\ v \in [1..VALUE_LENGTH -> Nat] /\ NoValue \in [1..VALUE_LENGTH -> Nat]
  BY Zenon, MemTableAssumption DEF Keys, Values, NoValue
<1>2. left' = 0 /\ op' \in {"read", "write"} /\ key' = k /\ value' \in {v, NoValue}
  BY Zenon DEF Read, Write, WriteToFull, Call
<1>3. CASE Read(k) \/ Write(k, v)
  <2>1. right' = size /\ UNCHANGED <<data, size, range, answer, written, segment, compacted, overrun>>
    BY <1>3, Zenon DEF Read, Write
  <2>3. TypeOK'
    BY <1>0, <1>1, <1>2, <2>1, Zenon DEF TypeOK
  <2>4. ArgsInv' /\ SearchInv'
    BY <1>0, <1>2, <2>1, EntryLength DEF ArgsInv, SearchInv
  <2>5. SizeInv' /\ TailZero'
    BY <1>0, <2>1, Zenon DEF SizeInv, TailZero
  <2> QED
    BY <2>3, <2>4, <2>5, Zenon DEF Inv
<1>4. CASE WriteToFull(k, v)
  <2>1. /\ size >= CAPACITY /\ op' = "write" /\ right' = size /\ size' = size
        /\ data' = Zeros /\ compacted' = TRUE
        /\ range' = [min |-> 0, max |-> 0] /\ segment' = {Middle} /\ written' = {}
        /\ answer' = answer
    BY <1>4, Zenon DEF WriteToFull, Call
  <2>2. overrun' \in BOOLEAN
    BY <1>4, Zenon DEF WriteToFull
  <2>3. TypeOK'
    <3>1. data' \in [Position -> Nat]
      BY <2>1, Zenon DEF Zeros
    <3>2. Middle \in Nat
      BY MemTableAssumption DEF Middle
    <3> QED
      BY <1>0, <1>1, <1>2, <2>1, <2>2, <3>1, <3>2, Zenon DEF TypeOK
  <2>4. ArgsInv' /\ SearchInv'
    BY <1>0, <1>2, <2>1, EntryLength DEF ArgsInv, SearchInv
  <2>5. size = CAPACITY
    BY <1>0, <2>1, MemTableAssumption DEF SizeInv
  <2>6. SizeInv' /\ TailZero'
    BY <1>0, <2>1, <2>5, MemTableAssumption, Zenon DEF SizeInv, TailZero, Zeros
  <2> QED
    BY <2>3, <2>4, <2>6, Zenon DEF Inv
<1> QED
  BY <1>3, <1>4, Zenon

\* So does every state after a step of a search ...
LEMMA StepInv == ASSUME Inv, Step PROVE Inv'
<1>0. /\ TypeOK /\ ArgsInv /\ SearchInv /\ SizeInv /\ TailZero
      /\ left \in Nat /\ right \in Nat /\ size \in Nat
      /\ op # "none" /\ left < right
      /\ UNCHANGED <<data, size, range, op, key, value, answer, written, segment, compacted, overrun>>
  BY Zenon DEF Inv, Step, TypeOK, args
<1>1. Mid \in Nat /\ Mid < right
  BY <1>0 DEF Mid
<1>2. left' \in Nat /\ right' \in Nat
  BY <1>0, <1>1, EntryLength DEF Step, ELength
<1>3. TypeOK'
  BY <1>0, <1>2, Zenon DEF TypeOK
<1>4. SearchInv'
  BY <1>0, <1>1, EntryLength DEF Step, SearchInv, ELength
<1>5. ArgsInv' /\ SizeInv' /\ TailZero'
  BY <1>0, Zenon DEF ArgsInv, SizeInv, TailZero
<1> QED
  BY <1>3, <1>4, <1>5, Zenon DEF Inv

\* ... after the end of a read ...
LEMMA FinishReadInv == ASSUME Inv, FinishRead PROVE Inv'
<1>0. /\ TypeOK /\ SizeInv /\ TailZero /\ ~overrun
      /\ op = "read" /\ op' = "none" /\ key' = 0 /\ value' = NoValue
      /\ left' = 0 /\ right' = 0 /\ answer' \in Answer
      /\ UNCHANGED <<data, size, range, written, segment, compacted>>
  BY Zenon DEF Inv, FinishRead, Found, Answer
<1>1. overrun' \in BOOLEAN
  BY Zenon DEF FinishRead
<1>3. TypeOK'
  BY <1>0, <1>1, MemTableAssumption, Zenon DEF TypeOK, NoValue
<1>4. ArgsInv' /\ SearchInv' /\ SizeInv' /\ TailZero'
  BY <1>0, Zenon DEF ArgsInv, SearchInv, SizeInv, TailZero
<1> QED
  BY <1>3, <1>4, Zenon DEF Inv

\* ... and after the end of a write.
LEMMA FinishWriteInv == ASSUME Inv, FinishWrite PROVE Inv'
<1>0. /\ TypeOK /\ ArgsInv /\ SearchInv /\ SizeInv /\ TailZero /\ ~overrun
      /\ op = "write" /\ op' = "none" /\ key' = 0 /\ value' = NoValue
      /\ left' = 0 /\ right' = 0 /\ size' = size + ELength
      /\ written' = written \cup {key}
      /\ UNCHANGED <<answer, segment, compacted>>
  BY Zenon DEF Inv, FinishWrite, Found, ELength
<1>1. left \in Nat /\ size \in Nat /\ left <= size + ELength - 1
  BY <1>0, Zenon DEF TypeOK, SearchInv
<1>2. data' \in [Position -> Nat]
  BY <1>0, WriteEffect, Zenon
<1>3. ~overrun' => size' <= CAPACITY
  BY <1>0, <1>1, WriteEffect, MovedFar, EntryLength, MemTableAssumption
<1>4. TypeOK'
  <2>1. overrun' \in BOOLEAN
    <3>1. CASE AppendValue
      <4>1. overrun' = (left + ELength > CAPACITY)
        BY <3>1, Zenon DEF AppendValue, ELength
      <4>2. (left + ELength > CAPACITY) \in BOOLEAN
        BY <1>1, EntryLength, MemTableAssumption
      <4> QED
        BY <4>1, <4>2, Zenon
    <3>2. CASE InsertEntry
      <4>1. overrun' = (MovedUpTo > CAPACITY)
        BY <3>2, Zenon DEF InsertEntry
      <4>2. (MovedUpTo > CAPACITY) \in BOOLEAN
        BY <1>1, MovedFar, MemTableAssumption
      <4> QED
        BY <4>1, <4>2, Zenon
    <3> QED
      BY <3>1, <3>2, Zenon DEF FinishWrite
  <2>2. value[1] \in Nat
    BY <1>0, MemTableAssumption DEF TypeOK
  <2>3. range' \in [min : Nat, max : Nat]
    <3>1. range \in [min : Nat, max : Nat] /\ key \in Nat
      BY <1>0, Zenon DEF TypeOK
    <3>2. AppendValue \/ InsertEntry
      BY <1>0, Zenon DEF FinishWrite
    <3> QED
      BY <3>1, <3>2, <2>2 DEF AppendValue, InsertEntry
  <2>4. key \in Keys
    BY <1>0, Zenon DEF ArgsInv
  <2> QED
    BY <1>0, <1>1, <1>2, <2>1, <2>3, <2>4, EntryLength, MemTableAssumption DEF TypeOK, NoValue
<1>5. SizeInv'
  BY Zenon, <1>0, <1>1, <1>3, OneMore, EntryLength DEF SizeInv
<1>6. TailZero'
  <2> SUFFICES ASSUME ~overrun', NEW p \in Position, p >= size + ELength + ELength - 1
               PROVE  data'[p] = 0
    BY <1>0, Zenon DEF TailZero
  <2>1. p \in Nat
    BY MemTableAssumption DEF Position
  <2>2. data[p] = 0
    BY <1>0, <1>1, <2>1, EntryLength DEF TailZero
  <2>3. ~(p < left + ELength)
    BY <1>1, <2>1, EntryLength
  <2>6. ~(p \in (left + 1)..(left + VALUE_LENGTH))
    BY <1>1, <2>1, <2>3, EntryLength, MemTableAssumption
  <2>4. p - ELength \in Position /\ p - ELength >= size + ELength - 1
    BY <1>1, <2>1, EntryLength, MemTableAssumption DEF Position
  <2>5. data[p - ELength] = 0
    BY <1>0, <2>4, Zenon DEF TailZero
  <2> QED
    BY <1>0, <2>2, <2>3, <2>5, <2>6, WriteEffect, Zenon
<1>8. ArgsInv' /\ SearchInv'
  BY <1>0, Zenon DEF ArgsInv, SearchInv
<1> QED
  BY <1>4, <1>5, <1>6, <1>8, Zenon DEF Inv

\* The size, the search and the bytes behind the last entry are as described above in every
\* reachable state.
THEOREM Invariance == Spec => []Inv
<1>1. Inv /\ [Next]_vars => Inv'
  <2> SUFFICES ASSUME Inv, [Next]_vars PROVE Inv'
    BY Zenon
  <2>1. ASSUME NEW k \in Keys, Read(k) PROVE Inv'
    <3>1. CASE \E v \in Values : TRUE
      BY <2>1, <3>1, CallInv, Zenon
    <3>2. CASE ~ \E v \in Values : TRUE
      <4>1. [j \in 1..VALUE_LENGTH |-> k] \in Values
        BY Zenon DEF Values, Keys
      <4> QED
        BY <3>2, <4>1, Zenon
    <3> QED
      BY <3>1, <3>2, Zenon
  <2>2. ASSUME NEW k \in Keys, NEW v \in Values, Write(k, v) \/ WriteToFull(k, v) PROVE Inv'
    BY <2>2, CallInv, Zenon
  <2>3. CASE Step
    BY <2>3, StepInv, Zenon
  <2>4. CASE FinishRead
    BY <2>4, FinishReadInv, Zenon
  <2>5. CASE FinishWrite
    BY <2>5, FinishWriteInv, Zenon
  <2>6. CASE UNCHANGED vars
    BY <2>6, Zenon DEF vars, args, Inv, TypeOK, ArgsInv, SearchInv, SizeInv, TailZero
  <2> QED
    BY <2>1, <2>2, <2>3, <2>4, <2>5, <2>6, Zenon DEF Next, Serve
<1> QED
  BY <1>1, InitInv, PTL DEF Spec

\* The insertion theorem: what memtable.hpp:58 moves is enough for every byte behind the
\* insertion point, because those behind size are fewer than an entry.
THEOREM InsertionLosesNothing == Spec => InsertionKeepsBytes
<1> DEFINE Kept == op = "write" /\ op' = "none" /\ left < size /\ ~overrun' =>
                     \A p \in Position :
                       /\ p < left => data'[p] = data[p]
                       /\ p >= left /\ data[p] # 0 =>
                            /\ p + MEMTABLE_ENTRY_LENGTH \in Position
                            /\ data'[p + MEMTABLE_ENTRY_LENGTH] = data[p]
<1>1. Inv /\ [Next]_vars => [Kept]_vars
  <2> SUFFICES ASSUME Inv, Next, op = "write", op' = "none", left < size, ~overrun',
                      NEW p \in Position
               PROVE  /\ p < left => data'[p] = data[p]
                      /\ p >= left /\ data[p] # 0 => /\ p + ELength \in Position
                                                     /\ data'[p + ELength] = data[p]
    BY Zenon DEF ELength
  <2>1. FinishWrite
    BY Zenon DEF Next, Serve, Read, Write, WriteToFull, Call, Step, FinishRead, Found, args
  <2>2. TypeOK /\ TailZero /\ ~overrun /\ left \in Nat /\ size \in Nat /\ p \in Nat
    <3>1. TypeOK /\ TailZero /\ ~overrun /\ left \in Nat /\ size \in Nat
      BY <2>1, Zenon DEF Inv, TypeOK, FinishWrite, Found
    <3>2. p \in Nat
      BY MemTableAssumption DEF Position
    <3> QED
      BY <3>1, <3>2, Zenon
  <2>3. MovedUpTo \in Nat /\ MovedUpTo >= size + 2 * ELength - 1 /\ MovedUpTo <= CAPACITY
    BY <2>1, <2>2, MovedFar, WriteEffect, Zenon
  <2>4. p < left => data'[p] = data[p]
    BY <2>1, <2>2, <2>3, WriteEffect, EntryLength
  <2>5. ASSUME p >= left, data[p] # 0
        PROVE  p + ELength \in Position /\ data'[p + ELength] = data[p]
    <3>1. p < size + ELength - 1
      BY <2>2, <2>5, EntryLength DEF TailZero
    <3>2. p + ELength \in Position /\ p + ELength < MovedUpTo /\ p + ELength >= left + ELength
      BY <2>2, <2>3, <2>5, <3>1, EntryLength, MemTableAssumption DEF Position
    <3>3. (p + ELength) - ELength = p
      BY <2>2, EntryLength
    <3>4. /\ left # size /\ ~(p + ELength < left) /\ ~(p + ELength >= MovedUpTo)
          /\ ~(p + ELength < left + ELength)
      BY <2>2, <2>3, <3>2, EntryLength
    <3>5. data'[p + ELength] = data[(p + ELength) - ELength]
      BY <2>1, <2>2, <3>2, <3>4, WriteEffect, Zenon
    <3> QED
      BY <3>2, <3>3, <3>5, Zenon
  <2> QED
    BY <2>4, <2>5, Zenon
<1> QED
  BY <1>1, Invariance, PTL DEF InsertionKeepsBytes, Spec

-----------------------------------------------------------------------------
(***************************************************************************)
(* The search itself.                                                      *)
(***************************************************************************)
\* An iteration leaves at most half of the bytes between left and right, though the one
\* bound moves by a byte and the other by an entry: a search in a memtable of 2^n bytes
\* ends after n + 1 iterations at the latest.
SearchHalves == [][Step => 2 * (right' - left') <= right - left]_vars

\* The middle is between the bounds, and not far from half-way.
LEMMA Middling ==
  ASSUME NEW l \in Nat, NEW r \in Nat, l < r, NEW m \in Int, m = (l + r) \div 2
  PROVE  /\ m \in Nat /\ l <= m /\ m < r
         /\ 2 * (m - l) <= r - l
         /\ \A e \in Nat : e >= 1 => 2 * (r - (m + e)) <= r - l
  OBVIOUS

\* The search compares no byte behind the last entry, for every capacity and value length.
THEOREM SearchInside == Spec => []SearchStaysInside
<1>1. Inv => SearchStaysInside
  <2> SUFFICES ASSUME Inv PROVE SearchStaysInside
    BY Zenon
  <2>1. left \in Nat /\ right \in Nat /\ size \in Nat /\ (~overrun => size <= CAPACITY)
    BY Zenon DEF Inv, TypeOK, SizeInv
  <2>2. op # "none" => right <= size
    BY Zenon DEF Inv, SearchInv
  <2>3. ASSUME op # "none", ~overrun, left < right PROVE Mid \in Position /\ Mid < size
    <3>1. Mid \in Int /\ Mid = (left + right) \div 2
      BY <2>1 DEF Mid
    <3>2. Mid \in Nat /\ Mid < right
      BY <2>1, <2>3, <3>1, Middling, Zenon
    <3> QED
      BY <2>1, <2>2, <2>3, <3>2, MemTableAssumption DEF Position
  <2>4. ASSUME op = "read", ~overrun, left < size PROVE left \in Position
    BY <2>1, <2>4, MemTableAssumption DEF Position
  <2> QED
    BY <2>3, <2>4, Zenon DEF SearchStaysInside
<1> QED
  BY <1>1, Invariance, PTL

\* Every iteration halves what is left of the search, whatever the bytes are.
THEOREM EachStepHalves == Spec => SearchHalves
<1>1. Inv /\ [Next]_vars => [Step => 2 * (right' - left') <= right - left]_vars
  <2> SUFFICES ASSUME Inv, Step PROVE 2 * (right' - left') <= right - left
    BY Zenon
  <2>1. left \in Nat /\ right \in Nat /\ left < right
    BY Zenon DEF Inv, TypeOK, Step
  <2>2. Mid \in Int /\ Mid = (left + right) \div 2
    BY <2>1 DEF Mid
  <2>3. 2 * (Mid - left) <= right - left /\ 2 * (right - (Mid + ELength)) <= right - left
    BY <2>1, <2>2, EntryLength, Middling
  <2>4. (left' = Mid + ELength /\ right' = right) \/ (right' = Mid /\ left' = left)
    BY Zenon DEF Step, ELength
  <2> QED
    BY <2>3, <2>4, Zenon
<1> QED
  BY <1>1, Invariance, PTL DEF SearchHalves, Spec
==============================================================================
