---- MODULE ReadWritePool ----
(***************************************************************************)
(* One ReadWritePool: the sorted array of client requests that a           *)
(* RequestBatch carries through the system.                                *)
(*                                                                         *)
(* data[i + 1] is the code's data[i].  An entry keeps the request's key    *)
(* (the KEY_LENGTH bytes at buffer + 5, compared by memcmp, so a number),  *)
(* its socket (client_sock_fd) and buf, the identity of its buffer.        *)
(* Buffers are numbered in the order in which they are inserted.           *)
(* req_type plays no part here; req_batch_ref is the batch that owns the   *)
(* pool for every caller (request_batch.hpp:28-31), the same in every      *)
(* entry.  The binary search is one step per iteration.                    *)
(***************************************************************************)
EXTENDS Integers, Sequences

CONSTANTS Keys,       \* the keys requests carry
          PAGE_SIZE   \* entries that new ConnectionRequest[PAGE_SIZE] holds

ASSUME KeysAssumption == Keys \subseteq Int
ASSUME PageAssumption == PAGE_SIZE \in Nat

VARIABLES data,       \* the array, up to length
          pc,         \* what is being executed
          key,        \* the argument: key of the request or of the search
          start,      \* the argument of find_index_starting_from
          left, right,
          conn_req,   \* index of the entry that conn_req points at
          result,     \* what find_index_starting_from last returned
          removed     \* buffers whose entry was removed (history)

vars == <<data, pc, key, start, left, right, conn_req, result, removed>>

length == Len(data)

\* client_sock_fd is the socket of the entry or -1: only the -1 is told apart.
Socket == 1
Entry == [key : Keys, fd : {Socket, -1}, buf : 1 .. PAGE_SIZE]

\* find_index_starting_from's -1, also as a start: unsigned 2^32 - 1.
NotFound == -1

Init ==
    /\ data = << >>
    /\ pc = "idle"
    /\ key \in Keys
    /\ start = 0 /\ left = 0 /\ right = 0 /\ conn_req = 0
    /\ result = NotFound
    /\ removed = {}

----------------------------------------------------------------------------

\* insert_read_write is called; the data array has room for one more entry.
insert_read_write(k) ==
    /\ pc = "idle"
    /\ length < PAGE_SIZE
    /\ pc' = "insert"
    /\ key' = k
    /\ left' = 0 /\ right' = length /\ conn_req' = 0
    /\ UNCHANGED <<data, start, result, removed>>

\* LevelInfo::decompose starts at 0 or at the result of an earlier search.
find_index_starting_from(s, k) ==
    /\ pc = "idle"
    /\ s \in {0, result}
    /\ pc' = "find"
    /\ key' = k
    /\ start' = s /\ left' = s /\ right' = length
    /\ UNCHANGED <<data, conn_req, result, removed>>

remove_via_index(i) ==
    /\ pc = "idle"
    /\ data' = [data EXCEPT ![i + 1].fd = -1]
    /\ removed' = removed \cup {data[i + 1].buf}
    /\ UNCHANGED <<pc, key, start, left, right, conn_req, result>>

\* left < right, where a start of -1 is the largest unsigned number.
Searching == left # NotFound /\ left < right

\* memcmp(...) < 0, and a variant that makes the search one for an upper bound.
NotGreater(mid) == data[mid + 1].key <= key
Smaller(mid) == data[mid + 1].key < key

\* One iteration of the loops at 20-28 and 76-84.
Search ==
    /\ pc \in {"insert", "find"}
    /\ Searching
    /\ LET mid == (left + right) \div 2 IN
         /\ conn_req' = mid
         /\ IF Smaller(mid)
              THEN left' = mid + 1 /\ UNCHANGED right
              ELSE right' = mid /\ UNCHANGED left
    /\ UNCHANGED <<data, pc, key, start, result, removed>>

\* The entry the caller hands over: a buffer the pool has not held before.
Request == [key |-> key, fd |-> Socket, buf |-> length + 1]

\* left == length: no shifting.  The entry is written where conn_req points
\* at or one past it; the slot length is read from then on, whatever it holds.
InsertAtEnd ==
    /\ pc = "insert" /\ ~Searching /\ left = length
    /\ LET at == conn_req + (IF left > 0 THEN 1 ELSE 0) IN
         \E garbage \in Entry :
           data' = [i \in 1 .. length + 1 |->
                      IF i = at + 1 THEN Request
                      ELSE IF i <= length THEN data[i]
                      ELSE garbage]
    /\ pc' = "idle"
    /\ UNCHANGED <<key, start, left, right, conn_req, result, removed>>

\* What the shift loop moves to place i, and a variant that forgets the last entry.
ShiftedButLast(i) == IF i = length + 1 THEN Request ELSE data[i - 1]
Shifted(i) == data[i - 1]

\* left < length: the entries from left on move one place to the right.
InsertShift ==
    /\ pc = "insert" /\ ~Searching /\ left < length
    /\ data' = [i \in 1 .. length + 1 |->
                  IF i <= left THEN data[i]
                  ELSE IF i = left + 1 THEN Request
                  ELSE Shifted(i)]
    /\ pc' = "idle"
    /\ UNCHANGED <<key, start, left, right, conn_req, result, removed>>

\* Lines 85-89.  Only at index 0 is the key of the entry compared; a variant compares none.
PastEnd == left = length
NotThere == left = length \/ (left = 0 /\ data[1].key # key)

FindReturn ==
    /\ pc = "find" /\ ~Searching
    /\ result' = IF NotThere THEN NotFound ELSE left
    /\ pc' = "idle"
    /\ UNCHANGED <<data, key, start, left, right, conn_req, removed>>

Next ==
    \/ \E k \in Keys : insert_read_write(k)
    \/ \E s \in 0 .. PAGE_SIZE \cup {NotFound}, k \in Keys :
          find_index_starting_from(s, k)
    \/ \E i \in 0 .. length - 1 : remove_via_index(i)
    \/ Search
    \/ InsertAtEnd
    \/ InsertShift
    \/ FindReturn

Spec == Init /\ [][Next]_vars

----------------------------------------------------------------------------

TypeOK ==
    /\ data \in Seq(Entry) /\ length <= PAGE_SIZE
    /\ pc \in {"idle", "insert", "find"}
    /\ key \in Keys
    /\ start \in 0 .. PAGE_SIZE \cup {NotFound}
    /\ left \in 0 .. PAGE_SIZE \cup {NotFound}
    /\ right \in 0 .. PAGE_SIZE
    /\ conn_req \in 0 .. PAGE_SIZE
    /\ result \in 0 .. PAGE_SIZE \cup {NotFound}
    /\ removed \in SUBSET (1 .. PAGE_SIZE)

\* "This data structure shall be implemented as a sorted array"
\* (concepts/connection_pool/readwrite_pool/readwrite_pool.hpp:8-9).  Requests
\* for the same key stand in the reverse of the order in which they were
\* inserted: the search stops at the first entry that is not smaller.
SortedNewestFirst ==
    \A i, j \in 1 .. length :
      i < j => \/ data[i].key < data[j].key
               \/ data[i].key = data[j].key /\ data[i].buf > data[j].buf

\* insert_read_write is "guaranteed to succeed" (readwrite_pool.hpp:12): every
\* request inserted so far has exactly one entry, however often entries were
\* shifted or the end was reached, and an entry's socket is -1 exactly when
\* that request (not the one now at its old index) was removed.
NothingLost ==
    /\ {data[i].buf : i \in 1 .. length} = 1 .. length
    /\ \A i, j \in 1 .. length : data[i].buf = data[j].buf => i = j
    /\ \A i \in 1 .. length : data[i].fd = -1 <=> data[i].buf \in removed

\* The first index from s on whose entry is not smaller than k, or length.
LowerBound(s, k) ==
    CHOOSE m \in s .. length :
      /\ \A i \in s .. m - 1 : data[i + 1].key < k
      /\ m < length => data[m + 1].key >= k

\* When a search ends, left is the lower bound: find_index_starting_from and
\* insert_read_write both rest on it.  A search from -1 has looked at nothing.
SearchFindsLowerBound ==
    pc \in {"insert", "find"} /\ ~Searching
      => left = IF pc = "find" /\ start = NotFound THEN NotFound
                ELSE LowerBound(IF pc = "find" THEN start ELSE 0, key)

\* What decompose may rely on: a key in the pool at or after start is found at
\* its first entry there, and -1 is returned for a key that the pool does not
\* reach (greater than every key, or smaller than every key when start is 0).
\* For a key between two entries the index of the larger one is returned.
FindStep ==
    LET at == {i \in 0 .. length - 1 : i >= start /\ data[i + 1].key = key} IN
    /\ start # NotFound /\ at # {} =>
         /\ result' \in at
         /\ \A i \in at : result' <= i
    /\ (\A i \in 1 .. length : data[i].key < key) => result' = NotFound
    /\ start = 0 /\ (\A i \in 1 .. length : data[i].key > key) => result' = NotFound

FindAnswers == [][pc = "find" /\ pc' = "idle" => FindStep]_vars

====
