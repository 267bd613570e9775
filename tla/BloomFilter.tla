---- MODULE BloomFilter ----
(***************************************************************************)
(* The Bloom filter of one sstable (Filter and the BloomFilter it wraps),  *)
(* used by several threads: a level's filters are filled by the thread     *)
(* that decomposes a compaction and consulted by threads that decompose    *)
(* reads.  The loops over the hashes are OpenMP parallel loops: their      *)
(* iterations happen in any order, each an atomic update.                  *)
(*                                                                         *)
(* A bit is its number, hash % number_bits: bit (n % 8) of byte (n \div 8).*)
(* What is hashed is a string: the key and the bytes behind it up to the   *)
(* first NUL, since __fnv_1a takes strlen of the pointer it is given.      *)
(***************************************************************************)
EXTENDS Integers, Sequences

CONSTANTS Thread,
          String,          \* what insert_key and prob_contains_key are given
          number_hashes,
          Bit,             \* the bits the hashes of these strings can select
          MaxCalls         \* bound on the calls explored

ASSUME HashesAssumption == number_hashes \in Nat \ {0}
ASSUME BitAssumption == Bit \subseteq Nat
ASSUME CallsAssumption == MaxCalls \in Nat

VARIABLES hash,            \* __default_hash, reduced modulo number_bits
          bloom,           \* the bits that are set
          elements_added,
          pc, str,         \* per thread: the call it is in and its argument
          pending,         \* per thread: iterations of the parallel loop to come
          r,               \* per thread: sum in the check, count in an addition
          answer,          \* per thread: what its last check returned
          added,           \* history: strings whose insertion has returned
          known,           \* history, per thread: added when its check began
          calls

vars == <<hash, bloom, elements_added, pc, str, pending, r, answer, added, known, calls>>

Hash == 1 .. number_hashes
HashFunction == [String -> [Hash -> Bit]]
Bits(s) == {hash[s][i] : i \in Hash}

\* Every hash function is explored; the constructor clears the bits.
Init ==
    /\ hash \in HashFunction
    /\ bloom = {}
    /\ elements_added = 0
    /\ pc = [t \in Thread |-> "idle"]
    /\ str \in [Thread -> String]
    /\ \A t, u \in Thread : str[t] = str[u]
    /\ pending = [t \in Thread |-> {}]
    /\ r = [t \in Thread |-> 0]
    /\ answer = [t \in Thread |-> "none"]
    /\ added = {}
    /\ known = [t \in Thread |-> {}]
    /\ calls = 0

----------------------------------------------------------------------------

Call(t, s, op) ==
    /\ pc[t] = "idle" /\ calls < MaxCalls
    /\ calls' = calls + 1
    /\ pc' = [pc EXCEPT ![t] = op]
    /\ str' = [str EXCEPT ![t] = s]
    /\ pending' = [pending EXCEPT ![t] = Hash]
    /\ r' = [r EXCEPT ![t] = 0]
    /\ answer' = [answer EXCEPT ![t] = "none"]

insert_key(t, s) ==
    /\ Call(t, s, "add")
    /\ UNCHANGED <<hash, bloom, elements_added, added, known>>

\* The bits with bit b set, and a variant that overwrites the byte.
WithByte(b) == {c \in bloom : c \div 8 # b \div 8} \cup {b}
WithBit(b) == bloom \cup {b}

\* One iteration of bloom_filter_add_string_alt's loop.
SetBit(t, i) ==
    /\ pc[t] = "add" /\ i \in pending[t]
    /\ bloom' = WithBit(hash[str[t]][i])
    /\ pending' = [pending EXCEPT ![t] = @ \ {i}]
    /\ UNCHANGED <<hash, elements_added, pc, str, r, answer, added, known, calls>>

\* elements_added++ is a load and a store, with no synchronisation.
LoadCount(t) ==
    /\ pc[t] = "add" /\ pending[t] = {}
    /\ r' = [r EXCEPT ![t] = elements_added]
    /\ pc' = [pc EXCEPT ![t] = "count"]
    /\ UNCHANGED <<hash, bloom, elements_added, str, pending, answer, added, known, calls>>

StoreCount(t) ==
    /\ pc[t] = "count"
    /\ elements_added' = r[t] + 1
    /\ added' = added \cup {str[t]}
    /\ pc' = [pc EXCEPT ![t] = "idle"]
    /\ UNCHANGED <<hash, bloom, str, pending, r, answer, known, calls>>

prob_contains_key(t, s) ==
    /\ Call(t, s, "check")
    /\ known' = [known EXCEPT ![t] = added]
    /\ UNCHANGED <<hash, bloom, elements_added, added>>

\* 1 << (b % 8), by the bit's place in its byte.
Mask(b) == <<1, 2, 4, 8, 16, 32, 64, 128>>[(b % 8) + 1]

\* CHECK_BIT is the byte masked, not 0 or 1.
CHECK_BIT(b) == IF b \in bloom THEN Mask(b) ELSE 0

\* The reduction of the parallel loop, and a variant that keeps one summand only.
LastOnly(sum, b) == CHECK_BIT(b)
Summed(sum, b) == sum + CHECK_BIT(b)

\* One iteration of bloom_filter_check_string_alt's loop.
CheckBit(t, i) ==
    /\ pc[t] = "check" /\ i \in pending[t]
    /\ r' = [r EXCEPT ![t] = Summed(@, hash[str[t]][i])]
    /\ pending' = [pending EXCEPT ![t] = @ \ {i}]
    /\ UNCHANGED <<hash, bloom, elements_added, pc, str, answer, added, known, calls>>

\* r == number_hashes ? BLOOM_SUCCESS : BLOOM_FAILURE.
Verdict(t) ==
    /\ pc[t] = "check" /\ pending[t] = {}
    /\ answer' = [answer EXCEPT ![t] = IF r[t] = number_hashes THEN "yes" ELSE "no"]
    /\ pc' = [pc EXCEPT ![t] = "idle"]
    /\ UNCHANGED <<hash, bloom, elements_added, str, pending, r, added, known, calls>>

empty == elements_added = 0

Next ==
    \E t \in Thread :
      \/ \E s \in String : insert_key(t, s) \/ prob_contains_key(t, s)
      \/ \E i \in Hash : SetBit(t, i) \/ CheckBit(t, i)
      \/ LoadCount(t)
      \/ StoreCount(t)
      \/ Verdict(t)

Spec == Init /\ [][Next]_vars

----------------------------------------------------------------------------

TypeOK ==
    /\ hash \in HashFunction
    /\ bloom \in SUBSET Bit
    /\ elements_added \in Nat
    /\ pc \in [Thread -> {"idle", "add", "count", "check"}]
    /\ str \in [Thread -> String]
    /\ pending \in [Thread -> SUBSET Hash]
    /\ r \in [Thread -> Nat]
    /\ answer \in [Thread -> {"none", "yes", "no"}]
    /\ added \in SUBSET String
    /\ known \in [Thread -> SUBSET String]
    /\ calls \in 0 .. MaxCalls

\* However insertions interleave with each other, every bit of a string whose
\* insertion has returned is set from then on (bloom_filter.hpp:271-277).
InsertedBitsSet == \A s \in added : Bits(s) \subseteq bloom

\* Concurrent insertions may lose counts (elements_added++ is not atomic), but
\* never all of them: a filter with an inserted string is not empty(), which is
\* how decompose tells the tables in use from the free one.
InsertedNotEmpty == added # {} => ~empty

\* A filter none of whose set bits belong to the string answers no, in
\* particular a filter into which nothing was inserted.
YesNeedsABit ==
    \A t \in Thread : answer[t] = "yes" => Bits(str[t]) \cap bloom # {}

\* The answer for a string inserted before the check began depends on where its
\* bits lie in their bytes and on nothing else: no insertion or check running
\* at the same time changes it.
Weight(s) == LET sum[n \in 0 .. number_hashes] ==
                   IF n = 0 THEN 0 ELSE sum[n - 1] + Mask(hash[s][n])
             IN  sum[number_hashes]
InsertedVerdict ==
    \A t \in Thread :
      answer[t] # "none" /\ str[t] \in known[t]
        => (answer[t] = "yes" <=> Weight(str[t]) = number_hashes)

\* "False negatives never occur with bloom filters" (README.md:13).
NoFalseNegatives ==
    \A t \in Thread : answer[t] = "no" => str[t] \notin known[t]

====
