----------------------------- MODULE AtomicGuard -----------------------------
(***************************************************************************)
(* The one-byte guards of LevelInfo, BufferQueue and RequestBatchWaitQueue *)
(* as the threads of the LSM tree use them.  A guard starts at 1, but the  *)
(* consumer guard of an sstable's wait queue at '/': the path that startup *)
(* makes goes over it (module Startup).  A guard is taken with             *)
(* compare_exchange_weak(expected, 1) and given back with store(1).  A     *)
(* failed exchange writes the value it saw into expected.                  *)
(*                                                                         *)
(* A blocking caller (insert_into_wqs on the level guard and on its own    *)
(* buffer queue, the worker on the consumer guard and on the buffer queue  *)
(* of the level above) repeats the exchange with the same expected         *)
(* variable.  A trylock caller (insert_into_wqs on the producer guard of a *)
(* target queue and on its buffer queue) starts every attempt with a fresh *)
(* zero, and so does the worker that tries its own buffer queue once.      *)
(***************************************************************************)
EXTENDS Naturals

CONSTANTS Spinners, Tryers    \* the threads that use the guard in either way

VARIABLES
  atomic_guard,
  my_zero,      \* the expected argument of each thread's exchange
  at            \* "inside" after a blocking loop, "entered" after a trylock

lockVars == <<atomic_guard, my_zero, at>>

GuardThreads == Spinners \cup Tryers

Slash == 47     \* the character '/'

GuardTypeOK ==
  /\ atomic_guard \in {0, 1, Slash}
  /\ my_zero \in [GuardThreads -> {0, 1, Slash}]
  /\ at \in [GuardThreads -> {"outside", "spinning", "trying", "inside", "entered"}]

GuardInit ==
  /\ atomic_guard \in {1, Slash}
  /\ my_zero = [t \in GuardThreads |-> 0]
  /\ at = [t \in GuardThreads |-> "outside"]

\* unsigned char my_zero = 0, before the loop.
StartSpin(t) ==
  /\ at[t] = "outside"
  /\ my_zero' = [my_zero EXCEPT ![t] = 0]
  /\ at' = [at EXCEPT ![t] = "spinning"]
  /\ UNCHANGED atomic_guard

\* unsigned char local_zero = 0, in every turn of the loop.
StartTry(t) ==
  /\ at[t] = "outside"
  /\ at' = [at EXCEPT ![t] = "trying"]
  /\ UNCHANGED <<atomic_guard, my_zero>>

\* compare_exchange_weak(expected, 1): it succeeds only if the guard holds expected,
\* and even then it may fail spuriously.
Exchange(t, expected, succeeds, place) ==
  /\ succeeds => atomic_guard = expected
  /\ atomic_guard' = IF succeeds THEN 1 ELSE atomic_guard
  /\ at' = IF succeeds THEN [at EXCEPT ![t] = place] ELSE at

\* What a failed exchange leaves in my_zero, and a variant with my_zero declared inside
\* the loop.
FreshZero == 0
Seen == atomic_guard

\* One turn of the blocking loop.
Spin(t, succeeds) ==
  /\ at[t] = "spinning"
  /\ Exchange(t, my_zero[t], succeeds, "inside")
  /\ my_zero' = IF succeeds THEN my_zero ELSE [my_zero EXCEPT ![t] = Seen]

\* One attempt of a trylock.
Try(t, succeeds) ==
  /\ at[t] = "trying"
  /\ Exchange(t, 0, succeeds, "entered")
  /\ UNCHANGED my_zero

\* A caller that tries once goes on without the guard.
GiveUp(t) ==
  /\ at[t] = "trying"
  /\ at' = [at EXCEPT ![t] = "outside"]
  /\ UNCHANGED <<atomic_guard, my_zero>>

\* What is stored to give the guard back, and a variant with the value a trylock expects.
StoreZero == 0
Stored == 1

\* atomic_guard.store(1)
Release(t) ==
  /\ at[t] \in {"inside", "entered"}
  /\ atomic_guard' = Stored
  /\ my_zero' = [my_zero EXCEPT ![t] = 0]
  /\ at' = [at EXCEPT ![t] = "outside"]

GuardNext ==
  \/ \E t \in Spinners : StartSpin(t)
  \/ \E t \in Tryers : StartTry(t)
  \/ \E t \in GuardThreads, succeeds \in BOOLEAN : Spin(t, succeeds) \/ Try(t, succeeds)
  \/ \E t \in GuardThreads : GiveUp(t) \/ Release(t)

GuardSpec == GuardInit /\ [][GuardNext]_lockVars

(***************************************************************************)
(* A thread that waits for the guard keeps trying, an exchange that could  *)
(* succeed all the time does not fail spuriously for ever, and a thread    *)
(* that is inside leaves again.                                            *)
(***************************************************************************)
Fairness ==
  \A t \in GuardThreads :
    /\ WF_lockVars(Spin(t, FALSE)) /\ WF_lockVars(Spin(t, TRUE))
    /\ WF_lockVars(Try(t, FALSE)) /\ WF_lockVars(Try(t, TRUE))
    /\ WF_lockVars(Release(t))

GuardFairSpec == GuardSpec /\ Fairness

-----------------------------------------------------------------------------

\* A thread that blocks on a guard (insert_into_wqs on a shared level, the worker on
\* a consumer guard) always gets through: "LL/SC will eventually converge to a
\* successful operation if it is used repeatedly in a loop" (lsm_tree.hpp:88).
SpinConverges == \A t \in Spinners : at[t] = "spinning" ~> at[t] = "inside"

\* A thread that repeats a trylock gets through too, by the same sentence: the
\* loop of insert_into_wqs that pushes to a shared wait queue ends.
TryConverges == \A t \in Tryers : at[t] = "trying" ~> at[t] # "trying"

Holds(t) == at[t] \in {"inside", "entered"}

\* At most one thread at a time is inside, as LevelInfo::decompose expects: it is
\* "called only when the current thread is holding exclusive access".
MutualExclusion == \A t, u \in GuardThreads : Holds(t) /\ Holds(u) => t = u

\* No trylock ever succeeds, whatever the blocking callers of the same guard do in
\* between: every way of giving the guard back stores the value of a taken guard.
\* So insert_into_wqs never pushes to a queue that is flagged as shared.
TryLockNeverSucceeds == \A t \in GuardThreads : at[t] # "entered"
==============================================================================
