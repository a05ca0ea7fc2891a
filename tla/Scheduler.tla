----------------------------- MODULE Scheduler -----------------------------
(***************************************************************************)
(* The scheduling policy: Scheduler::Schedule as a pure function of one    *)
(* step's inputs.  A request is known by its arrival index, which the      *)
(* runtime hands out together with the id and in the same order, so "older"*)
(* is "<".  This module says what the two loops of the code compute;       *)
(* SchedulerLoop takes them one iteration at a time and is checked to      *)
(* reach exactly this result.                                              *)
(*                                                                         *)
(* Inputs of one call:                                                     *)
(*   waiting   sequence of ids, the queue as it stands before any eviction *)
(*   running   sequence of ids                                             *)
(*   prefill   prefill[r]: tokens r feeds if admitted (num_prompt_tokens)  *)
(*   length    length[r]: tokens committed to r's cache                    *)
(*             (num_computed_tokens)                                       *)
(*   free      free blocks of the pool                                     *)
(***************************************************************************)
EXTENDS Integers, Sequences, FiniteSets, OrderedSeqs

CONSTANTS
  BlockSize,          \* tokens per KV block
  MaxNumSeqs,         \* batch-width cap
  MaxBatchedTokens    \* prefill tokens per step

ASSUME SchedulerAssumption ==
  /\ BlockSize \in Nat \ {0}
  /\ MaxNumSeqs \in Nat \ {0}
  /\ MaxBatchedTokens \in Nat \ {0}

\* Blocks that n tokens occupy: n / BlockSize rounded up.
BlocksFor(n) == (n + BlockSize - 1) \div BlockSize

\* Blocks a cache of cur tokens must still allocate to take add more.
BlocksNeeded(cur, add) == BlocksFor(cur + add) - BlocksFor(cur)

\* Blocks the decode set K needs to advance every member by one token.
DecodeDemand(K, length) ==
  SumOver([r \in K |-> BlocksNeeded(length[r], 1)], K)

\* Blocks the sequences of V hold.
BlocksHeld(V, length) == SumOver([r \in V |-> BlocksFor(length[r])], V)

\* Mutant: the eviction loop removes the earliest arrival.
YoungestSubsets(R) == {K \in SUBSET R : \A k \in K, v \in R \ K : k > v}

\* The decode sets the eviction loop passes through: it removes the latest
\* arrival each time, so what is left is always the oldest of R.
OldestSubsets(R) == {K \in SUBSET R : \A k \in K, v \in R \ K : k < v}

\* K can decode once everything else of R has been evicted.
Fits(K, R, length, free) ==
  DecodeDemand(K, length) <= free + BlocksHeld(R \ K, length)

\* The loop stops at the first, hence largest, set that fits.
DecodeSet(R, length, free) ==
  UNION {K \in OldestSubsets(R) : Fits(K, R, length, free)}

\* Admitting the first k of the queue keeps the batch within its width, its
\* token budget and the blocks the decode set leaves over.
Admissible(k, waiting, prefill, width, headroom) ==
  /\ width + k <= MaxNumSeqs
  /\ SumOver([i \in 1..k |-> prefill[waiting[i]]], 1..k) <= MaxBatchedTokens
  /\ SumOver([i \in 1..k |-> BlocksFor(prefill[waiting[i]])], 1..k) <= headroom

\* How many of the queue are admitted: the walk stops at the first that fails,
\* a smaller one behind it is not tried.
NumAdmitted(waiting, prefill, width, headroom) ==
  Cardinality({k \in 1..Len(waiting) :
    \A j \in 1..k : Admissible(j, waiting, prefill, width, headroom)})

\* Mutant: the decode set's demand is not charged before admission.
ScheduleUncharged(waiting, running, prefill, length, free) ==
  LET R == Range(running)
      K == DecodeSet(R, length, free)
      n == NumAdmitted(waiting, prefill, Cardinality(K), free + BlocksHeld(R \ K, length))
  IN [decode  |-> Filter(running, K),
      preempt |-> R \ K,
      prefill |-> SubSeq(waiting, 1, n)]

\* The decision.  preempt is a set here: the code lists it latest first, and
\* the runtime's push_front of each leaves them oldest first.
Schedule(waiting, running, prefill, length, free) ==
  LET R == Range(running)
      K == DecodeSet(R, length, free)
      headroom == free + BlocksHeld(R \ K, length) - DecodeDemand(K, length)
      n == NumAdmitted(waiting, prefill, Cardinality(K), headroom)
  IN [decode  |-> Filter(running, K),
      preempt |-> R \ K,
      prefill |-> SubSeq(waiting, 1, n)]
=============================================================================
