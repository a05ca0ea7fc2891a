--------------------------- MODULE SchedulerLoop ---------------------------
(***************************************************************************)
(* Scheduler::Schedule one loop iteration at a time: charge the decode     *)
(* demand, evict the latest arrival while the demand exceeds the free      *)
(* blocks, charge what is left, then walk the waiting queue.  The run      *)
(* checks that it ends with the decision Scheduler!Schedule describes.     *)
(***************************************************************************)
EXTENDS Scheduler, SequencesExt

CONSTANTS
  Requests,      \* the arrival indices that may be live, a finite set of Nat
  MaxTokens,     \* bound on a cached or prefill length
  MaxFree        \* bound on the pool's free blocks

ASSUME SchedulerLoopAssumption ==
  /\ Requests \in SUBSET Nat /\ IsFiniteSet(Requests)
  /\ MaxTokens \in Nat /\ MaxFree \in Nat

VARIABLES
  in,            \* the call's inputs, fixed
  pc,            \* "evict", "admit" or "done"
  decoding,      \* working decode list
  freeBlocks,    \* notional free blocks
  demand,        \* blocks the decode list still needs
  preempt,       \* out.preempt, in eviction order
  prefillOut,    \* out.prefill
  tokensSoFar    \* tokens_so_far

vars == <<in, pc, decoding, freeBlocks, demand, preempt, prefillOut, tokensSoFar>>

\* The orders in which the elements of S can stand in a queue.
Orders(S) == {s \in [1..Cardinality(S) -> S] : NoDuplicates(s)}

\* One call's inputs: any split of the live requests into a running list (in
\* any order) and a waiting queue.  A running sequence has at least one token
\* cached and a waiting one at least one to prefill.
Inputs ==
  UNION {
    [waiting : Orders(W), running : Orders(Requests \ W),
     prefill : [W -> 1..MaxTokens], length : [Requests \ W -> 1..MaxTokens],
     free : 0..MaxFree] : W \in SUBSET Requests}

Init ==
  /\ in \in Inputs
  /\ pc = "evict"
  /\ decoding = in.running
  /\ freeBlocks = in.free
  /\ demand = DecodeDemand(Range(in.running), in.length)
  /\ preempt = <<>>
  /\ prefillOut = <<>>
  /\ tokensSoFar = 0

\* Mutant: the scan keeps the earliest arrival.
FirstVictimAt ==
  CHOOSE i \in DOMAIN decoding : \A j \in DOMAIN decoding : decoding[i] <= decoding[j]

\* The position the victim scan ends at: the greatest arrival index, the later
\* position on a tie.
VictimAt ==
  CHOOSE i \in DOMAIN decoding :
    \A j \in DOMAIN decoding :
      \/ decoding[j] < decoding[i]
      \/ decoding[j] = decoding[i] /\ j <= i

\* Mutant: the victim's demand is not taken back.
EvictKeepsDemand ==
  /\ pc = "evict"
  /\ demand > freeBlocks
  /\ decoding # <<>>
  /\ LET v == decoding[VictimAt] IN
       /\ preempt' = Append(preempt, v)
       /\ freeBlocks' = freeBlocks + BlocksFor(in.length[v])
       /\ decoding' = SubSeq(decoding, 1, VictimAt - 1)
                        \o SubSeq(decoding, VictimAt + 1, Len(decoding))
  /\ UNCHANGED <<in, pc, demand, prefillOut, tokensSoFar>>

EvictLatest ==
  /\ pc = "evict"
  /\ demand > freeBlocks
  /\ decoding # <<>>
  /\ LET v == decoding[VictimAt] IN
       /\ preempt' = Append(preempt, v)
       /\ demand' = demand - BlocksNeeded(in.length[v], 1)
       /\ freeBlocks' = freeBlocks + BlocksFor(in.length[v])
       /\ decoding' = SubSeq(decoding, 1, VictimAt - 1)
                        \o SubSeq(decoding, VictimAt + 1, Len(decoding))
  /\ UNCHANGED <<in, pc, prefillOut, tokensSoFar>>

ChargeDecode ==
  /\ pc = "evict"
  /\ demand <= freeBlocks \/ decoding = <<>>
  /\ freeBlocks' = freeBlocks - demand
  /\ pc' = "admit"
  /\ UNCHANGED <<in, decoding, demand, preempt, prefillOut, tokensSoFar>>

\* The waiting sequence the walk looks at next.
Candidate == in.waiting[Len(prefillOut) + 1]

CanAdmit ==
  /\ Len(prefillOut) < Len(in.waiting)
  /\ Len(decoding) + Len(prefillOut) < MaxNumSeqs
  /\ tokensSoFar + in.prefill[Candidate] <= MaxBatchedTokens
  /\ BlocksNeeded(0, in.prefill[Candidate]) <= freeBlocks

Admit ==
  /\ pc = "admit"
  /\ CanAdmit
  /\ prefillOut' = Append(prefillOut, Candidate)
  /\ tokensSoFar' = tokensSoFar + in.prefill[Candidate]
  /\ freeBlocks' = freeBlocks - BlocksNeeded(0, in.prefill[Candidate])
  /\ UNCHANGED <<in, pc, decoding, demand, preempt>>

Return ==
  /\ pc = "admit"
  /\ ~CanAdmit
  /\ pc' = "done"
  /\ UNCHANGED <<in, decoding, freeBlocks, demand, preempt, prefillOut, tokensSoFar>>

Next == EvictLatest \/ ChargeDecode \/ Admit \/ Return

Spec == Init /\ [][Next]_vars
----------------------------------------------------------------------------
TypeOK ==
  /\ in \in Inputs
  /\ pc \in {"evict", "admit", "done"}
  /\ decoding \in Seq(Requests)
  /\ freeBlocks \in Nat
  /\ demand \in Nat
  /\ preempt \in Seq(Requests)
  /\ prefillOut \in Seq(Requests)
  /\ tokensSoFar \in 0..MaxBatchedTokens

\* What the two loops return is the decision the engine model schedules with:
\* the same decode list and admitted prefix, whatever the order of the running
\* list and of the queue, and the same victims, listed latest arrival first so
\* that the runtime's push_front of each in turn leaves them in arrival order.
LoopMatchesPolicy ==
  pc = "done" =>
    LET plan == Schedule(in.waiting, in.running, in.prefill, in.length, in.free)
    IN /\ decoding = plan.decode
       /\ preempt = Reverse(Sorted(plan.preempt))
       /\ prefillOut = plan.prefill

\* The charges and refunds never lose or invent a block: what the call still
\* considers free is the pool's free blocks, plus what the victims held, less
\* what the decode set (once charged) and the admitted prompts will take.
BlocksAccounted ==
  /\ TypeOK
  /\ freeBlocks = in.free
                  + BlocksHeld(Range(preempt), in.length)
                  - (IF pc = "evict" THEN 0 ELSE DecodeDemand(Range(decoding), in.length))
                  - BlocksHeld(Range(prefillOut), in.prefill)
=============================================================================
