------------------------ MODULE SchedulerLoopProofs ------------------------
(***************************************************************************)
(* Scheduler::Schedule's two loops compute the policy that Scheduler       *)
(* states, for every queue, running list, length and pool.                 *)
(*                                                                         *)
(* The eviction loop keeps the oldest of the running list, in its order    *)
(* (KeptInv, VictimsInv), and never evicts a sequence of a set that could  *)
(* have decoded (BestInv): when it stops, what is left is the largest such *)
(* set.  The walk over the queue keeps its sums (WalkInv): when it stops,  *)
(* every prefix it passed was admissible and the next one is not.          *)
(***************************************************************************)
EXTENDS SchedulerLoop, SchedulerProofs

Running == Range(in.running)
Kept == Range(decoding)

\* What is left of the running list is a part of it, in its order.
KeptInv ==
  /\ NoDuplicates(decoding)
  /\ \E at \in Seq(Nat) :
       /\ Len(at) = Len(decoding)
       /\ \A i, j \in 1..Len(at) : i < j => at[i] < at[j]
       /\ \A k \in 1..Len(at) : /\ at[k] \in 1..Len(in.running)
                                /\ decoding[k] = in.running[at[k]]

\* The victims are the rest, listed latest first, all younger than what is left.
VictimsInv ==
  /\ Kept \subseteq Running
  /\ Range(preempt) = Running \ Kept
  /\ \A i, j \in 1..Len(preempt) : i < j => preempt[i] > preempt[j]
  /\ \A k \in Kept : \A v \in Range(preempt) : k < v

\* No set that could have decoded has lost a member.
BestInv ==
  \A K \in OldestSubsets(Running) : Fits(K, Running, in.length, in.free) => K \subseteq Kept

\* Blocks left for admission once the decode set is charged.
Headroom == in.free + BlocksHeld(Range(preempt), in.length) - demand

\* The admitted ones so far: a prefix of the queue, with its sums.
WalkInv ==
  LET n == Len(prefillOut)
  IN /\ n <= Len(in.waiting)
     /\ \A i \in 1..n : prefillOut[i] = in.waiting[i]
     /\ tokensSoFar = SumOver([i \in 1..n |-> in.prefill[in.waiting[i]]], 1..n)
     /\ pc = "evict" => n = 0 /\ freeBlocks = in.free + BlocksHeld(Range(preempt), in.length)
     /\ pc # "evict" =>
          /\ Headroom >= 0
          /\ freeBlocks
               = Headroom
                   - SumOver([i \in 1..n |-> BlocksFor(in.prefill[in.waiting[i]])], 1..n)
          /\ \A j \in 1..n :
               Admissible(j, in.waiting, in.prefill, Len(decoding), Headroom)
     /\ pc = "done" => ~CanAdmit

IInv ==
  /\ TypeOK
  /\ KeptInv
  /\ VictimsInv
  /\ BestInv
  /\ demand = DecodeDemand(Kept, in.length)
  /\ WalkInv

\* A call's inputs: two lists without repetitions, lengths and free blocks.
LEMMA InputFacts ==
  ASSUME in \in Inputs
  PROVE  /\ in.waiting \in Seq(Requests) /\ NoDuplicates(in.waiting)
         /\ in.running \in Seq(Requests) /\ NoDuplicates(in.running)
         /\ in.free \in Nat
         /\ \A r \in Range(in.waiting) : in.prefill[r] \in Nat
         /\ \A r \in Range(in.running) : in.length[r] \in Nat
<1>1. PICK W \in SUBSET Requests :
        in \in [waiting : Orders(W), running : Orders(Requests \ W),
                prefill : [W -> 1..MaxTokens], length : [Requests \ W -> 1..MaxTokens],
                free : 0..MaxFree]
  BY DEF Inputs
<1>2. /\ in.waiting \in Orders(W) /\ in.running \in Orders(Requests \ W)
      /\ in.prefill \in [W -> 1..MaxTokens] /\ in.length \in [Requests \ W -> 1..MaxTokens]
      /\ in.free \in 0..MaxFree
  BY <1>1
<1>3. ASSUME NEW S \in SUBSET Requests, NEW s \in Orders(S)
      PROVE  s \in Seq(Requests) /\ NoDuplicates(s) /\ Range(s) \subseteq S
  <2>1. IsFiniteSet(S)
    BY SchedulerLoopAssumption, FS_Subset
  <2>2. PICK n \in Nat : n = Cardinality(S)
    BY <2>1, FS_CardinalityType
  <2>3. s \in [1..n -> S] /\ NoDuplicates(s)
    BY <2>2 DEF Orders
  <2>4. s \in Seq(S)
    BY <2>3
  <2> QED
    BY <2>3, <2>4, RangeType
<1>4. in.waiting \in Seq(Requests) /\ NoDuplicates(in.waiting) /\ Range(in.waiting) \subseteq W
  BY <1>2, <1>3
<1>5. /\ in.running \in Seq(Requests) /\ NoDuplicates(in.running)
      /\ Range(in.running) \subseteq Requests \ W
  <2>1. Requests \ W \in SUBSET Requests
    OBVIOUS
  <2> QED
    BY <1>2, <1>3, <2>1
<1>6. in.free \in Nat /\ \A n \in 1..MaxTokens : n \in Nat
  BY <1>2, SchedulerLoopAssumption
<1>7. \A r \in Range(in.waiting) : in.prefill[r] \in Nat
  BY <1>2, <1>4, <1>6
<1>8. \A r \in Range(in.running) : in.length[r] \in Nat
  BY <1>2, <1>5, <1>6
<1> QED
  BY <1>4, <1>5, <1>6, <1>7, <1>8

\* What the lists of a state are made of.
LEMMA StateFacts ==
  ASSUME TypeOK
  PROVE  /\ Running \in SUBSET Nat /\ IsFiniteSet(Running)
         /\ Kept \in SUBSET Nat
         /\ \A r \in Running : in.length[r] \in Nat
<1>1. in.running \in Seq(Requests) /\ NoDuplicates(in.running)
  BY InputFacts DEF TypeOK
<1>2. Running \subseteq Requests /\ IsFiniteSet(Running)
  BY <1>1, RangeType, LengthFacts DEF Running
<1>3. Kept \subseteq Requests
  BY RangeType DEF TypeOK, Kept
<1> QED
  BY <1>2, <1>3, InputFacts, SchedulerLoopAssumption DEF TypeOK, Running

\* Before the first iteration nothing is evicted and nothing admitted.
LEMMA InitIInv == Init => IInv
<1> SUFFICES ASSUME Init PROVE IInv
  OBVIOUS
<1>1. /\ in \in Inputs /\ pc = "evict" /\ decoding = in.running /\ freeBlocks = in.free
      /\ demand = DecodeDemand(Running, in.length) /\ preempt = <<>> /\ prefillOut = <<>>
      /\ tokensSoFar = 0
  BY DEF Init, Running
<1>2. /\ in.waiting \in Seq(Requests) /\ in.running \in Seq(Requests)
      /\ NoDuplicates(in.running) /\ in.free \in Nat
      /\ \A r \in Running : in.length[r] \in Nat
  BY <1>1, InputFacts DEF Running
<1>3. IsFiniteSet(Running) /\ Kept = Running /\ Range(preempt) = {}
  BY <1>1, <1>2, LengthFacts, EmptyFacts DEF Running, Kept
<1>4. demand \in Nat
  BY <1>1, <1>2, <1>3, HeldAndDemand
<1>5. TypeOK
  BY <1>1, <1>2, <1>4, SchedulerAssumption DEF TypeOK
<1>6. KeptInv
  <2>1. PICK n \in Nat : n = Len(in.running)
    BY <1>2
  <2>2. PICK at : at = [i \in 1..n |-> i]
    OBVIOUS
  <2>3. at \in Seq(Nat) /\ Len(at) = n /\ \A i \in 1..n : at[i] = i
    BY <2>2
  <2>4. /\ Len(at) = Len(decoding)
        /\ \A i, j \in 1..Len(at) : i < j => at[i] < at[j]
        /\ \A k \in 1..Len(at) : /\ at[k] \in 1..Len(in.running)
                                 /\ decoding[k] = in.running[at[k]]
    BY <1>1, <2>1, <2>3
  <2> QED
    BY <1>1, <1>2, <2>3, <2>4 DEF KeptInv
<1>7. VictimsInv
  BY <1>1, <1>3 DEF VictimsInv
<1>8. BestInv
  BY <1>3 DEF BestInv, OldestSubsets
<1>9. WalkInv
  <2>1. BlocksHeld({}, in.length) = 0
    BY FS_EmptySet, HeldAndDemand
  <2>2. PICK f : f = [i \in 1..0 |-> in.prefill[in.waiting[i]]]
    OBVIOUS
  <2>3. SumOver(f, 1..0) = 0
    <3>1. 1..0 = {} /\ IsFiniteSet({})
      BY FS_EmptySet
    <3>2. SumOver(f, {}) = 0
      BY <3>1, SumType
    <3> QED
      BY <3>1, <3>2
  <2>4. Len(prefillOut) = 0 /\ Len(in.waiting) \in Nat
    BY <1>1, <1>2
  <2>5. tokensSoFar = SumOver([i \in 1..0 |-> in.prefill[in.waiting[i]]], 1..0)
    BY <1>1, <2>2, <2>3
  <2>6. freeBlocks = in.free + BlocksHeld(Range(preempt), in.length)
    <3>1. BlocksHeld(Range(preempt), in.length) = 0
      BY <1>3, <2>1
    <3> QED
      BY <1>1, <1>2, <3>1
  <2> QED
    BY <1>1, <2>4, <2>5, <2>6 DEF WalkInv
<1> QED
  BY <1>1, <1>3, <1>5, <1>6, <1>7, <1>8, <1>9 DEF IInv

\* The scan ends at the latest arrival of what is left.
LEMMA VictimFacts ==
  ASSUME TypeOK, NoDuplicates(decoding), decoding # <<>>
  PROVE  /\ VictimAt \in 1..Len(decoding)
         /\ \A r \in Kept : r <= decoding[VictimAt]
<1>1. /\ decoding \in Seq(Requests) /\ DOMAIN decoding = 1..Len(decoding)
      /\ Len(decoding) \in Nat /\ 1 \in DOMAIN decoding
  BY DEF TypeOK
<1>2. Kept \in SUBSET Nat /\ IsFiniteSet(Kept) /\ Kept # {}
  BY <1>1, StateFacts, LengthFacts DEF Kept, Range
<1>3. PICK m \in Kept : \A r \in Kept : r <= m
  BY <1>2, GreatestExists
<1>4. PICK i \in DOMAIN decoding : m = decoding[i]
  BY <1>3 DEF Kept, Range
<1>5. \A j \in DOMAIN decoding : \/ decoding[j] < decoding[i]
                                 \/ decoding[j] = decoding[i] /\ j <= i
  <2> SUFFICES ASSUME NEW j \in DOMAIN decoding
               PROVE  \/ decoding[j] < decoding[i]
                      \/ decoding[j] = decoding[i] /\ j <= i
    OBVIOUS
  <2>1. decoding[j] \in Kept /\ decoding[i] \in Kept
    BY DEF Kept, Range
  <2>2. decoding[j] <= decoding[i] /\ decoding[j] \in Nat /\ decoding[i] \in Nat
    BY <1>2, <1>3, <1>4, <2>1
  <2>3. decoding[j] = decoding[i] => j = i
    BY DEF NoDuplicates
  <2> QED
    BY <1>1, <2>2, <2>3
<1>6. /\ VictimAt \in DOMAIN decoding
      /\ \A j \in DOMAIN decoding : \/ decoding[j] < decoding[VictimAt]
                                    \/ decoding[j] = decoding[VictimAt] /\ j <= VictimAt
  BY <1>5 DEF VictimAt
<1>7. ASSUME NEW r \in Kept PROVE r <= decoding[VictimAt]
  <2>1. PICK j \in DOMAIN decoding : r = decoding[j]
    BY DEF Kept, Range
  <2>2. decoding[VictimAt] \in Kept
    BY <1>6 DEF Kept, Range
  <2>3. r < decoding[VictimAt] \/ r = decoding[VictimAt]
    BY <1>6, <2>1
  <2>4. r \in Nat /\ decoding[VictimAt] \in Nat
    BY <1>2, <2>2
  <2> QED
    BY <2>3, <2>4
<1> QED
  BY <1>1, <1>6, <1>7

\* One eviction: the latest arrival of what is left, whose blocks come back and
\* whose demand goes.
LEMMA EvictInv ==
  ASSUME IInv, EvictLatest
  PROVE  IInv'
<1>1. PICK i : i = VictimAt
  OBVIOUS
<1>2. PICK v : v = decoding[i]
  OBVIOUS
<1>3. /\ pc = "evict" /\ demand > freeBlocks /\ decoding # <<>>
      /\ preempt' = Append(preempt, v)
      /\ demand' = demand - BlocksNeeded(in.length[v], 1)
      /\ freeBlocks' = freeBlocks + BlocksFor(in.length[v])
      /\ decoding' = SubSeq(decoding, 1, i - 1) \o SubSeq(decoding, i + 1, Len(decoding))
      /\ UNCHANGED <<in, pc, prefillOut, tokensSoFar>>
  BY <1>1, <1>2 DEF EvictLatest
<1>4. /\ TypeOK /\ decoding \in Seq(Requests) /\ NoDuplicates(decoding)
      /\ preempt \in Seq(Requests) /\ in \in Inputs
  BY DEF IInv, TypeOK, KeptInv
<1>5. i \in 1..Len(decoding) /\ \A r \in Kept : r <= v
  BY <1>1, <1>2, <1>3, <1>4, VictimFacts
<1>6. v \in Kept /\ v \in Requests
  BY <1>2, <1>4, <1>5 DEF Kept, Range
<1>7. PICK n \in Nat : n = Len(decoding)
  BY <1>4
<1>8. /\ decoding' \in Seq(Requests) /\ Len(decoding') = n - 1
      /\ \A k \in 1..(i - 1) : decoding'[k] = decoding[k]
      /\ \A k \in i..(n - 1) : decoding'[k] = decoding[k + 1]
      /\ NoDuplicates(decoding') /\ Kept' = Kept \ {v}
  <2>1. decoding \in Seq(Requests) /\ i \in 1..Len(decoding)
    BY <1>4, <1>5
  <2>2. Cut(decoding, i) \in Seq(Requests) /\ Len(Cut(decoding, i)) = Len(decoding) - 1
    BY <2>1, CutAt
  <2>3. /\ \A k \in 1..(i - 1) : Cut(decoding, i)[k] = decoding[k]
        /\ \A k \in i..(Len(decoding) - 1) : Cut(decoding, i)[k] = decoding[k + 1]
    BY <2>1, CutAt
  <2>4. /\ NoDuplicates(Cut(decoding, i))
        /\ Range(Cut(decoding, i)) = Range(decoding) \ {decoding[i]}
    BY <1>4, <2>1, CutFacts
  <2>5. decoding' = Cut(decoding, i)
    BY <1>3 DEF Cut
  <2> QED
    BY <1>2, <1>7, <2>2, <2>3, <2>4, <2>5 DEF Kept
<1>9. Running' = Running /\ Running \in SUBSET Nat /\ IsFiniteSet(Running)
      /\ (\A r \in Running : in.length[r] \in Nat) /\ Kept \in SUBSET Nat
  BY <1>3, <1>4, StateFacts DEF Running
<1>10. KeptInv'
  <2>1. PICK at \in Seq(Nat) :
          /\ Len(at) = n
          /\ \A j, k \in 1..n : j < k => at[j] < at[k]
          /\ \A k \in 1..n : at[k] \in 1..Len(in.running) /\ decoding[k] = in.running[at[k]]
    BY <1>7 DEF IInv, KeptInv
  <2>3. i \in 1..n /\ i \in 1..Len(at)
    BY <1>5, <1>7, <2>1
  <2>2. PICK bt : /\ bt \in Seq(Nat) /\ Len(bt) = n - 1
                  /\ \A k \in 1..(i - 1) : bt[k] = at[k]
                  /\ \A k \in i..(n - 1) : bt[k] = at[k + 1]
    <3>1. Cut(at, i) \in Seq(Nat) /\ Len(Cut(at, i)) = Len(at) - 1
      BY <2>3, CutAt
    <3>2. /\ \A k \in 1..(i - 1) : Cut(at, i)[k] = at[k]
          /\ \A k \in i..(Len(at) - 1) : Cut(at, i)[k] = at[k + 1]
      BY <2>3, CutAt
    <3> QED
      BY <2>1, <3>1, <3>2
  <2>4. \A k \in 1..(n - 1) : \/ k < i /\ bt[k] = at[k] /\ decoding'[k] = decoding[k]
                              \/ /\ i <= k /\ bt[k] = at[k + 1]
                                 /\ decoding'[k] = decoding[k + 1]
    <3> SUFFICES ASSUME NEW k \in 1..(n - 1)
                 PROVE  \/ k < i /\ bt[k] = at[k] /\ decoding'[k] = decoding[k]
                        \/ /\ i <= k /\ bt[k] = at[k + 1]
                           /\ decoding'[k] = decoding[k + 1]
      OBVIOUS
    <3>1. (k < i /\ k \in 1..(i - 1)) \/ (i <= k /\ k \in i..(n - 1))
      BY <2>3
    <3> QED
      BY <1>8, <2>2, <3>1
  <2>5. \A j, k \in 1..(n - 1) : j < k => bt[j] < bt[k]
    <3> SUFFICES ASSUME NEW j \in 1..(n - 1), NEW k \in 1..(n - 1), j < k
                 PROVE  bt[j] < bt[k]
      OBVIOUS
    <3>1. j \in 1..n /\ k \in 1..n /\ j + 1 \in 1..n /\ k + 1 \in 1..n
      OBVIOUS
    <3>2. at[j] < at[k] /\ at[j] < at[k + 1] /\ at[j + 1] < at[k + 1]
      BY <2>1, <3>1
    <3>3. (j < i /\ bt[j] = at[j]) \/ (i <= j /\ bt[j] = at[j + 1])
      BY <2>4
    <3>4. (k < i /\ bt[k] = at[k]) \/ (i <= k /\ bt[k] = at[k + 1])
      BY <2>4
    <3>5. ~(k < i /\ i <= j)
      BY <2>3
    <3> QED
      BY <3>2, <3>3, <3>4, <3>5
  <2>6. \A k \in 1..(n - 1) : /\ bt[k] \in 1..Len(in.running)
                              /\ decoding'[k] = in.running[bt[k]]
    <3> SUFFICES ASSUME NEW k \in 1..(n - 1)
                 PROVE  bt[k] \in 1..Len(in.running) /\ decoding'[k] = in.running[bt[k]]
      OBVIOUS
    <3>1. k \in 1..n /\ k + 1 \in 1..n
      OBVIOUS
    <3> QED
      BY <1>8, <2>1, <2>4, <3>1
  <2> QED
    BY <1>3, <1>8, <2>2, <2>5, <2>6 DEF KeptInv
<1>11. Kept \subseteq Running /\ v \in Running /\ v \notin Range(preempt)
  BY <1>6 DEF IInv, VictimsInv
<1>12. preempt' \in Seq(Requests) /\ Range(preempt') = Range(preempt) \cup {v}
       /\ Len(preempt') = Len(preempt) + 1
  BY <1>3, <1>4, <1>6, AppendFacts
<1>13. VictimsInv'
  <2>1. Kept' \subseteq Running' /\ Range(preempt') = Running' \ Kept'
    BY <1>6, <1>8, <1>9, <1>11, <1>12 DEF IInv, VictimsInv
  <2>2. ASSUME NEW j \in 1..Len(preempt'), NEW k \in 1..Len(preempt'), j < k
        PROVE  preempt'[j] > preempt'[k]
    <3>1. PICK m \in Nat : m = Len(preempt)
      BY <1>4
    <3>2. j \in 1..m /\ (k \in 1..m \/ k = m + 1)
      BY <1>12, <2>2, <3>1
    <3>3. /\ preempt'[m + 1] = v
          /\ \A l \in 1..m : preempt'[l] = preempt[l] /\ preempt[l] \in Range(preempt)
      BY <1>3, <1>4, <3>1 DEF Range
    <3>4. v < preempt[j] /\ preempt[j] \in Nat
      <4>1. preempt[j] \in Running
        BY <3>2, <3>3 DEF IInv, VictimsInv
      <4> QED
        BY <1>6, <1>9, <3>2, <3>3, <4>1 DEF IInv, VictimsInv
    <3>5. CASE k \in 1..m
      BY <2>2, <3>1, <3>2, <3>3, <3>5 DEF IInv, VictimsInv
    <3>6. CASE k = m + 1
      BY <1>9, <1>11, <3>2, <3>3, <3>4, <3>6
    <3> QED
      BY <3>2, <3>5, <3>6
  <2>3. \A k \in Kept' : \A w \in Range(preempt') : k < w
    <3> SUFFICES ASSUME NEW k \in Kept, k # v, NEW w \in Range(preempt) \cup {v}
                 PROVE  k < w
      BY <1>8, <1>12
    <3>1. k \in Nat /\ v \in Nat /\ k <= v
      BY <1>5, <1>6, <1>9
    <3> QED
      BY <3>1 DEF IInv, VictimsInv
  <2> QED
    BY <2>1, <2>2, <2>3 DEF VictimsInv
<1>14. PICK held \in Nat : held = BlocksHeld(Range(preempt), in.length)
  <2>1. Range(preempt) \subseteq Running /\ IsFiniteSet(Range(preempt))
    BY <1>9, FS_Subset DEF IInv, VictimsInv
  <2> QED
    BY <1>9, <2>1, HeldAndDemand
<1>15. PICK b \in Nat : b = BlocksFor(in.length[v])
  BY <1>9, <1>11, BlocksForFacts
<1>16. BlocksHeld(Range(preempt'), in.length) = b + held
  <2>1. PICK V : V = Range(preempt) \cup {v}
    OBVIOUS
  <2>2. IsFiniteSet(V) /\ V \subseteq Running /\ v \in V /\ V \ {v} = Range(preempt)
    BY <1>9, <1>11, <2>1, FS_Subset DEF IInv, VictimsInv
  <2>3. BlocksHeld(V, in.length) = BlocksFor(in.length[v]) + BlocksHeld(V \ {v}, in.length)
    BY <1>9, <2>2, HeldTake
  <2> QED
    BY <1>12, <1>14, <1>15, <2>1, <2>2, <2>3
<1>17. PICK x \in Int : /\ x = BlocksNeeded(in.length[v], 1)
                        /\ DecodeDemand(Kept, in.length) = x + DecodeDemand(Kept \ {v}, in.length)
  <2>1. IsFiniteSet(Kept) /\ \A r \in Kept : in.length[r] \in Nat
    BY <1>9, <1>11, FS_Subset
  <2> QED
    BY <1>6, <2>1, DemandTake
<1>18. PICK y \in Nat : y = DecodeDemand(Kept \ {v}, in.length)
  <2>1. PICK L : L = Kept \ {v}
    OBVIOUS
  <2>2. IsFiniteSet(L) /\ \A r \in L : in.length[r] \in Nat
    BY <1>9, <1>11, <2>1, FS_Subset
  <2> QED
    BY <2>1, <2>2, HeldAndDemand
<1>19. demand' = DecodeDemand(Kept', in'.length) /\ demand' \in Nat
  BY <1>3, <1>8, <1>17, <1>18 DEF IInv
<1>20. in.free \in Nat /\ freeBlocks \in Nat /\ freeBlocks = in.free + held
  BY <1>3, <1>4, <1>14, InputFacts DEF IInv, TypeOK, WalkInv
<1>21. TypeOK'
  <2>1. freeBlocks' \in Nat
    <3>1. freeBlocks' = freeBlocks + b
      BY <1>3, <1>15
    <3> QED
      BY <1>15, <1>20, <3>1
  <2>2. pc' \in {"evict", "admit", "done"} /\ in' \in Inputs /\ preempt' \in Seq(Requests)
    BY <1>3, <1>4, <1>12
  <2>3. prefillOut' \in Seq(Requests) /\ tokensSoFar' \in 0..MaxBatchedTokens
    BY <1>3 DEF IInv, TypeOK
  <2> QED
    BY <1>8, <1>19, <2>1, <2>2, <2>3 DEF TypeOK
<1>22. BestInv'
  <2> SUFFICES ASSUME NEW K \in OldestSubsets(Running),
                      Fits(K, Running, in.length, in.free)
               PROVE  K \subseteq Kept \ {v}
    BY <1>3, <1>8, <1>9 DEF BestInv
  <2>1. K \subseteq Kept
    BY DEF IInv, BestInv
  <2>2. ~Fits(Kept, Running, in.length, in.free)
    <3>1. Range(preempt) = Running \ Kept /\ demand = DecodeDemand(Kept, in.length)
      BY DEF IInv, VictimsInv
    <3>2. demand \in Nat
      BY DEF IInv, TypeOK
    <3> QED
      BY <1>3, <1>14, <1>20, <3>1, <3>2 DEF Fits
  <2>3. K # Kept
    BY <2>2
  <2>4. PICK d \in Kept : d \notin K
    BY <2>1, <2>3
  <2>5. ASSUME v \in K PROVE FALSE
    <3>1. v < d
      BY <1>11, <2>4, <2>5 DEF OldestSubsets
    <3>2. d <= v /\ d \in Nat /\ v \in Nat
      BY <1>5, <1>6, <1>9, <2>4
    <3> QED
      BY <3>1, <3>2
  <2> QED
    BY <2>1, <2>5
<1>23. WalkInv'
  <2>1. freeBlocks' = in.free + BlocksHeld(Range(preempt'), in.length)
    BY <1>3, <1>15, <1>16, <1>20
  <2> QED
    BY <1>3, <2>1 DEF IInv, WalkInv
<1> QED
  BY <1>10, <1>13, <1>19, <1>21, <1>22, <1>23 DEF IInv

\* The blocks of the victims, and what they leave for admission, are numbers.
LEMMA HeadroomType ==
  ASSUME IInv
  PROVE  /\ in.free \in Nat /\ BlocksHeld(Range(preempt), in.length) \in Nat
         /\ Headroom \in Int
<1>1. TypeOK /\ in.free \in Nat /\ demand \in Nat
  BY InputFacts DEF IInv, TypeOK
<1>2. Range(preempt) \subseteq Running
  BY DEF IInv, VictimsInv
<1>3. IsFiniteSet(Range(preempt)) /\ \A r \in Range(preempt) : in.length[r] \in Nat
  BY <1>1, <1>2, StateFacts, FS_Subset
<1>4. BlocksHeld(Range(preempt), in.length) \in Nat
  BY <1>3, HeldAndDemand
<1> QED
  BY <1>1, <1>4 DEF Headroom

\* The decode set is charged: it fits, or nothing is left of it to charge.
LEMMA ChargeInv ==
  ASSUME IInv, ChargeDecode
  PROVE  IInv'
<1>1. /\ pc = "evict" /\ (demand <= freeBlocks \/ decoding = <<>>)
      /\ freeBlocks' = freeBlocks - demand /\ pc' = "admit"
      /\ UNCHANGED <<in, decoding, demand, preempt, prefillOut, tokensSoFar>>
  BY DEF ChargeDecode
<1>2. TypeOK /\ freeBlocks \in Nat /\ demand \in Nat
  BY DEF IInv, TypeOK
<1>3. decoding = <<>> => demand = 0
  <2> SUFFICES ASSUME decoding = <<>> PROVE demand = 0
    OBVIOUS
  <2>1. Kept = {}
    BY EmptyFacts DEF Kept
  <2>2. DecodeDemand({}, in.length) = 0
    BY FS_EmptySet, HeldAndDemand
  <2> QED
    BY <2>1, <2>2 DEF IInv
<1>4. freeBlocks - demand \in Nat
  BY <1>1, <1>2, <1>3
<1>5. TypeOK'
  BY <1>1, <1>2, <1>4 DEF TypeOK
<1>6. KeptInv' /\ VictimsInv' /\ BestInv'
  BY <1>1 DEF IInv, KeptInv, VictimsInv, BestInv, Kept, Running
<1>7. demand' = DecodeDemand(Kept', in'.length)
  BY <1>1 DEF IInv, Kept
<1>8. WalkInv'
  <2>1. /\ Len(prefillOut) = 0 /\ freeBlocks = in.free + BlocksHeld(Range(preempt), in.length)
        /\ 0 <= Len(in.waiting)
        /\ tokensSoFar = SumOver([i \in 1..0 |-> in.prefill[in.waiting[i]]], 1..0)
    BY <1>1 DEF IInv, WalkInv
  <2>2. Headroom' = freeBlocks'
    <3>1. Headroom' = Headroom
      BY <1>1 DEF Headroom
    <3>2. PICK f \in Nat : f = in.free
      BY HeadroomType
    <3>3. PICK h \in Nat : h = BlocksHeld(Range(preempt), in.length)
      BY HeadroomType
    <3>4. PICK d \in Nat : d = demand
      BY <1>2
    <3>5. Headroom = f + h - d
      BY <3>2, <3>3, <3>4, Zenon DEF Headroom
    <3>6. freeBlocks = f + h
      BY <2>1, <3>2, <3>3, Zenon
    <3>7. freeBlocks' = freeBlocks - d
      BY <1>1, <3>4, Zenon
    <3>8. freeBlocks' = f + h - d
      BY <1>2, <3>6, <3>7
    <3> QED
      BY <3>1, <3>5, <3>8, Zenon
  <2>3. PICK g : g = [i \in 1..0 |-> BlocksFor(in.prefill[in.waiting[i]])]
    OBVIOUS
  <2>4. SumOver(g, 1..0) = 0
    <3>1. 1..0 = {} /\ SumOver(g, {}) = 0
      BY FS_EmptySet, SumType
    <3> QED
      BY <3>1
  <2>5. freeBlocks' = Headroom' - SumOver(g, 1..0) /\ Headroom' >= 0
    BY <1>1, <1>4, <2>2, <2>4
  <2>6. \A j \in 1..0 : FALSE
    <3>1. 1..0 = {}
      OBVIOUS
    <3> QED
      BY <3>1, Zenon
  <2> QED
    BY <1>1, <2>1, <2>3, <2>5, <2>6 DEF WalkInv
<1> QED
  BY <1>5, <1>6, <1>7, <1>8 DEF IInv

\* What the next of the queue adds to the walk's two sums.
LEMMA WalkSums ==
  ASSUME in \in Inputs, NEW n \in Nat, n < Len(in.waiting)
  PROVE  LET T(k) == SumOver([i \in 1..k |-> in.prefill[in.waiting[i]]], 1..k)
             B(k) == SumOver([i \in 1..k |-> BlocksFor(in.prefill[in.waiting[i]])], 1..k)
             p == in.prefill[in.waiting[n + 1]]
         IN /\ p \in Nat /\ in.waiting[n + 1] \in Requests /\ BlocksFor(p) \in Nat
            /\ T(n) \in Int /\ B(n) \in Int
            /\ T(n + 1) = p + T(n) /\ B(n + 1) = BlocksFor(p) + B(n)
<1>1. in.waiting \in Seq(Requests) /\ \A r \in Range(in.waiting) : in.prefill[r] \in Nat
  BY InputFacts
<1>2. \A i \in 1..(n + 1) : /\ in.waiting[i] \in Requests /\ in.waiting[i] \in Range(in.waiting)
  BY <1>1 DEF Range
<1>3. \A i \in 1..(n + 1) : /\ in.prefill[in.waiting[i]] \in Nat
                            /\ BlocksFor(in.prefill[in.waiting[i]]) \in Nat
  BY <1>1, <1>2, BlocksForFacts
<1>4. PICK f : f = [i \in 1..(n + 1) |-> in.prefill[in.waiting[i]]]
  OBVIOUS
<1>5. PICK e : e = [i \in 1..n |-> in.prefill[in.waiting[i]]]
  OBVIOUS
<1>6. PICK g : g = [i \in 1..(n + 1) |-> BlocksFor(in.prefill[in.waiting[i]])]
  OBVIOUS
<1>7. PICK h : h = [i \in 1..n |-> BlocksFor(in.prefill[in.waiting[i]])]
  OBVIOUS
<1>8. /\ \A i \in 1..(n + 1) : f[i] \in Int /\ g[i] \in Int
      /\ \A i \in 1..n : e[i] = f[i] /\ h[i] = g[i] /\ e[i] \in Int /\ h[i] \in Int
      /\ f[n + 1] = in.prefill[in.waiting[n + 1]]
      /\ g[n + 1] = BlocksFor(in.prefill[in.waiting[n + 1]])
  BY <1>3, <1>4, <1>5, <1>6, <1>7
<1>9. SumOver(f, 1..(n + 1)) = f[n + 1] + SumOver(e, 1..n)
  BY <1>8, SumNext
<1>10. SumOver(g, 1..(n + 1)) = g[n + 1] + SumOver(h, 1..n)
  BY <1>8, SumNext
<1>11. SumOver(e, 1..n) \in Int /\ SumOver(h, 1..n) \in Int
  <2>1. IsFiniteSet(1..n)
    BY CountUp
  <2> QED
    BY <1>8, <2>1, SumType
<1>12. n + 1 \in 1..(n + 1)
  OBVIOUS
<1> QED
  BY <1>2, <1>3, <1>4, <1>5, <1>6, <1>7, <1>8, <1>9, <1>10, <1>11, <1>12

\* One admission: the next of the queue, whose tokens and blocks join the sums.
LEMMA AdmitInv ==
  ASSUME IInv, Admit
  PROVE  IInv'
<1>1. PICK n \in Nat : n = Len(prefillOut)
  BY DEF IInv, TypeOK
<1>2. PICK c : c = in.waiting[n + 1]
  OBVIOUS
<1>3. PICK p : p = in.prefill[c]
  OBVIOUS
<1>4. /\ pc = "admit" /\ n < Len(in.waiting) /\ Len(decoding) + n < MaxNumSeqs
      /\ tokensSoFar + p <= MaxBatchedTokens /\ BlocksNeeded(0, p) <= freeBlocks
      /\ prefillOut' = Append(prefillOut, c) /\ tokensSoFar' = tokensSoFar + p
      /\ freeBlocks' = freeBlocks - BlocksNeeded(0, p)
      /\ UNCHANGED <<in, pc, decoding, demand, preempt>>
  BY <1>1, <1>2, <1>3 DEF Admit, CanAdmit, Candidate
<1>5. /\ TypeOK /\ in \in Inputs /\ freeBlocks \in Nat /\ demand \in Nat
      /\ prefillOut \in Seq(Requests) /\ decoding \in Seq(Requests)
      /\ tokensSoFar \in 0..MaxBatchedTokens /\ MaxBatchedTokens \in Nat
  BY SchedulerAssumption DEF IInv, TypeOK
<1> DEFINE T(k) == SumOver([i \in 1..k |-> in.prefill[in.waiting[i]]], 1..k)
           B(k) == SumOver([i \in 1..k |-> BlocksFor(in.prefill[in.waiting[i]])], 1..k)
<1>6. PICK b \in Nat : b = BlocksFor(p)
  BY <1>2, <1>3, <1>4, <1>5, WalkSums
<1>7. /\ p \in Nat /\ c \in Requests
      /\ T(n) \in Int /\ B(n) \in Int /\ T(n + 1) = p + T(n) /\ B(n + 1) = b + B(n)
  BY <1>2, <1>3, <1>4, <1>5, <1>6, WalkSums
<1> HIDE DEF T, B
<1>8. BlocksNeeded(0, p) = b
  <2>1. 0 + p = p /\ BlocksFor(0) = 0
    BY <1>7, BlocksForFacts
  <2> QED
    BY <1>6, <2>1 DEF BlocksNeeded
<1>9. /\ \A i \in 1..n : prefillOut[i] = in.waiting[i]
      /\ tokensSoFar = T(n) /\ Headroom >= 0 /\ freeBlocks = Headroom - B(n)
      /\ \A j \in 1..n : Admissible(j, in.waiting, in.prefill, Len(decoding), Headroom)
  BY <1>1, <1>4 DEF IInv, WalkInv, T, B
<1>10. Headroom \in Int
  BY HeadroomType
<1>11. Headroom' = Headroom
  BY <1>4 DEF Headroom
<1>12. TypeOK'
  <2>1. prefillOut' \in Seq(Requests)
    BY <1>4, <1>5, <1>7
  <2>2. tokensSoFar' \in 0..MaxBatchedTokens
    BY <1>4, <1>5, <1>7
  <2>3. freeBlocks' \in Nat
    BY <1>4, <1>5, <1>6, <1>8
  <2>4. /\ in' \in Inputs /\ pc' \in {"evict", "admit", "done"} /\ decoding' \in Seq(Requests)
        /\ demand' \in Nat /\ preempt' \in Seq(Requests)
    BY <1>4, <1>5 DEF TypeOK
  <2> QED
    BY <2>1, <2>2, <2>3, <2>4 DEF TypeOK
<1>13. KeptInv' /\ VictimsInv' /\ BestInv'
  BY <1>4 DEF IInv, KeptInv, VictimsInv, BestInv, Kept, Running
<1>14. demand' = DecodeDemand(Kept', in'.length)
  BY <1>4 DEF IInv, Kept
<1>15. Admissible(n + 1, in.waiting, in.prefill, Len(decoding), Headroom)
  <2>1. Len(decoding) \in Nat /\ MaxNumSeqs \in Nat
    BY <1>5, SchedulerAssumption
  <2>2. Len(decoding) + (n + 1) <= MaxNumSeqs
    BY <1>4, <2>1
  <2>3. T(n + 1) <= MaxBatchedTokens
    BY <1>4, <1>5, <1>7, <1>9
  <2>4. B(n + 1) <= Headroom
    <3>1. PICK y \in Int : y = B(n)
      BY <1>7
    <3>2. PICK h \in Int : h = Headroom
      BY <1>10
    <3>3. freeBlocks = h - y /\ b <= freeBlocks /\ B(n + 1) = b + y
      BY <1>4, <1>7, <1>8, <1>9, <3>1, <3>2
    <3>4. b + y <= h
      BY <1>5, <3>3
    <3> QED
      BY <3>2, <3>3, <3>4
  <2> QED
    BY <2>2, <2>3, <2>4 DEF Admissible, T, B
<1>16. \A j \in 1..(n + 1) : Admissible(j, in.waiting, in.prefill, Len(decoding), Headroom)
  <2>1. \A j \in 1..(n + 1) : j \in 1..n \/ j = n + 1
    OBVIOUS
  <2> QED
    BY <1>9, <1>15, <2>1
<1>17. Len(prefillOut') = n + 1 /\ \A i \in 1..(n + 1) : prefillOut'[i] = in.waiting[i]
  <2>1. /\ Len(prefillOut') = n + 1 /\ prefillOut'[n + 1] = c
        /\ \A i \in 1..n : prefillOut'[i] = prefillOut[i]
    BY <1>1, <1>4, <1>5
  <2>2. \A i \in 1..(n + 1) : i \in 1..n \/ i = n + 1
    OBVIOUS
  <2> QED
    BY <1>2, <1>9, <2>1, <2>2
<1>18. tokensSoFar' = T(n + 1) /\ freeBlocks' = Headroom - B(n + 1)
  <2>1. PICK t \in Int : t = T(n)
    BY <1>7
  <2>2. PICK y \in Int : y = B(n)
    BY <1>7
  <2>3. PICK h \in Int : h = Headroom
    BY <1>10
  <2>4. tokensSoFar' = t + p
    BY <1>4, <1>9, <2>1
  <2>5. T(n + 1) = p + t
    BY <1>7, <2>1
  <2>6. tokensSoFar' = T(n + 1)
    BY <1>7, <2>4, <2>5
  <2>7. freeBlocks' = (h - y) - b
    BY <1>4, <1>8, <1>9, <2>2, <2>3
  <2>8. B(n + 1) = b + y
    BY <1>7, <2>2
  <2>9. freeBlocks' = h - B(n + 1)
    BY <1>5, <2>7, <2>8
  <2> QED
    BY <2>3, <2>6, <2>9
<1>19. n + 1 <= Len(in.waiting)
  BY <1>4, <1>5, InputFacts
<1>20. WalkInv'
  BY <1>4, <1>9, <1>11, <1>16, <1>17, <1>18, <1>19 DEF WalkInv, T, B
<1> QED
  BY <1>12, <1>13, <1>14, <1>20 DEF IInv

\* The walk ends where the next of the queue cannot be admitted.
LEMMA ReturnInv ==
  ASSUME IInv, Return
  PROVE  IInv'
<1>1. /\ pc = "admit" /\ ~CanAdmit /\ pc' = "done"
      /\ UNCHANGED <<in, decoding, freeBlocks, demand, preempt, prefillOut, tokensSoFar>>
  BY DEF Return
<1>2. TypeOK'
  BY <1>1 DEF IInv, TypeOK
<1>3. KeptInv' /\ VictimsInv' /\ BestInv'
  BY <1>1 DEF IInv, KeptInv, VictimsInv, BestInv, Kept, Running
<1>4. demand' = DecodeDemand(Kept', in'.length)
  BY <1>1 DEF IInv, Kept
<1>5. WalkInv'
  <2>1. ~CanAdmit'
    BY <1>1 DEF CanAdmit, Candidate
  <2>2. Headroom' = Headroom
    BY <1>1 DEF Headroom
  <2> QED
    BY <1>1, <2>1, <2>2 DEF IInv, WalkInv
<1> QED
  BY <1>2, <1>3, <1>4, <1>5 DEF IInv

\* A step that changes nothing.
LEMMA StutterInv ==
  ASSUME IInv, UNCHANGED vars
  PROVE  IInv'
BY DEF vars, IInv, TypeOK, KeptInv, VictimsInv, BestInv, WalkInv, Kept, Running, Headroom,
       CanAdmit, Candidate

\* IInv holds in every reachable state.
LEMMA Invariance == Spec => []IInv
<1>1. Init => IInv
  BY InitIInv
<1>2. IInv /\ [Next]_vars => IInv'
  <2> SUFFICES ASSUME IInv, [Next]_vars PROVE IInv'
    OBVIOUS
  <2>1. CASE EvictLatest
    BY <2>1, EvictInv
  <2>2. CASE ChargeDecode
    BY <2>2, ChargeInv
  <2>3. CASE Admit
    BY <2>3, AdmitInv
  <2>4. CASE Return
    BY <2>4, ReturnInv
  <2>5. CASE UNCHANGED vars
    BY <2>5, StutterInv
  <2> QED
    BY <2>1, <2>2, <2>3, <2>4, <2>5 DEF Next
<1> QED
  BY <1>1, <1>2, PTL DEF Spec

\* What is left when the loop stops is the decode set of the policy: it fits,
\* and it contains every set of the oldest that does.
LEMMA DecodeSetReached ==
  ASSUME IInv, pc # "evict"
  PROVE  Kept = DecodeSet(Running, in.length, in.free)
<1>1. /\ Kept \subseteq Running /\ Range(preempt) = Running \ Kept
      /\ \A k \in Kept : \A v \in Range(preempt) : k < v
      /\ demand = DecodeDemand(Kept, in.length) /\ demand \in Nat
  BY DEF IInv, VictimsInv, TypeOK
<1>2. Kept \in OldestSubsets(Running)
  BY <1>1 DEF OldestSubsets
<1>3. Fits(Kept, Running, in.length, in.free)
  <2>1. Headroom >= 0
    BY DEF IInv, WalkInv
  <2>2. PICK x \in Nat : x = in.free
    BY HeadroomType
  <2>3. PICK y \in Nat : y = BlocksHeld(Range(preempt), in.length)
    BY HeadroomType
  <2>4. x + y - demand >= 0
    BY <2>1, <2>2, <2>3 DEF Headroom
  <2>5. demand <= x + y
    BY <1>1, <2>4
  <2> QED
    BY <1>1, <2>2, <2>3, <2>5 DEF Fits
<1>4. \A K \in OldestSubsets(Running) : Fits(K, Running, in.length, in.free) => K \subseteq Kept
  BY DEF IInv, BestInv
<1> QED
  BY <1>2, <1>3, <1>4 DEF DecodeSet

\* The decode list is the running list less the victims, in its order.
LEMMA DecodeListReached ==
  ASSUME IInv
  PROVE  decoding = Filter(in.running, Kept)
<1>1. PICK at \in Seq(Nat) :
        /\ Len(at) = Len(decoding)
        /\ \A i, j \in 1..Len(at) : i < j => at[i] < at[j]
        /\ \A k \in 1..Len(at) : /\ at[k] \in 1..Len(in.running)
                                 /\ decoding[k] = in.running[at[k]]
  BY DEF IInv, KeptInv
<1>2. /\ in.running \in Seq(Requests) /\ decoding \in Seq(Requests) /\ NoDuplicates(in.running)
      /\ Kept \subseteq Running
  BY InputFacts DEF IInv, TypeOK, VictimsInv
<1>3. /\ DOMAIN in.running = 1..Len(in.running) /\ DOMAIN at = 1..Len(at)
      /\ DOMAIN decoding = 1..Len(at)
  BY <1>1, <1>2
<1>4. Range(at) = {i \in DOMAIN in.running : in.running[i] \in Kept}
  <2>1. ASSUME NEW i \in Range(at) PROVE i \in DOMAIN in.running /\ in.running[i] \in Kept
    <3>1. PICK k \in 1..Len(at) : i = at[k]
      BY <1>3 DEF Range
    <3> QED
      BY <1>1, <1>3, <3>1 DEF Kept, Range
  <2>2. ASSUME NEW i \in DOMAIN in.running, in.running[i] \in Kept PROVE i \in Range(at)
    <3>1. PICK k \in 1..Len(at) : decoding[k] = in.running[i]
      BY <1>3, <2>2 DEF Kept, Range
    <3>2. at[k] \in DOMAIN in.running /\ in.running[at[k]] = in.running[i]
      BY <1>1, <1>3, <3>1
    <3>3. at[k] = i
      BY <1>2, <3>2 DEF NoDuplicates
    <3> QED
      BY <1>3, <3>1, <3>3 DEF Range
  <2> QED
    BY <2>1, <2>2
<1>5. PICK run \in Seq(Requests) : run = in.running
  BY <1>2
<1>6. /\ at \in Seq(Nat) /\ decoding \in Seq(Requests)
      /\ \A i, j \in 1..Len(at) : i < j => at[i] < at[j]
  BY <1>1, <1>2
<1>7. Range(at) = {i \in DOMAIN run : run[i] \in Kept}
  BY <1>4, <1>5
<1>8. Len(decoding) = Len(at) /\ \A k \in 1..Len(decoding) : decoding[k] = run[at[k]]
  BY <1>1, <1>5
<1>9. decoding = Filter(run, Kept)
  <2>1. at = Sorted({i \in DOMAIN run : run[i] \in Kept})
    BY <1>6, <1>7, SortedUnique
  <2>2. decoding = [k \in DOMAIN at |-> run[at[k]]]
    BY <1>6, <1>8
  <2> QED
    BY <2>1, <2>2 DEF Filter, AtPositions
<1> QED
  BY <1>5, <1>9

\* The victims stand latest first.
LEMMA VictimsReached ==
  ASSUME IInv
  PROVE  preempt = Reverse(Sorted(Range(preempt)))
<1>1. PICK m \in Nat : m = Len(preempt)
  BY DEF IInv, TypeOK
<1>2. /\ preempt \in Seq(Requests) /\ DOMAIN preempt = 1..m
      /\ \A i \in 1..m : preempt[i] \in Nat
      /\ \A i, j \in 1..m : i < j => preempt[i] > preempt[j]
  <2>1. preempt \in Seq(Requests) /\ Requests \subseteq Nat
    BY SchedulerLoopAssumption DEF IInv, TypeOK
  <2>2. \A i, j \in 1..m : i < j => preempt[i] > preempt[j]
    BY <1>1 DEF IInv, VictimsInv
  <2>3. DOMAIN preempt = 1..m /\ \A i \in 1..m : preempt[i] \in Requests
    BY <1>1, <2>1
  <2> QED
    BY <2>1, <2>2, <2>3
<1>3. PICK t : t = [i \in 1..m |-> preempt[m - i + 1]]
  OBVIOUS
<1>4. \A i \in 1..m : m - i + 1 \in 1..m /\ m - (m - i + 1) + 1 = i
  OBVIOUS
<1>5. t \in Seq(Nat) /\ Len(t) = m /\ DOMAIN t = 1..m
  BY <1>2, <1>3, <1>4
<1>6. \A i, j \in 1..Len(t) : i < j => t[i] < t[j]
  <2> SUFFICES ASSUME NEW i \in 1..m, NEW j \in 1..m, i < j PROVE t[i] < t[j]
    BY <1>5
  <2>1. PICK a \in 1..m : a = m - i + 1
    BY <1>4
  <2>2. PICK b \in 1..m : b = m - j + 1
    BY <1>4
  <2>3. b < a
    BY <2>1, <2>2
  <2>4. t[i] = preempt[a] /\ t[j] = preempt[b] /\ preempt[b] > preempt[a]
    BY <1>2, <1>3, <2>1, <2>2, <2>3
  <2>5. preempt[a] \in Nat /\ preempt[b] \in Nat
    BY <1>2
  <2> QED
    BY <2>4, <2>5
<1>7. Range(t) = Range(preempt)
  <2>1. \A x \in Range(t) : x \in Range(preempt)
    BY <1>2, <1>3, <1>4, <1>5 DEF Range
  <2>2. ASSUME NEW i \in 1..m PROVE preempt[i] \in Range(t)
    <3>1. m - i + 1 \in 1..m /\ t[m - i + 1] = preempt[m - (m - i + 1) + 1]
      BY <1>3, <1>4
    <3> QED
      BY <1>4, <1>5, <3>1 DEF Range
  <2>3. \A x \in Range(preempt) : \E i \in 1..m : x = preempt[i]
    BY <1>2 DEF Range
  <2> QED
    BY <2>1, <2>2, <2>3
<1>8. t = Sorted(Range(preempt))
  BY <1>5, <1>6, <1>7, SortedUnique
<1>9. Reverse(t) = [i \in 1..m |-> t[m - i + 1]]
  BY <1>5 DEF Reverse
<1>10. \A i \in 1..m : t[m - i + 1] = preempt[i]
  <2> SUFFICES ASSUME NEW i \in 1..m PROVE t[m - i + 1] = preempt[i]
    OBVIOUS
  <2>1. m - i + 1 \in 1..m /\ t[m - i + 1] = preempt[m - (m - i + 1) + 1]
    BY <1>3, <1>4
  <2> QED
    BY <1>4, <2>1
<1>11. preempt = [i \in 1..m |-> preempt[i]]
  BY <1>1, <1>2
<1>12. preempt = Reverse(t)
  BY <1>9, <1>10, <1>11
<1> QED
  BY <1>8, <1>12

\* The walk stops after the prefix the policy admits.
LEMMA PrefixReached ==
  ASSUME IInv, pc = "done"
  PROVE  Len(prefillOut) = NumAdmitted(in.waiting, in.prefill, Len(decoding), Headroom)
<1>1. PICK n \in Nat : n = Len(prefillOut)
  BY DEF IInv, TypeOK
<1>2. /\ in \in Inputs /\ freeBlocks \in Nat /\ decoding \in Seq(Requests)
      /\ tokensSoFar \in 0..MaxBatchedTokens /\ MaxBatchedTokens \in Nat /\ MaxNumSeqs \in Nat
  BY SchedulerAssumption DEF IInv, TypeOK
<1>3. PICK L \in Nat : L = Len(in.waiting)
  BY <1>2, InputFacts
<1> DEFINE T(k) == SumOver([i \in 1..k |-> in.prefill[in.waiting[i]]], 1..k)
           B(k) == SumOver([i \in 1..k |-> BlocksFor(in.prefill[in.waiting[i]])], 1..k)
           Ok(k) == Admissible(k, in.waiting, in.prefill, Len(decoding), Headroom)
<1>4. /\ n <= L /\ tokensSoFar = T(n) /\ freeBlocks = Headroom - B(n) /\ ~CanAdmit
      /\ \A j \in 1..n : Ok(j)
  BY <1>1, <1>3 DEF IInv, WalkInv
<1>5. ASSUME n < L, Ok(n + 1) PROVE FALSE
  <2>1. PICK p \in Nat : p = in.prefill[in.waiting[n + 1]]
    BY <1>2, <1>3, <1>5, WalkSums
  <2>2. PICK b \in Nat : b = BlocksFor(p)
    BY <1>2, <1>3, <1>5, <2>1, WalkSums
  <2>3. /\ T(n) \in Int /\ B(n) \in Int /\ T(n + 1) = p + T(n) /\ B(n + 1) = b + B(n)
    BY <1>2, <1>3, <1>5, <2>1, <2>2, WalkSums
  <2>4. /\ Len(decoding) + (n + 1) <= MaxNumSeqs /\ T(n + 1) <= MaxBatchedTokens
        /\ B(n + 1) <= Headroom
    BY <1>5 DEF Admissible
  <2>5. BlocksNeeded(0, p) = b
    <3>1. 0 + p = p /\ BlocksFor(0) = 0
      BY BlocksForFacts
    <3> QED
      BY <2>2, <3>1 DEF BlocksNeeded
  <2>6. PICK y \in Int : y = B(n)
    BY <2>3
  <2>7. PICK z \in Int : z = T(n)
    BY <2>3
  <2>8. PICK h \in Int : h = Headroom
    BY HeadroomType
  <2> HIDE DEF T, B, Ok
  <2>9. Len(decoding) \in Nat /\ Len(decoding) + n < MaxNumSeqs
    BY <1>2, <2>4
  <2>10. tokensSoFar = z /\ p + z <= MaxBatchedTokens
    BY <1>4, <2>3, <2>4, <2>7
  <2>11. freeBlocks = h - y /\ b + y <= h
    BY <1>4, <2>3, <2>4, <2>6, <2>8
  <2>12. tokensSoFar + p <= MaxBatchedTokens /\ b <= freeBlocks
    BY <1>2, <2>10, <2>11
  <2> QED
    BY <1>1, <1>3, <1>4, <1>5, <2>1, <2>5, <2>9, <2>12 DEF CanAdmit, Candidate
<1> HIDE DEF T, B, Ok
<1>6. {k \in 1..L : \A j \in 1..k : Ok(j)} = 1..n
  <2>1. \A k \in 1..n : k \in 1..L /\ \A j \in 1..k : j \in 1..n
    BY <1>4
  <2>2. ASSUME NEW k \in 1..L, \A j \in 1..k : Ok(j) PROVE k \in 1..n
    <3>1. n < k => n < L /\ n + 1 \in 1..k
      OBVIOUS
    <3> QED
      BY <1>5, <2>2, <3>1
  <2> QED
    BY <1>4, <2>1, <2>2
<1>7. Cardinality(1..n) = n
  BY CountUp
<1> QED
  BY <1>1, <1>3, <1>6, <1>7 DEF NumAdmitted, Ok

\* Scheduler::Schedule's two loops return the decision that the engine's model
\* schedules with: the largest set of the oldest that can decode, in the order
\* of the running list; the victims, latest arrival first; and the longest
\* prefix of the queue within the three limits.
THEOREM LoopComputesPolicy == Spec => []LoopMatchesPolicy
<1>1. IInv => LoopMatchesPolicy
  <2> SUFFICES ASSUME IInv, pc = "done"
               PROVE  LET plan == Schedule(in.waiting, in.running, in.prefill, in.length,
                                           in.free)
                      IN /\ decoding = plan.decode
                         /\ preempt = Reverse(Sorted(plan.preempt))
                         /\ prefillOut = plan.prefill
    BY DEF LoopMatchesPolicy
  <2>1. Kept = DecodeSet(Running, in.length, in.free)
    BY DecodeSetReached
  <2>2. Range(preempt) = Running \ Kept /\ demand = DecodeDemand(Kept, in.length)
    BY DEF IInv, VictimsInv
  <2>3. PICK h : h = in.free + BlocksHeld(Running \ Kept, in.length)
                       - DecodeDemand(Kept, in.length)
    OBVIOUS
  <2>4. h = Headroom
    BY <2>2, <2>3 DEF Headroom
  <2>5. Cardinality(Kept) = Len(decoding)
    <3>1. decoding \in Seq(Requests) /\ NoDuplicates(decoding)
      BY DEF IInv, TypeOK, KeptInv
    <3> QED
      BY <3>1, LengthFacts DEF Kept
  <2>6. PICK n : n = NumAdmitted(in.waiting, in.prefill, Cardinality(Kept), h)
    OBVIOUS
  <2>7. n = Len(prefillOut)
    BY <2>4, <2>5, <2>6, PrefixReached
  <2>8. Schedule(in.waiting, in.running, in.prefill, in.length, in.free)
          = [decode |-> Filter(in.running, Kept), preempt |-> Running \ Kept,
             prefill |-> SubSeq(in.waiting, 1, n)]
    BY <2>1, <2>3, <2>6 DEF Schedule, Running
  <2>9. prefillOut = SubSeq(in.waiting, 1, n)
    <3>1. /\ prefillOut \in Seq(Requests) /\ in.waiting \in Seq(Requests)
          /\ n \in Nat /\ n <= Len(in.waiting)
          /\ \A i \in 1..n : prefillOut[i] = in.waiting[i]
      BY <2>7, InputFacts DEF IInv, TypeOK, WalkInv
    <3> QED
      BY <2>7, <3>1
  <2>10. decoding = Filter(in.running, Kept)
    BY DecodeListReached
  <2>11. preempt = Reverse(Sorted(Running \ Kept))
    BY <2>2, VictimsReached
  <2>12. PICK plan : plan = Schedule(in.waiting, in.running, in.prefill, in.length, in.free)
    OBVIOUS
  <2>13. plan = [decode |-> Filter(in.running, Kept), preempt |-> Running \ Kept,
                 prefill |-> SubSeq(in.waiting, 1, n)]
    BY <2>8, <2>12
  <2>14. /\ plan.decode = Filter(in.running, Kept) /\ plan.preempt = Running \ Kept
         /\ plan.prefill = SubSeq(in.waiting, 1, n)
    BY <2>13
  <2>15. /\ decoding = plan.decode /\ preempt = Reverse(Sorted(plan.preempt))
         /\ prefillOut = plan.prefill
    BY <2>9, <2>10, <2>11, <2>14
  <2> QED
    BY <2>12, <2>15
<1> QED
  BY <1>1, Invariance, PTL

\* No charge or refund of the two loops loses or invents a block.
THEOREM LoopAccounts == Spec => []BlocksAccounted
<1>1. IInv => BlocksAccounted
  <2> SUFFICES ASSUME IInv PROVE BlocksAccounted
    OBVIOUS
  <2>1. PICK n \in Nat : n = Len(prefillOut)
    BY DEF IInv, TypeOK
  <2>2. PICK x \in Nat : x = in.free
    BY HeadroomType
  <2>3. PICK y \in Nat : y = BlocksHeld(Range(preempt), in.length)
    BY HeadroomType
  <2>4. PICK d \in Nat : d = demand /\ d = DecodeDemand(Range(decoding), in.length)
    BY DEF IInv, TypeOK, Kept
  <2>5. /\ TypeOK /\ prefillOut \in Seq(Requests) /\ in.waiting \in Seq(Requests)
        /\ NoDuplicates(in.waiting) /\ n <= Len(in.waiting)
        /\ \A r \in Range(in.waiting) : in.prefill[r] \in Nat
        /\ \A i \in 1..n : prefillOut[i] = in.waiting[i]
    BY <2>1, InputFacts DEF IInv, TypeOK, WalkInv
  <2>6. DOMAIN prefillOut = 1..n /\ \A i \in 1..n : i \in DOMAIN in.waiting
    BY <2>1, <2>5
  <2>7. PICK f : f = [r \in Range(prefillOut) |-> BlocksFor(in.prefill[r])]
    OBVIOUS
  <2>8. PICK g : g = [i \in 1..n |-> BlocksFor(in.prefill[in.waiting[i]])]
    OBVIOUS
  <2>9. SumOver(g, 1..n) = BlocksHeld(Range(prefillOut), in.prefill)
    <3>1. NoDuplicates(prefillOut)
      BY <2>5, <2>6 DEF NoDuplicates
    <3>2. \A i \in 1..n : /\ prefillOut[i] \in Range(prefillOut)
                          /\ in.prefill[in.waiting[i]] \in Nat
      BY <2>5, <2>6 DEF Range
    <3>3. \A r \in Range(prefillOut) : f[r] \in Int
      <4> SUFFICES ASSUME NEW r \in Range(prefillOut) PROVE f[r] \in Int
        OBVIOUS
      <4>1. PICK i \in 1..n : r = prefillOut[i]
        BY <2>6 DEF Range
      <4>2. in.prefill[r] \in Nat
        BY <2>5, <3>2, <4>1
      <4> QED
        BY <2>7, <4>2, BlocksForFacts
    <3>4. \A i \in 1..Len(prefillOut) : g[i] = f[prefillOut[i]]
      BY <2>1, <2>5, <2>7, <2>8, <3>2
    <3>5. SumOver(g, 1..Len(prefillOut)) = SumOver(f, Range(prefillOut))
      BY <2>5, <3>1, <3>3, <3>4, SumAlong
    <3> QED
      BY <2>1, <2>7, <3>5 DEF BlocksHeld
  <2>10. PICK b : b = BlocksHeld(Range(prefillOut), in.prefill)
    OBVIOUS
  <2>11. CASE pc = "evict"
    <3>1. n = 0 /\ freeBlocks = x + y
      BY <2>1, <2>2, <2>3, <2>11 DEF IInv, WalkInv
    <3>2. Range(prefillOut) = {}
      BY <2>6, <3>1 DEF Range
    <3>3. b = 0
      <4>1. BlocksHeld({}, in.prefill) = 0
        BY FS_EmptySet, HeldAndDemand
      <4> QED
        BY <2>10, <3>2, <4>1
    <3>4. freeBlocks = x + y - 0 - b
      BY <3>1, <3>3
    <3> QED
      BY <2>2, <2>3, <2>5, <2>10, <2>11, <3>4 DEF BlocksAccounted
  <2>12. CASE pc # "evict"
    <3>1. freeBlocks = Headroom - SumOver(g, 1..n)
      BY <2>1, <2>8, <2>12 DEF IInv, WalkInv
    <3>2. Headroom = x + y - d
      BY <2>2, <2>3, <2>4 DEF Headroom
    <3>3. b \in Int
      <4>1. ASSUME NEW i \in 1..n PROVE g[i] \in Int
        <5>1. in.waiting[i] \in Range(in.waiting)
          BY <2>6 DEF Range
        <5>2. in.prefill[in.waiting[i]] \in Nat
          BY <2>5, <5>1
        <5>3. BlocksFor(in.prefill[in.waiting[i]]) \in Nat
          BY <5>2, BlocksForFacts
        <5> QED
          BY <2>8, <5>3
      <4>2. IsFiniteSet(1..n)
        BY CountUp
      <4> QED
        BY <2>9, <2>10, <4>1, <4>2, SumType
    <3>4. freeBlocks = x + y - d - b
      BY <2>9, <2>10, <3>1, <3>2, <3>3
    <3> QED
      BY <2>2, <2>3, <2>4, <2>5, <2>10, <2>12, <3>4 DEF BlocksAccounted
  <2> QED
    BY <2>11, <2>12
<1> QED
  BY <1>1, Invariance, PTL
=============================================================================
