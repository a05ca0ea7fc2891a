--------------------------- MODULE SchedulerProofs ---------------------------
(***************************************************************************)
(* What every decision of the scheduling policy satisfies, whatever its    *)
(* inputs: lengths, free blocks, queue orders and configuration.           *)
(***************************************************************************)
EXTENDS Scheduler, OrderedSeqsProofs

\* The decode set is part of the running set, and every sequence that is not
\* in it (a victim) is younger than every sequence that is.
LEMMA DecodeSetOldest ==
  ASSUME NEW R, NEW length, NEW free
  PROVE  /\ DecodeSet(R, length, free) \subseteq R
         /\ \A k \in DecodeSet(R, length, free),
              v \in R \ DecodeSet(R, length, free) : k < v
<1> DEFINE D == DecodeSet(R, length, free)
<1>1. D \subseteq R
  BY DEF DecodeSet, OldestSubsets
<1>2. ASSUME NEW k \in D, NEW v \in R \ D
      PROVE  k < v
  <2>1. PICK K \in OldestSubsets(R) : Fits(K, R, length, free) /\ k \in K
    BY DEF DecodeSet
  <2>2. v \notin K
    BY <2>1 DEF DecodeSet
  <2> QED
    BY <2>1, <2>2 DEF OldestSubsets
<1> QED
  BY <1>1, <1>2

\* The number admitted is a length of a prefix of the queue.
LEMMA NumAdmittedBound ==
  ASSUME NEW X, NEW waiting \in Seq(X), NEW prefill, NEW width, NEW headroom
  PROVE  NumAdmitted(waiting, prefill, width, headroom) \in 0..Len(waiting)
<1> DEFINE P == {k \in 1..Len(waiting) :
                   \A j \in 1..k : Admissible(j, waiting, prefill, width, headroom)}
<1>1. Len(waiting) \in Nat
  OBVIOUS
<1>2. IsFiniteSet(1..Len(waiting)) /\ Cardinality(1..Len(waiting)) = Len(waiting)
  <2>1. PICK n \in Nat : n = Len(waiting)
    BY <1>1
  <2>2. IsFiniteSet(1..n) /\ Cardinality(1..n) = IF 1 <= n THEN n - 1 + 1 ELSE 0
    BY FS_Interval
  <2>3. Cardinality(1..n) = n
    BY <2>2
  <2> QED
    BY <2>1, <2>2, <2>3
<1>3. P \in SUBSET (1..Len(waiting))
  OBVIOUS
<1>4. Cardinality(P) \in Nat /\ Cardinality(P) <= Len(waiting)
  <2> HIDE DEF P
  <2> QED
    BY <1>2, <1>3, FS_Subset, FS_CardinalityType
<1> QED
  BY <1>1, <1>4 DEF NumAdmitted

\* The shape of a decision: the running list splits into victims and the decode
\* list (in its order), the victims are the youngest, and the admitted ones are
\* a prefix of the queue, none skipped.
THEOREM ScheduleFacts ==
  ASSUME NEW X, NEW waiting \in Seq(X), NEW running \in Seq(X),
         NEW prefill, NEW length, NEW free
  PROVE  LET plan == Schedule(waiting, running, prefill, length, free)
         IN /\ plan.preempt \subseteq Range(running)
            /\ plan.decode \in Seq(X)
            /\ Range(plan.decode) = Range(running) \ plan.preempt
            /\ NoDuplicates(running) => NoDuplicates(plan.decode)
            /\ \A k \in Range(plan.decode), v \in plan.preempt : k < v
            /\ \E n \in 0..Len(waiting) : plan.prefill = SubSeq(waiting, 1, n)
<1> DEFINE plan == Schedule(waiting, running, prefill, length, free)
           R == Range(running)
           K == DecodeSet(R, length, free)
           headroom == free + BlocksHeld(R \ K, length) - DecodeDemand(K, length)
           n == NumAdmitted(waiting, prefill, Cardinality(K), headroom)
<1>1. /\ plan.preempt = R \ K
      /\ plan.decode = Filter(running, K)
      /\ plan.prefill = SubSeq(waiting, 1, n)
  BY DEF Schedule
<1>2. K \subseteq R /\ \A k \in K, v \in R \ K : k < v
  BY DecodeSetOldest
<1>3. n \in 0..Len(waiting)
  BY NumAdmittedBound
<1>4. /\ Filter(running, K) \in Seq(X)
      /\ Range(Filter(running, K)) = R \cap K
      /\ NoDuplicates(running) => NoDuplicates(Filter(running, K))
  BY FilterFacts
<1> HIDE DEF plan, R, K, n
<1>5. R \cap K = K /\ R \ (R \ K) = K
  BY <1>2
<1> QED
  BY <1>1, <1>2, <1>3, <1>4, <1>5 DEF plan, R

----------------------------------------------------------------------------
(* Blocks. *)

\* Tokens rounded up to blocks: nothing takes none, more takes no fewer, and
\* what fits k blocks takes at most k.
LEMMA BlocksForFacts ==
  /\ BlocksFor(0) = 0
  /\ \A n \in Nat : BlocksFor(n) \in Nat
  /\ \A m, n \in Nat : m <= n => BlocksFor(m) <= BlocksFor(n)
  /\ \A n, k \in Nat : n <= k * BlockSize => BlocksFor(n) <= k
<1>1. PICK g \in Nat \ {0} : g = BlockSize
  BY SchedulerAssumption
<1>2. ASSUME NEW n \in Nat
      PROVE  /\ BlocksFor(n) \in Nat
             /\ n <= BlocksFor(n) * g
             /\ BlocksFor(n) * g < n + g
  <2>1. PICK m \in Nat : m = n + g - 1
    OBVIOUS
  <2>2. PICK q, r \in Nat : q = m \div g /\ r = m % g
    BY DivMod
  <2>3. r < g /\ m = q * g + r
    BY <2>2, DivMod
  <2>4. BlocksFor(n) = q
    BY <1>1, <2>1, <2>2 DEF BlocksFor
  <2>5. PICK p \in Nat : p = q * g
    BY Multiples
  <2>6. n <= p /\ p < n + g
    BY <2>1, <2>3, <2>5
  <2> QED
    BY <2>4, <2>5, <2>6
<1>3. ASSUME NEW n \in Nat, NEW k \in Nat, n <= k * g
      PROVE  BlocksFor(n) <= k
  <2>1. PICK b \in Nat : b = BlocksFor(n)
    BY <1>2
  <2>2. PICK p, q \in Nat : p = b * g /\ q = k * g
    BY Multiples
  <2>3. p < n + g /\ n <= q
    BY <1>2, <1>3, <2>1, <2>2
  <2>4. k < b => q + g <= p
    BY <2>2, Multiples
  <2>5. ~(k < b)
    BY <2>3, <2>4
  <2> QED
    BY <2>1, <2>5
<1>4. ASSUME NEW m \in Nat, NEW n \in Nat, m <= n
      PROVE  BlocksFor(m) <= BlocksFor(n)
  <2>1. PICK b \in Nat : b = BlocksFor(n)
    BY <1>2
  <2>2. PICK p \in Nat : p = b * g
    BY Multiples
  <2>3. m <= p
    BY <1>2, <1>4, <2>1, <2>2
  <2> QED
    BY <1>3, <2>1, <2>2, <2>3
<1>5. BlocksFor(0) = 0
  <2>1. 0 <= 0 * g
    OBVIOUS
  <2> QED
    BY <1>2, <1>3, <2>1
<1> QED
  BY <1>1, <1>2, <1>3, <1>4, <1>5

\* What a set of sequences holds and what its decode takes are natural numbers.
LEMMA HeldAndDemand ==
  ASSUME NEW K, IsFiniteSet(K), NEW length, \A r \in K : length[r] \in Nat
  PROVE  /\ BlocksHeld(K, length) \in Nat /\ DecodeDemand(K, length) \in Nat
         /\ K = {} => BlocksHeld(K, length) = 0 /\ DecodeDemand(K, length) = 0
<1>1. PICK f : f = [r \in K |-> BlocksFor(length[r])]
  OBVIOUS
<1>2. PICK e : e = [r \in K |-> BlocksNeeded(length[r], 1)]
  OBVIOUS
<1>3. \A r \in K : f[r] \in Nat /\ e[r] \in Nat
  <2> SUFFICES ASSUME NEW r \in K PROVE f[r] \in Nat /\ e[r] \in Nat
    OBVIOUS
  <2>1. PICK n \in Nat : n = length[r]
    OBVIOUS
  <2>2. BlocksFor(n) \in Nat /\ BlocksFor(n + 1) \in Nat /\ BlocksFor(n) <= BlocksFor(n + 1)
    BY BlocksForFacts
  <2>3. f[r] = BlocksFor(n) /\ e[r] = BlocksFor(n + 1) - BlocksFor(n)
    BY <1>1, <1>2, <2>1 DEF BlocksNeeded
  <2> QED
    BY <2>2, <2>3
<1>4. SumOver(f, K) \in Nat /\ SumOver(e, K) \in Nat
  BY <1>3, SumNat
<1>5. K = {} => SumOver(f, K) = 0 /\ SumOver(e, K) = 0
  BY <1>3, SumType
<1> QED
  BY <1>1, <1>2, <1>4, <1>5 DEF BlocksHeld, DecodeDemand

\* The blocks of two disjoint sets of sequences.
LEMMA HeldSplit ==
  ASSUME NEW K, NEW V, IsFiniteSet(K), IsFiniteSet(V), K \cap V = {}, NEW length,
         \A r \in K \cup V : length[r] \in Nat
  PROVE  BlocksHeld(K \cup V, length) = BlocksHeld(K, length) + BlocksHeld(V, length)
<1>1. PICK f : f = [r \in K \cup V |-> BlocksFor(length[r])]
  OBVIOUS
<1>2. PICK e : e = [r \in K |-> BlocksFor(length[r])]
  OBVIOUS
<1>3. PICK h : h = [r \in V |-> BlocksFor(length[r])]
  OBVIOUS
<1>4. /\ \A r \in K \cup V : f[r] \in Int
      /\ \A r \in K : f[r] = e[r] /\ e[r] \in Int
      /\ \A r \in V : f[r] = h[r] /\ h[r] \in Int
  <2>1. \A r \in K \cup V : BlocksFor(length[r]) \in Int
    BY BlocksForFacts
  <2> QED
    BY <1>1, <1>2, <1>3, <2>1
<1>5. SumOver(f, K \cup V) = SumOver(f, K) + SumOver(f, V)
  BY <1>4, SumSplit
<1>6. SumOver(f, K) = SumOver(e, K)
  BY <1>4, SumSame
<1>7. SumOver(f, V) = SumOver(h, V)
  BY <1>4, SumSame
<1> QED
  BY <1>1, <1>2, <1>3, <1>5, <1>6, <1>7 DEF BlocksHeld

\* What is held and demanded depends on the lengths of the set's members only.
LEMMA HeldSame ==
  ASSUME NEW K, NEW length, NEW other, \A r \in K : length[r] = other[r]
  PROVE  /\ BlocksHeld(K, length) = BlocksHeld(K, other)
         /\ DecodeDemand(K, length) = DecodeDemand(K, other)
<1>1. [r \in K |-> BlocksFor(length[r])] = [r \in K |-> BlocksFor(other[r])]
  OBVIOUS
<1>2. [r \in K |-> BlocksNeeded(length[r], 1)] = [r \in K |-> BlocksNeeded(other[r], 1)]
  OBVIOUS
<1> QED
  BY <1>1, <1>2 DEF BlocksHeld, DecodeDemand

\* The eviction loop ends with a set that fits: the empty one does, of two sets
\* it passes through one contains the other, so their union is the largest.
LEMMA DecodeSetFits ==
  ASSUME NEW R \in SUBSET Int, IsFiniteSet(R), NEW length, \A r \in R : length[r] \in Nat,
         NEW free \in Int, free + BlocksHeld(R, length) >= 0
  PROVE  Fits(DecodeSet(R, length, free), R, length, free)
<1> DEFINE F == {K \in OldestSubsets(R) : Fits(K, R, length, free)}
           T == {Cardinality(R) - Cardinality(K) : K \in F}
<1>1. \A K \in F : K \subseteq R /\ IsFiniteSet(K) /\ Cardinality(K) \in Nat
                     /\ Cardinality(K) <= Cardinality(R)
  BY FS_Subset, FS_CardinalityType DEF OldestSubsets
<1>2. Cardinality(R) \in Nat
  BY FS_CardinalityType
<1>3. {} \in F
  <2>1. {} \in OldestSubsets(R)
    BY DEF OldestSubsets
  <2>2. DecodeDemand({}, length) = 0 /\ R \ {} = R
    BY FS_EmptySet, HeldAndDemand
  <2>3. Fits({}, R, length, free)
    BY <2>2, HeldAndDemand DEF Fits
  <2> QED
    BY <2>1, <2>3
<1>4. ASSUME NEW K \in F, NEW L \in F, ~(L \subseteq K) PROVE K \subseteq L
  <2>1. PICK y \in L : y \notin K
    BY <1>4
  <2> SUFFICES ASSUME NEW x \in K, x \notin L PROVE FALSE
    OBVIOUS
  <2>2. x \in R /\ y \in R /\ x \in Int /\ y \in Int
    BY <1>1, <2>1
  <2>3. x < y /\ y < x
    BY <2>1, <2>2 DEF OldestSubsets
  <2> QED
    BY <2>2, <2>3
<1>5. PICK K \in F : \A L \in F : Cardinality(L) <= Cardinality(K)
  <2>1. T \in SUBSET Nat
    BY <1>1, <1>2
  <2>2. T # {}
    BY <1>3
  <2>3. PICK x \in T : \A y \in T : x <= y
    <3> HIDE DEF T
    <3> QED
      BY <2>1, <2>2, LeastExists
  <2>4. PICK K \in F : x = Cardinality(R) - Cardinality(K)
    BY <2>3
  <2>5. ASSUME NEW L \in F PROVE Cardinality(L) <= Cardinality(K)
    <3>1. Cardinality(R) - Cardinality(K) <= Cardinality(R) - Cardinality(L)
      BY <2>3, <2>4
    <3> QED
      BY <1>1, <1>2, <3>1
  <2> QED
    BY <2>5
<1>6. ASSUME NEW L \in F PROVE L \subseteq K
  <2> SUFFICES ASSUME ~(L \subseteq K) PROVE FALSE
    OBVIOUS
  <2>1. K \subseteq L /\ K # L
    BY <1>4
  <2>2. Cardinality(K) <= Cardinality(L) /\ Cardinality(K) # Cardinality(L)
    BY <1>1, <2>1, FS_Subset
  <2> QED
    BY <1>1, <1>5, <2>2
<1>7. DecodeSet(R, length, free) = K
  BY <1>5, <1>6 DEF DecodeSet
<1> QED
  BY <1>7

\* The walk over the queue admits a prefix every part of which is admissible,
\* and stops where it must.
LEMMA NumAdmittedFacts ==
  ASSUME NEW X, NEW waiting \in Seq(X), NEW prefill, NEW width, NEW headroom
  PROVE  LET n == NumAdmitted(waiting, prefill, width, headroom)
         IN /\ n \in 0..Len(waiting)
            /\ \A j \in 1..n : Admissible(j, waiting, prefill, width, headroom)
            /\ waiting # <<>> /\ Admissible(1, waiting, prefill, width, headroom) => n >= 1
<1> DEFINE Ok(k) == \A j \in 1..k : Admissible(j, waiting, prefill, width, headroom)
           P == {k \in 1..Len(waiting) : Ok(k)}
<1>1. PICK L \in Nat : L = Len(waiting)
  OBVIOUS
<1>2. PICK n \in 0..L : n = NumAdmitted(waiting, prefill, width, headroom)
  BY <1>1, NumAdmittedBound
<1>3. IsFiniteSet(1..L) /\ P \in SUBSET (1..L)
  BY <1>1, CountUp
<1>4. n = Cardinality(P) /\ IsFiniteSet(P)
  BY <1>1, <1>2, <1>3, FS_Subset DEF NumAdmitted
<1>5. ASSUME NEW k \in P PROVE k <= n
  <2>1. k \in 1..L /\ 1..k \subseteq P
    BY <1>1
  <2>2. IsFiniteSet(1..k) /\ Cardinality(1..k) = k
    BY <2>1, CountUp
  <2> HIDE DEF P
  <2> QED
    BY <1>4, <2>1, <2>2, FS_Subset
<1>6. P = 1..n
  <2>1. P \subseteq 1..n
    BY <1>1, <1>2, <1>5
  <2>2. IsFiniteSet(1..n) /\ Cardinality(1..n) = n
    BY <1>2, CountUp
  <2> HIDE DEF P
  <2> QED
    BY <1>4, <2>1, <2>2, FS_Subset
<1>7. ASSUME NEW j \in 1..n PROVE Admissible(j, waiting, prefill, width, headroom)
  <2>1. n \in P /\ j \in 1..n
    BY <1>2, <1>6
  <2> QED
    BY <2>1
<1>8. ASSUME waiting # <<>>, Admissible(1, waiting, prefill, width, headroom) PROVE n >= 1
  <2>1. L >= 1
    BY <1>1, <1>8
  <2>2. 1 \in P
    BY <1>1, <1>8, <2>1
  <2> QED
    BY <1>5, <2>2
<1> QED
  BY <1>1, <1>2, <1>7, <1>8

\* A decision never promises more blocks than there are: what the admitted
\* prompts take and what the decode set takes is free or held by a victim.
THEOREM ScheduleAccounts ==
  ASSUME NEW X \in SUBSET Int, NEW waiting \in Seq(X), NEW running \in Seq(X),
         NoDuplicates(running), NEW prefill \in [X -> Nat], NEW length \in [X -> Nat],
         NEW free \in Int, free + BlocksHeld(Range(running), length) >= 0
  PROVE  LET plan == Schedule(waiting, running, prefill, length, free)
             n == Len(plan.prefill)
         IN SumOver([i \in 1..n |-> BlocksFor(prefill[plan.prefill[i]])], 1..n)
              + DecodeDemand(Range(plan.decode), length)
              <= free + BlocksHeld(plan.preempt, length)
<1>1. PICK R : R = Range(running)
  OBVIOUS
<1>2. PICK K : K = DecodeSet(R, length, free)
  OBVIOUS
<1>3. /\ R \in SUBSET X /\ IsFiniteSet(R) /\ K \subseteq R
      /\ IsFiniteSet(K) /\ IsFiniteSet(R \ K)
  BY <1>1, <1>2, RangeType, LengthFacts, DecodeSetOldest, FS_Subset
<1>4. PICK demand \in Int : demand = DecodeDemand(K, length)
  <2>1. \A r \in K : length[r] \in Nat
    BY <1>3
  <2>2. DecodeDemand(K, length) \in Nat
    BY <1>3, <2>1, HeldAndDemand
  <2> QED
    BY <2>2
<1>5. PICK refund \in Int : refund = BlocksHeld(R \ K, length)
  <2>1. PICK V : V = R \ K
    OBVIOUS
  <2>2. \A r \in V : length[r] \in Nat
    BY <1>3, <2>1
  <2>3. BlocksHeld(V, length) \in Nat
    BY <1>3, <2>1, <2>2, HeldAndDemand
  <2> QED
    BY <2>1, <2>3
<1>6. demand <= free + refund
  <2>1. Fits(K, R, length, free)
    BY <1>1, <1>2, <1>3, DecodeSetFits
  <2> QED
    BY <1>4, <1>5, <2>1 DEF Fits
<1>7. PICK headroom \in Int : headroom = free + refund - demand
  OBVIOUS
<1>8. PICK n \in 0..Len(waiting) : n = NumAdmitted(waiting, prefill, Cardinality(K), headroom)
  BY NumAdmittedBound
<1>9. PICK plan : plan = Schedule(waiting, running, prefill, length, free)
  OBVIOUS
<1>10. /\ plan.preempt = R \ K /\ plan.decode = Filter(running, K)
       /\ plan.prefill = SubSeq(waiting, 1, n)
  BY <1>1, <1>2, <1>4, <1>5, <1>7, <1>8, <1>9 DEF Schedule
<1>11. Range(plan.decode) = K
  <2>1. Range(Filter(running, K)) = Range(running) \cap K
    BY FilterFacts
  <2> QED
    BY <1>1, <1>3, <1>10, <2>1
<1>12. Len(plan.prefill) = n /\ \A i \in 1..n : plan.prefill[i] = waiting[i]
  BY <1>8, <1>10
<1>13. PICK f : f = [i \in 1..n |-> BlocksFor(prefill[waiting[i]])]
  OBVIOUS
<1>14. SumOver(f, 1..n) <= headroom
  <2>1. CASE n = 0
    <3>1. 1..n = {}
      BY <2>1
    <3>2. SumOver(f, {}) = 0
      BY FS_EmptySet, SumType
    <3>3. SumOver(f, 1..n) = 0
      BY <3>1, <3>2
    <3> QED
      BY <1>6, <1>7, <3>3
  <2>2. CASE n # 0
    <3>1. n \in 1..n
      BY <1>8, <2>2
    <3>2. Admissible(n, waiting, prefill, Cardinality(K), headroom)
      BY <1>8, <3>1, NumAdmittedFacts
    <3> QED
      BY <1>13, <3>2 DEF Admissible
  <2> QED
    BY <2>1, <2>2
<1>15. [i \in 1..n |-> BlocksFor(prefill[plan.prefill[i]])] = f
  BY <1>12, <1>13
<1>16. PICK s \in Int : s = SumOver(f, 1..n)
  <2>1. \A i \in 1..n : f[i] \in Int
    <3> SUFFICES ASSUME NEW i \in 1..n PROVE f[i] \in Int
      OBVIOUS
    <3>1. waiting[i] \in X
      BY <1>8
    <3>2. BlocksFor(prefill[waiting[i]]) \in Nat
      BY <3>1, BlocksForFacts
    <3> QED
      BY <1>13, <3>2
  <2>2. n \in Nat /\ IsFiniteSet(1..n)
    BY <1>8, CountUp
  <2>3. SumOver(f, 1..n) \in Int
    BY <2>1, <2>2, SumType
  <2> QED
    BY <2>3
<1>17. s + demand <= free + refund
  BY <1>7, <1>14, <1>16
<1> QED
  BY <1>4, <1>5, <1>9, <1>10, <1>11, <1>12, <1>15, <1>16, <1>17

\* A decision that finds somebody running, the oldest of whom can decode once
\* all others are evicted, keeps at least that one.
LEMMA OldestDecodes ==
  ASSUME NEW R \in SUBSET Int, NEW length, NEW free, NEW o \in R,
         \A r \in R : o <= r, Fits({o}, R, length, free)
  PROVE  o \in DecodeSet(R, length, free)
<1>1. {o} \in OldestSubsets(R)
  BY DEF OldestSubsets
<1> QED
  BY <1>1 DEF DecodeSet

\* One sequence of a set holds its own blocks, the others theirs.
LEMMA HeldTake ==
  ASSUME NEW K, IsFiniteSet(K), NEW length, \A r \in K : length[r] \in Nat, NEW a \in K
  PROVE  BlocksHeld(K, length) = BlocksFor(length[a]) + BlocksHeld(K \ {a}, length)
<1>1. PICK f : f = [r \in K |-> BlocksFor(length[r])]
  OBVIOUS
<1>2. PICK e : e = [r \in K \ {a} |-> BlocksFor(length[r])]
  OBVIOUS
<1>3. /\ \A r \in K : f[r] \in Int /\ f[r] = BlocksFor(length[r])
      /\ \A r \in K \ {a} : f[r] = e[r] /\ e[r] \in Int
  <2>1. \A r \in K : BlocksFor(length[r]) \in Int
    BY BlocksForFacts
  <2> QED
    BY <1>1, <1>2, <2>1
<1>4. PICK L : L = K \ {a}
  OBVIOUS
<1>5. IsFiniteSet(L) /\ \A r \in L : f[r] = e[r] /\ e[r] \in Int
  BY <1>3, <1>4, FS_Subset
<1>6. SumOver(f, L) = SumOver(e, L)
  BY <1>5, SumSame
<1>7. SumOver(f, K) = f[a] + SumOver(f, L)
  BY <1>3, <1>4, SumTake
<1>8. BlocksHeld(K, length) = SumOver(f, K) /\ BlocksHeld(L, length) = SumOver(e, L)
  BY <1>1, <1>2, <1>4 DEF BlocksHeld
<1> QED
  BY <1>3, <1>4, <1>6, <1>7, <1>8

\* Longer caches hold no fewer blocks, and empty ones none.
LEMMA HeldMonotonic ==
  ASSUME NEW K, IsFiniteSet(K), NEW length, NEW other,
         \A r \in K : length[r] \in Nat /\ other[r] \in Nat
  PROVE  /\ (\A r \in K : length[r] <= other[r]) =>
              BlocksHeld(K, length) <= BlocksHeld(K, other)
         /\ (\A r \in K : length[r] = 0) => BlocksHeld(K, length) = 0
<1>1. PICK f : f = [r \in K |-> BlocksFor(length[r])]
  OBVIOUS
<1>2. PICK e : e = [r \in K |-> BlocksFor(other[r])]
  OBVIOUS
<1>3. \A r \in K : f[r] \in Int /\ e[r] \in Int
  BY <1>1, <1>2, BlocksForFacts
<1>4. ASSUME \A r \in K : length[r] <= other[r] PROVE SumOver(f, K) <= SumOver(e, K)
  <2>1. \A r \in K : f[r] <= e[r]
    BY <1>1, <1>2, <1>4, BlocksForFacts
  <2> QED
    BY <1>3, <2>1, SumMonotonic
<1>5. ASSUME \A r \in K : length[r] = 0 PROVE SumOver(f, K) = 0
  <2>1. \A r \in K : f[r] = 0
    BY <1>1, <1>5, BlocksForFacts
  <2> QED
    BY <2>1, SumZero
<1> QED
  BY <1>1, <1>2, <1>4, <1>5 DEF BlocksHeld

\* The blocks a pass must allocate, member by member, are what its caches will
\* hold less what they hold.
LEMMA NeedAlong ==
  ASSUME NEW X, NEW s \in Seq(X), NoDuplicates(s), NEW length, NEW grown, NEW need,
         \A r \in Range(s) : length[r] \in Nat /\ grown[r] \in Nat,
         \A i \in 1..Len(s) : need[i] = BlocksFor(grown[s[i]]) - BlocksFor(length[s[i]])
  PROVE  SumOver(need, 1..Len(s)) + BlocksHeld(Range(s), length) = BlocksHeld(Range(s), grown)
<1>1. PICK T : T = Range(s)
  OBVIOUS
<1>2. PICK f : f = [r \in T |-> BlocksFor(length[r])]
  OBVIOUS
<1>3. PICK e : e = [r \in T |-> BlocksFor(grown[r])]
  OBVIOUS
<1>4. PICK d : d = [r \in T |-> e[r] - f[r]]
  OBVIOUS
<1>5. \A r \in T : f[r] \in Int /\ e[r] \in Int /\ d[r] = e[r] - f[r] /\ d[r] \in Int
  BY <1>1, <1>2, <1>3, <1>4, BlocksForFacts
<1>6. IsFiniteSet(T)
  BY <1>1, LengthFacts
<1>7. SumOver(d, T) + SumOver(f, T) = SumOver(e, T)
  BY <1>5, <1>6, SumMinus
<1>8. \A i \in 1..Len(s) : s[i] \in T /\ need[i] = d[s[i]]
  <2>1. \A i \in 1..Len(s) : s[i] \in T
    BY <1>1 DEF Range
  <2> QED
    BY <1>2, <1>3, <1>4, <2>1
<1>9. SumOver(need, 1..Len(s)) = SumOver(d, T)
  BY <1>1, <1>5, <1>8, SumAlong
<1> QED
  BY <1>1, <1>2, <1>3, <1>7, <1>9 DEF BlocksHeld

\* The blocks a decode must allocate are what the caches hold with one token
\* more, less what they hold.
LEMMA DemandHeld ==
  ASSUME NEW K, IsFiniteSet(K), NEW length, NEW grown,
         \A r \in K : length[r] \in Nat /\ grown[r] = length[r] + 1
  PROVE  DecodeDemand(K, length) + BlocksHeld(K, length) = BlocksHeld(K, grown)
<1>1. PICK f : f = [r \in K |-> BlocksFor(length[r])]
  OBVIOUS
<1>2. PICK e : e = [r \in K |-> BlocksFor(grown[r])]
  OBVIOUS
<1>3. PICK d : d = [r \in K |-> BlocksNeeded(length[r], 1)]
  OBVIOUS
<1>4. \A r \in K : length[r] \in Nat /\ length[r] + 1 \in Nat
  OBVIOUS
<1>5. \A r \in K : f[r] \in Int /\ e[r] \in Int /\ d[r] = e[r] - f[r]
  BY <1>1, <1>2, <1>3, <1>4, BlocksForFacts DEF BlocksNeeded
<1>6. SumOver(d, K) + SumOver(f, K) = SumOver(e, K)
  BY <1>5, SumMinus
<1> QED
  BY <1>1, <1>2, <1>3, <1>6 DEF BlocksHeld, DecodeDemand

\* A set in three parts.
LEMMA HeldThree ==
  ASSUME NEW S, IsFiniteSet(S), NEW T \in SUBSET S, NEW D \in SUBSET S, T \cap D = {},
         NEW U, U = S \ (T \cup D), NEW length, \A r \in S : length[r] \in Nat
  PROVE  /\ BlocksHeld(T, length) \in Nat /\ BlocksHeld(D, length) \in Nat
         /\ BlocksHeld(U, length) \in Nat
         /\ BlocksHeld(S, length)
              = BlocksHeld(T, length) + BlocksHeld(D, length) + BlocksHeld(U, length)
<1>1. PICK V : V = T \cup D
  OBVIOUS
<1>2. /\ IsFiniteSet(T) /\ IsFiniteSet(D) /\ IsFiniteSet(U) /\ IsFiniteSet(V)
      /\ V \cap U = {} /\ S = V \cup U /\ V \subseteq S
  BY <1>1, FS_Subset
<1>3. BlocksHeld(S, length) = BlocksHeld(V, length) + BlocksHeld(U, length)
  BY <1>2, HeldSplit
<1>4. \A r \in T \cup D : length[r] \in Nat
  OBVIOUS
<1>5. BlocksHeld(V, length) = BlocksHeld(T, length) + BlocksHeld(D, length)
  BY <1>1, <1>2, <1>4, HeldSplit
<1>6. BlocksHeld(T, length) \in Nat
  BY <1>2, HeldAndDemand
<1>7. BlocksHeld(D, length) \in Nat
  BY <1>2, HeldAndDemand
<1>8. BlocksHeld(U, length) \in Nat
  BY <1>2, HeldAndDemand
<1> QED
  BY <1>3, <1>5, <1>6, <1>7, <1>8

\* One sequence of a decode set needs its own blocks, the others theirs.
LEMMA DemandTake ==
  ASSUME NEW K, IsFiniteSet(K), NEW length, \A r \in K : length[r] \in Nat, NEW a \in K
  PROVE  /\ BlocksNeeded(length[a], 1) \in Int
         /\ DecodeDemand(K, length)
              = BlocksNeeded(length[a], 1) + DecodeDemand(K \ {a}, length)
<1>1. PICK f : f = [r \in K |-> BlocksNeeded(length[r], 1)]
  OBVIOUS
<1>2. PICK e : e = [r \in K \ {a} |-> BlocksNeeded(length[r], 1)]
  OBVIOUS
<1>3. /\ \A r \in K : f[r] \in Int /\ f[r] = BlocksNeeded(length[r], 1)
      /\ \A r \in K \ {a} : f[r] = e[r] /\ e[r] \in Int
  <2>1. \A r \in K : BlocksNeeded(length[r], 1) \in Int
    <3> SUFFICES ASSUME NEW r \in K PROVE BlocksNeeded(length[r], 1) \in Int
      OBVIOUS
    <3>1. length[r] \in Nat /\ length[r] + 1 \in Nat
      OBVIOUS
    <3>2. BlocksFor(length[r]) \in Nat /\ BlocksFor(length[r] + 1) \in Nat
      BY <3>1, BlocksForFacts
    <3> QED
      BY <3>2 DEF BlocksNeeded
  <2> QED
    BY <1>1, <1>2, <2>1
<1>4. PICK L : L = K \ {a}
  OBVIOUS
<1>5. IsFiniteSet(L) /\ \A r \in L : f[r] = e[r] /\ e[r] \in Int
  BY <1>3, <1>4, FS_Subset
<1>6. SumOver(f, L) = SumOver(e, L)
  BY <1>5, SumSame
<1>7. SumOver(f, K) = f[a] + SumOver(f, L)
  BY <1>3, <1>4, SumTake
<1>8. DecodeDemand(K, length) = SumOver(f, K) /\ DecodeDemand(L, length) = SumOver(e, L)
  BY <1>1, <1>2, <1>4 DEF DecodeDemand
<1> QED
  BY <1>3, <1>4, <1>6, <1>7, <1>8
=============================================================================
