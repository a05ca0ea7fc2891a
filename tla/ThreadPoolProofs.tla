-------------------------- MODULE ThreadPoolProofs --------------------------
(***************************************************************************)
(* Proofs about the worker pool, for any number of workers and callers and *)
(* any sizes and grains: a worker only runs a chunk function whose caller  *)
(* waits for it, and a call that returns did all of its work exactly once. *)
(***************************************************************************)
EXTENDS ThreadPool, OrderedSeqsProofs

PoolTypeOK ==
  /\ runOwner \in Callers \cup {NoCaller}
  /\ generation \in 0..(GenerationSpan - 1)
  /\ regionChunks \in Nat
  /\ regionFn \in Callers \cup {NoCaller}
  /\ remaining \in Nat
  /\ stopping \in BOOLEAN
  /\ dpc \in {"none", "notify", "join", "joined"}
  /\ wpc \in [Workers -> {"check", "asleep", "run", "exited"}]
  /\ seen \in [Workers -> 0..(GenerationSpan - 1)]
  /\ fn \in [Workers -> Callers \cup {NoCaller}]
  /\ numChunks \in [Workers -> Nat]
  /\ chunk \in [Workers -> Nat]
  /\ cpc \in [Callers -> {"idle", "submit", "notify", "await", "asleep", "fold",
                          "returned"}]
  /\ call \in [Callers -> Calls \cup {NoCall}]

\* The workers that have yet to finish the region in flight.
Busy == {w \in Workers : wpc[w] = "run" \/ seen[w] # generation}

\* run_mutex_ is held exactly by the caller inside Run, and region_chunk_fn_ is
\* that caller's.
OwnerInv ==
  /\ regionFn = runOwner
  /\ \A c \in Callers : InRegion(c) <=> runOwner = c
  /\ stopping => \A c \in Callers : cpc[c] = "idle"

\* A worker in a region runs the one that is in flight, and outside a region
\* nobody is left to finish one.
WorkerInv ==
  /\ remaining = Cardinality(Busy)
  /\ runOwner = NoCaller => Busy = {}
  /\ \A w \in Workers : wpc[w] = "run" =>
       /\ seen[w] = generation
       /\ fn[w] = runOwner
       /\ numChunks[w] = regionChunks

PoolInv == PoolTypeOK /\ OwnerInv /\ WorkerInv
----------------------------------------------------------------------------
(* Arithmetic. *)

\* The workers are finitely many, and there is at least one.
LEMMA WorkersFinite ==
  /\ NumThreads \in Nat /\ NumThreads > 0
  /\ IsFiniteSet(Workers) /\ Cardinality(Workers) = NumThreads
  /\ Workers \subseteq Nat
<1>1. NumThreads \in Nat /\ NumThreads > 0
  BY ThreadPoolAssumption
<1> QED
  BY <1>1, FS_Interval DEF Workers

\* The next generation is another one, even where the counter wraps.
LEMMA NextGeneration ==
  ASSUME NEW g \in 0..(GenerationSpan - 1)
  PROVE  /\ (g + 1) % GenerationSpan \in 0..(GenerationSpan - 1)
         /\ (g + 1) % GenerationSpan # g
<1>1. GenerationSpan \in Nat /\ GenerationSpan > 1
  BY ThreadPoolAssumption
<1>2. CASE g + 1 < GenerationSpan
  <2>1. (g + 1) % GenerationSpan = g + 1
    BY <1>1, <1>2
  <2> QED
    BY <1>1, <1>2, <2>1
<1>3. CASE g + 1 = GenerationSpan
  <2>1. (g + 1) % GenerationSpan = 0
    BY <1>1, <1>3
  <2> QED
    BY <1>1, <1>3, <2>1
<1> QED
  BY <1>1, <1>2, <1>3

\* CeilDiv(n, g) chunks of g indices are just enough for n.
LEMMA CeilDivFacts ==
  ASSUME NEW n \in Nat, NEW g \in Nat \ {0}
  PROVE  /\ CeilDiv(n, g) \in Nat
         /\ CeilDiv(n, g) <= n
         /\ CeilDiv(n, g) = 0 => n = 0
         /\ n <= CeilDiv(n, g) * g
         /\ \A ch \in Nat : ch < CeilDiv(n, g) => ch * g < n
<1> DEFINE q == n \div g
           r == n % g
<1>1. q \in Nat /\ r \in Nat /\ r < g /\ n = q * g + r
  BY DivMod
<1>2. CeilDiv(n, g) = IF r # 0 THEN q + 1 ELSE q
  BY <1>1 DEF CeilDiv
<1> HIDE DEF q, r
<1>3. q * g \in Nat /\ q <= q * g
  BY <1>1
<1>4. (q + 1) * g = q * g + g
  BY <1>1
<1>5. ASSUME NEW ch \in Nat, ch < CeilDiv(n, g)
      PROVE  ch * g < n
  <2>1. CASE r # 0
    <3>1. ch <= q
      BY <1>1, <1>2, <1>5, <2>1
    <3>2. ch * g <= q * g /\ ch * g \in Nat
      BY <1>1, <3>1, Multiples
    <3> QED
      BY <1>1, <1>3, <2>1, <3>2
  <2>2. CASE r = 0
    <3>1. ch < q
      BY <1>1, <1>2, <1>5, <2>2
    <3>2. ch * g + g <= q * g /\ ch * g \in Nat
      BY <1>1, <3>1, Multiples
    <3> QED
      BY <1>1, <1>3, <2>2, <3>2
  <2> QED
    BY <2>1, <2>2
<1>6. CeilDiv(n, g) \in Nat /\ CeilDiv(n, g) <= n
  BY <1>1, <1>2, <1>3
<1>7. CeilDiv(n, g) = 0 => n = 0
  <2> SUFFICES ASSUME CeilDiv(n, g) = 0 PROVE n = 0
    OBVIOUS
  <2>1. q = 0 /\ r = 0
    BY <1>1, <1>2
  <2> QED
    BY <1>1, <2>1
<1>8. n <= CeilDiv(n, g) * g
  <2>1. CASE r # 0
    BY <1>1, <1>2, <1>3, <1>4, <2>1
  <2>2. CASE r = 0
    BY <1>1, <1>2, <1>3, <2>2
  <2> QED
    BY <2>1, <2>2
<1> QED
  BY <1>5, <1>6, <1>7, <1>8

\* MaxSize is the largest of the sizes, and not zero.
LEMMA MaxSizeFacts ==
  /\ MaxSize \in Nat /\ MaxSize > 0
  /\ \A n \in Sizes : n \in Nat /\ n <= MaxSize
<1>1. PICK n \in Sizes : \A m \in Sizes : m <= n
  BY ThreadPoolAssumption, GreatestExists
<1>2. MaxSize \in Sizes /\ \A m \in Sizes : m <= MaxSize
  BY <1>1 DEF MaxSize
<1> QED
  BY <1>2, ThreadPoolAssumption

\* The fields of a call, one that has not begun included.
LEMMA CallType ==
  ASSUME NEW k \in Calls \cup {NoCall}
  PROVE  /\ k.n \in Nat /\ k.n <= MaxSize /\ k.grain \in Nat \ {0}
         /\ CeilDiv(k.n, k.grain) \in Nat
<1>1. k.n \in Nat /\ k.n <= MaxSize /\ k.grain \in Nat \ {0}
  <2>1. CASE k \in Calls
    <3>1. k.n \in Sizes /\ k.grain \in Grains
      BY <2>1 DEF Calls
    <3> QED
      BY <3>1, MaxSizeFacts, ThreadPoolAssumption
  <2>2. CASE k = NoCall
    <3>1. k.n = 0 /\ k.grain = 1
      BY <2>2 DEF NoCall
    <3> QED
      BY <3>1, MaxSizeFacts
  <2> QED
    BY <2>1, <2>2
<1> QED
  BY <1>1, CeilDivFacts
----------------------------------------------------------------------------
(* RegionOwned. *)

\* No region, and nobody in one.
LEMMA InitPool == Init => PoolInv
<1> SUFFICES ASSUME Init PROVE PoolInv
  OBVIOUS
<1> USE DEF Init
<1>1. PoolTypeOK
  <2>1. 0 \in 0..(GenerationSpan - 1)
    BY ThreadPoolAssumption
  <2>2. call \in [Callers -> Calls \cup {NoCall}]
    OBVIOUS
  <2> QED
    BY <2>1, <2>2 DEF PoolTypeOK
<1>2. OwnerInv
  BY ThreadPoolAssumption DEF OwnerInv, InRegion
<1>3. Busy = {}
  BY DEF Busy
<1>4. WorkerInv
  BY <1>3, FS_EmptySet DEF WorkerInv
<1> QED
  BY <1>1, <1>2, <1>4 DEF PoolInv

\* A caller's own steps outside Run leave the pool alone.
LEMMA OutsidePool ==
  ASSUME PoolInv, NEW c \in Callers,
         UNCHANGED <<poolVars, stopVars, workerVars>>,
         ~InRegion(c), runOwner # c,
         NEW p \in {"idle", "submit", "fold", "returned"},
         cpc' = [cpc EXCEPT ![c] = p],
         call' \in [Callers -> Calls \cup {NoCall}],
         stopping => p = "idle"
  PROVE  PoolInv'
<1> USE DEF PoolInv, poolVars, stopVars, workerVars
<1>1. PoolTypeOK'
  BY DEF PoolTypeOK
<1>2. OwnerInv'
  BY DEF OwnerInv, PoolTypeOK, InRegion
<1>3. Busy' = Busy
  BY DEF Busy
<1>4. WorkerInv'
  BY <1>3 DEF WorkerInv
<1> QED
  BY <1>1, <1>2, <1>4

\* So does a step that only moves workers that are not in a region, or wakes.
LEMMA QuietPool ==
  ASSUME PoolInv, UNCHANGED <<poolVars, stopping, seen, fn, numChunks, cpc, call>>,
         dpc' \in {"none", "notify", "join", "joined"},
         wpc' \in [Workers -> {"check", "asleep", "run", "exited"}],
         \A w \in Workers : wpc'[w] = "run" <=> wpc[w] = "run",
         chunk' \in [Workers -> Nat]
  PROVE  PoolInv'
<1> USE DEF PoolInv, poolVars
<1>1. PoolTypeOK'
  BY DEF PoolTypeOK
<1>2. OwnerInv'
  BY DEF OwnerInv, InRegion
<1>3. Busy' = Busy
  BY DEF Busy
<1>4. WorkerInv'
  BY <1>3 DEF WorkerInv
<1> QED
  BY <1>1, <1>2, <1>4

\* Publish starts a region with every worker still to finish it.
LEMMA PublishPool ==
  ASSUME PoolInv, NEW c \in Callers, Publish(c)
  PROVE  PoolInv' /\ Busy = {} /\ Busy' = Workers
<1> USE DEF PoolInv, Publish, stopVars, workerVars, callVars
<1>1. Busy = {}
  BY DEF WorkerInv
<1>2. \A w \in Workers : wpc[w] # "run" /\ seen[w] = generation
  BY <1>1 DEF Busy
<1>3. generation' \in 0..(GenerationSpan - 1) /\ generation' # generation
  BY NextGeneration DEF PoolTypeOK
<1>4. Busy' = Workers
  BY <1>2, <1>3 DEF Busy
<1>5. regionChunks' \in Nat
  <2>1. call[c] \in Calls \cup {NoCall}
    BY DEF PoolTypeOK
  <2> QED
    BY <2>1, CallType
<1>6. PoolTypeOK'
  BY <1>3, <1>5, WorkersFinite DEF PoolTypeOK
<1>7. OwnerInv'
  <2>1. \A d \in Callers : InRegion(d)' <=> c = d
    <3> SUFFICES ASSUME NEW d \in Callers PROVE InRegion(d)' <=> c = d
      OBVIOUS
    <3>1. CASE d = c
      BY <3>1 DEF InRegion, PoolTypeOK
    <3>2. CASE d # c
      BY <3>2, ThreadPoolAssumption DEF InRegion, PoolTypeOK, OwnerInv
    <3> QED
      BY <3>1, <3>2
  <2>2. ~stopping
    BY DEF OwnerInv
  <2> QED
    BY <2>1, <2>2 DEF OwnerInv
<1>8. WorkerInv'
  BY <1>2, <1>4, WorkersFinite, ThreadPoolAssumption DEF WorkerInv
<1> QED
  BY <1>1, <1>4, <1>6, <1>7, <1>8

\* The caller leaves Run when nobody is left in its region.
LEMMA AwaitPool ==
  ASSUME PoolInv, NEW c \in Callers, AwaitDone(c)
  PROVE  PoolInv' /\ Busy' = Busy /\ (~InRegion(c)' => Busy = {})
<1> USE DEF PoolInv, AwaitDone, stopVars, workerVars, callVars
<1>1. Busy' = Busy
  BY DEF Busy
<1>2. runOwner = c
  BY DEF OwnerInv, InRegion
<1>3. PoolTypeOK'
  BY DEF PoolTypeOK
<1>4. ~stopping
  BY DEF OwnerInv
<1>5. CASE remaining = 0
  <2>1. Busy = {}
    <3>1. IsFiniteSet(Busy)
      BY WorkersFinite, FS_Subset DEF Busy
    <3> QED
      BY <1>5, <3>1, FS_EmptySet DEF WorkerInv
  <2>2. OwnerInv'
    BY <1>2, <1>4, <1>5, ThreadPoolAssumption DEF OwnerInv, InRegion, PoolTypeOK
  <2>3. \A w \in Workers : wpc[w] # "run"
    BY <2>1 DEF Busy
  <2>4. WorkerInv'
    BY <1>1, <1>5, <2>1, <2>3 DEF WorkerInv
  <2> QED
    BY <1>1, <1>3, <2>1, <2>2, <2>4
<1>6. CASE remaining # 0
  <2>1. OwnerInv'
    BY <1>2, <1>4, <1>6 DEF OwnerInv, InRegion, PoolTypeOK
  <2>2. WorkerInv'
    BY <1>1, <1>6 DEF WorkerInv
  <2>3. InRegion(c)'
    BY <1>6 DEF InRegion, PoolTypeOK
  <2> QED
    BY <1>1, <1>3, <2>1, <2>2, <2>3
<1> QED
  BY <1>5, <1>6

\* A worker that joins the region was counted among those left, and still is.
LEMMA CheckPool ==
  ASSUME PoolInv, NEW w \in Workers, WorkerCheck(w)
  PROVE  PoolInv' /\ Busy' = Busy
<1> USE DEF PoolInv, WorkerCheck, poolVars, stopVars, callVars
<1>1. CASE ~stopping /\ generation # seen[w]
  <2>1. w \in Busy
    BY <1>1 DEF Busy
  <2>2. runOwner # NoCaller
    BY <2>1 DEF WorkerInv
  <2>3. PoolTypeOK'
    BY <1>1, WorkersFinite DEF PoolTypeOK
  <2>4. OwnerInv'
    BY DEF OwnerInv, InRegion
  <2>5. Busy' = Busy
    BY <1>1 DEF Busy, PoolTypeOK
  <2>6. WorkerInv'
    BY <1>1, <2>2, <2>5 DEF WorkerInv, OwnerInv, PoolTypeOK
  <2> QED
    BY <2>3, <2>4, <2>5, <2>6
<1>2. CASE ~(~stopping /\ generation # seen[w])
  <2>1. Busy' = Busy
    BY <1>2 DEF Busy, PoolTypeOK
  <2>2. PoolInv'
    <3>1. wpc' \in [Workers -> {"check", "asleep", "run", "exited"}]
      BY <1>2 DEF PoolTypeOK
    <3>2. \A x \in Workers : wpc'[x] = "run" <=> wpc[x] = "run"
      BY <1>2 DEF PoolTypeOK
    <3> QED
      BY <1>2, <3>1, <3>2, QuietPool DEF PoolTypeOK
  <2> QED
    BY <2>1, <2>2
<1> QED
  BY <1>1, <1>2

\* A worker that finishes leaves those that are left, one at a time.
LEMMA FinishPool ==
  ASSUME PoolInv, NEW w \in Workers, FinishRegion(w)
  PROVE  PoolInv' /\ w \in Busy /\ Busy' = Busy \ {w}
<1> USE DEF PoolInv, FinishRegion, LeaveRound, stopVars, callVars
<1>1. w \in Busy
  BY DEF Busy
<1>2. seen[w] = generation /\ runOwner # NoCaller
  BY <1>1 DEF WorkerInv
<1>3. Busy' = Busy \ {w}
  BY <1>2 DEF Busy, PoolTypeOK
<1>4. IsFiniteSet(Busy)
  BY WorkersFinite, FS_Subset DEF Busy
<1>5. Cardinality(Busy) \in Nat /\ Cardinality(Busy) # 0
  BY <1>1, <1>4, FS_EmptySet, FS_CardinalityType
<1>6. Cardinality(Busy') = Cardinality(Busy) - 1
  BY <1>1, <1>3, <1>4, FS_RemoveElement
<1>7. PoolTypeOK'
  BY <1>5 DEF PoolTypeOK, WorkerInv
<1>8. OwnerInv'
  BY DEF OwnerInv, InRegion, PoolTypeOK
<1>9. WorkerInv'
  BY <1>2, <1>6 DEF WorkerInv, PoolTypeOK
<1> QED
  BY <1>1, <1>3, <1>7, <1>8, <1>9

\* Every step of a caller, a worker or the destructor keeps the pool's account.
LEMMA PoolStep == PoolInv /\ [Next]_vars => PoolInv'
<1> SUFFICES ASSUME PoolInv, [Next]_vars PROVE PoolInv'
  OBVIOUS
<1> USE DEF PoolInv
<1>1. ASSUME NEW c \in Callers, NEW k \in Calls, Begin(c, k) PROVE PoolInv'
  <2>1. ~InRegion(c) /\ runOwner # c
    BY <1>1 DEF Begin, InRegion, OwnerInv
  <2>2. call' \in [Callers -> Calls \cup {NoCall}]
    BY <1>1 DEF Begin, PoolTypeOK
  <2>3. ~stopping
    BY <1>1 DEF Begin
  <2>4. CASE CeilDiv(k.n, k.grain) <= 1
    BY <1>1, <2>1, <2>2, <2>3, <2>4, OutsidePool DEF Begin
  <2>5. CASE ~(CeilDiv(k.n, k.grain) <= 1)
    BY <1>1, <2>1, <2>2, <2>3, <2>5, OutsidePool DEF Begin
  <2> QED
    BY <2>4, <2>5
<1>2. ASSUME NEW c \in Callers, Publish(c) PROVE PoolInv'
  BY <1>2, PublishPool
<1>3. ASSUME NEW c \in Callers, NotifyWork(c) PROVE PoolInv'
  <2> USE <1>3 DEF NotifyWork, WakeWorkers, poolVars, stopVars, callVars
  <2>1. PoolTypeOK'
    BY DEF PoolTypeOK
  <2>2. OwnerInv'
    BY DEF OwnerInv, InRegion, PoolTypeOK
  <2>3. \A w \in Workers : wpc'[w] = "run" <=> wpc[w] = "run"
    OBVIOUS
  <2>4. Busy' = Busy
    BY <2>3 DEF Busy
  <2>5. WorkerInv'
    BY <2>3, <2>4 DEF WorkerInv
  <2> QED
    BY <2>1, <2>2, <2>5
<1>4. ASSUME NEW c \in Callers, AwaitDone(c) PROVE PoolInv'
  BY <1>4, AwaitPool
<1>5. ASSUME NEW c \in Callers, FoldPass(c) PROVE PoolInv'
  <2>1. ~InRegion(c) /\ runOwner # c /\ ~stopping
    BY <1>5 DEF FoldPass, InRegion, OwnerInv
  <2>2. call' \in [Callers -> Calls \cup {NoCall}]
    BY <1>5 DEF FoldPass, PoolTypeOK
  <2>3. CASE count[c] > 1
    <3>1. cpc' = [cpc EXCEPT ![c] = "fold"]
      BY <1>5, <2>3 DEF FoldPass, PoolTypeOK
    <3> QED
      BY <1>5, <2>1, <2>2, <3>1, OutsidePool DEF FoldPass
  <2>4. CASE ~(count[c] > 1)
    BY <1>5, <2>1, <2>2, <2>4, OutsidePool DEF FoldPass
  <2> QED
    BY <2>3, <2>4
<1>6. ASSUME NEW c \in Callers, Return(c) PROVE PoolInv'
  <2>1. ~InRegion(c) /\ runOwner # c
    BY <1>6 DEF Return, InRegion, OwnerInv
  <2>2. call' \in [Callers -> Calls \cup {NoCall}]
    BY <1>6 DEF Return, PoolTypeOK
  <2> QED
    BY <1>6, <2>1, <2>2, OutsidePool DEF Return
<1>7. ASSUME NEW c \in Callers, SpuriousCaller(c) PROVE PoolInv'
  <2> USE <1>7 DEF SpuriousCaller, poolVars, stopVars, workerVars, callVars
  <2>1. PoolTypeOK'
    BY DEF PoolTypeOK
  <2>2. OwnerInv'
    BY DEF OwnerInv, InRegion, PoolTypeOK
  <2>3. Busy' = Busy
    BY DEF Busy
  <2>4. WorkerInv'
    BY <2>3 DEF WorkerInv
  <2> QED
    BY <2>1, <2>2, <2>4
<1>8. ASSUME NEW w \in Workers, WorkerCheck(w) PROVE PoolInv'
  BY <1>8, CheckPool
<1>9. ASSUME NEW w \in Workers, RunChunk(w) PROVE PoolInv'
  <2>1. chunk' \in [Workers -> Nat]
    BY <1>9, WorkersFinite DEF RunChunk, PoolTypeOK
  <2> QED
    BY <1>9, <2>1, QuietPool DEF RunChunk, PoolTypeOK, stopVars
<1>10. ASSUME NEW w \in Workers, FinishRegion(w) PROVE PoolInv'
  BY <1>10, FinishPool
<1>11. ASSUME NEW w \in Workers, SpuriousWorker(w) PROVE PoolInv'
  BY <1>11, QuietPool DEF SpuriousWorker, PoolTypeOK, stopVars, callVars
<1>12. CASE Destroy
  <2> USE <1>12 DEF Destroy, poolVars, workerVars, callVars
  <2>1. PoolTypeOK'
    BY DEF PoolTypeOK
  <2>2. OwnerInv'
    BY DEF OwnerInv, InRegion
  <2>3. Busy' = Busy
    BY DEF Busy
  <2>4. WorkerInv'
    BY <2>3 DEF WorkerInv
  <2> QED
    BY <2>1, <2>2, <2>4
<1>13. CASE NotifyStop
  <2>1. wpc' \in [Workers -> {"check", "asleep", "run", "exited"}]
    BY <1>13 DEF NotifyStop, WakeWorkers, PoolTypeOK
  <2>2. \A w \in Workers : wpc'[w] = "run" <=> wpc[w] = "run"
    BY <1>13 DEF NotifyStop, WakeWorkers
  <2> QED
    BY <1>13, <2>1, <2>2, QuietPool DEF NotifyStop, PoolTypeOK, callVars
<1>14. CASE Join
  BY <1>14, QuietPool DEF Join, PoolTypeOK, workerVars, callVars
<1>15. CASE UNCHANGED vars
  BY <1>15, QuietPool DEF vars, PoolTypeOK, stopVars, workerVars, callVars
<1> QED
  BY <1>1, <1>2, <1>3, <1>4, <1>5, <1>6, <1>7, <1>8, <1>9, <1>10, <1>11, <1>12,
     <1>13, <1>14, <1>15 DEF Next, CallerStep, WorkerStep

\* Under every interleaving, a worker inside a region uses the chunk function of
\* the caller that is blocked in Run, and workers_remaining_ counts exactly the
\* workers that have yet to finish, also when region_generation_ wraps.
THEOREM RegionsOwned == Spec => []RegionOwned
<1>1. PoolInv => RegionOwned
  <2> SUFFICES ASSUME PoolInv PROVE RegionOwned
    OBVIOUS
  <2>1. RemainingExact
    BY DEF PoolInv, WorkerInv, RemainingExact, Busy
  <2>2. ASSUME NEW w \in Workers, wpc[w] = "run"
        PROVE  /\ fn[w] # NoCaller /\ InRegion(fn[w])
               /\ regionFn = fn[w] /\ runOwner = fn[w]
    <3>1. w \in Busy
      BY <2>2 DEF Busy
    <3>2. runOwner # NoCaller /\ fn[w] = runOwner /\ regionFn = runOwner
      BY <2>2, <3>1 DEF PoolInv, WorkerInv, OwnerInv
    <3> QED
      BY <3>2 DEF PoolInv, PoolTypeOK, OwnerInv
  <2> QED
    BY <2>1, <2>2 DEF RegionOwned, NoDanglingChunkFn
<1> QED
  BY <1>1, InitPool, PoolStep, PTL DEF Spec
----------------------------------------------------------------------------
(* RegionComplete. *)

\* The indices of a chunk of a call.
ChunkOf(k, ch) == ChunkBegin(k, ch)..(ChunkEnd(k, ch) - 1)

\* Worker w is past chunk ch, one of its own.
Ran(w, ch) == w \notin Busy \/ (wpc[w] = "run" /\ ch < chunk[w])

\* A step that does not take w past ch.
KeepsRan(w, ch) == Ran(w, ch)' <=> Ran(w, ch)

\* The call's chunks are those of its size and grain, more than one of them.
Planned(c) ==
  /\ call[c] \in Calls
  /\ count[c] = CeilDiv(call[c].n, call[c].grain) /\ count[c] > 1

\* What the workers have done so far of the region of caller c: the chunks they
\* are past, each once, with its partial in place, and nothing else.
Progress(c) ==
  /\ \A w \in Workers, ch \in 0..(count[c] - 1) : ch % NumThreads = w =>
       /\ \A i \in ChunkOf(call[c], ch) : visits[c][i] = IF Ran(w, ch) THEN 1 ELSE 0
       /\ Ran(w, ch) => slots[c][ch] = Partial(ChunkBegin(call[c], ch),
                                               ChunkEnd(call[c], ch))
  /\ \A i \in Indices : i >= call[c].n => visits[c][i] = 0

AllVisited(c) ==
  \A i \in Indices : visits[c][i] = IF i < call[c].n THEN 1 ELSE 0

\* The first k partials hold each index below n once.
Covers(s, k, n) ==
  /\ \A j \in 0..(k - 1) : NoDuplicates(s[j]) /\ Range(s[j]) \subseteq 0..(n - 1)
  /\ \A i, j \in 0..(k - 1) : i # j => Range(s[i]) \cap Range(s[j]) = {}
  /\ \A x \in 0..(n - 1) : \E j \in 0..(k - 1) : x \in Range(s[j])

CallTypeOK ==
  /\ visits \in [Callers -> [Indices -> Nat]]
  /\ slots \in [Callers -> [Indices -> Seq(Nat)]]
  /\ count \in [Callers -> 0..MaxSize]

\* A running worker is at one of its own chunks.
TurnInv == \A w \in Workers : wpc[w] = "run" => chunk[w] % NumThreads = w

OneCall(c) ==
  /\ cpc[c] = "submit" => Planned(c) /\ visits[c] = NoVisits
  /\ InRegion(c) => Planned(c) /\ regionChunks = count[c] /\ Progress(c)
  /\ cpc[c] = "fold" =>
       /\ AllVisited(c) /\ count[c] > 0
       /\ Covers(slots[c], count[c], call[c].n)
  /\ cpc[c] = "returned" =>
       /\ AllVisited(c)
       /\ call[c].op = "parallel_reduce" =>
            /\ count[c] <= 1 /\ (count[c] = 0 => slots[c][0] = <<>>)
            /\ Covers(slots[c], count[c], call[c].n)

CallInv == \A c \in Callers : OneCall(c)

WorkInv == CallTypeOK /\ TurnInv /\ CallInv

\* The chunks of one worker: they start at its own number and are NumThreads
\* apart.
LEMMA Turns ==
  ASSUME NEW a \in Nat
  PROVE  /\ a % NumThreads \in Workers
         /\ a \in Workers => a % NumThreads = a
         /\ (a + NumThreads) % NumThreads = a % NumThreads
         /\ \A b \in Nat : a % NumThreads = b % NumThreads /\ a < b
                             => a + NumThreads <= b
<1> DEFINE T == NumThreads
<1>1. T \in Nat \ {0}
  BY WorkersFinite
<1>2. a \div T \in Nat /\ a % T \in Nat /\ a % T < T /\ a = (a \div T) * T + (a % T)
  BY <1>1, DivMod
<1>3. a % T \in Workers
  BY <1>1, <1>2 DEF Workers
<1>4. ASSUME a \in Workers PROVE a % T = a
  <2>1. a < T /\ 0 * T + a = a
    BY <1>1, <1>4 DEF Workers
  <2> HIDE DEF T
  <2> QED
    BY <1>1, <1>2, <2>1, DivModUnique
<1>5. (a + T) % T = a % T
  <2> DEFINE b == a + T
  <2>1. b \in Nat
    BY <1>1
  <2>2. b \div T \in Nat /\ b % T \in Nat /\ b % T < T /\ b = (b \div T) * T + (b % T)
    BY <1>1, <2>1, DivMod
  <2>3. a \div T + 1 \in Nat /\ (a \div T + 1) * T = (a \div T) * T + T
    BY <1>1, <1>2
  <2>4. (a \div T) * T \in Nat
    BY <1>1, <1>2
  <2>5. b = (a \div T + 1) * T + (a % T)
    BY <1>1, <1>2, <2>3, <2>4
  <2>6. b % T = a % T
    <3> DEFINE p == b \div T
               q == a \div T + 1
               r == a % T
               t == b % T
    <3>1. p \in Nat /\ q \in Nat /\ r \in Nat /\ t \in Nat /\ r < T /\ t < T
      BY <1>2, <2>2, <2>3
    <3>2. q * T + r = p * T + t
      BY <2>2, <2>5
    <3> HIDE DEF T, b, p, q, r, t
    <3>3. r = t
      BY <1>1, <3>1, <3>2, DivModUnique
    <3> QED
      BY <3>3 DEF r, t
  <2> QED
    BY <2>6
<1>6. ASSUME NEW b \in Nat, a % T = b % T, a < b PROVE a + T <= b
  <2>1. b \div T \in Nat /\ b = (b \div T) * T + (b % T)
    BY <1>1, DivMod
  <2>2. (a \div T) * T \in Nat /\ (b \div T) * T \in Nat
    BY <1>1, <1>2, <2>1
  <2>3. (a \div T) * T < (b \div T) * T
    BY <1>2, <1>6, <2>1, <2>2
  <2>4. ~(b \div T <= a \div T)
    <3> SUFFICES ASSUME b \div T <= a \div T PROVE FALSE
      OBVIOUS
    <3>1. (b \div T) * T <= (a \div T) * T
      BY <1>1, <1>2, <2>1, Multiples
    <3> QED
      BY <2>2, <2>3, <3>1
  <2>5. (a \div T) * T + T <= (b \div T) * T
    <3>1. a \div T < b \div T
      BY <1>2, <2>1, <2>4
    <3> HIDE DEF T
    <3> QED
      BY <1>1, <1>2, <2>1, <3>1, Multiples
  <2> QED
    BY <1>1, <1>2, <1>6, <2>1, <2>2, <2>5
<1> QED
  BY <1>3, <1>4, <1>5, <1>6

\* The chunks of a call: inside its range, apart from each other, and together
\* all of it.
LEMMA ChunkFacts ==
  ASSUME NEW k \in Calls
  PROVE  /\ \A ch \in 0..(CeilDiv(k.n, k.grain) - 1) :
              /\ ChunkBegin(k, ch) \in Nat /\ ChunkEnd(k, ch) \in Nat
              /\ ChunkBegin(k, ch) < ChunkEnd(k, ch) /\ ChunkEnd(k, ch) <= k.n
              /\ ChunkOf(k, ch) \subseteq 0..(k.n - 1)
         /\ \A a, b \in 0..(CeilDiv(k.n, k.grain) - 1) :
              a # b => ChunkOf(k, a) \cap ChunkOf(k, b) = {}
         /\ \A i \in 0..(k.n - 1) :
              \E ch \in 0..(CeilDiv(k.n, k.grain) - 1) : i \in ChunkOf(k, ch)
<1> DEFINE n == k.n
           g == k.grain
           N == CeilDiv(n, g)
<1>1. n \in Nat /\ g \in Nat \ {0}
  BY CallType
<1>2. /\ N \in Nat /\ n <= N * g
      /\ \A ch \in Nat : ch < N => ch * g < n
  BY <1>1, CeilDivFacts
<1>3. ASSUME NEW ch \in 0..(N - 1)
      PROVE  /\ ChunkBegin(k, ch) = ch * g /\ ch * g \in Nat /\ ch \in Nat
             /\ ChunkEnd(k, ch) = IF ch * g + g < n THEN ch * g + g ELSE n
             /\ ch * g < n
  <2>1. ch \in Nat /\ ch < N
    BY <1>2
  <2>2. ch * g \in Nat
    BY <1>1, <2>1, Multiples
  <2> QED
    BY <1>2, <2>1, <2>2 DEF ChunkBegin, ChunkEnd
<1> HIDE DEF n, g, N
<1>4. ASSUME NEW ch \in 0..(N - 1)
      PROVE  /\ ChunkBegin(k, ch) \in Nat /\ ChunkEnd(k, ch) \in Nat
             /\ ChunkBegin(k, ch) < ChunkEnd(k, ch) /\ ChunkEnd(k, ch) <= n
             /\ ChunkOf(k, ch) \subseteq 0..(n - 1)
  <2>1. /\ ChunkBegin(k, ch) \in Nat /\ ChunkEnd(k, ch) \in Nat
        /\ ChunkBegin(k, ch) < ChunkEnd(k, ch) /\ ChunkEnd(k, ch) <= n
    BY <1>1, <1>3
  <2> QED
    BY <1>1, <2>1 DEF ChunkOf
<1>5. ASSUME NEW a \in 0..(N - 1), NEW b \in 0..(N - 1), a < b
      PROVE  ChunkOf(k, a) \cap ChunkOf(k, b) = {}
  <2>1. a * g + g <= b * g
    BY <1>1, <1>3, <1>5, Multiples
  <2>2. ChunkEnd(k, a) <= ChunkBegin(k, b)
    BY <1>1, <1>3, <2>1
  <2> QED
    BY <1>4, <2>2 DEF ChunkOf
<1>6. \A a, b \in 0..(N - 1) : a # b => ChunkOf(k, a) \cap ChunkOf(k, b) = {}
  <2> SUFFICES ASSUME NEW a \in 0..(N - 1), NEW b \in 0..(N - 1), a # b
               PROVE  ChunkOf(k, a) \cap ChunkOf(k, b) = {}
    OBVIOUS
  <2>1. a < b \/ b < a
    BY <1>3
  <2> QED
    BY <1>5, <2>1
<1>7. ASSUME NEW i \in 0..(n - 1)
      PROVE  \E ch \in 0..(N - 1) : i \in ChunkOf(k, ch)
  <2> DEFINE ch == i \div g
  <2>1. i \in Nat /\ i < n
    BY <1>1
  <2>2. ch \in Nat /\ i % g \in Nat /\ i % g < g /\ i = ch * g + (i % g)
    BY <1>1, <2>1, DivMod
  <2> HIDE DEF ch
  <2>3. ch * g \in Nat /\ N * g \in Nat
    BY <1>1, <1>2, <2>2, Multiples
  <2>4. ch < N
    <3> SUFFICES ASSUME ~(ch < N) PROVE FALSE
      OBVIOUS
    <3>1. N <= ch
      BY <1>2, <2>2
    <3>2. N * g <= ch * g
      BY <1>1, <1>2, <2>2, <3>1, Multiples
    <3> QED
      BY <1>1, <1>2, <2>1, <2>2, <2>3, <3>2
  <2>5. ch \in 0..(N - 1)
    BY <1>2, <2>2, <2>4
  <2>6. ChunkBegin(k, ch) <= i /\ i < ChunkEnd(k, ch)
    BY <1>1, <1>3, <2>1, <2>2, <2>3, <2>5
  <2>7. i \in ChunkOf(k, ch)
    BY <1>4, <2>1, <2>5, <2>6 DEF ChunkOf
  <2> QED
    BY <2>5, <2>7
<1> QED
  BY <1>4, <1>6, <1>7 DEF n, g, N

\* A chunk's partial holds the indices of the chunk, each once.
LEMMA PartialFacts ==
  ASSUME NEW from \in Nat, NEW to \in Nat, from <= to
  PROVE  /\ Partial(from, to) \in Seq(Nat)
         /\ NoDuplicates(Partial(from, to))
         /\ Range(Partial(from, to)) = from..(to - 1)
<1> DEFINE s == Partial(from, to)
<1>1. to - from \in Nat
  OBVIOUS
<1>2. DOMAIN s = 1..(to - from) /\ \A j \in 1..(to - from) : s[j] = from + j - 1
  BY DEF Partial
<1>3. \A j \in 1..(to - from) : from + j - 1 \in Nat
  OBVIOUS
<1>4. s \in Seq(Nat)
  BY <1>1, <1>3 DEF Partial
<1> HIDE DEF s
<1>5. NoDuplicates(s)
  BY <1>2 DEF NoDuplicates
<1>6. \A x \in from..(to - 1) : x - from + 1 \in 1..(to - from) /\ from + (x - from + 1) - 1 = x
  OBVIOUS
<1>7. \A j \in 1..(to - from) : from + j - 1 \in from..(to - 1)
  OBVIOUS
<1>8. Range(s) = from..(to - 1)
  <2>1. \A j \in DOMAIN s : s[j] \in from..(to - 1)
    BY <1>2, <1>7
  <2>2. ASSUME NEW x \in from..(to - 1) PROVE \E j \in DOMAIN s : s[j] = x
    <3>1. x - from + 1 \in DOMAIN s /\ s[x - from + 1] = x
      BY <1>2, <1>6
    <3> QED
      BY <3>1
  <2> QED
    BY <2>1, <2>2, Zenon DEF Range
<1> QED
  BY <1>4, <1>5, <1>8 DEF s

\* The partials of all chunks cover a call.
LEMMA RegionCovers ==
  ASSUME NEW k \in Calls, NEW s \in [Indices -> Seq(Nat)],
         \A ch \in 0..(CeilDiv(k.n, k.grain) - 1) :
           s[ch] = Partial(ChunkBegin(k, ch), ChunkEnd(k, ch))
  PROVE  Covers(s, CeilDiv(k.n, k.grain), k.n)
<1> DEFINE N == CeilDiv(k.n, k.grain)
<1>1. ASSUME NEW ch \in 0..(N - 1)
      PROVE  /\ NoDuplicates(s[ch]) /\ Range(s[ch]) = ChunkOf(k, ch)
             /\ ChunkOf(k, ch) \subseteq 0..(k.n - 1)
  <2>1. /\ ChunkBegin(k, ch) \in Nat /\ ChunkEnd(k, ch) \in Nat
        /\ ChunkBegin(k, ch) < ChunkEnd(k, ch)
        /\ ChunkOf(k, ch) \subseteq 0..(k.n - 1)
    BY ChunkFacts
  <2>2. ChunkBegin(k, ch) <= ChunkEnd(k, ch)
    BY <2>1
  <2> QED
    BY <2>1, <2>2, PartialFacts DEF ChunkOf
<1> HIDE DEF N
<1>2. \A a, b \in 0..(N - 1) : a # b => ChunkOf(k, a) \cap ChunkOf(k, b) = {}
  BY ChunkFacts DEF N
<1>3. \A i \in 0..(k.n - 1) : \E ch \in 0..(N - 1) : i \in ChunkOf(k, ch)
  BY ChunkFacts DEF N
<1>4. Covers(s, N, k.n)
  BY <1>1, <1>2, <1>3 DEF Covers
<1> QED
  BY <1>4 DEF N

\* One partial that covers n indices has n elements.
LEMMA CoverLength ==
  ASSUME NEW n \in Nat, NEW s, s[0] \in Seq(Nat), Covers(s, 1, n)
  PROVE  /\ Len(s[0]) = n
         /\ \A i \in 0..(n - 1) : \E j \in 1..Len(s[0]) : s[0][j] = i
<1> DEFINE q == s[0]
           D == 1..Len(q)
<1>0. 0..(1 - 1) = {0}
  OBVIOUS
<1>1. q \in Seq(Nat) /\ Len(q) \in Nat /\ DOMAIN q = D
  OBVIOUS
<1>2. NoDuplicates(q) /\ Range(q) \subseteq 0..(n - 1)
  BY <1>0 DEF Covers
<1>3. \A i \in 0..(n - 1) : i \in Range(q)
  BY <1>0 DEF Covers
<1> HIDE DEF q
<1>4. \A j \in D : q[j] \in 0..(n - 1)
  BY <1>1, <1>2 DEF Range
<1>5. \A i \in 0..(n - 1) : \E j \in D : q[j] = i
  BY <1>1, <1>3 DEF Range
<1>6. \A i, j \in D : q[i] = q[j] => i = j
  BY <1>1, <1>2 DEF NoDuplicates
<1>7. q \in [D -> 0..(n - 1)]
  BY <1>1, <1>4
<1>8. IsFiniteSet(D) /\ Cardinality(D) = Len(q)
  BY <1>1, CountUp
<1>9. IsFiniteSet(0..(n - 1)) /\ Cardinality(0..(n - 1)) = n
  BY CountUp
<1>10. Cardinality(D) = Cardinality(0..(n - 1))
  <2> HIDE DEF D
  <2>1. q \in Bijection(D, 0..(n - 1))
    BY <1>5, <1>6, <1>7, Fun_IsBij
  <2>2. ExistsBijection(D, 0..(n - 1))
    BY <2>1 DEF ExistsBijection
  <2> QED
    BY <1>8, <1>9, <2>2, FS_Bijection, FS_SameCardinalityBij
<1> QED
  BY <1>5, <1>8, <1>9, <1>10 DEF q

\* The partials after a fold pass over half + half + o of them.
Folded(s, half, o) ==
  [i \in Indices |->
     IF i < half THEN s[i] \o s[i + half]
     ELSE IF i = half /\ o = 1 THEN s[half + half] ELSE s[i]]

\* A fold pass halves the partials and still covers every index once: the odd
\* last partial is carried to the place after the combined ones.
LEMMA FoldCovers ==
  ASSUME NEW s \in [Indices -> Seq(Nat)], NEW half \in Nat, NEW o \in {0, 1},
         NEW k \in Nat, k = half + half + o, half >= 1, k <= MaxSize,
         NEW n \in Nat, Covers(s, k, n),
         NEW t, t = Folded(s, half, o)
  PROVE  /\ t \in [Indices -> Seq(Nat)]
         /\ half + o \in 0..MaxSize /\ half + o > 0
         /\ Covers(t, half + o, n)
<1> DEFINE J == 0..(k - 1)
           H == 0..(half + o - 1)
<1>1. half \in Nat /\ o \in {0, 1} /\ k = half + half + o /\ half >= 1
  OBVIOUS
<1>2. MaxSize \in Nat /\ Indices = 0..(MaxSize - 1)
  BY MaxSizeFacts DEF Indices
<1>3. half + o \in 0..MaxSize /\ half + o > 0
  BY <1>1, <1>2
<1>4. \A i \in Nat : i < half =>
        /\ i \in Indices /\ i + half \in Indices /\ i \in J /\ i + half \in J
        /\ i \in H
  BY <1>1, <1>2
<1>5. o = 1 => half \in Indices /\ k - 1 \in Indices /\ k - 1 \in J /\ half \in H
               /\ k - 1 = half + half
  BY <1>1, <1>2
<1>6. \A i \in H : i \in Nat /\ i \in Indices /\ (i < half \/ (i = half /\ o = 1))
  BY <1>1, <1>2
<1>7. \A i \in Nat : i < half => t[i] = s[i] \o s[i + half]
  BY <1>4 DEF Folded
<1>8. o = 1 => t[half] = s[k - 1]
  BY <1>1, <1>5 DEF Folded
<1>9. t \in [Indices -> Seq(Nat)]
  <2>0. t = [i \in Indices |-> t[i]]
    BY DEF Folded
  <2> SUFFICES ASSUME NEW i \in Indices PROVE t[i] \in Seq(Nat)
    BY <2>0
  <2>1. i \in Nat
    BY <1>2
  <2>2. CASE i < half
    <3>1. s[i] \in Seq(Nat) /\ s[i + half] \in Seq(Nat)
      BY <1>4, <2>1, <2>2
    <3>2. s[i] \o s[i + half] \in Seq(Nat)
      BY <3>1, ConcatFacts
    <3> QED
      BY <1>7, <2>1, <2>2, <3>2
  <2>3. CASE i = half /\ o = 1
    BY <1>5, <1>8, <2>3
  <2>4. CASE ~(i < half) /\ ~(i = half /\ o = 1)
    <3>1. t[i] = s[i]
      BY <2>4 DEF Folded
    <3> QED
      BY <3>1
  <2> QED
    BY <2>2, <2>3, <2>4
<1> HIDE DEF J, H
<1>10. /\ \A j \in J : NoDuplicates(s[j]) /\ Range(s[j]) \subseteq 0..(n - 1)
       /\ \A i, j \in J : i # j => Range(s[i]) \cap Range(s[j]) = {}
       /\ \A x \in 0..(n - 1) : \E j \in J : x \in Range(s[j])
  BY DEF Covers, J
<1>11. ASSUME NEW i \in Nat, i < half
       PROVE  /\ NoDuplicates(t[i])
              /\ Range(t[i]) = Range(s[i]) \cup Range(s[i + half])
  <2>0. i \in Indices /\ i + half \in Indices
    BY <1>4, <1>11
  <2>5. i # i + half
    BY <1>1
  <2>1. s[i] \in Seq(Nat) /\ s[i + half] \in Seq(Nat) /\ i # i + half
    BY <2>0, <2>5
  <2>2. Range(s[i]) \cap Range(s[i + half]) = {}
    BY <1>4, <1>10, <1>11, <2>1
  <2>3. NoDuplicates(s[i]) /\ NoDuplicates(s[i + half])
    BY <1>4, <1>10, <1>11
  <2>4. t[i] = s[i] \o s[i + half]
    BY <1>7, <1>11
  <2> QED
    BY <2>1, <2>2, <2>3, <2>4, ConcatFacts
<1>12. \A i \in H : NoDuplicates(t[i]) /\ Range(t[i]) \subseteq 0..(n - 1)
  <2> SUFFICES ASSUME NEW i \in H
               PROVE  NoDuplicates(t[i]) /\ Range(t[i]) \subseteq 0..(n - 1)
    OBVIOUS
  <2>1. CASE i < half
    <3>1. i \in J /\ i + half \in J /\ i \in Nat
      BY <1>4, <1>6, <2>1
    <3>2. Range(s[i]) \subseteq 0..(n - 1) /\ Range(s[i + half]) \subseteq 0..(n - 1)
      BY <1>10, <3>1
    <3> QED
      BY <1>11, <2>1, <3>1, <3>2
  <2>2. CASE i = half /\ o = 1
    BY <1>5, <1>8, <1>10, <2>2
  <2> QED
    BY <1>6, <2>1, <2>2
<1>13. ASSUME NEW i \in H, NEW j \in H, i < j
       PROVE  Range(t[i]) \cap Range(t[j]) = {}
  <2>1. i \in Nat /\ j \in Nat /\ i < half
    BY <1>1, <1>6, <1>13
  <2>2. Range(t[i]) = Range(s[i]) \cup Range(s[i + half]) /\ i \in J /\ i + half \in J
    BY <1>4, <1>11, <2>1
  <2>3. CASE j < half
    <3>1. Range(t[j]) = Range(s[j]) \cup Range(s[j + half]) /\ j \in J /\ j + half \in J
      BY <1>4, <1>11, <2>1, <2>3
    <3>2. i # j /\ i # j + half /\ i + half # j /\ i + half # j + half
      BY <1>1, <1>13, <2>1, <2>3
    <3>3. /\ Range(s[i]) \cap Range(s[j]) = {}
          /\ Range(s[i]) \cap Range(s[j + half]) = {}
          /\ Range(s[i + half]) \cap Range(s[j]) = {}
          /\ Range(s[i + half]) \cap Range(s[j + half]) = {}
      BY <1>10, <2>2, <3>1, <3>2
    <3> QED
      BY <2>2, <3>1, <3>3
  <2>4. CASE j = half /\ o = 1
    <3>1. Range(t[j]) = Range(s[k - 1]) /\ k - 1 \in J
      BY <1>5, <1>8, <2>4
    <3>2. i # k - 1 /\ i + half # k - 1
      BY <1>1, <1>5, <2>1, <2>4
    <3>3. Range(s[i]) \cap Range(s[k - 1]) = {} /\ Range(s[i + half]) \cap Range(s[k - 1]) = {}
      BY <1>10, <2>2, <3>1, <3>2
    <3> QED
      BY <2>2, <3>1, <3>3
  <2> QED
    BY <1>6, <2>3, <2>4
<1>14. \A i, j \in H : i # j => Range(t[i]) \cap Range(t[j]) = {}
  <2> SUFFICES ASSUME NEW i \in H, NEW j \in H, i # j
               PROVE  Range(t[i]) \cap Range(t[j]) = {}
    OBVIOUS
  <2>1. i < j \/ j < i
    BY <1>6
  <2> QED
    BY <1>13, <2>1
<1>15. ASSUME NEW x \in 0..(n - 1) PROVE \E j \in H : x \in Range(t[j])
  <2>1. PICK j \in J : x \in Range(s[j])
    BY <1>10
  <2>2. j \in Nat /\ j < k
    BY DEF J
  <2>3. CASE j < half
    BY <1>4, <1>11, <2>1, <2>2, <2>3
  <2>4. CASE half <= j /\ j < half + half
    <3> DEFINE i == j - half
    <3>1. i \in Nat /\ i < half /\ i + half = j
      BY <1>1, <2>2, <2>4
    <3> HIDE DEF i
    <3> QED
      BY <1>4, <1>11, <2>1, <3>1
  <2>5. CASE half + half <= j
    <3>1. o = 1 /\ j = k - 1
      BY <1>1, <2>2, <2>5
    <3> QED
      BY <1>5, <1>8, <2>1, <3>1
  <2> QED
    BY <1>1, <2>2, <2>3, <2>4, <2>5
<1>16. Covers(t, half + o, n)
  <2> DEFINE m == half + o
  <2>1. H = 0..(m - 1)
    BY DEF H
  <2> HIDE DEF m
  <2>2. Covers(t, m, n)
    BY <1>12, <1>14, <1>15, <2>1, Zenon DEF Covers
  <2> QED
    BY <2>2 DEF m
<1> QED
  BY <1>3, <1>9, <1>16

\* Before the first region no index is at work.
LEMMA InitWork == Init => WorkInv
<1> SUFFICES ASSUME Init PROVE WorkInv
  OBVIOUS
<1> USE DEF Init
<1>1. CallTypeOK
  <2>1. NoVisits \in [Indices -> Nat]
    BY DEF NoVisits
  <2>2. <<>> \in Seq(Nat)
    OBVIOUS
  <2>3. NoSlots \in [Indices -> Seq(Nat)]
    BY <2>2, Zenon DEF NoSlots
  <2>4. 0 \in 0..MaxSize
    BY MaxSizeFacts
  <2> QED
    BY <2>1, <2>3, <2>4 DEF CallTypeOK
<1>2. TurnInv
  BY DEF TurnInv
<1>3. CallInv
  BY DEF CallInv, OneCall, InRegion
<1> QED
  BY <1>1, <1>2, <1>3 DEF WorkInv

\* A call stays as it is when nothing of it changes and no worker gets past one
\* of its chunks.
LEMMA SameCall ==
  ASSUME NEW c \in Callers, OneCall(c),
         cpc'[c] = cpc[c] \/ (InRegion(c) /\ InRegion(c)'),
         call'[c] = call[c], visits'[c] = visits[c], slots'[c] = slots[c],
         count'[c] = count[c],
         InRegion(c) =>
           /\ regionChunks' = regionChunks
           /\ \A w \in Workers, ch \in 0..(count[c] - 1) :
                ch % NumThreads = w => KeepsRan(w, ch)
  PROVE  OneCall(c)'
<1>1. InRegion(c)' <=> InRegion(c)
  BY DEF InRegion
<1>2. \A p \in {"submit", "fold", "returned"} : cpc'[c] = p <=> cpc[c] = p
  BY DEF InRegion
<1>3. InRegion(c) /\ Progress(c) => Progress(c)'
  BY DEF Progress, KeepsRan
<1>4. Planned(c)' <=> Planned(c)
  BY DEF Planned
<1>5. AllVisited(c)' <=> AllVisited(c)
  BY DEF AllVisited
<1> QED
  BY <1>1, <1>2, <1>3, <1>4, <1>5 DEF OneCall

\* The step of a caller leaves the calls of others alone.
LEMMA OtherCalls ==
  ASSUME CallInv, NEW c \in Callers, UNCHANGED <<regionChunks, workerVars, generation>>,
         \A d \in Callers \ {c} :
           /\ cpc'[d] = cpc[d] /\ call'[d] = call[d] /\ visits'[d] = visits[d]
           /\ slots'[d] = slots[d] /\ count'[d] = count[d],
         OneCall(c)'
  PROVE  CallInv'
<1>1. \A w \in Workers, ch \in Nat : KeepsRan(w, ch)
  BY DEF KeepsRan, Ran, Busy, workerVars
<1>2. ASSUME NEW d \in Callers \ {c} PROVE OneCall(d)'
  <2>1. OneCall(d)
    BY DEF CallInv
  <2>2. \A w \in Workers, ch \in 0..(count[d] - 1) :
          ch % NumThreads = w => KeepsRan(w, ch)
    BY DEF KeepsRan, Ran, Busy, workerVars
  <2> QED
    BY <2>1, <2>2, SameCall
<1> QED
  BY <1>2 DEF CallInv

\* A call begins: it has no chunk, one that runs inline, or several to submit.
LEMMA BeginWork ==
  ASSUME PoolInv, WorkInv, NEW c \in Callers, NEW k \in Calls, Begin(c, k)
  PROVE  WorkInv'
<1> DEFINE N == CeilDiv(k.n, k.grain)
<1> USE DEF PoolInv, WorkInv, Begin
<1>1. /\ k.n \in Nat /\ k.n <= MaxSize /\ k.grain \in Nat \ {0}
      /\ N \in Nat /\ N <= k.n /\ (N = 0 => k.n = 0)
  BY CallType, CeilDivFacts
<1>2. MaxSize \in Nat /\ MaxSize > 0 /\ Indices = 0..(MaxSize - 1) /\ 0 \in Indices
  BY MaxSizeFacts DEF Indices
<1>3. NoVisits \in [Indices -> Nat] /\ NoSlots \in [Indices -> Seq(Nat)]
  <2>1. <<>> \in Seq(Nat)
    OBVIOUS
  <2> QED
    BY <2>1, Zenon DEF NoVisits, NoSlots
<1>4. /\ Partial(0, k.n) \in Seq(Nat) /\ NoDuplicates(Partial(0, k.n))
      /\ Range(Partial(0, k.n)) = 0..(k.n - 1)
  <2>1. 0 \in Nat /\ 0 <= k.n
    BY <1>1
  <2> QED
    BY <1>1, <2>1, PartialFacts
<1>5. Visit(NoVisits, 0, k.n) \in [Indices -> Nat]
  BY DEF Visit, NoVisits
<1>6. [NoSlots EXCEPT ![0] = Partial(0, k.n)] \in [Indices -> Seq(Nat)]
  BY <1>2, <1>3, <1>4
<1> HIDE DEF N
<1>7. CallTypeOK'
  <2>1. visits' \in [Callers -> [Indices -> Nat]]
    <3>1. CASE N = 1
      BY <1>5, <3>1 DEF CallTypeOK, N
    <3>2. CASE N # 1
      BY <1>3, <3>2 DEF CallTypeOK, N
    <3> QED
      BY <3>1, <3>2
  <2>2. slots' \in [Callers -> [Indices -> Seq(Nat)]]
    <3>1. CASE N = 1
      BY <1>6, <3>1 DEF CallTypeOK, N
    <3>2. CASE N # 1
      BY <1>3, <3>2 DEF CallTypeOK, N
    <3> QED
      BY <3>1, <3>2
  <2>3. N \in 0..MaxSize
    BY <1>1, <1>2
  <2> QED
    BY <2>1, <2>2, <2>3 DEF CallTypeOK, N
<1>8. TurnInv'
  BY DEF TurnInv, workerVars
<1>9. call'[c] = k /\ count'[c] = N
  BY DEF PoolTypeOK, CallTypeOK, N
<1>10. OneCall(c)'
  <2>1. CASE N = 0
    <3>1. cpc'[c] = "returned" /\ visits'[c] = NoVisits /\ slots'[c] = NoSlots
      BY <2>1 DEF PoolTypeOK, CallTypeOK, N
    <3>2. AllVisited(c)'
      BY <1>1, <1>2, <1>9, <2>1, <3>1 DEF AllVisited, NoVisits
    <3>3. slots'[c][0] = <<>>
      BY <1>2, <3>1 DEF NoSlots
    <3>4. Covers(slots'[c], N, k.n)
      <4>1. 0..(N - 1) = {} /\ 0..(k.n - 1) = {}
        BY <1>1, <2>1
      <4> QED
        BY <4>1 DEF Covers
    <3> QED
      BY <1>9, <2>1, <3>1, <3>2, <3>3, <3>4 DEF OneCall, InRegion
  <2>2. CASE N = 1
    <3>1. /\ cpc'[c] = "returned" /\ visits'[c] = Visit(NoVisits, 0, k.n)
          /\ slots'[c] = [NoSlots EXCEPT ![0] = Partial(0, k.n)]
      BY <2>2 DEF PoolTypeOK, CallTypeOK, N
    <3>2. AllVisited(c)'
      BY <1>1, <1>2, <1>9, <3>1 DEF AllVisited, NoVisits, Visit
    <3>3. slots'[c][0] = Partial(0, k.n)
      BY <1>2, <3>1 DEF NoSlots
    <3>4. Covers(slots'[c], N, k.n)
      <4>1. 0..(N - 1) = {0}
        BY <2>2
      <4> QED
        BY <1>4, <3>3, <4>1 DEF Covers
    <3> QED
      BY <1>9, <2>2, <3>1, <3>2, <3>4 DEF OneCall, InRegion
  <2>3. CASE N > 1
    <3>1. cpc'[c] = "submit" /\ visits'[c] = NoVisits
      <4>1. ~(N <= 1) /\ N # 1
        BY <1>1, <2>3
      <4> QED
        BY <4>1 DEF PoolTypeOK, CallTypeOK, N
    <3>2. Planned(c)'
      BY <1>9, <2>3 DEF Planned, N
    <3> QED
      BY <3>1, <3>2 DEF OneCall, InRegion
  <2> QED
    BY <1>1, <2>1, <2>2, <2>3
<1>11. CallInv'
  BY <1>10, OtherCalls DEF poolVars, PoolTypeOK, CallTypeOK
<1> QED
  BY <1>7, <1>8, <1>11

\* A published region has not been started by any worker.
LEMMA PublishWork ==
  ASSUME PoolInv, WorkInv, NEW c \in Callers, Publish(c)
  PROVE  WorkInv'
<1> USE DEF PoolInv, WorkInv
<1>1. Busy' = Workers
  BY PublishPool
<1>2. \A w \in Workers : wpc[w] # "run"
  BY PublishPool DEF Busy
<1>3. CallTypeOK' /\ TurnInv'
  BY DEF Publish, callVars, workerVars, CallTypeOK, TurnInv
<1>4. \A w \in Workers, ch \in Nat : ~Ran(w, ch)'
  BY <1>1, <1>2 DEF Ran, Publish, workerVars
<1>5. Planned(c) /\ visits[c] = NoVisits
  BY DEF Publish, CallInv, OneCall
<1>6. Planned(c)' /\ visits'[c] = NoVisits /\ call'[c] = call[c] /\ count'[c] = count[c]
  BY <1>5 DEF Planned, Publish, callVars
<1>7. Progress(c)'
  <2>1. count[c] \in Nat /\ call[c] \in Calls
    BY <1>5, MaxSizeFacts DEF Planned, CallTypeOK
  <2>2. ASSUME NEW ch \in 0..(count[c] - 1)
        PROVE  ChunkOf(call[c], ch) \subseteq Indices
    <3>1. ChunkOf(call[c], ch) \subseteq 0..(call[c].n - 1)
      BY <1>5, <2>1, ChunkFacts DEF Planned
    <3> QED
      BY <2>1, <3>1, CallType, MaxSizeFacts DEF Indices
  <2>3. \A i \in Indices : visits'[c][i] = 0
    BY <1>6 DEF NoVisits
  <2> QED
    BY <1>4, <1>6, <2>1, <2>2, <2>3 DEF Progress
<1>8. OneCall(c)'
  <2>1. cpc'[c] = "notify"
    BY DEF Publish, PoolTypeOK
  <2>2. regionChunks' = count'[c]
    BY <1>5, <1>6 DEF Planned, Publish
  <2> QED
    BY <1>6, <1>7, <2>1, <2>2 DEF OneCall, InRegion
<1>9. ASSUME NEW d \in Callers \ {c} PROVE OneCall(d)'
  <2>1. ~InRegion(d)
    BY ThreadPoolAssumption DEF OwnerInv, Publish
  <2>2. cpc'[d] = cpc[d]
    BY DEF Publish, PoolTypeOK
  <2> QED
    BY <2>1, <2>2, SameCall DEF Publish, callVars, CallInv
<1> QED
  BY <1>3, <1>8, <1>9 DEF CallInv

\* A caller leaves Run when every chunk of its region has run.
LEMMA AwaitWork ==
  ASSUME PoolInv, WorkInv, NEW c \in Callers, AwaitDone(c)
  PROVE  WorkInv'
<1> USE DEF PoolInv, WorkInv
<1>1. CallTypeOK' /\ TurnInv'
  BY DEF AwaitDone, callVars, workerVars, CallTypeOK, TurnInv
<1>2. Planned(c) /\ Progress(c) /\ InRegion(c)
  BY DEF AwaitDone, CallInv, OneCall, InRegion
<1>3. OneCall(c)'
  <2>1. CASE InRegion(c)'
    <3>1. \A w \in Workers, ch \in 0..(count[c] - 1) :
            ch % NumThreads = w => KeepsRan(w, ch)
      BY DEF KeepsRan, Ran, Busy, AwaitDone, workerVars
    <3> QED
      BY <1>2, <2>1, <3>1, SameCall DEF AwaitDone, callVars, CallInv
  <2>2. CASE ~InRegion(c)'
    <3>1. Busy = {}
      BY <2>2, AwaitPool
    <3>2. cpc'[c] = IF call[c].op = "parallel_reduce" THEN "fold" ELSE "returned"
      BY <2>2 DEF AwaitDone, PoolTypeOK, InRegion
    <3> DEFINE k == call[c]
               N == CeilDiv(k.n, k.grain)
    <3>3. k \in Calls /\ count[c] = N /\ count[c] > 1 /\ N \in Nat /\ k.n \in Nat
      BY <1>2, CallType DEF Planned
    <3>4. ASSUME NEW ch \in 0..(N - 1)
          PROVE  /\ \A i \in ChunkOf(k, ch) : visits[c][i] = 1
                 /\ slots[c][ch] = Partial(ChunkBegin(k, ch), ChunkEnd(k, ch))
      <4> DEFINE w == ch % NumThreads
      <4>1. ch \in Nat
        BY <3>3
      <4>2. w \in Workers
        BY <4>1, Turns
      <4>3. Ran(w, ch)
        BY <3>1 DEF Ran
      <4>4. ch \in 0..(count[c] - 1)
        BY <3>3
      <4> HIDE DEF w
      <4>5. ch % NumThreads = w
        BY DEF w
      <4> HIDE DEF k
      <4> QED
        BY <1>2, <4>2, <4>3, <4>4, <4>5 DEF Progress, k
    <3> HIDE DEF N
    <3>5. AllVisited(c)
      <4> SUFFICES ASSUME NEW i \in Indices
                   PROVE  visits[c][i] = IF i < k.n THEN 1 ELSE 0
        BY DEF AllVisited
      <4>1. i \in Nat
        BY MaxSizeFacts DEF Indices
      <4>2. CASE i < k.n
        <5>1. i \in 0..(k.n - 1)
          BY <3>3, <4>1, <4>2
        <5>2. PICK ch \in 0..(N - 1) : i \in ChunkOf(k, ch)
          BY <3>3, <5>1, ChunkFacts DEF N
        <5> QED
          BY <3>4, <4>2, <5>2
      <4>3. CASE ~(i < k.n)
        <5>1. i >= k.n
          BY <3>3, <4>1, <4>3
        <5> QED
          BY <1>2, <4>3, <5>1 DEF Progress
      <4> QED
        BY <4>2, <4>3
    <3>6. Covers(slots[c], N, k.n)
      <4>1. slots[c] \in [Indices -> Seq(Nat)]
        BY DEF CallTypeOK
      <4> HIDE DEF k
      <4> QED
        BY <3>3, <3>4, <4>1, RegionCovers DEF N
    <3>7. AllVisited(c)' /\ count'[c] = N /\ call'[c] = k /\ slots'[c] = slots[c]
      BY <3>3, <3>5 DEF AllVisited, AwaitDone, callVars
    <3> QED
      BY <2>2, <3>2, <3>3, <3>6, <3>7 DEF OneCall
  <2> QED
    BY <2>1, <2>2
<1>4. CallInv'
  <2>1. UNCHANGED <<regionChunks, workerVars, generation>>
    BY DEF AwaitDone
  <2>2. \A d \in Callers \ {c} : cpc'[d] = cpc[d]
    BY DEF AwaitDone, PoolTypeOK
  <2> QED
    BY <1>3, <2>1, <2>2, OtherCalls DEF AwaitDone, callVars
<1> QED
  BY <1>1, <1>4

\* Half of a number, and what is left over.
LEMMA Halves ==
  ASSUME NEW n \in Nat
  PROVE  /\ n \div 2 \in Nat /\ n % 2 \in {0, 1}
         /\ n = n \div 2 + n \div 2 + (n % 2)
         /\ n > 1 => n \div 2 >= 1
  OBVIOUS

\* A pass of the fold keeps what the partials cover.
LEMMA FoldWork ==
  ASSUME PoolInv, WorkInv, NEW c \in Callers, FoldPass(c)
  PROVE  WorkInv'
<1> DEFINE n == count[c]
           half == n \div 2
           o == n % 2
<1> USE DEF PoolInv, WorkInv
<1>1. n \in Nat /\ n <= MaxSize /\ slots[c] \in [Indices -> Seq(Nat)]
  BY MaxSizeFacts DEF CallTypeOK
<1>2. /\ AllVisited(c) /\ n > 0 /\ Covers(slots[c], n, call[c].n) /\ ~InRegion(c)
      /\ call[c].n \in Nat
  <2>1. call[c] \in Calls \cup {NoCall}
    BY DEF PoolTypeOK
  <2> QED
    BY <2>1, CallType DEF FoldPass, CallInv, OneCall, InRegion
<1>3. TurnInv'
  BY DEF TurnInv, FoldPass, workerVars
<1>4. half \in Nat /\ o \in {0, 1} /\ n = half + half + o /\ (n > 1 => half >= 1)
  BY <1>1, Halves
<1>5. CASE n > 1
  <2> DEFINE t == Folded(slots[c], half, o)
  <2>1. [i \in Indices |->
           CASE i < half -> slots[c][i] \o slots[c][i + half]
             [] i = half /\ o = 1 -> slots[c][n - 1]
             [] OTHER -> slots[c][i]] = t
    <3>1. ASSUME NEW i \in Indices
          PROVE (CASE i < half -> slots[c][i] \o slots[c][i + half]
                   [] i = half /\ o = 1 -> slots[c][n - 1]
                   [] OTHER -> slots[c][i])
                = IF i < half THEN slots[c][i] \o slots[c][i + half]
                  ELSE IF i = half /\ o = 1 THEN slots[c][half + half]
                  ELSE slots[c][i]
      <4>1. o = 1 => n - 1 = half + half
        BY <1>4
      <4>2. ~(i < half /\ i = half)
        BY <1>4, MaxSizeFacts DEF Indices
      <4> HIDE DEF half, o, n
      <4>3. CASE i < half
        BY <4>2, <4>3
      <4>4. CASE i = half /\ o = 1
        BY <4>1, <4>2, <4>4
      <4>5. CASE ~(i < half) /\ ~(i = half /\ o = 1)
        BY <4>5
      <4> QED
        BY <4>3, <4>4, <4>5
    <3> HIDE DEF half, o, n
    <3> QED
      BY <3>1, Zenon DEF Folded
  <2>2. /\ t \in [Indices -> Seq(Nat)] /\ half + o \in 0..MaxSize /\ half + o > 0
        /\ Covers(t, half + o, call[c].n)
    <3> DEFINE s == slots[c]
               m == call[c].n
    <3>1. s \in [Indices -> Seq(Nat)] /\ half \in Nat /\ o \in {0, 1} /\ n \in Nat /\ m \in Nat
      BY <1>1, <1>2, <1>4
    <3>2. n = half + half + o /\ half >= 1 /\ n <= MaxSize /\ Covers(s, n, m)
      BY <1>1, <1>2, <1>4, <1>5
    <3>3. t = Folded(s, half, o)
      OBVIOUS
    <3> HIDE DEF half, o, n, t, s, m
    <3>4. /\ t \in [Indices -> Seq(Nat)] /\ half + o \in 0..MaxSize /\ half + o > 0
          /\ Covers(t, half + o, m)
      BY ONLY <3>1, <3>2, <3>3, FoldCovers
    <3> QED
      BY <3>4 DEF m
  <2>3. slots' = [slots EXCEPT ![c] = t] /\ count' = [count EXCEPT ![c] = half + o]
        /\ cpc' = cpc
    BY <1>5, <2>1 DEF FoldPass
  <2> HIDE DEF t, half, o
  <2>4. CallTypeOK'
    BY <2>2, <2>3 DEF CallTypeOK, FoldPass
  <2>5. slots'[c] = t /\ count'[c] = half + o /\ cpc'[c] = "fold"
    BY <2>3 DEF CallTypeOK, FoldPass
  <2>6. AllVisited(c)' /\ call'[c] = call[c]
    BY <1>2 DEF AllVisited, FoldPass
  <2>7. OneCall(c)'
    BY <2>2, <2>5, <2>6 DEF OneCall, InRegion
  <2>8. CallInv'
    BY <2>3, <2>7, OtherCalls DEF FoldPass, poolVars, CallTypeOK
  <2> QED
    BY <1>3, <2>4, <2>8
<1>6. CASE ~(n > 1)
  <2>1. n = 1
    BY <1>1, <1>2, <1>6
  <2>2. cpc' = [cpc EXCEPT ![c] = "returned"] /\ UNCHANGED <<slots, count, call, visits>>
    BY <1>6 DEF FoldPass
  <2>3. cpc'[c] = "returned"
    BY <2>2 DEF PoolTypeOK
  <2>4. AllVisited(c)'
    BY <1>2, <2>2 DEF AllVisited
  <2>5. OneCall(c)'
    BY <1>2, <2>1, <2>2, <2>3, <2>4 DEF OneCall, InRegion
  <2>6. CallInv'
    BY <2>2, <2>5, OtherCalls DEF FoldPass, poolVars, PoolTypeOK
  <2> QED
    BY <1>3, <2>2, <2>6 DEF CallTypeOK
<1> QED
  BY <1>5, <1>6

\* The caller is inside Run before and after the step.
StaysInRegion(c) == InRegion(c) /\ InRegion(c)'

\* The steps that move no worker past a chunk of the region in flight.
LEMMA QuietWork ==
  ASSUME WorkInv, UNCHANGED <<regionChunks, callVars>>,
         \A c \in Callers : cpc'[c] = cpc[c] \/ StaysInRegion(c),
         TurnInv',
         \A c \in Callers : \A w \in Workers, ch \in 0..(count[c] - 1) :
           InRegion(c) /\ ch % NumThreads = w => KeepsRan(w, ch)
  PROVE  WorkInv'
<1>1. CallTypeOK'
  BY DEF WorkInv, CallTypeOK, callVars
<1>2. ASSUME NEW c \in Callers PROVE OneCall(c)'
  BY SameCall DEF StaysInRegion, WorkInv, CallInv, callVars
<1> QED
  BY <1>1, <1>2 DEF WorkInv, CallInv

\* Two steps that change nothing Ran depends on.
LEMMA SameRan ==
  ASSUME UNCHANGED <<generation, seen, chunk>>,
         \A w \in Workers : wpc'[w] = "run" <=> wpc[w] = "run"
  PROVE  \A w \in Workers, ch \in Nat : KeepsRan(w, ch)
<1>1. Busy' = Busy
  BY DEF Busy
<1> QED
  BY <1>1 DEF KeepsRan, Ran

\* A worker that joins has yet to run its first chunk, the one of its number.
LEMMA CheckWork ==
  ASSUME PoolInv, WorkInv, NEW w \in Workers, WorkerCheck(w)
  PROVE  WorkInv'
<1> USE DEF PoolInv, WorkInv
<1>1. Busy' = Busy
  BY CheckPool
<1>2. \A x \in Workers \ {w} : wpc'[x] = wpc[x] /\ chunk'[x] = chunk[x]
  BY DEF WorkerCheck, PoolTypeOK
<1>3. w \in Nat /\ w % NumThreads = w
  BY WorkersFinite, Turns
<1>4. CASE ~stopping /\ generation # seen[w]
  <2>1. wpc'[w] = "run" /\ chunk'[w] = w /\ wpc[w] # "run" /\ w \in Busy
    BY <1>4 DEF WorkerCheck, PoolTypeOK, Busy
  <2>2. TurnInv'
    BY <1>2, <1>3, <2>1 DEF TurnInv
  <2>3. ASSUME NEW ch \in Nat, ch % NumThreads = w PROVE ~(ch < w)
    <3> SUFFICES ASSUME ch < w PROVE FALSE
      OBVIOUS
    <3>1. ch \in Workers
      BY <1>3, WorkersFinite DEF Workers
    <3> QED
      BY <1>3, <2>3, <3>1, Turns
  <2>4. \A x \in Workers, ch \in Nat :
          ch % NumThreads = x => KeepsRan(x, ch)
    BY <1>1, <1>2, <2>1, <2>3 DEF KeepsRan, Ran
  <2>5. \A c \in Callers : count[c] \in Nat
    BY MaxSizeFacts DEF CallTypeOK
  <2>6. \A c \in Callers : \A x \in Workers, ch \in 0..(count[c] - 1) :
          ch % NumThreads = x => KeepsRan(x, ch)
    BY <2>4
  <2> QED
    BY <2>2, <2>6, QuietWork DEF WorkerCheck, poolVars
<1>5. CASE ~(~stopping /\ generation # seen[w])
  <2>1. UNCHANGED <<generation, seen, chunk>>
    BY <1>5 DEF WorkerCheck, poolVars
  <2>2. \A x \in Workers : wpc'[x] = "run" <=> wpc[x] = "run"
    BY <1>5 DEF WorkerCheck, PoolTypeOK
  <2>3. \A x \in Workers, ch \in Nat : KeepsRan(x, ch)
    BY <2>1, <2>2, SameRan
  <2>4. TurnInv'
    BY <2>1, <2>2 DEF TurnInv
  <2> QED
    BY <2>3, <2>4, QuietWork DEF WorkerCheck, poolVars
<1> QED
  BY <1>4, <1>5

\* A worker finishes when it is past every chunk of its own.
LEMMA FinishWork ==
  ASSUME PoolInv, WorkInv, NEW w \in Workers, FinishRegion(w)
  PROVE  WorkInv'
<1> USE DEF PoolInv, WorkInv
<1>1. w \in Busy /\ Busy' = Busy \ {w}
  BY FinishPool
<1>2. \A x \in Workers \ {w} : wpc'[x] = wpc[x] /\ chunk'[x] = chunk[x]
  BY DEF FinishRegion, LeaveRound, PoolTypeOK
<1>3. wpc'[w] # "run" /\ wpc[w] = "run" /\ chunk[w] >= numChunks[w]
      /\ chunk[w] \in Nat /\ numChunks[w] \in Nat
  BY DEF FinishRegion, PoolTypeOK
<1>4. TurnInv'
  BY <1>2, <1>3 DEF TurnInv
<1>5. ASSUME NEW c \in Callers, InRegion(c), NEW x \in Workers,
             NEW ch \in 0..(count[c] - 1)
      PROVE  KeepsRan(x, ch)
  <2>1. CASE x = w
    <3>1. numChunks[w] = count[c]
      BY <1>3, <1>5 DEF WorkerInv, CallInv, OneCall
    <3>2. ch < chunk[w]
      BY <1>3, <3>1
    <3>3. Ran(w, ch)
      BY <1>3, <3>2 DEF Ran
    <3>4. Ran(w, ch)'
      BY <1>1 DEF Ran
    <3> QED
      BY <2>1, <3>3, <3>4 DEF KeepsRan
  <2>2. CASE x # w
    BY <1>1, <1>2, <2>2 DEF KeepsRan, Ran
  <2> QED
    BY <2>1, <2>2
<1>6. \A c \in Callers : cpc'[c] = cpc[c] \/ StaysInRegion(c)
  BY DEF StaysInRegion, FinishRegion, PoolTypeOK, InRegion
<1> QED
  BY <1>4, <1>5, <1>6, QuietWork DEF FinishRegion, callVars

\* A worker runs one of its chunks: those indices, once, and its own partial.
LEMMA RunWork ==
  ASSUME PoolInv, WorkInv, NEW w \in Workers, RunChunk(w)
  PROVE  WorkInv'
<1>0. PICK c, k, now : c = fn[w] /\ k = call[c] /\ now = chunk[w]
  OBVIOUS
<1> USE <1>0
<1> DEFINE from == ChunkBegin(k, now)
           to == ChunkEnd(k, now)
<1> USE DEF PoolInv, WorkInv
<1>1. w \in Busy /\ c = runOwner /\ c \in Callers /\ InRegion(c) /\ numChunks[w] = regionChunks
  <2>1. w \in Busy /\ wpc[w] = "run"
    BY DEF RunChunk, Busy
  <2>2. runOwner # NoCaller
    BY <2>1 DEF WorkerInv
  <2> QED
    BY <2>1, <2>2 DEF WorkerInv, OwnerInv, PoolTypeOK
<1>2. Planned(c) /\ regionChunks = count[c] /\ Progress(c)
  BY <1>1 DEF CallInv, OneCall
<1>3. k \in Calls /\ count[c] = CeilDiv(k.n, k.grain) /\ k.n \in Nat /\ k.n <= MaxSize
  BY <1>2, CallType DEF Planned
<1>4. count[c] \in Nat /\ count[c] <= MaxSize /\ now \in Nat /\ now % NumThreads = w
  BY <1>1, MaxSizeFacts DEF CallTypeOK, PoolTypeOK, TurnInv, RunChunk
<1>5. now \in 0..(count[c] - 1)
  BY <1>1, <1>2, <1>4 DEF RunChunk
<1>6. MaxSize \in Nat /\ Indices = 0..(MaxSize - 1) /\ now \in Indices
  BY <1>4, <1>5, MaxSizeFacts DEF Indices
<1>7. /\ from \in Nat /\ to \in Nat /\ from < to
      /\ ChunkOf(k, now) = from..(to - 1) /\ ChunkOf(k, now) \subseteq 0..(k.n - 1)
  <2>1. now \in 0..(CeilDiv(k.n, k.grain) - 1)
    BY <1>3, <1>5
  <2> QED
    BY <1>3, <2>1, ChunkFacts DEF ChunkOf
<1>8. Partial(from, to) \in Seq(Nat)
  <2>1. from <= to
    BY <1>7
  <2> HIDE DEF from, to
  <2> QED
    BY <1>7, <2>1, PartialFacts
<1>9. /\ visits' = [visits EXCEPT ![c] = Visit(visits[c], from, to)]
      /\ slots' = [slots EXCEPT ![c][now] = Partial(from, to)]
      /\ chunk' = [chunk EXCEPT ![w] = now + NumThreads]
      /\ call' = call /\ count' = count
  BY DEF RunChunk, CallTypeOK, PoolTypeOK
<1> HIDE DEF from, to
<1>10. /\ visits'[c] = Visit(visits[c], from, to)
       /\ slots'[c] = [slots[c] EXCEPT ![now] = Partial(from, to)]
       /\ chunk'[w] = now + NumThreads
       /\ \A x \in Workers \ {w} : chunk'[x] = chunk[x]
  BY <1>1, <1>9 DEF CallTypeOK, PoolTypeOK
<1>11. visits[c] \in [Indices -> Nat] /\ slots[c] \in [Indices -> Seq(Nat)]
  BY <1>1 DEF CallTypeOK
<1>12. CallTypeOK'
  <2>1. Visit(visits[c], from, to) \in [Indices -> Nat]
    BY <1>11 DEF Visit
  <2>2. [slots[c] EXCEPT ![now] = Partial(from, to)] \in [Indices -> Seq(Nat)]
    BY <1>8, <1>11
  <2>3. slots' = [slots EXCEPT ![c] = [slots[c] EXCEPT ![now] = Partial(from, to)]]
    BY <1>9
  <2>4. slots' \in [Callers -> [Indices -> Seq(Nat)]]
    BY <2>2, <2>3 DEF CallTypeOK
  <2>5. visits' \in [Callers -> [Indices -> Nat]]
    BY <1>9, <2>1 DEF CallTypeOK
  <2> QED
    BY <1>9, <2>4, <2>5 DEF CallTypeOK
<1>13. NumThreads \in Nat /\ (now + NumThreads) % NumThreads = w
  BY <1>4, Turns, WorkersFinite
<1>14. TurnInv'
  BY <1>10, <1>13 DEF TurnInv, RunChunk
<1>15. Busy' = Busy
  BY DEF Busy, RunChunk, poolVars
<1>16. wpc' = wpc /\ wpc[w] = "run" /\ now = chunk[w]
  BY DEF RunChunk
<1>17. ASSUME NEW x \in Workers, NEW ch \in Nat, ch % NumThreads = x, ch # now
       PROVE  KeepsRan(x, ch)
  <2>1. CASE x = w
    <3>1. now < ch => now + NumThreads <= ch
      BY <1>4, <1>17, <2>1, Turns
    <3>2. ch < now + NumThreads <=> ch < now
      BY <1>4, <1>13, <1>17, <3>1, WorkersFinite
    <3> QED
      BY <1>10, <1>15, <1>16, <2>1, <3>2 DEF KeepsRan, Ran
  <2>2. CASE x # w
    BY <1>10, <1>15, <1>16, <2>2 DEF KeepsRan, Ran
  <2> QED
    BY <2>1, <2>2
<1>18. ~Ran(w, now) /\ Ran(w, now)'
  <2>1. ~(now < now) /\ now < now + NumThreads
    BY <1>4, WorkersFinite
  <2> QED
    BY <1>1, <1>10, <1>15, <1>16, <2>1 DEF Ran
<1>19. Progress(c)'
  <2>1. ASSUME NEW x \in Workers, NEW ch \in 0..(count[c] - 1), ch % NumThreads = x
        PROVE  /\ \A i \in ChunkOf(k, ch) : visits'[c][i] = IF Ran(x, ch)' THEN 1 ELSE 0
               /\ Ran(x, ch)' => slots'[c][ch] = Partial(ChunkBegin(k, ch), ChunkEnd(k, ch))
    <3>1. ch \in Nat /\ ch \in Indices
      BY <1>4, <1>6
    <3>2. ChunkOf(k, ch) \subseteq Indices
      <4>1. ChunkOf(k, ch) \subseteq 0..(k.n - 1)
        BY <1>3, ChunkFacts
      <4> QED
        BY <1>3, <1>6, <4>1
    <3>3. /\ \A i \in ChunkOf(k, ch) : visits[c][i] = IF Ran(x, ch) THEN 1 ELSE 0
          /\ Ran(x, ch) => slots[c][ch] = Partial(ChunkBegin(k, ch), ChunkEnd(k, ch))
      BY <1>2, <2>1 DEF Progress
    <3>4. CASE ch = now
      <4>1. x = w
        BY <1>4, <2>1, <3>4
      <4>2. \A i \in ChunkOf(k, ch) : visits[c][i] = 0
        BY <1>18, <3>3, <3>4, <4>1
      <4>3. \A i \in ChunkOf(k, ch) : visits'[c][i] = 1
        BY <1>7, <1>10, <3>2, <3>4, <4>2 DEF Visit
      <4>4. slots'[c][ch] = Partial(ChunkBegin(k, ch), ChunkEnd(k, ch))
        BY <1>6, <1>10, <1>11, <3>4 DEF from, to
      <4> QED
        BY <1>18, <3>4, <4>1, <4>3, <4>4
    <3>5. CASE ch # now
      <4>1. ChunkOf(k, ch) \cap ChunkOf(k, now) = {}
        BY <1>3, <1>5, <3>5, ChunkFacts
      <4>2. \A i \in ChunkOf(k, ch) : visits'[c][i] = visits[c][i]
        BY <1>7, <1>10, <3>2, <4>1 DEF Visit
      <4>3. slots'[c][ch] = slots[c][ch]
        BY <1>10, <1>11, <3>1, <3>5
      <4> QED
        BY <1>17, <2>1, <3>1, <3>3, <3>5, <4>2, <4>3 DEF KeepsRan
    <3> QED
      BY <3>4, <3>5
  <2>2. ASSUME NEW i \in Indices, i >= k.n PROVE visits'[c][i] = 0
    <3>1. visits[c][i] = 0
      BY <1>2, <2>2 DEF Progress
    <3>2. i \notin from..(to - 1)
      BY <1>3, <1>6, <1>7, <2>2
    <3> QED
      BY <1>10, <3>1, <3>2 DEF Visit
  <2>3. call'[c] = k /\ count'[c] = count[c]
    BY <1>9
  <2> QED
    BY <2>1, <2>2, <2>3 DEF Progress
<1>20. OneCall(c)'
  <2>1. Planned(c)' /\ regionChunks' = count'[c] /\ cpc' = cpc
    BY <1>2, <1>9, <1>15 DEF Planned, RunChunk, poolVars
  <2> QED
    BY <1>1, <1>19, <2>1 DEF OneCall, InRegion
<1>21. ASSUME NEW d \in Callers \ {c} PROVE OneCall(d)'
  <2>1. ~InRegion(d)
    BY <1>1 DEF OwnerInv
  <2>2. visits'[d] = visits[d] /\ slots'[d] = slots[d]
    BY <1>9 DEF CallTypeOK
  <2>3. cpc' = cpc
    BY DEF RunChunk
  <2> QED
    BY <1>9, <2>1, <2>2, <2>3, SameCall DEF CallInv
<1>22. CallInv'
  <2>1. \A d \in Callers : OneCall(d)'
    BY <1>20, <1>21
  <2> QED
    BY <2>1 DEF CallInv
<1> QED
  BY <1>12, <1>14, <1>22

\* Steps of threads that are not in a region, and wake-ups.
LEMMA IdleWork ==
  ASSUME PoolInv, WorkInv,
         UNCHANGED <<regionChunks, generation, seen, chunk, callVars>>,
         \A w \in Workers : wpc'[w] = "run" <=> wpc[w] = "run",
         \A c \in Callers : cpc'[c] = cpc[c] \/ StaysInRegion(c)
  PROVE  WorkInv'
<1>1. \A w \in Workers, ch \in Nat : KeepsRan(w, ch)
  BY SameRan
<1>2. TurnInv'
  BY DEF WorkInv, TurnInv
<1>3. \A c \in Callers : count[c] \in Nat
  BY MaxSizeFacts DEF WorkInv, CallTypeOK
<1>4. \A c \in Callers : \A w \in Workers, ch \in 0..(count[c] - 1) :
        KeepsRan(w, ch)
  BY <1>1, <1>3
<1> QED
  BY <1>2, <1>4, QuietWork

\* The invariant that says what has been done of every call.
LEMMA WorkStep == PoolInv /\ WorkInv /\ [Next]_vars => WorkInv'
<1> SUFFICES ASSUME PoolInv, WorkInv, [Next]_vars PROVE WorkInv'
  OBVIOUS
<1>1. ASSUME NEW c \in Callers, NEW k \in Calls, Begin(c, k) PROVE WorkInv'
  BY <1>1, BeginWork
<1>2. ASSUME NEW c \in Callers, Publish(c) PROVE WorkInv'
  BY <1>2, PublishWork
<1>3. ASSUME NEW c \in Callers, NotifyWork(c) PROVE WorkInv'
  <2>1. \A d \in Callers : cpc'[d] = cpc[d] \/ StaysInRegion(d)
    BY <1>3 DEF StaysInRegion, NotifyWork, InRegion, PoolInv, PoolTypeOK
  <2>2. \A w \in Workers : wpc'[w] = "run" <=> wpc[w] = "run"
    BY <1>3 DEF NotifyWork, WakeWorkers
  <2> QED
    BY <1>3, <2>1, <2>2, IdleWork DEF NotifyWork, poolVars
<1>4. ASSUME NEW c \in Callers, AwaitDone(c) PROVE WorkInv'
  BY <1>4, AwaitWork
<1>5. ASSUME NEW c \in Callers, FoldPass(c) PROVE WorkInv'
  BY <1>5, FoldWork
<1>6. ASSUME NEW c \in Callers, Return(c) PROVE WorkInv'
  <2>1. CallTypeOK'
    <3>1. <<>> \in Seq(Nat)
      OBVIOUS
    <3>2. NoVisits \in [Indices -> Nat] /\ NoSlots \in [Indices -> Seq(Nat)] /\ 0 \in 0..MaxSize
      BY <3>1, MaxSizeFacts DEF NoVisits, NoSlots
    <3> QED
      BY <1>6, <3>2 DEF WorkInv, CallTypeOK, Return
  <2>2. TurnInv'
    BY <1>6 DEF WorkInv, TurnInv, Return, workerVars
  <2>3. OneCall(c)'
    BY <1>6 DEF Return, PoolInv, PoolTypeOK, OneCall, InRegion
  <2>4. CallInv'
    BY <1>6, <2>3, OtherCalls
       DEF Return, PoolInv, PoolTypeOK, WorkInv, CallTypeOK, poolVars
  <2> QED
    BY <2>1, <2>2, <2>4 DEF WorkInv
<1>7. ASSUME NEW c \in Callers, SpuriousCaller(c) PROVE WorkInv'
  <2>1. \A d \in Callers : cpc'[d] = cpc[d] \/ StaysInRegion(d)
    BY <1>7 DEF StaysInRegion, SpuriousCaller, InRegion, PoolInv, PoolTypeOK
  <2> QED
    BY <1>7, <2>1, IdleWork DEF SpuriousCaller, poolVars, workerVars
<1>8. ASSUME NEW w \in Workers, WorkerCheck(w) PROVE WorkInv'
  BY <1>8, CheckWork
<1>9. ASSUME NEW w \in Workers, RunChunk(w) PROVE WorkInv'
  BY <1>9, RunWork
<1>10. ASSUME NEW w \in Workers, FinishRegion(w) PROVE WorkInv'
  BY <1>10, FinishWork
<1>11. ASSUME NEW w \in Workers, SpuriousWorker(w) PROVE WorkInv'
  <2>1. \A x \in Workers : wpc'[x] = "run" <=> wpc[x] = "run"
    BY <1>11 DEF SpuriousWorker, PoolInv, PoolTypeOK
  <2> QED
    BY <1>11, <2>1, IdleWork DEF SpuriousWorker, poolVars
<1>12. CASE Destroy
  BY <1>12, IdleWork DEF Destroy, poolVars, workerVars
<1>13. CASE NotifyStop
  <2>1. \A x \in Workers : wpc'[x] = "run" <=> wpc[x] = "run"
    BY <1>13 DEF NotifyStop, WakeWorkers
  <2> QED
    BY <1>13, <2>1, IdleWork DEF NotifyStop, poolVars
<1>14. CASE Join
  BY <1>14, IdleWork DEF Join, poolVars, workerVars
<1>15. CASE UNCHANGED vars
  BY <1>15, IdleWork DEF vars, poolVars, workerVars
<1> QED
  BY <1>1, <1>2, <1>3, <1>4, <1>5, <1>6, <1>7, <1>8, <1>9, <1>10, <1>11, <1>12,
     <1>13, <1>14, <1>15 DEF Next, CallerStep, WorkerStep

\* For any number of workers and callers, any sizes and any grains: when
\* parallel_for or parallel_reduce returns, its body has run exactly once on
\* every index below n, and the folded result combines each of them once.
THEOREM RegionsComplete == Spec => []RegionComplete
<1>1. PoolInv /\ WorkInv => RegionComplete
  <2> SUFFICES ASSUME PoolInv, WorkInv PROVE RegionComplete
    OBVIOUS
  <2>1. VisitedOnce
    BY DEF VisitedOnce, WorkInv, CallInv, OneCall, AllVisited
  <2>2. ASSUME NEW c \in Callers, cpc[c] = "returned", call[c].op = "parallel_reduce"
        PROVE  /\ Len(slots[c][0]) = call[c].n
               /\ \A i \in 0..(call[c].n - 1) :
                    \E j \in 1..Len(slots[c][0]) : slots[c][0][j] = i
    <3> DEFINE n == call[c].n
               s == slots[c]
    <3>1. /\ count[c] <= 1 /\ (count[c] = 0 => s[0] = <<>>) /\ Covers(s, count[c], n)
      BY <2>2 DEF WorkInv, CallInv, OneCall
    <3>2. n \in Nat /\ count[c] \in Nat /\ s[0] \in Seq(Nat)
      <4>1. call[c] \in Calls \cup {NoCall}
        BY DEF PoolInv, PoolTypeOK
      <4>2. s \in [Indices -> Seq(Nat)] /\ 0 \in Indices /\ count[c] \in Nat
        BY MaxSizeFacts DEF WorkInv, CallTypeOK, Indices
      <4> QED
        BY <4>1, <4>2, CallType
    <3> HIDE DEF n, s
    <3>3. CASE count[c] = 0
      <4>1. \A x \in 0..(n - 1) : FALSE
        <5>1. 0..(count[c] - 1) = {}
          BY <3>3
        <5> QED
          BY <3>1, <5>1 DEF Covers
      <4>2. n = 0
        <5>1. n > 0 => 0 \in 0..(n - 1)
          BY <3>2
        <5> QED
          BY <3>2, <4>1, <5>1
      <4> QED
        BY <3>1, <3>3, <4>1, <4>2 DEF n, s
    <3>4. CASE count[c] = 1
      <4>1. Covers(s, 1, n)
        BY <3>1, <3>4
      <4>2. Len(s[0]) = n /\ \A i \in 0..(n - 1) : \E j \in 1..Len(s[0]) : s[0][j] = i
        BY <3>2, <4>1, CoverLength
      <4> QED
        BY <4>2 DEF n, s
    <3> QED
      BY <3>1, <3>2, <3>3, <3>4
  <2>3. ReducedOnce
    BY <2>2 DEF ReducedOnce
  <2> QED
    BY <2>1, <2>3 DEF RegionComplete
<1>2. Init => PoolInv /\ WorkInv
  BY InitPool, InitWork
<1>3. PoolInv /\ WorkInv /\ [Next]_vars => (PoolInv /\ WorkInv)'
  BY PoolStep, WorkStep
<1> QED
  BY <1>1, <1>2, <1>3, PTL DEF Spec
=============================================================================
