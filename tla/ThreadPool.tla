----------------------------- MODULE ThreadPool -----------------------------
(***************************************************************************)
(* The persistent worker pool and the two parallel primitives that run on  *)
(* it.  Caller threads submit regions, one at a time behind run_mutex_;    *)
(* every worker takes part in every region, and the last to finish wakes   *)
(* the caller.  A critical section under mutex_ is one action, a notify    *)
(* issued after the unlock is the next one, and a thread that finds its    *)
(* predicate false goes to sleep in the step that tested it, as            *)
(* condition_variable::wait does.  Sleepers may also wake spuriously.      *)
(*                                                                         *)
(* Bodies are abstracted to the indices they were given: visits counts the *)
(* invocations per index, and a partial of parallel_reduce is the sequence *)
(* of the indices it covers, so that combine is concatenation.  A CHECK on *)
(* the arguments or on nesting ends the process; callers here obey them.   *)
(***************************************************************************)
EXTENDS Integers, Sequences, FiniteSets

CONSTANTS
  Callers,          \* threads that call parallel_for and parallel_reduce
  NumThreads,       \* num_threads_
  Sizes,            \* values of n
  Grains,           \* values of grain
  GenerationSpan,   \* region_generation_ wraps here (2^64 in the code)
  NoCaller          \* nullptr, and an unowned run_mutex_

ASSUME ThreadPoolAssumption ==
  /\ NumThreads \in Nat \ {0}
  /\ Sizes \in SUBSET Nat /\ IsFiniteSet(Sizes) /\ \E n \in Sizes : n > 0
  /\ Grains \in SUBSET (Nat \ {0})
  /\ GenerationSpan \in Nat \ {0, 1}
  /\ NoCaller \notin Callers

Workers == 0..(NumThreads - 1)

VARIABLES
  runOwner,       \* who holds run_mutex_
  generation,     \* region_generation_
  regionChunks,   \* region_num_chunks_
  regionFn,       \* region_chunk_fn_, named by the caller whose call it is
  remaining,      \* workers_remaining_
  stopping,       \* stopping_
  dpc,            \* where the destructor is
  wpc,            \* where each worker is
  seen,           \* its seen_generation
  fn,             \* its chunk_fn
  numChunks,      \* its num_chunks
  chunk,          \* the chunk it runs next
  cpc,            \* where each caller is
  call,           \* its current call
  visits,         \* how often its body was invoked on each index
  slots,          \* its partials, by chunk
  count           \* partials its fold still has to combine

poolVars == <<runOwner, generation, regionChunks, regionFn, remaining>>
stopVars == <<stopping, dpc>>
workerVars == <<wpc, seen, fn, numChunks, chunk>>
callVars == <<call, visits, slots, count>>
vars == <<poolVars, stopVars, workerVars, cpc, callVars>>

MaxSize == CHOOSE n \in Sizes : \A m \in Sizes : m <= n
Indices == 0..(MaxSize - 1)
Calls == [op : {"parallel_for", "parallel_reduce"}, n : Sizes, grain : Grains]
NoCall == [op |-> "none", n |-> 0, grain |-> 1]
NoVisits == [i \in Indices |-> 0]
NoSlots == [i \in Indices |-> <<>>]

CeilDiv(n, d) == (n \div d) + (IF n % d # 0 THEN 1 ELSE 0)

\* The sub-range of a chunk: the first index and one past the last.
ChunkBegin(k, ch) == ch * k.grain
ChunkEnd(k, ch) ==
  IF ChunkBegin(k, ch) + k.grain < k.n THEN ChunkBegin(k, ch) + k.grain ELSE k.n

Visit(v, from, to) ==
  [i \in Indices |-> IF i \in from..(to - 1) THEN v[i] + 1 ELSE v[i]]
Partial(from, to) == [j \in 1..(to - from) |-> from + j - 1]

Init ==
  /\ runOwner = NoCaller /\ generation = 0 /\ regionChunks = 0
  /\ regionFn = NoCaller /\ remaining = 0
  /\ stopping = FALSE /\ dpc = "none"
  /\ wpc = [w \in Workers |-> "check"] /\ seen = [w \in Workers |-> 0]
  /\ fn = [w \in Workers |-> NoCaller]
  /\ numChunks = [w \in Workers |-> 0] /\ chunk = [w \in Workers |-> 0]
  /\ cpc = [c \in Callers |-> "idle"]
  /\ call = [c \in Callers |-> NoCall]
  /\ visits = [c \in Callers |-> NoVisits]
  /\ slots = [c \in Callers |-> NoSlots] /\ count = [c \in Callers |-> 0]
----------------------------------------------------------------------------
(* Callers. *)

\* n = 0 returns at once; a single chunk runs inline, without the pool.
Begin(c, k) ==
  LET chunks == CeilDiv(k.n, k.grain) IN
  /\ cpc[c] = "idle" /\ ~stopping
  /\ call' = [call EXCEPT ![c] = k]
  /\ cpc' = [cpc EXCEPT ![c] = IF chunks <= 1 THEN "returned" ELSE "submit"]
  /\ visits' = [visits EXCEPT ![c] =
                  IF chunks = 1 THEN Visit(NoVisits, 0, k.n) ELSE NoVisits]
  /\ slots' = [slots EXCEPT ![c] =
                 IF chunks = 1 THEN [NoSlots EXCEPT ![0] = Partial(0, k.n)]
                               ELSE NoSlots]
  /\ count' = [count EXCEPT ![c] = chunks]
  /\ UNCHANGED <<poolVars, stopVars, workerVars>>

\* ThreadPool::Run up to the end of its first critical section.
Publish(c) ==
  /\ cpc[c] = "submit" /\ runOwner = NoCaller
  /\ runOwner' = c
  /\ regionChunks' = CeilDiv(call[c].n, call[c].grain)
  /\ regionFn' = c
  /\ remaining' = NumThreads
  /\ generation' = (generation + 1) % GenerationSpan
  /\ cpc' = [cpc EXCEPT ![c] = "notify"]
  /\ UNCHANGED <<stopVars, workerVars, callVars>>

WakeWorkers ==
  wpc' = [w \in Workers |-> IF wpc[w] = "asleep" THEN "check" ELSE wpc[w]]

\* Mutant: one worker is woken where all have to take part.
NotifyOneWorker(c) ==
  /\ cpc[c] = "notify"
  /\ \/ \E w \in Workers : wpc[w] = "asleep" /\ wpc' = [wpc EXCEPT ![w] = "check"]
     \/ (\A w \in Workers : wpc[w] # "asleep") /\ UNCHANGED wpc
  /\ cpc' = [cpc EXCEPT ![c] = "await"]
  /\ UNCHANGED <<poolVars, stopVars, seen, fn, numChunks, chunk, callVars>>

NotifyWork(c) ==
  /\ cpc[c] = "notify"
  /\ WakeWorkers
  /\ cpc' = [cpc EXCEPT ![c] = "await"]
  /\ UNCHANGED <<poolVars, stopVars, seen, fn, numChunks, chunk, callVars>>

\* The wait on done_cv_: leave the region, or sleep.
AwaitDone(c) ==
  /\ cpc[c] = "await"
  /\ IF remaining = 0
       THEN /\ regionFn' = NoCaller /\ runOwner' = NoCaller
            /\ cpc' = [cpc EXCEPT ![c] =
                         IF call[c].op = "parallel_reduce" THEN "fold" ELSE "returned"]
       ELSE /\ cpc' = [cpc EXCEPT ![c] = "asleep"]
            /\ UNCHANGED <<regionFn, runOwner>>
  /\ UNCHANGED <<generation, regionChunks, remaining, stopVars, workerVars, callVars>>

\* One pass of parallel_reduce's halving fold, on the calling thread.
FoldPass(c) ==
  LET n    == count[c]
      half == n \div 2 IN
  /\ cpc[c] = "fold"
  /\ IF n > 1
       THEN /\ slots' = [slots EXCEPT ![c] = [i \in Indices |->
                 CASE i < half -> slots[c][i] \o slots[c][i + half]
                   [] i = half /\ n % 2 = 1 -> slots[c][n - 1]
                   [] OTHER -> slots[c][i]]]
            /\ count' = [count EXCEPT ![c] = half + (n % 2)]
            /\ UNCHANGED cpc
       ELSE /\ cpc' = [cpc EXCEPT ![c] = "returned"]
            /\ UNCHANGED <<slots, count>>
  /\ UNCHANGED <<poolVars, stopVars, workerVars, call, visits>>

\* The caller goes on with what the primitive returned; its locals are gone.
Return(c) ==
  /\ cpc[c] = "returned"
  /\ cpc' = [cpc EXCEPT ![c] = "idle"]
  /\ call' = [call EXCEPT ![c] = NoCall]
  /\ visits' = [visits EXCEPT ![c] = NoVisits]
  /\ slots' = [slots EXCEPT ![c] = NoSlots]
  /\ count' = [count EXCEPT ![c] = 0]
  /\ UNCHANGED <<poolVars, stopVars, workerVars>>
----------------------------------------------------------------------------
(* Workers. *)

\* Mutant: the worker forgets which generation it has run.
WorkerCheckForgets(w) ==
  /\ wpc[w] = "check"
  /\ IF ~stopping /\ generation # seen[w] /\ regionFn # NoCaller
       THEN /\ wpc' = [wpc EXCEPT ![w] = "run"]
            /\ fn' = [fn EXCEPT ![w] = regionFn]
            /\ numChunks' = [numChunks EXCEPT ![w] = regionChunks]
            /\ chunk' = [chunk EXCEPT ![w] = w]
       ELSE /\ wpc' = [wpc EXCEPT ![w] = IF stopping THEN "exited" ELSE "asleep"]
            /\ UNCHANGED <<fn, numChunks, chunk>>
  /\ UNCHANGED <<poolVars, stopVars, seen, cpc, callVars>>

\* The wait on work_cv_ and the copy of the region's description.
WorkerCheck(w) ==
  /\ wpc[w] = "check"
  /\ IF ~stopping /\ generation # seen[w]
       THEN /\ wpc' = [wpc EXCEPT ![w] = "run"]
            /\ seen' = [seen EXCEPT ![w] = generation]
            /\ fn' = [fn EXCEPT ![w] = regionFn]
            /\ numChunks' = [numChunks EXCEPT ![w] = regionChunks]
            /\ chunk' = [chunk EXCEPT ![w] = w]
       ELSE /\ wpc' = [wpc EXCEPT ![w] = IF stopping THEN "exited" ELSE "asleep"]
            /\ UNCHANGED <<seen, fn, numChunks, chunk>>
  /\ UNCHANGED <<poolVars, stopVars, cpc, callVars>>

\* Static round robin: worker w of T runs chunks w, w + T, w + 2T...
RunChunk(w) ==
  LET c    == fn[w]
      from == ChunkBegin(call[c], chunk[w])
      to   == ChunkEnd(call[c], chunk[w]) IN
  /\ wpc[w] = "run" /\ chunk[w] < numChunks[w]
  /\ visits' = [visits EXCEPT ![c] = Visit(@, from, to)]
  /\ slots' = [slots EXCEPT ![c][chunk[w]] = Partial(from, to)]
  /\ chunk' = [chunk EXCEPT ![w] = @ + NumThreads]
  /\ UNCHANGED <<poolVars, stopVars, wpc, seen, fn, numChunks, cpc, call, count>>

\* A round's locals are declared inside the loop.
LeaveRound(w) ==
  /\ fn' = [fn EXCEPT ![w] = NoCaller]
  /\ numChunks' = [numChunks EXCEPT ![w] = 0]
  /\ chunk' = [chunk EXCEPT ![w] = 0]

\* Mutant: the caller is woken when the first worker is done.
FinishRegionEarly(w) ==
  /\ wpc[w] = "run" /\ chunk[w] >= numChunks[w]
  /\ remaining' = 0
  /\ cpc' = [c \in Callers |-> IF cpc[c] = "asleep" THEN "await" ELSE cpc[c]]
  /\ wpc' = [wpc EXCEPT ![w] = "check"]
  /\ LeaveRound(w)
  /\ UNCHANGED <<runOwner, generation, regionChunks, regionFn, stopVars, seen,
                 callVars>>

\* The last critical section of a round; the last worker wakes the caller.
FinishRegion(w) ==
  /\ wpc[w] = "run" /\ chunk[w] >= numChunks[w]
  /\ remaining' = remaining - 1
  /\ cpc' = [c \in Callers |->
               IF remaining = 1 /\ cpc[c] = "asleep" THEN "await" ELSE cpc[c]]
  /\ wpc' = [wpc EXCEPT ![w] = "check"]
  /\ LeaveRound(w)
  /\ UNCHANGED <<runOwner, generation, regionChunks, regionFn, stopVars, seen,
                 callVars>>

SpuriousWorker(w) ==
  /\ wpc[w] = "asleep"
  /\ wpc' = [wpc EXCEPT ![w] = "check"]
  /\ UNCHANGED <<poolVars, stopVars, seen, fn, numChunks, chunk, cpc, callVars>>

SpuriousCaller(c) ==
  /\ cpc[c] = "asleep"
  /\ cpc' = [cpc EXCEPT ![c] = "await"]
  /\ UNCHANGED <<poolVars, stopVars, workerVars, callVars>>
----------------------------------------------------------------------------
(* The destructor, which must not run concurrently with a region. *)

Destroy ==
  /\ dpc = "none" /\ \A c \in Callers : cpc[c] = "idle"
  /\ stopping' = TRUE /\ dpc' = "notify"
  /\ UNCHANGED <<poolVars, workerVars, cpc, callVars>>

\* Mutant: the destructor joins without waking the workers.
NotifyStopSilent ==
  /\ dpc = "notify" /\ dpc' = "join"
  /\ UNCHANGED <<poolVars, stopping, workerVars, cpc, callVars>>

NotifyStop ==
  /\ dpc = "notify" /\ dpc' = "join"
  /\ WakeWorkers
  /\ UNCHANGED <<poolVars, stopping, seen, fn, numChunks, chunk, cpc, callVars>>

Join ==
  /\ dpc = "join" /\ \A w \in Workers : wpc[w] = "exited"
  /\ dpc' = "joined"
  /\ UNCHANGED <<poolVars, stopping, workerVars, cpc, callVars>>

CallerStep(c) == NotifyWork(c) \/ AwaitDone(c) \/ FoldPass(c)
WorkerStep(w) == WorkerCheck(w) \/ RunChunk(w) \/ FinishRegion(w)

Next ==
  \/ \E c \in Callers :
       \/ \E k \in Calls : Begin(c, k)
       \/ Publish(c) \/ CallerStep(c) \/ Return(c) \/ SpuriousCaller(c)
  \/ \E w \in Workers : WorkerStep(w) \/ SpuriousWorker(w)
  \/ Destroy \/ NotifyStop \/ Join

\* The operating system runs every thread that can run.  Nothing is assumed of
\* run_mutex_ (std::mutex is not fair) nor of when callers call or return.
Fairness ==
  /\ \A c \in Callers : WF_vars(CallerStep(c))
  /\ \A w \in Workers : WF_vars(WorkerStep(w))
  /\ WF_vars(NotifyStop \/ Join)

Spec == Init /\ [][Next]_vars /\ Fairness
----------------------------------------------------------------------------
InRegion(c) == cpc[c] \in {"notify", "await", "asleep"}

\* When parallel_for or parallel_reduce returns, its body has run on every index
\* below n exactly once, whatever other callers and late workers did meanwhile.
VisitedOnce ==
  \A c \in Callers : cpc[c] = "returned" =>
    \A i \in Indices : visits[c][i] = (IF i < call[c].n THEN 1 ELSE 0)

\* What parallel_reduce returns combines every index exactly once: no partial is
\* folded twice, lost, or carried from the odd end into the wrong pass.
ReducedOnce ==
  \A c \in Callers : cpc[c] = "returned" /\ call[c].op = "parallel_reduce" =>
    /\ Len(slots[c][0]) = call[c].n
    /\ \A i \in 0..(call[c].n - 1) : \E j \in 1..Len(slots[c][0]) : slots[c][0][j] = i

\* A call that returned did all of its work, once.
RegionComplete == VisitedOnce /\ ReducedOnce

\* A worker only calls a chunk function whose caller is still blocked in Run: the
\* pointer it copied under the lock cannot dangle while it uses it.
NoDanglingChunkFn ==
  \A w \in Workers : wpc[w] = "run" =>
    /\ fn[w] # NoCaller /\ InRegion(fn[w])
    /\ regionFn = fn[w] /\ runOwner = fn[w]

\* workers_remaining_ counts the workers that have yet to finish the region in
\* flight, the ones that have not even noticed it included; this is why a
\* wrapped region_generation_ cannot be mistaken for one already seen.
RemainingExact ==
  remaining = Cardinality({w \in Workers : wpc[w] = "run" \/ seen[w] # generation})

\* The region in flight and its workers agree on whose it is and who is left.
RegionOwned == NoDanglingChunkFn /\ RemainingExact

\* A region that was published returns: no wake-up of a worker or of the caller
\* is lost between testing a predicate and going to sleep.
RegionReturns ==
  \A c \in Callers : InRegion(c) ~> ~InRegion(c)

\* The destructor's join ends.
DestructorJoins == stopping ~> (dpc = "joined")
=============================================================================
