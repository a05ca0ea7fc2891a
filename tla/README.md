# TLA+ models and proofs of the inference engine

The repository is a CPU inference engine for Llama-style models: a continuously
batched runtime over a paged KV cache, with its own scheduler, thread pool,
allocators, sampler, tokenizer, model loader and kernels. This directory models the
parts whose correctness depends on the *order* of things (threads, queues, pools,
partial failures, roll-backs), and the parts without state whose indexing, case
distinctions and refusals are easy to get wrong (parsers, normalisation, sampling
stages, views, blocked kernels). Paths below are relative to `src/src/`.

## 1. The system

| component | state it keeps | operations | meets others through |
|---|---|---|---|
| engine loop (`runtime/engine.cpp`) | command queue and stop flag under `cmd_mu_`; `requests_`, `waiting_`, `running_`, pass vectors, owned by the engine thread | Submit, Cancel, Start, Stop (clients); drain, retire, schedule, prefill and decode pass, recovery (engine thread) | commands, condition variable, channels, the scheduler, the pool |
| sequence (`runtime/request.h`, `sequence.cpp`) | state, generated tokens, its cache, stop checker, sampler | Transition, AppendGenerated, DropCache | owned by the engine |
| output channel (`runtime/channel.cpp`) | queue, closed flag, finish info | Push, Close; Next, TryNext, AwaitFinish | engine thread to client threads |
| scheduler (`scheduler/`) | none | Schedule | called once per step |
| block pool and paged cache (`kvcache/block_pool`, `block_table`, `paged_cache`, `paged_gather`) | reference counts, free list, slabs; block table, pending slots, next layer | Allocate, Share, Release; append per layer, view, truncate | several caches share one pool |
| contiguous cache (`kvcache/simple_cache`) | tensors and fill per layer | append, view, truncate | alternative behind the same interface |
| thread pool (`parallel/`) | region descriptor, generation, remaining workers | Run, WorkerLoop, parallel_for, parallel_reduce | all kernels |
| caching allocator (`memory/caching_allocator`) | free lists by size class, statistics | Allocate, Return, release_cached | tensors of all threads |
| generator, stop checker, batch assembler (`engine/`) | token buffer, held-back text | Step, Check, Assemble | runtime and main |
| model step (`model/optimized_model`, `reference_model`, `workspace`, `engine/batch`, `sampling/batched_sampler`) | a workspace reused by every forward, the flat arrays of a batch, one scratch per sampled row | Forward, Prefill, Decode, Assemble, SampleBatch | called by the engine loop and the generator; appends to the caches layer by layer |
| sampling (`sampling/`) | a row's scratch buffers | SampleRow: penalties, temperature, top-k, top-p, draw, log-probabilities | fed by the model's rows |
| tokenizer (`tokenizer/`) | the vocabulary, merges and added tokens of one file | from_json, encode, decode; incremental detokenizer | generator, engine loop |
| model files (`model/config`, `safetensors`, `checkpoint`, `weight_map`, `loader`, `modules`, `registry`) | mapped files | ParseModelConfig, Open, BuildWeightMap, load_model, BuildModel | main |
| tensor (`tensor/`) | a buffer and views of it | slice, reshape, view_as_dtype, copy, cast, arange, allclose | everything that computes |
| kernels (`kernels/`, `cpu/`) | none | packed GEMM, gathers, RoPE, reductions, KV copies, attention | the two backends, the thread pool |
| main (`main.cpp`, `kvcache/kv_budget.cpp`) | the arguments | ParseArgs, ResolvePagedBlocks, BuildKvCache, RunGenerate | all of the above |
| core, devices, metrics, quant, server, spec | error plumbing, or placeholders | | |

What makes it hard: client threads race with the engine thread at every point of
a step; every notification is issued after its unlock; a batched forward can fail
with some caches grown and others not; another user may drain the pool between
the scheduler's snapshot and the forward; blocks are allocated one lock at a time,
so two caches interleave inside their appends; a worker may still be leaving one
parallel region while the next is published; evicted cache blocks are destroyed
outside the allocator's lock; a workspace and a sampler's scratch keep what the last
request wrote; a checkpoint's index and shards can contradict each other; every blocked
loop has a tail. `PROJECT.json` lists each of these under `hazards`,
at its line.

What would make each part correct: requests and queues agree and every accepted
request's channel is closed exactly once (engine); tokens of a request are those of
an undisturbed run (engine, paged cache, recovery); a step never runs out of blocks
on its own and never stalls (scheduler); nothing lost, repeated or left asleep
(channel, thread pool); reference counts and statistics exact, one owner per block
(pools); logits that do not depend on the backend, the batch or what the workspace held
before (model step); streamed, encoded and decoded text as the reference algorithm gives it
(tokenizer); a file either refused or consistent (loading); a kernel that reads and writes
exactly the elements of its naive definition (tensor, kernels).

## 2. Modules

| module | what it is |
|---|---|
| `OrderedSeqs` | sequences of ids as queues (`Sorted`, `Filter`, `Erase`, `AtPositions`) and sums over finite sets (`SumOver`) |
| `Scheduler` | `Schedule` as a closed form of one call's inputs |
| `SchedulerLoop` | the code's two loops, one iteration per action |
| `Engine` | client threads and the engine thread |
| `RequestStreams` | abstract: what clients are promised; `Engine` implements it |
| `OutputChannel` | the per-request queue, its mutex and its condition variable |
| `PagedKvCache` | block pool, block tables and the layer protocol |
| `KvContract` | abstract: each layer shows what was appended to it; `PagedKvCache` implements it |
| `SimpleKvCache`, `KvMirror` | the contiguous cache, and both caches given the same calls |
| `ThreadPool` | pool, `parallel_for`, `parallel_reduce`, destructor |
| `CachingAllocator` | size classes, free lists, retry path, trim |
| `TextStream` | generation loop, incremental detokenizer, stop-string matcher and stop checker |
| `ModelForward` | one model step on both backends, batched or alone, with recovery and sampling of rows |
| `Sampling` | the stages of one row, and the policy they implement |
| `Unicode`, `Pretokenize`, `Tokenizer` | UTF-8 and NFC; the split patterns; byte-level BPE, added tokens, encode and decode |
| `JsonNodes` | JSON trees and chains of statuses, shared by the parsers |
| `TokenizerFile` | tokenizer.json to a tokenizer |
| `ModelConfig`, `Safetensors`, `Loader`, `ModelBuild` | config.json; one safetensors file; checkpoint, weight map and load_model; construction of both backends |
| `GenerateCommand` | the command line, the size of the KV cache, the order of the command's checks |
| `TensorViews`, `TensorOps`, `HalfFloat` | shapes, strides and views; operations on them; half-precision conversions |
| `Kernels`, `AttentionKernels` | packed and blocked kernels as the operands they read and the cells they write |
| `OrderedSeqsProofs` | lemmas on queues, sums, division and sequences that the other proofs rest on |
| `SchedulerProofs`, `SchedulerLoopProofs`, `EngineProofs`, `ThreadPoolProofs`, `ModelForwardProofs` | theorems about the module of the same name |
| `OutputProofs` | theorems about `TextStream` and `OutputChannel`, a token's way out |
| `MemoryProofs` | theorems about `PagedKvCache` and `CachingAllocator`, the two stores of blocks (the latter's operators are named `AllocatorInit`, `AllocatorNext`, `AllocatorSpec` so that both fit in one module) |
| `MC*` | instances for TLC of the modules that need a function, a symmetry or enumerated calls as a constant; the others are run as they are, with the values in the `.cfg` file. Operators whose comment begins "Mutant" are wrong variants of the next definition, used only to show that a property can fail |

### Engine

Everything the engine thread owns is a variable (`requests_` is `live`, the entry's
flag `cancelRequested`, `pass_entries_` is `todo`, `pass_pre_len_` is `preLen`).
`pc` says where the thread is: `top` (stop test), `drain`, `retire`, `idle`/`asleep`
(the condition variable), `schedule`, `forward`, `rows` (delivering a batched
result), `recover` (re-running members one by one), `terminal`. Client actions touch
only the command queue, the stop flag and the new sequence; `NotifyEngine` is the
notify after their unlock. Only lengths are kept of prompts, outputs and caches; a
token is named by the cache length of the forward that produced it, so a cache out
of step with its sequence shows as a wrong token in the stream. Faults of forward,
sampler and detokenizer are a nondeterministic choice (constant `Faults`), with the
number of caches already grown chosen as well. `ExternalTake`/`ExternalGive` stand for
another user of the same pool; it acts between any two actions, so not between the truncate of a
member being recovered and the allocation of its lone forward, which are one action.

### Scheduler

`Schedule` says what the loops compute: the decode set is the largest set of oldest
running sequences whose demand fits once the others' blocks are refunded, and the
admitted set the longest prefix of the queue within the sequence, token and block
budgets. `SchedulerLoop` is the code's victim scan and queue walk; the run
`scheduler_loop` shows that both agree.

### KV caches

A lock section of the pool is one action, so appends, roll-backs, truncations and
destructions of several caches interleave block by block. The slab is a function from
flat slot to value; `View` reads through the block table. `KvContract` has neither
pool nor blocks. In `KvMirror` a contiguous cache receives each call when the paged
one returns from it.

### OutputChannel, ThreadPool, CachingAllocator

One action per critical section; a notify issued after the unlock is the next action
of that thread; a thread whose predicate is false sleeps in the action that tested it;
sleepers may wake spuriously. Partials of `parallel_reduce` are index sequences, so
combine is concatenation and order matters. The allocator's upstream hands out
addresses again as soon as they are freed, and `size_t` has a small width so that the
overflow guard in `SizeClass` is met.

### ModelForward

A value is a term that names how it was computed (`<<"embed_tokens", tok>>`, a norm of a row, an
attention over a list of keys), so two forwards agree exactly when they applied the same
kernels to the same rows. The optimized backend works in a workspace `w` that keeps its contents
between forwards, the reference in fresh tensors, each with a cache of its own per sequence. A pass is
assembled, validated, run layer by layer with an append per member that may fail, and
sampled row by row; after a failed pass every member is cut back and re-run alone. Requests the
model refuses (a token out of range, a position over the limit) are offered too. The members of a pass
come in any order. `Flatten` assembles a batch from nothing: the assembler clears all five of its arrays
before it fills them, and what a pass left in them is not part of the state. Layers, kernels and prefix sums are recursive functions, so that the proofs can
reason about them.

### The functions without state

A behaviour of `MCPure` is one call and its result: `call` is chosen in `Init` among the bounded
inputs, one action per function computes it, and the invariant of its module compares it with
a reference definition written in another way (`Unicode!NfcCorrect`,
`Pretokenize!SplitsLikeTheRegex`, `Tokenizer!EncodesTheText`, `Sampling!RowFollowsPolicy`,
`Safetensors!FileSound`, `Loader!LoadSound`, `ModelBuild!BuildsAlike`, `GenerateCommand!SizedForRequest`,
`TensorViews!ViewsStaySound`, `HalfFloat!Fp16Rounds`, the naive loops of `Kernels` and `AttentionKernels`).
What is abstracted: JSON text (a tree is given), file contents (a header, a size and ranges),
numbers (logits and scores are small integers and `exp(x)` is `2^x`, so every comparison is
exact), products and sums in kernels (kept as the ordered list of operands), instruction sets (lanes
are a parameter), Unicode tables (an excerpt with a member of every class the code tells apart).
These modules use RECURSIVE operators and hold no theorems.

### TextStream

`classify_utf8_prefix` on bytes, the batch decoder as reference, the
incremental one with its carry (both as recursive functions on byte sequences), the matcher with its
held tail, and the three priorities of
`Observe` with the `Finish` that follows. `Generate` runs over a cache that is the list of fed ids; a
forward may fail, and the call may then be resumed as `generator.h` describes.

## 3. Runs

| run | instance | shows |
|---|---|---|
| `scheduler_loop` | 4 requests in every split and order, lengths to 3, blocks of 2, 0..3 free | the loops end with `Schedule`'s decision, victims latest first; every charge and refund is accounted for |
| `engine_faults` | 2 requests, 3 blocks of 2, prompts 0, 1, 2, 7, limits 0, 1, 3, one cancel, faults, one external block, Stop anywhere | queue, cache, block and channel invariants; at most one token after Cancel; legal transitions; implements `RequestStreams` |
| `engine_liveness` | 3 requests that need preemption in 3 blocks, no faults, fairness | neither pass can run out of blocks; every step advances somebody; a victim always has an older sequence that keeps running; every accepted request closes once the engine is started; Stop returns with all channels closed |
| `output_channel` | 2 client threads, 3 items, 2 outcomes | exactly once in order; the end only when drained and the first close final (`EndsOnce`); a lone reader wakes and a close releases all (`NobodyStuck`) |
| `paged_shared` | 2 caches of 2 layers, 2 blocks of 2 tokens, batches of 1 and 3, a reference held by others on block 0 (`Shareable`, `MaxShares`), caches symmetric | exact reference counts and table sizes (`PoolExact`), no block with two owners, implements `KvContract` |
| `thread_pool` | 2 callers, 2 workers, sizes 0, 2, 3, 9 at grain 2, generation modulo 2 | every index once and every index once in what is reduced (`RegionComplete`), no dangling function and an exact countdown (`RegionOwned`), regions return, destructor joins |
| `caching_allocator` | 2 threads, 3 addresses, 5-bit sizes | exact statistics; one holder per block, classes that cover requests (`BlocksSound`) |
| `text_stream` | 8 ids that cut characters and stop strings, 5 stop lists (one ends in U+FFFD), limits 1 and 4, one resumed call | streamed text is batch text; stop strings trimmed at the first byte, nothing held in vain; the cache follows the delivered ids within its capacity |
| `forward` | 2 sequences of 1 and 2 prompt tokens, 2 layers, capacity 4, one fault, paged and contiguous caches | logits are the reference's whatever the workspace held; caches hold the history; each sampled row meets its sequence, also when others fail |
| `pure_functions` | some fifty thousand calls: all 3-token rows, texts of up to 4 characters or pieces, JSON trees with one deviation at a time, layouts and shards, 3-dimensional views, shapes on both sides of every block size | the six families of the functions without state agree with their references |
| `find_cancel`, `find_stale_view` | one or two requests; one cache | section 5 |

Why the bounds are enough: the engine instances have fewer blocks than the requests
need together, so preemption, resumption and recovery all happen, and prompts and
limits that Submit must reject (0, 7; limit 0) are offered as well. Two requests show every
race of one with another; the third is there for chains of preemptions. Two caches of two
blocks, and batches of three tokens that need both, make each append able to exhaust the pool half way and
leave the last block partly filled; batches of one let both caches hold a history at the same time, so that
no block in two tables is tested across caches. One shareable block is enough: the blocks differ only in the
order of the first pops. The contiguous cache is met in `forward` and, call by call beside the paged
one, in `KvMirror` (`find_stale_view`). Nine
indices at grain 2 give five chunks over two workers, so that strides, the short last chunk
and two odd folds occur; a generation modulo 2 wraps at every second region.

Two layers tell a value of this layer from one of the last; two sequences of unequal length make a
ragged batch; one fault at any append or row covers every half-done pass. Block constants of the
kernels are scaled so that a few elements pass them: panels of 2 rows for 16, m-blocks of 3 for 64,
query blocks of 2 for 32, key blocks of 4 for 64, head slices of 2 for 8, 4 lanes for 16; shapes range
over both sides of each. Integer types keep int8 and uint8 at their width; the wider ones are scaled so that their
limits are met, half-precision patterns keep their real widths.

Deadlock is checked in the engine, channel and cache runs (`Engine`'s `Terminated` is the state
after Stop). It is switched off for `scheduler_loop`, whose call returns, for
`thread_pool`, whose destructor ends, for `forward` and `pure_functions`, whose calls return, for `caching_allocator`, which is destroyed, and for
`text_stream`, whose calls return.

### Fairness

- `Engine!FairSpec`: weak fairness of the engine thread (a thread that can run does),
  of the notify that a client issues right after its unlock, and of Stop after its join. Nothing
  is assumed of when clients submit, cancel or stop.
- `OutputChannel`: weak fairness of the pending notify and of each awake consumer inside
  a call; pushes, closes and spurious wake-ups are free.
- `ThreadPool`: weak fairness of each worker, of each caller inside a call and of the destructor.

## 4. Proofs

The theorems hold for every value of the constants that the modules' assumptions allow, so for
every pool, block size, number of requests, caches, threads and layers. The assumptions are what
the code checks or its types give:

- `SchedulerAssumption`, `EngineAssumption`, `SchedulerLoopAssumption`: the configuration checks of
  `Engine::Create`; bounds are naturals.
- `PagedKvCacheAssumption`: positive sizes, an append has at least one token.
- `TextStreamAssumption`: ids have byte sequences of any length and content, stop strings are not empty
  (`ValidateSamplingParams`), limits are positive; the special, end and stop ids are ids.
- `ModelForwardAssumption`: finitely many sequences with prompts of known ids, none empty (`Submit`
  refuses an empty one), at least one layer and one id. Capacity, position limit, tokens and faults are any
  naturals.
- `ThreadPoolAssumption`: at least one worker, grains are positive (`parallel_for` CHECKs it), the
  generation counter has more than one value. `NoCaller` is not a caller.
- `CachingAllocatorAssumption`: requests are positive and fit `size_t`, the least class is no larger
  than the large step, the upstream has finitely many addresses.

Two theorems have a premise of their own: those on running out of blocks assume
`MaxExternal = 0` (nobody else takes blocks; with another user the claims are false, and the
recovery path is what the engine has for that case), and `ContractImplemented` assumes
`AnyRollback = FALSE` (the runtime's cuts; `find_stale_view` shows the contract broken without it).

| module | theorem | property |
|---|---|---|
| `SchedulerProofs` | `ScheduleFacts`, `ScheduleAccounts` | for every input: the shape of a decision; what it spends is free or its victims' |
| `SchedulerLoopProofs` | `LoopComputesPolicy`, `LoopAccounts` | `LoopMatchesPolicy`, `BlocksAccounted` |
| `EngineProofs` | `TypeCorrect`, `QueuesAgree`, `TokensInOrder`, `CachesAligned`, `NoOrphanChannel`, `NoBlockLeak` | `TypeOK`, `QueuesPartitionLive`, `StreamsInOrder`, `KvAligned`, `OpenChannelsOwned`, `BlocksOnlyWhileRunning` |
| `EngineProofs` | `OneLateToken`, `TransitionsLegal`, `StreamsImplemented` | `CancelLatency`, `LegalTransitions`, `ImplementsStreams` |
| `EngineProofs` | `PoolNeverExhausted`, `StepsAdvance`, `OldestSurvives` | `NeverExhausted`, `StepAdvances`, `OldestKeepsRunning` |
| `OutputProofs` | `LossyIsDrain`, `DrainJoin` | for every text: the batch decoding is what the incremental loop shows and its residue; a text may be fed in any two parts |
| `OutputProofs` | `TextIsBatch`, `StopsAreHonoured`, `ForwardsGoOn` | `StreamingIsBatch`, `StopsHonoured`, `ForwardsInPlace` |
| `OutputProofs` | `ItemsExactlyOnce`, `StreamEndsOnce` | `ExactlyOnceInOrder`, `EndsOnce` |
| `MemoryProofs` | `NoBlockShared`, `PoolAccounted`, `ContractImplemented` | `NoAliasing`, `PoolExact`, `ImplementsContract` |
| `ThreadPoolProofs` | `RegionsOwned`, `RegionsComplete` | `RegionOwned`, `RegionComplete` |
| `MemoryProofs` | `StatsAlwaysExact`, `BlocksAlwaysSound` | `StatsExact`, `BlocksSound` |
| `ModelForwardProofs` | `OptimizedIsReference`, `CachesAreHistory`, `RowsAreTheirs` | `OptimizedMatchesReference`, `CacheIsHistory`, `RowsMeetSequences` |

The chain from the scheduler to the client: the two loops compute `Schedule`
(`LoopComputesPolicy`), `Engine` schedules with `Schedule`, and `Engine` implements
`RequestStreams` (`StreamsImplemented`).

### The arguments

**Scheduler.** The eviction loop always holds an order-preserving part of the running list
(`KeptInv`), the rest latest first, all younger than what is left (`VictimsInv`), and every set of the
oldest that could decode is still contained in it (`BestInv`): when what is left fits, it is the
largest such set. `demand` is kept equal to what it needs. The walk's sums are those of the prefix it has
passed, every prefix of which was admissible (`WalkInv`); it stops where the next one is not.

**Engine, tokens and queues** (`IInv`). That a pushed token is the right one needs the cache to be
aligned with what was generated. Alignment is broken and restored inside a pass, so `AlignInv`
follows a running sequence through it: before the forward, after it, and, when it failed, through
`preLen`, from which recovery re-runs it. That a pass meets a sequence once, and that an admission
meets an empty cache, needs `PassInv`, `CacheInv` and the partition of live requests into the two
queues. The partition survives the drain only because queued submits are distinct and not yet
live (`QueuedInv`, `StateInv`). `ProgressInv` ties the stream to what was generated. There is one
lemma per action; `DeliverInv` is shared by the batched and the one-by-one path.

**Engine, blocks** (`BlockInv`). `NeverExhausted` speaks of one pass at a time and is not inductive:
the decode pass relies on what prefill leaves. `AccountInv` bounds the blocks of `Target`, where every
cache will stand when all forwards of both passes have succeeded. Scheduling establishes it
(`ScheduleAccounts`), each delivered row, failure, eviction and retry keeps or lowers it, and the need of
the pass in progress is part of it. `FitInv` carries Submit's rejections, from which an empty pool can
always admit the head of the queue.

**Engine, clients** (`CInv`). After Cancel returned, its mark travels from the command queue to
the entry's flag to retirement. `AskedInv` and `MarkedInv` say where the mark is, `SpentInv` that once the
one late token is out the request is not in any pass again; `CancelLatency` follows.
The refinement then maps each action to one step of `RequestStreams` or to none.

**Text stream** (`IInv`). What a cut text decodes to is settled first, for every text: when a sequence
of bytes is classified, bytes that come later do not change the verdict, unless it was "incomplete"
(`ClassifyLonger`); by induction on the length, `DrainJoin` follows, and `LossyIsDrain` with it.
`DecodeInv` then says that text, held tail and carry are `Drain` of the whole stream so far. For stop strings,
`MatchInv` has to say more than `StopsHonoured`: no stop string *begins* in the text already shown, not even one of
which only a part has arrived (`Begun`), since otherwise the rest of it could complete a match
that starts in delivered text. `FeedHolds` shows that holding back the longest overlap keeps it so,
`FeedMatches` that the match found in the buffer is the earliest in the stream. A U+FFFD that `Finish` puts for
an unfinished last character is not matched against, in the code as in the property. `PlaceInv` keeps the
cache and the next input equal to prompt and delivered ids, over failed and resumed calls, and the
length still to come under what `Peak` reserved.

**Output channel** (`ChannelIInv`). `ExactlyOnceInOrder` is about a concatenation; `PlacedInv` states it place by
place, and `EndInv` carries what each thread has been told of the end.

**Paged cache** (`IInv`, `ViewInv`). `Ledger` counts references between any two critical sections: a
block has one owner among the caches (`Unique`) plus its shares. `TableInv` says how a table and the call in
progress on it agree. For the contract, `ViewInv` records where a forward in progress will write
(its pending slots are those of the last positions) and the lemmas on slots show that a write changes
one layer of one cache behind what it shows (`WriteViews`). An append maps to `AppendTo`, the begin of a
truncation or destruction to `Truncate`, every other step to a stutter.

**Thread pool** (`PoolInv`, `WorkInv`). `remaining` counts the workers that are running or have not
seen the generation, so a new region cannot be published while one is left; this is why a wrapped
counter does no harm, for any span over one. `CallInv` follows a call from its chunks through the pairwise
folds: at each pass the partials cover the indices exactly once, an odd one is carried over.

**Model step** (`IInv`). Optimized and reference model are not compared with each other, each is computed
against the history of a sequence of ids: `Hidden` is the row of every id before every layer,
`KvUpTo(t, l, n)` what layer `l` has stored for the first `n`. Both depend on earlier ids only (`Causal`), which
is why a cache filled in pieces, one id at a time or after a preemption, is the one a single prefill
fills (`KvExtends`). For the optimized model the proof goes kernel by kernel through the workspace: a
buffer's first rows are what the last kernel wrote, the others are whatever an earlier pass left
(`Written`), and no kernel reads those (`BeforeIs`, `AttendIs`, `AfterIs`). `Lays` says how a flattened request
lies in its rows, for any members in any order (`FlattenIs`); the decode kernel's rows are the general ones because
members of one token each stand in their own row (`OneEach`). A pass whose append
fails leaves caches of different lengths in different layers and members, but each with the history as a prefix
(`RollsBack`), so that cutting to `pre` gives the history back (`TruncateIs`); the invariant says `Settled`
of a sequence outside a recovery and `Abandoned` of one that waits in it.

**Allocator** (`AllocatorInv`). That a cached block goes to a tenant of its size rests on each list holding
blocks of its own class (`ListInv`); that a block is destroyed once on victims being nobody else's
(`VictimInv`); both statistics are sums over those holders, changed one address at a time.

Induction (on sums over sets, powers of two, block counts, folds, lengths of texts) is carried out through least
elements of sets of naturals (`LeastExists`, `Induction`, `SubsetInduction`, `MeasureInduction`), since the
library's induction theorems take an operator. That a recursive function exists and obeys its equation is
`RecursionExists`, for recursion along any measure in the naturals.

### Only model-checked

- Liveness and fairness: `EveryRequestCloses`, `StopClosesAll`, `NobodyStuck`, `RegionReturns`,
  `DestructorJoins`. Fairness and ENABLED are out of the prover's reach.
- `SimpleKvCache`/`KvMirror` and the functions without state behind `MCPure` (`SamplerFollowsPolicy`,
  `TextFollowsPipeline`, `FilesConsistent`, `CommandSizesCache`, `TensorsAgree`, `KernelsAgree`): most of
  their modules use RECURSIVE operators, which cannot be reasoned about in the prover, and what they claim is
  the value of a recursion over data.
- The two runs that show a disagreement (section 5).

## 5. Where code and documentation disagree

Shown by a run:

- `find_cancel`: `docs/design/scheduler-runtime.md:1161` says the in-flight token of a cancelled
  request is never delivered; `DeliverSampled` delivers it. `CancelLatency` bounds it to one.
- `find_stale_view`: `kvcache/paged_cache.h:94` says the paged view mirrors the contiguous one and never
  shows stale bytes; a truncate between two layers of a forward, to a length the table already covers,
  makes unwritten positions visible, where the contiguous cache refuses the call. The
  runtime never makes this call: it cuts to the length before the forward (`AnyRollback = FALSE`).

Noticed while modelling, not a run of their own:

- `runtime/engine.h:65` speaks of preempting a *younger* sequence when a decode finds no block;
  `PickPreemptionVictim` takes the latest-arrived *other* one, which is older than the
  requester when that is itself the youngest.
- `docs/design/scheduler-runtime.md:1102` has preempted sequences admitted ahead of never-started ones;
  `Schedule` offers blocks refunded by a victim to the queue in the same call, before the victim
  is requeued, so a new request can pass it for one step.
- `runtime/request.h:170` calls `num_computed_tokens` the positions committed to the cache;
  it counts generated tokens since the last resume. Nothing reads it for scheduling (the
  runtime passes the cache's length).
- `memory/caching_allocator.h:71` calls `bytes_reserved` exactly the upstream footprint;
  `release_cached` lowers it before the blocks are destroyed.
- With two client threads on one channel, the notify of a push can go to a thread in
  `AwaitFinish`, and a thread in `Next` sleeps on until the next push or the close.
  `NobodyStuck` is stated accordingly.
- `kvcache/kv_budget.cpp:183`: `--kv-block-size 0` fails a CHECK in `BlocksForTokens` before
  `BlockPool::Create` could return its error; `main.cpp:108`: a number that `stol` cannot read ends the process
  with an uncaught exception. `CommandSizesCache` allows both and no other abort.
- `model/weight_map.cpp:156`: the inventory resolves every tensor, so one of an unsupported type that
  no layer needs fails the load.
- `model/packed_linear.cpp:182`: an input of no rows stops the process in the kernel's CHECK where
  the reference layer returns an error.
- `sampling/sampler.h:75` and `:143` say that a NaN or +inf logit gives `Internal` rather than a bogus token.
  The greedy branch (`ArgmaxRow`, `sampler.cpp:68`) refuses only when the first logit is NaN, and runs
  `CheckFinite` only for log-probabilities: the rows `0, NaN, 2` and `0, +inf, 2` give the tokens 2 and 1.
  `Sampling!Refused` is the documented contract; without the exception `GreedyOverlooks`, which names exactly
  these rows, `SamplerFollowsPolicy` is violated by the code.
- `sampling/stages.cpp:108`: a finite logit over a tiny temperature can overflow after the
  finiteness check; `Sampling` states its policy for rows that stay finite.
- `tokenizer/tokenizer.cpp:850`: an added token whose content happens to be a word of the byte alphabet is
  also found by the lookup of a BPE symbol.

## 6. Not modelled

Rounding of floating-point arithmetic, and the kernels that are one formula per element (norms,
activations, element-wise operations, conversions in bulk, vector exp); the Philox generator (a draw is
an input); JSON text and system calls; the Unicode tables beyond the excerpt; logging, status and
CHECK plumbing; devices; host queries (core counts, environment); the plain allocators, which
appear as an external upstream. `metrics`, `quant`, `server` and `spec` are empty
placeholders. Inside modelled parts: Start after Stop, `preemption_count_`, error texts,
`peak_used_` and `exhaustions_` of the pool, hit and miss counts and zero-byte requests of the allocator,
architectures registered at run time, tensor printing.

## 7. Plan

Done, in this order: scheduler, engine with its abstract specification, output channel, KV caches with
contract and mirror, thread pool, caching allocator, text stream; type correctness and five safety
properties of the engine proved; then the model step with the batch path, the sampler, tokenizer, model
files and construction, the command, tensors and kernels; then the safety properties of the scheduler's
loops, the channel, the pools and the paged cache proved, with both refinements; then those of the text
stream and of the model step, after their recursion had become recursive functions. Every safety property and
action property of a component with state is now a theorem.

What could follow: the families of `MCPure`, one by one, in the same way (the kernels' loop bounds and the
tokenizer's segments first).
