---------------------------- MODULE ModelForward ----------------------------
(***************************************************************************)
(* One model step, batched or alone, on both backends: the optimized model *)
(* over its reused workspace and the reference model over fresh tensors,   *)
(* each with a cache per sequence.  A value is a term naming how it was    *)
(* computed, so two runs agree exactly when they applied the same kernels  *)
(* to the same rows.  What the kernels do inside a row is modelled by      *)
(* Kernels and AttentionKernels.  Recursion is written as recursive        *)
(* functions, for ModelForwardProofs.                                      *)
(***************************************************************************)
EXTENDS Integers, SequencesExt, OrderedSeqs

CONSTANTS
  Seqs, Prompt,                    \* sequences, and their prompt ids
  VocabSize, NumLayers, MaxPos,    \* vocab_size, num_layers, max_position_embeddings
  Capacity,                        \* of each cache
  MaxNew, MaxFaults                \* bounds: tokens per sequence; drained appends and bad rows

Vocab == 0..(VocabSize - 1)

\* Submit refuses an empty prompt.
ASSUME ModelForwardAssumption ==
  /\ IsFiniteSet(Seqs) /\ Prompt \in [Seqs -> Seq(Vocab) \ {<<>>}]
  /\ VocabSize \in Nat \ {0} /\ NumLayers \in Nat \ {0}
  /\ MaxPos \in Nat /\ Capacity \in Nat /\ MaxNew \in Nat /\ MaxFaults \in Nat

VARIABLE paged       \* the caches are PagedKvCaches, else SimpleKvCaches (never changes)

Layers == 0..(NumLayers - 1)
Stale == <<"stale">>                            \* what Tensor::empty leaves
Rows(f) == SubSeq(f, 1, Len(f))                 \* f, row by row

Emb(tok) == <<"embed_tokens", tok>>
Apply(weight, l, x) == <<weight, l, x>>         \* a norm or a projection of layer l
Rotate(x, pos) == <<"rope", pos, x>>
Attend(q, kv) == <<"attn", q, kv>>              \* kv: the <<k, v>> rows read, in order
Add(a, b) == <<"add", a, b>>
SiluMul(g, u) == <<"silu_mul", g, u>>
LmHead(x) == <<"lm_head", x>>

-----------------------------------------------------------------------------
(***************************************************************************)
(* The workspace: ten buffers of cap rows, written through prefix views.   *)
(***************************************************************************)
Buffers == {"x", "h", "tmp", "r", "q", "k", "v", "ctx", "gate", "up"}

NoWorkspace == [cap |-> 0, buf |-> [b \in Buffers |-> <<>>]]

EnsureCapacity(w, t) ==
  IF t <= w.cap THEN w
  ELSE [cap |-> t, buf |-> [b \in Buffers |-> Rows([i \in 1..t |-> Stale])]]

\* A kernel that writes rows to the front of buffer b; those beyond stay.
Put(w, b, rows) == [w EXCEPT !.buf[b] = rows \o SubSeq(@, Len(rows) + 1, w.cap)]

-----------------------------------------------------------------------------
(***************************************************************************)
(* A request: flattened tokens and positions, cu (0-based prefix sums) and *)
(* the sequence whose cache each member uses.                              *)
(***************************************************************************)
PrefixSums(lens) ==
  LET cu[b \in 1..(Len(lens) + 1)] == IF b = 1 THEN 0 ELSE cu[b - 1] + lens[b - 1]
  IN  Rows(cu)

\* BatchAssembler::Flatten: positions continue from each cache's length.
Flatten(members, feed, kv) ==
  LET toks == Rows([b \in 1..Len(members) |-> feed[members[b]]])
      at(b) == Rows([t \in 1..Len(toks[b]) |-> Len(kv[members[b]][0]) + t - 1])
  IN  [tokens |-> FlattenSeq(toks),
       positions |-> FlattenSeq(Rows([b \in 1..Len(members) |-> at(b)])),
       cu |-> PrefixSums(Rows([b \in 1..Len(members) |-> Len(toks[b])])),
       caches |-> members, batched |-> TRUE]

Total(req) == Len(req.tokens)
MemberOf(req, m) == CHOOSE b \in 1..Len(req.caches) : req.cu[b] < m /\ m <= req.cu[b + 1]
Span(req, b) == req.cu[b + 1] - req.cu[b]

\* What forward checks before it touches a cache.
ValidateBatched(req, kv) ==
  /\ Len(req.caches) > 0 /\ Len(req.cu) = Len(req.caches) + 1
  /\ req.cu[1] = 0 /\ \A b \in 1..Len(req.caches) : req.cu[b] < req.cu[b + 1]
  /\ Len(req.positions) = req.cu[Len(req.cu)] /\ Total(req) = Len(req.positions)
  /\ \A m \in 1..Total(req) : req.tokens[m] \in Vocab /\ req.positions[m] < MaxPos
  /\ \A b \in 1..Len(req.caches) :
       Len(kv[req.caches[b]][0]) + Span(req, b) <= Capacity

-----------------------------------------------------------------------------
(***************************************************************************)
(* OptimizedModel.  A pass is [ok, w, kv]; the workspace keeps what a      *)
(* failed pass wrote.                                                      *)
(***************************************************************************)
\* Append of layer l's new rows, member by member.  Layer 0 takes the blocks,
\* so a drained pool fails it at member bad (0: at none), after the members
\* before it have appended.
AppendMembers(kv, req, l, w, bad) ==
  [s \in Seqs |-> LET mine == {b \in 1..Len(req.caches) : req.caches[b] = s /\ (bad = 0 \/ b < bad)}
                  IN  IF mine = {} THEN kv[s]
                      ELSE LET b == CHOOSE b \in mine : TRUE
                               new == Rows([i \in 1..Span(req, b) |->
                                              <<w.buf["k"][req.cu[b] + i], w.buf["v"][req.cu[b] + i]>>])
                           IN  [kv[s] EXCEPT ![l] = @ \o new]]

\* Mutant: the block table's length is read before the append.
DecodeRowsEarlyLength(req, kvl, q, m) ==
  LET seen == kvl[req.caches[MemberOf(req, m)]] IN Attend(q, SubSeq(seen, 1, Len(seen) - 1))

\* Every member one token and the caches paged: the decode kernel walks the
\* block table to the length the cache has after the append.
DecodeRows(req, kvl, q, m) == Attend(q, kvl[req.caches[MemberOf(req, m)]])

\* Otherwise row t of a member sees the keys up to its own position.
VarlenRows(req, kvl, q, m) ==
  LET b == MemberOf(req, m)
      past == Len(kvl[req.caches[b]]) - Span(req, b)
  IN  Attend(q, SubSeq(kvl[req.caches[b]], 1, past + (m - req.cu[b])))

DecodePath(req) == paged /\ Total(req) = Len(req.caches)

AttendRows(w, req, kvl) ==
  Put(w, "ctx", Rows([m \in 1..Total(req) |->
                        IF DecodePath(req) THEN DecodeRows(req, kvl, w.buf["q"][m], m)
                        ELSE VarlenRows(req, kvl, w.buf["q"][m], m)]))

\* The pass after the appends of layer l, kv1, were made or failed.
Attended(w, req, l, kv1, bad) ==
  IF bad # 0 THEN [ok |-> FALSE, w |-> w, kv |-> kv1]
  ELSE [ok |-> TRUE, w |-> AttendRows(w, req, [s \in Seqs |-> kv1[s][l]]), kv |-> kv1]

BatchedAttention(w, kv, req, l, bad) == Attended(w, req, l, AppendMembers(kv, req, l, w, bad), bad)

\* A layer's kernels in order: each reads rows of from (and with) and writes rows of to.
Kernel(name, from, with, to) == [name |-> name, from |-> from, with |-> with, to |-> to]
BeforeAttention ==
  <<Kernel("attn_norm", "x", "x", "h"), Kernel("q_proj", "h", "h", "q"), Kernel("k_proj", "h", "h", "k"),
    Kernel("v_proj", "h", "h", "v")>>
AfterAttention ==
  <<Kernel("o_proj", "ctx", "ctx", "tmp"), Kernel("add", "x", "tmp", "r"), Kernel("mlp_norm", "r", "r", "h"),
    Kernel("gate_proj", "h", "h", "gate"), Kernel("up_proj", "h", "h", "up"), Kernel("silu_mul", "gate", "up", "gate"),
    Kernel("down_proj", "gate", "gate", "tmp"), Kernel("add", "r", "tmp", "x")>>

\* What a kernel writes to a row of position pos, from the rows a and b it reads.
Computed(name, l, a, b, pos) ==
  CASE name = "add" -> Add(a, b)
    [] name = "silu_mul" -> SiluMul(a, b)
    [] name \in {"q_proj", "k_proj"} -> Rotate(Apply(name, l, a), pos)
    [] OTHER -> Apply(name, l, a)
RunKernel(w, req, l, k) ==
  Put(w, k.to, Rows([i \in 1..Total(req) |->
                       Computed(k.name, l, w.buf[k.from][i], w.buf[k.with][i], req.positions[i])]))
RunKernels(w, req, l, kernels) ==
  LET after[i \in 0..Len(kernels)] == IF i = 0 THEN w ELSE RunKernel(after[i - 1], req, l, kernels[i])
  IN  after[Len(kernels)]

FinishLayer(pass, req, l) ==
  IF pass.ok THEN [pass EXCEPT !.w = RunKernels(@, req, l, AfterAttention)] ELSE pass
ForwardLayer(pass, req, l, bad) ==
  IF pass.ok
  THEN FinishLayer(BatchedAttention(RunKernels(pass.w, req, l, BeforeAttention), pass.kv, req, l, bad), req, l)
  ELSE pass

Embedded(w, req) == Put(w, "x", Rows([i \in 1..Total(req) |-> Emb(req.tokens[i])]))
FinalNorm(pass, req) ==
  IF pass.ok THEN [pass EXCEPT !.w = RunKernel(@, req, -1, Kernel("final_norm", "x", "x", "h"))] ELSE pass
RunStack(w, kv, req, bad) ==
  LET start == [ok |-> TRUE, w |-> Embedded(EnsureCapacity(w, Total(req)), req), kv |-> kv]
      after[n \in 0..NumLayers] ==
        IF n = 0 THEN start ELSE ForwardLayer(after[n - 1], req, n - 1, IF n = 1 THEN bad ELSE 0)
  IN  FinalNorm(after[NumLayers], req)

\* kLast gathers each member's last row into tmp and projects that; kAll
\* projects every row.  A lone sequence slices h.
LastRow(w, req, b) == w.buf["h"][req.cu[b + 1]]
Gathered(w, req) ==
  IF req.batched THEN Put(w, "tmp", Rows([b \in 1..Len(req.caches) |-> LastRow(w, req, b)])) ELSE w
Projected(w, kv, req) ==
  [ok |-> TRUE, w |-> w, kv |-> kv,
   logits |-> Rows([b \in 1..Len(req.caches) |->
                      LmHead(IF req.batched THEN w.buf["tmp"][b] ELSE LastRow(w, req, b))]),
   all |-> Rows([m \in 1..Total(req) |-> LmHead(w.buf["h"][m])])]
Refused(w, kv) == [ok |-> FALSE, w |-> w, kv |-> kv, logits |-> <<>>, all |-> <<>>]
LogitsOf(pass, req) == IF pass.ok THEN Projected(Gathered(pass.w, req), pass.kv, req) ELSE Refused(pass.w, pass.kv)

\* ForwardBatched and forward.
Forward(w, kv, req, bad) ==
  IF ValidateBatched(req, kv) THEN LogitsOf(RunStack(w, kv, req, bad), req) ELSE Refused(w, kv)

-----------------------------------------------------------------------------
(***************************************************************************)
(* ReferenceModel: a fresh tensor for every intermediate, one member at a  *)
(* time.  Each operator stands for a module's forward.                     *)
(***************************************************************************)
RefKv(l, x, positions) ==
  Rows([i \in 1..Len(x) |-> <<Rotate(Apply("k_proj", l, x[i]), positions[i]), Apply("v_proj", l, x[i])>>])
RefContext(l, x, positions, seen, i) ==
  Attend(Rotate(Apply("q_proj", l, x[i]), positions[i]), SubSeq(seen, 1, Len(seen) - Len(x) + i))
RefAttention(l, x, positions, seen) ==
  Rows([i \in 1..Len(x) |-> Apply("o_proj", l, RefContext(l, x, positions, seen, i))])

RefMlp(l, x) ==
  Rows([i \in 1..Len(x) |->
          Apply("down_proj", l, SiluMul(Apply("gate_proj", l, x[i]), Apply("up_proj", l, x[i])))])

RefNorm(name, l, x) == Rows([i \in 1..Len(x) |-> Apply(name, l, x[i])])
RefAdd(x, y) == Rows([i \in 1..Len(x) |-> Add(x[i], y[i])])
RefMlpBlock(l, r) == RefAdd(r, RefMlp(l, RefNorm("mlp_norm", l, r)))
\* h is the normed x; the attention sees the cache with h's rows appended.
RefAttended(st, l, x, h, positions, seen) ==
  [x |-> RefMlpBlock(l, RefAdd(x, RefAttention(l, h, positions, seen))), cache |-> [st.cache EXCEPT ![l] = seen]]
RefNormed(st, l, h, positions) == RefAttended(st, l, st.x, h, positions, st.cache[l] \o RefKv(l, h, positions))
RefDecoderLayer(st, l, positions) == RefNormed(st, l, RefNorm("attn_norm", l, st.x), positions)

\* The single-sequence forward, over cache [layer -> rows].
RefHead(st) ==
  [cache |-> st.cache, all |-> Rows([i \in 1..Len(st.x) |-> LmHead(Apply("final_norm", -1, st.x[i]))])]
RefForward(tokens, positions, cache) ==
  LET start == [x |-> Rows([i \in 1..Len(tokens) |-> Emb(tokens[i])]), cache |-> cache]
      after[n \in 0..NumLayers] == IF n = 0 THEN start ELSE RefDecoderLayer(after[n - 1], n - 1, positions)
  IN  RefHead(after[NumLayers])

\* ForwardBatched: each member alone, the logits copied to its rows.  The
\* members before a failing one keep what they appended.
RefRuns(kv, req, n) ==
  Rows([b \in 1..n |-> RefForward(SubSeq(req.tokens, req.cu[b] + 1, req.cu[b + 1]),
                                  SubSeq(req.positions, req.cu[b] + 1, req.cu[b + 1]), kv[req.caches[b]])])
RefCaches(kv, req, runs) ==
  [s \in Seqs |-> IF \E b \in DOMAIN runs : req.caches[b] = s
                  THEN runs[CHOOSE b \in DOMAIN runs : req.caches[b] = s].cache ELSE kv[s]]
RefCopied(kv, req, runs) ==
  IF Len(runs) < Len(req.caches) THEN [ok |-> FALSE, kv |-> RefCaches(kv, req, runs), logits |-> <<>>, all |-> <<>>]
  ELSE [ok |-> TRUE, kv |-> RefCaches(kv, req, runs), logits |-> Rows([b \in DOMAIN runs |-> Last(runs[b].all)]),
        all |-> Rows([m \in 1..Total(req) |->
                        LET b == MemberOf(req, m) IN runs[b].all[m - req.cu[b]]])]
RefForwardBatched(kv, req, bad) ==
  IF ValidateBatched(req, kv)
  THEN RefCopied(kv, req, RefRuns(kv, req, IF bad = 0 THEN Len(req.caches) ELSE bad - 1))
  ELSE [ok |-> FALSE, kv |-> kv, logits |-> <<>>, all |-> <<>>]

-----------------------------------------------------------------------------
VARIABLES
  w,           \* OptimizedModel's workspace
  kv,          \* kv[s][l]: the <<k, v>> rows of sequence s, optimized backend
  refkv,       \* the same on the reference backend
  gen,         \* generated_ids of each sequence
  failed,      \* sequences in kFailed
  out,         \* what the last forward and sample returned, on both backends
  pend, pre,   \* RecoverForwardFailure: members still to re-run, their lengths
  faults       \* drained appends and non-finite rows so far

vars == <<paged, w, kv, refkv, gen, failed, out, pend, pre, faults>>

Empty == [l \in Layers |-> <<>>]
Nothing == [logits |-> <<>>, ref |-> <<>>, all |-> <<>>, refAll |-> <<>>, rows |-> <<>>]
Length(s) == Len(kv[s][0])
Context(s) == Prompt[s] \o gen[s]
Live(s) == s \notin failed /\ Len(gen[s]) < MaxNew

Init ==
  /\ paged \in BOOLEAN
  /\ w = NoWorkspace /\ kv = [s \in Seqs |-> Empty] /\ refkv = kv
  /\ gen = [s \in Seqs |-> <<>>] /\ failed = {} /\ out = Nothing
  /\ pend = <<>> /\ pre = [s \in Seqs |-> 0] /\ faults = 0

\* Mutant: the failed rows are squeezed out before the results are read back.
SampleRowSqueezed(req, logits, bad, b) ==
  [seq |-> req.caches[b], logits |-> logits[b - Cardinality({c \in bad : c < b})],
   sampler |-> req.caches[b], step |-> Len(gen[req.caches[b]]), ok |-> b \notin bad]

\* BatchedSampler::Sample: row b is drawn from its own logits with its own
\* sampler, at the step its history's length gives; the rows of bad fail alone.
SampleRow(req, logits, bad, b) ==
  [seq |-> req.caches[b], logits |-> logits[b], sampler |-> req.caches[b],
   step |-> Len(gen[req.caches[b]]), ok |-> b \notin bad]
SampleRows(req, logits, bad) == Rows([b \in 1..Len(req.caches) |-> SampleRow(req, logits, bad, b)])

Rejected(rows) == {rows[b].seq : b \in {b \in DOMAIN rows : ~rows[b].ok}}

\* DeliverSampled for the healthy rows; the others' sequences fail.  A failed
\* sequence's cache is released.
Deliver(res, ref, rows, tok) ==
  /\ out' = [logits |-> res.logits, ref |-> ref.logits, all |-> res.all, refAll |-> ref.all, rows |-> rows]
  /\ gen' = [s \in Seqs |-> IF \E b \in DOMAIN rows : rows[b].seq = s /\ rows[b].ok
                            THEN Append(gen[s], tok[s]) ELSE gen[s]]
  /\ failed' = failed \union Rejected(rows)
  /\ kv' = [s \in Seqs |-> IF s \in failed' THEN Empty ELSE res.kv[s]]
  /\ refkv' = [s \in Seqs |-> IF s \in failed' THEN Empty ELSE ref.kv[s]]

\* RunBatchPass over the members, feeding each feed[s]: the batch is delivered,
\* with the rows of bad failing alone, or it stops at member bad.
DeliverBatch(req, res, ref, bad, tok) ==
  /\ res.ok /\ w' = res.w
  /\ Deliver(res, ref, SampleRows(req, res.logits, bad), tok)
  /\ UNCHANGED <<pend, pre>>
AbandonBatch(req, res, ref) ==
  /\ w' = res.w /\ kv' = res.kv /\ refkv' = ref.kv
  /\ pend' = req.caches /\ pre' = [s \in Seqs |-> Length(s)]
  /\ out' = Nothing /\ UNCHANGED <<gen, failed>>
RunAssembled(req) ==
  \/ \E bad \in SUBSET DOMAIN req.caches, tok \in [Range(req.caches) -> Vocab] :
       /\ faults + Cardinality(bad) <= MaxFaults /\ faults' = faults + Cardinality(bad)
       /\ DeliverBatch(req, Forward(w, kv, req, 0), RefForwardBatched(refkv, req, 0), bad, tok)
  \/ \E bad \in DOMAIN req.caches :
       /\ faults < MaxFaults /\ faults' = faults + 1
       /\ AbandonBatch(req, Forward(w, kv, req, bad), RefForwardBatched(refkv, req, bad))
RunBatchPass(members, feed) == RunAssembled(Flatten(members, feed, kv))

Waiting == {s \in Seqs : Live(s) /\ Length(s) = 0}
Running == {s \in Seqs : Live(s) /\ Length(s) > 0}

Prefill ==
  /\ pend = <<>>
  /\ \E S \in (SUBSET Waiting) \ {{}} : \E members \in SetToSeqs(S) :
       RunBatchPass(members, [s \in Seqs |-> Context(s)])

Decode ==
  /\ pend = <<>> /\ Running # {}
  /\ \E members \in SetToSeqs(Running) :
       RunBatchPass(members, [s \in Seqs |-> SubSeq(gen[s], Len(gen[s]), Len(gen[s]))])

\* Mutant: a member is re-run on top of what the failed pass appended.
TruncateSkipped(caches, s, n) == caches

Truncate(caches, s, n) == [caches EXCEPT ![s] = [l \in DOMAIN @ |-> SubSeq(@[l], 1, n)]]

\* ExecuteAndDeliver: the rolled-back member alone, through the single path.
Feed(s) == IF pre[s] = 0 THEN Context(s) ELSE <<Last(gen[s])>>
AloneRequest(s, caches) == [Flatten(<<s>>, [z \in Seqs |-> Feed(s)], caches) EXCEPT !.batched = FALSE]
DeliverAlone(req, res, ref) ==
  /\ res.ok /\ w' = res.w
  /\ \E tok \in [Range(req.caches) -> Vocab] : Deliver(res, ref, SampleRows(req, res.logits, {}), tok)
ExecuteAndDeliver(req, caches, refCaches) ==
  DeliverAlone(req, Forward(w, caches, req, 0), RefForwardBatched(refCaches, req, 0))
RecoverFrom(s, caches, refCaches) == ExecuteAndDeliver(AloneRequest(s, caches), caches, refCaches)
RecoverOk ==
  /\ pend # <<>>
  /\ RecoverFrom(Head(pend), Truncate(kv, Head(pend), pre[Head(pend)]), Truncate(refkv, Head(pend), pre[Head(pend)]))
  /\ pend' = Tail(pend) /\ UNCHANGED <<pre, faults>>

\* The member faults again, or the sole occupant finds no block: it fails.
RecoverFail ==
  /\ pend # <<>>
  /\ failed' = failed \union {Head(pend)}
  /\ kv' = [kv EXCEPT ![Head(pend)] = Empty] /\ refkv' = [refkv EXCEPT ![Head(pend)] = Empty]
  /\ pend' = Tail(pend) /\ out' = Nothing /\ UNCHANGED <<w, gen, pre, faults>>

\* PreemptSequence: the cache is dropped; the context is prefilled again later.
Preempt(s) ==
  /\ s \in Running \/ s \in Range(pend)
  /\ kv' = [kv EXCEPT ![s] = Empty] /\ refkv' = [refkv EXCEPT ![s] = Empty]
  /\ pend' = Erase(pend, {s})
  /\ out' = Nothing /\ UNCHANGED <<w, gen, failed, pre, faults>>

\* A request forward must refuse: an unknown id, a position past the table, a
\* member without tokens, more tokens than the cache holds.
BadRequests(s) ==
  LET ask(toks, base) == [tokens |-> toks, positions |-> Rows([t \in 1..Len(toks) |-> base + t - 1]),
                          cu |-> <<0, Len(toks)>>, caches |-> <<s>>, batched |-> TRUE]
  IN  {ask(<<VocabSize>>, Length(s)), ask(<<0>>, MaxPos), ask(<<>>, 0),
       ask(Rows([t \in 1..(Capacity - Length(s) + 1) |-> 0]), 0)}

Refuse(res, ref) == w' = res.w /\ kv' = res.kv /\ refkv' = ref.kv
Malformed ==
  /\ pend = <<>> /\ out # Nothing
  /\ \E s \in Running : \E req \in BadRequests(s) :
       Refuse(Forward(w, kv, req, 0), RefForwardBatched(refkv, req, 0))
  /\ out' = Nothing /\ UNCHANGED <<gen, failed, pend, pre, faults>>

Next ==
  /\ \/ Prefill \/ Decode \/ RecoverOk \/ RecoverFail \/ Malformed
     \/ \E s \in Seqs : Preempt(s)
  /\ UNCHANGED paged

Spec == Init /\ [][Next]_vars

-----------------------------------------------------------------------------
Positions(toks) == Rows([i \in 1..Len(toks) |-> i - 1])
Alone(toks) == RefForward(toks, Positions(toks), Empty)

(***************************************************************************)
(* Whatever the workspace holds from earlier and failed passes, and through *)
(* whichever attention path, the optimized backend returns the logits, last *)
(* rows and all rows, that the reference backend returns for the same       *)
(* request, and between passes both hold the same caches.                   *)
(***************************************************************************)
OptimizedMatchesReference ==
  /\ out.logits = out.ref /\ out.all = out.refAll
  /\ pend = <<>> => kv = refkv

(***************************************************************************)
(* Between passes a live sequence's cache is empty, or holds exactly what a *)
(* lone prefill of all but its newest token would have written: batching,   *)
(* rollback, retry, preemption and refused requests leave no trace.         *)
(***************************************************************************)
CacheIsHistory ==
  pend = <<>> =>
    \A s \in Seqs : Length(s) > 0 =>
      /\ Length(s) = Len(Context(s)) - 1
      /\ kv[s] = Alone(SubSeq(Context(s), 1, Length(s))).cache

(***************************************************************************)
(* Each row the sampler saw belongs to its sequence: the logits are those a *)
(* lone prefill of the sequence's context gives, the sampler is its own and *)
(* the step is the number of tokens it had.  A failed row gives its         *)
(* sequence no token, and every other row of the batch gives one.           *)
(***************************************************************************)
RowsMeetSequences ==
  \A b \in DOMAIN out.rows :
    LET row == out.rows[b]
        before == Prompt[row.seq] \o SubSeq(gen[row.seq], 1, row.step)
    IN  /\ row.sampler = row.seq
        /\ row.logits = Last(Alone(before).all)
        /\ Len(gen[row.seq]) = row.step + (IF row.ok THEN 1 ELSE 0)
        /\ ~row.ok => row.seq \in failed
=============================================================================
