------------------------------ MODULE MCKernels ------------------------------
(* Bounded kernel calls: shapes on both sides of every scaled block size,   *)
(* every instruction set the dispatch can pick, scattered block tables.     *)
EXTENDS Integers, Sequences, FiniteSets
LOCAL INSTANCE SequencesExt

Ker == INSTANCE AttentionKernels

-----------------------------------------------------------------------------
(* Dispatch: the forced and the host's instruction set, and a kernel's      *)
(* table; the calls below run the variant it picks.                         *)
Forces == {"", "scalar", "neon", "avx2", "sse9"}
Hosts == {"scalar", "neon", "avx2"}
Tables == {{"scalar"}, {"scalar", "avx2"}, {"scalar", "neon"}, {"scalar", "neon", "avx2"}}
IsaCalls == {[kind |-> "isa", force |-> f, host |-> h, table |-> t] : f \in Forces, h \in Hosts, t \in Tables}
Isas == {Ker!Select(t, Ker!ResolveIsa(f, h)) : f \in {"", "scalar"}, h \in Hosts, t \in Tables}

GemmCalls ==
  {[kind |-> "gemm", isa |-> i, m |-> m, k |-> k, n |-> n, bias |-> b] :
     i \in Isas, m \in {1, 2, 3, 4, 7}, k \in {1, 2, 5}, n \in {1, 2, 3, 5, 9}, b \in BOOLEAN}

Tensors(dims, dtypes) == {[dims |-> d, dtype |-> t, contiguous |-> c] : d \in dims, t \in dtypes, c \in BOOLEAN}
Undefined == [dims |-> <<>>, dtype |-> "undefined", contiguous |-> TRUE]
ForwardCalls ==
  {[kind |-> "forward", x |-> x, y |-> y, ids |-> i] :
     x \in Tensors({<<2>>, <<0, 2>>, <<1, 2>>, <<2, 2>>, <<2, 3>>}, {"float32", "float16"}) \union {Undefined},
     y \in Tensors({<<2>>, <<0, 3>>, <<1, 3>>, <<2, 3>>, <<2, 2>>, <<0, 2>>}, {"float32", "float16"}) \union {Undefined},
     i \in {<<>>, <<0>>, <<0, 2>>, <<3, 1>>, <<-1, 0>>}}
EmbeddingCalls ==
  {[kind |-> "embedding", vocab |-> v, half |-> h, e |-> e, ids |-> i] :
     v \in {3, 4, 5}, h \in BOOLEAN, e \in 1..5, i \in UNION {[1..n -> 0..2] : n \in 1..2}}

RopeCalls ==
  {[kind |-> "rope", isa |-> i, t |-> t, hx |-> h, d |-> d, positions |-> p] :
     i \in Isas, t \in {1, 2}, h \in {1, 2}, d \in {2, 4, 6, 10, 14}, p \in {<<0, 1>>, <<5, 6>>, <<3, 1>>}}

Floats == {<<-1, TRUE>>, <<0, TRUE>>, <<0, FALSE>>, <<1, FALSE>>}
ReduceCalls ==
  {[kind |-> "reduce", x |-> x, w |-> w] : x \in UNION {[1..n -> Floats] : n \in 1..5}, w \in {2, 4}}
  \union {[kind |-> "reduce", x |-> x \o y, w |-> w] :
            x \in [1..4 -> {<<0, TRUE>>, <<0, FALSE>>}], y \in [1..5 -> {<<0, TRUE>>, <<0, FALSE>>}], w \in {2, 4}}

-----------------------------------------------------------------------------
(* Copies and attention.                                                    *)
BlockTables == {<<0, 1, 2, 3, 4, 5, 6, 7, 8>>, <<4, 0, 8, 2, 6, 1, 7, 5, 3>>, <<8, 7, 6, 5, 4, 3, 2, 1, 0>>}
CopyCalls ==
  {[kind |-> "copies", table |-> t, bs |-> b, length |-> l, kv_heads |-> h] :
     t \in BlockTables, b \in {1, 2, 3, 4}, l \in 0..9, h \in {1, 2, 3}}
Heads == {<<1, 1>>, <<2, 1>>, <<3, 1>>, <<4, 2>>, <<5, 1>>}
Patterns == {[i \in 0..4 |-> 1], [i \in 0..4 |-> i % 4], [i \in 0..4 |-> 3 - (i % 4)], [i \in 0..4 |-> IF i = 2 THEN 3 ELSE 0]}
PrefillCalls ==
  {[kind |-> "prefill", f |-> f, t |-> t, heads |-> h, l |-> t + past] :
     f \in Patterns, t \in 1..5, h \in Heads, past \in {0, 1, 3, 4}}
VarlenCalls ==
  {[kind |-> "varlen", f |-> f, spans |-> s, heads |-> h] :
     f \in Patterns, s \in UNION {[1..n -> {<<1, 1>>, <<1, 6>>, <<2, 2>>, <<3, 5>>, <<5, 5>>}] : n \in 1..3}, h \in {<<2, 1>>, <<4, 2>>}}
DecodeCalls ==
  {[kind |-> "decode", f |-> f, tables |-> t, lengths |-> l, heads |-> h, bs |-> b] :
     f \in Patterns, h \in Heads, b \in {1, 2, 4},
     t \in {<<<<0, 1, 2, 3, 4, 5, 6, 7, 8>>, <<9, 10, 11, 12, 13, 14, 15, 16, 17>>>>,
            <<<<17, 3, 9, 0, 12, 5, 8, 1, 14>>, <<2, 16, 4, 11, 6, 13, 7, 15, 10>>>>},
     l \in {<<1, 9>>, <<4, 5>>, <<8, 3>>, <<6, 7>>}}

KernelCalls ==
  IsaCalls \union GemmCalls \union ForwardCalls \union EmbeddingCalls \union RopeCalls \union ReduceCalls
  \union CopyCalls \union PrefillCalls \union VarlenCalls \union DecodeCalls
KernelKinds == {"isa", "gemm", "forward", "embedding", "rope", "reduce", "copies", "prefill", "varlen", "decode"}

-----------------------------------------------------------------------------
\* What the dispatched kernel returns or stores.
KernelOutput(c) ==
  CASE c.kind = "isa" -> <<Ker!ResolveIsa(c.force, c.host), Ker!Select(c.table, Ker!ResolveIsa(c.force, c.host))>>
    [] c.kind = "gemm" -> Ker!PackedGemm(c.isa, c.m, c.k, c.n, c.bias)
    [] c.kind = "forward" -> [linear |-> Ker!PackedLinearForward(3, 2, c.x, c.y), embedding |-> Ker!OptimizedEmbeddingForward(3, 2, c.ids, c.y)]
    [] c.kind = "embedding" -> Ker!GatherPacked(Ker!PackWeightPanels(c.vocab, c.e), c.half, c.e, c.ids)
    [] c.kind = "rope" -> Ker!RopeApplyF32(c.isa, c.t, c.hx, c.d, c.positions)
    [] c.kind = "reduce" -> [sum |-> Ker!SumVector(Len(c.x)), max |-> Ker!MaxVector(c.x, c.w)]
    [] c.kind = "copies" ->
         LET rows == [i \in 0..(c.length * c.kv_heads - 1) |-> <<i>>]
             slab == Ker!Memory(Ker!KvScatterF32(rows, Ker!Slots(c.table, c.bs, c.length), c.kv_heads, c.bs))
         IN Ker!KvGatherF32(slab, c.table, c.bs, c.length, c.kv_heads)
    [] c.kind = "prefill" ->
         Ker!PrefillAttentionF32(Ker!Queries(0, c.t, c.heads[1]), Ker!Contiguous(0, c.heads[2], c.l), c.f, c.t, c.heads[1], c.heads[2], c.l)
    [] c.kind = "varlen" ->
         Ker!PrefillAttentionVarlenF32(Ker!RaggedQueries(c.spans, c.heads[1]), Ker!CuSeqlens(c.spans),
           [b \in DOMAIN c.spans |-> Ker!Contiguous(b, c.heads[2], c.spans[b][2])], c.f,
           [b \in DOMAIN c.spans |-> c.spans[b][2]], c.heads[1], c.heads[2])
    [] c.kind = "decode" ->
         Ker!PagedDecodeAttentionBatchedF32(Ker!BatchQueries(Len(c.tables), c.heads[1]), Ker!SharedSlab(c.tables, c.lengths, c.heads[2], c.bs),
           c.tables, c.f, c.lengths, c.heads[1], c.heads[2], c.bs)

\* A forced instruction set runs or stops the program; what runs is one the kernel has and the host can execute.
IsaAgrees(force, host, table, out) ==
  out[1] # Ker!Abort =>
    /\ out[2] \in table \intersect {"scalar", host}
    /\ force # "" /\ force \in table => out[2] = force
    /\ force = "" /\ host \in table => out[2] = host

\* Each kernel's agreement with its reference, for one call and its output.
KernelSound(c, out) ==
  CASE c.kind = "isa" -> IsaAgrees(c.force, c.host, c.table, out)
    [] c.kind = "gemm" -> Ker!GemmAgrees(c.m, c.k, c.n, c.bias, out)
    [] c.kind = "forward" -> Ker!ForwardsAgree(3, 2, c.ids, c.x, c.y, out)
    [] c.kind = "embedding" -> Ker!EmbeddingAgrees(c.e, c.ids, out)
    [] c.kind = "rope" -> Ker!RopeAgrees(c.t, c.hx, c.d, c.positions, out)
    [] c.kind = "reduce" -> Ker!ReduceAgrees(c.x, out)
    [] c.kind = "copies" -> Ker!CopiesAgree(c.length, c.kv_heads, out)
    [] c.kind = "prefill" -> Ker!PrefillAgrees(c.f, c.t, c.heads[1], c.heads[2], c.l, out)
    [] c.kind = "varlen" -> Ker!VarlenAgrees(c.f, c.spans, c.heads[1], c.heads[2], out)
    [] c.kind = "decode" -> Ker!DecodeAgrees(c.f, c.tables, c.lengths, c.heads[1], c.heads[2], c.bs, out)
=============================================================================
