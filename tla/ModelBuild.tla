----------------------------- MODULE ModelBuild -----------------------------
(***************************************************************************)
(* BuildModel: the registry, and the two backends built from one table of  *)
(* weights, each step the status it returns.  A table maps canonical names *)
(* to [dims, dtype, contiguous, data]; a caller may build one without the  *)
(* loader, so every check is here.  Allocation does not fail.              *)
(***************************************************************************)
EXTENDS Loader
LOCAL INSTANCE SequencesExt
LOCAL INSTANCE FiniteSetsExt

-----------------------------------------------------------------------------
(* modules.cpp, packed_linear.cpp, optimized_embedding.cpp: construction.   *)
IsSupportedFloat(dtype) == dtype \in {"float32", "float16", "bfloat16"}
CheckedTensor(w, rank) ==
  Require(Len(w.dims) = rank, Invalid)
  && (Require(w.contiguous, Invalid) && Require(IsSupportedFloat(w.dtype), Invalid))
OutFeatures(w) == w.dims[1]
InFeatures(w) == w.dims[2]

\* bias is <<>> or <<tensor>>.
ReferenceLinearCreate(weight, bias) ==
  CheckedTensor(weight, 2)
  && IF bias = <<>> THEN Ok
     ELSE CheckedTensor(bias[1], 1) && Require(bias[1].dims[1] = OutFeatures(weight), Invalid)
PackedLinearCreate(weight, bias) == ReferenceLinearCreate(weight, bias)
RmsNormCreate(weight) == CheckedTensor(weight, 1)
EmbeddingCreate(weight) == CheckedTensor(weight, 2)
FromTable(weight) == CheckedTensor(weight, 2)

\* Floats are small integers; these stand for infinity and for NaN, which is not above zero.
FloatInf == 1000000
FloatNan == -1000000
Positive(x) == x > 0

\* The rope_scaling an inverse frequency gets, for its wavelength 2 pi / f: a multiplier
\* <<numerator, denominator>>.
Llama3Multiplier(s, wavelen) ==
  LET old == s.original_max_position_embeddings
      low == s.low_freq_factor
      high == s.high_freq_factor
      below == wavelen * high < old
      above == wavelen * low > old
      span == wavelen * (high - low)
      smooth == old - low * wavelen      \* over span
  IN IF ~below /\ ~above THEN <<(span - smooth) + s.factor * smooth, s.factor * span>>
     ELSE IF above THEN <<1, s.factor>> ELSE <<1, 1>>
ApplyRopeScaling(scaling) ==
  IF scaling = <<>> \/ scaling[1].rope_type \in {"", "default"} THEN Ok
  ELSE LET s == scaling[1]
       IN CASE s.rope_type = "linear" -> Require(Positive(s.factor), Invalid)
            [] s.rope_type = "llama3" ->
                 Require(Positive(s.factor), Invalid) && (Require(s.high_freq_factor # s.low_freq_factor, Invalid)
                 && Require(s.original_max_position_embeddings > 0, Invalid))
            [] OTHER -> Unimplemented
RopeMultiplier(scaling, wavelen) ==
  IF scaling = <<>> \/ scaling[1].rope_type \in {"", "default"} THEN <<1, 1>>
  ELSE IF scaling[1].rope_type = "linear" THEN <<1, scaling[1].factor>> ELSE Llama3Multiplier(scaling[1], wavelen)
RopeCreate(c) ==
  Require(c.head_dim >= 2 /\ c.head_dim % 2 = 0, Invalid)
  && (Require(Positive(c.rope_theta) /\ c.rope_theta # FloatInf, Invalid)
  && (Require(c.max_position_embeddings >= 1, Invalid) && ApplyRopeScaling(c.rope_scaling)))

AttentionCreate(q, k, v, o, c) ==
  LET q_rows == c.num_heads * c.head_dim
      kv_rows == c.num_kv_heads * c.head_dim
      hidden == InFeatures(q)
  IN Require(c.num_heads >= 1 /\ c.num_kv_heads >= 1 /\ c.head_dim >= 1, Invalid)
     && (Require(c.num_heads % c.num_kv_heads = 0, Invalid)
     && Require(/\ OutFeatures(q) = q_rows
                /\ OutFeatures(k) = kv_rows /\ OutFeatures(v) = kv_rows
                /\ InFeatures(k) = hidden /\ InFeatures(v) = hidden
                /\ InFeatures(o) = q_rows /\ OutFeatures(o) = hidden, Invalid))
MlpCreate(gate, up, down) ==
  Require(/\ InFeatures(up) = InFeatures(gate) /\ OutFeatures(up) = OutFeatures(gate)
          /\ InFeatures(down) = OutFeatures(gate) /\ OutFeatures(down) = InFeatures(gate), Invalid)
DecoderLayerCreate(attn_norm, hidden, mlp_norm, mlp_hidden) ==
  Require(attn_norm.dims[1] = hidden /\ mlp_norm.dims[1] = hidden /\ mlp_hidden = hidden, Invalid)

-----------------------------------------------------------------------------
(* The backends.  Build(name) is a step that takes a weight: a missing one   *)
(* ends the build; no name is taken twice, so the erasure is not observed.   *)
TakeWeight(weights, name) == Require(name \in DOMAIN weights, Invalid)
OptionalWeight(weights, name) == IF name \in DOMAIN weights THEN <<weights[name]>> ELSE <<>>
BiasName(layer, part) == <<layer, CASE part = "q" -> "q.bias" [] part = "k" -> "k.bias" [] part = "v" -> "v.bias" [] part = "o" -> "o.bias">>
Bias(weights, layer, part, has_bias) == IF has_bias THEN OptionalWeight(weights, BiasName(layer, part)) ELSE <<>>

BuildLinear(weights, name, bias) == TakeWeight(weights, name) && ReferenceLinearCreate(weights[name], bias)
BuildNorm(weights, name) == TakeWeight(weights, name) && RmsNormCreate(weights[name])
ReferenceLayer(weights, c, l) ==
  LET w(part) == weights[<<l, part>>]
      proj(part) == BuildLinear(weights, <<l, part>>, Bias(weights, l, part, c.attention_bias))
      plain(part) == BuildLinear(weights, <<l, part>>, <<>>)
  IN BuildNorm(weights, <<l, "attn_norm">>)
     && (proj("q") && (proj("k") && (proj("v") && (proj("o") && (RopeCreate(c)
     && (AttentionCreate(w("q"), w("k"), w("v"), w("o"), c) && (BuildNorm(weights, <<l, "mlp_norm">>)
     && (plain("gate") && (plain("up") && (plain("down") && (MlpCreate(w("gate"), w("up"), w("down"))
     && DecoderLayerCreate(w("attn_norm"), InFeatures(w("q")), w("mlp_norm"), InFeatures(w("gate"))))))))))))))
ReferenceCreate(weights, c) ==
  (TakeWeight(weights, <<"embed_tokens">>) && EmbeddingCreate(weights[<<"embed_tokens">>]))
  && (BuildNorm(weights, <<"final_norm">>)
  && (BuildLinear(weights, <<"lm_head">>, <<>>)
  && FirstFailure([l \in 1..c.num_layers |-> ReferenceLayer(weights, c, l - 1)])))

BuildPacked(weights, name, bias) == TakeWeight(weights, name) && PackedLinearCreate(weights[name], bias)
\* The type is only what ops::cast accepts.
BuildNormScale(weights, name) ==
  TakeWeight(weights, name)
  && (Require(Len(weights[name].dims) = 1, Invalid) && (Require(weights[name].contiguous, Invalid)
  && Require(is_floating_point(weights[name].dtype) \/ is_integral(weights[name].dtype), Invalid)))
\* The layer's projections must agree; the norms and the k and v inputs are not compared.
LayerShapes(w(_), c) ==
  LET e == InFeatures(w("q"))
      q_out == c.num_heads * c.head_dim
      kv_out == c.num_kv_heads * c.head_dim
  IN Require(/\ OutFeatures(w("q")) = q_out
             /\ OutFeatures(w("k")) = kv_out /\ OutFeatures(w("v")) = kv_out
             /\ InFeatures(w("o")) = q_out /\ OutFeatures(w("o")) = e
             /\ InFeatures(w("gate")) = e /\ InFeatures(w("up")) = e
             /\ OutFeatures(w("gate")) = OutFeatures(w("up"))
             /\ InFeatures(w("down")) = OutFeatures(w("gate")) /\ OutFeatures(w("down")) = e, Invalid)
OptimizedLayer(weights, c, l) ==
  LET w(part) == weights[<<l, part>>]
      proj(part) == BuildPacked(weights, <<l, part>>, Bias(weights, l, part, c.attention_bias))
      plain(part) == BuildPacked(weights, <<l, part>>, <<>>)
  IN BuildNormScale(weights, <<l, "attn_norm">>)
     && (proj("q") && (proj("k") && (proj("v") && (proj("o") && (BuildNormScale(weights, <<l, "mlp_norm">>)
     && (plain("gate") && (plain("up") && (plain("down") && LayerShapes(w, c)))))))))
\* A tied embedding shares the packed lm_head, and the table's own entry is dropped unread.
EmbeddingSource(weights, c) ==
  IF c.tie_word_embeddings THEN Ok
  ELSE TakeWeight(weights, <<"embed_tokens">>) && FromTable(weights[<<"embed_tokens">>])
OptimizedCreate(weights, c) ==
  BuildNormScale(weights, <<"final_norm">>)
  && (BuildPacked(weights, <<"lm_head">>, <<>>)
  && (EmbeddingSource(weights, c)
  && (RopeCreate(c) && FirstFailure([l \in 1..c.num_layers |-> OptimizedLayer(weights, c, l - 1)]))))
\* The buffers behind the embedding and the lm_head: each one's source bytes.
EmbeddingData(weights, c, backend) ==
  IF backend = "optimized" /\ c.tie_word_embeddings THEN weights[<<"lm_head">>].data ELSE weights[<<"embed_tokens">>].data

-----------------------------------------------------------------------------
(* registry.cpp: builders maps architecture names; the built-in ones serve  *)
(* both families.                                                           *)
BuiltIn == {"LlamaForCausalLM", "Qwen2ForCausalLM"}
RegisterArchitecture(builders, name) ==
  IF name = "" THEN <<Invalid, builders>>
  ELSE IF name \in builders THEN <<"AlreadyExists", builders>> ELSE <<Ok, builders \union {name}>>
BuildFamily(weights, c, backend) ==
  IF backend = "optimized" THEN OptimizedCreate(weights, c) ELSE ReferenceCreate(weights, c)
BuildModel(builders, weights, c, backend) ==
  Require(c.architecture_name \in builders, Unimplemented) && BuildFamily(weights, c, backend)

-----------------------------------------------------------------------------
\* A model the loader accepts builds on both backends or on neither, and only its RoPE parameters
\* can refuse it; both read the embedding from the same bytes.
BuildsAlike(loaded) ==
  LET ref == BuildModel(BuiltIn, loaded.weights, loaded.config, "reference")
      opt == BuildModel(BuiltIn, loaded.weights, loaded.config, "optimized")
  IN /\ ref = opt /\ ref = RopeCreate(loaded.config)
     /\ EmbeddingData(loaded.weights, loaded.config, "reference") = EmbeddingData(loaded.weights, loaded.config, "optimized")
\* A table built without the loader is never refused by the optimized backend alone.
OptimizedAcceptsMore(weights, c) == ReferenceCreate(weights, c) = Ok => OptimizedCreate(weights, c) = Ok
\* Scaling never raises a frequency, nor reorders two of them (llama3 factors as HF gives them).
RopeKeepsOrder(c, wavelens) ==
  RopeCreate(c) = Ok =>
    \A a, b \in wavelens :
      LET ma == RopeMultiplier(c.rope_scaling, a)
          mb == RopeMultiplier(c.rope_scaling, b)
      IN /\ ma[1] <= ma[2] /\ ma[1] > 0
         /\ a < b => ma[1] * mb[2] * b >= mb[1] * ma[2] * a
=============================================================================
