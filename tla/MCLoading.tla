------------------------------ MODULE MCLoading ------------------------------
(* Bounded inputs of the model files: configs, safetensors layouts, model    *)
(* directories, weight tables and command lines.                             *)
EXTENDS Integers, Sequences, FiniteSets
LOCAL INSTANCE SequencesExt
LOCAL INSTANCE Functions
LOCAL INSTANCE TLC

Cfg == INSTANCE ModelConfig
Bld == INSTANCE ModelBuild
Cmd == INSTANCE GenerateCommand

-----------------------------------------------------------------------------
(* config.json: a good one, every one-field deviation, and some two-field.  *)
Num(n) == Cfg!Num(n)
Root(arch, extra) ==
  extra @@ [architectures |-> Cfg!Arr(<<Cfg!Str(arch)>>), hidden_size |-> Num(2), intermediate_size |-> Num(1),
            num_hidden_layers |-> Num(1), num_attention_heads |-> Num(1), vocab_size |-> Num(2), max_position_embeddings |-> Num(4)]
Scaling(type, factor, low, high, old) ==
  Cfg!Obj([rope_type |-> Cfg!Str(type), factor |-> factor, low_freq_factor |-> Num(low), high_freq_factor |-> Num(high),
           original_max_position_embeddings |-> Num(old)])
Nodes == {Cfg!Null, Cfg!Bool(TRUE), Num(0), Num(1), Num(2), Num(3), Num(-1), Num(101), Num(1001), Cfg!Float(2), Cfg!Float(0), Cfg!Str("float16"), Cfg!Str("x"),
          Cfg!Arr(<<>>), Cfg!Arr(<<Num(1)>>), Cfg!Arr(<<Num(2)>>), Cfg!Arr(<<Num(0), Cfg!Str("x")>>), Cfg!Obj([type |-> Cfg!Str("linear")]), Cfg!Obj([factor |-> Num(2)])}
Fields == {"architectures", "hidden_size", "intermediate_size", "num_hidden_layers", "num_attention_heads", "vocab_size",
           "max_position_embeddings", "num_key_value_heads", "head_dim", "rope_theta", "rms_norm_eps", "tie_word_embeddings",
           "attention_bias", "torch_dtype", "eos_token_id", "rope_scaling"}
GoodRoot == Root("LlamaForCausalLM", [f \in {} |-> 0])
Without(root, f) == [g \in DOMAIN root \ {f} |-> root[g]]
ConfigRoots ==
  {Cfg!Obj(Root(a, f :> n)) : a \in {"LlamaForCausalLM", "Qwen2ForCausalLM", "GptForCausalLM"}, f \in Fields, n \in Nodes}
  \union {Cfg!Obj(Without(GoodRoot, f)) : f \in Fields} \union {Num(1), Cfg!Obj(Root("x", "architectures" :> Cfg!Arr(<<Num(1)>>)))}
  \union {Cfg!Obj(Root("LlamaForCausalLM", [num_attention_heads |-> Num(h), num_key_value_heads |-> Num(k), hidden_size |-> Num(e)])) :
            h \in {1, 2, 3, 4}, k \in {0, 1, 2, 3, 4}, e \in {2, 4, 6}}
  \union {Cfg!Obj(Root("LlamaForCausalLM", [rope_scaling |-> Scaling(t, f, l, h, o)])) :
            t \in {"", "default", "linear", "llama3", "yarn"}, f \in {Num(0), Num(1), Num(4), Num(-1)}, l \in {0, 1, 2}, h \in {1, 2, 4}, o \in {0, 4, 8}}
Defaults(root) ==
  [num_key_value_heads |-> root.v["num_attention_heads"], rope_theta |-> Cfg!Float(10000), rms_norm_eps |-> Num(1),
   tie_word_embeddings |-> Cfg!Bool(FALSE), attention_bias |-> Cfg!Bool(Cfg!ArchitectureOf(root) = "qwen2"), eos_token_id |-> Cfg!Null, rope_scaling |-> Cfg!Null]
\* An absent field and its default are one; what is accepted can be divided, looked up and rotated by.
ConfigSound(root, r) ==
  r.status = Cfg!Ok =>
    LET c == r.config
        written(f) == Cfg!Obj((f :> Defaults(root)[f]) @@ root.v)
    IN /\ \A f \in DOMAIN Defaults(root) \ DOMAIN root.v : Cfg!ParseModelConfig(written(f)) = r
       /\ "head_dim" \notin DOMAIN root.v => Cfg!ParseModelConfig(Cfg!Obj(("head_dim" :> Num(c.head_dim)) @@ root.v)) = r
       /\ \E group \in 1..c.num_heads : group * c.num_kv_heads = c.num_heads
       /\ c.num_layers > 0 /\ c.head_dim > 0
       /\ \A i \in DOMAIN c.eos_token_ids : c.eos_token_ids[i] \in 0..(c.vocab_size - 1)

-----------------------------------------------------------------------------
(* Safetensors files: two or three tensors over every small layout.         *)
EntryNode(dtype, dims, b, e) ==
  Bld!Obj([dtype |-> Bld!Str(dtype), shape |-> Bld!Arr([i \in DOMAIN dims |-> Num(dims[i])]), data_offsets |-> Bld!Arr(<<Num(b), Num(e)>>)])
FileOf(entries, size) ==
  [state |-> "regular", size |-> 24 + size, header_len |-> 16, header |-> <<[t |-> "obj", entries |-> entries, metadata |-> <<>>]>>]
Small == {<<"U8", <<0>>, 0>>, <<"U8", <<1>>, 1>>, <<"U8", <<2>>, 2>>, <<"F16", <<1>>, 2>>, <<"F32", <<1, 1>>, 4>>, <<"BF16", <<2, 0>>, 0>>}
LayoutFiles ==
  {FileOf(<<<<"a", EntryNode(x[1], x[2], i, i + x[3])>>, <<"b", EntryNode(y[1], y[2], j, j + y[3])>>, <<"c", EntryNode(z[1], z[2], k, k + z[3])>>>>, size) :
     x \in {<<"U8", <<0>>, 0>>, <<"F16", <<1>>, 2>>, <<"U8", <<2>>, 2>>}, y \in Small, z \in {<<"U8", <<0>>, 0>>, <<"F16", <<1>>, 2>>},
     i \in {0, 2}, j \in {0, 1, 2, 4}, k \in {0, 2, 4}, size \in {2, 4, 6}}
OneEntry(node) == FileOf(<<<<"a", node>>>>, 4)
GoodEntry == EntryNode("F32", <<1>>, 0, 4)
BadFiles ==
  {OneEntry(n) : n \in {Num(1), Bld!Obj([dtype |-> Bld!Str("F32")]), EntryNode("F64", <<1>>, 0, 4), EntryNode("F99", <<1>>, 0, 4), EntryNode("I64", <<1>>, 0, 4),
                        EntryNode("F32", <<-1>>, 0, 4), EntryNode("F32", <<1, 1, 1, 1>>, 0, 4), EntryNode("F32", <<32, 32>>, 0, 4), EntryNode("F32", <<1>>, 4, 0), EntryNode("F32", <<1>>, 0, 8),
                        EntryNode("F8_E4M3", <<4>>, 0, 4), EntryNode("F32", <<2>>, 0, 4), EntryNode("I64", <<0>>, 4, 4),
                        [GoodEntry EXCEPT !.v["dtype"] = Num(1)], [GoodEntry EXCEPT !.v["shape"] = Num(1)], [GoodEntry EXCEPT !.v["shape"] = Bld!Arr(<<Bld!Str("1")>>)],
                        [GoodEntry EXCEPT !.v["data_offsets"] = Bld!Arr(<<Num(0)>>)], [GoodEntry EXCEPT !.v["data_offsets"] = Bld!Arr(<<Num(-1), Num(4)>>)], GoodEntry}}
  \union {[OneEntry(GoodEntry) EXCEPT !.header[1].metadata = <<m>>] : m \in {Num(1), Bld!Obj([k |-> Num(1)]), Bld!Obj([k |-> Bld!Str("v")])}}
  \union {[OneEntry(GoodEntry) EXCEPT !.header_len = h] : h \in {0, 17, 20, 65}}
  \union {[OneEntry(GoodEntry) EXCEPT !.size = s] : s \in {0, 7, 23, 27, 29}}
  \union {[OneEntry(GoodEntry) EXCEPT !.header = h] : h \in {<<>>, <<[t |-> "arr"]>>}}
  \union {[OneEntry(GoodEntry) EXCEPT !.state = s] : s \in {"absent", "directory"}}

-----------------------------------------------------------------------------
(* Directories: the weights a config asks for, laid one after the other, in *)
(* one file or over shards, and deviations from that.                       *)
ModelRoots ==
  {Root("LlamaForCausalLM", [tie_word_embeddings |-> Cfg!Bool(t)]) : t \in BOOLEAN}
  \union {Root("Qwen2ForCausalLM", [num_hidden_layers |-> Num(2)]), Root("LlamaForCausalLM", [attention_bias |-> Cfg!Bool(TRUE), head_dim |-> Num(4)])}
Weights(c) == SelectSeq(Bld!ExpectedWeights(c), LAMBDA w : Bld!Source(c, w[1]) = w[1])
Item(w) == [name |-> w[1], dims |-> w[2], dtype |-> "F16", bytes |-> 2 * Bld!numel(w[2])]
Items(c) == [i \in DOMAIN Weights(c) |-> Item(Weights(c)[i])]
LayFile(items) ==
  LET begin(i) == FoldLeft(LAMBDA acc, it : acc + it.bytes, 0, SubSeq(items, 1, i - 1))
  IN FileOf([i \in DOMAIN items |-> <<items[i].name, EntryNode(items[i].dtype, items[i].dims, begin(i), begin(i) + items[i].bytes)>>],
            begin(Len(items) + 1))
Single(items) == [exists |-> TRUE, index |-> <<>>, files |-> (Bld!kSingleFile :> LayFile(items))]
Index(entries) == <<[state |-> "regular", node |-> <<Bld!Obj([weight_map |-> Num(0)])>>, weight_map |-> <<[t |-> "obj", entries |-> entries]>>]>>
\* Even and odd items in two shards; listed says where the index puts item i.
ShardName(i) == IF i % 2 = 0 THEN "s0" ELSE "s1"
Sharded(items, listed(_)) ==
  [exists |-> TRUE, index |-> Index([i \in DOMAIN items |-> <<items[i].name, Bld!Str(listed(i))>>]),
   files |-> [f \in {"s0", "s1"} |-> LayFile(FoldLeft(LAMBDA acc, i : IF ShardName(i) = f THEN Append(acc, items[i]) ELSE acc, <<>>, [j \in DOMAIN items |-> j]))]]
Extra(name, dtype) == [name |-> name, dims |-> <<2>>, dtype |-> dtype, bytes |-> IF dtype = "F8_E4M3" THEN 2 ELSE 4]
Transposed(it) == [it EXCEPT !.dims = Reverse(it.dims)]
Deviant(items, i) ==
  {SubSeq(items, 1, i - 1) \o SubSeq(items, i + 1, Len(items)), [items EXCEPT ![i] = Transposed(@)], [items EXCEPT ![i].dtype = "I8", ![i].bytes = @ \div 2]}
Dirs(c) ==
  LET items == Items(c)
      n == Len(items)
      last == ShardName(n)
      unlisted == Sharded(Append(items, Extra(<<"other">>, "F16")), ShardName)
  IN {Single(items), Sharded(items, ShardName), [unlisted EXCEPT !.index[1].weight_map[1].entries = SubSeq(@, 1, n)]}
     \union {Single(d) : d \in UNION {Deviant(items, i) : i \in 1..n}}
     \union {Sharded(d, ShardName) : d \in Deviant(items, 3)}
     \union {Single(Append(items, e)) : e \in {Extra(<<0, "inv_freq">>, "F16"), Extra(<<"lm_head">>, "F16"), Extra(<<"other">>, "F8_E4M3"), Extra(<<"other">>, "I8")}}
     \union {Sharded(items, LAMBDA i : IF i = 1 THEN f ELSE ShardName(i)) : f \in {"s0", "..", "gone"}}
     \union {[Sharded(items, ShardName) EXCEPT !.index[1].weight_map[1].entries = SubSeq(@, 1, n - 1)],
             [Sharded(items, ShardName) EXCEPT !.files[last].state = "absent"],
             [Sharded(items, ShardName) EXCEPT !.index[1].state = "directory"],
             [Sharded(items, ShardName) EXCEPT !.index[1].weight_map = <<>>],
             [Sharded(items, ShardName) EXCEPT !.index[1].node = <<>>],
             [Sharded(items, ShardName) EXCEPT !.index[1].weight_map[1].entries[1] = <<items[1].name, Num(1)>>],
             [exists |-> FALSE, index |-> <<>>, files |-> <<>>], [exists |-> TRUE, index |-> <<>>, files |-> <<>>],
             [Sharded(items, ShardName) EXCEPT !.files = @ @@ Single(items).files]}
LoadCalls == UNION {{[kind |-> "load", root |-> Cfg!Obj(r), dir |-> d] : d \in Dirs(Cfg!ParseModelConfig(Cfg!Obj(r)).config)} : r \in ModelRoots}
LoadModel(root, dir) == Bld!load_model(Cfg!LoadModelConfig(<<root>>), dir)
ModelSound(root, dir, r) ==
  /\ Bld!LoadSound(Cfg!ParseModelConfig(root), dir, r)
  /\ r.status = Bld!Ok => Bld!BuildsAlike(r)
  /\ dir = Single(Items(Cfg!ParseModelConfig(root).config)) => r.status = Bld!Ok

-----------------------------------------------------------------------------
(* Weight tables built without the loader, and RoPE parameters.             *)
Table(c) ==
  LET e == Bld!ExpectedWeights(c)
      at == [n \in {e[i][1] : i \in DOMAIN e} |-> CHOOSE i \in DOMAIN e : e[i][1] = n]
  IN [n \in DOMAIN at |-> [dims |-> e[at[n]][2], dtype |-> "float16", contiguous |-> TRUE, data |-> <<"heap", n>>]]
ModelConfigs == {Cfg!ParseModelConfig(Cfg!Obj(r)).config : r \in ModelRoots}
RopeConfigs ==
  {[Cfg!ParseModelConfig(Cfg!Obj(GoodRoot)).config EXCEPT !.rope_theta = t, !.head_dim = d, !.hidden_size = d, !.rope_scaling = s] :
            t \in {1, Bld!FloatInf}, d \in {2, 3}, s \in {<<>>, <<[rope_type |-> "yarn"]>>, <<[rope_type |-> "linear", factor |-> Bld!FloatNan]>>}}
  \union {[Cfg!ParseModelConfig(Cfg!Obj(GoodRoot)).config EXCEPT
             !.rope_scaling = <<[rope_type |-> t, factor |-> f, low_freq_factor |-> l, high_freq_factor |-> h, original_max_position_embeddings |-> o]>>] :
            t \in {"linear", "llama3"}, f \in {1, 2, 8}, l \in {0, 1, 2}, h \in {2, 4}, o \in {0, 4, 8, 12}}
Tables(t) ==
  {t} \union UNION {{Without(t, n), [t EXCEPT ![n].dims = Reverse(@)], [t EXCEPT ![n].dims = [i \in DOMAIN @ |-> @[i] + 1]],
                     [t EXCEPT ![n].dims = Append(@, 1)], [t EXCEPT ![n].contiguous = FALSE], [t EXCEPT ![n].dtype = "int8"]} : n \in DOMAIN t}
BuildCalls ==
  UNION {{[kind |-> "build", config |-> c, weights |-> w] : w \in Tables(Table(c))} : c \in ModelConfigs}
  \union {[kind |-> "build", config |-> c, weights |-> Table(c)] : c \in RopeConfigs}
BuildBoth(c, w) == <<Bld!BuildModel(Bld!BuiltIn, w, c, "reference"), Bld!BuildModel(Bld!BuiltIn, w, c, "optimized")>>
BuildSound(c, w) ==
  /\ Bld!OptimizedAcceptsMore(w, c)
  /\ (c.rope_scaling # <<>> /\ c.rope_scaling[1].rope_type = "llama3" => c.rope_scaling[1].low_freq_factor < c.rope_scaling[1].high_freq_factor)
       => Bld!RopeKeepsOrder(c, 1..12)

-----------------------------------------------------------------------------
(* Command lines and the worlds they meet.                                  *)
Model == <<Cmd!Word("--model"), Cmd!Word("dir")>>
Flagged == {<<Cmd!Word(f), v>> : f \in {"--kv-block-size", "--max-new-tokens", "--cache-capacity"},
                                 v \in {Cmd!Number(n) : n \in {-1, 0, 8, 16, 256, 264, 100001}} \union {Cmd!Word("x")}}
           \union {<<Cmd!Word("--kv-cache"), Cmd!Word(k)>> : k \in {"paged", "simple", "other"}}
           \union {<<Cmd!Word("--kv-cache-memory"), Cmd!Word("spec")>>, <<Cmd!Word("--no-bos")>>, <<Cmd!Word("--backend"), Cmd!Word("reference")>>,
                   <<Cmd!Word("--backend"), Cmd!Word("gpu")>>, <<Cmd!Word("--stop"), Cmd!Word("--model")>>, <<Cmd!Word("--stop-token-id"), Cmd!Number(300)>>,
                   <<Cmd!Word("--top-k"), Cmd!Number(5)>>, <<Cmd!Word("--prompt")>>, <<Cmd!Word("--unknown")>>, <<>>}
World(memory, ram, len) ==
  [load |-> Cmd!Ok, build |-> Cmd!Ok, tokenizer |-> Cmd!Ok, generate |-> Cmd!Ok, prompt_len |-> len, weights_bytes |-> 100, host_ram |-> ram, memory |-> memory,
   config |-> [num_layers |-> 1, num_heads |-> 1, num_kv_heads |-> 1, head_dim |-> 1, hidden_size |-> 1, intermediate_size |-> 1]]
Spec(unit, quarters, dot) == [empty |-> FALSE, unit |-> unit, quarters |-> quarters, dot |-> dot]
Memories == {Spec(u, q, d) : u \in {"", "B", "KiB", "GB", "GiB", "Q"}, q \in {<<>>, <<0>>, <<2>>, <<3>>, <<4>>, <<5>>, <<270>>, <<4000>>}, d \in BOOLEAN}
            \union {[Spec("", <<4>>, FALSE) EXCEPT !.empty = TRUE]}
CommandCalls ==
  {[kind |-> "command", argv |-> a \o b \o Model, world |-> World(Spec("", <<2>>, TRUE), r, l)] : a, b \in Flagged, r \in {0, 9000}, l \in {1}}
  \union {[kind |-> "command", argv |-> Model \o <<Cmd!Word("--kv-cache-memory"), Cmd!Word("spec")>> \o b, world |-> World(m, r, l)] :
            m \in Memories, b \in {<<>>, <<Cmd!Word("--kv-block-size"), Cmd!Number(8), Cmd!Word("--max-new-tokens"), Cmd!Number(3)>>}, r \in {0, 400, 3001}, l \in {0, 5}}
  \union {[kind |-> "command", argv |-> Model \o <<Cmd!Word("--max-new-tokens"), Cmd!Number(n)>> \o k, world |-> World(Spec("", <<2>>, TRUE), 0, l)] :
            n \in -6..40, k \in {<<>>, <<Cmd!Word("--kv-cache"), Cmd!Word("simple")>>}, l \in {1, 5}}
  \union {[kind |-> "command", argv |-> Model, world |-> [World(Spec("", <<2>>, TRUE), 0, 1) EXCEPT ![f] = "NotFound"]] : f \in {"load", "build", "tokenizer", "generate"}}
=============================================================================
