------------------------------- MODULE Loader -------------------------------
(***************************************************************************)
(* load_model: config, checkpoint (one file, or shards under an index),    *)
(* weight map, dtype policy.  A tensor's checkpoint name is a tuple: a     *)
(* layer's <<layer, part>> or <<name>>; a directory is a record of what it *)
(* holds.  The index lists <<tensor name, node>> in name order.            *)
(***************************************************************************)
EXTENDS Safetensors
LOCAL INSTANCE SequencesExt
LOCAL INSTANCE FiniteSetsExt

-----------------------------------------------------------------------------
(* weight_map.cpp: the expected weights, canonical name and shape, in the   *)
(* order missing ones are reported; the checkpoint's name is the same but   *)
(* for a tied lm_head.                                                      *)
LayerWeights(c, layer) ==
  LET hidden == c.hidden_size
      q_rows == c.num_heads * c.head_dim
      kv_rows == c.num_kv_heads * c.head_dim
      add(part, dims) == <<<<<<layer, part>>, dims>>>>
      biases ==
        IF ~c.attention_bias THEN <<>>
        ELSE add("q.bias", <<q_rows>>) \o add("k.bias", <<kv_rows>>) \o add("v.bias", <<kv_rows>>)
             \o (IF c.architecture = "llama" THEN add("o.bias", <<hidden>>) ELSE <<>>)
  IN add("attn_norm", <<hidden>>) \o add("q", <<q_rows, hidden>>) \o add("k", <<kv_rows, hidden>>)
     \o add("v", <<kv_rows, hidden>>) \o add("o", <<hidden, q_rows>>) \o biases
     \o add("mlp_norm", <<hidden>>) \o add("gate", <<c.intermediate_size, hidden>>)
     \o add("up", <<c.intermediate_size, hidden>>) \o add("down", <<hidden, c.intermediate_size>>)

ExpectedWeights(c) ==
  <<<<<<"embed_tokens">>, <<c.vocab_size, c.hidden_size>>>>>>
  \o FlattenSeq([l \in 1..c.num_layers |-> LayerWeights(c, l - 1)])
  \o <<<<<<"final_norm">>, <<c.hidden_size>>>>, <<<<"lm_head">>, <<c.vocab_size, c.hidden_size>>>>>>
Source(c, canonical) == IF canonical = <<"lm_head">> /\ c.tie_word_embeddings THEN <<"embed_tokens">> ELSE canonical

IsIgnoredName(c, name) == (Len(name) = 2 /\ name[2] = "inv_freq") \/ (c.tie_word_embeddings /\ name = <<"lm_head">>)

ShapeMatches(dims, want) == dims = want
\* The inventory maps checkpoint names to shapes.
BuildWeightMap(c, inventory) ==
  LET expected == ExpectedWeights(c)
      found == {i \in DOMAIN expected : Source(c, expected[i][1]) \in DOMAIN inventory}
      claimed == {Source(c, expected[i][1]) : i \in found}
      rest == DOMAIN inventory \ claimed
  IN [status |-> Require(\A i \in found : ShapeMatches(inventory[Source(c, expected[i][1])], expected[i][2]), Invalid),
      canonical |-> {expected[i][1] : i \in found},
      missing |-> {expected[i][1] : i \in DOMAIN expected \ found},
      ignored |-> {n \in rest : IsIgnoredName(c, n)},
      unexpected |-> {n \in rest : ~IsIgnoredName(c, n)}]
CheckNoMissingWeights(map) == Require(map.missing = {}, Invalid)

-----------------------------------------------------------------------------
(* checkpoint.cpp                                                           *)
\* Names no path component is allowed to be, the ones with a separator included.
NotBare == {"", ".", "..", "sub/shard"}
IsBareFilename(name) == name \notin NotBare
ParseIndex(index) ==
  Require(index.node # <<>> /\ index.node[1].t = "obj", Invalid)
  && (Require(index.weight_map # <<>> /\ index.weight_map[1].t = "obj", Invalid)
  && LET entries == index.weight_map[1].entries
     IN Require(\A i \in DOMAIN entries : entries[i][2].t = "str" /\ IsBareFilename(entries[i][2].v), Invalid))
IndexEntries(dir) == dir.index[1].weight_map[1].entries
ShardFiles(dir) == {IndexEntries(dir)[i][2].v : i \in DOMAIN IndexEntries(dir)}
Exists(dir, f) == f \in DOMAIN dir.files /\ dir.files[f].state # "absent"

\* The index wins over a single file.
Sharded(dir) == dir.index # <<>>
kSingleFile == "model.safetensors"
CheckpointOpen(dir) ==
  Require(dir.exists, NotFound)
  && IF Sharded(dir)
     THEN Require(dir.index[1].state = "regular", Invalid)
          && (ParseIndex(dir.index[1]) && Require(\A f \in ShardFiles(dir) : Exists(dir, f), NotFound))
     ELSE Require(Exists(dir, kSingleFile), NotFound) && Open(dir.files[kSingleFile])
\* Tensor names in name order.
NamesInOrder(dir) ==
  LET entries == IF Sharded(dir) THEN IndexEntries(dir) ELSE dir.files[kSingleFile].header[1].entries
  IN [i \in DOMAIN entries |-> entries[i][1]]
ShardOf(dir, name) ==
  IF ~Sharded(dir) THEN kSingleFile
  ELSE IndexEntries(dir)[CHOOSE i \in DOMAIN IndexEntries(dir) : IndexEntries(dir)[i][1] = name][2].v

\* A shard holds exactly the tensors the index maps to it.
CheckShardConsistency(dir, f) ==
  Require({n \in ToSet(NamesInOrder(dir)) : ShardOf(dir, n) = f} = Names(dir.files[f]), Invalid)
\* Opened on first use; a failed opening leaves the slot empty, so the next use fails alike.
shard(dir, f) == IF ~Sharded(dir) THEN Ok ELSE Open(dir.files[f]) && CheckShardConsistency(dir, f)
TensorOf(status, file, name) == IF status # Ok THEN <<status>> ELSE tensor(file, name)
TensorIn(dir, f, name) == TensorOf(shard(dir, f), dir.files[f], name)
CheckpointTensor(dir, name) ==
  IF name \notin ToSet(NamesInOrder(dir)) THEN <<NotFound>> ELSE TensorIn(dir, ShardOf(dir, name), name)

\* Every tensor of the checkpoint is resolved for its shape, an unexpected one too.
Resolved(dir) == [n \in ToSet(NamesInOrder(dir)) |-> CheckpointTensor(dir, n)]
Inventory(tensors) == [n \in DOMAIN tensors |-> tensors[n][2].dims]
ResolveAll(dir, tensors) == FirstFailure([i \in DOMAIN NamesInOrder(dir) |-> tensors[NamesInOrder(dir)[i]][1]])

-----------------------------------------------------------------------------
(* loader.cpp                                                               *)
IsSupportedWeightDtype(dtype) == dtype \in {"float32", "float16", "bfloat16"}

LoadedWeight(t, file) ==
  [dims |-> t.dims, dtype |-> t.dtype, contiguous |-> is_contiguous(t), data |-> <<file, t.byte_offset>>]
\* config is LoadModelConfig's result for the directory, map the weight map of its tensors.
LoadMapped(config, dir, tensors, map) ==
  LET weight(n) == tensors[Source(config.config, n)][2]
      status == config.status && (CheckpointOpen(dir) && (ResolveAll(dir, tensors) && (map.status && (CheckNoMissingWeights(map)
                && Require(\A n \in map.canonical : IsSupportedWeightDtype(weight(n).dtype), Unimplemented)))))
  IN IF status # Ok THEN [status |-> status]
     ELSE [status |-> Ok, config |-> config.config, report |-> map,
           weights |-> [n \in map.canonical |-> LoadedWeight(weight(n), ShardOf(dir, Source(config.config, n)))]]
LoadFrom(config, dir, tensors) == LoadMapped(config, dir, tensors, BuildWeightMap(config.config, Inventory(tensors)))
load_model(config, dir) == LoadFrom(config, dir, Resolved(dir))

Bytes(w) == numel(w.dims) * itemsize(w.dtype)
\* Weights at one address are counted once.
weight_resident_bytes(loaded) ==
  LET addresses == {loaded.weights[n].data : n \in DOMAIN loaded.weights}
      at(a) == CHOOSE n \in DOMAIN loaded.weights : loaded.weights[n].data = a
  IN FoldSet(LAMBDA a, acc : acc + Bytes(loaded.weights[at(a)]), 0, addresses)

-----------------------------------------------------------------------------
\* What is loaded is the model: every weight the architecture needs with its shape, each from bytes
\* of its own but for a tied lm_head, in a floating type; nothing is counted twice; every file that
\* gave one is sound and holds only what the index says.
LoadSound(config, dir, r) ==
  r.status = Ok =>
    LET c == config.config
        expected == ExpectedWeights(c)
        w == r.weights
        disjoint(m, n) == w[m].data[1] # w[n].data[1] \/ w[m].data[2] + Bytes(w[m]) <= w[n].data[2]
                          \/ w[n].data[2] + Bytes(w[n]) <= w[m].data[2]
        used == IF Sharded(dir) THEN ShardFiles(dir) ELSE {kSingleFile}
        distinct == {Source(c, n) : n \in DOMAIN w}
    IN /\ DOMAIN w = {expected[i][1] : i \in DOMAIN expected}
       /\ \A i \in DOMAIN expected : w[expected[i][1]].dims = expected[i][2]
       /\ \A m, n \in DOMAIN w : IF Source(c, m) = Source(c, n) THEN w[m] = w[n] ELSE disjoint(m, n)
       /\ c.tie_word_embeddings => w[<<"lm_head">>] = w[<<"embed_tokens">>]
       /\ UNION {Names(dir.files[f]) : f \in used} = ToSet(NamesInOrder(dir))
       /\ \A f, g \in used : FileSound(dir.files[f]) /\ (f # g => Names(dir.files[f]) \intersect Names(dir.files[g]) = {})
       /\ weight_resident_bytes(r) = FoldSet(LAMBDA s, acc : acc + Bytes(w[CHOOSE n \in DOMAIN w : Source(c, n) = s]), 0, distinct)
=============================================================================
