---------------------------- MODULE ModelConfig ----------------------------
(***************************************************************************)
(* ParseModelConfig: a config.json becomes a ModelConfig or is refused     *)
(* with the status of the first stage that fails.  Each stage is a status  *)
(* and reads the fields the earlier ones accepted.  IntMax stands for the  *)
(* int and int32 range, Int64Max for int64's; floats are small integers.   *)
(***************************************************************************)
EXTENDS Integers, Sequences, JsonNodes
LOCAL INSTANCE SequencesExt

IntMax == 100
Int64Max == 1000

-----------------------------------------------------------------------------
(* Accessors: presence, then type, then range.                              *)
IntValue(node) == Require(node.t = "int" /\ node.v <= Int64Max, Invalid)
FloatValue(node) == Require(node.t \in {"int", "float"}, Invalid)
BoolValue(node) == Require(node.t = "bool", Invalid)
StringValue(node) == Require(node.t = "str", Invalid)
RequiredInt(obj, field) == Require(Has(obj, field), Invalid) && IntValue(obj.v[field])
Optional(obj, field, Check(_)) == IF Has(obj, field) THEN Check(obj.v[field]) ELSE Ok
OptionalInt(obj, field) == Optional(obj, field, IntValue)
OptionalFloat(obj, field) == Optional(obj, field, FloatValue)
OptionalBool(obj, field) == Optional(obj, field, BoolValue)
AsInt(value) == Require(value \in (-IntMax - 1)..IntMax, Invalid)
AsInt32(value) == AsInt(value)
CheckPositive(value) == Require(value > 0, Invalid)
CheckPositiveFloat(value) == Require(value > 0, Invalid)

\* A field's value, or the struct member's default.
Field(obj, field, default) == IF Has(obj, field) THEN obj.v[field].v ELSE default

-----------------------------------------------------------------------------
(* The stages.                                                              *)
Architectures == [LlamaForCausalLM |-> "llama", Qwen2ForCausalLM |-> "qwen2"]
ParseArchitecture(name) == Require(name \in DOMAIN Architectures, Unimplemented)
ParseArchitectureField(root) ==
  Require(Is(root, "architectures", "arr") /\ root.v["architectures"].v # <<>>, Invalid)
  && LET first == Head(root.v["architectures"].v) IN StringValue(first) && ParseArchitecture(first.v)
ArchitectureOf(root) == Architectures[Head(root.v["architectures"].v).v]

ParseRequiredDims(root) ==
  RequiredInt(root, "hidden_size") && (RequiredInt(root, "intermediate_size")
  && (RequiredInt(root, "num_hidden_layers") && (AsInt(root.v["num_hidden_layers"].v)
  && (RequiredInt(root, "num_attention_heads") && (AsInt(root.v["num_attention_heads"].v)
  && (RequiredInt(root, "vocab_size") && RequiredInt(root, "max_position_embeddings")))))))

\* num_key_value_heads defaults to num_attention_heads, attention_bias to the architecture's habit.
ParseDefaultedFields(root) ==
  OptionalInt(root, "num_key_value_heads")
  && (AsInt(Field(root, "num_key_value_heads", root.v["num_attention_heads"].v))
  && (OptionalFloat(root, "rope_theta") && (OptionalFloat(root, "rms_norm_eps")
  && (OptionalBool(root, "tie_word_embeddings") && OptionalBool(root, "attention_bias")))))

\* dtype.h's table of config spellings.
TorchDtypes == {"float32", "float16", "bfloat16", "int8", "uint8", "int32", "int64", "bool", "fp8_e4m3", "int4"}
ParseTorchDtype(root) ==
  IF ~Has(root, "torch_dtype") THEN Ok
  ELSE StringValue(root.v["torch_dtype"]) && Require(root.v["torch_dtype"].v \in TorchDtypes, Invalid)

\* One id or an array of them; null counts as absent.
EosNodes(root) ==
  IF AbsentOrNull(root, "eos_token_id") THEN <<>>
  ELSE IF root.v["eos_token_id"].t = "arr" THEN root.v["eos_token_id"].v ELSE <<root.v["eos_token_id"]>>
ParseEosTokenIds(root) ==
  Require(\A i \in DOMAIN EosNodes(root) :
            (IntValue(EosNodes(root)[i]) && AsInt32(EosNodes(root)[i].v)) = Ok, Invalid)

\* Explicit, and then free of hidden_size; or derived, and then it must divide.
ParseHeadDim(root) ==
  LET hidden == root.v["hidden_size"].v
      heads == root.v["num_attention_heads"].v
  IN IF Has(root, "head_dim") THEN IntValue(root.v["head_dim"]) && AsInt(root.v["head_dim"].v)
     ELSE Require(heads > 0, Invalid) && (Require(hidden % heads = 0, Invalid) && AsInt(hidden \div heads))
HeadDim(root) ==
  Field(root, "head_dim", root.v["hidden_size"].v \div root.v["num_attention_heads"].v)

ParseRopeScaling(obj) ==
  Require(obj.t = "obj", Invalid)
  && LET key == IF Has(obj, "rope_type") THEN "rope_type" ELSE "type"
     IN Require(Has(obj, key), Invalid) && (StringValue(obj.v[key])
        && (OptionalFloat(obj, "factor") && (OptionalFloat(obj, "low_freq_factor")
        && (OptionalFloat(obj, "high_freq_factor") && OptionalInt(obj, "original_max_position_embeddings")))))
ParseRopeScalingField(root) ==
  IF AbsentOrNull(root, "rope_scaling") THEN Ok ELSE ParseRopeScaling(root.v["rope_scaling"])
RopeScaling(root) ==
  IF AbsentOrNull(root, "rope_scaling") THEN <<>>
  ELSE LET obj == root.v["rope_scaling"]
       IN <<[rope_type |-> obj.v[IF Has(obj, "rope_type") THEN "rope_type" ELSE "type"].v,
             factor |-> Field(obj, "factor", 1), low_freq_factor |-> Field(obj, "low_freq_factor", 1),
             high_freq_factor |-> Field(obj, "high_freq_factor", 4),
             original_max_position_embeddings |-> Field(obj, "original_max_position_embeddings", 0)]>>

\* What the stages filled in.
Filled(root) ==
  [architecture |-> ArchitectureOf(root), architecture_name |-> Head(root.v["architectures"].v).v,
   hidden_size |-> root.v["hidden_size"].v, intermediate_size |-> root.v["intermediate_size"].v,
   num_layers |-> root.v["num_hidden_layers"].v, num_heads |-> root.v["num_attention_heads"].v,
   num_kv_heads |-> Field(root, "num_key_value_heads", root.v["num_attention_heads"].v),
   head_dim |-> HeadDim(root), vocab_size |-> root.v["vocab_size"].v,
   rope_theta |-> Field(root, "rope_theta", 10000), rope_scaling |-> RopeScaling(root),
   rms_norm_eps |-> Field(root, "rms_norm_eps", 1),
   max_position_embeddings |-> root.v["max_position_embeddings"].v,
   tie_word_embeddings |-> Field(root, "tie_word_embeddings", FALSE),
   attention_bias |-> Field(root, "attention_bias", ArchitectureOf(root) = "qwen2"),
   eos_token_ids |-> [i \in DOMAIN EosNodes(root) |-> EosNodes(root)[i].v]]

ValidateConfig(c) ==
  CheckPositive(c.hidden_size) && (CheckPositive(c.intermediate_size) && (CheckPositive(c.num_layers)
  && (CheckPositive(c.num_heads) && (CheckPositive(c.num_kv_heads) && (CheckPositive(c.head_dim)
  && (CheckPositive(c.vocab_size) && (CheckPositive(c.max_position_embeddings)
  && (CheckPositiveFloat(c.rope_theta) && (CheckPositiveFloat(c.rms_norm_eps)
  && (Require(c.num_heads % c.num_kv_heads = 0, Invalid)
  && Require(\A i \in DOMAIN c.eos_token_ids : c.eos_token_ids[i] \in 0..(c.vocab_size - 1), Invalid)))))))))))

\* A text that is not JSON is refused like one that is not an object.
ParseModelConfig(root) ==
  LET status ==
        Require(root.t = "obj", Invalid) && (ParseArchitectureField(root) && (ParseRequiredDims(root)
        && (ParseDefaultedFields(root) && (ParseTorchDtype(root) && (ParseEosTokenIds(root)
        && (ParseHeadDim(root) && (ParseRopeScalingField(root) && ValidateConfig(Filled(root)))))))))
  IN IF status = Ok THEN [status |-> Ok, config |-> Filled(root)] ELSE [status |-> status]

\* An unreadable file is NotFound; otherwise the parse's status, with the path in the message.
LoadModelConfig(file) == IF file = <<>> THEN [status |-> "NotFound"] ELSE ParseModelConfig(file[1])
=============================================================================
