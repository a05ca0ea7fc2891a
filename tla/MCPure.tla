------------------------------- MODULE MCPure -------------------------------
(***************************************************************************)
(* The pure functions: a behaviour is one call, chosen among bounded       *)
(* inputs, and its result.  One action per function; one invariant per     *)
(* module compares the results with that module's reference.               *)
(***************************************************************************)
EXTENDS Integers, Sequences, FiniteSets
LOCAL INSTANCE SequencesExt

VARIABLES
  call,        \* the function and its arguments
  result       \* <<>> before it returns, <<value>> after
vars == <<call, result>>

Smp == INSTANCE Sampling
Uni == INSTANCE Unicode
Pre == INSTANCE Pretokenize
Tok == INSTANCE TokenizerFile
Ten == INSTANCE MCTensors
Lod == INSTANCE MCLoading
Ker == INSTANCE MCKernels

-----------------------------------------------------------------------------
(* Sampling: every three-token row of a few logits and specials under some  *)
(* parameters, and a few rows under all of them, after each earlier row.    *)
Logits == {-2, 0, 2, Smp!NegInf, Smp!PosInf, Smp!NaN}
Contexts == {[prompt |-> <<1>>, generated |-> <<2, 2>>], [prompt |-> <<3>>, generated |-> <<>>],
             [prompt |-> <<9>>, generated |-> <<1>>]}
Params(temps, ks, ps, pens, lps) ==
  {[temperature |-> t, top_k |-> k, top_p |-> p, repetition |-> pen[1], presence |-> pen[2],
    frequency |-> pen[3], logprobs |-> n] : t \in temps, k \in ks, p \in ps, pen \in pens, n \in lps}
Plain == <<1, 0, 0>>
Penalties == {Plain, <<2, 0, 0>>, <<1, 2, -1>>, <<2, 1, 1>>}
Earlier == {Smp!Fresh,
            Smp!SampleRow(<<2, 2, 0>>, [prompt |-> <<>>, generated |-> <<>>],
              CHOOSE p \in Params({1}, {0}, {3}, {Plain}, {2}) : TRUE, [n \in 0..2 |-> 1], Smp!Fresh).scratch}
SampleCalls ==
  {[kind |-> "sample", row |-> r, ctx |-> c, p |-> p, u |-> u, scratch |-> s] :
     r \in [1..3 -> Logits], c \in Contexts,
     p \in Params({0, 2}, {2}, {2}, {<<2, 1, 1>>}, {0, 2}), u \in {1}, s \in Earlier}
  \union
  {[kind |-> "sample", row |-> r, ctx |-> c, p |-> p, u |-> u, scratch |-> s] :
     r \in {<<0, 2, 2>>, <<2, -2, 0>>, <<Smp!NegInf, 2, 2>>, <<-2, Smp!NegInf, 0>>},
     c \in {[prompt |-> <<1>>, generated |-> <<2, 2>>]},
     p \in Params({0, 1, 2, 1000}, {0, 1, 2}, {1, 2, 3, 4}, Penalties, {0, 2}), u \in {0, 1, 2, 4}, s \in Earlier}

Sample ==
  /\ call.kind = "sample"
  /\ result' = <<Smp!SampleRow(call.row, call.ctx, call.p, [n \in 0..2 |-> call.u], call.scratch)>>

\* A sampled row is the policy's, whatever row its scratch buffers served before: it
\* fails exactly when a logit is NaN or +inf, none is finite where a distribution is
\* needed, or a penalty meets a bad history (the greedy rows Sampling!GreedyOverlooks
\* names pass unrefused), and a token it gives is the one the draw picks from the
\* penalized, tempered, top-k and top-p cut distribution, with log-probabilities of the
\* whole vocabulary (Sampling!RowFollowsPolicy).
SamplerFollowsPolicy ==
  call.kind = "sample" /\ result # <<>> =>
    Smp!RowFollowsPolicy(call.row, call.ctx, call.p, [n \in 0..2 |-> call.u], result[1])

-----------------------------------------------------------------------------
(* Unicode: every text of up to two characters of the table's excerpt, an   *)
(* undecodable byte among them, and every four of letters, marks and jamo.  *)
UniChars == {97, 101, 769, 807, 768, 233, 553, 7708, 8491, 4352, 4449, 4520, 44032}
UniPieces == {Uni!append_utf8(c) : c \in UniChars} \union {<<255>>}
UniMarks == {Uni!append_utf8(c) : c \in {101, 553, 768, 769, 807}} \union {<<255>>}
UniJamo == {Uni!append_utf8(c) : c \in {4352, 4449, 4520, 44032, 807}}
Texts(pieces, k) == {FlattenSeq(f) : f \in [1..k -> pieces]}
NfcCalls == {[kind |-> "nfc", text |-> t] : t \in
               UNION {Texts(UniPieces, k) : k \in 0..2} \union Texts(UniMarks, 4) \union Texts(UniJamo, 3)}
Boundaries == {0, 127, 128, 2047, 2048, 65535, 65536, 1114111} \union UniChars

Normalize == call.kind = "nfc" /\ result' = <<Uni!nfc_normalize(call.text)>>

-----------------------------------------------------------------------------
(* Pre-tokenization: every text of up to four pieces over the classes the   *)
(* pattern tells apart, and the contractions, for both digit runs.          *)
PreChars == {<<115>>, <<101>>, <<32>>, <<9>>, <<10>>, <<49>>, <<33>>, <<39>>, <<255>>}
PreCalls == {[kind |-> "pretokenize", text |-> t, digits |-> d] :
              t \in UNION {Texts(PreChars, k) : k \in 0..3} \union Texts({<<32>>, <<10>>, <<49>>, <<33>>, <<39>>, <<114>>, <<101>>}, 4),
              d \in {1, 3}}

SplitText == call.kind = "pretokenize" /\ result' = <<Pre!pretokenize(call.text, call.digits)>>

-----------------------------------------------------------------------------
(* Tokenizer files.  a, b, the space (alphabet U+0120), e, the acute's two  *)
(* bytes, e-acute's and an undecodable byte have their tokens; merges make  *)
(* ab, _a, _ab, aa and e-acute.                                             *)
Bytes == <<97, 98, 32, 101, 204, 129, 195, 169, 255, 60>>
Word(raw) == Tok!map_bytes_to_alphabet(raw)
Multi == <<<<97, 98>>, <<32, 97>>, <<32, 97, 98>>, <<97, 97>>, <<195, 169>>>>
BaseSize == Len(Bytes) + Len(Multi)
VocabEntries == {<<Word(<<Bytes[i]>>), i - 1>> : i \in DOMAIN Bytes} \union {<<Word(Multi[i]), Len(Bytes) + i - 1>> : i \in DOMAIN Multi}
VocabObj(entries) == Tok!Obj([t \in {e[1] : e \in entries} |-> Tok!Num((CHOOSE e \in entries : e[1] = t)[2])])
Pair(l, r) == Tok!Arr(<<Tok!Str(Word(l)), Tok!Str(Word(r))>>)
MergesA == <<Tok!Str(Word(<<97>>) \o <<32>> \o Word(<<98>>)), Pair(<<32>>, <<97, 98>>), Pair(<<97>>, <<97>>), Pair(<<195>>, <<169>>)>>
MergesB == <<Pair(<<32>>, <<97>>), Pair(<<97>>, <<98>>), Pair(<<32>>, <<97, 98>>), Pair(<<32, 97>>, <<98>>)>>
Model(vocab, merges, ignore) ==
  Tok!Obj([type |-> Tok!Str("BPE"), vocab |-> vocab, merges |-> Tok!Arr(merges), ignore_merges |-> Tok!Bool(ignore)])
Added(id, content, flags) ==
  Tok!Obj([f \in flags |-> Tok!Bool(TRUE)] @@ [id |-> Tok!Num(id), content |-> Tok!Str(content)])
Leaf(type) == Tok!Obj([type |-> Tok!Str(type)])
Sequenced(key, nodes) == Tok!Obj(("type" :> Tok!Str("Sequence")) @@ (key :> Tok!Arr(nodes)))
Split(pattern) == Tok!Obj([type |-> Tok!Str("Split"), pattern |-> Tok!Obj([Regex |-> Tok!Str(pattern)]), behavior |-> Tok!Str("Isolated")])
ByteLevel == Tok!Obj([type |-> Tok!Str("ByteLevel"), add_prefix_space |-> Tok!Bool(FALSE), use_regex |-> Tok!Bool(FALSE)])
PreTok(pattern) == Sequenced("pretokenizers", <<Split(pattern), ByteLevel>>)
Special(name) == Tok!Obj([SpecialToken |-> Tok!Obj([id |-> Tok!Str(name)])])
SeqA == Tok!Obj([Sequence |-> Tok!Obj([id |-> Tok!Str("A")])])
Template(single, id) ==
  Tok!Obj([type |-> Tok!Str("TemplateProcessing"), single |-> Tok!Arr(single),
           special_tokens |-> Tok!Obj([bos |-> Tok!Obj([ids |-> Tok!Arr(<<Tok!Num(id)>>)])])])
File(model, added, extra) ==
  Tok!Obj(extra @@ [model |-> model, added_tokens |-> Tok!Arr(added), pre_tokenizer |-> PreTok("cl100k"),
                    post_processor |-> Sequenced("processors", <<ByteLevel, Template(<<Special("bos"), SeqA>>, 0)>>)])
NoExtra == [decoder |-> Leaf("ByteLevel")]
GoodModel == Model(VocabObj(VocabEntries), MergesA, FALSE)
\* "<" then "<a": overlapping contents, the longer one stripping
Brackets(flagsShort, flagsLong) == <<Added(BaseSize, <<60, 97>>, flagsLong), Added(9, <<60>>, flagsShort)>>
GoodFiles ==
  {File(GoodModel, <<>>, NoExtra),
   File(Model(VocabObj(VocabEntries), MergesB, FALSE), Brackets({"special"}, {"special"}), NoExtra),
   File(Model(VocabObj(VocabEntries), MergesA, TRUE), Brackets({}, {"lstrip", "rstrip"}), NoExtra),
   File(GoodModel, Brackets({"rstrip"}, {"normalized"}), [normalizer |-> Sequenced("normalizers", <<Leaf("NFC")>>)])}
\* Vocabularies and added tokens that may collide, and one deviation from the good file at a time.
Deviations ==
  {File(GoodModel, <<>>, e) : e \in
     {[truncation |-> Leaf("x")], [padding |-> Tok!Null], [normalizer |-> Leaf("NFD")], [normalizer |-> Sequenced("other", <<>>)],
      [normalizer |-> Sequenced("normalizers", <<>>)], [pre_tokenizer |-> Tok!Null], [pre_tokenizer |-> PreTok("gpt2")],
      [pre_tokenizer |-> Sequenced("pretokenizers", <<ByteLevel, Split("qwen2")>>)],
      [pre_tokenizer |-> Sequenced("pretokenizers", <<Split("qwen2"), Leaf("ByteLevel")>>)],
      [decoder |-> Leaf("Fuse")], [post_processor |-> Tok!Null], [post_processor |-> Leaf("Roberta")],
      [post_processor |-> Sequenced("processors", <<Template(<<SeqA>>, 0), Template(<<SeqA>>, 0)>>)],
      [model |-> Leaf("Unigram")], [model |-> Tok!Null], [added_tokens |-> Tok!Null], [added_tokens |-> Tok!Str("x")]}}
  \union {File(GoodModel, <<>>, [post_processor |-> Template(single, id)]) :
            single \in {<<SeqA>>, <<SeqA, SeqA>>, <<Special("bos")>>, <<SeqA, Special("eos")>>, <<Special("bos"), SeqA, Special("bos")>>,
                         <<Tok!Num(1)>>, <<SeqA, Leaf("X")>>},
            id \in {0, BaseSize - 1, BaseSize, -1}}
  \union {File(Model(VocabObj(VocabEntries), m, FALSE), <<>>, NoExtra) :
            m \in {<<Tok!Num(1)>>, <<Tok!Str(<<97, 98>>)>>, <<Tok!Str(<<97, 32>>)>>, <<Pair(<<98>>, <<98>>)>>, <<Pair(<<97>>, <<98>>), Pair(<<97>>, <<98>>)>>}}
  \union {File(Model(VocabObj((VocabEntries \ {<<Word(<<60>>), 9>>}) \union {<<t, id>>}), MergesA, FALSE), a, NoExtra) :
            t \in {<<60>>, <<32>>}, id \in {8, 9, BaseSize},
            a \in {<<>>, Brackets({}, {}), <<Added(BaseSize, <<60>>, {})>>, <<Added(BaseSize, <<98>>, {})>>}}
  \union {File(GoodModel, <<Added(i, c, f), Added(j, d, {})>>, NoExtra) :
            i, j \in {0, BaseSize, BaseSize + 1}, c \in {<<97>>, <<62>>, <<>>}, d \in {<<97>>, <<62>>, <<63>>},
            f \in {{}, {"single_word"}}}
FileCalls == {[kind |-> "file", file |-> f] : f \in GoodFiles \union Deviations}
TokPieces == {<<97>>, <<98>>, <<32>>, <<60>>, <<195, 169>>, <<101, 204, 129>>, <<255>>}
EncodeCalls ==
  {[kind |-> "encode", tk |-> k, text |-> t] :
     k \in {Tok!from_json(f) : f \in GoodFiles}, t \in UNION {Texts(TokPieces, k) : k \in 0..3} \union Texts({<<97>>, <<98>>, <<32>>, <<60>>}, 4)}

LoadTokenizer == call.kind = "file" /\ result' = <<Tok!from_json(call.file)>>
EncodeText == call.kind = "encode" /\ result' = <<Tok!encode(call.tk, call.text, FALSE)>>

\* Text to ids: nfc_normalize gives the composed canonical form of every segment
\* between undecodable bytes, pretokenize's hand-written matchers split as the
\* pattern's alternatives do and lose no byte, and the ids of encode decode to the
\* text and are what rank-ordered merging of every piece gives (Unicode!NfcCorrect,
\* Pretokenize!SplitsLikeTheRegex, Tokenizer!EncodesTheText).
TextFollowsPipeline ==
  /\ call.kind = "nfc" /\ result # <<>> => Uni!NfcCorrect(call.text, result[1]) /\ \A c \in Boundaries : Uni!RoundTrips(c)
  /\ call.kind = "pretokenize" /\ result # <<>> => Pre!SplitsLikeTheRegex(call.text, call.digits, result[1])
  /\ call.kind = "encode" /\ result # <<>> => Tok!EncodesTheText(call.tk, call.text, result[1])

\* A file that is accepted is consistent, and a good one is accepted: ids and tokens
\* are a bijection with every merge in it; safetensors ranges tile the data section
\* and each tensor reads its own bytes; a loaded model has every weight of its
\* configuration with the shape the forward uses; and both backends build from what
\* was loaded (TokenizerFile!TokenizerConsistent, Safetensors!FileSound,
\* Loader!LoadSound, ModelBuild!BuildsAlike).
FilesConsistent ==
  result # <<>> =>
    CASE call.kind = "file" ->
           /\ result[1].status = "Ok" => Tok!TokenizerConsistent(result[1])
           /\ call.file \in GoodFiles => result[1].status = "Ok"
      [] call.kind = "config" -> Lod!ConfigSound(call.root, result[1])
      [] call.kind = "layout" -> Lod!Bld!FileSound(call.file)
      [] call.kind = "load" -> Lod!ModelSound(call.root, call.dir, result[1])
      [] call.kind = "build" -> Lod!BuildSound(call.config, call.weights)
      [] OTHER -> TRUE

-----------------------------------------------------------------------------
(* Tensors: MCTensors.                                                      *)
TensorCalls == Ten!WindowCalls \union Ten!ChainCalls \union Ten!DimsCalls \union Ten!HalfCalls \union Ten!OpCalls
TensorKinds == {"window", "dims", "half", "copy", "cast", "allclose", "arange", "full", "fill"}
Tensor == call.kind \in TensorKinds /\ result' = <<Ten!TensorResult(call)>>

\* Chains of slice, reshape and view_as_dtype never address outside the buffer and
\* name the elements their shape says; conversions to and from half round to nearest
\* even; copy, cast, arange, full, fill and allclose give, element by element, what
\* their scalar definition gives, on strided and overlapping views too
\* (TensorViews!ViewsStaySound, HalfFloat!Fp16Rounds, TensorOps).
TensorsAgree == call.kind \in TensorKinds /\ result # <<>> => Ten!TensorSound(call, result[1])

-----------------------------------------------------------------------------
(* Model files and the command: MCLoading.                                  *)
ConfigCalls == {[kind |-> "config", root |-> r] : r \in Lod!ConfigRoots}
LayoutCalls == {[kind |-> "layout", file |-> f] : f \in Lod!LayoutFiles \union Lod!BadFiles}

LoadConfig == call.kind = "config" /\ result' = <<Lod!Cfg!ParseModelConfig(call.root)>>
OpenFile == call.kind = "layout" /\ result' = <<Lod!Bld!Open(call.file)>>
LoadModel == call.kind = "load" /\ result' = <<Lod!LoadModel(call.root, call.dir)>>
BuildModel == call.kind = "build" /\ result' = <<Lod!BuildBoth(call.config, call.weights)>>
Command == call.kind = "command" /\ result' = <<Lod!Cmd!main(call.argv, call.world)>>

\* A generate command that reaches the generation has a cache of the capacity it asked
\* for, of the whole request when it asked for none, or within the budget it gave; the
\* process aborts only on a number it cannot read or a block size that is not positive
\* (GenerateCommand!SizedForRequest).
CommandSizesCache ==
  call.kind = "command" /\ result # <<>> => Lod!Cmd!SizedForRequest(call.argv, call.world, result[1])

-----------------------------------------------------------------------------
(* Kernels: MCKernels.                                                      *)
Kernel == call.kind \in Ker!KernelKinds /\ result' = <<Ker!KernelOutput(call)>>

\* Blocked, packed, vectorised and chunked kernels read exactly the operands, and
\* write exactly the elements, of their naive definitions, tails and every split over
\* threads included, and instruction sets differ only where lanes sum in another
\* order (Kernels, AttentionKernels).
KernelsAgree == call.kind \in Ker!KernelKinds /\ result # <<>> => Ker!KernelSound(call, result[1])

-----------------------------------------------------------------------------
Init ==
  /\ result = <<>>
  /\ \/ call \in SampleCalls
     \/ call \in NfcCalls
     \/ call \in PreCalls
     \/ call \in FileCalls
     \/ call \in EncodeCalls
     \/ call \in TensorCalls
     \/ call \in ConfigCalls
     \/ call \in LayoutCalls
     \/ call \in Lod!LoadCalls
     \/ call \in Lod!BuildCalls
     \/ call \in Lod!CommandCalls
     \/ call \in Ker!KernelCalls
Next ==
  /\ result = <<>> /\ UNCHANGED call
  /\ \/ Sample \/ Normalize \/ SplitText \/ EncodeText
     \/ LoadTokenizer \/ LoadConfig \/ OpenFile \/ LoadModel \/ BuildModel \/ Command
     \/ Tensor \/ Kernel
Spec == Init /\ [][Next]_vars
=============================================================================
