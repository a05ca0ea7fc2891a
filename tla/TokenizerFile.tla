--------------------------- MODULE TokenizerFile ---------------------------
(***************************************************************************)
(* Tokenizer::from_json: a tokenizer.json becomes a tokenizer or is        *)
(* refused with a status code.  In the nodes (JsonNodes) object keys and    *)
(* component types are strings, token texts byte strings.                   *)
(***************************************************************************)
EXTENDS Tokenizer, JsonNodes
LOCAL INSTANCE SequencesExt

-----------------------------------------------------------------------------
(* Field accessors and whitelist guards.                                    *)
IntValue(node) == Require(node.t = "int", Invalid)
StringValue(node) == Require(node.t = "str", Invalid)
OptionalBool(obj, key) == Require(Has(obj, key) => obj.v[key].t = "bool", Invalid)
BoolOr(obj, key, default) == IF Has(obj, key) THEN obj.v[key].v ELSE default
RequireAbsentOrNull(obj, key) == Require(AbsentOrNull(obj, key), Unimplemented)
RequireAbsentOrEmpty(obj, key) == Require(AbsentOrNull(obj, key) \/ (Is(obj, key, "str") /\ obj.v[key].v = <<>>), Unimplemented)
RequireAbsentOrFalse(obj, key) == OptionalBool(obj, key) && Require(~BoolOr(obj, key, FALSE), Unimplemented)
RequireUnconfigured(root, key) == RequireAbsentOrNull(root, key)
\* The first failure over an array's entries or a component's leaves.
EachLeaf(leaves, Check(_)) == FoldLeft(LAMBDA status, leaf : status && Check(leaf), Ok, leaves)
ComponentType(node) == Require(node.t = "obj" /\ Has(node, "type"), Invalid) && StringValue(node.v["type"])

-----------------------------------------------------------------------------
(* The model section.                                                       *)
ParseModelFlags(model) ==
  RequireAbsentOrNull(model, "dropout") && (RequireAbsentOrNull(model, "unk_token")
  && (RequireAbsentOrEmpty(model, "continuing_subword_prefix") && (RequireAbsentOrEmpty(model, "end_of_word_suffix")
  && (RequireAbsentOrFalse(model, "fuse_unk") && (RequireAbsentOrFalse(model, "byte_fallback")
  && OptionalBool(model, "ignore_merges"))))))

\* Entry by entry in the object's order: an int, in range, not assigned before.
ParseVocab(model) ==
  Require(Is(model, "vocab", "obj"), Invalid)
  && LET vocab == model.v["vocab"].v
         n == Cardinality(DOMAIN vocab)
     IN Require(/\ \A t \in DOMAIN vocab : vocab[t].t = "int" /\ vocab[t].v \in 0..(n - 1)
                /\ \A t, u \in DOMAIN vocab : vocab[t].v = vocab[u].v => t = u, Invalid)

\* The two parts of a merge, <<>> when the entry is neither serialization.
MergeParts(entry) ==
  CASE entry.t = "str" ->
         LET text == entry.v
             spaces == {i \in DOMAIN text : text[i] = 32}
             space == CHOOSE i \in spaces : TRUE
         IN IF Cardinality(spaces) # 1 \/ space = 1 \/ space = Len(text) THEN <<>>
            ELSE <<SubSeq(text, 1, space - 1), SubSeq(text, space + 1, Len(text))>>
    [] entry.t = "arr" ->
         IF Len(entry.v) = 2 /\ entry.v[1].t = "str" /\ entry.v[2].t = "str" THEN <<entry.v[1].v, entry.v[2].v>> ELSE <<>>
    [] OTHER -> <<>>

ParseMerges(model) ==
  Require(Is(model, "merges", "arr"), Invalid)
  && LET merges == model.v["merges"].v
         vocab == DOMAIN model.v["vocab"].v
         parts(i) == MergeParts(merges[i])
     IN Require(\A i \in DOMAIN merges :
                  /\ parts(i) # <<>>
                  /\ {parts(i)[1], parts(i)[2], parts(i)[1] \o parts(i)[2]} \subseteq vocab
                  /\ \A j \in 1..(i - 1) : parts(i) # parts(j), Invalid)

ParseModel(root) ==
  Require(Is(root, "model", "obj"), Invalid)
  && LET model == root.v["model"]
     IN ComponentType(model) && (Require(model.v["type"].v = "BPE", Unimplemented)
        && (ParseModelFlags(model) && (ParseVocab(model) && ParseMerges(model))))

-----------------------------------------------------------------------------
(* Added tokens, and how they extend the id space.                          *)
ParseAddedToken(entry) ==
  Require(entry.t = "obj" /\ Has(entry, "id"), Invalid)
  && (IntValue(entry.v["id"]) && (Require(entry.v["id"].v >= 0 /\ Has(entry, "content"), Invalid)
  && (StringValue(entry.v["content"]) && (Require(entry.v["content"].v # <<>>, Invalid)
  && (OptionalBool(entry, "special") && (OptionalBool(entry, "lstrip") && (OptionalBool(entry, "rstrip")
  && (OptionalBool(entry, "normalized") && (OptionalBool(entry, "single_word")
  && Require(~BoolOr(entry, "single_word", FALSE), Unimplemented))))))))))

AddedToken(entry) ==
  [id |-> entry.v["id"].v, content |-> entry.v["content"].v, special |-> BoolOr(entry, "special", FALSE),
   lstrip |-> BoolOr(entry, "lstrip", FALSE), rstrip |-> BoolOr(entry, "rstrip", FALSE),
   normalized |-> BoolOr(entry, "normalized", FALSE)]
Entries(root) == IF AbsentOrNull(root, "added_tokens") THEN <<>> ELSE root.v["added_tokens"].v
AddedTokens(root) ==
  LET entries == Entries(root)
      tokens == {AddedToken(entries[i]) : i \in DOMAIN entries}
  IN SetToSortSeq(tokens, LAMBDA a, b : a.id < b.id)

ParseAddedTokens(root) ==
  Require(AbsentOrNull(root, "added_tokens") \/ Is(root, "added_tokens", "arr"), Invalid)
  && LET entries == Entries(root)
     IN EachLeaf(entries, ParseAddedToken)
        && Require(\A i, j \in DOMAIN entries : i # j =>
             AddedToken(entries[i]).id # AddedToken(entries[j]).id
             /\ AddedToken(entries[i]).content # AddedToken(entries[j]).content, Invalid)

BaseTokens(model) ==
  LET vocab == model.v["vocab"].v
  IN [i \in 1..Cardinality(DOMAIN vocab) |-> CHOOSE t \in DOMAIN vocab : vocab[t].v = i - 1]

\* One added token: annotates the base id it equals, or takes the next id.
MergeAdded(acc, t) ==
  LET base == t.id < acc.base
      clash == IF base THEN acc.tokens[t.id + 1] # t.content ELSE t.id # Len(acc.tokens)
      known == {i \in DOMAIN acc.tokens : acc.tokens[i] = t.content}
  IN IF acc.status # Ok THEN acc
     ELSE IF clash \/ \E i \in known : i # t.id + 1 THEN [acc EXCEPT !.status = Invalid]
     ELSE [acc EXCEPT !.tokens = IF base THEN @ ELSE Append(@, t.content),
                      !.bytes = IF base THEN [@ EXCEPT ![t.id + 1] = t.content] ELSE Append(@, t.content)]
Extend(tokens, bytes, added) ==
  IF \E i \in DOMAIN bytes : bytes[i] = <<>> THEN [status |-> Invalid]
  ELSE FoldLeft(MergeAdded,
                [status |-> Ok, base |-> Len(tokens), tokens |-> tokens, bytes |-> [i \in DOMAIN bytes |-> bytes[i][1]]],
                added)
Spelled(tokens, added) == Extend(tokens, [i \in DOMAIN tokens |-> unmap_alphabet_to_bytes(tokens[i])], added)
Vocabulary(root) == Spelled(BaseTokens(root.v["model"]), AddedTokens(root))

-----------------------------------------------------------------------------
(* The pipeline components.                                                 *)
\* The leaves of a component under its Sequence nodes, left to right; a malformed node is a leaf.
Malformed(node, key) ==
  ComponentType(node) # Ok \/ (node.v["type"].v = "Sequence" /\ ~Is(node, key, "arr"))
RECURSIVE Leaves(_, _)
Leaves(node, key) ==
  IF Malformed(node, key) \/ node.v["type"].v # "Sequence" THEN <<node>>
  ELSE FlattenSeq([i \in DOMAIN node.v[key].v |-> Leaves(node.v[key].v[i], key)])
FlattenComponents(node, key) ==
  Require(\A i \in DOMAIN Leaves(node, key) : ~Malformed(Leaves(node, key)[i], key), Invalid)

\* The tree is checked as it is walked, so the first bad node in that order decides.
ParseNormalizer(root) ==
  IF AbsentOrNull(root, "normalizer") THEN Ok
  ELSE EachLeaf(Leaves(root.v["normalizer"], "normalizers"), LAMBDA n :
         Require(~Malformed(n, "normalizers"), Invalid) && Require(n.v["type"].v = "NFC", Unimplemented))
Nfc(root) == ~AbsentOrNull(root, "normalizer") /\ Leaves(root.v["normalizer"], "normalizers") # <<>>

ParseSplit(node) ==
  Require(Is(node, "pattern", "obj"), Invalid) && (Require(Has(node.v["pattern"], "Regex"), Unimplemented)
  && (StringValue(node.v["pattern"].v["Regex"]) && (Require(Has(node, "behavior"), Invalid)
  && (StringValue(node.v["behavior"]) && (Require(node.v["behavior"].v = "Isolated", Unimplemented)
  && (OptionalBool(node, "invert") && Require(~BoolOr(node, "invert", FALSE), Unimplemented)))))))
ParseByteLevelPre(node) ==
  OptionalBool(node, "add_prefix_space") && (Require(~BoolOr(node, "add_prefix_space", TRUE), Unimplemented)
  && (OptionalBool(node, "use_regex") && Require(~BoolOr(node, "use_regex", TRUE), Unimplemented)))
PreLeaves(root) == Leaves(root.v["pre_tokenizer"], "pretokenizers")
ParsePreTokenizer(root) ==
  Require(~AbsentOrNull(root, "pre_tokenizer"), Unimplemented)
  && (FlattenComponents(root.v["pre_tokenizer"], "pretokenizers")
  && LET parts == PreLeaves(root)
     IN Require([i \in DOMAIN parts |-> parts[i].v["type"].v] = <<"Split", "ByteLevel">>, Unimplemented)
        && (ParseSplit(parts[1]) && ParseByteLevelPre(parts[2])))
Pattern(root) == PreLeaves(root)[1].v["pattern"].v["Regex"].v

ResolveSpecialToken(value, tp, size) ==
  Require(value.t = "obj" /\ Has(value, "id"), Invalid) && (StringValue(value.v["id"])
  && (Require(Is(tp, "special_tokens", "obj") /\ Has(tp.v["special_tokens"], value.v["id"].v), Invalid)
  && LET entry == tp.v["special_tokens"].v[value.v["id"].v]
     IN Require(entry.t = "obj" /\ Is(entry, "ids", "arr"), Invalid)
        && (Require(Len(entry.v["ids"].v) = 1, Unimplemented) && (IntValue(entry.v["ids"].v[1])
        && Require(entry.v["ids"].v[1].v \in 0..(size - 1), Invalid)))))
SpecialId(value, tp) == tp.v["special_tokens"].v[value.v["id"].v].v["ids"].v[1].v

\* Template entries are single-key objects <<kind, value>>; $A must come exactly once.
ParseTemplate(tp, size) ==
  Require(Is(tp, "single", "arr"), Invalid)
  && LET single == tp.v["single"].v
         sequences == {i \in DOMAIN single : single[i].t = "obj" /\ Has(single[i], "Sequence")}
         check(i) ==
           Require(single[i].t = "obj" /\ Cardinality(DOMAIN single[i].v) = 1, Invalid)
           && (IF Has(single[i], "Sequence")
               THEN LET value == single[i].v["Sequence"]
                    IN Require(\A j \in sequences : j >= i, Invalid)
                       && Require(value.t = "obj" /\ Is(value, "id", "str") /\ value.v["id"].v = "A", Invalid)
               ELSE Require(Has(single[i], "SpecialToken"), Unimplemented)
                    && ResolveSpecialToken(single[i].v["SpecialToken"], tp, size))
     IN EachLeaf([i \in DOMAIN single |-> i], check) && Require(sequences # {}, Invalid)

PostLeaves(root) ==
  IF AbsentOrNull(root, "post_processor") THEN <<>> ELSE Leaves(root.v["post_processor"], "processors")
Templates(root) == SelectSeq(PostLeaves(root), LAMBDA n : n.v["type"].v = "TemplateProcessing")
ParsePostProcessor(root, size) ==
  Require(\A i \in DOMAIN PostLeaves(root) : ~Malformed(PostLeaves(root)[i], "processors"), Invalid)
  && (Require(\A i \in DOMAIN PostLeaves(root) : PostLeaves(root)[i].v["type"].v \in {"ByteLevel", "TemplateProcessing"},
              Unimplemented)
  && (Require(Len(Templates(root)) <= 1, Unimplemented)
  && (IF Templates(root) = <<>> THEN Ok ELSE ParseTemplate(Templates(root)[1], size))))

\* The ids inserted before and after $A.
InsertedIds(tp, single, before) ==
  LET a == CHOOSE i \in DOMAIN single : Has(single[i], "Sequence")
      side == IF before THEN SubSeq(single, 1, a - 1) ELSE SubSeq(single, a + 1, Len(single))
  IN [i \in DOMAIN side |-> SpecialId(side[i].v["SpecialToken"], tp)]
Inserts(templates, before) ==
  IF templates = <<>> THEN <<>> ELSE InsertedIds(templates[1], templates[1].v["single"].v, before)

ParseDecoder(root) ==
  IF AbsentOrNull(root, "decoder") THEN Ok
  ELSE FlattenComponents(root.v["decoder"], "decoders")
       && Require(\A i \in DOMAIN Leaves(root.v["decoder"], "decoders") :
                    Leaves(root.v["decoder"], "decoders")[i].v["type"].v = "ByteLevel", Unimplemented)

-----------------------------------------------------------------------------
\* from_json: the first failing step's code, or the tokenizer.  from_file adds only the path to
\* the message, and NotFound for an unreadable file.
FromJsonStatus(root, vocab) ==
  Require(root.t = "obj", Invalid)
  && (RequireUnconfigured(root, "truncation") && (RequireUnconfigured(root, "padding")
  && (ParseModel(root) && (ParseAddedTokens(root) && (vocab.status
  && (ParseNormalizer(root) && (ParsePreTokenizer(root)
  && (Require(select_split_pattern(Pattern(root)) # <<>>, Unimplemented)
  && (ParsePostProcessor(root, Len(vocab.tokens)) && ParseDecoder(root))))))))))

Positions(s) == [x \in ToSet(s) |-> (CHOOSE i \in DOMAIN s : s[i] = x) - 1]
Assemble(root, status, vocab) ==
  IF status # Ok THEN [status |-> status]
  ELSE LET merges == root.v["model"].v["merges"].v
       IN [status |-> Ok,
           id_to_token |-> vocab.tokens, id_to_bytes |-> vocab.bytes, token_to_id |-> Positions(vocab.tokens),
           merge_ranks |-> Positions([i \in DOMAIN merges |-> MergeParts(merges[i])]),
           ignore_merges |-> BoolOr(root.v["model"], "ignore_merges", FALSE),
           nfc |-> Nfc(root), max_digit_run |-> select_split_pattern(Pattern(root))[1],
           added |-> AddedTokens(root), prefix |-> Inserts(Templates(root), TRUE), suffix |-> Inserts(Templates(root), FALSE)]
FromVocabulary(root, vocab) == Assemble(root, FromJsonStatus(root, vocab), vocab)
from_json(root) == FromVocabulary(root, Vocabulary(root))

-----------------------------------------------------------------------------
\* A file that is accepted gives a consistent tokenizer: the two directions of the vocabulary are
\* inverse and dense, a base id spells what its alphabet string maps to (an added one its content),
\* every merge makes a token, and every inserted id exists.
TokenizerConsistent(tk) ==
  /\ Len(tk.id_to_bytes) = Len(tk.id_to_token)
  /\ \A i \in DOMAIN tk.id_to_token : tk.token_to_id[tk.id_to_token[i]] = i - 1
  /\ Cardinality(DOMAIN tk.token_to_id) = Len(tk.id_to_token)
  /\ \A t \in ToSet(tk.added) : tk.token_to_id[t.content] = t.id /\ tk.id_to_bytes[t.id + 1] = t.content
  /\ \A p \in DOMAIN tk.merge_ranks : p[1] \o p[2] \in DOMAIN tk.token_to_id
  /\ \A i \in DOMAIN tk.prefix \union DOMAIN tk.suffix :
       \A ids \in {tk.prefix, tk.suffix} : i \in DOMAIN ids => ids[i] \in 0..(vocab_size(tk) - 1)
=============================================================================
