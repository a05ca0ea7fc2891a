----------------------------- MODULE Tokenizer -----------------------------
(***************************************************************************)
(* tokenizer/bpe.cpp and the encode and decode sides of tokenizer.cpp.  A  *)
(* tokenizer is a record: token_to_id (a function on byte strings),        *)
(* id_to_token and id_to_bytes (sequences; id n is entry n + 1),           *)
(* merge_ranks (a function on pairs of symbols), ignore_merges, nfc,       *)
(* max_digit_run, added (the added tokens, by id), prefix and suffix.      *)
(***************************************************************************)
EXTENDS Pretokenize
LOCAL INSTANCE SequencesExt

-----------------------------------------------------------------------------
(* The byte-level alphabet.                                                 *)
IsPrintableLatin(b) == b \in 33..126 \/ b \in 161..172 \/ b \in 174..255
byte_to_alphabet(b) ==
  IF IsPrintableLatin(b) THEN b ELSE 256 + Cardinality({c \in 0..(b - 1) : ~IsPrintableLatin(c)})
Alphabet == [b \in 0..255 |-> byte_to_alphabet(b)]
\* -1 for a code point outside the alphabet.
alphabet_to_byte(c) == IF \E b \in 0..255 : Alphabet[b] = c THEN CHOOSE b \in 0..255 : Alphabet[b] = c ELSE -1

map_bytes_to_alphabet(raw) == FlattenSeq([i \in DOMAIN raw |-> append_utf8(Alphabet[raw[i]])])
\* <<bytes>>, or <<>> when the token is not an alphabet string.
AllMapped(bytes) == IF \E i \in DOMAIN bytes : bytes[i] = -1 THEN <<>> ELSE <<SubSeq(bytes, 1, Len(bytes))>>
BytesOfChars(chars) == AllMapped([i \in DOMAIN chars |-> alphabet_to_byte(chars[i][1])])
unmap_alphabet_to_bytes(token) == BytesOfChars(DecodeFrom(token, 1))

-----------------------------------------------------------------------------
(* The merge loop.                                                          *)
Symbols(word) ==
  LET starts == {i \in DOMAIN word : ~IsCont(word[i])}
      starting == SetToSortSeq(starts, <)
      stop(k) == IF k = Len(starting) THEN Len(word) ELSE starting[k + 1] - 1
  IN [k \in DOMAIN starting |-> SubSeq(word, starting[k], stop(k))]

\* Mutant: the leftmost pair that has a rank, whatever it is.
FirstPair(symbols, ranks) ==
  LET ranked == {i \in 1..(Len(symbols) - 1) : <<symbols[i], symbols[i + 1]>> \in DOMAIN ranks}
  IN IF ranked = {} THEN 0 ELSE CHOOSE i \in ranked : \A j \in ranked : i <= j
\* The leftmost of the pairs of lowest rank; 0 when no adjacent pair has a rank.
BestPair(symbols, ranks) ==
  LET ranked == {i \in 1..(Len(symbols) - 1) : <<symbols[i], symbols[i + 1]>> \in DOMAIN ranks}
      rank(i) == ranks[<<symbols[i], symbols[i + 1]>>]
  IN IF ranked = {} THEN 0
     ELSE CHOOSE i \in ranked : \A j \in ranked : rank(i) < rank(j) \/ (rank(i) = rank(j) /\ i <= j)

MergeAt(symbols, i) ==
  SubSeq(symbols, 1, i - 1) \o <<symbols[i] \o symbols[i + 1]>> \o SubSeq(symbols, i + 2, Len(symbols))
RECURSIVE Merge(_, _)
Merge(symbols, ranks) ==
  LET best == BestPair(symbols, ranks) IN IF best = 0 THEN symbols ELSE Merge(MergeAt(symbols, best), ranks)
bpe_split(word, ranks) == Merge(Symbols(word), ranks)

-----------------------------------------------------------------------------
(* Encoding.  A failure is the sequence <<-1>>, which no id sequence is.    *)
Failed == <<-1>>
\* Sequenced results: the first failure, or all of them joined.
Joined(a, b) == IF a = Failed \/ b = Failed THEN Failed ELSE a \o b
Join(parts, Result(_)) == FoldLeft(LAMBDA ids, part : Joined(ids, Result(part)), <<>>, parts)

IdsOf(tk, symbols) ==
  IF \E i \in DOMAIN symbols : symbols[i] \notin DOMAIN tk.token_to_id THEN Failed
  ELSE [i \in DOMAIN symbols |-> tk.token_to_id[symbols[i]]]
append_pretoken_ids(tk, bytes) ==
  LET word == map_bytes_to_alphabet(bytes)
  IN IF tk.ignore_merges /\ word \in DOMAIN tk.token_to_id THEN <<tk.token_to_id[word]>>
     ELSE IdsOf(tk, bpe_split(word, tk.merge_ranks))

RECURSIVE StripWhitespaceBackward(_, _, _)
StripWhitespaceBackward(text, begin, floor) ==
  IF begin <= floor THEN begin
  ELSE LET leads == {i \in floor..(begin - 1) : i = floor \/ ~IsCont(text[i])}
           lead == CHOOSE i \in leads : \A j \in leads : j <= i
           d == decode_utf8(text, lead)
       IN IF d = <<>> \/ d[2] # begin \/ ~is_whitespace(d[1]) THEN begin
          ELSE StripWhitespaceBackward(text, lead, floor)
RECURSIVE StripWhitespaceForward(_, _)
StripWhitespaceForward(text, end) ==
  IF end > Len(text) THEN end
  ELSE LET d == decode_utf8(text, end)
       IN IF d = <<>> \/ ~is_whitespace(d[1]) THEN end ELSE StripWhitespaceForward(text, d[2])

StartsWith(text, pos, s) == pos + Len(s) - 1 <= Len(text) /\ SubSeq(text, pos, pos + Len(s) - 1) = s
\* The longest added token of the wanted kind at pos; <<>> for none.
MatchAdded(tk, text, pos, normalized) ==
  LET here == {t \in ToSet(tk.added) : t.normalized = normalized /\ StartsWith(text, pos, t.content)}
  IN IF here = {} THEN <<>> ELSE <<CHOOSE t \in here : \A u \in here : Len(u.content) <= Len(t.content)>>

\* Pieces are <<text, -1>> or <<<<>>, id>>; start is where the current text piece begins.
RECURSIVE SplitFrom(_, _, _, _, _)
SplitFrom(tk, text, normalized, start, pos) ==
  IF pos > Len(text)
  THEN IF start <= Len(text) THEN <<<<SubSeq(text, start, Len(text)), -1>>>> ELSE <<>>
  ELSE LET m == MatchAdded(tk, text, pos, normalized)
       IN IF m = <<>> THEN SplitFrom(tk, text, normalized, start, pos + 1)
          ELSE LET after == pos + Len(m[1].content)
                   begin == IF m[1].lstrip THEN StripWhitespaceBackward(text, pos, start) ELSE pos
                   end == IF m[1].rstrip THEN StripWhitespaceForward(text, after) ELSE after
               IN (IF begin > start THEN <<<<SubSeq(text, start, begin - 1), -1>>>> ELSE <<>>)
                  \o <<<<<<>>, m[1].id>>>>
                  \o SplitFrom(tk, text, normalized, end, end)
SplitOnAddedTokens(tk, text, normalized) == SplitFrom(tk, text, normalized, 1, 1)

\* Pieces that are added tokens stand for themselves.
EncodePieces(pieces, Text(_)) == Join(pieces, LAMBDA p : IF p[2] >= 0 THEN <<p[2]>> ELSE Text(p[1]))
EncodePretokens(tk, text) == Join(pretokenize(text, tk.max_digit_run), LAMBDA pre : append_pretoken_ids(tk, pre))
encode_text_segment(tk, segment) ==
  EncodePieces(SplitOnAddedTokens(tk, IF tk.nfc THEN nfc_normalize(segment) ELSE segment, TRUE),
               LAMBDA text : EncodePretokens(tk, text))

\* Where the run of positions that decode (or, for bad, that do not) ends.
RECURSIVE ValidEnd(_, _)
ValidEnd(text, pos) ==
  IF pos > Len(text) \/ decode_utf8(text, pos) = <<>> THEN pos ELSE ValidEnd(text, decode_utf8(text, pos)[2])
RECURSIVE InvalidEnd(_, _)
InvalidEnd(text, pos) == IF pos > Len(text) \/ decode_utf8(text, pos) # <<>> THEN pos ELSE InvalidEnd(text, pos + 1)

\* A raw text piece: valid spans through the segment encoder, each invalid run one pre-token.
RECURSIVE EncodeRaw(_, _)
EncodeRaw(tk, text) ==
  IF text = <<>> THEN <<>>
  ELSE LET v == ValidEnd(text, 1)
           e == IF v = 1 THEN InvalidEnd(text, 1) ELSE v
       IN Joined(IF v = 1 THEN append_pretoken_ids(tk, SubSeq(text, 1, e - 1)) ELSE encode_text_segment(tk, SubSeq(text, 1, e - 1)),
                 EncodeRaw(tk, SubSeq(text, e, Len(text))))

Framed(tk, ids, add_special_tokens) ==
  IF add_special_tokens /\ ids # Failed THEN tk.prefix \o ids \o tk.suffix ELSE ids
encode(tk, text, add_special_tokens) ==
  Framed(tk, EncodePieces(SplitOnAddedTokens(tk, text, FALSE), LAMBDA raw : EncodeRaw(tk, raw)), add_special_tokens)

-----------------------------------------------------------------------------
(* Decoding and the lookups.                                                *)
vocab_size(tk) == Len(tk.id_to_token)
token_bytes(tk, id) == IF id < 0 \/ id >= Len(tk.id_to_bytes) THEN <<>> ELSE <<tk.id_to_bytes[id + 1]>>
added_token(tk, id) == {t \in ToSet(tk.added) : t.id = id}
is_special(tk, id) == \E t \in added_token(tk, id) : t.special
bos_id(tk) == IF tk.prefix = <<>> THEN <<>> ELSE <<Head(tk.prefix)>>
eos_id(tk) == IF tk.suffix = <<>> THEN <<>> ELSE <<Last(tk.suffix)>>

DecodedBytes(tk, ids, skip) ==
  FlattenSeq([i \in DOMAIN ids |-> IF skip /\ is_special(tk, ids[i]) THEN <<>> ELSE token_bytes(tk, ids[i])[1]])
decode(tk, ids, skip) ==
  IF \E i \in DOMAIN ids : token_bytes(tk, ids[i]) = <<>> THEN Failed
  ELSE append_utf8_lossy(DecodedBytes(tk, ids, skip))

-----------------------------------------------------------------------------
(* Reference.                                                               *)
\* The rules applied one after the other, each to every occurrence from the left: the textbook
\* byte-pair encoding, for rules listed after those that make their parts.
RECURSIVE ApplyRule(_, _, _)
ApplyRule(symbols, pair, i) ==
  IF i >= Len(symbols) THEN symbols
  ELSE IF <<symbols[i], symbols[i + 1]>> = pair THEN ApplyRule(MergeAt(symbols, i), pair, i + 1)
  ELSE ApplyRule(symbols, pair, i + 1)
RulesInOrder(word, ranks) ==
  LET rules == SetToSortSeq(DOMAIN ranks, LAMBDA p, q : ranks[p] < ranks[q])
  IN FoldLeft(LAMBDA acc, pair : ApplyRule(acc, pair, 1), Symbols(word), rules)

Occurs(s, t) == \E i \in DOMAIN t : StartsWith(t, i, s)
Visible(bytes) == SelectSeq(bytes, LAMBDA b : ~is_whitespace(b))
StrictlyValid(text) == append_utf8_lossy(text) = text
RawAddedIn(tk, text) == {t \in ToSet(tk.added) : ~t.normalized /\ Occurs(t.content, text)}
\* The runs of ids that are not added tokens, as the bytes they stand for.
TextRuns(tk, ids) ==
  LET plain == {i \in DOMAIN ids : added_token(tk, ids[i]) = {}}
      runs == {<<i, j>> \in plain \X plain : i..j \subseteq plain /\ i - 1 \notin plain /\ j + 1 \notin plain}
  IN {DecodedBytes(tk, SubSeq(ids, r[1], r[2]), FALSE) : r \in runs}

\* Encoding with a complete vocabulary never fails; the ids spell the text back, whitespace taken
\* by a stripping token and NFC aside; every special token embedded in the text became its id,
\* whatever is around it; and a text without added tokens is the textbook encoding of its
\* pre-tokens.
EncodesTheText(tk, text, ids) ==
  LET strips == \E t \in RawAddedIn(tk, text) : t.lstrip \/ t.rstrip
      source == IF tk.nfc /\ RawAddedIn(tk, text) = {} THEN nfc_normalize(text) ELSE text
      spelled == DecodedBytes(tk, ids, FALSE)
  IN /\ ids # Failed
     /\ ~tk.nfc \/ RawAddedIn(tk, text) = {} =>
          IF strips THEN Visible(spelled) = Visible(source) ELSE spelled = source
     /\ tk.nfc \/ \A run \in TextRuns(tk, ids) : RawAddedIn(tk, run) = {}
     /\ StrictlyValid(spelled) => decode(tk, ids, FALSE) = spelled
     /\ ~tk.ignore_merges /\ StrictlyValid(source) /\ (\A t \in ToSet(tk.added) : ~Occurs(t.content, source)) =>
          ids = Join(pretokenize(source, tk.max_digit_run), LAMBDA pre : IdsOf(tk, RulesInOrder(map_bytes_to_alphabet(pre), tk.merge_ranks)))
=============================================================================
