---------------------------- MODULE Pretokenize ----------------------------
(***************************************************************************)
(* tokenizer/pretokenize.cpp: the hand-written matcher that stands for the *)
(* Split regexes of the two supported tokenizer families.  cps is a        *)
(* sequence of code points, kInvalidByte among them; positions are 1-based *)
(* and a match is its length, 0 for none.                                  *)
(***************************************************************************)
EXTENDS Unicode
LOCAL INSTANCE SequencesExt

kInvalidByte == 1114112
Quote == 39
Space == 32
IsCrLf(c) == c \in {13, 10}
IsPunctClass(c) == c # kInvalidByte /\ ~is_whitespace(c) /\ ~is_letter(c) /\ ~is_number(c)
AsciiFold(c) == IF c \in 65..90 THEN c + 32 ELSE c

\* One past the last position of the run of Test that starts at i; i when there is none.
RunEnd(cps, i, Test(_)) ==
  LET stops == {j \in i..Len(cps) : ~Test(cps[j])}
  IN IF stops = {} THEN Len(cps) + 1 ELSE CHOOSE j \in stops : \A k \in stops : j <= k

\* s 115, t 116, m 109, d 100, r 114, e 101, v 118, l 108
MatchContraction(cps, i) ==
  LET at(k) == IF i + k <= Len(cps) THEN AsciiFold(cps[i + k]) ELSE 0
  IN IF cps[i] # Quote THEN 0
     ELSE IF at(1) \in {115, 116, 109, 100} THEN 2
     ELSE IF <<at(1), at(2)>> \in {<<114, 101>>, <<118, 101>>, <<108, 108>>} THEN 3 ELSE 0

PrefixOk(cps, i) ==
  /\ cps[i] # kInvalidByte /\ ~IsCrLf(cps[i]) /\ ~is_number(cps[i])
  /\ i + 1 <= Len(cps) /\ is_letter(cps[i + 1])
MatchLetterRun(cps, i) ==
  IF is_letter(cps[i]) THEN RunEnd(cps, i, is_letter) - i
  ELSE IF PrefixOk(cps, i) THEN RunEnd(cps, i + 1, is_letter) - i ELSE 0

MatchDigits(cps, i, max_digit_run) ==
  LET run == RunEnd(cps, i, is_number) - i IN IF run < max_digit_run THEN run ELSE max_digit_run

MatchPunctuationRun(cps, i) ==
  LET j == IF cps[i] = Space /\ i + 1 <= Len(cps) /\ IsPunctClass(cps[i + 1]) THEN i + 1 ELSE i
  IN IF ~IsPunctClass(cps[j]) THEN 0 ELSE RunEnd(cps, RunEnd(cps, j, IsPunctClass), IsCrLf) - i

MatchWhitespaceRun(cps, i) ==
  LET j == RunEnd(cps, i, is_whitespace)
      breaks == {k \in i..(j - 1) : IsCrLf(cps[k])}
  IN IF j = i THEN 0
     ELSE IF breaks # {} THEN (CHOOSE k \in breaks : \A l \in breaks : l <= k) - i + 1
     ELSE IF j > Len(cps) \/ j - i = 1 THEN j - i ELSE j - i - 1

FirstMatch(tried) == tried[CHOOSE a \in DOMAIN tried : tried[a] > 0 /\ \A b \in 1..(a - 1) : tried[b] = 0]
MatchAt(cps, i, max_digit_run) ==
  IF cps[i] = kInvalidByte THEN 1
  ELSE FirstMatch(<<MatchContraction(cps, i), MatchLetterRun(cps, i), MatchDigits(cps, i, max_digit_run),
                    MatchPunctuationRun(cps, i), MatchWhitespaceRun(cps, i), 1>>)

\* The known patterns by family; any other is unimplemented.
select_split_pattern(pattern) ==
  CASE pattern = "cl100k" -> <<3>> [] pattern = "qwen2" -> <<1>> [] OTHER -> <<>>

\* The characters of a text and the offset of each, undecodable bytes one by one.
RECURSIVE DecodeFrom(_, _)
DecodeFrom(text, pos) ==
  IF pos > Len(text) THEN <<>>
  ELSE LET d == decode_utf8(text, pos)
       IN IF d = <<>> THEN <<<<kInvalidByte, pos>>>> \o DecodeFrom(text, pos + 1)
          ELSE <<<<d[1], pos>>>> \o DecodeFrom(text, d[2])

RECURSIVE Spans(_, _, _)
Spans(cps, i, max_digit_run) ==
  IF i > Len(cps) THEN <<>>
  ELSE LET n == MatchAt(cps, i, max_digit_run) IN <<<<i, i + n>>>> \o Spans(cps, i + n, max_digit_run)

CodePoints(chars) == [i \in DOMAIN chars |-> chars[i][1]]
\* The bytes of each span of characters.
Slices(text, chars, spans) ==
  LET offset(i) == IF i > Len(chars) THEN Len(text) + 1 ELSE chars[i][2]
  IN [k \in DOMAIN spans |-> SubSeq(text, offset(spans[k][1]), offset(spans[k][2]) - 1)]
pretokenize(text, max_digit_run) ==
  LET chars == DecodeFrom(text, 1) IN Slices(text, chars, Spans(CodePoints(chars), 1, max_digit_run))

-----------------------------------------------------------------------------
(* Reference: the pattern's seven alternatives, each as the set of lengths  *)
(* it can match at i.  All are greedy, so an alternative's match is its     *)
(* longest; the pattern's is that of the first alternative that has one.    *)
All(cps, i, n, Test(_)) == \A k \in i..(i + n - 1) : Test(cps[k])
NotCrLfLN(c) == c # kInvalidByte /\ ~IsCrLf(c) /\ ~is_letter(c) /\ ~is_number(c)
Suffixes3 == {<<115>>, <<116>>, <<114, 101>>, <<118, 101>>, <<109>>, <<108, 108>>, <<100>>}

Alternative(a, cps, i, max_digit_run) ==
  LET Lens == 1..(Len(cps) - i + 1)
      word(n) == SubSeq(cps, i, i + n - 1)
      \* n characters: opt of the first class, then at least one of the second, then any of the third
      shape(n, First(_), Second(_), Third(_)) ==
        \E p \in 0..1, q \in 1..n : /\ p + q <= n
                                    /\ All(cps, i, p, First)
                                    /\ All(cps, i + p, q, Second)
                                    /\ All(cps, i + p + q, n - p - q, Third)
      none(c) == FALSE
      isSpace(c) == c = Space
  IN {n \in Lens :
       CASE a = 1 -> \E s \in Suffixes3 : [k \in 1..n |-> AsciiFold(word(n)[k])] = <<Quote>> \o s
         [] a = 2 -> shape(n, NotCrLfLN, is_letter, none)
         [] a = 3 -> n <= max_digit_run /\ All(cps, i, n, is_number)
         [] a = 4 -> shape(n, isSpace, IsPunctClass, IsCrLf)
         [] a = 5 -> \E k \in 0..(n - 1) : All(cps, i, k, is_whitespace) /\ All(cps, i + k, n - k, IsCrLf)
         [] a = 6 -> /\ All(cps, i, n, is_whitespace)
                     /\ i + n > Len(cps) \/ is_whitespace(cps[i + n])
         [] a = 7 -> All(cps, i, n, is_whitespace)}

RegexMatch(cps, i, max_digit_run) ==
  LET matching == {a \in 1..7 : Alternative(a, cps, i, max_digit_run) # {}}
      first == CHOOSE a \in matching : \A b \in matching : a <= b
      lens == Alternative(first, cps, i, max_digit_run)
  IN IF matching = {} THEN 1 ELSE CHOOSE n \in lens : \A m \in lens : m <= n

\* The pre-tokens split the text where the regex does, an undecodable byte standing alone, and
\* nothing of the text is lost.
SplitsLikeTheRegex(text, max_digit_run, spans) ==
  LET chars == DecodeFrom(text, 1)
      count(s) == Len(DecodeFrom(s, 1))
      start(k) == 1 + FoldLeftDomain(LAMBDA acc, j : IF j < k THEN acc + count(spans[j]) ELSE acc, 0, spans)
  IN /\ FlattenSeq(spans) = text
     /\ \A k \in DOMAIN spans : count(spans[k]) = RegexMatch(CodePoints(chars), start(k), max_digit_run)
=============================================================================
