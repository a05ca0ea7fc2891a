------------------------------ MODULE Unicode ------------------------------
(***************************************************************************)
(* tokenizer/unicode.cpp: the lenient UTF-8 codec, the category lookups    *)
(* and NFC.  A string is a sequence of bytes 0..255, a character a code    *)
(* point.  The generated tables are an excerpt with every shape of row     *)
(* NFC distinguishes: composed letters of one and two marks, a singleton,  *)
(* marks of two combining classes, and the algorithmic Hangul syllables.   *)
(***************************************************************************)
EXTENDS Integers, Sequences, FiniteSets
LOCAL INSTANCE SequencesExt

-----------------------------------------------------------------------------
(* unicode_data.inc, in excerpt: ranges <<lo, hi>> sorted by lo.            *)
kLetterRanges == <<<<65, 90>>, <<97, 122>>, <<192, 214>>, <<224, 246>>, <<4352, 4607>>, <<44032, 55203>>>>
kNumberRanges == <<<<48, 57>>, <<178, 179>>>>
kWhitespaceRanges == <<<<9, 13>>, <<32, 32>>, <<160, 160>>>>
\* grave 768, acute 769, ring 778 (class 230); cedilla 807 (class 202)
kCccRanges == <<<<768, 788, 230>>, <<807, 808, 202>>>>
\* e-acute, e-cedilla, e with cedilla and acute, A-ring, the Angstrom sign
kDecomp == (233 :> <<101, 769>>) @@ (553 :> <<101, 807>>) @@ (7708 :> <<101, 807, 769>>)
           @@ (197 :> <<65, 778>>) @@ (8491 :> <<65, 778>>)
kComp == (<<101, 769>> :> 233) @@ (<<101, 807>> :> 553) @@ (<<553, 769>> :> 7708) @@ (<<65, 778>> :> 197)
kNfcNoOrMaybeRanges == <<<<768, 788>>, <<807, 808>>, <<4449, 4469>>, <<4520, 4546>>, <<8491, 8491>>>>

\* The last range that starts at or before the code point: upper_bound, then one back; 0 for none.
RangeBefore(ranges, c) == Cardinality({i \in DOMAIN ranges : ranges[i][1] <= c})
InRanges(ranges, c) == LET i == RangeBefore(ranges, c) IN i > 0 /\ c <= ranges[i][2]
CombiningClass(c) ==
  LET i == RangeBefore(kCccRanges, c) IN IF i = 0 \/ c > kCccRanges[i][2] THEN 0 ELSE kCccRanges[i][3]
CanonicalDecomposition(c) == IF c \in DOMAIN kDecomp THEN kDecomp[c] ELSE <<>>
is_letter(c) == InRanges(kLetterRanges, c)
is_number(c) == InRanges(kNumberRanges, c)
is_whitespace(c) == InRanges(kWhitespaceRanges, c)

-----------------------------------------------------------------------------
(* The codec.                                                               *)
append_utf8(c) ==
  LET cont(k) == 128 + ((c \div k) % 64)
  IN CASE c < 128   -> <<c>>
       [] c >= 128 /\ c < 2048    -> <<192 + c \div 64, cont(1)>>
       [] c >= 2048 /\ c < 65536  -> <<224 + c \div 4096, cont(64), cont(1)>>
       [] OTHER     -> <<240 + c \div 262144, cont(4096), cont(64), cont(1)>>

\* Length and payload the lead byte announces; length 0 for a byte that leads nothing.
Lead(b) == CASE b < 128 -> <<1, b>> [] b \in 192..223 -> <<2, b - 192>> [] b \in 224..239 -> <<3, b - 224>>
             [] b \in 240..247 -> <<4, b - 240>> [] OTHER -> <<0, 0>>
IsCont(b) == b \in 128..191

\* The sequence at pos (1-based): <<code point, next pos>>, or <<>> when it does not decode.
decode_utf8(text, pos) ==
  LET len == Lead(text[pos])[1]
      value == FoldLeftDomain(LAMBDA acc, i : IF i = 1 THEN Lead(text[pos])[2] ELSE acc * 64 + (text[pos + i - 1] - 128),
                              0, [i \in 1..len |-> i])
  IN IF len = 0 \/ pos + len - 1 > Len(text) \/ \E i \in 1..(len - 1) : ~IsCont(text[pos + i])
     THEN <<>> ELSE <<value, pos + len>>

\* The strict classifier: announced length (0: leads nothing) and the second byte's range.
Strict(b) == CASE b < 128 -> <<1, 128, 191>> [] b \in 194..223 -> <<2, 128, 191>>
               [] b = 224 -> <<3, 160, 191>> [] b = 237 -> <<3, 128, 159>> [] b \in 225..239 \ {237} -> <<3, 128, 191>>
               [] b = 240 -> <<4, 144, 191>> [] b = 244 -> <<4, 128, 143>> [] b \in 241..243 -> <<4, 128, 191>>
               [] OTHER -> <<0, 0, 0>>
\* <<kind, length>> of the sequence that leads bytes.
classify_utf8_prefix(bytes) ==
  LET s == Strict(bytes[1])
      good(i) == IF i = 2 THEN bytes[2] \in s[2]..s[3] ELSE IsCont(bytes[i])
      bad == {i \in 2..s[1] : i > Len(bytes) \/ ~good(i)}
      first == CHOOSE i \in bad : \A j \in bad : i <= j
  IN IF s[1] = 0 THEN <<"invalid", 1>>
     ELSE IF bad = {} THEN <<"complete", s[1]>>
     ELSE IF first > Len(bytes) THEN <<"incomplete", Len(bytes)>> ELSE <<"invalid", first - 1>>

RECURSIVE append_utf8_lossy(_)
append_utf8_lossy(bytes) ==
  IF bytes = <<>> THEN <<>>
  ELSE LET part == classify_utf8_prefix(bytes)
       IN (IF part[1] = "complete" THEN SubSeq(bytes, 1, part[2]) ELSE append_utf8(65533))
          \o append_utf8_lossy(SubSeq(bytes, part[2] + 1, Len(bytes)))

Encode(cps) == FlattenSeq([i \in DOMAIN cps |-> append_utf8(cps[i])])

-----------------------------------------------------------------------------
(* NFC.                                                                     *)
kS == 44032
kL == 4352
kV == 4449
kT == 4519
kVCount == 21
kTCount == 28
kNCount == 588
kSCount == 11172
IsSyllable(c) == c \in kS..(kS + kSCount - 1)

DecomposeHangul(c) ==
  LET i == c - kS
  IN <<kL + i \div kNCount, kV + (i % kNCount) \div kTCount>>
     \o (IF i % kTCount # 0 THEN <<kT + (i % kTCount)>> ELSE <<>>)

\* 0 for a pair that does not compose.
ComposePair(a, b) ==
  IF a \in kL..(kL + 18) /\ b \in kV..(kV + kVCount - 1)
  THEN kS + ((a - kL) * kVCount + (b - kV)) * kTCount
  ELSE IF IsSyllable(a) /\ (a - kS) % kTCount = 0 /\ b > kT /\ b < kT + kTCount
  THEN a + (b - kT)
  ELSE IF <<a, b>> \in DOMAIN kComp THEN kComp[<<a, b>>] ELSE 0

IsNfcInert(c) == CombiningClass(c) = 0 /\ ~InRanges(kNfcNoOrMaybeRanges, c)

Expand(c) == IF IsSyllable(c) THEN DecomposeHangul(c)
             ELSE IF CanonicalDecomposition(c) = <<>> THEN <<c>> ELSE CanonicalDecomposition(c)
Decompose(cps) == FlattenSeq([i \in DOMAIN cps |-> Expand(cps[i])])

\* The insertion pass: element i moves left past every element of higher class.
RECURSIVE SwapDown(_, _)
SwapDown(s, j) ==
  IF j > 1 /\ CombiningClass(s[j - 1]) > CombiningClass(s[j])
  THEN SwapDown([s EXCEPT ![j - 1] = s[j], ![j] = s[j - 1]], j - 1) ELSE s
CanonicalOrder(s) ==
  FoldLeftDomain(LAMBDA acc, i : IF i = 1 \/ CombiningClass(acc[i]) = 0 THEN acc ELSE SwapDown(acc, i), s, s)

\* A mark is blocked from the starter by one of equal or higher class before it.
Blocked(last_ccc, ccc) == ~(last_ccc < ccc \/ last_ccc = 0)

\* The streaming composition: st = [out, starter, pos, last].
ComposeStep(st, c) ==
  LET ccc == CombiningClass(c)
      composed == ComposePair(st.starter, c)
  IN IF composed # 0 /\ ~Blocked(st.last, ccc)
     THEN [st EXCEPT !.out[st.pos] = composed, !.starter = composed]
     ELSE [out |-> Append(st.out, c), last |-> ccc,
           starter |-> IF ccc = 0 THEN c ELSE st.starter,
           pos |-> IF ccc = 0 THEN Len(st.out) + 1 ELSE st.pos]
Compose(s) ==
  FoldLeft(ComposeStep,
           [out |-> <<s[1]>>, starter |-> s[1], pos |-> 1, last |-> IF CombiningClass(s[1]) = 0 THEN 0 ELSE 256],
           Tail(s)).out

NormalizeSegment(cps) == IF cps = <<>> THEN <<>> ELSE Encode(Compose(CanonicalOrder(Decompose(cps))))

\* Every byte decodes to an inert character from pos on.
RECURSIVE Inert(_, _)
Inert(text, pos) ==
  \/ pos > Len(text)
  \/ /\ decode_utf8(text, pos) # <<>>
     /\ text[pos] < 128 \/ IsNfcInert(decode_utf8(text, pos)[1])
     /\ Inert(text, decode_utf8(text, pos)[2])

RECURSIVE NormalizeFrom(_, _, _)
NormalizeFrom(text, pos, buffer) ==
  IF pos > Len(text) THEN NormalizeSegment(buffer)
  ELSE LET d == decode_utf8(text, pos)
       IN IF d # <<>> THEN NormalizeFrom(text, d[2], Append(buffer, d[1]))
          ELSE NormalizeSegment(buffer) \o <<text[pos]>> \o NormalizeFrom(text, pos + 1, <<>>)

nfc_normalize(text) == IF Inert(text, 1) THEN text ELSE NormalizeFrom(text, 1, <<>>)

-----------------------------------------------------------------------------
(* Reference.                                                               *)
\* The characters and undecodable bytes (as negative numbers) of a text.
RECURSIVE Chars(_, _)
Chars(text, pos) ==
  IF pos > Len(text) THEN <<>>
  ELSE LET d == decode_utf8(text, pos)
       IN IF d = <<>> THEN <<-text[pos]>> \o Chars(text, pos + 1) ELSE <<d[1]>> \o Chars(text, d[2])

\* Canonically equivalent: equal full decompositions up to reordering marks of different classes,
\* which is to say: per run between starters, the marks of each class in the same order.
Decomposed(chars) == FlattenSeq([i \in DOMAIN chars |-> IF chars[i] < 0 THEN <<chars[i]>> ELSE Expand(chars[i])])
Class(c) == IF c < 0 THEN 0 ELSE CombiningClass(c)
\* Each mark tagged with the number of starters before it, split by class.
OfRun(s, n, k) ==
  LET tagged == [i \in DOMAIN s |-> <<Cardinality({j \in 1..i : Class(s[j]) = 0}), Class(s[i]), s[i]>>]
  IN SelectSeq(tagged, LAMBDA t : t[1] = n /\ t[2] = k)
Equivalent(a, b) ==
  /\ Len(a) = Len(b)
  /\ \A n \in 0..Len(a), k \in {0, 202, 230} : OfRun(a, n, k) = OfRun(b, n, k)

\* Nothing of the result could still be composed or is out of order: position j is reachable
\* from its starter i when everything between has a lower, non-zero class.
Composable(s, i, j) ==
  /\ i < j /\ s[i] > 0 /\ s[j] > 0 /\ Class(s[i]) = 0
  /\ \A k \in (i + 1)..(j - 1) : Class(s[k]) # 0 /\ Class(s[k]) < Class(s[j])
  /\ ComposePair(s[i], s[j]) # 0
Composed(s) ==
  /\ \A i, j \in DOMAIN s : ~Composable(s, i, j)
  /\ \A i \in 1..(Len(s) - 1) : Class(s[i + 1]) = 0 \/ Class(s[i]) <= Class(s[i + 1])

\* NFC as Unicode defines it: canonically equivalent to the text, ordered and fully composed, stable
\* under a second pass (no singleton left), undecodable bytes kept as barriers.
NfcCorrect(text, out) ==
  LET in == Decomposed(Chars(text, 1))
      res == Chars(out, 1)
  IN /\ Equivalent(in, Decomposed(res))
     /\ Composed(res)
     /\ nfc_normalize(out) = out

\* The codec reads back what it wrote, whatever the length.
RoundTrips(c) == decode_utf8(append_utf8(c), 1) = <<c, Len(append_utf8(c)) + 1>>
=============================================================================
