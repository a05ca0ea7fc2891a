---------------------------- MODULE OutputProofs ----------------------------
(***************************************************************************)
(* The way of the output: from sampled ids to text (TextStream), for every *)
(* vocabulary, every list of stop strings and every cut of the bytes into  *)
(* tokens, and through the per-request channel (OutputChannel), for any    *)
(* number of client threads and of items.                                  *)
(*                                                                         *)
(* The two decoders and FlattenSeq are recursive; that such a function     *)
(* exists and satisfies its equation is RecursionExists, and what it       *)
(* computes is shown by induction over the length of the text.  The core   *)
(* is DrainJoin (draining two pieces is draining the second behind the     *)
(* carry of the first) and LossyIsDrain (the batch decoder is the drain    *)
(* with its carry replaced).  The matcher rests on Arriving: new bytes can *)
(* complete only a stop string that the old ones had begun, and none is    *)
(* begun in what was already shown.                                        *)
(***************************************************************************)
EXTENDS OutputChannel, TextStream, OrderedSeqsProofs

\* Sequences of bytes.
Text == Seq(Byte)

(* Sequences: what concatenation and extraction hold, place by place. *)

\* The text before a place and the text after it.
LEMMA CutPoint ==
  ASSUME NEW X, NEW s \in Seq(X), NEW n \in Nat, NEW j \in Nat, Len(s) = n + j
  PROVE  /\ Rest(s, n) \in Seq(X) /\ Len(Rest(s, n)) = j
         /\ \A k \in 1..j : Rest(s, n)[k] = s[n + k]
         /\ SubSeq(s, 1, n) \in Seq(X) /\ Len(SubSeq(s, 1, n)) = n
         /\ \A k \in 1..n : SubSeq(s, 1, n)[k] = s[k]
<1>1. /\ Rest(s, n) \in Seq(X) /\ Len(Rest(s, n)) = j
      /\ \A k \in 1..j : Rest(s, n)[k] = s[n + k]
  <2>1. PICK m \in Nat : m = Len(s) /\ m = n + j
    OBVIOUS
  <2>2. PICK r : r = SubSeq(s, n + 1, m)
    OBVIOUS
  <2>3. r \in Seq(X) /\ Len(r) = j
    BY <2>1, <2>2
  <2>4. \A k \in 1..j : r[k] = s[n + k]
    BY <2>1, <2>2
  <2> QED
    BY <2>1, <2>2, <2>3, <2>4 DEF Rest
<1>2. /\ SubSeq(s, 1, n) \in Seq(X) /\ Len(SubSeq(s, 1, n)) = n
      /\ \A k \in 1..n : SubSeq(s, 1, n)[k] = s[k]
  OBVIOUS
<1> QED
  BY <1>1, <1>2

\* Sequences with the same elements are the same.
LEMMA SameSeq ==
  ASSUME NEW X, NEW s \in Seq(X), NEW t \in Seq(X), Len(s) = Len(t),
         \A k \in 1..Len(s) : s[k] = t[k]
  PROVE  s = t
OBVIOUS

\* Three pieces join in either order.
Associates(s, t, u) == s \o (t \o u) = (s \o t) \o u

\* Concatenation is associative.
LEMMA Joins ==
  ASSUME NEW X, NEW s \in Seq(X), NEW t \in Seq(X), NEW u \in Seq(X)
  PROVE  Associates(s, t, u)
BY DEF Associates

\* What concatenation holds at each place.
LEMMA JoinPoint ==
  ASSUME NEW X, NEW s \in Seq(X), NEW t \in Seq(X), NEW m \in Nat, NEW l \in Nat,
         m = Len(s), l = Len(t)
  PROVE  /\ s \o t \in Seq(X) /\ Len(s \o t) = m + l
         /\ \A k \in 1..m : (s \o t)[k] = s[k]
         /\ \A k \in 1..l : (s \o t)[m + k] = t[k]
OBVIOUS

\* A place of a sequence in two parts is in one of them.
LEMMA InParts ==
  ASSUME NEW m \in Nat, NEW l \in Nat, NEW k \in 1..(m + l)
  PROVE  k \in 1..m \/ \E i \in 1..l : k = m + i
<1>1. CASE ~(k <= m)
  <2>1. k - m \in 1..l /\ k = m + (k - m)
    BY <1>1
  <2> QED
    BY <2>1
<1> QED
  BY <1>1

\* A sequence is what stands before a place and what stands after it.
LEMMA CutJoin ==
  ASSUME NEW X, NEW s \in Seq(X), NEW n \in Nat, NEW j \in Nat, Len(s) = n + j
  PROVE  SubSeq(s, 1, n) \o Rest(s, n) = s
<1>1. PICK a : a = SubSeq(s, 1, n)
  OBVIOUS
<1>2. a \in Seq(X) /\ n = Len(a) /\ \A k \in 1..n : a[k] = s[k]
  BY <1>1
<1>3. PICK b : b = Rest(s, n)
  OBVIOUS
<1>4. b \in Seq(X) /\ j = Len(b) /\ \A k \in 1..j : b[k] = s[n + k]
  BY <1>3 DEF Rest
<1>5. PICK c : c = a \o b
  OBVIOUS
<1>6. /\ c \in Seq(X) /\ Len(c) = n + j
      /\ \A k \in 1..n : c[k] = a[k]
      /\ \A k \in 1..j : c[n + k] = b[k]
  <2>1. a \in Seq(X) /\ n = Len(a) /\ b \in Seq(X) /\ j = Len(b)
    BY <1>2, <1>4
  <2> QED
    BY <1>5, <2>1, JoinPoint
<1>7. ASSUME NEW k \in 1..(n + j) PROVE c[k] = s[k]
  <2>1. k \in 1..n \/ \E i \in 1..j : k = n + i
    BY InParts
  <2>2. ASSUME NEW i \in 1..j, k = n + i PROVE c[k] = s[k]
    BY <1>4, <1>6, <2>2
  <2>3. CASE k \in 1..n
    BY <1>2, <1>6, <2>3
  <2> QED
    BY <2>1, <2>2, <2>3
<1>8. c = s
  BY <1>6, <1>7, SameSeq
<1> QED
  BY <1>1, <1>3, <1>5, <1>8

\* The beginning of a longer sequence.
LEMMA CutLonger ==
  ASSUME NEW X, NEW s \in Seq(X), NEW t \in Seq(X), NEW n \in Nat, NEW j \in Nat,
         Len(s) = n + j
  PROVE  /\ Rest(s \o t, n) = Rest(s, n) \o t
         /\ SubSeq(s \o t, 1, n) = SubSeq(s, 1, n)
<1>1. PICK a : a = SubSeq(s, 1, n)
  OBVIOUS
<1>2. a \in Seq(X) /\ n = Len(a) /\ \A k \in 1..n : a[k] = s[k]
  BY <1>1
<1>3. PICK b : b = Rest(s, n)
  OBVIOUS
<1>4. b \in Seq(X) /\ j = Len(b) /\ \A k \in 1..j : b[k] = s[n + k]
  BY <1>3 DEF Rest
<1>5. a \o b = s
  BY <1>1, <1>3, CutJoin
<1>6. PICK c : c = b \o t
  OBVIOUS
<1>7. c \in Seq(X) /\ s \o t = a \o c
  <2>1. a \in Seq(X) /\ b \in Seq(X)
    BY <1>2, <1>4
  <2>2. Associates(a, b, t)
    BY <2>1, Joins
  <2>3. (a \o b) \o t = a \o (b \o t)
    BY <2>2 DEF Associates
  <2>4. c \in Seq(X)
    BY <1>6, <2>1
  <2> QED
    BY <1>5, <1>6, <2>3, <2>4
<1>8. PICK i \in Nat : i = Len(c)
  BY <1>7
<1>9. PICK z : z = a \o c
  OBVIOUS
<1>10. /\ z \in Seq(X) /\ Len(z) = n + i
       /\ \A k \in 1..n : z[k] = a[k]
       /\ \A k \in 1..i : z[n + k] = c[k]
  <2>1. a \in Seq(X) /\ n = Len(a) /\ c \in Seq(X) /\ i = Len(c)
    BY <1>2, <1>7, <1>8
  <2> QED
    BY <1>9, <2>1, JoinPoint
<1>11. SubSeq(z, 1, n) = a
  <2>1. PICK p : p = SubSeq(z, 1, n)
    OBVIOUS
  <2>2. p \in Seq(X) /\ Len(p) = n /\ \A k \in 1..n : p[k] = z[k]
    BY <1>10, <2>1
  <2> QED
    BY <1>2, <1>10, <2>1, <2>2, SameSeq
<1>12. Rest(z, n) = c
  <2>1. PICK p : p = Rest(z, n)
    OBVIOUS
  <2>2. p \in Seq(X) /\ Len(p) = i /\ \A k \in 1..i : p[k] = z[n + k]
    BY <1>10, <2>1 DEF Rest
  <2> QED
    BY <1>7, <1>8, <1>10, <2>1, <2>2, SameSeq
<1> QED
  BY <1>1, <1>3, <1>6, <1>7, <1>9, <1>11, <1>12
----------------------------------------------------------------------------
(* The classifier. *)

\* Texts join to texts.
LEMMA TextJoins ==
  /\ <<>> \in Text /\ Residue(<<>>) = <<>>
  /\ \A s \in Text : s # <<>> => Residue(s) = Replacement
  /\ Replacement \in Text
  /\ \A s \in Text : Residue(s) \in Text /\ <<>> \o s = s /\ s \o <<>> = s
  /\ \A s, t \in Text : s \o t \in Text
<1>1. <<>> \in Text
  BY DEF Text
<1>2. Replacement \in Text
  BY DEF Replacement, Text, Byte
<1>3. \A s \in Text : <<>> \o s = s /\ s \o <<>> = s
  BY DEF Text
<1>4. \A s, t \in Text : s \o t \in Text
  BY DEF Text
<1>5. /\ Residue(<<>>) = <<>>
      /\ \A s \in Text : s # <<>> => Residue(s) = Replacement
      /\ \A s \in Text : Residue(s) \in Text
  BY <1>1, <1>2 DEF Residue
<1> QED
  BY <1>1, <1>2, <1>3, <1>4, <1>5

\* In any order.
LEMMA TextAssociates ==
  ASSUME NEW s \in Text, NEW t \in Text, NEW u \in Text
  PROVE  Associates(s, t, u)
<1>1. s \in Seq(Byte) /\ t \in Seq(Byte) /\ u \in Seq(Byte)
  BY DEF Text
<1> QED
  BY <1>1, Joins

\* What a sequence begins with has a length of its own; an unfinished character
\* is all of it.
LEMMA ClassifyFacts ==
  ASSUME NEW s \in Text, s # <<>>, NEW m \in Nat, m = Len(s)
  PROVE  LET part == classify_utf8_prefix(s)
         IN /\ part.length \in 1..m
            /\ part.kind = "kIncomplete" => part.length = m
            /\ part.kind = "kComplete" => part.length = SequenceLength(s[1])
<1>1. s[1] \in Byte /\ m >= 1 /\ \A k \in 1..m : s[k] \in Byte
  BY DEF Text
<1>2. PICK n \in 0..4 : n = SequenceLength(s[1])
  BY <1>1 DEF SequenceLength, Byte
<1>3. PICK W : W = Misplaced(s)
  OBVIOUS
<1>4. W \in SUBSET (2..m)
  BY <1>2, <1>3 DEF Misplaced
<1>5. W # {} => Min(W) \in 2..m
  <2> SUFFICES ASSUME W # {} PROVE Min(W) \in 2..m
    OBVIOUS
  <2>1. W \in SUBSET Nat
    BY <1>4
  <2>2. \E x \in W : \A y \in W : x <= y
    BY <2>1, LeastExists
  <2> QED
    BY <1>4, <2>2 DEF Min
<1>6. PICK part : part = classify_utf8_prefix(s)
  OBVIOUS
<1>7. CASE n = 0
  <2>1. part = Prefix("kInvalid", 1)
    BY <1>2, <1>6, <1>7 DEF classify_utf8_prefix
  <2> QED
    BY <1>1, <1>6, <2>1 DEF Prefix
<1>8. CASE n # 0 /\ W # {}
  <2>1. part = Prefix("kInvalid", Min(W) - 1)
    BY <1>2, <1>3, <1>6, <1>8 DEF classify_utf8_prefix
  <2> QED
    BY <1>1, <1>5, <1>6, <1>8, <2>1 DEF Prefix
<1>9. CASE n # 0 /\ W = {} /\ m < n
  <2>1. part = Prefix("kIncomplete", m)
    BY <1>2, <1>3, <1>6, <1>9 DEF classify_utf8_prefix
  <2> QED
    BY <1>1, <1>6, <2>1 DEF Prefix
<1>10. CASE n # 0 /\ W = {} /\ ~(m < n)
  <2>1. part = Prefix("kComplete", n)
    BY <1>2, <1>3, <1>6, <1>10 DEF classify_utf8_prefix
  <2> QED
    BY <1>1, <1>2, <1>6, <1>10, <2>1 DEF Prefix
<1> QED
  BY <1>7, <1>8, <1>9, <1>10

\* What a sequence begins with, unless it is an unfinished character, does not
\* depend on what follows the sequence.
LEMMA ClassifyLonger ==
  ASSUME NEW s \in Text, s # <<>>, NEW t \in Text,
         classify_utf8_prefix(s).kind # "kIncomplete"
  PROVE  classify_utf8_prefix(s \o t) = classify_utf8_prefix(s)
<1>1. PICK m \in Nat \ {0} : m = Len(s)
  BY DEF Text
<1>2. PICK l \in Nat : l = Len(t)
  BY DEF Text
<1>3. PICK a : a = s \o t
  OBVIOUS
<1>4. /\ a \in Text /\ Len(a) = m + l
      /\ \A k \in 1..m : a[k] = s[k]
  BY <1>1, <1>2, <1>3, JoinFacts DEF Text
<1>5. a[1] = s[1] /\ s[1] \in Byte
  BY <1>1, <1>4 DEF Text
<1>6. PICK n \in 0..4 : n = SequenceLength(s[1])
  BY <1>5 DEF SequenceLength, Byte
<1>7. PICK W : W = Misplaced(s)
  OBVIOUS
<1>8. PICK V : V = Misplaced(a)
  OBVIOUS
<1>9. \A i \in 2..m : i \in V <=> i \in W
  BY <1>1, <1>2, <1>4, <1>5, <1>6, <1>7, <1>8 DEF Misplaced
<1>10. W \in SUBSET (2..m) /\ W \in SUBSET (2..n) /\ V \in SUBSET (2..n)
  BY <1>1, <1>5, <1>6, <1>7, <1>8 DEF Misplaced
<1>11. CASE n = 0
  BY <1>3, <1>5, <1>6, <1>11 DEF classify_utf8_prefix
<1>12. CASE n # 0 /\ W # {}
  <2>1. V # {} /\ W \subseteq V
    BY <1>9, <1>10, <1>12
  <2>2. PICK x \in W : \A y \in W : x <= y
    BY <1>10, <1>12, LeastExists
  <2>3. \A y \in V : x <= y
    <3> SUFFICES ASSUME NEW y \in V PROVE x <= y
      OBVIOUS
    <3>1. CASE y \in 2..m
      BY <1>9, <2>2, <3>1
    <3>2. CASE y \notin 2..m
      <4>1. x \in 2..m /\ y \in 2..n
        BY <1>10
      <4> QED
        BY <3>2, <4>1
    <3> QED
      BY <3>1, <3>2
  <2>4. x \in 2..m /\ \A y \in W \cup V : y \in Nat
    BY <1>10
  <2>5. Min(W) = x
    <3>1. \A z \in W : (\A y \in W : z <= y) => z = x
      BY <2>2, <2>4
    <3> QED
      BY <2>2, <3>1 DEF Min
  <2>6. Min(V) = x
    <3>1. \A z \in V : (\A y \in V : z <= y) => z = x
      BY <2>1, <2>3, <2>4
    <3> QED
      BY <2>1, <2>3, <3>1 DEF Min
  <2>7. classify_utf8_prefix(s) = Prefix("kInvalid", x - 1)
    BY <1>6, <1>7, <1>12, <2>5 DEF classify_utf8_prefix
  <2>8. classify_utf8_prefix(a) = Prefix("kInvalid", x - 1)
    BY <1>5, <1>6, <1>8, <1>12, <2>1, <2>6 DEF classify_utf8_prefix
  <2> QED
    BY <1>3, <2>7, <2>8
<1>13. CASE n # 0 /\ W = {}
  <2>1. ~(m < n)
    BY <1>1, <1>6, <1>7, <1>13 DEF classify_utf8_prefix, Prefix
  <2>2. V = {}
    BY <1>9, <1>10, <1>13, <2>1
  <2>3. classify_utf8_prefix(s) = Prefix("kComplete", n)
    BY <1>1, <1>6, <1>7, <1>13, <2>1 DEF classify_utf8_prefix
  <2>4. ~(m + l < n)
    BY <2>1
  <2>5. classify_utf8_prefix(a) = Prefix("kComplete", n)
    BY <1>4, <1>5, <1>6, <1>8, <1>13, <2>2, <2>4 DEF classify_utf8_prefix
  <2> QED
    BY <1>3, <2>3, <2>5
<1> QED
  BY <1>11, <1>12, <1>13
----------------------------------------------------------------------------
(* The decoders, defined by recursion on the length of what is left. *)

Drained == [out : Text, carry : Text]

\* What the incremental decoder leaves alone.
Waits(s) == s = <<>> \/ classify_utf8_prefix(s).kind = "kIncomplete"

\* What is left of a sequence behind its first character is shorter text.
LEMMA RestShorter ==
  ASSUME NEW s \in Text, s # <<>>
  PROVE  LET n == classify_utf8_prefix(s).length
         IN /\ n \in Nat /\ Rest(s, n) \in Text
            /\ Len(Rest(s, n)) < Len(s) /\ Len(Rest(s, n)) \in Nat
            /\ n \in 1..Len(s) /\ Len(s) - n \in Nat /\ Len(s) = n + (Len(s) - n)
<1>1. PICK m \in Nat : m = Len(s)
  BY DEF Text
<1>2. PICK n \in 1..m : n = classify_utf8_prefix(s).length
  BY <1>1, ClassifyFacts
<1>3. PICK j \in Nat : j = m - n
  OBVIOUS
<1>4. n \in Nat /\ m = n + j /\ j < m
  BY <1>3
<1>5. Rest(s, n) \in Text /\ Len(Rest(s, n)) = j
  <2>1. Len(s) = n + j
    BY <1>1, <1>4
  <2>2. s \in Seq(Byte)
    BY DEF Text
  <2>3. Rest(s, n) \in Seq(Byte) /\ Len(Rest(s, n)) = j
    BY <1>4, <2>1, <2>2, CutPoint
  <2> QED
    BY <2>3 DEF Text
<1> QED
  BY <1>1, <1>2, <1>3, <1>4, <1>5

\* What is shown of the first character is text.
LEMMA ShownType ==
  ASSUME NEW s \in Text, s # <<>>
  PROVE  Shown(s, classify_utf8_prefix(s)) \in Text /\ Replacement \in Text
<1>1. Replacement \in Text
  BY DEF Replacement, Text, Byte
<1>2. PICK n : n = classify_utf8_prefix(s).length
  OBVIOUS
<1>3. n \in Nat /\ Len(s) - n \in Nat /\ Len(s) = n + (Len(s) - n)
  BY <1>2, RestShorter
<1>4. SubSeq(s, 1, n) \in Text
  BY <1>3 DEF Text
<1> QED
  BY <1>1, <1>2, <1>4 DEF Shown

\* The incremental decoder is the function its definition describes.
LEMMA DrainIs ==
  \A s \in Text :
    Drain[s] = IF Waits(s) THEN [out |-> <<>>, carry |-> s]
               ELSE LET part == classify_utf8_prefix(s)
                        more == Drain[Rest(s, part.length)]
                    IN [out |-> Shown(s, part) \o more.out, carry |-> more.carry]
<1> DEFINE T == {s \in Text : Waits(s)}
           m == [s \in Text |-> Len(s)]
           b == [s \in T |-> [out |-> <<>>, carry |-> s]]
           next == [s \in Text \ T |-> Rest(s, classify_utf8_prefix(s).length)]
           h == [x \in (Text \ T) \X Drained |->
                   [out |-> Shown(x[1], classify_utf8_prefix(x[1])) \o x[2].out,
                    carry |-> x[2].carry]]
<1>1. m \in [Text -> Nat]
  BY DEF Text
<1>2. b \in [T -> Drained]
  <2>1. <<>> \in Text
    BY DEF Text
  <2> QED
    BY <2>1 DEF Drained
<1>3. \A s \in Text \ T : s # <<>>
  BY DEF Waits
<1>4. next \in [Text \ T -> Text]
  BY <1>3, RestShorter
<1>5. \A s \in Text \ T : m[next[s]] < m[s]
  <2> SUFFICES ASSUME NEW s \in Text \ T PROVE m[next[s]] < m[s]
    OBVIOUS
  <2>1. next[s] \in Text /\ Len(next[s]) < Len(s)
    BY <1>3, RestShorter
  <2> HIDE DEF next
  <2> QED
    BY <2>1
<1>6. h \in [(Text \ T) \X Drained -> Drained]
  <2> SUFFICES ASSUME NEW s \in Text \ T, NEW r \in Drained
               PROVE  [out |-> Shown(s, classify_utf8_prefix(s)) \o r.out,
                       carry |-> r.carry] \in Drained
    OBVIOUS
  <2>1. Shown(s, classify_utf8_prefix(s)) \in Text
    BY <1>3, ShownType
  <2>2. r.out \in Text /\ r.carry \in Text
    BY DEF Drained
  <2>3. Shown(s, classify_utf8_prefix(s)) \o r.out \in Text
    BY <2>1, <2>2 DEF Text
  <2> QED
    BY <2>2, <2>3 DEF Drained
<1>7. T \in SUBSET Text
  OBVIOUS
<1>8. PICK f \in [Text -> Drained] : Recurs(f, Text, T, b, next, h)
  <2> HIDE DEF T, m, b, next, h
  <2> QED
    BY <1>1, <1>2, <1>4, <1>5, <1>6, <1>7, RecursionExists
<1>9. ASSUME NEW s \in Text
      PROVE  f[s] = IF Waits(s) THEN [out |-> <<>>, carry |-> s]
                    ELSE LET part == classify_utf8_prefix(s)
                             more == f[Rest(s, part.length)]
                         IN [out |-> Shown(s, part) \o more.out, carry |-> more.carry]
  <2>1. f[s] = IF s \in T THEN b[s] ELSE h[<<s, f[next[s]]>>]
    BY <1>8 DEF Recurs
  <2>2. CASE Waits(s)
    BY <2>1, <2>2
  <2>3. CASE ~Waits(s)
    <3>1. s \in Text \ T /\ next[s] = Rest(s, classify_utf8_prefix(s).length)
      BY <2>3
    <3>2. PICK r \in Drained : r = f[next[s]]
      BY <1>4, <1>8, <3>1
    <3>3. h[<<s, r>>] = [out |-> Shown(s, classify_utf8_prefix(s)) \o r.out,
                         carry |-> r.carry]
      BY <3>1
    <3>4. f[s] = h[<<s, r>>]
      BY <2>1, <3>1, <3>2
    <3> HIDE DEF h, next
    <3> QED
      BY <2>3, <3>1, <3>2, <3>3, <3>4
  <2> QED
    BY <2>2, <2>3
<1> DEFINE G(g) == [s \in Text |->
                      IF Waits(s) THEN [out |-> <<>>, carry |-> s]
                      ELSE LET part == classify_utf8_prefix(s)
                               more == g[Rest(s, part.length)]
                           IN [out |-> Shown(s, part) \o more.out, carry |-> more.carry]]
<1>10. f = G(f)
  BY <1>9
<1>11. Drain = CHOOSE g : g = G(g)
  BY DEF Drain, Text, Waits
<1>12. Drain = G(Drain)
  <2> HIDE DEF G
  <2> QED
    BY <1>10, <1>11
<1> QED
  BY <1>12, Zenon

\* The batch decoder is the function its definition describes.
LEMMA LossyIs ==
  \A s \in Text :
    append_utf8_lossy[s] =
      IF s = <<>> THEN <<>>
      ELSE LET part == classify_utf8_prefix(s)
           IN Shown(s, part) \o append_utf8_lossy[Rest(s, part.length)]
<1> DEFINE m == [s \in Text |-> Len(s)]
           b == [s \in {<<>>} |-> s]
           next == [s \in Text \ {<<>>} |-> Rest(s, classify_utf8_prefix(s).length)]
           h == [x \in (Text \ {<<>>}) \X Text |-> Shown(x[1], classify_utf8_prefix(x[1])) \o x[2]]
<1>1. m \in [Text -> Nat] /\ <<>> \in Text
  BY DEF Text
<1>2. b \in [{<<>>} -> Text]
  BY <1>1
<1>3. next \in [Text \ {<<>>} -> Text]
  BY RestShorter
<1>4. \A s \in Text \ {<<>>} : m[next[s]] < m[s]
  <2> SUFFICES ASSUME NEW s \in Text \ {<<>>} PROVE m[next[s]] < m[s]
    OBVIOUS
  <2>1. next[s] \in Text /\ Len(next[s]) < Len(s)
    BY RestShorter
  <2> HIDE DEF next
  <2> QED
    BY <2>1
<1>5. h \in [(Text \ {<<>>}) \X Text -> Text]
  <2> SUFFICES ASSUME NEW s \in Text \ {<<>>}, NEW r \in Text
               PROVE  Shown(s, classify_utf8_prefix(s)) \o r \in Text
    OBVIOUS
  <2>1. Shown(s, classify_utf8_prefix(s)) \in Text
    BY ShownType
  <2> QED
    BY <2>1 DEF Text
<1>6. {<<>>} \in SUBSET Text
  BY <1>1
<1>7. PICK f \in [Text -> Text] : Recurs(f, Text, {<<>>}, b, next, h)
  <2> HIDE DEF m, b, next, h
  <2> QED
    BY <1>1, <1>2, <1>3, <1>4, <1>5, <1>6, RecursionExists
<1>8. ASSUME NEW s \in Text
      PROVE  f[s] = IF s = <<>> THEN <<>>
                    ELSE LET part == classify_utf8_prefix(s)
                         IN Shown(s, part) \o f[Rest(s, part.length)]
  <2>1. f[s] = IF s \in {<<>>} THEN b[s] ELSE h[<<s, f[next[s]]>>]
    BY <1>7 DEF Recurs
  <2>2. CASE s = <<>>
    BY <2>1, <2>2
  <2>3. CASE s # <<>>
    <3>1. s \in Text \ {<<>>} /\ next[s] = Rest(s, classify_utf8_prefix(s).length)
      BY <2>3
    <3>2. PICK r \in Text : r = f[next[s]]
      BY <1>3, <1>7, <3>1
    <3>3. h[<<s, r>>] = Shown(s, classify_utf8_prefix(s)) \o r
      BY <3>1
    <3>4. f[s] = h[<<s, r>>]
      BY <2>1, <3>1, <3>2
    <3> HIDE DEF h, next
    <3> QED
      BY <2>3, <3>1, <3>2, <3>3, <3>4
  <2> QED
    BY <2>2, <2>3
<1> DEFINE G(g) == [s \in Text |->
                      IF s = <<>> THEN <<>>
                      ELSE LET part == classify_utf8_prefix(s)
                           IN Shown(s, part) \o g[Rest(s, part.length)]]
<1>9. f = G(f)
  BY <1>8
<1>10. append_utf8_lossy = CHOOSE g : g = G(g)
  BY DEF append_utf8_lossy, Text
<1>11. append_utf8_lossy = G(append_utf8_lossy)
  <2> HIDE DEF G
  <2> QED
    BY <1>9, <1>10
<1> QED
  BY <1>11

\* Induction on the text that is left.
LEMMA TextInduction ==
  ASSUME NEW Q \in SUBSET Text,
         \A s \in Text : (s # <<>> => Rest(s, classify_utf8_prefix(s).length) \in Q) => s \in Q
  PROVE  Q = Text
<1> DEFINE m == [s \in Text |-> Len(s)]
<1>1. m \in [Text -> Nat]
  BY DEF Text
<1>2. ASSUME NEW s \in Text, \A t \in Text : m[t] < m[s] => t \in Q PROVE s \in Q
  <2>1. ASSUME s # <<>> PROVE Rest(s, classify_utf8_prefix(s).length) \in Q
    <3>1. PICK t : t = Rest(s, classify_utf8_prefix(s).length)
      OBVIOUS
    <3>2. t \in Text /\ Len(t) < Len(s)
      BY <2>1, <3>1, RestShorter
    <3> QED
      BY <1>2, <3>1, <3>2
  <2> QED
    BY <2>1
<1> HIDE DEF m
<1> QED
  BY <1>1, <1>2, MeasureInduction

\* What the incremental decoder shows and carries is text.
LEMMA DrainType == \A s \in Text : Drain[s] \in Drained
<1> DEFINE Q == {s \in Text : Drain[s] \in Drained}
<1>1. ASSUME NEW s \in Text, s # <<>> => Rest(s, classify_utf8_prefix(s).length) \in Q
      PROVE  s \in Q
  <2>1. CASE Waits(s)
    <3>1. Drain[s] = [out |-> <<>>, carry |-> s]
      BY <2>1, DrainIs
    <3>2. <<>> \in Text
      BY DEF Text
    <3> QED
      BY <3>1, <3>2 DEF Drained
  <2>2. CASE ~Waits(s)
    <3>1. s # <<>>
      BY <2>2 DEF Waits
    <3>2. PICK more : more = Drain[Rest(s, classify_utf8_prefix(s).length)]
      OBVIOUS
    <3>3. more.out \in Text /\ more.carry \in Text
      BY <1>1, <3>1, <3>2 DEF Drained
    <3>4. PICK p : p = Shown(s, classify_utf8_prefix(s))
      OBVIOUS
    <3>5. p \in Text
      BY <3>1, <3>4, ShownType
    <3>6. PICK q \in Text : q = p \o more.out
      BY <3>3, <3>5, TextJoins
    <3>7. Drain[s] = [out |-> q, carry |-> more.carry]
      BY <2>2, <3>2, <3>4, <3>6, DrainIs
    <3> QED
      BY <3>3, <3>7 DEF Drained
  <2> QED
    BY <2>1, <2>2
<1>2. Q \in SUBSET Text
  OBVIOUS
<1> HIDE DEF Q
<1>3. Q = Text
  BY <1>1, <1>2, TextInduction
<1> QED
  BY <1>3 DEF Q

\* The batch decoding is what the incremental decoder shows, and the replacement
\* of the character it still waits for.
THEOREM LossyIsDrain ==
  \A s \in Text : append_utf8_lossy[s] = Drain[s].out \o Residue(Drain[s].carry)
<1> DEFINE Q == {s \in Text : append_utf8_lossy[s] = Drain[s].out \o Residue(Drain[s].carry)}
<1>0. append_utf8_lossy[<<>>] = <<>> /\ <<>> \in Text
  <2>1. <<>> \in Text
    BY DEF Text
  <2> QED
    BY <2>1, LossyIs
<1>1. ASSUME NEW s \in Text, s # <<>> => Rest(s, classify_utf8_prefix(s).length) \in Q
      PROVE  s \in Q
  <2>1. CASE s = <<>>
    <3>1. Drain[s] = [out |-> <<>>, carry |-> s]
      BY <2>1, DrainIs DEF Waits
    <3>2. Drain[s].out = <<>> /\ Drain[s].carry = <<>>
      BY <2>1, <3>1
    <3>3. <<>> \o Residue(<<>>) = <<>>
      BY TextJoins
    <3>4. append_utf8_lossy[s] = Drain[s].out \o Residue(Drain[s].carry)
      BY <1>0, <2>1, <3>2, <3>3, Zenon
    <3> QED
      BY <3>4
  <2>2. CASE s # <<>> /\ Waits(s)
    <3>1. PICK part : part = classify_utf8_prefix(s)
      OBVIOUS
    <3>2. part.kind = "kIncomplete"
      BY <2>2, <3>1 DEF Waits
    <3>3. part.length = Len(s) /\ Len(s) \in Nat
      <4>1. PICK m \in Nat : m = Len(s)
        BY DEF Text
      <4> QED
        BY <2>2, <3>1, <3>2, <4>1, ClassifyFacts
    <3>4. Rest(s, Len(s)) = <<>>
      BY DEF Rest, Text
    <3>5. Shown(s, part) = Replacement
      BY <3>2 DEF Shown
    <3>6. append_utf8_lossy[s] = Replacement \o <<>>
      BY <1>0, <2>2, <3>1, <3>3, <3>4, <3>5, LossyIs
    <3>7. Drain[s] = [out |-> <<>>, carry |-> s]
      BY <2>2, DrainIs
    <3>8. Residue(s) = Replacement
      BY <2>2 DEF Residue
    <3>9. Replacement \o <<>> = <<>> \o Replacement
      BY TextJoins
    <3>10. Drain[s].out = <<>> /\ Drain[s].carry = s
      BY <3>7
    <3>11. append_utf8_lossy[s] = Drain[s].out \o Residue(Drain[s].carry)
      BY <3>6, <3>8, <3>9, <3>10, Zenon
    <3> QED
      BY <3>11
  <2>3. CASE ~Waits(s)
    <3>1. s # <<>>
      BY <2>3 DEF Waits
    <3>2. PICK t : t = Rest(s, classify_utf8_prefix(s).length)
      OBVIOUS
    <3>3. t \in Text /\ append_utf8_lossy[t] = Drain[t].out \o Residue(Drain[t].carry)
      BY <1>1, <3>1, <3>2
    <3>4. PICK p : p = Shown(s, classify_utf8_prefix(s))
      OBVIOUS
    <3>5. p \in Text /\ Drain[t].out \in Text /\ Residue(Drain[t].carry) \in Text
      <4>1. p \in Text /\ Replacement \in Text
        BY <3>1, <3>4, ShownType
      <4>2. <<>> \in Text
        BY <1>0
      <4> QED
        BY <3>3, <4>1, <4>2, DrainType DEF Residue, Drained
    <3>6. Drain[s] = [out |-> p \o Drain[t].out, carry |-> Drain[t].carry]
      BY <2>3, <3>2, <3>4, DrainIs
    <3>7. append_utf8_lossy[s] = p \o append_utf8_lossy[t]
      BY <3>1, <3>2, <3>4, LossyIs
    <3>8. p \o (Drain[t].out \o Residue(Drain[t].carry))
            = (p \o Drain[t].out) \o Residue(Drain[t].carry)
      <4>1. Associates(p, Drain[t].out, Residue(Drain[t].carry))
        BY <3>5, TextAssociates
      <4> QED
        BY <4>1 DEF Associates
    <3>9. Drain[s].out = p \o Drain[t].out /\ Drain[s].carry = Drain[t].carry
      BY <3>6
    <3>10. append_utf8_lossy[s] = Drain[s].out \o Residue(Drain[s].carry)
      BY <3>3, <3>7, <3>8, <3>9, Zenon
    <3> QED
      BY <3>10
  <2> QED
    BY <2>1, <2>2, <2>3
<1>2. Q \in SUBSET Text
  OBVIOUS
<1> HIDE DEF Q
<1>3. Q = Text
  BY <1>1, <1>2, TextInduction
<1> QED
  BY <1>3 DEF Q

\* Decoding piece by piece: what more bytes add to what was shown depends on the
\* carry alone, and so does the carry they leave.
THEOREM DrainJoin ==
  ASSUME NEW t \in Text
  PROVE  \A s \in Text :
           /\ Drain[s \o t].out = Drain[s].out \o Drain[Drain[s].carry \o t].out
           /\ Drain[s \o t].carry = Drain[Drain[s].carry \o t].carry
<1> DEFINE Piecewise(s) ==
             /\ Drain[s \o t].out = Drain[s].out \o Drain[Drain[s].carry \o t].out
             /\ Drain[s \o t].carry = Drain[Drain[s].carry \o t].carry
           Q == {s \in Text : Piecewise(s)}
<1>1. ASSUME NEW s \in Text, s # <<>> => Rest(s, classify_utf8_prefix(s).length) \in Q
      PROVE  s \in Q
  <2>1. CASE Waits(s)
    <3>1. Drain[s] = [out |-> <<>>, carry |-> s]
      BY <2>1, DrainIs
    <3>2. s \o t \in Text
      BY DEF Text
    <3>3. PICK o : o = Drain[s \o t].out
      OBVIOUS
    <3>4. o \in Text
      BY <3>2, <3>3, DrainType DEF Drained
    <3>5. <<>> \o o = o
      BY <3>4, TextJoins
    <3>6. Drain[s].out = <<>> /\ Drain[s].carry = s
      BY <3>1
    <3>7. Piecewise(s)
      BY <3>3, <3>5, <3>6, Zenon
    <3> HIDE DEF Piecewise
    <3> QED
      BY <3>7
  <2>2. CASE ~Waits(s)
    <3>1. s # <<>> /\ classify_utf8_prefix(s).kind # "kIncomplete"
      BY <2>2 DEF Waits
    <3>2. PICK part : part = classify_utf8_prefix(s)
      OBVIOUS
    <3>3. PICK n \in Nat : n = part.length
      BY <3>1, <3>2, RestShorter
    <3>4. PICK r : r = Rest(s, n)
      OBVIOUS
    <3>5. r \in Text /\ Piecewise(r)
      <4>1. r \in Q
        BY <1>1, <3>1, <3>2, <3>3, <3>4, Zenon
      <4> HIDE DEF Piecewise
      <4> QED
        BY <4>1, Zenon
    <3>6. PICK p : p = Shown(s, part)
      OBVIOUS
    <3>7. p \in Text
      BY <3>1, <3>2, <3>6, ShownType
    <3>8. Drain[s] = [out |-> p \o Drain[r].out, carry |-> Drain[r].carry]
      BY <2>2, <3>2, <3>3, <3>4, <3>6, DrainIs
    <3>9. PICK a : a = s \o t
      OBVIOUS
    <3>10. a \in Text /\ a # <<>> /\ r \o t \in Text
      BY <3>1, <3>5, <3>9 DEF Text
    <3>11. classify_utf8_prefix(a) = part
      BY <3>1, <3>2, <3>9, ClassifyLonger
    <3>12. ~Waits(a)
      BY <3>1, <3>2, <3>10, <3>11 DEF Waits
    <3>13. Rest(a, n) = r \o t /\ SubSeq(a, 1, n) = SubSeq(s, 1, n)
      <4>1. n \in Nat /\ Len(s) - n \in Nat /\ Len(s) = n + (Len(s) - n)
        BY <3>1, <3>2, <3>3, RestShorter
      <4>2. PICK j \in Nat : Len(s) = n + j
        BY <4>1, Zenon
      <4>3. s \in Seq(Byte) /\ t \in Seq(Byte)
        BY DEF Text
      <4> QED
        BY <3>4, <3>9, <4>2, <4>3, CutLonger, Zenon
    <3>14. Shown(a, part) = p
      BY <3>3, <3>6, <3>13 DEF Shown
    <3>15. Drain[a] = [out |-> p \o Drain[r \o t].out, carry |-> Drain[r \o t].carry]
      BY <3>3, <3>10, <3>11, <3>12, <3>13, <3>14, DrainIs
    <3>16. PICK c : c = Drain[r].carry
      OBVIOUS
    <3>17. PICK x : x = Drain[r].out
      OBVIOUS
    <3>18. PICK y : y = Drain[c \o t].out
      OBVIOUS
    <3>19. x \in Text /\ y \in Text
      <4>1. c \in Text /\ x \in Text
        BY <3>5, <3>16, <3>17, DrainType DEF Drained
      <4>2. c \o t \in Text
        BY <4>1 DEF Text
      <4> QED
        BY <3>18, <4>1, <4>2, DrainType DEF Drained
    <3>20. p \o (x \o y) = (p \o x) \o y
      <4>1. Associates(p, x, y)
        BY <3>7, <3>19, TextAssociates
      <4> QED
        BY <4>1 DEF Associates
    <3>21. Drain[a].out = p \o (x \o y) /\ Drain[a].carry = Drain[c \o t].carry
      <4>1. Drain[r \o t].out = x \o y /\ Drain[r \o t].carry = Drain[c \o t].carry
        BY <3>5, <3>16, <3>17, <3>18
      <4>2. Drain[a].out = p \o Drain[r \o t].out /\ Drain[a].carry = Drain[r \o t].carry
        BY <3>15
      <4> QED
        BY <4>1, <4>2, Zenon
    <3>22. Drain[s].out = p \o x /\ Drain[s].carry = c
      BY <3>8, <3>16, <3>17
    <3>23. Piecewise(s)
      BY <3>9, <3>18, <3>20, <3>21, <3>22
    <3> HIDE DEF Piecewise
    <3> QED
      BY <3>23
  <2> QED
    BY <2>1, <2>2
<1>2. Q \in SUBSET Text
  OBVIOUS
<1> HIDE DEF Q
<1>3. Q = Text
  BY <1>1, <1>2, TextInduction
<1> QED
  BY <1>3 DEF Q
----------------------------------------------------------------------------
(* The text of a list of pieces. *)

\* g joins the first pieces of ss, however many are asked for.
Joined(g, ss) ==
  \A i \in 1..Len(ss) : g[i] = IF i = 1 THEN ss[i] ELSE g[i - 1] \o ss[i]

\* There is such a function, and the joined pieces are its last value.
LEMMA JoinedExists ==
  ASSUME NEW ss \in Seq(Text), NEW n \in Nat \ {0}, n = Len(ss)
  PROVE  \E g \in [1..n -> Text] : Joined(g, ss) /\ FlattenSeq(ss) = g[n]
<1> DEFINE D == 1..n
           T == {1}
           m == [i \in D |-> i]
           b == [i \in T |-> ss[i]]
           next == [i \in D \ T |-> i - 1]
           h == [x \in (D \ T) \X Text |-> x[2] \o ss[x[1]]]
<1>1. \A i \in 1..n : ss[i] \in Text
  OBVIOUS
<1>2. m \in [D -> Nat] /\ b \in [T -> Text] /\ next \in [D \ T -> D]
  BY <1>1
<1>3. \A i \in D \ T : m[next[i]] < m[i]
  OBVIOUS
<1>4. h \in [(D \ T) \X Text -> Text]
  BY <1>1, TextJoins
<1>5. T \in SUBSET D
  OBVIOUS
<1>6. PICK f \in [D -> Text] : Recurs(f, D, T, b, next, h)
  <2> HIDE DEF D, T, m, b, next, h
  <2> QED
    BY <1>2, <1>3, <1>4, <1>5, RecursionExists
<1>7. \A i \in 1..n : f[i] = IF i = 1 THEN ss[i] ELSE f[i - 1] \o ss[i]
  <2> SUFFICES ASSUME NEW i \in 1..n
               PROVE  f[i] = IF i = 1 THEN ss[i] ELSE f[i - 1] \o ss[i]
    OBVIOUS
  <2>1. f[i] = IF i \in {1} THEN b[i] ELSE h[<<i, f[next[i]]>>]
    BY <1>6 DEF Recurs
  <2>2. CASE i = 1
    BY <2>1, <2>2
  <2>3. CASE i # 1
    <3>1. PICK r \in Text : r = f[i - 1]
      BY <1>6, <2>3
    <3>2. h[<<i, r>>] = r \o ss[i]
      BY <2>3
    <3>3. f[i] = h[<<i, r>>]
      BY <2>1, <2>3, <3>1
    <3> HIDE DEF h, next
    <3> QED
      BY <2>3, <3>1, <3>2, <3>3
  <2> QED
    BY <2>2, <2>3
<1> DEFINE G(g) == [i \in 1..n |-> IF i = 1 THEN ss[i] ELSE g[i - 1] \o ss[i]]
<1>8. f = G(f)
  BY <1>7
<1>9. FlattenSeq(ss) = (CHOOSE g : g = G(g))[n]
  BY DEF FlattenSeq
<1> DEFINE e == CHOOSE g : g = G(g)
<1>10. e = G(e)
  <2> HIDE DEF G
  <2> QED
    BY <1>8
<1> HIDE DEF e
<1>11. Joined(e, ss)
  BY <1>10 DEF Joined
<1>12. e \in [1..n -> Text]
  <2> DEFINE P == {k \in Nat : k \in 1..n => e[k] \in Text}
  <2>1. 0 \in P
    OBVIOUS
  <2>2. ASSUME NEW k \in P PROVE k + 1 \in P
    <3> SUFFICES ASSUME k + 1 \in 1..n PROVE e[k + 1] \in Text
      OBVIOUS
    <3>1. e[k + 1] = IF k + 1 = 1 THEN ss[k + 1] ELSE e[(k + 1) - 1] \o ss[k + 1]
      BY <1>11 DEF Joined
    <3>2. CASE k = 0
      BY <1>1, <3>1, <3>2
    <3>3. CASE k # 0
      <4>1. (k + 1) - 1 = k /\ k + 1 # 1 /\ k \in 1..n
        BY <3>3
      <4>2. e[k] \in Text /\ ss[k + 1] \in Text
        BY <1>1, <4>1
      <4>3. e[k + 1] = e[k] \o ss[k + 1]
        BY <3>1, <4>1
      <4> QED
        BY <4>2, <4>3, TextJoins
    <3> QED
      BY <3>2, <3>3
  <2>3. P \in SUBSET Nat
    OBVIOUS
  <2> HIDE DEF P
  <2>4. P = Nat
    BY <2>1, <2>2, <2>3, Induction
  <2>5. \A i \in 1..n : e[i] \in Text
    BY <2>4 DEF P
  <2> QED
    BY <1>10, <2>5
<1> QED
  BY <1>9, <1>11, <1>12 DEF e

\* One more piece is appended to what the others join to.
LEMMA FlattenAppend ==
  ASSUME NEW ss \in Seq(Text), NEW p \in Text
  PROVE  /\ FlattenSeq(ss) \in Text
         /\ FlattenSeq(<<>>) = <<>>
         /\ FlattenSeq(Append(ss, p)) = FlattenSeq(ss) \o p
<1>1. FlattenSeq(<<>>) = <<>> /\ <<>> \in Text
  BY TextJoins DEF FlattenSeq
<1>2. PICK n \in Nat : n = Len(ss)
  OBVIOUS
<1>3. PICK tt : tt = Append(ss, p)
  OBVIOUS
<1>4. /\ tt \in Seq(Text) /\ Len(tt) = n + 1 /\ tt[n + 1] = p
      /\ \A i \in 1..n : tt[i] = ss[i]
  BY <1>2, <1>3
<1>5. PICK e \in [1..(n + 1) -> Text] : Joined(e, tt) /\ FlattenSeq(tt) = e[n + 1]
  BY <1>4, JoinedExists
<1>6. CASE n = 0
  <2>1. e[n + 1] = p
    BY <1>4, <1>5, <1>6 DEF Joined
  <2>2. ss = <<>>
    <3>1. Len(ss) = 0
      BY <1>2, <1>6
    <3> QED
      BY <3>1
  <2> QED
    BY <1>1, <1>3, <1>5, <2>1, <2>2, TextJoins
<1>7. CASE n # 0
  <2>1. PICK g \in [1..n -> Text] : Joined(g, ss) /\ FlattenSeq(ss) = g[n]
    BY <1>2, <1>7, JoinedExists
  <2> DEFINE P == {k \in Nat : k \in 1..n => g[k] = e[k]}
  <2>2. 0 \in P
    OBVIOUS
  <2>3. ASSUME NEW k \in P PROVE k + 1 \in P
    <3> SUFFICES ASSUME k + 1 \in 1..n PROVE g[k + 1] = e[k + 1]
      OBVIOUS
    <3>1. g[k + 1] = IF k + 1 = 1 THEN ss[k + 1] ELSE g[(k + 1) - 1] \o ss[k + 1]
      BY <1>2, <2>1 DEF Joined
    <3>2. e[k + 1] = IF k + 1 = 1 THEN tt[k + 1] ELSE e[(k + 1) - 1] \o tt[k + 1]
      <4>1. k + 1 \in 1..Len(tt)
        BY <1>4
      <4> QED
        BY <1>5, <4>1 DEF Joined
    <3>3. tt[k + 1] = ss[k + 1]
      BY <1>4
    <3>4. CASE k = 0
      BY <3>1, <3>2, <3>3, <3>4
    <3>5. CASE k # 0
      <4>1. (k + 1) - 1 = k /\ k \in 1..n
        BY <3>5
      <4> QED
        BY <3>1, <3>2, <3>3, <4>1
    <3> QED
      BY <3>4, <3>5
  <2>4. P \in SUBSET Nat
    OBVIOUS
  <2> HIDE DEF P
  <2>5. P = Nat
    BY <2>2, <2>3, <2>4, Induction
  <2>6. g[n] = e[n]
    BY <1>7, <2>5 DEF P
  <2>7. e[n + 1] = e[n] \o p
    <3>1. n + 1 \in 1..(n + 1) /\ n + 1 # 1 /\ (n + 1) - 1 = n
      BY <1>7
    <3> QED
      BY <1>4, <1>5, <3>1 DEF Joined
  <2>8. g[n] \in Text
    BY <1>7, <2>1
  <2> QED
    BY <1>1, <1>3, <1>5, <2>1, <2>6, <2>7, <2>8
<1> QED
  BY <1>6, <1>7
----------------------------------------------------------------------------
(* The matcher.  Places are offsets: a string stands at offset o of a text    *)
(* when it begins behind the first o bytes.                                   *)

At(s, stop, o) ==
  o + Len(stop) <= Len(s) /\ \A k \in 1..Len(stop) : s[o + k] = stop[k]

\* The text breaks off inside the string: what it still lacks may come.
Begun(s, stop, o) ==
  /\ o < Len(s) /\ Len(s) < o + Len(stop)
  /\ \A k \in 1..Len(stop) : o + k <= Len(s) => s[o + k] = stop[k]

\* The least of a set of naturals.
LEMMA MinIs ==
  ASSUME NEW S \in SUBSET Nat, NEW x \in S, \A y \in S : x <= y
  PROVE  Min(S) = x
<1>1. \A z \in S : (\A y \in S : z <= y) => z = x
  <2> SUFFICES ASSUME NEW z \in S, \A y \in S : z <= y PROVE z = x
    OBVIOUS
  <2>1. z <= x /\ x <= z /\ z \in Nat /\ x \in Nat
    OBVIOUS
  <2> QED
    BY <2>1
<1> QED
  BY <1>1 DEF Min

\* The greatest of a bounded set of naturals.
LEMMA MaxIs ==
  ASSUME NEW n \in Nat, NEW S \in SUBSET (0..n), S # {}
  PROVE  Max(S) \in S /\ \A y \in S : y <= Max(S)
<1>1. IsFiniteSet(0..n)
  BY FS_Interval
<1>2. IsFiniteSet(S) /\ S \in SUBSET Nat
  <2>1. IsFiniteSet(S)
    BY <1>1, FS_Subset
  <2>2. S \in SUBSET Nat
    OBVIOUS
  <2> QED
    BY <2>1, <2>2
<1>3. \E x \in S : \A y \in S : y <= x
  BY <1>2, GreatestExists
<1>4. \E x \in S : \A y \in S : x >= y
  BY <1>2, <1>3
<1>5. Max(S) \in S /\ \A y \in S : Max(S) >= y
  BY <1>4 DEF Max
<1> QED
  BY <1>2, <1>5

\* Where a string occurs.
LEMMA OccurrenceIs ==
  ASSUME NEW s \in Text, NEW stop \in Text \ {<<>>}, NEW o \in Nat
  PROVE  o + 1 \in Occurrences(s, stop) <=> At(s, stop, o)
<1>1. PICK m \in Nat : m = Len(s)
  BY DEF Text
<1>2. PICK l \in Nat \ {0} : l = Len(stop)
  BY DEF Text
<1>3. (o + 1) + l - 1 = o + l
  OBVIOUS
<1>4. CASE o + l <= m
  <2>1. PICK p : p = SubSeq(s, o + 1, o + l)
    OBVIOUS
  <2>2. p \in Seq(Byte) /\ Len(p) = l /\ \A k \in 1..l : p[k] = s[o + k]
    BY <1>1, <1>2, <1>4, <2>1 DEF Text
  <2>3. stop \in Seq(Byte)
    BY DEF Text
  <2>4. p = stop <=> \A k \in 1..l : s[o + k] = stop[k]
    <3>1. ASSUME p = stop, NEW k \in 1..l PROVE s[o + k] = stop[k]
      BY <2>2, <3>1
    <3>2. ASSUME \A k \in 1..l : s[o + k] = stop[k] PROVE p = stop
      BY <1>2, <2>2, <2>3, <3>2, SameSeq
    <3> QED
      BY <3>1, <3>2
  <2>5. o + 1 \in 1..m
    BY <1>4
  <2> QED
    BY <1>1, <1>2, <1>3, <1>4, <2>1, <2>4, <2>5 DEF Occurrences, OccursAt, At
<1>5. CASE ~(o + l <= m)
  BY <1>1, <1>2, <1>3, <1>5 DEF Occurrences, OccursAt, At
<1> QED
  BY <1>4, <1>5

\* Occurrences, by their offsets.
LEMMA OccurrenceOffsets ==
  ASSUME NEW s \in Text, NEW stop \in Text \ {<<>>}
  PROVE  /\ Occurrences(s, stop) \in SUBSET Nat
         /\ \A i \in Occurrences(s, stop) : \E o \in Nat : i = o + 1 /\ At(s, stop, o)
<1>1. Occurrences(s, stop) \in SUBSET (1..Len(s)) /\ Len(s) \in Nat
  BY DEF Occurrences, Text
<1>2. ASSUME NEW i \in Occurrences(s, stop) PROVE \E o \in Nat : i = o + 1 /\ At(s, stop, o)
  <2>1. PICK o \in Nat : i = o + 1
    <3>1. i - 1 \in Nat /\ i = (i - 1) + 1
      BY <1>1
    <3> QED
      BY <3>1
  <2> QED
    BY <2>1, OccurrenceIs
<1> QED
  BY <1>1, <1>2

\* Behind a text that is put in front, everything stands that much later.
LEMMA Shifted ==
  ASSUME NEW t \in Text, NEW s \in Text, NEW stop \in Text, NEW o \in Nat,
         NEW n \in Nat, n = Len(t)
  PROVE  /\ At(t \o s, stop, n + o) <=> At(s, stop, o)
         /\ Begun(t \o s, stop, n + o) <=> Begun(s, stop, o)
<1>1. PICK m \in Nat : m = Len(s)
  BY DEF Text
<1>2. PICK l \in Nat : l = Len(stop)
  BY DEF Text
<1>3. PICK a : a = t \o s
  OBVIOUS
<1>4. Len(a) = n + m /\ \A k \in 1..m : a[n + k] = s[k]
  BY <1>1, <1>3, JoinPoint DEF Text
<1>5. ASSUME NEW k \in 1..l, o + k <= m PROVE a[(n + o) + k] = s[o + k]
  <2>1. o + k \in 1..m /\ (n + o) + k = n + (o + k)
    BY <1>5
  <2> QED
    BY <1>4, <2>1
<1>6. At(a, stop, n + o) <=> At(s, stop, o)
  <2>1. (n + o) + l <= n + m <=> o + l <= m
    OBVIOUS
  <2>2. o + l <= m => \A k \in 1..l : o + k <= m
    OBVIOUS
  <2> QED
    BY <1>1, <1>2, <1>4, <1>5, <2>1, <2>2 DEF At
<1>7. Begun(a, stop, n + o) <=> Begun(s, stop, o)
  <2>1. /\ n + o < n + m <=> o < m
        /\ n + m < (n + o) + l <=> m < o + l
        /\ \A k \in 1..l : (n + o) + k <= n + m <=> o + k <= m
    OBVIOUS
  <2> QED
    BY <1>1, <1>2, <1>4, <1>5, <2>1 DEF Begun
<1> QED
  BY <1>3, <1>6, <1>7

\* A string that stands or is begun in a longer text stands behind the text
\* before, stood in it already, or was begun there.
LEMMA Arriving ==
  ASSUME NEW d \in Text, NEW c \in Text, NEW stop \in Text, NEW o \in Nat,
         At(d \o c, stop, o) \/ Begun(d \o c, stop, o)
  PROVE  Len(d) <= o \/ At(d, stop, o) \/ Begun(d, stop, o)
<1>1. PICK m \in Nat : m = Len(d)
  BY DEF Text
<1>2. PICK l \in Nat : l = Len(stop)
  BY DEF Text
<1>3. PICK j \in Nat : j = Len(c)
  BY DEF Text
<1>4. PICK a : a = d \o c
  OBVIOUS
<1>5. Len(a) = m + j /\ \A k \in 1..m : a[k] = d[k]
  BY <1>1, <1>3, <1>4, JoinPoint DEF Text
<1>6. At(a, stop, o) \/ Begun(a, stop, o)
  BY <1>4
<1>7. \A k \in 1..l : o + k <= m => a[o + k] = stop[k]
  <2> SUFFICES ASSUME NEW k \in 1..l, o + k <= m PROVE a[o + k] = stop[k]
    OBVIOUS
  <2>1. o + k <= m + j
    OBVIOUS
  <2> QED
    BY <1>2, <1>5, <1>6, <2>1 DEF At, Begun
<1>8. \A k \in 1..l : o + k <= m => d[o + k] = stop[k]
  BY <1>5, <1>7
<1>9. CASE o + l <= m
  <2>1. \A k \in 1..l : o + k <= m
    BY <1>9
  <2> QED
    BY <1>1, <1>2, <1>8, <1>9, <2>1 DEF At
<1>10. CASE ~(o + l <= m) /\ o < m
  <2>1. m < o + l
    BY <1>10
  <2> QED
    BY <1>1, <1>2, <1>8, <1>10, <2>1 DEF Begun
<1>11. CASE ~(o < m)
  <2>1. m <= o
    BY <1>11
  <2> QED
    BY <1>1, <2>1
<1> QED
  BY <1>9, <1>10, <1>11

\* The longest beginning of the string that the text ends in.
LEMMA OverlapFacts ==
  ASSUME NEW s \in Text, NEW stop \in Text \ {<<>>}, NEW m \in Nat, m = Len(s)
  PROVE  LET n == LongestPrefixOverlap(s, stop)
         IN /\ n \in 0..m
            /\ \A o \in Nat : Begun(s, stop, o) => m <= o + n
            /\ n > 0 => \E o \in Nat : o + n = m /\ Begun(s, stop, o)
<1>1. PICK l \in Nat \ {0} : l = Len(stop)
  BY DEF Text
<1>2. s \in Seq(Byte) /\ stop \in Seq(Byte)
  BY DEF Text
<1> DEFINE Ends(n) == n <= m /\ SubSeq(s, m - n + 1, m) = SubSeq(stop, 1, n)
           S == {0} \cup {n \in 1..(l - 1) : Ends(n)}
<1>3. LongestPrefixOverlap(s, stop) = Max(S)
  BY <1>1 DEF LongestPrefixOverlap
<1>4. ASSUME NEW n \in 1..(l - 1), NEW o \in Nat, o + n = m
      PROVE  Ends(n) <=> Begun(s, stop, o)
  <2>1. m - n + 1 = o + 1 /\ n <= m /\ n \in Nat /\ n <= l
    BY <1>4
  <2>2. PICK p : p = SubSeq(s, o + 1, m)
    OBVIOUS
  <2>3. p \in Seq(Byte) /\ Len(p) = n /\ \A k \in 1..n : p[k] = s[o + k]
    BY <1>2, <1>4, <2>2
  <2>4. PICK q : q = SubSeq(stop, 1, n)
    OBVIOUS
  <2>5. q \in Seq(Byte) /\ Len(q) = n /\ \A k \in 1..n : q[k] = stop[k]
    BY <1>1, <1>2, <2>1, <2>4
  <2>6. Ends(n) <=> p = q
    BY <2>1, <2>2, <2>4
  <2>7. p = q <=> \A k \in 1..n : s[o + k] = stop[k]
    <3>1. ASSUME p = q, NEW k \in 1..n PROVE s[o + k] = stop[k]
      BY <2>3, <2>5, <3>1
    <3>2. ASSUME \A k \in 1..n : s[o + k] = stop[k] PROVE p = q
      <4>1. \A k \in 1..n : p[k] = q[k]
        BY <2>3, <2>5, <3>2
      <4> QED
        BY <2>3, <2>5, <4>1, SameSeq
    <3> QED
      BY <3>1, <3>2
  <2>8. /\ \A k \in 1..l : o + k <= m <=> k \in 1..n
        /\ o < m /\ m < o + l
    BY <1>4
  <2>9. Begun(s, stop, o) <=> \A k \in 1..n : s[o + k] = stop[k]
    <3>1. ASSUME Begun(s, stop, o), NEW k \in 1..n PROVE s[o + k] = stop[k]
      <4>1. k \in 1..l /\ o + k <= m
        BY <2>1, <2>8
      <4> QED
        BY <1>1, <3>1, <4>1 DEF Begun
    <3>2. ASSUME \A k \in 1..n : s[o + k] = stop[k] PROVE Begun(s, stop, o)
      BY <1>1, <2>8, <3>2 DEF Begun
    <3> QED
      BY <3>1, <3>2
  <2> HIDE DEF Ends
  <2> QED
    BY <2>6, <2>7, <2>9
<1>5. S \in SUBSET (0..m) /\ S # {}
  OBVIOUS
<1>6. PICK N : N = Max(S)
  OBVIOUS
<1>7. N \in S /\ \A y \in S : y <= N
  <2> HIDE DEF S
  <2> QED
    BY <1>5, <1>6, MaxIs
<1>8. ASSUME NEW o \in Nat, Begun(s, stop, o) PROVE m <= o + N
  <2>1. o < m /\ m < o + l
    BY <1>1, <1>8 DEF Begun
  <2>2. PICK n \in Nat : o + n = m
    <3>1. m - o \in Nat /\ o + (m - o) = m
      BY <2>1
    <3> QED
      BY <3>1
  <2>3. n \in 1..(l - 1)
    BY <2>1, <2>2
  <2>4. n \in S
    BY <1>4, <1>8, <2>2, <2>3
  <2>5. n <= N /\ N \in Nat
    BY <1>5, <1>7, <2>4
  <2> QED
    BY <2>2, <2>5
<1>9. ASSUME N > 0 PROVE \E o \in Nat : o + N = m /\ Begun(s, stop, o)
  <2>1. N \in 1..(l - 1) /\ Ends(N)
    BY <1>7, <1>9
  <2>2. m - N \in Nat /\ (m - N) + N = m
    BY <2>1
  <2> QED
    BY <1>4, <2>1, <2>2
<1>10. N \in 0..m
  BY <1>5, <1>7
<1> HIDE DEF S
<1> QED
  BY <1>3, <1>6, <1>8, <1>9, <1>10

Stops == params.stops \in Seq(Text \ {<<>>}) /\ params.stops # <<>>

\* What must wait is the longest beginning of any stop string.
LEMMA HoldFacts ==
  ASSUME Stops, NEW s \in Text, NEW m \in Nat, m = Len(s)
  PROVE  /\ Hold(s) \in 0..m
         /\ \A i \in DOMAIN params.stops : \A o \in Nat :
              Begun(s, params.stops[i], o) => m <= o + Hold(s)
         /\ Hold(s) > 0 => \E i \in DOMAIN params.stops : \E o \in Nat :
              o + Hold(s) = m /\ Begun(s, params.stops[i], o)
<1> DEFINE n(i) == LongestPrefixOverlap(s, params.stops[i])
           S == {n(i) : i \in DOMAIN params.stops}
<1>1. \A i \in DOMAIN params.stops : params.stops[i] \in Text \ {<<>>}
  BY DEF Stops
<1>2. /\ \A i \in DOMAIN params.stops : n(i) \in 0..m
      /\ \A i \in DOMAIN params.stops : \A o \in Nat :
           Begun(s, params.stops[i], o) => m <= o + n(i)
      /\ \A i \in DOMAIN params.stops :
           n(i) > 0 => \E o \in Nat : o + n(i) = m /\ Begun(s, params.stops[i], o)
  BY <1>1, OverlapFacts
<1> HIDE DEF n
<1>3. 1 \in DOMAIN params.stops
  BY DEF Stops
<1>4. S \in SUBSET (0..m) /\ S # {}
  BY <1>2, <1>3
<1>5. Hold(s) = Max(S)
  BY DEF Hold, n
<1>6. Hold(s) \in S /\ \A y \in S : y <= Hold(s)
  <2> HIDE DEF S
  <2> QED
    BY <1>4, <1>5, MaxIs
<1>7. PICK h \in 0..m : h = Hold(s)
  BY <1>4, <1>6
<1>8. ASSUME NEW i \in DOMAIN params.stops, NEW o \in Nat, Begun(s, params.stops[i], o)
      PROVE  m <= o + h
  <2>1. m <= o + n(i) /\ n(i) \in 0..m
    BY <1>2, <1>8
  <2>2. n(i) <= h
    BY <1>6, <1>7
  <2> QED
    BY <2>1, <2>2
<1>9. ASSUME h > 0
      PROVE  \E i \in DOMAIN params.stops : \E o \in Nat :
               o + h = m /\ Begun(s, params.stops[i], o)
  BY <1>2, <1>6, <1>7, <1>9
<1> QED
  BY <1>7, <1>8, <1>9

\* Feed reports a match exactly when a stop string has come, and then shows the
\* text before the earliest one.
LEMMA FeedMatches ==
  ASSUME Stops, held \in Text, NEW chunk \in Text, Feed(chunk).matched # {}
  PROVE  \E o \in Nat :
           /\ o <= Len(held \o chunk)
           /\ Feed(chunk).emit = SubSeq(held \o chunk, 1, o)
           /\ \E i \in DOMAIN params.stops : At(held \o chunk, params.stops[i], o)
           /\ \A i \in DOMAIN params.stops : \A q \in Nat :
                At(held \o chunk, params.stops[i], q) => o <= q
<1>1. PICK s \in Text : s = held \o chunk
  BY TextJoins
<1> DEFINE Occ(i) == Occurrences(s, params.stops[i])
           found == {i \in DOMAIN params.stops : Occ(i) # {}}
           at(i) == Min(Occ(i))
           firsts == {at(i) : i \in found}
<1>2. found # {} /\ Feed(chunk).emit = SubSeq(s, 1, Min(firsts) - 1)
  BY <1>1 DEF Feed
<1>3. \A i \in DOMAIN params.stops : params.stops[i] \in Text \ {<<>>}
  BY DEF Stops
<1>4. \A i \in DOMAIN params.stops :
        /\ Occ(i) \in SUBSET Nat
        /\ \A j \in Occ(i) : \E o \in Nat : j = o + 1 /\ At(s, params.stops[i], o)
  BY <1>3, OccurrenceOffsets
<1>5. \A i \in DOMAIN params.stops : \A o \in Nat : o + 1 \in Occ(i) <=> At(s, params.stops[i], o)
  BY <1>3, OccurrenceIs
<1> HIDE DEF Occ
<1>6. \A i \in found : at(i) \in Occ(i) /\ (\A j \in Occ(i) : at(i) <= j) /\ at(i) \in Nat
  <2> SUFFICES ASSUME NEW i \in found
               PROVE  at(i) \in Occ(i) /\ (\A j \in Occ(i) : at(i) <= j) /\ at(i) \in Nat
    OBVIOUS
  <2>1. Occ(i) \in SUBSET Nat /\ Occ(i) # {}
    BY <1>4
  <2>2. PICK x \in Occ(i) : \A j \in Occ(i) : x <= j
    BY <2>1, LeastExists
  <2>3. at(i) = x
    BY <2>1, <2>2, MinIs
  <2> QED
    BY <2>1, <2>2, <2>3
<1> HIDE DEF at
<1>7. firsts \in SUBSET Nat /\ firsts # {}
  BY <1>2, <1>6
<1>8. PICK x \in firsts : \A j \in firsts : x <= j
  <2> HIDE DEF firsts
  <2> QED
    BY <1>7, LeastExists
<1>9. Min(firsts) = x /\ x \in Nat
  <2> HIDE DEF firsts
  <2> QED
    BY <1>7, <1>8, MinIs
<1>10. PICK i \in found : x = at(i)
  BY <1>8
<1>11. PICK o \in Nat : x = o + 1 /\ At(s, params.stops[i], o)
  <2>1. x \in Occ(i)
    BY <1>6, <1>10
  <2> QED
    BY <1>4, <2>1
<1>12. Feed(chunk).emit = SubSeq(s, 1, o)
  <2>1. x - 1 = o
    BY <1>11
  <2> QED
    BY <1>2, <1>9, <2>1
<1>13. ASSUME NEW j \in DOMAIN params.stops, NEW q \in Nat, At(s, params.stops[j], q)
       PROVE  o <= q
  <2>1. q + 1 \in Occ(j)
    BY <1>5, <1>13
  <2>2. j \in found
    BY <2>1
  <2>3. at(j) <= q + 1 /\ x <= at(j) /\ at(j) \in Nat
    BY <1>6, <1>8, <2>1, <2>2
  <2> QED
    BY <1>11, <2>3
<1>14. o <= Len(s)
  <2>1. Len(params.stops[i]) \in Nat /\ Len(s) \in Nat
    BY <1>3 DEF Text
  <2> QED
    BY <1>11, <2>1 DEF At
<1> QED
  BY <1>1, <1>11, <1>12, <1>13, <1>14

\* Otherwise none has, and Feed splits the text where one may be beginning.
LEMMA FeedHolds ==
  ASSUME Stops, held \in Text, NEW chunk \in Text, Feed(chunk).matched = {}
  PROVE  \E n, h \in Nat :
           /\ Len(held \o chunk) = n + h
           /\ Feed(chunk).emit = SubSeq(held \o chunk, 1, n)
           /\ Feed(chunk).held = Rest(held \o chunk, n)
           /\ \A i \in DOMAIN params.stops : \A o \in Nat :
                /\ ~At(held \o chunk, params.stops[i], o)
                /\ Begun(held \o chunk, params.stops[i], o) => n <= o
           /\ h > 0 => \E i \in DOMAIN params.stops : Begun(held \o chunk, params.stops[i], n)
<1>1. PICK s \in Text : s = held \o chunk
  BY TextJoins
<1>2. PICK m \in Nat : m = Len(s)
  BY DEF Text
<1>3. PICK h \in 0..m :
        /\ h = Hold(s)
        /\ \A i \in DOMAIN params.stops : \A o \in Nat :
             Begun(s, params.stops[i], o) => m <= o + h
        /\ h > 0 => \E i \in DOMAIN params.stops : \E o \in Nat :
             o + h = m /\ Begun(s, params.stops[i], o)
  BY <1>2, HoldFacts
<1>4. PICK n \in Nat : m = n + h /\ n = m - h
  OBVIOUS
<1> DEFINE Occ(i) == Occurrences(s, params.stops[i])
           found == {i \in DOMAIN params.stops : Occ(i) # {}}
<1>5. /\ found = {}
      /\ Feed(chunk).emit = SubSeq(s, 1, m - h) /\ Feed(chunk).held = Rest(s, m - h)
  BY <1>1, <1>2, <1>3 DEF Feed
<1>6. ASSUME NEW i \in DOMAIN params.stops, NEW o \in Nat PROVE ~At(s, params.stops[i], o)
  <2>1. params.stops[i] \in Text \ {<<>>}
    BY DEF Stops
  <2>2. Occ(i) = {}
    BY <1>5
  <2> QED
    BY <2>1, <2>2, OccurrenceIs
<1>7. ASSUME NEW i \in DOMAIN params.stops, NEW o \in Nat, Begun(s, params.stops[i], o)
      PROVE  n <= o
  <2>1. n + h <= o + h
    BY <1>3, <1>4, <1>7
  <2> QED
    BY <2>1
<1>8. ASSUME h > 0 PROVE \E i \in DOMAIN params.stops : Begun(s, params.stops[i], n)
  <2>1. PICK i \in DOMAIN params.stops, o \in Nat : o + h = m /\ Begun(s, params.stops[i], o)
    BY <1>3, <1>8
  <2>2. o = n
    BY <1>4, <2>1
  <2> QED
    BY <2>1, <2>2
<1>9. n \in Nat /\ h \in Nat /\ Len(s) = n + h
  BY <1>2, <1>4
<1> HIDE DEF Occ
<1> QED
  BY <1>1, <1>4, <1>5, <1>6, <1>7, <1>8, <1>9
----------------------------------------------------------------------------
(* The inductive invariant. *)

Triggers == {"kNone", "kEosId", "kStopTokenId", "kMaxTokens", "kStopString"}

\* The ids the next forward feeds.
Feeds == IF delivered = <<>> THEN params.prompt ELSE <<Last(delivered)>>

TypeOK ==
  /\ params \in [stops : StopLists, limit : Limits, skip : BOOLEAN, prompt : Prompts]
  /\ pc \in {"ready", "forward", "consume", "done", "failed"} /\ calls \in Nat
  /\ cache \in Seq(Vocab) /\ input \in Seq(Vocab)
  /\ tokens \in Seq(Vocab) /\ delivered \in Seq(Vocab)
  /\ text \in Text /\ pending \in Text /\ held \in Text /\ trigger \in Triggers

\* No stop string stands in d, and none is begun before the first n bytes of it.
NoneCame(d) ==
  \A i \in DOMAIN params.stops : \A o \in Nat : ~At(d, params.stops[i], o)
NoneBegun(d, n) ==
  \A i \in DOMAIN params.stops : \A o \in Nat : Begun(d, params.stops[i], o) => n <= o

\* The earliest stop string of d stands at o.
Earliest(d, o) ==
  /\ \E i \in DOMAIN params.stops : At(d, params.stops[i], o)
  /\ \A i \in DOMAIN params.stops : \A q \in Nat : At(d, params.stops[i], q) => o <= q

\* What was shown, what is held back and what is carried make up the text; at the
\* end, all of it was shown.
DecodeInv ==
  /\ trigger = "kNone" => Decided = text \o held /\ Drain[Stream].carry = pending
  /\ trigger \in {"kEosId", "kStopTokenId", "kMaxTokens"} =>
       text = Decided \o Residue(Drain[Stream].carry) /\ held = <<>> /\ pending = <<>>

\* While none has come, none is begun in the text that was shown: this is what
\* makes it enough to look for the next one behind it.
MatchInv ==
  /\ trigger = "kNone" =>
       /\ NoneCame(text \o held) /\ NoneBegun(text \o held, Len(text))
       /\ held # <<>> => \E i \in DOMAIN params.stops : IsStrictPrefix(held, params.stops[i])
  /\ trigger = "kMaxTokens" => NoneCame(Decided)
  /\ trigger = "kStopString" =>
       /\ held = <<>>
       /\ \E o \in Nat : o <= Len(Decided) /\ text = SubSeq(Decided, 1, o) /\ Earliest(Decided, o)

\* The cache is behind the delivered ids by what is fed next, and what the call
\* may still produce fits.
PlaceInv ==
  /\ pc = "forward" =>
       /\ trigger = "kNone" /\ input = Feeds /\ Len(tokens) < params.limit
       /\ cache \o input = params.prompt \o delivered
       /\ Len(cache) + Len(input) + params.limit <= Capacity + 1 + Len(tokens)
  /\ pc = "consume" =>
       /\ trigger = "kNone" /\ Len(tokens) < params.limit
       /\ cache = params.prompt \o delivered
       /\ Len(cache) + params.limit <= Capacity + 1 + Len(tokens)
  /\ pc = "ready" =>
       IF delivered = <<>> THEN cache = <<>> ELSE cache \o Feeds = params.prompt \o delivered
  /\ Len(cache) <= Capacity

IInv == TypeOK /\ DecodeInv /\ MatchInv /\ PlaceInv

\* What an id contributes is text.
LEMMA PieceType ==
  ASSUME NEW id \in Vocab
  PROVE  Piece(id) \in Text
<1>1. TokenBytes[id] \in Text
  BY TextStreamAssumption DEF Text
<1> QED
  BY <1>1, TextJoins DEF Piece

\* The bytes of a call's tokens are text.
LEMMA StreamType ==
  ASSUME TypeOK
  PROVE  Stream \in Text
<1>1. PICK ss : ss = [i \in DOMAIN tokens |-> Piece(tokens[i])]
  OBVIOUS
<1>2. PICK n \in Nat : n = Len(tokens) /\ tokens \in Seq(Vocab) /\ DOMAIN tokens = 1..n
  BY DEF TypeOK
<1>3. \A i \in 1..n : tokens[i] \in Vocab /\ Piece(tokens[i]) \in Text
  BY <1>2, PieceType
<1>4. ss \in [1..n -> Text]
  BY <1>1, <1>2, <1>3
<1>5. ss \in Seq(Text)
  BY <1>4
<1>6. FlattenSeq(ss) \in Text
  <2>1. <<>> \in Text
    BY TextJoins
  <2> QED
    BY <1>5, <2>1, FlattenAppend
<1> QED
  BY <1>1, <1>6 DEF Stream

\* One more token adds its piece to the text of the call.
LEMMA StreamStep ==
  ASSUME TypeOK, NEW id \in Vocab, params' = params
  PROVE  /\ Stream \in Text /\ Piece(id) \in Text
         /\ tokens' = Append(tokens, id) => Stream' = Stream \o Piece(id)
         /\ tokens' = tokens => Stream' = Stream
<1>1. PICK ss : ss = [i \in DOMAIN tokens |-> Piece(tokens[i])]
  OBVIOUS
<1>2. PICK n \in Nat : n = Len(tokens) /\ tokens \in Seq(Vocab) /\ DOMAIN tokens = 1..n
  BY DEF TypeOK
<1>3. \A i \in 1..n : tokens[i] \in Vocab /\ Piece(tokens[i]) \in Text
  BY <1>2, PieceType
<1>4. ss \in Seq(Text) /\ Len(ss) = n /\ \A i \in 1..n : ss[i] = Piece(tokens[i])
  <2>1. ss \in [1..n -> Text]
    BY <1>1, <1>2, <1>3
  <2> QED
    BY <1>1, <1>2, <2>1
<1>5. Piece(id) \in Text
  BY PieceType
<1>6. Stream = FlattenSeq(ss)
  BY <1>1 DEF Stream
<1>7. FlattenSeq(ss) \in Text /\ FlattenSeq(Append(ss, Piece(id))) = FlattenSeq(ss) \o Piece(id)
  BY <1>4, <1>5, FlattenAppend
<1>8. ASSUME tokens' = Append(tokens, id) PROVE Stream' = Stream \o Piece(id)
  <2>1. PICK tt : tt = [i \in DOMAIN tokens' |-> Piece(tokens'[i])]
    OBVIOUS
  <2>2. /\ DOMAIN tokens' = 1..(n + 1) /\ tokens'[n + 1] = id
        /\ \A i \in 1..n : tokens'[i] = tokens[i]
    BY <1>2, <1>8
  <2>3. /\ DOMAIN tt = 1..(n + 1) /\ tt[n + 1] = Piece(id)
        /\ \A i \in 1..n : tt[i] = ss[i]
    <3>1. DOMAIN tt = 1..(n + 1) /\ n + 1 \in 1..(n + 1)
      BY <2>1, <2>2
    <3>2. tt[n + 1] = Piece(id)
      BY <2>1, <2>2, <3>1
    <3>3. \A i \in 1..n : tt[i] = ss[i]
      BY <1>4, <2>1, <2>2
    <3> QED
      BY <3>1, <3>2, <3>3
  <2>4. tt = Append(ss, Piece(id))
    <3>1. PICK u : u = Append(ss, Piece(id))
      OBVIOUS
    <3>2. /\ u \in Seq(Text) /\ Len(u) = n + 1 /\ u[n + 1] = Piece(id)
          /\ \A i \in 1..n : u[i] = ss[i]
      BY <1>4, <1>5, <3>1
    <3>3. \A i \in 1..(n + 1) : tt[i] = u[i]
      <4> SUFFICES ASSUME NEW i \in 1..(n + 1) PROVE tt[i] = u[i]
        OBVIOUS
      <4>1. i \in 1..n \/ i = n + 1
        OBVIOUS
      <4> QED
        BY <2>3, <3>2, <4>1
    <3>4. DOMAIN u = 1..(n + 1)
      BY <3>2
    <3>5. tt = [i \in 1..(n + 1) |-> tt[i]] /\ u = [i \in 1..(n + 1) |-> u[i]]
      <4>1. tt = [i \in DOMAIN tt |-> tt[i]]
        BY <2>1
      <4>2. u = [i \in DOMAIN u |-> u[i]]
        BY <3>2
      <4> QED
        BY <2>3, <3>4, <4>1, <4>2
    <3>6. tt = u
      BY <3>3, <3>5
    <3> QED
      BY <3>1, <3>6
  <2>5. Stream' = FlattenSeq(tt)
    BY <2>1 DEF Stream, Piece
  <2> QED
    BY <1>6, <1>7, <2>4, <2>5
<1>9. ASSUME tokens' = tokens PROVE Stream' = Stream
  BY <1>9 DEF Stream, Piece
<1> QED
  BY <1>5, <1>6, <1>7, <1>8, <1>9

\* What the next token makes of the text: what push shows is decided, what it
\* leaves is carried.
LEMMA DecidedStep ==
  ASSUME IInv, trigger = "kNone", NEW id \in Vocab, params' = params,
         tokens' = Append(tokens, id)
  PROVE  /\ push(id).out \in Text /\ push(id).carry \in Text
         /\ Decided' = (text \o held) \o push(id).out
         /\ Drain[Stream'].carry = push(id).carry
<1>1. TypeOK /\ pending \in Text /\ Decided = text \o held /\ Drain[Stream].carry = pending
  BY DEF IInv, TypeOK, DecodeInv
<1>2. Stream \in Text /\ Piece(id) \in Text /\ Stream' = Stream \o Piece(id)
  BY <1>1, StreamStep
<1>3. pending \o Piece(id) \in Text
  BY <1>1, <1>2, TextJoins
<1>4. push(id).out \in Text /\ push(id).carry \in Text
  BY <1>3, DrainType DEF push, Drained
<1>5. /\ Drain[Stream \o Piece(id)].out
            = Drain[Stream].out \o Drain[Drain[Stream].carry \o Piece(id)].out
      /\ Drain[Stream \o Piece(id)].carry
            = Drain[Drain[Stream].carry \o Piece(id)].carry
  BY <1>2, DrainJoin
<1>6. Decided' = Drain[Stream'].out
  BY DEF Decided
<1> QED
  BY <1>1, <1>2, <1>4, <1>5, <1>6 DEF push, Decided

\* An id-based stop shows everything.
LEMMA ObserveIdInv ==
  ASSUME IInv, trigger = "kNone", NEW id \in Vocab, ObserveId(id), params' = params,
         tokens' = Append(tokens, id)
  PROVE  /\ trigger' \in Triggers \ {"kNone"}
         /\ text' \in Text /\ held' \in Text /\ pending' \in Text
         /\ DecodeInv' /\ MatchInv'
<1>1. PICK p : p = push(id)
  OBVIOUS
<1>2. p.out \in Text /\ p.carry \in Text /\ Decided' = (text \o held) \o p.out
      /\ Drain[Stream'].carry = p.carry
  BY <1>1, DecidedStep
<1>3. /\ trigger' \in {"kEosId", "kStopTokenId"}
      /\ text' = ((text \o held) \o p.out) \o Residue(p.carry)
      /\ held' = <<>> /\ pending' = <<>>
  BY <1>1 DEF ObserveId, IdTrigger
<1>4. text \in Text /\ held \in Text
  BY DEF IInv, TypeOK
<1>5. text' \in Text /\ <<>> \in Text
  BY <1>2, <1>3, <1>4, TextJoins
<1>6. DecodeInv'
  BY <1>2, <1>3 DEF DecodeInv
<1>7. MatchInv'
  BY <1>3 DEF MatchInv
<1> QED
  BY <1>3, <1>5, <1>6, <1>7 DEF Triggers

\* A stop string that stands or is begun in d is so behind the first n bytes of it.
ComesBehind(d, n) ==
  \A i \in DOMAIN params.stops : \A o \in Nat :
    At(d, params.stops[i], o) \/ Begun(d, params.stops[i], o) => \E q \in Nat : o = n + q

\* A stop string that has come, or is begun, by the next bytes is so behind what
\* was shown: looking at what was held and at the new bytes is enough.
LEMMA BehindShown ==
  ASSUME IInv, trigger = "kNone", NEW chunk \in Text, NEW n \in Nat, n = Len(text),
         NEW D, D = (text \o held) \o chunk
  PROVE  ComesBehind(D, n)
<1> SUFFICES ASSUME NEW i \in DOMAIN params.stops, NEW o \in Nat,
                    At(D, params.stops[i], o) \/ Begun(D, params.stops[i], o)
             PROVE  \E q \in Nat : o = n + q
  BY DEF ComesBehind
<1>1. text \in Text /\ held \in Text /\ params.stops \in Seq(Text \ {<<>>})
  BY TextStreamAssumption DEF IInv, TypeOK, Text
<1>2. PICK d \in Text : d = text \o held
  BY <1>1, TextJoins
<1>3. PICK h \in Nat : h = Len(held)
  BY <1>1 DEF Text
<1>4. Len(d) = n + h
  BY <1>1, <1>2, <1>3, JoinPoint DEF Text
<1>5. params.stops[i] \in Text
  BY <1>1
<1>6. Len(d) <= o \/ At(d, params.stops[i], o) \/ Begun(d, params.stops[i], o)
  BY <1>2, <1>5, Arriving
<1>7. ~At(d, params.stops[i], o) /\ (Begun(d, params.stops[i], o) => n <= o)
  BY <1>2 DEF IInv, MatchInv, NoneCame, NoneBegun
<1>8. n <= o
  BY <1>4, <1>6, <1>7
<1>9. o - n \in Nat /\ o = n + (o - n)
  BY <1>8
<1> QED
  BY <1>9

\* A matched stop string ends the text where the earliest one begins.
LEMMA ObserveMatchInv ==
  ASSUME IInv, trigger = "kNone", NEW id \in Vocab, ObserveMatch(id), params' = params,
         tokens' = Append(tokens, id)
  PROVE  /\ trigger' = "kStopString"
         /\ text' \in Text /\ held' \in Text /\ pending' \in Text
         /\ DecodeInv' /\ MatchInv'
<1>1. PICK c : c = push(id).out
  OBVIOUS
<1>2. c \in Text /\ push(id).carry \in Text /\ Decided' = (text \o held) \o c
  BY <1>1, DecidedStep
<1>3. /\ params.stops # <<>> /\ Feed(c).matched # {} /\ text' = text \o Feed(c).emit
      /\ held' = <<>> /\ pending' = push(id).carry /\ trigger' = "kStopString"
  BY <1>1 DEF ObserveMatch
<1>4. text \in Text /\ held \in Text /\ Stops
  BY <1>3, TextStreamAssumption DEF IInv, TypeOK, Stops, Text
<1>5. PICK s \in Text : s = held \o c
  BY <1>2, <1>4, TextJoins
<1>6. PICK o \in Nat :
        /\ o <= Len(s)
        /\ Feed(c).emit = SubSeq(s, 1, o)
        /\ \E i \in DOMAIN params.stops : At(s, params.stops[i], o)
        /\ \A i \in DOMAIN params.stops : \A q \in Nat : At(s, params.stops[i], q) => o <= q
  BY <1>2, <1>3, <1>4, <1>5, FeedMatches
<1>7. PICK n \in Nat : n = Len(text)
  BY <1>4 DEF Text
<1>8. PICK d : d = text \o s
  OBVIOUS
<1>9. d \in Text /\ d = (text \o held) \o c
  <2>1. d \in Text
    BY <1>4, <1>8, TextJoins
  <2>2. text \o (held \o c) = (text \o held) \o c
    <3>1. Associates(text, held, c)
      BY <1>2, <1>4, TextAssociates
    <3> QED
      BY <3>1 DEF Associates
  <2> QED
    BY <1>5, <1>8, <2>1, <2>2
<1>10. \A i \in DOMAIN params.stops : params.stops[i] \in Text
  BY <1>4 DEF Stops
<1>11. Earliest(d, n + o)
  <2>1. \E i \in DOMAIN params.stops : At(d, params.stops[i], n + o)
    BY <1>4, <1>6, <1>7, <1>8, <1>10, Shifted
  <2>2. ASSUME NEW i \in DOMAIN params.stops, NEW q \in Nat, At(d, params.stops[i], q)
        PROVE  n + o <= q
    <3>1. PICK r \in Nat : q = n + r
      <4>1. ComesBehind(d, n)
        BY <1>2, <1>7, <1>9, BehindShown
      <4> QED
        BY <2>2, <4>1 DEF ComesBehind
    <3>2. At(s, params.stops[i], r)
      BY <1>4, <1>7, <1>8, <1>10, <2>2, <3>1, Shifted
    <3>3. o <= r
      BY <1>6, <3>2
    <3> QED
      BY <3>1, <3>3
  <2> QED
    BY <2>1, <2>2 DEF Earliest
<1>12. PICK e : e = SubSeq(s, 1, o)
  OBVIOUS
<1>13. PICK m \in Nat : m = Len(s) /\ o <= m
  BY <1>6 DEF Text
<1>14. e \in Text /\ Len(e) = o /\ \A k \in 1..o : e[k] = s[k]
  BY <1>12, <1>13 DEF Text
<1>15. text' = text \o e
  BY <1>3, <1>6, <1>12
<1>16. SubSeq(d, 1, n + o) = text \o e /\ n + o <= Len(d)
  <2>1. /\ Len(d) = n + m /\ d \in Seq(Byte)
        /\ \A k \in 1..n : d[k] = text[k]
        /\ \A k \in 1..m : d[n + k] = s[k]
    <3>1. text \in Seq(Byte) /\ s \in Seq(Byte) /\ n = Len(text) /\ m = Len(s)
      BY <1>4, <1>7, <1>13 DEF Text
    <3> QED
      BY <1>8, <3>1, JoinPoint
  <2>2. PICK u : u = text \o e
    OBVIOUS
  <2>3. /\ u \in Seq(Byte) /\ Len(u) = n + o
        /\ \A k \in 1..n : u[k] = text[k]
        /\ \A k \in 1..o : u[n + k] = e[k]
    <3>1. text \in Seq(Byte) /\ e \in Seq(Byte) /\ n = Len(text) /\ o = Len(e)
      BY <1>4, <1>7, <1>14 DEF Text
    <3> QED
      BY <2>2, <3>1, JoinPoint
  <2>4. n + o <= n + m
    BY <1>13
  <2>5. PICK v : v = SubSeq(d, 1, n + o)
    OBVIOUS
  <2>6. v \in Seq(Byte) /\ Len(v) = n + o /\ \A k \in 1..(n + o) : v[k] = d[k]
    BY <2>1, <2>4, <2>5
  <2>7. ASSUME NEW k \in 1..(n + o) PROVE v[k] = u[k]
    <3>1. k \in 1..n \/ \E j \in 1..o : k = n + j
      BY InParts
    <3>2. CASE k \in 1..n
      BY <2>1, <2>3, <2>6, <3>2
    <3>3. ASSUME NEW j \in 1..o, k = n + j PROVE v[k] = u[k]
      <4>1. j \in 1..m
        BY <1>13
      <4> QED
        BY <1>14, <2>1, <2>3, <2>6, <3>3, <4>1
    <3> QED
      BY <3>1, <3>2, <3>3
  <2>8. v = u
    BY <2>3, <2>6, <2>7, SameSeq
  <2> QED
    BY <2>1, <2>2, <2>4, <2>5, <2>8
<1>17. text' \in Text /\ <<>> \in Text
  BY <1>4, <1>14, <1>15, TextJoins
<1>18. /\ n + o \in Nat /\ n + o <= Len(Decided') /\ text' = SubSeq(Decided', 1, n + o)
       /\ Earliest(Decided', n + o)
  BY <1>2, <1>9, <1>11, <1>15, <1>16
<1>19. MatchInv'
  <2>1. Earliest(Decided, n + o)'
    BY <1>18 DEF Earliest
  <2>2. \E x \in Nat : (x <= Len(Decided) /\ text = SubSeq(Decided, 1, x) /\ Earliest(Decided, x))'
    BY <1>18, <2>1
  <2> QED
    BY <1>3, <2>2 DEF MatchInv
<1>20. DecodeInv'
  BY <1>3 DEF DecodeInv
<1> QED
  BY <1>2, <1>3, <1>17, <1>19, <1>20

\* What is left of the text where a stop string is begun is a beginning of it.
LEMMA BegunIsPrefix ==
  ASSUME NEW s \in Text, NEW stop \in Text, NEW n \in Nat, NEW h \in Nat, Len(s) = n + h,
         Begun(s, stop, n)
  PROVE  IsStrictPrefix(Rest(s, n), stop)
<1>1. PICK w : w = Rest(s, n)
  OBVIOUS
<1>2. s \in Seq(Byte) /\ stop \in Seq(Byte)
  BY DEF Text
<1>3. w \in Seq(Byte) /\ Len(w) = h /\ \A k \in 1..h : w[k] = s[n + k]
  BY <1>1, <1>2 DEF Rest
<1>4. PICK l \in Nat : l = Len(stop)
  BY <1>2
<1>5. h < l
  <2>1. n + h < n + l
    BY <1>4 DEF Begun
  <2> QED
    BY <2>1
<1>6. ASSUME NEW k \in 1..h PROVE w[k] = stop[k]
  <2>1. k \in 1..l /\ n + k <= n + h
    BY <1>5
  <2>2. s[n + k] = stop[k]
    BY <1>4, <2>1 DEF Begun
  <2> QED
    BY <1>3, <2>2
<1>7. PICK u : u = SubSeq(stop, 1, h)
  OBVIOUS
<1>8. u \in Seq(Byte) /\ Len(u) = h /\ \A k \in 1..h : u[k] = stop[k]
  BY <1>2, <1>4, <1>5, <1>7
<1>9. PICK v : v = SubSeq(w, 1, h)
  OBVIOUS
<1>10. v \in Seq(Byte) /\ Len(v) = h /\ \A k \in 1..h : v[k] = w[k]
  BY <1>3, <1>9
<1>11. v = u
  BY <1>6, <1>8, <1>10, SameSeq
<1>12. w # stop
  BY <1>3, <1>4, <1>5
<1> QED
  BY <1>1, <1>3, <1>4, <1>5, <1>7, <1>9, <1>11, <1>12 DEF IsStrictPrefix, IsPrefix

\* What ObserveText makes of the new bytes when no stop string has come: the part
\* it shows and the part it holds back.
LEMMA Unmatched ==
  ASSUME params.stops \in Seq(Text \ {<<>>}), held \in Text, NEW chunk \in Text,
         params.stops = <<>> => held = <<>>, NEW fed, fed.matched = {},
         fed = IF params.stops = <<>> THEN [emit |-> chunk, held |-> <<>>, matched |-> {}]
               ELSE Feed(chunk)
  PROVE  \E k \in Nat :
           /\ fed.emit \in Text /\ fed.held \in Text /\ Len(fed.emit) = k
           /\ fed.emit \o fed.held = held \o chunk
           /\ NoneCame(held \o chunk) /\ NoneBegun(held \o chunk, k)
           /\ fed.held # <<>> =>
                \E i \in DOMAIN params.stops : IsStrictPrefix(fed.held, params.stops[i])
<1>1. CASE params.stops = <<>>
  <2>1. fed.emit = chunk /\ fed.held = <<>> /\ held = <<>>
    BY <1>1
  <2>2. held \o chunk = chunk /\ chunk \o <<>> = chunk /\ <<>> \in Text
    BY <2>1, TextJoins
  <2>3. PICK k \in Nat : k = Len(chunk)
    BY DEF Text
  <2>4. DOMAIN params.stops = {}
    BY <1>1
  <2>5. NoneCame(chunk) /\ NoneBegun(chunk, k)
    BY <2>4 DEF NoneCame, NoneBegun
  <2> QED
    BY <2>1, <2>2, <2>3, <2>5
<1>2. CASE params.stops # <<>>
  <2>1. Stops /\ fed = Feed(chunk)
    BY <1>2 DEF Stops
  <2>2. PICK s \in Text : s = held \o chunk
    BY TextJoins
  <2>3. PICK n \in Nat, h \in Nat :
          /\ Len(s) = n + h
          /\ fed.emit = SubSeq(s, 1, n) /\ fed.held = Rest(s, n)
          /\ \A i \in DOMAIN params.stops : \A o \in Nat :
               /\ ~At(s, params.stops[i], o)
               /\ Begun(s, params.stops[i], o) => n <= o
          /\ h > 0 => \E i \in DOMAIN params.stops : Begun(s, params.stops[i], n)
    BY <2>1, <2>2, FeedHolds
  <2>4. NoneCame(s) /\ NoneBegun(s, n)
    BY <2>3 DEF NoneCame, NoneBegun
  <2>5. s \in Seq(Byte) /\ Len(s) = n + h
    BY <2>3 DEF Text
  <2>6. /\ fed.emit \in Text /\ fed.held \in Text
        /\ Len(fed.emit) = n /\ Len(fed.held) = h
    <3>1. fed.emit = SubSeq(s, 1, n) /\ fed.held = Rest(s, n)
      BY <2>3
    <3>2. SubSeq(s, 1, n) \in Seq(Byte) /\ Len(SubSeq(s, 1, n)) = n
      BY <2>5
    <3>3. Rest(s, n) \in Seq(Byte) /\ Len(Rest(s, n)) = h
      BY <2>5 DEF Rest
    <3> QED
      BY <3>1, <3>2, <3>3 DEF Text
  <2>7. fed.emit \o fed.held = s
    BY <2>3, <2>5, CutJoin
  <2>8. ASSUME fed.held # <<>>
        PROVE  \E i \in DOMAIN params.stops : IsStrictPrefix(fed.held, params.stops[i])
    <3>1. h > 0
      BY <2>6, <2>8 DEF Text
    <3>2. PICK i \in DOMAIN params.stops : Begun(s, params.stops[i], n)
      BY <2>3, <3>1
    <3>3. params.stops[i] \in Text
      OBVIOUS
    <3>4. IsStrictPrefix(Rest(s, n), params.stops[i])
      BY <2>3, <3>2, <3>3, BegunIsPrefix
    <3> QED
      BY <2>3, <3>4
  <2> QED
    BY <2>2, <2>4, <2>6, <2>7, <2>8
<1> QED
  BY <1>1, <1>2

\* A token that stops nothing: the text is shown up to where a stop string may be
\* beginning, or all of it at the limit.
LEMMA ObserveTextInv ==
  ASSUME IInv, trigger = "kNone", NEW id \in Vocab, ObserveText(id), params' = params,
         tokens' = Append(tokens, id)
  PROVE  /\ trigger' \in {"kNone", "kMaxTokens"}
         /\ trigger' = "kNone" => Len(tokens) + 1 < params.limit
         /\ text' \in Text /\ held' \in Text /\ pending' \in Text
         /\ DecodeInv' /\ MatchInv'
<1>1. PICK c, q : c = push(id).out /\ q = push(id).carry
  OBVIOUS
<1>2. /\ c \in Text /\ q \in Text /\ Decided' = (text \o held) \o c
      /\ Drain[Stream'].carry = q
  BY <1>1, DecidedStep
<1>3. c \in Text
  BY <1>2
<1>4. PICK fed :
        /\ fed = IF params.stops = <<>> THEN [emit |-> c, held |-> <<>>, matched |-> {}]
                 ELSE Feed(c)
        /\ fed.matched = {}
        /\ IF Len(tokens) + 1 >= params.limit
           THEN /\ trigger' = "kMaxTokens"
                /\ text' = text \o fed.emit \o fed.held \o Residue(q)
                /\ held' = <<>> /\ pending' = <<>>
           ELSE /\ text' = text \o fed.emit
                /\ held' = fed.held /\ pending' = q
                /\ UNCHANGED trigger
  BY <1>1 DEF ObserveText
<1>5. text \in Text /\ held \in Text
  BY DEF IInv, TypeOK
<1>6. Len(tokens) \in Nat /\ params.limit \in Nat
  <2>1. tokens \in Seq(Vocab)
    BY DEF IInv, TypeOK
  <2>2. params.limit \in Limits
    BY DEF IInv, TypeOK
  <2>3. \A l \in Limits : l \in Nat
    BY TextStreamAssumption
  <2> QED
    BY <2>1, <2>2, <2>3
<1>7. params.stops \in Seq(Text \ {<<>>})
  BY TextStreamAssumption DEF IInv, TypeOK, Text
<1>8. params.stops = <<>> => held = <<>>
  BY DEF IInv, MatchInv
<1>9. PICK k \in Nat :
        /\ fed.emit \in Text /\ fed.held \in Text /\ Len(fed.emit) = k
        /\ fed.emit \o fed.held = held \o c
        /\ NoneCame(held \o c) /\ NoneBegun(held \o c, k)
        /\ fed.held # <<>> =>
             \E i \in DOMAIN params.stops : IsStrictPrefix(fed.held, params.stops[i])
  BY <1>2, <1>4, <1>5, <1>7, <1>8, Unmatched
<1>10. PICK s \in Text : s = held \o c
  BY <1>2, <1>5, TextJoins
<1>11. PICK d \in Text : d = text \o s
  BY <1>5, TextJoins
<1>12. PICK a \in Text : a = text \o fed.emit
  BY <1>5, <1>9, TextJoins
<1>13. PICK n \in Nat : n = Len(text)
  BY <1>5 DEF Text
<1>14. Len(a) = n + k
  <2>1. text \in Seq(Byte) /\ fed.emit \in Seq(Byte) /\ n = Len(text) /\ k = Len(fed.emit)
    BY <1>5, <1>9, <1>13 DEF Text
  <2> QED
    BY <1>12, <2>1, JoinPoint
<1>15. d = (text \o held) \o c
  <2>1. text \o (held \o c) = (text \o held) \o c
    <3>1. Associates(text, held, c)
      BY <1>3, <1>5, TextAssociates
    <3> QED
      BY <3>1 DEF Associates
  <2> QED
    BY <1>10, <1>11, <2>1
<1>16. d = a \o fed.held
  <2>1. text \o (fed.emit \o fed.held) = (text \o fed.emit) \o fed.held
    <3>1. PICK x \in Text : x = fed.emit
      BY <1>9
    <3>2. PICK y \in Text : y = fed.held
      BY <1>9
    <3>3. text \in Text
      BY <1>5
    <3>4. Associates(text, x, y)
      BY <3>3, TextAssociates
    <3> QED
      BY <3>1, <3>2, <3>4 DEF Associates
  <2>2. fed.emit \o fed.held = s
    BY <1>9, <1>10
  <2> QED
    BY <1>11, <1>12, <2>1, <2>2
<1>17. Decided' = d
  BY <1>2, <1>15
<1>18. ComesBehind(d, n)
  BY <1>2, <1>13, <1>15, BehindShown
<1>19. \A i \in DOMAIN params.stops : params.stops[i] \in Text
  BY <1>7
<1>20. NoneCame(s) /\ NoneBegun(s, k)
  BY <1>9, <1>10
<1>21. NoneCame(d)
  <2> SUFFICES ASSUME NEW i \in DOMAIN params.stops, NEW o \in Nat, At(d, params.stops[i], o)
               PROVE  FALSE
    BY DEF NoneCame
  <2>1. PICK r \in Nat : o = n + r
    BY <1>18 DEF ComesBehind
  <2>2. At(s, params.stops[i], r)
    BY <1>5, <1>11, <1>13, <1>19, <2>1, Shifted
  <2> QED
    BY <1>20, <2>2 DEF NoneCame
<1>22. NoneBegun(d, n + k)
  <2> SUFFICES ASSUME NEW i \in DOMAIN params.stops, NEW o \in Nat, Begun(d, params.stops[i], o)
               PROVE  n + k <= o
    BY DEF NoneBegun
  <2>1. PICK r \in Nat : o = n + r
    BY <1>18 DEF ComesBehind
  <2>2. Begun(s, params.stops[i], r)
    BY <1>5, <1>11, <1>13, <1>19, <2>1, Shifted
  <2>3. k <= r
    BY <1>20, <2>2 DEF NoneBegun
  <2> QED
    BY <2>1, <2>3
<1>23. CASE Len(tokens) + 1 >= params.limit
  <2>1. /\ trigger' = "kMaxTokens" /\ held' = <<>> /\ pending' = <<>>
        /\ text' = (a \o fed.held) \o Residue(q)
    BY <1>4, <1>12, <1>23
  <2>2. text' = d \o Residue(q)
    BY <1>16, <2>1
  <2>3. text' \in Text /\ <<>> \in Text
    BY <1>2, <2>2, TextJoins
  <2>4. DecodeInv'
    BY <1>2, <1>17, <2>1, <2>2 DEF DecodeInv
  <2>5. NoneCame(Decided)'
    BY <1>17, <1>21 DEF NoneCame
  <2>6. MatchInv'
    BY <2>1, <2>5 DEF MatchInv
  <2> QED
    BY <2>1, <2>3, <2>4, <2>6
<1>24. CASE ~(Len(tokens) + 1 >= params.limit)
  <2>1. text' = a /\ held' = fed.held /\ pending' = q /\ trigger' = "kNone"
    BY <1>4, <1>12, <1>24
  <2>2. Len(tokens) + 1 < params.limit
    BY <1>6, <1>24
  <2>3. text' \o held' = d /\ Len(text') = n + k
    BY <1>14, <1>16, <2>1
  <2>4. DecodeInv'
    BY <1>2, <1>17, <2>1, <2>3 DEF DecodeInv
  <2>5. NoneCame(text \o held)' /\ NoneBegun(text \o held, Len(text))'
    BY <1>21, <1>22, <2>3 DEF NoneCame, NoneBegun
  <2>6. (held # <<>> => \E i \in DOMAIN params.stops : IsStrictPrefix(held, params.stops[i]))'
    BY <1>9, <2>1
  <2>7. MatchInv'
    BY <2>1, <2>5, <2>6 DEF MatchInv
  <2> QED
    BY <1>2, <1>9, <2>1, <2>2, <2>4, <2>7
<1> QED
  BY <1>23, <1>24
----------------------------------------------------------------------------
(* Each action preserves it. *)

\* Nothing stands in an empty text.
LEMMA NothingCame ==
  ASSUME NEW stop \in Text \ {<<>>}, NEW o \in Nat
  PROVE  ~At(<<>>, stop, o) /\ ~Begun(<<>>, stop, o)
<1>1. Len(stop) \in Nat \ {0} /\ Len(<<>>) = 0
  BY DEF Text
<1> QED
  BY <1>1 DEF At, Begun

\* Nothing decodes to nothing.
LEMMA EmptyText ==
  /\ Drain[<<>>] = [out |-> <<>>, carry |-> <<>>]
  /\ FlattenSeq(<<>>) = <<>> /\ <<>> \in Text /\ <<>> \o <<>> = <<>>
<1>1. <<>> \in Text /\ <<>> \o <<>> = <<>>
  BY TextJoins
<1>2. Drain[<<>>] = [out |-> <<>>, carry |-> <<>>]
  BY <1>1, DrainIs DEF Waits
<1>3. FlattenSeq(<<>>) = <<>>
  BY DEF FlattenSeq
<1> QED
  BY <1>1, <1>2, <1>3

\* What has no element is the empty sequence.
LEMMA NoElement ==
  ASSUME NEW X, NEW s \in Seq(X), Len(s) = 0
  PROVE  s = <<>>
OBVIOUS

\* What the parameters are.
LEMMA ParamsType ==
  ASSUME TypeOK
  PROVE  /\ params.stops \in Seq(Text \ {<<>>}) /\ params.prompt \in Seq(Vocab)
         /\ params.limit \in Nat \ {0} /\ Capacity \in Nat
<1>1. params.stops \in Seq(Text \ {<<>>})
  BY TextStreamAssumption DEF TypeOK, Text
<1>2. params.prompt \in Prompts /\ params.limit \in Limits
  BY DEF TypeOK
<1>3. /\ \A prompt \in Prompts : prompt \in Seq(Vocab)
      /\ \A l \in Limits : l \in Nat \ {0}
      /\ Capacity \in Nat
  BY TextStreamAssumption
<1> QED
  BY <1>1, <1>2, <1>3

\* A fresh call satisfies what is said of its text.
LEMMA FreshInv ==
  /\ TypeOK /\ tokens = <<>> /\ text = <<>> /\ pending = <<>> /\ held = <<>>
     /\ trigger = "kNone" => DecodeInv /\ MatchInv
<1> SUFFICES ASSUME TypeOK, tokens = <<>>, text = <<>>, pending = <<>>, held = <<>>,
                    trigger = "kNone"
             PROVE  DecodeInv /\ MatchInv
  OBVIOUS
<1>1. [i \in DOMAIN tokens |-> Piece(tokens[i])] = <<>>
  OBVIOUS
<1>2. Stream = <<>>
  BY <1>1, EmptyText DEF Stream
<1>3. DecodeInv
  BY <1>2, EmptyText DEF DecodeInv, Decided
<1>4. \A i \in DOMAIN params.stops : params.stops[i] \in Text \ {<<>>}
  BY ParamsType
<1>5. NoneCame(<<>>) /\ NoneBegun(<<>>, 0)
  BY <1>4, NothingCame DEF NoneCame, NoneBegun
<1>6. text \o held = <<>> /\ Len(text) = 0
  OBVIOUS
<1>7. MatchInv
  BY <1>5, <1>6 DEF MatchInv
<1> QED
  BY <1>3, <1>7

\* A step that leaves the call's text alone.
LEMMA TextUnchanged ==
  ASSUME IInv, UNCHANGED <<params, tokens, text, pending, held, trigger>>
  PROVE  DecodeInv' /\ MatchInv'
<1>1. DecodeInv /\ MatchInv
  BY DEF IInv
<1>2. Stream' = Stream
  BY DEF Stream, Piece
<1>3. Decided' = Decided
  BY <1>2 DEF Decided
<1>4. DecodeInv'
  BY <1>1, <1>2, <1>3 DEF DecodeInv
<1>5. MatchInv'
  BY <1>1, <1>3 DEF MatchInv, NoneCame, NoneBegun, Earliest
<1> QED
  BY <1>4, <1>5

\* A call that begins starts an empty text, and may produce what fits.
LEMMA BeginInv ==
  ASSUME IInv, Begin
  PROVE  IInv'
<1>1. TypeOK /\ PlaceInv
  BY DEF IInv
<1>2. PICK ids : ids = Feeds /\ ids # <<>> /\ Peak(ids) <= Capacity /\ input' = ids
  BY DEF Begin, Feeds
<1>3. /\ params' = params /\ cache' = cache /\ delivered' = delivered /\ pc = "ready"
      /\ tokens' = <<>> /\ text' = <<>> /\ pending' = <<>> /\ held' = <<>>
      /\ trigger' = "kNone" /\ pc' = "forward" /\ calls' = calls + 1
  BY DEF Begin
<1>4. cache \in Seq(Vocab) /\ delivered \in Seq(Vocab) /\ calls \in Nat
  BY <1>1 DEF TypeOK
<1>5. params.prompt \in Seq(Vocab) /\ params.limit \in Nat \ {0} /\ Capacity \in Nat
  BY <1>1, ParamsType
<1>6. ids \in Seq(Vocab)
  <2>1. CASE delivered = <<>>
    BY <1>2, <1>5, <2>1 DEF Feeds
  <2>2. CASE delivered # <<>>
    <3>1. Last(delivered) \in Vocab
      BY <1>4, <2>2 DEF Last
    <3>2. ids = <<Last(delivered)>>
      BY <1>2, <2>2 DEF Feeds
    <3> QED
      BY <3>1, <3>2
  <2> QED
    BY <2>1, <2>2
<1>7. TypeOK'
  <2>1. <<>> \in Text /\ <<>> \in Seq(Vocab)
    BY EmptyText
  <2> QED
    BY <1>1, <1>2, <1>3, <1>4, <1>6, <2>1 DEF TypeOK, Triggers
<1>8. DecodeInv' /\ MatchInv'
  <2>1. (TypeOK /\ tokens = <<>> /\ text = <<>> /\ pending = <<>> /\ held = <<>>
          /\ trigger = "kNone")'
    BY <1>3, <1>7
  <2>2. (TypeOK /\ tokens = <<>> /\ text = <<>> /\ pending = <<>> /\ held = <<>>
          /\ trigger = "kNone" => DecodeInv /\ MatchInv)'
    BY FreshInv, PTL
  <2> QED
    BY <2>1, <2>2
<1>9. cache \o ids = params.prompt \o delivered
  <2>1. CASE delivered = <<>>
    <3>1. cache = <<>> /\ ids = params.prompt
      BY <1>1, <1>2, <1>3, <2>1 DEF PlaceInv, Feeds
    <3> QED
      BY <1>5, <2>1, <3>1
  <2>2. CASE delivered # <<>>
    BY <1>1, <1>2, <1>3, <2>2 DEF PlaceInv
  <2> QED
    BY <2>1, <2>2
<1>10. PICK a \in Nat, b \in Nat : a = Len(cache) /\ b = Len(ids)
  BY <1>4, <1>6
<1>11. a + b + params.limit <= Capacity + 1 + 0 /\ a <= Capacity
  <2>1. a + b + params.limit - 1 <= Capacity
    BY <1>2, <1>10 DEF Peak
  <2> QED
    BY <1>5, <2>1
<1>12. PlaceInv'
  <2>1. Feeds' = Feeds /\ Len(tokens') = 0
    BY <1>3 DEF Feeds
  <2>2. 0 < params.limit
    BY <1>5
  <2> QED
    BY <1>2, <1>3, <1>9, <1>10, <1>11, <2>1, <2>2 DEF PlaceInv
<1> QED
  BY <1>7, <1>8, <1>12 DEF IInv

\* A forward brings the cache to where the delivered ids stand.
LEMMA ForwardInv ==
  ASSUME IInv, Forward
  PROVE  IInv'
<1>1. TypeOK /\ PlaceInv
  BY DEF IInv
<1>2. /\ cache' = cache \o input /\ pc = "forward" /\ pc' = "consume"
      /\ UNCHANGED <<params, calls, input, tokens, text, pending, held, trigger, delivered>>
  BY DEF Forward
<1>3. cache \in Seq(Vocab) /\ input \in Seq(Vocab) /\ tokens \in Seq(Vocab)
  BY <1>1 DEF TypeOK
<1>4. /\ trigger = "kNone" /\ Len(tokens) < params.limit
      /\ cache \o input = params.prompt \o delivered
      /\ Len(cache) + Len(input) + params.limit <= Capacity + 1 + Len(tokens)
  BY <1>1, <1>2 DEF PlaceInv
<1>5. params.limit \in Nat \ {0} /\ Capacity \in Nat
  BY <1>1, ParamsType
<1>6. PICK a \in Nat, b \in Nat, n \in Nat : a = Len(cache) /\ b = Len(input) /\ n = Len(tokens)
  BY <1>3
<1>7. cache' \in Seq(Vocab) /\ Len(cache') = a + b
  BY <1>2, <1>3, <1>6
<1>8. (a + b) + params.limit <= Capacity + 1 + n /\ n < params.limit /\ a + b <= Capacity
  BY <1>4, <1>5, <1>6
<1>9. TypeOK'
  BY <1>1, <1>2, <1>7 DEF TypeOK
<1>10. PlaceInv'
  BY <1>2, <1>4, <1>6, <1>7, <1>8 DEF PlaceInv
<1>11. DecodeInv' /\ MatchInv'
  BY <1>2, TextUnchanged
<1> QED
  BY <1>9, <1>10, <1>11 DEF IInv

\* A forward that fails leaves what the next call needs to go on in place.
LEMMA ForwardFailsInv ==
  ASSUME IInv, ForwardFails
  PROVE  IInv'
<1>1. TypeOK /\ PlaceInv
  BY DEF IInv
<1>2. /\ pc = "forward" /\ pc' = "ready"
      /\ UNCHANGED <<params, calls, cache, input, tokens, text, pending, held, trigger, delivered>>
  BY DEF ForwardFails
<1>3. cache \in Seq(Vocab) /\ params.prompt \in Seq(Vocab)
  BY <1>1, ParamsType DEF TypeOK
<1>4. input = Feeds /\ cache \o input = params.prompt \o delivered /\ Len(cache) <= Capacity
  BY <1>1, <1>2 DEF PlaceInv
<1>5. ASSUME delivered = <<>> PROVE cache = <<>>
  <2>1. cache \o params.prompt = params.prompt
    BY <1>3, <1>4, <1>5 DEF Feeds
  <2>2. PICK a \in Nat, b \in Nat : a = Len(cache) /\ b = Len(params.prompt)
    BY <1>3
  <2>3. Len(cache \o params.prompt) = a + b
    BY <1>3, <2>2
  <2>4. a = 0
    BY <2>1, <2>2, <2>3
  <2>5. Len(cache) = 0
    BY <2>2, <2>4
  <2> QED
    BY <1>3, <2>5, NoElement
<1>6. PlaceInv'
  <2>1. Feeds' = Feeds
    BY <1>2 DEF Feeds
  <2>2. pc' = "ready" /\ Len(cache') <= Capacity
    BY <1>2, <1>4
  <2>3. IF delivered' = <<>> THEN cache' = <<>>
        ELSE cache' \o Feeds' = params'.prompt \o delivered'
    BY <1>2, <1>4, <1>5, <2>1
  <2> QED
    BY <2>2, <2>3 DEF PlaceInv
<1>7. TypeOK'
  BY <1>1, <1>2 DEF TypeOK
<1>8. DecodeInv' /\ MatchInv'
  BY <1>2, TextUnchanged
<1> QED
  BY <1>6, <1>7, <1>8 DEF IInv

\* A delivered token is what the next forward feeds.
LEMMA ConsumeInv ==
  ASSUME IInv, NEW id \in Vocab, Consume(id)
  PROVE  IInv'
<1>1. TypeOK /\ PlaceInv
  BY DEF IInv
<1>2. /\ pc = "consume" /\ Observe(id)
      /\ tokens' = Append(tokens, id) /\ delivered' = Append(delivered, id)
      /\ pc' = (IF trigger' = "kNone" THEN "forward" ELSE "done")
      /\ input' = <<id>> /\ params' = params /\ calls' = calls /\ cache' = cache
  BY DEF Consume
<1>3. /\ trigger = "kNone" /\ Len(tokens) < params.limit
      /\ cache = params.prompt \o delivered
      /\ Len(cache) + params.limit <= Capacity + 1 + Len(tokens)
      /\ Len(cache) <= Capacity
  BY <1>1, <1>2 DEF PlaceInv
<1>4. /\ trigger' \in Triggers
      /\ trigger' = "kNone" => Len(tokens) + 1 < params.limit
      /\ text' \in Text /\ held' \in Text /\ pending' \in Text
      /\ DecodeInv' /\ MatchInv'
  <2>1. CASE ObserveId(id)
    BY <1>2, <1>3, <2>1, ObserveIdInv
  <2>2. CASE ObserveMatch(id)
    BY <1>2, <1>3, <2>2, ObserveMatchInv DEF Triggers
  <2>3. CASE ObserveText(id)
    BY <1>2, <1>3, <2>3, ObserveTextInv DEF Triggers
  <2> QED
    BY <1>2, <2>1, <2>2, <2>3 DEF Observe
<1>5. cache \in Seq(Vocab) /\ tokens \in Seq(Vocab) /\ delivered \in Seq(Vocab)
  BY <1>1 DEF TypeOK
<1>6. params.prompt \in Seq(Vocab) /\ params.limit \in Nat \ {0} /\ Capacity \in Nat
  BY <1>1, ParamsType
<1>7. /\ input' \in Seq(Vocab) /\ tokens' \in Seq(Vocab) /\ delivered' \in Seq(Vocab)
      /\ Len(tokens') = Len(tokens) + 1 /\ Len(input') = 1
  BY <1>2, <1>5
<1>8. TypeOK'
  BY <1>1, <1>2, <1>4, <1>7 DEF TypeOK
<1>9. Feeds' = <<id>>
  <2>1. PICK n \in Nat : n = Len(delivered)
    BY <1>5
  <2>2. Len(delivered') = n + 1 /\ delivered'[n + 1] = id
    BY <1>2, <1>5, <2>1
  <2>3. delivered' # <<>> /\ Last(delivered') = id
    BY <2>2 DEF Last
  <2> QED
    BY <2>3 DEF Feeds
<1>10. cache' \o input' = params'.prompt \o delivered'
  <2>1. Append(delivered, id) = delivered \o <<id>> /\ <<id>> \in Seq(Vocab)
    BY <1>5
  <2>2. (params.prompt \o delivered) \o <<id>> = params.prompt \o (delivered \o <<id>>)
    <3>1. PICK X : X = Vocab
      OBVIOUS
    <3>2. PICK a \in Seq(X), b \in Seq(X), c \in Seq(X) :
            a = params.prompt /\ b = delivered /\ c = <<id>>
      BY <1>5, <1>6, <2>1, <3>1
    <3>3. Associates(a, b, c)
      BY Joins
    <3> QED
      BY <3>2, <3>3 DEF Associates
  <2> QED
    BY <1>2, <1>3, <2>1, <2>2
<1>11. PICK a \in Nat, n \in Nat : a = Len(cache) /\ n = Len(tokens)
  BY <1>5
<1>12. a + 1 + params.limit <= Capacity + 1 + (n + 1)
  BY <1>3, <1>6, <1>11
<1>13. PlaceInv'
  <2>1. CASE trigger' = "kNone"
    BY <1>2, <1>3, <1>4, <1>7, <1>9, <1>10, <1>11, <1>12, <2>1 DEF PlaceInv
  <2>2. CASE trigger' # "kNone"
    BY <1>2, <1>3, <2>2 DEF PlaceInv
  <2> QED
    BY <2>1, <2>2
<1> QED
  BY <1>4, <1>8, <1>13 DEF IInv

\* Every step preserves the inductive invariant.
LEMMA StepInv == IInv /\ [Next]_vars => IInv'
<1> SUFFICES ASSUME IInv, [Next]_vars PROVE IInv'
  OBVIOUS
<1>1. CASE Begin
  BY <1>1, BeginInv
<1>2. CASE Forward
  BY <1>2, ForwardInv
<1>3. CASE ForwardFails
  BY <1>3, ForwardFailsInv
<1>4. ASSUME NEW id \in Vocab, Consume(id) PROVE IInv'
  BY <1>4, ConsumeInv
<1>5. CASE ConsumeFails
  <2>1. TypeOK'
    BY <1>5 DEF IInv, TypeOK, ConsumeFails
  <2>2. PlaceInv'
    BY <1>5 DEF IInv, PlaceInv, ConsumeFails
  <2>3. DecodeInv' /\ MatchInv'
    BY <1>5, TextUnchanged DEF ConsumeFails
  <2> QED
    BY <2>1, <2>2, <2>3 DEF IInv
<1>6. CASE UNCHANGED vars
  <2>1. TypeOK'
    BY <1>6 DEF IInv, TypeOK, vars
  <2>2. PlaceInv'
    BY <1>6 DEF IInv, PlaceInv, Feeds, vars
  <2>3. DecodeInv' /\ MatchInv'
    BY <1>6, TextUnchanged DEF vars
  <2> QED
    BY <2>1, <2>2, <2>3 DEF IInv
<1> QED
  BY <1>1, <1>2, <1>3, <1>4, <1>5, <1>6 DEF Next

\* The initial states satisfy it.
LEMMA InitIInv == Init => IInv
<1> SUFFICES ASSUME Init PROVE IInv
  OBVIOUS
<1>1. TypeOK
  <2>1. <<>> \in Text /\ <<>> \in Seq(Vocab)
    BY EmptyText
  <2> QED
    BY <2>1 DEF Init, TypeOK, Triggers
<1>2. DecodeInv /\ MatchInv
  BY <1>1, FreshInv DEF Init
<1>3. PlaceInv
  <2>1. Len(cache) = 0 /\ Capacity \in Nat
    BY <1>1, ParamsType DEF Init
  <2> QED
    BY <2>1 DEF Init, PlaceInv
<1> QED
  BY <1>1, <1>2, <1>3 DEF IInv

\* It holds throughout.
LEMMA Invariance == Spec => []IInv
  BY InitIInv, StepInv, PTL DEF Spec
----------------------------------------------------------------------------
(* What it says of the text. *)

\* The text of a call is the decoding of all its ids, however the tokens cut its
\* characters and its stop strings: what was delivered, what the matcher holds back
\* and what the detokenizer carries make it up, and at the end nothing is left
\* behind (DetokenizerStream::push and finish, StopChecker::Observe and Finish).
THEOREM TextIsBatch == Spec => []StreamingIsBatch
<1>1. IInv => StreamingIsBatch
  <2> SUFFICES ASSUME IInv, trigger # "kStopString"
               PROVE  text \o held \o Residue(pending) = Decoded
    BY DEF StreamingIsBatch
  <2>1. TypeOK /\ DecodeInv
    BY DEF IInv
  <2>2. Stream \in Text
    BY <2>1, StreamType
  <2>3. Decoded = Decided \o Residue(Drain[Stream].carry)
    BY <2>2, LossyIsDrain DEF Decoded, Decided
  <2>4. CASE trigger = "kNone"
    BY <2>1, <2>3, <2>4 DEF DecodeInv
  <2>5. CASE trigger # "kNone"
    <3>1. text = Decided \o Residue(Drain[Stream].carry) /\ held = <<>> /\ pending = <<>>
      BY <2>1, <2>5 DEF DecodeInv, TypeOK, Triggers
    <3>2. text \in Text
      BY <2>1 DEF TypeOK
    <3>3. text \o <<>> = text /\ Residue(<<>>) = <<>>
      BY <3>2, TextJoins
    <3> QED
      BY <2>3, <3>1, <3>3
  <2> QED
    BY <2>4, <2>5
<1> QED
  BY <1>1, Invariance, PTL

\* The earliest stop string of a text is where the least of its occurrences begins.
LEMMA EarliestIs ==
  ASSUME params.stops \in Seq(Text \ {<<>>}), NEW d \in Text, NEW o \in Nat, Earliest(d, o),
         NEW begins, begins = UNION {Occurrences(d, stop) : stop \in ToSet(params.stops)}
  PROVE  begins # {} /\ Min(begins) - 1 = o
<1>1. \A i \in DOMAIN params.stops : params.stops[i] \in Text \ {<<>>}
  OBVIOUS
<1>2. PICK i \in DOMAIN params.stops : At(d, params.stops[i], o)
  BY DEF Earliest
<1>3. \A j \in DOMAIN params.stops : params.stops[j] \in ToSet(params.stops)
  BY DEF ToSet
<1>4. o + 1 \in Occurrences(d, params.stops[i])
  BY <1>1, <1>2, OccurrenceIs
<1>5. o + 1 \in begins
  BY <1>3, <1>4
<1>6. ASSUME NEW x \in begins PROVE x \in Nat /\ o + 1 <= x
  <2>1. PICK stop \in ToSet(params.stops) : x \in Occurrences(d, stop)
    BY <1>6
  <2>2. PICK j \in DOMAIN params.stops : stop = params.stops[j]
    BY DEF ToSet
  <2>3. stop \in Text \ {<<>>}
    BY <1>1, <2>2
  <2>4. PICK q \in Nat : x = q + 1 /\ At(d, stop, q)
    BY <2>1, <2>3, OccurrenceOffsets
  <2>5. o <= q
    BY <2>2, <2>4 DEF Earliest
  <2> QED
    BY <2>4, <2>5
<1>7. begins \in SUBSET Nat
  BY <1>6
<1>8. Min(begins) = o + 1
  BY <1>5, <1>6, <1>7, MinIs
<1> QED
  BY <1>5, <1>8

\* Where none has come, there is no occurrence.
LEMMA NoneIs ==
  ASSUME params.stops \in Seq(Text \ {<<>>}), NEW d \in Text, NoneCame(d)
  PROVE  UNION {Occurrences(d, stop) : stop \in ToSet(params.stops)} = {}
<1> SUFFICES ASSUME NEW stop \in ToSet(params.stops), NEW x \in Occurrences(d, stop)
             PROVE  FALSE
  OBVIOUS
<1>1. PICK j \in DOMAIN params.stops : stop = params.stops[j]
  BY DEF ToSet
<1>2. stop \in Text \ {<<>>}
  BY <1>1
<1>3. PICK q \in Nat : x = q + 1 /\ At(d, stop, q)
  BY <1>2, OccurrenceOffsets
<1> QED
  BY <1>1, <1>3 DEF NoneCame

\* A stop string spread over any number of tokens is caught at its first byte, the
\* earliest of them all when several have come, and nothing is held back that is not
\* the beginning of one (StopStringMatcher::Feed and LongestPrefixOverlap).
THEOREM StopsAreHonoured == Spec => []StopsHonoured
<1>1. IInv => StopsHonoured
  <2> SUFFICES ASSUME IInv PROVE StopsHonoured
    OBVIOUS
  <2>1. TypeOK /\ DecodeInv /\ MatchInv
    BY DEF IInv
  <2>2. params.stops \in Seq(Text \ {<<>>})
    BY <2>1, ParamsType
  <2>3. Decided \in Text
    <3>1. Drain[Stream] \in Drained
      BY <2>1, StreamType, DrainType
    <3> QED
      BY <3>1 DEF Decided, Drained
  <2>4. PICK begins : begins = UNION {Occurrences(Decided, stop) : stop \in ToSet(params.stops)}
    OBVIOUS
  <2>5. CASE trigger = "kStopString"
    <3>1. PICK o \in Nat : text = SubSeq(Decided, 1, o) /\ Earliest(Decided, o)
      BY <2>1, <2>5 DEF MatchInv
    <3>2. begins # {} /\ Min(begins) - 1 = o
      BY <2>2, <2>3, <2>4, <3>1, EarliestIs
    <3> QED
      BY <2>4, <2>5, <3>1, <3>2 DEF StopsHonoured
  <2>6. CASE trigger \in {"kNone", "kMaxTokens"}
    <3>1. NoneCame(Decided)
      BY <2>1, <2>6 DEF MatchInv, DecodeInv
    <3>2. begins = {}
      BY <2>2, <2>3, <2>4, <3>1, NoneIs
    <3>3. ASSUME held # <<>> PROVE \E stop \in ToSet(params.stops) : IsStrictPrefix(held, stop)
      <4>1. PICK i \in DOMAIN params.stops : IsStrictPrefix(held, params.stops[i])
        BY <2>1, <2>6, <3>3 DEF MatchInv, DecodeInv
      <4>2. params.stops[i] \in ToSet(params.stops)
        BY DEF ToSet
      <4> QED
        BY <4>1, <4>2
    <3> QED
      BY <2>4, <2>6, <3>2, <3>3 DEF StopsHonoured
  <2>7. CASE trigger \in {"kEosId", "kStopTokenId"}
    BY <2>1, <2>7 DEF DecodeInv, StopsHonoured
  <2> QED
    BY <2>1, <2>5, <2>6, <2>7 DEF TypeOK, Triggers
<1> QED
  BY <1>1, Invariance, PTL

\* Every forward goes on where the delivered ids stand, also in a call that resumes
\* one that failed, and the check made before the call is enough: the cache never
\* outgrows its capacity (Generate's peak and its loop).
THEOREM ForwardsGoOn == Spec => []ForwardsInPlace
<1>1. IInv => ForwardsInPlace
  BY DEF IInv, PlaceInv, ForwardsInPlace
<1> QED
  BY <1>1, Invariance, PTL
----------------------------------------------------------------------------
(* The channel.  ExactlyOnceInOrder speaks of a concatenation; its inductive  *)
(* form says what stands at every place of the two sequences, so that an      *)
(* append at one end and a removal at the other are local.  That a reader     *)
(* sees the end only after the last item needs, on top of it, that nothing is *)
(* pushed after the close.                                                    *)

Calls == {"idle", "next", "nextAsleep", "await", "awaitAsleep", "finished"}

ChannelTypeOK ==
  /\ queue \in Seq(Nat) /\ taken \in Seq(Nat) /\ pushed \in Nat
  /\ closed \in BOOLEAN /\ finish \in SUBSET Finishes
  /\ producer \in {"ready", "notify_one", "notify_all"}
  /\ cpc \in [Consumers -> Calls]
  /\ drained \in SUBSET Consumers

\* Every item is at its place, in the hands of the readers or in the queue.
PlacedInv ==
  /\ Len(taken) + Len(queue) = pushed
  /\ \A i \in 1..Len(taken) : taken[i] = i
  /\ \A i \in 1..Len(queue) : queue[i] = Len(taken) + i

\* What a reader was told about the end is so.
EndInv ==
  /\ closed => finish # {}
  /\ drained # {} => closed /\ queue = <<>>
  /\ \A c \in Consumers : cpc[c] = "finished" => closed

ChannelIInv == ChannelTypeOK /\ PlacedInv /\ EndInv

----------------------------------------------------------------------------
\* The pointwise form is the concatenation.
LEMMA PlacedInOrder == ChannelTypeOK /\ PlacedInv => ExactlyOnceInOrder
<1> SUFFICES ASSUME ChannelTypeOK, PlacedInv PROVE taken \o queue = [i \in 1..pushed |-> i]
  BY DEF ExactlyOnceInOrder
<1>1. /\ Len(taken) \in Nat /\ Len(queue) \in Nat /\ pushed \in Nat
      /\ taken \o queue \in Seq(Nat)
      /\ DOMAIN (taken \o queue) = 1..pushed
  BY DEF ChannelTypeOK, PlacedInv
<1>2. ASSUME NEW i \in 1..pushed PROVE (taken \o queue)[i] = i
  <2>1. CASE i <= Len(taken)
    BY <1>1, <2>1 DEF ChannelTypeOK, PlacedInv
  <2>2. CASE i > Len(taken)
    <3>1. i - Len(taken) \in 1..Len(queue)
      BY <1>1, <2>2 DEF PlacedInv
    <3>2. (taken \o queue)[i] = queue[i - Len(taken)]
      BY <1>1, <2>2, <3>1 DEF ChannelTypeOK
    <3> QED
      BY <1>1, <3>1, <3>2 DEF PlacedInv
  <2> QED
    BY <1>1, <2>1, <2>2
<1> DEFINE s == taken \o queue
<1>3. DOMAIN s = 1..pushed /\ (\A i \in 1..pushed : s[i] = i) /\ s \in Seq(Nat)
  BY <1>1, <1>2
<1> HIDE DEF s
<1>4. s = [i \in 1..pushed |-> i]
  BY <1>1, <1>3
<1> QED
  BY <1>4 DEF s

\* Taking the head of the queue keeps every item in its place.
LEMMA PopPlaced ==
  ASSUME ChannelTypeOK, PlacedInv, queue # <<>>, Pop, pushed' = pushed
  PROVE  /\ queue' \in Seq(Nat) /\ taken' \in Seq(Nat)
         /\ PlacedInv'
<1>1. /\ Len(queue) \in Nat /\ Len(queue) >= 1 /\ Len(taken) \in Nat
      /\ Head(queue) = queue[1] /\ queue[1] \in Nat
      /\ Len(Tail(queue)) = Len(queue) - 1 /\ Tail(queue) \in Seq(Nat)
      /\ \A i \in 1..(Len(queue) - 1) : Tail(queue)[i] = queue[i + 1]
  BY DEF ChannelTypeOK
<1>2. /\ taken' \in Seq(Nat) /\ Len(taken') = Len(taken) + 1
      /\ taken'[Len(taken) + 1] = queue[1]
      /\ \A i \in 1..Len(taken) : taken'[i] = taken[i]
  BY <1>1 DEF ChannelTypeOK, Pop
<1>3. queue' = Tail(queue) /\ queue[1] = Len(taken) + 1
  BY <1>1 DEF Pop, PlacedInv
<1>4. Len(taken') + Len(queue') = pushed'
  BY <1>1, <1>2, <1>3 DEF PlacedInv
<1>5. \A i \in 1..Len(taken') : taken'[i] = i
  <2>1. \A i \in 1..Len(taken') : i \in 1..Len(taken) \/ i = Len(taken) + 1
    BY <1>1, <1>2
  <2> QED
    BY <1>2, <1>3, <2>1 DEF PlacedInv
<1>6. ASSUME NEW i \in 1..Len(queue') PROVE queue'[i] = Len(taken') + i
  <2>1. i \in Nat /\ i + 1 \in 1..Len(queue) /\ queue'[i] = queue[i + 1]
    BY <1>1, <1>3
  <2>2. queue[i + 1] = Len(taken) + (i + 1)
    BY <2>1 DEF PlacedInv
  <2> QED
    BY <1>1, <1>2, <2>1, <2>2
<1> QED
  BY <1>1, <1>2, <1>3, <1>4, <1>5, <1>6 DEF PlacedInv

\* Pushing the next item puts it in its place.
LEMMA PushPlaced ==
  ASSUME ChannelTypeOK, PlacedInv, Push
  PROVE  queue' \in Seq(Nat) /\ pushed' \in Nat /\ PlacedInv'
<1>1. /\ Len(queue) \in Nat /\ Len(taken) \in Nat /\ pushed \in Nat
      /\ taken' = taken /\ pushed' = pushed + 1 /\ queue' = Append(queue, pushed + 1)
  BY DEF ChannelTypeOK, Push
<1>2. /\ queue' \in Seq(Nat) /\ Len(queue') = Len(queue) + 1
      /\ queue'[Len(queue) + 1] = pushed + 1
      /\ \A i \in 1..Len(queue) : queue'[i] = queue[i]
  BY <1>1 DEF ChannelTypeOK
<1>3. \A i \in 1..Len(queue') : i \in 1..Len(queue) \/ i = Len(queue) + 1
  BY <1>1, <1>2
<1>4. \A i \in 1..Len(queue') : queue'[i] = Len(taken') + i
  BY <1>1, <1>2, <1>3 DEF PlacedInv
<1> QED
  BY <1>1, <1>2, <1>4 DEF PlacedInv

\* The channel starts empty and open.
LEMMA ChannelInitIInv == ChannelInit => ChannelIInv
<1> SUFFICES ASSUME ChannelInit PROVE ChannelIInv
  OBVIOUS
<1>1. queue \in Seq(Nat) /\ taken \in Seq(Nat)
  BY DEF ChannelInit
<1>2. ChannelTypeOK
  BY <1>1 DEF ChannelInit, ChannelTypeOK, Calls
<1> QED
  BY <1>2 DEF ChannelInit, ChannelIInv, PlacedInv, EndInv

\* A step that only moves a client thread, and to "finished" only when closed.
LEMMA ThreadInv ==
  ASSUME ChannelIInv, UNCHANGED <<queue, closed, finish, pushed, taken, drained>>,
         producer' \in {producer, "ready"},
         cpc' \in [Consumers -> Calls],
         \A c \in Consumers : cpc'[c] = "finished" => cpc[c] = "finished" \/ closed
  PROVE  ChannelIInv'
BY DEF ChannelIInv, ChannelTypeOK, PlacedInv, EndInv

\* A woken thread is in the call it was in.
LEMMA AwakeFacts ==
  ASSUME NEW p \in Calls
  PROVE  Awake(p) \in Calls /\ (Awake(p) = "finished" => p = "finished")
BY DEF Awake, Calls

\* Every step of the channel keeps the inductive invariant.
LEMMA ChannelStepInv == ChannelIInv /\ [ChannelNext]_channelVars => ChannelIInv'
<1> SUFFICES ASSUME ChannelIInv, [ChannelNext]_channelVars PROVE ChannelIInv'
  OBVIOUS
<1>0. \A c \in Consumers : cpc[c] \in Calls
  BY DEF ChannelIInv, ChannelTypeOK
<1>1. CASE Push
  <2>1. queue' \in Seq(Nat) /\ pushed' \in Nat /\ PlacedInv'
    BY <1>1, PushPlaced DEF ChannelIInv
  <2>2. /\ ~closed /\ producer' = "notify_one"
        /\ UNCHANGED <<closed, finish, cpc, taken, drained>>
    BY <1>1 DEF Push
  <2> QED
    BY <2>1, <2>2 DEF ChannelIInv, ChannelTypeOK, EndInv
<1>2. ASSUME NEW info \in Finishes, Close(info) PROVE ChannelIInv'
  BY <1>2 DEF Close, ChannelIInv, ChannelTypeOK, PlacedInv, EndInv
<1>3. CASE NotifyOne
  <2>1. UNCHANGED <<queue, closed, finish, pushed, taken, drained>> /\ producer' = "ready"
    BY <1>3 DEF NotifyOne
  <2>2. \/ cpc' = cpc
        \/ \E c \in Consumers : cpc' = [cpc EXCEPT ![c] = Awake(cpc[c])]
    BY <1>3 DEF NotifyOne, Asleep
  <2>3. cpc' \in [Consumers -> Calls]
    BY <1>0, <2>2, AwakeFacts DEF ChannelIInv, ChannelTypeOK
  <2>4. \A c \in Consumers : cpc'[c] = "finished" => cpc[c] = "finished" \/ closed
    BY <1>0, <2>2, AwakeFacts DEF ChannelIInv, ChannelTypeOK
  <2> QED
    BY <2>1, <2>3, <2>4, ThreadInv
<1>4. CASE NotifyAll
  <2>1. /\ UNCHANGED <<queue, closed, finish, pushed, taken, drained>>
        /\ producer' = "ready" /\ cpc' = [c \in Consumers |-> Awake(cpc[c])]
    BY <1>4 DEF NotifyAll
  <2>2. cpc' \in [Consumers -> Calls]
    BY <1>0, <2>1, AwakeFacts
  <2>3. \A c \in Consumers : cpc'[c] = "finished" => cpc[c] = "finished" \/ closed
    BY <1>0, <2>1, AwakeFacts
  <2> QED
    BY <2>1, <2>2, <2>3, ThreadInv
<1>5. ASSUME NEW c \in Consumers, NextItem(c) PROVE ChannelIInv'
  <2>1. cpc[c] = "next" /\ UNCHANGED <<closed, finish, producer, pushed>>
    BY <1>5 DEF NextItem
  <2>2. CASE /\ queue # <<>> /\ Pop /\ cpc' = [cpc EXCEPT ![c] = "idle"]
             /\ UNCHANGED drained
    <3>1. queue' \in Seq(Nat) /\ taken' \in Seq(Nat) /\ PlacedInv'
      BY <2>1, <2>2, PopPlaced DEF ChannelIInv
    <3>2. drained' = {}
      BY <2>2 DEF ChannelIInv, EndInv
    <3> QED
      BY <2>1, <2>2, <3>1, <3>2 DEF ChannelIInv, ChannelTypeOK, EndInv, Calls
  <2>3. CASE /\ queue = <<>> /\ closed /\ cpc' = [cpc EXCEPT ![c] = "idle"]
             /\ drained' = drained \cup {c} /\ UNCHANGED <<queue, taken>>
    BY <2>1, <2>3 DEF ChannelIInv, ChannelTypeOK, EndInv, PlacedInv, Calls
  <2>4. CASE /\ queue = <<>> /\ ~closed /\ cpc' = [cpc EXCEPT ![c] = "nextAsleep"]
             /\ UNCHANGED <<queue, taken, drained>>
    BY <2>1, <2>4 DEF ChannelIInv, ChannelTypeOK, EndInv, PlacedInv, Calls
  <2> QED
    BY <1>5, <2>2, <2>3, <2>4 DEF NextItem
<1>6. ASSUME NEW c \in Consumers, TryNext(c) PROVE ChannelIInv'
  <2>1. /\ queue # <<>> /\ Pop
        /\ UNCHANGED <<closed, finish, producer, pushed, cpc, drained>>
    BY <1>6 DEF TryNext
  <2>2. queue' \in Seq(Nat) /\ taken' \in Seq(Nat) /\ PlacedInv'
    BY <2>1, PopPlaced DEF ChannelIInv
  <2> QED
    BY <2>1, <2>2 DEF ChannelIInv, ChannelTypeOK, EndInv
<1>7. ASSUME NEW c \in Consumers, BeginCall(c) \/ AwaitFinish(c) \/ Resume(c)
      PROVE  ChannelIInv'
  <2>1. /\ UNCHANGED <<queue, closed, finish, producer, pushed, taken, drained>>
        /\ \E p \in Calls : /\ cpc' = [cpc EXCEPT ![c] = p]
                            /\ p = "finished" => closed
    BY <1>7 DEF BeginCall, AwaitFinish, Resume, Calls
  <2>2. cpc' \in [Consumers -> Calls]
    BY <2>1 DEF ChannelIInv, ChannelTypeOK
  <2>3. \A d \in Consumers : cpc'[d] = "finished" => cpc[d] = "finished" \/ closed
    BY <2>1 DEF ChannelIInv, ChannelTypeOK
  <2> QED
    BY <2>1, <2>2, <2>3, ThreadInv
<1>8. ASSUME NEW c \in Consumers, Spurious(c) PROVE ChannelIInv'
  <2>1. /\ UNCHANGED <<queue, closed, finish, producer, pushed, taken, drained>>
        /\ cpc' = [cpc EXCEPT ![c] = Awake(cpc[c])]
    BY <1>8 DEF Spurious
  <2>2. cpc' \in [Consumers -> Calls]
    BY <1>0, <2>1, AwakeFacts DEF ChannelIInv, ChannelTypeOK
  <2>3. \A d \in Consumers : cpc'[d] = "finished" => cpc[d] = "finished" \/ closed
    BY <1>0, <2>1, AwakeFacts DEF ChannelIInv, ChannelTypeOK
  <2> QED
    BY <2>1, <2>2, <2>3, ThreadInv
<1>9. CASE UNCHANGED channelVars
  BY <1>9 DEF channelVars, ChannelIInv, ChannelTypeOK, PlacedInv, EndInv
<1> QED
  BY <1>1, <1>2, <1>3, <1>4, <1>5, <1>6, <1>7, <1>8, <1>9 DEF ChannelNext

\* The inductive invariant holds in every reachable state.
LEMMA ChannelInvariance == ChannelSpec => []ChannelIInv
BY ChannelInitIInv, ChannelStepInv, PTL DEF ChannelSpec

\* Next, TryNext and Push racing on one channel lose, repeat and swap nothing.
THEOREM ItemsExactlyOnce == ChannelSpec => []ExactlyOnceInOrder
<1>1. ChannelIInv => ExactlyOnceInOrder
  BY PlacedInOrder DEF ChannelIInv
<1> QED
  BY <1>1, ChannelInvariance, PTL

\* No reader is told of the end before the last item was taken, and the first
\* Close is final: its FinishInfo stays and nothing is pushed after it.
THEOREM StreamEndsOnce == ChannelSpec => EndsOnce
<1>1. ChannelIInv => EndMeansDrained
  <2> SUFFICES ASSUME ChannelIInv PROVE EndMeansDrained
    OBVIOUS
  <2>1. queue = <<>> => Len(taken) = pushed
    BY DEF ChannelIInv, ChannelTypeOK, PlacedInv
  <2> QED
    BY <2>1 DEF ChannelIInv, EndInv, EndMeansDrained
<1>2. ChannelIInv /\ [ChannelNext]_channelVars
        => (closed => closed' /\ finish' = finish /\ pushed' = pushed)
  BY DEF ChannelNext, channelVars, Push, Close, NotifyOne, NotifyAll, BeginCall, NextItem, TryNext,
         AwaitFinish, Resume, Spurious
<1>3. ChannelIInv' => EndMeansDrained'
  BY <1>1, PTL
<1>4. ChannelIInv /\ ChannelIInv' /\ [ChannelNext]_channelVars
        => [/\ EndMeansDrained'
            /\ closed => closed' /\ finish' = finish /\ pushed' = pushed]_channelVars
  BY <1>2, <1>3
<1> QED
  BY <1>4, ChannelInvariance, PTL DEF ChannelSpec, EndsOnce
=============================================================================
