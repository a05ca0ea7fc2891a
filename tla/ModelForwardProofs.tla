------------------------- MODULE ModelForwardProofs -------------------------
(***************************************************************************)
(* Both backends compute one thing, for any prompts, any number of layers, *)
(* any batch and whatever passes were abandoned, rolled back and re-run.   *)
(*                                                                         *)
(* The common reference is the history of a sequence of ids: Hidden(t)     *)
(* gives the row of every id of t before every layer, KvUpTo(t, l, n) the  *)
(* keys and values layer l has stored for the first n ids.  Both look only *)
(* backwards (Causal), so what is stored for a prefix stays when the       *)
(* sequence grows (KvExtends).  The reference forward (RefForwardIs) and   *)
(* the optimized one (ForwardIs) are each computed against it: layer by    *)
(* layer (LayerAt), over a workspace of unknown contents (Written), for    *)
(* every member's rows of the flattened request (Lays).  A pass that stops *)
(* half way leaves caches that roll back to the history (ForwardFails,     *)
(* RollsBack), which is what the invariant says of a sequence in recovery. *)
(***************************************************************************)
EXTENDS ModelForward, OrderedSeqsProofs

(* Rows. *)

\* p has n rows.
IsRows(p, n) == p = [i \in 1..n |-> p[i]]

\* Rows written down are rows.
LEMMA RowsIs ==
  ASSUME NEW n \in Nat, NEW f, IsRows(f, n)
  PROVE  Rows(f) = f /\ Len(f) = n /\ DOMAIN f = 1..n
<1>1. f \in Seq({f[i] : i \in 1..n}) /\ Len(f) = n
  BY DEF IsRows
<1>2. SubSeq(f, 1, n) = f
  BY <1>1 
<1> QED
  BY <1>1, <1>2 DEF Rows

\* Same rows.
LEMMA SameRows ==
  ASSUME NEW n \in Nat, NEW p, NEW q, IsRows(p, n), IsRows(q, n),
         \A i \in 1..n : p[i] = q[i]
  PROVE  p = q
BY DEF IsRows

\* r has the m rows of p, then the n rows of q.
InTwo(r, p, m, q, n) ==
  /\ IsRows(r, m + n)
  /\ \A i \in 1..m : r[i] = p[i]
  /\ \A i \in 1..n : r[m + i] = q[i]

\* Concatenation, row by row.
LEMMA JoinRows ==
  ASSUME NEW m \in Nat, NEW n \in Nat, NEW p, NEW q, IsRows(p, m), IsRows(q, n)
  PROVE  InTwo(p \o q, p, m, q, n)
<1> DEFINE S == {p[i] : i \in 1..m} \cup {q[i] : i \in 1..n}
<1>1. p \in Seq(S) /\ Len(p) = m
  BY DEF IsRows
<1>2. q \in Seq(S) /\ Len(q) = n
  BY DEF IsRows
<1> HIDE DEF S
<1>3. PICK r : r = p \o q
  OBVIOUS
<1>4. r \in Seq(S) /\ Len(r) = m + n
  <2>1. p \o q \in Seq(S)
    BY <1>1, <1>2
  <2>2. Len(p \o q) = Len(p) + Len(q)
    BY <1>1, <1>2
  <2> QED
    BY <1>1, <1>2, <1>3, <2>1, <2>2
<1>5. r = [i \in 1..(m + n) |-> r[i]]
  BY <1>4
<1>6. ASSUME NEW i \in 1..m PROVE r[i] = p[i]
  BY <1>1, <1>2, <1>3
<1>7. ASSUME NEW i \in 1..n PROVE r[m + i] = q[i]
  BY <1>1, <1>2, <1>3
<1> QED
  BY <1>3, <1>5, <1>6, <1>7 DEF IsRows, InTwo

\* A slice, row by row.
LEMMA CutRows ==
  ASSUME NEW n \in Nat, NEW p, IsRows(p, n), NEW a \in Nat, NEW b \in Nat, b <= n, a <= b
  PROVE  /\ IsRows(SubSeq(p, a + 1, b), b - a)
         /\ \A i \in 1..(b - a) : SubSeq(p, a + 1, b)[i] = p[a + i]
<1> DEFINE S == {p[i] : i \in 1..n}
<1>1. p \in Seq(S) /\ Len(p) = n
  BY DEF IsRows
<1> HIDE DEF S
<1>3. SubSeq(p, a + 1, b) = [i \in 1..(b - a) |-> p[a + i]]
  BY <1>1
<1> QED
  BY <1>3 DEF IsRows
-----------------------------------------------------------------------------
(* What a sequence of ids has computed: the rows of x before each layer, and  *)
(* the keys and values each layer has stored for the first n of them.         *)

\* Sequences of ids.
Ids == Seq(Vocab)

\* The key and value layer l stores for the row x at pos.
KvRow(l, x, pos) ==
  <<Rotate(Apply("k_proj", l, Apply("attn_norm", l, x)), pos), Apply("v_proj", l, Apply("attn_norm", l, x))>>

\* Row x after layer l's attention over the stored rows, and row r after its mlp.
AfterAttend(l, x, pos, seen) ==
  Add(x, Apply("o_proj", l, Attend(Rotate(Apply("q_proj", l, Apply("attn_norm", l, x)), pos), seen)))

AfterMlp(l, r) ==
  Add(r, Apply("down_proj", l, SiluMul(Apply("gate_proj", l, Apply("mlp_norm", l, r)),
                                       Apply("up_proj", l, Apply("mlp_norm", l, r)))))

\* A layer of one row.
LayerRow(l, x, pos, seen) == AfterMlp(l, AfterAttend(l, x, pos, seen))

\* What layer l stores for the first n of the rows x, and the rows after it: row
\* i attends to the first i.
Stored(l, x, n) == [k \in 1..n |-> KvRow(l, x[k], k - 1)]

NextHidden(l, x, n) == [i \in 1..n |-> LayerRow(l, x[i], i - 1, Stored(l, x, i))]

\* The rows of t before every layer, and what each layer stores for them.
Embeddings(t) == [i \in 1..Len(t) |-> Emb(t[i])]

Hidden(t) ==
  LET x[j \in 0..NumLayers] == IF j = 0 THEN Embeddings(t) ELSE NextHidden(j - 1, x[j - 1], Len(t))
  IN  x

KvUpTo(t, l, n) == Stored(l, Hidden(t)[l], n)

\* The recursion has a solution.
LEMMA HiddenIs ==
  ASSUME NEW t
  PROVE  Hidden(t) = [j \in 0..NumLayers |-> IF j = 0 THEN Embeddings(t)
                                             ELSE NextHidden(j - 1, Hidden(t)[j - 1], Len(t))]
<1> DEFINE a == Embeddings(t)
           Step(x, j) == NextHidden(j - 1, x, Len(t))
           Good(f, n) == f = [j \in 0..n |-> IF j = 0 THEN a ELSE Step(f[j - 1], j)]
           P == {n \in Nat : \E f : Good(f, n)}
<1> HIDE DEF a, Step
<1>1. 0 \in P
  <2> DEFINE f == [j \in 0..0 |-> a]
  <2>1. Good(f, 0)
    OBVIOUS
  <2> QED
    BY <2>1
<1>2. ASSUME NEW n \in P PROVE n + 1 \in P
  <2>1. PICK f : Good(f, n)
    OBVIOUS
  <2> DEFINE g == [j \in 0..(n + 1) |-> IF j = n + 1 THEN Step(f[n], n + 1) ELSE f[j]]
  <2>2. Good(g, n + 1)
    <3>0. n \in Nat
      OBVIOUS
    <3> SUFFICES ASSUME NEW j \in 0..(n + 1)
                 PROVE  g[j] = IF j = 0 THEN a ELSE Step(g[j - 1], j)
      OBVIOUS
    <3>1. CASE j = n + 1
      <4>1. g[j] = Step(f[n], n + 1) /\ g[j - 1] = f[n] /\ j - 1 = n /\ j # 0
        BY <3>0, <3>1
      <4> HIDE DEF g
      <4> QED
        BY <3>1, <4>1
    <3>2. CASE j # n + 1
      <4>1. j \in 0..n
        BY <3>0, <3>2
      <4>2. g[j] = f[j] /\ (j # 0 => g[j - 1] = f[j - 1])
        BY <3>0, <3>2, <4>1
      <4>3. f[j] = IF j = 0 THEN a ELSE Step(f[j - 1], j)
        BY <2>1, <4>1
      <4> HIDE DEF g
      <4> QED
        BY <4>2, <4>3
    <3> QED
      BY <3>1, <3>2
  <2>3. n + 1 \in Nat
    OBVIOUS
  <2> HIDE DEF g, Good
  <2> QED
    BY <2>2, <2>3
<1>3. P \in SUBSET Nat
  OBVIOUS
<1> HIDE DEF P
<1>4. P = Nat
  BY <1>1, <1>2, <1>3, Induction
<1>5. \E f : Good(f, NumLayers)
  BY <1>4, ModelForwardAssumption DEF P
<1> DEFINE G(g) == [j \in 0..NumLayers |-> IF j = 0 THEN a ELSE Step(g[j - 1], j)]
<1>6. Hidden(t) = CHOOSE g : g = G(g)
  BY DEF Hidden, a, Step
<1>7. Hidden(t) = G(Hidden(t))
  <2> HIDE DEF G
  <2>1. \E g : g = G(g)
    BY <1>5 DEF G
  <2> QED
    BY <1>6, <2>1
<1> QED
  BY <1>7, Zenon DEF a, Step

\* The rows of each layer.
LEMMA HiddenRows ==
  ASSUME NEW t
  PROVE  /\ \A i \in 1..Len(t) : Hidden(t)[0][i] = Emb(t[i])
         /\ \A j \in Layers : \A i \in 1..Len(t) :
              Hidden(t)[j + 1][i] = LayerRow(j, Hidden(t)[j][i], i - 1, KvUpTo(t, j, i))
<1>0. NumLayers \in Nat \ {0}
  BY ModelForwardAssumption
<1>1. Hidden(t)[0] = Embeddings(t)
  BY <1>0, HiddenIs
<1>2. ASSUME NEW j \in Layers PROVE Hidden(t)[j + 1] = NextHidden(j, Hidden(t)[j], Len(t))
  <2>1. j + 1 \in 0..NumLayers /\ j + 1 # 0 /\ (j + 1) - 1 = j
    BY <1>0 DEF Layers
  <2> QED
    BY <2>1, HiddenIs
<1> QED
  BY <1>1, <1>2 DEF Embeddings, NextHidden, KvUpTo

\* What a layer stores for the first ids depends on their rows only.
LEMMA StoredSame ==
  ASSUME NEW l, NEW n \in Nat, NEW x, NEW y, \A i \in 1..n : x[i] = y[i]
  PROVE  Stored(l, x, n) = Stored(l, y, n)
BY DEF Stored

\* Causality: the rows of the first ids do not depend on the later ones.
LEMMA Causal ==
  ASSUME NEW t, NEW u, NEW n \in Nat, Len(t) \in Nat, Len(u) \in Nat, n <= Len(t), n <= Len(u),
         \A i \in 1..n : t[i] = u[i]
  PROVE  /\ \A j \in 0..NumLayers : \A i \in 1..n : Hidden(t)[j][i] = Hidden(u)[j][i]
         /\ \A l \in Layers : KvUpTo(t, l, n) = KvUpTo(u, l, n)
<1> DEFINE Same(j) == \A i \in 1..n : Hidden(t)[j][i] = Hidden(u)[j][i]
           P == {j \in Nat : j \in 0..NumLayers => Same(j)}
<1>0. NumLayers \in Nat \ {0}
  BY ModelForwardAssumption
<1>1. 0 \in P
  <2>1. Same(0)
    <3> SUFFICES ASSUME NEW i \in 1..n PROVE Hidden(t)[0][i] = Hidden(u)[0][i]
      OBVIOUS
    <3>1. i \in 1..Len(t) /\ i \in 1..Len(u) /\ t[i] = u[i]
      OBVIOUS
    <3>2. Hidden(t)[0][i] = Emb(t[i]) /\ Hidden(u)[0][i] = Emb(u[i])
      BY <3>1, HiddenRows
    <3> QED
      BY <3>1, <3>2
  <2> QED
    BY <2>1
<1>2. ASSUME NEW j \in P PROVE j + 1 \in P
  <2> SUFFICES ASSUME j + 1 \in 0..NumLayers PROVE Same(j + 1)
    OBVIOUS
  <2>1. j \in Layers /\ j \in 0..NumLayers
    BY <1>0 DEF Layers
  <2>2. Same(j)
    BY <2>1
  <2> SUFFICES ASSUME NEW i \in 1..n PROVE Hidden(t)[j + 1][i] = Hidden(u)[j + 1][i]
    OBVIOUS
  <2>3. i \in 1..Len(t) /\ i \in 1..Len(u) /\ i \in Nat
    OBVIOUS
  <2>4. Stored(j, Hidden(t)[j], i) = Stored(j, Hidden(u)[j], i)
    <3>1. \A k \in 1..i : Hidden(t)[j][k] = Hidden(u)[j][k]
      BY <2>2
    <3> QED
      BY <2>3, <3>1, StoredSame
  <2>5. Hidden(t)[j][i] = Hidden(u)[j][i]
    BY <2>2
  <2>6. /\ Hidden(t)[j + 1][i] = LayerRow(j, Hidden(t)[j][i], i - 1, KvUpTo(t, j, i))
        /\ Hidden(u)[j + 1][i] = LayerRow(j, Hidden(u)[j][i], i - 1, KvUpTo(u, j, i))
    BY <2>1, <2>3, HiddenRows
  <2> QED
    BY <2>4, <2>5, <2>6 DEF KvUpTo
<1>3. P \in SUBSET Nat
  OBVIOUS
<1> HIDE DEF P
<1>4. P = Nat
  BY <1>1, <1>2, <1>3, Induction
<1>5. \A j \in 0..NumLayers : Same(j)
  BY <1>4 DEF P
<1>6. ASSUME NEW l \in Layers PROVE KvUpTo(t, l, n) = KvUpTo(u, l, n)
  <2>1. Same(l)
    BY <1>0, <1>5 DEF Layers
  <2> QED
    BY <2>1, StoredSame DEF KvUpTo
<1> QED
  BY <1>5, <1>6

\* The stored rows, their prefixes and what a forward adds to them.
LEMMA KvRows ==
  ASSUME NEW t, NEW l, NEW n \in Nat
  PROVE  /\ IsRows(KvUpTo(t, l, n), n) /\ Len(KvUpTo(t, l, n)) = n
         /\ KvUpTo(t, l, 0) = <<>>
         /\ \A m \in 0..n : SubSeq(KvUpTo(t, l, n), 1, m) = KvUpTo(t, l, m)
<1>1. IsRows(KvUpTo(t, l, n), n)
  BY DEF IsRows, KvUpTo, Stored
<1>2. Len(KvUpTo(t, l, n)) = n
  BY <1>1, RowsIs
<1>3. KvUpTo(t, l, 0) = <<>>
  BY DEF KvUpTo, Stored
<1>4. ASSUME NEW m \in 0..n PROVE SubSeq(KvUpTo(t, l, n), 1, m) = KvUpTo(t, l, m)
  <2>1. PICK c : c = SubSeq(KvUpTo(t, l, n), 0 + 1, m)
    OBVIOUS
  <2>2. IsRows(c, m - 0) /\ \A i \in 1..(m - 0) : c[i] = KvUpTo(t, l, n)[0 + i]
    BY <1>1, <2>1, CutRows, SMTT(30)
  <2>3. IsRows(c, m) /\ \A i \in 1..m : c[i] = KvUpTo(t, l, n)[i]
    BY <2>2
  <2>4. IsRows(KvUpTo(t, l, m), m) /\ \A i \in 1..m : KvUpTo(t, l, m)[i] = KvUpTo(t, l, n)[i]
    BY DEF IsRows, KvUpTo, Stored
  <2>5. c = KvUpTo(t, l, m)
    BY <2>3, <2>4, SameRows
  <2> QED
    BY <2>1, <2>5
<1> QED
  BY <1>1, <1>2, <1>3, <1>4

\* The n rows of layer l for the ids behind the first m of t.
Follows(new, t, l, m, n) ==
  /\ IsRows(new, n)
  /\ \A i \in 1..n : new[i] = KvRow(l, Hidden(t)[l][m + i], (m + i) - 1)

\* Rows appended for the ids behind the first m.
LEMMA KvExtends ==
  ASSUME NEW t, NEW l, NEW m \in Nat, NEW n \in Nat, NEW new, Follows(new, t, l, m, n)
  PROVE  KvUpTo(t, l, m) \o new = KvUpTo(t, l, m + n)
<1>0. IsRows(new, n) /\ \A i \in 1..n : new[i] = KvRow(l, Hidden(t)[l][m + i], (m + i) - 1)
  BY DEF Follows
<1>1. PICK old : old = KvUpTo(t, l, m)
  OBVIOUS
<1>2. IsRows(old, m)
  BY <1>1, KvRows
<1>3. PICK all : all = old \o new
  OBVIOUS
<1>4. /\ IsRows(all, m + n)
      /\ \A i \in 1..m : all[i] = old[i]
      /\ \A i \in 1..n : all[m + i] = new[i]
  <2>1. InTwo(old \o new, old, m, new, n)
    BY <1>0, <1>2, JoinRows
  <2> QED
    BY <1>3, <2>1 DEF InTwo
<1>5. PICK k \in Nat : k = m + n
  OBVIOUS
<1>6. IsRows(KvUpTo(t, l, k), k)
  BY KvRows
<1>7. ASSUME NEW i \in 1..k PROVE all[i] = KvUpTo(t, l, k)[i]
  <2>1. KvUpTo(t, l, k)[i] = KvRow(l, Hidden(t)[l][i], i - 1)
    BY DEF KvUpTo, Stored
  <2>2. CASE i <= m
    <3>1. old[i] = KvRow(l, Hidden(t)[l][i], i - 1)
      BY <1>1, <2>2 DEF KvUpTo, Stored
    <3> QED
      BY <1>4, <2>1, <2>2, <3>1
  <2>3. CASE ~(i <= m)
    <3>1. PICK j \in 1..n : i = m + j
      <4>1. i - m \in 1..n /\ i = m + (i - m)
        BY <1>5, <2>3
      <4> QED
        BY <4>1
    <3>2. all[i] = KvRow(l, Hidden(t)[l][m + j], (m + j) - 1)
      BY <1>0, <1>4, <3>1
    <3> QED
      BY <2>1, <3>1, <3>2
  <2> QED
    BY <2>2, <2>3
<1>8. all = KvUpTo(t, l, k)
  BY <1>4, <1>5, <1>6, <1>7, SameRows
<1> QED
  BY <1>1, <1>3, <1>5, <1>8
-----------------------------------------------------------------------------
(* The reference model.                                                       *)

\* Row-wise operators give as many rows as they get: a norm,
LEMMA RefNormIs ==
  ASSUME NEW n \in Nat, NEW x, IsRows(x, n), NEW l, NEW name
  PROVE  RefNorm(name, l, x) = [i \in 1..n |-> Apply(name, l, x[i])]
<1>1. Len(x) = n
  BY RowsIs
<1>2. PICK f : f = [i \in 1..n |-> Apply(name, l, x[i])]
  OBVIOUS
<1>3. IsRows(f, n)
  BY <1>2 DEF IsRows
<1> QED
  BY <1>1, <1>2, <1>3, RowsIs DEF RefNorm

\* a sum,
LEMMA RefAddIs ==
  ASSUME NEW n \in Nat, NEW x, IsRows(x, n), NEW y
  PROVE  RefAdd(x, y) = [i \in 1..n |-> Add(x[i], y[i])]
<1>1. Len(x) = n
  BY RowsIs
<1>2. PICK f : f = [i \in 1..n |-> Add(x[i], y[i])]
  OBVIOUS
<1>3. IsRows(f, n)
  BY <1>2 DEF IsRows
<1> QED
  BY <1>1, <1>2, <1>3, RowsIs DEF RefAdd

\* keys and values,
LEMMA RefKvIs ==
  ASSUME NEW n \in Nat, NEW x, IsRows(x, n), NEW l, NEW positions
  PROVE  RefKv(l, x, positions) =
           [i \in 1..n |-> <<Rotate(Apply("k_proj", l, x[i]), positions[i]), Apply("v_proj", l, x[i])>>]
<1>1. Len(x) = n
  BY RowsIs
<1>2. PICK f : f = [i \in 1..n |-> <<Rotate(Apply("k_proj", l, x[i]), positions[i]), Apply("v_proj", l, x[i])>>]
  OBVIOUS
<1>3. IsRows(f, n)
  BY <1>2 DEF IsRows
<1> QED
  BY <1>1, <1>2, <1>3, RowsIs DEF RefKv

\* attention,
LEMMA RefAttentionIs ==
  ASSUME NEW n \in Nat, NEW x, IsRows(x, n), NEW l, NEW positions, NEW seen
  PROVE  RefAttention(l, x, positions, seen) =
           [i \in 1..n |-> Apply("o_proj", l, RefContext(l, x, positions, seen, i))]
<1>1. Len(x) = n
  BY RowsIs
<1>2. PICK f : f = [i \in 1..n |-> Apply("o_proj", l, RefContext(l, x, positions, seen, i))]
  OBVIOUS
<1>3. IsRows(f, n)
  BY <1>2 DEF IsRows
<1> QED
  BY <1>1, <1>2, <1>3, RowsIs DEF RefAttention

\* and the MLP.
LEMMA RefMlpIs ==
  ASSUME NEW n \in Nat, NEW x, IsRows(x, n), NEW l
  PROVE  RefMlp(l, x) =
           [i \in 1..n |-> Apply("down_proj", l, SiluMul(Apply("gate_proj", l, x[i]), Apply("up_proj", l, x[i])))]
<1>1. Len(x) = n
  BY RowsIs
<1>2. PICK f : f = [i \in 1..n |-> Apply("down_proj", l, SiluMul(Apply("gate_proj", l, x[i]), Apply("up_proj", l, x[i])))]
  OBVIOUS
<1>3. IsRows(f, n)
  BY <1>2 DEF IsRows
<1> QED
  BY <1>1, <1>2, <1>3, RowsIs DEF RefMlp

\* A forward over the last q ids of t, whose first p are in the cache, has run its
\* first j layers.
RefAt(st, t, p, q, j) ==
  /\ st = [x |-> st.x, cache |-> st.cache]
  /\ IsRows(st.x, q)
  /\ \A i \in 1..q : st.x[i] = Hidden(t)[j][p + i]
  /\ st.cache = [l \in Layers |-> KvUpTo(t, l, IF l < j THEN p + q ELSE p)]

\* The positions of the ids behind the first p.
Continues(positions, p, q) == \A i \in 1..q : positions[i] = (p + i) - 1

\* One layer.
LEMMA RefLayerAt ==
  ASSUME NEW t, NEW p \in Nat, NEW q \in Nat, Len(t) = p + q, NEW positions, Continues(positions, p, q),
         NEW j \in Layers, NEW st, RefAt(st, t, p, q, j)
  PROVE  RefAt(RefDecoderLayer(st, j, positions), t, p, q, j + 1)
<1>0. NumLayers \in Nat \ {0} /\ j \in Nat
  BY ModelForwardAssumption DEF Layers
<1>1. PICK x : x = st.x
  OBVIOUS
<1>2. IsRows(x, q) /\ (\A i \in 1..q : x[i] = Hidden(t)[j][p + i]) /\ Len(x) = q
  BY <1>1, RowsIs DEF RefAt
<1>3. PICK h : h = RefNorm("attn_norm", j, x)
  OBVIOUS
<1>4. IsRows(h, q) /\ (\A i \in 1..q : h[i] = Apply("attn_norm", j, x[i])) /\ Len(h) = q
  <2>1. IsRows(h, q) /\ (\A i \in 1..q : h[i] = Apply("attn_norm", j, x[i]))
    <3>1. h = [i \in 1..q |-> Apply("attn_norm", j, x[i])]
      BY <1>2, <1>3, RefNormIs
    <3> QED
      BY <3>1 DEF IsRows
  <2> QED
    BY <2>1, RowsIs
<1>5. PICK new : new = RefKv(j, h, positions)
  OBVIOUS
<1>6. /\ IsRows(new, q)
      /\ \A i \in 1..q : new[i] = KvRow(j, Hidden(t)[j][p + i], (p + i) - 1)
  <2>1. /\ IsRows(new, q)
        /\ \A i \in 1..q : new[i] = <<Rotate(Apply("k_proj", j, h[i]), positions[i]), Apply("v_proj", j, h[i])>>
    <3>1. new = [i \in 1..q |-> <<Rotate(Apply("k_proj", j, h[i]), positions[i]), Apply("v_proj", j, h[i])>>]
      BY <1>4, <1>5, RefKvIs
    <3> QED
      BY <3>1 DEF IsRows
  <2> QED
    BY <1>2, <1>4, <2>1 DEF KvRow, Continues
<1>7. PICK seen : seen = st.cache[j] \o new
  OBVIOUS
<1>8. seen = KvUpTo(t, j, p + q)
  <2>1. st.cache[j] = KvUpTo(t, j, p)
    BY <1>0 DEF RefAt
  <2> QED
    <3>1. KvUpTo(t, j, p) \o new = KvUpTo(t, j, p + q)
      <4>1. Follows(new, t, j, p, q)
        BY <1>6 DEF Follows
      <4> QED
        BY <4>1, KvExtends
    <3> QED
      BY <1>7, <2>1, <3>1
<1>9. \A i \in 1..q : SubSeq(seen, 1, Len(seen) - Len(h) + i) = KvUpTo(t, j, p + i)
  <2> SUFFICES ASSUME NEW i \in 1..q PROVE SubSeq(seen, 1, Len(seen) - Len(h) + i) = KvUpTo(t, j, p + i)
    OBVIOUS
  <2>1. PICK k \in Nat : k = p + q
    OBVIOUS
  <2>2. Len(seen) = k
    BY <1>8, <2>1, KvRows
  <2>3. Len(seen) - Len(h) + i = p + i /\ p + i \in 0..k
    BY <1>4, <2>1, <2>2
  <2>4. SubSeq(KvUpTo(t, j, k), 1, p + i) = KvUpTo(t, j, p + i)
    BY <2>3, KvRows
  <2> QED
    BY <1>8, <2>1, <2>3, <2>4
<1>10. PICK att : att = RefAttention(j, h, positions, seen)
  OBVIOUS
<1>11. IsRows(att, q) /\ \A i \in 1..q : att[i] = Apply("o_proj", j, RefContext(j, h, positions, seen, i))
  <2>1. att = [i \in 1..q |-> Apply("o_proj", j, RefContext(j, h, positions, seen, i))]
    BY <1>4, <1>10, RefAttentionIs
  <2> QED
    BY <2>1 DEF IsRows
<1>12. PICK r : r = RefAdd(x, att)
  OBVIOUS
<1>13. /\ IsRows(r, q)
       /\ \A i \in 1..q : r[i] = AfterAttend(j, Hidden(t)[j][p + i], (p + i) - 1, KvUpTo(t, j, p + i))
  <2>1. IsRows(r, q) /\ \A i \in 1..q : r[i] = Add(x[i], att[i])
    <3>1. r = [i \in 1..q |-> Add(x[i], att[i])]
      BY <1>2, <1>12, RefAddIs
    <3> QED
      BY <3>1 DEF IsRows
  <2>2. \A i \in 1..q : RefContext(j, h, positions, seen, i) =
          Attend(Rotate(Apply("q_proj", j, Apply("attn_norm", j, x[i])), positions[i]), KvUpTo(t, j, p + i))
    BY <1>4, <1>9 DEF RefContext
  <2> QED
    BY <1>2, <1>11, <2>1, <2>2 DEF AfterAttend, Continues
<1>14. PICK y : y = RefMlpBlock(j, r)
  OBVIOUS
<1>15. IsRows(y, q) /\ \A i \in 1..q : y[i] = AfterMlp(j, r[i])
  <2>1. PICK g : g = RefNorm("mlp_norm", j, r)
    OBVIOUS
  <2>2. IsRows(g, q) /\ \A i \in 1..q : g[i] = Apply("mlp_norm", j, r[i])
    <3>1. g = [i \in 1..q |-> Apply("mlp_norm", j, r[i])]
      BY <1>13, <2>1, RefNormIs
    <3> QED
      BY <3>1 DEF IsRows
  <2>3. PICK m : m = RefMlp(j, g)
    OBVIOUS
  <2>4. IsRows(m, q) /\ \A i \in 1..q : m[i] =
          Apply("down_proj", j, SiluMul(Apply("gate_proj", j, g[i]), Apply("up_proj", j, g[i])))
    <3>1. m = [i \in 1..q |-> Apply("down_proj", j, SiluMul(Apply("gate_proj", j, g[i]), Apply("up_proj", j, g[i])))]
      BY <2>2, <2>3, RefMlpIs
    <3> QED
      BY <3>1 DEF IsRows
  <2>5. y = RefAdd(r, m)
    BY <1>14, <2>1, <2>3 DEF RefMlpBlock
  <2>6. IsRows(y, q) /\ \A i \in 1..q : y[i] = Add(r[i], m[i])
    <3>1. y = [i \in 1..q |-> Add(r[i], m[i])]
      BY <1>13, <2>5, RefAddIs
    <3> QED
      BY <3>1 DEF IsRows
  <2> QED
    BY <2>2, <2>4, <2>6 DEF AfterMlp
<1>16. \A i \in 1..q : y[i] = Hidden(t)[j + 1][p + i]
  <2> SUFFICES ASSUME NEW i \in 1..q PROVE y[i] = Hidden(t)[j + 1][p + i]
    OBVIOUS
  <2>1. y[i] = LayerRow(j, Hidden(t)[j][p + i], (p + i) - 1, KvUpTo(t, j, p + i))
    BY <1>13, <1>15 DEF LayerRow
  <2>2. p + i \in 1..Len(t)
    OBVIOUS
  <2>3. Hidden(t)[j + 1][p + i] = LayerRow(j, Hidden(t)[j][p + i], (p + i) - 1, KvUpTo(t, j, p + i))
    BY <2>2, HiddenRows
  <2> QED
    BY <2>1, <2>3
<1>17. PICK next : next = RefDecoderLayer(st, j, positions)
  OBVIOUS
<1>18. next = [x |-> y, cache |-> [st.cache EXCEPT ![j] = seen]]
  BY <1>1, <1>3, <1>5, <1>7, <1>10, <1>12, <1>14, <1>17 DEF RefDecoderLayer, RefNormed, RefAttended
<1>19. next.cache = [l \in Layers |-> KvUpTo(t, l, IF l < j + 1 THEN p + q ELSE p)]
  <2>1. st.cache = [l \in Layers |-> KvUpTo(t, l, IF l < j THEN p + q ELSE p)]
    BY DEF RefAt
  <2>2. next.cache = [l \in Layers |-> IF l = j THEN seen ELSE KvUpTo(t, l, IF l < j THEN p + q ELSE p)]
    BY <1>18, <2>1
  <2>3. \A l \in Layers : l # j => (l < j <=> l < j + 1)
    BY <1>0 DEF Layers
  <2> QED
    BY <1>0, <1>8, <2>2, <2>3
<1> QED
  BY <1>15, <1>16, <1>17, <1>18, <1>19 DEF RefAt

\* What it has then.
RefState(t, p, q, j) ==
  [x |-> [i \in 1..q |-> Hidden(t)[j][p + i]],
   cache |-> [l \in Layers |-> KvUpTo(t, l, IF l < j THEN p + q ELSE p)]]

\* It is determined.
LEMMA RefStateIs ==
  ASSUME NEW t, NEW p \in Nat, NEW q \in Nat, NEW j \in Nat, NEW st
  PROVE  RefAt(st, t, p, q, j) <=> st = RefState(t, p, q, j)
BY SMTT(30) DEF RefAt, RefState, IsRows

\* A cache that holds the first n ids of t.
Holds(cache, t, n) == cache = [l \in Layers |-> KvUpTo(t, l, n)]

\* The logits' row of the i-th id of t.
LogitRow(t, i) == LmHead(Apply("final_norm", -1, Hidden(t)[NumLayers][i]))

\* What the reference model returns for the q ids behind the first p of t.
RefRun(t, p, q) ==
  [cache |-> [l \in Layers |-> KvUpTo(t, l, p + q)], all |-> [i \in 1..q |-> LogitRow(t, p + i)]]

\* The ids behind the first p.
Feeds(tokens, t, p, q) == IsRows(tokens, q) /\ \A i \in 1..q : tokens[i] = t[p + i]

\* A forward of the reference model over the ids behind the first p of t: the cache
\* then holds t, and row i is that of the id at p + i.
LEMMA RefForwardIs ==
  ASSUME NEW t, NEW p \in Nat, NEW q \in Nat, Len(t) = p + q,
         NEW tokens, Feeds(tokens, t, p, q),
         NEW positions, Continues(positions, p, q), NEW cache, Holds(cache, t, p)
  PROVE  RefForward(tokens, positions, cache) = RefRun(t, p, q)
<1>0. /\ NumLayers \in Nat \ {0}
      /\ IsRows(tokens, q) /\ \A i \in 1..q : tokens[i] = t[p + i]
  BY ModelForwardAssumption DEF Feeds
<1> DEFINE start == [x |-> Rows([i \in 1..Len(tokens) |-> Emb(tokens[i])]), cache |-> cache]
           G(g) == [n \in 0..NumLayers |-> IF n = 0 THEN start
                                           ELSE RefDecoderLayer(g[n - 1], n - 1, positions)]
           f == [n \in 0..NumLayers |-> RefState(t, p, q, n)]
<1>1. start = RefState(t, p, q, 0)
  <2>1. Len(tokens) = q
    BY <1>0, RowsIs
  <2>2. PICK e : e = [i \in 1..q |-> Emb(tokens[i])]
    OBVIOUS
  <2>3. IsRows(e, q)
    BY <2>2 DEF IsRows
  <2>4. Rows(e) = e
    BY <2>3, RowsIs
  <2>5. start = [x |-> e, cache |-> cache]
    BY <2>1, <2>2, <2>4
  <2>6. \A i \in 1..q : e[i] = Hidden(t)[0][p + i]
    <3> SUFFICES ASSUME NEW i \in 1..q PROVE e[i] = Hidden(t)[0][p + i]
      OBVIOUS
    <3>1. p + i \in 1..Len(t) /\ tokens[i] = t[p + i]
      BY <1>0
    <3>2. Hidden(t)[0][p + i] = Emb(t[p + i])
      BY <3>1, HiddenRows
    <3> QED
      BY <2>2, <3>1, <3>2
  <2>7. e = [i \in 1..q |-> Hidden(t)[0][p + i]]
    BY <2>3, <2>6 DEF IsRows
  <2>8. cache = [l \in Layers |-> KvUpTo(t, l, IF l < 0 THEN p + q ELSE p)]
    BY <1>0 DEF Holds, Layers
  <2> HIDE DEF start
  <2> QED
    BY <2>5, <2>7, <2>8 DEF RefState
<1>2. ASSUME NEW n \in Layers PROVE RefDecoderLayer(RefState(t, p, q, n), n, positions) = RefState(t, p, q, n + 1)
  <2>1. n \in Nat /\ n + 1 \in Nat
    BY <1>0 DEF Layers
  <2>2. RefAt(RefState(t, p, q, n), t, p, q, n)
    BY <2>1, RefStateIs
  <2>3. RefAt(RefDecoderLayer(RefState(t, p, q, n), n, positions), t, p, q, n + 1)
    BY <2>2, RefLayerAt
  <2> QED
    BY <2>1, <2>3, RefStateIs
<1> HIDE DEF start
<1>3. \A n \in 0..NumLayers : n # 0 => n - 1 \in Layers /\ n - 1 \in 0..NumLayers /\ (n - 1) + 1 = n
  BY <1>0 DEF Layers
<1>4. f = G(f)
  <2> SUFFICES ASSUME NEW n \in 0..NumLayers
               PROVE  f[n] = IF n = 0 THEN start ELSE RefDecoderLayer(f[n - 1], n - 1, positions)
    OBVIOUS
  <2>1. CASE n = 0
    BY <1>1, <2>1
  <2>2. CASE n # 0
    <3>1. f[n] = RefState(t, p, q, n) /\ f[n - 1] = RefState(t, p, q, n - 1)
      BY <1>3, <2>2
    <3>2. RefDecoderLayer(RefState(t, p, q, n - 1), n - 1, positions) = RefState(t, p, q, n)
      BY <1>2, <1>3, <2>2
    <3> HIDE DEF f
    <3> QED
      BY <2>2, <3>1, <3>2
  <2> QED
    BY <2>1, <2>2
<1> DEFINE after == CHOOSE g : g = G(g)
<1>5. after = G(after)
  <2> HIDE DEF G, f
  <2> QED
    BY <1>4
<1>6. RefForward(tokens, positions, cache) = RefHead(after[NumLayers])
  BY DEF RefForward, start
<1> HIDE DEF after
<1> DEFINE P == {n \in Nat : n \in 0..NumLayers => after[n] = RefState(t, p, q, n)}
<1>7. 0 \in P
  BY <1>0, <1>1, <1>5
<1>8. ASSUME NEW n \in P PROVE n + 1 \in P
  <2> SUFFICES ASSUME n + 1 \in 0..NumLayers PROVE after[n + 1] = RefState(t, p, q, n + 1)
    OBVIOUS
  <2>1. n \in 0..NumLayers /\ n \in Layers /\ n + 1 # 0 /\ (n + 1) - 1 = n
    BY <1>0 DEF Layers
  <2>2. after[n + 1] = RefDecoderLayer(after[n], n, positions)
    BY <1>5, <2>1
  <2> QED
    BY <1>2, <2>1, <2>2
<1>9. P \in SUBSET Nat
  OBVIOUS
<1> HIDE DEF P
<1>10. P = Nat
  BY <1>7, <1>8, <1>9, Induction
<1>11. after[NumLayers] = RefState(t, p, q, NumLayers)
  BY <1>0, <1>10 DEF P
<1>12. PICK x : x = [i \in 1..q |-> Hidden(t)[NumLayers][p + i]]
  OBVIOUS
<1>13. IsRows(x, q) /\ Len(x) = q
  <2>1. IsRows(x, q)
    BY <1>12 DEF IsRows
  <2> QED
    BY <2>1, RowsIs
<1>14. PICK c : c = [l \in Layers |-> KvUpTo(t, l, p + q)]
  OBVIOUS
<1>15. after[NumLayers] = [x |-> x, cache |-> c]
  <2>1. \A l \in Layers : l < NumLayers
    BY <1>0 DEF Layers
  <2>2. c = [l \in Layers |-> KvUpTo(t, l, IF l < NumLayers THEN p + q ELSE p)]
    BY <1>14, <2>1
  <2> QED
    BY <1>11, <1>12, <2>2 DEF RefState
<1>16. PICK all : all = [i \in 1..q |-> LogitRow(t, p + i)]
  OBVIOUS
<1>17. Rows(all) = all
  <2>1. IsRows(all, q)
    BY <1>16 DEF IsRows
  <2> QED
    BY <2>1, RowsIs
<1>18. RefHead([x |-> x, cache |-> c]) = [cache |-> c, all |-> all]
  <2>1. [i \in 1..Len(x) |-> LmHead(Apply("final_norm", -1, x[i]))] = all
    BY <1>12, <1>13, <1>16 DEF LogitRow
  <2> QED
    BY <1>17, <2>1 DEF RefHead
<1> QED
  BY <1>6, <1>14, <1>15, <1>16, <1>18 DEF RefRun

\* A lone prefill holds every id, and gives every row.
LEMMA AloneIs ==
  ASSUME NEW t, Len(t) \in Nat, IsRows(t, Len(t))
  PROVE  Alone(t) = [cache |-> [l \in Layers |-> KvUpTo(t, l, Len(t))],
                     all |-> [i \in 1..Len(t) |-> LogitRow(t, i)]]
<1>1. PICK n \in Nat : n = Len(t)
  OBVIOUS
<1>2. PICK f : f = [i \in 1..n |-> i - 1]
  OBVIOUS
<1>3. Positions(t) = f
  <2>1. IsRows(f, n)
    BY <1>2 DEF IsRows
  <2> QED
    BY <1>1, <1>2, <2>1, RowsIs DEF Positions
<1>4. Continues(f, 0, n)
  BY <1>2 DEF Continues
<1>5. Holds(Empty, t, 0)
  BY KvRows DEF Holds, Empty
<1>6. Len(t) = 0 + n /\ \A i \in 1..n : t[i] = t[0 + i]
  BY <1>1
<1>7. IsRows(t, n)
  BY <1>1
<1>8. RefForward(t, f, Empty) = RefRun(t, 0, n)
  <2>1. Feeds(t, t, 0, n)
    BY <1>6, <1>7 DEF Feeds
  <2> QED
    BY <1>4, <1>5, <1>6, <2>1, RefForwardIs
<1>9. 0 + n = n /\ \A i \in 1..n : 0 + i = i
  OBVIOUS
<1> QED
  BY <1>1, <1>3, <1>8, <1>9 DEF Alone, RefRun
-----------------------------------------------------------------------------
(* The workspace.                                                             *)

\* Ten buffers of cap rows.
WellFormed(ws) ==
  /\ ws = [cap |-> ws.cap, buf |-> ws.buf] /\ ws.cap \in Nat
  /\ ws.buf = [b \in Buffers |-> ws.buf[b]]
  /\ \A b \in Buffers : IsRows(ws.buf[b], ws.cap)

\* v is ws with n rows written to buffer b.
Written(v, ws, b, rows, n) ==
  /\ WellFormed(v) /\ v.cap = ws.cap
  /\ \A i \in 1..n : v.buf[b][i] = rows[i]
  /\ \A c \in Buffers \ {b} : v.buf[c] = ws.buf[c]

\* Put writes the first rows of one buffer.
LEMMA PutIs ==
  ASSUME NEW ws, WellFormed(ws), NEW b \in Buffers, NEW n \in Nat, n <= ws.cap, NEW rows, IsRows(rows, n)
  PROVE  Written(Put(ws, b, rows), ws, b, rows, n)
<1>1. PICK cap \in Nat : cap = ws.cap
  BY DEF WellFormed
<1>2. PICK old : old = ws.buf[b]
  OBVIOUS
<1>3. IsRows(old, cap)
  BY <1>1, <1>2 DEF WellFormed
<1>4. Len(rows) = n
  BY RowsIs
<1>5. PICK rest : rest = SubSeq(old, n + 1, cap)
  OBVIOUS
<1>6. PICK j \in Nat : cap = n + j
  <2>1. cap - n \in Nat /\ cap = n + (cap - n)
    BY <1>1
  <2> QED
    BY <2>1
<1>7. IsRows(rest, j)
  <2>1. IsRows(SubSeq(old, n + 1, cap), cap - n)
    BY <1>1, <1>3, CutRows
  <2>2. cap - n = j
    BY <1>6
  <2> QED
    BY <1>5, <2>1, <2>2
<1>8. PICK new : new = rows \o rest
  OBVIOUS
<1>9. IsRows(new, cap) /\ \A i \in 1..n : new[i] = rows[i]
  <2>1. InTwo(rows \o rest, rows, n, rest, j)
    BY <1>7, JoinRows
  <2> QED
    BY <1>6, <1>8, <2>1 DEF InTwo
<1>10. PICK v : v = Put(ws, b, rows)
  OBVIOUS
<1>11. v = [ws EXCEPT !.buf[b] = new]
  BY <1>1, <1>2, <1>4, <1>5, <1>8, <1>10 DEF Put
<1>12. v = [cap |-> ws.cap, buf |-> [ws.buf EXCEPT ![b] = new]]
  BY <1>11 DEF WellFormed
<1>13. v.cap = cap /\ v.buf = [ws.buf EXCEPT ![b] = new] /\ v = [cap |-> v.cap, buf |-> v.buf]
  BY <1>1, <1>12
<1>14. ws.buf = [c \in Buffers |-> ws.buf[c]]
  BY DEF WellFormed
<1>15. v.buf = [c \in Buffers |-> IF c = b THEN new ELSE ws.buf[c]]
  BY <1>13, <1>14
<1>16. v.buf[b] = new /\ \A c \in Buffers \ {b} : v.buf[c] = ws.buf[c]
  BY <1>15
<1>17. v.buf = [c \in Buffers |-> v.buf[c]]
  BY <1>15
<1>18. \A c \in Buffers : IsRows(v.buf[c], cap)
  <2>1. \A c \in Buffers : IsRows(ws.buf[c], cap)
    BY <1>1 DEF WellFormed
  <2> QED
    BY <1>9, <1>16, <2>1
<1> QED
  BY <1>1, <1>9, <1>10, <1>13, <1>16, <1>17, <1>18 DEF Written, WellFormed

\* v is ws after kernel k of layer l has run on the rows of req.
Ran(v, ws, req, l, k) ==
  /\ WellFormed(v) /\ v.cap = ws.cap
  /\ \A i \in 1..Total(req) : v.buf[k.to][i] =
       Computed(k.name, l, ws.buf[k.from][i], ws.buf[k.with][i], req.positions[i])
  /\ \A c \in Buffers \ {k.to} : v.buf[c] = ws.buf[c]

\* A kernel on the rows of a request that fits.
LEMMA RunKernelIs ==
  ASSUME NEW ws, WellFormed(ws), NEW req, Total(req) \in Nat, Total(req) <= ws.cap, NEW l,
         NEW k, k.to \in Buffers
  PROVE  Ran(RunKernel(ws, req, l, k), ws, req, l, k)
<1>1. PICK f : f = [i \in 1..Total(req) |->
                      Computed(k.name, l, ws.buf[k.from][i], ws.buf[k.with][i], req.positions[i])]
  OBVIOUS
<1>2. IsRows(f, Total(req))
  BY <1>1 DEF IsRows
<1>3. Rows(f) = f
  BY <1>2, RowsIs
<1>4. RunKernel(ws, req, l, k) = Put(ws, k.to, f)
  BY <1>1, <1>3 DEF RunKernel
<1>5. Written(Put(ws, k.to, f), ws, k.to, f, Total(req))
  BY <1>2, PutIs
<1> QED
  BY <1>1, <1>4, <1>5, Zenon DEF Written, Ran

\* a holds the workspace before and after each of n kernels.
Stages(a, ws, req, l, ks, n) ==
  /\ a[0] = ws /\ a[n] = RunKernels(ws, req, l, ks)
  /\ \A i \in 1..n : a[i] = RunKernel(a[i - 1], req, l, ks[i])

\* A list of kernels runs one after the other.
LEMMA RunKernelsIs ==
  ASSUME NEW ws, NEW req, NEW l, NEW ks, NEW n \in Nat, Len(ks) = n
  PROVE  \E a : Stages(a, ws, req, l, ks, n)
<1> DEFINE Step(x, j) == RunKernel(x, req, l, ks[j])
           Good(f, m) == f = [j \in 0..m |-> IF j = 0 THEN ws ELSE Step(f[j - 1], j)]
           P == {m \in Nat : \E f : Good(f, m)}
<1> HIDE DEF Step
<1>1. 0 \in P
  <2> DEFINE f == [j \in 0..0 |-> ws]
  <2>1. Good(f, 0)
    OBVIOUS
  <2> QED
    BY <2>1
<1>2. ASSUME NEW m \in P PROVE m + 1 \in P
  <2>1. PICK f : Good(f, m)
    OBVIOUS
  <2> DEFINE g == [j \in 0..(m + 1) |-> IF j = m + 1 THEN Step(f[m], m + 1) ELSE f[j]]
  <2>2. Good(g, m + 1)
    <3>0. m \in Nat
      OBVIOUS
    <3> SUFFICES ASSUME NEW j \in 0..(m + 1)
                 PROVE  g[j] = IF j = 0 THEN ws ELSE Step(g[j - 1], j)
      OBVIOUS
    <3>1. CASE j = m + 1
      <4>1. g[j] = Step(f[m], m + 1) /\ g[j - 1] = f[m] /\ j - 1 = m /\ j # 0
        BY <3>0, <3>1
      <4> HIDE DEF g
      <4> QED
        BY <3>1, <4>1
    <3>2. CASE j # m + 1
      <4>1. j \in 0..m
        BY <3>0, <3>2
      <4>2. g[j] = f[j] /\ (j # 0 => g[j - 1] = f[j - 1])
        BY <3>0, <3>2, <4>1
      <4>3. f[j] = IF j = 0 THEN ws ELSE Step(f[j - 1], j)
        BY <2>1, <4>1
      <4> HIDE DEF g
      <4> QED
        BY <4>2, <4>3
    <3> QED
      BY <3>1, <3>2
  <2>3. m + 1 \in Nat
    OBVIOUS
  <2> HIDE DEF g, Good
  <2> QED
    BY <2>2, <2>3
<1>3. P \in SUBSET Nat
  OBVIOUS
<1> HIDE DEF P
<1>4. P = Nat
  BY <1>1, <1>2, <1>3, Induction
<1> DEFINE G(g) == [j \in 0..Len(ks) |-> IF j = 0 THEN ws ELSE Step(g[j - 1], j)]
<1>5. \E f : f = G(f)
  <2>1. \E f : Good(f, n)
    BY <1>4 DEF P
  <2> QED
    BY <2>1
<1> DEFINE a == CHOOSE g : g = G(g)
<1>6. a = G(a)
  <2> HIDE DEF G
  <2> QED
    BY <1>5
<1>7. RunKernels(ws, req, l, ks) = a[n]
  BY DEF RunKernels, Step
<1> HIDE DEF a
<1>8. a[0] = ws /\ \A i \in 1..n : a[i] = Step(a[i - 1], i)
  BY <1>6
<1> QED
  BY <1>7, <1>8 DEF Step, Stages

\* The query of a row.
QueryRow(l, x, pos) == Rotate(Apply("q_proj", l, Apply("attn_norm", l, x)), pos)

\* v is ws with queries, keys and values of x computed for layer l.
Projections(v, ws, req, l) ==
  /\ WellFormed(v) /\ v.cap = ws.cap /\ v.buf["x"] = ws.buf["x"]
  /\ \A i \in 1..Total(req) :
       /\ v.buf["q"][i] = QueryRow(l, ws.buf["x"][i], req.positions[i])
       /\ <<v.buf["k"][i], v.buf["v"][i]>> = KvRow(l, ws.buf["x"][i], req.positions[i])

\* v is ws after the rest of the layer, from what attention wrote.
LayerEnds(v, ws, req, l) ==
  /\ WellFormed(v) /\ v.cap = ws.cap
  /\ \A i \in 1..Total(req) :
       v.buf["x"][i] = AfterMlp(l, Add(ws.buf["x"][i], Apply("o_proj", l, ws.buf["ctx"][i])))

\* The kernels before attention.
LEMMA BeforeIs ==
  ASSUME NEW ws, WellFormed(ws), NEW req, Total(req) \in Nat, Total(req) <= ws.cap, NEW l
  PROVE  Projections(RunKernels(ws, req, l, BeforeAttention), ws, req, l)
<1>0. PICK a : Stages(a, ws, req, l, BeforeAttention, 4)
  <2>1. Len(BeforeAttention) = 4
    BY DEF BeforeAttention
  <2> QED
    BY <2>1, RunKernelsIs
<1>1. /\ a[0] = ws /\ a[4] = RunKernels(ws, req, l, BeforeAttention)
      /\ \A i \in 1..4 : a[i] = RunKernel(a[i - 1], req, l, BeforeAttention[i])
  BY <1>0 DEF Stages
<1>2. WellFormed(a[0]) /\ a[0].cap = ws.cap
  BY <1>1
<1>3. /\ WellFormed(a[1]) /\ a[1].cap = ws.cap
      /\ \A i \in 1..Total(req) : a[1].buf["h"][i] = Apply("attn_norm", l, a[0].buf["x"][i])
      /\ \A c \in Buffers \ {"h"} : a[1].buf[c] = a[0].buf[c]
  <2>1. PICK k : k = Kernel("attn_norm", "x", "x", "h")
    OBVIOUS
  <2>2. k.name = "attn_norm" /\ k.from = "x" /\ k.with = "x" /\ k.to = "h"
    BY <2>1 DEF Kernel
  <2>3. a[1] = RunKernel(a[0], req, l, k)
    <3>1. BeforeAttention[1] = k
      BY <2>1 DEF BeforeAttention
    <3>2. a[1] = RunKernel(a[1 - 1], req, l, BeforeAttention[1])
      BY <1>1
    <3> QED
      BY <3>1, <3>2
  <2>4. Ran(RunKernel(a[0], req, l, k), a[0], req, l, k)
    BY <1>2, <2>2, RunKernelIs DEF Buffers
  <2> QED
    BY <1>2, <2>2, <2>3, <2>4 DEF Ran, Computed
<1>4. /\ WellFormed(a[2]) /\ a[2].cap = ws.cap
      /\ \A i \in 1..Total(req) : a[2].buf["q"][i] = Rotate(Apply("q_proj", l, a[1].buf["h"][i]), req.positions[i])
      /\ \A c \in Buffers \ {"q"} : a[2].buf[c] = a[1].buf[c]
  <2>1. PICK k : k = Kernel("q_proj", "h", "h", "q")
    OBVIOUS
  <2>2. k.name = "q_proj" /\ k.from = "h" /\ k.with = "h" /\ k.to = "q"
    BY <2>1 DEF Kernel
  <2>3. a[2] = RunKernel(a[1], req, l, k)
    <3>1. BeforeAttention[2] = k
      BY <2>1 DEF BeforeAttention
    <3>2. a[2] = RunKernel(a[2 - 1], req, l, BeforeAttention[2])
      BY <1>1
    <3> QED
      BY <3>1, <3>2
  <2>4. Ran(RunKernel(a[1], req, l, k), a[1], req, l, k)
    BY <1>3, <2>2, RunKernelIs DEF Buffers
  <2> QED
    BY <1>3, <2>2, <2>3, <2>4 DEF Ran, Computed
<1>5. /\ WellFormed(a[3]) /\ a[3].cap = ws.cap
      /\ \A i \in 1..Total(req) : a[3].buf["k"][i] = Rotate(Apply("k_proj", l, a[2].buf["h"][i]), req.positions[i])
      /\ \A c \in Buffers \ {"k"} : a[3].buf[c] = a[2].buf[c]
  <2>1. PICK k : k = Kernel("k_proj", "h", "h", "k")
    OBVIOUS
  <2>2. k.name = "k_proj" /\ k.from = "h" /\ k.with = "h" /\ k.to = "k"
    BY <2>1 DEF Kernel
  <2>3. a[3] = RunKernel(a[2], req, l, k)
    <3>1. BeforeAttention[3] = k
      BY <2>1 DEF BeforeAttention
    <3>2. a[3] = RunKernel(a[3 - 1], req, l, BeforeAttention[3])
      BY <1>1
    <3> QED
      BY <3>1, <3>2
  <2>4. Ran(RunKernel(a[2], req, l, k), a[2], req, l, k)
    BY <1>4, <2>2, RunKernelIs DEF Buffers
  <2> QED
    BY <1>4, <2>2, <2>3, <2>4 DEF Ran, Computed
<1>6. /\ WellFormed(a[4]) /\ a[4].cap = ws.cap
      /\ \A i \in 1..Total(req) : a[4].buf["v"][i] = Apply("v_proj", l, a[3].buf["h"][i])
      /\ \A c \in Buffers \ {"v"} : a[4].buf[c] = a[3].buf[c]
  <2>1. PICK k : k = Kernel("v_proj", "h", "h", "v")
    OBVIOUS
  <2>2. k.name = "v_proj" /\ k.from = "h" /\ k.with = "h" /\ k.to = "v"
    BY <2>1 DEF Kernel
  <2>3. a[4] = RunKernel(a[3], req, l, k)
    <3>1. BeforeAttention[4] = k
      BY <2>1 DEF BeforeAttention
    <3>2. a[4] = RunKernel(a[4 - 1], req, l, BeforeAttention[4])
      BY <1>1
    <3> QED
      BY <3>1, <3>2
  <2>4. Ran(RunKernel(a[3], req, l, k), a[3], req, l, k)
    BY <1>5, <2>2, RunKernelIs DEF Buffers
  <2> QED
    BY <1>5, <2>2, <2>3, <2>4 DEF Ran, Computed
<1>7. a[4].buf["x"] = ws.buf["x"]
  BY <1>1, <1>3, <1>4, <1>5, <1>6 DEF Buffers
<1>8. ASSUME NEW i \in 1..Total(req)
      PROVE  /\ a[4].buf["q"][i] = QueryRow(l, ws.buf["x"][i], req.positions[i])
             /\ <<a[4].buf["k"][i], a[4].buf["v"][i]>> = KvRow(l, ws.buf["x"][i], req.positions[i])
  <2>1. a[1].buf["h"][i] = Apply("attn_norm", l, ws.buf["x"][i])
    BY <1>1, <1>3
  <2>2. a[3].buf["h"] = a[1].buf["h"] /\ a[2].buf["h"] = a[1].buf["h"]
    BY <1>4, <1>5 DEF Buffers
  <2>3. a[4].buf["q"] = a[2].buf["q"] /\ a[4].buf["k"] = a[3].buf["k"]
    BY <1>5, <1>6 DEF Buffers
  <2>4. a[2].buf["q"][i] = Rotate(Apply("q_proj", l, a[1].buf["h"][i]), req.positions[i])
    BY <1>4
  <2>5. a[3].buf["k"][i] = Rotate(Apply("k_proj", l, a[2].buf["h"][i]), req.positions[i])
    BY <1>5
  <2>6. a[4].buf["v"][i] = Apply("v_proj", l, a[3].buf["h"][i])
    BY <1>6
  <2> QED
    BY <2>1, <2>2, <2>3, <2>4, <2>5, <2>6 DEF KvRow, QueryRow
<1> QED
  BY <1>1, <1>6, <1>7, <1>8 DEF Projections

\* The kernels after attention.
LEMMA AfterIs ==
  ASSUME NEW ws, WellFormed(ws), NEW req, Total(req) \in Nat, Total(req) <= ws.cap, NEW l
  PROVE  LayerEnds(RunKernels(ws, req, l, AfterAttention), ws, req, l)
<1>0. PICK a : Stages(a, ws, req, l, AfterAttention, 8)
  <2>1. Len(AfterAttention) = 8
    BY DEF AfterAttention
  <2> QED
    BY <2>1, RunKernelsIs
<1>1. /\ a[0] = ws /\ a[8] = RunKernels(ws, req, l, AfterAttention)
      /\ \A i \in 1..8 : a[i] = RunKernel(a[i - 1], req, l, AfterAttention[i])
  BY <1>0 DEF Stages
<1>2. WellFormed(a[0]) /\ a[0].cap = ws.cap
  BY <1>1
<1>3. /\ WellFormed(a[1]) /\ a[1].cap = ws.cap
      /\ \A i \in 1..Total(req) : a[1].buf["tmp"][i] = Apply("o_proj", l, a[0].buf["ctx"][i])
      /\ \A c \in Buffers \ {"tmp"} : a[1].buf[c] = a[0].buf[c]
  <2>1. PICK k : k = Kernel("o_proj", "ctx", "ctx", "tmp")
    OBVIOUS
  <2>2. k.name = "o_proj" /\ k.from = "ctx" /\ k.with = "ctx" /\ k.to = "tmp"
    BY <2>1 DEF Kernel
  <2>3. a[1] = RunKernel(a[0], req, l, k)
    <3>1. AfterAttention[1] = k
      BY <2>1 DEF AfterAttention
    <3>2. a[1] = RunKernel(a[1 - 1], req, l, AfterAttention[1])
      BY <1>1
    <3> QED
      BY <3>1, <3>2
  <2>4. Ran(RunKernel(a[0], req, l, k), a[0], req, l, k)
    BY <1>2, <2>2, RunKernelIs DEF Buffers
  <2> QED
    BY <1>2, <2>2, <2>3, <2>4 DEF Ran, Computed
<1>4. /\ WellFormed(a[2]) /\ a[2].cap = ws.cap
      /\ \A i \in 1..Total(req) : a[2].buf["r"][i] = Add(a[1].buf["x"][i], a[1].buf["tmp"][i])
      /\ \A c \in Buffers \ {"r"} : a[2].buf[c] = a[1].buf[c]
  <2>1. PICK k : k = Kernel("add", "x", "tmp", "r")
    OBVIOUS
  <2>2. k.name = "add" /\ k.from = "x" /\ k.with = "tmp" /\ k.to = "r"
    BY <2>1 DEF Kernel
  <2>3. a[2] = RunKernel(a[1], req, l, k)
    <3>1. AfterAttention[2] = k
      BY <2>1 DEF AfterAttention
    <3>2. a[2] = RunKernel(a[2 - 1], req, l, AfterAttention[2])
      BY <1>1
    <3> QED
      BY <3>1, <3>2
  <2>4. Ran(RunKernel(a[1], req, l, k), a[1], req, l, k)
    BY <1>3, <2>2, RunKernelIs DEF Buffers
  <2> QED
    BY <1>3, <2>2, <2>3, <2>4 DEF Ran, Computed
<1>5. /\ WellFormed(a[3]) /\ a[3].cap = ws.cap
      /\ \A i \in 1..Total(req) : a[3].buf["h"][i] = Apply("mlp_norm", l, a[2].buf["r"][i])
      /\ \A c \in Buffers \ {"h"} : a[3].buf[c] = a[2].buf[c]
  <2>1. PICK k : k = Kernel("mlp_norm", "r", "r", "h")
    OBVIOUS
  <2>2. k.name = "mlp_norm" /\ k.from = "r" /\ k.with = "r" /\ k.to = "h"
    BY <2>1 DEF Kernel
  <2>3. a[3] = RunKernel(a[2], req, l, k)
    <3>1. AfterAttention[3] = k
      BY <2>1 DEF AfterAttention
    <3>2. a[3] = RunKernel(a[3 - 1], req, l, AfterAttention[3])
      BY <1>1
    <3> QED
      BY <3>1, <3>2
  <2>4. Ran(RunKernel(a[2], req, l, k), a[2], req, l, k)
    BY <1>4, <2>2, RunKernelIs DEF Buffers
  <2> QED
    BY <1>4, <2>2, <2>3, <2>4 DEF Ran, Computed
<1>6. /\ WellFormed(a[4]) /\ a[4].cap = ws.cap
      /\ \A i \in 1..Total(req) : a[4].buf["gate"][i] = Apply("gate_proj", l, a[3].buf["h"][i])
      /\ \A c \in Buffers \ {"gate"} : a[4].buf[c] = a[3].buf[c]
  <2>1. PICK k : k = Kernel("gate_proj", "h", "h", "gate")
    OBVIOUS
  <2>2. k.name = "gate_proj" /\ k.from = "h" /\ k.with = "h" /\ k.to = "gate"
    BY <2>1 DEF Kernel
  <2>3. a[4] = RunKernel(a[3], req, l, k)
    <3>1. AfterAttention[4] = k
      BY <2>1 DEF AfterAttention
    <3>2. a[4] = RunKernel(a[4 - 1], req, l, AfterAttention[4])
      BY <1>1
    <3> QED
      BY <3>1, <3>2
  <2>4. Ran(RunKernel(a[3], req, l, k), a[3], req, l, k)
    BY <1>5, <2>2, RunKernelIs DEF Buffers
  <2> QED
    BY <1>5, <2>2, <2>3, <2>4 DEF Ran, Computed
<1>7. /\ WellFormed(a[5]) /\ a[5].cap = ws.cap
      /\ \A i \in 1..Total(req) : a[5].buf["up"][i] = Apply("up_proj", l, a[4].buf["h"][i])
      /\ \A c \in Buffers \ {"up"} : a[5].buf[c] = a[4].buf[c]
  <2>1. PICK k : k = Kernel("up_proj", "h", "h", "up")
    OBVIOUS
  <2>2. k.name = "up_proj" /\ k.from = "h" /\ k.with = "h" /\ k.to = "up"
    BY <2>1 DEF Kernel
  <2>3. a[5] = RunKernel(a[4], req, l, k)
    <3>1. AfterAttention[5] = k
      BY <2>1 DEF AfterAttention
    <3>2. a[5] = RunKernel(a[5 - 1], req, l, AfterAttention[5])
      BY <1>1
    <3> QED
      BY <3>1, <3>2
  <2>4. Ran(RunKernel(a[4], req, l, k), a[4], req, l, k)
    BY <1>6, <2>2, RunKernelIs DEF Buffers
  <2> QED
    BY <1>6, <2>2, <2>3, <2>4 DEF Ran, Computed
<1>8. /\ WellFormed(a[6]) /\ a[6].cap = ws.cap
      /\ \A i \in 1..Total(req) : a[6].buf["gate"][i] = SiluMul(a[5].buf["gate"][i], a[5].buf["up"][i])
      /\ \A c \in Buffers \ {"gate"} : a[6].buf[c] = a[5].buf[c]
  <2>1. PICK k : k = Kernel("silu_mul", "gate", "up", "gate")
    OBVIOUS
  <2>2. k.name = "silu_mul" /\ k.from = "gate" /\ k.with = "up" /\ k.to = "gate"
    BY <2>1 DEF Kernel
  <2>3. a[6] = RunKernel(a[5], req, l, k)
    <3>1. AfterAttention[6] = k
      BY <2>1 DEF AfterAttention
    <3>2. a[6] = RunKernel(a[6 - 1], req, l, AfterAttention[6])
      BY <1>1
    <3> QED
      BY <3>1, <3>2
  <2>4. Ran(RunKernel(a[5], req, l, k), a[5], req, l, k)
    BY <1>7, <2>2, RunKernelIs DEF Buffers
  <2> QED
    BY <1>7, <2>2, <2>3, <2>4 DEF Ran, Computed
<1>9. /\ WellFormed(a[7]) /\ a[7].cap = ws.cap
      /\ \A i \in 1..Total(req) : a[7].buf["tmp"][i] = Apply("down_proj", l, a[6].buf["gate"][i])
      /\ \A c \in Buffers \ {"tmp"} : a[7].buf[c] = a[6].buf[c]
  <2>1. PICK k : k = Kernel("down_proj", "gate", "gate", "tmp")
    OBVIOUS
  <2>2. k.name = "down_proj" /\ k.from = "gate" /\ k.with = "gate" /\ k.to = "tmp"
    BY <2>1 DEF Kernel
  <2>3. a[7] = RunKernel(a[6], req, l, k)
    <3>1. AfterAttention[7] = k
      BY <2>1 DEF AfterAttention
    <3>2. a[7] = RunKernel(a[7 - 1], req, l, AfterAttention[7])
      BY <1>1
    <3> QED
      BY <3>1, <3>2
  <2>4. Ran(RunKernel(a[6], req, l, k), a[6], req, l, k)
    BY <1>8, <2>2, RunKernelIs DEF Buffers
  <2> QED
    BY <1>8, <2>2, <2>3, <2>4 DEF Ran, Computed
<1>10. /\ WellFormed(a[8]) /\ a[8].cap = ws.cap
      /\ \A i \in 1..Total(req) : a[8].buf["x"][i] = Add(a[7].buf["r"][i], a[7].buf["tmp"][i])
      /\ \A c \in Buffers \ {"x"} : a[8].buf[c] = a[7].buf[c]
  <2>1. PICK k : k = Kernel("add", "r", "tmp", "x")
    OBVIOUS
  <2>2. k.name = "add" /\ k.from = "r" /\ k.with = "tmp" /\ k.to = "x"
    BY <2>1 DEF Kernel
  <2>3. a[8] = RunKernel(a[7], req, l, k)
    <3>1. AfterAttention[8] = k
      BY <2>1 DEF AfterAttention
    <3>2. a[8] = RunKernel(a[8 - 1], req, l, AfterAttention[8])
      BY <1>1
    <3> QED
      BY <3>1, <3>2
  <2>4. Ran(RunKernel(a[7], req, l, k), a[7], req, l, k)
    BY <1>9, <2>2, RunKernelIs DEF Buffers
  <2> QED
    BY <1>9, <2>2, <2>3, <2>4 DEF Ran, Computed
<1>11. ASSUME NEW i \in 1..Total(req)
      PROVE  a[8].buf["x"][i] = AfterMlp(l, Add(ws.buf["x"][i], Apply("o_proj", l, ws.buf["ctx"][i])))
  <2>1. a[2].buf["r"][i] = Add(ws.buf["x"][i], Apply("o_proj", l, ws.buf["ctx"][i]))
    <3>1. a[1].buf["tmp"][i] = Apply("o_proj", l, ws.buf["ctx"][i])
      BY <1>1, <1>3
    <3>2. a[1].buf["x"] = ws.buf["x"]
      BY <1>1, <1>3 DEF Buffers
    <3>3. a[2].buf["r"][i] = Add(a[1].buf["x"][i], a[1].buf["tmp"][i])
      BY <1>4
    <3> QED
      BY <3>1, <3>2, <3>3
  <2>2. a[3].buf["h"][i] = Apply("mlp_norm", l, a[2].buf["r"][i])
    BY <1>5
  <2>3. a[4].buf["h"] = a[3].buf["h"] /\ a[5].buf["gate"] = a[4].buf["gate"]
    BY <1>6, <1>7 DEF Buffers
  <2>4. a[4].buf["gate"][i] = Apply("gate_proj", l, a[3].buf["h"][i])
    BY <1>6
  <2>5. a[5].buf["up"][i] = Apply("up_proj", l, a[4].buf["h"][i])
    BY <1>7
  <2>6. a[6].buf["gate"][i] = SiluMul(a[5].buf["gate"][i], a[5].buf["up"][i])
    BY <1>8
  <2>7. a[7].buf["tmp"][i] = Apply("down_proj", l, a[6].buf["gate"][i])
    BY <1>9
  <2>8. a[7].buf["r"] = a[2].buf["r"]
    BY <1>5, <1>6, <1>7, <1>8, <1>9 DEF Buffers
  <2>9. a[8].buf["x"][i] = Add(a[7].buf["r"][i], a[7].buf["tmp"][i])
    BY <1>10
  <2> QED
    BY <2>1, <2>2, <2>3, <2>4, <2>5, <2>6, <2>7, <2>8, <2>9 DEF AfterMlp
<1> QED
  BY <1>1, <1>10, <1>11 DEF LayerEnds
-----------------------------------------------------------------------------
(* A request whose members continue: member b feeds what follows the first    *)
(* P[s] ids of T[s], where s is its sequence.                                 *)

\* The members of a request, and that they continue the ids T of their sequences
\* behind the first P.
Size(req) == Len(req.caches)

Lays(req, T, P) ==
  /\ Size(req) \in Nat \ {0} /\ req.caches \in Seq(Seqs)
  /\ \A a, b \in 1..Size(req) : req.caches[a] = req.caches[b] => a = b
  /\ Len(req.cu) = Size(req) + 1 /\ req.cu[1] = 0
  /\ \A b \in 1..(Size(req) + 1) : req.cu[b] \in Nat
  /\ \A b \in 1..Size(req) : req.cu[b] < req.cu[b + 1]
  /\ IsRows(req.tokens, req.cu[Size(req) + 1]) /\ IsRows(req.positions, req.cu[Size(req) + 1])
  /\ \A b \in 1..Size(req) :
       LET s == req.caches[b]
       IN /\ Len(T[s]) \in Nat /\ P[s] \in Nat /\ Len(T[s]) = P[s] + Span(req, b)
          /\ \A i \in 1..Span(req, b) : /\ req.tokens[req.cu[b] + i] = T[s][P[s] + i]
                                        /\ req.positions[req.cu[b] + i] = (P[s] + i) - 1

\* Later members begin at least that many rows behind.
LEMMA Ascending ==
  ASSUME NEW cu, NEW n \in Nat, \A b \in 1..(n + 1) : cu[b] \in Nat, \A b \in 1..n : cu[b] < cu[b + 1],
         NEW a \in 1..(n + 1), NEW d \in Nat, a + d <= n + 1
  PROVE  cu[a] + d <= cu[a + d]
<1> DEFINE Q == {k \in Nat : a + k <= n + 1 => cu[a] + k <= cu[a + k]}
<1>1. 0 \in Q
  <2>1. cu[a] \in Nat /\ a + 0 = a
    OBVIOUS
  <2> QED
    BY <2>1
<1>2. ASSUME NEW k \in Q PROVE k + 1 \in Q
  <2> SUFFICES ASSUME a + (k + 1) <= n + 1 PROVE cu[a] + (k + 1) <= cu[a + (k + 1)]
    OBVIOUS
  <2>1. k \in Nat /\ a + k \in 1..n /\ (a + k) + 1 = a + (k + 1)
    OBVIOUS
  <2>2. cu[a] + k <= cu[a + k]
    BY <2>1
  <2>3. PICK x \in Nat : x = cu[a + k]
    BY <2>1
  <2>4. PICK y \in Nat : y = cu[a + (k + 1)]
    BY <2>1
  <2>5. x < y
    BY <2>1, <2>3, <2>4
  <2>6. PICK z \in Nat : z = cu[a]
    OBVIOUS
  <2> QED
    BY <2>1, <2>2, <2>3, <2>4, <2>5, <2>6
<1>3. Q \in SUBSET Nat
  OBVIOUS
<1> HIDE DEF Q
<1>4. Q = Nat
  BY <1>1, <1>2, <1>3, Induction
<1> QED
  BY <1>4 DEF Q

\* The rows are those of the members.
LEMMA TotalIs ==
  ASSUME NEW req, NEW T, NEW P, Lays(req, T, P)
  PROVE  Total(req) = req.cu[Size(req) + 1] /\ Total(req) \in Nat
<1>1. req.cu[Size(req) + 1] \in Nat
  <2>1. Size(req) + 1 \in 1..(Size(req) + 1)
    BY DEF Lays
  <2> QED
    BY <2>1 DEF Lays
<1>2. IsRows(req.tokens, req.cu[Size(req) + 1])
  BY DEF Lays
<1>3. Len(req.tokens) = req.cu[Size(req) + 1]
  BY <1>1, <1>2, RowsIs
<1> QED
  BY <1>1, <1>3 DEF Total

\* A member has rows.
LEMMA SpanType ==
  ASSUME NEW req, NEW T, NEW P, Lays(req, T, P), NEW b \in 1..Size(req)
  PROVE  Span(req, b) \in Nat \ {0}
<1>1. PICK n \in Nat : n = Size(req)
  BY DEF Lays
<1>2. b \in 1..(n + 1) /\ b + 1 \in 1..(n + 1) /\ b \in 1..n
  BY <1>1
<1>3. PICK x \in Nat : x = req.cu[b]
  BY <1>1, <1>2 DEF Lays
<1>4. PICK y \in Nat : y = req.cu[b + 1]
  BY <1>1, <1>2 DEF Lays
<1>5. x < y
  BY <1>1, <1>2, <1>3, <1>4 DEF Lays
<1> QED
  BY <1>3, <1>4, <1>5 DEF Span

\* Where row i of member b stands.
LEMMA RowPlace ==
  ASSUME NEW req, NEW T, NEW P, Lays(req, T, P), NEW b \in 1..Size(req), NEW i \in 1..Span(req, b)
  PROVE  /\ Span(req, b) \in Nat /\ req.cu[b] \in Nat /\ req.cu[b + 1] = req.cu[b] + Span(req, b)
         /\ req.cu[b] + i \in 1..Total(req) /\ (req.cu[b] + i) - req.cu[b] = i
<1>1. PICK n \in Nat : n = Size(req) /\ n # 0
  BY DEF Lays
<1>2. b \in 1..(n + 1) /\ b + 1 \in 1..(n + 1) /\ b \in 1..n
  BY <1>1
<1>3. PICK x \in Nat : x = req.cu[b]
  BY <1>1, <1>2 DEF Lays
<1>4. PICK y \in Nat : y = req.cu[b + 1]
  BY <1>1, <1>2 DEF Lays
<1>5. x < y
  BY <1>1, <1>2, <1>3, <1>4 DEF Lays
<1>6. Span(req, b) = y - x
  BY <1>3, <1>4 DEF Span
<1>7. y <= Total(req) /\ Total(req) \in Nat
  <2>1. Total(req) = req.cu[n + 1] /\ Total(req) \in Nat
    BY <1>1, TotalIs
  <2>2. PICK d \in Nat : d = n - b /\ (b + 1) + d = n + 1
    BY <1>2
  <2>3. \A a \in 1..(n + 1) : req.cu[a] \in Nat
    BY <1>1 DEF Lays
  <2>4. \A a \in 1..n : req.cu[a] < req.cu[a + 1]
    BY <1>1 DEF Lays
  <2>5. (b + 1) + d <= n + 1
    BY <2>2
  <2>6. req.cu[b + 1] + d <= req.cu[(b + 1) + d]
    BY <1>2, <2>3, <2>4, <2>5, Ascending
  <2> QED
    BY <1>4, <2>1, <2>2, <2>6
<1> QED
  BY <1>3, <1>4, <1>5, <1>6, <1>7

\* The member a row belongs to.
LEMMA MemberIs ==
  ASSUME NEW req, NEW T, NEW P, Lays(req, T, P), NEW b \in 1..Size(req), NEW i \in 1..Span(req, b)
  PROVE  MemberOf(req, req.cu[b] + i) = b
<1>1. PICK m : m = req.cu[b] + i
  OBVIOUS
<1>2. PICK n \in Nat : n = Size(req) /\ n # 0
  BY DEF Lays
<1> DEFINE In(a) == req.cu[a] < m /\ m <= req.cu[a + 1]
<1>3. m \in Nat /\ In(b) /\ b \in 1..n
  <2>1. /\ Span(req, b) \in Nat /\ req.cu[b] \in Nat /\ req.cu[b + 1] = req.cu[b] + Span(req, b)
    BY RowPlace
  <2> QED
    BY <1>1, <1>2, <2>1
<1>4. \A a \in 1..(n + 1) : req.cu[a] \in Nat
  BY <1>2 DEF Lays
<1>5. \A a \in 1..n : req.cu[a] < req.cu[a + 1]
  BY <1>2 DEF Lays
<1>6. ASSUME NEW a \in 1..n, NEW c \in 1..n, In(a), In(c), a < c PROVE FALSE
  <2>1. PICK d \in Nat : d = c - (a + 1) /\ (a + 1) + d = c
    BY <1>6
  <2>2. a + 1 \in 1..(n + 1) /\ (a + 1) + d <= n + 1
    BY <1>6, <2>1
  <2>3. req.cu[a + 1] + d <= req.cu[(a + 1) + d]
    BY <1>4, <1>5, <2>2, Ascending
  <2>4. req.cu[a + 1] + d <= req.cu[c]
    BY <2>1, <2>3
  <2>5. req.cu[a + 1] \in Nat /\ req.cu[c] \in Nat /\ req.cu[c] < m /\ m <= req.cu[a + 1]
    BY <1>4, <1>6, <2>2
  <2> QED
    BY <1>3, <2>4, <2>5
<1>7. \A a \in 1..n : In(a) => a = b
  <2> SUFFICES ASSUME NEW a \in 1..n, In(a) PROVE a = b
    OBVIOUS
  <2>1. ~(a < b) /\ ~(b < a)
    BY <1>3, <1>6
  <2> QED
    BY <1>3, <2>1
<1>8. MemberOf(req, m) = CHOOSE a \in 1..n : In(a)
  BY <1>2 DEF MemberOf, Size
<1> HIDE DEF In
<1>9. MemberOf(req, m) = b
  BY <1>3, <1>7, <1>8
<1> QED
  BY <1>1, <1>9

\* Every row belongs to a member.
LEMMA RowOf ==
  ASSUME NEW req, NEW T, NEW P, Lays(req, T, P), NEW m \in 1..Total(req)
  PROVE  \E b \in 1..Size(req) : \E i \in 1..Span(req, b) : m = req.cu[b] + i
<1>1. PICK n \in Nat : n = Size(req) /\ n # 0
  BY DEF Lays
<1>2. \A a \in 1..(n + 1) : req.cu[a] \in Nat
  BY <1>1 DEF Lays
<1>3. Total(req) = req.cu[n + 1] /\ Total(req) \in Nat
  BY <1>1, TotalIs
<1> DEFINE M == {a \in 1..n : m <= req.cu[a + 1]}
<1>4. M \in SUBSET Nat /\ M # {}
  <2>1. n \in M
    BY <1>1, <1>3
  <2>2. M \in SUBSET Nat
    OBVIOUS
  <2> QED
    BY <2>1, <2>2, Zenon
<1>5. PICK b \in M : \A a \in M : b <= a
  <2> HIDE DEF M
  <2> QED
    BY <1>4, LeastExists
<1>6. req.cu[b] < m
  <2>1. CASE b = 1
    <3>1. req.cu[1] = 0
      BY DEF Lays
    <3> QED
      BY <1>3, <2>1, <3>1
  <2>2. CASE b # 1
    <3>1. b - 1 \in 1..n /\ (b - 1) + 1 = b /\ ~(b <= b - 1)
      BY <1>5, <2>2
    <3>2. b - 1 \notin M
      BY <1>5, <3>1
    <3>3. ~(m <= req.cu[b])
      BY <3>1, <3>2
    <3>4. req.cu[b] \in Nat
      BY <1>2, <3>1
    <3> QED
      BY <1>3, <3>3, <3>4
  <2> QED
    BY <2>1, <2>2
<1>7. PICK x \in Nat : x = req.cu[b]
  BY <1>2, <1>5
<1>8. PICK y \in Nat : y = req.cu[b + 1]
  BY <1>1, <1>2, <1>5
<1>9. m - x \in 1..Span(req, b) /\ m = x + (m - x)
  <2>1. m <= y /\ x < m /\ m \in Nat
    BY <1>3, <1>5, <1>6, <1>7, <1>8
  <2>2. Span(req, b) = y - x
    BY <1>7, <1>8 DEF Span
  <2> QED
    BY <2>1, <2>2
<1> QED
  BY <1>1, <1>5, <1>7, <1>9

\* When there are as many rows as members, each member has one.
LEMMA OneEach ==
  ASSUME NEW req, NEW T, NEW P, Lays(req, T, P), Total(req) = Size(req), NEW b \in 1..Size(req)
  PROVE  Span(req, b) = 1
<1>1. PICK n \in Nat : n = Size(req) /\ n # 0
  BY DEF Lays
<1>2. \A a \in 1..(n + 1) : req.cu[a] \in Nat
  BY <1>1 DEF Lays
<1>3. \A a \in 1..n : req.cu[a] < req.cu[a + 1]
  BY <1>1 DEF Lays
<1>4. req.cu[n + 1] = n /\ req.cu[1] = 0
  <2>1. Total(req) = req.cu[Size(req) + 1]
    BY TotalIs
  <2>2. req.cu[1] = 0
    BY DEF Lays
  <2> QED
    BY <1>1, <2>1, <2>2
<1>5. b \in 1..n
  BY <1>1
<1>6. PICK x \in Nat : x = req.cu[b]
  BY <1>2, <1>5
<1>7. PICK y \in Nat : y = req.cu[b + 1]
  BY <1>2, <1>5
<1>8. b - 1 <= x
  <2>1. PICK d \in Nat : d = b - 1 /\ 1 + d = b
    BY <1>5
  <2>2. 1 \in 1..(n + 1) /\ 1 + d <= n + 1
    BY <1>5, <2>1
  <2>3. req.cu[1] + d <= req.cu[1 + d]
    BY <1>2, <1>3, <2>2, Ascending
  <2> QED
    BY <1>4, <1>6, <2>1, <2>3
<1>9. y + (n - b) <= n
  <2>1. PICK d \in Nat : d = n - b /\ (b + 1) + d = n + 1
    BY <1>5
  <2>2. b + 1 \in 1..(n + 1) /\ (b + 1) + d <= n + 1
    BY <1>5, <2>1
  <2>3. req.cu[b + 1] + d <= req.cu[(b + 1) + d]
    BY <1>2, <1>3, <2>2, Ascending
  <2> QED
    BY <1>4, <1>7, <2>1, <2>3
<1>10. x < y
  BY <1>3, <1>5, <1>6, <1>7
<1>11. Span(req, b) = y - x
  BY <1>6, <1>7 DEF Span
<1> QED
  BY <1>5, <1>8, <1>9, <1>10, <1>11
-----------------------------------------------------------------------------
(* The optimized model, layer by layer.                                       *)

\* s is one of them.
Member(req, s) == \E b \in 1..Size(req) : req.caches[b] = s

\* The cache of t when the layers before j hold n ids, and the others m.
Filled(t, n, m, j) == [l \in Layers |-> KvUpTo(t, l, IF l < j THEN n ELSE m)]

\* kvs holds, for every member, all of T[s] in the layers before j and the first
\* Length0[s] ids in the others; and what it held in kv0 for the other sequences.
Caches(kvs, kv0, req, T, Length0, j) ==
  /\ kvs = [s \in Seqs |-> kvs[s]]
  /\ \A b \in 1..Size(req) :
       LET s == req.caches[b]
       IN kvs[s] = Filled(T[s], Len(T[s]), Length0[s], j)
  /\ \A s \in Seqs : ~Member(req, s) => kvs[s] = kv0[s]

\* The pass has run its first j layers.
PassAt(pass, kv0, req, T, P, j) ==
  /\ pass = [ok |-> TRUE, w |-> pass.w, kv |-> pass.kv]
  /\ WellFormed(pass.w) /\ Total(req) <= pass.w.cap
  /\ \A b \in 1..Size(req) : \A i \in 1..Span(req, b) :
       pass.w.buf["x"][req.cu[b] + i] = Hidden(T[req.caches[b]])[j][P[req.caches[b]] + i]
  /\ Caches(pass.kv, kv0, req, T, P, j)

\* What AppendMembers adds to the cache of member b.
NewRows(req, ws, b) ==
  [i \in 1..Span(req, b) |-> <<ws.buf["k"][req.cu[b] + i], ws.buf["v"][req.cu[b] + i]>>]

\* A cache with new rows in layer l.
Extended(cache, l, new) == [cache EXCEPT ![l] = @ \o new]

\* A is kvs with layer l of the members before bad, or of all, extended.
Appended(A, kvs, req, l, ws, bad) ==
  /\ A = [s \in Seqs |-> A[s]]
  /\ \A b \in 1..Size(req) :
       A[req.caches[b]] = IF bad = 0 \/ b < bad THEN Extended(kvs[req.caches[b]], l, NewRows(req, ws, b))
                          ELSE kvs[req.caches[b]]
  /\ \A s \in Seqs : ~Member(req, s) => A[s] = kvs[s]

\* Appending for the members before bad, or for all.
LEMMA AppendIs ==
  ASSUME NEW req, NEW T, NEW P, Lays(req, T, P), NEW kvs, NEW ws, NEW l,
         NEW bad, bad = 0 \/ bad \in 1..Size(req)
  PROVE  Appended(AppendMembers(kvs, req, l, ws, bad), kvs, req, l, ws, bad)
<1> DEFINE mine(s) == {b \in 1..Size(req) : req.caches[b] = s /\ (bad = 0 \/ b < bad)}
           new(b) == Rows(NewRows(req, ws, b))
<1>1. PICK A : A = AppendMembers(kvs, req, l, ws, bad)
  OBVIOUS
<1>2. A = [s \in Seqs |-> IF mine(s) = {} THEN kvs[s]
                         ELSE [kvs[s] EXCEPT ![l] = @ \o new(CHOOSE b \in mine(s) : TRUE)]]
  BY <1>1, Zenon DEF AppendMembers, Size, NewRows
<1>3. \A b \in 1..Size(req) : new(b) = NewRows(req, ws, b)
  <2> SUFFICES ASSUME NEW b \in 1..Size(req) PROVE new(b) = NewRows(req, ws, b)
    OBVIOUS
  <2>1. Span(req, b) \in Nat
    BY SpanType
  <2>2. IsRows(NewRows(req, ws, b), Span(req, b))
    BY DEF IsRows, NewRows
  <2> QED
    BY <2>1, <2>2, RowsIs
<1>4. ASSUME NEW b \in 1..Size(req)
      PROVE  A[req.caches[b]] = IF bad = 0 \/ b < bad THEN [kvs[req.caches[b]] EXCEPT ![l] = @ \o NewRows(req, ws, b)]
                                ELSE kvs[req.caches[b]]
  <2>1. PICK s \in Seqs : s = req.caches[b]
    BY DEF Lays, Size
  <2>2. \A a \in 1..Size(req) : req.caches[a] = s => a = b
    BY <2>1 DEF Lays
  <2>3. CASE bad = 0 \/ b < bad
    <3>1. mine(s) = {b}
      BY <2>1, <2>2, <2>3
    <3>2. (CHOOSE a \in mine(s) : TRUE) = b
      BY <3>1
    <3>3. A[s] = [kvs[s] EXCEPT ![l] = @ \o new(CHOOSE a \in mine(s) : TRUE)]
      BY <1>2, <3>1
    <3> HIDE DEF mine, new
    <3>4. A[s] = [kvs[s] EXCEPT ![l] = @ \o NewRows(req, ws, b)]
      BY <1>3, <3>2, <3>3
    <3> QED
      BY <2>1, <2>3, <3>4
  <2>4. CASE ~(bad = 0 \/ b < bad)
    <3>1. mine(s) = {}
      BY <2>1, <2>2, <2>4
    <3>2. A[s] = kvs[s]
      BY <1>2, <3>1
    <3> QED
      BY <2>1, <2>4, <3>2
  <2> QED
    BY <2>3, <2>4
<1>5. ASSUME NEW s \in Seqs, ~Member(req, s) PROVE A[s] = kvs[s]
  <2>1. mine(s) = {}
    BY <1>5 DEF Member
  <2> QED
    BY <1>2, <2>1
<1>6. A = [s \in Seqs |-> A[s]]
  <2> HIDE DEF mine, new
  <2> QED
    BY <1>2
<1> QED
  BY <1>1, <1>4, <1>5, <1>6, Zenon DEF Appended, Extended

\* ws holds the queries, keys and values of layer j for every row of req.
QkvAt(ws, req, T, P, j) ==
  /\ WellFormed(ws) /\ Total(req) <= ws.cap
  /\ \A b \in 1..Size(req) : \A i \in 1..Span(req, b) :
       LET s == req.caches[b]
           m == req.cu[b] + i
           x == Hidden(T[s])[j][P[s] + i]
       IN /\ ws.buf["x"][m] = x
          /\ ws.buf["q"][m] = QueryRow(j, x, (P[s] + i) - 1)
          /\ <<ws.buf["k"][m], ws.buf["v"][m]>> = KvRow(j, x, (P[s] + i) - 1)

\* The projections of a layer whose inputs are in place.
LEMMA QkvIs ==
  ASSUME NEW req, NEW T, NEW P, Lays(req, T, P), NEW j, NEW kv0, NEW pass, PassAt(pass, kv0, req, T, P, j)
  PROVE  QkvAt(RunKernels(pass.w, req, j, BeforeAttention), req, T, P, j)
<1>1. WellFormed(pass.w) /\ Total(req) <= pass.w.cap /\ Total(req) \in Nat
  BY TotalIs DEF PassAt
<1>2. PICK ws : ws = RunKernels(pass.w, req, j, BeforeAttention)
  OBVIOUS
<1>3. Projections(ws, pass.w, req, j)
  BY <1>1, <1>2, BeforeIs
<1>4. WellFormed(ws) /\ Total(req) <= ws.cap
  BY <1>1, <1>3 DEF Projections
<1>5. ASSUME NEW b \in 1..Size(req), NEW i \in 1..Span(req, b), NEW s, s = req.caches[b],
             NEW m, m = req.cu[b] + i, NEW x, x = Hidden(T[s])[j][P[s] + i]
      PROVE  /\ ws.buf["x"][m] = x
             /\ ws.buf["q"][m] = QueryRow(j, x, (P[s] + i) - 1)
             /\ <<ws.buf["k"][m], ws.buf["v"][m]>> = KvRow(j, x, (P[s] + i) - 1)
  <2>1. m \in 1..Total(req)
    BY <1>5, RowPlace
  <2>2. pass.w.buf["x"][m] = x
    BY <1>5 DEF PassAt
  <2>3. req.positions[m] = (P[s] + i) - 1
    BY <1>5 DEF Lays
  <2> QED
    BY <1>3, <2>1, <2>2, <2>3 DEF Projections
<1> QED
  BY <1>2, <1>4, <1>5 DEF QkvAt

\* A member's cache once layer j has its rows.
LEMMA MemberAppends ==
  ASSUME NEW req, NEW T, NEW P, Lays(req, T, P), NEW j \in Layers, NEW ws, QkvAt(ws, req, T, P, j),
         NEW b \in 1..Size(req), NEW s, s = req.caches[b], NEW cache,
         cache = Filled(T[s], Len(T[s]), P[s], j)
  PROVE  Extended(cache, j, NewRows(req, ws, b)) = Filled(T[s], Len(T[s]), P[s], j + 1)
<1>1. PICK n \in Nat : n = Span(req, b)
  BY SpanType
<1>2. PICK p \in Nat : p = P[s]
  BY DEF Lays
<1>3. Len(T[s]) = p + n
  BY <1>1, <1>2 DEF Lays
<1>4. PICK new : new = NewRows(req, ws, b)
  OBVIOUS
<1>5. IsRows(new, n)
  BY <1>1, <1>4, SMTT(30) DEF NewRows, IsRows
<1>6. \A i \in 1..n : new[i] = KvRow(j, Hidden(T[s])[j][p + i], (p + i) - 1)
  <2> SUFFICES ASSUME NEW i \in 1..n PROVE new[i] = KvRow(j, Hidden(T[s])[j][p + i], (p + i) - 1)
    OBVIOUS
  <2>1. new[i] = <<ws.buf["k"][req.cu[b] + i], ws.buf["v"][req.cu[b] + i]>>
    BY <1>1, <1>4, SMTT(30) DEF NewRows
  <2>2. <<ws.buf["k"][req.cu[b] + i], ws.buf["v"][req.cu[b] + i]>> =
          KvRow(j, Hidden(T[s])[j][P[s] + i], (P[s] + i) - 1)
    BY <1>1 DEF QkvAt
  <2> QED
    BY <1>2, <2>1, <2>2
<1>7. KvUpTo(T[s], j, p) \o new = KvUpTo(T[s], j, p + n)
  <2>1. Follows(new, T[s], j, p, n)
    BY <1>5, <1>6 DEF Follows
  <2> QED
    BY ONLY <2>1, KvExtends, p \in Nat, n \in Nat
<1>8. \A l \in Layers : (l < j + 1) <=> (l < j \/ l = j)
  BY DEF Layers
<1>9. cache[j] = KvUpTo(T[s], j, p) /\ \A l \in Layers : l # j => cache[l] = KvUpTo(T[s], l, IF l < j + 1 THEN Len(T[s]) ELSE P[s])
  <2>1. ~(j < j)
    <3>1. j \in Int
      BY ModelForwardAssumption, SMTT(30) DEF Layers
    <3> QED
      BY ONLY <3>1
  <2> QED
    BY <1>2, <1>8, <2>1 DEF Filled
<1>10. [cache EXCEPT ![j] = @ \o new] = [l \in Layers |-> IF l = j THEN cache[j] \o new ELSE cache[l]]
  BY DEF Filled
<1>11. j < j + 1
  BY DEF Layers
<1>12. \A l \in Layers : (IF l = j THEN cache[j] \o new ELSE cache[l]) =
                           KvUpTo(T[s], l, IF l < j + 1 THEN Len(T[s]) ELSE P[s])
  BY <1>3, <1>7, <1>9, <1>11
<1> QED
  BY <1>4, <1>10, <1>12 DEF Filled, Extended

\* Every member's cache, when none fails.
LEMMA AllAppend ==
  ASSUME NEW req, NEW T, NEW P, Lays(req, T, P), NEW j \in Layers, NEW ws, QkvAt(ws, req, T, P, j),
         NEW kvs, NEW kv0, Caches(kvs, kv0, req, T, P, j)
  PROVE  Caches(AppendMembers(kvs, req, j, ws, 0), kv0, req, T, P, j + 1)
<1>1. PICK A : A = AppendMembers(kvs, req, j, ws, 0)
  OBVIOUS
<1>0. Appended(A, kvs, req, j, ws, 0)
  BY <1>1, AppendIs
<1>2. A = [s \in Seqs |-> A[s]]
  BY <1>0 DEF Appended
<1>3. ASSUME NEW s \in Seqs, ~Member(req, s) PROVE A[s] = kv0[s]
  <2>1. A[s] = kvs[s]
    BY <1>0, <1>3 DEF Appended
  <2> QED
    BY <1>3, <2>1 DEF Caches
<1>4. ASSUME NEW b \in 1..Size(req), NEW s, s = req.caches[b]
      PROVE  A[s] = Filled(T[s], Len(T[s]), P[s], j + 1)
  <2>0. PICK cache : cache = kvs[s]
    OBVIOUS
  <2>1. A[s] = Extended(cache, j, NewRows(req, ws, b))
    BY <1>0, <1>4, <2>0 DEF Appended
  <2>2. cache = Filled(T[s], Len(T[s]), P[s], j)
    BY <1>4, <2>0 DEF Caches
  <2>3. Extended(cache, j, NewRows(req, ws, b)) = Filled(T[s], Len(T[s]), P[s], j + 1)
    BY <1>4, <2>2, MemberAppends
  <2> QED
    BY <2>1, <2>3
<1> QED
  BY <1>1, <1>2, <1>3, <1>4 DEF Caches

\* v is ws with what every row attends to: the ids of its sequence up to its own.
ContextAt(v, ws, req, T, P, j) ==
  /\ WellFormed(v) /\ v.cap = ws.cap /\ v.buf["x"] = ws.buf["x"]
  /\ \A b \in 1..Size(req) : \A i \in 1..Span(req, b) :
       LET s == req.caches[b]
           n == P[s] + i
       IN v.buf["ctx"][req.cu[b] + i] = Attend(QueryRow(j, Hidden(T[s])[j][n], n - 1), KvUpTo(T[s], j, n))

\* Where a row's id stands among its sequence's.
LEMMA RowId ==
  ASSUME NEW req, NEW T, NEW P, Lays(req, T, P), NEW b \in 1..Size(req), NEW i \in 1..Span(req, b),
         NEW s, s = req.caches[b]
  PROVE  /\ P[s] \in Nat /\ Len(T[s]) \in Nat /\ P[s] + i \in 1..Len(T[s])
         /\ Len(T[s]) - Span(req, b) = P[s] /\ s \in Seqs
<1>1. P[s] \in Nat /\ Len(T[s]) = P[s] + Span(req, b) /\ Len(T[s]) \in Nat
  BY DEF Lays
<1>2. Span(req, b) \in Nat
  BY SpanType
<1>3. s \in Seqs
  BY DEF Lays, Size
<1>4. PICK p \in Nat : p = P[s]
  BY <1>1
<1>5. PICK k \in Nat : k = Span(req, b)
  BY <1>2
<1>6. Len(T[s]) = p + k /\ i \in 1..k
  BY <1>1, <1>4, <1>5
<1>7. p + i \in 1..(p + k) /\ (p + k) - k = p
  BY <1>6
<1> QED
  BY <1>1, <1>3, <1>4, <1>5, <1>6, <1>7

\* Both attention paths.
LEMMA AttendIs ==
  ASSUME NEW req, NEW T, NEW P, Lays(req, T, P), NEW j \in Layers, NEW ws, QkvAt(ws, req, T, P, j),
         NEW kvs, NEW kv0, Caches(kvs, kv0, req, T, P, j + 1)
  PROVE  ContextAt(AttendRows(ws, req, [s \in Seqs |-> kvs[s][j]]), ws, req, T, P, j)
<1>1. PICK kvl : kvl = [s \in Seqs |-> kvs[s][j]]
  OBVIOUS
<1> DEFINE Row(m) == IF DecodePath(req) THEN DecodeRows(req, kvl, ws.buf["q"][m], m)
                     ELSE VarlenRows(req, kvl, ws.buf["q"][m], m)
<1>2. ASSUME NEW b \in 1..Size(req), NEW i \in 1..Span(req, b), NEW s, s = req.caches[b],
             NEW n, n = P[s] + i, NEW m, m = req.cu[b] + i
      PROVE  Row(m) = Attend(QueryRow(j, Hidden(T[s])[j][n], n - 1), KvUpTo(T[s], j, n))
  <2>1. /\ P[s] \in Nat /\ Len(T[s]) \in Nat /\ n \in 1..Len(T[s])
        /\ Len(T[s]) - Span(req, b) = P[s] /\ s \in Seqs
    BY <1>2, RowId
  <2>2. MemberOf(req, m) = b
    BY <1>2, MemberIs
  <2>3. kvl[s] = KvUpTo(T[s], j, Len(T[s]))
    <3>1. kvs[s] = Filled(T[s], Len(T[s]), P[s], j + 1)
      BY <1>2 DEF Caches
    <3>2. j < j + 1
      BY DEF Layers
    <3>3. kvs[s][j] = KvUpTo(T[s], j, Len(T[s]))
      BY <3>1, <3>2 DEF Filled
    <3> QED
      BY <1>1, <2>1, <3>3
  <2>4. ws.buf["q"][m] = QueryRow(j, Hidden(T[s])[j][n], n - 1)
    BY <1>2 DEF QkvAt
  <2>5. Len(kvl[s]) = Len(T[s]) /\ SubSeq(kvl[s], 1, n) = KvUpTo(T[s], j, n)
    <3>1. n \in 0..Len(T[s])
      BY <2>1
    <3>2. Len(KvUpTo(T[s], j, Len(T[s]))) = Len(T[s])
      BY <2>1, KvRows
    <3>3. SubSeq(KvUpTo(T[s], j, Len(T[s])), 1, n) = KvUpTo(T[s], j, n)
      BY <2>1, <3>1, KvRows
    <3> QED
      BY <2>3, <3>2, <3>3
  <2>6. CASE DecodePath(req)
    <3>1. Total(req) = Size(req)
      BY <2>6 DEF DecodePath, Size
    <3>2. Span(req, b) = 1
      BY <3>1, OneEach
    <3>3. n = Len(T[s])
      BY <1>2, <2>1, <3>2
    <3>4. DecodeRows(req, kvl, ws.buf["q"][m], m) = Attend(ws.buf["q"][m], kvl[s])
      BY <1>2, <2>2 DEF DecodeRows
    <3> QED
      BY <2>3, <2>4, <2>6, <3>3, <3>4
  <2>7. CASE ~DecodePath(req)
    <3>1. m - req.cu[b] = i
      BY <1>2, RowPlace
    <3>2. VarlenRows(req, kvl, ws.buf["q"][m], m) =
            Attend(ws.buf["q"][m], SubSeq(kvl[s], 1, (Len(kvl[s]) - Span(req, b)) + (m - req.cu[b])))
      BY <1>2, <2>2 DEF VarlenRows
    <3>3. (Len(kvl[s]) - Span(req, b)) + (m - req.cu[b]) = n
      BY <1>2, <2>1, <2>5, <3>1
    <3>4. VarlenRows(req, kvl, ws.buf["q"][m], m) = Attend(ws.buf["q"][m], SubSeq(kvl[s], 1, n))
      BY <3>2, <3>3
    <3> QED
      BY <2>4, <2>5, <2>7, <3>4
  <2> QED
    BY <2>6, <2>7
<1>3. Total(req) \in Nat /\ WellFormed(ws) /\ Total(req) <= ws.cap /\ "ctx" \in Buffers
  BY TotalIs DEF QkvAt, Buffers
<1>4. PICK f : f = [m \in 1..Total(req) |-> Row(m)]
  OBVIOUS
<1>5. IsRows(f, Total(req)) /\ Rows(f) = f
  <2>1. IsRows(f, Total(req))
    BY <1>4 DEF IsRows
  <2> QED
    BY <1>3, <2>1, RowsIs
<1>6. PICK v : v = AttendRows(ws, req, kvl)
  OBVIOUS
<1>7. Written(v, ws, "ctx", f, Total(req))
  <2>1. v = Put(ws, "ctx", f)
    BY <1>4, <1>5, <1>6 DEF AttendRows
  <2> QED
    BY <1>3, <1>5, <2>1, PutIs
<1>8. WellFormed(v) /\ v.cap = ws.cap /\ v.buf["x"] = ws.buf["x"]
  BY <1>7 DEF Written, Buffers
<1>9. ASSUME NEW b \in 1..Size(req), NEW i \in 1..Span(req, b), NEW s, s = req.caches[b],
             NEW n, n = P[s] + i, NEW m, m = req.cu[b] + i
      PROVE  v.buf["ctx"][m] = Attend(QueryRow(j, Hidden(T[s])[j][n], n - 1), KvUpTo(T[s], j, n))
  <2>1. m \in 1..Total(req)
    BY <1>9, RowPlace
  <2>2. v.buf["ctx"][m] = Row(m)
    <3> HIDE DEF Row
    <3> QED
      BY <1>4, <1>7, <2>1 DEF Written
  <2>3. Row(m) = Attend(QueryRow(j, Hidden(T[s])[j][n], n - 1), KvUpTo(T[s], j, n))
    BY <1>2, <1>9
  <2> HIDE DEF Row
  <2> QED
    BY <2>2, <2>3
<1> HIDE DEF Row
<1> QED
  BY <1>1, <1>6, <1>8, <1>9 DEF ContextAt

\* One layer of the batch.
LEMMA LayerAt ==
  ASSUME NEW req, NEW T, NEW P, Lays(req, T, P), NEW j \in Layers, NEW kv0, NEW pass, PassAt(pass, kv0, req, T, P, j)
  PROVE  PassAt(ForwardLayer(pass, req, j, 0), kv0, req, T, P, j + 1)
<1>1. PICK ws : ws = RunKernels(pass.w, req, j, BeforeAttention)
  OBVIOUS
<1>2. QkvAt(ws, req, T, P, j)
  BY <1>1, QkvIs
<1>3. PICK kv1 : kv1 = AppendMembers(pass.kv, req, j, ws, 0)
  OBVIOUS
<1>4. Caches(kv1, kv0, req, T, P, j + 1)
  <2>1. Caches(pass.kv, kv0, req, T, P, j)
    BY DEF PassAt
  <2> QED
    BY <1>2, <1>3, <2>1, AllAppend
<1>5. PICK v : v = AttendRows(ws, req, [s \in Seqs |-> kv1[s][j]])
  OBVIOUS
<1>6. ContextAt(v, ws, req, T, P, j)
  BY <1>2, <1>4, <1>5, AttendIs
<1>7. PICK u : u = RunKernels(v, req, j, AfterAttention)
  OBVIOUS
<1>8. Total(req) \in Nat /\ Total(req) <= v.cap /\ WellFormed(v)
  BY <1>2, <1>6, TotalIs DEF QkvAt, ContextAt
<1>9. LayerEnds(u, v, req, j)
  BY <1>7, <1>8, AfterIs
<1>10. ForwardLayer(pass, req, j, 0) = [ok |-> TRUE, w |-> u, kv |-> kv1]
  <2>1. pass.ok
    BY DEF PassAt
  <2>2. BatchedAttention(ws, pass.kv, req, j, 0) = [ok |-> TRUE, w |-> v, kv |-> kv1]
    BY <1>3, <1>5 DEF BatchedAttention, Attended
  <2>3. FinishLayer([ok |-> TRUE, w |-> v, kv |-> kv1], req, j) = [ok |-> TRUE, w |-> u, kv |-> kv1]
    BY <1>7 DEF FinishLayer
  <2> QED
    BY <1>1, <2>1, <2>2, <2>3 DEF ForwardLayer
<1>11. ASSUME NEW b \in 1..Size(req), NEW i \in 1..Span(req, b), NEW s, s = req.caches[b],
              NEW n, n = P[s] + i, NEW m, m = req.cu[b] + i
       PROVE  u.buf["x"][m] = Hidden(T[s])[j + 1][n]
  <2>1. m \in 1..Total(req)
    BY <1>11, RowPlace
  <2>2. n \in 1..Len(T[s])
    BY <1>11, RowId
  <2>3. u.buf["x"][m] = AfterMlp(j, Add(v.buf["x"][m], Apply("o_proj", j, v.buf["ctx"][m])))
    BY <1>9, <2>1 DEF LayerEnds
  <2>4. v.buf["x"][m] = Hidden(T[s])[j][n]
    <3>1. ws.buf["x"][m] = Hidden(T[s])[j][n]
      BY <1>2, <1>11 DEF QkvAt
    <3> QED
      BY <1>6, <3>1 DEF ContextAt
  <2>5. v.buf["ctx"][m] = Attend(QueryRow(j, Hidden(T[s])[j][n], n - 1), KvUpTo(T[s], j, n))
    BY <1>6, <1>11 DEF ContextAt
  <2>6. Hidden(T[s])[j + 1][n] = LayerRow(j, Hidden(T[s])[j][n], n - 1, KvUpTo(T[s], j, n))
    BY <2>2, HiddenRows
  <2> QED
    BY <2>3, <2>4, <2>5, <2>6 DEF LayerRow, AfterAttend, QueryRow
<1>12. WellFormed(u) /\ Total(req) <= u.cap
  BY <1>8, <1>9 DEF LayerEnds
<1> QED
  BY <1>4, <1>10, <1>11, <1>12 DEF PassAt

\* a holds the pass before and after each layer.
Passes(a, ws, kvs, req, bad) ==
  /\ a[0] = [ok |-> TRUE, w |-> Embedded(EnsureCapacity(ws, Total(req)), req), kv |-> kvs]
  /\ \A n \in 1..NumLayers : a[n] = ForwardLayer(a[n - 1], req, n - 1, IF n = 1 THEN bad ELSE 0)
  /\ RunStack(ws, kvs, req, bad) = FinalNorm(a[NumLayers], req)

\* The layers run one after the other.
LEMMA RunStackIs ==
  ASSUME NEW ws, NEW kvs, NEW req, NEW bad
  PROVE  \E a : Passes(a, ws, kvs, req, bad)
<1>0. NumLayers \in Nat
  BY ModelForwardAssumption
<1> DEFINE start == [ok |-> TRUE, w |-> Embedded(EnsureCapacity(ws, Total(req)), req), kv |-> kvs]
           Step(x, j) == ForwardLayer(x, req, j - 1, IF j = 1 THEN bad ELSE 0)
           Good(f, m) == f = [j \in 0..m |-> IF j = 0 THEN start ELSE Step(f[j - 1], j)]
           P == {m \in Nat : \E f : Good(f, m)}
<1> HIDE DEF Step, start
<1>1. 0 \in P
  <2> DEFINE f == [j \in 0..0 |-> start]
  <2>1. Good(f, 0)
    OBVIOUS
  <2> QED
    BY <2>1
<1>2. ASSUME NEW m \in P PROVE m + 1 \in P
  <2>1. PICK f : Good(f, m)
    OBVIOUS
  <2> DEFINE g == [j \in 0..(m + 1) |-> IF j = m + 1 THEN Step(f[m], m + 1) ELSE f[j]]
  <2>2. Good(g, m + 1)
    <3>0. m \in Nat
      OBVIOUS
    <3> SUFFICES ASSUME NEW j \in 0..(m + 1)
                 PROVE  g[j] = IF j = 0 THEN start ELSE Step(g[j - 1], j)
      OBVIOUS
    <3>1. CASE j = m + 1
      <4>1. g[j] = Step(f[m], m + 1) /\ g[j - 1] = f[m] /\ j - 1 = m /\ j # 0
        BY <3>0, <3>1
      <4> HIDE DEF g
      <4> QED
        BY <3>1, <4>1
    <3>2. CASE j # m + 1
      <4>1. j \in 0..m
        BY <3>0, <3>2
      <4>2. g[j] = f[j] /\ (j # 0 => g[j - 1] = f[j - 1])
        BY <3>0, <3>2, <4>1
      <4>3. f[j] = IF j = 0 THEN start ELSE Step(f[j - 1], j)
        BY <2>1, <4>1
      <4> HIDE DEF g
      <4> QED
        BY <4>2, <4>3
    <3> QED
      BY <3>1, <3>2
  <2>3. m + 1 \in Nat
    OBVIOUS
  <2> HIDE DEF g, Good
  <2> QED
    BY <2>2, <2>3
<1>3. P \in SUBSET Nat
  OBVIOUS
<1> HIDE DEF P
<1>4. P = Nat
  BY <1>1, <1>2, <1>3, Induction
<1> DEFINE G(g) == [j \in 0..NumLayers |-> IF j = 0 THEN start ELSE Step(g[j - 1], j)]
<1>5. \E f : f = G(f)
  <2>1. \E f : Good(f, NumLayers)
    BY <1>0, <1>4 DEF P
  <2> QED
    BY <2>1
<1> DEFINE a == CHOOSE g : g = G(g)
<1>6. a = G(a)
  <2> HIDE DEF G
  <2> QED
    BY <1>5
<1>7. RunStack(ws, kvs, req, bad) = FinalNorm(a[NumLayers], req)
  BY DEF RunStack, Step, start
<1> HIDE DEF a
<1>8. a[0] = start /\ \A i \in 1..NumLayers : a[i] = Step(a[i - 1], i)
  BY <1>0, <1>6
<1> QED
  BY <1>7, <1>8 DEF Step, Passes, start

\* A workspace that was never used.
LEMMA NoWorkspaceIs == WellFormed(NoWorkspace)
BY DEF WellFormed, NoWorkspace, IsRows

\* A larger workspace starts stale, and is as well formed.
LEMMA EnsureIs ==
  ASSUME NEW ws, WellFormed(ws), NEW n \in Nat
  PROVE  WellFormed(EnsureCapacity(ws, n)) /\ n <= EnsureCapacity(ws, n).cap
<1>1. ws.cap \in Nat
  BY DEF WellFormed
<1>2. CASE n <= ws.cap
  BY <1>2 DEF EnsureCapacity
<1>3. CASE ~(n <= ws.cap)
  <2>1. PICK f : f = [i \in 1..n |-> Stale]
    OBVIOUS
  <2>2. IsRows(f, n)
    BY <2>1 DEF IsRows
  <2>3. Rows(f) = f
    BY <2>2, RowsIs
  <2>4. EnsureCapacity(ws, n) = [cap |-> n, buf |-> [b \in Buffers |-> f]]
    BY <1>3, <2>1, <2>3 DEF EnsureCapacity
  <2> QED
    BY <2>2, <2>4 DEF WellFormed
<1> QED
  BY <1>2, <1>3

\* The caches before a pass: each member's holds what precedes its ids.
Ready(kvs, req, T, P) ==
  /\ kvs = [s \in Seqs |-> kvs[s]]
  /\ \A b \in 1..Size(req) : LET s == req.caches[b] IN Holds(kvs[s], T[s], P[s])

\* A pass begins with the embeddings.
LEMMA StartAt ==
  ASSUME NEW req, NEW T, NEW P, Lays(req, T, P), NEW ws, WellFormed(ws), NEW kvs, Ready(kvs, req, T, P)
  PROVE  PassAt([ok |-> TRUE, w |-> Embedded(EnsureCapacity(ws, Total(req)), req), kv |-> kvs],
                kvs, req, T, P, 0)
<1>1. PICK n \in Nat : n = Total(req)
  BY TotalIs
<1>2. PICK v : v = EnsureCapacity(ws, n)
  OBVIOUS
<1>3. WellFormed(v) /\ n <= v.cap /\ "x" \in Buffers
  BY <1>2, EnsureIs DEF Buffers
<1>4. PICK f : f = [i \in 1..n |-> Emb(req.tokens[i])]
  OBVIOUS
<1>5. IsRows(f, n) /\ Rows(f) = f
  <2>1. IsRows(f, n)
    BY <1>4 DEF IsRows
  <2> QED
    BY <2>1, RowsIs
<1>6. PICK u : u = Embedded(v, req)
  OBVIOUS
<1>7. Written(u, v, "x", f, n)
  <2>1. u = Put(v, "x", f)
    BY <1>1, <1>4, <1>5, <1>6 DEF Embedded
  <2> QED
    BY <1>3, <1>5, <2>1, PutIs
<1>8. WellFormed(u) /\ n <= u.cap
  BY <1>3, <1>7 DEF Written
<1>9. ASSUME NEW b \in 1..Size(req), NEW i \in 1..Span(req, b), NEW s, s = req.caches[b],
             NEW m, m = req.cu[b] + i
      PROVE  u.buf["x"][m] = Hidden(T[s])[0][P[s] + i]
  <2>1. m \in 1..n
    BY <1>1, <1>9, RowPlace
  <2>2. P[s] + i \in 1..Len(T[s])
    BY <1>9, RowId
  <2>3. req.tokens[m] = T[s][P[s] + i]
    BY <1>9 DEF Lays
  <2>4. Hidden(T[s])[0][P[s] + i] = Emb(T[s][P[s] + i])
    BY <2>2, HiddenRows
  <2> QED
    BY <1>4, <1>7, <2>1, <2>3, <2>4 DEF Written
<1>10. \A l \in Layers : ~(l < 0)
  BY DEF Layers
<1>11. Caches(kvs, kvs, req, T, P, 0)
  BY <1>10 DEF Caches, Ready, Holds, Filled
<1> QED
  BY <1>1, <1>2, <1>6, <1>8, <1>9, <1>11 DEF PassAt

\* A pass that ran: the normalised rows, and the caches with all its ids.
NormedAt(pass, kv0, req, T, P) ==
  /\ pass = [ok |-> TRUE, w |-> pass.w, kv |-> pass.kv]
  /\ WellFormed(pass.w) /\ Total(req) <= pass.w.cap
  /\ \A b \in 1..Size(req) : \A i \in 1..Span(req, b) :
       LET s == req.caches[b]
       IN pass.w.buf["h"][req.cu[b] + i] = Apply("final_norm", -1, Hidden(T[s])[NumLayers][P[s] + i])
  /\ Caches(pass.kv, kv0, req, T, P, NumLayers)

\* Every layer, then the norm.
LEMMA StackAt ==
  ASSUME NEW req, NEW T, NEW P, Lays(req, T, P), NEW ws, WellFormed(ws), NEW kvs, Ready(kvs, req, T, P)
  PROVE  NormedAt(RunStack(ws, kvs, req, 0), kvs, req, T, P)
<1>0. NumLayers \in Nat \ {0}
  BY ModelForwardAssumption
<1>1. PICK a : Passes(a, ws, kvs, req, 0)
  BY RunStackIs
<1> DEFINE S == {n \in Nat : n \in 0..NumLayers => PassAt(a[n], kvs, req, T, P, n)}
<1>2. 0 \in S
  BY <1>1, StartAt DEF Passes
<1>3. ASSUME NEW n \in S PROVE n + 1 \in S
  <2> SUFFICES ASSUME n + 1 \in 0..NumLayers PROVE PassAt(a[n + 1], kvs, req, T, P, n + 1)
    OBVIOUS
  <2>1. n \in Layers /\ n \in 0..NumLayers /\ n + 1 \in 1..NumLayers /\ (n + 1) - 1 = n
    BY <1>0 DEF Layers
  <2>2. PassAt(a[n], kvs, req, T, P, n)
    BY <2>1
  <2>3. a[n + 1] = ForwardLayer(a[n], req, n, 0)
    BY <1>1, <2>1 DEF Passes
  <2> QED
    BY <2>1, <2>2, <2>3, LayerAt
<1>4. S \in SUBSET Nat
  OBVIOUS
<1> HIDE DEF S
<1>5. S = Nat
  BY <1>2, <1>3, <1>4, Induction
<1>6. PICK pass : pass = a[NumLayers]
  OBVIOUS
<1>7. PassAt(pass, kvs, req, T, P, NumLayers)
  BY <1>0, <1>5, <1>6 DEF S
<1>8. PICK k : k = Kernel("final_norm", "x", "x", "h")
  OBVIOUS
<1>9. k.name = "final_norm" /\ k.from = "x" /\ k.with = "x" /\ k.to = "h"
  BY <1>8 DEF Kernel
<1>10. PICK v : v = RunKernel(pass.w, req, -1, k)
  OBVIOUS
<1>11. WellFormed(pass.w) /\ Total(req) <= pass.w.cap /\ Total(req) \in Nat
  BY <1>7, TotalIs DEF PassAt
<1>12. Ran(v, pass.w, req, -1, k)
  BY <1>9, <1>10, <1>11, RunKernelIs DEF Buffers
<1>13. RunStack(ws, kvs, req, 0) = [ok |-> TRUE, w |-> v, kv |-> pass.kv]
  <2>1. RunStack(ws, kvs, req, 0) = FinalNorm(pass, req)
    BY <1>1, <1>6 DEF Passes
  <2>2. pass = [ok |-> TRUE, w |-> pass.w, kv |-> pass.kv]
    BY <1>7 DEF PassAt
  <2> QED
    BY <1>8, <1>10, <2>1, <2>2 DEF FinalNorm
<1>14. ASSUME NEW b \in 1..Size(req), NEW i \in 1..Span(req, b), NEW s, s = req.caches[b],
              NEW m, m = req.cu[b] + i
       PROVE  v.buf["h"][m] = Apply("final_norm", -1, Hidden(T[s])[NumLayers][P[s] + i])
  <2>1. m \in 1..Total(req)
    BY <1>14, RowPlace
  <2>2. pass.w.buf["x"][m] = Hidden(T[s])[NumLayers][P[s] + i]
    BY <1>7, <1>14 DEF PassAt
  <2>3. v.buf["h"][m] = Computed("final_norm", -1, pass.w.buf["x"][m], pass.w.buf["x"][m], req.positions[m])
    BY <1>9, <1>12, <2>1 DEF Ran
  <2> QED
    BY <2>2, <2>3 DEF Computed
<1>15. WellFormed(v) /\ Total(req) <= v.cap
  BY <1>11, <1>12 DEF Ran
<1>16. Caches(pass.kv, kvs, req, T, P, NumLayers)
  BY <1>7 DEF PassAt
<1> QED
  BY <1>13, <1>14, <1>15, <1>16 DEF NormedAt

\* A pass that stopped at member bad: layer 0 of the members before it is extended.
FailedAt(pass, kv0, req, T, P, bad) ==
  /\ pass = [ok |-> FALSE, w |-> pass.w, kv |-> pass.kv]
  /\ WellFormed(pass.w)
  /\ pass.kv = [s \in Seqs |-> pass.kv[s]]
  /\ \A b \in 1..Size(req) :
       LET s == req.caches[b] IN pass.kv[s] = Filled(T[s], Len(T[s]), P[s], IF b < bad THEN 1 ELSE 0)
  /\ \A s \in Seqs : ~Member(req, s) => pass.kv[s] = kv0[s]

\* The layers after a failed append do nothing.
LEMMA StackFails ==
  ASSUME NEW req, NEW T, NEW P, Lays(req, T, P), NEW ws, WellFormed(ws), NEW kvs, Ready(kvs, req, T, P),
         NEW bad \in 1..Size(req)
  PROVE  FailedAt(RunStack(ws, kvs, req, bad), kvs, req, T, P, bad)
<1>0. NumLayers \in Nat \ {0} /\ 0 \in Layers
  BY ModelForwardAssumption DEF Layers
<1>1. PICK a : Passes(a, ws, kvs, req, bad)
  BY RunStackIs
<1>2. PICK start : start = a[0]
  OBVIOUS
<1>3. PassAt(start, kvs, req, T, P, 0)
  BY <1>1, <1>2, StartAt DEF Passes
<1>4. PICK v : v = RunKernels(start.w, req, 0, BeforeAttention)
  OBVIOUS
<1>5. QkvAt(v, req, T, P, 0)
  BY <1>3, <1>4, QkvIs
<1>6. PICK A : A = AppendMembers(kvs, req, 0, v, bad)
  OBVIOUS
<1>7. a[1] = [ok |-> FALSE, w |-> v, kv |-> A]
  <2>1. a[1] = ForwardLayer(start, req, 0, bad)
    <3>1. 1 \in 1..NumLayers /\ 1 - 1 = 0
      BY <1>0
    <3>2. a[1] = ForwardLayer(a[1 - 1], req, 1 - 1, IF 1 = 1 THEN bad ELSE 0)
      BY <1>1, <3>1 DEF Passes
    <3> QED
      BY <1>2, <3>1, <3>2
  <2>2. start.ok /\ start.kv = kvs
    BY <1>1, <1>2 DEF Passes
  <2>3. bad # 0
    BY DEF Lays
  <2>4. BatchedAttention(v, kvs, req, 0, bad) = [ok |-> FALSE, w |-> v, kv |-> A]
    BY <1>6, <2>3 DEF BatchedAttention, Attended
  <2>5. FinishLayer([ok |-> FALSE, w |-> v, kv |-> A], req, 0) = [ok |-> FALSE, w |-> v, kv |-> A]
    BY DEF FinishLayer
  <2> QED
    BY <1>4, <2>1, <2>2, <2>4, <2>5 DEF ForwardLayer
<1> DEFINE S == {n \in Nat : n + 1 \in 1..NumLayers => a[n + 1] = a[1]}
<1>8. 0 \in S
  OBVIOUS
<1>9. ASSUME NEW n \in S PROVE n + 1 \in S
  <2> SUFFICES ASSUME (n + 1) + 1 \in 1..NumLayers PROVE a[(n + 1) + 1] = a[1]
    OBVIOUS
  <2>1. n + 1 \in 1..NumLayers /\ ((n + 1) + 1) - 1 = n + 1 /\ (n + 1) + 1 # 1
    BY <1>0
  <2>2. a[n + 1] = a[1]
    BY <2>1
  <2>3. a[(n + 1) + 1] = ForwardLayer(a[((n + 1) + 1) - 1], req, ((n + 1) + 1) - 1, IF (n + 1) + 1 = 1 THEN bad ELSE 0)
    BY <1>1 DEF Passes
  <2>4. a[(n + 1) + 1] = ForwardLayer(a[1], req, n + 1, 0)
    BY <2>1, <2>2, <2>3
  <2>5. ~a[1].ok
    BY <1>7
  <2> QED
    BY <2>4, <2>5 DEF ForwardLayer
<1>10. S \in SUBSET Nat
  OBVIOUS
<1> HIDE DEF S
<1>11. S = Nat
  BY <1>8, <1>9, <1>10, Induction
<1>12. a[NumLayers] = a[1]
  <2>1. NumLayers - 1 \in S /\ (NumLayers - 1) + 1 = NumLayers /\ NumLayers \in 1..NumLayers
    BY <1>0, <1>11
  <2> QED
    BY <2>1 DEF S
<1>13. RunStack(ws, kvs, req, bad) = [ok |-> FALSE, w |-> v, kv |-> A]
  <2>1. RunStack(ws, kvs, req, bad) = FinalNorm(a[NumLayers], req)
    BY <1>1 DEF Passes
  <2> QED
    BY <1>7, <1>12, <2>1 DEF FinalNorm
<1>14. Appended(A, kvs, req, 0, v, bad)
  BY <1>6, AppendIs
<1>15. ASSUME NEW b \in 1..Size(req), NEW s, s = req.caches[b]
       PROVE  A[s] = Filled(T[s], Len(T[s]), P[s], IF b < bad THEN 1 ELSE 0)
  <2>0. PICK cache : cache = kvs[s]
    OBVIOUS
  <2>1. cache = Filled(T[s], Len(T[s]), P[s], 0)
    <3>1. Caches(kvs, kvs, req, T, P, 0)
      <4>1. start.kv = kvs
        BY <1>1, <1>2 DEF Passes
      <4> QED
        BY <1>3, <4>1 DEF PassAt
    <3> QED
      BY <1>15, <2>0, <3>1 DEF Caches
  <2>2. CASE b < bad
    <3>1. A[s] = Extended(cache, 0, NewRows(req, v, b))
      BY <1>14, <1>15, <2>0, <2>2 DEF Appended
    <3>2. Extended(cache, 0, NewRows(req, v, b)) = Filled(T[s], Len(T[s]), P[s], 0 + 1)
      BY <1>0, <1>5, <1>15, <2>1, MemberAppends
    <3> QED
      BY <2>2, <3>1, <3>2
  <2>3. CASE ~(b < bad)
    <3>1. bad # 0
      BY DEF Lays
    <3>2. A[s] = cache
      BY <1>14, <1>15, <2>0, <2>3, <3>1 DEF Appended
    <3> QED
      BY <2>1, <2>3, <3>2
  <2> QED
    BY <2>2, <2>3
<1>16. WellFormed(v)
  BY <1>5 DEF QkvAt
<1>17. A = [s \in Seqs |-> A[s]] /\ \A s \in Seqs : ~Member(req, s) => A[s] = kvs[s]
  BY <1>14 DEF Appended
<1> QED
  BY <1>13, <1>15, <1>16, <1>17 DEF FailedAt

-----------------------------------------------------------------------------
(* What both backends return.                                                 *)

\* Each member's cache holds all of its ids; the other sequences' are as they were.
AllHeld(kvs, kv0, req, T) ==
  /\ kvs = [s \in Seqs |-> kvs[s]]
  /\ \A b \in 1..Size(req) : LET s == req.caches[b] IN Holds(kvs[s], T[s], Len(T[s]))
  /\ \A s \in Seqs : ~Member(req, s) => kvs[s] = kv0[s]

\* The row of each member's last id.
LastRows(req, T) == [b \in 1..Size(req) |-> LogitRow(T[req.caches[b]], Len(T[req.caches[b]]))]

\* The row of every id.
EveryRow(req, T, P) ==
  [m \in 1..Total(req) |->
     LET b == MemberOf(req, m)
         s == req.caches[b]
     IN LogitRow(T[s], P[s] + (m - req.cu[b]))]

\* A forward that ran.
Answered(res, kv0, req, T, P) ==
  /\ res.ok /\ AllHeld(res.kv, kv0, req, T)
  /\ res.logits = LastRows(req, T) /\ res.all = EveryRow(req, T, P)

\* The logits' rows of a pass, and of the requests that gather the last ones.
LEMMA ProjectedIs ==
  ASSUME NEW req, NEW T, NEW P, Lays(req, T, P), req.batched \in BOOLEAN,
         NEW pass, NEW kv0, NormedAt(pass, kv0, req, T, P)
  PROVE  /\ WellFormed(LogitsOf(pass, req).w)
         /\ Answered(LogitsOf(pass, req), kv0, req, T, P)
<1>0. PICK n \in Nat : n = Size(req) /\ n # 0
  BY DEF Lays
<1>1. PICK ws : ws = pass.w
  OBVIOUS
<1>2. WellFormed(ws) /\ Total(req) <= ws.cap /\ Total(req) \in Nat /\ ws.cap \in Nat
  BY <1>1, TotalIs DEF NormedAt, WellFormed
<1>3. ASSUME NEW b \in 1..n, NEW i \in 1..Span(req, b), NEW s, s = req.caches[b]
      PROVE  LmHead(ws.buf["h"][req.cu[b] + i]) = LogitRow(T[s], P[s] + i)
  BY <1>0, <1>1, <1>3 DEF NormedAt, LogitRow
<1>4. ASSUME NEW b \in 1..n, NEW s, s = req.caches[b]
      PROVE  LmHead(LastRow(ws, req, b)) = LogitRow(T[s], Len(T[s]))
  <2>1. PICK k \in Nat : k = Span(req, b) /\ k \in 1..Span(req, b)
    <3>1. Span(req, b) \in Nat \ {0}
      BY <1>0, SpanType
    <3> QED
      BY <3>1
  <2>2. req.cu[b + 1] = req.cu[b] + k /\ Len(T[s]) = P[s] + k
    <3>1. req.cu[b + 1] = req.cu[b] + Span(req, b)
      BY <1>0, <2>1, RowPlace
    <3>2. Len(T[s]) = P[s] + Span(req, b)
      BY <1>0, <1>4 DEF Lays
    <3> QED
      BY <2>1, <3>1, <3>2
  <2>3. LmHead(ws.buf["h"][req.cu[b] + k]) = LogitRow(T[s], P[s] + k)
    BY <1>3, <1>4, <2>1
  <2> QED
    BY <2>2, <2>3 DEF LastRow
<1>5. PICK last : last = [b \in 1..n |-> LastRow(ws, req, b)]
  OBVIOUS
<1>6. IsRows(last, n) /\ Rows(last) = last
  <2>1. IsRows(last, n)
    BY <1>5 DEF IsRows
  <2> QED
    BY <2>1, RowsIs
<1>7. n <= Total(req)
  <2>1. \A a \in 1..(n + 1) : req.cu[a] \in Nat
    BY <1>0 DEF Lays
  <2>2. \A a \in 1..n : req.cu[a] < req.cu[a + 1]
    BY <1>0 DEF Lays
  <2>3. req.cu[1] = 0 /\ Total(req) = req.cu[n + 1]
    <3>1. req.cu[1] = 0
      BY DEF Lays
    <3>2. Total(req) = req.cu[Size(req) + 1]
      BY TotalIs
    <3> QED
      BY <1>0, <3>1, <3>2
  <2>4. 1 \in 1..(n + 1) /\ 1 + n <= n + 1 /\ 1 + n = n + 1
    BY <1>0
  <2>5. req.cu[1] + n <= req.cu[1 + n]
    BY <2>1, <2>2, <2>4, Ascending
  <2> QED
    BY <2>3, <2>4, <2>5
<1>8. PICK u : u = Gathered(ws, req)
  OBVIOUS
<1>9. /\ WellFormed(u) /\ u.buf["h"] = ws.buf["h"]
      /\ req.batched => \A b \in 1..n : u.buf["tmp"][b] = LastRow(ws, req, b)
  <2>1. CASE req.batched
    <3>1. u = Put(ws, "tmp", last)
      BY <1>0, <1>5, <1>6, <1>8, <2>1 DEF Gathered, Size
    <3>2. n <= ws.cap /\ "tmp" \in Buffers /\ "h" \in Buffers \ {"tmp"}
      BY <1>2, <1>7 DEF Buffers
    <3>3. Written(Put(ws, "tmp", last), ws, "tmp", last, n)
      BY <1>2, <1>6, <3>2, PutIs
    <3> QED
      BY <1>5, <3>1, <3>2, <3>3 DEF Written
  <2>2. CASE ~req.batched
    BY <1>2, <1>8, <2>2 DEF Gathered
  <2> QED
    BY <2>1, <2>2
<1>10. PICK lg : lg = [b \in 1..n |-> LmHead(IF req.batched THEN u.buf["tmp"][b] ELSE LastRow(u, req, b))]
  OBVIOUS
<1>11. Rows(lg) = lg /\ lg = LastRows(req, T)
  <2>1. IsRows(lg, n)
    BY <1>10 DEF IsRows
  <2>2. Rows(lg) = lg
    BY <2>1, RowsIs
  <2>3. ASSUME NEW b \in 1..n
        PROVE  lg[b] = LogitRow(T[req.caches[b]], Len(T[req.caches[b]]))
    <3>1. LastRow(u, req, b) = LastRow(ws, req, b)
      BY <1>9 DEF LastRow
    <3>2. LmHead(LastRow(ws, req, b)) = LogitRow(T[req.caches[b]], Len(T[req.caches[b]]))
      BY <1>4
    <3> QED
      BY <1>9, <1>10, <3>1, <3>2
  <2>4. PICK L : L = LastRows(req, T)
    OBVIOUS
  <2>5. IsRows(L, n) /\ \A b \in 1..n : L[b] = LogitRow(T[req.caches[b]], Len(T[req.caches[b]]))
    BY <1>0, <2>4 DEF IsRows, LastRows
  <2>6. \A b \in 1..n : lg[b] = L[b]
    BY <2>3, <2>5
  <2>7. lg = L
    BY <2>1, <2>5, <2>6, SameRows
  <2> QED
    BY <2>2, <2>4, <2>7
<1>12. PICK al : al = [m \in 1..Total(req) |-> LmHead(u.buf["h"][m])]
  OBVIOUS
<1>13. Rows(al) = al /\ al = EveryRow(req, T, P)
  <2>1. IsRows(al, Total(req))
    BY <1>12 DEF IsRows
  <2>2. Rows(al) = al
    BY <1>2, <2>1, RowsIs
  <2>3. PICK E : E = EveryRow(req, T, P)
    OBVIOUS
  <2>4. IsRows(E, Total(req))
    BY <2>3 DEF IsRows, EveryRow
  <2>5. ASSUME NEW m \in 1..Total(req) PROVE al[m] = E[m]
    <3>1. PICK b \in 1..Size(req) : \E i \in 1..Span(req, b) : m = req.cu[b] + i
      BY RowOf
    <3>2. PICK i \in 1..Span(req, b) : m = req.cu[b] + i
      BY <3>1
    <3>3. MemberOf(req, m) = b
      BY <3>2, MemberIs
    <3>4. m - req.cu[b] = i
      BY <3>2, RowPlace
    <3>5. E[m] = LogitRow(T[req.caches[b]], P[req.caches[b]] + i)
      BY <2>3, <3>3, <3>4 DEF EveryRow
    <3>6. LmHead(ws.buf["h"][m]) = LogitRow(T[req.caches[b]], P[req.caches[b]] + i)
      BY <1>0, <1>3, <3>2
    <3> QED
      BY <1>9, <1>12, <3>5, <3>6
  <2>6. al = E
    BY <1>2, <2>1, <2>4, <2>5, SameRows
  <2> QED
    BY <2>2, <2>3, <2>6
<1>14. PICK res : res = LogitsOf(pass, req)
  OBVIOUS
<1>15. res = [ok |-> TRUE, w |-> u, kv |-> pass.kv, logits |-> lg, all |-> al]
  <2>1. pass.ok
    BY DEF NormedAt
  <2>2. Len(req.caches) = n
    BY <1>0 DEF Size
  <2> QED
    BY <1>1, <1>8, <1>10, <1>11, <1>12, <1>13, <1>14, <2>1, <2>2 DEF LogitsOf, Projected
<1>16. AllHeld(pass.kv, kv0, req, T)
  <2>1. \A l \in Layers : l < NumLayers
    BY ModelForwardAssumption DEF Layers
  <2>2. Caches(pass.kv, kv0, req, T, P, NumLayers)
    BY DEF NormedAt
  <2> QED
    BY <2>1, <2>2 DEF AllHeld, Caches, Holds, Filled
<1> QED
  BY <1>9, <1>11, <1>13, <1>14, <1>15, <1>16 DEF Answered

\* Member by member.
RunsAre(runs, req, T, P, n) ==
  /\ IsRows(runs, n)
  /\ \A b \in 1..n : LET s == req.caches[b] IN runs[b] = RefRun(T[s], P[s], Span(req, b))

\* The members' forwards, up to the n-th.
LEMMA RefRunsIs ==
  ASSUME NEW req, NEW T, NEW P, Lays(req, T, P), NEW kvs, Ready(kvs, req, T, P),
         NEW n \in Nat, n <= Size(req)
  PROVE  RunsAre(RefRuns(kvs, req, n), req, T, P, n)
<1> DEFINE Run(b) == RefForward(SubSeq(req.tokens, req.cu[b] + 1, req.cu[b + 1]),
                                SubSeq(req.positions, req.cu[b] + 1, req.cu[b + 1]), kvs[req.caches[b]])
<1>1. ASSUME NEW b \in 1..n, NEW s, s = req.caches[b] PROVE Run(b) = RefRun(T[s], P[s], Span(req, b))
  <2>0. b \in 1..Size(req)
    BY DEF Lays
  <2>1. PICK q \in Nat : q = Span(req, b) /\ q # 0
    BY <2>0, SpanType
  <2>2. PICK p \in Nat : p = P[s]
    BY <1>1, <2>0 DEF Lays
  <2>3. Len(T[s]) = p + q
    BY <1>1, <2>0, <2>1, <2>2 DEF Lays
  <2>4. PICK x \in Nat : x = req.cu[b]
    <3>1. 1 \in 1..Span(req, b)
      BY <2>1
    <3> QED
      BY <2>0, <3>1, RowPlace
  <2>5. PICK total \in Nat : total = req.cu[Size(req) + 1] /\ total = Total(req)
    BY TotalIs
  <2>6. req.cu[b + 1] = x + q /\ x + q <= total
    <3>1. q \in 1..Span(req, b)
      BY <2>1
    <3>2. req.cu[b + 1] = req.cu[b] + Span(req, b) /\ req.cu[b] + q \in 1..Total(req)
      BY <2>0, <3>1, RowPlace
    <3> QED
      BY <2>1, <2>4, <2>5, <3>2
  <2>7. PICK toks : toks = SubSeq(req.tokens, x + 1, x + q)
    OBVIOUS
  <2>8. PICK poss : poss = SubSeq(req.positions, x + 1, x + q)
    OBVIOUS
  <2>9. IsRows(req.tokens, total) /\ IsRows(req.positions, total)
    BY <2>5 DEF Lays
  <2>10. x + q \in Nat /\ x <= x + q /\ (x + q) - x = q
    OBVIOUS
  <2>11. IsRows(toks, q) /\ \A i \in 1..q : toks[i] = req.tokens[x + i]
    <3>1. /\ IsRows(SubSeq(req.tokens, x + 1, x + q), (x + q) - x)
          /\ \A i \in 1..((x + q) - x) : SubSeq(req.tokens, x + 1, x + q)[i] = req.tokens[x + i]
      BY <2>6, <2>9, <2>10, CutRows
    <3> QED
      BY <2>7, <2>10, <3>1
  <2>12. IsRows(poss, q) /\ \A i \in 1..q : poss[i] = req.positions[x + i]
    <3>1. /\ IsRows(SubSeq(req.positions, x + 1, x + q), (x + q) - x)
          /\ \A i \in 1..((x + q) - x) : SubSeq(req.positions, x + 1, x + q)[i] = req.positions[x + i]
      BY <2>6, <2>9, <2>10, CutRows
    <3> QED
      BY <2>8, <2>10, <3>1
  <2>13. \A i \in 1..q : toks[i] = T[s][p + i]
    BY <1>1, <2>0, <2>1, <2>2, <2>4, <2>11 DEF Lays
  <2>14. Continues(poss, p, q)
    BY <1>1, <2>0, <2>1, <2>2, <2>4, <2>12 DEF Lays, Continues
  <2>15. Holds(kvs[s], T[s], p)
    BY <1>1, <2>0, <2>2 DEF Ready
  <2>16. PICK t : t = T[s]
    OBVIOUS
  <2>17. RefForward(toks, poss, kvs[s]) = RefRun(t, p, q)
    <3>1. Feeds(toks, t, p, q)
      BY <2>11, <2>13, <2>16 DEF Feeds
    <3>2. Len(t) = p + q /\ Holds(kvs[s], t, p)
      BY <2>3, <2>15, <2>16
    <3> QED
      BY <2>14, <3>1, <3>2, RefForwardIs
  <2> QED
    BY <1>1, <2>1, <2>2, <2>4, <2>6, <2>7, <2>8, <2>16, <2>17
<1>2. PICK f : f = [b \in 1..n |-> Run(b)]
  OBVIOUS
<1>3. RefRuns(kvs, req, n) = f
  <2>1. IsRows(f, n)
    BY <1>2 DEF IsRows
  <2>2. Rows(f) = f
    BY <2>1, RowsIs
  <2> QED
    BY <1>2, <2>2 DEF RefRuns
<1> HIDE DEF Run
<1> QED
  BY <1>1, <1>2, <1>3 DEF RunsAre, IsRows

\* The caches after the forwards of the members before n + 1.
HeldTo(kvs, kv0, req, T, n) ==
  /\ kvs = [s \in Seqs |-> kvs[s]]
  /\ \A b \in 1..Size(req) :
       LET s == req.caches[b] IN IF b <= n THEN Holds(kvs[s], T[s], Len(T[s])) ELSE kvs[s] = kv0[s]
  /\ \A s \in Seqs : ~Member(req, s) => kvs[s] = kv0[s]

\* They are those of the members that ran.
LEMMA RefCachesIs ==
  ASSUME NEW req, NEW T, NEW P, Lays(req, T, P), NEW kvs,
         NEW n \in Nat, n <= Size(req), NEW runs, RunsAre(runs, req, T, P, n)
  PROVE  HeldTo(RefCaches(kvs, req, runs), kvs, req, T, n)
<1> DEFINE ran(s) == \E b \in 1..n : req.caches[b] = s
           at(s) == CHOOSE b \in 1..n : req.caches[b] = s
<1>1. PICK C : C = RefCaches(kvs, req, runs)
  OBVIOUS
<1>2. DOMAIN runs = 1..n
  BY RowsIs DEF RunsAre
<1>3. C = [s \in Seqs |-> IF ran(s) THEN runs[at(s)].cache ELSE kvs[s]]
  BY <1>1, <1>2 DEF RefCaches
<1>4. ASSUME NEW b \in 1..Size(req), NEW s, s = req.caches[b]
      PROVE  IF b <= n THEN Holds(C[s], T[s], Len(T[s])) ELSE C[s] = kvs[s]
  <2>1. s \in Seqs
    BY <1>4 DEF Lays, Size
  <2>2. \A a \in 1..n : req.caches[a] = s => a = b
    <3>1. \A a, c \in 1..Size(req) : req.caches[a] = req.caches[c] => a = c
      BY Zenon DEF Lays
    <3>2. 1..n \subseteq 1..Size(req)
      <4>1. Size(req) \in Nat
        BY DEF Lays
      <4> QED
        BY <4>1
    <3> QED
      BY <1>4, <3>1, <3>2, Zenon
  <2>3. CASE b <= n
    <3>1. b \in 1..n
      BY <2>3
    <3>2. ran(s) /\ at(s) = b
      BY <1>4, <2>2, <3>1
    <3>3. C[s] = runs[b].cache
      BY <1>3, <2>1, <3>2
    <3>4. runs[b] = RefRun(T[s], P[s], Span(req, b))
      BY <1>4, <3>1 DEF RunsAre
    <3>5. Len(T[s]) = P[s] + Span(req, b)
      BY <1>4 DEF Lays
    <3> QED
      BY <2>3, <3>3, <3>4, <3>5 DEF RefRun, Holds
  <2>4. CASE ~(b <= n)
    <3>1. ~ran(s)
      BY <2>2, <2>4
    <3> QED
      BY <1>3, <2>1, <2>4, <3>1
  <2> QED
    BY <2>3, <2>4
<1>5. ASSUME NEW s \in Seqs, ~Member(req, s) PROVE C[s] = kvs[s]
  <2>1. \A b \in 1..n : b \in 1..Size(req)
    BY DEF Lays
  <2>2. ~ran(s)
    BY <1>5, <2>1 DEF Member
  <2> QED
    BY <1>3, <2>2
<1>6. C = [s \in Seqs |-> C[s]]
  <2> HIDE DEF ran, at
  <2> QED
    BY <1>3
<1> QED
  BY <1>1, <1>4, <1>5, <1>6 DEF HeldTo

\* A cache is determined by what it holds.
LEMMA SameHeld ==
  ASSUME NEW req, NEW T, NEW P, Lays(req, T, P), NEW kvs, Ready(kvs, req, T, P),
         NEW rkvs, Ready(rkvs, req, T, P)
  PROVE  ValidateBatched(req, kvs) <=> ValidateBatched(req, rkvs)
<1>1. ASSUME NEW b \in 1..Len(req.caches) PROVE kvs[req.caches[b]] = rkvs[req.caches[b]]
  <2>1. PICK s : s = req.caches[b]
    OBVIOUS
  <2>2. Holds(kvs[s], T[s], P[s]) /\ Holds(rkvs[s], T[s], P[s])
    BY <2>1 DEF Ready, Size
  <2> QED
    BY <2>1, <2>2 DEF Holds
<1> QED
  BY <1>1 DEF ValidateBatched

\* The optimized model's forward, when no append fails.
LEMMA ForwardIs ==
  ASSUME NEW req, NEW T, NEW P, Lays(req, T, P), req.batched \in BOOLEAN,
         NEW ws, WellFormed(ws), NEW kvs, Ready(kvs, req, T, P)
  PROVE  /\ WellFormed(Forward(ws, kvs, req, 0).w)
         /\ ValidateBatched(req, kvs) => Answered(Forward(ws, kvs, req, 0), kvs, req, T, P)
         /\ ~ValidateBatched(req, kvs) => Forward(ws, kvs, req, 0) = Refused(ws, kvs)
<1>1. CASE ValidateBatched(req, kvs)
  <2>1. PICK pass : pass = RunStack(ws, kvs, req, 0)
    OBVIOUS
  <2>2. NormedAt(pass, kvs, req, T, P)
    BY <2>1, StackAt
  <2>3. Forward(ws, kvs, req, 0) = LogitsOf(pass, req)
    BY <1>1, <2>1 DEF Forward
  <2> QED
    BY <1>1, <2>2, <2>3, ProjectedIs
<1>2. CASE ~ValidateBatched(req, kvs)
  BY <1>2 DEF Forward, Refused
<1> QED
  BY <1>1, <1>2

\* The caches of a pass that stopped at member bad.
CutShort(kvs, kv0, req, T, P, bad) ==
  /\ kvs = [s \in Seqs |-> kvs[s]]
  /\ \A b \in 1..Size(req) :
       LET s == req.caches[b] IN kvs[s] = Filled(T[s], Len(T[s]), P[s], IF b < bad THEN 1 ELSE 0)
  /\ \A s \in Seqs : ~Member(req, s) => kvs[s] = kv0[s]

\* The optimized model's forward, when the append of member bad fails.
LEMMA ForwardFails ==
  ASSUME NEW req, NEW T, NEW P, Lays(req, T, P),
         NEW ws, WellFormed(ws), NEW kvs, Ready(kvs, req, T, P), NEW bad \in 1..Size(req)
  PROVE  /\ WellFormed(Forward(ws, kvs, req, bad).w)
         /\ ValidateBatched(req, kvs) => CutShort(Forward(ws, kvs, req, bad).kv, kvs, req, T, P, bad)
         /\ ~ValidateBatched(req, kvs) => Forward(ws, kvs, req, bad).kv = kvs
<1>1. CASE ValidateBatched(req, kvs)
  <2>1. PICK pass : pass = RunStack(ws, kvs, req, bad)
    OBVIOUS
  <2>2. FailedAt(pass, kvs, req, T, P, bad)
    BY <2>1, StackFails
  <2>3. ~pass.ok
    BY <2>2 DEF FailedAt
  <2>4. Forward(ws, kvs, req, bad) = Refused(pass.w, pass.kv)
    BY <1>1, <2>1, <2>3 DEF Forward, LogitsOf
  <2>5. CutShort(pass.kv, kvs, req, T, P, bad) /\ WellFormed(pass.w)
    BY <2>2 DEF FailedAt, CutShort
  <2> QED
    BY <1>1, <2>4, <2>5 DEF Refused
<1>2. CASE ~ValidateBatched(req, kvs)
  BY <1>2 DEF Forward, Refused
<1> QED
  BY <1>1, <1>2

\* The reference model's forward, when every member's runs.
LEMMA RefForwardBatchedIs ==
  ASSUME NEW req, NEW T, NEW P, Lays(req, T, P), NEW kvs, Ready(kvs, req, T, P)
  PROVE  /\ ValidateBatched(req, kvs) => Answered(RefForwardBatched(kvs, req, 0), kvs, req, T, P)
         /\ ~ValidateBatched(req, kvs) =>
              RefForwardBatched(kvs, req, 0) = [ok |-> FALSE, kv |-> kvs, logits |-> <<>>, all |-> <<>>]
<1>1. CASE ~ValidateBatched(req, kvs)
  BY <1>1 DEF RefForwardBatched
<1>2. CASE ValidateBatched(req, kvs)
  <2>0. PICK n \in Nat : n = Size(req)
    BY DEF Lays
  <2>1. PICK runs : runs = RefRuns(kvs, req, n)
    OBVIOUS
  <2>2. RunsAre(runs, req, T, P, n)
    BY <2>0, <2>1, RefRunsIs
  <2>3. IsRows(runs, n) /\ DOMAIN runs = 1..n /\ Len(runs) = n
    BY <2>2, RowsIs DEF RunsAre
  <2>4. PICK C : C = RefCaches(kvs, req, runs)
    OBVIOUS
  <2>5. AllHeld(C, kvs, req, T)
    <3>1. HeldTo(C, kvs, req, T, n)
      BY <2>0, <2>2, <2>4, RefCachesIs
    <3>2. \A b \in 1..Size(req) : b <= n
      BY <2>0
    <3> QED
      BY <3>1, <3>2 DEF HeldTo, AllHeld
  <2>6. ASSUME NEW b \in 1..n, NEW s, s = req.caches[b]
        PROVE  /\ Last(runs[b].all) = LogitRow(T[s], Len(T[s]))
               /\ \A i \in 1..Span(req, b) : runs[b].all[i] = LogitRow(T[s], P[s] + i)
    <3>1. PICK q \in Nat : q = Span(req, b) /\ q # 0
      BY <2>0, SpanType
    <3>2. runs[b] = RefRun(T[s], P[s], q)
      BY <2>2, <2>6, <3>1 DEF RunsAre
    <3>3. PICK a : a = runs[b].all
      OBVIOUS
    <3>4. a = [i \in 1..q |-> LogitRow(T[s], P[s] + i)]
      BY <3>2, <3>3 DEF RefRun
    <3>5. Len(a) = q
      <4>1. IsRows(a, q)
        BY <3>4 DEF IsRows
      <4> QED
        BY <4>1, RowsIs
    <3>6. Len(T[s]) = P[s] + q
      BY <2>0, <2>6, <3>1 DEF Lays
    <3>7. Last(a) = LogitRow(T[s], Len(T[s]))
      BY <3>1, <3>4, <3>5, <3>6 DEF Last
    <3> QED
      BY <3>1, <3>3, <3>4, <3>7
  <2>7. PICK lg : lg = [b \in 1..n |-> Last(runs[b].all)]
    OBVIOUS
  <2>8. Rows(lg) = LastRows(req, T)
    <3>1. IsRows(lg, n)
      BY <2>7 DEF IsRows
    <3>2. PICK L : L = LastRows(req, T)
      OBVIOUS
    <3>3. IsRows(L, n) /\ \A b \in 1..n : L[b] = LogitRow(T[req.caches[b]], Len(T[req.caches[b]]))
      BY <2>0, <3>2 DEF IsRows, LastRows
    <3>4. \A b \in 1..n : lg[b] = L[b]
      BY <2>6, <2>7, <3>3
    <3>5. lg = L
      BY <3>1, <3>3, <3>4, SameRows
    <3> QED
      BY <3>1, <3>2, <3>5, RowsIs
  <2>9. PICK al : al = [m \in 1..Total(req) |-> LET b == MemberOf(req, m) IN runs[b].all[m - req.cu[b]]]
    OBVIOUS
  <2>10. Rows(al) = EveryRow(req, T, P)
    <3>0. Total(req) \in Nat
      BY TotalIs
    <3>1. IsRows(al, Total(req))
      BY <2>9 DEF IsRows
    <3>2. PICK E : E = EveryRow(req, T, P)
      OBVIOUS
    <3>3. IsRows(E, Total(req))
      BY <3>2 DEF IsRows, EveryRow
    <3>4. ASSUME NEW m \in 1..Total(req) PROVE al[m] = E[m]
      <4>1. PICK b \in 1..Size(req) : \E i \in 1..Span(req, b) : m = req.cu[b] + i
        BY RowOf
      <4>2. PICK i \in 1..Span(req, b) : m = req.cu[b] + i
        BY <4>1
      <4>3. MemberOf(req, m) = b
        BY <4>2, MemberIs
      <4>4. m - req.cu[b] = i
        BY <4>2, RowPlace
      <4>5. E[m] = LogitRow(T[req.caches[b]], P[req.caches[b]] + i)
        BY <3>2, <4>3, <4>4 DEF EveryRow
      <4>6. al[m] = runs[b].all[i]
        BY <2>9, <4>3, <4>4
      <4> QED
        BY <2>0, <2>6, <4>5, <4>6
    <3>5. al = E
      BY <3>0, <3>1, <3>3, <3>4, SameRows
    <3> QED
      BY <3>0, <3>1, <3>2, <3>5, RowsIs
  <2>11. RefForwardBatched(kvs, req, 0) = RefCopied(kvs, req, runs)
    BY <1>2, <2>0, <2>1 DEF RefForwardBatched, Size
  <2>12. ~(Len(runs) < Len(req.caches))
    BY <2>0, <2>3 DEF Size
  <2>13. RefCopied(kvs, req, runs) = [ok |-> TRUE, kv |-> C, logits |-> Rows(lg), all |-> Rows(al)]
    BY <2>3, <2>4, <2>7, <2>9, <2>12 DEF RefCopied
  <2> QED
    BY <1>2, <2>5, <2>8, <2>10, <2>11, <2>13 DEF Answered
<1> QED
  BY <1>1, <1>2

\* The reference model's forward, when that of member bad fails.
LEMMA RefForwardBatchedFails ==
  ASSUME NEW req, NEW T, NEW P, Lays(req, T, P), NEW kvs, Ready(kvs, req, T, P), NEW bad \in 1..Size(req)
  PROVE  /\ ValidateBatched(req, kvs) => HeldTo(RefForwardBatched(kvs, req, bad).kv, kvs, req, T, bad - 1)
         /\ ~ValidateBatched(req, kvs) => RefForwardBatched(kvs, req, bad).kv = kvs
<1>1. CASE ~ValidateBatched(req, kvs)
  BY <1>1 DEF RefForwardBatched
<1>2. CASE ValidateBatched(req, kvs)
  <2>0. Size(req) \in Nat
    BY DEF Lays
  <2>1. PICK n \in Nat : n = bad - 1 /\ n < Size(req) /\ bad # 0
    BY <2>0
  <2>2. PICK runs : runs = RefRuns(kvs, req, n)
    OBVIOUS
  <2>3. RunsAre(runs, req, T, P, n)
    BY <2>0, <2>1, <2>2, RefRunsIs
  <2>4. Len(runs) < Len(req.caches)
    <3>1. Len(runs) = n
      BY <2>3, RowsIs DEF RunsAre
    <3> QED
      BY <2>1, <3>1 DEF Size
  <2>5. RefForwardBatched(kvs, req, bad) = RefCopied(kvs, req, runs)
    BY <1>2, <2>1, <2>2 DEF RefForwardBatched
  <2>6. RefForwardBatched(kvs, req, bad).kv = RefCaches(kvs, req, runs)
    BY <2>4, <2>5 DEF RefCopied
  <2>7. HeldTo(RefCaches(kvs, req, runs), kvs, req, T, n)
    BY <2>0, <2>1, <2>3, RefCachesIs
  <2> QED
    BY <1>2, <2>1, <2>6, <2>7
<1> QED
  BY <1>1, <1>2
-----------------------------------------------------------------------------
(* BatchAssembler::Flatten.                                                   *)

\* g joins the first rows of ss.
Joins(g, ss, n) ==
  /\ FlattenSeq(ss) = g[n] /\ g[1] = ss[1]
  /\ \A i \in 1..n : i # 1 => g[i] = g[i - 1] \o ss[i]

\* There is such a function.
LEMMA JoinsExist ==
  ASSUME NEW n \in Nat \ {0}, NEW ss, Len(ss) = n
  PROVE  \E g : Joins(g, ss, n)
<1> DEFINE Step(x, j) == IF j = 1 THEN ss[j] ELSE x[j - 1] \o ss[j]
           Good(f, m) == f = [j \in 1..m |-> Step(f, j)]
           P == {m \in Nat : \E f : Good(f, m)}
<1>1. 0 \in P
  <2> DEFINE f == [j \in 1..0 |-> ss[1]]
  <2>1. Good(f, 0)
    OBVIOUS
  <2> QED
    BY <2>1
<1>2. ASSUME NEW m \in P PROVE m + 1 \in P
  <2>1. PICK f : Good(f, m)
    OBVIOUS
  <2> DEFINE g == [j \in 1..(m + 1) |-> IF j = m + 1 THEN Step(f, m + 1) ELSE f[j]]
  <2>2. Good(g, m + 1)
    <3>0. m \in Nat
      OBVIOUS
    <3> SUFFICES ASSUME NEW j \in 1..(m + 1) PROVE g[j] = Step(g, j)
      OBVIOUS
    <3>1. CASE j = m + 1
      <4>1. g[j] = Step(f, m + 1) /\ (j # 1 => g[j - 1] = f[j - 1])
        BY <3>0, <3>1
      <4> HIDE DEF g
      <4> QED
        BY <3>1, <4>1
    <3>2. CASE j # m + 1
      <4>1. j \in 1..m
        BY <3>0, <3>2
      <4>2. g[j] = f[j] /\ (j # 1 => g[j - 1] = f[j - 1])
        BY <3>0, <3>2, <4>1
      <4>3. f[j] = Step(f, j)
        BY <2>1, <4>1
      <4> HIDE DEF g
      <4> QED
        BY <4>2, <4>3
    <3> QED
      BY <3>1, <3>2
  <2>3. m + 1 \in Nat
    OBVIOUS
  <2> HIDE DEF g, Good
  <2> QED
    BY <2>2, <2>3
<1>3. P \in SUBSET Nat
  OBVIOUS
<1> HIDE DEF P
<1>4. P = Nat
  BY <1>1, <1>2, <1>3, Induction
<1> DEFINE G(g) == [j \in 1..n |-> Step(g, j)]
<1>5. \E f : f = G(f)
  <2>1. \E f : Good(f, n)
    BY <1>4 DEF P
  <2> QED
    BY <2>1
<1> DEFINE a == CHOOSE g : g = G(g)
<1>6. a = G(a)
  <2> HIDE DEF G
  <2> QED
    BY <1>5
<1>7. FlattenSeq(ss) = a[n]
  BY DEF FlattenSeq
<1> HIDE DEF a
<1>8. \A i \in 1..n : a[i] = Step(a, i)
  <2> HIDE DEF Step
  <2> QED
    BY <1>6
<1>9. a[1] = ss[1]
  <2>1. 1 \in 1..n
    OBVIOUS
  <2> QED
    BY <1>8, <2>1, Zenon
<1>10. \A i \in 1..n : i # 1 => a[i] = a[i - 1] \o ss[i]
  BY <1>8, Zenon
<1> QED
  BY <1>7, <1>9, <1>10 DEF Joins

\* c is the running sums of lens, from 0.
SumsOf(c, lens, n) ==
  /\ IsRows(c, n + 1) /\ c[1] = 0
  /\ \A b \in 1..(n + 1) : c[b] \in Nat
  /\ \A b \in 1..n : c[b + 1] = c[b] + lens[b]

\* PrefixSums is.
LEMMA PrefixSumsIs ==
  ASSUME NEW n \in Nat, NEW lens, Len(lens) = n, \A b \in 1..n : lens[b] \in Nat
  PROVE  SumsOf(PrefixSums(lens), lens, n)
<1> DEFINE Step(x, j) == IF j = 1 THEN 0 ELSE x[j - 1] + lens[j - 1]
           Good(f, m) == f = [j \in 1..m |-> Step(f, j)]
           P == {m \in Nat : \E f : Good(f, m)}
<1>1. 0 \in P
  <2> DEFINE f == [j \in 1..0 |-> 0]
  <2>1. Good(f, 0)
    OBVIOUS
  <2> QED
    BY <2>1
<1>2. ASSUME NEW m \in P PROVE m + 1 \in P
  <2>1. PICK f : Good(f, m)
    OBVIOUS
  <2> DEFINE g == [j \in 1..(m + 1) |-> IF j = m + 1 THEN Step(f, m + 1) ELSE f[j]]
  <2>2. Good(g, m + 1)
    <3>0. m \in Nat
      OBVIOUS
    <3> SUFFICES ASSUME NEW j \in 1..(m + 1) PROVE g[j] = Step(g, j)
      OBVIOUS
    <3>1. CASE j = m + 1
      <4>1. g[j] = Step(f, m + 1) /\ (j # 1 => g[j - 1] = f[j - 1])
        BY <3>0, <3>1
      <4> HIDE DEF g
      <4> QED
        BY <3>1, <4>1
    <3>2. CASE j # m + 1
      <4>1. j \in 1..m
        BY <3>0, <3>2
      <4>2. g[j] = f[j] /\ (j # 1 => g[j - 1] = f[j - 1])
        BY <3>0, <3>2, <4>1
      <4>3. f[j] = Step(f, j)
        BY <2>1, <4>1
      <4> HIDE DEF g
      <4> QED
        BY <4>2, <4>3
    <3> QED
      BY <3>1, <3>2
  <2>3. m + 1 \in Nat
    OBVIOUS
  <2> HIDE DEF g, Good
  <2> QED
    BY <2>2, <2>3
<1>3. P \in SUBSET Nat
  OBVIOUS
<1> HIDE DEF P
<1>4. P = Nat
  BY <1>1, <1>2, <1>3, Induction
<1> DEFINE G(g) == [j \in 1..(n + 1) |-> Step(g, j)]
<1>5. \E f : f = G(f)
  <2>1. n + 1 \in P
    BY <1>4
  <2>2. \E f : Good(f, n + 1)
    BY <2>1 DEF P
  <2> QED
    BY <2>2
<1> DEFINE a == CHOOSE g : g = G(g)
<1>6. a = G(a)
  <2> HIDE DEF G
  <2> QED
    BY <1>5
<1>7. PrefixSums(lens) = Rows(a)
  BY DEF PrefixSums
<1> HIDE DEF a
<1>8. IsRows(a, n + 1)
  BY <1>6 DEF IsRows
<1>9. Rows(a) = a
  <2>1. n + 1 \in Nat
    OBVIOUS
  <2> QED
    BY <1>8, <2>1, RowsIs
<1>10. a[1] = 0
  BY <1>6
<1>11. \A b \in 1..n : a[b + 1] = a[b] + lens[b]
  <2> SUFFICES ASSUME NEW b \in 1..n PROVE a[b + 1] = a[b] + lens[b]
    OBVIOUS
  <2>1. b + 1 \in 1..(n + 1) /\ b + 1 # 1 /\ (b + 1) - 1 = b
    OBVIOUS
  <2> QED
    BY <1>6, <2>1
<1> DEFINE Q == {m \in Nat : m + 1 \in 1..(n + 1) => a[m + 1] \in Nat}
<1>12. 0 \in Q
  BY <1>10
<1>13. ASSUME NEW m \in Q PROVE m + 1 \in Q
  <2> SUFFICES ASSUME (m + 1) + 1 \in 1..(n + 1) PROVE a[(m + 1) + 1] \in Nat
    OBVIOUS
  <2>1. m + 1 \in 1..n /\ m + 1 \in 1..(n + 1)
    OBVIOUS
  <2>2. a[m + 1] \in Nat /\ lens[m + 1] \in Nat
    BY <2>1
  <2> QED
    BY <1>11, <2>1, <2>2
<1>14. Q \in SUBSET Nat
  OBVIOUS
<1> HIDE DEF Q
<1>15. Q = Nat
  BY <1>12, <1>13, <1>14, Induction
<1>16. ASSUME NEW b \in 1..(n + 1) PROVE a[b] \in Nat
  <2>1. b - 1 \in Q /\ (b - 1) + 1 = b
    BY <1>15
  <2> QED
    BY <2>1 DEF Q
<1> QED
  BY <1>7, <1>8, <1>9, <1>10, <1>11, <1>16 DEF SumsOf

\* The sums never fall.
LEMMA SumsAscend ==
  ASSUME NEW n \in Nat, NEW c, NEW lens, SumsOf(c, lens, n), \A b \in 1..n : lens[b] \in Nat,
         NEW a \in 1..(n + 1), NEW d \in Nat, a + d \in 1..(n + 1)
  PROVE  c[a] <= c[a + d]
<1> DEFINE Q == {k \in Nat : a + k \in 1..(n + 1) => c[a] <= c[a + k]}
<1>0. /\ \A b \in 1..(n + 1) : c[b] \in Nat
      /\ \A b \in 1..n : c[b + 1] = c[b] + lens[b]
  BY DEF SumsOf
<1>1. 0 \in Q
  <2>1. c[a] \in Nat /\ a + 0 = a
    BY <1>0
  <2> QED
    BY <2>1
<1>2. ASSUME NEW k \in Q PROVE k + 1 \in Q
  <2> SUFFICES ASSUME a + (k + 1) \in 1..(n + 1) PROVE c[a] <= c[a + (k + 1)]
    OBVIOUS
  <2>1. k \in Nat /\ a + k \in 1..n /\ a + k \in 1..(n + 1) /\ (a + k) + 1 = a + (k + 1)
    OBVIOUS
  <2>2. PICK x \in Nat : x = c[a]
    BY <1>0
  <2>3. PICK y \in Nat : y = c[a + k]
    BY <1>0, <2>1
  <2>4. PICK z \in Nat : z = lens[a + k]
    BY <2>1
  <2>5. x <= y
    BY <2>1, <2>2, <2>3
  <2>6. c[(a + k) + 1] = y + z
    BY <1>0, <2>1, <2>3, <2>4
  <2> QED
    BY <2>1, <2>2, <2>5, <2>6
<1>3. Q \in SUBSET Nat
  OBVIOUS
<1> HIDE DEF Q
<1>4. Q = Nat
  BY <1>1, <1>2, <1>3, Induction
<1> QED
  BY <1>4 DEF Q

\* f has the rows of the first k of ss, each where the sums c put it.
PlacedTo(f, ss, lens, c, k) ==
  /\ IsRows(f, c[k + 1])
  /\ \A b \in 1..k : \A i \in 1..lens[b] : f[c[b] + i] = ss[b][i]

\* FlattenSeq puts every row in its place.
LEMMA FlattenPlaces ==
  ASSUME NEW n \in Nat \ {0}, NEW ss, Len(ss) = n, NEW lens, NEW c, SumsOf(c, lens, n),
         \A b \in 1..n : lens[b] \in Nat /\ IsRows(ss[b], lens[b])
  PROVE  PlacedTo(FlattenSeq(ss), ss, lens, c, n)
<1>1. PICK g : Joins(g, ss, n)
  BY JoinsExist
<1>2. /\ FlattenSeq(ss) = g[n] /\ g[1] = ss[1]
      /\ \A i \in 1..n : i # 1 => g[i] = g[i - 1] \o ss[i]
  BY <1>1 DEF Joins
<1>3. /\ c[1] = 0 /\ \A b \in 1..(n + 1) : c[b] \in Nat
      /\ \A b \in 1..n : c[b + 1] = c[b] + lens[b]
  BY DEF SumsOf
<1> DEFINE Q == {m \in Nat : m + 1 \in 1..n => PlacedTo(g[m + 1], ss, lens, c, m + 1)}
<1>4. 0 \in Q
  <2>1. c[2] = lens[1] /\ 1 \in 1..n /\ lens[1] \in Nat
    <3>1. c[1 + 1] = c[1] + lens[1] /\ lens[1] \in Nat
      BY <1>3
    <3> QED
      BY <1>3, <3>1
  <2>2. IsRows(g[1], c[1 + 1])
    BY <1>2, <2>1
  <2>3. \A b \in 1..1 : \A i \in 1..lens[b] : g[1][c[b] + i] = ss[b][i]
    <3> SUFFICES ASSUME NEW i \in 1..lens[1] PROVE g[1][c[1] + i] = ss[1][i]
      OBVIOUS
    <3>1. c[1] + i = i
      BY <1>3, <2>1
    <3> QED
      BY <1>2, <3>1
  <2> QED
    BY <2>2, <2>3 DEF PlacedTo
<1>5. ASSUME NEW m \in Q PROVE m + 1 \in Q
  <2> SUFFICES ASSUME (m + 1) + 1 \in 1..n PROVE PlacedTo(g[(m + 1) + 1], ss, lens, c, (m + 1) + 1)
    OBVIOUS
  <2>1. PICK k \in Nat : k = m + 1 /\ k \in 1..n /\ k + 1 \in 1..n /\ k + 1 # 1 /\ (k + 1) - 1 = k
    OBVIOUS
  <2>2. PlacedTo(g[k], ss, lens, c, k)
    BY <2>1
  <2>3. PICK old : old = g[k]
    OBVIOUS
  <2>4. PICK new : new = ss[k + 1]
    OBVIOUS
  <2>5. PICK x \in Nat : x = c[k + 1]
    BY <1>3, <2>1
  <2>6. PICK q \in Nat : q = lens[k + 1]
    BY <2>1
  <2>7. IsRows(old, x) /\ IsRows(new, q)
    BY <2>1, <2>2, <2>3, <2>4, <2>5, <2>6 DEF PlacedTo
  <2>8. PICK all : all = old \o new
    OBVIOUS
  <2>9. InTwo(all, old, x, new, q)
    BY <2>7, <2>8, JoinRows
  <2>10. all = g[k + 1]
    BY <1>2, <2>1, <2>3, <2>4, <2>8
  <2>11. c[(k + 1) + 1] = x + q
    BY <1>3, <2>1, <2>5, <2>6
  <2>12. IsRows(all, c[(k + 1) + 1])
    BY <2>9, <2>11 DEF InTwo
  <2>13. ASSUME NEW b \in 1..(k + 1), NEW i \in 1..lens[b] PROVE all[c[b] + i] = ss[b][i]
    <3>1. CASE b = k + 1
      <4>1. all[x + i] = new[i]
        BY <2>6, <2>9, <3>1 DEF InTwo
      <4> QED
        BY <2>4, <2>5, <3>1, <4>1
    <3>2. CASE b # k + 1
      <4>1. b \in 1..k /\ b \in 1..n /\ b \in 1..(n + 1) /\ b + 1 \in 1..(n + 1)
        BY <2>1, <3>2
      <4>2. old[c[b] + i] = ss[b][i]
        BY <2>2, <2>3, <4>1 DEF PlacedTo
      <4>3. PICK y \in Nat : y = c[b]
        BY <1>3, <4>1
      <4>4. PICK z \in Nat : z = lens[b]
        BY <4>1
      <4>5. c[b + 1] = y + z
        BY <1>3, <4>1, <4>3, <4>4
      <4>6. y + z <= x
        <5>1. PICK d \in Nat : d = k - b /\ (b + 1) + d = k + 1
          BY <4>1
        <5>2. c[b + 1] <= c[(b + 1) + d]
          <6>1. (b + 1) + d \in 1..(n + 1)
            BY <2>1, <5>1
          <6>2. \A e \in 1..n : lens[e] \in Nat
            OBVIOUS
          <6> QED
            BY <4>1, <6>1, <6>2, SumsAscend
        <5> QED
          BY <2>5, <4>5, <5>1, <5>2
      <4>7. y + i \in 1..x
        BY <4>4, <4>6
      <4>8. all[y + i] = old[y + i]
        BY <2>9, <4>7 DEF InTwo
      <4> QED
        BY <4>2, <4>3, <4>8
    <3> QED
      BY <3>1, <3>2
  <2> QED
    BY <2>1, <2>10, <2>12, <2>13 DEF PlacedTo
<1>6. Q \in SUBSET Nat
  OBVIOUS
<1> HIDE DEF Q
<1>7. Q = Nat
  BY <1>4, <1>5, <1>6, Induction
<1>8. n - 1 \in Q /\ (n - 1) + 1 = n /\ n \in 1..n
  BY <1>7
<1>9. PlacedTo(g[n], ss, lens, c, n)
  BY <1>8 DEF Q
<1> QED
  BY <1>2, <1>9

\* Every member is fed what its cache does not hold yet.
Fed(members, feed, kvs, T, P) ==
  /\ members \in Seq(Seqs) /\ Len(members) \in Nat \ {0}
  /\ \A a, b \in 1..Len(members) : members[a] = members[b] => a = b
  /\ \A b \in 1..Len(members) :
       LET s == members[b]
           q == Len(feed[s])
       IN /\ P[s] \in Nat /\ q \in Nat \ {0} /\ Len(T[s]) = P[s] + q
          /\ Feeds(feed[s], T[s], P[s], q) /\ Holds(kvs[s], T[s], P[s])

\* The request then continues each member's sequence.
LEMMA FlattenIs ==
  ASSUME NEW members, NEW feed, NEW kvs, NEW T, NEW P, Fed(members, feed, kvs, T, P)
  PROVE  /\ Lays(Flatten(members, feed, kvs), T, P)
         /\ Flatten(members, feed, kvs).caches = members
         /\ Flatten(members, feed, kvs).batched = TRUE
<1>0. PICK n \in Nat \ {0} : n = Len(members)
  BY DEF Fed
<1> DEFINE q(b) == Len(feed[members[b]])
<1>1. ASSUME NEW b \in 1..n, NEW s, s = members[b]
      PROVE  /\ P[s] \in Nat /\ q(b) \in Nat \ {0} /\ Len(T[s]) = P[s] + q(b)
             /\ IsRows(feed[s], q(b)) /\ Len(kvs[s][0]) = P[s] /\ s \in Seqs
             /\ \A i \in 1..q(b) : feed[s][i] = T[s][P[s] + i]
  <2>1. /\ P[s] \in Nat /\ q(b) \in Nat \ {0} /\ Len(T[s]) = P[s] + q(b)
        /\ Feeds(feed[s], T[s], P[s], q(b)) /\ Holds(kvs[s], T[s], P[s])
    BY <1>0, <1>1 DEF Fed
  <2>2. 0 \in Layers
    BY ModelForwardAssumption DEF Layers
  <2>3. kvs[s][0] = KvUpTo(T[s], 0, P[s])
    BY <2>1, <2>2 DEF Holds
  <2>4. Len(KvUpTo(T[s], 0, P[s])) = P[s]
    BY <2>1, KvRows
  <2>5. s \in Seqs
    BY <1>0, <1>1 DEF Fed
  <2> QED
    BY <2>1, <2>3, <2>4, <2>5 DEF Feeds
<1> DEFINE toks == [b \in 1..n |-> feed[members[b]]]
           places(b) == [t \in 1..q(b) |-> (P[members[b]] + t) - 1]
           poss == [b \in 1..n |-> places(b)]
           lens == [b \in 1..n |-> q(b)]
<1>2. Rows(toks) = toks /\ Len(toks) = n
  <2>1. IsRows(toks, n)
    BY DEF IsRows
  <2> HIDE DEF toks
  <2> QED
    BY <2>1, RowsIs
<1>3. Rows(poss) = poss /\ Len(poss) = n
  <2>1. IsRows(poss, n)
    BY DEF IsRows
  <2> HIDE DEF poss
  <2> QED
    BY <2>1, RowsIs
<1>4. Rows(lens) = lens /\ Len(lens) = n
  <2>1. IsRows(lens, n)
    BY DEF IsRows
  <2> HIDE DEF lens
  <2> QED
    BY <2>1, RowsIs
<1>5. ASSUME NEW b \in 1..n
      PROVE  Rows([t \in 1..Len(Rows(toks)[b]) |-> (Len(kvs[members[b]][0]) + t) - 1]) = places(b)
  <2>1. Len(Rows(toks)[b]) = q(b) /\ Len(kvs[members[b]][0]) = P[members[b]]
    BY <1>1, <1>2
  <2>2. IsRows(places(b), q(b)) /\ q(b) \in Nat
    BY <1>1 DEF IsRows
  <2>3. Rows(places(b)) = places(b)
    <3> HIDE DEF places
    <3> QED
      BY <2>2, RowsIs
  <2> QED
    BY <2>1, <2>3
<1>6. PICK req : req = Flatten(members, feed, kvs)
  OBVIOUS
<1>7. req = [tokens |-> FlattenSeq(toks), positions |-> FlattenSeq(poss), cu |-> PrefixSums(lens),
             caches |-> members, batched |-> TRUE]
  <2>1. Rows([b \in 1..n |-> Rows([t \in 1..Len(Rows(toks)[b]) |-> (Len(kvs[members[b]][0]) + t) - 1])]) = poss
    <3>1. [b \in 1..n |-> Rows([t \in 1..Len(Rows(toks)[b]) |-> (Len(kvs[members[b]][0]) + t) - 1])] = poss
      <4> HIDE DEF places, toks
      <4> QED
        BY <1>5
    <3> HIDE DEF poss, toks
    <3> QED
      BY <1>3, <3>1
  <2>2. Rows([b \in 1..n |-> Len(Rows(toks)[b])]) = lens
    <3>1. [b \in 1..n |-> Len(Rows(toks)[b])] = lens
      BY <1>2
    <3> HIDE DEF lens, toks
    <3> QED
      BY <1>4, <3>1
  <2> DEFINE fed == Rows([b \in 1..Len(members) |-> feed[members[b]]])
             from == Rows([b \in 1..Len(members) |->
                             Rows([t \in 1..Len(fed[b]) |-> (Len(kvs[members[b]][0]) + t) - 1])])
             sizes == Rows([b \in 1..Len(members) |-> Len(fed[b])])
  <2>3. req = [tokens |-> FlattenSeq(fed), positions |-> FlattenSeq(from), cu |-> PrefixSums(sizes),
               caches |-> members, batched |-> TRUE]
    BY <1>6 DEF Flatten
  <2>4. fed = Rows(toks)
    BY <1>0
  <2>5. sizes = lens
    <3> HIDE DEF fed, lens, toks
    <3> QED
      BY <1>0, <2>2, <2>4
  <2>6. from = poss
    <3> HIDE DEF fed, poss, toks
    <3> QED
      BY <1>0, <2>1, <2>4
  <2> HIDE DEF fed, sizes, from, toks, lens, poss
  <2> QED
    BY <1>2, <2>3, <2>4, <2>5, <2>6
<1>8. PICK cu : cu = req.cu
  OBVIOUS
<1>9. SumsOf(cu, lens, n)
  <2>1. \A b \in 1..n : lens[b] \in Nat
    BY <1>1
  <2>2. cu = PrefixSums(lens)
    BY <1>7, <1>8
  <2> HIDE DEF lens
  <2> QED
    BY <1>4, <2>1, <2>2, PrefixSumsIs
<1>10. \A b \in 1..n : /\ lens[b] = q(b) /\ lens[b] \in Nat
                       /\ IsRows(toks[b], lens[b]) /\ IsRows(poss[b], lens[b])
  <2> SUFFICES ASSUME NEW b \in 1..n
               PROVE  /\ lens[b] = q(b) /\ lens[b] \in Nat
                      /\ IsRows(toks[b], lens[b]) /\ IsRows(poss[b], lens[b])
    OBVIOUS
  <2>1. lens[b] = q(b) /\ toks[b] = feed[members[b]] /\ poss[b] = places(b)
    OBVIOUS
  <2>2. IsRows(places(b), q(b))
    BY DEF IsRows
  <2>3. IsRows(feed[members[b]], q(b)) /\ q(b) \in Nat
    BY <1>1
  <2> HIDE DEF lens, toks, poss, places
  <2> QED
    BY <2>1, <2>2, <2>3
<1>11. PlacedTo(req.tokens, toks, lens, cu, n)
  <2>1. req.tokens = FlattenSeq(toks)
    BY <1>7
  <2> HIDE DEF toks, lens, poss
  <2> QED
    BY <1>2, <1>9, <1>10, <2>1, FlattenPlaces
<1>12. PlacedTo(req.positions, poss, lens, cu, n)
  <2>1. req.positions = FlattenSeq(poss)
    BY <1>7
  <2> HIDE DEF toks, lens, poss
  <2> QED
    BY <1>3, <1>9, <1>10, <2>1, FlattenPlaces
<1>13. Size(req) = n /\ req.caches = members /\ req.batched = TRUE
  BY <1>0, <1>7 DEF Size
<1>14. /\ IsRows(cu, n + 1) /\ Len(cu) = n + 1 /\ cu[1] = 0
       /\ \A b \in 1..(n + 1) : cu[b] \in Nat
  <2>1. IsRows(cu, n + 1) /\ cu[1] = 0 /\ \A b \in 1..(n + 1) : cu[b] \in Nat
    BY <1>9 DEF SumsOf
  <2>2. n + 1 \in Nat
    OBVIOUS
  <2> QED
    BY <2>1, <2>2, RowsIs
<1>15. ASSUME NEW b \in 1..n PROVE cu[b] < cu[b + 1] /\ Span(req, b) = q(b)
  <2>1. PICK x \in Nat : x = cu[b]
    BY <1>14
  <2>2. PICK z \in Nat : z = q(b) /\ z # 0
    BY <1>1
  <2>3. cu[b + 1] = x + z
    BY <1>9, <1>10, <2>1, <2>2 DEF SumsOf
  <2> QED
    BY <1>8, <2>1, <2>2, <2>3 DEF Span
<1>16. IsRows(req.tokens, cu[n + 1]) /\ IsRows(req.positions, cu[n + 1])
  BY <1>11, <1>12 DEF PlacedTo
<1>17. ASSUME NEW b \in 1..n, NEW s, s = members[b]
       PROVE  /\ Len(T[s]) \in Nat /\ P[s] \in Nat /\ Len(T[s]) = P[s] + Span(req, b)
              /\ \A i \in 1..Span(req, b) : /\ req.tokens[cu[b] + i] = T[s][P[s] + i]
                                            /\ req.positions[cu[b] + i] = (P[s] + i) - 1
  <2>1. /\ P[s] \in Nat /\ q(b) \in Nat \ {0} /\ Len(T[s]) = P[s] + q(b)
        /\ \A i \in 1..q(b) : feed[s][i] = T[s][P[s] + i]
    BY <1>1, <1>17
  <2>2. ASSUME NEW i \in 1..q(b) PROVE /\ req.tokens[cu[b] + i] = T[s][P[s] + i]
                                       /\ req.positions[cu[b] + i] = (P[s] + i) - 1
    <3>1. i \in 1..lens[b]
      BY <1>10
    <3>2. req.tokens[cu[b] + i] = toks[b][i] /\ req.positions[cu[b] + i] = poss[b][i]
      <4> HIDE DEF toks, poss, lens
      <4> QED
        BY <1>11, <1>12, <3>1 DEF PlacedTo
    <3>3. toks[b][i] = feed[s][i] /\ poss[b][i] = (P[s] + i) - 1
      BY <1>17
    <3> HIDE DEF toks, poss
    <3> QED
      BY <2>1, <3>2, <3>3
  <2>3. Len(T[s]) \in Nat
    BY <2>1
  <2> QED
    BY <1>15, <2>1, <2>2, <2>3
<1>18. Lays(req, T, P)
  <2>1. members \in Seq(Seqs) /\ \A a, b \in 1..n : members[a] = members[b] => a = b
    BY <1>0 DEF Fed
  <2>2. \A b \in 1..n : cu[b] < cu[b + 1]
    BY <1>15
  <2>3. \A b \in 1..n :
          LET s == members[b]
          IN /\ Len(T[s]) \in Nat /\ P[s] \in Nat /\ Len(T[s]) = P[s] + Span(req, b)
             /\ \A i \in 1..Span(req, b) : /\ req.tokens[cu[b] + i] = T[s][P[s] + i]
                                           /\ req.positions[cu[b] + i] = (P[s] + i) - 1
    BY <1>17
  <2> HIDE DEF q, toks, lens, poss, places
  <2>4. /\ Size(req) \in Nat \ {0} /\ req.caches \in Seq(Seqs)
        /\ \A a, b \in 1..Size(req) : req.caches[a] = req.caches[b] => a = b
    BY <1>13, <2>1
  <2>5. /\ Len(req.cu) = Size(req) + 1 /\ req.cu[1] = 0
        /\ \A b \in 1..(Size(req) + 1) : req.cu[b] \in Nat
        /\ \A b \in 1..Size(req) : req.cu[b] < req.cu[b + 1]
    BY <1>8, <1>13, <1>14, <2>2
  <2>6. IsRows(req.tokens, req.cu[Size(req) + 1]) /\ IsRows(req.positions, req.cu[Size(req) + 1])
    BY <1>8, <1>13, <1>16
  <2>7. \A b \in 1..Size(req) :
          LET s == req.caches[b]
          IN /\ Len(T[s]) \in Nat /\ P[s] \in Nat /\ Len(T[s]) = P[s] + Span(req, b)
             /\ \A i \in 1..Span(req, b) : /\ req.tokens[req.cu[b] + i] = T[s][P[s] + i]
                                           /\ req.positions[req.cu[b] + i] = (P[s] + i) - 1
    BY <1>8, <1>13, <2>3, Zenon
  <2> QED
    BY <2>4, <2>5, <2>6, <2>7, Zenon DEF Lays
<1> QED
  BY <1>6, <1>13, <1>18
-----------------------------------------------------------------------------
(* The state between passes.                                                  *)

\* The state's shape.
TypeInv ==
  /\ WellFormed(w)
  /\ gen = [s \in Seqs |-> gen[s]] /\ kv = [s \in Seqs |-> kv[s]] /\ refkv = [s \in Seqs |-> refkv[s]]
  /\ \A s \in Seqs : gen[s] \in Ids
  /\ pend \in Seq(Seqs) /\ NoDuplicates(pend) /\ Range(pend) \cap failed = {}

\* The number of ids a sequence's cache may hold: none, or all but its newest.
Held(s, n) == n = 0 \/ (gen[s] # <<>> /\ n = Len(Context(s)) - 1)

\* A sequence outside a recovery: its caches are the history.
Settled(s) ==
  /\ kv[s] = refkv[s]
  /\ \E n \in {0, Len(Context(s)) - 1} : Held(s, n) /\ Holds(kv[s], Context(s), n)

\* A cache that a rollback to n ids of t leaves with exactly those.
RollsBack(cache, t, n) ==
  /\ cache = [l \in Layers |-> cache[l]]
  /\ \A l \in Layers : SubSeq(cache[l], 1, n) = KvUpTo(t, l, n)

\* A sequence whose pass was abandoned: both caches roll back to the history.
Abandoned(s) ==
  /\ Held(s, pre[s])
  /\ RollsBack(kv[s], Context(s), pre[s]) /\ RollsBack(refkv[s], Context(s), pre[s])

\* Both backends returned the same.
SameAnswers == out.logits = out.ref /\ out.all = out.refAll

\* The inductive invariant.
IInv ==
  /\ TypeInv
  /\ \A s \in Seqs : IF s \in Range(pend) THEN Abandoned(s) ELSE Settled(s)
  /\ SameAnswers
  /\ RowsMeetSequences

\* A sequence's context.
LEMMA ContextIs ==
  ASSUME TypeInv, NEW s \in Seqs
  PROVE  /\ gen[s] \in Ids /\ Len(gen[s]) \in Nat
         /\ Context(s) \in Ids /\ Len(Context(s)) \in Nat \ {0}
         /\ IsRows(Context(s), Len(Context(s)))
         /\ gen[s] # <<>> => Len(gen[s]) # 0 /\ Context(s)[Len(Context(s))] = gen[s][Len(gen[s])]
<1>1. PICK p : p = Prompt[s]
  OBVIOUS
<1>2. p \in Seq(Vocab) /\ p # <<>>
  BY <1>1, ModelForwardAssumption
<1>3. PICK g : g = gen[s]
  OBVIOUS
<1>4. g \in Seq(Vocab)
  BY <1>3 DEF TypeInv, Ids
<1>5. PICK c : c = p \o g
  OBVIOUS
<1>6. PICK m \in Nat : m = Len(p) /\ m # 0
  BY <1>2
<1>7. PICK n \in Nat : n = Len(g)
  BY <1>4
<1>8. c \in Seq(Vocab) /\ Len(c) = m + n
  BY <1>2, <1>4, <1>5, <1>6, <1>7
<1>9. \A i \in 1..n : c[m + i] = g[i]
  BY <1>2, <1>4, <1>5, <1>6, <1>7
<1>10. IsRows(c, Len(c))
  BY <1>8 DEF IsRows
<1>11. g # <<>> => n # 0 /\ c[Len(c)] = g[n]
  <2>1. g # <<>> => n # 0
    BY <1>4, <1>7
  <2> QED
    BY <1>8, <1>9, <2>1
<1>12. Context(s) = c
  BY <1>1, <1>3, <1>5 DEF Context
<1>13. Len(c) \in Nat \ {0} /\ c \in Ids /\ g \in Ids
  BY <1>4, <1>6, <1>8 DEF Ids
<1> QED
  BY <1>3, <1>7, <1>10, <1>11, <1>12, <1>13

\* What is fed to a sequence whose caches hold n ids.
FeedOf(f, s, n) ==
  IF n = 0 THEN f = Context(s) ELSE gen[s] # <<>> /\ n = Len(Context(s)) - 1 /\ f = <<Last(gen[s])>>

\* It is the rest of the context.
LEMMA FeedIs ==
  ASSUME TypeInv, NEW s \in Seqs, NEW n, NEW f, FeedOf(f, s, n)
  PROVE  /\ n \in Nat /\ Len(f) \in Nat \ {0} /\ Len(Context(s)) = n + Len(f)
         /\ Feeds(f, Context(s), n, Len(f))
<1>1. PICK c : c = Context(s)
  OBVIOUS
<1>2. PICK k \in Nat : k = Len(c) /\ k # 0
  BY <1>1, ContextIs
<1>3. IsRows(c, k)
  BY <1>1, <1>2, ContextIs
<1>4. CASE n = 0
  <2>1. f = c
    BY <1>1, <1>4 DEF FeedOf
  <2>2. Feeds(c, c, 0, k)
    BY <1>3 DEF Feeds
  <2> QED
    BY <1>1, <1>2, <1>4, <2>1, <2>2
<1>5. CASE n # 0
  <2>1. gen[s] # <<>> /\ n = k - 1 /\ f = <<Last(gen[s])>>
    BY <1>1, <1>2, <1>5 DEF FeedOf
  <2>2. c[k] = Last(gen[s])
    BY <1>1, <1>2, <2>1, ContextIs DEF Last
  <2>3. Len(f) = 1 /\ f[1] = c[k] /\ IsRows(f, 1)
    BY <2>1, <2>2 DEF IsRows
  <2>4. n \in Nat /\ n + 1 = k
    BY <1>2, <2>1
  <2>5. Feeds(f, c, n, 1)
    BY <2>3, <2>4 DEF Feeds
  <2> QED
    BY <1>1, <1>2, <2>3, <2>4, <2>5
<1> QED
  BY <1>4, <1>5

\* An empty cache holds the first none of any ids.
LEMMA EmptyHolds ==
  ASSUME NEW t
  PROVE  Holds(Empty, t, 0)
BY KvRows DEF Holds, Empty

\* Its length says how much a cache holds.
LEMMA HeldLength ==
  ASSUME NEW cache, NEW t, NEW n \in Nat, Holds(cache, t, n)
  PROVE  Len(cache[0]) = n
<1>1. 0 \in Layers
  BY ModelForwardAssumption DEF Layers
<1>2. cache[0] = KvUpTo(t, 0, n)
  BY <1>1 DEF Holds
<1> QED
  BY <1>2, KvRows

\* What a cache holds depends on those ids only.
LEMMA HoldsSame ==
  ASSUME NEW cache, NEW t, NEW u, NEW n \in Nat, Len(t) \in Nat, Len(u) \in Nat, n <= Len(t), n <= Len(u),
         \A i \in 1..n : t[i] = u[i], Holds(cache, t, n)
  PROVE  Holds(cache, u, n)
<1>1. \A l \in Layers : KvUpTo(t, l, n) = KvUpTo(u, l, n)
  BY Causal
<1> QED
  BY <1>1 DEF Holds

\* The caches v are kvs but for that of s, which holds the first n ids of t.
Truncated(v, kvs, s, t, n) ==
  /\ Holds(v[s], t, n) /\ v = [z \in Seqs |-> v[z]]
  /\ \A z \in Seqs \ {s} : v[z] = kvs[z]

\* Rolled back, a cache holds the first n ids.
LEMMA TruncateIs ==
  ASSUME NEW kvs, DOMAIN kvs = Seqs, NEW s \in Seqs, NEW t, NEW n, RollsBack(kvs[s], t, n)
  PROVE  Truncated(Truncate(kvs, s, n), kvs, s, t, n)
<1>1. PICK c : c = kvs[s]
  OBVIOUS
<1>2. c = [l \in Layers |-> c[l]] /\ \A l \in Layers : SubSeq(c[l], 1, n) = KvUpTo(t, l, n)
  BY <1>1 DEF RollsBack
<1>3. PICK d : d = [l \in DOMAIN c |-> SubSeq(c[l], 1, n)]
  OBVIOUS
<1>4. Holds(d, t, n)
  <2>1. DOMAIN c = Layers
    BY <1>2
  <2> QED
    BY <1>2, <1>3, <2>1 DEF Holds
<1>5. PICK v : v = Truncate(kvs, s, n)
  OBVIOUS
<1>6. v = [kvs EXCEPT ![s] = d]
  BY <1>1, <1>3, <1>5 DEF Truncate
<1>7. v[s] = d /\ v = [z \in Seqs |-> v[z]] /\ \A z \in Seqs \ {s} : v[z] = kvs[z]
  BY <1>6
<1> QED
  BY <1>4, <1>5, <1>7 DEF Truncated

\* A cache with at least n ids in every layer rolls back to them.
LEMMA FilledRollsBack ==
  ASSUME NEW t, NEW m \in Nat, NEW n \in Nat, n <= m, NEW j
  PROVE  RollsBack(Filled(t, m, n, j), t, n)
<1>1. PICK c : c = Filled(t, m, n, j)
  OBVIOUS
<1>2. c = [l \in Layers |-> KvUpTo(t, l, IF l < j THEN m ELSE n)]
  BY <1>1 DEF Filled
<1>3. ASSUME NEW l \in Layers PROVE SubSeq(c[l], 1, n) = KvUpTo(t, l, n)
  <2>1. PICK k \in Nat : k = (IF l < j THEN m ELSE n) /\ n <= k
    OBVIOUS
  <2>2. c[l] = KvUpTo(t, l, k)
    BY <1>2, <2>1
  <2>3. n \in 0..k
    BY <2>1
  <2>4. SubSeq(KvUpTo(t, l, k), 1, n) = KvUpTo(t, l, n)
    BY <2>3, KvRows
  <2> QED
    BY <2>2, <2>4
<1>4. c = [l \in Layers |-> c[l]]
  BY <1>2
<1> QED
  BY <1>1, <1>3, <1>4 DEF RollsBack

\* So does one that holds m of them.
LEMMA HoldsRollsBack ==
  ASSUME NEW cache, NEW t, NEW m \in Nat, NEW n \in Nat, n <= m, Holds(cache, t, m)
  PROVE  RollsBack(cache, t, n)
<1>1. \A l \in Layers : l < NumLayers
  BY ModelForwardAssumption DEF Layers
<1>2. cache = Filled(t, m, n, NumLayers)
  BY <1>1 DEF Holds, Filled
<1> QED
  BY <1>2, FilledRollsBack

\* The first rows of a sequence of ids.
LEMMA PrefixIs ==
  ASSUME NEW t \in Ids, NEW n \in 0..Len(t)
  PROVE  /\ SubSeq(t, 1, n) \in Ids /\ Len(SubSeq(t, 1, n)) = n
         /\ IsRows(SubSeq(t, 1, n), n) /\ \A i \in 1..n : SubSeq(t, 1, n)[i] = t[i]
BY DEF Ids, IsRows

\* A cache that holds the first n ids is that of a lone prefill of them.
LEMMA HoldsAlone ==
  ASSUME NEW cache, NEW t \in Ids, NEW n \in 0..Len(t), Holds(cache, t, n)
  PROVE  cache = Alone(SubSeq(t, 1, n)).cache
<1>1. PICK u : u = SubSeq(t, 1, n)
  OBVIOUS
<1>2. Len(u) = n /\ IsRows(u, n) /\ \A i \in 1..n : u[i] = t[i]
  BY <1>1, PrefixIs
<1>3. Len(t) \in Nat /\ n \in Nat /\ n <= Len(t)
  BY DEF Ids
<1>4. Holds(cache, u, n)
  BY <1>2, <1>3, HoldsSame
<1>5. Alone(u).cache = [l \in Layers |-> KvUpTo(u, l, n)]
  BY <1>2, <1>3, AloneIs
<1> QED
  BY <1>1, <1>4, <1>5 DEF Holds
-----------------------------------------------------------------------------
(* Delivering a pass.                                                         *)

\* Both backends answered the request for the contexts, from the caches kvs and rkvs.
BothAnswered(req, res, ref, kvs, rkvs, P) ==
  /\ Lays(req, [s \in Seqs |-> Context(s)], P)
  /\ Answered(res, kvs, req, [s \in Seqs |-> Context(s)], P)
  /\ Answered(ref, rkvs, req, [s \in Seqs |-> Context(s)], P)
  /\ \A b \in 1..Size(req) : req.caches[b] \notin failed

\* The rows the sampler returns.
LEMMA SampleRowsAre ==
  ASSUME NEW req, Size(req) \in Nat, NEW logits, NEW bad
  PROVE  /\ SampleRows(req, logits, bad) = [b \in 1..Size(req) |-> SampleRow(req, logits, bad, b)]
         /\ DOMAIN SampleRows(req, logits, bad) = 1..Size(req)
<1>1. PICK f : f = [b \in 1..Size(req) |-> SampleRow(req, logits, bad, b)]
  OBVIOUS
<1>2. IsRows(f, Size(req))
  BY <1>1 DEF IsRows
<1>3. Rows(f) = f /\ DOMAIN f = 1..Size(req)
  BY <1>2, RowsIs
<1> QED
  BY <1>1, <1>3 DEF SampleRows, Size

\* A token that was delivered lengthens its sequence's context by one id.
LEMMA ContextGrows ==
  ASSUME TypeInv, NEW s \in Seqs, NEW tok \in Vocab, gen'[s] = Append(gen[s], tok)
  PROVE  /\ gen'[s] \in Ids /\ gen'[s] # <<>> /\ Len(gen'[s]) = Len(gen[s]) + 1
         /\ SubSeq(gen'[s], 1, Len(gen[s])) = gen[s]
         /\ Len(Context(s)') = Len(Context(s)) + 1
         /\ \A i \in 1..Len(Context(s)) : Context(s)'[i] = Context(s)[i]
<1>1. PICK p : p = Prompt[s]
  OBVIOUS
<1>2. p \in Seq(Vocab)
  BY <1>1, ModelForwardAssumption
<1>3. PICK g : g = gen[s]
  OBVIOUS
<1>4. g \in Seq(Vocab)
  BY <1>3 DEF TypeInv, Ids
<1>5. PICK h : h = gen'[s]
  OBVIOUS
<1>6. PICK n \in Nat : n = Len(g)
  BY <1>4
<1>7. h = Append(g, tok)
  BY <1>3, <1>5
<1>8. h \in Seq(Vocab) /\ Len(h) = n + 1 /\ \A i \in 1..n : h[i] = g[i]
  BY <1>4, <1>6, <1>7
<1>9. h # <<>>
  <2>1. Len(h) # 0
    BY <1>8
  <2> QED
    BY <2>1
<1>10. SubSeq(h, 1, n) = g
  <2>1. PICK c : c = SubSeq(h, 1, n)
    OBVIOUS
  <2>2. c \in Seq(Vocab) /\ Len(c) = n /\ \A i \in 1..n : c[i] = h[i]
    BY <1>8, <2>1
  <2>3. c = [i \in 1..n |-> c[i]] /\ g = [i \in 1..n |-> g[i]]
    BY <1>4, <1>6, <2>2
  <2>4. \A i \in 1..n : c[i] = g[i]
    BY <1>8, <2>2
  <2> QED
    BY <2>1, <2>3, <2>4
<1>11. PICK m \in Nat : m = Len(p)
  BY <1>2
<1>12. PICK c : c = p \o g
  OBVIOUS
<1>13. PICK d : d = p \o h
  OBVIOUS
<1>14. Len(c) = m + n /\ (\A i \in 1..m : c[i] = p[i]) /\ \A i \in 1..n : c[m + i] = g[i]
  BY <1>2, <1>4, <1>6, <1>11, <1>12
<1>15. Len(d) = (m + n) + 1 /\ (\A i \in 1..m : d[i] = p[i]) /\ \A i \in 1..(n + 1) : d[m + i] = h[i]
  <2>1. PICK k \in Nat : k = n + 1
    OBVIOUS
  <2>2. h \in Seq(Vocab) /\ Len(h) = k
    BY <1>8, <2>1
  <2>3. IsRows(p, m) /\ IsRows(h, k)
    BY <1>2, <1>11, <2>2 DEF IsRows
  <2>4. InTwo(d, p, m, h, k)
    BY <1>13, <2>3, JoinRows
  <2>5. Len(d) = m + k
    <3>1. m + k \in Nat /\ IsRows(d, m + k)
      BY <2>4 DEF InTwo
    <3> QED
      BY <3>1, RowsIs
  <2> QED
    BY <2>1, <2>4, <2>5 DEF InTwo
<1>16. \A i \in 1..(m + n) : d[i] = c[i]
  <2> SUFFICES ASSUME NEW i \in 1..(m + n) PROVE d[i] = c[i]
    OBVIOUS
  <2>1. CASE i \in 1..m
    BY <1>14, <1>15, <2>1
  <2>2. CASE i \notin 1..m
    <3>1. PICK j \in 1..n : i = m + j
      <4>1. i - m \in 1..n /\ i = m + (i - m)
        BY <2>2
      <4> QED
        BY <4>1
    <3>2. j \in 1..(n + 1)
      OBVIOUS
    <3>3. c[m + j] = g[j] /\ d[m + j] = h[j] /\ h[j] = g[j]
      BY <1>8, <1>14, <1>15, <3>2
    <3> QED
      BY <3>1, <3>3
  <2> QED
    BY <2>1, <2>2
<1>17. Context(s) = c /\ Context(s)' = d
  BY <1>1, <1>3, <1>5, <1>12, <1>13 DEF Context
<1>18. h \in Ids
  BY <1>8 DEF Ids
<1> QED
  BY <1>3, <1>5, <1>6, <1>8, <1>9, <1>10, <1>14, <1>15, <1>16, <1>17, <1>18

\* What a delivery does to a member: its token, or its failure.
Served(s, ok, tok, cache, refCache) ==
  IF ok THEN /\ gen'[s] = Append(gen[s], tok) /\ s \notin failed'
             /\ kv'[s] = cache /\ refkv'[s] = refCache
  ELSE gen'[s] = gen[s] /\ s \in failed' /\ kv'[s] = Empty /\ refkv'[s] = Empty

\* And to a sequence that is none.
Spared(s, cache, refCache) ==
  /\ gen'[s] = gen[s] /\ (s \in failed' <=> s \in failed)
  /\ IF s \in failed THEN kv'[s] = Empty /\ refkv'[s] = Empty ELSE kv'[s] = cache /\ refkv'[s] = refCache

\* Deliver, sequence by sequence.
LEMMA DeliverIs ==
  ASSUME NEW req, NEW res, NEW ref, NEW kvs, NEW rkvs, NEW P, BothAnswered(req, res, ref, kvs, rkvs, P),
         NEW bad, NEW tok, Deliver(res, ref, SampleRows(req, res.logits, bad), tok)
  PROVE  /\ \A b \in 1..Size(req) :
              Served(req.caches[b], b \notin bad, tok[req.caches[b]], res.kv[req.caches[b]], ref.kv[req.caches[b]])
         /\ \A s \in Seqs : ~Member(req, s) => Spared(s, res.kv[s], ref.kv[s])
         /\ gen' = [s \in Seqs |-> gen'[s]] /\ kv' = [s \in Seqs |-> kv'[s]] /\ refkv' = [s \in Seqs |-> refkv'[s]]
<1>1. PICK n \in Nat : n = Size(req)
  BY DEF BothAnswered, Lays
<1>2. PICK rows : rows = SampleRows(req, res.logits, bad)
  OBVIOUS
<1>3. /\ DOMAIN rows = 1..n
      /\ \A b \in 1..n : rows[b].seq = req.caches[b] /\ (rows[b].ok <=> b \notin bad)
  <2>1. DOMAIN rows = 1..n /\ rows = [b \in 1..n |-> SampleRow(req, res.logits, bad, b)]
    BY <1>1, <1>2, SampleRowsAre
  <2>2. ASSUME NEW b \in 1..n PROVE rows[b].seq = req.caches[b] /\ (rows[b].ok <=> b \notin bad)
    <3>1. rows[b] = SampleRow(req, res.logits, bad, b)
      BY <2>1
    <3>2. rows[b].seq = req.caches[b] /\ rows[b].ok = (b \notin bad)
      BY <3>1 DEF SampleRow
    <3> QED
      BY <3>2
  <2> QED
    BY <2>1, <2>2
<1>4. /\ gen' = [s \in Seqs |-> IF \E b \in 1..n : rows[b].seq = s /\ rows[b].ok
                                THEN Append(gen[s], tok[s]) ELSE gen[s]]
      /\ failed' = failed \union Rejected(rows)
      /\ kv' = [s \in Seqs |-> IF s \in failed' THEN Empty ELSE res.kv[s]]
      /\ refkv' = [s \in Seqs |-> IF s \in failed' THEN Empty ELSE ref.kv[s]]
  <2>1. Deliver(res, ref, rows, tok)
    BY <1>2
  <2> QED
    BY <1>3, <2>1 DEF Deliver
<1>5. \A s : s \in Rejected(rows) <=> \E b \in 1..n : req.caches[b] = s /\ b \in bad
  BY <1>3 DEF Rejected
<1>6. ASSUME NEW b \in 1..n, NEW s, s = req.caches[b]
      PROVE  Served(s, b \notin bad, tok[s], res.kv[s], ref.kv[s])
  <2>1. s \in Seqs /\ s \notin failed /\ \A c \in 1..n : req.caches[c] = s => c = b
    <3>1. Lays(req, [z \in Seqs |-> Context(z)], P) /\ s \notin failed
      BY <1>1, <1>6 DEF BothAnswered
    <3>2. \A a, c \in 1..n : req.caches[a] = req.caches[c] => a = c
      BY <1>1, <3>1, Zenon DEF Lays
    <3>3. req.caches \in Seq(Seqs) /\ Len(req.caches) = n
      BY <1>1, <3>1 DEF Lays, Size
    <3>4. s \in Seqs
      BY <1>6, <3>3
    <3> QED
      BY <1>6, <3>1, <3>2, <3>4, Zenon
  <2>2. (s \in failed') <=> (b \in bad)
    BY <1>4, <1>5, <1>6, <2>1
  <2>3. (\E c \in 1..n : rows[c].seq = s /\ rows[c].ok) <=> b \notin bad
    BY <1>3, <1>6, <2>1
  <2> QED
    BY <1>4, <2>1, <2>2, <2>3 DEF Served
<1>7. ASSUME NEW s \in Seqs, ~Member(req, s) PROVE Spared(s, res.kv[s], ref.kv[s])
  <2>1. \A c \in 1..n : req.caches[c] # s
    BY <1>1, <1>7 DEF Member
  <2>2. (s \in failed') <=> (s \in failed)
    BY <1>4, <1>5, <2>1
  <2>3. ~\E c \in 1..n : rows[c].seq = s /\ rows[c].ok
    BY <1>3, <2>1
  <2> QED
    BY <1>4, <2>2, <2>3 DEF Spared
<1>8. gen' = [s \in Seqs |-> gen'[s]] /\ kv' = [s \in Seqs |-> kv'[s]] /\ refkv' = [s \in Seqs |-> refkv'[s]]
  BY <1>4
<1> QED
  BY <1>1, <1>6, <1>7, <1>8

\* A member's caches after its delivery.
LEMMA MemberSettles ==
  ASSUME TypeInv, NEW req, NEW res, NEW ref, NEW kvs, NEW rkvs, NEW P, BothAnswered(req, res, ref, kvs, rkvs, P),
         NEW bad, NEW tok \in [Range(req.caches) -> Vocab], Deliver(res, ref, SampleRows(req, res.logits, bad), tok),
         NEW b \in 1..Size(req), NEW s, s = req.caches[b]
  PROVE  gen'[s] \in Ids /\ Settled(s)'
<1>0. s \in Seqs /\ s \in Range(req.caches)
  <2>1. req.caches \in Seq(Seqs)
    BY DEF BothAnswered, Lays
  <2>2. b \in DOMAIN req.caches
    BY <2>1 DEF Size
  <2> QED
    BY <2>1, <2>2 DEF Range
<1>1. Served(s, b \notin bad, tok[s], res.kv[s], ref.kv[s])
  BY DeliverIs
<1>2. CASE b \notin bad
  <2>1. /\ gen'[s] = Append(gen[s], tok[s])
        /\ kv'[s] = res.kv[s] /\ refkv'[s] = ref.kv[s]
    BY <1>1, <1>2 DEF Served
  <2>2. tok[s] \in Vocab
    BY <1>0
  <2>3. /\ gen'[s] \in Ids /\ gen'[s] # <<>>
        /\ Len(Context(s)') = Len(Context(s)) + 1
        /\ \A i \in 1..Len(Context(s)) : Context(s)'[i] = Context(s)[i]
    BY <1>0, <2>1, <2>2, ContextGrows
  <2>4. PICK n \in Nat : n = Len(Context(s))
    BY <1>0, ContextIs
  <2>5. Holds(res.kv[s], Context(s), n) /\ Holds(ref.kv[s], Context(s), n)
    BY <1>0, <2>4 DEF BothAnswered, Answered, AllHeld
  <2>6. res.kv[s] = ref.kv[s]
    BY <2>5 DEF Holds
  <2>7. Holds(res.kv[s], Context(s)', n)
    BY <2>3, <2>4, <2>5, HoldsSame
  <2>8. Held(s, n)' /\ n \in {0, Len(Context(s)') - 1}
    BY <2>3, <2>4 DEF Held
  <2> QED
    BY <2>1, <2>3, <2>6, <2>7, <2>8 DEF Settled
<1>3. CASE ~(b \notin bad)
  <2>1. gen'[s] = gen[s] /\ kv'[s] = Empty /\ refkv'[s] = Empty
    BY <1>1, <1>3 DEF Served
  <2>2. Holds(Empty, Context(s)', 0)
    BY EmptyHolds
  <2>3. Held(s, 0)'
    BY DEF Held
  <2>4. gen[s] \in Ids
    BY <1>0 DEF TypeInv
  <2> QED
    BY <2>1, <2>2, <2>3, <2>4 DEF Settled
<1> QED
  BY <1>2, <1>3

\* A sequence whose caches are dropped is settled.
LEMMA DroppedSettles ==
  ASSUME NEW s \in Seqs, kv'[s] = Empty, refkv'[s] = Empty
  PROVE  Settled(s)'
<1>1. Holds(Empty, Context(s)', 0)
  BY EmptyHolds
<1>2. Held(s, 0)'
  BY DEF Held
<1> QED
  BY <1>1, <1>2 DEF Settled

\* One that is left alone stays as it was.
LEMMA AloneStays ==
  ASSUME NEW s \in Seqs, gen'[s] = gen[s], kv'[s] = kv[s], refkv'[s] = refkv[s]
  PROVE  /\ Settled(s) => Settled(s)'
         /\ Abandoned(s) /\ pre'[s] = pre[s] => Abandoned(s)'
<1>1. Context(s)' = Context(s)
  BY DEF Context
<1>2. \A n : Held(s, n)' = Held(s, n)
  BY <1>1 DEF Held
<1> QED
  BY <1>1, <1>2 DEF Settled, Abandoned

\* The rows and the answers of a delivery.
LEMMA RowsDelivered ==
  ASSUME TypeInv, NEW req, NEW res, NEW ref, NEW kvs, NEW rkvs, NEW P, BothAnswered(req, res, ref, kvs, rkvs, P),
         NEW bad, NEW tok \in [Range(req.caches) -> Vocab], Deliver(res, ref, SampleRows(req, res.logits, bad), tok)
  PROVE  SameAnswers' /\ RowsMeetSequences'
<1>1. PICK n \in Nat : n = Size(req)
  BY DEF BothAnswered, Lays
<1>2. PICK rows : rows = SampleRows(req, res.logits, bad)
  OBVIOUS
<1>3. DOMAIN rows = 1..n /\ rows = [b \in 1..n |-> SampleRow(req, res.logits, bad, b)]
  BY <1>1, <1>2, SampleRowsAre
<1>4. out' = [logits |-> res.logits, ref |-> ref.logits, all |-> res.all, refAll |-> ref.all, rows |-> rows]
  BY <1>2 DEF Deliver
<1>5. SameAnswers'
  <2>1. res.logits = ref.logits /\ res.all = ref.all
    BY DEF BothAnswered, Answered
  <2> QED
    BY <1>4, <2>1 DEF SameAnswers
<1>6. ASSUME NEW b \in 1..n, NEW row, row = rows[b], NEW before,
             before = Prompt[row.seq] \o SubSeq(gen'[row.seq], 1, row.step)
      PROVE  /\ row.sampler = row.seq
             /\ row.logits = Last(Alone(before).all)
             /\ Len(gen'[row.seq]) = row.step + (IF row.ok THEN 1 ELSE 0)
             /\ ~row.ok => row.seq \in failed'
  <2>1. PICK s : s = req.caches[b]
    OBVIOUS
  <2>2. s \in Seqs /\ s \in Range(req.caches)
    <3>1. req.caches \in Seq(Seqs)
      BY DEF BothAnswered, Lays
    <3>2. b \in DOMAIN req.caches
      BY <1>1, <3>1 DEF Size
    <3> QED
      BY <2>1, <3>1, <3>2 DEF Range
  <2>3. /\ row.seq = s /\ row.sampler = s /\ row.logits = res.logits[b] /\ row.step = Len(gen[s])
        /\ row.ok = (b \notin bad)
    <3>1. row = SampleRow(req, res.logits, bad, b)
      BY <1>3, <1>6
    <3> QED
      BY <2>1, <3>1 DEF SampleRow
  <2>4. Served(s, b \notin bad, tok[s], res.kv[s], ref.kv[s])
    BY <1>1, <2>1, DeliverIs
  <2>5. SubSeq(gen'[s], 1, Len(gen[s])) = gen[s] /\ Len(gen'[s]) = Len(gen[s]) + (IF row.ok THEN 1 ELSE 0)
    <3>1. CASE b \notin bad
      <4>1. gen'[s] = Append(gen[s], tok[s])
        BY <2>4, <3>1 DEF Served
      <4>2. tok[s] \in Vocab
        BY <2>2
      <4>3. Len(gen'[s]) = Len(gen[s]) + 1 /\ SubSeq(gen'[s], 1, Len(gen[s])) = gen[s]
        BY <2>2, <4>1, <4>2, ContextGrows
      <4> QED
        BY <2>3, <3>1, <4>3
    <3>2. CASE ~(b \notin bad)
      <4>1. gen'[s] = gen[s]
        BY <2>4, <3>2 DEF Served
      <4>2. gen[s] \in Seq(Vocab)
        BY <2>2, ContextIs DEF Ids
      <4>3. SubSeq(gen[s], 1, Len(gen[s])) = gen[s] /\ Len(gen[s]) + 0 = Len(gen[s])
        BY <4>2
      <4> QED
        BY <2>3, <3>2, <4>1, <4>3
    <3> QED
      BY <3>1, <3>2
  <2>6. before = Context(s)
    BY <1>6, <2>3, <2>5 DEF Context
  <2>7. Last(Alone(Context(s)).all) = LogitRow(Context(s), Len(Context(s)))
    <3>1. PICK c : c = Context(s)
      OBVIOUS
    <3>2. PICK k \in Nat : k = Len(c) /\ k # 0
      BY <2>2, <3>1, ContextIs
    <3>3. IsRows(c, k)
      BY <2>2, <3>1, <3>2, ContextIs
    <3>4. PICK a : a = Alone(c).all
      OBVIOUS
    <3>5. a = [i \in 1..k |-> LogitRow(c, i)]
      BY <3>2, <3>3, <3>4, AloneIs
    <3>6. Len(a) = k
      <4>1. IsRows(a, k)
        BY <3>5 DEF IsRows
      <4> QED
        BY <4>1, RowsIs
    <3> QED
      BY <3>1, <3>2, <3>4, <3>5, <3>6 DEF Last
  <2>8. res.logits[b] = LogitRow(Context(s), Len(Context(s)))
    BY <1>1, <2>1, <2>2 DEF BothAnswered, Answered, LastRows
  <2>9. ~row.ok => s \in failed'
    BY <2>3, <2>4 DEF Served
  <2> QED
    BY <2>3, <2>5, <2>6, <2>7, <2>8, <2>9
<1>7. DOMAIN out'.rows = 1..n /\ out'.rows = rows
  BY <1>3, <1>4
<1> QED
  BY <1>5, <1>6, <1>7 DEF RowsMeetSequences
-----------------------------------------------------------------------------
(* The batches the engine runs.                                               *)

\* Members whose caches, kvs and rkvs, hold what precedes their feed.
Batch(members, feed, kvs, rkvs, P) ==
  /\ members \in Seq(Seqs) /\ Len(members) \in Nat \ {0}
  /\ \A a, b \in 1..Len(members) : members[a] = members[b] => a = b
  /\ kvs = [s \in Seqs |-> kvs[s]] /\ rkvs = [s \in Seqs |-> rkvs[s]]
  /\ \A b \in 1..Len(members) :
       LET s == members[b]
       IN /\ s \notin failed /\ FeedOf(feed[s], s, P[s])
          /\ Holds(kvs[s], Context(s), P[s]) /\ Holds(rkvs[s], Context(s), P[s])

\* Everyone's ids.
Contexts == [s \in Seqs |-> Context(s)]

\* A request for a batch.
Asks(req, members, kvs, rkvs, P) ==
  /\ Lays(req, Contexts, P) /\ req.caches = members /\ req.batched \in BOOLEAN
  /\ Ready(kvs, req, Contexts, P) /\ Ready(rkvs, req, Contexts, P)
  /\ \A b \in 1..Size(req) : req.caches[b] \notin failed

\* The assembled request, and the one of a sequence alone.
LEMMA BatchAsks ==
  ASSUME TypeInv, NEW members, NEW feed, NEW kvs, NEW rkvs, NEW P, Batch(members, feed, kvs, rkvs, P)
  PROVE  /\ Asks(Flatten(members, feed, kvs), members, kvs, rkvs, P)
         /\ Asks([Flatten(members, feed, kvs) EXCEPT !.batched = FALSE], members, kvs, rkvs, P)
<1>1. PICK T : T = Contexts
  OBVIOUS
<1>2. \A s \in Seqs : T[s] = Context(s)
  BY <1>1 DEF Contexts
<1>3. ASSUME NEW b \in 1..Len(members), NEW s, s = members[b]
      PROVE  /\ s \in Seqs /\ s \notin failed /\ P[s] \in Nat /\ Len(feed[s]) \in Nat \ {0}
             /\ Len(T[s]) = P[s] + Len(feed[s]) /\ Feeds(feed[s], T[s], P[s], Len(feed[s]))
             /\ Holds(kvs[s], T[s], P[s]) /\ Holds(rkvs[s], T[s], P[s])
  <2>1. s \in Seqs
    BY <1>3 DEF Batch
  <2>2. /\ s \notin failed /\ FeedOf(feed[s], s, P[s])
        /\ Holds(kvs[s], Context(s), P[s]) /\ Holds(rkvs[s], Context(s), P[s])
    BY <1>3 DEF Batch
  <2>3. /\ P[s] \in Nat /\ Len(feed[s]) \in Nat \ {0} /\ Len(Context(s)) = P[s] + Len(feed[s])
        /\ Feeds(feed[s], Context(s), P[s], Len(feed[s]))
    BY <2>1, <2>2, FeedIs
  <2> QED
    BY <1>2, <2>1, <2>2, <2>3
<1>4. Fed(members, feed, kvs, T, P)
  BY <1>3 DEF Batch, Fed
<1>5. PICK req : req = Flatten(members, feed, kvs)
  OBVIOUS
<1>6. Lays(req, T, P) /\ req.caches = members /\ req.batched = TRUE
  BY <1>4, <1>5, FlattenIs
<1>7. PICK alone : alone = [req EXCEPT !.batched = FALSE]
  OBVIOUS
<1>8. /\ alone.tokens = req.tokens /\ alone.positions = req.positions /\ alone.cu = req.cu
      /\ alone.caches = req.caches /\ alone.batched = FALSE
  BY <1>5, <1>7 DEF Flatten
<1>9. Lays(alone, T, P)
  <2>1. Size(alone) = Size(req) /\ \A b : Span(alone, b) = Span(req, b)
    BY <1>8 DEF Size, Span
  <2>2. /\ Size(alone) \in Nat \ {0} /\ alone.caches \in Seq(Seqs)
        /\ \A a, b \in 1..Size(alone) : alone.caches[a] = alone.caches[b] => a = b
        /\ Len(alone.cu) = Size(alone) + 1 /\ alone.cu[1] = 0
    BY <1>6, <1>8, <2>1 DEF Lays
  <2>3. /\ \A b \in 1..(Size(alone) + 1) : alone.cu[b] \in Nat
        /\ \A b \in 1..Size(alone) : alone.cu[b] < alone.cu[b + 1]
        /\ IsRows(alone.tokens, alone.cu[Size(alone) + 1]) /\ IsRows(alone.positions, alone.cu[Size(alone) + 1])
    BY <1>6, <1>8, <2>1 DEF Lays
  <2>4. \A b \in 1..Size(alone) :
          LET s == alone.caches[b]
          IN /\ Len(T[s]) \in Nat /\ P[s] \in Nat /\ Len(T[s]) = P[s] + Span(alone, b)
             /\ \A i \in 1..Span(alone, b) : /\ alone.tokens[alone.cu[b] + i] = T[s][P[s] + i]
                                             /\ alone.positions[alone.cu[b] + i] = (P[s] + i) - 1
    <3> SUFFICES ASSUME NEW b \in 1..Size(alone), NEW s, s = alone.caches[b]
                 PROVE  /\ Len(T[s]) \in Nat /\ P[s] \in Nat /\ Len(T[s]) = P[s] + Span(alone, b)
                        /\ \A i \in 1..Span(alone, b) : /\ alone.tokens[alone.cu[b] + i] = T[s][P[s] + i]
                                                        /\ alone.positions[alone.cu[b] + i] = (P[s] + i) - 1
      OBVIOUS
    <3>1. b \in 1..Size(req) /\ s = req.caches[b]
      BY <1>8, <2>1
    <3>2. Len(T[s]) \in Nat /\ P[s] \in Nat /\ Len(T[s]) = P[s] + Span(req, b)
      BY <1>6, <3>1 DEF Lays
    <3>3. \A i \in 1..Span(req, b) : /\ req.tokens[req.cu[b] + i] = T[s][P[s] + i]
                                     /\ req.positions[req.cu[b] + i] = (P[s] + i) - 1
      BY <1>6, <3>1 DEF Lays
    <3> QED
      BY <1>8, <2>1, <3>2, <3>3
  <2> QED
    BY <2>2, <2>3, <2>4, Zenon DEF Lays
<1>10. /\ \A b \in 1..Len(members) : members[b] \notin failed
       /\ Ready(kvs, req, T, P) /\ Ready(rkvs, req, T, P)
       /\ Ready(kvs, alone, T, P) /\ Ready(rkvs, alone, T, P)
  <2>1. kvs = [s \in Seqs |-> kvs[s]] /\ rkvs = [s \in Seqs |-> rkvs[s]]
    BY DEF Batch
  <2>2. Size(req) = Len(members) /\ Size(alone) = Len(members)
    BY <1>6, <1>8 DEF Size
  <2> QED
    BY <1>3, <1>6, <1>8, <2>1, <2>2 DEF Ready
<1> QED
  BY <1>1, <1>5, <1>6, <1>7, <1>8, <1>9, <1>10 DEF Asks, Size

\* When it is answered, both backends answer it.
LEMMA AsksAnswered ==
  ASSUME TypeInv, NEW req, NEW members, NEW kvs, NEW rkvs, NEW P, Asks(req, members, kvs, rkvs, P)
  PROVE  /\ WellFormed(Forward(w, kvs, req, 0).w)
         /\ Forward(w, kvs, req, 0).ok =>
              BothAnswered(req, Forward(w, kvs, req, 0), RefForwardBatched(rkvs, req, 0), kvs, rkvs, P)
<1>1. /\ WellFormed(w) /\ Lays(req, Contexts, P) /\ req.batched \in BOOLEAN
      /\ Ready(kvs, req, Contexts, P) /\ Ready(rkvs, req, Contexts, P)
  BY DEF TypeInv, Asks
<1>2. PICK res : res = Forward(w, kvs, req, 0)
  OBVIOUS
<1>3. /\ WellFormed(res.w)
      /\ ValidateBatched(req, kvs) => Answered(res, kvs, req, Contexts, P)
      /\ ~ValidateBatched(req, kvs) => res = Refused(w, kvs)
  BY <1>1, <1>2, ForwardIs
<1>4. ASSUME res.ok PROVE BothAnswered(req, res, RefForwardBatched(rkvs, req, 0), kvs, rkvs, P)
  <2>1. ValidateBatched(req, kvs)
    BY <1>3, <1>4 DEF Refused
  <2>2. ValidateBatched(req, rkvs)
    BY <1>1, <2>1, SameHeld
  <2>3. Answered(RefForwardBatched(rkvs, req, 0), rkvs, req, Contexts, P)
    BY <1>1, <2>2, RefForwardBatchedIs
  <2> QED
    BY <1>1, <1>3, <2>1, <2>3 DEF BothAnswered, Contexts, Asks
<1> QED
  BY <1>2, <1>3, <1>4

\* A batch that is delivered leaves everyone settled.
LEMMA DeliveredBatch ==
  ASSUME IInv, pend = <<>>, NEW members, NEW req, NEW P, Asks(req, members, kv, refkv, P), NEW bad,
         NEW tok \in [Range(req.caches) -> Vocab],
         DeliverBatch(req, Forward(w, kv, req, 0), RefForwardBatched(refkv, req, 0), bad, tok)
  PROVE  IInv'
<1>1. PICK res : res = Forward(w, kv, req, 0)
  OBVIOUS
<1>2. PICK ref : ref = RefForwardBatched(refkv, req, 0)
  OBVIOUS
<1>3. /\ TypeInv /\ \A s \in Seqs : IF s \in Range(pend) THEN Abandoned(s) ELSE Settled(s)
  BY DEF IInv
<1>4. res.ok /\ w' = res.w /\ Deliver(res, ref, SampleRows(req, res.logits, bad), tok) /\ pend' = pend /\ pre' = pre
  BY <1>1, <1>2 DEF DeliverBatch
<1>5. BothAnswered(req, res, ref, kv, refkv, P) /\ WellFormed(w')
  BY <1>1, <1>2, <1>3, <1>4, AsksAnswered
<1>6. Range(pend) = {}
  BY EmptyFacts
<1>7. ASSUME NEW s \in Seqs PROVE gen'[s] \in Ids /\ Settled(s)'
  <2>1. CASE Member(req, s)
    <3>1. PICK b \in 1..Size(req) : s = req.caches[b]
      BY <2>1 DEF Member
    <3> QED
      BY <1>3, <1>4, <1>5, <3>1, MemberSettles
  <2>2. CASE ~Member(req, s)
    <3>1. Spared(s, res.kv[s], ref.kv[s])
      BY <1>4, <1>5, <2>2, DeliverIs
    <3>2. res.kv[s] = kv[s] /\ ref.kv[s] = refkv[s]
      BY <1>5, <2>2 DEF BothAnswered, Answered, AllHeld
    <3>3. gen'[s] = gen[s] /\ gen[s] \in Ids /\ Settled(s)
      BY <1>3, <1>6, <3>1 DEF Spared, TypeInv
    <3>4. CASE s \in failed
      BY <3>1, <3>3, <3>4, DroppedSettles DEF Spared
    <3>5. CASE s \notin failed
      <4>1. kv'[s] = kv[s] /\ refkv'[s] = refkv[s]
        BY <3>1, <3>2, <3>5 DEF Spared
      <4> QED
        BY <3>3, <4>1, AloneStays
    <3> QED
      BY <3>4, <3>5
  <2> QED
    BY <2>1, <2>2
<1>8. TypeInv'
  <2>1. gen' = [s \in Seqs |-> gen'[s]] /\ kv' = [s \in Seqs |-> kv'[s]] /\ refkv' = [s \in Seqs |-> refkv'[s]]
    BY <1>4, <1>5, DeliverIs
  <2>2. pend' \in Seq(Seqs) /\ NoDuplicates(pend') /\ Range(pend') \cap failed' = {}
    BY <1>3, <1>4, <1>6 DEF TypeInv
  <2> QED
    BY <1>5, <1>7, <2>1, <2>2 DEF TypeInv
<1>9. SameAnswers' /\ RowsMeetSequences'
  BY <1>3, <1>4, <1>5, RowsDelivered
<1>10. Range(pend') = {}
  BY <1>4, <1>6
<1> QED
  BY <1>7, <1>8, <1>9, <1>10 DEF IInv

\* What an abandoned pass returned has no rows.
LEMMA NothingIs ==
  ASSUME out' = Nothing
  PROVE  SameAnswers' /\ RowsMeetSequences'
<1>1. out'.rows = <<>> /\ out'.logits = out'.ref /\ out'.all = out'.refAll
  BY DEF Nothing
<1> QED
  BY <1>1 DEF SameAnswers, RowsMeetSequences

\* A batch that stops at member bad leaves its members to the recovery.
LEMMA AbandonedBatch ==
  ASSUME IInv, pend = <<>>, NEW members, NEW req, NEW P, Asks(req, members, kv, refkv, P),
         \A b \in 1..Size(req) : Held(req.caches[b], P[req.caches[b]]),
         NEW bad \in 1..Size(req),
         AbandonBatch(req, Forward(w, kv, req, bad), RefForwardBatched(refkv, req, bad))
  PROVE  IInv'
<1>1. PICK res : res = Forward(w, kv, req, bad)
  OBVIOUS
<1>2. PICK ref : ref = RefForwardBatched(refkv, req, bad)
  OBVIOUS
<1>3. TypeInv /\ \A s \in Seqs : IF s \in Range(pend) THEN Abandoned(s) ELSE Settled(s)
  BY DEF IInv
<1>4. /\ w' = res.w /\ kv' = res.kv /\ refkv' = ref.kv
      /\ pend' = req.caches /\ pre' = [s \in Seqs |-> Length(s)]
      /\ out' = Nothing /\ gen' = gen /\ failed' = failed
  BY <1>1, <1>2 DEF AbandonBatch
<1>5. /\ WellFormed(w) /\ Lays(req, Contexts, P)
      /\ Ready(kv, req, Contexts, P) /\ Ready(refkv, req, Contexts, P)
      /\ \A b \in 1..Size(req) : req.caches[b] \notin failed
  BY <1>3 DEF TypeInv, Asks
<1>6. /\ WellFormed(res.w)
      /\ ValidateBatched(req, kv) => CutShort(res.kv, kv, req, Contexts, P, bad)
      /\ ~ValidateBatched(req, kv) => res.kv = kv
  BY <1>1, <1>5, ForwardFails
<1>7. /\ ValidateBatched(req, kv) => HeldTo(ref.kv, refkv, req, Contexts, bad - 1)
      /\ ~ValidateBatched(req, kv) => ref.kv = refkv
  <2>1. ValidateBatched(req, kv) <=> ValidateBatched(req, refkv)
    BY <1>5, SameHeld
  <2> QED
    BY <1>2, <1>5, <2>1, RefForwardBatchedFails
<1>8. /\ kv' = [s \in Seqs |-> kv'[s]] /\ refkv' = [s \in Seqs |-> refkv'[s]]
      /\ \A s \in Seqs : ~Member(req, s) => kv'[s] = kv[s] /\ refkv'[s] = refkv[s]
  <2>1. CASE ValidateBatched(req, kv)
    BY <1>4, <1>6, <1>7, <2>1 DEF CutShort, HeldTo
  <2>2. CASE ~ValidateBatched(req, kv)
    BY <1>3, <1>4, <1>6, <1>7, <2>2 DEF TypeInv
  <2> QED
    BY <2>1, <2>2
<1>9. /\ req.caches \in Seq(Seqs) /\ Range(pend) = {}
      /\ \A s \in Seqs : s \in Range(pend') <=> Member(req, s)
  <2>1. req.caches \in Seq(Seqs)
    BY <1>5 DEF Lays
  <2>2. DOMAIN req.caches = 1..Size(req)
    BY <2>1 DEF Size
  <2> QED
    BY <1>4, <2>1, <2>2, EmptyFacts DEF Range, Member
<1>10. ASSUME NEW s \in Seqs, ~Member(req, s) PROVE Settled(s)'
  <2>1. Settled(s)
    BY <1>3, <1>9
  <2>2. kv'[s] = kv[s] /\ refkv'[s] = refkv[s] /\ gen'[s] = gen[s]
    BY <1>4, <1>8, <1>10
  <2> QED
    BY <2>1, <2>2, AloneStays
<1>11. ASSUME NEW b \in 1..Size(req), NEW s, s = req.caches[b] PROVE Abandoned(s)'
  <2>1. s \in Seqs /\ Contexts[s] = Context(s)
    BY <1>9, <1>11 DEF Contexts, Size
  <2>2. PICK p \in Nat : p = P[s]
    BY <1>5, <1>11 DEF Lays
  <2>3. Holds(kv[s], Context(s), p) /\ Holds(refkv[s], Context(s), p)
    BY <1>5, <1>11, <2>1, <2>2 DEF Ready
  <2>4. PICK n \in Nat : n = Len(Context(s)) /\ p <= n
    <3>0. Span(req, b) \in Nat
      BY <1>5, SpanType
    <3>1. Len(Context(s)) = p + Span(req, b) /\ Span(req, b) \in Nat
      BY <1>5, <1>11, <2>1, <2>2, <3>0 DEF Lays
    <3> QED
      BY <3>1
  <2>5. pre'[s] = p
    BY <1>4, <2>1, <2>3, HeldLength DEF Length
  <2>6. Context(s)' = Context(s) /\ Held(s, p)'
    <3>1. Held(s, p)
      BY <1>11, <2>2
    <3> QED
      BY <1>4, <3>1 DEF Context, Held
  <2>7. RollsBack(kv'[s], Context(s), p)
    <3>1. CASE ValidateBatched(req, kv)
      <4>1. kv'[s] = Filled(Context(s), n, p, IF b < bad THEN 1 ELSE 0)
        BY <1>4, <1>6, <1>11, <2>1, <2>2, <2>4, <3>1 DEF CutShort
      <4> QED
        BY <2>4, <4>1, FilledRollsBack
    <3>2. CASE ~ValidateBatched(req, kv)
      BY <1>4, <1>6, <2>3, <3>2, HoldsRollsBack
    <3> QED
      BY <3>1, <3>2
  <2>8. RollsBack(refkv'[s], Context(s), p)
    <3>1. CASE ValidateBatched(req, kv) /\ b <= bad - 1
      <4>1. Holds(refkv'[s], Context(s), n)
        BY <1>4, <1>7, <1>11, <2>1, <2>4, <3>1 DEF HeldTo
      <4> QED
        BY <2>4, <4>1, HoldsRollsBack
    <3>2. CASE ~(ValidateBatched(req, kv) /\ b <= bad - 1)
      <4>1. refkv'[s] = refkv[s]
        BY <1>4, <1>7, <1>11, <3>2 DEF HeldTo
      <4> QED
        BY <2>3, <4>1, HoldsRollsBack
    <3> QED
      BY <3>1, <3>2
  <2> QED
    BY <2>5, <2>6, <2>7, <2>8 DEF Abandoned
<1>12. TypeInv'
  <2>1. gen' = [s \in Seqs |-> gen'[s]] /\ \A s \in Seqs : gen'[s] \in Ids
    BY <1>3, <1>4 DEF TypeInv
  <2>2. NoDuplicates(pend')
    <3>1. DOMAIN req.caches = 1..Size(req)
      BY <1>9 DEF Size
    <3>2. \A a, b \in 1..Size(req) : req.caches[a] = req.caches[b] => a = b
      BY <1>5 DEF Lays
    <3> QED
      BY <1>4, <3>1, <3>2 DEF NoDuplicates
  <2>3. Range(pend') \cap failed' = {}
    <3>1. DOMAIN req.caches = 1..Size(req)
      BY <1>9 DEF Size
    <3> QED
      BY <1>4, <1>5, <3>1 DEF Range
  <2> QED
    BY <1>4, <1>6, <1>8, <1>9, <2>1, <2>2, <2>3 DEF TypeInv
<1>13. SameAnswers' /\ RowsMeetSequences'
  BY <1>4, NothingIs
<1> QED
  BY <1>9, <1>10, <1>11, <1>12, <1>13 DEF IInv, Member

\* A pass over a batch whose caches hold their part of the history.
LEMMA PassKeeps ==
  ASSUME IInv, pend = <<>>, NEW members, NEW feed, NEW P, Batch(members, feed, kv, refkv, P),
         \A b \in 1..Len(members) : Held(members[b], P[members[b]]), RunBatchPass(members, feed)
  PROVE  IInv'
<1>1. PICK req : req = Flatten(members, feed, kv)
  OBVIOUS
<1>2. TypeInv
  BY DEF IInv
<1>3. Asks(req, members, kv, refkv, P)
  BY <1>1, <1>2, BatchAsks
<1>4. req.caches = members /\ DOMAIN req.caches = 1..Size(req)
  <2>1. req.caches = members /\ members \in Seq(Seqs)
    BY <1>3 DEF Asks, Batch
  <2> QED
    BY <2>1 DEF Size
<1>5. RunAssembled(req)
  BY <1>1 DEF RunBatchPass
<1>6. CASE \E bad \in SUBSET DOMAIN req.caches, tok \in [Range(req.caches) -> Vocab] :
             DeliverBatch(req, Forward(w, kv, req, 0), RefForwardBatched(refkv, req, 0), bad, tok)
  BY <1>3, <1>6, DeliveredBatch
<1>7. CASE \E bad \in DOMAIN req.caches :
             AbandonBatch(req, Forward(w, kv, req, bad), RefForwardBatched(refkv, req, bad))
  <2>1. \A b \in 1..Size(req) : Held(req.caches[b], P[req.caches[b]])
    BY <1>4 DEF Size
  <2> QED
    BY <1>3, <1>4, <1>7, <2>1, AbandonedBatch
<1> QED
  BY <1>5, <1>6, <1>7 DEF RunAssembled

\* How much of its history a settled sequence's caches hold.
LEMMA SettledAt ==
  ASSUME TypeInv, NEW s \in Seqs, Settled(s)
  PROVE  /\ Length(s) \in Nat /\ Length(s) <= Len(Context(s)) /\ Held(s, Length(s))
         /\ Holds(kv[s], Context(s), Length(s)) /\ kv[s] = refkv[s]
<1>1. PICK m \in Nat : m = Len(Context(s)) /\ m # 0
  BY ContextIs
<1>2. PICK n \in {0, m - 1} : Held(s, n) /\ Holds(kv[s], Context(s), n)
  BY <1>1 DEF Settled
<1>3. n \in Nat /\ n <= m
  BY <1>1, <1>2
<1>4. Length(s) = n
  BY <1>2, <1>3, HeldLength DEF Length
<1> QED
  BY <1>1, <1>2, <1>3, <1>4 DEF Settled

\* The members of a pass over a set of sequences.
LEMMA MembersAre ==
  ASSUME NEW S \in SUBSET Seqs, S # {}, NEW members \in SetToSeqs(S)
  PROVE  /\ members \in Seq(Seqs) /\ Len(members) \in Nat \ {0}
         /\ \A a, b \in 1..Len(members) : members[a] = members[b] => a = b
         /\ \A b \in 1..Len(members) : members[b] \in S
<1>1. IsFiniteSet(S)
  BY ModelForwardAssumption, FS_Subset
<1>2. PICK n \in Nat : n = Cardinality(S) /\ n # 0
  BY <1>1, FS_CardinalityType, FS_EmptySet
<1>3. members \in [1..n -> S] /\ \A i, j \in 1..n : i # j => members[i] # members[j]
  BY <1>2 DEF SetToSeqs
<1>4. members \in Seq(Seqs) /\ Len(members) = n
  BY <1>3
<1> QED
  BY <1>2, <1>3, <1>4

\* A prefill of sequences whose caches are empty.
LEMMA PrefillKeeps ==
  ASSUME IInv, Prefill
  PROVE  IInv'
<1>0. PICK S \in (SUBSET Waiting) \ {{}} :
        \E members \in SetToSeqs(S) : RunBatchPass(members, [s \in Seqs |-> Context(s)])
  BY DEF Prefill
<1>1. PICK members \in SetToSeqs(S) : RunBatchPass(members, [s \in Seqs |-> Context(s)])
  BY <1>0
<1>2. TypeInv /\ pend = <<>>
  BY DEF IInv, Prefill
<1>3. PICK feed : feed = [s \in Seqs |-> Context(s)]
  OBVIOUS
<1>4. PICK P : P = [s \in Seqs |-> 0]
  OBVIOUS
<1>5. /\ members \in Seq(Seqs) /\ Len(members) \in Nat \ {0}
      /\ \A a, b \in 1..Len(members) : members[a] = members[b] => a = b
      /\ \A b \in 1..Len(members) : members[b] \in S
  <2>1. S \in SUBSET Seqs /\ S # {}
    BY <1>0 DEF Waiting
  <2> QED
    BY <1>1, <2>1, MembersAre
<1>6. ASSUME NEW b \in 1..Len(members), NEW s, s = members[b]
      PROVE  /\ s \notin failed /\ FeedOf(feed[s], s, P[s]) /\ Held(s, P[s])
             /\ Holds(kv[s], Context(s), P[s]) /\ Holds(refkv[s], Context(s), P[s])
  <2>1. s \in Seqs /\ s \notin failed /\ Length(s) = 0
    BY <1>1, <1>5, <1>6 DEF Waiting, Live
  <2>2. Settled(s)
    BY <1>2, <2>1, EmptyFacts DEF IInv
  <2>3. Held(s, 0) /\ Holds(kv[s], Context(s), 0) /\ kv[s] = refkv[s]
    BY <1>2, <2>1, <2>2, SettledAt
  <2>4. P[s] = 0 /\ feed[s] = Context(s)
    BY <1>3, <1>4, <2>1
  <2>5. FeedOf(feed[s], s, 0)
    BY <2>4 DEF FeedOf
  <2> QED
    BY <2>1, <2>3, <2>4, <2>5
<1>7. Batch(members, feed, kv, refkv, P)
  <2>1. kv = [s \in Seqs |-> kv[s]] /\ refkv = [s \in Seqs |-> refkv[s]]
    BY <1>2 DEF TypeInv
  <2> QED
    BY <1>5, <1>6, <2>1 DEF Batch
<1>8. RunBatchPass(members, feed)
  BY <1>1, <1>3
<1> QED
  BY <1>2, <1>6, <1>7, <1>8, PassKeeps

\* A decode of every running sequence.
LEMMA DecodeKeeps ==
  ASSUME IInv, Decode
  PROVE  IInv'
<1>1. PICK members \in SetToSeqs(Running) :
        RunBatchPass(members, [s \in Seqs |-> SubSeq(gen[s], Len(gen[s]), Len(gen[s]))])
  BY DEF Decode
<1>2. TypeInv /\ pend = <<>> /\ Running # {}
  BY DEF IInv, Decode
<1>3. PICK feed : feed = [s \in Seqs |-> SubSeq(gen[s], Len(gen[s]), Len(gen[s]))]
  OBVIOUS
<1>4. PICK P : P = [s \in Seqs |-> Length(s)]
  OBVIOUS
<1>5. /\ members \in Seq(Seqs) /\ Len(members) \in Nat \ {0}
      /\ \A a, b \in 1..Len(members) : members[a] = members[b] => a = b
      /\ \A b \in 1..Len(members) : members[b] \in Running
  <2>1. Running \in SUBSET Seqs
    BY DEF Running
  <2> QED
    BY <1>1, <1>2, <2>1, MembersAre
<1>6. ASSUME NEW b \in 1..Len(members), NEW s, s = members[b]
      PROVE  /\ s \notin failed /\ FeedOf(feed[s], s, P[s]) /\ Held(s, P[s])
             /\ Holds(kv[s], Context(s), P[s]) /\ Holds(refkv[s], Context(s), P[s])
  <2>1. s \in Seqs /\ s \notin failed /\ Length(s) > 0
    BY <1>5, <1>6 DEF Running, Live
  <2>2. Settled(s)
    BY <1>2, <2>1, EmptyFacts DEF IInv
  <2>3. PICK n \in Nat : n = Length(s) /\ n # 0
    BY <1>2, <2>1, <2>2, SettledAt
  <2>4. Held(s, n) /\ Holds(kv[s], Context(s), n) /\ kv[s] = refkv[s]
    BY <1>2, <2>1, <2>2, <2>3, SettledAt
  <2>5. gen[s] # <<>> /\ n = Len(Context(s)) - 1
    BY <2>3, <2>4 DEF Held
  <2>6. feed[s] = <<Last(gen[s])>>
    <3>1. PICK g : g = gen[s]
      OBVIOUS
    <3>2. g \in Seq(Vocab) /\ Len(g) \in Nat /\ Len(g) # 0
      BY <1>2, <2>1, <2>5, <3>1, ContextIs DEF Ids
    <3>3. SubSeq(g, Len(g), Len(g)) = <<g[Len(g)]>>
      <4>1. PICK u : u = SubSeq(g, Len(g), Len(g))
        OBVIOUS
      <4>2. IsRows(u, 1) /\ u[1] = g[Len(g)]
        BY <3>2, <4>1 DEF IsRows
      <4>3. IsRows(<<g[Len(g)]>>, 1) /\ <<g[Len(g)]>>[1] = g[Len(g)]
        BY DEF IsRows
      <4>4. \A i \in 1..1 : u[i] = <<g[Len(g)]>>[i]
        BY <4>2, <4>3
      <4>5. u = <<g[Len(g)]>>
        BY <4>2, <4>3, <4>4, SameRows
      <4> QED
        BY <4>1, <4>5
    <3> QED
      BY <1>3, <2>1, <3>1, <3>3 DEF Last
  <2>7. P[s] = n
    BY <1>4, <2>1, <2>3
  <2>8. FeedOf(feed[s], s, n)
    BY <2>3, <2>5, <2>6 DEF FeedOf
  <2> QED
    BY <2>1, <2>4, <2>7, <2>8
<1>7. Batch(members, feed, kv, refkv, P)
  <2>1. kv = [s \in Seqs |-> kv[s]] /\ refkv = [s \in Seqs |-> refkv[s]]
    BY <1>2 DEF TypeInv
  <2> QED
    BY <1>5, <1>6, <2>1 DEF Batch
<1>8. RunBatchPass(members, feed)
  BY <1>1, <1>3
<1> QED
  BY <1>2, <1>6, <1>7, <1>8, PassKeeps

\* A member of the recovery that is rolled back can be asked for alone.
LEMMA RolledBackAsks ==
  ASSUME IInv, pend # <<>>, NEW s, s = Head(pend), NEW kvs, kvs = Truncate(kv, s, pre[s]),
         NEW rkvs, rkvs = Truncate(refkv, s, pre[s])
  PROVE  /\ Asks(AloneRequest(s, kvs), <<s>>, kvs, rkvs, pre)
         /\ \A z \in Seqs \ {s} : kvs[z] = kv[z] /\ rkvs[z] = refkv[z]
<1>1. TypeInv
  BY DEF IInv
<1>2. s \in Seqs /\ s \in Range(pend) /\ s \notin failed
  BY <1>1, TailFacts DEF TypeInv
<1>3. PICK n : n = pre[s]
  OBVIOUS
<1>4. Held(s, n) /\ RollsBack(kv[s], Context(s), n) /\ RollsBack(refkv[s], Context(s), n)
  BY <1>2, <1>3 DEF IInv, Abandoned
<1>5. /\ Holds(kvs[s], Context(s), n) /\ kvs = [z \in Seqs |-> kvs[z]]
      /\ \A z \in Seqs \ {s} : kvs[z] = kv[z]
  <2>1. PICK v : v = kv
    OBVIOUS
  <2>2. DOMAIN v = Seqs /\ RollsBack(v[s], Context(s), n)
    BY <1>1, <1>4, <2>1 DEF TypeInv
  <2>3. kvs = Truncate(v, s, n)
    BY <1>3, <2>1
  <2>4. Truncated(Truncate(v, s, n), v, s, Context(s), n)
    BY <1>2, <2>2, TruncateIs
  <2> QED
    BY <2>1, <2>3, <2>4 DEF Truncated
<1>6. /\ Holds(rkvs[s], Context(s), n) /\ rkvs = [z \in Seqs |-> rkvs[z]]
      /\ \A z \in Seqs \ {s} : rkvs[z] = refkv[z]
  <2>1. PICK v : v = refkv
    OBVIOUS
  <2>2. DOMAIN v = Seqs /\ RollsBack(v[s], Context(s), n)
    BY <1>1, <1>4, <2>1 DEF TypeInv
  <2>3. rkvs = Truncate(v, s, n)
    BY <1>3, <2>1
  <2>4. Truncated(Truncate(v, s, n), v, s, Context(s), n)
    BY <1>2, <2>2, TruncateIs
  <2> QED
    BY <2>1, <2>3, <2>4 DEF Truncated
<1>7. PICK feed : feed = [z \in Seqs |-> Feed(s)]
  OBVIOUS
<1>8. FeedOf(feed[s], s, n)
  <2>1. feed[s] = IF n = 0 THEN Context(s) ELSE <<Last(gen[s])>>
    BY <1>2, <1>3, <1>7 DEF Feed
  <2> QED
    BY <1>4, <2>1 DEF FeedOf, Held
<1>9. Batch(<<s>>, feed, kvs, rkvs, pre)
  <2>1. <<s>> \in Seq(Seqs) /\ Len(<<s>>) = 1
    BY <1>2
  <2>2. \A b \in 1..1 : <<s>>[b] = s /\ b = 1
    OBVIOUS
  <2> QED
    BY <1>2, <1>3, <1>5, <1>6, <1>8, <2>1, <2>2 DEF Batch
<1>10. AloneRequest(s, kvs) = [Flatten(<<s>>, feed, kvs) EXCEPT !.batched = FALSE]
  <2>1. AloneRequest(s, kvs) = [Flatten(<<s>>, [z \in Seqs |-> Feed(s)], kvs) EXCEPT !.batched = FALSE]
    BY DEF AloneRequest
  <2> QED
    BY <1>7, <2>1, Zenon
<1>11. Asks(AloneRequest(s, kvs), <<s>>, kvs, rkvs, pre)
  BY <1>1, <1>9, <1>10, BatchAsks
<1> QED
  BY <1>5, <1>6, <1>11

\* What is left of the recovery once its head is done.
LEMMA RecoveryShrinks ==
  ASSUME TypeInv, pend # <<>>, pend' = Tail(pend)
  PROVE  /\ Head(pend) \in Seqs /\ Head(pend) \in Range(pend) /\ Head(pend) \notin failed
         /\ pend' \in Seq(Seqs) /\ NoDuplicates(pend') /\ Range(pend') = Range(pend) \ {Head(pend)}
         /\ Range(pend) \cap failed = {}
<1>1. pend \in Seq(Seqs) /\ NoDuplicates(pend) /\ Range(pend) \cap failed = {}
  BY DEF TypeInv
<1>2. /\ Head(pend) \in Seqs /\ Head(pend) \in Range(pend)
      /\ Tail(pend) \in Seq(Seqs) /\ NoDuplicates(Tail(pend)) /\ Range(Tail(pend)) = Range(pend) \ {Head(pend)}
  BY <1>1, TailFacts
<1> QED
  BY <1>1, <1>2

\* A member of the recovery that answers alone.
LEMMA RecoverOkKeeps ==
  ASSUME IInv, RecoverOk
  PROVE  IInv'
<1>1. PICK s : s = Head(pend)
  OBVIOUS
<1>2. PICK kvs : kvs = Truncate(kv, s, pre[s])
  OBVIOUS
<1>3. PICK rkvs : rkvs = Truncate(refkv, s, pre[s])
  OBVIOUS
<1>4. PICK req : req = AloneRequest(s, kvs)
  OBVIOUS
<1>5. PICK res : res = Forward(w, kvs, req, 0)
  OBVIOUS
<1>6. PICK ref : ref = RefForwardBatched(rkvs, req, 0)
  OBVIOUS
<1>7. pend # <<>> /\ pend' = Tail(pend) /\ pre' = pre
  BY DEF RecoverOk
<1>8. TypeInv /\ \A z \in Seqs : IF z \in Range(pend) THEN Abandoned(z) ELSE Settled(z)
  BY DEF IInv
<1>9. /\ s \in Seqs /\ s \in Range(pend) /\ s \notin failed
      /\ pend' \in Seq(Seqs) /\ NoDuplicates(pend') /\ Range(pend') = Range(pend) \ {s}
      /\ Range(pend) \cap failed = {}
  BY <1>1, <1>7, <1>8, RecoveryShrinks
<1>10. /\ Asks(req, <<s>>, kvs, rkvs, pre)
       /\ \A z \in Seqs \ {s} : kvs[z] = kv[z] /\ rkvs[z] = refkv[z]
  BY <1>1, <1>2, <1>3, <1>4, <1>7, RolledBackAsks
<1>11. DeliverAlone(req, res, ref)
  <2>1. RecoverFrom(s, kvs, rkvs)
    BY <1>1, <1>2, <1>3 DEF RecoverOk
  <2>2. ExecuteAndDeliver(req, kvs, rkvs)
    BY <1>4, <2>1 DEF RecoverFrom
  <2> QED
    BY <1>5, <1>6, <2>2 DEF ExecuteAndDeliver
<1>12. PICK tok \in [Range(req.caches) -> Vocab] : Deliver(res, ref, SampleRows(req, res.logits, {}), tok)
  BY <1>11 DEF DeliverAlone
<1>13. res.ok /\ w' = res.w
  BY <1>11 DEF DeliverAlone
<1>14. BothAnswered(req, res, ref, kvs, rkvs, pre) /\ WellFormed(w')
  BY <1>5, <1>6, <1>8, <1>10, <1>13, AsksAnswered
<1>15. Size(req) = 1 /\ req.caches[1] = s /\ \A z : Member(req, z) <=> z = s
  <2>1. req.caches = <<s>>
    BY <1>10 DEF Asks
  <2>2. Size(req) = 1 /\ req.caches[1] = s
    BY <2>1 DEF Size
  <2> QED
    BY <2>2 DEF Member
<1>16. gen'[s] \in Ids /\ Settled(s)'
  <2>1. 1 \in 1..Size(req)
    BY <1>15
  <2> QED
    BY <1>8, <1>12, <1>14, <1>15, <2>1, MemberSettles
<1>17. ASSUME NEW z \in Seqs, z # s
       PROVE  /\ gen'[z] \in Ids /\ (z \in failed' <=> z \in failed)
              /\ IF z \in Range(pend') THEN Abandoned(z)' ELSE Settled(z)'
  <2>1. Spared(z, res.kv[z], ref.kv[z])
    BY <1>12, <1>14, <1>15, <1>17, DeliverIs
  <2>2. res.kv[z] = kv[z] /\ ref.kv[z] = refkv[z]
    <3>1. res.kv[z] = kvs[z] /\ ref.kv[z] = rkvs[z]
      BY <1>14, <1>15, <1>17 DEF BothAnswered, Answered, AllHeld
    <3> QED
      BY <1>10, <1>17, <3>1
  <2>3. gen'[z] = gen[z] /\ gen[z] \in Ids /\ (z \in failed' <=> z \in failed)
    BY <1>8, <2>1 DEF Spared, TypeInv
  <2>4. (z \in Range(pend')) <=> (z \in Range(pend))
    BY <1>9, <1>17
  <2>5. CASE z \in failed
    <3>1. z \notin Range(pend')
      BY <1>9, <2>4, <2>5
    <3>2. Settled(z)'
      BY <2>1, <2>5, DroppedSettles DEF Spared
    <3> QED
      BY <2>3, <3>1, <3>2
  <2>6. CASE z \notin failed
    <3>1. kv'[z] = kv[z] /\ refkv'[z] = refkv[z]
      BY <2>1, <2>2, <2>6 DEF Spared
    <3>2. (Settled(z) => Settled(z)') /\ (Abandoned(z) => Abandoned(z)')
      BY <1>7, <2>3, <3>1, AloneStays
    <3> QED
      BY <1>8, <2>3, <2>4, <3>2
  <2> QED
    BY <2>5, <2>6
<1>18. TypeInv'
  <2>1. gen' = [z \in Seqs |-> gen'[z]] /\ kv' = [z \in Seqs |-> kv'[z]] /\ refkv' = [z \in Seqs |-> refkv'[z]]
    BY <1>12, <1>14, DeliverIs
  <2>2. \A z \in Seqs : gen'[z] \in Ids
    BY <1>16, <1>17
  <2>3. Range(pend') \cap failed' = {}
    <3>1. ASSUME NEW z \in Range(pend') PROVE z \notin failed'
      <4>1. z # s /\ z \in Range(pend)
        BY <1>9, <3>1
      <4>2. pend \in Seq(Seqs)
        BY <1>8 DEF TypeInv
      <4>3. z \in Seqs
        BY <4>1, <4>2 DEF Range
      <4> QED
        BY <1>9, <1>17, <4>1, <4>3
    <3> QED
      BY <3>1
  <2> QED
    BY <1>9, <1>14, <2>1, <2>2, <2>3 DEF TypeInv
<1>19. SameAnswers' /\ RowsMeetSequences'
  BY <1>8, <1>12, <1>14, RowsDelivered
<1>20. \A z \in Seqs : IF z \in Range(pend') THEN Abandoned(z)' ELSE Settled(z)'
  BY <1>9, <1>16, <1>17
<1> QED
  BY <1>18, <1>19, <1>20 DEF IInv

\* A sequence whose caches are dropped, and that leaves the recovery.
LEMMA DroppedKeeps ==
  ASSUME IInv, NEW s \in Seqs, w' = w, gen' = gen, pre' = pre, out' = Nothing,
         kv' = [kv EXCEPT ![s] = Empty], refkv' = [refkv EXCEPT ![s] = Empty],
         pend' \in Seq(Seqs), NoDuplicates(pend'), Range(pend') = Range(pend) \ {s},
         failed' \subseteq failed \union {s}
  PROVE  IInv'
<1>1. TypeInv /\ \A z \in Seqs : IF z \in Range(pend) THEN Abandoned(z) ELSE Settled(z)
  BY DEF IInv
<1>2. /\ kv'[s] = Empty /\ refkv'[s] = Empty
      /\ \A z \in Seqs : z # s => kv'[z] = kv[z] /\ refkv'[z] = refkv[z]
  BY <1>1 DEF TypeInv
<1>3. kv' = [z \in Seqs |-> kv'[z]] /\ refkv' = [z \in Seqs |-> refkv'[z]]
  <2>1. DOMAIN kv = Seqs /\ DOMAIN refkv = Seqs
    BY <1>1 DEF TypeInv
  <2> QED
    BY <2>1
<1>4. ASSUME NEW z \in Seqs PROVE IF z \in Range(pend') THEN Abandoned(z)' ELSE Settled(z)'
  <2>1. CASE z = s
    <3>1. Settled(s)'
      BY <1>2, DroppedSettles
    <3> QED
      BY <2>1, <3>1
  <2>2. CASE z # s
    <3>1. gen'[z] = gen[z] /\ kv'[z] = kv[z] /\ refkv'[z] = refkv[z] /\ pre'[z] = pre[z]
      BY <1>2, <2>2
    <3>2. (Settled(z) => Settled(z)') /\ (Abandoned(z) => Abandoned(z)')
      BY <3>1, AloneStays
    <3> QED
      BY <1>1, <2>2, <3>2
  <2> QED
    BY <2>1, <2>2
<1>5. TypeInv'
  <2>1. WellFormed(w') /\ gen' = [z \in Seqs |-> gen'[z]] /\ \A z \in Seqs : gen'[z] \in Ids
    BY <1>1 DEF TypeInv
  <2>2. Range(pend') \cap failed' = {}
    BY <1>1 DEF TypeInv
  <2> QED
    BY <1>3, <2>1, <2>2 DEF TypeInv
<1>6. SameAnswers' /\ RowsMeetSequences'
  BY NothingIs
<1> QED
  BY <1>4, <1>5, <1>6 DEF IInv

\* A member that fails alone, and a sequence that is preempted.
LEMMA DropsKeep ==
  ASSUME IInv, RecoverFail \/ \E s \in Seqs : Preempt(s)
  PROVE  IInv'
<1>1. TypeInv
  BY DEF IInv
<1>2. CASE RecoverFail
  <2>1. PICK s : s = Head(pend)
    OBVIOUS
  <2>2. /\ pend # <<>> /\ pend' = Tail(pend) /\ failed' = failed \union {s}
        /\ kv' = [kv EXCEPT ![s] = Empty] /\ refkv' = [refkv EXCEPT ![s] = Empty]
        /\ w' = w /\ gen' = gen /\ pre' = pre /\ out' = Nothing
    BY <1>2, <2>1 DEF RecoverFail
  <2>3. s \in Seqs /\ pend' \in Seq(Seqs) /\ NoDuplicates(pend') /\ Range(pend') = Range(pend) \ {s}
    BY <1>1, <2>1, <2>2, RecoveryShrinks
  <2> QED
    BY <2>2, <2>3, DroppedKeeps
<1>3. CASE \E s \in Seqs : Preempt(s)
  <2>1. PICK s \in Seqs : Preempt(s)
    BY <1>3
  <2>2. /\ pend' = Erase(pend, {s}) /\ failed' = failed
        /\ kv' = [kv EXCEPT ![s] = Empty] /\ refkv' = [refkv EXCEPT ![s] = Empty]
        /\ w' = w /\ gen' = gen /\ pre' = pre /\ out' = Nothing
    BY <2>1 DEF Preempt
  <2>3. pend \in Seq(Seqs) /\ NoDuplicates(pend)
    BY <1>1 DEF TypeInv
  <2>4. pend' \in Seq(Seqs) /\ NoDuplicates(pend') /\ Range(pend') = Range(pend) \ {s}
    BY <2>2, <2>3, EraseFacts
  <2> QED
    BY <2>2, <2>4, DroppedKeeps
<1> QED
  BY <1>2, <1>3

\* The malformed requests are refused.
LEMMA BadIsRefused ==
  ASSUME NEW s \in Seqs, Length(s) \in Nat, NEW req \in BadRequests(s), NEW kvs, Len(kvs[s][0]) = Length(s)
  PROVE  ~ValidateBatched(req, kvs)
<1>1. PICK n \in Nat : n = Length(s)
  OBVIOUS
<1> DEFINE positions(toks, base) == Rows([t \in 1..Len(toks) |-> base + t - 1])
           ask(toks, base) == [tokens |-> toks, positions |-> positions(toks, base),
                               cu |-> <<0, Len(toks)>>, caches |-> <<s>>, batched |-> TRUE]
           zeros == Rows([t \in 1..(Capacity - Length(s) + 1) |-> 0])
<1>2. \/ req = ask(<<VocabSize>>, Length(s)) \/ req = ask(<<0>>, MaxPos)
      \/ req = ask(<<>>, 0) \/ req = ask(zeros, 0)
  BY Zenon DEF BadRequests
<1>3. ASSUME NEW toks, NEW base, req = ask(toks, base)
      PROVE  /\ req.tokens = toks /\ req.positions = positions(toks, base)
             /\ req.caches = <<s>> /\ Len(req.caches) = 1 /\ req.caches[1] = s
             /\ req.cu[1] = 0 /\ req.cu[2] = Len(toks)
  <2> HIDE DEF positions
  <2> QED
    BY <1>3
<1> HIDE DEF ask, positions
<1>4. CASE req = ask(<<VocabSize>>, Length(s))
  <2>1. Total(req) = 1 /\ req.tokens[1] = VocabSize
    BY <1>3, <1>4 DEF Total
  <2>2. VocabSize \notin Vocab
    BY ModelForwardAssumption DEF Vocab
  <2>3. 1 \in 1..Total(req)
    BY <2>1
  <2> QED
    BY <2>1, <2>2, <2>3 DEF ValidateBatched
<1>5. CASE req = ask(<<0>>, MaxPos)
  <2>1. Total(req) = 1 /\ req.positions = positions(<<0>>, MaxPos)
    BY <1>3, <1>5 DEF Total
  <2>2. positions(<<0>>, MaxPos)[1] = MaxPos
    <3>1. PICK f : f = [t \in 1..1 |-> MaxPos + t - 1]
      OBVIOUS
    <3>2. IsRows(f, 1) /\ f[1] = MaxPos
      BY <3>1, ModelForwardAssumption DEF IsRows
    <3>3. Rows(f) = f
      BY <3>2, RowsIs
    <3>4. positions(<<0>>, MaxPos) = Rows(f)
      BY <3>1 DEF positions
    <3> QED
      BY <3>2, <3>3, <3>4
  <2>3. 1 \in 1..Total(req) /\ ~(MaxPos < MaxPos)
    BY <2>1, ModelForwardAssumption
  <2> QED
    BY <2>1, <2>2, <2>3 DEF ValidateBatched
<1>6. CASE req = ask(<<>>, 0)
  <2>1. Len(req.caches) = 1 /\ req.cu[1] = 0 /\ req.cu[1 + 1] = 0
    BY <1>3, <1>6
  <2> QED
    BY <2>1 DEF ValidateBatched
<1> HIDE DEF zeros
<1>7. CASE req = ask(zeros, 0)
  <2>1. Len(req.caches) = 1 /\ req.caches[1] = s /\ req.cu[1] = 0 /\ req.cu[1 + 1] = Len(zeros)
    BY <1>3, <1>7
  <2>2. PICK k \in Int : k = Capacity - n + 1
    BY ModelForwardAssumption
  <2>3. CASE k \in Nat
    <3>1. PICK f : f = [t \in 1..k |-> 0]
      OBVIOUS
    <3>2. IsRows(f, k)
      BY <3>1 DEF IsRows
    <3>3. Len(zeros) = k
      BY <1>1, <2>2, <2>3, <3>1, <3>2, RowsIs DEF zeros
    <3>4. Span(req, 1) = k
      BY <2>1, <2>2, <3>3 DEF Span
    <3>5. ~(Len(kvs[s][0]) + Span(req, 1) <= Capacity)
      BY <1>1, <2>2, <3>4, ModelForwardAssumption
    <3> QED
      BY <2>1, <3>5 DEF ValidateBatched
  <2>4. CASE k \notin Nat
    <3>1. PICK f : f = [t \in 1..k |-> 0]
      OBVIOUS
    <3>2. 1..k = 1..0
      BY <2>2, <2>4
    <3>3. IsRows(f, 0)
      BY <3>1, <3>2 DEF IsRows
    <3>4. Len(zeros) = 0
      BY <1>1, <2>2, <3>1, <3>3, RowsIs DEF zeros
    <3> QED
      BY <2>1, <3>4 DEF ValidateBatched
  <2> QED
    BY <2>3, <2>4
<1> QED
  BY <1>2, <1>4, <1>5, <1>6, <1>7

\* And leave everything as it was.
LEMMA MalformedKeeps ==
  ASSUME IInv, Malformed
  PROVE  IInv'
<1>1. TypeInv /\ pend = <<>> /\ \A z \in Seqs : IF z \in Range(pend) THEN Abandoned(z) ELSE Settled(z)
  BY DEF IInv, Malformed
<1>2. PICK s \in Running :
        \E req \in BadRequests(s) : Refuse(Forward(w, kv, req, 0), RefForwardBatched(refkv, req, 0))
  BY DEF Malformed
<1>3. PICK req \in BadRequests(s) : Refuse(Forward(w, kv, req, 0), RefForwardBatched(refkv, req, 0))
  BY <1>2
<1>4. s \in Seqs /\ Settled(s)
  BY <1>1, EmptyFacts DEF Running
<1>5. Length(s) \in Nat /\ kv[s] = refkv[s]
  BY <1>1, <1>4, SettledAt
<1>6. Len(kv[s][0]) = Length(s) /\ Len(refkv[s][0]) = Length(s)
  BY <1>5 DEF Length
<1>7. ~ValidateBatched(req, kv) /\ ~ValidateBatched(req, refkv)
  BY <1>4, <1>5, <1>6, BadIsRefused
<1>8. w' = w /\ kv' = kv /\ refkv' = refkv
  BY <1>3, <1>7 DEF Refuse, Forward, RefForwardBatched, Refused
<1>9. out' = Nothing /\ gen' = gen /\ failed' = failed /\ pend' = pend /\ pre' = pre
  BY DEF Malformed
<1>10. ASSUME NEW z \in Seqs PROVE Settled(z)'
  <2>1. Settled(z)
    BY <1>1, EmptyFacts
  <2> QED
    BY <1>8, <1>9, <2>1, AloneStays
<1>11. TypeInv'
  BY <1>1, <1>8, <1>9 DEF TypeInv
<1>12. SameAnswers' /\ RowsMeetSequences'
  BY <1>9, NothingIs
<1>13. Range(pend') = {}
  BY <1>1, <1>9, EmptyFacts
<1> QED
  BY <1>10, <1>11, <1>12, <1>13 DEF IInv

\* The engine starts with empty caches.
LEMMA InitKeeps ==
  ASSUME Init
  PROVE  IInv
<1>1. /\ w = NoWorkspace /\ kv = [s \in Seqs |-> Empty] /\ refkv = kv
      /\ gen = [s \in Seqs |-> <<>>] /\ failed = {} /\ out = Nothing /\ pend = <<>>
  BY DEF Init
<1>2. TypeInv
  <2>1. \A s \in Seqs : gen[s] \in Ids
    BY <1>1 DEF Ids
  <2> QED
    BY <1>1, <2>1, NoWorkspaceIs, EmptyFacts DEF TypeInv
<1>3. ASSUME NEW s \in Seqs PROVE Settled(s)
  <2>1. Holds(Empty, Context(s), 0)
    BY EmptyHolds
  <2>2. Held(s, 0)
    BY DEF Held
  <2> QED
    BY <1>1, <2>1, <2>2 DEF Settled
<1>4. SameAnswers /\ RowsMeetSequences
  <2>1. out.rows = <<>> /\ out.logits = out.ref /\ out.all = out.refAll
    BY <1>1 DEF Nothing
  <2> QED
    BY <2>1 DEF SameAnswers, RowsMeetSequences
<1> QED
  BY <1>1, <1>2, <1>3, <1>4, EmptyFacts DEF IInv

\* Every step keeps the invariant.
LEMMA NextKeeps ==
  ASSUME IInv, [Next]_vars
  PROVE  IInv'
<1>1. CASE Next
  <2>1. CASE Prefill
    BY <2>1, PrefillKeeps
  <2>2. CASE Decode
    BY <2>2, DecodeKeeps
  <2>3. CASE RecoverOk
    BY <2>3, RecoverOkKeeps
  <2>4. CASE RecoverFail \/ \E s \in Seqs : Preempt(s)
    BY <2>4, DropsKeep
  <2>5. CASE Malformed
    BY <2>5, MalformedKeeps
  <2> QED
    BY <1>1, <2>1, <2>2, <2>3, <2>4, <2>5 DEF Next
<1>2. CASE UNCHANGED vars
  <2>1. /\ w' = w /\ kv' = kv /\ refkv' = refkv /\ gen' = gen /\ failed' = failed
        /\ out' = out /\ pend' = pend /\ pre' = pre
    BY <1>2 DEF vars
  <2>2. TypeInv /\ SameAnswers /\ RowsMeetSequences
    BY DEF IInv
  <2>3. TypeInv'
    BY <2>1, <2>2 DEF TypeInv
  <2>4. SameAnswers' /\ RowsMeetSequences'
    BY <2>1, <2>2 DEF SameAnswers, RowsMeetSequences
  <2>5. ASSUME NEW s \in Seqs PROVE IF s \in Range(pend') THEN Abandoned(s)' ELSE Settled(s)'
    <3>1. IF s \in Range(pend) THEN Abandoned(s) ELSE Settled(s)
      BY DEF IInv
    <3>2. (Settled(s) => Settled(s)') /\ (Abandoned(s) => Abandoned(s)')
      BY <2>1, AloneStays
    <3> QED
      BY <2>1, <3>1, <3>2
  <2> QED
    BY <2>3, <2>4, <2>5 DEF IInv
<1> QED
  BY <1>1, <1>2
-----------------------------------------------------------------------------
(* What the model promises, for any prompts, layers, capacity and faults.     *)

\* The inductive invariant: outside a recovery every sequence's two caches
\* are the history of the ids that were fed, in a recovery they roll back to it.
THEOREM ForwardInvariant == Spec => []IInv
<1>1. Init => IInv
  BY InitKeeps
<1>2. IInv /\ [Next]_vars => IInv'
  BY NextKeeps
<1> QED
  BY <1>1, <1>2, PTL DEF Spec

\* OptimizedModel over its reused workspace and ReferenceModel over fresh
\* tensors answer every request alike and, between passes, hold the same caches.
THEOREM OptimizedIsReference == Spec => []OptimizedMatchesReference
<1>1. IInv => OptimizedMatchesReference
  <2> SUFFICES ASSUME IInv PROVE OptimizedMatchesReference
    OBVIOUS
  <2>1. out.logits = out.ref /\ out.all = out.refAll
    BY DEF IInv, SameAnswers
  <2>2. ASSUME pend = <<>> PROVE kv = refkv
    <3>1. \A s \in Seqs : kv[s] = refkv[s]
      BY <2>2, EmptyFacts DEF IInv, Settled
    <3>2. kv = [s \in Seqs |-> kv[s]] /\ refkv = [s \in Seqs |-> refkv[s]]
      BY DEF IInv, TypeInv
    <3> QED
      BY <3>1, <3>2
  <2> QED
    BY <2>1, <2>2 DEF OptimizedMatchesReference
<1> QED
  BY <1>1, ForwardInvariant, PTL

\* Between passes a sequence's cache is empty or what a lone prefill of all but
\* its newest id writes, whatever was batched, abandoned, rolled back and re-run.
THEOREM CachesAreHistory == Spec => []CacheIsHistory
<1>1. IInv => CacheIsHistory
  <2> SUFFICES ASSUME IInv, pend = <<>>, NEW s \in Seqs, Length(s) > 0
               PROVE  /\ Length(s) = Len(Context(s)) - 1
                      /\ kv[s] = Alone(SubSeq(Context(s), 1, Length(s))).cache
    BY DEF CacheIsHistory
  <2>1. TypeInv /\ Settled(s)
    BY EmptyFacts DEF IInv
  <2>2. PICK n \in Nat : n = Length(s) /\ n # 0
    BY <2>1, SettledAt
  <2>3. Held(s, n) /\ Holds(kv[s], Context(s), n) /\ n <= Len(Context(s))
    BY <2>1, <2>2, SettledAt
  <2>4. PICK t \in Ids : t = Context(s)
    BY <2>1, ContextIs
  <2>5. n \in 0..Len(t)
    BY <2>1, <2>3, <2>4, ContextIs
  <2>6. kv[s] = Alone(SubSeq(t, 1, n)).cache
    BY <2>3, <2>4, <2>5, HoldsAlone
  <2>7. n = Len(Context(s)) - 1
    BY <2>2, <2>3 DEF Held
  <2> QED
    BY <2>2, <2>4, <2>6, <2>7
<1> QED
  BY <1>1, ForwardInvariant, PTL

\* Every row the sampler sees is its own sequence's, with the logits a lone
\* prefill of that sequence's context gives; only the rejected rows fail.
THEOREM RowsAreTheirs == Spec => []RowsMeetSequences
<1>1. IInv => RowsMeetSequences
  BY DEF IInv
<1> QED
  BY <1>1, ForwardInvariant, PTL
=============================================================================
