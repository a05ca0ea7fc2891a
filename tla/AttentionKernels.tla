-------------------------- MODULE AttentionKernels --------------------------
(***************************************************************************)
(* Attention: the blocked online-softmax kernels (one sequence's prefill,  *)
(* the ragged prefill, decode over a contiguous cache, decode through a    *)
(* block table, one sequence or a batch) and cpu::attention.  Addresses    *)
(* count rows of d floats.  A K/V row is <<sequence, kv head, position>>,  *)
(* a query <<sequence, token, head>>; the score of a query and a key comes *)
(* from the call.  exp(x) is 2^x, kept as a multiple of 2^-kScale, so the  *)
(* recurrence is exact; ops keeps what it did, in order.                   *)
(***************************************************************************)
EXTENDS Kernels
LOCAL INSTANCE SequencesExt
LOCAL INSTANCE FiniteSetsExt

kAttnQb == 2                 \* 32 query rows per block
kAttnKb == 4                 \* 64 keys per block
kAttnDecodeGroupChunk == 2   \* 8 query heads per slice
kScale == 3
NegInf == -100
One == 2 ^ kScale
Exp2(x) == IF x < -kScale THEN 0 ELSE 2 ^ (x + kScale)
Times(a, b) == (a * b) \div One

\* scores is any function on 0..n-1; the call's pattern, read at an index that mixes query and key.
Score(f, q, row) == f[(row[3] + row[2] + q[2] + 2 * q[3]) % Cardinality(DOMAIN f)]

-----------------------------------------------------------------------------
(* The four primitives (ScalarOps and its vector copies).                   *)
DotScoreRow(f, q, krows, off, scores) ==
  [scores |-> [j \in DOMAIN scores |-> IF j \in off..(off + Len(krows) - 1) THEN Score(f, q, krows[j - off + 1]) ELSE scores[j]],
   max |-> FoldLeft(LAMBDA a, row : IF Score(f, q, row) > a THEN Score(f, q, row) ELSE a, NegInf, krows)]
ExpRow(scores, n, m_new) == [j \in DOMAIN scores |-> IF j < n THEN Exp2(scores[j] - m_new) ELSE scores[j]]
RowSum(scores, n) == FoldLeft(LAMBDA a, j : a + scores[j], 0, Upto(0, n - 1))
ScaleRow(out, s) == [r \in DOMAIN out |-> Times(out[r], s)]
AxpyRow(out, s, row) == [r \in DOMAIN out \union {row} |-> (IF r \in DOMAIN out THEN out[r] ELSE 0) + (IF r = row THEN s ELSE 0)]

Fresh == [max |-> NegInf, den |-> 0, out |-> <<>>, ops |-> <<>>]
Larger(a, b) == IF a > b THEN a ELSE b
\* One key block for one query, its keys scored: rescale, add the block's exponentials, weight its V rows.
OnlineStep(run, scored, n_valid, vrows) ==
  LET m_new == Larger(scored.max, run.max)
      alpha == Exp2(run.max - m_new)
      row == ExpRow(scored.scores, n_valid, m_new)
  IN [max |-> m_new, den |-> Times(run.den, alpha) + RowSum(row, n_valid),
      out |-> FoldLeft(LAMBDA o, j : AxpyRow(o, row[j - 1], vrows[j]), ScaleRow(run.out, alpha), Upto(1, Len(vrows))),
      ops |-> Append(run.ops, <<n_valid, vrows>>)]
NoScores == [j \in 0..(kAttnKb - 1) |-> NegInf]
KeyBlocks(limit) == [b \in 1..(limit \div kAttnKb + 1) |-> (b - 1) * kAttnKb]
NValid(limit, kb, l_dim) == Least(limit - kb + 1, Least(kAttnKb, l_dim - kb))
RowsAt(slab, base, n) == [j \in 1..n |-> slab[base + j - 1]]

-----------------------------------------------------------------------------
(* Prefill: units are (query head, query block) pairs.                      *)
PrefillRow(a, t, h) ==
  LET k_head == (h \div a.group) * a.l_dim
      limit == a.past + t
      q == a.q[t * a.heads + h]
      step(run, kb) ==
        LET rows == RowsAt(a.kv, k_head + kb, NValid(limit, kb, a.l_dim))
        IN OnlineStep(run, DotScoreRow(a.f, q, rows, 0, NoScores), Len(rows), rows)
  IN FoldLeft(step, Fresh, KeyBlocks(limit))
PrefillUnit(a, unit) ==
  LET h == unit \div a.num_qblocks
      q0 == (unit % a.num_qblocks) * kAttnQb
  IN {[by |-> unit, at |-> t * a.heads + h, value |-> PrefillRow(a, t, h)] : t \in q0..(Least(q0 + kAttnQb, a.t_dim) - 1)}
PrefillUnits(a, begin, end) == UNION {PrefillUnit(a, u) : u \in begin..(end - 1)}

PrefillArgs(q, kv, f, t_dim, heads, kv_heads, l_dim) ==
  [q |-> q, kv |-> kv, f |-> f, t_dim |-> t_dim, heads |-> heads, l_dim |-> l_dim, group |-> heads \div kv_heads,
   past |-> l_dim - t_dim, num_qblocks |-> CeilDiv(t_dim, kAttnQb)]
PrefillAttentionF32(q, kv, f, t_dim, heads, kv_heads, l_dim) ==
  LET a == PrefillArgs(q, kv, f, t_dim, heads, kv_heads, l_dim)
  IN UNION {PrefillUnits(a, c[1], c[2]) : c \in Chunks(heads * a.num_qblocks, 1)}

\* Ragged prefill: sequence b owns the units [S_b, S_(b+1)); a chunk runs the local part of each sequence it meets.
UnitBase(cu, heads, b) == FoldLeft(LAMBDA s, i : s + heads * CeilDiv(cu[i + 1] - cu[i], kAttnQb), 0, Upto(1, b - 1))
PrefillVarlenUnits(q, cu, kvs, f, l_dims, heads, kv_heads, begin, end) ==
  UNION {LET t_dim == cu[b + 1] - cu[b]
             base == UnitBase(cu, heads, b)
             lo == Larger(begin, base)
             hi == Least(end, UnitBase(cu, heads, b + 1))
             a == PrefillArgs([i \in 0..(t_dim * heads - 1) |-> q[cu[b] * heads + i]], kvs[b], f, t_dim, heads, kv_heads, l_dims[b])
         IN IF lo < hi
            THEN {[by |-> <<b, s.by>>, at |-> cu[b] * heads + s.at, value |-> s.value] : s \in PrefillUnits(a, lo - base, hi - base)}
            ELSE {} : b \in DOMAIN kvs}
PrefillAttentionVarlenF32(q, cu, kvs, f, l_dims, heads, kv_heads) ==
  UNION {PrefillVarlenUnits(q, cu, kvs, f, l_dims, heads, kv_heads, c[1], c[2]) : c \in Chunks(UnitBase(cu, heads, Len(kvs) + 1), 1)}

-----------------------------------------------------------------------------
(* Decode: a unit is a kv head; its query heads go in slices, every slice   *)
(* streaming the keys once.  The score row is shared by the slice's heads.  *)
Slice(hk, group, g0) == Upto(hk * group + g0, hk * group + g0 + Least(kAttnDecodeGroupChunk, group - g0) - 1)
Slices(group) == {g \in 0..(group - 1) : g % kAttnDecodeGroupChunk = 0}
\* One key block for the heads of a slice in turn: Block gives the scored row and the V rows for a head.
SliceStep(st, heads, n_valid, Block(_, _)) ==
  FoldLeft(LAMBDA s, h : LET b == Block(h, s.scores)
                         IN [scores |-> ExpRow(b.scored.scores, n_valid, Larger(b.scored.max, s.runs[h].max)),
                             runs |-> [s.runs EXCEPT ![h] = OnlineStep(@, b.scored, n_valid, b.vrows)]], st, heads)
SliceStart(heads) == [scores |-> NoScores, runs |-> [h \in ToSet(heads) |-> Fresh]]

DecodeGroupSlice(a, hk, heads) ==
  LET limit == a.l_dim - 1
      step(st, kb) ==
        LET rows == RowsAt(a.kv, hk * a.l_dim + kb, NValid(limit, kb, a.l_dim))
            block(h, scores) == [scored |-> DotScoreRow(a.f, a.q[h], rows, 0, scores), vrows |-> rows]
        IN SliceStep(st, heads, Len(rows), block)
  IN FoldLeft(step, SliceStart(heads), KeyBlocks(limit)).runs
SliceStores(heads, runs, unit) == {[by |-> unit, at |-> h, value |-> runs[h]] : h \in ToSet(heads)}
DecodeUnits(a, begin, end) ==
  UNION {UNION {LET heads == Slice(hk, a.group, g0) IN SliceStores(heads, DecodeGroupSlice(a, hk, heads), <<hk, g0>>) :
                  g0 \in Slices(a.group)} : hk \in begin..(end - 1)}
DecodeAttentionF32(q, kv, f, heads, kv_heads, l_dim) ==
  LET a == [q |-> q, kv |-> kv, f |-> f, l_dim |-> l_dim, group |-> heads \div kv_heads]
  IN UNION {DecodeUnits(a, c[1], c[2]) : c \in Chunks(kv_heads, 1)}

-----------------------------------------------------------------------------
(* Paged decode: the keys of a block of kAttnKb come from whole cache       *)
(* blocks through the table, the last one clipped to n_valid.               *)
\* The rows of logical block lb, at most n of them.
TileRows(slab, a, hk, lb, n) == RowsAt(slab, a.table[lb + 1] * a.block_stride + hk * a.bs, Least(a.bs, n))
PagedDecodeGroupSlice(a, hk, heads) ==
  LET limit == a.length - 1
      step(st, kb) ==
        LET n_valid == NValid(limit, kb, a.length)
            tiles == [b \in 1..CeilDiv(n_valid, a.bs) |-> TileRows(a.slab, a, hk, kb \div a.bs + b - 1, n_valid - (b - 1) * a.bs)]
            fold(h, acc, b) == LET d == DotScoreRow(a.f, a.q[h], tiles[b], (b - 1) * a.bs, acc.scores)
                               IN [scores |-> d.scores, max |-> IF d.max > acc.max THEN d.max ELSE acc.max]
            block(h, scores) ==
              [scored |-> FoldLeft(LAMBDA acc, b : fold(h, acc, b), [scores |-> scores, max |-> NegInf], Upto(1, Len(tiles))),
               vrows |-> FlattenSeq(tiles)]
        IN SliceStep(st, heads, n_valid, block)
  IN FoldLeft(step, SliceStart(heads), KeyBlocks(limit)).runs
PagedDecodeUnits(a, begin, end) ==
  UNION {UNION {LET heads == Slice(hk, a.group, g0) IN SliceStores(heads, PagedDecodeGroupSlice(a, hk, heads), <<hk, g0>>) :
                  g0 \in Slices(a.group)} : hk \in begin..(end - 1)}
PagedDecodeArgs(q, slab, table, f, length, heads, kv_heads, bs) ==
  [q |-> q, slab |-> slab, table |-> table, f |-> f, length |-> length, group |-> heads \div kv_heads, bs |-> bs, block_stride |-> kv_heads * bs]
\* CHECK: a key block is a whole number of cache blocks.
BlockSizeOk(bs) == bs > 0 /\ kAttnKb % bs = 0
PagedDecodeAttentionF32(q, slab, table, f, length, heads, kv_heads, bs) ==
  UNION {PagedDecodeUnits(PagedDecodeArgs(q, slab, table, f, length, heads, kv_heads, bs), c[1], c[2]) : c \in Chunks(kv_heads, 1)}
\* Batch: unit u is kv head u % Hkv of sequence u / Hkv; the slab is shared.
PagedDecodeAttentionBatchedF32(q, slab, tables, f, lengths, heads, kv_heads, bs) ==
  UNION {LET b == u \div kv_heads
             own == [h \in 0..(heads - 1) |-> q[b * heads + h]]
             a == PagedDecodeArgs(own, slab, tables[b + 1], f, lengths[b + 1], heads, kv_heads, bs)
         IN {[by |-> <<u, s.by>>, at |-> b * heads + s.at, value |-> s.value] : s \in PagedDecodeUnits(a, u % kv_heads, (u % kv_heads) + 1)} :
           u \in 0..(Len(tables) * kv_heads - 1)}

-----------------------------------------------------------------------------
(* cpu/attention.cpp: scores of every key, -inf past the causal limit, the  *)
(* softmax of the row, then the weighted V rows.                            *)
AttentionStatus(qd, kd, vd, od) ==
  Require(Len(qd) = 3 /\ Len(kd) = 3 /\ Len(vd) = 3 /\ Len(od) = 3, Invalid)
    && Require(\A i \in 1..3 : qd[i] >= 1, Invalid) && Require(kd[1] >= 1 /\ kd[2] >= 1 /\ kd[3] = qd[3], Invalid)
    && Require(vd = kd, Invalid) && Require(qd[2] % kd[1] = 0, Invalid) && Require(kd[2] >= qd[1], Invalid) && Require(od = qd, Invalid)
ScorePass(q, kv, f, t_dim, heads, group, l_dim) ==
  [row \in 0..(heads * t_dim - 1) |->
     LET h == row \div t_dim
         t == row % t_dim
     IN [s \in 0..(l_dim - 1) |-> IF s > l_dim - t_dim + t THEN NegInf ELSE Score(f, q[t * heads + h], kv[(h \div group) * l_dim + s])]]
\* The row's exponentials, and their sum left undivided.
softmax(x) == LET m == Max({x[s] : s \in DOMAIN x}) IN [s \in DOMAIN x |-> Exp2(x[s] - m)]
ContextPass(probs, kv, t_dim, heads, group, l_dim) ==
  {LET h == row \div t_dim
       t == row % t_dim
       p == probs[row]
   IN [by |-> row, at |-> t * heads + h,
       value |-> [den |-> RowSum(p, l_dim), out |-> [r \in {kv[(h \div group) * l_dim + s] : s \in DOMAIN p} |-> p[r[3]]]]] :
     row \in 0..(heads * t_dim - 1)}
attention(q, kv, f, t_dim, heads, kv_heads, l_dim) ==
  LET group == heads \div kv_heads
      scores == ScorePass(q, kv, f, t_dim, heads, group, l_dim)
  IN ContextPass([row \in DOMAIN scores |-> softmax(scores[row])], kv, t_dim, heads, group, l_dim)

-----------------------------------------------------------------------------
(* References.                                                              *)

\* The same weighted mean of V rows, fractions compared by cross-multiplication.
WeightOf(value, row) == IF row \in DOMAIN value.out THEN value.out[row] ELSE 0
SameMean(a, b) ==
  a.den > 0 /\ \A row \in DOMAIN a.out \union DOMAIN b.out : WeightOf(a, row) * b.den = WeightOf(b, row) * a.den

\* The K/V rows of sequence b, head-major, and its queries for the last t positions.
Contiguous(b, kv_heads, l) == [i \in 0..(kv_heads * l - 1) |-> <<b, i \div l, i % l>>]
Queries(b, t, heads) == [i \in 0..(t * heads - 1) |-> <<b, i \div heads, i % heads>>]

\* A ragged batch: where each sequence's tokens start, its queries end to end.
CuSeqlens(spans) == [b \in 1..(Len(spans) + 1) |-> FoldLeft(LAMBDA s, i : s + spans[i][1], 0, Upto(1, b - 1))]
RaggedQueries(spans, heads) ==
  LET cu == CuSeqlens(spans)
      seqOf(i) == Max({b \in DOMAIN spans : cu[b] * heads <= i})
  IN [i \in 0..(cu[Len(spans) + 1] * heads - 1) |-> Queries(seqOf(i), spans[seqOf(i)][1], heads)[i - cu[seqOf(i)] * heads]]
\* A decode batch: the slab its sequences were scattered to, and a query each.
SharedSlab(tables, lengths, kv_heads, bs) ==
  LET tokens(b) == [i \in 0..(lengths[b] * kv_heads - 1) |-> <<b, i % kv_heads, i \div kv_heads>>]
  IN Memory(UNION {KvScatterF32(tokens(b), Slots(tables[b], bs, lengths[b]), kv_heads, bs) : b \in DOMAIN tables})
BatchQueries(n, heads) == [i \in 0..(n * heads - 1) |-> <<i \div heads + 1, 0, i % heads>>]

\* Blocked prefill is cpu::attention: each output once, over its own kv head's keys up to its position and no other.
PrefillAgrees(f, t, heads, kv_heads, l, fast) ==
  LET plain == Memory(attention(Queries(0, t, heads), Contiguous(0, kv_heads, l), f, t, heads, kv_heads, l))
  IN /\ AttentionStatus(<<t, heads, 1>>, <<kv_heads, l, 1>>, <<kv_heads, l, 1>>, <<t, heads, 1>>) = Ok
     /\ WrittenOnce(fast, 0..(t * heads - 1))
     /\ \A c \in DOMAIN plain : SameMean(Memory(fast)[c], plain[c])

\* The ragged prefill does for each sequence what its own prefill does, operation for operation.
VarlenAgrees(f, spans, heads, kv_heads, ragged) ==
  LET B == Len(spans)
      cu == CuSeqlens(spans)
      alone(b) == Memory(PrefillAttentionF32(Queries(b, spans[b][1], heads), Contiguous(b, kv_heads, spans[b][2]), f,
                                             spans[b][1], heads, kv_heads, spans[b][2]))
  IN /\ WrittenOnce(ragged, 0..(cu[B + 1] * heads - 1))
     /\ \A b \in 1..B : LET own == alone(b) IN \A i \in DOMAIN own : Memory(ragged)[cu[b] * heads + i] = own[i]

\* Decode over the contiguous cache, through a block table, and in a batch over one shared slab are one prefill of
\* one token, operation for operation: slices, cache blocks and the batch change nothing.
DecodeAgrees(f, tables, lengths, heads, kv_heads, bs, batch) ==
  LET B == Len(tables)
      slab == SharedSlab(tables, lengths, kv_heads, bs)
      sound(b) ==
        LET own == Queries(b, 1, heads)
            kv == Memory(KvGatherF32(slab, tables[b], bs, lengths[b], kv_heads))
            prefill == Memory(PrefillAttentionF32(own, kv, f, 1, heads, kv_heads, lengths[b]))
            contiguous == DecodeAttentionF32(own, kv, f, heads, kv_heads, lengths[b])
            paged == PagedDecodeAttentionF32(own, slab, tables[b], f, lengths[b], heads, kv_heads, bs)
        IN /\ WrittenOnce(contiguous, 0..(heads - 1)) /\ WrittenOnce(paged, 0..(heads - 1))
           /\ Memory(contiguous) = prefill /\ Memory(paged) = prefill
           /\ \A h \in 0..(heads - 1) : Memory(batch)[(b - 1) * heads + h] = prefill[h]
  IN BlockSizeOk(bs) => WrittenOnce(batch, 0..(B * heads - 1)) /\ \A b \in 1..B : sound(b)
=============================================================================
