------------------------------ MODULE Kernels ------------------------------
(***************************************************************************)
(* The dispatched kernels whose indexing is easy to get wrong: the packed  *)
(* GEMM, the embedding gathers, RoPE, the reductions and the copies in and *)
(* out of the paged slabs, with the cpu:: references they stand in for.    *)
(* A value is the symbolic expression the code accumulates, operand by     *)
(* operand and in order, so two kernels give the same value exactly when   *)
(* they add the same products in the same order.  Every store is kept with *)
(* the unit that made it, so a cell written twice is seen.  The block      *)
(* constants are scaled down; the code's values are in the comments.       *)
(***************************************************************************)
EXTENDS Integers, Sequences, FiniteSets, JsonNodes
LOCAL INSTANCE SequencesExt
LOCAL INSTANCE FiniteSetsExt

kNr == 2               \* 16 output rows per packed panel
kMc == 3               \* 64 rows per m-block
kNc == 2               \* 8 panels per panel-block
kGemvPanelGrain == 2   \* 8
kTileM == 2            \* 64
kTileN == 3            \* 64
kTileK == 2            \* 256
kGatherChunk == 2      \* 512
kLanes == 4            \* 16 accumulator lanes of a sum
Zero == <<-1>>         \* +0.0

CeilDiv(a, b) == (a + b - 1) \div b
Least(a, b) == IF a < b THEN a ELSE b
\* parallel_for's chunks [begin, end) of the range 0..n-1.
Chunks(n, grain) == {<<c * grain, Least((c + 1) * grain, n)>> : c \in 0..(CeilDiv(n, grain) - 1)}
Within(chunk) == chunk[1]..(chunk[2] - 1)

\* A store: the unit that made it, the cell and the value.
Cells(stores) == {s.at : s \in stores}
WrittenOnce(stores, cells) == Cells(stores) = cells /\ Cardinality(stores) = Cardinality(cells)
Memory(stores) == [c \in Cells(stores) |-> (CHOOSE s \in stores : s.at = c).value]

-----------------------------------------------------------------------------
(* dispatch.cpp: which variant of a kernel runs.                            *)
Abort == "abort"
\* The forced instruction set, "" when unset; fatal rather than a silent fallback.
ResolveIsa(force, best_host) ==
  CASE force = "" -> best_host
    [] force \notin {"scalar", "neon", "avx2"} -> Abort
    [] force # "scalar" /\ force # best_host -> Abort
    [] OTHER -> force
\* The table's entry for the instruction set, the scalar one when there is none.
Select(table, isa) == IF isa \in table THEN isa ELSE "scalar"
\* Vector width and rows per register tile of a variant (8 and 6, 4 and 4).
Width(isa) == CASE isa = "avx2" -> 4 [] isa = "neon" -> 2 [] OTHER -> 1
kMr(isa) == CASE isa = "avx2" -> 3 [] isa = "neon" -> 2 [] OTHER -> 1

-----------------------------------------------------------------------------
(* gemm.cpp: weights repacked into panels of kNr rows, k-major, zero padded. *)
PackedPanels(n) == CeilDiv(n, kNr)
PackWeightPanels(n, k) ==
  [o \in 0..(PackedPanels(n) * k * kNr - 1) |->
     LET row == (o \div (k * kNr)) * kNr + (o % kNr)
     IN IF row < n THEN <<row * k + ((o \div kNr) % k)>> ELSE Zero]

\* What a variant accumulates for row m and lane r of panel p, in ascending k.
Accumulate(wp, k, m, p, r) == [kk \in 1..k |-> <<m * k + kk - 1, wp[(p * k + kk - 1) * kNr + r]>>]

\* Bug kept for comparison: the last panel stored whole, pad columns and all.
StorePanelBlockWhole(acc, mr, p, n, bias, m_base, unit) ==
  {[by |-> unit, at |-> (m_base + i) * n + p * kNr + r, value |-> <<acc[i][r], IF bias THEN <<p * kNr + r>> ELSE <<>>>>] :
     i \in 0..(mr - 1), r \in 0..(kNr - 1)}
\* Only the columns below n are stored; the bias is added once, last.
StorePanelBlock(acc, mr, p, n, bias, m_base, unit) ==
  {[by |-> unit, at |-> (m_base + i) * n + p * kNr + r, value |-> <<acc[i][r], IF bias THEN <<p * kNr + r>> ELSE <<>>>>] :
     i \in 0..(mr - 1), r \in 0..(Least(kNr, n - p * kNr) - 1)}

\* One variant call: rows [m0, m1) by register tiles, panels [p0, p1).
ComputePanel(wp, k, n, bias, mb, mr, p, unit) ==
  StorePanelBlock([i \in 0..(mr - 1) |-> [r \in 0..(kNr - 1) |-> Accumulate(wp, k, mb + i, p, r)]], mr, p, n, bias, mb, unit)
GemmTile(isa, wp, k, n, bias, m0, m1, p0, p1) ==
  UNION {UNION {ComputePanel(wp, k, n, bias, mb, Least(kMr(isa), m1 - mb), p, <<m0, p0, mb, p>>) :
                  mb \in {m \in m0..(m1 - 1) : (m - m0) % kMr(isa) = 0}} : p \in p0..(p1 - 1)}

PackedGemv(isa, wp, k, n, bias) ==
  UNION {GemmTile(isa, wp, k, n, bias, 0, 1, c[1], c[2]) : c \in Chunks(PackedPanels(n), kGemvPanelGrain)}
PackedGemm(isa, m, k, n, bias) ==
  LET wp == PackWeightPanels(n, k)
      panels == PackedPanels(n)
      p_blocks == CeilDiv(panels, kNc)
  IN IF m = 1 THEN PackedGemv(isa, wp, k, n, bias)
     ELSE UNION {LET m0 == (tile \div p_blocks) * kMc
                     p0 == (tile % p_blocks) * kNc
                 IN GemmTile(isa, wp, k, n, bias, m0, Least(m0 + kMc, m), p0, Least(p0 + kNc, panels)) :
                   tile \in 0..(CeilDiv(m, kMc) * p_blocks - 1)}

\* cpu/gemm.cpp: output tiles, k in blocks into one accumulator.
GemmTerms(m, n, k) ==
  FlattenSeq([b \in 1..CeilDiv(k, kTileK) |->
    LET k0 == (b - 1) * kTileK
    IN [j \in 1..(Least(k0 + kTileK, k) - k0) |-> <<m * k + k0 + j - 1, <<n * k + k0 + j - 1>>>>]])
GemmImpl(m, k, n, bias) ==
  LET n_tiles == CeilDiv(n, kTileN)
      tileOf(t) == ((t \div n_tiles) * kTileM)..(Least((t \div n_tiles) * kTileM + kTileM, m) - 1)
      colsOf(t) == ((t % n_tiles) * kTileN)..(Least((t % n_tiles) * kTileN + kTileN, n) - 1)
  IN UNION {{[by |-> t, at |-> i * n + j, value |-> <<GemmTerms(i, j, k), IF bias THEN <<j>> ELSE <<>>>>] :
               i \in tileOf(t), j \in colsOf(t)} : t \in 0..(CeilDiv(m, kTileM) * n_tiles - 1)}

-----------------------------------------------------------------------------
(* The checks before the arithmetic.  A tensor is its dims, dtype and       *)
(* contiguity; an undefined one has no dims and dtype "undefined".          *)
Defined(t) == t.dtype # "undefined"
RequireContiguousRank(t, rank) == Require(Len(t.dims) = rank, Invalid) && Require(t.contiguous, Invalid)
RequireF32(t) == Require(t.dtype = "float32", Invalid)
gemm(a, n, k, c) ==
  RequireContiguousRank(a, 2) && RequireContiguousRank(c, 2) && RequireF32(a) && RequireF32(c)
    && Require(a.dims[2] = k, Invalid) && Require(a.dims[1] >= 1, Invalid) && Require(c.dims = <<a.dims[1], n>>, Invalid)
ReferenceLinearForward(n, k, x, y) ==
  Require(Defined(x), Invalid) && Require(Len(x.dims) = 2 /\ x.dims[2] = k, Invalid) && Require(Defined(y), Invalid)
    && Require(y.dims = <<x.dims[1], n>>, Invalid) && gemm(x, n, k, y)
\* No rows is a CHECK in PackedGemm, not a status.
PackedLinearForward(n, k, x, y) ==
  Require(Defined(x), Invalid) && RequireF32(x) && Require(Len(x.dims) = 2 /\ x.dims[2] = k, Invalid) && Require(x.contiguous, Invalid)
    && Require(Defined(y), Invalid) && RequireF32(y) && Require(y.dims = <<x.dims[1], n>>, Invalid) && Require(y.contiguous, Invalid)
    && Require(x.dims[1] >= 1, Abort)

EmbeddingForward(vocab, e, ids, y) ==
  Require(Defined(y), Invalid) && Require(y.dims = <<Len(ids), e>>, Invalid) && RequireContiguousRank(y, 2) && RequireF32(y)
    && Require(Len(ids) >= 1, Invalid) && Require(\A i \in DOMAIN ids : ids[i] \in 0..(vocab - 1), Invalid)
OptimizedEmbeddingForward(vocab, e, ids, y) ==
  Require(Defined(y), Invalid) && Require(Len(ids) >= 1, Invalid) && RequireF32(y) && Require(y.dims = <<Len(ids), e>>, Invalid)
    && Require(y.contiguous, Invalid) && Require(\A i \in DOMAIN ids : ids[i] \in 0..(vocab - 1), Invalid)

-----------------------------------------------------------------------------
(* embedding.cpp: row-major and packed gathers.                             *)
GatherRowMajor(e, ids) ==
  UNION {{[by |-> t, at |-> (t - 1) * e + j, value |-> <<ids[t] * e + j>>] : j \in 0..(e - 1)} : t \in DOMAIN ids}
\* f32 copies element by element, a half row goes through a buffer of kGatherChunk.
GatherPacked(wp, half, e, ids) ==
  LET col(v, j) == wp[(v \div kNr) * e * kNr + (v % kNr) + j * kNr]
      step == IF half THEN kGatherChunk ELSE 1
  IN UNION {UNION {{[by |-> <<t, off>>, at |-> (t - 1) * e + off + j, value |-> col(ids[t], off + j)] :
                      j \in 0..(Least(step, e - off) - 1)} :
                     off \in {o \in 0..(e - 1) : o % step = 0}} : t \in DOMAIN ids}

-----------------------------------------------------------------------------
(* rope.cpp: halves rotated in place, Width(isa) pairs at a time.  A value  *)
(* is an input cell or the rotation of two values by a table cell.          *)
Rotated(lo, hi, at, sign) == <<lo, hi, <<at>>, <<sign>>>>
RotateGroup(v, half, base, p, j, w) ==
  LET lane(o) == (o - base) % half
  IN [o \in DOMAIN v |->
        IF o \in base..(base + 2 * half - 1) /\ lane(o) \in j..(j + w - 1)
        THEN IF o < base + half THEN Rotated(v[o], v[o + half], p * half + lane(o), -1)
             ELSE Rotated(v[o], v[o - half], p * half + lane(o), 1)
        ELSE v[o]]
\* Where each group of a head's pairs starts, and its width: vectors, then one by one.
Groups(half, w) == [g \in 1..((half \div w) + (half % w)) |->
                      IF g <= half \div w THEN <<(g - 1) * w, w>> ELSE <<(half \div w) * w + g - 1 - half \div w, 1>>]
RopeRows(x, first, count, hx, d, positions, w) ==
  LET heads == [i \in 1..(count * hx) |-> <<first + (i - 1) \div hx, (i - 1) % hx>>]
      oneHead(v, th) == FoldLeft(LAMBDA u, g : RotateGroup(u, d \div 2, (th[1] * hx + th[2]) * d, positions[th[1] + 1], g[1], g[2]),
                                 v, Groups(d \div 2, w))
  IN FoldLeft(oneHead, x, heads)
\* parallel_for with grain 1: a chunk sees its own tokens and positions.
RopeApplyF32(isa, t, hx, d, positions) ==
  FoldLeft(LAMBDA v, tok : RopeRows(v, tok, 1, hx, d, positions, Width(isa)), [o \in 0..(t * hx * d - 1) |-> <<o>>],
           [i \in 1..t |-> i - 1])
rope_apply(t, hx, d, positions) ==
  [o \in 0..(t * hx * d - 1) |->
     LET half == d \div 2
         j == o % d
         at == positions[o \div (hx * d) + 1] * half + (j % half)
     IN IF j < half THEN Rotated(<<o>>, <<o + half>>, at, -1) ELSE Rotated(<<o>>, <<o - half>>, at, 1)]

-----------------------------------------------------------------------------
(* reduce.cpp: sums in kLanes lanes folded by halves; the total-order max.  *)
Plus(a, b) == <<a, b>>
AddLane(lanes, i) == [lanes EXCEPT ![i % kLanes] = Plus(lanes[i % kLanes], <<i>>)]
RECURSIVE FoldLanes(_, _)
FoldLanes(lanes, half) ==
  IF half = 0 THEN lanes[0]
  ELSE FoldLanes([j \in 0..(half - 1) |-> Plus(lanes[j], lanes[j + half])], half \div 2)
NoLanes == [j \in 0..(kLanes - 1) |-> Zero]
Upto(a, b) == [i \in 1..(b - a + 1) |-> a + i - 1]
SumScalar(n) == FoldLanes(FoldLeft(AddLane, NoLanes, Upto(0, n - 1)), kLanes \div 2)
\* Whole vectors of kLanes first, the rest into the spilled lanes.
SumVector(n) ==
  LET whole == (n \div kLanes) * kLanes
      vectors == FoldLeft(LAMBDA l, b : [j \in DOMAIN l |-> Plus(l[j], <<(b - 1) * kLanes + j>>)], NoLanes, Upto(1, n \div kLanes))
  IN FoldLanes(FoldLeft(AddLane, vectors, Upto(whole, n - 1)), kLanes \div 2)

\* A number with its sign bit: the zeros are <<0, TRUE>> and <<0, FALSE>>.
TotalOrderMax(a, b) == IF a[1] < b[1] THEN b ELSE IF b[1] < a[1] THEN a ELSE IF a[2] THEN b ELSE a
MaxScalar(x) == FoldLeft(TotalOrderMax, x[1], Tail(x))
\* maxps keeps the second operand of a tie; the blend then takes the AND of the two.
Blend(a, b) == IF a[1] = b[1] THEN <<a[1], a[2] /\ b[2]>> ELSE IF a[1] > b[1] THEN a ELSE b
MaxVector(x, w) ==
  LET n == Len(x)
      whole == (n \div w) * w
      lanes == FoldLeft(LAMBDA acc, b : [j \in 1..w |-> Blend(acc[j], x[b * w + j])], SubSeq(x, 1, w), Upto(1, n \div w - 1))
      start == IF n >= w THEN FoldLeft(TotalOrderMax, lanes[1], Tail(lanes)) ELSE x[1]
  IN FoldLeft(TotalOrderMax, start, SubSeq(x, IF n >= w THEN whole + 1 ELSE 2, n))

-----------------------------------------------------------------------------
(* kv_scatter.cpp and kv_gather.cpp: rows of d floats in and out of a slab  *)
(* of [blocks, kv heads, block slots].                                      *)
KvScatterF32(rows, slots, kv_heads, bs) ==
  UNION {{[by |-> <<t, h>>, at |-> ((slots[t] \div bs) * kv_heads) * bs + (slots[t] % bs) + h * bs, value |-> rows[(t - 1) * kv_heads + h]] :
            h \in 0..(kv_heads - 1)} : t \in DOMAIN slots}
KvGatherF32(slab, table, bs, length, kv_heads) ==
  LET num_blocks == CeilDiv(length, bs)
      unit(u) == LET h == u \div num_blocks
                     b == u % num_blocks
                 IN {[by |-> u, at |-> h * length + b * bs + i, value |-> slab[table[b + 1] * kv_heads * bs + h * bs + i]] :
                       i \in 0..(Least(bs, length - b * bs) - 1)}
  IN IF length = 0 THEN {} ELSE UNION {unit(u) : u \in 0..(kv_heads * num_blocks - 1)}
Slots(table, bs, length) == [t \in 1..length |-> table[(t - 1) \div bs + 1] * bs + ((t - 1) % bs)]

-----------------------------------------------------------------------------
(* References.                                                              *)

\* The packed GEMM stores every output once, pads never, and adds the same products in the same order as cpu::gemm.
GemmAgrees(m, k, n, bias, packed) ==
  LET plain == GemmImpl(m, k, n, bias)
      cells == 0..(m * n - 1)
  IN WrittenOnce(packed, cells) /\ WrittenOnce(plain, cells) /\ Memory(packed) = Memory(plain)

\* The two Linears, and the two embeddings, accept the same tensors; only the packed one stops the program on no rows.
ForwardsAgree(n, k, ids, x, y, out) ==
  /\ \/ out.linear = ReferenceLinearForward(n, k, x, y)
     \/ out.linear = Abort /\ ReferenceLinearForward(n, k, x, y) = Invalid /\ x.dims[1] = 0
  /\ out.embedding = EmbeddingForward(n, k, ids, y)

\* Reading rows of the packed weight, a chunk or an element at a time, gives the rows of the table.
EmbeddingAgrees(e, ids, packed) ==
  WrittenOnce(packed, 0..(Len(ids) * e - 1)) /\ Memory(packed) = Memory(GatherRowMajor(e, ids))

\* Every variant rotates as the reference does: each pair once, from the values before the rotation, by its own position's angle.
RopeAgrees(t, hx, d, positions, out) == out = rope_apply(t, hx, d, positions)

\* Every variant sums and takes the maximum as the scalar one, to the order of the additions and the sign of a zero.
ReduceAgrees(x, out) == out.sum = SumScalar(Len(x)) /\ out.max = MaxScalar(x)

\* What was scattered through a block table is gathered head by head, in order, whatever the table.
CopiesAgree(length, kv_heads, out) ==
  /\ WrittenOnce(out, 0..(length * kv_heads - 1))
  /\ \A h \in 0..(kv_heads - 1), s \in 0..(length - 1) : Memory(out)[h * length + s] = <<s * kv_heads + h>>
=============================================================================
