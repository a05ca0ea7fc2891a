----------------------------- MODULE TensorOps -----------------------------
(***************************************************************************)
(* ops.cpp: factories, seeded fills, copy, cast and allclose.  Memory is a *)
(* function from a buffer's element cells to values.  Elements of integer  *)
(* types are integers; a floating value is an integer count of halves, or  *)
(* Inf, -Inf or NaN.  Integer types keep their ranges, the two widest      *)
(* scaled down.                                                            *)
(***************************************************************************)
EXTENDS TensorViews
LOCAL INSTANCE SequencesExt
LOCAL INSTANCE FiniteSetsExt

Inf == 1000000
NaN == 2000000
IsFinite(x) == x \notin {Inf, -Inf, NaN}
Abs(x) == IF x < 0 THEN -x ELSE x

IntRange == [int8 |-> -128..127, uint8 |-> 0..255, int32 |-> -512..511, int64 |-> (-Int64Max - 1)..Int64Max, bool |-> 0..1]
\* Significant bits, and the smallest magnitude (in halves) that rounds to infinity; float32 keeps all.
Digits == [float16 |-> 11, bfloat16 |-> 8]
Overflow == [float16 |-> 131040, bfloat16 |-> Inf]

-----------------------------------------------------------------------------
(* Element conversions.                                                     *)
\* The nearest value of that many significant bits, ties to even.
RoundTo(n, digits) ==
  LET unit == CHOOSE u \in {2^k : k \in 0..20} : (u = 1 \/ Abs(n) >= u * 2^(digits - 1)) /\ Abs(n) < u * 2^digits
      q == Abs(n) \div unit
      r == Abs(n) % unit
      up == 2 * r > unit \/ (2 * r = unit /\ q % 2 = 1)
  IN (IF n < 0 THEN -1 ELSE 1) * unit * (q + IF up THEN 1 ELSE 0)
\* double to a floating element (half.h for the two narrow types).
NarrowFloat(dtype, x) ==
  IF ~IsFinite(x) \/ dtype = "float32" THEN x
  ELSE IF Abs(x) >= Overflow[dtype] THEN (IF x < 0 THEN -Inf ELSE Inf)
  ELSE RoundTo(x, Digits[dtype])
\* double to any element; integer callers have checked the range.
NarrowDouble(dtype, x) == IF is_floating_point(dtype) THEN NarrowFloat(dtype, x) ELSE x \div 2
WidenToDouble(dtype, v) == IF is_floating_point(dtype) THEN v ELSE 2 * v

FitsInteger(dtype, v) == v \in IntRange[dtype]
Trunc(x) == IF ~IsFinite(x) THEN x ELSE IF x < 0 THEN -2 * ((-x) \div 2) ELSE 2 * (x \div 2)
FitsIntegerDtype(dtype, x) == x # NaN /\ Trunc(x) = x /\ IsFinite(x) /\ FitsInteger("int64", x \div 2) /\ FitsInteger(dtype, x \div 2)
IsCastableDtype(dtype) == is_floating_point(dtype) \/ is_integral(dtype)

\* <<value>>, or <<>> when an integer target cannot hold it.
CastElement(src, dst, v) ==
  IF is_floating_point(dst) THEN <<NarrowDouble(dst, WidenToDouble(src, v))>>
  ELSE IF is_floating_point(src)
       THEN IF FitsIntegerDtype(dst, Trunc(v)) THEN <<Trunc(v) \div 2>> ELSE <<>>
       ELSE IF FitsInteger(dst, v) THEN <<v>> ELSE <<>>

-----------------------------------------------------------------------------
(* Cells of a view, in the order ForEachIndex visits them.                  *)
Cell(t, k) == (t.byte_offset \div itemsize(t.dtype)) + ElementOffset(IndexAt(t.dims, k), t.strides)
Walk(t) == 0..(numel(t.dims) - 1)
Store(mem, t, Value(_)) ==
  [mem EXCEPT ![t.buffer] =
     [c \in DOMAIN @ |-> IF \E k \in Walk(t) : Cell(t, k) = c THEN Value(CHOOSE k \in Walk(t) : Cell(t, k) = c) ELSE @[c]]]

-----------------------------------------------------------------------------
(* Factories: <<status>> or <<Ok, elements in row-major order>>.            *)
full(dims, dtype, value, allocates) ==
  LET status == empty(dims, dtype, "cpu", allocates)[1]
                && Require(is_floating_point(dtype) \/ FitsIntegerDtype(dtype, value), Invalid)
  IN IF status # Ok THEN <<status>> ELSE <<Ok, [i \in 1..numel(dims) |-> NarrowDouble(dtype, value)]>>
zeros(dims, dtype, allocates) == full(dims, dtype, 0, allocates)
ones(dims, dtype, allocates) == full(dims, dtype, 2, allocates)

UnsignedMagnitude(v) == IF v < 0 THEN (Uint64Max - (v % (Uint64Max + 1))) + 1 ELSE v
ArangeCount(span, step) ==
  LET uspan == UnsignedMagnitude(span)
      ustep == UnsignedMagnitude(step)
  IN IF (step > 0) # (span > 0) \/ span = 0 THEN 0
     ELSE uspan \div ustep + (IF uspan % ustep # 0 THEN 1 ELSE 0)
arange(start, end, step, dtype, allocates) ==
  LET span == end - start
      count == ArangeCount(span, step)
      last == start + (count - 1) * step
      status == Require(step # 0, Invalid) && (Require(FitsInteger("int64", span), Invalid)
                && (Require(count <= Int64Max, Invalid) && (empty(<<count>>, dtype, "cpu", allocates)[1]
                && Require(count = 0 \/ is_floating_point(dtype) \/ (FitsInteger(dtype, start) /\ FitsInteger(dtype, last)),
                           Invalid))))
  IN IF status # Ok THEN <<status>>
     ELSE <<Ok, [i \in 1..count |-> NarrowDouble(dtype, 2 * (start + (i - 1) * step))]>>

-----------------------------------------------------------------------------
(* Fills.  The generator's outputs are external: the i-th unit draw, and    *)
(* the i-th Box-Muller pair of normal draws.                                *)
ValidateFillTarget(t) == Require(is_floating_point(t.dtype), Invalid)
fill_uniform(mem, t, low, high, units) ==
  LET status == ValidateFillTarget(t)
                && Require(IsFinite(low) /\ IsFinite(high) /\ low <= high /\ IsFinite(high - low), Invalid)
  IN IF status # Ok THEN <<status, mem>>
     ELSE <<Ok, Store(mem, t, LAMBDA k : NarrowDouble(t.dtype, low + units[k + 1] * (high - low)))>>
\* An even element draws a pair and keeps its second for the next one.
fill_normal(mem, t, mean, stddev, pairs) ==
  LET z(k) == pairs[(k \div 2) + 1][(k % 2) + 1]
      status == ValidateFillTarget(t) && Require(IsFinite(mean) /\ IsFinite(stddev) /\ stddev >= 0, Invalid)
  IN IF status # Ok THEN <<status, mem>>
     ELSE <<Ok, Store(mem, t, LAMBDA k : NarrowDouble(t.dtype, mean + stddev * z(k)))>>

-----------------------------------------------------------------------------
(* copy and cast.                                                           *)
\* Mutant: the fast path is taken when the destination alone is contiguous.
copyFastWhenDstContiguous(mem, dst, src) ==
  LET status == Require(dst.dtype = src.dtype, Invalid) && Require(dst.dims = src.dims, Invalid)
      read(k) == IF is_contiguous(dst) THEN mem[src.buffer][Cell(src, 0) + k] ELSE mem[src.buffer][Cell(src, k)]
  IN IF status # Ok THEN <<status, mem>> ELSE IF numel(dst.dims) = 0 THEN <<Ok, mem>> ELSE <<Ok, Store(mem, dst, read)>>
\* Both contiguous: one memcpy of consecutive cells; else element by element.
copy(mem, dst, src) ==
  LET status == Require(dst.dtype = src.dtype, Invalid) && Require(dst.dims = src.dims, Invalid)
      fast == is_contiguous(dst) /\ is_contiguous(src)
      read(k) == IF fast THEN mem[src.buffer][Cell(src, 0) + k] ELSE mem[src.buffer][Cell(src, k)]
  IN IF status # Ok THEN <<status, mem>>
     ELSE IF numel(dst.dims) = 0 \/ (fast /\ dst.buffer = src.buffer /\ Cell(dst, 0) = Cell(src, 0)) THEN <<Ok, mem>>
     ELSE <<Ok, Store(mem, dst, read)>>

cast(mem, src, dtype, allocates) ==
  LET status == empty(src.dims, dtype, "cpu", allocates)[1]
                && Require(IsCastableDtype(src.dtype) /\ IsCastableDtype(dtype), Invalid)
      out(k) == CastElement(src.dtype, dtype, mem[src.buffer][Cell(src, k)])
  IN IF status # Ok THEN <<status>>
     ELSE IF \E k \in Walk(src) : out(k) = <<>> THEN <<Invalid>>
     ELSE <<Ok, [i \in 1..numel(src.dims) |-> out(i - 1)[1]]>>

-----------------------------------------------------------------------------
(* allclose; tolerances are rtol in percent and atol in halves.             *)
CompareElement(dtype, a, b, rtol, atol) ==
  LET diff == IF a = NaN \/ b = NaN THEN NaN ELSE IF IsFinite(a) /\ IsFinite(b) THEN Abs(a - b)
              ELSE IF a = b THEN 0 ELSE Inf
  IN [diff |-> diff,
      close |-> IF ~is_floating_point(dtype) THEN a = b
                ELSE diff # NaN /\ diff # Inf /\ (~IsFinite(a) \/ 100 * diff <= 100 * atol + rtol * Abs(b))]
\* A NaN counts as an infinite difference; the first of the worst is reported.
allclose(mem, a, b, rtol, atol) ==
  LET status == Require(a.dtype = b.dtype, Invalid) && (Require(a.dims = b.dims, Invalid)
                && Require(rtol >= 0 /\ atol >= 0, Invalid))
      cmp(k) == CompareElement(a.dtype, mem[a.buffer][Cell(a, k)], mem[b.buffer][Cell(b, k)], rtol, atol)
      step(acc, k) ==
        LET c == cmp(k)
            badness == IF c.diff = NaN THEN Inf ELSE c.diff
            seen == [acc EXCEPT !.max_abs_diff = IF c.diff = NaN THEN @ ELSE Max({@, c.diff})]
        IN IF c.close THEN seen
           ELSE [seen EXCEPT !.mismatch_count = @ + 1, !.worst = Max({@, badness}),
                             !.worst_index = IF badness > acc.worst THEN k ELSE @]
      result == FoldLeft(step, [max_abs_diff |-> 0, mismatch_count |-> 0, worst |-> -1, worst_index |-> -1],
                         [i \in 1..numel(a.dims) |-> i - 1])
  IN IF status # Ok THEN <<status>> ELSE <<Ok, result>>

-----------------------------------------------------------------------------
(* What the operations promise.                                             *)
\* A copy or a fill writes the view's cells with the k-th value and no other cell.
WritesOnly(mem, t, after, Value(_)) ==
  /\ \A k \in Walk(t) : after[t.buffer][Cell(t, k)] = Value(k)
  /\ \A b \in DOMAIN mem : \A c \in DOMAIN mem[b] :
       after[b][c] # mem[b][c] => b = t.buffer /\ \E k \in Walk(t) : Cell(t, k) = c
CopySound(mem, dst, src, r) ==
  r[1] = Ok => WritesOnly(mem, dst, r[2], LAMBDA k : mem[src.buffer][Cell(src, k)])
\* A strided view gets what a contiguous one of its shape gets.
FillSound(mem, t, flat, r, rflat) ==
  r[1] = Ok => WritesOnly(mem, t, r[2], LAMBDA k : rflat[2][flat.buffer][Cell(flat, k)])
\* Exactly the values from start towards end, all of them representable.
ArangeSound(start, end, step, dtype, r) ==
  LET before(v) == IF step > 0 THEN v < end ELSE v > end
      values == {v \in (-4 * Int64Max)..(4 * Int64Max) : (v - start) % Abs(step) = 0 /\ before(v) /\ (IF step > 0 THEN v >= start ELSE v <= start)}
      nth(i) == start + (i - 1) * step
  IN IF r[1] = Ok
     THEN Len(r[2]) = Cardinality(values) /\ \A i \in DOMAIN r[2] : nth(i) \in values /\ r[2][i] = NarrowDouble(dtype, 2 * nth(i))
     ELSE \/ ~FitsInteger("int64", end - start) \/ Cardinality(values) * itemsize(dtype) > Int64Max
          \/ (~is_floating_point(dtype) /\ \E v \in values : ~FitsInteger(dtype, v))
\* Cast truncates towards zero and refuses exactly what the target cannot hold.
CastSound(mem, src, dtype, r) ==
  LET value(k) == mem[src.buffer][Cell(src, k)]
      half(k) == WidenToDouble(src.dtype, value(k))
      holds(k) == is_floating_point(dtype) \/ (IsFinite(half(k)) /\ \E n \in IntRange[dtype] : Abs(half(k) - 2 * n) < 2 /\ Abs(2 * n) <= Abs(half(k)))
  IN (r[1] = Ok <=> \A k \in Walk(src) : holds(k))
     /\ (r[1] = Ok /\ ~is_floating_point(dtype) =>
           \A k \in Walk(src) : LET n == r[2][k + 1] IN Abs(half(k) - 2 * n) < 2 /\ Abs(2 * n) <= Abs(half(k)))
AllcloseSound(mem, a, b, rtol, atol, r) ==
  LET cmp(k) == CompareElement(a.dtype, mem[a.buffer][Cell(a, k)], mem[b.buffer][Cell(b, k)], rtol, atol)
      far == {k \in Walk(a) : ~cmp(k).close}
      rank(k) == IF cmp(k).diff = NaN THEN Inf ELSE cmp(k).diff
  IN r[1] = Ok =>
       /\ r[2].mismatch_count = Cardinality(far)
       /\ far # {} => r[2].worst_index = Min({k \in far : \A j \in far : rank(j) <= rank(k)})
=============================================================================
