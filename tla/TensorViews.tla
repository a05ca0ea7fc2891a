---------------------------- MODULE TensorViews ----------------------------
(***************************************************************************)
(* Tensors as views of a buffer: data types, shapes, strides, the two      *)
(* factories and the view operations.  A view is a record; a call gives    *)
(* <<status>> or <<Ok, view>>.  Int64Max and Uint64Max are scaled so that  *)
(* the overflow checks can fail.                                           *)
(***************************************************************************)
EXTENDS Integers, Sequences, FiniteSets, JsonNodes
LOCAL INSTANCE SequencesExt
LOCAL INSTANCE FiniteSetsExt


Int64Max == 1023
Uint64Max == 2047
kMaxRank == 3

\* dtype.h: bits per element; kInt4 and kFP8E4M3 are reserved.
ItemBits ==
  [float32 |-> 32, float16 |-> 16, bfloat16 |-> 16, int8 |-> 8, uint8 |-> 8, int32 |-> 32, int64 |-> 64,
   bool |-> 8, fp8_e4m3 |-> 8, int4 |-> 4]
DataTypes == DOMAIN ItemBits
is_floating_point(dtype) == dtype \in {"float32", "float16", "bfloat16", "fp8_e4m3"}
is_integral(dtype) == dtype \in {"int8", "uint8", "int32", "int64", "int4"}
itemsize(dtype) == ItemBits[dtype] \div 8
IsReservedDataType(dtype) == dtype \in {"int4", "fp8_e4m3"}

-----------------------------------------------------------------------------
(* shape.h                                                                  *)
Product(s) == FoldLeft(LAMBDA acc, d : acc * d, 1, s)

\* Rank first, then each dimension in order; overflow is judged on the non-zero ones.
ValidateDims(dims) ==
  LET product(k) == Product(SelectSeq(SubSeq(dims, 1, k), LAMBDA d : d # 0))
      bad == {i \in DOMAIN dims : dims[i] < 0 \/ ((\A j \in 1..i : dims[j] >= 0) /\ product(i) > Int64Max)}
  IN IF Len(dims) > kMaxRank THEN "rank" ELSE IF bad = {} THEN "none"
     ELSE IF dims[Min(bad)] < 0 THEN "negative" ELSE "overflow"
FromDims(dims) == Require(ValidateDims(dims) = "none", Invalid)
numel(dims) == Product(dims)

RowMajorStrides(dims) ==
  [i \in DOMAIN dims |-> Product([j \in 1..(Len(dims) - i) |-> Max({dims[i + j], 1})])]

\* Size-1 dimensions are skipped, and contribute a factor of one.
IsContiguous(dims, strides) ==
  \/ numel(dims) = 0
  \/ \A i \in DOMAIN dims : dims[i] = 1 \/ strides[i] = Product(SubSeq(dims, i + 1, Len(dims)))

-----------------------------------------------------------------------------
(* tensor.cpp                                                               *)
View(buffer, size, offset, dims, strides, dtype, device) ==
  [buffer |-> buffer, size |-> size, byte_offset |-> offset, dims |-> dims, strides |-> strides,
   dtype |-> dtype, device |-> device]
is_contiguous(t) == IsContiguous(t.dims, t.strides)

\* A fresh buffer of exactly the bytes; the allocator may refuse.
empty(dims, dtype, device, allocates) ==
  LET bytes == numel(dims) * itemsize(dtype)
      status == Require(~IsReservedDataType(dtype), Unimplemented) && (Require(device = "cpu", Unimplemented)
                && (Require(bytes <= Int64Max, Invalid) && Require(allocates, "OutOfMemory")))
  IN IF status # Ok THEN <<status>>
     ELSE <<Ok, View("fresh", bytes, 0, dims, RowMajorStrides(dims), dtype, device)>>

from_buffer(size, byte_offset, dims, dtype) ==
  LET bytes == numel(dims) * itemsize(dtype)
      status == Require(~IsReservedDataType(dtype), Unimplemented) && (Require(bytes <= Uint64Max, Invalid)
                && Require(byte_offset + bytes <= Uint64Max /\ byte_offset + bytes <= size, Invalid))
  IN IF status # Ok THEN <<status>> ELSE <<Ok, View("given", size, byte_offset, dims, RowMajorStrides(dims), dtype, "cpu")>>

\* dim counts from 1.
slice(t, dim, start, end) ==
  LET status == Require(dim \in DOMAIN t.dims, Invalid)
                && Require(0 <= start /\ start <= end /\ end <= t.dims[dim], Invalid)
  IN IF status # Ok THEN <<status>>
     ELSE <<Ok, [t EXCEPT !.dims[dim] = end - start,
                          !.byte_offset = @ + start * t.strides[dim] * itemsize(t.dtype)]>>

reshape(t, dims) ==
  LET status == Require(numel(dims) = numel(t.dims), Invalid) && Require(is_contiguous(t), Invalid)
  IN IF status # Ok THEN <<status>> ELSE <<Ok, [t EXCEPT !.dims = dims, !.strides = RowMajorStrides(dims)]>>

to(t, device) ==
  LET status == Require(is_contiguous(t), Invalid) && Require(device = t.device, Unimplemented)
  IN IF status # Ok THEN <<status>> ELSE <<Ok, t>>

view_as_dtype(t, dtype) ==
  LET status == Require(~IsReservedDataType(dtype), Unimplemented)
                && Require(ItemBits[dtype] = ItemBits[t.dtype], Invalid)
  IN IF status # Ok THEN <<status>> ELSE <<Ok, [t EXCEPT !.dtype = dtype]>>

\* ForEachIndex: the k-th index (from 0) of the row-major walk, and all of them.
IndexAt(dims, k) ==
  [i \in DOMAIN dims |-> (k \div Product(SubSeq(dims, i + 1, Len(dims)))) % dims[i]]
Indices(dims) == {IndexAt(dims, k) : k \in 0..(numel(dims) - 1)}
\* The element an index addresses (item, ops.cpp's ElementOffset).
ElementOffset(index, strides) == FoldLeft(LAMBDA acc, i : acc + index[i] * strides[i], 0, [i \in DOMAIN index |-> i])
ItemAddress(t, index) == t.byte_offset + ElementOffset(index, t.strides) * itemsize(t.dtype)

-----------------------------------------------------------------------------
\* A view is sound: its elements are distinct, aligned to the buffer's start plus the view's base,
\* and inside the buffer, and contiguous is exactly "the k-th element is k elements past the first".
ViewSound(t) ==
  /\ \A i \in Indices(t.dims) :
       ItemAddress(t, i) >= 0 /\ ItemAddress(t, i) + itemsize(t.dtype) <= t.size
  /\ Cardinality({ItemAddress(t, i) : i \in Indices(t.dims)}) = numel(t.dims)
  /\ is_contiguous(t) <=>
       \A k \in 0..(numel(t.dims) - 1) : ElementOffset(IndexAt(t.dims, k), t.strides) = k

\* One view operation and what it must preserve: the elements it leaves addressable.
ApplyView(t, op) ==
  CASE op.op = "slice" -> slice(t, op.dim, op.start, op.end)
    [] op.op = "reshape" -> reshape(t, op.dims)
    [] op.op = "to" -> to(t, op.device)
    [] op.op = "view_as_dtype" -> view_as_dtype(t, op.dtype)
SameElements(t, op, u) ==
  CASE op.op = "slice" ->
         \A i \in Indices(u.dims) : ItemAddress(u, i) = ItemAddress(t, [i EXCEPT ![op.dim] = @ + op.start])
    [] op.op = "reshape" ->
         \A k \in 0..(numel(u.dims) - 1) : ItemAddress(u, IndexAt(u.dims, k)) = ItemAddress(t, IndexAt(t.dims, k))
    [] OTHER -> \A i \in Indices(u.dims) : ItemAddress(u, i) = ItemAddress(t, i)

\* A view is refused only for what it asks: a slice out of range, a reshape of another size, or
\* one of a tensor whose elements are not where the row-major walk would find them.
RefusedRightly(t, op) ==
  CASE op.op = "slice" -> ~(op.dim \in DOMAIN t.dims /\ 0 <= op.start /\ op.start <= op.end /\ op.end <= t.dims[op.dim])
    [] op.op = "reshape" ->
         \/ numel(op.dims) # numel(t.dims)
         \/ \E k \in 0..(numel(t.dims) - 1) : ElementOffset(IndexAt(t.dims, k), t.strides) # k
    [] OTHER -> TRUE

\* A chain of view operations from a window of a buffer, as far as it succeeds.
RECURSIVE ViewChain(_, _)
ViewChain(t, ops) ==
  IF ops = <<>> THEN TRUE
  ELSE LET r == ApplyView(t, Head(ops))
       IN IF r[1] # Ok THEN RefusedRightly(t, Head(ops))
          ELSE ViewSound(r[2]) /\ SameElements(t, Head(ops), r[2]) /\ ViewChain(r[2], Tail(ops))
ViewsStaySound(base, ops) == base[1] = Ok => ViewSound(base[2]) /\ ViewChain(base[2], ops)

\* A window is accepted iff its bytes lie in the buffer.
WindowAccepted(base, size, byte_offset, dims, dtype) ==
  base[1] = Ok <=> ~IsReservedDataType(dtype) /\ byte_offset + numel(dims) * itemsize(dtype) <= size
=============================================================================
