------------------------------ MODULE MCTensors ------------------------------
(* Bounded calls of the tensor layer: windows and chains of views, half      *)
(* patterns, and the element-wise operations on strided views.               *)
EXTENDS Integers, Sequences, FiniteSets
LOCAL INSTANCE SequencesExt

Ops == INSTANCE TensorOps
Hlf == INSTANCE HalfFloat

Dims == UNION {[1..r -> {0, 1, 2, 3}] : r \in 0..2} \union {<<2, 1, 3>>, <<1, 2, 2>>, <<2, 2, 1>>, <<3, 0, 2>>}
Slices == {[op |-> "slice", dim |-> d, start |-> s, end |-> e] : d \in 1..3, s \in {-1, 0, 1}, e \in {1, 2, 3}}
Reshapes == {[op |-> "reshape", dims |-> d] : d \in {<<>>, <<1>>, <<0, 5>>, <<2>>, <<3, 1>>, <<4>>, <<6>>, <<1, 2>>, <<2, 3>>, <<3, 2>>, <<2, 2, 1>>}}
Others == {[op |-> "to", device |-> d] : d \in {"cpu", "cuda"}} \union {[op |-> "view_as_dtype", dtype |-> d] : d \in {"int8", "float16", "int4"}}
WindowCalls ==
  {[kind |-> "window", size |-> 16, offset |-> o, dims |-> d, dtype |-> t, ops |-> <<>>] :
     o \in {0, 2, 4, 15, 16}, d \in Dims \union {<<40, 40>>, <<1000, 1>>, <<1000, 0, 2>>}, t \in {"int8", "float16", "int64", "fp8_e4m3"}}
ChainCalls ==
  {[kind |-> "window", size |-> 16, offset |-> 2, dims |-> d, dtype |-> "bfloat16", ops |-> <<a, b>>] :
     d \in {<<2, 3>>, <<2, 1, 3>>, <<4>>}, a \in Slices, b \in Slices \union Others \union Reshapes}
  \union
  {[kind |-> "window", size |-> 16, offset |-> 2, dims |-> <<2, 3>>, dtype |-> "bfloat16", ops |-> <<a, b, c>>] :
     a \in {s \in Slices : s.start > 0 /\ s.dim < 3}, b \in Slices, c \in {[op |-> "reshape", dims |-> d] : d \in {<<1>>, <<2>>, <<0>>}}}
DimsCalls == {[kind |-> "dims", dims |-> d] :
               d \in UNION {[1..r -> {-1, 0, 1, 3, 32, 341, 342}] : r \in 0..3} \union {<<1, 1, 1, 1>>}}

\* Patterns around every exponent's first and last, the first subnormals, and NaN payloads.
Near(n) == {h \in (n - 3)..(n + 3) : h >= 0}
HalfCalls ==
  {[kind |-> "half", bits |-> h, bf |-> b] : h \in UNION {Near(1024 * e) : e \in 0..31} \union (0..40), b \in {0}}
  \union {[kind |-> "half", bits |-> 0, bf |-> b] : b \in UNION {Near(128 * e) : e \in {0, 1, 2, 127, 128, 254}} \union (32640..32700)}

\* Element values: fractions, the integer types' edges, the narrow types' first inexact ones, specials.
FloatValues == {0, 1, -1, 3, -3, 255, -256, -257, 256, 510, 511, 1022, 1023, -1024, -1026, 2046, 2049, 2051, -2048, 131039, 131040,
                Ops!Inf, -Ops!Inf, Ops!NaN}
IntValues == {0, 1, -1, 127, 128, -128, -129, 255, 256, 511, 512, 1023, -1024}
Base(buffer, dtype) == Ops!View(buffer, 64, 0, <<2, 4>>, <<4, 1>>, dtype, "cpu")
Left(buffer, dtype) == Ops!slice(Base(buffer, dtype), 2, 0, 2)[2]
Right(buffer, dtype) == Ops!slice(Base(buffer, dtype), 2, 2, 4)[2]
Row(buffer, dtype) == Ops!reshape(Ops!slice(Base(buffer, dtype), 1, 1, 2)[2], <<2, 2>>)[2]
Fours(buffer, dtype) == {Left(buffer, dtype), Right(buffer, dtype), Row(buffer, dtype)}
Mem(x) == [a |-> [c \in 0..7 |-> c], b |-> [c \in 0..7 |-> IF c % 2 = 0 THEN x ELSE 10 * c]]
OpCalls ==
  {[kind |-> "copy", mem |-> Mem(7), dst |-> d, src |-> s] :
     d \in Fours("a", "float32") \union {Base("a", "float32")}, s \in Fours("b", "float32") \union {Base("b", "float32"), Left("b", "int8")}}
  \union {[kind |-> "copy", mem |-> Mem(7), dst |-> d, src |-> s] : d \in {Left("a", "int8")}, s \in {Left("a", "int8"), Right("a", "int8")}}
  \union {[kind |-> "cast", mem |-> Mem(x), src |-> s, dtype |-> t] :
     x \in FloatValues, s \in {Left("b", "float32")}, t \in {"int8", "uint8", "int32", "int64", "float16", "bfloat16", "bool", "int4"}}
  \union {[kind |-> "cast", mem |-> Mem(x), src |-> Left("b", s), dtype |-> t] :
     x \in IntValues, s \in {"int64", "bool"}, t \in {"int8", "uint8", "int32", "int64", "float16"}}
  \union {[kind |-> "allclose", mem |-> [Mem(x) EXCEPT !.a = [c \in 0..7 |-> IF c = 4 THEN y ELSE IF c % 2 = 0 THEN 0 ELSE 10 * c]], rtol |-> r, atol |-> at] :
     x \in {0, 2, Ops!Inf, Ops!NaN}, y \in {0, 1, 9, Ops!Inf, -Ops!Inf, Ops!NaN}, r \in {-1, 0, 10}, at \in {0, 3}}
  \union {[kind |-> "arange", start |-> s, end |-> e, step |-> d, dtype |-> t] :
     s \in {-1024, -3, 0, 5, 1023}, e \in {-1024, -1, 0, 7, 1023}, d \in {-1024, -2, -1, 0, 1, 3, 1023}, t \in {"int64", "int8", "float16"}}
  \union {[kind |-> "full", dims |-> d, dtype |-> t, value |-> v, allocates |-> a] :
     d \in {<<>>, <<2, 3>>, <<0>>}, t \in {"int8", "bool", "float16", "fp8_e4m3"}, v \in {0, 2, 3, 254, 256, -2, Ops!NaN}, a \in BOOLEAN}
  \union {[kind |-> "fill", mem |-> Mem(0), t |-> t, low |-> l, high |-> h] :
     t \in Fours("a", "float32") \union Fours("a", "bfloat16") \union {Left("a", "int8")}, l \in {-4, 2, Ops!NaN}, h \in {2, 300}}

Units == <<0, 1, 0, 1>>
Pairs == <<<<1, -2>>, <<3, 5>>>>
Flat(t) == Ops!View("flat", 64, 0, t.dims, Ops!RowMajorStrides(t.dims), t.dtype, "cpu")
WithFlat(mem) == [b \in {"a", "b", "flat"} |-> IF b = "flat" THEN [c \in 0..7 |-> 0] ELSE mem[b]]

TensorResult(c) ==
  CASE c.kind = "window" -> Ops!from_buffer(c.size, c.offset, c.dims, c.dtype)
    [] c.kind = "dims" -> Ops!FromDims(c.dims)
    [] c.kind = "half" -> <<Hlf!Fp16BitsToFp32(c.bits), Hlf!Bf16BitsToFp32(c.bf)>>
    [] c.kind = "copy" -> Ops!copy(c.mem, c.dst, c.src)
    [] c.kind = "cast" -> Ops!cast(c.mem, c.src, c.dtype, TRUE)
    [] c.kind = "allclose" -> Ops!allclose(c.mem, Left("a", "float32"), Left("b", "float32"), c.rtol, c.atol)
    [] c.kind = "arange" -> Ops!arange(c.start, c.end, c.step, c.dtype, TRUE)
    [] c.kind = "full" -> Ops!full(c.dims, c.dtype, c.value, c.allocates)
    [] c.kind = "fill" -> <<Ops!fill_uniform(c.mem, c.t, c.low, c.high, Units), Ops!fill_normal(c.mem, c.t, c.low, c.high, Pairs)>>

TensorSound(c, r) ==
  CASE c.kind = "window" -> Ops!ViewsStaySound(r, c.ops) /\ (Ops!FromDims(c.dims) = Ops!Ok => Ops!WindowAccepted(r, c.size, c.offset, c.dims, c.dtype))
    [] c.kind = "dims" ->
         r = Ops!Ok <=> Len(c.dims) <= Ops!kMaxRank /\ (\A i \in DOMAIN c.dims : c.dims[i] >= 0)
                        /\ Ops!Product([i \in DOMAIN c.dims |-> IF c.dims[i] = 0 THEN 1 ELSE c.dims[i]]) <= Ops!Int64Max
    [] c.kind = "half" -> Hlf!Fp16Rounds(c.bits) /\ Hlf!Bf16Rounds(c.bf) /\ Hlf!NansStay(1 + c.bits) /\ Hlf!NansStay(8388607 - c.bits)
    [] c.kind = "copy" -> Ops!CopySound(c.mem, c.dst, c.src, r)
    [] c.kind = "cast" -> r[1] \in {Ops!Ok, Ops!Invalid} /\ Ops!IsCastableDtype(c.src.dtype) /\ Ops!IsCastableDtype(c.dtype) => Ops!CastSound(c.mem, c.src, c.dtype, r)
    [] c.kind = "allclose" -> Ops!AllcloseSound(c.mem, Left("a", "float32"), Left("b", "float32"), c.rtol, c.atol, r)
    [] c.kind = "arange" -> c.step # 0 => Ops!ArangeSound(c.start, c.end, c.step, c.dtype, r)
    [] c.kind = "full" -> r[1] = Ops!Ok => Len(r[2]) = Ops!numel(c.dims) /\ ~Ops!IsReservedDataType(c.dtype)
    [] c.kind = "fill" ->
         /\ Ops!FillSound(c.mem, c.t, Flat(c.t), r[1], Ops!fill_uniform(WithFlat(c.mem), Flat(c.t), c.low, c.high, Units))
         /\ Ops!FillSound(c.mem, c.t, Flat(c.t), r[2], Ops!fill_normal(WithFlat(c.mem), Flat(c.t), c.low, c.high, Pairs))
=============================================================================
