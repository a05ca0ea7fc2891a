----------------------------- MODULE HalfFloat -----------------------------
(***************************************************************************)
(* half.h: float32 to float16 and bfloat16 bit patterns and back, at their *)
(* real widths.  A float32 is its sign and its 31 other bits, abs; a half  *)
(* its sign and its 15 other bits.                                         *)
(***************************************************************************)
EXTENDS Integers

Shr(n, k) == n \div 2^k
Shl(n, k) == n * 2^k
Low(n, k) == n % 2^k
Inf32 == 2139095040          \* 0x7F800000
Inf16 == 31744               \* 0x7C00
InfBf == 32640               \* 0x7F80

\* NaN keeps a non-zero payload, 65520 (0x477FF000) and above is infinite, 2^-14 (0x38800000) and
\* above rounds in place and is rebiased, below 2^-25 is zero, between them the mantissa is shifted.
Fp32ToFp16Bits(abs) ==
  LET exponent == Shr(abs, 23)
      mantissa == Low(abs, 23) + Shl(1, 23)
      shift == 126 - exponent
      payload == Low(Shr(abs, 13), 10)
  IN IF abs > Inf32 THEN Inf16 + (IF payload = 0 THEN 512 ELSE payload)
     ELSE IF abs >= 1199566848 THEN Inf16
     ELSE IF abs >= 947912704 THEN Shr(abs + 4095 + Low(Shr(abs, 13), 1), 13) - Shl(112, 10)
     ELSE IF exponent < 102 THEN 0
     ELSE Shr(mantissa + (Shl(1, shift - 1) - 1) + Low(Shr(mantissa, shift), 1), shift)

LeadingBit(n) == CHOOSE k \in 0..9 : Shl(1, k) <= n /\ n < Shl(1, k + 1)
Fp16BitsToFp32(half) ==
  LET exponent == Shr(half, 10)
      mantissa == Low(half, 10)
      n == LeadingBit(mantissa)
  IN IF exponent = 31 THEN Inf32 + Shl(mantissa, 13)
     ELSE IF exponent = 0 THEN IF mantissa = 0 THEN 0 ELSE Shl(103 + n, 23) + Low(Shl(mantissa, 23 - n), 23)
     ELSE Shl(exponent + 112, 23) + Shl(mantissa, 13)

Fp32ToBf16Bits(abs) ==
  IF abs > Inf32 THEN IF Low(Shr(abs, 16), 7) = 0 THEN Shr(abs, 16) + 64 ELSE Shr(abs, 16)
  ELSE Shr(abs + 32767 + Low(Shr(abs, 16), 1), 16)
Bf16BitsToFp32(bf) == Shl(bf, 16)

-----------------------------------------------------------------------------
(* Reference: round to nearest, ties to even.  Between a finite half h and  *)
(* the next pattern the midpoint is halfway in float32's bits, except where *)
(* h is subnormal: there it is (2m + 1) * 2^-25.                            *)
RECURSIVE Normalized(_, _)
Normalized(n, exponent) == IF n >= Shl(1, 23) THEN Shl(exponent, 23) + Low(n, 23) ELSE Normalized(2 * n, exponent - 1)
Midpoint(h) == IF h < 1024 THEN Normalized(2 * h + 1, 125) ELSE Fp16BitsToFp32(h) + Shl(1, 12)
Even(h) == IF h % 2 = 0 THEN h ELSE h + 1

\* Narrowing a float just below, at and just above the midpoint of two neighbouring halves gives the
\* lower, the even and the upper one, past the largest the infinity; and no pattern, NaNs and
\* subnormals included, is changed by widening and narrowing it.
Fp16Rounds(h) ==
  /\ Fp32ToFp16Bits(Fp16BitsToFp32(h)) = h
  /\ h < Inf16 =>
       /\ Fp32ToFp16Bits(Midpoint(h) - 1) = h
       /\ Fp32ToFp16Bits(Midpoint(h)) = Even(h)
       /\ Fp32ToFp16Bits(Midpoint(h) + 1) = h + 1
BfMidpoint(b) == Bf16BitsToFp32(b) + Shl(1, 15)
Bf16Rounds(b) ==
  /\ Fp32ToBf16Bits(Bf16BitsToFp32(b)) = b
  /\ b < InfBf =>
       /\ Fp32ToBf16Bits(BfMidpoint(b) - 1) = b
       /\ Fp32ToBf16Bits(BfMidpoint(b)) = Even(b)
       /\ Fp32ToBf16Bits(BfMidpoint(b) + 1) = b + 1
\* A NaN stays a NaN in both formats, whatever its payload.
NansStay(payload) ==
  LET nan == Inf32 + payload IN Fp32ToFp16Bits(nan) > Inf16 /\ Fp32ToBf16Bits(nan) > InfBf
=============================================================================
