------------------------------ MODULE QuantGrid -----------------------------
(***************************************************************************)
(* compiler/onnx2fpga/p2_graph/datatype.py and p4_quantize/requantize.py:  *)
(* integer types, the affine grids of tensors, and the fixed point rescale *)
(* the hardware does.  A real number is a fraction <<n, d>> in lowest      *)
(* terms with d > 0.                                                       *)
(***************************************************************************)
EXTENDS Integers, SequencesExt

RECURSIVE Gcd(_, _)
Gcd(a, b) == IF b = 0 THEN a ELSE Gcd(b, a % b)
AbsInt(n) == IF n < 0 THEN -n ELSE n
Cancelled(n, d, g) == IF d < 0 THEN <<-n \div g, -d \div g>> ELSE <<n \div g, d \div g>>
Ratio(n, d) == Cancelled(n, d, Gcd(AbsInt(n), AbsInt(d)))
Whole(n) == <<n, 1>>
Crossed(x, y) == <<x[1] * y[1], x[2] * y[2]>>
Times(a, b) == Crossed(Ratio(a[1], b[2]), Ratio(b[1], a[2]))
Over(a, b) == Times(a, IF b[1] < 0 THEN <<-b[2], -b[1]>> ELSE <<b[2], b[1]>>)
Added(a, b, g) == Ratio(a[1] * (b[2] \div g) + b[1] * (a[2] \div g), a[2] * (b[2] \div g))
Plus(a, b) == Added(a, b, Gcd(a[2], b[2]))
Minus(a, b) == Plus(a, <<-b[1], b[2]>>)
Magnitude(a) == <<AbsInt(a[1]), a[2]>>
AtMost(a, b) == Minus(a, b)[1] <= 0
LargerOf(a, b) == IF AtMost(a, b) THEN b ELSE a
Total(s) == LET sum[i \in 0 .. Len(s)] == IF i = 0 THEN Whole(0) ELSE Plus(sum[i - 1], s[i]) IN sum[Len(s)]
Peak(s) == LET peak[i \in 0 .. Len(s)] == IF i = 0 THEN Whole(0) ELSE LargerOf(peak[i - 1], s[i]) IN peak[Len(s)]

(* numpy.floor and numpy.rint, which rounds a half to the even number.       *)
Floor(a) == a[1] \div a[2]
Rint(a) ==
  LET low == Floor(a)
      twice == 2 * (a[1] - low * a[2])
  IN IF twice < a[2] \/ (twice = a[2] /\ low % 2 = 0) THEN low ELSE low + 1

-----------------------------------------------------------------------------
(* IntType. *)

Type(bits, signed) == [bits |-> bits, signed |-> signed]
MinOf(type) == IF type.signed THEN -(2 ^ (type.bits - 1)) ELSE 0
MaxOf(type) == IF type.signed THEN 2 ^ (type.bits - 1) - 1 ELSE 2 ^ type.bits - 1
Clip(x, low, high) == IF x < low THEN low ELSE IF x > high THEN high ELSE x
ClampTo(type, x) == Clip(x, MinOf(type), MaxOf(type))
SmallestFor(low, high) ==
  IF low >= 0 THEN Type(CHOOSE b \in 1 .. 32 : high < 2 ^ b /\ (b = 1 \/ high >= 2 ^ (b - 1)), FALSE)
  ELSE LET holds(b) == -(2 ^ (b - 1)) <= low /\ high <= 2 ^ (b - 1) - 1
       IN Type(CHOOSE b \in 1 .. 31 : holds(b) /\ (b = 1 \/ ~holds(b - 1)), TRUE)

(* QuantSpec: real = scale * (code - zero), the scale and the zero point one *)
(* for the tensor or one for each feature.  A grid may have no type (bits 0).*)
Grid(scale, zero, bits, signed) == [scale |-> scale, zero |-> zero, bits |-> bits, signed |-> signed]
ScaleGrid(scale) == Grid(<<scale>>, <<0>>, 0, TRUE)
ToSigned(spec) ==
  IF spec.bits = 0 \/ spec.signed THEN spec
  ELSE [spec EXCEPT !.zero = [j \in DOMAIN @ |-> @[j] - 2 ^ (spec.bits - 1)], !.signed = TRUE]
IsSymmetric(spec) == \A j \in DOMAIN spec.zero : spec.zero[j] = 0
At(s, k) == s[((k - 1) % Len(s)) + 1]
Real(spec, code, k) == Times(At(spec.scale, k), Whole(code - At(spec.zero, k)))

-----------------------------------------------------------------------------
(* Requantizer: scaled by a multiplier for each channel, shifted down with   *)
(* rounding, moved by the zero point, clamped.                               *)

Requant(mults, shift, type) ==
  [mults |-> mults, shift |-> shift, zero |-> 0, low |-> MinOf(type), high |-> MaxOf(type),
   bits |-> type.bits]

(* The most shift the multiplier's bits leave; a fused relu clamps at the    *)
(* zero point.                                                               *)
MaxShift == 24  \* 62 in the code
MostThat(Holds(_)) ==
  IF ~Holds(1) THEN 0 ELSE CHOOSE s \in 1 .. MaxShift : Holds(s) /\ (s = MaxShift \/ ~Holds(s + 1))
ShiftFor(peak, limit) ==
  IF peak[1] = 0 THEN 0
  ELSE MostThat(LAMBDA s : AtMost(Times(peak, Whole(2 ^ s)), Whole(limit)))
Multipliers(reals, limit, shift) ==
  [k \in DOMAIN reals |-> Clip(Rint(Times(reals[k], Whole(2 ^ shift))), -limit - 1, limit)]
ShiftedBy(reals, type, limit, shift) == Requant(Multipliers(reals, limit, shift), shift, type)
FromReal(reals, type, mult_bits, relu, zero) ==
  LET limit == 2 ^ (mult_bits - 1) - 1
      peak == Peak([k \in DOMAIN reals |-> Magnitude(reals[k])])
  IN [ShiftedBy(reals, type, limit, ShiftFor(peak, limit))
        EXCEPT !.zero = zero, !.low = IF relu THEN zero ELSE @]

(* accumulator k of a unit's channels. *)
RoundedDown(scaled, shift) == scaled \div 2 ^ shift
Rounded(scaled, shift) == IF shift > 0 THEN (scaled + 2 ^ (shift - 1)) \div 2 ^ shift ELSE scaled
Apply(r, acc, k) == Clip(Rounded(acc * At(r.mults, k), r.shift) + r.zero, r.low, r.high)
AtShift(r, shift) ==
  [r EXCEPT !.mults = [k \in DOMAIN @ |->
                         Rint(IF shift >= r.shift THEN Whole(@[k] * 2 ^ (shift - r.shift))
                              ELSE Ratio(@[k], 2 ^ (r.shift - shift)))],
            !.shift = shift]
BroadcastRequant(r, channels) ==
  IF Len(r.mults) = channels THEN r
  ELSE [r EXCEPT !.mults = [k \in 1 .. channels |-> r.mults[1]]]

=============================================================================
