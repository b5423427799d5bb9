------------------------------- MODULE Units --------------------------------
(***************************************************************************)
(* compiler/onnx2fpga/p3_ops: the integer units a graph is lowered to,     *)
(* with what each computes on codes, the width of its sums, how far it     *)
(* folds and what it costs.  A unit is a node whose attrs are its fields.  *)
(***************************************************************************)
EXTENDS FloatOps

CONSTANTS ActBits,      \* bits of an activation, 8 in the code
          WeightBits,   \* bits of a weight, 8 in the code
          MultBits,     \* bits of a rescale's multiplier, 18 in the code
          BiasBits      \* bits of a bias, 32 in the code

ActType == Type(ActBits, TRUE)
WeightType == Type(WeightBits, TRUE)
BiasType == Type(BiasBits, TRUE)

Divisors(n) == {d \in 1 .. n : n % d = 0}
Factors(simd, pe) == [simd |-> simd, pe |-> pe]
Unit(op, name, inputs, outputs, attrs) ==
  [name |-> name, op |-> op, inputs |-> inputs, outputs |-> outputs, attrs |-> attrs]

NoStages == [product |-> 0, sum |-> 0, rescale |-> 0, tree |-> 0]
MatVecUnit(name, inputs, outputs, weights, bias, requant, out, wgt, vectors) ==
  Unit("MatVec", name, inputs, outputs,
       [weights |-> weights, mh |-> Len(bias), mw |-> Len(weights) \div Len(bias), bias |-> bias,
        requant |-> requant, act |-> ActType, out |-> out, wgt |-> wgt, vectors |-> vectors,
        block_ram |-> FALSE, memory |-> "auto", fold |-> Factors(1, 1), pinned |-> {}])
DenseUnit(u) ==
  Unit("Dense", u.name, u.inputs, u.outputs,
       [weights |-> u.attrs.weights, mh |-> u.attrs.mh, mw |-> u.attrs.mw, bias |-> u.attrs.bias,
        requant |-> u.attrs.requant, act |-> u.attrs.act, out |-> u.attrs.out, wgt |-> u.attrs.wgt,
        vectors |-> 1, fold |-> Factors(u.attrs.mw, u.attrs.mh), pinned |-> {},
        arithmetic |-> "multiplier", reloadable |-> FALSE, stages |-> NoStages])
WindowUnit(name, inputs, outputs, shape, attrs, pad_value) ==
  Unit("Window", name, inputs, outputs,
       [kernel |-> attrs.kernel, strides |-> attrs.strides, pads |-> attrs.pads,
        dilations |-> attrs.dilations, ifm |-> shape, pad_value |-> pad_value,
        fold |-> Factors(1, 1), pinned |-> {}])
ActivationUnit(name, inputs, outputs, channels, elements, requant, in_zero) ==
  Unit("Act", name, inputs, outputs,
       [channels |-> channels, elements |-> elements, requant |-> requant, in_zero |-> in_zero,
        fold |-> Factors(1, 1), pinned |-> {}])
PoolUnit(name, inputs, outputs, channels, size, windows) ==
  Unit("Pool", name, inputs, outputs,
       [channels |-> channels, size |-> size, windows |-> windows, fold |-> Factors(1, 1), pinned |-> {}])
AddUnit(name, inputs, outputs, elements, channels, left, right, shift, bias, zero) ==
  Unit("AddUnit", name, inputs, outputs,
       [channels |-> channels, elements |-> elements, left |-> left, right |-> right,
        shift |-> shift, bias |-> bias, zero |-> zero, fold |-> Factors(1, 1), pinned |-> {}])
Unfolded == [fold |-> Factors(1, 1), pinned |-> {}]
DuplicateUnit(name, input, outputs, elements) ==
  Unit("Duplicate", name, <<input>>, outputs, Unfolded @@ [elements |-> elements])
StreamFifo(name, input, output, depth, width) ==
  Unit("Fifo", name, <<input>>, <<output>>, Unfolded @@ [depth |-> depth, width |-> width])
WidthConverter(name, input, output, in_elems, out_elems, bits, total) ==
  Unit("Converter", name, <<input>>, <<output>>,
       Unfolded @@ [in_elems |-> in_elems, out_elems |-> out_elems, bits |-> bits, total |-> total])
(* A row for each lane: the output code of every input code, lowest first.  *)
TableUnit(name, inputs, outputs, rows) ==
  Unit("Table", name, inputs, outputs, Unfolded @@ [rows |-> rows, stages |-> NoStages])
ConcatUnit(name, inputs, outputs, rows) ==
  Unit("ConcatUnit", name, inputs, outputs, Unfolded @@ [rows |-> rows, stages |-> NoStages, skew |-> <<>>])
(* operands: each a port (its place in inputs, from 1) or 0 and codes, with  *)
(* a zero point, a multiplier and a table, <<>> for none.                    *)
EltwiseUnit(name, inputs, outputs, shape, kind, operands, mult, shift, zero) ==
  Unit("Eltwise", name, inputs, outputs,
       Unfolded @@ [shape |-> shape, kind |-> kind, operands |-> operands, mult |-> mult, shift |-> shift,
                 zero |-> zero, stages |-> NoStages, skew |-> <<>>])
ReduceUnit(name, input, output, lanes, kind, type, shape, last, zero, requant) ==
  Unit("ReduceUnit", name, <<input>>, <<output>>,
       Unfolded @@ [lanes |-> lanes, kind |-> kind, type |-> type, shape |-> shape, last |-> last,
                 zero |-> zero, requant |-> requant, stages |-> NoStages])

EachUnit(g, F(_)) == [g EXCEPT !.nodes = [i \in DOMAIN @ |-> F(@[i])]]
IsMatVec(u) == u.op \in {"MatVec", "Dense"}
ArithmeticKinds == {"add", "mul", "less", "less_equal", "equal"}
OfmExtent(u) == OutputExtent(u.attrs, u.attrs.ifm)
WindowSize(u) == WindowElems(u.attrs, u.attrs.ifm[4])

-----------------------------------------------------------------------------
(* What a unit gives on codes.                                              *)

LookUp(rows, lane, code) == Cyclic(rows, lane)[code - MinOf(ActType) + 1]
OperandCode(u, ports, i, k) ==
  LET operand == u.attrs.operands[i]
  IN IF operand.port = 0 THEN Cyclic(operand.codes, k) ELSE ports[operand.port][k]
OperandTerm(u, ports, i, k) == OperandCode(u, ports, i, k) - u.attrs.operands[i].zero
Weighted(u, ports, k) ==
  SumOf([i \in DOMAIN u.attrs.operands |-> OperandTerm(u, ports, i, k) * u.attrs.operands[i].mult])
OperandLooked(u, ports, i, k) ==
  LET table == u.attrs.operands[i].table
      code == OperandCode(u, ports, i, k)
  IN IF table = <<>> THEN code ELSE table[code - MinOf(ActType) + 1]
Rescale(u, acc) ==
  ClampTo(ActType, Rounded(acc * u.attrs.mult, u.attrs.shift) + u.attrs.zero)
EltwiseLane(u, ports, k) ==
  LET term(i) == OperandTerm(u, ports, i, k)
      looked(i) == OperandLooked(u, ports, i, k)
      weighted == Weighted(u, ports, k)
      kind == u.attrs.kind
  IN CASE kind = "add" -> Rescale(u, weighted)
       [] kind = "mul" -> Rescale(u, term(1) * term(2))
       [] kind = "less" -> AsNumber(weighted < 0)
       [] kind = "less_equal" -> AsNumber(weighted <= 0)
       [] kind = "equal" -> AsNumber(weighted = 0)
       [] kind = "max" -> Larger(looked(1), looked(2))
       [] kind = "min" -> Smaller(looked(1), looked(2))
       [] kind = "and" -> AsNumber(term(1) # 0 /\ term(2) # 0)
       [] kind = "or" -> AsNumber(term(1) # 0 \/ term(2) # 0)
       [] kind = "where" -> IF term(1) # 0 THEN looked(2) ELSE looked(3)

Accumulated(u, x) ==
  LET y == MatMul(x, u.attrs.weights, u.attrs.mh) IN [k \in DOMAIN y |-> y[k] + Cyclic(u.attrs.bias, k)]
ReduceValue(u, x) ==
  CASE u.attrs.kind = "sum" -> Apply(u.attrs.requant, SumOf(x) - u.attrs.lanes * u.attrs.zero, 1)
    [] u.attrs.kind = "max" -> Largest(x)
    [] u.attrs.kind = "min" -> Smallest(x)
    [] u.attrs.kind = "argmax" -> Arg("ArgMax", x, u.attrs.last)
    [] u.attrs.kind = "argmin" -> Arg("ArgMin", x, u.attrs.last)
MatVecCodes(u, x) ==
  LET acc == Accumulated(u, x) IN [k \in DOMAIN acc |-> Apply(u.attrs.requant, acc[k], k)]
WindowCodes(u, x) == Columns(u.attrs, u.attrs.ifm, x, u.attrs.pad_value)
ActivationCodes(u, x) == [k \in DOMAIN x |-> Apply(u.attrs.requant, x[k] - u.attrs.in_zero, k)]
PoolCodes(u, x) == MaxOfWindows(x, u.attrs.size, u.attrs.channels)
AddCodes(u, left, right) ==
  LET a == u.attrs
      sum(k) == left[k] * a.left + right[k] * a.right + a.bias
  IN [k \in DOMAIN left |-> ClampTo(ActType, Rounded(sum(k), a.shift) + a.zero)]
TableCodes(u, x) == [k \in DOMAIN x |-> LookUp(u.attrs.rows, k, x[k])]
ExecuteUnit(g, u, values) ==
  LET x == values[u.inputs[1]]
      ports == [i \in DOMAIN u.inputs |-> values[u.inputs[i]]]
  IN CASE IsMatVec(u) -> <<MatVecCodes(u, x)>>
       [] u.op = "Window" -> <<WindowCodes(u, x)>>
       [] u.op = "Act" -> <<ActivationCodes(u, x)>>
       [] u.op = "Pool" -> <<PoolCodes(u, x)>>
       [] u.op = "AddUnit" -> <<AddCodes(u, x, ports[2])>>
       [] u.op \in {"Duplicate", "Fifo", "Converter"} -> [i \in DOMAIN u.outputs |-> x]
       [] u.op = "Table" -> <<TableCodes(u, x)>>
       [] u.op = "ConcatUnit" -> <<TableCodes(u, FlattenSeq(ports))>>
       [] u.op = "Eltwise" -> <<[k \in 1 .. Product(u.attrs.shape) |-> EltwiseLane(u, ports, k)]>>
       [] u.op = "ReduceUnit" -> <<<<ReduceValue(u, x)>>>>

-----------------------------------------------------------------------------
(* The words that hold the sums.                                            *)

SumOver(s, Op(_)) == SumOf([i \in DOMAIN s |-> Op(s[i])])
ColumnOf(u, k) == [i \in 1 .. u.attrs.mw |-> u.attrs.weights[(i - 1) * u.attrs.mh + k]]
MatVecWordUnbiased(u) ==
  LET span == Max({SumOver(ColumnOf(u, k), AbsInt) : k \in 1 .. u.attrs.mh}) * AbsInt(MinOf(u.attrs.act))
  IN SmallestFor(-span, span)
ColumnSums(u, Op(_)) == {SumOver(ColumnOf(u, k), Op) : k \in 1 .. u.attrs.mh}
WordFor(bias, low, high) == SmallestFor(low + Smaller(Min(bias), 0), high + Larger(Max(bias), 0))
SymmetricWord(bias, span) == WordFor(bias, -span, span)
MatVecWord(u) ==
  LET a == u.attrs
  IN IF a.act.signed
       THEN SymmetricWord(Range(a.bias), Max(ColumnSums(u, AbsInt)) * Larger(AbsInt(MinOf(a.act)), MaxOf(a.act)))
     ELSE WordFor(Range(a.bias), Min(ColumnSums(u, LAMBDA w : Smaller(w, 0))) * MaxOf(a.act),
                  Max(ColumnSums(u, LAMBDA w : Larger(w, 0))) * MaxOf(a.act))
ReloadSpan(u) ==
  u.attrs.mw * 2 ^ (u.attrs.wgt.bits - 1) * Larger(-MinOf(u.attrs.act), MaxOf(u.attrs.act))
WiderType(type, bits) == IF type.bits >= bits THEN type ELSE Type(bits, TRUE)
DenseWord(u) ==
  IF u.attrs.reloadable THEN SmallestFor(-2 * ReloadSpan(u), 2 * ReloadSpan(u))
  ELSE WiderType(MatVecWord(u), u.attrs.act.bits + u.attrs.wgt.bits)
BitLength(n) == IF n = 0 THEN 0 ELSE SmallestFor(0, n).bits
EltwiseReach(kind, span, total) ==
  IF kind = "mul" THEN span * span ELSE IF kind \in ArithmeticKinds THEN span * total ELSE span
BothWays(reach) == SmallestFor(-reach, reach)
EltwiseWord(u) ==
  LET operands == u.attrs.operands
  IN BothWays(EltwiseReach(u.attrs.kind, 2 ^ ActBits - 1 + Largest([i \in DOMAIN operands |-> AbsInt(operands[i].zero)]),
                           SumOf([i \in DOMAIN operands |-> AbsInt(operands[i].mult)])))
ReduceWord(u) ==
  LET span == u.attrs.lanes * (-MinOf(u.attrs.type) + AbsInt(u.attrs.zero))
  IN Type(Larger(u.attrs.type.bits + 1, SmallestFor(-span, span).bits), TRUE)
AddWord(u) == Type(ActBits + BitLength(Larger(AbsInt(u.attrs.left), AbsInt(u.attrs.right))) + 2, TRUE)
WordOf(u) ==
  CASE u.op = "MatVec" -> MatVecWord(u)
    [] u.op = "Dense" -> DenseWord(u)
    [] u.op = "AddUnit" -> AddWord(u)
    [] u.op = "Eltwise" -> EltwiseWord(u)
    [] u.op = "ReduceUnit" -> ReduceWord(u)

-----------------------------------------------------------------------------
(* infer: a unit's outputs, their shape, their type and their beats.        *)

OutTypeOf(g, u) ==
  CASE IsMatVec(u) -> u.attrs.out
    [] u.op \in {"Duplicate", "Fifo", "Converter"} ->
         LET in == g.tensors[u.inputs[1]] IN Type(in.bits, in.signed)
    [] u.op = "ReduceUnit" -> IF u.attrs.kind \in {"argmax", "argmin"}
                                THEN SmallestFor(0, Larger(u.attrs.lanes - 1, 1)) ELSE u.attrs.type
    [] OTHER -> ActType
MatVecShape(u, shape) ==
  IF Last(shape) = u.attrs.mw THEN Append(Front(shape), u.attrs.mh)
  ELSE <<Product(shape) \div u.attrs.mw, u.attrs.mh>>
OutShapeOf(g, u) ==
  LET shape == g.tensors[u.inputs[1]].shape
  IN CASE IsMatVec(u) -> MatVecShape(u, shape)
       [] u.op = "Window" -> <<shape[1], OfmExtent(u)[1], OfmExtent(u)[2], WindowSize(u)>>
       [] u.op = "Pool" -> Append(Front(shape), u.attrs.channels)
       [] u.op = "ConcatUnit" -> <<1, Len(u.attrs.rows)>>
       [] u.op \in {"Eltwise", "ReduceUnit"} -> u.attrs.shape
       [] OTHER -> shape
OutBeats(g, u) ==
  LET in == g.tensors[u.inputs[1]]
  IN CASE u.op \in {"MatVec", "Dense", "Act", "Pool", "AddUnit"} -> u.attrs.fold.pe
       [] u.op = "Window" -> u.attrs.fold.simd
       [] u.op \in {"Duplicate", "Fifo"} -> in.elems_per_beat
       [] u.op = "Converter" -> u.attrs.out_elems
       [] u.op = "Table" -> Numel(in)
       [] u.op = "ConcatUnit" -> Len(u.attrs.rows)
       [] u.op = "Eltwise" -> Product(u.attrs.shape)
       [] u.op = "ReduceUnit" -> 1
InferUnit(g, u) ==
  LET type == OutTypeOf(g, u)
      inferred(t) == [t EXCEPT !.shape = OutShapeOf(g, u), !.bits = type.bits,
                               !.signed = type.signed, !.elems_per_beat = OutBeats(g, u)]
      with(h, name) == LET e == EnsureTensor(h, name) IN SetTensor(e, name, inferred(e.tensors[name]))
  IN FoldLeft(with, g, u.outputs)

-----------------------------------------------------------------------------
(* compiler/onnx2fpga/targets and the units' amd_resources: what a unit    *)
(* takes of a device.  Amounts are in twentieths of a site, so that every  *)
(* share of a site the cost models give is whole.                          *)

CONSTANTS ShallowDepth   \* words a LUT memory is taken for, 64 in the code

Fields == {"lut", "ff", "dsp", "bram"}
Cost(lut, ff, dsp, bram) == [lut |-> lut, ff |-> ff, dsp |-> dsp, bram |-> bram]
Sites(n) == 20 * n
Sum2(a, b) == [f \in Fields |-> a[f] + b[f]]
Repeated(n, a) == [f \in Fields |-> n * a[f]]
TotalCost(costs) == [f \in Fields |-> SumOf([i \in DOMAIN costs |-> costs[i][f]])]
CeilDiv(a, b) == (a + b - 1) \div b

(* A device: its budget, the share of it a design may take, a fraction, the  *)
(* fields it may fill, and whether a DSP holds several narrow products.      *)
Charged(device) == {f \in Fields : device.budget[f] > 0}
Allowed(device, f) ==
  Times(Whole(Sites(device.budget[f])), IF f \in device.hard THEN Whole(1) ELSE device.share)
Overruns(device, cost) == {f \in Charged(device) : ~AtMost(Whole(cost[f]), Allowed(device, f))}
Utilisation(device, cost) == [f \in Charged(device) |-> Ratio(cost[f], Sites(device.budget[f]))]
Pressure(device, cost) ==
  FoldSet(LAMBDA f, p : Plus(p, Utilisation(device, cost)[f]), Whole(0), Charged(device))
WorstUtilisation(device, cost) ==
  FoldSet(LAMBDA f, p : LargerOf(p, Utilisation(device, cost)[f]), Whole(0), Charged(device))

MacsPerDsp(device, act, wgt) ==
  IF ~device.packs THEN Whole(1)
  ELSE IF Larger(act, wgt) <= 4 THEN Whole(4)
  ELSE IF Larger(act, wgt) <= 8 THEN Whole(2)
  ELSE IF act <= 18 /\ wgt <= 27 THEN Whole(1) ELSE Ratio(1, 2)
DspCost(device, macs, act, wgt) == Floor(Over(Whole(Sites(macs)), MacsPerDsp(device, act, wgt)))

LutMemoryCost(depth, width) == Cost(10 * Larger(1, CeilDiv(depth, 32)) * width, Sites(width), 0, 0)
BlockRamCost(depth, width) ==
  LET slice == IF width > 36 THEN 512 ELSE 1024
  IN Cost(0, Sites(width), 0, Sites(Larger(1, CeilDiv(width, 72)) * Larger(1, CeilDiv(depth, slice))))
MemoryCost(depth, width) ==
  IF depth <= ShallowDepth THEN LutMemoryCost(depth, width) ELSE BlockRamCost(depth, width)

-----------------------------------------------------------------------------
(* The canonical signed digits of a number, least significant first, each a *)
(* digit and its place; and the odd part of a number.                        *)
RECURSIVE DigitsFrom(_, _)
DigitsFrom(value, place) ==
  IF value = 0 THEN <<>>
  ELSE LET digit == IF value % 2 = 0 THEN 0 ELSE 2 - (value % 4)
           rest == DigitsFrom((value - digit) \div 2, place + 1)
       IN IF digit = 0 THEN rest ELSE <<[digit |-> digit, place |-> place]>> \o rest
Csd(value) == Reverse(DigitsFrom(value, 0))
OddPart(value) ==
  LET v == AbsInt(value)
  IN CHOOSE m \in 1 .. v : m % 2 = 1 /\ \E s \in 0 .. BitLength(v) : m * 2 ^ s = v

MultBitsOf(requant) ==
  Larger(2, BitLength(Largest([k \in DOMAIN requant.mults |-> AbsInt(requant.mults[k])])) + 1)
DenseMultBits(u) == IF u.attrs.reloadable THEN MultBits ELSE MultBitsOf(u.attrs.requant)
SynapseFold(u) == u.attrs.mw \div u.attrs.fold.simd
NeuronFold(u) == u.attrs.mh \div u.attrs.fold.pe
FoldDepth(u) == SynapseFold(u) * NeuronFold(u)
HasBlockRam(device) == device.budget.bram > 0
UsesBlockRam(device, u) ==
  /\ FoldDepth(u) # 1 /\ u.attrs.memory # "lut" /\ HasBlockRam(device)
  /\ u.attrs.memory = "block" \/ FoldDepth(u) > ShallowDepth
ComputeCost(device, a, acc) ==
  Cost(14 * a.fold.pe * (a.fold.simd - 1) * acc, Sites(a.fold.pe * acc + a.fold.simd * a.act.bits),
       DspCost(device, a.fold.pe * a.fold.simd, a.act.bits, a.wgt.bits)
         + (IF acc > 18 THEN Sites(a.fold.pe) ELSE 0), 0)
WeightsCost(device, u, width) ==
  IF UsesBlockRam(device, u) THEN BlockRamCost(FoldDepth(u), u.attrs.fold.pe * width)
  ELSE Repeated(u.attrs.fold.pe, LutMemoryCost(FoldDepth(u), width))
InputBufferCost(u, width) ==
  IF NeuronFold(u) > 1 THEN MemoryCost(SynapseFold(u), width) ELSE Cost(0, 0, 0, 0)
MatVecCost(device, u) ==
  TotalCost(<<ComputeCost(device, u.attrs, MatVecWord(u).bits),
              WeightsCost(device, u, u.attrs.fold.simd * u.attrs.wgt.bits),
              InputBufferCost(u, u.attrs.fold.simd * u.attrs.act.bits)>>)

(* The shifts and adds of constant products: what each distinct odd weight   *)
(* of a row takes, its digits summed in pairs that the row shares.           *)
Row(a, i) == {OddPart(w) : w \in {a.weights[(i - 1) * a.mh + k] : k \in 1 .. a.mh} \ {0}}
PairsOf(d) ==
  {2 ^ (d[2 * j - 1].place - d[2 * j].place) + d[2 * j - 1].digit * d[2 * j].digit : j \in 1 .. Len(d) \div 2}
Adders(row) == Cardinality(UNION {PairsOf(Csd(m)) : m \in row})
                 + FoldSet(LAMBDA m, n : n + CeilDiv(Len(Csd(m)), 2) - 1, 0, row)
Registers(act, row) == FoldSet(LAMBDA m, n : n + act.bits + BitLength(m - 1), 0, row)
RowsCost(a, acc, rows) ==
  LET tree == Cardinality({k \in DOMAIN a.weights : a.weights[k] # 0}) * acc
  IN Cost(Sites(tree + SumOf([i \in DOMAIN rows |-> Adders(rows[i])]) * (a.act.bits + a.wgt.bits)),
          Sites(SumOf([i \in DOMAIN rows |-> Registers(a.act, rows[i])])), 0, 0)
ConstantCost(u, acc) == RowsCost(u.attrs, acc, [i \in 1 .. u.attrs.mw |-> Row(u.attrs, i)])
BankCost(u, acc) ==
  LET bits == u.attrs.mw * u.attrs.mh * u.attrs.wgt.bits + u.attrs.mh * (acc + MultBits)
  IN Cost(Sites(bits), Sites(2 * bits), 0, 0)
(* Flip flops the added stages hold; acc is the word of a sum, products what *)
(* the products of a vector take. *)
StageRegisters(u, acc, products) ==
  LET a == u.attrs
      levels == BitLength(a.mw)
      cut(i) == (i * levels) \div (a.stages.sum + 1)
  IN a.stages.product * products
       + Sites(SumOf([i \in 1 .. a.stages.sum |-> a.mh * acc * CeilDiv(a.mw + 1, 2 ^ cut(i))])
               + a.stages.rescale * a.mh * (acc + DenseMultBits(u) + 1))
OutputCost(u, acc, products) ==
  LET a == u.attrs
      rescales == a.requant.shift < acc + DenseMultBits(u)
  IN Cost(0, Sites(a.mh * (acc + a.out.bits)) + StageRegisters(u, acc, products),
          IF rescales THEN Sites(a.mh * (IF acc > 27 THEN 2 ELSE 1)) ELSE 0, 0)
MultiplierCost(device, u, acc) ==
  LET a == u.attrs
      multipliers == a.mw * a.mh
      products == Cost(Sites(multipliers * acc), Sites(multipliers * (a.act.bits + a.wgt.bits)),
                       DspCost(device, multipliers, a.act.bits, a.wgt.bits), 0)
  IN TotalCost(<<OutputCost(u, acc, Sites(multipliers * (a.act.bits + a.wgt.bits + 1))), products,
                 IF a.reloadable THEN BankCost(u, acc) ELSE Cost(0, 0, 0, 0)>>)
ConstantsCost(u, acc, products) == Sum2(products, OutputCost(u, acc, products.ff))
ArithmeticCost(device, u, acc) ==
  IF u.attrs.arithmetic = "constant" THEN ConstantsCost(u, acc, ConstantCost(u, acc))
  ELSE MultiplierCost(device, u, acc)
DenseCost(device, u) == ArithmeticCost(device, u, DenseWord(u).bits)

SubElems(u) == Smaller(u.attrs.fold.simd, u.attrs.ifm[4])
Columns2(u) == u.attrs.fold.simd \div SubElems(u)
(* The pixels a line buffer holds: a window's span and the reader's way back. *)
BufferPixels(u) ==
  LET a == u.attrs
      span == (a.kernel[1] - 1) * a.dilations[1] * a.ifm[3] + (a.kernel[2] - 1) * a.dilations[2] + 1
      back == Larger(0, (OfmExtent(u)[2] - 1) * a.strides[2] - a.pads[2])
  IN 2 ^ (CHOOSE b \in 0 .. 16 : /\ 2 ^ b >= span + back + 1
                                 /\ \A c \in 0 .. b - 1 : 2 ^ c < span + back + 1)
WindowCost(u) ==
  Sum2(Repeated(Columns2(u), MemoryCost((BufferPixels(u) * u.attrs.ifm[4]) \div SubElems(u), SubElems(u) * ActBits)),
        Cost(Sites(260 + 40 * Columns2(u)), Sites(200), 0, 0))

TableLuts == Larger(1, 2 ^ ActBits \div 64)
TableCost(lanes) == Cost(Sites(lanes * ActBits * TableLuts), Sites(lanes * ActBits + 1), 0, 0)
Latency(u) ==
  CASE u.op = "Dense" -> 3 + u.attrs.stages.product + u.attrs.stages.sum + u.attrs.stages.rescale
    [] u.op \in {"Table", "ConcatUnit"} -> 1
    [] u.op = "Eltwise" -> IF u.attrs.kind \in ArithmeticKinds
                             THEN 2 + u.attrs.stages.product + u.attrs.stages.rescale
                             ELSE 1 + u.attrs.stages.rescale
    [] u.op = "ReduceUnit" -> 1 + u.attrs.stages.tree + u.attrs.stages.rescale + AsNumber(u.attrs.kind = "sum")
(* A binary unit's earlier input waits in registers, skew cycles of it.      *)
WaitingCost(u, widths) ==
  Cost(0, Sites(SumOf([i \in DOMAIN u.attrs.skew |-> u.attrs.skew[i] * widths[i]]) * ActBits), 0, 0)
LanesCost(u, kind, stages, lanes, live, acc) ==
  CASE kind \in {"and", "or"} -> Cost(Sites(lanes * 2), Sites(lanes * ActBits), 0, 0)
    [] kind \in {"max", "min", "where"} ->
         Cost(Sites(lanes * live * ActBits * TableLuts + lanes * ActBits * 2),
              Sites(lanes * ActBits * (1 + stages.rescale * live)), 0, 0)
    [] OTHER -> Cost(Sites(lanes * (2 * (ActBits + 1) + 3 * acc)),
                     Sites(lanes * (acc * (1 + stages.product) + ActBits + acc * stages.rescale)),
                     Sites(2 * lanes), 0)
EltwiseCost(u) ==
  LET lanes == Product(u.attrs.shape)
      live == Cardinality({i \in DOMAIN u.attrs.operands : u.attrs.operands[i].port # 0})
  IN TotalCost(<<LanesCost(u, u.attrs.kind, u.attrs.stages, lanes, live, EltwiseWord(u).bits),
                 WaitingCost(u, [i \in DOMAIN u.attrs.skew |-> lanes]), Cost(0, Sites(Latency(u)), 0, 0)>>)
ReduceCost(g, u) ==
  LET nodes == u.attrs.lanes - 1
      acc == ReduceWord(u).bits
      bits == u.attrs.type.bits + OutTypeOf(g, u).bits
      stages == u.attrs.stages
  IN IF u.attrs.kind # "sum"
       THEN Cost(Sites(nodes * (u.attrs.type.bits + bits)),
                 Sites(stages.tree * u.attrs.lanes * bits + OutTypeOf(g, u).bits + Latency(u)), 0, 0)
       ELSE Cost(Sites((nodes + 1) * acc + 2 * acc),
                 Sites((stages.tree * u.attrs.lanes + 1) * acc + stages.rescale * (acc + MultBits)
                       + u.attrs.type.bits + Latency(u)), Sites(1), 0)

(* ActBits are few enough that no activation takes a DSP. *)
ActivationCost(u) == Cost(Sites(2 * u.attrs.fold.pe * ActBits), Sites(u.attrs.fold.pe * ActBits), 0, 0)
PoolCost(u) == Cost(Sites(3 * u.attrs.fold.pe * ActBits), Sites(2 * u.attrs.fold.pe * ActBits), 0, 0)
AddCost(u) == Cost(Sites(4 * u.attrs.fold.pe * ActBits), Sites(u.attrs.fold.pe * ActBits), 0, 0)
DuplicateCost(u, bits) == Cost(10 * bits * Len(u.outputs), Sites(bits + Len(u.outputs)), 0, 0)
FifoCost(u) == Sum2(MemoryCost(u.attrs.depth, u.attrs.width), Cost(0, Sites(32), 0, 0))
ConverterCost(u) ==
  LET bits == Larger(u.attrs.in_elems, u.attrs.out_elems) * u.attrs.bits IN Cost(8 * bits, Sites(bits), 0, 0)
ConcatCost(g, u) ==
  Sum2(TableCost(Len(u.attrs.rows)),
       WaitingCost(u, [i \in DOMAIN u.attrs.skew |-> Numel(g.tensors[u.inputs[i]])]))
UnitCost(device, g, u) ==
  CASE u.op = "MatVec" -> MatVecCost(device, u)
    [] u.op = "Dense" -> DenseCost(device, u)
    [] u.op = "Window" -> WindowCost(u)
    [] u.op = "Act" -> ActivationCost(u)
    [] u.op = "Pool" -> PoolCost(u)
    [] u.op = "AddUnit" -> AddCost(u)
    [] u.op = "Duplicate" -> DuplicateCost(u, g.tensors[u.inputs[1]].bits)
    [] u.op = "Fifo" -> FifoCost(u)
    [] u.op = "Converter" -> ConverterCost(u)
    [] u.op = "Table" -> TableCost(Len(u.attrs.rows))
    [] u.op = "ConcatUnit" -> ConcatCost(g, u)
    [] u.op = "Eltwise" -> EltwiseCost(u)
    [] u.op = "ReduceUnit" -> ReduceCost(g, u)
GraphCost(device, g) == TotalCost([i \in DOMAIN g.nodes |-> UnitCost(device, g, g.nodes[i])])

=============================================================================
