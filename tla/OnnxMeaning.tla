----------------------------- MODULE OnnxMeaning ----------------------------
(***************************************************************************)
(* What ONNX says a model computes, in ONNX's own shapes (channels before  *)
(* height and width), on whole numbers.  External to the repository: the   *)
(* importer is checked against it.  A quantized tensor counts as the real  *)
(* tensor it stands for, before rounding.                                  *)
(***************************************************************************)
EXTENDS OnnxImporter

(* The arrays of a node's inputs, an empty one for an input left out and for *)
(* a classifier's probabilities.                                             *)
Absent == Array(<<0>>, <<>>)
Inputs(node, values) ==
  [i \in DOMAIN node.input |-> IF node.input[i] = <<>> THEN Absent ELSE values[node.input[i]]]

(* a @ b with a of one row, plus c. *)
Affinely(a, b, c) ==
  LET product == MatMul(a.data, b.data, b.shape[2])
  IN Array(<<1, b.shape[2]>>,
           IF c = <<>> THEN product ELSE [j \in DOMAIN product |-> product[j] + Cyclic(c, j)])
TimesBy(a, factor) == [a EXCEPT !.data = ScaledBy(@, factor)]

(* A window slides over each channel; Places holds what each place of it   *)
(* reads, but for the places outside the map.                                *)
Geometry(kernel, strides, dilations, pads, shape) ==
  [kernel |-> kernel, strides |-> strides, dilations |-> dilations, pads |-> pads,
   out |-> [a \in 1 .. 2 |->
              (shape[a + 2] + pads[a] + pads[a + 2] - (kernel[a] - 1) * dilations[a] - 1) \div strides[a] + 1]]
PaddedGeometry(node, kernel, strides, dilations, shape) ==
  Geometry(kernel, strides, dilations,
           ResolvePads(node, kernel, strides, dilations, <<shape[1], shape[3], shape[4]>>), shape)
GeometryOf(node, shape, kernel) ==
  PaddedGeometry(node, kernel, Attr(node, "strides", IF node.op = "MaxPool" THEN kernel ELSE <<1, 1>>),
                 Attr(node, "dilations", <<1, 1>>), shape)
Places(geometry, x, y, z, channel) ==
  LET row(i) == y * geometry.strides[1] + i * geometry.dilations[1] - geometry.pads[1]
      column(j) == z * geometry.strides[2] + j * geometry.dilations[2] - geometry.pads[2]
      inside(p) == row(p[1]) \in 0 .. x.shape[3] - 1 /\ column(p[2]) \in 0 .. x.shape[4] - 1
      at(p) == x.data[(channel * x.shape[3] + row(p[1])) * x.shape[4] + column(p[2]) + 1]
      places == {p \in (0 .. geometry.kernel[1] - 1) \X (0 .. geometry.kernel[2] - 1) : inside(p)}
  IN [p \in places |-> at(p)]
OverMap(geometry, channels, Value(_, _, _)) ==
  Array(<<1, channels>> \o geometry.out,
        [k \in 1 .. channels * geometry.out[1] * geometry.out[2] |->
           Value((k - 1) \div (geometry.out[1] * geometry.out[2]),
                 ((k - 1) \div geometry.out[2]) % geometry.out[1], (k - 1) % geometry.out[2])])
SumMap(f) == SumOf([i \in 1 .. Cardinality(DOMAIN f) |-> f[SetToSeq(DOMAIN f)[i]]])
Tap(w, o, c, at) ==
  SumMap([p \in DOMAIN at |-> at[p] * w.data[((o * w.shape[2] + c) * w.shape[3] + p[1]) * w.shape[4] + p[2] + 1]])
ConvolvedOver(geometry, x, w, bias) ==
  OverMap(geometry, w.shape[1],
          LAMBDA o, y, z : SumOf([c \in 1 .. w.shape[2] |-> Tap(w, o, c - 1, Places(geometry, x, y, z, c - 1))])
                             + (IF bias = <<>> THEN 0 ELSE bias[o + 1]))
Convolved(node, x, w, bias) == ConvolvedOver(GeometryOf(node, x.shape, SubSeq(w.shape, 3, 4)), x, w, bias)
PooledOver(geometry, x) == OverMap(geometry, x.shape[2], LAMBDA c, y, z : Max(Range(Places(geometry, x, y, z, c))))
Pooled(node, x) == PooledOver(GeometryOf(node, x.shape, Attr(node, "kernel_shape", <<2, 2>>)), x)

PerChannel(x, vector) ==
  BroadcastTo(Array(IF Len(x.shape) = 4 THEN <<Len(vector), 1, 1>> ELSE <<Len(vector)>>, vector), x.shape)
Mapped(x, F(_)) == [x EXCEPT !.data = [k \in DOMAIN @ |-> F(k)]]

(* Elementwise functions broadcast their operands. *)
Wider(a, b) == IF BroadcastsTo(b, a) THEN a ELSE b.shape
Widest(x) == FoldLeft(Wider, x[1].shape, x)
ClipAttrs(node, x) == [NoAttrs EXCEPT !.low = IF Given(node, 2) THEN x[2].data ELSE <<>>,
                                      !.high = IF Given(node, 3) THEN x[3].data ELSE <<>>]
EachElement(op, x, shape, attrs) ==
  Array(shape, [k \in 1 .. Product(shape) |->
                  WholeFunction(op, [i \in DOMAIN x |-> Element(x[i], shape, k - 1)], attrs)])
(* A constant divisor is its own reciprocal. *)
Elementwise2(node, x) ==
  IF node.op = "Clip" THEN EachElement("Clip", <<x[1]>>, x[1].shape, ClipAttrs(node, x))
  ELSE EachElement(IF node.op = "Div" THEN "Mul" ELSE node.op, x, Widest(x), NoAttrs)

Classified(node, x) ==
  LET features == Len(x.data)
      rows == Len(node.attr.coefficients) \div features
      weights == Transposed(Array(<<rows, features>>, node.attr.coefficients))
      scores == Affinely(x, weights, Attr(node, "intercepts", <<0>>)).data
      label == IF rows = 1 THEN AsNumber(scores[1] > 0) ELSE Arg("ArgMax", scores, FALSE)
  IN IF node.op = "LinearRegressor" THEN Array(<<1, rows>>, scores) ELSE Array(<<1>>, <<label>>)

QuantCode(node, x) ==
  LET bits == x[4].data[1]
      scale == x[2].data[1]
      zero == x[3].data[1]
      narrow == AsNumber(node.attr.narrow)
      low == IF node.attr.signed THEN narrow - 2 ^ (bits - 1) ELSE 0
      high == IF node.attr.signed THEN 2 ^ (bits - 1) - 1 ELSE 2 ^ bits - 1 - narrow
  IN Mapped(x[1], LAMBDA k : scale * (Clip(Rint(Ratio(x[1].data[k], scale)) + zero, low, high) - zero))

(* A raw integer constant of a quantized operator, as real numbers. *)
Unquantized(raw, scale, zero, axis) ==
  IF raw.type = "float" THEN raw
  ELSE Dequantized(Grid([j \in DOMAIN scale.data |-> Whole(scale.data[j])],
                        IF zero.data = <<>> THEN <<0>> ELSE zero.data, QuantizedBits, TRUE), raw, axis)

(* The value of a node's first output; constants tells stored arrays from    *)
(* live ones.                                                                *)
OfReals(node, a, b, bias) ==
  CASE node.op = "QLinearMatMul" -> Affinely(a, b, <<>>)
    [] node.op = "QGemm" -> Affinely(a, IF Attr(node, "transB", FALSE) THEN Transposed(b) ELSE b, bias)
    [] node.op = "QLinearConv" -> Convolved(node, a, b, bias)
    [] node.op \in {"QLinearAdd", "QLinearMul"} ->
         Elementwise2([node EXCEPT !.op = IF node.op = "QLinearAdd" THEN "Add" ELSE "Mul"], <<a, b>>)
QuantizedBias(node, x, place) ==
  IF place > 0 /\ Given(node, place) THEN ScaledBy(x[place].data, x[2].data[1] * x[5].data[1]) ELSE <<>>
OfPieces(node, x) ==
  Evaluate([node EXCEPT !.op = "Concat"],
           [i \in 1 .. (Len(x) - 2) \div 3 |-> Unquantized(x[3 * i], x[3 * i + 1], x[3 * i + 2], -1)])
Quantized(node, x) ==
  IF node.op = "QLinearConcat" THEN OfPieces(node, x)
  ELSE OfReals(node, Unquantized(x[1], x[2], x[3], -1),
               Unquantized(x[4], x[5], x[6], IF node.op = "QLinearConv" \/ Attr(node, "transB", FALSE) THEN 0 ELSE -1),
               QuantizedBias(node, x, QLinear[node.op][4]))

(* What a dynamic integer layer reads is a real tensor over its scale.       *)
Less(a, b) == Mapped(a, LAMBDA k : a.data[k] - (IF b.data = <<>> THEN 0 ELSE b.data[1]))
IntegerLayerOn(node, a, b) ==
  IF node.op = "MatMulInteger" THEN Affinely(a, b, <<>>) ELSE Convolved(node, a, b, <<>>)
IntegerLayer(node, x, scale) ==
  LET zero(i) == IF Len(x) >= i THEN x[i] ELSE Absent
      codes == Mapped(x[1], LAMBDA k : Over(Whole(x[1].data[k]), scale.scale)[1] + scale.zero)
  IN IntegerLayerOn(node, Less(codes, zero(3)), Less(x[2], zero(4)))

MeaningOf(node, x, about) ==
  CASE node.op \in Qdq ->
         IF node.op = "DequantizeLinear" /\ x[1].type # "float"
           THEN Unquantized(x[1], x[2], IF Len(x) > 2 THEN x[3] ELSE Absent, Attr(node, "axis", 1))
           ELSE x[1]
    [] node.op = "Quant" -> IF about.constant THEN QuantCode(node, x) ELSE x[1]
    [] node.op \in DOMAIN QLinear \cup {"QLinearConcat"} -> Quantized(node, x)
    [] node.op \in {"MatMulInteger", "ConvInteger"} -> IntegerLayer(node, x, about)
    [] node.op \in {"Gemm", "MatMul"} ->
         Affinely(x[1], TimesBy(IF Attr(node, "transB", FALSE) THEN Transposed(x[2]) ELSE x[2], Attr(node, "alpha", 1)),
                  IF Len(x) > 2 THEN ScaledBy(x[3].data, Attr(node, "beta", 1)) ELSE <<>>)
    [] node.op = "Conv" -> Convolved(node, x[1], x[2], IF Len(x) > 2 THEN x[3].data ELSE <<>>)
    [] node.op = "MaxPool" -> Pooled(node, x[1])
    [] node.op \in {"LinearRegressor", "LinearClassifier"} -> Classified(node, x[1])
    [] node.op = "Scaler" ->
         LET scale2 == PerChannel(x[1], Broadcast(node.attr.scale, Channels(x[1].shape)))
             offset == PerChannel(x[1], Broadcast(node.attr.offset, Channels(x[1].shape)))
         IN Mapped(x[1], LAMBDA k : (x[1].data[k] - offset[k]) * scale2[k])
    [] node.op = "BatchNormalization" ->
         LET part(i) == PerChannel(x[1], x[i].data)
         IN Mapped(x[1], LAMBDA k : (part(2)[k] \div Root(part(5)[k])) * (x[1].data[k] - part(4)[k]) + part(3)[k])
    [] node.op = "Binarizer" -> Mapped(x[1], LAMBDA k : AsNumber(x[1].data[k] > Attr(node, "threshold", 0)))
    [] node.op \in {"Normalizer", "ZipMap", "Cast", "Identity"} -> x[1]
    [] node.op = "Softmax" -> [x[1] EXCEPT !.data = Softened(@)]
    [] node.op \in ReduceOps ->
         Array(IF Attr(node, "keepdims", TRUE) THEN <<1, 1>> ELSE <<1>>,
               <<Reduced(node.op, x[1].data, Attr(node, "select_last_index", FALSE))>>)
    [] node.op \in Moves \cup {"Shape", "Concat"} -> Evaluate(node, x)
    [] OTHER -> Elementwise2(node, x)

(* Every value of a model, fed its inputs.                                   *)
About(model, name) ==
  LET giver == SelectSeq(model.nodes, LAMBDA n : n.op = "QuantizeLinear" /\ n.output[1] = name)
      scale == model.initializer[giver[1].input[2]].data[1]
      zero == model.initializer[giver[1].input[3]].data[1]
  IN [scale |-> IF giver = <<>> THEN Whole(1) ELSE Whole(scale),
      zero |-> IF giver = <<>> THEN 0 ELSE zero, constant |-> name \in DOMAIN model.initializer]
After(model, values, node) ==
  [n \in Range(node.output) |-> IF n = node.output[1] THEN MeaningOf(node, Inputs(node, values), About(model, node.input[1]))
                                ELSE Absent] @@ values
Meaning(model, feeds) ==
  FoldLeft(LAMBDA values, node : After(model, values, node), feeds @@ model.initializer, model.nodes)

=============================================================================
