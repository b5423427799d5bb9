------------------------------ MODULE MCCompile -----------------------------
EXTENDS CompilePipeline

CONSTANTS FeatureChain, MapChain

N(s) == <<s>>
Num(data) == Array(<<Len(data)>>, data)
Kept == NoNode
Constants2 ==
  (N("w") :> Array(<<2, 2>>, <<1, -2, 3, 1>>)) @@ (N("b") :> Num(<<2, -1>>)) @@
  (N("c") :> Array(<<1, 2>>, <<3, -2>>)) @@ (N("sign") :> Num(<<-1>>)) @@ (N("two") :> Num(<<2>>)) @@
  (N("one") :> Num(<<1>>)) @@ (N("zero") :> [Num(<<0>>) EXCEPT !.type = "int8"]) @@
  (N("w8") :> Array(<<8, 2>>, [k \in 1 .. 16 |-> ((5 * k) % 4) - 1])) @@
  (N("w26") :> Array(<<2, 6>>, [k \in 1 .. 12 |-> ((5 * k) % 4) - 1])) @@
  (N("w64") :> Array(<<6, 4>>, [k \in 1 .. 24 |-> ((7 * k) % 5) - 2])) @@
  (N("k") :> Array(<<2, 2, 1, 1>>, <<1, -1, 2, 1>>)) @@
  (N("k3") :> Array(<<2, 2, 2, 2>>, [k \in 1 .. 16 |-> ((3 * k) % 5) - 2])) @@
  (N("mc") :> Array(<<2, 1, 1>>, <<2, -1>>)) @@
  (N("q") :> [Array(<<2, 2>>, <<1, -2, 3, 1>>) EXCEPT !.type = "int8"]) @@
  (N("qc") :> [Array(<<1, 2>>, <<3, -2>>) EXCEPT !.type = "uint8"]) @@
  (N("qk") :> [Array(<<2, 2, 1, 1>>, <<1, -1, 2, 1>>) EXCEPT !.type = "int8"]) @@
  (N("scales") :> Num(<<1, 2>>)) @@ (N("zeros") :> [Num(<<0, 0>>) EXCEPT !.type = "int8"]) @@
  (N("qb") :> [Num(<<4, -3>>) EXCEPT !.type = "int32"]) @@ (N("shift") :> [Num(<<1>>) EXCEPT !.type = "int8"]) @@
  (N("three") :> Num(<<3>>)) @@ (N("ax") :> Num(<<-1>>)) @@
  (N("flags") :> Array(<<2, 2, 2>>, <<1, 0, 0, 1, 1, 1, 0, 0>>)) @@
  (N("sc") :> Num(<<2, -1>>)) @@ (N("me") :> Num(<<1, 2>>)) @@ (N("va") :> Num(<<1, 4>>))

Node(op, name, input, output, attr) == [op |-> op, name |-> name, input |-> input, output |-> output, attr |-> attr]
None == [none |-> 0]
Moving(shape, moved) == [shape |-> shape, moved |-> moved]

(* What an operator of a chain makes of in, as out. *)
Feature(kind, in, out) ==
  LET node(op, input, attr) == Node(op, out, input, <<out>>, attr)
  IN CASE kind = "gemm" -> node("Gemm", <<in, N("w"), N("b")>>, [transB |-> TRUE, alpha |-> 2, beta |-> 1])
       [] kind = "matmul" -> node("MatMul", <<in, N("w")>>, None)
       [] kind = "add" -> node("Add", <<in, N("c")>>, None)
       [] kind = "from" -> node("Sub", <<N("c"), in>>, None)
       [] kind = "mul" -> node("Mul", <<N("c"), in>>, None)
       [] kind = "div" -> node("Div", <<in, N("sign")>>, None)
       [] kind = "scaler" -> node("Scaler", <<in>>, [scale |-> <<2, -1>>, offset |-> <<1>>])
       [] kind = "relu" -> node("Relu", <<in>>, None)
       [] kind = "swap" -> node("Gather", <<in, N("one")>>, Moving(<<1, 2>>, <<1, 0>>))
       [] kind = "twice" -> node("Slice", <<in>>, Moving(<<1, 2>>, <<1, 1>>))
       [] kind = "line" -> node("Reshape", <<in>>, Moving(<<2>>, <<0, 1>>))
       [] kind = "clip" -> node("Clip", <<in, <<>>, N("two")>>, None)
       [] kind = "same" -> node("Identity", <<in>>, None)
       [] kind = "qdq" -> node("QuantizeLinear", <<in, N("two"), N("zero")>>, None)
       [] kind = "less" -> node("Less", <<in, N("c")>>, None)
       [] kind = "pixel" -> node("Conv", <<in, N("k"), N("b")>>, None)
       [] kind = "conv" -> node("Conv", <<in, N("k3")>>, [auto_pad |-> "SAME_LOWER"])
       [] kind = "pool" -> node("MaxPool", <<in>>, [kernel_shape |-> <<2, 2>>, strides |-> <<1, 1>>,
                                                    pads |-> <<0, 0, 0, 0>>])
       [] kind = "padded" -> node("MaxPool", <<in>>, [kernel_shape |-> <<2, 2>>, strides |-> <<1, 1>>,
                                                      pads |-> <<0, 1, 1, 0>>])
       [] kind = "norm" -> node("BatchNormalization", <<in, N("sc"), N("b"), N("me"), N("va")>>, None)
       [] kind = "mapmul" -> node("Mul", <<in, N("mc")>>, None)
       [] kind = "turn" -> node("Transpose", <<in>>, Moving(<<1, 2, 2, 2>>, <<0, 2, 1, 3, 4, 6, 5, 7>>))
       [] kind = "crop" -> node("Slice", <<in>>, Moving(<<1, 2, 1, 2>>, <<0, 1, 4, 5>>))
       [] kind = "flat" -> node("Flatten", <<in>>, Moving(<<1, 8>>, Count(8)))
       [] kind = "line1" -> node("Flatten", <<in>>, Moving(<<1, 2>>, Count(2)))
       [] kind = "gemm8" -> node("MatMul", <<in, N("w8")>>, None)
Model(inputs, nodes, outputs) ==
  LET read == UNION {Range(nodes[i].input) : i \in DOMAIN nodes}
  IN [inputs |-> inputs, nodes |-> nodes, outputs |-> outputs,
      initializer |-> [n \in read \cap DOMAIN Constants2 |-> Constants2[n]]]
Chain(kinds, shape, outputs) ==
  LET name(i) == IF i = 0 THEN N("x") ELSE <<"t", ToString(i)>>
  IN Model(N("x") :> shape, [i \in DOMAIN kinds |-> Feature(kinds[i], name(i - 1), name(i))],
           [i \in DOMAIN outputs |-> name(outputs[i])])
FeatureChains == {Chain(kinds, <<1, 2>>, <<3>>) : kinds \in [1 .. 3 -> FeatureChain]}
(* A pool leaves a map of one pixel, too small to turn or to pool again.     *)
MapKinds == {kinds \in [1 .. 2 -> MapChain] : kinds[1] = "pool" => kinds[2] \notin {"pool", "turn"}}
Tail2(kinds) == IF "pool" \in Range(kinds) THEN <<"line1", "matmul">> ELSE <<"flat", "gemm8">>
MapChains ==
  {Chain(kinds, <<1, 2, 2, 2>>, <<2>>) : kinds \in MapKinds}
    \cup {Chain(kinds \o Tail2(kinds), <<1, 2, 2, 2>>, <<4>>) : kinds \in MapKinds}
    \cup {Chain(<<"relu", "padded", "pixel">>, <<1, 2, 2, 2>>, <<3>>)}

(* Two results of a chain meet again. *)
X == N("x")
T(i) == <<"t", ToString(i)>>
Pair(shape) == X :> shape
Op(op, out, input, attr) == Node(op, T(out), input, <<T(out)>>, attr)
Joined(first, second, join) ==
  Model(Pair(<<1, 2>>), <<Feature(first, X, T(1)), Feature(second, IF join[2] THEN T(1) ELSE X, T(2)),
                          Op(join[1], 3, <<T(1), T(2)>>, [axis |-> 1])>>,
        IF join[3] THEN <<T(3), T(1)>> ELSE <<T(3)>>)
Joins == {Joined(first, second, join) :
            first \in {"gemm", "add", "relu", "swap"}, second \in FeatureChain \ {"same", "qdq"},
            join \in {<<"Add", TRUE, FALSE>>, <<"Concat", FALSE, FALSE>>, <<"Max", TRUE, TRUE>>}}

(* Models of their own: quantized, classifying, reducing. *)
Line(nodes) == Model(Pair(<<1, 2>>), nodes, nodes[Len(nodes)].output)
Map(nodes) == Model(Pair(<<1, 2, 2, 2>>), nodes, nodes[Len(nodes)].output)
QuantizeNode(out, in) == Op("QuantizeLinear", out, <<in, N("one"), N("zero")>>, None)
QGrid == <<N("one"), N("zero")>>
Special == {
  Line(<<QuantizeNode(1, X), Op("QLinearMatMul", 2, <<T(1)>> \o QGrid \o <<N("q"), N("two"), N("zero")>> \o QGrid, None),
         Op("DequantizeLinear", 3, <<T(2)>> \o QGrid, None)>>),
  Line(<<Op("QGemm", 1, <<X>> \o QGrid \o <<N("q"), N("scales"), N("zeros"), N("qb"), N("two"), N("zero")>>,
            [transB |-> TRUE]),
         Op("QLinearAdd", 2, <<T(1), N("two"), N("zero"), N("qc"), N("two"), N("shift")>> \o QGrid, None),
         Op("QLinearMul", 3, <<T(2)>> \o QGrid \o <<N("qc")>> \o QGrid \o QGrid, None)>>),
  Map(<<Op("QLinearConv", 1, <<X>> \o QGrid \o <<N("qk"), N("scales"), N("zeros")>> \o QGrid, None),
        Op("QLinearAdd", 2, <<T(1)>> \o QGrid \o <<X>> \o QGrid \o <<N("two"), N("zero")>>, None)>>),
  Line(<<Op("QLinearConcat", 1, QGrid \o <<X>> \o QGrid \o <<N("qc"), N("two"), N("zero")>>, [axis |-> 1]),
         Op("ReduceSum", 2, <<T(1), N("ax")>>, [keepdims |-> FALSE])>>),
  Line(<<Op("QuantizeLinear", 1, <<X, N("one"), N("shift")>>, None),
         Op("MatMulInteger", 2, <<T(1), N("q"), N("zero"), N("shift")>>, None)>>),
  Map(<<QuantizeNode(1, X), Op("ConvInteger", 2, <<T(1), N("qk"), N("zero")>>, None), Feature("pixel", T(2), T(3))>>),
  Line(<<Op("Quant", 1, <<N("w"), N("two"), N("zero"), N("three")>>, [signed |-> TRUE, narrow |-> TRUE]),
         Op("Quant", 2, <<X, N("one"), N("zero"), N("three")>>, [signed |-> TRUE, narrow |-> FALSE]),
         Op("MatMul", 3, <<T(2), T(1)>>, None)>>),
  Line(<<Op("Scaler", 1, <<X>>, [scale |-> <<2, 1>>, offset |-> <<1, -1>>]),
         Node("LinearClassifier", T(2), <<T(1)>>, <<T(2), N("p")>>,
              [coefficients |-> <<1, 2, -1, 1>>, intercepts |-> <<1, 3>>, classes |-> 2]),
         Node("ZipMap", T(3), <<N("p")>>, <<N("z")>>, None), Op("Cast", 4, <<T(2)>>, [to |-> "int"])>>),
  Line(<<Node("LinearClassifier", T(1), <<X>>, <<T(1), N("p")>>,
              [coefficients |-> <<1, 2, -1, 1, 0, -1>>, intercepts |-> <<1, 3, 0>>, classes |-> 3])>>),
  Line(<<Op("LinearRegressor", 1, <<X>>, [coefficients |-> <<1, 2>>]), Op("Cast", 2, <<T(1)>>, [to |-> "float"]),
         Op("Binarizer", 3, <<T(2)>>, [threshold |-> 1])>>),
  Line(<<Feature("matmul", X, T(1)), Op("Softmax", 2, <<T(1)>>, None), Op("Normalizer", 3, <<T(2)>>, [norm |-> "L1"]),
         Op("ArgMax", 4, <<T(3)>>, [axis |-> 1, select_last_index |-> TRUE])>>),
  Line(<<Feature("matmul", X, T(1)), Feature("gemm", X, T(2)), Op("Scaler", 3, <<X>>, [scale |-> <<3>>, offset |-> <<0>>]),
         Op("Concat", 4, <<T(1), N("c"), T(3), T(2)>>, [axis |-> -1]), Feature("relu", T(4), T(5))>>),
  Line(<<Op("DequantizeLinear", 1, <<N("q"), N("scales"), N("zeros")>>, [axis |-> 0]),
         Op("Transpose", 2, <<T(1)>>, Moving(<<2, 2>>, <<0, 2, 1, 3>>)), Op("Mul", 3, <<T(1), N("two")>>, None),
         Op("MatMul", 4, <<X, T(2)>>, None), Op("Shape", 5, <<T(4)>>, None),
         Op("Reshape", 6, <<T(4), T(5)>>, Moving(<<1, 2>>, <<0, 1>>)), Op("MatMul", 7, <<T(6), T(3)>>, None)>>),
  Map(<<Op("Greater", 1, <<X, N("flags")>>, None), Op("Where", 2, <<T(1), X, N("mc")>>, None),
        Op("Sub", 3, <<T(2), N("flags")>>, None)>>),
  Line(<<Op("LessOrEqual", 1, <<X, N("c")>>, None), Op("Not", 2, <<T(1)>>, None), Op("And", 3, <<T(1), T(2)>>, None),
         Op("ReduceMax", 4, <<T(3)>>, [axes |-> <<1>>])>>),
  Line(<<Feature("gemm", X, T(1)), Op("Mul", 2, <<T(1), X>>, None), Op("Less", 3, <<T(2), T(1)>>, None),
         Op("Where", 4, <<T(3), X, T(1)>>, None), Op("ReduceSum", 5, <<T(4), N("ax")>>, [keepdims |-> TRUE])>>),
  Line(<<Feature("matmul", X, T(1)), Op("Sub", 2, <<X, T(1)>>, None), Op("Equal", 3, <<T(2), T(1)>>, None),
         Op("Or", 4, <<T(3), T(2)>>, None)>>),
  Line(<<QuantizeNode(1, X), Feature("matmul", T(1), T(2)),
         Op("Quant", 3, <<T(2), N("one"), N("zero"), N("two")>>, [signed |-> TRUE, narrow |-> FALSE]),
         Feature("gemm", T(3), T(4))>>),
  Line(<<Op("MatMul", 1, <<X, N("w26")>>, None), Op("MatMul", 2, <<T(1), N("w64")>>, None)>>),
  Model(Pair(<<1, 2>>), <<Feature("matmul", X, T(1)), Feature("gemm", T(1), T(2)), Feature("gemm", T(1), T(3))>>, <<T(2), T(3)>>)}
MCModels == FeatureChains \cup MapChains \cup Joins \cup Special

(* A pool over negative numbers whose windows reach beyond the map. *)
PaddedPools == {Chain(<<"padded">>, <<1, 2, 2, 2>>, <<1>>)}

(* Devices: one with room, one with little of everything, one without DSPs   *)
(* that takes its block RAMs to the last.                                    *)
Device(lut, ff, dsp, bram, packs, hard) ==
  [budget |-> [lut |-> lut, ff |-> ff, dsp |-> dsp, bram |-> bram], share |-> Ratio(4, 5), hard |-> hard, packs |-> packs]
Roomy == Device(8000, 8000, 40, 8, TRUE, {})
Small == Device(500, 500, 4, 3, FALSE, {})
Wide == Device(600, 8000, 40, 8, TRUE, {})
Setting(device, target, pins, memory) == [device |-> device, target |-> target, pins |-> pins, memory |-> memory]
Pin(key, value) == {[key |-> key, value |-> value]}
MCStreamSettings ==
  {Setting(Roomy, 0, {<<Pin("pe", 2), Pin("simd", 3)>>}, "auto"), Setting(Small, 2, {}, "auto"),
   Setting(Small, 4, {<<Pin("pe", 2)>>, <<{}, Pin("pe", 2)>>}, "block")}
Stages(product, sum, rescale, tree) == [product |-> product, sum |-> sum, rescale |-> rescale, tree |-> tree]
Fixed(device, reloadable, arithmetics, stages) ==
  [device |-> device, reloadable |-> reloadable, arithmetics |-> arithmetics, stages |-> stages]
MCFixedSettings ==
  {Fixed(Roomy, FALSE, {"auto"}, {NoStages, Stages(1, 1, 2, 1), Stages(2, 0, 0, 3)}),
   Fixed(Roomy, TRUE, {"auto"}, {NoStages}), Fixed(Small, FALSE, {"auto"}, {NoStages}),
   Fixed(Wide, FALSE, {"auto"}, {NoStages}), Fixed(Wide, FALSE, {"constant", "multiplier"}, {NoStages})}
=============================================================================
