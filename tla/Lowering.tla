------------------------------- MODULE Lowering -----------------------------
(***************************************************************************)
(* compiler/onnx2fpga/p4_quantize: the integer grid of every tensor,       *)
(* measured on samples or stated by the model's own quantize nodes         *)
(* (plan.py, calibrate.py), and the float operators made integer units,    *)
(* node by node, where the plan gains the grids the rules decide           *)
(* (lower.py, elementwise.py, reductions.py).  A rule that raises leaves   *)
(* refused.                                                                *)
(***************************************************************************)
EXTENDS Units

CONSTANT TinyInverse    \* 1 / TINY, 10 ^ 12 in the code

Tiny == <<1, TinyInverse>>

EmptyPlan == [specs |-> <<>>, from_model |-> FALSE, layer_weights |-> <<>>]
AnnotatePlan(plan, name, spec) == [plan EXCEPT !.specs = (name :> ToSigned(spec)) @@ @]
HasGrid(plan, name) == name \in DOMAIN plan.specs
FromAnnotations(annotations) ==
  [EmptyPlan EXCEPT !.specs = [n \in DOMAIN annotations |-> ToSigned(annotations[n])],
                    !.from_model = TRUE]
FromPeaks(peaks) ==
  [EmptyPlan EXCEPT !.specs =
     [n \in DOMAIN peaks |-> ScaleGrid(Over(LargerOf(peaks[n], Tiny), Whole(MaxOf(ActType))))]]

Propagate(plan, source, target) ==
  IF HasGrid(plan, source) THEN AnnotatePlan(plan, target, plan.specs[source]) ELSE plan
BoundsType(plan, name) ==
  IF HasGrid(plan, name) /\ plan.specs[name].bits \in 1 .. ActBits - 1
    THEN Type(plan.specs[name].bits, plan.specs[name].signed)
    ELSE ActType
ScaleIn(plan, name) == plan.specs[name].scale[1]
ZeroIn(plan, name) == plan.specs[name].zero[1]
QuantizeTo(plan, name, reals) ==
  LET spec == plan.specs[name]
  IN [k \in DOMAIN reals |->
        ClampTo(BoundsType(plan, name), Rint(Over(reals[k], At(spec.scale, k))) + At(spec.zero, k))]

WeightTypeFor(plan, layer) ==
  IF layer \in DOMAIN plan.layer_weights THEN plan.layer_weights[layer] ELSE WeightType
(* One scale for each output channel, the last axis of the matrix. *)
WeightScales(plan, matrix, mh, spec, layer) ==
  LET column(k) == [i \in 1 .. Len(matrix) \div mh |-> Magnitude(matrix[(i - 1) * mh + k])]
  IN IF spec = {}
       THEN [k \in 1 .. mh |-> Over(LargerOf(Peak(column(k)), Tiny),
                                    Whole(MaxOf(WeightTypeFor(plan, layer))))]
       ELSE LET stated == CHOOSE s \in spec : TRUE IN Broadcast(stated.scale, mh)
WeightsRefused(plan, spec, layer) ==
  /\ spec # {}
  /\ layer \in DOMAIN plan.layer_weights \/ \E stated \in spec : ~IsSymmetric(stated)
QuantizeWeights(plan, matrix, scales, layer) ==
  [k \in DOMAIN matrix |-> ClampTo(WeightTypeFor(plan, layer), Rint(Over(matrix[k], At(scales, k))))]

-----------------------------------------------------------------------------
(* Calibrator: the float graph's values on each sample, inputs and node      *)
(* outputs alike.                                                            *)

Observe(peaks, name, values) ==
  LET peak == Largest([k \in DOMAIN values |-> AbsInt(values[k])])
  IN (name :> LargerOf(Whole(peak), IF name \in DOMAIN peaks THEN peaks[name] ELSE Whole(0))) @@ peaks
FeatureGrid(columns) ==
  LET low(k) == Smallest(columns[k])
      high(k) == Largest(columns[k])
      span(k) == IF high(k) > low(k) THEN high(k) - low(k) ELSE Larger(AbsInt(high(k)), 1)
      scale == [k \in DOMAIN columns |-> Ratio(span(k), MaxOf(ActType) - MinOf(ActType))]
  IN Grid(scale, [k \in DOMAIN columns |->
                    Rint(Minus(Whole(MinOf(ActType)), Over(Whole(low(k)), scale[k])))], 0, TRUE)
Calibrated(g, samples) ==
  LET written == UNION {Range(g.nodes[i].outputs) : i \in DOMAIN g.nodes}
      observe(peaks, feeds) ==
        LET values == Run(g, feeds, Execute)
        IN FoldSet(LAMBDA n, p : Observe(p, n, values[n]), peaks, DOMAIN feeds \cup written)
      peaked == FromPeaks(FoldLeft(observe, <<>>, samples))
      gemms(name) == \A i \in DOMAIN Consumers(g, name) : Consumers(g, name)[i].op = "Gemm"
      column(name, k) == FlattenSeq([s \in DOMAIN samples |->
        LET x == samples[s][name]
            width == Last(g.tensors[name].shape)
        IN [i \in 1 .. Len(x) \div width |-> x[(i - 1) * width + k]]])
  IN FoldSet(LAMBDA n, p : AnnotatePlan(p, n, FeatureGrid([k \in 1 .. Last(g.tensors[n].shape) |-> column(n, k)])),
             peaked, {n \in g.feature_grids : gemms(n)})

-----------------------------------------------------------------------------

(* FuseRelu: the clamp of the Gemm or Conv before it takes a Relu's place.  *)
FuseRelu(g, node) ==
  LET producer == Producer(g, node.inputs[1])
      fused == [producer EXCEPT !.attrs.relu = TRUE, !.outputs = node.outputs]
  IN IF /\ node.op = "Relu" /\ ~node.attrs.elementwise
        /\ producer.op \in {"Gemm", "Conv"}
        /\ Len(Consumers(g, node.inputs[1])) = 1
        /\ ~Contains(g.outputs, node.inputs[1])
       THEN RemoveNode(UpdateNode(g, fused), node)
       ELSE g
Fused(g) == FoldLeft(LAMBDA h, node : FuseRelu(h, node), g, TopologicalOrder(g).order)

IsElementwise(node) == node.attrs.elementwise
StreamOp(node) == ~(IsElementwise(node) \/ node.op \in ReduceOps \cup {"Softmax", "Concat"})
FixedOp(node) == node.op \notin {"Conv", "MaxPool"}

-----------------------------------------------------------------------------
(* LoweringContext: the graph and the plan a rule rewrites. *)

Context(g, plan, fixed) == [graph |-> g, plan |-> plan, fixed |-> fixed, refused |-> FALSE]
Stop(ctx) == [ctx EXCEPT !.refused = TRUE]
Lowered(ctx, node, units) == [ctx EXCEPT !.graph = ReplaceNode(@, node, units)]
GridFor(ctx, name, spec) == [ctx EXCEPT !.plan = AnnotatePlan(@, name, spec)]
CannotRegrid(plan, source, target) ==
  /\ plan.from_model /\ HasGrid(plan, target)
  /\ ScaleIn(plan, source) # ScaleIn(plan, target) \/ ZeroIn(plan, source) # ZeroIn(plan, target)
StageTensor(ctx, stem) ==
  LET name == FreshName(ctx.graph, stem)
      t == [Tensor(<<>>) EXCEPT !.bits = ActBits]
  IN [name |-> name, ctx |-> [ctx EXCEPT !.graph = AddTensor(@, name, t)]]
Windowed(ctx, node) ==
  LET staged == StageTensor(ctx, Append(node.name, "win"))
      source == node.inputs[1]
  IN [unit |-> WindowUnit(Append(node.name, "swu"), <<source>>, <<staged.name>>,
                          ctx.graph.tensors[source].shape, node.attrs, ZeroIn(ctx.plan, source)),
      ctx |-> staged.ctx]

(* The grids a rule asks the plan for; one that is missing stops it. *)
LiveOf(g, node) == ToSet(StreamInputs(g, node))
GridsRead(ctx, node) ==
  LET stated == IF node.op \in Boolean \/ node.attrs.label THEN {} ELSE Range(node.outputs)
      answers == ctx.plan.from_model /\ Contains(ctx.graph.outputs, node.outputs[1])
  IN CASE node.op \in {"Gemm", "Conv"} -> {node.inputs[1]} \cup (IF answers THEN {} ELSE stated)
       [] node.op \in {"MaxPool", "Binarizer", "ReduceMax", "ReduceMin"} -> {node.inputs[1]}
       [] node.op \in {"Flatten", "ArgMax", "ArgMin"} -> {}
       [] node.op = "Concat" -> Range(node.inputs) \cup stated
       [] OTHER -> LiveOf(ctx.graph, node) \cup stated

-----------------------------------------------------------------------------
(* Gemm and Conv: a scale per feature folds into the weights, a zero point   *)
(* into the bias.                                                            *)

(* The weights as the layer multiplies them, one scale for each output, and  *)
(* the type they are kept in.                                                *)
PerFeature(spec) == Len(spec.scale) > 1
Matrix(spec, data, mh) ==
  [k \in DOMAIN data |-> IF PerFeature(spec) THEN Times(Whole(data[k]), spec.scale[(k - 1) \div mh + 1])
                         ELSE Whole(data[k])]
InScale(spec) == IF PerFeature(spec) THEN Whole(1) ELSE spec.scale[1]
WeightGrid(plan, spec, name) ==
  IF PerFeature(spec) \/ ~HasGrid(plan, name) THEN {} ELSE {plan.specs[name]}
KeptType(wide, stated) ==
  LET narrow == {Type(s.bits, s.signed) : s \in {s \in stated : s.bits \in 1 .. wide.bits - 1}}
  IN IF narrow = {} THEN wide ELSE CHOOSE t \in narrow : TRUE

(* The bias on the grid of the sums, whose scale is step, less what the zero *)
(* points of the inputs add to every sum.                                    *)
BiasCodes(spec, matrix, step, raw(_)) ==
  LET mh == Len(step)
      moved(k) == Total([i \in 1 .. Len(matrix) \div mh |->
                           Times(matrix[(i - 1) * mh + k], Whole(At(spec.zero, i)))])
  IN [k \in 1 .. mh |-> Rint(Over(Minus(Whole(raw(k)), Times(InScale(spec), moved(k))), step[k]))]
RowSum(weights, mh, k) == SumOf([i \in 1 .. Len(weights) \div mh |-> AbsInt(weights[(i - 1) * mh + k])])
Reach(weights, bias, bounds) ==
  LET mh == Len(bias)
  IN Largest([k \in 1 .. mh |-> RowSum(weights, mh, k)])
       * Larger(AbsInt(MinOf(bounds)), AbsInt(MaxOf(bounds)))
       + Largest([k \in 1 .. mh |-> AbsInt(bias[k])])

(* The unit: its sums kept as they are where the model asks for the layer's  *)
(* own result and states no grid for it, rescaled onto the output's grid     *)
(* elsewhere.  unit is without requantizer.                                  *)
Unscaled(ctx, node, unit, step, type) ==
  LET own == Requant([k \in DOMAIN step |-> 1], 0, type)
  IN [ctx |-> GridFor(ctx, node.outputs[1], Grid(step, <<0>>, type.bits, type.signed)),
      unit |-> [unit EXCEPT !.attrs.out = type,
                  !.attrs.requant = [own EXCEPT !.low = IF node.attrs.relu THEN 0 ELSE @]]]
OntoGrid(ctx, node, unit, step) ==
  LET out == node.outputs[1]
      real == [k \in DOMAIN step |-> Over(step[k], ScaleIn(ctx.plan, out))]
  IN [ctx |-> ctx,
      unit |-> [unit EXCEPT !.attrs.requant =
                  FromReal(real, ActType, MultBits, node.attrs.relu, ZeroIn(ctx.plan, out))]]
Requantized(ctx, node, unit, step, reach) ==
  IF /\ ctx.plan.from_model /\ ~HasGrid(ctx.plan, node.outputs[1])
     /\ Contains(ctx.graph.outputs, node.outputs[1])
    THEN Unscaled(ctx, node, unit, step, SmallestFor(-reach, reach))
    ELSE OntoGrid(ctx, node, unit, step)
WithWeights(ctx, node, inputs, vectors, wgt, weights, bias, step) ==
  Requantized(ctx, node,
    MatVecUnit(node.name, inputs, node.outputs, weights, [k \in DOMAIN bias |-> ClampTo(BiasType, bias[k])],
               Requant(<<1>>, 0, ActType), ActType, wgt, vectors),
    step, Reach(weights, bias, BoundsType(ctx.plan, node.inputs[1])))
Scaled(ctx, node, inputs, vectors, stated, matrix, scales) ==
  LET spec == ctx.plan.specs[node.inputs[1]]
      step == [k \in DOMAIN scales |-> Times(InScale(spec), scales[k])]
      raw(k) == IF Len(node.inputs) > 2 THEN Cyclic(ctx.graph.tensors[node.inputs[3]].data, k) ELSE 0
  IN WithWeights(ctx, node, inputs, vectors, KeptType(WeightTypeFor(ctx.plan, node.name), stated),
              QuantizeWeights(ctx.plan, matrix, scales, node.name), BiasCodes(spec, matrix, step, raw), step)
MatVec(ctx, node, inputs, vectors) ==
  LET spec == ctx.plan.specs[node.inputs[1]]
      mh == Last(ctx.graph.tensors[node.inputs[2]].shape)
      stated == WeightGrid(ctx.plan, spec, node.inputs[2])
      matrix == Matrix(spec, ctx.graph.tensors[node.inputs[2]].data, mh)
  IN IF WeightsRefused(ctx.plan, stated, node.name) THEN [ctx |-> Stop(ctx), unit |-> NoNode]
     ELSE Scaled(ctx, node, inputs, vectors, stated, matrix,
                 WeightScales(ctx.plan, matrix, mh, stated, node.name))
InPlaceOf(node, made, units) == IF made.ctx.refused THEN made.ctx ELSE Lowered(made.ctx, node, units)

(* A label is one bit, the sign of the margin. *)
SignOf(made) ==
  LET bit == Type(1, FALSE)
  IN [made EXCEPT !.unit.attrs.out = bit, !.unit.attrs.requant = Requant(<<1>>, 0, bit)]
Gemmed(node, made) == InPlaceOf(node, made, <<made.unit>>)
LowerGemm(ctx, node) ==
  LET labelled == IF node.attrs.label THEN GridFor(ctx, node.outputs[1], ScaleGrid(Whole(1))) ELSE ctx
      rows == ctx.graph.tensors[node.inputs[2]].shape[1]
      signed(made) == IF node.attrs.label /\ ~made.ctx.refused THEN SignOf(made) ELSE made
  IN Gemmed(node, signed(MatVec(labelled, node, <<node.inputs[1]>>,
                                Numel(ctx.graph.tensors[node.inputs[1]]) \div rows)))
WithWindow(node, window, made) == InPlaceOf(node, made, <<window.unit, made.unit>>)
Vectors(window) == OfmExtent(window.unit)[1] * OfmExtent(window.unit)[2]
LowerConv(ctx, node) ==
  LET window == Windowed(ctx, node)
  IN WithWindow(node, window, MatVec(window.ctx, node, window.unit.outputs, Vectors(window)))
LowerBinarizer(ctx, node) ==
  LET spec == ctx.plan.specs[node.inputs[1]]
      source == ctx.graph.tensors[node.inputs[1]]
      width == Last(source.shape)
      code(k) == Plus(Over(Whole(node.attrs.threshold), At(spec.scale, k)), Whole(At(spec.zero, k)))
      bias == [k \in 1 .. width |-> -Clip(Floor(code(k)), MinOf(ActType) - 1, MaxOf(ActType))]
      eye == [k \in 1 .. width * width |-> AsNumber((k - 1) \div width = (k - 1) % width)]
      requant == [Requant([k \in 1 .. width |-> 1], 0, ActType) EXCEPT !.low = 0, !.high = 1]
  IN Lowered(GridFor(ctx, node.outputs[1], ScaleGrid(Whole(1))), node,
             <<MatVecUnit(node.name, node.inputs, node.outputs, eye, bias, requant, ActType,
                          WeightTypeFor(ctx.plan, node.name), Numel(source) \div width)>>)

(* The largest of codes is the code of the largest: the grid stays. *)
LowerMaxPool(ctx, node) ==
  LET window == Windowed(ctx, node)
      extent == OfmExtent(window.unit)
      pool == PoolUnit(node.name, window.unit.outputs, node.outputs, window.unit.attrs.ifm[4],
                       node.attrs.kernel[1] * node.attrs.kernel[2], extent[1] * extent[2])
  IN IF CannotRegrid(ctx.plan, node.inputs[1], node.outputs[1]) THEN Stop(ctx)
     ELSE Lowered([window.ctx EXCEPT !.plan = Propagate(@, node.inputs[1], node.outputs[1])], node,
                  <<window.unit, pool>>)
LowerRelu(ctx, node) ==
  LET source == ctx.graph.tensors[node.inputs[1]]
      ratio == Over(ScaleIn(ctx.plan, node.inputs[1]), ScaleIn(ctx.plan, node.outputs[1]))
      channels == Last(source.shape)
      requant == FromReal([k \in 1 .. channels |-> ratio], ActType, MultBits, TRUE,
                          ZeroIn(ctx.plan, node.outputs[1]))
  IN Lowered(ctx, node, <<ActivationUnit(node.name, node.inputs, node.outputs, channels, Numel(source),
                                         requant, ZeroIn(ctx.plan, node.inputs[1]))>>)
SumOnto(ctx, node, streams, ratio(_), shift) ==
  LET source == ctx.graph.tensors[streams[1]]
      out == node.outputs[1]
      mult(i) == Rint(Times(ratio(i), Whole(2 ^ shift)))
      correction == -ZeroIn(ctx.plan, streams[1]) * mult(1) - ZeroIn(ctx.plan, streams[2]) * mult(2)
  IN Lowered(ctx, node, <<AddUnit(node.name, streams, node.outputs, Numel(source), Last(source.shape),
                                  mult(1), mult(2), shift, correction, ZeroIn(ctx.plan, out))>>)
LowerAdd(ctx, node) ==
  LET streams == StreamInputs(ctx.graph, node)
      ratio(i) == Over(ScaleIn(ctx.plan, streams[i]), ScaleIn(ctx.plan, node.outputs[1]))
  IN IF Len(streams) # 2 THEN Stop(ctx)
     ELSE SumOnto(ctx, node, streams, ratio, FromReal(<<ratio(1), ratio(2)>>, ActType, MultBits, FALSE, 0).shift)
(* A relabelling: its readers read its input, which takes its grid.          *)
LowerFlatten(ctx, node) ==
  LET g == Rewire(ctx.graph, node.outputs[1], node.inputs[1])
  IN Lowered([ctx EXCEPT !.graph = g, !.plan = Propagate(@, node.outputs[1], node.inputs[1])], node, <<>>)

-----------------------------------------------------------------------------
(* Fixed latency mode: a table of every code where one operand is live.      *)

TableOf(F(_), in_scale, in_zero, out_scale, out_zero) ==
  [c \in 1 .. 2 ^ ActBits |->
     ClampTo(ActType, Rint(Over(F(Times(in_scale, Whole(c - 1 + MinOf(ActType) - in_zero))), out_scale)) + out_zero)]
Onto(plan, source, target) ==
  TableOf(LAMBDA x : x, ScaleIn(plan, source), ZeroIn(plan, source), ScaleIn(plan, target), ZeroIn(plan, target))
TableFor(ctx, node, source) ==
  LET plan == ctx.plan
      out == node.outputs[1]
      operands(x, k) == [i \in DOMAIN node.inputs |->
        IF node.inputs[i] = source THEN x ELSE Whole(Cyclic(ctx.graph.tensors[node.inputs[i]].data, k))]
      row(k) == TableOf(LAMBDA x : Function(node.op, operands(x, k), node.attrs),
                        ScaleIn(plan, source), ZeroIn(plan, source), ScaleIn(plan, out), ZeroIn(plan, out))
  IN TableUnit(node.name, <<source>>, node.outputs, [k \in 1 .. Numel(ctx.graph.tensors[source]) |-> row(k)])

Port(live, plan, name, mult, table) ==
  [port |-> CHOOSE i \in DOMAIN live : live[i] = name, codes |-> <<>>, zero |-> ZeroIn(plan, name),
   mult |-> mult, table |-> table]
Stated(codes) == [port |-> 0, codes |-> codes, zero |-> 0, mult |-> 0, table |-> <<>>]
Kind(op) ==
  CASE op \in {"Add", "Sub"} -> "add"
    [] op = "Mul" -> "mul"
    [] op \in {"Less", "Greater"} -> "less"
    [] op \in {"LessOrEqual", "GreaterOrEqual"} -> "less_equal"
    [] op = "Equal" -> "equal"
    [] op = "Max" -> "max"
    [] op = "Min" -> "min"
    [] op = "And" -> "and"
    [] op = "Or" -> "or"
    [] op = "Where" -> "where"
(* The two operands on one grid, the output's or the finer of their own.     *)
EltwiseRequant(plan, op, kind, names, out) ==
  LET scale(i) == ScaleIn(plan, names[i])
      onto(reals) == FromReal(reals, ActType, MultBits, FALSE, 0)
      real(i) == Over(scale(i), ScaleIn(plan, out))
  IN CASE kind = "add" -> onto(<<real(1), IF op = "Sub" THEN Times(real(2), Whole(-1)) ELSE real(2)>>)
       [] kind = "mul" -> onto(<<Times(scale(1), real(2))>>)
       [] kind \in {"less", "less_equal", "equal"} ->
            onto([i \in 1 .. 2 |-> Over(scale(i), LargerOf(scale(1), scale(2)))])
       [] OTHER -> Requant(<<1, 1>>, 0, ActType)
EltwiseOperand(ctx, kind, live, out, name, i, mults) ==
  LET t == ctx.graph.tensors[name]
      mult == CASE kind = "add" -> mults[i]
                [] kind \in {"less", "less_equal", "equal"} -> IF i = 1 THEN mults[1] ELSE -mults[2]
                [] kind \in {"max", "min", "where"} -> 0
                [] OTHER -> 1
      table == IF kind \in {"max", "min"} \/ (kind = "where" /\ i > 1)
               THEN Onto(ctx.plan, name, out) ELSE <<>>
      constant(x) == IF i = 1 THEN AsNumber(x # 0)
                     ELSE ClampTo(ActType, Rint(Over(Whole(x), ScaleIn(ctx.plan, out))) + ZeroIn(ctx.plan, out))
  IN IF IsConstant(t)
       THEN Stated([k \in 1 .. Numel(ctx.graph.tensors[live[1]]) |-> constant(Cyclic(t.data, k))])
       ELSE Port(live, ctx.plan, name, mult, table)
EltwiseOf(ctx, node, kind, live, names, requant) ==
  LET out == node.outputs[1]
  IN EltwiseUnit(node.name, live, node.outputs, ctx.graph.tensors[live[1]].shape, kind,
                 [i \in DOMAIN names |-> EltwiseOperand(ctx, kind, live, out, names[i], i, requant.mults)],
                 IF kind = "mul" THEN requant.mults[1] ELSE 1,
                 IF kind \in {"add", "mul"} THEN requant.shift ELSE 0, ZeroIn(ctx.plan, out))
EltwiseFor(ctx, node, live) ==
  LET swapped == node.op \in {"Greater", "GreaterOrEqual"}
      names == IF swapped THEN Reverse(node.inputs) ELSE node.inputs
      kind == Kind(node.op)
  IN EltwiseOf(ctx, node, kind, live, names,
               EltwiseRequant(ctx.plan, node.op, kind, names, node.outputs[1]))

LowerElementwise(ctx, node) ==
  LET streams == StreamInputs(ctx.graph, node)
      live == FoldLeft(LAMBDA s, n : IF Contains(s, n) THEN s ELSE Append(s, n), <<>>, streams)
      t(i) == ctx.graph.tensors[live[i]]
      truth == IF node.op \in Boolean
                 THEN GridFor(ctx, node.outputs[1], Grid(<<Whole(1)>>, <<0>>, ActBits, TRUE)) ELSE ctx
  IN IF \/ live = <<>>
        \/ \E i \in DOMAIN live : t(i).shape # t(1).shape
        \/ Numel(ctx.graph.tensors[node.outputs[1]]) # Numel(t(1))
       THEN Stop(ctx)
     ELSE Lowered(truth, node, <<IF Len(live) = 1 THEN TableFor(truth, node, live[1])
                                 ELSE EltwiseFor(truth, node, live)>>)
LowerConcat(ctx, node) ==
  LET rows(name) == [k \in 1 .. Numel(ctx.graph.tensors[name]) |-> Onto(ctx.plan, name, node.outputs[1])]
  IN Lowered(ctx, node, <<ConcatUnit(node.name, node.inputs, node.outputs,
                                     FlattenSeq([i \in DOMAIN node.inputs |-> rows(node.inputs[i])]))>>)

(* Reductions: a Gemm read only by an ArgMax gives finer scores. *)
WidenBits == 3
Widened(ctx, source) ==
  LET producer == Producer(ctx.graph, source)
      r == producer.attrs.requant
      wide == Type(ActBits + WidenBits, TRUE)
      shift == Larger(r.shift - WidenBits, 0)
      mults == [k \in DOMAIN r.mults |-> r.mults[k] * 2 ^ (shift - (r.shift - WidenBits))]
      finer == [Requant(mults, shift, wide) EXCEPT !.zero = r.zero * 2 ^ WidenBits]
  IN IF \/ producer.op # "MatVec"
        \/ Len(Consumers(ctx.graph, source)) # 1
        \/ Contains(ctx.graph.outputs, source)
        \/ r.low # MinOf(ActType)
       THEN [ctx |-> ctx, type |-> ActType]
       ELSE [ctx |-> [ctx EXCEPT !.graph = UpdateNode(@, [producer EXCEPT !.attrs.requant = finer,
                                                                          !.attrs.out = wide])],
             type |-> wide]
ReduceKind(op) == CASE op = "ArgMax" -> "argmax" [] op = "ArgMin" -> "argmin" [] op = "ReduceMax" -> "max"
                    [] op = "ReduceMin" -> "min" [] op = "ReduceSum" -> "sum"
LowerReduce(ctx, node) ==
  LET source == node.inputs[1]
      out == node.outputs[1]
      lanes == Numel(ctx.graph.tensors[source])
      shape == ctx.graph.tensors[out].shape
      unit(type, zero, requant) ==
        <<ReduceUnit(node.name, source, out, lanes, ReduceKind(node.op), type, shape, node.attrs.last,
                     zero, requant)>>
      none == Requant(<<1>>, 0, ActType)
      index == Widened(GridFor(ctx, out, ScaleGrid(Whole(1))), source)
  IN CASE node.op \in {"ArgMax", "ArgMin"} ->
            IF Consumers(ctx.graph, out) # <<>> THEN Stop(ctx)
            ELSE Lowered(index.ctx, node, unit(index.type, 0, none))
       [] node.op \in {"ReduceMax", "ReduceMin"} ->
            IF CannotRegrid(ctx.plan, source, out) THEN Stop(ctx)
            ELSE Lowered([ctx EXCEPT !.plan = Propagate(@, source, out)], node, unit(ActType, 0, none))
       [] node.op = "ReduceSum" ->
            Lowered(ctx, node,
                    unit(ActType, ZeroIn(ctx.plan, source),
                         FromReal(<<Over(ScaleIn(ctx.plan, source), ScaleIn(ctx.plan, out))>>, ActType, MultBits,
                                  FALSE, ZeroIn(ctx.plan, out))))

-----------------------------------------------------------------------------
(* LowerToHardware. *)

LowerBy(ctx, node) ==
  CASE node.op = "Gemm" -> LowerGemm(ctx, node)
    [] node.op = "Conv" -> LowerConv(ctx, node)
    [] node.op = "MaxPool" -> LowerMaxPool(ctx, node)
    [] node.op = "Flatten" -> LowerFlatten(ctx, node)
    [] node.op = "Binarizer" -> LowerBinarizer(ctx, node)
    [] node.op = "Concat" -> LowerConcat(ctx, node)
    [] node.op \in ReduceOps -> LowerReduce(ctx, node)
    [] node.op \in Elementwise ->
         IF ctx.fixed \/ IsElementwise(node) THEN LowerElementwise(ctx, node)
         ELSE IF node.op = "Relu" THEN LowerRelu(ctx, node) ELSE LowerAdd(ctx, node)

Lowerable == {"Gemm", "Conv", "MaxPool", "Flatten", "Binarizer", "Concat"} \cup ReduceOps \cup Elementwise

(* A unit whose output has few bits clamps to them, if it clamps at all.     *)
HasRequant(u) == IsMatVec(u) \/ u.op = "Act" \/ (u.op = "ReduceUnit" /\ u.attrs.kind = "sum")
Narrowed(plan, u) ==
  LET type == BoundsType(plan, u.outputs[1])
  IN IF type = ActType \/ ~HasRequant(u) THEN u
     ELSE [u EXCEPT !.attrs.requant.low = Larger(@, MinOf(type)), !.attrs.requant.high = Smaller(@, MaxOf(type))]
CannotClamp(plan, u) ==
  LET type == BoundsType(plan, u.outputs[1])
  IN /\ type # ActType /\ ~HasRequant(u)
     /\ \A i \in DOMAIN u.inputs : HasGrid(plan, u.inputs[i]) => BoundsType(plan, u.inputs[i]) # type
Clamped(ctx, done, written) ==
  IF done.refused \/ \E u \in written : CannotClamp(done.plan, u) THEN Stop(ctx)
  ELSE [done EXCEPT !.graph.nodes =
          [i \in DOMAIN @ |-> IF @[i] \in written THEN Narrowed(done.plan, @[i]) ELSE @[i]]]
WrittenBy(ctx, name, done) ==
  Clamped(ctx, done, {u \in Range(done.graph.nodes) : u.name = name \/ u.name \notin NodeNames(ctx.graph)})
LowerNode(ctx, name) ==
  LET node == CHOOSE n \in Range(ctx.graph.nodes) : n.name = name
  IN IF ~(GridsRead(ctx, node) \subseteq DOMAIN ctx.plan.specs) THEN Stop(ctx)
     ELSE WrittenBy(ctx, name, LowerBy(ctx, node))

StartLowering(g, plan, fixed) ==
  LET act(t) == [t EXCEPT !.bits = ActBits, !.signed = TRUE]
      typed == [g EXCEPT !.tensors = [n \in DOMAIN @ |-> IF Contains(g.inputs, n) THEN act(@[n]) ELSE @[n]]]
  IN Context(typed, plan, fixed)

(* In fixed mode a narrow grid between two layers is that many wires. *)
NarrowWire(ctx, u) ==
  LET name == u.outputs[1]
      type == BoundsType(ctx.plan, name)
      readers == ToSet(Consumers(ctx.graph, name))
      retyped(n) == IF n.name = u.name THEN [n EXCEPT !.attrs.out = type]
                    ELSE IF Contains(n.inputs, name) THEN [n EXCEPT !.attrs.act = type] ELSE n
  IN IF \/ u.op # "MatVec" \/ MinOf(type) = MinOf(ActType) \/ Contains(ctx.graph.outputs, name)
        \/ readers = {} \/ \E r \in readers : r.op # "MatVec"
       THEN ctx
       ELSE [ctx EXCEPT !.graph.nodes = [i \in DOMAIN @ |-> retyped(@[i])]]
EndLowering(ctx) ==
  LET narrow == IF ctx.fixed THEN FoldLeft(NarrowWire, ctx, ctx.graph.nodes) ELSE ctx
  IN [narrow EXCEPT !.graph = Infer(@, InferUnit)]

=============================================================================
