-------------------------- MODULE CompilePipeline ---------------------------
(***************************************************************************)
(* compiler/onnx2fpga/compile.py: one compilation.  The importer visits    *)
(* the model's nodes one at a time, a plan gives the tensors their grids,  *)
(* the float operators become integer units one at a time, and the passes  *)
(* of the mode make a design of them.                                      *)
(***************************************************************************)
EXTENDS OnnxMeaning, Lowering, Schedules

(* What a lowered unit may make of the codes it reads: the float operator's *)
(* result on the numbers those codes stand for, rounded onto the output's   *)
(* grid, no further off than its own rounding can account for.              *)

(* A Flatten leaves no unit; its readers read what it read. *)
RECURSIVE Source(_, _)
Source(float, name) ==
  LET producer == Producer(float, name)
  IN IF producer.op = "Flatten" THEN Source(float, producer.inputs[1]) ELSE name

Half(n) == Ratio(n, 2)
UnitNamed(g, name) == CHOOSE u \in Range(g.nodes) : u.name = name
(* A widened unit's codes are that much finer than its grid. *)
Finer(plan, u, out) ==
  IF IsMatVec(u) /\ plan.specs[out].bits = 0 /\ u.attrs.out.bits > ActBits
    THEN 2 ^ (u.attrs.out.bits - ActBits) ELSE 1

(* numbers(i): the real numbers operand i of the float node stands for.      *)
RealMatMul(x, w, b, mh) ==
  LET mw == Len(w) \div mh
  IN [k \in 1 .. (Len(x) \div mw) * mh |->
        LET row == (k - 1) \div mh
            column == (k - 1) % mh
        IN Plus(Total([i \in 1 .. mw |-> Times(x[row * mw + i], Whole(w[(i - 1) * mh + column + 1]))]),
                Whole(IF b = <<>> THEN 0 ELSE Cyclic(b, k)))]
RealExecute(float, node, numbers) ==
  LET data(i) == IF i \in DOMAIN node.inputs THEN float.tensors[node.inputs[i]].data ELSE <<>>
      weights(x) == LET y == RealMatMul(x, data(2), data(3), Last(float.tensors[node.inputs[2]].shape))
                    IN [k \in DOMAIN y |-> IF node.attrs.relu THEN LargerOf(y[k], Whole(0)) ELSE y[k]]
      shape == float.tensors[node.inputs[1]].shape
  IN CASE node.op = "Gemm" -> weights(numbers[1])
       [] node.op = "Conv" -> weights(Columns(node.attrs, shape, numbers[1], Whole(0)))
       [] node.op = "Binarizer" ->
            [k \in DOMAIN numbers[1] |-> Whole(AsNumber(~AtMost(numbers[1][k], Whole(node.attrs.threshold))))]
       [] node.op = "Concat" -> FlattenSeq(numbers)
       [] node.op = "ReduceSum" -> <<Total(numbers[1])>>
       [] node.op \in Elementwise ->
            [k \in 1 .. Numel(float.tensors[node.outputs[1]]) |->
               Function(node.op, [i \in DOMAIN numbers |-> Cyclic(numbers[i], k)], node.attrs)]
(* Where codes compare as the numbers do, the answer is a code.              *)
ByCodes == {"MaxPool", "ReduceMax", "ReduceMin", "ArgMax", "ArgMin"}
CodeExecute(float, node, codes) ==
  IF node.op = "MaxPool"
    THEN MaxOfWindows(Columns(node.attrs, float.tensors[node.inputs[1]].shape, codes, MinOf(ActType) - 1),
                      node.attrs.kernel[1] * node.attrs.kernel[2], float.tensors[node.inputs[1]].shape[4])
    ELSE <<Reduced(node.op, codes, node.attrs.last)>>

(* How far, in steps of the output, rounding weights, bias and multipliers   *)
(* may move a code, besides the half step of the last rounding.              *)
WeightStep(float, plan, node, k) ==
  LET spec == plan.specs[Source(float, node.inputs[1])]
      data == float.tensors[node.inputs[2]].data
      mh == Last(float.tensors[node.inputs[2]].shape)
      per_feature == Len(spec.scale) > 1
      stated == IF per_feature \/ ~HasGrid(plan, node.inputs[2]) THEN {} ELSE {plan.specs[node.inputs[2]]}
      matrix == [j \in DOMAIN data |->
                   IF per_feature THEN Times(Whole(data[j]), spec.scale[(j - 1) \div mh + 1]) ELSE Whole(data[j])]
  IN Times(At(WeightScales(plan, matrix, mh, stated, node.name), k),
           IF per_feature THEN Whole(1) ELSE spec.scale[1])
InputCodes(float, g, node, values) ==
  values[IF node.op = "Conv" THEN UnitNamed(g, node.name).inputs[1] ELSE Source(float, node.inputs[1])]
MatVecError(float, g, plan, node, values, k) ==
  LET u == UnitNamed(g, node.name)
      x == InputCodes(float, g, node, values)
      row == ((k - 1) \div u.attrs.mh) * u.attrs.mw
  IN Times(Half(1 + SumOf([i \in 1 .. u.attrs.mw |-> AbsInt(x[row + i])])), WeightStep(float, plan, node, k))
Slack(float, g, plan, node, values, k) ==
  LET u == UnitNamed(g, node.name)
      codes(i) == values[Source(float, node.inputs[i])]
      term(i) == AbsInt(Cyclic(codes(i), k) - ZeroIn(plan, Source(float, node.inputs[i])))
      shifted(n, shift) == Ratio(n, 2 ^ (shift + 1))
      fine == Whole(Finer(plan, u, node.outputs[1]))
  IN CASE node.op \in {"Gemm", "Conv"} ->
            Plus(Over(Times(MatVecError(float, g, plan, node, values, k), fine), At(plan.specs[node.outputs[1]].scale, k)),
                 shifted(AbsInt(Accumulated(u, InputCodes(float, g, node, values))[k]), u.attrs.requant.shift))
       [] u.op = "Act" -> shifted(term(1), u.attrs.requant.shift)
       [] u.op = "AddUnit" \/ (u.op = "Eltwise" /\ u.attrs.kind = "add") -> shifted(term(1) + term(2), u.attrs.shift)
       [] u.op = "Eltwise" /\ u.attrs.kind = "mul" -> shifted(term(1) * term(2), u.attrs.shift)
       [] node.op = "ReduceSum" ->
            shifted(AbsInt(SumOf(codes(1)) - Len(codes(1)) * ZeroIn(plan, Source(float, node.inputs[1]))),
                    u.attrs.requant.shift)
       [] OTHER -> Whole(0)

Bounded(type, r) == SmallerOf(LargerOf(r, Whole(MinOf(type))), Whole(MaxOf(type)))
Within(a, b, slack) == AtMost(Magnitude(Minus(a, b)), slack)
NearZero(a, slack) == AtMost(Magnitude(a), slack)
Compares == {"Equal", "Less", "Greater", "LessOrEqual", "GreaterOrEqual"}

Rounds(float, g, plan, node, values) ==
  LET u == UnitNamed(g, node.name)
      out == node.outputs[1]
      spec == plan.specs[Source(float, out)]
      name(i) == Source(float, node.inputs[i])
      numbers == [i \in DOMAIN node.inputs |->
                    IF IsConstant(float.tensors[node.inputs[i]])
                      THEN [k \in DOMAIN float.tensors[node.inputs[i]].data |-> Whole(float.tensors[node.inputs[i]].data[k])]
                      ELSE [k \in DOMAIN values[name(i)] |-> Real(plan.specs[name(i)], values[name(i)][k], k)]]
      y == RealExecute(float, node, numbers)
      code == values[Source(float, out)]
      fine == Finer(plan, u, out)
      type == IF spec.bits > ActBits THEN Type(spec.bits, spec.signed)
              ELSE Type(BoundsType(plan, out).bits + (IF fine > 1 THEN WidenBits ELSE 0), TRUE)
      steps(k) == Times(Plus(Over(y[k], At(spec.scale, k)), Whole(At(spec.zero, k))), Whole(fine))
      (* two operands on grids of their own, compared by rounded multipliers *)
      apart(k) == Minus(Cyclic(numbers[1], k), Cyclic(numbers[2], k))
      blur(k) == Times(LargerOf(ScaleIn(plan, name(1)), ScaleIn(plan, name(2))),
                       Ratio(SumOf([i \in 1 .. 2 |-> AbsInt(Cyclic(values[name(i)], k) - ZeroIn(plan, name(i)))]),
                             2 ^ (MultBits - 1)))
  IN CASE node.op \in ByCodes -> code = CodeExecute(float, node, values[name(1)])
       [] node.attrs.label ->
            \A k \in DOMAIN code :
              \/ code[k] = AsNumber(y[k][1] > 0)
              \/ NearZero(y[k], MatVecError(float, g, plan, node, values, k))
       [] u.op = "Eltwise" /\ node.op \in Compares ->
            \A k \in DOMAIN code : Whole(code[k]) = y[k] \/ NearZero(apart(k), blur(k))
       [] OTHER ->
            \A k \in DOMAIN code :
              Within(Whole(code[k]), Bounded(type, steps(k)),
                     Plus(Half(1), Slack(float, g, plan, node, values, k)))

-----------------------------------------------------------------------------
(* The least and the greatest sum each lane of a unit meets over every code  *)
(* its inputs can have.                                                      *)

Corners(type, zero, mult) == {(MinOf(type) - zero) * mult, (MaxOf(type) - zero) * mult}
Extremes(ends, offset) ==
  {offset + SumOf([i \in DOMAIN ends |-> Min(ends[i])]), offset + SumOf([i \in DOMAIN ends |-> Max(ends[i])])}
EltwiseEnds(u, k) ==
  LET operand(i) == u.attrs.operands[i]
      ends(i, mult) == IF operand(i).port # 0 THEN Corners(ActType, operand(i).zero, mult)
                       ELSE {(Cyclic(operand(i).codes, k) - operand(i).zero) * mult}
  IN IF u.attrs.kind = "mul" THEN {x * y : x \in ends(1, 1), y \in ends(2, 1)}
     ELSE Extremes([i \in DOMAIN u.attrs.operands |-> ends(i, operand(i).mult)], 0)
SumEnds(u) ==
  LET a == u.attrs
  IN CASE IsMatVec(u) ->
            UNION {Extremes([i \in 1 .. a.mw |-> Corners(a.act, 0, ColumnOf(u, k)[i])], a.bias[k]) : k \in 1 .. a.mh}
       [] u.op = "AddUnit" -> Extremes(<<Corners(ActType, 0, a.left), Corners(ActType, 0, a.right)>>, a.bias)
       [] u.op = "Eltwise" /\ a.kind \in ArithmeticKinds ->
            UNION {EltwiseEnds(u, k) : k \in 1 .. Product(a.shape)}
       [] u.op = "ReduceUnit" /\ a.kind = "sum" -> Extremes([i \in 1 .. a.lanes |-> Corners(a.type, a.zero, 1)], 0)
       [] OTHER -> {}
FitsSigned(bits, n) == -(2 ^ (bits - 1)) <= n /\ n < 2 ^ (bits - 1)

-----------------------------------------------------------------------------
CONSTANTS Models,          \* the ONNX models compiled, a set
          StreamSettings,  \* device, target, pin and memory of a stream design
          FixedSettings    \* device, reloadable weights, arithmetics and stages of a fixed one

VARIABLES
  model,     \* the model being compiled
  stage,     \* the stage about to run
  visited,   \* how many of the model's nodes the importer has visited
  im,        \* the importer, with the graph
  fixed,     \* the mode: fixed latency, or a stream
  float,     \* the float graph, its Relus fused
  work,      \* the graph being lowered, and the plan
  pending,   \* the float nodes not lowered yet
  setting,   \* what the design was asked to be
  design,    \* the graph the passes after lowering rewrite, and what they report
  codes      \* every tensor's codes as the graph was lowered

vars == <<model, stage, visited, im, fixed, float, work, pending, setting, design, codes>>
front == <<model, visited, im>>
later == <<setting, design, codes>>
back == <<fixed, float, work, pending, later>>
lowering == <<front, fixed, float, work, pending>>

(* The sample the plan is measured on, and the input of the reference run.  *)
Feeds == [n \in DOMAIN model.inputs |->
            LET shape == model.inputs[n]
            IN Array(shape, [k \in 1 .. Product(shape) |-> ((3 * k) % 7) - 3])]
Stored == [n \in DOMAIN Feeds |-> ToStored(Feeds[n].shape, Feeds[n].data)]

Init ==
  /\ model \in Models
  /\ stage = "import"
  /\ visited = 0
  /\ im = Start(model)
  /\ fixed = FALSE
  /\ float = EmptyGraph
  /\ work = Context(EmptyGraph, EmptyPlan, FALSE)
  /\ pending = <<>>
  /\ setting = <<>>
  /\ design = [g |-> EmptyGraph, refused |-> FALSE]
  /\ codes = <<>>

ImportNode ==
  /\ stage = "import" /\ visited < Len(model.nodes)
  /\ im' = Visit(im, model.nodes[visited + 1])
  /\ visited' = visited + 1
  /\ stage' = IF im'.refused THEN "refused" ELSE stage
  /\ UNCHANGED <<model, back>>

ImportEnd ==
  /\ stage = "import" /\ visited = Len(model.nodes)
  /\ im' = Finish(im, model)
  /\ stage' = IF im'.refused THEN "refused" ELSE "fuse"
  /\ UNCHANGED <<model, visited, back>>

(* The mode builds every operator left, or the compilation ends. *)
Built == \A i \in DOMAIN im.graph.nodes : im.graph.nodes[i].op \in Lowerable
Fuse ==
  /\ stage = "fuse" /\ Built
  /\ fixed' \in BOOLEAN
  /\ float' = Fused(im.graph)
  /\ stage' = IF \A node \in Range(float'.nodes) : IF fixed' THEN FixedOp(node) ELSE StreamOp(node)
                THEN "plan" ELSE "refused"
  /\ UNCHANGED <<front, work, pending, later>>

(* The model's own grids, or those of the samples. *)
Plan ==
  /\ stage = "plan"
  /\ LET plan == IF im.graph.annotations # <<>> THEN FromAnnotations(im.graph.annotations)
                 ELSE Calibrated(float, <<Stored>>)
     IN work' = StartLowering(float, plan, fixed)
  /\ pending' = [i \in DOMAIN TopologicalOrder(float).order |-> TopologicalOrder(float).order[i].name]
  /\ stage' = "lower"
  /\ UNCHANGED <<front, fixed, float, later>>

Lower ==
  /\ stage = "lower" /\ pending # <<>>
  /\ work' = LowerNode(work, Head(pending))
  /\ pending' = Tail(pending)
  /\ stage' = IF work'.refused THEN "refused" ELSE stage
  /\ UNCHANGED <<front, fixed, float, later>>
Codes == [n \in DOMAIN Stored |-> QuantizeTo(work.plan, n, [k \in DOMAIN Stored[n] |-> Whole(Stored[n][k])])]
LowerEnd ==
  /\ stage = "lower" /\ pending = <<>>
  /\ work' = EndLowering(work)
  /\ codes' = Run(work'.graph, Codes, ExecuteUnit)
  /\ design' = [g |-> work'.graph, refused |-> FALSE]
  /\ stage' = "lowered"
  /\ UNCHANGED <<front, fixed, float, pending, setting>>

(* The passes of a stream design, one after the other. *)
Pass(from, to, result) ==
  /\ stage = from
  /\ design' = result
  /\ stage' = IF result.refused THEN "refused" ELSE to
  /\ UNCHANGED <<lowering, codes>>
Rewritten(g) == [design EXCEPT !.g = g]
Duplicate == ~fixed /\ Pass("lowered", "forked", Rewritten(InsertDuplicates(design.g))) /\ UNCHANGED setting
(* A setting pins, by place, units that fold, or none, and says where the    *)
(* weight tables go.                                                         *)
PinsOf(s, names) ==
  {<<>>} \cup {[n \in {names[i] : i \in DOMAIN q} |-> q[CHOOSE i \in DOMAIN q : names[i] = n]] :
                 q \in {q \in s.pins : Len(q) <= Len(names)}}
Pins(s) == PinsOf(s, FoldingUnits(design.g))
Memories(s) == {[n \in TablesOf(design.g) |-> s.memory]}
FoldUnits ==
  \E s \in StreamSettings : \E pins \in Pins(s), memory \in Memories(s) :
    /\ Pass("forked", "folded", FoldDesign(s.device, design.g, s.target, pins, memory))
    /\ setting' = s
Align == Pass("folded", "aligned", Rewritten(Aligned(setting.device, design.g))) /\ UNCHANGED setting
Convert == Pass("aligned", "converted", Rewritten(InsertConverters(design.g))) /\ UNCHANGED setting
WithFifos(g) == [design EXCEPT !.g = g, !.refused = ~SingleConsumer(g)]
Buffer == Pass("converted", "built", WithFifos(InsertFifos(design.g))) /\ UNCHANGED setting

(* A fixed latency design is one pass: units, their stages, their skews.     *)
Asked(arithmetic) == Restrict(arithmetic, {n \in DOMAIN arithmetic : arithmetic[n] # "auto"})
UnrollUnits ==
  \E s \in FixedSettings :
    /\ \E arithmetic \in [TablesOf(design.g) -> s.arithmetics] :
         fixed /\ Pass("lowered", "unrolled", Unroll(s.device, design.g, s.reloadable, Asked(arithmetic)))
    /\ setting' = s
Time ==
  /\ stage = "unrolled"
  /\ \/ \E stages \in [Staged(design.g) -> setting.stages] :
            Pass("unrolled", "built", Timed(setting.device, Pipelined(design.g, stages)))
     \/ setting.stages # {NoStages} /\ Pass("unrolled", "built", OutOfReach(design.g))
  /\ UNCHANGED setting

Next == \/ ImportNode \/ ImportEnd \/ Fuse \/ Plan \/ Lower \/ LowerEnd
        \/ Duplicate \/ FoldUnits \/ Align \/ Convert \/ Buffer \/ UnrollUnits \/ Time
Spec == Init /\ [][Next]_vars

-----------------------------------------------------------------------------

Outputs(nodes) == UNION {Range(nodes[i].output) : i \in DOMAIN nodes}
StillRead == Range(model.outputs)
               \cup UNION {Range(model.nodes[i].input) : i \in visited + 1 .. Len(model.nodes)}
Known == {<<>>} \cup DOMAIN model.initializer
Needed == {n \in StillRead \ Known :
             n \in DOMAIN model.inputs \cup Outputs(SubSeq(model.nodes, 1, visited))}
ValueOf(values, name) ==
  LET resolved == Rename(im, name)
      view == im.views[resolved]
      x == values[view.source]
  IN IF IsConst(im, name) THEN im.constants[resolved].data
     ELSE IF resolved \in DOMAIN im.views
       THEN [j \in DOMAIN view.index |-> view.mul[j] * x[view.index[j] + 1] + view.add[j]]
     ELSE ToOnnx(OnnxShape(im, name), values[resolved])

(* What the importer keeps in three places, the graph's operators, the views *)
(* it has put off and the constants it has folded, is together the model: at *)
(* every node, each name still needed has the value ONNX gives it.           *)
SameMeaning(values, meaning) ==
  \A n \in Needed : Rename(im, n) \notin im.dropped => ValueOf(values, n) = meaning[n].data
MeaningKept ==
  stage \in {"import", "fuse"} => SameMeaning(Run(im.graph, Stored, Execute), Meaning(model, Feeds))

(* The code each lowered unit gives is the float operator's result on the    *)
(* numbers its input codes stand for, rounded onto the output's grid: scales,*)
(* zero points, clamps, tables and corrections agree between the units.      *)
EachUnitRounds ==
  stage = "lowered" =>
    \A node \in Range(float.nodes) :
      node.op # "Flatten" => Rounds(float, work.graph, work.plan, node, codes)

(* No codes on a unit's inputs make a sum the word its hardware adds in, as  *)
(* wide as the unit's own bound on its weights, bias and zero points, cannot *)
(* hold.  Not so for a layer whose weights are all zero and whose biases are *)
(* not negative: its bound is an unsigned word (hardware_ops.py:194), which  *)
(* the hardware reads as signed.  No input of the run is such a layer.       *)
WordsHold ==
  stage \in {"lowered", "unrolled", "built"} =>
    \A u \in Range(design.g.nodes) : \A n \in SumEnds(u) : FitsSigned(WordOf(u).bits, n)

(* No pass after lowering, forking, folding, converting, buffering, merging  *)
(* tables or choosing the arithmetic, changes a code of the design's outputs.*)
(* Only reloadable weights may: their multipliers are rounded once more.     *)
Rescaled == fixed /\ setting.reloadable
SameCodes ==
  stage \in {"forked", "folded", "aligned", "converted", "unrolled", "built"} =>
    \/ stage \in {"unrolled", "built"} /\ Rescaled
    \/ LET values == Run(design.g, Codes, ExecuteUnit)
       IN \A n \in Range(design.g.outputs) : values[n] = codes[n]

(* Every delay from the input to a tensor, waits included. *)
RECURSIVE Delays(_, _)
Delays(g, name) ==
  LET u == Producer(g, name)
      wait(i) == IF u.op \in {"Eltwise", "ConcatUnit"} THEN u.attrs.skew[i] ELSE 0
  IN IF u = NoNode THEN {0}
     ELSE UNION {{d + wait(i) + Latency(u) : d \in Delays(g, u.inputs[i])} : i \in DOMAIN u.inputs}
(* A fixed latency design has no handshake: by every path through its units, *)
(* an inference reaches the output the latency the report states after it    *)
(* entered, so the operands that meet belong to one inference.               *)
ArrivesTogether ==
  stage = "built" /\ fixed => Delays(design.g, design.g.outputs[1]) = {design.latency}

(* Speeding up one unit never takes the design past a budget: one that is    *)
(* over it was so with every unit at its slowest.                            *)
BudgetKept ==
  stage = "folded" =>
    \/ Overruns(setting.device, GraphCost(setting.device, design.g)) = {}
    \/ \A u \in Range(design.g.nodes) : u.attrs.fold = Factors(1, 1)

(* The designs whose units all take fewer cycles. *)
FasterThan(u, cycles) ==
  {FoldedTo(u, o) : o \in {o \in Range(AllowedFoldings(u)) : Cycles(FoldedTo(u, o)) < cycles}}
FoldedWithin(g, names, cycles) ==
  FoldLeft(LAMBDA graphs, n : {UpdateNode(h, u) : h \in graphs, u \in FasterThan(UnitOf(g, n), cycles)}, {g}, names)
(* Where the target does not fit, the greedy passes and the bisection over   *)
(* them end on the lowest bottleneck: no choice of foldings whatever that is *)
(* faster fits the budget, if the slowest design does.                       *)
LeastBottleneck(g, names, fits(_)) ==
  LET slowest == Largest([i \in DOMAIN names |-> Cycles(UnitOf(g, names[i]))])
  IN names # <<>> /\ slowest > setting.target /\ fits(Restarted(g)) =>
       \A h \in FoldedWithin(g, names, slowest) : ~fits(h)
BottleneckIsLeast ==
  stage = "folded" /\ setting.target > 0 =>
    LeastBottleneck(design.g, FoldingUnits(design.g),
                    LAMBDA h : Overruns(setting.device, GraphCost(setting.device, h)) = {})

(* In a built stream design every stream has one reader, one port of it, that *)
(* takes beats as wide as they are sent; converters have whole ratios; and a *)
(* FIFO stands between any two units.                                        *)
StreamsMeet ==
  stage = "built" /\ ~fixed =>
    /\ Validates(design.g)
    /\ \A name \in Streams(design.g) :
         LET g == design.g
             readers == {u \in Range(g.nodes) : Contains(u.inputs, name)}
             ports == SumOf([i \in DOMAIN g.nodes |->
                        Cardinality({j \in DOMAIN g.nodes[i].inputs : g.nodes[i].inputs[j] = name})])
         IN /\ ports + AsNumber(g.outputs[1] = name) <= 1
            /\ \A u \in readers :
                 /\ g.tensors[name].elems_per_beat = InElems(g, u)
                 /\ u.op = "Converter" => CompatibleWidths(u.attrs.in_elems, u.attrs.out_elems)
                 /\ Producer(g, name) = NoNode \/ u.op = "Fifo" \/ Producer(g, name).op = "Fifo"

=============================================================================
