------------------------------ MODULE FloatOps -----------------------------
(***************************************************************************)
(* compiler/onnx2fpga/p3_ops: the float operators of the imported graph,   *)
(* what each gives on whole numbers and the shape it gives it in.  A value *)
(* is the sequence of a tensor's elements, channels last; shapes are       *)
(* <<1, features>> or <<1, height, width, channels>>.  Functions of the    *)
(* real line (Sigmoid, Softmax and the like) are not evaluated here.       *)
(***************************************************************************)
EXTENDS IrGraph, QuantGrid

NoAttrs ==
  [label |-> FALSE, relu |-> FALSE, kernel |-> <<1, 1>>, strides |-> <<1, 1>>,
   pads |-> <<0, 0, 0, 0>>, dilations |-> <<1, 1>>, shape |-> <<>>, threshold |-> 0,
   keepdims |-> TRUE, last |-> FALSE, low |-> <<>>, high |-> <<>>, elementwise |-> FALSE]
FrontendNode(op, name, inputs, outputs) ==
  [name |-> name, op |-> op, inputs |-> inputs, outputs |-> outputs, attrs |-> NoAttrs]
(* AddOp and ReluOp are operators of their own; a stream can build them.     *)
ElementwiseOp(op, name, inputs, outputs) ==
  [FrontendNode(op, name, inputs, outputs) EXCEPT !.attrs.elementwise = TRUE]

(* Sums and extremes of a sequence of numbers. *)
SumOf(s) == LET sum[i \in 0 .. Len(s)] == IF i = 0 THEN 0 ELSE sum[i - 1] + s[i] IN sum[Len(s)]
Larger(a, b) == IF a > b THEN a ELSE b
Smaller(a, b) == IF a < b THEN a ELSE b
Largest(s) == Max(Range(s))
Smallest(s) == Min(Range(s))

(* One of a sequence that repeats, which is how numpy broadcasts a constant  *)
(* along the leading axes.                                                   *)
Cyclic(s, k) == s[((k - 1) % Len(s)) + 1]
Broadcast(s, n) == [k \in 1 .. n |-> Cyclic(s, k)]

(* x @ w for each vector of x, w row-major with mh columns. *)
MatMul(x, w, mh) ==
  LET mw == Len(w) \div mh
  IN [k \in 1 .. (Len(x) \div mw) * mh |->
        LET row == (k - 1) \div mh
            column == (k - 1) % mh
        IN SumOf([i \in 1 .. mw |-> x[row * mw + i] * w[(i - 1) * mh + column + 1]])]

-----------------------------------------------------------------------------
(* Im2Col: windows of a map, and what padding puts beside it.               *)

Extent(attrs, axis, size) ==
  LET effective == (attrs.kernel[axis] - 1) * attrs.dilations[axis] + 1
  IN (size + attrs.pads[axis] + attrs.pads[axis + 2] - effective) \div attrs.strides[axis] + 1
OutputExtent(attrs, shape) == <<Extent(attrs, 1, shape[2]), Extent(attrs, 2, shape[3])>>

WindowElems(attrs, channels) == attrs.kernel[1] * attrs.kernel[2] * channels
Columns(attrs, shape, x, pad_value) ==
  LET out == OutputExtent(attrs, shape)
      channels == shape[4]
      size == WindowElems(attrs, channels)
  IN [k \in 1 .. out[1] * out[2] * size |->
        LET pixel == (k - 1) \div size
            element == (k - 1) % size
            i == element \div (attrs.kernel[2] * channels)
            j == (element \div channels) % attrs.kernel[2]
            y == (pixel \div out[2]) * attrs.strides[1] + i * attrs.dilations[1] - attrs.pads[1]
            z == (pixel % out[2]) * attrs.strides[2] + j * attrs.dilations[2] - attrs.pads[2]
        IN IF y \in 0 .. shape[2] - 1 /\ z \in 0 .. shape[3] - 1
             THEN x[(y * shape[3] + z) * channels + (element % channels) + 1]
             ELSE pad_value]

(* The largest of each channel over the places of each window. *)
MaxOfWindows(columns, size, channels) ==
  [k \in 1 .. (Len(columns) \div (size * channels)) * channels |->
     LET first == ((k - 1) \div channels) * size * channels + ((k - 1) % channels) + 1
     IN Largest([i \in 1 .. size |-> columns[first + (i - 1) * channels]])]

-----------------------------------------------------------------------------
(* FUNCTIONS of elementwise.py that keep fractions fractions.               *)

AsNumber(b) == IF b THEN 1 ELSE 0
Boolean == {"Not", "Equal", "Less", "Greater", "LessOrEqual", "GreaterOrEqual", "And", "Or"}
SmallerOf(a, b) == IF AtMost(a, b) THEN a ELSE b
Truth(op, a) ==
  CASE op = "Not" -> a[1][1] = 0
    [] op = "Equal" -> a[1] = a[2]
    [] op = "Less" -> ~AtMost(a[2], a[1])
    [] op = "Greater" -> ~AtMost(a[1], a[2])
    [] op = "LessOrEqual" -> AtMost(a[1], a[2])
    [] op = "GreaterOrEqual" -> AtMost(a[2], a[1])
    [] op = "And" -> a[1][1] # 0 /\ a[2][1] # 0
    [] op = "Or" -> a[1][1] # 0 \/ a[2][1] # 0
Function(op, a, attrs) ==
  CASE op = "Add" -> Plus(a[1], a[2])
    [] op = "Sub" -> Minus(a[1], a[2])
    [] op = "Mul" -> Times(a[1], a[2])
    [] op = "Max" -> LargerOf(a[1], a[2])
    [] op = "Min" -> SmallerOf(a[1], a[2])
    [] op = "Relu" -> LargerOf(a[1], Whole(0))
    [] op = "Neg" -> Minus(Whole(0), a[1])
    [] op = "Abs" -> Magnitude(a[1])
    [] op = "Clip" -> LET up == IF attrs.low = <<>> THEN a[1] ELSE LargerOf(a[1], Whole(attrs.low[1]))
                      IN IF attrs.high = <<>> THEN up ELSE SmallerOf(up, Whole(attrs.high[1]))
    [] op = "Where" -> IF a[1][1] # 0 THEN a[2] ELSE a[3]
    [] op \in Boolean -> Whole(AsNumber(Truth(op, a)))
WholeFunction(op, a, attrs) == Function(op, [i \in DOMAIN a |-> Whole(a[i])], attrs)[1]
Functions1 == {"Relu", "Neg", "Abs", "Clip", "Not"}
Functions2 == {"Add", "Sub", "Mul", "Max", "Min", "And", "Or", "Equal", "Less", "Greater",
               "LessOrEqual", "GreaterOrEqual"}
Elementwise == Functions1 \cup Functions2 \cup {"Where"}

(* The place of the first, or last, largest or smallest element, from 0. *)
Arg(op, x, last) ==
  LET peak == IF op = "ArgMax" THEN Largest(x) ELSE Smallest(x)
      places == {i \in DOMAIN x : x[i] = peak}
  IN (IF last THEN CHOOSE i \in places : \A j \in places : j <= i
      ELSE CHOOSE i \in places : \A j \in places : i <= j) - 1
(* Softmax, scaled and stretched by an increasing function nobody looks at.  *)
Softened(x) == [k \in DOMAIN x |-> x[k] - Largest(x)]
ReduceOps == {"ArgMax", "ArgMin", "ReduceMax", "ReduceMin", "ReduceSum"}
Reduced(op, x, last) ==
  CASE op \in {"ArgMax", "ArgMin"} -> Arg(op, x, last)
    [] op = "ReduceMax" -> Largest(x)
    [] op = "ReduceMin" -> Smallest(x)
    [] op = "ReduceSum" -> SumOf(x)

-----------------------------------------------------------------------------
(* execute and infer of a frontend node.                                    *)

Biased(y, node, values) ==
  IF Len(node.inputs) > 2 THEN [k \in DOMAIN y |-> y[k] + Cyclic(values[node.inputs[3]], k)]
  ELSE y
Answered(y, attrs) ==
  [k \in DOMAIN y |-> IF attrs.label THEN AsNumber(y[k] > 0)
                      ELSE IF attrs.relu THEN Larger(y[k], 0) ELSE y[k]]

Execute(g, node, values) ==
  LET x == values[node.inputs[1]]
      shape == g.tensors[node.inputs[1]].shape
      attrs == node.attrs
      size == Numel(g.tensors[node.outputs[1]])
      weights(columns) ==
        Answered(Biased(MatMul(columns, values[node.inputs[2]],
                               Last(g.tensors[node.inputs[2]].shape)), node, values), attrs)
  IN <<CASE node.op = "Gemm" -> weights(x)
         [] node.op = "Conv" -> weights(Columns(attrs, shape, x, 0))
         [] node.op = "MaxPool" ->
              MaxOfWindows(Columns(attrs, shape, x, -1000), attrs.kernel[1] * attrs.kernel[2], shape[4])
         [] node.op = "Flatten" -> x
         [] node.op = "Binarizer" -> [k \in DOMAIN x |-> AsNumber(x[k] > attrs.threshold)]
         [] node.op = "Concat" -> FlattenSeq([i \in DOMAIN node.inputs |-> values[node.inputs[i]]])
         [] node.op = "Softmax" -> Softened(x)
         [] node.op \in ReduceOps -> <<Reduced(node.op, x, attrs.last)>>
         [] node.op \in Elementwise ->
              [k \in 1 .. size |-> WholeFunction(node.op, [i \in DOMAIN node.inputs |->
                                            Cyclic(values[node.inputs[i]], k)], attrs)]>>

OutShape(g, node) ==
  LET shape(i) == g.tensors[node.inputs[i]].shape
      extent == OutputExtent(node.attrs, shape(1))
      numel(i) == Numel(g.tensors[node.inputs[i]])
  IN CASE node.op = "Gemm" -> <<shape(1)[1], shape(2)[2]>>
       [] node.op = "Conv" -> <<shape(1)[1], extent[1], extent[2], shape(2)[4]>>
       [] node.op = "MaxPool" -> <<shape(1)[1], extent[1], extent[2], shape(1)[4]>>
       [] node.op = "Flatten" -> IF node.attrs.shape # <<>> THEN node.attrs.shape
                                 ELSE <<shape(1)[1], numel(1) \div shape(1)[1]>>
       [] node.op = "Concat" -> <<shape(1)[1], SumOf([i \in DOMAIN node.inputs |->
                                                 Product(Tail(shape(i)))])>>
       [] node.op \in ReduceOps -> IF node.attrs.keepdims THEN <<1, 1>> ELSE <<1>>
       [] node.op \in {"Relu", "Binarizer", "Softmax"} -> shape(1)
       [] node.op \in Elementwise ->
            shape(CHOOSE i \in DOMAIN node.inputs :
                    \A j \in DOMAIN node.inputs :
                      numel(j) < numel(i) \/ (numel(j) = numel(i) /\ Len(shape(j)) <= Len(shape(i))))

InferNode(g, node) ==
  LET out == node.outputs[1] IN
  [EnsureTensor(g, out) EXCEPT !.tensors[out].shape = OutShape(g, node)]

=============================================================================
