---------------------------- MODULE OnnxImporter ---------------------------
(***************************************************************************)
(* compiler/onnx2fpga/p2_graph/onnx_importer.py: an ONNX model becomes the *)
(* float graph, node by node.  im is the importer: the graph so far and    *)
(* its tables.  Scaling and moving elements around costs no hardware: it   *)
(* goes into the layer before, or waits as a view until a layer reads it.  *)
(*                                                                         *)
(* A node's attributes are a sequence of sequences of numbers.  An ONNX op *)
(* that only moves elements is given by the shape it gives and, for every  *)
(* element of it, the place of the element it takes.  Numbers are whole.   *)
(***************************************************************************)
EXTENDS FloatOps

CONSTANTS QuantizedBits   \* bits of the model's quantized integers (8)

Moves == {"Flatten", "Reshape", "Squeeze", "Unsqueeze", "Transpose", "Slice", "Gather",
          "Expand", "Dropout", "ArrayFeatureExtractor"}
KeepsGrid == {"Identity", "Reshape", "Flatten", "Squeeze", "Unsqueeze", "Transpose"}
Arithmetic == {"Add", "Sub", "Mul", "Div"}
Qdq == {"QuantizeLinear", "DequantizeLinear"}
Foldable == Moves \cup Arithmetic \cup {"Identity", "Shape", "Max", "Min", "Neg", "Concat"}
(* Rules that read a view themselves; any other rule gets it built first.    *)
Absorbing == Moves \cup {"Gemm", "MatMul", "LinearRegressor", "LinearClassifier", "Scaler",
                         "BatchNormalization", "Cast", "Concat", "Identity", "ZipMap"}

Array(shape, data) == [shape |-> shape, data |-> data, type |-> "float"]

Fresh(model) ==
  [graph |-> EmptyGraph, renames |-> <<>>, annotations |-> <<>>, dropped |-> {},
   constants |-> model.initializer, views |-> <<>>, shapes |-> <<>>, uses |-> <<>>,
   reads |-> <<>>, refused |-> FALSE]

Refuse(im) == [im EXCEPT !.refused = TRUE]
Named(name, otherwise) == IF name = <<>> THEN otherwise ELSE name
Given(node, i) == Len(node.input) >= i /\ node.input[i] # <<>>

Rename(im, name) == IF name \in DOMAIN im.renames THEN im.renames[name] ELSE name
IsConst(im, name) == Rename(im, name) \in DOMAIN im.constants
(* Of a name that may be a constant's, from the model or folded from it.     *)
ConstantArray(im, name) ==
  LET resolved == Rename(im, name)
  IN IF resolved \in DOMAIN im.constants THEN im.constants[resolved]
     ELSE Array(im.graph.tensors[resolved].shape, im.graph.tensors[resolved].data)

-----------------------------------------------------------------------------
(* Shapes: ONNX keeps channels before height and width, the graph after.    *)

ChannelLast(shape) == IF Len(shape) = 4 THEN <<shape[1], shape[3], shape[4], shape[2]>> ELSE shape
ChannelFirst(shape) == IF Len(shape) = 4 THEN <<shape[1], shape[4], shape[2], shape[3]>> ELSE shape
OnnxShape(im, name) ==
  IF name \in DOMAIN im.shapes THEN im.shapes[name]
  ELSE ChannelFirst(im.graph.tensors[Rename(im, name)].shape)

(* The place in the graph's order of each element, and back, counted from 0, *)
(* for a map of ONNX shape.                                                  *)
StoredPlace(shape, k) ==
  IF Len(shape) # 4 THEN k
  ELSE LET plane == shape[3] * shape[4] IN (k % plane) * shape[2] + k \div plane
OnnxPlace(shape, k) ==
  IF Len(shape) # 4 THEN k
  ELSE LET plane == shape[3] * shape[4] IN (k % shape[2]) * plane + k \div shape[2]
ToStored(shape, data) == [k \in DOMAIN data |-> data[OnnxPlace(shape, k - 1) + 1]]
ToOnnx(shape, data) == [k \in DOMAIN data |-> data[StoredPlace(shape, k - 1) + 1]]

(* numpy's broadcast of an array to a shape, aligned at the last axis. *)
Digit(shape, k, axis) == (k \div Product(SubSeq(shape, axis + 1, Len(shape)))) % shape[axis]
BroadcastsTo(array, shape) ==
  /\ Len(array.shape) <= Len(shape)
  /\ \A j \in DOMAIN array.shape :
       array.shape[j] \in {1, shape[j + Len(shape) - Len(array.shape)]}
Element(array, shape, k) ==
  LET lead == Len(shape) - Len(array.shape)
      into(place, j) == place * array.shape[j]
                          + (IF array.shape[j] = 1 THEN 0 ELSE Digit(shape, k, j + lead))
  IN array.data[FoldLeft(into, 0, [j \in DOMAIN array.shape |-> j]) + 1]
BroadcastTo(array, shape) == [k \in 1 .. Product(shape) |-> Element(array, shape, k - 1)]

ChannelAxis(shape) == IF Len(shape) = 4 THEN 2 ELSE Len(shape)
Channels(shape) == shape[ChannelAxis(shape)]

-----------------------------------------------------------------------------
(* The importer's own tables. *)

(* The grid the model gives each name, in the order the names came.          *)
IsAnnotated(im, name) == \E i \in DOMAIN im.annotations : im.annotations[i].name = name
PlaceOfGrid(im, name) == CHOOSE i \in DOMAIN im.annotations : im.annotations[i].name = name
GridOf(im, name) == im.annotations[PlaceOfGrid(im, name)].spec
Annotate(im, name, spec) ==
  IF IsAnnotated(im, name) THEN [im EXCEPT !.annotations[PlaceOfGrid(im, name)].spec = spec]
  ELSE [im EXCEPT !.annotations = Append(@, [name |-> name, spec |-> spec])]
Forget(im, Unneeded(_)) ==
  [im EXCEPT !.annotations = SelectSeq(@, LAMBDA a : ~Unneeded(a.name))]
Drop(im, name) == [im EXCEPT !.dropped = @ \cup {name}]
Reads(im, name) == IF name \in DOMAIN im.reads THEN im.reads[name] ELSE 0

(* name is source from here on. *)
Alias(im, name, source, counted) ==
  LET target == Rename(im, source)
  IN [im EXCEPT !.renames = (name :> target) @@ @,
                !.reads = (target :> Reads(im, target) + (IF counted THEN 1 ELSE 0)) @@ @,
                !.shapes = IF source \in DOMAIN @ THEN (name :> @[source]) @@ @ ELSE @]

(* One reader, not counting the aliases whose own readers count instead.     *)
UsesOf(im, name) ==
  LET raws == SetToSeq({raw \in DOMAIN im.uses : Rename(im, raw) = name})
  IN SumOf([i \in DOMAIN raws |-> im.uses[raws[i]]])
OnlyUseOrTwo(im, name) == UsesOf(im, name) - Reads(im, name) <= 2
OnlyUse(im, name) == UsesOf(im, name) - Reads(im, name) = 1

DerivedName(im, base) == FreshName(im.graph, Append(base, "_cl"))
(* A constant of the graph, with base's grid when it keeps base's values.    *)
DeriveConstant(im, base, shape, data, grid) ==
  LET name == DerivedName(im, base)
      kept == SelectSeq(IF grid THEN <<base, Rename(im, base)>> ELSE <<>>,
                        LAMBDA n : IsAnnotated(im, n))
      added == [im EXCEPT !.graph = AddTensor(@, name, ConstantTensor(shape, data))]
  IN IF kept = <<>> THEN added ELSE Annotate(added, name, GridOf(im, kept[1]))

(* Shapes are inferred as each node lands, since later ops need them.        *)
Emit(im, node) ==
  LET names == NodeNames(im.graph)
      numbered(k) == Append(node.name, ToString(k))
      unique == IF node.name \notin names THEN node.name
                ELSE numbered(CHOOSE k \in 1 .. Cardinality(names) + 1 :
                                /\ numbered(k) \notin names
                                /\ \A j \in 1 .. k - 1 : numbered(j) \in names)
      named == [node EXCEPT !.name = unique]
  IN [im EXCEPT !.graph = InferNode(AddNode(@, named), named)]

-----------------------------------------------------------------------------
(* A view: y[j] = mul[j] * x[index[j]] + add[j] over the elements of a live  *)
(* tensor x of the graph, not built yet.                                     *)

View(source, index, mul, add, origin) ==
  [source |-> source, index |-> index, mul |-> mul, add |-> add, origin |-> origin]
Count(n) == [k \in 1 .. n |-> k - 1]
Same(n, value) == [k \in 1 .. n |-> value]
IsScaled(view) == (\E j \in DOMAIN view.mul : view.mul[j] # 1) \/ (\E j \in DOMAIN view.add : view.add[j] # 0)
SetView(im, name, view, shape) ==
  [im EXCEPT !.views = (name :> view) @@ @, !.shapes = (name :> shape) @@ @]

(* The view as a matrix, row-major; scaling the model's own inputs asks for  *)
(* a grid per feature.                                                       *)
Selection(view, width) ==
  LET columns == Len(view.index)
  IN [k \in 1 .. width * columns |->
        LET j == ((k - 1) % columns) + 1
        IN IF view.index[j] = (k - 1) \div columns THEN view.mul[j] ELSE 0]
Selecting(im, view) ==
  IF Contains(im.graph.inputs, view.source) /\ IsScaled(view)
    THEN [im EXCEPT !.graph.feature_grids = @ \cup {view.source}] ELSE im

(* A node that reads one constant more. *)
Reading(s, base, array, grid) ==
  [im |-> DeriveConstant(s.im, base, array.shape, array.data, grid),
   node |-> [s.node EXCEPT !.inputs = Append(@, DerivedName(s.im, base))]]
Emitted(s) == Emit(s.im, s.node)
ReadingBias(s, name, offset, columns) ==
  IF offset = <<>> THEN s
  ELSE Reading(s, Append(name, "_bias"), Array(<<columns>>, Broadcast(offset, columns)), FALSE)
Layer(im, gemm, name, base, weights, keeps, offset) ==
  Emitted(ReadingBias(Reading([im |-> im, node |-> gemm], base, weights, keeps), name, offset, weights.shape[2]))
(* A layer on a live tensor, taking in the tensor's view if it has one.      *)
Through(view, weights, width) ==
  Array(<<width, weights.shape[2]>>, MatMul(Selection(view, width), weights.data, weights.shape[2]))
ShiftedBias(view, weights, bias) ==
  LET shifted == MatMul(view.add, weights.data, weights.shape[2])
  IN [j \in DOMAIN shifted |-> shifted[j] + (IF bias = <<>> THEN 0 ELSE Cyclic(bias, j))]
DenseOn(im, gemm, viewed, view, weights, bias, grid_from) ==
  Layer(IF viewed THEN Selecting(im, view) ELSE im, gemm, gemm.name,
        IF viewed \/ grid_from = <<>> THEN Append(gemm.name, "_weights") ELSE grid_from,
        IF viewed THEN Through(view, weights, Numel(im.graph.tensors[view.source])) ELSE weights,
        ~viewed /\ grid_from # <<>>,
        IF viewed THEN ShiftedBias(view, weights, bias) ELSE bias)
Dense(im, name, x, weights, bias, out, grid_from, label) ==
  LET read == Rename(im, x)
      viewed == read \in DOMAIN im.views
      gemm == [FrontendNode("Gemm", name, <<IF viewed THEN im.views[read].source ELSE read>>, <<Rename(im, out)>>)
                 EXCEPT !.attrs.label = label]
  IN DenseOn(im, gemm, viewed, im.views[read], weights, bias, grid_from)

(* A view that only scales and shifts each feature is a table per lane.      *)
AffineSteps(view) ==
  LET lanes(op, value) == [op |-> op, data |-> value, tag |-> IF op = "Mul" THEN "_mul" ELSE "_add",
                           first |-> op = "Sub"]
  IN IF \A j \in DOMAIN view.mul : view.mul[j] = -1 THEN <<lanes("Sub", view.add)>>
     ELSE SelectSeq(<<lanes("Mul", view.mul), lanes("Add", view.add)>>,
                    LAMBDA s : \E j \in DOMAIN s.data : s.data[j] # (IF s.op = "Mul" THEN 1 ELSE 0))
Affine(im, name, view) ==
  LET origin == Named(view.origin, <<"view">>)
      steps == AffineSteps(view)
      step(s, k) ==
        LET last == k = Len(steps)
            constant == DerivedName(s.im, Append(name, steps[k].tag))
            with == DeriveConstant(s.im, Append(name, steps[k].tag),
                                   <<1, Len(steps[k].data)>>, steps[k].data, FALSE)
            out == IF last THEN name ELSE FreshName(s.im.graph, Append(name, "_scaled"))
            inputs == IF steps[k].first THEN <<constant, s.source>> ELSE <<s.source, constant>>
        IN [im |-> Emit(with, ElementwiseOp(steps[k].op,
                                IF last THEN origin ELSE Append(origin, "_scale"), inputs, <<out>>)),
            source |-> out]
  IN FoldLeft(step, [im |-> im, source |-> view.source], [k \in DOMAIN steps |-> k]).im

(* A view nothing absorbed becomes a layer of its own. *)
Unviewed(im, name) == [im EXCEPT !.views = [n \in DOMAIN @ \ {name} |-> @[n]]]
ViewLayer(im, name, view, width) ==
  Layer(Selecting(im, view), FrontendNode("Gemm", Named(view.origin, <<"view">>), <<view.source>>, <<name>>),
        name, Append(name, "_weights"), Array(<<width, Len(view.index)>>, Selection(view, width)), FALSE, view.add)
ViewBuilt(im, name, view, width) ==
  IF name \notin DOMAIN im.shapes \/ Len(im.shapes[name]) > 2 THEN Refuse(im)
  ELSE IF Len(im.shapes[name]) = 2 /\ view.index = Count(width) /\ IsScaled(view) THEN Affine(im, name, view)
  ELSE ViewLayer(im, name, view, width)
Materialize(im, name) ==
  ViewBuilt(Unviewed(im, name), name, im.views[name], Numel(im.graph.tensors[im.views[name].source]))
MaterializeAll(im, names) ==
  FoldLeft(LAMBDA s, n : IF Rename(s, n) \in DOMAIN s.views THEN Materialize(s, Rename(s, n)) ELSE s,
           im, names)

-----------------------------------------------------------------------------
(* out = mul * name + add per channel: into the layer before, into the view, *)
(* or, for a map nothing absorbed, a convolution of one pixel.               *)

IntoView(im, out, view, mul, add) ==
  [im EXCEPT !.views = (out :> [view EXCEPT !.mul = [j \in DOMAIN @ |-> @[j] * mul[j]],
                                            !.add = [j \in DOMAIN @ |-> @[j] * mul[j] + add[j]]]) @@ @]
IntoLayer(im, out, name, producer, mul, add) ==
  LET source == Rename(im, name)
      weights == producer.inputs[2]
      scaled == IF \A c \in DOMAIN mul : mul[c] = 1 THEN im
                ELSE Forget([im EXCEPT !.graph.tensors[weights].data =
                                          [k \in DOMAIN @ |-> @[k] * Cyclic(mul, k)]],
                            LAMBDA n : n = weights)
      bias == producer.inputs[3]
      shifted ==
        IF Len(producer.inputs) > 2
          THEN [scaled EXCEPT !.graph.tensors[bias].data =
                                [c \in DOMAIN mul |-> Cyclic(@, c) * mul[c] + add[c]],
                              !.graph.tensors[bias].shape = <<Len(mul)>>]
          ELSE LET base == Append(source, "_bias")
                   with == DeriveConstant(scaled, base, <<Len(add)>>, add, FALSE)
               IN [with EXCEPT !.graph = UpdateNode(@, [producer EXCEPT !.inputs =
                                            Append(@, DerivedName(scaled, base))])]
  IN Alias(Forget(shifted, LAMBDA n : Rename(im, n) = source), out, name, TRUE)
PixelKernel(mul) ==
  [k \in 1 .. Len(mul) * Len(mul) |->
     IF (k - 1) \div Len(mul) = (k - 1) % Len(mul) THEN mul[((k - 1) % Len(mul)) + 1] ELSE 0]
IntoPixels(im, out, source, mul, add, origin) ==
  LET n == Len(mul)
      conv == [im |-> im, node |-> FrontendNode("Conv", origin, <<source>>, <<out>>)]
  IN Emitted(Reading(Reading(conv, Append(out, "_kernel"), Array(<<1, 1, n, n>>, PixelKernel(mul)), FALSE),
                     Append(out, "_bias"), Array(<<n>>, add), FALSE))

(* The code gives a view of a view no shape, so nothing can shape what reads *)
(* it but a layer.                                                           *)
HasShape(im, name) ==
  name \in DOMAIN im.shapes \/ HasTensor(im.graph, Rename(im, name))
AlongChannels(vector, shape) ==
  BroadcastTo(Array(IF Len(shape) = 4 THEN <<Len(vector), 1, 1>> ELSE <<Len(vector)>>, vector), shape)
ScaledInto(im, out, name, source, shape, mul, add, origin) ==
  LET producer == Producer(im.graph, source)
  IN IF source \in DOMAIN im.views
       THEN IntoView(im, out, im.views[source], AlongChannels(mul, shape), AlongChannels(add, shape))
     ELSE IF producer.op \in {"Gemm", "Conv"} /\ OnlyUse(im, source) /\ ~producer.attrs.label
       THEN IntoLayer(im, out, name, producer, mul, add)
     ELSE IF Len(shape) = 4 THEN IntoPixels(im, out, source, mul, add, origin)
     ELSE SetView(im, out, View(source, Count(Len(mul)), mul, add, origin), shape)
ScaleShift(im, out, name, scale, shift, origin) ==
  LET shape == OnnxShape(im, name)
      each(v) == Broadcast(v, Channels(shape))
  IN IF ~HasShape(im, name) \/ Len(shape) \notin {2, 4} \/ shape[1] # 1 THEN Refuse(im)
     ELSE ScaledInto(im, out, name, Rename(im, name), shape, each(scale), each(shift), origin)

(* A constant Add, Sub, Mul or Div along the features. *)
Rows(value, shape) ==
  LET spread == BroadcastTo(value, shape) IN ToStored(shape, spread)
IsArithmetic(im, node) ==
  LET first == ~IsConst(im, node.input[1])
      live == node.input[IF first THEN 1 ELSE 2]
      value == ConstantArray(im, node.input[IF first THEN 2 ELSE 1])
      shape == OnnxShape(im, live)
      rows == Rows(value, shape)
  IN /\ node.op \in Arithmetic
     /\ Len(node.input) = 2 /\ IsConst(im, node.input[1]) # IsConst(im, node.input[2])
     /\ HasShape(im, live) => /\ BroadcastsTo(value, shape)
                              /\ \A k \in DOMAIN rows : rows[k] = Cyclic(rows, k + Channels(shape))
                              /\ node.op = "Div" => first
(* Of whole numbers only 1 and -1 have one. *)
Reciprocal(v) == v
FactorOf(op, first, vector) ==
  CASE op = "Mul" -> vector
    [] op = "Div" -> [c \in DOMAIN vector |-> Reciprocal(vector[c])]
    [] op = "Sub" /\ ~first -> Same(Len(vector), -1)
    [] OTHER -> Same(Len(vector), 1)
OffsetOf(op, first, vector) ==
  CASE op \in {"Mul", "Div"} -> Same(Len(vector), 0)
    [] op = "Sub" /\ first -> [c \in DOMAIN vector |-> -vector[c]]
    [] OTHER -> vector
FoldWith(im, node, first, live, vector) ==
  ScaleShift(im, node.output[1], live, FactorOf(node.op, first, vector), OffsetOf(node.op, first, vector), node.name)
FoldArithmetic(im, node) ==
  LET first == ~IsConst(im, node.input[1])
      live == node.input[IF first THEN 1 ELSE 2]
      value == ConstantArray(im, node.input[IF first THEN 2 ELSE 1])
      shape == OnnxShape(im, live)
  IN IF ~HasShape(im, live) THEN Refuse(im)
     ELSE FoldWith(im, node, first, live, SubSeq(Rows(value, shape), 1, Channels(shape)))

(* Moved elements; a view keeps ONNX order, a built map is channels last.    *)
Rearrange(im, node) ==
  LET source == Rename(im, node.input[1])
      out == node.output[1]
      shape == OnnxShape(im, node.input[1])
      shaped == node.attr.shape
      viewed == source \in DOMAIN im.views
      view == im.views[source]
      from(k) == IF viewed THEN k ELSE StoredPlace(shape, k)
      index == [j \in DOMAIN node.attr.moved |-> from(node.attr.moved[j])]
      n == Len(index)
      pick(s) == [j \in 1 .. n |-> s[index[j] + 1]]
      flat == FreshName(im.graph, Append(out, "_nhwc"))
      flattened == Emit(im, FrontendNode("Flatten", node.name, <<source>>, <<flat>>))
      dims == IF Len(shaped) > 1 THEN ChannelLast(shaped) ELSE <<1>> \o shaped
      reshaped == [FrontendNode("Flatten", node.name, <<source>>, <<out>>) EXCEPT !.attrs.shape = dims]
  IN IF ~HasShape(im, node.input[1]) THEN Refuse(im)
     ELSE IF viewed
       THEN SetView(im, out, View(view.source, pick(view.index), pick(view.mul), pick(view.add),
                                  view.origin), shaped)
     ELSE IF ToStored(shaped, index) # Count(Product(shape))
       THEN LET map == Len(shape) = 4
            IN SetView(IF map THEN flattened ELSE im, out,
                       View(IF map THEN flat ELSE source, index, Same(n, 1), Same(n, 0), node.name),
                       shaped)
     ELSE IF Len(shaped) # 4 /\ Len(shape) # 4
       THEN [Alias(im, out, node.input[1], TRUE) EXCEPT !.shapes = (out :> shaped) @@ @]
     ELSE Emit([im EXCEPT !.shapes = (out :> shaped) @@ @], reshaped)

-----------------------------------------------------------------------------
(* Constants, computed while importing. *)

Attr(node, key, default) == IF key \in DOMAIN node.attr THEN node.attr[key] ELSE default
Evaluate(node, values) ==
  LET x == values[1]
      pair == IF BroadcastsTo(values[2], x.shape) THEN x.shape ELSE values[2].shape
      each == [k \in 1 .. Product(pair) |->
                 WholeFunction(IF node.op = "Div" THEN "Mul" ELSE node.op,
                               <<Element(x, pair, k - 1), Element(values[2], pair, k - 1)>>, NoAttrs)]
  IN CASE node.op \in Moves \cup {"Identity"} ->
            IF "moved" \in DOMAIN node.attr
              THEN [x EXCEPT !.shape = node.attr.shape,
                             !.data = [j \in DOMAIN node.attr.moved |-> x.data[node.attr.moved[j] + 1]]]
              ELSE x
       [] node.op = "Shape" -> Array(<<Len(x.shape)>>, x.shape)
       [] node.op = "Neg" -> [x EXCEPT !.data = [k \in DOMAIN @ |-> -@[k]]]
       [] node.op = "Concat" ->
            Array(<<1, SumOf([i \in DOMAIN values |-> Len(values[i].data)])>>,
                  FlattenSeq([i \in DOMAIN values |-> values[i].data]))
       [] OTHER -> Array(pair, each)
Fold(im, node) ==
  LET value(name) == IF IsConst(im, name) THEN im.constants[Rename(im, name)]
                     ELSE Array(OnnxShape(im, name), Same(Product(OnnxShape(im, name)), 0))
      out == node.output[1]
      source == Rename(im, node.input[1])
      folded == [im EXCEPT !.constants =
                   (out :> Evaluate(node, [i \in DOMAIN node.input |-> value(node.input[i])])) @@ @]
  IN IF node.op \in KeepsGrid /\ IsAnnotated(im, source)
       THEN Annotate(folded, out, GridOf(im, source)) ELSE folded

-----------------------------------------------------------------------------
(* Grids the model gives: a QDQ pair is an alias that carries one.           *)

SpecOf(im, scale, zero) ==
  LET whole == [j \in DOMAIN ConstantArray(im, scale).data |-> Whole(ConstantArray(im, scale).data[j])]
  IN IF zero = <<>> THEN Grid(whole, <<0>>, QuantizedBits, FALSE)
     ELSE Grid(whole, ConstantArray(im, zero).data, QuantizedBits,
               im.constants[Rename(im, zero)].type = "int8")
Dequantized(spec, raw, axis) ==
  LET lane(k) == IF axis = 0 THEN Digit(raw.shape, k - 1, 1) + 1
                 ELSE Digit(raw.shape, k - 1, Len(raw.shape)) + 1
  IN Array(raw.shape, [k \in DOMAIN raw.data |-> Real(spec, raw.data[k], lane(k))[1]])
Carry(im, target, input, spec) ==
  Annotate(Annotate(Alias(im, target, input, FALSE), Rename(im, input), spec), target, spec)

ImportQdq(im, node) ==
  LET spec == SpecOf(im, node.input[2], IF Given(node, 3) THEN node.input[3] ELSE <<>>)
      source == Rename(im, node.input[1])
      target == node.output[1]
  IN IF /\ node.op = "DequantizeLinear" /\ source \in DOMAIN im.constants
        /\ im.constants[source].type # "float"
       THEN Annotate([im EXCEPT !.constants =
                        (target :> Dequantized(spec, im.constants[source], Attr(node, "axis", 1))) @@ @],
                     target, spec)
       ELSE Carry(im, target, node.input[1], spec)

(* A QONNX Quant rounds a constant onto its grid. *)
ImportQuant(im, node) ==
  LET bits == ConstantArray(im, node.input[4]).data[1]
      spec == Grid(<<Whole(ConstantArray(im, node.input[2]).data[1])>>,
                   ConstantArray(im, node.input[3]).data, bits, node.attr.signed)
      narrow == IF node.attr.narrow THEN 1 ELSE 0
      low == IF node.attr.signed THEN narrow - 2 ^ (bits - 1) ELSE 0
      high == IF node.attr.signed THEN 2 ^ (bits - 1) - 1 ELSE 2 ^ bits - 1 - narrow
      source == Rename(im, node.input[1])
      target == node.output[1]
      code(v) == Clip(Rint(Over(Whole(v), spec.scale[1])) + spec.zero[1], low, high)
      rounded == [im EXCEPT !.constants = (target :>
                    [@[source] EXCEPT !.data = [k \in DOMAIN @ |-> Real(spec, code(@[k]), 1)[1]]]) @@ @]
  IN IF source \in DOMAIN im.constants
       THEN IF bits < 2 THEN Refuse(im)
            ELSE IF bits <= QuantizedBits THEN Annotate(rounded, target, spec) ELSE rounded
     ELSE IF bits \notin 2 .. QuantizedBits \/ node.attr.narrow THEN Refuse(im)
     ELSE Carry(im, target, node.input[1], spec)

-----------------------------------------------------------------------------
(* Layers. *)

Transposed(array) ==
  LET r == array.shape[1]
      c == array.shape[2]
  IN Array(<<c, r>>, [k \in 1 .. r * c |-> array.data[((k - 1) % r) * c + ((k - 1) \div r) + 1]])
ScaledBy(data, factor) == [k \in DOMAIN data |-> data[k] * factor]

ImportGemm(im, node) ==
  LET given == ConstantArray(im, node.input[2])
      gemm == node.op = "Gemm"
      turned == IF gemm /\ Attr(node, "transB", FALSE) THEN Transposed(given) ELSE given
      weights == IF gemm THEN [turned EXCEPT !.data = ScaledBy(@, Attr(node, "alpha", 1))] ELSE turned
      bias == IF Given(node, 3) THEN ScaledBy(ConstantArray(im, node.input[3]).data, Attr(node, "beta", 1))
              ELSE <<>>
  IN IF gemm /\ Attr(node, "transA", FALSE) THEN Refuse(im)
     ELSE Dense(im, node.name, node.input[1], weights, bias, node.output[1], node.input[2], FALSE)

(* SAME pads so that every stride starts a window. *)
ResolvePads(node, kernel, strides, dilations, shape) ==
  LET total(axis) == LET out == -((-shape[axis + 1]) \div strides[axis])
                         reach == (kernel[axis] - 1) * dilations[axis] + 1
                     IN Larger(0, (out - 1) * strides[axis] + reach - shape[axis + 1])
      small == <<total(1) \div 2, total(2) \div 2>>
      large == <<total(1) - small[1], total(2) - small[2]>>
      auto == Attr(node, "auto_pad", "NOTSET")
  IN CASE auto = "NOTSET" -> Attr(node, "pads", <<0, 0, 0, 0>>)
       [] auto = "VALID" -> <<0, 0, 0, 0>>
       [] auto = "SAME_UPPER" -> small \o large
       [] OTHER -> large \o small
WindowAttrs(im, node, kernel_default) ==
  LET kernel == Attr(node, "kernel_shape", kernel_default)
      strides == Attr(node, "strides", IF node.op = "Conv" THEN <<1, 1>> ELSE kernel)
      dilations == Attr(node, "dilations", <<1, 1>>)
      shape == im.graph.tensors[Rename(im, node.input[1])].shape
  IN [NoAttrs EXCEPT !.kernel = kernel, !.strides = strides, !.dilations = dilations,
                     !.pads = ResolvePads(node, kernel, strides, dilations, shape)]
(* (out, in, h, w) becomes (h, w, in, out). *)
KernelLast(array) ==
  LET s == array.shape
      place(k) == LET o == k % s[1]
                      i == (k \div s[1]) % s[2]
                      y == k \div (s[1] * s[2])
                  IN (o * s[2] + i) * s[3] * s[4] + y
  IN Array(<<s[3], s[4], s[2], s[1]>>, [k \in DOMAIN array.data |-> array.data[place(k - 1) + 1]])
ReadingGiven(s, node, i) ==
  IF Given(node, i) THEN Reading(s, node.input[i], ConstantArray(s.im, node.input[i]), TRUE) ELSE s
ImportConv(im, node) ==
  LET weights == ConstantArray(im, node.input[2])
      conv == [FrontendNode("Conv", node.name, <<Rename(im, node.input[1])>>, <<Rename(im, node.output[1])>>) EXCEPT
                 !.attrs = WindowAttrs(im, node, SubSeq(weights.shape, 3, 4))]
  IN IF Attr(node, "group", 1) # 1 THEN Refuse(im)
     ELSE Emitted(ReadingGiven(Reading([im |-> im, node |-> conv], node.input[2], KernelLast(weights), TRUE), node, 3))

(* Two classes are decided on the margin, more by the largest score. *)
CoefficientRows(node, features) ==
  Array(<<Len(node.attr.coefficients) \div features, features>>, node.attr.coefficients)
Intercepts(node, classes) == Attr(node, "intercepts", Same(classes, 0))
Margin(rows) ==
  LET features == rows.shape[2]
      last == (rows.shape[1] - 1) * features
  IN [k \in 1 .. features |-> rows.data[last + k] - (IF last > 0 THEN rows.data[k] ELSE 0)]
MarginOffset(offsets) == Last(offsets) - (IF Len(offsets) > 1 THEN offsets[1] ELSE 0)
LabelOf(im, node, scores) ==
  [FrontendNode("ArgMax", Append(node.name, "_label"), <<scores>>, <<Rename(im, node.output[1])>>) EXCEPT
     !.attrs.keepdims = FALSE, !.attrs.label = TRUE]
LinearLayer(im, node, rows, offsets, binary, out) ==
  Dense(im, node.name, node.input[1],
        IF binary THEN Array(<<rows.shape[2], 1>>, Margin(rows)) ELSE Transposed(rows),
        IF binary THEN <<MarginOffset(offsets)>> ELSE offsets, out, <<>>, binary)
Labelled(im, node, scores, labels) == IF labels THEN Emit(im, LabelOf(im, node, scores)) ELSE im
LinearModel(im, node, rows) ==
  LET binary == node.op = "LinearClassifier" /\ node.attr.classes = 2
      labels == node.op = "LinearClassifier" /\ node.attr.classes # 2
      scores == FreshName(im.graph, Append(node.name, "_scores"))
      layer == LinearLayer(im, node, rows, Intercepts(node, rows.shape[1]), binary,
                           IF labels THEN scores ELSE node.output[1])
  IN FoldLeft(Drop, Labelled(layer, node, scores, labels), Tail(node.output))
ImportLinear(im, node) ==
  IF ~HasShape(im, node.input[1]) THEN Refuse(im)
  ELSE LinearModel(im, node, CoefficientRows(node, Last(OnnxShape(im, node.input[1]))))

ImportScaler(im, node) ==
  ScaleShift(im, node.output[1], node.input[1], node.attr.scale,
             [c \in DOMAIN node.attr.offset |-> -node.attr.offset[c] * Cyclic(node.attr.scale, c)],
             node.name)
Root(v) == CHOOSE r \in 1 .. v : r * r = v
ImportBatchNorm(im, node) ==
  LET given(i) == ConstantArray(im, node.input[i]).data
      mul == [c \in DOMAIN given(2) |-> given(2)[c] \div Root(given(5)[c])]
  IN ScaleShift(im, node.output[1], node.input[1], mul,
                [c \in DOMAIN mul |-> given(3)[c] - given(4)[c] * mul[c]], node.name)
ImportCast(im, node) ==
  IF node.attr.to = "float" \/ Producer(im.graph, Rename(im, node.input[1])).attrs.label
    THEN Alias(im, node.output[1], node.input[1], TRUE) ELSE Refuse(im)

(* Pieces of one feature vector make one view, or one layer if one of them   *)
(* is a layer's; pieces of several tensors join as they are.                 *)
NoSource == <<>>
Part(im, raw) ==
  LET name == Rename(im, raw)
      constant == name \in DOMAIN im.constants
      producer == Producer(im.graph, name)
      width == IF constant THEN im.constants[name].shape[2] ELSE Numel(im.graph.tensors[name])
      view == IF constant THEN View(NoSource, Same(width, 0), Same(width, 0), im.constants[name].data, <<>>)
              ELSE IF name \in DOMAIN im.views THEN im.views[name]
              ELSE View(name, Count(width), Same(width, 1), Same(width, 0), <<>>)
      layer == /\ ~constant /\ name \notin DOMAIN im.views
               /\ producer.op = "Gemm" /\ OnlyUse(im, name) /\ ~producer.attrs.label
               /\ ~IsAnnotated(im, name)
  IN [layer |-> layer, node |-> producer, view |-> view,
      source |-> IF layer THEN producer.inputs[1] ELSE view.source]
PartMatrix(im, part, width) ==
  IF part.layer THEN im.graph.tensors[part.node.inputs[2]].data ELSE Selection(part.view, width)
PartBias(im, part, columns) ==
  IF ~part.layer THEN part.view.add
  ELSE IF Len(part.node.inputs) > 2 THEN im.graph.tensors[part.node.inputs[3]].data
  ELSE Same(columns, 0)
Joining(parts, key(_)) == FlattenSeq([i \in DOMAIN parts |-> key(parts[i].view)])
JoinedView(parts, source, origin) ==
  View(source, Joining(parts, LAMBDA v : v.index), Joining(parts, LAMBDA v : v.mul),
       Joining(parts, LAMBDA v : v.add), origin)
SideBySide(matrices, width) ==
  LET columns(m) == Len(m) \div width
      row(r) == FlattenSeq([i \in DOMAIN matrices |->
                  SubSeq(matrices[i], r * columns(matrices[i]) + 1, (r + 1) * columns(matrices[i]))])
      data == FlattenSeq([r \in 1 .. width |-> row(r - 1)])
  IN Array(<<width, Len(data) \div width>>, data)
Emptied(im, parts) ==
  LET seen == FoldLeft(LAMBDA s, p : IF p.layer THEN s ELSE Selecting(s, p.view), im, parts)
  IN [seen EXCEPT !.graph = FoldLeft(LAMBDA g, p : IF p.layer THEN RemoveNode(g, p.node) ELSE g, @, parts)]
ConcatLayer(im, node, parts, source, matrices, width) ==
  Dense(Emptied(im, parts), node.name, source, SideBySide(matrices, width),
        FlattenSeq([i \in DOMAIN parts |-> PartBias(im, parts[i], Len(matrices[i]) \div width)]),
        node.output[1], <<>>, FALSE)
ConcatView(im, out, view) == SetView(im, out, view, <<1, Len(view.index)>>)
ConcatParts(im, node, parts, source) ==
  LET width == Numel(im.graph.tensors[source])
  IN IF \A i \in DOMAIN parts : ~parts[i].layer
       THEN ConcatView(im, node.output[1], JoinedView(parts, source, node.name))
     ELSE ConcatLayer(im, node, parts, source, [i \in DOMAIN parts |-> PartMatrix(im, parts[i], width)], width)
JoinUnit(im, node) ==
  Emit(im, FrontendNode("Concat", node.name, [i \in DOMAIN node.input |-> Rename(im, node.input[i])],
                        <<Rename(im, node.output[1])>>))
JoinSources(im, node, parts, sources) ==
  IF Cardinality(sources) = 1 THEN ConcatParts(im, node, parts, CHOOSE source \in sources : TRUE)
  ELSE IF \E i \in DOMAIN node.input : IsConst(im, node.input[i]) THEN Refuse(im)
  ELSE JoinUnit(MaterializeAll(im, node.input), node)
ConcatOf(im, node, parts) ==
  JoinSources(im, node, parts, {parts[i].source : i \in DOMAIN parts} \ {NoSource})
ImportConcat(im, node) ==
  LET shape(name) == IF IsConst(im, name) THEN im.constants[Rename(im, name)].shape ELSE OnnxShape(im, name)
  IN IF \E i \in DOMAIN node.input : \/ ~IsConst(im, node.input[i]) /\ ~HasShape(im, node.input[i])
                                    \/ Len(shape(node.input[i])) # 2 \/ shape(node.input[i])[1] # 1
                                    \/ node.attr.axis % 2 # 1
       THEN Refuse(im)
     ELSE ConcatOf(im, node, [i \in DOMAIN node.input |-> Part(im, node.input[i])])

-----------------------------------------------------------------------------
(* Operators that become one node. *)

Plain(im, node, op) ==
  FrontendNode(op, node.name, <<Rename(im, node.input[1])>>, <<Rename(im, node.output[1])>>)
ImportMaxPool(im, node) ==
  Emit(im, [Plain(im, node, "MaxPool") EXCEPT !.attrs = WindowAttrs(im, node, <<2, 2>>)])
ImportBinarizer(im, node) ==
  Emit(im, [Plain(im, node, "Binarizer") EXCEPT !.attrs.threshold = Attr(node, "threshold", 0)])

(* A constant operand becomes a constant of the graph: an Add's is squeezed, *)
(* any other's is moved to the layout of a map.                              *)
Squeezed(array) == [array EXCEPT !.shape = SelectSeq(@, LAMBDA n : n # 1)]
AsMap(array) ==
  LET shape == [i \in 1 .. 4 - Len(array.shape) |-> 1] \o array.shape
  IN Array(ChannelLast(shape), ToStored(shape, array.data))
Operands(im, names, Derived(_)) ==
  LET step(s, name) ==
        LET array == Derived(ConstantArray(s.im, name))
        IN IF ~IsConst(im, name) THEN [s EXCEPT !.inputs = Append(@, Rename(im, name))]
           ELSE [im |-> DeriveConstant(s.im, name, array.shape, array.data, TRUE),
                 inputs |-> Append(s.inputs, DerivedName(s.im, name))]
  IN FoldLeft(step, [im |-> im, inputs |-> <<>>], names)
ImportAdd(im, node) ==
  LET operands == Operands(im, node.input, Squeezed)
  IN Emit(operands.im, FrontendNode("Add", node.name, operands.inputs, <<Rename(im, node.output[1])>>))
ImportElementwise(im, node) ==
  LET bound(i) == IF Given(node, i) THEN <<ConstantArray(im, node.input[i]).data[1]>> ELSE <<>>
      clip == node.op = "Clip"
      names == IF clip THEN SubSeq(node.input, 1, 1) ELSE node.input
      live == SelectSeq(names, LAMBDA n : ~IsConst(im, n))
      map == Len(im.graph.tensors[Rename(im, live[1])].shape) = 4
      operands == Operands(im, names, LAMBDA a : IF map /\ Len(a.shape) > 1 THEN AsMap(a) ELSE a)
      made == ElementwiseOp(node.op, node.name, operands.inputs, <<Rename(im, node.output[1])>>)
  IN IF clip /\ \E i \in 2 .. 3 : Given(node, i) /\ ~IsConst(im, node.input[i]) THEN Refuse(im)
     ELSE IF node.op \in {"Max", "Min"} /\ Len(names) > 2 THEN Refuse(im)
     ELSE IF node.op = "Div" /\ Contains(live, names[2]) THEN Refuse(im)
     ELSE Emit(operands.im, IF clip THEN [made EXCEPT !.attrs.low = bound(2), !.attrs.high = bound(3)]
                            ELSE made)

(* Only the feature axis of a (1, N) vector; the largest of a softmax is     *)
(* the largest of its input.                                                 *)
IsVector(im, name) ==
  HasShape(im, name) /\ Len(OnnxShape(im, name)) = 2 /\ OnnxShape(im, name)[1] = 1
ImportReduce(im, node) ==
  LET arg == node.op \in {"ArgMax", "ArgMin"}
      axes == IF arg THEN <<Attr(node, "axis", 0)>>
              ELSE IF Given(node, 2) THEN ConstantArray(im, node.input[2]).data
              ELSE Attr(node, "axes", <<>>)
      source == Rename(im, node.input[1])
      producer == Producer(im.graph, source)
      skips == arg /\ producer.op = "Softmax" /\ OnlyUse(im, source)
      reduce(from) == [FrontendNode(node.op, node.name, <<from>>, <<Rename(im, node.output[1])>>) EXCEPT
                         !.attrs.keepdims = Attr(node, "keepdims", TRUE),
                         !.attrs.last = Attr(node, "select_last_index", FALSE), !.attrs.label = arg]
  IN IF ~IsVector(im, node.input[1]) \/ (axes # <<>> /\ \A i \in DOMAIN axes : axes[i] % 2 # 1)
       THEN Refuse(im)
     ELSE IF skips THEN Emit([im EXCEPT !.graph = RemoveNode(@, producer)], reduce(producer.inputs[1]))
     ELSE Emit(im, reduce(source))
ImportSoftmax(im, node) ==
  IF ~IsVector(im, node.input[1]) \/ Attr(node, "axis", -1) % 2 # 1 THEN Refuse(im)
  ELSE Emit(im, Plain(im, node, "Softmax"))
(* Of its norms only the L1 norm of a softmax, which is 1, is modelled.      *)
ImportNormalizer(im, node) ==
  IF /\ IsVector(im, node.input[1]) /\ node.attr.norm = "L1"
     /\ Producer(im.graph, Rename(im, node.input[1])).op = "Softmax"
    THEN Alias(im, node.output[1], node.input[1], TRUE) ELSE Refuse(im)

-----------------------------------------------------------------------------
(* The rules, and the importer itself. *)

Rule(im, node) ==
  CASE node.op \in {"Gemm", "MatMul"} -> ImportGemm(im, node)
    [] node.op = "Conv" -> ImportConv(im, node)
    [] node.op = "Relu" -> Emit(im, Plain(im, node, "Relu"))
    [] node.op = "MaxPool" -> ImportMaxPool(im, node)
    [] node.op = "Add" -> ImportAdd(im, node)
    [] node.op \in Qdq -> ImportQdq(im, node)
    [] node.op \in {"Quant", "IntQuant"} -> ImportQuant(im, node)
    [] node.op \in {"Identity", "ZipMap"} -> Alias(im, node.output[1], node.input[1], TRUE)
    [] node.op = "Cast" -> ImportCast(im, node)
    [] node.op = "Concat" -> ImportConcat(im, node)
    [] node.op = "BatchNormalization" -> ImportBatchNorm(im, node)
    [] node.op \in {"LinearRegressor", "LinearClassifier"} -> ImportLinear(im, node)
    [] node.op = "Scaler" -> ImportScaler(im, node)
    [] node.op = "Binarizer" -> ImportBinarizer(im, node)
    [] node.op = "Normalizer" -> ImportNormalizer(im, node)
    [] node.op = "Softmax" -> ImportSoftmax(im, node)
    [] node.op \in ReduceOps -> ImportReduce(im, node)
    [] node.op \in Moves -> Rearrange(im, node)
    [] node.op \in Elementwise \cup {"Div"} -> ImportElementwise(im, node)
    [] OTHER -> Refuse(im)

(* A tensor of integers on a grid, as the real tensor a QDQ pair would give. *)
RealName(im, name) == IF IsConst(im, name) THEN FreshName(im.graph, Append(name, "_real")) ELSE name
AsReal(im, name, spec, axis) ==
  IF ~IsConst(im, name) THEN Annotate(im, Rename(im, name), spec)
  ELSE Annotate([im EXCEPT !.constants =
                   (RealName(im, name) :> Dequantized(spec, @[Rename(im, name)], axis)) @@ @],
                RealName(im, name), spec)
AnnotateOutput(im, node, spec) ==
  Annotate(Annotate(im, Rename(im, node.output[1]), spec), node.output[1], spec)

(* The float op of each, where its operands start, its output grid and bias. *)
QLinear == [QLinearMatMul |-> <<"MatMul", 4, 7, 0>>, QLinearConv |-> <<"Conv", 4, 7, 9>>,
            QGemm |-> <<"Gemm", 4, 8, 7>>, QLinearAdd |-> <<"Add", 4, 7, 0>>,
            QLinearMul |-> <<"Mul", 4, 7, 0>>]
OperandSpec(im, node, i) == SpecOf(im, node.input[i + 1], IF Given(node, i + 2) THEN node.input[i + 2] ELSE <<>>)
RealOperands(im, node, second) ==
  LET axis == IF node.op = "QLinearConv" \/ Attr(node, "transB", FALSE) THEN 0 ELSE -1
  IN AsReal(AsReal(im, node.input[1], OperandSpec(im, node, 1), -1),
            node.input[second], OperandSpec(im, node, second), axis)
BiasScale(im, node, second) ==
  ConstantArray(im, node.input[2]).data[1] * ConstantArray(im, node.input[second + 1]).data[1] * Attr(node, "alpha", 1)
WithRealBias(s, name, bias, scale) ==
  [im |-> [s.im EXCEPT !.constants = (name :> Array(bias.shape, ScaledBy(bias.data, scale))) @@ @],
   node |-> [s.node EXCEPT !.input = Append(@, name)]]
RealBias(im, node, s, raw, second) ==
  WithRealBias(s, FreshName(im.graph, Append(raw, "_real")), ConstantArray(im, raw), BiasScale(im, node, second))
FloatNode(im, node, row) ==
  LET plain == [node EXCEPT !.op = row[1],
                            !.input = <<RealName(im, node.input[1]), RealName(im, node.input[row[2]])>>]
      biased(s) == IF row[4] = 0 \/ ~Given(node, row[4]) THEN s ELSE RealBias(im, node, s, node.input[row[4]], row[2])
  IN biased([im |-> RealOperands(im, node, row[2]), node |-> plain])
RuleOrFold(s) == IF IsArithmetic(s.im, s.node) THEN FoldArithmetic(s.im, s.node) ELSE Rule(s.im, s.node)
OnOutputGrid(im, node, made, out) ==
  IF Given(node, out) THEN AnnotateOutput(made, node, SpecOf(im, node.input[out], node.input[out + 1])) ELSE made
ImportQLinear(im, node) ==
  OnOutputGrid(im, node, RuleOrFold(FloatNode(im, node, QLinear[node.op])), QLinear[node.op][3])

(* Its output's grid first, then each piece with its own. *)
RealPieces(im, node) ==
  LET step(s, p) ==
        [im |-> AsReal(s.im, node.input[p], SpecOf(im, node.input[p + 1], node.input[p + 2]), -1),
         node |-> [s.node EXCEPT !.input = Append(@, RealName(s.im, node.input[p]))]]
  IN FoldLeft(step, [im |-> im, node |-> [node EXCEPT !.op = "Concat", !.input = <<>>]],
              [i \in 1 .. (Len(node.input) - 2) \div 3 |-> 3 * i])
ConcatReal(s) == ImportConcat(s.im, s.node)
ImportQConcat(im, node) == OnOutputGrid(im, node, ConcatReal(RealPieces(im, node)), 1)

(* An integer layer reads a tensor that has a grid, and its weights are on   *)
(* the grid's inverse.                                                       *)
OverScale(im, name, raw, weights, spec) ==
  [im EXCEPT !.constants =
     (name :> Array(raw.shape, [k \in DOMAIN weights |-> Over(Whole(weights[k]), spec.scale[1])[1]])) @@ @]
WithOffset(im, name, raw, weights, offset) ==
  [im EXCEPT !.constants =
     (name :> Array(<<raw.shape[2]>>, MatMul(Same(raw.shape[1], offset), weights, raw.shape[2]))) @@ @]
OffWeights(im, node, raw) ==
  LET zero == IF Given(node, 4) THEN ConstantArray(im, node.input[4]).data[1] ELSE 0
  IN [k \in DOMAIN raw.data |-> raw.data[k] - zero]
IntegerRule(im, node, op, spec, offset, raw, weights) ==
  LET name == FreshName(im.graph, Append(node.input[2], "_real"))
      offset_name == FreshName(im.graph, Append(node.input[2], "_offset"))
      scaled == OverScale(im, name, raw, weights, spec)
  IN Rule(IF offset = 0 THEN scaled ELSE WithOffset(scaled, offset_name, raw, weights, offset),
          [node EXCEPT !.op = op, !.input = <<node.input[1], name>> \o (IF offset = 0 THEN <<>> ELSE <<offset_name>>)])
ImportInteger(im, node) ==
  LET spec == GridOf(im, Rename(im, node.input[1]))
      raw == im.constants[Rename(im, node.input[2])]
      offset == spec.zero[1] - (IF Given(node, 3) THEN ConstantArray(im, node.input[3]).data[1] ELSE 0)
      conv == node.op = "ConvInteger"
  IN IF ~IsAnnotated(im, Rename(im, node.input[1])) \/ (conv /\ offset # 0) THEN Refuse(im)
     ELSE IntegerRule(im, node, IF conv THEN "Conv" ELSE "MatMul", spec, offset, raw, OffWeights(im, node, raw))

ApplyRule(im, node) ==
  CASE node.op \in DOMAIN QLinear -> ImportQLinear(im, node)
    [] node.op = "QLinearConcat" -> ImportQConcat(im, node)
    [] node.op \in {"MatMulInteger", "ConvInteger"} -> ImportInteger(im, node)
    [] OTHER -> Rule(im, node)

(* What reads something nobody computes is not computed either.              *)
Reached(im, node) == IF im.refused THEN im ELSE ApplyRule(im, node)
Visit(im, node) ==
  LET inputs == SelectSeq(node.input, LAMBDA n : n # <<>>)
      live == SelectSeq(inputs, LAMBDA n : ~IsConst(im, n))
  IN IF \E i \in DOMAIN inputs : Rename(im, inputs[i]) \in im.dropped
       THEN FoldLeft(Drop, im, node.output)
     ELSE IF node.op \in Foldable /\ (live = <<>> \/ node.op = "Shape") THEN Fold(im, node)
     ELSE IF IsArithmetic(im, node) THEN FoldArithmetic(im, node)
     ELSE Reached(IF node.op \in Absorbing THEN im ELSE MaterializeAll(im, live), node)

(* The importer before the first node. *)
Start(model) ==
  LET names == [i \in DOMAIN model.nodes |->
                  IF model.nodes[i].op \in Qdq THEN <<>> ELSE SelectSeq(model.nodes[i].input, LAMBDA n : n # <<>>)]
      read == FlattenSeq(names) \o model.outputs
      declare(g, name) ==
        [AddTensor(g, name, Tensor(ChannelLast(model.inputs[name]))) EXCEPT !.inputs = Append(@, name)]
  IN [Fresh(model) EXCEPT
        !.graph = FoldLeft(declare, @, SetToSeq(DOMAIN model.inputs)),
        !.uses = [n \in Range(read) |-> Cardinality({i \in DOMAIN read : read[i] = n})]]

(* ... and after the last: what nothing absorbed is built, and every grid    *)
(* goes to the tensor its name came to be.                                   *)
Delivered(built, outputs) ==
  LET grid(g, a) == (Rename(built, a.name) :> a.spec) @@ g
      g == [built.graph EXCEPT !.outputs = SelectSeq(outputs, LAMBDA n : n \notin built.dropped),
                               !.annotations = FoldLeft(grid, <<>>, built.annotations)]
  IN IF built.refused THEN built ELSE [built EXCEPT !.graph = Infer(g, InferNode)]
Renames(im, names) == [i \in DOMAIN names |-> Rename(im, names[i])]
AllBuilt(im, outputs) == Delivered(im, Renames(im, outputs))
Finish(im, model) == AllBuilt(MaterializeAll(im, model.outputs), model.outputs)

=============================================================================
