------------------------------ MODULE IrGraph ------------------------------
(***************************************************************************)
(* compiler/onnx2fpga/p2_graph/graph.py: the compiler's working graph, a   *)
(* value that passes rewrite.  A node names the tensors it reads and       *)
(* writes; nodes are told apart by their names.  A name is a sequence of   *)
(* strings, so that a stem and a suffix make a new one.                    *)
(***************************************************************************)
EXTENDS Integers, FiniteSets, SequencesExt

NoNode ==
  [name |-> <<>>, op |-> "None", inputs |-> <<>>, outputs |-> <<>>, attrs |-> [label |-> FALSE]]

(* A tensor of a shape; a constant has data, its elements in row-major order. *)
Product(shape) ==
  LET product[i \in 0 .. Len(shape)] == IF i = 0 THEN 1 ELSE product[i - 1] * shape[i] IN product[Len(shape)]
Tensor(shape) ==
  [shape |-> shape, data |-> <<>>, bits |-> 0, signed |-> TRUE, elems_per_beat |-> 1]
ConstantTensor(shape, data) == [Tensor(shape) EXCEPT !.data = data]
IsConstant(t) == t.data # <<>>
Numel(t) == Product(t.shape)
StreamWidth(t) == t.elems_per_beat * t.bits
Beats(t) == Numel(t) \div t.elems_per_beat

EmptyGraph ==
  [nodes |-> <<>>, tensors |-> <<>>, inputs |-> <<>>, outputs |-> <<>>,
   annotations |-> <<>>, feature_grids |-> {}]

HasTensor(g, name) == name \in DOMAIN g.tensors
(* A second tensor of a name, or one of a name there is none of, is an error. *)
AddTensor(g, name, t) == CASE ~HasTensor(g, name) -> [g EXCEPT !.tensors = (name :> t) @@ @]
SetTensor(g, name, t) == CASE HasTensor(g, name) -> [g EXCEPT !.tensors[name] = t]
EnsureTensor(g, name) ==
  IF HasTensor(g, name) THEN g ELSE AddTensor(g, name, Tensor(<<>>))

NodeNames(g) == {g.nodes[i].name : i \in DOMAIN g.nodes}

(* The first of stem, stem_1, stem_2 ... that no tensor and no node has.     *)
NumberedName(stem, k) == IF k = 0 THEN stem ELSE Append(stem, ToString(k))
FreshAmong(stem, taken) ==
  NumberedName(stem, Min({k \in 0 .. Cardinality(taken) : NumberedName(stem, k) \notin taken}))
FreshName(g, stem) ==
  FreshAmong(stem, DOMAIN g.tensors \cup NodeNames(g))

AddNode(g, node) == [g EXCEPT !.nodes = Append(@, node)]
RemoveNode(g, node) == [g EXCEPT !.nodes = SelectSeq(@, LAMBDA n : n.name # node.name)]
PlaceOf(g, node) == CHOOSE i \in DOMAIN g.nodes : g.nodes[i].name = node.name
ReplaceNode(g, node, replacements) ==
  LET i == PlaceOf(g, node)
  IN [g EXCEPT !.nodes = SubSeq(@, 1, i - 1) \o replacements \o SubSeq(@, i + 1, Len(@))]
InsertAfter(g, node, new) ==
  LET i == PlaceOf(g, node)
  IN [g EXCEPT !.nodes = SubSeq(@, 1, i) \o <<new>> \o SubSeq(@, i + 1, Len(@))]
UpdateNode(g, node) == [g EXCEPT !.nodes[PlaceOf(g, node)] = node]

Writers(g, name) == {i \in DOMAIN g.nodes : Contains(g.nodes[i].outputs, name)}
Producer(g, name) == IF Writers(g, name) = {} THEN NoNode ELSE g.nodes[Min(Writers(g, name))]
Consumers(g, name) == SelectSeq(g.nodes, LAMBDA n : Contains(n.inputs, name))
StreamInputs(g, node) == SelectSeq(node.inputs, LAMBDA n : ~IsConstant(g.tensors[n]))

Renamed(names, old, new) == [i \in DOMAIN names |-> IF names[i] = old THEN new ELSE names[i]]
Rewire(g, old, new) ==
  [g EXCEPT !.nodes = [i \in DOMAIN @ |-> [@[i] EXCEPT !.inputs = Renamed(@, old, new)]],
            !.outputs = Renamed(@, old, new)]

(* Sweeps over the nodes that are left, taking each whose inputs are ready,  *)
(* until none is left or a sweep takes none: that is an error, and an order  *)
(* is asked for of graphs that Validates holds of.  The code leaves the      *)
(* graph's own nodes in the order found, which the passes ask for anyway.    *)
Taken(s, n) ==
  IF Range(n.inputs) \subseteq s.ready
    THEN [s EXCEPT !.order = Append(@, n), !.ready = @ \cup Range(n.outputs)]
    ELSE [s EXCEPT !.stuck = Append(@, n)]
Swept(s) == FoldLeft(Taken, [s EXCEPT !.stuck = <<>>], s.stuck)
RECURSIVE Sweeps(_, _)
Sweeps(before, after) ==
  IF after.stuck = <<>> \/ Len(after.stuck) = Len(before.stuck) THEN after ELSE Sweeps(after, Swept(after))

SweepsFrom(s) == Sweeps(s, Swept(s))
TopologicalOrder(g) ==
  SweepsFrom([order |-> <<>>, stuck |-> g.nodes,
              ready |-> Range(g.inputs) \cup {n \in DOMAIN g.tensors : IsConstant(g.tensors[n])}])
Sorted(g) == [g EXCEPT !.nodes = TopologicalOrder(g).order]

(* Every name is a tensor's and no node waits for an input that never comes. *)
Validates(g) ==
  /\ \A i \in DOMAIN g.nodes :
       Range(g.nodes[i].inputs) \cup Range(g.nodes[i].outputs) \subseteq DOMAIN g.tensors
  /\ Range(g.inputs) \cup Range(g.outputs) \subseteq DOMAIN g.tensors
  /\ TopologicalOrder(g).stuck = <<>>

(* Shapes and types, node by node; Op(graph, node) fills in a node's outputs. *)
InferSorted(g, Op(_, _)) == FoldLeft(Op, g, g.nodes)
Infer(g, Op(_, _)) == InferSorted(Sorted(g), Op)

(* Every tensor's value by name; Op(graph, node, values) gives one for each   *)
(* output of the node.                                                        *)
WithResults(values, outputs, results) ==
  [n \in Range(outputs) |-> results[Min({i \in DOMAIN outputs : outputs[i] = n})]] @@ values
Run(g, feeds, Op(_, _, _)) ==
  FoldLeft(LAMBDA values, node : WithResults(values, node.outputs, Op(g, node, values)),
           feeds @@ [n \in {m \in DOMAIN g.tensors : IsConstant(g.tensors[m])} |-> g.tensors[n].data],
           TopologicalOrder(g).order)

=============================================================================
