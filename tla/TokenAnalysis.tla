--------------------------- MODULE TokenAnalysis ---------------------------
(***************************************************************************)
(* compiler/onnx2fpga/p5_schedule/tokens.py: the as-soon-as-possible       *)
(* schedule of one frame through a graph of units and the peak number of   *)
(* beats it leaves in flight on each stream, which sizes the FIFOs.        *)
(*                                                                         *)
(* A graph is a sequence of nodes in topological order.  A node is         *)
(* [ins, outs, reads, writes]: the names of its streams and, for each, the *)
(* cycle offsets of its beats from the node's start.                       *)
(***************************************************************************)
EXTENDS Integers, Sequences, FiniteSets, SequencesExt

\* EdgeOccupancy.peak: both sequences are sorted, so the walk of the code
\* counts, at each production, the consumptions at or before it.
Peak(produced, consumed) ==
  LET InFlight(i) ==
        i - Cardinality({j \in DOMAIN consumed : consumed[j] <= produced[i]})
  IN  Max({0} \cup {InFlight(i) : i \in DOMAIN produced})

\* _start_of: the earliest start at which no beat is late.
StartOf(node, arrivals) ==
  Max({0} \cup
      UNION {{arrivals[node.ins[slot]][k] - node.reads[slot][k] :
                k \in DOMAIN node.reads[slot] \cap DOMAIN arrivals[node.ins[slot]]}
               : slot \in DOMAIN node.ins})

Shifted(offsets, start) == [k \in DOMAIN offsets |-> start + offsets[k]]

\* The node's outputs, timed from its start.
Place(arrivals, node) ==
  LET start == StartOf(node, arrivals)
  IN  [edge \in {node.outs[i] : i \in DOMAIN node.outs} |->
         Shifted(node.writes[CHOOSE i \in DOMAIN node.outs : node.outs[i] = edge],
                 start)]
      @@ arrivals

\* TokenAnalysis.run, its first loop: the arrival cycles of every stream, the
\* nodes taken in topological order.
Arrivals(graph, inputs) == FoldLeft(Place, inputs, graph)

\* Mutant of DepthFor: every FIFO gets the depth of a chain.
DepthOfChain(graph, inputs, edge) == 2

\* TokenAnalysis.run and depth_for: the beats a FIFO on `edge` must hold.
DepthFor(graph, inputs, edge) ==
  LET arrivals == Arrivals(graph, inputs)
      reader   == CHOOSE m \in DOMAIN graph :
                    \E slot \in DOMAIN graph[m].ins : graph[m].ins[slot] = edge
      slot     == CHOOSE s \in DOMAIN graph[reader].ins : graph[reader].ins[s] = edge
      consumed == Shifted(graph[reader].reads[slot], StartOf(graph[reader], arrivals))
  IN  Max({2, Peak(arrivals[edge], consumed)})

=============================================================================
