----------------------------- MODULE Schedules ------------------------------
(***************************************************************************)
(* compiler/onnx2fpga/p5_schedule: how a lowered graph becomes a design,   *)
(* as a stream of beats with forks, converters and FIFOs between units, or *)
(* as a fixed latency pipeline with the operands held back to meet.        *)
(*                                                                         *)
(* Of the units those of Units.tla: tree ensembles, Softmax, the user's    *)
(* own units and the frame buffer of a window are left out.  The devices   *)
(* are those priced by the AMD model; the log of a pass and the report     *)
(* that only lists what the graph holds are not kept.                      *)
(***************************************************************************)
EXTENDS Units

(* compiler/onnx2fpga/p5_schedule/streams.py: forks, beat widths,          *)
(* converters and FIFOs between the units of a stream design, and the beat *)
(* schedules of p3_ops/hardware_ops.py that size the FIFOs.                *)

Tokens == INSTANCE TokenAnalysis

(* The cycles a unit takes over a frame. *)
CaptureCycles(u) == (u.attrs.ifm[2] * u.attrs.ifm[3] * u.attrs.ifm[4]) \div SubElems(u)
ReplayCycles(u) == (OfmExtent(u)[1] * OfmExtent(u)[2] * WindowSize(u)) \div u.attrs.fold.simd
LineCycles(u) == Larger(CaptureCycles(u), ReplayCycles(u))
MatVecCycles(u) == u.attrs.vectors * SynapseFold(u) * NeuronFold(u)
PoolCycles(u) == (u.attrs.windows * u.attrs.size * u.attrs.channels) \div u.attrs.fold.pe
ElementCycles(u) == u.attrs.elements \div u.attrs.fold.pe
ConverterCycles(u) == u.attrs.total \div Smaller(u.attrs.in_elems, u.attrs.out_elems)
Cycles(u) ==
  CASE u.op = "MatVec" -> MatVecCycles(u)
    [] u.op = "Window" -> LineCycles(u)
    [] u.op \in {"Act", "AddUnit"} -> ElementCycles(u)
    [] u.op = "Pool" -> PoolCycles(u)
    [] u.op = "Duplicate" -> u.attrs.elements
    [] u.op = "Fifo" -> 0
    [] u.op = "Converter" -> ConverterCycles(u)
    [] OTHER -> 1
InElems(g, u) ==
  CASE u.op = "MatVec" -> u.attrs.fold.simd
    [] u.op = "Window" -> SubElems(u)
    [] u.op \in {"Act", "Pool", "AddUnit"} -> u.attrs.fold.pe
    [] u.op = "Converter" -> u.attrs.in_elems
    [] u.op \in {"Duplicate", "Fifo"} -> g.tensors[u.inputs[1]].elems_per_beat

-----------------------------------------------------------------------------
(* The cycles, from a unit's start, its beats pass at.                      *)

Uniform(u, beats) ==
  LET span == Larger(Cycles(u), beats) IN [i \in 1 .. beats |-> ((i - 1) * span) \div beats]
(* A matvec reads a vector in the first synapse fold cycles of its turn, and *)
(* gives a result at the end of each synapse fold, a cycle later from block  *)
(* RAM; a pool gives a window's maxima with the window's last elements.      *)
MatVecReads(u, beats) ==
  [i \in 1 .. beats |-> ((i - 1) \div SynapseFold(u)) * FoldDepth(u) + ((i - 1) % SynapseFold(u))]
MatVecWrites(u, beats) ==
  [i \in 1 .. beats |-> i * SynapseFold(u) - 1 + AsNumber(u.attrs.block_ram)]
PoolWrites(u, beats) ==
  LET folds == u.attrs.channels \div u.attrs.fold.pe
  IN [i \in 1 .. beats |->
        ((i - 1) \div folds) * u.attrs.size * folds + (u.attrs.size - 1) * folds + ((i - 1) % folds)]
ConverterReads(u, beats) ==
  LET step == IF u.attrs.in_elems > u.attrs.out_elems THEN u.attrs.in_elems \div u.attrs.out_elems ELSE 1
  IN [i \in 1 .. beats |-> (i - 1) * step]
ConverterWrites(u, beats) ==
  IF u.attrs.out_elems > u.attrs.in_elems
    THEN [i \in 1 .. beats |-> i * (u.attrs.out_elems \div u.attrs.in_elems) - 1]
    ELSE [i \in 1 .. beats |-> i - 1]
InSchedule(g, u, name) ==
  LET beats == Numel(g.tensors[name]) \div InElems(g, u)
  IN CASE u.op = "MatVec" -> MatVecReads(u, beats)
       [] u.op = "Converter" -> ConverterReads(u, beats)
       [] OTHER -> Uniform(u, beats)
OutSchedule(g, u, name) ==
  LET beats == Numel(g.tensors[name]) \div OutBeats(g, u)
  IN CASE u.op = "MatVec" -> MatVecWrites(u, beats)
       [] u.op = "Pool" -> PoolWrites(u, beats)
       [] u.op = "Converter" -> ConverterWrites(u, beats)
       [] OTHER -> Uniform(u, beats)

TokenNode(g, u) ==
  LET ins == StreamInputs(g, u)
  IN [ins |-> ins, outs |-> u.outputs,
      reads |-> [i \in DOMAIN ins |-> InSchedule(g, u, ins[i])],
      writes |-> [i \in DOMAIN u.outputs |-> OutSchedule(g, u, u.outputs[i])]]
DepthInOrder(g, order, name) ==
  Tokens!DepthFor([i \in DOMAIN order |-> TokenNode(g, order[i])],
                  [n \in Range(g.inputs) |-> [k \in 1 .. Beats(g.tensors[n]) |-> k - 1]], name)
FifoDepth(g, name) == DepthInOrder(g, TopologicalOrder(g).order, name)

-----------------------------------------------------------------------------
(* InsertDuplicates: a stream several units read is forked.  One fork leaves *)
(* the readers of the other streams alone, so their order does not matter.   *)

Streams(g) == {n \in DOMAIN g.tensors : ~IsConstant(g.tensors[n])}
Like(g, name, source) ==
  LET t == g.tensors[source]
  IN AddTensor(g, name, [Tensor(t.shape) EXCEPT !.bits = t.bits, !.signed = t.signed])
ReadsInstead(g, reader, old, new) ==
  LET u == CHOOSE n \in Range(g.nodes) : n.name = reader
  IN UpdateNode(g, [u EXCEPT !.inputs = Renamed(@, old, new)])
Fork(g, name) ==
  LET readers == Consumers(g, name)
      branch(s, i) ==
        LET fresh == FreshName(s.g, name \o <<"br", ToString(i - 1)>>)
        IN [g |-> ReadsInstead(Like(s.g, fresh, name), readers[i].name, name, fresh),
            outs |-> Append(s.outs, fresh)]
      forked == FoldLeft(branch, [g |-> g, outs |-> <<>>], [i \in DOMAIN readers |-> i])
      unit == DuplicateUnit(FreshName(forked.g, Append(name, "dup")), name, forked.outs, Numel(g.tensors[name]))
      producer == Producer(g, name)
  IN IF producer = NoNode THEN AddNode(forked.g, unit) ELSE InsertAfter(forked.g, producer, unit)
InsertDuplicates(g) ==
  LET forked == FoldSet(LAMBDA n, h : Fork(h, n), g, {n \in Streams(g) : Len(Consumers(g, n)) > 1})
  IN Infer(forked, InferUnit)

SingleConsumer(g) == \A n \in Streams(g) : Len(Consumers(g, n)) <= 1

-----------------------------------------------------------------------------
(* AlignBeatWidths and InsertWidthConverters.                                *)

(* A set in the order of a strict total order. *)
Ordered(set, Before(_, _)) ==
  [i \in 1 .. Cardinality(set) |-> CHOOSE x \in set : Cardinality({y \in set : Before(y, x)}) = i - 1]
(* A unit's foldings, the least parallel first. *)
MatVecFoldings(a) == {Factors(s, p) : s \in Divisors(a.mw), p \in Divisors(a.mh)}
WindowFoldings(a) ==
  {Factors(s, 1) : s \in Divisors(a.ifm[4])}
    \cup {Factors(a.ifm[4] * m, 1) : m \in Divisors(a.kernel[2]) \ {1}}
ChannelFoldings(a) == {Factors(1, p) : p \in Divisors(a.channels)}
FewerLanes(x, y) ==
  \/ x.simd * x.pe < y.simd * y.pe
  \/ x.simd * x.pe = y.simd * y.pe /\ x.pe < y.pe
FoldingOptions(u) ==
  Ordered(CASE u.op = "MatVec" -> MatVecFoldings(u.attrs)
            [] u.op = "Window" -> WindowFoldings(u.attrs)
            [] u.op \in {"Act", "Pool", "AddUnit"} -> ChannelFoldings(u.attrs)
            [] OTHER -> {u.attrs.fold}, FewerLanes)
AllowedFoldings(u) ==
  SelectSeq(FoldingOptions(u), LAMBDA o : \A pin \in u.attrs.pinned : o[pin.key] = pin.value)
FoldedTo(u, option) == [u EXCEPT !.attrs.fold = option]

CompatibleWidths(supplied, wanted) == supplied % wanted = 0 \/ wanted % supplied = 0
Supplied(g, name) == OutBeats(g, Producer(g, name))
UnitOf(g, name) == CHOOSE u \in Range(g.nodes) : u.name = name
(* The fastest folding its neighbour can meet that costs no more.            *)
FastestOf(u, options) ==
  LET cycles(i) == Cycles(FoldedTo(u, options[i]))
      fastest == {i \in DOMAIN options : \A j \in DOMAIN options : cycles(i) <= cycles(j)}
  IN IF options = <<>> THEN u ELSE FoldedTo(u, options[Min(fastest)])
WithinPressure(g, u, supplied, pressure(_)) ==
  SelectSeq(AllowedFoldings(u), LAMBDA o : /\ CompatibleWidths(supplied, InElems(g, FoldedTo(u, o)))
                                           /\ AtMost(pressure(FoldedTo(u, o)), pressure(u)))
Retuned(device, g, u, supplied) ==
  FastestOf(u, WithinPressure(g, u, supplied, LAMBDA v : Pressure(device, UnitCost(device, g, v))))
MeetAt(device, g, u, input) ==
  IF Producer(g, input) = NoNode \/ CompatibleWidths(Supplied(g, input), InElems(g, u)) THEN g
  ELSE UpdateNode(g, Retuned(device, g, u, Supplied(g, input)))
MeetInputs(device, g, u) ==
  FoldLeft(LAMBDA h, input : MeetAt(device, h, UnitOf(h, u.name), input), g, StreamInputs(g, u))
Aligned(device, g) ==
  Infer(FoldLeft(LAMBDA h, u : MeetInputs(device, h, u), g, TopologicalOrder(g).order), InferUnit)

(* One converter where one width divides the other, else two, by way of what *)
(* divides both.                                                             *)
StepsDirect(supplied, wanted) == <<<<supplied, wanted>>>>
Steps(supplied, wanted) ==
  IF CompatibleWidths(supplied, wanted) THEN <<<<supplied, wanted>>>>
  ELSE <<<<supplied, Gcd(supplied, wanted)>>, <<Gcd(supplied, wanted), wanted>>>>
Converted(g, reader, name, supplied, wanted) ==
  LET t == g.tensors[name]
      step(s, widths) ==
        LET staged == FreshName(s.g, Append(name, "dwc"))
            h == Like(s.g, staged, name)
            unit == WidthConverter(FreshName(h, Append(name, "dwc_unit")), s.upstream, staged,
                                   widths[1], widths[2], t.bits, Numel(t))
        IN [g |-> InsertAfter(h, s.anchor, unit), anchor |-> unit, upstream |-> staged]
      done == FoldLeft(step, [g |-> g, anchor |-> Producer(g, name), upstream |-> name], Steps(supplied, wanted))
  IN ReadsInstead(done.g, reader, name, done.upstream)
IoWidths(g) ==
  LET width(h, name) == LET readers == Consumers(h, name)
                        IN IF readers = <<>> THEN h
                           ELSE [h EXCEPT !.tensors[name].elems_per_beat = InElems(h, readers[1])]
  IN FoldLeft(width, g, g.inputs)
InsertConverters(g) ==
  LET inferred == Infer(g, InferUnit)
      meet(h, u, input) ==
        IF Producer(h, input) = NoNode THEN h
        ELSE LET supplied == Supplied(h, input)
                 wanted == InElems(h, u)
             IN IF supplied = wanted THEN h ELSE Converted(h, u.name, input, supplied, wanted)
      node(h, u) == FoldLeft(LAMBDA k, input : meet(k, u, input), h, StreamInputs(h, UnitOf(h, u.name)))
  IN Infer(IoWidths(FoldLeft(node, inferred, TopologicalOrder(inferred).order)), InferUnit)

-----------------------------------------------------------------------------
(* InsertFifos: a FIFO on every stream between two units, its depth from the *)
(* token analysis of the graph as it was before any.  The cap a test may set *)
(* on the depth is none.                                                     *)

Buffered(g, reader, name, depth) ==
  LET staged == FreshName(g, Append(name, "fifo"))
      h == Like(g, staged, name)
      unit == StreamFifo(FreshName(h, Append(name, "fifo_unit")), name, staged, depth, StreamWidth(g.tensors[name]))
  IN InsertAfter(ReadsInstead(h, reader, name, staged), Producer(g, name), unit)
(* One for each stream, however often the unit reads it. *)
Internal(g, u) ==
  {n \in Range(StreamInputs(g, u)) : Producer(g, n) # NoNode /\ Producer(g, n).op # "Fifo"}
BufferInputs(g, h, u) == FoldSet(LAMBDA n, k : Buffered(k, u.name, n, FifoDepth(g, n)), h, Internal(g, u))
InsertFifos(g) ==
  Infer(FoldLeft(LAMBDA h, u : BufferInputs(g, h, u), g, TopologicalOrder(g).order), InferUnit)

-----------------------------------------------------------------------------
(* compiler/onnx2fpga/p5_schedule/folding.py: the slowest unit is sped up, *)
(* again and again, until the target is met, nothing folds further or the  *)
(* budget is spent.  target is in cycles, 0 for none.                      *)

CONSTANTS SpendInverse   \* 1 / the least a faster folding counts as costing, 10 ^ 9 in the code

FoldingKinds == {"MatVec", "Window", "Act", "Pool", "AddUnit"}
NamesOf(units) == [i \in DOMAIN units |-> units[i].name]
FoldingUnits(g) == NamesOf(SelectSeq(TopologicalOrder(g).order, LAMBDA u : u.op \in FoldingKinds))

StartingFolding(u) == IF u.attrs.pinned = {} THEN Factors(1, 1) ELSE AllowedFoldings(u)[1]
Restarted(g) ==
  EachUnit(g, LAMBDA u : IF u.op \in FoldingKinds THEN FoldedTo(u, StartingFolding(u)) ELSE u)
EffectiveTarget(g, frozen, target) ==
  FoldLeft(Larger, target, [i \in DOMAIN frozen |-> Cycles(UnitOf(g, frozen[i]))])

(* The places, in s, where F is least. *)
Least(s, F(_)) == Min({i \in DOMAIN s : \A j \in DOMAIN s : AtMost(F(s[i]), F(s[j]))})

(* With unit u folded to o the whole design still fits. *)
FitsAlone(device, g, u, o) == Overruns(device, UnitCost(device, g, FoldedTo(u, o))) = {}
Fits(device, g, u, o) == Overruns(device, GraphCost(device, UpdateNode(g, FoldedTo(u, o)))) = {}
(* CheapestUpgrade, of the faster foldings those that fit: the least pressure *)
(* that meets the target, else the least spent for each cycle saved.         *)
Cheapest(u, target, feasible, pressure(_)) ==
  LET cycles(o) == Cycles(FoldedTo(u, o))
      meeting == SelectSeq(feasible, LAMBDA o : target > 0 /\ cycles(o) <= target)
      spend(o) == LargerOf(Minus(pressure(o), pressure(u.attrs.fold)), <<1, SpendInverse>>)
  IN IF feasible = <<>> THEN u.attrs.fold
     ELSE IF meeting # <<>> THEN meeting[Least(meeting, pressure)]
     ELSE feasible[Least(feasible, LAMBDA o : Over(spend(o), Whole(Cycles(u) - cycles(o))))]
UpgradeAmong(device, g, u, target, faster, feasible) ==
  [found |-> feasible # <<>>, blocked |-> feasible = <<>> /\ faster # <<>>,
   fold |-> Cheapest(u, target, feasible, LAMBDA o : Pressure(device, UnitCost(device, g, FoldedTo(u, o))))]
Upgrade(device, g, u, target) ==
  LET faster == SelectSeq(AllowedFoldings(u), LAMBDA o : Cycles(FoldedTo(u, o)) < Cycles(u))
  IN UpgradeAmong(device, g, u, target, faster, SelectSeq(faster, LAMBDA o : Fits(device, g, u, o)))

(* One greedy pass: the units given up on, in order, and those of them the   *)
(* budget held.                                                              *)
SlowestOf(g, names) == names[Least(names, LAMBDA n : Whole(-Cycles(UnitOf(g, n))))]
Sped(s, u, upgrade) ==
  IF upgrade.found THEN [s EXCEPT !.g = UpdateNode(@, FoldedTo(u, upgrade.fold))]
  ELSE [s EXCEPT !.frozen = Append(@, u.name),
                 !.held = IF upgrade.blocked THEN @ \cup {u.name} ELSE @]
RECURSIVE Greedy(_, _, _, _)
Greedy(device, target, s, names) ==
  LET movable == SelectSeq(names, LAMBDA n : ~Contains(s.frozen, n))
      slowest == UnitOf(s.g, SlowestOf(s.g, movable))
      goal == EffectiveTarget(s.g, s.frozen, target)
  IN IF movable = <<>> \/ (goal > 0 /\ Cycles(slowest) <= goal) THEN s
     ELSE Greedy(device, target, Sped(s, slowest, Upgrade(device, s.g, slowest, goal)), names)
GreedyOver(device, target, s) == Greedy(device, target, s, FoldingUnits(s.g))
Allocate(device, g, target) == GreedyOver(device, target, [g |-> Restarted(g), frozen |-> <<>>, held |-> {}])

(* A bisection for the lowest bottleneck that leaves no unit held.           *)
CyclesOf(u) == {Cycles(FoldedTo(u, o)) : o \in Range(AllowedFoldings(u))}
Candidates(g, target) ==
  Ordered({c \in UNION {CyclesOf(UnitOf(g, n)) : n \in Range(FoldingUnits(g))} : c > target},
          LAMBDA a, b : a < b)
RECURSIVE Bisect(_, _, _, _, _)
Bisect(device, g, candidates, low, high) ==
  IF low >= high THEN candidates[low]
  ELSE LET middle == (low + high) \div 2
       IN IF Allocate(device, g, candidates[middle]).held # {}
            THEN Bisect(device, g, candidates, middle + 1, high)
            ELSE Bisect(device, g, candidates, low, middle)
LowestOf(device, g, target, candidates) ==
  IF candidates = <<>> THEN target ELSE Bisect(device, g, candidates, 1, Len(candidates))
SettleSlowest(device, g, target) == FoldLeft(Larger, target, Candidates(g, target))
Settle(device, g, target) == LowestOf(device, g, target, Candidates(g, target))

(* Pins hold a unit's factors, and memory a matvec's table, to what the user *)
(* asked for: a pin on a unit that does not fold, by a factor it has not or  *)
(* to foldings it has not, and a table with no place to go, are errors.      *)
FactorsOf(u) ==
  CASE u.op = "MatVec" -> {"simd", "pe"} [] u.op = "Window" -> {"simd"} [] OTHER -> {"pe"}
PinHolds(u, pins) ==
  /\ \A pin \in pins : pin.key \in FactorsOf(u)
  /\ \E o \in Range(FoldingOptions(u)) : \A pin \in pins : o[pin.key] = pin.value
PinsHold(g, pins) ==
  \A name \in DOMAIN pins : Contains(FoldingUnits(g), name) /\ PinHolds(UnitOf(g, name), pins[name])
Pinned(g, pins) ==
  EachUnit(g, LAMBDA u : IF u.name \in DOMAIN pins THEN [u EXCEPT !.attrs.pinned = pins[u.name]] ELSE u)
TablesOf(g) == {u.name : u \in {u \in Range(g.nodes) : u.op = "MatVec"}}
HasPlace(device, g, memory) ==
  \A name \in DOMAIN memory : name \in TablesOf(g) /\ (memory[name] = "block" => HasBlockRam(device))
InMemory(g, memory) ==
  EachUnit(g, LAMBDA u : IF u.name \in DOMAIN memory THEN [u EXCEPT !.attrs.memory = memory[u.name]] ELSE u)

(* FoldingAllocator.run: target is the one the units were held to at last.   *)
Placed(device, g) ==
  EachUnit(g, LAMBDA u : IF u.op = "MatVec" THEN [u EXCEPT !.attrs.block_ram = UsesBlockRam(device, u)] ELSE u)
IsPinned(g) == \E u \in Range(g.nodes) : u.op \in FoldingKinds /\ u.attrs.pinned # {}
IsForced(g) == \E u \in Range(g.nodes) : u.op = "MatVec" /\ u.attrs.memory = "block"
(* A forced block RAM or a pin that takes the design past its budget is an   *)
(* error.                                                                    *)
Unmet(g, over) == (IsForced(g) /\ "bram" \in over) \/ (IsPinned(g) /\ over # {})
Folded(device, s, target) ==
  [g |-> Placed(device, s.g), target |-> target, frozen |-> s.frozen, held |-> s.held,
   refused |-> Unmet(s.g, Overruns(device, GraphCost(device, s.g)))]
(* A unit the budget held makes the others' target the bottleneck it leaves. *)
SettledAfter(device, g, target, first) ==
  IF first.held # {} /\ target > 0 THEN Settle(device, g, target) ELSE target
HeldTo(device, g, target, first, settled) ==
  Folded(device, IF first.held # {} /\ target > 0 THEN Allocate(device, g, settled) ELSE first, settled)
AfterFirst(device, g, target, first) ==
  HeldTo(device, g, target, first, SettledAfter(device, g, target, first))
FoldAll(device, g, target) == AfterFirst(device, g, target, Allocate(device, g, target))
NotFolded(g, target) == [g |-> g, target |-> target, frozen |-> <<>>, held |-> {}, refused |-> TRUE]
FoldDesign(device, start, target, pins, memory) ==
  IF PinsHold(start, pins) /\ HasPlace(device, start, memory)
    THEN FoldAll(device, InMemory(Pinned(start, pins), memory), target)
    ELSE NotFolded(start, target)

-----------------------------------------------------------------------------
(* compiler/onnx2fpga/p5_schedule/fixed.py: the fixed latency design, every *)
(* layer unrolled to a vector a cycle.  There is no handshake: the operands *)
(* of a unit arrive together because the earlier ones are held back.        *)

CONSTANTS BankWords   \* words of a weight bank, 8192 in the code

Headroom == 4

(* compose_tables: a table read only by a table becomes part of it.          *)
MergedBackwards(source, u) ==
  LET row(k) == [c \in 1 .. 2 ^ ActBits |-> LookUp(source.attrs.rows, k, Cyclic(u.attrs.rows, k)[c])]
  IN TableUnit(u.name, source.inputs, u.outputs, [k \in DOMAIN u.attrs.rows |-> row(k)])
Merged(source, u) ==
  LET row(k) == [c \in 1 .. 2 ^ ActBits |-> LookUp(u.attrs.rows, k, Cyclic(source.attrs.rows, k)[c])]
  IN TableUnit(u.name, source.inputs, u.outputs, [k \in DOMAIN u.attrs.rows |-> row(k)])
Compose(g, u) ==
  LET source == Producer(g, u.inputs[1])
  IN IF \/ u.op # "Table" \/ source.op # "Table"
        \/ Len(Consumers(g, source.outputs[1])) # 1
        \/ Contains(g.outputs, source.outputs[1])
       THEN g
       ELSE ReplaceNode(RemoveNode(g, source), u, <<Merged(source, u)>>)
ComposeTables(g) == FoldLeft(Compose, g, TopologicalOrder(g).order)

Reloadable(u) ==
  LET r == BroadcastRequant(u.attrs.requant, u.attrs.mh)
  IN [u EXCEPT !.attrs.reloadable = TRUE, !.attrs.arithmetic = "multiplier",
               !.attrs.requant = AtShift(r, Larger(0, r.shift - Headroom))]
BiasTooWide(u) == MatVecWord(u).bits > DenseWord(u).bits
(* The arithmetic asked for; if none, constant arithmetic, unless the layer's *)
(* busiest resource is busier for it.                                        *)
Multiplying(u, arithmetic) == [u EXCEPT !.attrs.arithmetic = arithmetic]
LighterArithmetic(u, worst(_)) ==
  IF AtMost(worst(Multiplying(u, "constant")), worst(Multiplying(u, "multiplier")))
    THEN Multiplying(u, "constant") ELSE Multiplying(u, "multiplier")
WithArithmetic(device, g, u, arithmetic) ==
  IF u.name \in DOMAIN arithmetic THEN Multiplying(u, arithmetic[u.name])
  ELSE LighterArithmetic(u, LAMBDA v : WorstUtilisation(device, UnitCost(device, g, v)))
Words(u) == IF u.op = "Dense" /\ u.attrs.reloadable THEN u.attrs.mw * u.attrs.mh + 2 * u.attrs.mh ELSE 0

(* longest_path: each tensor's cycle, and the cycles an operand waits.       *)
WaitsForFirst(times) == [i \in DOMAIN times |-> Larger(0, times[1] - times[i])]
Waits(times) == [i \in DOMAIN times |-> Largest(times) - times[i]]
LongestPath(g) ==
  LET place(s, u) ==
        LET times == [i \in DOMAIN StreamInputs(g, u) |-> s.arrival[StreamInputs(g, u)[i]]]
            waits == IF u.op \in {"Eltwise", "ConcatUnit"} THEN [u EXCEPT !.attrs.skew = Waits(times)] ELSE u
        IN [g |-> UpdateNode(s.g, waits), arrival |-> (u.outputs[1] :> Largest(times) + Latency(u)) @@ s.arrival]
      placed == FoldLeft(place, [g |-> g, arrival |-> g.inputs[1] :> 0], TopologicalOrder(g).order)
  IN [g |-> placed.g, latency |-> placed.arrival[g.outputs[1]]]

(* UnrollForFixedLatency.run, before its stages: a Dense for each matvec.    *)
Densified(g) == EachUnit(g, LAMBDA u : IF u.op = "MatVec" THEN DenseUnit(u) ELSE u)
AtOnce(g) == [g EXCEPT !.tensors[g.inputs[1]].elems_per_beat = Numel(g.tensors[g.inputs[1]])]
WithKinds(device, g, reloadable, arithmetic) ==
  EachUnit(g, LAMBDA u : IF u.op # "Dense" THEN u
                         ELSE IF reloadable THEN Reloadable(u) ELSE WithArithmetic(device, g, u, arithmetic))
(* A graph of no units has no first one to price; a layer of several vectors *)
(* an input and a bias too wide for its sums cannot be built.                *)
CannotUnroll(g) == g.nodes = <<>> \/ \E u \in Range(g.nodes) : u.op = "MatVec" /\ u.attrs.vectors # 1
CannotReload(g) == \E u \in Range(g.nodes) : u.op = "Dense" /\ BiasTooWide(u)
UnrolledAs(lowered, unrolled, reloadable) ==
  [g |-> unrolled, refused |-> CannotUnroll(lowered) \/ (reloadable /\ CannotReload(unrolled))]
Unroll(device, g, reloadable, arithmetic) ==
  UnrolledAs(g, WithKinds(device, AtOnce(Infer(ComposeTables(Densified(g)), InferUnit)), reloadable, arithmetic),
             reloadable)
(* The stages a unit has a knob for.  To meet a clock every knob takes the   *)
(* fewest registers its paths fit the period with, which the device's delays *)
(* tell: any count a knob, and any clock may be out of a unit's reach.       *)
Knobs(u) ==
  CASE u.op = "Dense" -> {"product", "sum", "rescale"}
    [] u.op = "Eltwise" -> IF u.attrs.kind \in {"add", "mul"} THEN {"product", "rescale"}
                           ELSE IF u.attrs.kind \in ArithmeticKinds THEN {"product"}
                           ELSE IF u.attrs.kind \in {"and", "or"} THEN {} ELSE {"rescale"}
    [] u.op = "ReduceUnit" -> IF u.attrs.kind = "sum" THEN {"tree", "rescale"} ELSE {"tree"}
    [] OTHER -> {}
Staged(g) == {u.name : u \in {u \in Range(g.nodes) : Knobs(u) # {}}}
Pipelined(g, stages) ==
  LET staged(u) == [u EXCEPT !.attrs.stages = [k \in DOMAIN @ |-> IF k \in Knobs(u) THEN stages[u.name][k] ELSE 0]]
  IN EachUnit(g, LAMBDA u : IF u.name \in Staged(g) THEN staged(u) ELSE u)
OutOfReach(g) == [g |-> g, latency |-> 0, refused |-> TRUE]
OnPath(device, path) ==
  [g |-> path.g, latency |-> path.latency,
   refused |-> \/ Overruns(device, GraphCost(device, path.g)) # {}
               \/ SumOf([i \in DOMAIN path.g.nodes |-> Words(path.g.nodes[i])]) > BankWords]
Timed(device, g) == OnPath(device, LongestPath(g))

=============================================================================
