# onnx2fpga: TLA+ models, model checking and proofs

onnx2fpga compiles a quantized ONNX model into a synchronous hardware design (Hardcaml,
with a SystemVerilog twin), wraps it for a board, and comes with the host software that
talks to the board and a tick-to-trade path for market data. This directory holds TLA+
models of the parts of it that have state and timing of their own, TLC configurations
that check them on small instances, and TLAPS proofs of what matters most for all
instances. Paths below are relative to the repository's root.

There are three kinds of model. The hardware is clocked: one step is one clock edge, all
registers move together, and the nondeterminism is in what the environment does at that
edge (a beat is offered or not, taken or not, written, lost, cleared). The compiler is a
sequence of functions on graphs: one step is one node imported or lowered, or one pass, and
the nondeterminism is in the model, the device and the settings it is given. The Python
interface is called: one step is one call, at every place at which it may raise.

## 1. The system

| Part | State | Operations | What makes it correct |
|---|---|---|---|
| Streaming units (`hardware/hardcaml/src/otf_*.ml`, `top.ml`, twins in `hardware/rtl`) | fold counters, replay and line buffers, output registers; a FIFO on every edge | valid/ready handshakes, synchronous clear | no beat lost, repeated or mispaired under any back-pressure; no deadlock with the depths the compiler gives; nothing survives a clear |
| Importer (`p1_ingest`, `p2_graph`) | graph, renames, views put off, folded constants, grids | one rule per ONNX operator; constants folded; a scale absorbed by the layer before it | at every node, what it has kept means what the model means |
| Quantization and lowering (`p4_quantize`, `p3_ops`) | a grid per tensor, units in place of operators | calibrate or take the model's grids; one rule per operator; narrow outputs and wires | a unit's code is its operator's result, rounded; accumulators never overflow |
| Scheduling (`p5_schedule`) | the design's units with their foldings, or stages | fork, fold, align widths, convert, buffer; or unroll, time and skew | codes unchanged; streams meet; the budget kept; depths are enough; operands arrive together |
| Fixed latency designs (`fixed_top.ml`, `otf_dense.ml`, `weight_banks.ml`) | pipeline and skew registers, bank tag, two weight banks with CRC and version | one inference a cycle; write a word, commit | an inference uses the weights of one model; what a bank's CRC vouches for |
| Kria register file and hosts (`kria_regs.ml`, `runtime/host/kria_run.cpp`, `reload.py`) | AXI responses, request and result registers | register reads and writes by two programs | an answer belongs to its request and to the model in force |
| Serial link (`uart_bridge.ml`, `uart_top.ml`, `serial_link.py`) | byte buffers, half-assembled beats, bytes on the line and in the host | windowed stream, timeout, break and reset | no buffer overflows, a frame's answer is its own, a reset leaves nothing behind |
| Market data front end (`moldudp64.ml`, `itch_parser.ml`) | framing state, 35 byte buffer | eight bytes a cycle; a packet ends | messages and events are those of the software model |
| Order book (`order_book.ml`, `book_side.ml`) | dual port order table, price levels, trade flow, clearing sweep | add, execute, cancel, delete, replace | levels sorted, uncrossed, backed by live orders; equal to the software book |
| Features, decision (`features.ml`, `decision.ml`, `tick_to_trade.ml`) | feature pipeline, order token | a book beat in, an order out | the order belongs to the beat that caused it, a fixed time later |
| Python interface (`api.py`, `board.py`, `simulate.py`) | result, board, port, settings, directories, register file of an `Accelerator` | set layers, compile, build, deploy, load_weights, simulate, predict, each raising anywhere | predict, simulate, board and layers speak of one design and one model |
| Simulation harnesses, tools, examples, targets | none of interest | | not modelled: I/O, tables, packaging |

How they interact. Streaming units are joined by valid/ready streams through FIFOs; a
fork and a join make the one place where two paths must agree. The fixed latency designs
have no handshake at all: what meets at a unit is lined up by skew registers, and the
weights' bank travels beside the data as a tag. A host reaches a Kria design through
AXI4-Lite registers (two programs, one bus) and an Icepi design through a UART (windowed
frames, a break as reset). The feed goes framer, parser, book, features, design,
decision, one way and without back-pressure. The compiler's stages hand one graph on, with
the plan of grids beside it; the interface calls them, keeps their result, and goes through
files to the tools, the board and the simulator.

The hard behaviours, listed line by line under `hazards` in PROJECT.json: back-pressure
in any pattern around registers that hold one beat; a clear with beats in flight; FIFO
depths and the deadlock of fork and join; a commit with inferences in flight; writes lost
between host and board; stale status bits; two programs on one bus; timeouts that race
late answers; a host that dies in mid-frame; table slots shared by two orders; a memory
whose write is a cycle later than the event that causes it; messages at every alignment
and packets cut anywhere; counters at their wrap; a scale absorbed by a layer that something
else still reads; rounding in five places between an operator and its unit; a word sized for
the wrong extreme; a search that must not pass the budget; calls that raise after they have
written what the last design still uses.

## 2. Modules

An arrow reads "is composed in".

**Streams.** `OtfFifo` (otf_fifo.ml, register by register) implements `StreamQueue`, the
bounded queue. `OtfMvau` and `OtfDwc` (both converters), each with a clock per
edge and a clear → `StreamForkJoin`, which has the fork (otf_dup.ml) and the join
(otf_add.ml) itself: a residual block wired the way `top.ml` and the
compiler's passes (`streams.py`) wire it, with FIFOs in their abstract form and with the
depths `TokenAnalysis` (tokens.py) computes from the schedules of `hardware_ops.py`.
Arithmetic is abstracted to operands: an accumulator is the set-up it started from and
the pairs it added, so that mixing two vectors or two folds shows. `OtfSwuLine` →
`WindowStream`, a convolution's or a pool's front with the pool unit (`otf_pool.ml`) behind
it, checked against `Im2Col`.
`MCStreams` extends FIFO and block, lists the layers and runs the three side by side, one at a
time.

**Reload.** `WeightBanks` → `FixedTop` (any feed-forward set of nodes, with the cycle in
which each reads each weight) → `ReloadStream` (inferences stream past a host that writes
and commits) and → `KriaRegs` → `KriaHost` (an inference program and a model loader).
A value in the pipeline carries which inference it is of, which words it used, with their
addresses, and what was promised when its features arrived: the words of the bank in use. A
CRC is kept as the data it was fed since word 0 was last written, and not where that data went,
as in the hardware (`weight_banks.ml:73-82`); `last` and `faults` are history beside it, of
whether a bank's writes came in order and of how many were lost or repeated. `ReloadStream` ends with the design it is
checked on.

**Serial.** `UartBridge` → `SerialSession`, with `uart_top.ml`'s clear and the host's
`Session`. The accelerator behind the bridge is a promise (takes a frame, answers later
with bytes that name what it took); the line keeps order. `MCHosts` runs the two kinds of
host, this one and `KriaHost`'s, one at a time.

**Tick to trade.** `Moldudp64` → `FeedFrontEnd`, which holds the parser of
`itch_parser.ml` too, next to `MoldSerial` (the
byte-serial framer of `trading/formal.py`) and the packet framer and parser of
`trading/reference.py`; what packets come is its parameter. `BookSide` (pure) → `OrderBook` (cycle by cycle), and
`BookReference`, the `Book` class of `trading/reference.py`, which it implements.
`TickToTrade` is the path behind the book, `features.ml` and
`decision.ml` with what `tick_to_trade.ml` puts between them, beside `DecisionReference`, the rest of `trading/reference.py`; its book beats are the
environment's, its model (`FixedTop`) is a latency and a function. `MCTrading` runs the two
ends side by side, one at a time.

**Compiler.** `IrGraph` is `graph.py`: nodes, tensors, rewiring, topological order,
inference, and running a graph. `FloatOps` gives the float operators their shape and value,
`OnnxMeaning` the ONNX operators theirs, independently of the code. `OnnxImporter` has a rule
per operator and the three ways it keeps a value: an operator of the graph, a view (an affine
selection of a tensor, not built yet), a folded constant. `QuantGrid` is the arithmetic of
grids and requantisers over exact fractions, `Units` the
integer units, their words and what they charge to a device, `Lowering` the grid of each
tensor and one rule per operator. `Schedules` has the passes behind it: forks, widths, converters and FIFOs (with
`TokenAnalysis`), the folding search, and the fixed latency design →
`CompilePipeline`, the order of `compile.py`: node by node through the importer and the
lowering, then pass by pass. It also says how far a unit's code may be from its operator's
result. `MCCompile` has the models, devices and settings.

**Interface.** `AcceleratorApi`, with the build directories, the board's configuration and
the two weight banks, and the calls it is checked on.

Correspondence. The names are the code's (`act_buf`, `out_free`, `wr_pixel`, `filled`);
PROJECT.json `map` gives the lines of each definition. The combinational signals are
operators, registers are variables, and the handler of a clock edge is one action with all
register updates in it. A comment `Mutant of X` marks a deliberate mistake, kept beside X
to show that a property would notice it; nothing uses it.

## 3. Runs

| Run | Shows | Bounds |
|---|---|---|
| `streams` | The circular buffer is a bounded queue, pointers and count agree. A residual block delivers in order, each result with the words of its own position, across a clear, and never deadlocks. Every window is Im2Col's, across a clear; after the last clear writer and reader never block each other. | FIFO: depth 3, not a power of two, so that the pointer wraps at the depth and not at its width; 2 beats (the proofs cover every depth). Block: 10 words, 5 folds, so that the fork must run ahead of the join by several words and by part of a wide one; block RAM weights; 2 frames, so that one vector meets the next; 1 clear at any point. Layers: 19 for the ways a window moves (strides that skip and leave pixels, padding on each side, dilation, groups, columns side by side, pools); 64 in place of 2^32, so that the counters wrap while the distances between them stay under half of it; any number of clears, each at any point (a clear leaves the memories, whose old words count as never written, so that a window that held one would differ). |
| `padded_window` | A layer padded beyond its kernel's reach has windows of the next image's pixels (finding). | A 1x1 convolution with a border of padding over images of 2 by 2. |
| `reload_stream` | One model per inference, CRC vouches, what is activated was verified. | A design with a skewed branch and a reloadable layer of three words; 2 models, each with all its words equal, which a CRC without addresses tells least of; any number of words lost or repeated, as often as the host tries again; version modulo 2; one inference in flight, which is enough because inferences only share the banks and never each other's registers: a property broken by several is broken by one of them alone; a host that waits `Lag` cycles after a commit. |
| `reload_mid_flight` | Without that wait, an inference mixes two models (finding). | A design whose skewed branch is a second reloadable layer, `Gap` 1. |
| `hosts` | Kria: answers, and their cycle counts, are of their own request and of the words in force, over lost writes and a concurrent loader; a loader that returns has its model in force if the writes came in order; both programs go on. Serial: the window never overflows the buffer, answers are their inputs', a reset leaves nothing, no call stands still. | Kria: one layer of three words read in three different cycles; 2 models, each with all its words equal; beside kria_run a call of write_bank loses any words but word 0, without kria_run it loses any, word 0 of a call after one that raised included (the two together are a state space too large, and the theorems have them); requests told apart by parity (only the last could be stale); the latency counter stops above the latency. Serial: frames of 2 beats of 2 bytes each way, a window of 2, 4 frames a call; calls told apart by parity, since a reset or an end of call leaves nothing (`NothingLeft`) for a later one. |
| `order_book` | The pipelined book is the software model event by event; sides sound and backed by orders; the flow never wraps. | 2 slots and 3 orders, so that slots collide and a replace can meet its own slot; 3 prices for 2 levels, so that one is pushed off the end; shares up to 3, so that a level saturates; a second symbol whose orders share a slot; a flow cap of 1; a memory with rubbish at power-up. |
| `trading` | Eight lanes equal the byte-serial framer and the packet framer; events are the reference's and at least two cycles apart. Every book beat is decided exactly the latency later, as the software model decides it, with its own prices and a gapless token, across clears. | Every alignment of a message's end in a beat; packets cut at every byte; counts right, short, long, zero and end of session; legal, shortest and illegal lengths; two packets in a row, and a clear after any beat of the first (what is framed from its rest is compared with the byte-serial framer alone, since the packet framer says nothing of a packet without a header); one idle cycle or one clear a run (`IdleBound`); time modulo 32. 4 book beats that make it buy, sell and hold for either reason; three in flight at every spacing; a model of two cycles; 6 bit shares and 2 levels, so that a side's sum needs its extra bit; tokens modulo 3. |
| `serial_reuse` | A session that raised LinkTimeout answers the next call with the late answers of the last (finding). | The serial host of `hosts` with `Reuses`. |
| `compile` | The importer keeps the model's meaning at every node; each lowered unit gives the rounded result; sums fit their words; no pass changes a code; beats meet; operands arrive together; the folding search keeps the budget and ends on the least bottleneck. | About 1500 models: every chain of three of ten feature operators, every chain of two of six map operators with and without a layer behind, two results that meet again in three ways, a padded convolution and pool, and twenty models of their own (QLinear, QGemm, QDQ, QONNX, integer layers, classifiers, concatenations, reductions, masks, double outputs). 4 bit codes and weights, 8 bit multipliers, 16 bit biases, shifts to 24, one calibration vector; three devices: roomy, short of everything, and with block RAM filled to the last; pins and memory pins, legal ones and not; targets in reach and out of it; the arithmetic of a fixed latency unit chosen either way, its stage counts any of a few, and clocks out of reach. |
| `padded_pool` | A padded pool takes zero for its border (finding). | One pool of 2 by 2 with a border, over negative numbers. |
| `accelerator` | A call that raises anywhere leaves an accelerator whose reference model, open board, simulator and layers agree; load_weights is all or nothing. | Three calls, that change board, mode, weights, target and directory or leave them as they were; a model of layers and a tree ensemble; four settings of the layers and two counted changes of them (staleness compares two counts), any number that are not counted; a generator that builds and no backend in the environment (`Generator` and `EnvHdl`, any in the proofs); two models, which with the compiled one tell a bank's old, new and mixed content apart. |
| `missed_target` | A strict compile that misses its target overwrites the design in use (finding). | Two calls. |

Every property of a passing run has a mutant under which that run finds it violated
(PROJECT.json `mutants`).

**Deadlock checking** is off in `trading`, whose front end stops when its packets have been
sent, in `compile` and `padded_pool`, where a compile ends or is refused, and in
`accelerator` and `missed_target`, whose program may simply make no further call.

**Fairness.** Hardware has a clock: `WF(Tick(TRUE, TRUE))` in the block and
the layers of `streams` says that edges keep coming on which producer and consumer are both
willing. Weak fairness is right because the edge is always possible; nothing says which
edges come between. The Kria programs of `hosts` have weak fairness of the clock and strong fairness of the
bus towards each program: AXI interconnects arbitrate fairly, and a program's transfer can
be pre-empted by the other's. The serial host has weak fairness of each of the line's two
directions, the accelerator, and the host's sending and reading, which nothing but the end
of the host's process or its own timeout can stop; neither of those has any fairness.

**Assumptions about the outside.** The serial line keeps order and loses no byte that was
sent (there is no checksum in the protocol, so a lost byte shifts every later frame of the
session); a break is held until the byte being sent has gone (ten milliseconds against ten
bits). CRC-32 does not collide on the data it is fed; equal data has equal CRCs, wherever it was
written. The host of `reload_stream` follows write_bank; the two requests of a Kria host alternate.
A model given to `compile` is one the importer accepts or refuses as a whole: its shapes
and attributes are consistent with ONNX. In `accelerator` the registers load_weights is
given are those of the design in use, `deploy(program=False)` is called for a board that was
loaded, and the environment is that of one process: whether the Hardcaml generator builds and
what `ONNX2FPGA_HDL` names do not change under it.

**Bounds of the data.** Where the code has a constant the model has one too, with a smaller
value that leaves every case in reach: `TinyInverse` 64 for 10^12 (the least scale),
`ShallowDepth` 4 for 64 (words a memory of lookup tables holds), `SpendInverse` 1024 for 10^9 (the least
a faster folding counts as costing), `BankWords` 12 for 8192 (so that a model fills a bank
and one more word is refused), `MaxShift` 24. Scales are exact fractions where the code has
doubles; the few models whose scales would differ in the last bit are not a subject.

## 4. Findings

1. `reload_mid_flight`: a bank becomes writable in the cycle after the commit that leaves
   it, while inferences tagged with it are in flight
   (`hardware/hardcaml/src/fixed_top.ml:115`), against
   `docs/specs/003-reloadable-weights.md:26`. `reload_stream` shows how long a host has to
   wait: `Lag`, at most the design's latency.
2. `serial_reuse`: `Session.stream` leaves late answers behind when it raises
   (`compiler/onnx2fpga/serial_link.py:156`); `api.py:684` goes on with the session. With a
   new session, which sends a break first, `hosts` finds no such answer.
3. `padded_pool`: the window in front of a padded MaxPool fills its border with the code of
   zero (`compiler/onnx2fpga/p4_quantize/lower.py:84`), where the operator takes the least
   number there is (`p3_ops/onnx_ops.py:146`). Behind a Relu, where networks have their
   pools, the two agree.
4. `missed_target`: a strict compile that misses its target raises after it has emitted the
   design it refuses into the directory of the one in use (`compiler/onnx2fpga/api.py:287`).
   `accelerator` shows that until a compile that raises writes there (`spoiled`) nothing is mixed.
5. `padded_window`: where the padding at the bottom is more than the kernel reaches, the
   last rows of windows are below the image, and `oldest`
   (`hardware/hardcaml/src/otf_swu_line.ml:147`) with them: it lies in the next image, past
   pixels no window has read, and the writer overwrites those, against
   `docs/hardware/sliding-window.md:43`. With one image at a time nothing is lost. PyTorch's
   `Conv2d(..., 1, padding=1)` is such a layer; every kernel padded by less than it covers
   is not.

Read in the code while modelling it, and kept outside the models' inputs because no run is
about them: a view of a view is given no shape (`onnx_importer.py:713`); an Add of a
constant over a map does not transpose the constant to channel-last (`onnx_importer.py:422`);
`lower_flatten` gives its input the grid of its output although the input's producer was
lowered by then; an Add that reads one tensor twice, and an output that is also read inside,
are not forked (`streams.py:17`); `quantize` of a tree ensemble that refuses the width of its
features has set its leaves by then and does not count the change, so that the design compiled
before is still taken for current (`api.py:948`; `AcceleratorApi` has it, as `uncounted`); widths are aligned and converters added after the folding
search has kept the budget; a layer of zero weights with a non-negative bias gets an unsigned
accumulator, which the hardware reads as signed (`hardware_ops.py:194`); a design that is
over its budget before any unit is folded is not refused (`folding.py:194`); write_bank
checks a bank's size and cannot tell another design whose bank has the same size.

What a CRC does not tell. It is fed data without addresses (`weight_banks.ml:73-82`), so where an
image has equal words next to each other (zero biases, say) two faults can make up for each
other: word `k` is repeated and word `k + 1`, equal to it, is lost; or, with an image
`w0, z, z`, one call of write_bank loses word 1 and raises, and the next loses words 0 and 1, and
the CRC goes on from `w0, z` to `w0, z, z`. The image's own CRC then stands over a stale word, and
write_bank commits it and returns. The models have both histories, with images of equal words,
and the properties say what is left: a CRC vouches for a bank whose writes came in order,
whatever was lost of them, and for one that the host wrote with one loss or repetition at most
since word 0 (`CrcVouches`); write_bank's return is good for writes in order
(`LoadedIsInForce`), which they are unless a call that lost word 0 went on where one that raised
had stopped. Without `faults < 2` or `InOrder` the runs find the two histories.
`docs/specs/003-reloadable-weights.md:117` promises that a dropped or repeated write shows,
which is about one, and is no finding.
`AcceleratorApi` takes the losses the CRC tells of.

## 5. Proofs

`Streams_proofs`, the FIFO. `TypeOK` and `PointersAgree` (the pointers differ by the count modulo
the depth, and every held slot was written) for every depth, and refinement:
`FifoImplementsQueue` maps every clock edge and clear to a step of `StreamQueue`, with the
content read off the buffer from `rptr` for `count` places. Neither the pointers nor the
count alone determine the content; the invariant is what ties them.

`OrderBook_proofs`. First the combinational update of a side: removing keeps it gapless and
strictly best first, and keeps every price there is; inserting does too, and the best
after it is the old best or the new price; hence `UpdatedType` and `UpdatedSound`, with an
insertion that crosses the opposite best refused. `Better` is only used as a strict order
(`BetterOrder`), so the argument is one for both sides. Then the book, for every set of
symbols, slots, events, levels and widths:
`BookTypeOK` (no subtraction below zero: an execution is cut to what its order has),
`BookSidesSound` with the invariant `TypeOK /\ SidesSound` (the update of one side uses
that the *other* side is sorted, because only its best is compared), and `BookFlowFits`
with `TypeOK /\ FlowFits` (an amount of at most the cap added to seven eighths of eight
caps is at most eight caps).

`BookImplementsReference`: a step of the book is a step of `BookReference`, with the table read
off the memory as the orders of its live slots, and a side as the list of its live levels.
What carries it is that the event at the head was read from the memory as it is
(`PortsCurrent`): an event that came while its predecessor wrote would have read an old
word, and events come at least two cycles apart (`EventsApart`, in the run `trading`). The sweep has left
nothing behind it (`Swept`), so the table the events meet is empty. A removal
by shifting places is then the removal of an element of the list, an insertion by
comparing neighbours the insertion at the place the software model counts out
(`ListedRemove`, `ListedInsert`), and two writes by two ports are one change of the orders,
their own slot or another's (`TableWritten`).

`BookBackedByOrders` and `BookExactUntilLost` add up the table. The sum over the slots is a
recursive function; that changing one number changes it by as much (`TotalChanged`) is proved
by the least slot at which it would not. So what rests at a price changes with an event by what is taken
there and what is given (`RestingUpdated`), and a side changes by the same unless a removal
finds fewer shares than it takes or an insertion loses some (`SharesAfterUpdate`). A level that
was pushed out is the reason for the first: its orders still rest, and removals for them must not reach below
zero or another level. Both need that the book is empty until the sweep has ended (`Unused`).

`Streams_proofs`, the residual block. `BlockDeliversInOrder`, for every fold the converters can work at
(`FoldAssumption`), both weight memories, FIFOs of any depth, any number of frames and clears,
and any pace of the two ends. Every queue and every register of a beat holds a stretch of a
stream that is fixed at the start: words, words packed wide, results, results unpacked, sums.
The invariant gives each stretch its place, and says that each begins where the next place
downstream ends: what the fork has handed to one branch and not yet to the other, what a
converter has half filled or half emptied, what the unit has in its replay buffer and its
accumulator. So the join pairs a word with its own result whatever the depths are; that
the depths are enough for it never to stop is a question of liveness, and stays with TLC.

`Streams_proofs`, the windowed layers. `EveryWindowInOrder`, for every kernel, stride, dilation,
padding, image, number of channel groups and columns a beat, pooled or not, any number of
images and clears, and any pace of producer and consumer. The model's registers wrap; the
invariant (`LayerInv`) says that there are numbers that do not, pixels written, images read
and beats taken, of which they are the remainders, and speaks of those. The writer has `Room`
up to a buffer's depth beyond the oldest pixel a later window reads (`Limit`), and the reader
has found every read written, so it is less than an image ahead of the writer (`Covered`).
Both bounds keep the differences the sign bits decide about below half of the word, which is
why the bits decide as the numbers would (`SignedIs`). A pixel shares its slot with those a
depth before and after it (`SameSlot`), of which the one before has been overwritten and the
one after may not be written, since `oldest` only grows (`OldestGrows`, which is where top
padding and the way back to the next row come in). So a read finds its own pixel
(`ReadsThePixel`), and the reader's five counters, read as one number (`IndexOnward`), come in
the order in which numpy flattens the windows (`WindowBeatIs`). A pool holds, for each
channel group, the beats of its window so far (`Pooling`). The hypothesis on a layer
(`Sound`) is what the compiler's geometry gives: positive sizes, a whole number of beats a
window, an image and a buffer below half of the word, a buffer depth that divides it;
and `StaysInImage`, that no window begins past the image's last pixel. Padding within the
kernel's reach implies it; the compiler does not check it, and `padded_window` shows that
it cannot be left out.

`FixedTop_proofs`. Lemmas on the pipeline of any feed-forward design. `Words` and `Arrival` are
recursive functions of the design; that they exist and are natural numbers at every argument
is proved by the least number at which they would not be (`LeastNumber`), since the library's
induction takes an operator the provers cannot instantiate. The main one is `EdgeCarries`:
there is a history of what arrived, by its age in cycles, and every pipeline, skew and tag
register holds what its distance from the inputs says (`Carries`), whatever edge comes. So
what a unit joins is of one inference, and it carries the bank that inference found in use.

`ReloadStream_proofs`. For every reloadable fixed latency design, every set of models and of
images, equal words or not, and any loss or repetition of writes: a bank whose CRC is an image's
holds that image, if its writes came in order or the host wrote it with one fault at most
(`ReloadCrcVouches`), and no edge changes a word of the bank in use, or of the bank it puts in
use (`ReloadActivatedAsVerified`). Two invariants carry the first. `Begun`, of either bank: the
first datum its CRC was fed is its word 0; writes in order to words up to `last` feed it at most
`last + 1` data, and when it is that many none was lost and the words are the data. An image's
CRC is of `Words` data, so `last` must be the last word. `IdleWritten`, of the bank the host
writes: after one fault either its words are right all the same, but for word 0, which `Begun`
has, or the CRC was fed one datum too few. `ReloadOneModel`: under `Gap >= Lag`, which is what
`reload_mid_flight` shows to be needed, an inference uses the words its bank held when it
arrived, one model's if they came in order. An
entry of the history whose bank is no longer in use is older than the last commit, and the
host has not yet written the words it has still to pick (`Safe`).

`KriaHost_proofs`. `KriaLoadedIsInForce`, for every design with a word to load, any models and
images and any loss of writes, of a bank whose writes came in order, over the two programs and the bus between them. On its own the property is far
from inductive; the invariant follows one call of write_bank. A write or commit is in the
register file only while its answer is on the way, and the loader waits for it (`Pending`);
so an answer to a read is still true when the loader learns it (`ReadsTrue`). Up to the commit
the bank and version it holds are those in force and the CRC it compared is that of the idle
bank (`Underway`), which by `Begun` is the image if its writes came in order (`BankHolds`). After it there are two states and the
reads tell them apart (`Decided`): either nothing was committed, bank and version are the old
ones and the first read shows it, or both are the next ones over the image, and all three
reads confirm it. So write_bank neither returns over an uncommitted bank nor raises over a
committed one. A design without words has no such registers (`ReloadableAssumption`).

`KriaAnswersItsRequest` and `KriaAnswersFromModelInForce` follow the other program along the
history of the pipeline. Its request is in one of four states (`Story`): asking, with no
inference in flight; started, with the start in the register file and its answer owed;
running, with one inference in flight, of the age the counter shows, and the status low;
done, with the result and its latency in the registers. A status that still showed the
last result would be a fifth, and the answer owed to the start rules it out. The words in use
are those the last accepted commit put in use (`InForce`), and that commit's model if its bank
was written in order (`Truthful`). The second theorem has two
hypotheses on the design. `WordsReach`: its prediction depends on words; without it there are
no words to be of a model. `Prompt`: a unit picks the word at address `a` at most `14 + a` cycles
after the features arrive. Nothing in the register file keeps the loader from writing over
a word an inference in flight has still to pick; only that it must read six registers
first and write the words in order does, and a transfer takes two edges at least. This is
`reload_mid_flight` seen from the bus: a deeper design is only safe because its host is slower
than that. The design of the run meets both (picks at cycles 0, 3 and 4).

`SerialSession_proofs`. `SessionNeverOverflows` and `SessionNothingLeft`, for every size of
beats, frames and buffers, any pace of the board and the line, and hosts that die with part of
a frame sent. The argument counts bytes (`Flow`): with `n` frames finished by the accelerator,
what is on its way in is of the frames after the `n`-th, and what was yielded or is on its way
out is of the first `n` and the beats given of the next. So `n` lies between the frames
yielded and the frames sent, the window bounds what is on its way in by the input buffer, and
when the last frame is yielded both sums are zero. `n` is no variable of the model: the
invariant says there is one. The hypothesis `~Reuses` (a new session after one that raised) is
what `serial_reuse` shows to be needed. A break empties the board and, with the byte being
sent gone and the host's buffer dropped, the line (`Resets`).

`SessionAnswersItsInputs`, under the same hypothesis, needs which byte is where, not only how
many. A stream is a set of places and the byte at each: the call's bytes in (`InStream`), the
answers to its frames out (`OutStream`). While the call runs, words held, beat collected,
input buffer and line hold stretches of the first that follow one another from frame `n + 1`
to the last frame sent; what the host has read, its buffer, the byte being shifted, the
output buffer and the pending beat hold stretches of the second from the last frame yielded
to the beats given (`Path`). So the words of a finished frame are the frame the host sent
(`WholeFrame`), the beat loaded is the next of its answer (`BeatPlaces`), and the frames cut
from what was read are whole answers. `Path` implies `Flow` of the same `n`; a call starts
with it because an open session is empty.

`TickToTrade_proofs`, the decision. `PathDecidesAsReference`, for every model of any latency and whatever
it computes, every threshold, width, shift and number of levels, any beats and a clear on any
edge. First the arithmetic: the hardware shifts two counts by the leading zeros of the larger,
the software model by its bit length and with numbers of no width; both give the same
nibbles (`NibblesAgree`), at the width of one level and at that of a side's sum. Then time: a
beat is followed by its age in edges, and the registers of an age hold what its beat
becomes whether it is valid or not (`Shows`); only the valid bits know of a clear. With each
age goes the token the software model had when it came to that beat (`Counts`): its newest
is `counted`, the hardware's is that of the oldest age, since an order is counted when it is
sent. What is due is the ages whose valid bit is set, the oldest first (`Awaited`), so
that a decision is never owed and missing, nor made and not owed. The prover knows no law of
powers; the two it needs are an ASSUME (`PowersOfTwo`) TLC evaluates, as is
`BusAssumption`: shares fit their word, and the sum of a side its wider one.

`TickToTrade_proofs`, the front end. `FeedMessagesFramed`, `FeedEventsMatch`,
`FeedEventsApart` and `FeedMatchesSerial`, for any two packets, whatever their counts, lengths
and sizes, any stocks, any number of idle cycles and clears. A packet's blocks lie one behind another at places a
recursive function gives; that this function exists is again shown by the least number at
which it would not (`StartsExist`), and `ByteOf` is then the byte the place says, two blocks
sharing none (`Apart`, `FieldBytes`, `BodyBytes`). On its own `MessagesAreFramed` says nothing
of a beat in which no message ends. What carries it is `Position`: after any number of beats
the framer is in the header, at the length field of a block, between its two bytes, in its
body with the right bytes left, its bytes so far in the buffer and the time of its first beat
in `first`, or past all that the reference frames. What lies behind the last block
reads as a block of length 65535, so a framer whose count says that more follows is still
in a block, one that no packet can hold. `StepPosition` takes each of these on by a beat of
eight bytes: in one beat a body may end, the length field be read whole or in half, or one byte
of it, and the next body begin. No beat does more, since a message has twelve bytes at least;
and the block that ends in a beat is the one whose message leaves (`BeatEmits`). After a clear
in mid-packet there is no position until the next packet, whose first beat finds the
framer at the header again (`Placed`). Nor does `Position` help with `EventsApart` then; it
rests on `FreshAfter` instead, which holds of any bytes: behind a message the next body has
taken at most six, so the next message to end in the following beat has at most fourteen,
fewer than any that is parsed (`ParseLong`). A message with a block's bytes is parsed as the
block is, because its type and length name one layout (`LayoutFacts`). An event's fields are
compared where the reference has them: only a Replace has a new order, and a Delete no side.

`FeedMatchesSerial` asks more than a packet framed right: state, buffer and message of
the eight lanes are those of the byte at a time framer after every beat, after a torn header
and on whatever bytes follow it. So it cannot rest on `Position`, and its invariant is only that the
registers are in range (`Legal`): a header has 1 to 20 bytes left, a body is 12 to 65535
bytes long and has one of them left or more. The walk of the byte at a time framer is a recursive
function over a beat's bytes; that it exists, and what it comes to within one phase, is shown
from byte to byte (`Steps`, `HeaderRun`, `BodyRun`, `DropRun`, `LowRun`). A beat is then cut where
the phase changes: a header or body ends or does not (`HeaderEnds`, `HeaderGoesOn`, `BodyEnds`,
`BodyGoesOn`), and from that end on (`EndAgrees`) come a length field and the next body, or less
where the beat is over (`LengthAgrees`, `LowAgrees`). At each cut the lanes' equations and the walk give
the same registers. That no beat has a third cut is where the twelve bytes are needed.

`AcceleratorApi_proofs`. For a model of layers and for a tree ensemble, every set of calls,
layers and directories, whether the generator builds or not, and any number of calls, with those
that raise at any place: `ApiCurrentLayers`, `ApiLoadedAllOrNothing`,
`ApiBoardAnswers` and `ApiSimulationAgrees`, the last two until a compile that raises has
written to the directory in use. None of the four is inductive. What carries them: the
arguments remembered from a compile that raised are still arguments (`Remembers`); the result
differs from the compiled graph only in loaded weights, and only for a fixed latency design
(`Designed`), while the serial port is only ever open for a stream design (`Deployed`); the
last build is of the result's own directory (`BuiltHere`); and that directory holds the
compiled graph (`InFiles`), which is what `missed_target` breaks.

Assumptions: the named ASSUMEs of `OtfFifo`, `BookSide`, `OrderBook`, `UartBridge`,
`SerialSession`, `AcceleratorApi` and the modules of the reload (a depth of at least one, a
beat of at least one byte and a frame of at least one beat, at least one level, a cap eight
times below the flow's width, events within the message formats' ranges, the default
directories among the directories), evaluated by TLC in every run of those modules, those of
`TickToTrade` above, and `PacketsAssumption` of `FeedFrontEnd`: a count and a length field are
sixteen bits, and a packet has at least a byte and no more than a UDP datagram's length can say.

Only model-checked, and why:

- all liveness (`AllDelivered`, `LayerFlows`, `KriaGoesOn`, `CallsEnd`): TLAPS proves no
  fairness argument here, and nothing about `ENABLED`;
- the eight invariants of `compile`: the compiler is recursive over graphs, shapes and
  calibration data, and its modules declare RECURSIVE operators, for which the prover has no
  backend. What `TokenAnalysis` computes is of the same kind.

## 6. Not modelled

Hardware: the bits of the UART; `otf_swu` (no layer asks for it) and `otf_act` (no register of its own); the
arithmetic inside a unit of the clocked models, which the compiler's models have instead.

Compiler: reading ONNX files; softmax and trees (tables of real functions); custom layers;
the delay model with the paths of a unit and the choice of pipeline stages (the stages of a
unit are any); the ECP5
estimates; UltraRAM; the cap on FIFO depths, which only a test sets; emission, which writes a
design out and decides nothing.

Interface: evaluate, summaries and the numbers predict computes; the command line,
measurement, diagnosis, packaging, capture replay and the C++ simulation harness, which are
I/O around what is modelled. The components list in PROJECT.json says so part by part.

## 7. Plan

Done, in this order: FIFO and queue with proofs; residual block and token analysis;
reloadable weights with proofs; register file and hosts; order book with proofs; feed front
end; serial link; window unit and pool; features, decision and the path to the order; the
compiler from model to design; the Python interface with proofs; then proofs of the residual
block, the windowed layers, the pipeline, the Kria programs, the serial session, the decision
path and, last, the feed front end.

Next, models: a stream design's unit inside
the residual block taken from `CompilePipeline` in place of the one written by hand; softmax
over a table given as a constant.

Next, theorems: `Units`' word widths (`WordsHold`) for every weight but a layer's that are
all zero beside biases that are not negative, where it is false (`hardware_ops.py:194`), which
needs its sums written as recursive functions.
