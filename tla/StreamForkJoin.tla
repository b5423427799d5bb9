--------------------------- MODULE StreamForkJoin --------------------------
(***************************************************************************)
(* A residual block as the compiler emits it: an otf_dup forks the stream, *)
(* the long branch goes through an otf_mvau, the short branch skips it     *)
(* through a width converter, an otf_add joins them and a second converter *)
(* narrows the sum.  Every edge behind the fork carries a FIFO of the      *)
(* depth the token analysis gives it (p5_schedule/streams.py:              *)
(* InsertDuplicates, InsertWidthConverters, InsertFifos).  One step is one *)
(* clock edge of the whole design.                                         *)
(*                                                                         *)
(*               +-> long -> otf_mvau -> out ----+                         *)
(*  input -> dup |                               +-> add -> sum -> unpack  *)
(*               +-> skip -> pack -> wide -------+                         *)
(*                                                                         *)
(* A word is <<run, k>>, the k-th since the run-th clear, so that words    *)
(* with equal payloads are told apart.                                     *)
(***************************************************************************)
EXTENDS Integers, Sequences, TokenAnalysis

CONSTANTS SF, NF,       (* folds of the matrix-vector unit *)
          BlockRam,     (* its weights in block RAM: results a cycle later *)
          Frames,       (* bound: frames (of one vector) sent after each clear *)
          MaxClears,    (* bound: clears of a behaviour *)
          Unwritten     (* a register or memory word before it is written *)

\* The converters work at an integer ratio (otf_dwc.ml refuses any other).
FoldAssumption == /\ SF \in Nat \ {0} /\ NF \in Nat \ {0}
                  /\ SF > NF /\ SF % NF = 0

Ratio == SF \div NF     (* words of one result *)

VARIABLES run,          (* clears so far *)
          accepted,     (* words the fork has let go of, this run *)
          offering,     (* the host's valid was high and not answered *)
          depth,        (* the depths the compiler chose; fixed *)
          queues,       (* the five FIFOs, by edge *)
          sent,         (* otf_dup: the branches that already hold the beat on offer *)
          sf, nf, act_buf, issued, stage, acc, out_valid, out_data,
          full, fill, segments,
          loaded, slot, holding,
          delivered     (* slices handed to the consumer, this run *)

mvau == <<sf, nf, act_buf, issued, stage, acc, out_valid, out_data>>
dwc  == <<full, fill, segments, loaded, slot, holding>>
blockVars == <<run, accepted, offering, depth, queues, sent, mvau, dwc, delivered>>

Branches == {"long", "skip"}
Edges    == {"long", "out", "skip", "wide", "sum"}

Mvau == INSTANCE OtfMvau
Dwc  == INSTANCE OtfDwc

-----------------------------------------------------------------------------
(* hardware/hardcaml/src/otf_dup.ml: one stream handed to several          *)
(* branches.  A beat leaves upstream once every branch has taken it; the   *)
(* branches that took it early are remembered in `sent`.                   *)

DupMValid(valid, branch) == valid /\ ~sent[branch]

DupSReady(ready) == \A branch \in Branches : sent[branch] \/ ready[branch]

\* The register is enabled by the upstream valid, and relies on that valid
\* staying high until the beat moves (rule 1 of docs/hardware/streams.md).
DupClock(valid, ready) ==
  sent' = IF ~valid THEN sent
          ELSE [branch \in Branches |->
                  ~DupSReady(ready) /\ (sent[branch] \/ ready[branch])]

DupClear == sent' = [branch \in Branches |-> FALSE]

-----------------------------------------------------------------------------
(* The schedules of hardware_ops.py for one frame, and the FIFO depths     *)
(* they lead to.  The stream enters at one element per beat.               *)

EachCycle(beats)      == [k \in 1 .. beats |-> k - 1]
EachNth(beats, n)     == [k \in 1 .. beats |-> (k - 1) * n]
LastOfEach(beats, n)  == [k \in 1 .. beats |-> k * n - 1]
MvauWrites            == [k \in 1 .. NF |-> k * SF - 1 + (IF BlockRam THEN 1 ELSE 0)]

Block == << [ins |-> <<"input">>,       reads  |-> <<EachCycle(SF)>>,
             outs |-> <<"long", "skip">>, writes |-> <<EachCycle(SF), EachCycle(SF)>>],
            [ins |-> <<"long">>,        reads  |-> <<EachCycle(SF)>>,
             outs |-> <<"out">>,        writes |-> <<MvauWrites>>],
            [ins |-> <<"skip">>,        reads  |-> <<EachCycle(SF)>>,
             outs |-> <<"wide">>,       writes |-> <<LastOfEach(NF, Ratio)>>],
            [ins |-> <<"out", "wide">>, reads  |-> <<EachCycle(NF), EachCycle(NF)>>,
             outs |-> <<"sum">>,        writes |-> <<EachCycle(NF)>>],
            [ins |-> <<"sum">>,         reads  |-> <<EachNth(NF, Ratio)>>,
             outs |-> <<"output">>,     writes |-> <<EachCycle(SF)>>] >>

\* InsertFifos.run, which has no cap outside its tests.
FifoDepth == [edge \in Edges |->
                DepthFor(Block, [input \in {"input"} |-> EachCycle(SF)], edge)]

-----------------------------------------------------------------------------

Total   == Frames * SF
Word(k) == <<run, k>>

\* One FIFO of the block, as the queue otf_fifo.ml implements.
CanPush(edge) == Len(queues[edge]) # depth[edge]
CanPop(edge)  == queues[edge] # << >>
HeadOf(edge)  == IF CanPop(edge) THEN Head(queues[edge]) ELSE Unwritten
Clocked(edge, valid, data, ready) ==
  (IF CanPop(edge) /\ ready THEN Tail(queues[edge]) ELSE queues[edge])
    \o (IF valid /\ CanPush(edge) THEN <<data>> ELSE << >>)

\* Combinational signals.  otf_add takes both operands together or neither.
Valid(fresh) == offering \/ (fresh /\ accepted < Total)
DupReady     == [branch \in Branches |-> CanPush(branch)]
Both         == CanPop("out") /\ CanPop("wide")
Taken        == Both /\ CanPush("sum")
Sum          == [left |-> HeadOf("out"), right |-> HeadOf("wide")]

BlockInit == /\ run = 0 /\ accepted = 0 /\ delivered = 0
             /\ offering = FALSE
             /\ depth = FifoDepth
             /\ queues = [edge \in Edges |-> << >>]
             /\ sent = [branch \in Branches |-> FALSE]
             /\ Mvau!Init /\ Dwc!Init

\* One clock edge.  `fresh`: the host has its next word; `ready`: the
\* consumer of the block takes a slice.
Tick(fresh, ready) ==
  LET valid == Valid(fresh)
      data  == IF valid THEN Word(accepted + 1) ELSE Unwritten
  IN  /\ DupClock(valid, DupReady)
      /\ Mvau!Clock(FALSE, CanPop("long"), HeadOf("long"), CanPush("out"))
      /\ Dwc!PackClock(CanPop("skip"), HeadOf("skip"), CanPush("wide"))
      /\ Dwc!UnpackClock(CanPop("sum"), HeadOf("sum"), ready)
      /\ queues' = [edge \in Edges |->
           CASE edge = "long" -> Clocked("long", DupMValid(valid, "long"), data,
                                         Mvau!SReady(CanPush("out")))
             [] edge = "skip" -> Clocked("skip", DupMValid(valid, "skip"), data,
                                         Dwc!PackReady)
             [] edge = "out"  -> Clocked("out", out_valid, out_data, Taken)
             [] edge = "wide" -> Clocked("wide", full, segments, Taken)
             [] edge = "sum"  -> Clocked("sum", Both, Sum, Dwc!UnpackReady)]
      /\ accepted' = IF valid /\ DupSReady(DupReady) THEN accepted + 1 ELSE accepted
      /\ offering' = (valid /\ ~DupSReady(DupReady))
      /\ delivered' = IF loaded /\ ready THEN delivered + 1 ELSE delivered
      /\ UNCHANGED <<run, depth>>

\* The synchronous clear of every unit while words may be in flight; the host
\* then starts again (top.ml from rst_n, uart_top.ml from a line break).
ClearAll == /\ run < MaxClears
            /\ run' = run + 1
            /\ accepted' = 0 /\ delivered' = 0 /\ offering' = FALSE
            /\ queues' = [edge \in Edges |-> << >>]
            /\ UNCHANGED depth
            /\ DupClear /\ Dwc!PackClear /\ Dwc!UnpackClear
            /\ Mvau!Clock(TRUE, CanPop("long"), HeadOf("long"), CanPush("out"))

BlockNext == \/ \E fresh, ready \in BOOLEAN : Tick(fresh, ready)
             \/ ClearAll

\* The clock keeps ticking, and the host has its next word and the consumer a
\* free place in the end: weak fairness of the edge on which both are willing.
BlockSpec == BlockInit /\ [][BlockNext]_blockVars /\ WF_blockVars(Tick(TRUE, TRUE))

-----------------------------------------------------------------------------
(* What the block computes.                                                *)

\* The words that make up the k-th wide beat; the vector of the k-th result,
\* and that result.
WideWord(k) == [i \in 0 .. Ratio - 1 |-> Word((k - 1) * Ratio + i + 1)]
VectorOf(k) == [i \in 1 .. SF |-> Word(((k - 1) \div NF) * SF + i)]
ResultOf(k) == Mvau!Result(VectorOf(k), (k - 1) % NF)

\* What leaves the block is, slice by slice, the words in the order the host
\* sent them, each beside the result of its own position (otf_dwc.ml unpack).
DeliveredInOrder ==
  loaded => LET k == (delivered \div Ratio) + 1
            IN  /\ holding = [left |-> ResultOf(k), right |-> WideWord(k)]
                /\ slot = delivered % Ratio

\* The depths of the token analysis are enough: neither branch ever starves
\* the other for good, and every word of the last run comes out
\* (docs/hardware/streams.md: "or the design deadlocks").
EveryWordDelivered == <>[](delivered = Total)

=============================================================================
