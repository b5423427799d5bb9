------------------------------ MODULE MCStreams -----------------------------
(***************************************************************************)
(* The streaming designs for TLC, one at a time: a FIFO, the residual      *)
(* block that has five of them, and the windowed layers in front of a      *)
(* producer and a consumer of their own.  The designs that are not chosen  *)
(* stay as they are when they are switched on.                             *)
(***************************************************************************)
EXTENDS OtfFifo, StreamForkJoin, WindowStream

VARIABLE design

-----------------------------------------------------------------------------
(* Small layers of every kind the compiler emits: kernels that reach down  *)
(* and across, strides that skip pixels and leave some unread, padding on  *)
(* every border, dilation, channel groups, several columns a beat, pools.  *)

\* h, w; kh, kw; sh, sw; dh, dw; pt, pl, pb, pr; cg, par.
Geometry(ifm, kernel, stride, dilation, pads, cg, par, pooled) ==
  [h |-> ifm[1], w |-> ifm[2], kh |-> kernel[1], kw |-> kernel[2],
   sh |-> stride[1], sw |-> stride[2], dh |-> dilation[1], dw |-> dilation[2],
   pt |-> pads[1], pl |-> pads[2], pb |-> pads[3], pr |-> pads[4],
   cg |-> cg, par |-> par, pooled |-> pooled]

None == <<0, 0, 0, 0>>
Same == <<1, 1, 1, 1>>

Layers == {
  \* One window's reach, the way back to the next row, leftover pixels.
  Geometry(<<3, 3>>, <<2, 2>>, <<1, 1>>, <<1, 1>>, None, 1, 1, FALSE),
  Geometry(<<4, 3>>, <<2, 1>>, <<1, 1>>, <<1, 1>>, None, 1, 1, FALSE),
  Geometry(<<2, 4>>, <<1, 3>>, <<1, 1>>, <<1, 1>>, None, 1, 1, FALSE),
  Geometry(<<3, 3>>, <<2, 2>>, <<2, 2>>, <<1, 1>>, None, 1, 1, FALSE),
  Geometry(<<4, 4>>, <<1, 1>>, <<3, 2>>, <<1, 1>>, None, 1, 1, FALSE),
  Geometry(<<2, 2>>, <<2, 2>>, <<1, 1>>, <<1, 1>>, None, 1, 1, FALSE),
  Geometry(<<1, 3>>, <<1, 1>>, <<1, 1>>, <<1, 1>>, None, 2, 1, FALSE),
  \* Padding, on every border and on some.
  Geometry(<<2, 2>>, <<3, 3>>, <<1, 1>>, <<1, 1>>, Same, 1, 1, FALSE),
  Geometry(<<3, 3>>, <<2, 2>>, <<2, 2>>, <<1, 1>>, Same, 1, 1, FALSE),
  Geometry(<<2, 2>>, <<2, 2>>, <<1, 1>>, <<1, 1>>, <<2, 0, 0, 1>>, 1, 1, FALSE),
  Geometry(<<3, 2>>, <<2, 2>>, <<1, 1>>, <<1, 1>>, <<0, 2, 1, 0>>, 1, 1, FALSE),
  \* The next row begins above this window: the top row is read again.
  Geometry(<<4, 3>>, <<2, 1>>, <<1, 1>>, <<1, 1>>, <<1, 0, 0, 0>>, 1, 1, FALSE),
  \* Dilation.
  Geometry(<<3, 4>>, <<2, 2>>, <<1, 1>>, <<2, 2>>, None, 1, 1, FALSE),
  Geometry(<<3, 2>>, <<2, 2>>, <<1, 1>>, <<2, 1>>, <<1, 0, 1, 0>>, 1, 1, FALSE),
  \* Channel groups, and columns side by side.
  Geometry(<<2, 3>>, <<2, 2>>, <<1, 1>>, <<1, 1>>, None, 2, 1, FALSE),
  Geometry(<<2, 3>>, <<2, 2>>, <<1, 1>>, <<1, 1>>, Same, 1, 2, FALSE),
  Geometry(<<3, 3>>, <<2, 2>>, <<2, 2>>, <<1, 1>>, <<1, 1, 0, 0>>, 1, 2, FALSE),
  \* Pools.
  Geometry(<<2, 4>>, <<2, 2>>, <<2, 2>>, <<1, 1>>, None, 2, 1, TRUE),
  Geometry(<<3, 3>>, <<2, 2>>, <<1, 1>>, <<1, 1>>, None, 1, 1, TRUE) }

\* A 1x1 convolution with a border of padding: windows all of padding follow
\* the image's last pixel.
PaddedBeyond == {Geometry(<<2, 2>>, <<1, 1>>, <<1, 1>>, <<1, 1>>, Same, 1, 1, FALSE)}

-----------------------------------------------------------------------------

\* The residual block's fold is one the converters can work at, and the layers
\* are ones the theorem about them holds for.
ASSUME BlockAssumption  == FoldAssumption
ASSUME WindowAssumption == Geometries = Layers => LayersAssumption
\* Nothing but StaysInImage is wrong with the layer beyond it.
ASSUME BeyondAssumption == \A beyond \in PaddedBeyond : Sound(beyond) /\ ~StaysInImage(beyond)

FifoKeeps  == UNCHANGED vars
BlockKeeps == UNCHANGED blockVars
LayerKeeps == UNCHANGED layerVars

Idle == Elaborated(CHOOSE geometry \in Layers : TRUE)

StreamsInit == /\ design \in {"fifo", "block", "layer"}
               /\ Init /\ BlockInit /\ StreamInit
               /\ design # "layer" => unit = Idle

FifoSteps  == design = "fifo" /\ Next /\ BlockKeeps /\ LayerKeeps
BlockSteps == design = "block" /\ BlockNext /\ FifoKeeps /\ LayerKeeps
LayerSteps == design = "layer" /\ LayerNext /\ FifoKeeps /\ BlockKeeps

StreamsNext == (FifoSteps \/ BlockSteps \/ LayerSteps) /\ UNCHANGED design

all == <<design, vars, blockVars, layerVars>>

\* The fairness of the block and of the layer, where they are the design.
StreamsSpec == /\ StreamsInit /\ [][StreamsNext]_all
               /\ WF_blockVars(design = "block" /\ Tick(TRUE, TRUE))
               /\ WF_layerVars(design = "layer" /\ LayerTick(TRUE, TRUE))

-----------------------------------------------------------------------------

\* The block's FIFO depths are enough for every word to come out.
AllDelivered == design = "block" => EveryWordDelivered

\* A windowed layer's writer and reader never wait for one another for good.
LayerFlows == design = "layer" => KeepsFlowing

=============================================================================
