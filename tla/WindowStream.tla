---------------------------- MODULE WindowStream ----------------------------
(***************************************************************************)
(* Images stream through a sliding window unit and, in a pooling layer,    *)
(* through the pool behind it, between a producer that offers beats when   *)
(* it likes and a consumer that takes them when it likes.  One step is one *)
(* clock edge.  The producer's beats are named by the pixel of the stream  *)
(* they are of, modulo two images.                                         *)
(***************************************************************************)
EXTENDS OtfSwuLine

(* hardware/hardcaml/src/otf_pool.ml: the maximum over the windows of a    *)
(* sliding window unit, channel group by channel group.  It has no output  *)
(* register: during a window's last pass the beat that comes in is merged  *)
(* and handed on in the same cycle.  A maximum is the set of beats it is   *)
(* of.                                                                     *)

VARIABLES pool_nf, w, running_max

pool == <<pool_nf, w, running_max>>

LastPass(window) == w = window - 1

PoolSReady(window, ready) == LastPass(window) => ready
PoolMValid(window, valid) == valid /\ LastPass(window)

Merged(data) == IF w = 0 THEN {data} ELSE running_max[pool_nf] \cup {data}

PoolClock(folds, window, valid, data, ready) ==
  LET fire == valid /\ PoolSReady(window, ready)
  IN  /\ pool_nf' = IF fire THEN (pool_nf + 1) % folds ELSE pool_nf
      /\ w' = IF fire /\ pool_nf = folds - 1 THEN (w + 1) % window ELSE w
      /\ running_max' = IF fire /\ ~LastPass(window)
                        THEN [running_max EXCEPT ![pool_nf] = Merged(data)] ELSE running_max

PoolInit(folds) ==
  pool_nf = 0 /\ w = 0 /\ running_max = [f \in 0 .. folds - 1 |-> {NoPixel}]

PoolClear ==
  pool_nf' = 0 /\ w' = 0 /\ running_max' = [f \in DOMAIN running_max |-> {NoPixel}]

-----------------------------------------------------------------------------
CONSTANT Geometries   (* the layers that are checked *)

\* A layer the compiler can ask a unit for, and whose image and buffer the
\* counters' sign bits can tell apart.
Sound(c) ==
  /\ {c.h, c.w, c.kh, c.kw, c.sh, c.sw, c.dh, c.dw, c.cg, c.par} \subseteq Nat \ {0}
  /\ {c.pt, c.pl, c.pb, c.pr} \subseteq Nat
  /\ OfmH(c) > 0 /\ OfmW(c) > 0
  /\ c.kw % c.par = 0
  /\ c.pooled \in BOOLEAN /\ (c.pooled => c.par = 1)
  /\ 2 * c.h * c.w < Words
  /\ BufferDepth(c) \in Nat \ {0} /\ 2 * BufferDepth(c) < Words
  /\ Words % BufferDepth(c) = 0

\* No window begins below the image's last pixel: the padding at the bottom
\* and on the right is within the kernel's reach.  The compiler does not ask
\* for this; beyond it, the windows below hold the writer back no longer.
StaysInImage(c) ==
  AtLeastZero((OfmH(c) - 1) * c.sh - c.pt) * c.w + WayBack(c) <= c.h * c.w

LayersAssumption ==
  /\ Words \in Nat \ {0} /\ Words % 2 = 0
  /\ \A c \in Geometries : Sound(c) /\ StaysInImage(c)

VARIABLES offered,    (* beats the unit has taken, modulo two images *)
          taken       (* beats the consumer has taken, modulo two images *)

layerVars == <<swu, pool, offered, taken>>

Image     == g.h * g.w * g.cg
Window    == g.kh * g.kw
Windows   == unit.ofm_h * unit.ofm_w
Outputs   == Windows * g.cg * (IF g.pooled THEN 1 ELSE Window \div g.par)
Beat(n)   == [pixel |-> n \div g.cg, cg |-> n % g.cg]

\* The consumer's side of the window unit: the pool, or the layer behind.
SwuReady(ready) == IF g.pooled THEN PoolSReady(Window, ready) ELSE ready
OutValid        == IF g.pooled THEN PoolMValid(Window, ovalid) ELSE ovalid

StreamInit == /\ unit \in {Elaborated(layer) : layer \in Geometries}
              /\ SwuInit /\ PoolInit(g.cg)
              /\ offered = 0 /\ taken = 0

\* One edge: the producer offers its next beat or not, the consumer is ready or not.
LayerTick(valid, ready) ==
  /\ SwuClock(valid, Beat(offered), SwuReady(ready))
  /\ IF g.pooled THEN PoolClock(g.cg, Window, ovalid, odata[1], ready)
                 ELSE UNCHANGED pool
  /\ offered' = IF valid /\ CanWrite THEN (offered + 1) % (2 * Image) ELSE offered
  /\ taken' = IF OutValid /\ ready THEN (taken + 1) % (2 * Outputs) ELSE taken

\* The stream begins anew on both sides.
Restart == SwuClear /\ PoolClear /\ offered' = 0 /\ taken' = 0

LayerNext == (\E valid, ready \in BOOLEAN : LayerTick(valid, ready)) \/ Restart

\* The producer has another image, and the consumer takes what is there.
Fairness == WF_layerVars(LayerTick(TRUE, TRUE))

LayerSpec == StreamInit /\ [][LayerNext]_layerVars /\ Fairness

-----------------------------------------------------------------------------
(* Im2Col.apply: the windows of one image, and the order their elements    *)
(* are flattened in.                                                       *)

\* The element of a window at output (y, x) and kernel place (ky, kx): the
\* pixel of the padded image, in the image-th of the two images.
Element(image, y, x, ky, kx, cg) ==
  LET row == y * g.sh + ky * g.dh - g.pt
      col == x * g.sw + kx * g.dw - g.pl
  IN  IF row \in 0 .. g.h - 1 /\ col \in 0 .. g.w - 1
      THEN [pixel |-> image * g.h * g.w + row * g.w + col, cg |-> cg] ELSE Pad

\* The n-th window in the stream's order: its image, row and column.
ImageOf(n) == n \div Windows
YOf(n)     == (n % Windows) \div unit.ofm_w
XOf(n)     == (n % Windows) % unit.ofm_w

\* The n-th beat of an unpooled layer, par kernel columns of one window.
WindowBeat(n) ==
  LET beats == g.cg * (Window \div g.par)
      k     == (n % beats) \div g.cg
      at    == n \div beats
  IN  [j \in 1 .. g.par |->
         Element(ImageOf(at), YOf(at), XOf(at),
                 (k * g.par) \div g.kw, ((k * g.par) % g.kw) + j - 1, n % g.cg)]

\* The n-th beat of a pooling layer: what the maximum is taken of.
PoolBeat(n) ==
  LET at == n \div g.cg
  IN  {Element(ImageOf(at), YOf(at), XOf(at), ky, kx, n % g.cg) :
         ky \in 0 .. g.kh - 1, kx \in 0 .. g.kw - 1}

-----------------------------------------------------------------------------

\* Every beat the consumer is offered is the one numpy's Im2Col has at its
\* place, image after image: no pixel is read before it is written or after
\* it is overwritten, the counters' wrap around the word and a clear at any
\* point included (otf_swu_line.ml can_write, not_yet_written, oldest).
WindowsInOrder ==
  OutValid => IF g.pooled THEN Merged(odata[1]) = PoolBeat(taken)
                          ELSE odata = WindowBeat(taken)

\* After the last clear, writer and reader never wait for one another for
\* good: the buffer's depth, which SlidingWindowUnit.buffer_pixels takes to be
\* enough, is.
KeepsFlowing == <>[][~Restart]_layerVars => []<><<taken' # taken>>_layerVars

=============================================================================
