---------------------------- MODULE OtfSwuLine -----------------------------
(***************************************************************************)
(* hardware/hardcaml/src/otf_swu_line.ml: the sliding window unit with a   *)
(* line buffer.  Pixels are written into a circular buffer in raster order *)
(* while the windows of a convolution are read out of it, `par` adjacent   *)
(* kernel columns a beat, each from a copy of the buffer of its own.  The  *)
(* buffer holds one window's reach and the way back to the next row, and   *)
(* two counters of 32 bits keep writer and reader apart over all images.   *)
(*                                                                         *)
(* A geometry is the unit's Config: h and w of the image, kh and kw of the *)
(* kernel, its strides sh and sw, its dilations dh and dw, the padding at  *)
(* the four borders (top pt, left pl, bottom pb, right pr), cg channel     *)
(* groups and par columns a beat.                                          *)
(***************************************************************************)
EXTENDS Integers, Sequences

CONSTANTS Words,         (* 2^32 in the code, a smaller power of two here *)
          Pad,           (* what a window has beyond the image *)
          NoPixel        (* a memory word before it is written *)

VARIABLES unit,          (* the unit, fixed *)
          wr_cg, wr_pixel,
          rd,            (* rd_cg, kxg, ky, ow, oh, innermost first *)
          frame_base,
          buffer, ovalid, odata

swu == <<unit, wr_cg, wr_pixel, rd, frame_base, buffer, ovalid, odata>>

Larger(a, b)  == IF a > b THEN a ELSE b
AtLeastZero(x) == Larger(0, x)

\* Im2Col.output_extent.
OfmH(c) == (c.h + c.pt + c.pb - ((c.kh - 1) * c.dh + 1)) \div c.sh + 1
OfmW(c) == (c.w + c.pl + c.pr - ((c.kw - 1) * c.dw + 1)) \div c.sw + 1

\* Mutant of Span: the dilation is forgotten.
SpanUndilated(c) == (c.kh - 1) * c.w + c.kw

\* The pixels one window reaches across in raster order.
Span(c) == (c.kh - 1) * c.dh * c.w + (c.kw - 1) * c.dw + 1

\* How far the reader walks back when it wraps to the next row.
WayBack(c) == AtLeastZero((OfmW(c) - 1) * c.sw - c.pl)

Need(c) == Span(c) + WayBack(c) + 1

\* The power of two the buffer has in pixels.
BufferDepth(c) == LET large == {d \in {2^k : k \in 1 .. 30} : d >= Need(c)}
            IN  CHOOSE d \in large : \A e \in large : d <= e

\* The unit made for a layer: its sizes, once and for all.
Elaborated(c) ==
  [layer |-> c, depth |-> BufferDepth(c), ofm_h |-> OfmH(c), ofm_w |-> OfmW(c),
   counts |-> <<c.cg, c.kw \div c.par, c.kh, OfmW(c), OfmH(c)>>]

g == unit.layer

\* A difference of two counters, as the sign bit of a 32 bit word reads it.
Signed(x) == LET word == x % Words
             IN  IF word >= Words \div 2 THEN word - Words ELSE word

Row     == rd[5] * g.sh + rd[3] * g.dh - g.pt
Col(j)  == rd[4] * g.sw + (rd[2] * g.par + j) * g.dw - g.pl
InView(j) == Row \in 0 .. g.h - 1 /\ Col(j) \in 0 .. g.w - 1
Needed(j) == (frame_base + Row * g.w + Col(j)) % Words
Address(pixel, cg) == (pixel % unit.depth) * g.cg + cg

Copies == 0 .. g.par - 1
ReadOk == \A j \in Copies : InView(j) => Signed(Needed(j) - wr_pixel) < 0

\* The oldest pixel that a read of this window or a later one can reach.
OldestHere == frame_base + AtLeastZero(rd[5] * g.sh - g.pt) * g.w
                         + AtLeastZero(rd[4] * g.sw - g.pl)
OldestNext == frame_base + AtLeastZero((rd[5] + 1) * g.sh - g.pt) * g.w
                         + AtLeastZero(-g.pl)

\* Mutant of Oldest: the next row is not looked at.
OldestOfRow == OldestHere

Oldest == IF rd[5] # unit.ofm_h - 1 /\ Signed(OldestNext - OldestHere) < 0
          THEN OldestNext ELSE OldestHere

CanWrite       == Signed(wr_pixel - Oldest) < unit.depth
OutFree(ready) == ~ovalid \/ ready
Emit(ready)    == ReadOk /\ OutFree(ready)

\* Counter k moves when all inner ones are at their last value.
Steps(k) == \A j \in 1 .. k - 1 : rd[j] = unit.counts[j] - 1

Wrap(counter, count) == IF counter = count - 1 THEN 0 ELSE counter + 1

SwuClock(valid, data, ready) ==
  LET write == valid /\ CanWrite
      emit  == Emit(ready)
  IN  /\ wr_cg' = IF write THEN Wrap(wr_cg, g.cg) ELSE wr_cg
      /\ wr_pixel' = IF write /\ wr_cg = g.cg - 1 THEN (wr_pixel + 1) % Words ELSE wr_pixel
      /\ rd' = [k \in 1 .. 5 |-> IF emit /\ Steps(k) THEN Wrap(rd[k], unit.counts[k]) ELSE rd[k]]
      /\ frame_base' = IF emit /\ Steps(6) THEN (frame_base + g.h * g.w) % Words
                                           ELSE frame_base
      /\ buffer' = IF write THEN [buffer EXCEPT ![Address(wr_pixel, wr_cg)] = data] ELSE buffer
      /\ odata' = IF emit THEN [j \in 1 .. g.par |->
                                  IF InView(j - 1) THEN buffer[Address(Needed(j - 1), rd[1])]
                                                   ELSE Pad]
                          ELSE odata
      /\ ovalid' = (emit \/ (ovalid /\ ~ready))
      /\ UNCHANGED unit

SwuInit == /\ wr_cg = 0 /\ wr_pixel = 0
           /\ rd = [k \in 1 .. 5 |-> 0]
           /\ frame_base = 0
           /\ buffer = [a \in 0 .. unit.depth * g.cg - 1 |-> NoPixel]
           /\ ovalid = FALSE
           /\ odata = [j \in 1 .. g.par |-> NoPixel]

\* A clear resets the registers.  The memory keeps its words, which from then
\* on are no pixels of the stream, as those before the first write.
SwuClear == /\ wr_cg' = 0 /\ wr_pixel' = 0
            /\ rd' = [k \in 1 .. 5 |-> 0]
            /\ frame_base' = 0
            /\ buffer' = [a \in DOMAIN buffer |-> NoPixel]
            /\ ovalid' = FALSE
            /\ odata' = [j \in 1 .. g.par |-> NoPixel]
            /\ UNCHANGED unit

=============================================================================
