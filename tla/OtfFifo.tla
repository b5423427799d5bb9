------------------------------ MODULE OtfFifo ------------------------------
(***************************************************************************)
(* hardware/hardcaml/src/otf_fifo.ml: a circular buffer with an            *)
(* asynchronously read memory, two wrapping pointers and a count.  One     *)
(* step is one clock edge.  The inputs are free on every edge; the word    *)
(* beside a low `valid` is ignored.                                        *)
(***************************************************************************)
EXTENDS Integers

CONSTANTS Beats,       (* the data words a beat may carry *)
          Depth,       (* Config.depth *)
          PowerUp    (* what a memory word holds before it is first written *)

ASSUME DepthAssumption == Depth \in Nat \ {0}
ASSUME PowerUpAssumption == PowerUp \notin Beats

VARIABLES mem, wptr, rptr, count

vars == <<mem, wptr, rptr, count>>

Slots == 0 .. Depth - 1

\* Mutant of SReady: full is noticed one beat late.
SReadyLate == count # Depth + 1

SReady == count # Depth
MValid == count # 0
MData  == mem[rptr]

\* mod_counter ~max:(depth - 1); with depth = 1 the pointer stays at zero.
Advance(ptr) == IF ptr = Depth - 1 THEN 0 ELSE ptr + 1

\* Mutant of Clock: a push and a pop on one edge count as a push.
ClockCountsPushFirst(valid, data, ready) ==
  LET push == valid /\ SReady
      pop  == MValid /\ ready
  IN  /\ wptr' = IF push THEN Advance(wptr) ELSE wptr
      /\ rptr' = IF pop THEN Advance(rptr) ELSE rptr
      /\ count' = IF push THEN count + 1 ELSE IF pop THEN count - 1 ELSE count
      /\ mem' = IF push THEN [mem EXCEPT ![wptr] = data] ELSE mem

Clock(valid, data, ready) ==
  LET push == valid /\ SReady
      pop  == MValid /\ ready
  IN  /\ wptr' = IF push THEN Advance(wptr) ELSE wptr
      /\ rptr' = IF pop THEN Advance(rptr) ELSE rptr
      /\ count' = IF push /\ ~pop THEN count + 1
                  ELSE IF pop /\ ~push THEN count - 1 ELSE count
      /\ mem' = IF push THEN [mem EXCEPT ![wptr] = data] ELSE mem

\* Mutant of Clear: the write pointer has no clear.
ClearKeepsWritePointer == /\ rptr' = 0
                          /\ count' = 0
                          /\ UNCHANGED <<mem, wptr>>

\* The synchronous clear resets the three registers; the write enable is
\* gated by it and the memory keeps its words.
Clear == /\ wptr' = 0
         /\ rptr' = 0
         /\ count' = 0
         /\ UNCHANGED mem

-----------------------------------------------------------------------------

Init == /\ mem = [slot \in Slots |-> PowerUp]
        /\ wptr = 0
        /\ rptr = 0
        /\ count = 0

Next == \/ \E valid, ready \in BOOLEAN, data \in Beats : Clock(valid, data, ready)
        \/ Clear

Spec == Init /\ [][Next]_vars

-----------------------------------------------------------------------------

\* Types of the registers: the pointers stay inside the memory and the count
\* within the depth, which the widths of the registers (ptr_bits, cnt_bits of
\* otf_fifo.ml) do not force when the depth is not a power of two.
TypeOK == /\ mem \in [Slots -> Beats \cup {PowerUp}]
          /\ wptr \in Slots
          /\ rptr \in Slots
          /\ count \in 0 .. Depth

\* The slot of the i-th beat held, counting from 0 at the read pointer.
Slot(i) == IF rptr + i < Depth THEN rptr + i ELSE rptr + i - Depth

\* The two pointers and the count agree: the write pointer is `count` slots
\* ahead of the read pointer, and every slot in between holds a beat that was
\* written, never the power-up content of the memory.  otf_fifo.ml keeps the
\* three in separate registers with separate enables.
PointersAgree == /\ wptr = IF rptr + count < Depth THEN rptr + count
                                                   ELSE rptr + count - Depth
                 /\ \A i \in 0 .. count - 1 : mem[Slot(i)] \in Beats

Held == [i \in 1 .. count |-> mem[Slot(i - 1)]]

Abstract == INSTANCE StreamQueue WITH queue <- Held

\* The circular buffer is a bounded first-in first-out queue: it never loses,
\* repeats, invents or reorders a beat, whatever the two sides do (otf_fifo.ml,
\* its whole create).
ImplementsQueue == Abstract!Spec

=============================================================================
