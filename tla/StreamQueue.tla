---------------------------- MODULE StreamQueue ----------------------------
(***************************************************************************)
(* What a stream buffer promises: a bounded first-in first-out queue of    *)
(* beats between two handshakes.  One step is one clock edge, on which the *)
(* buffer may take a beat, give one, or do both.  OtfFifo is the circular  *)
(* buffer of hardware/hardcaml/src/otf_fifo.ml that implements it; the     *)
(* compositions use the queue in its place.                                *)
(***************************************************************************)
EXTENDS Naturals, Sequences

CONSTANTS Beats,   (* the data words a beat may carry *)
          Depth    (* beats the buffer holds *)

VARIABLE queue     (* the beats held, the oldest first *)

SReady == Len(queue) # Depth
MValid == queue # << >>

\* One clock edge: `valid` and `data` are offered upstream, `ready` is what
\* the consumer answers.  Full and empty are judged before the edge, so a
\* full buffer refuses even while it gives a beat away.
Clock(valid, data, ready) ==
  LET kept  == IF MValid /\ ready THEN Tail(queue) ELSE queue
      taken == IF valid /\ SReady THEN <<data>> ELSE << >>
  IN  queue' = kept \o taken

Clear == queue' = << >>

-----------------------------------------------------------------------------

Init == queue = << >>

Next == \/ \E valid, ready \in BOOLEAN, data \in Beats : Clock(valid, data, ready)
        \/ Clear

Spec == Init /\ [][Next]_queue

=============================================================================
