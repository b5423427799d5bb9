------------------------------- MODULE OtfDwc ------------------------------
(***************************************************************************)
(* hardware/hardcaml/src/otf_dwc.ml, the two converters of a beat's width. *)
(* `pack` collects Ratio narrow beats into one wide beat, the first        *)
(* lowest; while the wide beat waits the unit takes nothing.  `unpack`     *)
(* holds one wide beat and hands out its Ratio slices, lowest first; a     *)
(* beat is loaded only into an empty unit, so loading costs a cycle.       *)
(***************************************************************************)
EXTENDS Integers

CONSTANTS Ratio,       (* out_elems / in_elems of pack, the inverse of unpack's *)
          Unwritten

VARIABLES full, fill, segments,       (* pack *)
          loaded, slot, holding       (* unpack *)

Following(n) == (n + 1) % Ratio

PackReady == ~full

PackClock(valid, data, ready) ==
  LET take == valid /\ ~full
  IN  /\ fill' = IF take THEN Following(fill) ELSE fill
      /\ full' = IF full THEN ~ready ELSE take /\ fill = Ratio - 1
      /\ segments' = IF take THEN [segments EXCEPT ![fill] = data] ELSE segments

\* The data registers have no clear, only a gated enable.
PackClear == fill' = 0 /\ full' = FALSE /\ UNCHANGED segments

UnpackReady == ~loaded

UnpackClock(valid, data, ready) ==
  LET load == ~loaded /\ valid
      step == loaded /\ ready
  IN  /\ slot' = IF step THEN Following(slot) ELSE slot
      /\ loaded' = IF loaded THEN ~(step /\ slot = Ratio - 1) ELSE load
      /\ holding' = IF load THEN data ELSE holding

\* Mutant of UnpackClear: the slice counter has no clear.
ClearKeepsSlot == loaded' = FALSE /\ UNCHANGED <<slot, holding>>

UnpackClear == slot' = 0 /\ loaded' = FALSE /\ UNCHANGED holding

Init == /\ full = FALSE
        /\ fill = 0
        /\ segments = [k \in 0 .. Ratio - 1 |-> Unwritten]
        /\ loaded = FALSE
        /\ slot = 0
        /\ holding = Unwritten

=============================================================================
