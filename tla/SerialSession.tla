--------------------------- MODULE SerialSession ---------------------------
(***************************************************************************)
(* A host's serial session with a board: compiler/onnx2fpga/serial_link.py *)
(* on one side, hardware/hardcaml/src/uart_top.ml on the other.  The host  *)
(* keeps a window of frames in flight, for the board cannot hold the line; *)
(* a break clears what a run left half sent.                               *)
(*                                                                         *)
(* A byte is [call, frame, at]: which byte of which frame of which call of *)
(* `stream` it carries.  The accelerator (top.ml) is abstract: it takes a  *)
(* frame of beats and some time later answers with bytes that name them.   *)
(* The line between the two keeps order and loses nothing but what a host  *)
(* that dies had not sent.                                                 *)
(***************************************************************************)
EXTENDS UartBridge

CONSTANTS InBeats, OutBeats,  (* beats of a frame in, of a frame out *)
          Count,              (* frames of one call *)
          Reuses              (* the caller goes on with a session that raised *)

ASSUME SessionAssumption == {InBeats, OutBeats, Count} \subseteq Nat \ {0}

VARIABLES words, computed, given,  (* the accelerator: beats it holds; beats it has given *)
          shifting,                (* uart_tx: the byte on its way out, if any *)
          error,
          wire, inbox,             (* bytes the host has written; bytes it may read *)
          session,                 (* where the host is *)
          held_low,                (* in a break: the board has seen it *)
          call, sent, answers, read   (* stream: its call, sent, what it yielded, pending *)

accelerator == <<words, computed, given>>
board == <<bridge, accelerator, shifting, error>>
host  == <<session, held_low, call, sent, answers, read>>
sessionVars == <<board, wire, inbox, host>>

FrameIn  == InBytes * InBeats
FrameOut == OutBytes * OutBeats
Yielded  == Len(answers)

\* Link.window: as many frames as both buffers hold.
Window == LET rxs == RxDepth \div FrameIn
              txs == TxDepth \div FrameOut
          IN  IF rxs < txs THEN rxs ELSE txs

Frame(frame) == [k \in 1 .. FrameIn |-> [call |-> call, frame |-> frame, at |-> k]]

-----------------------------------------------------------------------------
(* The board.                                                              *)

\* It takes a beat of the frame it is at when it likes.
AccelTakes(accepts) == InValid /\ accepts /\ Len(words) < FrameIn
AccelValid == computed
AccelBeat  == [k \in 1 .. OutBytes |-> [of |-> words, at |-> given * OutBytes + k]]

Working(accepts, taken, computes) ==
  LET ends == taken /\ given = OutBeats - 1
  IN  /\ words' = IF AccelTakes(accepts) THEN words \o InBeat
                  ELSE IF ends THEN << >> ELSE words
      /\ given' = IF taken THEN (given + 1) % OutBeats ELSE given
      /\ computed' = IF computed THEN ~ends ELSE computes

\* Mutant of Accelerates: a break does not reach the accelerator.
AcceleratesOn(run_clear, accepts, taken, computes) ==
  Working(accepts, taken, computes)

Accelerates(run_clear, accepts, taken, computes) ==
  IF run_clear THEN words' = << >> /\ given' = 0 /\ computed' = FALSE
               ELSE Working(accepts, taken, computes)

TxReady(goes) == shifting = << >> \/ goes

\* One clock of the board: the first byte of the wire has arrived, or not; the
\* byte being shifted out has gone, or not; the accelerator takes the beat it is
\* offered, or not, and finishes the frame it holds, or not.
BoardClock(arrives, goes, accepts, computes) ==
  LET breaking == session = "breaking"
  IN  /\ arrives => wire # << >>
      /\ goes => shifting # << >>
      /\ accepts => AccelTakes(TRUE)
      /\ computes => Len(words) = FrameIn /\ ~computed
      /\ IF breaking THEN BridgeClear
         ELSE BridgeClock(arrives, IF arrives THEN Head(wire) ELSE NoByte,
                    AccelTakes(accepts), AccelValid, AccelBeat, TxReady(goes))
      /\ Accelerates(breaking, accepts, Load(AccelValid), computes)
      /\ error' = (~breaking /\ (error \/ Overflow(arrives)))
      \* uart_tx is outside the clear: the byte it has goes out whole.
      /\ shifting' = IF TxPop(TxReady(goes)) THEN <<Head(tx)>>
                     ELSE IF goes THEN << >> ELSE shifting
      /\ inbox' = IF goes THEN inbox \o shifting ELSE inbox
      /\ wire' = IF arrives THEN Tail(wire) ELSE wire
      /\ held_low' = breaking
      /\ UNCHANGED <<session, call, sent, answers, read>>

-----------------------------------------------------------------------------
(* The host.                                                               *)

BoardKeeps == UNCHANGED <<board, inbox>>

\* A new Session opens: from here the line is held low, until the board has seen
\* it and sent the byte it was sending (ten milliseconds, a few hundred bits).
Opens == /\ session = "closed" /\ wire = << >> /\ session' = "breaking"
         /\ read' = << >>
         /\ BoardKeeps /\ UNCHANGED <<wire, held_low, call, sent, answers>>

Unbreaks == /\ session = "breaking" /\ held_low /\ shifting = << >>
            /\ session' = "settling"
            /\ BoardKeeps /\ UNCHANGED <<wire, held_low, call, sent, answers, read>>

\* Mutant of Discarded: reset does not empty the host's input buffer.
Kept == inbox

\* reset_input_buffer.
Discarded == << >>

Settles == /\ session = "settling" /\ ~held_low /\ session' = "open"
           /\ inbox' = Discarded
           /\ UNCHANGED <<board, wire, held_low, call, sent, answers, read>>

\* stream begins; calls are told apart by their parity.
Calls == /\ session = "open" \/ (Reuses /\ session = "raised")
         /\ session' = "streaming" /\ call' = 1 - call
         /\ sent' = 0 /\ answers' = << >> /\ read' = << >>
         /\ BoardKeeps /\ UNCHANGED <<wire, held_low>>

\* Mutant of MaySend: one frame too many in flight.
MaySendOneMore == sent - Yielded <= Window

MaySend == sent - Yielded < Window

Sends == /\ session = "streaming" /\ sent < Count /\ MaySend
         /\ sent' = sent + 1
         /\ wire' = wire \o Frame(sent + 1)
         /\ BoardKeeps /\ UNCHANGED <<session, held_low, call, answers, read>>

\* The frames in what has been read.
Whole(bytes) == Len(bytes) \div FrameOut

\* What there is of the line is read, and every whole frame of it yielded.
Reads ==
  /\ session = "streaming" /\ inbox # << >>
  /\ LET bytes == read \o inbox
         left  == Count - Yielded
         count == IF Whole(bytes) < left THEN Whole(bytes) ELSE left
         yields == [k \in 1 .. count |->
                      SubSeq(bytes, (k - 1) * FrameOut + 1, k * FrameOut)]
     IN  /\ answers' = answers \o yields
         /\ read' = SubSeq(bytes, count * FrameOut + 1, Len(bytes))
         /\ session' = IF Yielded + count = Count THEN "open" ELSE "streaming"
  /\ inbox' = << >>
  /\ UNCHANGED <<board, wire, held_low, call, sent>>

\* LinkTimeout: the timeout is the caller's, and the board may yet answer.
TimesOut == /\ session = "streaming" /\ session' = "raised"
            /\ BoardKeeps /\ UNCHANGED <<wire, held_low, call, sent, answers, read>>

Closes == /\ session \in {"open", "raised"} /\ session' = "closed"
          /\ BoardKeeps /\ UNCHANGED <<wire, held_low, call, sent, answers, read>>

\* The host's process dies with part of what it wrote not sent.
Dies == /\ session \in {"streaming", "raised"} /\ session' = "closed"
        /\ \E left \in 0 .. Len(wire) : wire' = SubSeq(wire, 1, left)
        /\ BoardKeeps /\ UNCHANGED <<held_low, call, sent, answers, read>>

-----------------------------------------------------------------------------

SessionInit == /\ BridgeInit
               /\ words = << >> /\ computed = FALSE /\ given = 0
               /\ shifting = << >> /\ error = FALSE
               /\ wire = << >> /\ inbox = << >>
               /\ session = "closed" /\ held_low = FALSE
               /\ call = 0 /\ sent = 0 /\ answers = << >> /\ read = << >>

HostNext == \/ Opens \/ Unbreaks \/ Settles \/ Calls \/ Sends \/ Reads
            \/ TimesOut \/ Closes \/ Dies

SessionNext == \/ \E arrives, goes, accepts, computes \in BOOLEAN :
                    BoardClock(arrives, goes, accepts, computes)
               \/ HostNext

\* The clock ticks, the line carries its bytes both ways, the accelerator takes
\* and finishes its frames, and a host that streams sends and reads.
SessionFairness ==
  /\ WF_sessionVars(BoardClock(FALSE, FALSE, FALSE, FALSE))
  /\ WF_sessionVars(\E g, a, c \in BOOLEAN : BoardClock(TRUE, g, a, c))
  /\ WF_sessionVars(\E r, a, c \in BOOLEAN : BoardClock(r, TRUE, a, c))
  /\ WF_sessionVars(\E r, g, c \in BOOLEAN : BoardClock(r, g, TRUE, c))
  /\ WF_sessionVars(\E r, g, a \in BOOLEAN : BoardClock(r, g, a, TRUE))
  /\ WF_sessionVars(Sends) /\ WF_sessionVars(Reads)

SessionSpec == SessionInit /\ [][SessionNext]_sessionVars /\ SessionFairness

-----------------------------------------------------------------------------

\* However slow the accelerator and the line, the host's window keeps the
\* board's input buffer from being written while full (serial_link.py window,
\* "so neither buffer can overflow"; uart_bridge.ml overflow).
NeverOverflows == ~error

\* Every frame `stream` yields is the answer to its own input frame, whole and
\* in order, whatever earlier calls and hosts left half sent in the bridge, the
\* accelerator, the line and the host (serial_link.py reset, uart_top.ml
\* run_clear).
AnswersItsInputs ==
  \A k \in 1 .. Yielded :
    answers[k] = [b \in 1 .. FrameOut |-> [of |-> Frame(k), at |-> b]]

\* When a session has been reset, or a call of `stream` has ended, nothing of
\* it is left anywhere: no byte arrives after the last frame, as host.py
\* checks with `leftover`, and the next byte starts a frame.
NothingLeft ==
  session = "open" => /\ {wire, rx, words, tx, shifting, inbox, read} = {<< >>}
                      /\ filled = 0 /\ remaining = 0

\* A call of `stream` ends: the window is never so small, nor the two sides so
\* waiting for one another, that it stands still.
CallsEnd == session = "streaming" ~> session # "streaming"

=============================================================================
