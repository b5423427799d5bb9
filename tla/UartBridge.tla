---------------------------- MODULE UartBridge -----------------------------
(***************************************************************************)
(* hardware/hardcaml/src/uart_bridge.ml: bytes of the serial line into     *)
(* beats of the accelerator, least significant byte first, and its beats   *)
(* into bytes, with a byte buffer each way.  A beat is the sequence of its *)
(* bytes.  The buffers are the library's show-ahead Fifo, which drops a    *)
(* write while it is full.                                                 *)
(***************************************************************************)
EXTENDS Integers, Sequences

CONSTANTS InBytes, OutBytes,   (* bytes of a beat in, of a beat out *)
          RxDepth, TxDepth,    (* bytes the buffers hold *)
          NoByte               (* a data register after a clear *)

ASSUME BridgeAssumption == {InBytes, OutBytes, RxDepth, TxDepth} \subseteq Nat \ {0}

VARIABLES rx, filled, collected,   (* deserialise *)
          remaining, pending, tx   (* serialise *)

bridge == <<rx, filled, collected, remaining, pending, tx>>

Byte1(queue) == Head(queue)

RxHave   == rx # << >>
Last     == filled = InBytes - 1
Overflow(valid) == valid /\ Len(rx) = RxDepth

\* Mutant of RxTake: the last byte leaves the buffer whether or not its beat does.
TakenAnyway(ready) == RxHave

\* A byte moves to the collected ones, the last one only with its beat.
RxTake(ready) == RxHave /\ (~Last \/ ready)

\* The beat offered to the accelerator.
InValid == RxHave /\ Last
InBeat  == Append(collected, Byte1(rx))

Holding      == remaining # 0
OutReady     == ~Holding
Load(valid)  == valid /\ ~Holding
TxPush       == Holding /\ Len(tx) < TxDepth
TxPop(ready) == tx # << >> /\ ready

Shift(bytes, byte) == IF bytes = << >> THEN << >> ELSE Append(Tail(bytes), byte)

Written(queue, depth, wr, byte, rd) ==
  LET rest == IF rd THEN Tail(queue) ELSE queue
  IN  IF wr /\ Len(queue) < depth THEN Append(rest, byte) ELSE rest

\* The bytes of the beat that still go into the buffer.
Left(load) == IF load THEN OutBytes
              ELSE IF TxPush THEN remaining - 1 ELSE remaining

\* One clock edge: a byte of the line (`rx_valid`), the accelerator's input
\* handshake, its output beat and the transmitter's handshake.
BridgeClock(rx_valid, byte, in_ready, out_valid, beat, tx_ready) ==
  LET take == RxTake(in_ready)
      load == Load(out_valid)
  IN  /\ rx' = Written(rx, RxDepth, rx_valid, byte, take)
      /\ filled' = IF take THEN (IF Last THEN 0 ELSE filled + 1) ELSE filled
      /\ collected' = IF take /\ ~Last THEN Shift(collected, Byte1(rx)) ELSE collected
      /\ remaining' = Left(load)
      /\ pending' = IF load THEN beat
                    ELSE IF TxPush THEN Shift(pending, NoByte) ELSE pending
      /\ tx' = Written(tx, TxDepth, TxPush, Byte1(pending), TxPop(tx_ready))

NoBytes(count) == [k \in 1 .. count |-> NoByte]

BridgeClear == /\ rx' = << >> /\ filled' = 0 /\ collected' = NoBytes(InBytes - 1)
               /\ remaining' = 0 /\ pending' = NoBytes(OutBytes) /\ tx' = << >>

BridgeInit == /\ rx = << >> /\ filled = 0 /\ collected = NoBytes(InBytes - 1)
              /\ remaining = 0 /\ pending = NoBytes(OutBytes) /\ tx = << >>

=============================================================================
