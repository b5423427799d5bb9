----------------------------- MODULE MoldSerial -----------------------------
(***************************************************************************)
(* The byte at a time MoldUDP64 framer of trading/formal.py, over the same *)
(* state as moldudp64.ml.                                                  *)
(***************************************************************************)
EXTENDS Integers

VARIABLES state, buffer, message,
          beat,  \* the beat of this cycle, or NoBeat
          now

vars == <<state, buffer, message, beat, now>>

NoBeat == <<>>
NoMessage == <<>>
Initial == [phase |-> "Header", skip |-> 20, length |-> 0, high |-> 0,
            count |-> 0, first |-> 0]
Counted(field) == IF field = 65535 THEN 0 ELSE field
AfterBlock(count) == IF count = 0 THEN "Drop" ELSE "Length"

(* What the walk over a beat carries from byte to byte. *)
Walk(s, buf, emit) == [state |-> s, buffer |-> buf, emit |-> emit]
State(phase, skip, length, high, count, first) ==
  [phase |-> phase, skip |-> skip, length |-> length, high |-> high,
   count |-> count, first |-> first]

HeaderByte(w, b) ==
  LET s == w.state
      high == IF s.skip = 2 THEN b.value ELSE s.high
      count == Counted(s.high * 256 + b.value)
  IN Walk(IF s.skip = 1
            THEN State(AfterBlock(count), 0, s.length, s.high, count, s.first)
            ELSE State("Header", s.skip - 1, s.length, high, s.count, s.first),
          w.buffer, w.emit)

LengthByte(w, b) ==
  LET s == w.state
  IN Walk(State("Length_low", s.skip, s.length, b.value, s.count, s.first), w.buffer, w.emit)

LowByte(w, b) ==
  LET s == w.state
      field == s.high * 256 + b.value
  IN Walk(IF field < 12 THEN State("Drop", s.skip, s.length, s.high, s.count, s.first)
          ELSE State("Body", field, field, s.high, s.count - 1, s.first),
          w.buffer, w.emit)

BodyByte(w, b) ==
  LET s == w.state
      off == s.length - s.skip
      filled == [j \in 0 .. 39 |-> IF j = off THEN b ELSE w.buffer[j]]
      first == IF off = 0 THEN now ELSE s.first
  IN Walk(State(IF s.skip = 1 THEN AfterBlock(s.count) ELSE "Body",
                s.skip - 1, s.length, s.high, s.count, first),
          filled,
          IF s.skip = 1 THEN [length |-> s.length, bytes |-> filled,
                              t_first |-> first, t_last |-> now]
          ELSE w.emit)

OneByte(w, b) ==
  CASE w.state.phase = "Header" -> HeaderByte(w, b)
    [] w.state.phase = "Length" -> LengthByte(w, b)
    [] w.state.phase = "Length_low" -> LowByte(w, b)
    [] w.state.phase = "Body" -> BodyByte(w, b)
    [] w.state.phase = "Drop" -> w

(* The walk after the bytes that are kept. *)
Walked ==
  LET after[i \in 0 .. beat.keep] ==
        IF i = 0 THEN Walk(state, buffer, NoMessage)
        ELSE OneByte(after[i - 1], beat.lanes[i - 1])
  IN after[beat.keep]

Take ==
  /\ beat # NoBeat
  /\ state' = IF beat.last THEN Initial ELSE Walked.state
  /\ buffer' = Walked.buffer
  /\ message' = Walked.emit

Idle == beat = NoBeat /\ message' = NoMessage /\ UNCHANGED <<state, buffer>>

Init == state = Initial /\ message = NoMessage

=============================================================================
