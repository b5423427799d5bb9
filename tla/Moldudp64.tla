----------------------------- MODULE Moldudp64 -----------------------------
(***************************************************************************)
(* hardware/hardcaml/src/moldudp64.ml: one beat of eight bytes at a time,  *)
(* all lanes at once, because a message of at least MinLength bytes lets a *)
(* beat end at most one message and begin at most one length field.  A     *)
(* byte is [value, of]: the number it reads as and where it comes from.    *)
(***************************************************************************)
EXTENDS Integers

CONSTANT Times  \* the clock's values: 0 .. Times - 1

HeaderBytes == 20
MinLength == 12
MessageBytes == 40
Lanes == 0 .. 7
Word == 65536
NoByte == [value |-> 0, of |-> <<>>]
NoMessage == <<>>

Phases == {"Header", "Length", "Length_low", "Body", "Drop"}
Initial == [phase |-> "Header", skip |-> HeaderBytes, length |-> 0, high |-> 0,
            count |-> 0, first |-> 0]
EmptyBuffer == [j \in 0 .. MessageBytes - 1 |-> NoByte]

VARIABLES state,    \* where in the packet the framer stands
          buffer,   \* the first bytes of the message under way
          message   \* the registered message, or NoMessage

-----------------------------------------------------------------------------
(* A beat is [lanes, keep, last]: eight bytes, how many of them are kept     *)
(* from the first, and whether it ends its packet.                          *)

Is(phase) == state.phase = phase
Counting == Is("Header") \/ Is("Body")
PrefixEnds == Counting /\ state.skip <= 8
Boundary == Counting /\ state.skip < 8
K == state.skip % 8

HeaderCount(beat) ==
  LET high == IF state.skip = 1 THEN state.high ELSE beat.lanes[(K - 2) % 8].value
      count == high * 256 + beat.lanes[(K - 1) % 8].value
  IN IF count = 65535 THEN 0 ELSE count
CountAfter(beat) == IF Is("Header") THEN HeaderCount(beat) ELSE state.count

(* Whether the high and the low byte of a length field are in this beat.    *)
HighHere(beat) == Is("Length") \/ (Boundary /\ CountAfter(beat) # 0)
HighLane == IF Is("Length") THEN 0 ELSE K
LowLane == IF Is("Length_low") THEN 0 ELSE HighLane + 1
LowHere(beat) == Is("Length_low") \/ (HighHere(beat) /\ LowLane < 8)
Field(beat) ==
  (IF Is("Length_low") THEN state.high ELSE beat.lanes[HighLane].value) * 256
    + beat.lanes[LowLane % 8].value

Start(beat) == LowHere(beat) /\ Field(beat) >= MinLength
BodyStarts(beat) == Start(beat) /\ LowLane <= 6

Base == (state.length - state.skip) % Word
CompleteUnkept(beat) == Is("Body") /\ PrefixEnds
Complete(beat) == Is("Body") /\ PrefixEnds /\ (state.skip - 1) % 8 < beat.keep

-----------------------------------------------------------------------------

(* The message so far: the bytes of this beat that belong to it, in place.  *)
MessageSoFar(beat) ==
  [j \in 0 .. MessageBytes - 1 |->
     LET offset == (j - Base) % Word
     IN IF Is("Body") /\ offset < 8 /\ offset < state.skip /\ offset < beat.keep
          THEN beat.lanes[offset] ELSE buffer[j]]

(* And the bytes of a message that starts in this beat, at most seven.      *)
BufferAfter(beat) ==
  LET soFar == MessageSoFar(beat)
  IN [j \in 0 .. MessageBytes - 1 |->
        LET lane == LowLane + j + 1
        IN IF j < 7 /\ Start(beat) /\ lane < 8 /\ lane < beat.keep
             THEN beat.lanes[lane] ELSE soFar[j]]

PhaseAfter(beat) ==
  IF Start(beat) THEN "Body"
  ELSE IF LowHere(beat) THEN "Drop"
  ELSE IF HighHere(beat) THEN "Length_low"
  ELSE IF PrefixEnds /\ CountAfter(beat) = 0 THEN "Drop"
  ELSE IF PrefixEnds /\ ~Boundary THEN "Length"
  ELSE state.phase

SkipAfter(beat) ==
  IF Start(beat) THEN Field(beat) + LowLane - 7
  ELSE IF PrefixEnds THEN 0
  ELSE IF Counting THEN state.skip - 8
  ELSE state.skip

HighAfter(beat) ==
  IF HighHere(beat) THEN beat.lanes[HighLane].value
  ELSE IF Is("Header") /\ state.skip \in 2 .. 9 THEN beat.lanes[(K - 2) % 8].value
  ELSE state.high

CountNext(beat) ==
  IF Start(beat) THEN CountAfter(beat) - 1
  ELSE IF Is("Header") /\ PrefixEnds THEN HeaderCount(beat)
  ELSE state.count

FirstInBeat(beat, now) == IF BodyStarts(beat) THEN now ELSE state.first

FirstAfter(beat, now) ==
  IF BodyStarts(beat) \/ (Is("Body") /\ Base = 0) THEN now ELSE state.first

StateAfter(beat, now) ==
  [phase |-> PhaseAfter(beat), skip |-> SkipAfter(beat),
   length |-> IF Start(beat) THEN Field(beat) ELSE state.length,
   high |-> HighAfter(beat), count |-> CountNext(beat),
   first |-> FirstAfter(beat, now)]

-----------------------------------------------------------------------------

(* A valid beat at the clock's value now. *)
Beat(beat, now) ==
  /\ state' = IF beat.last THEN Initial ELSE StateAfter(beat, now)
  /\ buffer' = BufferAfter(beat)
  /\ message' = IF Complete(beat)
                  THEN [length |-> state.length, bytes |-> MessageSoFar(beat),
                        t_first |-> state.first, t_last |-> now]
                  ELSE NoMessage

NoBeat == message' = NoMessage /\ UNCHANGED <<state, buffer>>

ClearFramer == state' = Initial /\ buffer' = EmptyBuffer /\ message' = NoMessage

FramerInit == state = Initial /\ buffer = EmptyBuffer /\ message = NoMessage

=============================================================================
