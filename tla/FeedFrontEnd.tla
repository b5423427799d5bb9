---------------------------- MODULE FeedFrontEnd ----------------------------
(***************************************************************************)
(* The framer and the parser of tick_to_trade.ml, fed by a stream of       *)
(* MoldUDP64 packets eight bytes a beat, with cycles between beats and     *)
(* clears.  Two packets, because the framer keeps its buffer from packet   *)
(* to packet, and because a clear in the middle of the first one leaves a  *)
(* rest without a header, after which the second must be framed as ever.   *)
(*                                                                         *)
(* A packet is [count, blocks, size]: the header's message count, the      *)
(* length fields and messages that follow it, and the bytes it really has, *)
(* fewer when it is cut short and more when something follows the blocks.  *)
(***************************************************************************)
EXTENDS Moldudp64, Sequences

CONSTANTS Locates,       \* the stock locates the parser tracks
          FirstPackets,  \* packets the stream may begin with
          Packets,       \* packets that may come last
          IdleBound      \* idle cycles and clears in all

\* Lengths and counts are 16 bits, and a UDP datagram's size is.
ASSUME PacketsAssumption ==
  \A p \in FirstPackets \cup Packets :
    /\ p.count \in 0 .. Word - 1 /\ p.size \in 1 .. Word - 1
    /\ Len(p.blocks) \in Nat
    /\ \A b \in 1 .. Len(p.blocks) : p.blocks[b].length \in 0 .. Word - 1

VARIABLES packet,   \* the packet on the wire
          final,      \* it is the last one
          beat,     \* the beat of this cycle, or <<>>
          at,       \* beats of the packet before this one
          now,
          idles, clears,
          torn,     \* history: a clear came after the packet's first beat
          event,    \* the parser's registered event
          times,    \* history: when each beat of the packet was taken
          ended,    \* history: the block the reference says ended in the last beat
          parsed    \* history: the block that ended in the beat before that

env == <<packet, final, beat, at, now, idles, clears, torn, times>>
feedVars == <<env, state, buffer, message, event, ended, parsed>>

Nothing == <<>>
Garbled == [block |-> Nothing, t_first |-> 0, t_last |-> 0]
NoTimes == [i \in {} |-> 0]

-----------------------------------------------------------------------------
(* itch_parser.ml: the event a message makes.  A byte's "of" says where it   *)
(* comes from: <<block, offset>>, so a field is the origins of its bytes.    *)

NoEvent == <<>>

Layout(type, length, kind, shares, price) ==
  [type |-> type, length |-> length, kind |-> kind, shares |-> shares, price |-> price]
Layouts == {Layout("A", 36, "Add", 20, 32), Layout("F", 40, "Add", 20, 32),
            Layout("E", 31, "Execute", 19, 0), Layout("C", 36, "Execute", 19, 0),
            Layout("X", 23, "Cancel", 19, 0), Layout("D", 19, "Delete", 0, 0),
            Layout("U", 35, "Replace", 27, 31)}

(* What a byte stands for; a byte of another offset may read as anything. *)
TypeAt(byte) ==
  IF byte.of # <<>> /\ byte.of[2] = 0 THEN byte.of[1].type ELSE "?"
LocateAt(high, low) ==
  IF /\ high.of # <<>> /\ low.of # <<>>
     /\ high.of[1] = low.of[1] /\ high.of[2] = 1 /\ low.of[2] = 2
    THEN high.of[1].locate ELSE "?"

FieldOf(bytes, offset, n) ==
  IF offset = 0 THEN <<>> ELSE [i \in 1 .. n |-> bytes[offset + i - 1].of]

MatchesType(framed) ==
  {l \in Layouts : l.type = TypeAt(framed.bytes[0])}
Matches(framed) ==
  {l \in Layouts : l.type = TypeAt(framed.bytes[0]) /\ l.length = framed.length}

(* The side is whether byte 19 is an S, so it is known by that byte.        *)
EventOf(framed, layout) ==
  [kind |-> layout.kind,
   symbol |-> LocateAt(framed.bytes[1], framed.bytes[2]),
   side |-> FieldOf(framed.bytes, 19, 1),
   order |-> FieldOf(framed.bytes, 11, 8),
   new_order |-> FieldOf(framed.bytes, 19, 8),
   shares |-> FieldOf(framed.bytes, layout.shares, 4),
   price |-> FieldOf(framed.bytes, layout.price, 4),
   t_first |-> framed.t_first, t_last |-> framed.t_last]

ParseAnyStock(framed) ==
  IF Matches(framed) # {}
    THEN EventOf(framed, CHOOSE l \in Matches(framed) : TRUE)
    ELSE NoEvent

Parse(framed) ==
  IF /\ Matches(framed) # {}
     /\ LocateAt(framed.bytes[1], framed.bytes[2]) \in Locates
    THEN EventOf(framed, CHOOSE l \in Matches(framed) : TRUE)
    ELSE NoEvent

-----------------------------------------------------------------------------
(* The bytes of a packet. *)

StartOf(p, b) ==  \* of the message of block b, after its length field
  LET start[c \in 1 .. Len(p.blocks) + 1] ==
        IF c = 1 THEN 22 ELSE start[c - 1] + p.blocks[c - 1].length + 2
  IN start[b]
EndOf(p, b) == StartOf(p, b) + p.blocks[b].length

ByteOf(p, i) ==
  LET fields == {b \in 1 .. Len(p.blocks) : i \in StartOf(p, b) - 2 .. StartOf(p, b) - 1}
      bodies == {b \in 1 .. Len(p.blocks) : i \in StartOf(p, b) .. EndOf(p, b) - 1}
      half(word, high) == IF high THEN word \div 256 ELSE word % 256
  IN IF i \in {18, 19} THEN [value |-> half(p.count, i = 18), of |-> <<>>]
     ELSE IF fields # {}
       THEN LET b == CHOOSE b \in fields : TRUE
            IN [value |-> half(p.blocks[b].length, i = StartOf(p, b) - 2), of |-> <<>>]
     ELSE IF bodies # {}
       THEN LET b == CHOOSE b \in bodies : TRUE
            IN [value |-> 255, of |-> <<p.blocks[b], i - StartOf(p, b)>>]
     ELSE [value |-> 255, of |-> <<>>]

BeatsOf(p) == (p.size + 7) \div 8
BeatOf(p, n) ==
  [lanes |-> [i \in Lanes |-> ByteOf(p, 8 * n + i)],
   keep |-> IF p.size - 8 * n < 8 THEN p.size - 8 * n ELSE 8,
   last |-> n = BeatsOf(p) - 1]

-----------------------------------------------------------------------------
(* frame() and parse() of trading/reference.py. *)

Count(p) == IF p.size < 20 \/ p.count = 65535 THEN 0 ELSE p.count
Framed(p) ==
  {b \in 1 .. Len(p.blocks) :
     \A c \in 1 .. b : /\ c <= Count(p)
                       /\ p.blocks[c].length >= MinLength
                       /\ EndOf(p, c) <= p.size}

EndingIn(p, n) == {b \in Framed(p) : (EndOf(p, b) - 1) \div 8 = n}

From(block, offset, n) ==
  IF offset = 0 THEN <<>> ELSE [i \in 1 .. n |-> <<block, offset + i - 1>>]

Tracked(block) ==
  /\ \E l \in Layouts : l.type = block.type /\ l.length = block.length
  /\ block.locate \in Locates
Expected(block, t_first, t_last) ==
  LET l == CHOOSE l \in Layouts : l.type = block.type /\ l.length = block.length
  IN [kind |-> l.kind, symbol |-> block.locate,
      side |-> From(block, 19, 1), order |-> From(block, 11, 8),
      new_order |-> IF l.kind = "Replace" THEN From(block, 19, 8) ELSE <<>>,
      shares |-> From(block, l.shares, 4), price |-> From(block, l.price, 4),
      t_first |-> t_first, t_last |-> t_last]

-----------------------------------------------------------------------------

(* Of the rest of a packet that lost its header the reference says nothing.  *)
Ends == IF beat = Nothing THEN Nothing
        ELSE IF torn THEN Garbled
        ELSE IF EndingIn(packet, at) = {} THEN Nothing
        ELSE LET b == CHOOSE b \in EndingIn(packet, at) : TRUE
             IN [block |-> packet.blocks[b], t_last |-> now,
                 t_first |-> IF StartOf(packet, b) \div 8 = at THEN now
                             ELSE times[StartOf(packet, b) \div 8]]

(* The clock edge: the framer takes the beat, the parser the message.       *)
FeedEdge ==
  /\ IF beat = Nothing THEN NoBeat ELSE Beat(beat, now)
  /\ event' = IF message = NoMessage THEN NoEvent ELSE Parse(message)
  /\ ended' = Ends
  /\ parsed' = ended
  /\ now' = (now + 1) % Times
  /\ UNCHANGED clears

(* A clear while the first packet streams; the bus does not heed it.        *)
Clear ==
  /\ ~final /\ idles + clears < IdleBound
  /\ ClearFramer
  /\ event' = NoEvent
  /\ now' = 0
  /\ ended' = Nothing /\ parsed' = Nothing
  /\ clears' = clears + 1

(* The beats taken after this cycle, and when each was taken. *)
Taken == IF beat = Nothing THEN at ELSE at + 1
Advance ==
  /\ Taken < BeatsOf(packet)
  /\ \/ FeedEdge /\ UNCHANGED torn
     \/ Clear /\ torn' = TRUE
  /\ at' = Taken
  /\ times' = [i \in 0 .. Taken - 1 |-> IF i = at THEN now ELSE times[i]]
  /\ UNCHANGED <<packet, final>>

(* The packet's next beat follows. *)
Follows == Advance /\ beat' = BeatOf(packet, Taken) /\ UNCHANGED idles

(* No beat in the next cycle. *)
Pauses ==
  idles + clears < IdleBound /\ Advance /\ beat' = Nothing /\ idles' = idles + 1

(* The packet is over and the last one begins in the next cycle. *)
NextPacket ==
  /\ ~final
  /\ beat # Nothing /\ beat.last
  /\ FeedEdge \/ Clear
  /\ \E p \in Packets : packet' = p /\ beat' = BeatOf(p, 0)
  /\ final' = TRUE /\ at' = 0 /\ times' = NoTimes /\ torn' = FALSE
  /\ UNCHANGED idles

(* The last packet is over; the pipeline drains. *)
Drains ==
  /\ final
  /\ \/ beat # Nothing /\ beat.last
     \/ beat = Nothing /\ at = BeatsOf(packet) /\ message # NoMessage
     \/ beat = Nothing /\ at = BeatsOf(packet) /\ event # NoEvent
  /\ FeedEdge
  /\ beat' = Nothing
  /\ at' = BeatsOf(packet)
  /\ UNCHANGED <<packet, final, idles, torn, times>>

FeedInit ==
  /\ FramerInit
  /\ packet \in FirstPackets /\ beat = BeatOf(packet, 0)
  /\ final = FALSE /\ at = 0 /\ now = 0 /\ idles = 0 /\ clears = 0 /\ torn = FALSE
  /\ event = NoEvent /\ times = NoTimes
  /\ ended = Nothing /\ parsed = Nothing

FeedNext == Follows \/ Pauses \/ NextPacket \/ Drains

FeedSpec == FeedInit /\ [][FeedNext]_feedVars

-----------------------------------------------------------------------------
(* Properties. *)

(* The beat at a time framer takes each beat as the byte at a time framer    *)
(* does, on every state a packet stream reaches, the rest of a packet that   *)
(* a clear cut off its header included.                                      *)
Serial == INSTANCE MoldSerial
MatchesSerial ==
  Serial!Init /\ [][clears' = clears => Serial!Take \/ Serial!Idle]_<<Serial!vars, clears>>

(* A message comes out one cycle after the beat with its last byte, with     *)
(* that block's own bytes and the times of its first and last beats: none    *)
(* is lost, doubled or cut from a neighbour, by a clear neither: the packet  *)
(* after one that a clear has torn is framed from its own first byte.        *)
MessagesAreFramed ==
  IF ended = Nothing THEN message = NoMessage
  ELSE \/ ended = Garbled
       \/ /\ message # NoMessage
          /\ message.length = ended.block.length
          /\ message.t_first = ended.t_first /\ message.t_last = ended.t_last
          /\ \A j \in 0 .. MessageBytes - 1 :
               j < message.length => message.bytes[j].of = <<ended.block, j>>

FieldsOf(kind) ==
  {"kind", "symbol", "order", "shares", "price", "t_first", "t_last"}
    \cup (IF kind = "Replace" THEN {"new_order"} ELSE {})
    \cup (IF kind # "Delete" THEN {"side"} ELSE {})

(* The events are what the software model parses from the framed messages:   *)
(* a message of a tracked type, length and stock, and nothing else.  Only a  *)
(* Replace has a new order, and a Delete ends before the byte of the side.   *)
EventsMatchReference ==
  IF parsed = Garbled THEN TRUE
  ELSE IF parsed # Nothing /\ Tracked(parsed.block)
    THEN /\ event # NoEvent
         /\ LET e == Expected(parsed.block, parsed.t_first, parsed.t_last)
            IN \A field \in FieldsOf(e.kind) : event[field] = e[field]
    ELSE event = NoEvent

(* Events are at least two cycles apart, which the order book's one pass of  *)
(* its memory ports takes for granted.                                       *)
EventsApart == [][event # NoEvent => event' = NoEvent]_feedVars

=============================================================================
