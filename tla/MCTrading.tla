------------------------------ MODULE MCTrading -----------------------------
(***************************************************************************)
(* The two ends of the trading path for TLC, one at a time, with the order *)
(* book between them left out: the front end, fed packets, and the path    *)
(* from a book beat to a decision.  The end that is not chosen stays as it *)
(* is when it is switched on.                                              *)
(***************************************************************************)
EXTENDS TickToTrade, FeedFrontEnd

VARIABLE design

-----------------------------------------------------------------------------
(* Packets: every alignment of a message's end in a beat (lengths 12 to 19 *)
(* after the header), followed by messages of the shortest legal, the      *)
(* shortest tracked and an illegal length; counts that agree with the      *)
(* blocks, fall short of them, exceed them, are zero and end the session;  *)
(* packets cut at every byte, and bytes after the last block.              *)

B(type, length, locate) == [type |-> type, length |-> length, locate |-> locate]
D19 == B("D", 19, "BRVO")
Plain(length) == B(IF length = 19 THEN "D" ELSE "H", length, "BRVO")

Whole(blocks) ==
  20 + 2 * Len(blocks) + MapThenSumSet(LAMBDA b : blocks[b].length, 1 .. Len(blocks))
P(count, blocks, extra) ==
  [count |-> count, blocks |-> blocks, size |-> Whole(blocks) + extra]

Pairs == {<<Plain(a), Plain(b)>> : a \in 12 .. 19, b \in {11, 12, 19}}

SomePackets ==
  {P(c, blocks, extra) : c \in {1, 2, 3}, blocks \in Pairs, extra \in {0, 3}}
    \cup {P(c, <<D19, Plain(12)>>, 0) : c \in {0, 65535, 258}}
    \cup {p \in {P(2, <<Plain(a), D19>>, -cut) : a \in {12, 16, 19}, cut \in 1 .. 61} : p.size > 0}
    \cup {P(3, <<Plain(a), D19, D19>>, 0) : a \in 12 .. 19}
    \cup {P(2, <<D19, B("D", 12, "BRVO")>>, 0)}
    \cup {P(2, <<b, D19>>, 0) :
            b \in {B("X", 23, "CHRL"), B("X", 23, "ZZZZ"), B("D", 20, "BRVO"),
                   B("U", 35, "BRVO"), B("A", 36, "CHRL"), B("F", 40, "BRVO"),
                   B("E", 31, "BRVO"), B("H", 47, "BRVO"), B("H", 300, "BRVO")}}

FirstOne == P(1, <<D19>>, 0)
\* Of the last one a clear after the fifth beat leaves a rest whose first
\* bytes read as a header that promises blocks.
SomeFirst == {FirstOne, P(2, <<B("F", 40, "CHRL"), B("X", 23, "CHRL")>>, -5),
              P(2, <<B("A", 36, "CHRL"), B("X", 23, "CHRL")>>, 0)}

-----------------------------------------------------------------------------
(* Book beats: thick and thin sides, an empty one, a wide spread, flows    *)
(* beyond a byte, and shares enough for the sum of a side to need the bit  *)
(* its depth has more than a level.                                        *)

Level(price, shares) == [price |-> price, shares |-> shares]
NoLevel == Level(0, 0)

Show(symbol, bids, asks, flow) ==
  [valid |-> FALSE, symbol |-> symbol, bids |-> bids, asks |-> asks, flow |-> flow]

Thick == <<Level(20, 63), Level(18, 60)>>
Thin  == <<Level(23, 5), NoLevel>>
Mixed == <<Level(524, 17), Level(528, 63)>>
Far   == <<Level(900, 63), Level(901, 63)>>
Bare  == <<NoLevel, NoLevel>>

SomeBeats == {Show("BRVO", Thick, Thin, 300), Show("CHRL", Thick, Bare, 300),
              Show("BRVO", Bare, Far, -300),
              Show("CHRL", <<Level(22, 31), NoLevel>>, Mixed, -300)}

Idle == Show("BRVO", Thick, <<Level(21, 1), NoLevel>>, 300)

SellAt == -40

\* A model of three of the features: enough to buy, to sell and to hold.
Linear(v) == (v.top + v.depth + v.flow) \div 3

-----------------------------------------------------------------------------

TradingInit == /\ design \in {"front", "decision"}
               /\ Init /\ FeedInit
               /\ design = "decision" => packet = FirstOne

FrontSteps    == design = "front" /\ FeedNext /\ UNCHANGED vars
DecisionSteps == design = "decision" /\ Next /\ UNCHANGED feedVars

TradingNext == (FrontSteps \/ DecisionSteps) /\ UNCHANGED design

TradingSpec == TradingInit /\ [][TradingNext]_<<design, vars, feedVars>>

=============================================================================
