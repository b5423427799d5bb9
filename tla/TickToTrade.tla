---------------------------- MODULE TickToTrade -----------------------------
(***************************************************************************)
(* hardware/hardcaml/src/tick_to_trade.ml behind the order book: features, *)
(* a fixed latency design, and the decision, with the prices of the book   *)
(* beat carried beside the model.  Nothing can be held back; what belongs  *)
(* together must meet by the count of registers alone, whatever beats are  *)
(* under way and whenever a clear comes.                                   *)
(*                                                                         *)
(* The order book is the environment: a beat of the set Beats, never on    *)
(* two edges running (OrderBook: events are two cycles apart), and a bus   *)
(* that holds something all the same when its valid bit is low.  The model *)
(* is what FixedTop promises: its answer ModelLatency edges later.         *)
(***************************************************************************)
EXTENDS Integers, Sequences, FiniteSetsExt

(* hardware/hardcaml/src/features.ml: a book beat becomes four signed      *)
(* bytes in three register stages, and the prices the decision will need   *)
(* travel beside them.  Only the valid bits are cleared: what a register   *)
(* holds while its valid bit is low is nobody's business.                  *)

CONSTANTS Levels,                    (* levels of a side in a book beat *)
          ShareBits,                 (* width of a level's shares (32) *)
          PriceWords,                (* values of a price's word (2^32) *)
          SpreadShift, FlowShift     (* Config.spread_shift, flow_shift *)

ASSUME FeaturesAssumption ==
  /\ Levels \in Nat \ {0} /\ ShareBits \in Nat \ {0} /\ PriceWords \in Nat \ {0}
  /\ SpreadShift \in Nat /\ FlowShift \in Nat

VARIABLES fvalid,   (* the beat's valid bit, newest first *)
          context,  (* what the decision will need, newest first *)
          stage1,   (* spread, flow, tops and depths *)
          stage2,   (* spread, flow, and the nibbles that index the table *)
          vector    (* the four features *)

features == <<fvalid, context, stage1, stage2, vector>>

FeaturesLatency == 3

Shifted(pipeline, first) == <<first>> \o SubSeq(pipeline, 1, Len(pipeline) - 1)
Taps(count, value) == [k \in 1 .. count |-> value]

DepthBits == ShareBits + Cardinality({k \in 0 .. Levels : 2 ^ k < Levels})

-----------------------------------------------------------------------------

\* A gap that does not fit, or a side without a level, reads as the most.
Spread(bid, ask) ==
  LET gap == ((ask.price - bid.price) % PriceWords) \div 2 ^ SpreadShift
  IN  IF bid.shares # 0 /\ ask.shares # 0 /\ gap < 127 THEN gap ELSE 127

Flow(flow) ==
  LET shifted == flow \div 2 ^ FlowShift
  IN  IF shifted > 127 THEN 127 ELSE IF shifted < -127 THEN -127 ELSE shifted

Depth(side) == MapThenSumSet(LAMBDA l : side[l].shares, 1 .. Levels) % 2 ^ DepthBits

LeadingZeros(value, bits) == Cardinality({k \in 0 .. bits - 1 : value < 2 ^ k})

\* Both counts shifted right until the larger has four bits.
Normalized(bid, ask, bits) ==
  LET zeros == LeadingZeros(IF bid > ask THEN bid ELSE ask, bits)
      shift == IF zeros >= bits - 4 THEN 0 ELSE bits - 4 - zeros
      Top(value) == (value \div 2 ^ shift) % 16
  IN  <<Top(bid), Top(ask)>>

Abs(n) == IF n < 0 THEN -n ELSE n

\* The table's entry for two nibbles: 127 times their imbalance, rounded.
Imbalance(bid, ask) ==
  IF bid + ask = 0 THEN 0
  ELSE LET n == 127 * (bid - ask)
           q == (2 * Abs(n) + bid + ask) \div (2 * (bid + ask))
       IN  IF n < 0 THEN -q ELSE q

-----------------------------------------------------------------------------

Context(beat) ==
  LET bid == beat.bids[1]
      ask == beat.asks[1]
  IN  [symbol |-> beat.symbol, bid |-> bid.price, has_bid |-> bid.shares # 0,
       ask |-> ask.price, has_ask |-> ask.shares # 0]

Stage1(beat) ==
  [spread |-> Spread(beat.bids[1], beat.asks[1]), flow |-> Flow(beat.flow),
   top_bid |-> beat.bids[1].shares, top_ask |-> beat.asks[1].shares,
   depth_bid |-> Depth(beat.bids), depth_ask |-> Depth(beat.asks)]

Stage2(s) == [spread |-> s.spread, flow |-> s.flow,
              top |-> Normalized(s.top_bid, s.top_ask, ShareBits),
              depth |-> Normalized(s.depth_bid, s.depth_ask, DepthBits)]

Stage3(s) == [spread |-> s.spread, top |-> Imbalance(s.top[1], s.top[2]),
              depth |-> Imbalance(s.depth[1], s.depth[2]), flow |-> s.flow]

\* One clock edge on which the order book shows `beat`.
FeaturesClock(beat, clear) ==
  /\ fvalid' = IF clear THEN Taps(FeaturesLatency, FALSE) ELSE Shifted(fvalid, beat.valid)
  /\ context' = Shifted(context, Context(beat))
  /\ stage1' = Stage1(beat)
  /\ stage2' = Stage2(stage1)
  /\ vector' = Stage3(stage2)

FeaturesInit(beat) ==
  /\ fvalid = Taps(FeaturesLatency, FALSE)
  /\ context = Taps(FeaturesLatency, Context(beat))
  /\ stage1 = Stage1(beat) /\ stage2 = Stage2(stage1) /\ vector = Stage3(stage2)

-----------------------------------------------------------------------------
(* hardware/hardcaml/src/decision.ml: a threshold on the prediction, and   *)
(* the order it sends, numbered by a token.  An order is abstracted to     *)
(* what its bytes say that is not the same in every order.                 *)

CONSTANTS BuyThreshold, SellThreshold,  (* Config.buy_threshold, sell_threshold *)
          TokenWords                    (* values of the token's word (2^32) *)

ASSUME DecisionAssumption == /\ BuyThreshold \in Int /\ SellThreshold \in Int
                             /\ SellThreshold < BuyThreshold
                             /\ TokenWords \in Nat \ {0}

VARIABLES token,     (* the orders so far *)
          decision   (* the registered outputs *)

Buy(valid, prediction, quote) ==
  valid /\ quote.has_ask /\ prediction >= BuyThreshold

Sell(valid, prediction, quote) ==
  valid /\ quote.has_bid /\ prediction <= SellThreshold

NextToken == (token + 1) % TokenWords

\* One clock edge on which the model shows `prediction`.  The token and the valid
\* bits are cleared; the rest is loaded as ever.
DecisionClock(valid, prediction, quote, clear) ==
  LET buy  == Buy(valid, prediction, quote)
      sell == Sell(valid, prediction, quote)
  IN  /\ token' = IF clear THEN 0 ELSE IF buy \/ sell THEN NextToken ELSE token
      /\ decision' = [valid |-> valid /\ ~clear, order_valid |-> (buy \/ sell) /\ ~clear,
                      action |-> IF buy THEN "Buy" ELSE IF sell THEN "Sell" ELSE "Hold",
                      order |-> [token |-> NextToken, sell |-> sell,
                                 price |-> IF buy THEN quote.ask ELSE quote.bid,
                                 symbol |-> quote.symbol]]

DecisionInit(quote) ==
  /\ token = 0
  /\ decision = [valid |-> FALSE, order_valid |-> FALSE, action |-> "Hold",
                 order |-> [token |-> 0, sell |-> FALSE, price |-> quote.bid,
                            symbol |-> quote.symbol]]

-----------------------------------------------------------------------------
CONSTANTS Beats,          (* what the book may show *)
          OnTheBus,       (* what its bus holds when it shows nothing *)
          ModelLatency,   (* Model.latency *)
          Model(_)        (* the design: features to a prediction *)

ASSUME TickToTradeAssumption == ModelLatency \in Nat \ {0}

VARIABLES mvalid, inside,   (* the model: valid bits, what it works on, newest first *)
          carried,          (* the context beside it, newest first *)
          due,              (* history: the decisions that must come, oldest first *)
          counted           (* history: the token of the software model *)

pipeline == <<features, mvalid, inside, carried, token, decision>>
vars     == <<pipeline, due, counted>>

Reference == INSTANCE DecisionReference WITH WidestCount <- ShareBits + Levels

Latency == FeaturesLatency + ModelLatency + 1

-----------------------------------------------------------------------------

ModelValid == mvalid[ModelLatency]
Prediction == Model(inside[ModelLatency])

\* Mutant of ContextNow: the context is one register ahead of the model.
ContextEarly == IF ModelLatency = 1 THEN context[FeaturesLatency]
                ELSE carried[ModelLatency - 1]

ContextNow == carried[ModelLatency]

ModelBits(clear) == IF clear THEN Taps(ModelLatency, FALSE)
                    ELSE Shifted(mvalid, fvalid[FeaturesLatency])

\* The software model's decision on a beat.
Wanted(beat) == [age |-> 1, action |-> Reference!Action(beat),
                 order |-> Reference!Order(beat, counted)]

Older(decisions) == [k \in DOMAIN decisions |-> [decisions[k] EXCEPT !.age = @ + 1]]
Delivered == due # << >> /\ Head(due).age = Latency

Expect(beat) ==
  LET rest == Older(IF Delivered THEN Tail(due) ELSE due)
  IN  /\ due' = IF beat.valid THEN Append(rest, Wanted(beat)) ELSE rest
      /\ counted' = IF beat.valid THEN Reference!TokenAfter(beat, counted) ELSE counted

Edge(beat, clear) ==
  /\ beat.valid => ~fvalid[1]
  /\ FeaturesClock(beat, clear)
  /\ mvalid' = ModelBits(clear)
  /\ inside' = Shifted(inside, vector)
  /\ carried' = Shifted(carried, context[FeaturesLatency])
  /\ DecisionClock(ModelValid, Prediction, ContextNow, clear)
  /\ IF clear THEN due' = << >> /\ counted' = 0 ELSE Expect(beat)

Bus == {[beat EXCEPT !.valid = TRUE] : beat \in Beats} \cup {OnTheBus}

\* Shares fit their words, and a side's sum the word that is made wide enough for
\* it; what the model makes of a beat's features is a number.
ASSUME BusAssumption ==
  \A beat \in Bus :
    /\ beat.valid \in BOOLEAN
    /\ {beat.bids[1].shares, beat.asks[1].shares} \subseteq 0 .. 2 ^ ShareBits - 1
    /\ {Reference!SharesOf(beat.bids), Reference!SharesOf(beat.asks)}
         \subseteq 0 .. 2 ^ DepthBits - 1
    /\ Model(Stage3(Stage2(Stage1(beat)))) \in Int

\* The law of powers: the provers have none.
ASSUME PowersOfTwo ==
  /\ 2 ^ 0 = 1
  /\ \A k \in 0 .. ShareBits + Levels : 2 ^ (k + 1) = 2 * 2 ^ k

Init == /\ FeaturesInit(OnTheBus)
        /\ mvalid = Taps(ModelLatency, FALSE) /\ inside = Taps(ModelLatency, vector)
        /\ carried = Taps(ModelLatency, Context(OnTheBus))
        /\ DecisionInit(Context(OnTheBus))
        /\ due = << >> /\ counted = 0

Next == \E beat \in Bus, clear \in BOOLEAN : Edge(beat, clear)

Spec == Init /\ [][Next]_vars

-----------------------------------------------------------------------------

\* A decision comes out exactly Latency edges after each book beat and at no
\* other time, none lost, doubled or left over from before a clear
\* (tick_to_trade.mli, "every decision exactly latency cycles after"), and it
\* is the software model's decision on that very beat: its prices and symbol,
\* its action, and a token that counts the orders since the clear without a
\* gap (trading/reference.py, Pipeline.decide).
DecidesAsReference ==
  /\ decision.valid <=> Delivered
  /\ Delivered =>
    /\ decision.action = Head(due).action
    /\ decision.order_valid = (Head(due).action # "Hold")
    /\ decision.order_valid => decision.order = Head(due).order

=============================================================================
