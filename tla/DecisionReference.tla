-------------------------- MODULE DecisionReference ------------------------
(***************************************************************************)
(* The last two steps of compiler/onnx2fpga/trading/reference.py: from a   *)
(* book snapshot to its features, and from those, through the model, to a  *)
(* decision.  Python's integers have no width.                             *)
(***************************************************************************)
EXTENDS Integers, FiniteSetsExt

CONSTANTS Levels, SpreadShift, FlowShift, PriceWords, BuyThreshold, SellThreshold,
          TokenWords, Model(_),
          WidestCount   (* bits enough for every count of shares *)

Magnitude(n)    == IF n < 0 THEN -n ELSE n
Smaller(a, b)   == IF a < b THEN a ELSE b
BitLength(n)    == Cardinality({k \in 0 .. WidestCount : 2 ^ k <= n})
ShiftedBy(n, k) == n \div 2 ^ k

RoundedRatio(bid, ask) ==
  LET n    == 127 * (bid - ask)
      half == bid + ask
      q    == (2 * Magnitude(n) + half) \div (2 * half)
  IN  CASE half = 0 -> 0 [] half # 0 /\ n < 0 -> -q [] OTHER -> q

NormalizedRatio(bid, ask) ==
  LET most  == IF bid < ask THEN ask ELSE bid
      shift == IF BitLength(most) > 4 THEN BitLength(most) - 4 ELSE 0
  IN  RoundedRatio(ShiftedBy(bid, shift), ShiftedBy(ask, shift))

SharesOf(levels) == MapThenSumSet(LAMBDA l : levels[l].shares, 1 .. Levels)

FeaturesOf(snapshot) ==
  LET bid   == snapshot.bids[1]
      ask   == snapshot.asks[1]
      trend == ShiftedBy(snapshot.flow, FlowShift)
  IN  [spread |-> IF bid.shares = 0 \/ ask.shares = 0 THEN 127
                  ELSE Smaller(ShiftedBy((ask.price - bid.price) % PriceWords, SpreadShift), 127),
       top    |-> NormalizedRatio(bid.shares, ask.shares),
       depth  |-> NormalizedRatio(SharesOf(snapshot.bids), SharesOf(snapshot.asks)),
       flow   |-> IF trend > 127 THEN 127 ELSE IF trend < -127 THEN -127 ELSE trend]

Action(snapshot) ==
  LET prediction == Model(FeaturesOf(snapshot))
  IN  IF prediction >= BuyThreshold /\ snapshot.asks[1].shares # 0 THEN "Buy"
      ELSE IF prediction <= SellThreshold /\ snapshot.bids[1].shares # 0 THEN "Sell"
      ELSE "Hold"

\* The token after the decision on `snapshot`, where it was `token`.
TokenAfter(snapshot, token) ==
  IF Action(snapshot) = "Hold" THEN token ELSE (token + 1) % TokenWords

Order(snapshot, token) ==
  [token |-> TokenAfter(snapshot, token), sell |-> Action(snapshot) = "Sell",
   price |-> IF Action(snapshot) = "Buy" THEN snapshot.asks[1].price
             ELSE snapshot.bids[1].price,
   symbol |-> snapshot.symbol]

=============================================================================
