---------------------------- MODULE MCOrderBook ----------------------------
(***************************************************************************)
(* The order book on small tables of one and of two symbols.               *)
(***************************************************************************)
EXTENDS OrderBook

Symbol == CHOOSE s \in Symbols : TRUE
Prices == 1 .. MaxPrice
Sizes == 0 .. 2

E(kind, symbol, side, order, new_order, shares, price) ==
  [kind |-> kind, symbol |-> symbol, side |-> side, order |-> order,
   new_order |-> new_order, shares |-> shares, price |-> price]

(* One symbol: three orders on two slots, and no executions, which would     *)
(* only multiply the states by the values of the flow.                       *)
OneSymbol ==
  {E("Add", Symbol, side, o, 0, n, p) : side \in BOOLEAN, o \in 0 .. 2, n \in Sizes, p \in Prices}
    \cup {E("Cancel", Symbol, FALSE, o, 0, n, 0) : o \in 0 .. 2, n \in {1, 3}}
    \cup {E("Delete", Symbol, FALSE, o, 0, 0, 0) : o \in 0 .. 2}
    \cup {E("Replace", Symbol, FALSE, o, q, 2, p) : o \in 0 .. 2, q \in 0 .. 2, p \in Prices}

(* Two symbols whose orders share a slot of the table, and executions.       *)
TwoSymbols ==
  {E("Add", s, side, o, 0, 2, 1) : s \in Symbols, side \in BOOLEAN, o \in {0, SlotCount}}
    \cup {E("Execute", s, FALSE, o, 0, n, 0) : s \in Symbols, o \in {0, SlotCount}, n \in {1, 2}}
    \cup {E("Cancel", s, FALSE, o, 0, 1, 0) : s \in Symbols, o \in {0, SlotCount}}
    \cup {E("Replace", s, FALSE, o, SlotCount - o, 2, p) :
             s \in Symbols, o \in {0, SlotCount}, p \in {1, 2}}

AllEvents == OneSymbol \cup TwoSymbols

(* What the memory holds at power up: nothing, or an order nobody placed.    *)
SomePowerUp == {Empty, [live |-> TRUE, tag |-> 1, symbol |-> Symbol, side |-> TRUE,
                        price |-> 1, shares |-> 1]}

(* A behaviour meets the events of one market, so that neither multiplies    *)
(* the states of the other.                                                  *)
VARIABLE market
MCInit == Init /\ market \in {OneSymbol, TwoSymbols}
MCNext == /\ Quiet \/ (\E event \in market : Arrive(event)) \/ Clear
          /\ UNCHANGED market
MCSpec == MCInit /\ [][MCNext]_<<vars, market>>

=============================================================================
