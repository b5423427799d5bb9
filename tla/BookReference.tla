--------------------------- MODULE BookReference ---------------------------
(***************************************************************************)
(* The Book of compiler/onnx2fpga/trading/reference.py: the software model *)
(* the order book must match.  Orders live in a table with one order a     *)
(* slot; a side is a list of levels, best first, with no empty places.     *)
(***************************************************************************)
EXTENDS Integers, Sequences, FiniteSets, SequencesExt

CONSTANTS Symbols, Events, SlotCount, Levels, MaxShares, FlowHalf, FlowCap

VARIABLES event,  \* the event at the head of the messages, or NoEvent
          table,  \* slot -> the order it holds; slots without one are absent
          sides,  \* symbol -> ask -> levels, best first
          flow,   \* symbol -> signed trade flow
          shown   \* the snapshot the last event made, or none

vars == <<event, table, sides, flow, shown>>

NoEvent == [kind |-> "None"]
NoSnapshot == <<>>

Slot(order) == order % SlotCount
Better(ask, a, b) == IF ask THEN a < b ELSE a > b
Wrapped(value) == ((value + FlowHalf) % (2 * FlowHalf)) - FlowHalf
Lesser(a, b) == IF a < b THEN a ELSE b

-----------------------------------------------------------------------------

At(levels, price) == SelectInSeq(levels, LAMBDA level : level.price = price)

Removed(levels, price, shares) ==
  LET i == At(levels, price)
  IN IF i = 0 THEN levels
     ELSE IF shares >= levels[i].shares THEN RemoveAt(levels, i)
     ELSE [levels EXCEPT ![i].shares = @ - shares]

Takes(ask, price, shares, opposite) ==
  /\ shares # 0
  /\ opposite # <<>> =>
       IF ask THEN price > opposite[1].price ELSE price < opposite[1].price

Inserted(levels, ask, price, shares) ==
  LET i == At(levels, price)
      ahead == Cardinality({k \in DOMAIN levels : Better(ask, levels[k].price, price)})
      longer == InsertAt(levels, ahead + 1, [price |-> price, shares |-> shares])
  IN IF i # 0
       THEN [levels EXCEPT ![i].shares = Lesser(@ + shares, MaxShares)]
     ELSE SubSeq(longer, 1, Lesser(Len(longer), Levels))

Without(slot) == [s \in DOMAIN table \ {slot} |-> table[s]]
With(t, slot, entry) ==
  [s \in DOMAIN t \cup {slot} |-> IF s = slot THEN entry ELSE t[s]]

Held ==
  /\ Slot(event.order) \in DOMAIN table
  /\ LET entry == table[Slot(event.order)]
     IN entry.order = event.order /\ entry.symbol = event.symbol

Shows(symbol, newSides, newFlow) ==
  shown' = [symbol |-> symbol, bids |-> newSides[symbol][FALSE],
            asks |-> newSides[symbol][TRUE], flow |-> newFlow[symbol]]

-----------------------------------------------------------------------------
(* What one event does; apply() of the software model is their disjunction. *)

Ignored ==
  /\ UNCHANGED <<table, sides, flow>>
  /\ Shows(event.symbol, sides, flow)

Add ==
  LET side == event.side
      levels == sides[event.symbol]
  IN /\ event.kind = "Add"
     /\ IF /\ Slot(event.order) \notin DOMAIN table
           /\ Takes(side, event.price, event.shares, levels[~side])
          THEN /\ sides' = [sides EXCEPT ![event.symbol][side] =
                              Inserted(@, side, event.price, event.shares)]
               /\ table' = With(table, Slot(event.order),
                                [order |-> event.order, symbol |-> event.symbol,
                                 ask |-> side, price |-> event.price,
                                 shares |-> event.shares])
               /\ flow' = flow
               /\ Shows(event.symbol, sides', flow)
          ELSE Ignored

Traded(entry, executed) ==
  LET amount == Lesser(executed, FlowCap)
      now == flow[event.symbol]
  IN IF event.kind = "Execute"
       THEN [flow EXCEPT ![event.symbol] =
               Wrapped(now - now \div 8 + (IF entry.ask THEN amount ELSE -amount))]
       ELSE flow

Reduce ==
  LET entry == table[Slot(event.order)]
      executed == Lesser(event.shares, entry.shares)
  IN /\ event.kind \in {"Execute", "Cancel"}
     /\ Held
     /\ sides' = [sides EXCEPT ![event.symbol][entry.ask] =
                    Removed(@, entry.price, executed)]
     /\ table' = IF entry.shares > executed
                   THEN [table EXCEPT ![Slot(event.order)].shares = @ - executed]
                   ELSE Without(Slot(event.order))
     /\ flow' = Traded(entry, executed)
     /\ Shows(event.symbol, sides', flow')

DeleteOrReplace ==
  LET entry == table[Slot(event.order)]
      rest == Without(Slot(event.order))
      slot == Slot(event.new_order)
      levels == sides[event.symbol]
      left == Removed(levels[entry.ask], entry.price, entry.shares)
      moved == /\ event.kind = "Replace"
               /\ slot \notin DOMAIN rest
               /\ Takes(entry.ask, event.price, event.shares, levels[~entry.ask])
  IN /\ event.kind \in {"Delete", "Replace"}
     /\ Held
     /\ sides' = [sides EXCEPT ![event.symbol][entry.ask] =
                    IF moved THEN Inserted(left, entry.ask, event.price, event.shares)
                    ELSE left]
     /\ table' = IF moved
                   THEN With(rest, slot, [entry EXCEPT !.order = event.new_order,
                                                       !.price = event.price,
                                                       !.shares = event.shares])
                   ELSE rest
     /\ flow' = flow
     /\ Shows(event.symbol, sides', flow)

Misses ==
  event.kind # "Add" /\ ~Held /\ Ignored

Apply ==
  /\ event # NoEvent
  /\ Add \/ Reduce \/ DeleteOrReplace \/ Misses

Idle == event = NoEvent /\ shown' = NoSnapshot /\ UNCHANGED <<table, sides, flow>>

Init ==
  /\ event = NoEvent
  /\ table = <<>>
  /\ sides = [s \in Symbols |-> [ask \in BOOLEAN |-> <<>>]]
  /\ flow = [s \in Symbols |-> 0]
  /\ shown = NoSnapshot

Step == (Apply \/ Idle) /\ event' \in Events \cup {NoEvent}

Reset ==
  /\ event' = NoEvent
  /\ table' = <<>>
  /\ sides' = [s \in Symbols |-> [ask \in BOOLEAN |-> <<>>]]
  /\ flow' = [s \in Symbols |-> 0]
  /\ shown' = NoSnapshot

Next == Step \/ Reset

Spec == Init /\ [][Next]_vars

=============================================================================
