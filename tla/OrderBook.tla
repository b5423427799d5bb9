----------------------------- MODULE OrderBook -----------------------------
(***************************************************************************)
(* hardware/hardcaml/src/order_book.ml: the order table and the price      *)
(* levels of every symbol.  An event reads both ports of the table in the  *)
(* cycle it arrives; in the next cycle the levels update and the ports     *)
(* write back; the cycle after shows the book.  A clear keeps the table's  *)
(* contents, so a sweep empties it slot by slot before events count.       *)
(*                                                                         *)
(* The environment is the framer and the parser: events of the set Events, *)
(* never in two cycles running, and a clear at any time.                   *)
(***************************************************************************)
EXTENDS BookSide, FiniteSets

CONSTANTS Symbols,    \* the tracked symbols
          SlotCount,  \* slots of the order table (2^order_bits)
          Tags,       \* values of the other bits of an order reference
          FlowCap,    \* the most shares one execution adds to the flow (65535)
          FlowHalf,   \* half the values of the flow's register (2^19)
          Events,     \* events the parser makes
          PowerUp     \* what a slot of the memory may hold at power up

Slots == 0 .. SlotCount - 1
Kinds == {"Add", "Execute", "Cancel", "Delete", "Replace"}
Event == [kind : Kinds, symbol : Symbols, side : BOOLEAN, order : Nat,
          new_order : Nat, shares : 0 .. MaxShares, price : 0 .. MaxPrice]
Entry == [live : BOOLEAN, tag : Tags, symbol : Symbols, side : BOOLEAN,
          price : 0 .. MaxPrice, shares : 0 .. MaxShares]

Empty == [live |-> FALSE, tag |-> CHOOSE t \in Tags : TRUE,
          symbol |-> CHOOSE s \in Symbols : TRUE, side |-> FALSE,
          price |-> 0, shares |-> 0]

ASSUME OrderBookAssumption ==
  /\ SlotCount \in Nat \ {0}
  /\ Tags \subseteq Nat /\ Tags # {}
  /\ Symbols # {}
  /\ FlowCap \in Nat /\ FlowHalf \in Nat
  /\ 8 * FlowCap < FlowHalf
  /\ Events \subseteq Event
  /\ \A e \in Events : e.order \div SlotCount \in Tags
                       /\ e.new_order \div SlotCount \in Tags
  /\ PowerUp \subseteq Entry /\ PowerUp # {}

VARIABLES sweep,    \* the slot the sweep empties; SlotCount once it is done
          current,  \* the event of the last cycle, or NoEvent
          table_a,  \* what port A read for it
          table_b,  \* what port B read for it
          memory,   \* the order table
          levels,   \* symbol -> ask -> the registered levels
          flow,     \* symbol -> the registered flow
          book,     \* the registered snapshot, or NoBook
          lost      \* history: symbol -> ask -> a level or shares were dropped

vars == <<sweep, current, table_a, table_b, memory, levels, flow, book, lost>>

NoEvent == [kind |-> "None"]
NoBook == <<>>

SlotOf(order) == order % SlotCount
TagOf(order) == order \div SlotCount

Ready == sweep = SlotCount
Valid == current # NoEvent
Is(kinds) == current.kind \in kinds

-----------------------------------------------------------------------------
(* The cycle after an event: what it does with the entries it read.         *)

SameSlot == SlotOf(current.order) = SlotOf(current.new_order)

Hit == /\ table_a.live
       /\ table_a.tag = TagOf(current.order)
       /\ table_a.symbol = current.symbol
ExecutedInFull == current.shares
Executed == IF current.shares < table_a.shares THEN current.shares
            ELSE table_a.shares
Reduces == Is({"Execute", "Cancel"})
Ask == IF Is({"Add"}) THEN current.side ELSE table_a.side

AddingAnyway == Is({"Add"})
Adding == Is({"Add"}) /\ ~table_a.live

ReplacingElsewhere == Is({"Replace"}) /\ Hit /\ ~table_b.live
Replacing == Is({"Replace"}) /\ Hit /\ (~table_b.live \/ SameSlot)

Removal == [valid |-> Hit /\ ~Is({"Add"}), price |-> table_a.price,
            shares |-> IF Reduces THEN Executed ELSE table_a.shares]
Insertion == [valid |-> Adding \/ Replacing, price |-> current.price,
              shares |-> current.shares]

OppositeBest == levels[current.symbol][~Ask][1]
Takes == Accepted(Ask, OppositeBest, Insertion)
UpdatedSide ==
  Updated(Ask, levels[current.symbol][Ask], OppositeBest, Removal, Insertion)

Remaining == table_a.shares - Executed
Added(order, side) ==
  [live |-> TRUE, tag |-> TagOf(order), symbol |-> current.symbol, side |-> side,
   price |-> current.price, shares |-> current.shares]

Stored == Is({"Add"}) /\ Takes
Changed == Hit /\ (Reduces \/ Is({"Delete"}))

Freed == Is({"Replace"}) /\ Hit /\ ~(SameSlot /\ Takes)

EntryA == IF Is({"Add"}) THEN Added(current.order, current.side)
          ELSE IF Reduces /\ Remaining # 0
            THEN [table_a EXCEPT !.shares = Remaining]
          ELSE Empty

WriteA == Valid /\ (Stored \/ Changed \/ Freed)
WriteB == Valid /\ Is({"Replace"}) /\ Takes

-----------------------------------------------------------------------------
(* Trade flow: a signed sum that loses an eighth of itself an execution.    *)

Wrapped(value) == ((value + FlowHalf) % (2 * FlowHalf)) - FlowHalf

CappedNever(shares) == shares
Capped(shares) == IF shares > FlowCap THEN FlowCap ELSE shares

FlowAfter(value, amount) == Wrapped(value - value \div 8 + amount)
Trades == Valid /\ Is({"Execute"}) /\ Hit
FlowNext ==
  FlowAfter(flow[current.symbol],
            IF table_a.side THEN Capped(Executed) ELSE -Capped(Executed))

-----------------------------------------------------------------------------
(* One clock edge.  A port that writes does not read: what it read then is  *)
(* its written word.  Outputs nobody uses are left out of the state.        *)

WritesA == WriteA \/ ~Ready
DataA == IF Ready THEN EntryA ELSE Empty
PlaceA == IF Ready THEN SlotOf(current.order) ELSE sweep

Memory == [s \in Slots |->
             IF WritesA /\ PlaceA = s THEN DataA
             ELSE IF WriteB /\ SlotOf(current.new_order) = s
               THEN Added(current.new_order, table_a.side)
             ELSE memory[s]]

ReadA(event) == IF WritesA THEN DataA ELSE memory[SlotOf(event.order)]
ReadB(event) == IF WriteB THEN Added(current.new_order, table_a.side)
                ELSE memory[SlotOf(event.new_order)]

Full(side) == Live(side[Levels])
Drops ==
  /\ Takes
  /\ LET side == Remove(levels[current.symbol][Ask], Removal)
     IN IF \E i \in Places : Matched(side, Insertion, i)
          THEN \E i \in Places : /\ Matched(side, Insertion, i)
                                 /\ side[i].shares + Insertion.shares > MaxShares
          ELSE Full(side)

Update ==
  /\ memory' = Memory
  /\ IF Valid
       THEN /\ levels' = [levels EXCEPT ![current.symbol][Ask] = UpdatedSide]
            /\ flow' = [flow EXCEPT ![current.symbol] = IF Trades THEN FlowNext ELSE @]
            /\ lost' = [lost EXCEPT ![current.symbol][Ask] = @ \/ Drops]
            /\ book' = [symbol |-> current.symbol,
                        bids |-> IF Ask THEN levels[current.symbol][FALSE]
                                 ELSE UpdatedSide,
                        asks |-> IF Ask THEN UpdatedSide
                                 ELSE levels[current.symbol][TRUE],
                        flow |-> IF Trades THEN FlowNext ELSE flow[current.symbol]]
       ELSE /\ UNCHANGED <<levels, flow, lost>>
            /\ book' = NoBook

NextSweepShort(s) == IF s >= SlotCount - 1 THEN SlotCount ELSE s + 2
NextSweep(s) == IF s = SlotCount THEN s ELSE s + 1

NoEventRead == current' = NoEvent /\ table_a' = Empty /\ table_b' = Empty

Quiet ==
  /\ Update
  /\ sweep' = NextSweep(sweep)
  /\ NoEventRead

(* An event while the sweep runs is dropped. *)
Arrive(event) ==
  /\ ~Valid
  /\ Update
  /\ sweep' = NextSweep(sweep)
  /\ IF Ready
       THEN current' = event /\ table_a' = ReadA(event) /\ table_b' = ReadB(event)
       ELSE NoEventRead

(* The clear of the registers; a write under way still reaches the memory.  *)
Clear ==
  /\ memory' = Memory
  /\ sweep' = 0
  /\ NoEventRead
  /\ levels' = [s \in Symbols |-> [ask \in BOOLEAN |-> EmptySide]]
  /\ flow' = [s \in Symbols |-> 0]
  /\ book' = NoBook
  /\ lost' = [s \in Symbols |-> [ask \in BOOLEAN |-> FALSE]]

Init ==
  /\ \E entry \in PowerUp : memory = [s \in Slots |-> entry]
  /\ sweep = 0
  /\ current = NoEvent /\ table_a = Empty /\ table_b = Empty
  /\ levels = [s \in Symbols |-> [ask \in BOOLEAN |-> EmptySide]]
  /\ flow = [s \in Symbols |-> 0]
  /\ book = NoBook
  /\ lost = [s \in Symbols |-> [ask \in BOOLEAN |-> FALSE]]

Next == Quiet \/ (\E event \in Events : Arrive(event)) \/ Clear

Spec == Init /\ [][Next]_vars

-----------------------------------------------------------------------------
(* Properties. *)

Snapshot == [symbol : Symbols, bids : Side, asks : Side, flow : Int]

(* Every register holds a value of its width: no level counts past its word  *)
(* (book_side.ml saturates), no reduction borrows below zero.                *)
TypeOK ==
  /\ sweep \in 0 .. SlotCount
  /\ current \in Events \cup {NoEvent}
  /\ table_a \in Entry /\ table_b \in Entry
  /\ memory \in [Slots -> Entry]
  /\ levels \in [Symbols -> [BOOLEAN -> Side]]
  /\ flow \in [Symbols -> Int]
  /\ book \in Snapshot \cup {NoBook}
  /\ lost \in [Symbols -> [BOOLEAN -> BOOLEAN]]

Uncrossed(bids, asks) ==
  Live(bids[1]) /\ Live(asks[1]) => bids[1].price < asks[1].price

(* The levels of a side are strictly best first with no empty place between  *)
(* them, and the best bid stays below the best ask, whatever was removed,    *)
(* inserted or replaced in whatever order.                                   *)
SidesSound ==
  \A s \in Symbols :
    /\ \A ask \in BOOLEAN : Sound(ask, levels[s][ask])
    /\ Uncrossed(levels[s][FALSE], levels[s][TRUE])

(* The trade flow stays within eight times the cap, so its register never    *)
(* wraps.                                                                    *)
FlowFits == \A s \in Symbols : flow[s] \in -(8 * FlowCap) .. 8 * FlowCap

SharesAt(side, price) ==
  IF \E i \in Places : Live(side[i]) /\ side[i].price = price
    THEN side[CHOOSE i \in Places : Live(side[i]) /\ side[i].price = price].shares
    ELSE 0

SharesOf(entry, s, ask, price) ==
  IF entry.live /\ entry.symbol = s /\ entry.side = ask /\ entry.price = price
    THEN entry.shares ELSE 0
Total(shares) ==
  LET sum[n \in 0 .. SlotCount] == IF n = 0 THEN 0 ELSE sum[n - 1] + shares[n - 1]
  IN sum[SlotCount]
Resting(entries, s, ask, price) ==
  Total([i \in Slots |-> SharesOf(entries[i], s, ask, price)])

(* The levels count only orders the table holds: no level shows more shares  *)
(* than the live orders at its price, so no order's shares are counted twice *)
(* or outlive it (docs/specs/007-tick-to-trade.md:93).                       *)
BackedByOrders ==
  Ready => \A s \in Symbols, ask \in BOOLEAN, price \in 0 .. MaxPrice :
             SharesAt(levels[s][ask], price) <= Resting(memory, s, ask, price)

(* Until a level is pushed off the end of a side or a level saturates, the   *)
(* levels are exactly the live orders added up price by price.               *)
ExactUntilLost ==
  Ready => \A s \in Symbols, ask \in BOOLEAN :
             lost[s][ask] \/ \A price \in 0 .. MaxPrice :
               SharesAt(levels[s][ask], price) = Resting(memory, s, ask, price)

-----------------------------------------------------------------------------
(* The software model: a side is the list of its levels, and the table      *)
(* holds an order in every slot that is live, under its whole reference.    *)

Depth(side) == Cardinality({i \in Places : Live(side[i])})
Listed(side) == [i \in 1 .. Depth(side) |-> side[i]]

OrderIn(entry, slot) ==
  [order |-> entry.tag * SlotCount + slot, symbol |-> entry.symbol,
   ask |-> entry.side, price |-> entry.price, shares |-> entry.shares]
Orders(entries) ==
  [s \in {i \in Slots : entries[i].live} |-> OrderIn(entries[s], s)]

Table == IF Ready THEN Orders(memory) ELSE <<>>
Sides == [s \in Symbols |-> [ask \in BOOLEAN |-> Listed(levels[s][ask])]]
Shown == IF book = NoBook THEN <<>>
         ELSE [symbol |-> book.symbol, bids |-> Listed(book.bids),
               asks |-> Listed(book.asks), flow |-> book.flow]

Reference == INSTANCE BookReference
  WITH event <- current, table <- Table, sides <- Sides, shown <- Shown

(* Cycle by cycle, the pipelined book with its dual port memory is the       *)
(* software model applying one event at a time.                              *)
ImplementsReference == Reference!Spec

=============================================================================
