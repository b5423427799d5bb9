-------------------------- MODULE OrderBook_proofs --------------------------
(***************************************************************************)
(* The invariants of the order book, for every number of symbols, levels,  *)
(* slots and tags, and for every set of events; that it implements the     *)
(* software model of BookReference; and that its levels add up the orders  *)
(* of its table.                                                           *)
(***************************************************************************)
EXTENDS OrderBook, Sequences, FiniteSetTheorems, WellFoundedInduction, TLAPS

(* What one update of a side preserves, for every number of levels: the    *)
(* lemmas behind the order book's invariants (trading/formal.py proves the *)
(* same of the generated Verilog for the configured number of levels).     *)

-----------------------------------------------------------------------------

(* Better is a strict total order of the prices, on either side.            *)
LEMMA BetterOrder ==
  ASSUME NEW ask \in BOOLEAN
  PROVE  /\ \A a \in Int : ~Better(ask, a, a)
         /\ \A a, b, c \in Int : Better(ask, a, b) /\ Better(ask, b, c) => Better(ask, a, c)
         /\ \A a, b \in Int : a # b => Better(ask, a, b) \/ Better(ask, b, a)
<1>1. CASE ask = TRUE  BY <1>1 DEF Better
<1>2. CASE ask = FALSE  BY <1>2 DEF Better
<1> QED  BY <1>1, <1>2

(* The first place is a place, and so is the one behind any but the last.   *)
LEMMA PlacesFacts ==
  /\ Levels \in Nat /\ Levels >= 1
  /\ 1 \in Places
  /\ Places \subseteq Int
  /\ \A i \in Places : i # Levels => i + 1 \in Places
  /\ \A i \in Places : i # 1 => i - 1 \in Places
  /\ \A i \in Places : \A j \in 1 .. i : j \in Places
BY BookSideAssumption DEF Places

(* The empty level fits its word.                                           *)
LEMMA EmptyLevelType == EmptyLevel \in Level /\ ~Live(EmptyLevel)
BY BookSideAssumption DEF EmptyLevel, Level, Live

-----------------------------------------------------------------------------
(* Removing shares.                                                         *)

(* A side after a removal still fits its registers.                         *)
LEMMA RemoveType ==
  ASSUME NEW side \in Side, NEW change \in Change
  PROVE  Remove(side, change) \in Side
<1>1. SUFFICES ASSUME NEW i \in Places PROVE Remove(side, change)[i] \in Level
  BY DEF Remove, Side
<1>2. side[i] \in Level /\ EmptyLevel \in Level  BY EmptyLevelType DEF Side
<1>3. i # Levels => side[i + 1] \in Level  BY PlacesFacts DEF Side
<1>4. ASSUME Found(side, change, i), ~Emptied(side, change, i)
      PROVE [side[i] EXCEPT !.shares = @ - change.shares] \in Level
  BY <1>2, <1>4, BookSideAssumption DEF Level, Found, Emptied, Change
<1>5. Found(side, change, i) /\ ~Emptied(side, change, i) =>
        [side[i] EXCEPT !.shares = @ - change.shares] \in Level
  BY <1>4
<1>6. Emptied(side, change, i) => \E j \in 1 .. i : Emptied(side, change, j)
  BY DEF Places
<1> QED  BY <1>2, <1>3, <1>5, <1>6 DEF Remove

(* Of two live places of a sound side, no two hold the same price.          *)
LEMMA FoundOnce ==
  ASSUME NEW ask \in BOOLEAN, NEW side \in Side, NEW change \in Change,
         Sound(ask, side), NEW i \in Places, NEW j \in Places,
         Live(side[i]), Live(side[j]), side[i].price = side[j].price
  PROVE  i = j
<1>1. side[i].price \in Int /\ side[j].price \in Int
  BY BookSideAssumption DEF Side, Level
<1>2. ~(i < j)  BY <1>1, BetterOrder DEF Sound, BestFirst
<1>3. ~(j < i)  BY <1>1, BetterOrder DEF Sound, BestFirst
<1> QED  BY <1>2, <1>3, PlacesFacts

(* What a removal leaves at each place: when it empties the level at e, the *)
(* places from e on hold their successors; otherwise every place keeps its  *)
(* price and stays live or empty.                                           *)
LEMMA RemoveEmptied ==
  ASSUME NEW ask \in BOOLEAN, NEW side \in Side, NEW change \in Change,
         Sound(ask, side), NEW e \in Places, Emptied(side, change, e)
  PROVE  \A i \in Places :
           Remove(side, change)[i] = IF i < e THEN side[i]
                                     ELSE IF i = Levels THEN EmptyLevel
                                     ELSE side[i + 1]
<1>1. SUFFICES ASSUME NEW i \in Places
               PROVE Remove(side, change)[i] = IF i < e THEN side[i]
                                               ELSE IF i = Levels THEN EmptyLevel
                                               ELSE side[i + 1]
  OBVIOUS
<1>2. \A j \in Places : Found(side, change, j) => j = e
  BY FoundOnce DEF Found, Emptied
<1>3. \A j \in Places : Emptied(side, change, j) => j = e
  BY <1>2 DEF Emptied
<1>4. CASE i < e
  <2>1. ~ \E j \in 1 .. i : Emptied(side, change, j)
    BY <1>3, <1>4, PlacesFacts
  <2>2. ~Found(side, change, i)  BY <1>2, <1>4, PlacesFacts
  <2> QED  BY <2>1, <2>2, <1>4 DEF Remove
<1>5. CASE ~(i < e)
  <2>1. e \in 1 .. i  BY <1>5 DEF Places
  <2> QED  BY <2>1, <1>5 DEF Remove
<1> QED  BY <1>4, <1>5

(* What a removal leaves in force was in force before, at the same price.  *)
LEMMA RemoveKept ==
  ASSUME NEW side \in Side, NEW change \in Change,
         ~ \E e \in Places : Emptied(side, change, e), NEW i \in Places
  PROVE  /\ Remove(side, change)[i].price = side[i].price
         /\ Live(Remove(side, change)[i]) <=> Live(side[i])
         /\ ~Live(side[i]) => Remove(side, change)[i] = side[i]
<1>1. Remove(side, change)[i] = IF Found(side, change, i)
                                  THEN [side[i] EXCEPT !.shares = @ - change.shares]
                                  ELSE side[i]
  BY PlacesFacts DEF Remove
<1>2. side[i] \in Level  BY DEF Side
<1>3. ASSUME Found(side, change, i)
      PROVE side[i].shares - change.shares # 0 /\ Live(side[i])
  BY <1>2, <1>3, BookSideAssumption DEF Found, Emptied, Change, Level
<1> QED  BY <1>1, <1>2, <1>3 DEF Live, Level

(* A removal keeps a side sorted and without gaps, and its best no better.  *)
LEMMA RemoveSound ==
  ASSUME NEW ask \in BOOLEAN, NEW side \in Side, NEW change \in Change,
         Sound(ask, side)
  PROVE  /\ Sound(ask, Remove(side, change))
         /\ Live(Remove(side, change)[1]) =>
              /\ Live(side[1])
              /\ ~Better(ask, Remove(side, change)[1].price, side[1].price)
<1> DEFINE r == Remove(side, change)
<1>0. \A i \in Places : side[i].price \in Int
  BY BookSideAssumption DEF Side, Level
<1>1. CASE \E e \in Places : Emptied(side, change, e)
  <2>1. PICK e \in Places : Emptied(side, change, e)  BY <1>1
  <2>2. \A i \in Places : r[i] = IF i < e THEN side[i]
                                 ELSE IF i = Levels THEN EmptyLevel
                                 ELSE side[i + 1]
    BY <2>1, RemoveEmptied
  <2> HIDE DEF r
  <2>3. Gapless(r)
    <3>1. SUFFICES ASSUME NEW i \in Places, ~Live(r[i])
                   PROVE r[i] = EmptyLevel /\ \A j \in i .. Levels : ~Live(r[j])
      BY DEF Gapless
    <3>2. r[i] = EmptyLevel
      BY <2>2, <3>1, PlacesFacts DEF Sound, Gapless
    <3>3. ASSUME NEW j \in i .. Levels PROVE ~Live(r[j])
      <4>1. j \in Places /\ i <= j  BY <3>3 DEF Places
      <4>2. CASE i < e
        <5>1. ~Live(side[i])  BY <2>2, <3>1, <4>2
        <5>2. \A k \in i .. Levels : ~Live(side[k])
          BY <5>1 DEF Sound, Gapless
        <5> QED  BY <5>2, <4>1, <2>2, EmptyLevelType, PlacesFacts DEF Places
      <4>3. CASE ~(i < e) /\ i # Levels
        <5>1. i + 1 \in Places /\ ~Live(side[i + 1])
          BY <2>2, <3>1, <4>3, PlacesFacts
        <5>2. \A k \in i + 1 .. Levels : ~Live(side[k])
          BY <5>1 DEF Sound, Gapless
        <5>3. ~(j < e)  BY <4>1, <4>3, PlacesFacts
        <5>4. j # Levels => j + 1 \in i + 1 .. Levels
          BY <4>1, PlacesFacts DEF Places
        <5> QED  BY <5>2, <5>3, <5>4, <4>1, <2>2, EmptyLevelType
      <4>4. CASE i = Levels
        BY <4>1, <4>4, <3>1 DEF Places
      <4> QED  BY <4>2, <4>3, <4>4
    <3> QED  BY <3>2, <3>3
  <2>4. BestFirst(ask, r)
    <3>1. SUFFICES ASSUME NEW i \in Places, NEW j \in Places, i < j, Live(r[j])
                   PROVE Better(ask, r[i].price, r[j].price)
      BY DEF BestFirst
    <3>2. CASE j < e
      BY <3>1, <3>2, <2>2, PlacesFacts DEF Sound, BestFirst
    <3>3. CASE ~(j < e)
      <4>1. j # Levels /\ r[j] = side[j + 1] /\ j + 1 \in Places
        BY <3>1, <3>3, <2>2, EmptyLevelType, PlacesFacts
      <4>2. PICK k \in Places : r[i] = side[k] /\ k < j + 1
        BY <3>1, <2>2, PlacesFacts DEF Places
      <4> QED  BY <4>1, <4>2, <3>1 DEF Sound, BestFirst
    <3> QED  BY <3>2, <3>3
  <2>5. ASSUME Live(r[1])
        PROVE Live(side[1]) /\ ~Better(ask, r[1].price, side[1].price)
    <3>1. CASE 1 < e
      BY <3>1, <2>2, <2>5, <1>0, BetterOrder, PlacesFacts
    <3>2. CASE ~(1 < e)
      <4>1. 1 # Levels /\ r[1] = side[2] /\ 2 \in Places
        BY <3>2, <2>2, <2>5, EmptyLevelType, PlacesFacts
      <4>2. Better(ask, side[1].price, side[2].price)
        BY <4>1, <2>5, PlacesFacts DEF Sound, BestFirst
      <4>3. Live(side[1])
        BY <2>1, <3>2, PlacesFacts DEF Emptied, Found, Places
      <4> QED  BY <4>1, <4>2, <4>3, <1>0, BetterOrder, PlacesFacts
    <3> QED  BY <3>1, <3>2
  <2> QED  BY <2>3, <2>4, <2>5 DEF Sound, r
<1>2. CASE ~ \E e \in Places : Emptied(side, change, e)
  <2>1. \A i \in Places : /\ r[i].price = side[i].price
                          /\ Live(r[i]) <=> Live(side[i])
                          /\ ~Live(side[i]) => r[i] = side[i]
    BY <1>2, RemoveKept
  <2> HIDE DEF r
  <2>2. Gapless(r)  BY <2>1 DEF Sound, Gapless, Places
  <2>3. BestFirst(ask, r)  BY <2>1 DEF Sound, BestFirst
  <2>4. Live(r[1]) => Live(side[1]) /\ ~Better(ask, r[1].price, side[1].price)
    BY <2>1, <1>0, BetterOrder, PlacesFacts
  <2> QED  BY <2>2, <2>3, <2>4 DEF Sound, r
<1> QED  BY <1>1, <1>2

-----------------------------------------------------------------------------
(* Inserting shares.                                                        *)

(* A side after an insertion still fits its registers.                      *)
LEMMA InsertType ==
  ASSUME NEW ask \in BOOLEAN, NEW side \in Side, NEW change \in Change
  PROVE  Insert(ask, side, change) \in Side
<1> DEFINE place == [price |-> change.price, shares |-> change.shares]
<1>1. SUFFICES ASSUME NEW i \in Places PROVE Insert(ask, side, change)[i] \in Level
  BY DEF Insert, Side
<1>2. side[i] \in Level  BY DEF Side
<1>3. i # 1 => side[i - 1] \in Level  BY PlacesFacts DEF Side
<1>4. place \in Level  BY DEF Change, Level
<1>5. [side[i] EXCEPT !.shares = Saturating(@, change.shares)] \in Level
  BY <1>2, BookSideAssumption DEF Level, Saturating, Change
<1> QED  BY <1>2, <1>3, <1>4, <1>5 DEF Insert

(* More shares at a held price change no price and empty no level.          *)
LEMMA InsertHeld ==
  ASSUME NEW ask \in BOOLEAN, NEW side \in Side, NEW change \in Change,
         \/ ~change.valid
         \/ \E m \in Places : Matched(side, change, m),
         NEW i \in Places
  PROVE  /\ Insert(ask, side, change)[i].price = side[i].price
         /\ Live(Insert(ask, side, change)[i]) <=> Live(side[i])
         /\ ~Live(side[i]) => Insert(ask, side, change)[i] = side[i]
<1>1. Insert(ask, side, change)[i] =
        IF change.valid /\ Matched(side, change, i)
          THEN [side[i] EXCEPT !.shares = Saturating(@, change.shares)]
          ELSE side[i]
  BY DEF Insert
<1>2. side[i] \in Level  BY DEF Side
<1>3. ASSUME Matched(side, change, i)
      PROVE Saturating(side[i].shares, change.shares) # 0 /\ Live(side[i])
  BY <1>2, <1>3, BookSideAssumption DEF Matched, Saturating, Change, Level, Live
<1> QED  BY <1>1, <1>2, <1>3 DEF Live, Level

(* A new level goes behind the levels that are ahead of it, which are the   *)
(* first ones, and before all others, which are worse.                      *)
LEMMA AheadFirst ==
  ASSUME NEW ask \in BOOLEAN, NEW side \in Side, NEW change \in Change,
         Sound(ask, side), NEW i \in Places, NEW j \in Places, i < j,
         Ahead(ask, side, change, j)
  PROVE  Ahead(ask, side, change, i)
<1>1. side[i].price \in Int /\ side[j].price \in Int /\ change.price \in Int
  BY BookSideAssumption DEF Side, Level, Change
<1>2. Live(side[i])
  BY PlacesFacts DEF Sound, Gapless, Ahead, Places
<1>3. Better(ask, side[i].price, side[j].price)
  BY DEF Sound, BestFirst, Ahead
<1> QED  BY <1>1, <1>2, <1>3, BetterOrder DEF Ahead

(* A level behind the place an insertion takes is worse than the price inserted. *)
LEMMA BehindWorse ==
  ASSUME NEW ask \in BOOLEAN, NEW side \in Side, NEW change \in Change,
         NEW j \in Places, ~Ahead(ask, side, change, j),
         ~Matched(side, change, j), Live(side[j])
  PROVE  Better(ask, change.price, side[j].price)
<1>1. side[j].price \in Int /\ change.price \in Int
  BY BookSideAssumption DEF Side, Level, Change
<1> QED  BY <1>1, BetterOrder DEF Ahead, Matched

(* An insertion with shares keeps a side sorted and without gaps, and its   *)
(* best is the old best or the new price.                                   *)
LEMMA InsertSound ==
  ASSUME NEW ask \in BOOLEAN, NEW side \in Side, NEW change \in Change,
         Sound(ask, side), change.valid => change.shares # 0
  PROVE  /\ Sound(ask, Insert(ask, side, change))
         /\ Live(Insert(ask, side, change)[1]) =>
              \/ /\ Live(side[1])
                 /\ Insert(ask, side, change)[1].price = side[1].price
              \/ /\ change.valid
                 /\ Insert(ask, side, change)[1].price = change.price
<1> DEFINE r == Insert(ask, side, change)
<1>1. CASE ~change.valid \/ \E m \in Places : Matched(side, change, m)
  <2>1. \A i \in Places : /\ r[i].price = side[i].price
                          /\ Live(r[i]) <=> Live(side[i])
                          /\ ~Live(side[i]) => r[i] = side[i]
    BY <1>1, InsertHeld
  <2> HIDE DEF r
  <2>2. Gapless(r)  BY <2>1 DEF Sound, Gapless, Places
  <2>3. BestFirst(ask, r)  BY <2>1 DEF Sound, BestFirst
  <2> QED  BY <2>1, <2>2, <2>3, PlacesFacts DEF Sound, r
<1>2. CASE change.valid /\ ~ \E m \in Places : Matched(side, change, m)
  <2> DEFINE ahead(i) == Ahead(ask, side, change, i)
             place == [price |-> change.price, shares |-> change.shares]
  <2>1. \A i \in Places : r[i] = IF ahead(i) THEN side[i]
                                 ELSE IF i = 1 \/ ahead(i - 1) THEN place
                                 ELSE side[i - 1]
    BY <1>2 DEF Insert
  <2>2. \A i, j \in Places : i < j /\ ahead(j) => ahead(i)
    BY AheadFirst
  <2>3. \A j \in Places : ~ahead(j) /\ Live(side[j]) =>
                            Better(ask, change.price, side[j].price)
    BY <1>2, BehindWorse
  <2>4. \A j \in Places : ahead(j) => /\ Live(side[j])
                                     /\ Better(ask, side[j].price, change.price)
    BY DEF Ahead
  <2>5. Live(place)  BY <1>2 DEF Live
  <2> HIDE DEF r, ahead
  <2>6. Gapless(r)
    <3>1. SUFFICES ASSUME NEW i \in Places, ~Live(r[i])
                   PROVE r[i] = EmptyLevel /\ \A j \in i .. Levels : ~Live(r[j])
      BY DEF Gapless
    <3>2. /\ ~ahead(i) /\ i # 1 /\ ~ahead(i - 1)
          /\ r[i] = side[i - 1] /\ i - 1 \in Places /\ ~Live(side[i - 1])
      BY <2>1, <2>4, <2>5, <3>1, PlacesFacts
    <3>3. r[i] = EmptyLevel  BY <3>2 DEF Sound, Gapless
    <3>4. ASSUME NEW j \in i .. Levels PROVE ~Live(r[j])
      <4>1. /\ j \in Places /\ j - 1 \in Places /\ j # 1
            /\ i - 1 < j /\ i - 1 <= j - 1 /\ i <= j
        BY <3>2, PlacesFacts DEF Places
      <4>2. ~ahead(j) /\ ~ahead(j - 1)
        BY <4>1, <3>2, <2>2, PlacesFacts
      <4>3. ~Live(side[j - 1])
        BY <4>1, <3>2, PlacesFacts DEF Sound, Gapless, Places
      <4> QED  BY <4>1, <4>2, <4>3, <2>1
    <3> QED  BY <3>3, <3>4
  <2>7. BestFirst(ask, r)
    <3>1. SUFFICES ASSUME NEW i \in Places, NEW j \in Places, i < j, Live(r[j])
                   PROVE Better(ask, r[i].price, r[j].price)
      BY DEF BestFirst
    <3>2. j # 1 /\ j - 1 \in Places /\ i <= j - 1
      BY <3>1, PlacesFacts DEF Places
    <3>3. CASE ahead(j)
      <4>1. r[i] = side[i] /\ r[j] = side[j]
        BY <2>1, <2>2, <3>1, <3>3
      <4> QED  BY <4>1, <3>1 DEF Sound, BestFirst
    <3>4. CASE ~ahead(j) /\ ahead(j - 1)
      <4>1. r[j] = place  BY <2>1, <3>4
      <4>2. i = j - 1 \/ i < j - 1  BY <3>2, PlacesFacts
      <4>3. ahead(i)  BY <4>2, <2>2, <3>2, <3>4
      <4> QED  BY <4>1, <4>3, <2>1, <2>4
    <3>5. CASE ~ahead(j) /\ ~ahead(j - 1)
      <4>1. r[j] = side[j - 1]  BY <2>1, <3>2, <3>5
      <4>2. Live(side[j - 1]) /\ Better(ask, change.price, side[j - 1].price)
        BY <4>1, <3>1, <3>2, <3>5, <2>3
      <4>3. CASE ahead(i)
        <5>1. i # j - 1  BY <4>3, <3>5
        <5> QED  BY <4>1, <4>2, <4>3, <5>1, <2>1, <3>2, PlacesFacts
                 DEF Sound, BestFirst
      <4>4. CASE ~ahead(i) /\ (i = 1 \/ ahead(i - 1))
        BY <4>1, <4>2, <4>4, <2>1
      <4>5. CASE ~ahead(i) /\ i # 1 /\ ~ahead(i - 1)
        <5>1. r[i] = side[i - 1] /\ i - 1 \in Places /\ i - 1 < j - 1
          BY <4>5, <2>1, <3>2, <3>1, PlacesFacts
        <5> QED  BY <5>1, <4>1, <4>2, <3>2 DEF Sound, BestFirst
      <4> QED  BY <4>3, <4>4, <4>5
    <3> QED  BY <3>3, <3>4, <3>5
  <2>8. ASSUME Live(r[1])
        PROVE \/ Live(side[1]) /\ r[1].price = side[1].price
              \/ change.valid /\ r[1].price = change.price
    BY <2>1, <2>4, <1>2, PlacesFacts
  <2> QED  BY <2>6, <2>7, <2>8 DEF Sound, r
<1> QED  BY <1>1, <1>2

-----------------------------------------------------------------------------

(* An update of a side: the shares of one order go, and those of another    *)
(* come in if that does not cross the other side's best.                    *)
THEOREM UpdatedType ==
  ASSUME NEW ask \in BOOLEAN, NEW side \in Side, NEW opposite \in Level,
         NEW remove \in Change, NEW insert \in Change
  PROVE  Updated(ask, side, opposite, remove, insert) \in Side
<1>1. [insert EXCEPT !.valid = Accepted(ask, opposite, insert)] \in Change
  BY DEF Change, Accepted, Crosses, Live
<1> QED  BY <1>1, RemoveType, InsertType DEF Updated

(* The update keeps the side sorted and without gaps, and keeps its best    *)
(* from reaching the best of the other side.                                *)
THEOREM UpdatedSound ==
  ASSUME NEW ask \in BOOLEAN, NEW side \in Side, NEW opposite \in Level,
         NEW remove \in Change, NEW insert \in Change, Sound(ask, side),
         Live(side[1]) => ~Crosses(ask, opposite, side[1].price)
  PROVE  LET r == Updated(ask, side, opposite, remove, insert)
         IN  /\ Sound(ask, r)
             /\ Live(r[1]) => ~Crosses(ask, opposite, r[1].price)
<1> DEFINE accepted == [insert EXCEPT !.valid = Accepted(ask, opposite, insert)]
           rest == Remove(side, remove)
           r == Insert(ask, rest, accepted)
<1>1. /\ accepted \in Change
      /\ accepted.valid => accepted.shares # 0
      /\ accepted.valid => ~Crosses(ask, opposite, accepted.price)
  BY DEF Change, Accepted, Crosses, Live
<1>2. rest \in Side  BY RemoveType
<1>3. Sound(ask, rest)  BY RemoveSound
<1>4. Sound(ask, r)  BY <1>1, <1>2, <1>3, InsertSound
<1>5. ASSUME Live(rest[1]) PROVE ~Crosses(ask, opposite, rest[1].price)
  <2>1. Live(side[1]) /\ ~Better(ask, rest[1].price, side[1].price)
    BY <1>5, RemoveSound
  <2>2. /\ rest[1].price \in Int /\ side[1].price \in Int
        /\ opposite.price \in Int
    BY <1>2, PlacesFacts, BookSideAssumption DEF Side, Level
  <2>3. CASE ask = TRUE
    BY <2>1, <2>2, <2>3 DEF Better, Crosses
  <2>4. CASE ask = FALSE
    BY <2>1, <2>2, <2>4 DEF Better, Crosses
  <2> QED  BY <2>3, <2>4
<1>6. Live(r[1]) => \/ Live(rest[1]) /\ r[1].price = rest[1].price
                    \/ accepted.valid /\ r[1].price = accepted.price
  BY <1>1, <1>2, <1>3, InsertSound
<1> QED  BY <1>1, <1>4, <1>5, <1>6 DEF Updated

-----------------------------------------------------------------------------
(* Facts about one cycle's signals.                                         *)

(* The empty entry, level and side fit their registers.                     *)
LEMMA EmptyTypes == Empty \in Entry /\ EmptySide \in Side
<1>1. Empty \in Entry
  BY OrderBookAssumption, BookSideAssumption DEF Empty, Entry
<1>2. EmptySide \in Side
  BY EmptyLevelType DEF EmptySide, Side
<1> QED  BY <1>1, <1>2

(* A valid current event is one of Events, and its references split into a  *)
(* slot and a tag.                                                          *)
LEMMA CurrentEvent ==
  ASSUME TypeOK, Valid
  PROVE  /\ current \in Events /\ current \in Event
         /\ current.symbol \in Symbols
         /\ TagOf(current.order) \in Tags /\ TagOf(current.new_order) \in Tags
         /\ SlotOf(current.order) \in Slots /\ SlotOf(current.new_order) \in Slots
<1>1. current \in Events /\ current \in Event
  BY OrderBookAssumption DEF TypeOK, Valid
<1>2. current.order \in Nat /\ current.new_order \in Nat /\ SlotCount \in Nat \ {0}
  BY <1>1, OrderBookAssumption DEF Event
<1>3. SlotOf(current.order) \in Slots /\ SlotOf(current.new_order) \in Slots
  BY <1>2 DEF SlotOf, Slots
<1>4. TagOf(current.order) \in Tags /\ TagOf(current.new_order) \in Tags
  BY <1>1, OrderBookAssumption DEF TagOf
<1> QED  BY <1>1, <1>3, <1>4 DEF Event

(* An execution or a cancel takes no more shares than the order has.        *)
LEMMA ExecutedType ==
  ASSUME TypeOK, Valid
  PROVE  /\ Executed \in 0 .. MaxShares
         /\ Remaining \in 0 .. MaxShares
<1>1. current.shares \in 0 .. MaxShares /\ table_a.shares \in 0 .. MaxShares
  BY CurrentEvent DEF TypeOK, Event, Entry
<1> QED  BY <1>1, BookSideAssumption DEF Executed, Remaining

(* What one event asks of a side.                                           *)
LEMMA ChangeTypes ==
  ASSUME TypeOK, Valid
  PROVE  /\ Removal \in Change /\ Insertion \in Change /\ Ask \in BOOLEAN
<1>1. table_a \in Entry /\ current \in Event  BY CurrentEvent DEF TypeOK
<1>2. Hit \in BOOLEAN /\ Adding \in BOOLEAN /\ Replacing \in BOOLEAN
  BY DEF Hit, Adding, Replacing
<1>3. Removal \in Change
  BY <1>1, <1>2, ExecutedType DEF Removal, Change, Entry, Is
<1>4. Insertion \in Change
  BY <1>1, <1>2 DEF Insertion, Change, Event
<1>5. Ask \in BOOLEAN  BY <1>1 DEF Ask, Entry, Event
<1> QED  BY <1>3, <1>4, <1>5

(* What the ports write is an entry.                                        *)
LEMMA EntryTypes ==
  ASSUME TypeOK, Valid
  PROVE  EntryA \in Entry /\ Added(current.new_order, table_a.side) \in Entry
<1>1. table_a \in Entry /\ current \in Event  BY CurrentEvent DEF TypeOK
<1>2. Added(current.order, current.side) \in Entry
  BY <1>1, CurrentEvent DEF Added, Entry, Event
<1>3. Added(current.new_order, table_a.side) \in Entry
  BY <1>1, CurrentEvent DEF Added, Entry, Event
<1>4. [table_a EXCEPT !.shares = Remaining] \in Entry
  BY <1>1, ExecutedType DEF Entry
<1> QED  BY <1>2, <1>3, <1>4, EmptyTypes DEF EntryA

(* The updated side of the current event.                                   *)
LEMMA UpdatedSideType ==
  ASSUME TypeOK, Valid
  PROVE  /\ levels[current.symbol][Ask] \in Side
         /\ OppositeBest \in Level
         /\ UpdatedSide \in Side
<1>1. \A ask \in BOOLEAN : levels[current.symbol][ask] \in Side
  BY CurrentEvent DEF TypeOK
<1>2. Ask \in BOOLEAN /\ (~Ask) \in BOOLEAN  BY ChangeTypes
<1>3. OppositeBest \in Level  BY <1>1, <1>2, PlacesFacts DEF OppositeBest, Side
<1> QED  BY <1>1, <1>2, <1>3, ChangeTypes, UpdatedType DEF UpdatedSide

-----------------------------------------------------------------------------
(* The memory after a clock edge, and what its ports read.                  *)

(* The table after the two port writes, and every read of it or around it, is of entries. *)
LEMMA MemoryTypes ==
  ASSUME TypeOK
  PROVE  /\ Memory \in [Slots -> Entry]
         /\ \A event \in Events : ReadA(event) \in Entry /\ ReadB(event) \in Entry
<1>1. WritesA => DataA \in Entry
  BY EntryTypes, EmptyTypes DEF WritesA, WriteA, DataA
<1>2. WriteB => Added(current.new_order, table_a.side) \in Entry
  BY EntryTypes DEF WriteB
<1>3. \A s \in Slots : memory[s] \in Entry  BY DEF TypeOK
<1>4. Memory \in [Slots -> Entry]  BY <1>1, <1>2, <1>3 DEF Memory
<1>5. ASSUME NEW event \in Events
      PROVE SlotOf(event.order) \in Slots /\ SlotOf(event.new_order) \in Slots
  <2>1. event.order \in Nat /\ event.new_order \in Nat /\ SlotCount \in Nat \ {0}
    BY OrderBookAssumption DEF Event
  <2> QED  BY <2>1 DEF SlotOf, Slots
<1> QED  BY <1>1, <1>2, <1>3, <1>4, <1>5 DEF ReadA, ReadB

(* The flow after an execution is an integer.                               *)
LEMMA FlowNextType ==
  ASSUME TypeOK, Valid  PROVE FlowNext \in Int
<1>1. flow[current.symbol] \in Int  BY CurrentEvent DEF TypeOK
<1>2. Capped(Executed) \in Int
  BY ExecutedType, OrderBookAssumption DEF Capped
<1>3. FlowHalf \in Nat /\ 2 * FlowHalf > 0  BY OrderBookAssumption
<1>4. \A v \in Int : Wrapped(v) \in Int  BY <1>3 DEF Wrapped
<1> QED  BY <1>1, <1>2, <1>4 DEF FlowNext, FlowAfter

(* One update of the registers keeps their types.                           *)
LEMMA UpdateTypes ==
  ASSUME TypeOK, Update
  PROVE  /\ memory' \in [Slots -> Entry]
         /\ levels' \in [Symbols -> [BOOLEAN -> Side]]
         /\ flow' \in [Symbols -> Int]
         /\ book' \in Snapshot \cup {NoBook}
         /\ lost' \in [Symbols -> [BOOLEAN -> BOOLEAN]]
<1>1. memory' \in [Slots -> Entry]  BY MemoryTypes DEF Update
<1>2. CASE ~Valid
  BY <1>1, <1>2 DEF Update, TypeOK
<1>3. CASE Valid
  <2>1. current.symbol \in Symbols /\ Ask \in BOOLEAN /\ UpdatedSide \in Side
    BY <1>3, CurrentEvent, ChangeTypes, UpdatedSideType
  <2>2. levels' \in [Symbols -> [BOOLEAN -> Side]]
    <3>1. levels' = [levels EXCEPT ![current.symbol][Ask] = UpdatedSide]
      BY <1>3 DEF Update
    <3>2. levels \in [Symbols -> [BOOLEAN -> Side]]  BY DEF TypeOK
    <3> QED  BY <2>1, <3>1, <3>2
  <2>3. flow' \in [Symbols -> Int]
    BY <1>3, <2>1, FlowNextType DEF Update, TypeOK
  <2>4. lost' \in [Symbols -> [BOOLEAN -> BOOLEAN]]
    <3>1. lost' = [lost EXCEPT ![current.symbol][Ask] = @ \/ Drops]
      BY <1>3 DEF Update
    <3>2. lost \in [Symbols -> [BOOLEAN -> BOOLEAN]]  BY DEF TypeOK
    <3>3. (lost[current.symbol][Ask] \/ Drops) \in BOOLEAN  OBVIOUS
    <3>4. lost' = [lost EXCEPT ![current.symbol] =
                     [lost[current.symbol] EXCEPT ![Ask] =
                        lost[current.symbol][Ask] \/ Drops]]
      BY <2>1, <3>1, <3>2
    <3>5. [lost[current.symbol] EXCEPT ![Ask] = lost[current.symbol][Ask] \/ Drops]
            \in [BOOLEAN -> BOOLEAN]
      BY <2>1, <3>2, <3>3
    <3> QED  BY <2>1, <3>2, <3>4, <3>5
  <2>5. book' \in Snapshot
    <3>1. book' = [symbol |-> current.symbol,
                   bids |-> IF Ask THEN levels[current.symbol][FALSE] ELSE UpdatedSide,
                   asks |-> IF Ask THEN UpdatedSide ELSE levels[current.symbol][TRUE],
                   flow |-> IF Trades THEN FlowNext ELSE flow[current.symbol]]
      BY <1>3 DEF Update
    <3>2. /\ levels[current.symbol][FALSE] \in Side
          /\ levels[current.symbol][TRUE] \in Side
          /\ flow[current.symbol] \in Int
      BY <2>1 DEF TypeOK
    <3> QED  BY <1>3, <2>1, <3>1, <3>2, FlowNextType DEF Snapshot
  <2> QED  BY <1>1, <2>2, <2>3, <2>4, <2>5
<1> QED  BY <1>2, <1>3

(* The sweep stays within the table.                                        *)
LEMMA SweepType ==
  ASSUME TypeOK  PROVE NextSweep(sweep) \in 0 .. SlotCount
BY OrderBookAssumption DEF TypeOK, NextSweep

(* The cleared registers are typed.                                        *)
LEMMA InitTypeOK == Init => TypeOK
BY EmptyTypes, OrderBookAssumption DEF Init, TypeOK

(* One cycle keeps every register in its range.                            *)
LEMMA NextTypeOK == TypeOK /\ [Next]_vars => TypeOK'
<1> SUFFICES ASSUME TypeOK, [Next]_vars PROVE TypeOK'
  OBVIOUS
<1>1. CASE Quiet
  BY <1>1, UpdateTypes, SweepType, EmptyTypes DEF Quiet, NoEventRead, TypeOK
<1>2. ASSUME NEW event \in Events, Arrive(event) PROVE TypeOK'
  <2>1. ReadA(event) \in Entry /\ ReadB(event) \in Entry  BY MemoryTypes
  <2> QED
    BY <1>2, <2>1, UpdateTypes, SweepType, EmptyTypes DEF Arrive, NoEventRead, TypeOK
<1>3. CASE Clear
  <2>1. memory' \in [Slots -> Entry]  BY <1>3, MemoryTypes DEF Clear
  <2> QED
    BY <1>3, <2>1, EmptyTypes, OrderBookAssumption DEF Clear, NoEventRead, TypeOK
<1>4. CASE UNCHANGED vars
  BY <1>4 DEF vars, TypeOK
<1> QED  BY <1>1, <1>2, <1>3, <1>4 DEF Next

(* Every register keeps a value of its width: levels saturate, reductions   *)
(* never borrow, slots and tags come from the event's references.           *)
THEOREM BookTypeOK == Spec => []TypeOK
BY InitTypeOK, NextTypeOK, PTL DEF Spec

-----------------------------------------------------------------------------
(* The sides.                                                               *)

(* The two sides of a symbol apart: no level of one crosses the other's     *)
(* best, seen from either side.                                             *)
LEMMA UncrossedEitherSide ==
  ASSUME NEW bids \in Side, NEW asks \in Side
  PROVE  /\ Uncrossed(bids, asks) <=>
              (Live(asks[1]) => ~Crosses(TRUE, bids[1], asks[1].price))
         /\ Uncrossed(bids, asks) <=>
              (Live(bids[1]) => ~Crosses(FALSE, asks[1], bids[1].price))
<1>1. bids[1].price \in Int /\ asks[1].price \in Int
  BY PlacesFacts, BookSideAssumption DEF Side, Level
<1> QED  BY <1>1 DEF Uncrossed, Crosses

(* A cleared side is sound and shows no price.                             *)
LEMMA EmptySideSound ==
  \A ask \in BOOLEAN : Sound(ask, EmptySide) /\ ~Live(EmptySide[1])
BY EmptyLevelType, PlacesFacts DEF Sound, Gapless, BestFirst, EmptySide, Places

(* The update of one side of the current event's symbol.                    *)
LEMMA UpdateSound ==
  ASSUME TypeOK, SidesSound, Valid
  PROVE  /\ Sound(Ask, UpdatedSide)
         /\ Live(UpdatedSide[1]) => ~Crosses(Ask, OppositeBest, UpdatedSide[1].price)
<1> DEFINE side == levels[current.symbol][Ask]
<1>1. current.symbol \in Symbols /\ Ask \in BOOLEAN
  BY CurrentEvent, ChangeTypes
<1>2. \A ask \in BOOLEAN : levels[current.symbol][ask] \in Side
  BY <1>1 DEF TypeOK
<1>3. Sound(Ask, side)  BY <1>1 DEF SidesSound
<1>4. Live(side[1]) => ~Crosses(Ask, OppositeBest, side[1].price)
  <2>1. Uncrossed(levels[current.symbol][FALSE], levels[current.symbol][TRUE])
    BY <1>1 DEF SidesSound
  <2>2. CASE Ask = TRUE
    BY <1>2, <2>1, <2>2, UncrossedEitherSide DEF OppositeBest
  <2>3. CASE Ask = FALSE
    BY <1>2, <2>1, <2>3, UncrossedEitherSide DEF OppositeBest
  <2> QED  BY <1>1, <2>2, <2>3
<1> QED
  BY <1>1, <1>3, <1>4, UpdatedSideType, ChangeTypes, UpdatedSound DEF UpdatedSide

(* The event applied keeps the sides of every symbol sound and uncrossed.  *)
LEMMA UpdateKeepsSides ==
  ASSUME TypeOK, SidesSound, Update
  PROVE  SidesSound'
<1>1. CASE ~Valid
  BY <1>1 DEF Update, SidesSound
<1>2. CASE Valid
  <2>1. current.symbol \in Symbols /\ Ask \in BOOLEAN
    BY <1>2, CurrentEvent, ChangeTypes
  <2>2. levels' = [levels EXCEPT ![current.symbol][Ask] = UpdatedSide]
    BY <1>2 DEF Update
  <2>3. SUFFICES ASSUME NEW s \in Symbols
                 PROVE /\ \A ask \in BOOLEAN : Sound(ask, levels'[s][ask])
                       /\ Uncrossed(levels'[s][FALSE], levels'[s][TRUE])
    BY DEF SidesSound
  <2>4. levels \in [Symbols -> [BOOLEAN -> Side]]  BY DEF TypeOK
  <2>5. CASE s # current.symbol
    <3>1. levels'[s] = levels[s]  BY <2>2, <2>4, <2>5
    <3> QED  BY <3>1 DEF SidesSound
  <2>6. CASE s = current.symbol
    <3>1. /\ levels'[s][Ask] = UpdatedSide
          /\ levels'[s][~Ask] = levels[s][~Ask]
      BY <2>1, <2>2, <2>4, <2>6
    <3>2. Sound(~Ask, levels[s][~Ask])  BY <2>1 DEF SidesSound
    <3>3. /\ Sound(Ask, UpdatedSide)
          /\ Live(UpdatedSide[1]) =>
               ~Crosses(Ask, levels[s][~Ask][1], UpdatedSide[1].price)
      BY <1>2, <2>6, UpdateSound DEF OppositeBest
    <3>4. UpdatedSide \in Side /\ levels[s][~Ask] \in Side
      BY <1>2, <2>1, <2>4, UpdatedSideType
    <3>5. CASE Ask = TRUE
      <4>1. levels'[s][TRUE] = UpdatedSide /\ levels'[s][FALSE] = levels[s][FALSE]
        BY <3>1, <3>5
      <4>2. Sound(TRUE, levels'[s][TRUE]) /\ Sound(FALSE, levels'[s][FALSE])
        BY <4>1, <3>2, <3>3, <3>5
      <4>3. Uncrossed(levels'[s][FALSE], levels'[s][TRUE])
        BY <4>1, <3>3, <3>4, <3>5, UncrossedEitherSide
      <4> QED  BY <4>2, <4>3
    <3>6. CASE Ask = FALSE
      <4>1. levels'[s][FALSE] = UpdatedSide /\ levels'[s][TRUE] = levels[s][TRUE]
        BY <3>1, <3>6
      <4>2. Sound(TRUE, levels'[s][TRUE]) /\ Sound(FALSE, levels'[s][FALSE])
        BY <4>1, <3>2, <3>3, <3>6
      <4>3. Uncrossed(levels'[s][FALSE], levels'[s][TRUE])
        BY <4>1, <3>3, <3>4, <3>6, UncrossedEitherSide
      <4> QED  BY <4>2, <4>3
    <3> QED  BY <2>1, <3>5, <3>6
  <2> QED  BY <2>5, <2>6
<1> QED  BY <1>1, <1>2

(* Cleared sides are sound and uncrossed.                                  *)
LEMMA EmptySidesSound ==
  ASSUME levels = [s \in Symbols |-> [ask \in BOOLEAN |-> EmptySide]]
  PROVE  SidesSound
BY EmptySideSound DEF SidesSound, Uncrossed

(* Whatever events come in whatever order, and whenever the book is         *)
(* cleared, the levels of every side stay strictly best first without gaps, *)
(* and the best bid below the best ask.                                     *)
THEOREM BookSidesSound == Spec => []SidesSound
<1>1. Init => SidesSound
  BY EmptySidesSound DEF Init
<1>2. TypeOK /\ SidesSound /\ [Next]_vars => SidesSound'
  <2> SUFFICES ASSUME TypeOK, SidesSound, [Next]_vars PROVE SidesSound'
    OBVIOUS
  <2>1. CASE Quiet  BY <2>1, UpdateKeepsSides DEF Quiet
  <2>2. ASSUME NEW event \in Events, Arrive(event) PROVE SidesSound'
    BY <2>2, UpdateKeepsSides DEF Arrive
  <2>3. CASE Clear
    BY <2>3, EmptySideSound DEF Clear, SidesSound, Uncrossed
  <2>4. CASE UNCHANGED vars
    BY <2>4 DEF vars, SidesSound
  <2> QED  BY <2>1, <2>2, <2>3, <2>4 DEF Next
<1> QED  BY <1>1, <1>2, BookTypeOK, PTL DEF Spec

-----------------------------------------------------------------------------
(* The trade flow.                                                          *)

(* The decay of an eighth an execution outweighs the cap at eight times the *)
(* cap, so the sum never leaves the register and the wrap is the identity.  *)
LEMMA FlowStep ==
  ASSUME NEW value \in -(8 * FlowCap) .. 8 * FlowCap,
         NEW amount \in -FlowCap .. FlowCap
  PROVE  FlowAfter(value, amount) \in -(8 * FlowCap) .. 8 * FlowCap
<1> DEFINE sum == value - value \div 8 + amount
<1>1. FlowCap \in Nat /\ FlowHalf \in Nat /\ 8 * FlowCap < FlowHalf
  BY OrderBookAssumption
<1>2. sum \in -(8 * FlowCap) .. 8 * FlowCap  BY <1>1
<1> HIDE DEF sum
<1>3. sum + FlowHalf \in 0 .. 2 * FlowHalf - 1  BY <1>1, <1>2
<1>4. (sum + FlowHalf) % (2 * FlowHalf) = sum + FlowHalf
  BY <1>1, <1>3
<1>5. Wrapped(sum) = sum  BY <1>1, <1>2, <1>4 DEF Wrapped
<1> QED  BY <1>2, <1>5 DEF FlowAfter, sum

(* The event applied keeps every trade flow within its register.           *)
LEMMA UpdateKeepsFlow ==
  ASSUME TypeOK, FlowFits, Update
  PROVE  FlowFits'
<1>1. CASE ~Valid
  BY <1>1 DEF Update, FlowFits
<1>2. CASE Valid
  <2>1. current.symbol \in Symbols  BY <1>2, CurrentEvent
  <2>2. flow[current.symbol] \in -(8 * FlowCap) .. 8 * FlowCap
    BY <2>1 DEF FlowFits
  <2>3. Capped(Executed) \in 0 .. FlowCap
    BY <1>2, ExecutedType, OrderBookAssumption DEF Capped
  <2>4. /\ Capped(Executed) \in -FlowCap .. FlowCap
        /\ -Capped(Executed) \in -FlowCap .. FlowCap
    BY <2>3, OrderBookAssumption
  <2>5. FlowNext \in -(8 * FlowCap) .. 8 * FlowCap
    BY <2>2, <2>4, FlowStep DEF FlowNext
  <2>6. flow' = [flow EXCEPT ![current.symbol] = IF Trades THEN FlowNext ELSE @]
    BY <1>2 DEF Update
  <2> QED  BY <2>1, <2>2, <2>5, <2>6 DEF TypeOK, FlowFits
<1> QED  BY <1>1, <1>2

(* The flow of every symbol stays within eight times the cap, so its        *)
(* register never wraps (docs/specs/007-tick-to-trade.md: it fits in 20     *)
(* bits without saturating).                                                *)
THEOREM BookFlowFits == Spec => []FlowFits
<1>0. 0 \in -(8 * FlowCap) .. 8 * FlowCap  BY OrderBookAssumption
<1>1. Init => FlowFits  BY <1>0 DEF Init, FlowFits
<1>2. TypeOK /\ FlowFits /\ [Next]_vars => FlowFits'
  <2> SUFFICES ASSUME TypeOK, FlowFits, [Next]_vars PROVE FlowFits'
    OBVIOUS
  <2>1. CASE Quiet  BY <2>1, UpdateKeepsFlow DEF Quiet
  <2>2. ASSUME NEW event \in Events, Arrive(event) PROVE FlowFits'
    BY <2>2, UpdateKeepsFlow DEF Arrive
  <2>3. CASE Clear  BY <1>0, <2>3 DEF Clear, FlowFits
  <2>4. CASE UNCHANGED vars  BY <2>4 DEF vars, FlowFits
  <2> QED  BY <2>1, <2>2, <2>3, <2>4 DEF Next
<1> QED  BY <1>1, <1>2, BookTypeOK, PTL DEF Spec

-----------------------------------------------------------------------------
(* The levels of a side as a list.                                          *)

(* Of some numbers one is the least. *)
LEMMA LeastNumber ==
  ASSUME NEW T \in SUBSET Nat, T # {}
  PROVE  \E x \in T : \A y \in T : x <= y
<1> DEFINE R == {ss \in Nat \X Nat : ss[1] < ss[2]}
<1>1. IsWellFoundedOn(R, Nat)
  BY NatLessThanWellFounded DEF OpToRel
<1>2. \E x \in T : \A y \in T : ~ (<<y, x>> \in R)
  BY <1>1, WFMin
<1>3. PICK x \in T : \A y \in T : ~ (<<y, x>> \in R)
  BY <1>2
<1>4. ASSUME NEW y \in T PROVE x <= y
  <2>1. x \in Nat /\ y \in Nat /\ ~(<<y, x>> \in R)
    BY <1>3
  <2>2. y < x => <<y, x>> \in R
    BY <2>1
  <2> QED
    BY <2>1, <2>2
<1> QED
  BY <1>3, <1>4

(* The first numbers are as many as the last of them says.                  *)
LEMMA FirstOnes ==
  ASSUME NEW k \in Nat  PROVE Cardinality(1 .. k) = k
BY FS_Interval

(* When the live places of a side are its first k, its list has k levels.   *)
LEMMA DepthIs ==
  ASSUME NEW side, NEW k \in 0 .. Levels,
         \A i \in Places : Live(side[i]) <=> i <= k
  PROVE  Depth(side) = k
<1>1. {i \in Places : Live(side[i])} = 1 .. k
  BY PlacesFacts DEF Places
<1>2. k \in Nat  BY PlacesFacts
<1> QED  BY <1>1, <1>2, FirstOnes DEF Depth

(* The live places of a sound side are its first ones.                      *)
LEMMA DepthOfSide ==
  ASSUME NEW side \in Side, Gapless(side)
  PROVE  /\ Depth(side) \in 0 .. Levels
         /\ \A i \in Places : Live(side[i]) <=> i <= Depth(side)
<1> DEFINE T == {i \in Places : ~Live(side[i])}
<1>1. SUFFICES \E k \in 0 .. Levels : \A i \in Places : Live(side[i]) <=> i <= k
  BY DepthIs
<1>2. CASE T = {}
  <2>1. \A i \in Places : Live(side[i]) <=> i <= Levels  BY <1>2 DEF Places
  <2> QED  BY <2>1, PlacesFacts
<1>3. CASE T # {}
  <2>1. T \in SUBSET Nat  BY DEF Places
  <2>2. PICK m \in T : \A y \in T : m <= y  BY <2>1, <1>3, LeastNumber
  <2>3. m - 1 \in 0 .. Levels  BY <2>2, PlacesFacts DEF Places
  <2>4. ASSUME NEW i \in Places PROVE Live(side[i]) <=> i <= m - 1
    <3>1. m \in Places /\ ~Live(side[m])  BY <2>2
    <3>2. \A j \in m .. Levels : ~Live(side[j])  BY <3>1 DEF Gapless
    <3>3. i < m => Live(side[i])
      BY <2>2, PlacesFacts
    <3> QED  BY <3>1, <3>2, <3>3, PlacesFacts DEF Places
  <2> QED  BY <2>3, <2>4
<1> QED  BY <1>2, <1>3

(* The list of a side with k levels.                                        *)
LEMMA ListedIs ==
  ASSUME NEW side, NEW k \in 0 .. Levels,
         \A i \in Places : Live(side[i]) <=> i <= k
  PROVE  Listed(side) = [i \in 1 .. k |-> side[i]]
BY DepthIs DEF Listed

(* The first of a list of levels with a price, if only one has it.          *)
LEMMA AtIs ==
  ASSUME NEW n \in Nat, NEW f, NEW price, NEW e \in 1 .. n,
         \A i \in 1 .. n : f[i].price = price <=> i = e
  PROVE  Reference!At([i \in 1 .. n |-> f[i]], price) = e
<1> DEFINE s == [i \in 1 .. n |-> f[i]]
           I == {i \in 1 .. Len(s) : s[i].price = price}
<1>1. Len(s) = n  OBVIOUS
<1>2. I = {e}  BY <1>1
<1>3. (CHOOSE x \in I : \A y \in I : x =< y) = e  BY <1>2
<1> HIDE DEF I
<1>4. Reference!At(s, price) = IF I # {} THEN CHOOSE x \in I : \A y \in I : x =< y ELSE 0
  BY DEF I, Reference!At, Reference!SelectInSeq, Reference!Min
<1> QED  BY <1>2, <1>3, <1>4

(* Where the list has no level at the price, the model finds none.          *)
LEMMA AtMisses ==
  ASSUME NEW n \in Nat, NEW f, NEW price,
         \A i \in 1 .. n : f[i].price # price
  PROVE  Reference!At([i \in 1 .. n |-> f[i]], price) = 0
<1> DEFINE s == [i \in 1 .. n |-> f[i]]
           I == {i \in 1 .. Len(s) : s[i].price = price}
<1>1. Len(s) = n  OBVIOUS
<1>2. I = {}  BY <1>1
<1> HIDE DEF I
<1>4. Reference!At(s, price) = IF I # {} THEN CHOOSE x \in I : \A y \in I : x =< y ELSE 0
  BY DEF I, Reference!At, Reference!SelectInSeq, Reference!Min
<1> QED  BY <1>2, <1>4

(* A list without its e-th level.                                           *)
LEMMA RemoveAtIs ==
  ASSUME NEW n \in Nat, NEW f, NEW e \in 1 .. n
  PROVE  Reference!RemoveAt([i \in 1 .. n |-> f[i]], e)
           = [i \in 1 .. n - 1 |-> IF i < e THEN f[i] ELSE f[i + 1]]
<1> DEFINE s == [i \in 1 .. n |-> f[i]]
<1>1. Len(s) = n  OBVIOUS
<1>2. SubSeq(s, 1, e - 1) = [i \in 1 .. e - 1 |-> f[i]]  OBVIOUS
<1>3. SubSeq(s, e + 1, n) = [i \in 1 .. n - e |-> f[i + e]]  OBVIOUS
<1>4. [i \in 1 .. e - 1 |-> f[i]] \o [i \in 1 .. n - e |-> f[i + e]]
        = [i \in 1 .. n - 1 |-> IF i < e THEN f[i] ELSE f[i + 1]]
  OBVIOUS
<1> QED  BY <1>1, <1>2, <1>3, <1>4 DEF Reference!RemoveAt

(* A list with a level put in as its k-th.                                  *)
PutIn(n, f, k, x) ==
  [i \in 1 .. n + 1 |-> IF i < k THEN f[i] ELSE IF i = k THEN x ELSE f[i - 1]]

(* Inserting at a place of a list puts the new element there and moves the  *)
(* others back.                                                             *)
LEMMA InsertAtIs ==
  ASSUME NEW n \in Nat, NEW f, NEW k \in 1 .. n + 1, NEW x
  PROVE  Reference!InsertAt([i \in 1 .. n |-> f[i]], k, x)
           = PutIn(n, f, k, x)
<1> DEFINE s == [i \in 1 .. n |-> f[i]]
<1>1. Len(s) = n  OBVIOUS
<1>2. SubSeq(s, 1, k - 1) = [i \in 1 .. k - 1 |-> f[i]]  OBVIOUS
<1>3. SubSeq(s, k, n) = [i \in 1 .. n - k + 1 |-> f[i + k - 1]]  OBVIOUS
<1>4. [i \in 1 .. k - 1 |-> f[i]] \o <<x>> = [i \in 1 .. k |-> IF i < k THEN f[i] ELSE x]
  OBVIOUS
<1>5. [i \in 1 .. k |-> IF i < k THEN f[i] ELSE x] \o [i \in 1 .. n - k + 1 |-> f[i + k - 1]]
        = [i \in 1 .. n + 1 |-> IF i < k THEN f[i] ELSE IF i = k THEN x ELSE f[i - 1]]
  OBVIOUS
<1> QED  BY <1>1, <1>2, <1>3, <1>4, <1>5 DEF Reference!InsertAt, PutIn

(* The list after a removal is the software model's.                        *)
LEMMA ListedRemove ==
  ASSUME NEW ask \in BOOLEAN, NEW side \in Side, NEW change \in Change,
         Sound(ask, side)
  PROVE  Listed(Remove(side, change)) =
           IF change.valid
             THEN Reference!Removed(Listed(side), change.price, change.shares)
             ELSE Listed(side)
<1> DEFINE n == Depth(side)
           r == Remove(side, change)
           list == [i \in 1 .. n |-> side[i]]
<1>1. n \in 0 .. Levels /\ \A i \in Places : Live(side[i]) <=> i <= n
  BY DepthOfSide DEF Sound
<1>2. n \in Nat /\ n <= Levels /\ 1 .. n \subseteq Places
  BY <1>1, PlacesFacts DEF Places
<1>3. Listed(side) = list  BY DEF Listed
<1>4. Len(list) = n /\ \A i \in 1 .. n : list[i] = side[i]  BY <1>2
<1> HIDE DEF n, r
<1>5. ASSUME NEW e \in Places, Found(side, change, e)
      PROVE /\ e \in 1 .. n /\ change.valid
            /\ Reference!At(list, change.price) = e
            /\ \A i \in Places : Found(side, change, i) <=> i = e
  <2>1. e \in 1 .. n  BY <1>1, <1>2, <1>5 DEF Found, Places
  <2>2. \A i \in Places : Found(side, change, i) <=> i = e
    BY <1>5, FoundOnce DEF Found
  <2>3. \A i \in 1 .. n : side[i].price = change.price <=> i = e
    BY <1>1, <1>2, <1>5, <2>2 DEF Found
  <2>4. Reference!At(list, change.price) = e  BY <1>2, <2>1, <2>3, AtIs
  <2> QED  BY <1>5, <2>1, <2>2, <2>4 DEF Found
<1>6. CASE \E e \in Places : Emptied(side, change, e)
  <2>1. PICK e \in Places : Emptied(side, change, e)  BY <1>6
  <2>2. \A i \in Places : r[i] = IF i < e THEN side[i]
                                 ELSE IF i = Levels THEN EmptyLevel
                                 ELSE side[i + 1]
    BY <2>1, RemoveEmptied DEF r
  <2>3. e \in 1 .. n /\ change.valid /\ Reference!At(list, change.price) = e
        /\ change.shares >= side[e].shares
    BY <1>5, <2>1 DEF Emptied
  <2>4. n - 1 \in 0 .. Levels /\ \A i \in Places : Live(r[i]) <=> i <= n - 1
    <3>1. n - 1 \in 0 .. Levels  BY <1>2, <2>3, PlacesFacts
    <3>2. ASSUME NEW i \in Places PROVE Live(r[i]) <=> i <= n - 1
      <4>1. CASE i < e
        BY <4>1, <1>1, <1>2, <2>2, <2>3, PlacesFacts DEF Places
      <4>2. CASE ~(i < e) /\ i = Levels
        BY <4>2, <1>2, <2>2, EmptyLevelType, PlacesFacts
      <4>3. CASE ~(i < e) /\ i # Levels
        <5>1. i + 1 \in Places /\ r[i] = side[i + 1]
          BY <4>3, <2>2, PlacesFacts
        <5>2. Live(side[i + 1]) <=> i + 1 <= n  BY <5>1, <1>1
        <5>3. i + 1 <= n <=> i <= n - 1  BY <1>2, PlacesFacts
        <5> QED  BY <5>1, <5>2, <5>3
      <4> QED  BY <4>1, <4>2, <4>3
    <3> QED  BY <3>1, <3>2
  <2>5. Listed(r) = [i \in 1 .. n - 1 |-> r[i]]  BY <2>4, ListedIs
  <2>6. \A i \in 1 .. n - 1 : r[i] = IF i < e THEN side[i] ELSE side[i + 1]
    BY <1>2, <2>2 DEF Places
  <2>7. Listed(r) = [i \in 1 .. n - 1 |-> IF i < e THEN side[i] ELSE side[i + 1]]
    BY <2>5, <2>6
  <2>8. Reference!RemoveAt(list, e)
          = [i \in 1 .. n - 1 |-> IF i < e THEN side[i] ELSE side[i + 1]]
    BY <1>2, <2>3, RemoveAtIs
  <2>9. Reference!Removed(list, change.price, change.shares) = Reference!RemoveAt(list, e)
    BY <1>4, <2>3 DEF Reference!Removed
  <2> QED  BY <1>3, <2>3, <2>7, <2>8, <2>9 DEF r
<1>7. CASE ~ \E e \in Places : Emptied(side, change, e)
  <2>1. \A i \in Places : r[i] = IF Found(side, change, i)
                                   THEN [side[i] EXCEPT !.shares = @ - change.shares]
                                   ELSE side[i]
    BY <1>7, PlacesFacts DEF Remove, r
  <2>2. \A i \in Places : Live(r[i]) <=> i <= n
    BY <1>1, <1>7, RemoveKept DEF r
  <2>3. Listed(r) = [i \in 1 .. n |-> r[i]]  BY <1>1, <2>2, ListedIs
  <2>4. CASE \E e \in Places : Found(side, change, e)
    <3>1. PICK e \in Places : Found(side, change, e)  BY <2>4
    <3>2. /\ e \in 1 .. n /\ change.valid /\ Reference!At(list, change.price) = e
          /\ \A i \in Places : Found(side, change, i) <=> i = e
      BY <1>5, <3>1
    <3>3. ~(change.shares >= side[e].shares)  BY <1>7, <3>1 DEF Emptied
    <3>4. Reference!Removed(list, change.price, change.shares)
            = [list EXCEPT ![e].shares = @ - change.shares]
      <4>1. list[e] = side[e] /\ e # 0  BY <1>4, <3>2
      <4> HIDE DEF list
      <4> QED  BY <4>1, <3>2, <3>3 DEF Reference!Removed
    <3>5. [list EXCEPT ![e].shares = @ - change.shares] = [i \in 1 .. n |-> r[i]]
      BY <1>2, <2>1, <3>2
    <3> QED  BY <1>3, <2>3, <3>2, <3>4, <3>5 DEF r
  <2>5. CASE ~ \E e \in Places : Found(side, change, e)
    <3>1. Listed(r) = list  BY <1>2, <2>1, <2>3, <2>5
    <3>2. ASSUME change.valid
          PROVE Reference!Removed(list, change.price, change.shares) = list
      <4>1. \A i \in 1 .. n : side[i].price # change.price
        BY <1>1, <1>2, <2>5, <3>2 DEF Found
      <4>2. Reference!At(list, change.price) = 0  BY <1>2, <4>1, AtMisses
      <4> QED  BY <4>2 DEF Reference!Removed
    <3> QED  BY <1>3, <3>1, <3>2 DEF r
  <2> QED  BY <2>4, <2>5
<1> QED  BY <1>6, <1>7

(* The list after an insertion is the software model's.                     *)
LEMMA ListedInsert ==
  ASSUME NEW ask \in BOOLEAN, NEW side \in Side, NEW change \in Change,
         Sound(ask, side), change.valid, change.shares # 0
  PROVE  Listed(Insert(ask, side, change)) =
           Reference!Inserted(Listed(side), ask, change.price, change.shares)
<1> DEFINE n == Depth(side)
           r == Insert(ask, side, change)
           list == [i \in 1 .. n |-> side[i]]
           place == [price |-> change.price, shares |-> change.shares]
<1>1. n \in 0 .. Levels /\ \A i \in Places : Live(side[i]) <=> i <= n
  BY DepthOfSide DEF Sound
<1>2. n \in Nat /\ n <= Levels /\ 1 .. n \subseteq Places
  BY <1>1, PlacesFacts DEF Places
<1>3. Listed(side) = list  BY DEF Listed
<1>4. Len(list) = n /\ DOMAIN list = 1 .. n /\ \A i \in 1 .. n : list[i] = side[i]
  BY <1>2
<1> HIDE DEF n, r
<1>5. CASE \E m \in Places : Matched(side, change, m)
  <2>1. PICK e \in Places : Matched(side, change, e)  BY <1>5
  <2>2. e \in 1 .. n  BY <1>1, <1>2, <2>1 DEF Matched, Places
  <2>3. \A i \in Places : Matched(side, change, i) <=> i = e
    BY <2>1, FoundOnce DEF Matched
  <2>4. \A i \in 1 .. n : side[i].price = change.price <=> i = e
    BY <1>1, <1>2, <2>3 DEF Matched
  <2>5. Reference!At(list, change.price) = e  BY <1>2, <2>2, <2>4, AtIs
  <2>6. \A i \in Places : r[i] =
          IF i = e THEN [side[i] EXCEPT !.shares = Saturating(@, change.shares)]
          ELSE side[i]
    BY <1>5, <2>3 DEF Insert, r
  <2>7. \A i \in Places : Live(r[i]) <=> i <= n
    BY <1>1, <1>5, InsertHeld DEF r
  <2>8. Listed(r) = [i \in 1 .. n |-> r[i]]  BY <1>1, <2>7, ListedIs
  <2>9. Reference!Inserted(list, ask, change.price, change.shares)
          = [list EXCEPT ![e].shares = Reference!Lesser(@ + change.shares, MaxShares)]
    <3>1. e # 0  BY <2>2
    <3> HIDE DEF list
    <3> QED  BY <3>1, <2>5 DEF Reference!Inserted
  <2>10. \A a \in Int : Saturating(a, change.shares) = Reference!Lesser(a + change.shares, MaxShares)
    BY BookSideAssumption DEF Saturating, Reference!Lesser, Change
  <2>11. side[e].shares \in Int  BY BookSideAssumption DEF Side, Level
  <2>12. [list EXCEPT ![e].shares = Reference!Lesser(@ + change.shares, MaxShares)]
           = [i \in 1 .. n |-> r[i]]
    BY <1>2, <2>2, <2>6, <2>10, <2>11
  <2> QED  BY <1>3, <2>8, <2>9, <2>12 DEF r
<1>6. CASE ~ \E m \in Places : Matched(side, change, m)
  <2> DEFINE ahead(i) == Ahead(ask, side, change, i)
             A == {k \in 1 .. n : Reference!Better(ask, side[k].price, change.price)}
             k == Cardinality(A)
             longer == Reference!InsertAt(list, k + 1, place)
  <2>1. \A i \in Places : r[i] = IF ahead(i) THEN side[i]
                                 ELSE IF i = 1 \/ ahead(i - 1) THEN place
                                 ELSE side[i - 1]
    BY <1>6 DEF Insert, r
  <2>2. \A i, j \in Places : i < j /\ ahead(j) => ahead(i)
    BY AheadFirst
  <2>3. \A i \in Places : ahead(i) <=> i \in A
    BY <1>1, <1>2 DEF Ahead, Better, Reference!Better, Places
  <2>4. PICK m \in 0 .. n : A = 1 .. m
    <3>1. \A i \in A, j \in 1 .. n : j < i => j \in A
      BY <1>2, <2>2, <2>3
    <3>2. A \subseteq 1 .. n  OBVIOUS
    <3> HIDE DEF A
    <3>3. CASE A = 1 .. n  BY <3>3, <1>2
    <3>4. CASE A # 1 .. n
      <4> DEFINE T == (1 .. n) \ A
      <4>1. T \in SUBSET Nat
        <5>1. 1 .. n \subseteq Nat  BY <1>2
        <5> QED  BY <5>1
      <4>0. T # {}  BY <3>2, <3>4
      <4>2. PICK x \in T : \A y \in T : x <= y  BY <4>0, <4>1, LeastNumber
      <4>3. x \in 1 .. n /\ x \notin A /\ x - 1 \in 0 .. n  BY <4>2, <1>2
      <4>4. ASSUME NEW y \in A PROVE y \in 1 .. x - 1
        <5>1. y \in 1 .. n /\ y # x  BY <3>2, <4>3, <4>4
        <5>2. ~(x < y)  BY <3>1, <4>3, <4>4
        <5> QED  BY <5>1, <5>2, <4>3, <1>2
      <4>5. ASSUME NEW y \in 1 .. x - 1 PROVE y \in A
        <5>1. y \in 1 .. n /\ ~(x <= y)  BY <4>3, <4>5, <1>2
        <5> QED  BY <5>1, <4>2
      <4>6. A = 1 .. x - 1  BY <4>4, <4>5
      <4> QED  BY <4>3, <4>6
    <3> QED  BY <3>3, <3>4
  <2>5. k = m /\ m \in Nat
    <3>1. m \in Nat  BY <1>2, <2>4
    <3>2. Cardinality(1 .. m) = m  BY <3>1, FirstOnes
    <3> QED  BY <3>1, <3>2, <2>4
  <2> HIDE DEF A
  <2>6. \A i \in Places : ahead(i) <=> i <= m
    BY <1>2, <2>3, <2>4 DEF Places
  <2> HIDE DEF ahead
  <2>7. \A i \in Places : r[i] = IF i <= m THEN side[i]
                                 ELSE IF i = m + 1 THEN place ELSE side[i - 1]
    <3>1. SUFFICES ASSUME NEW i \in Places
                   PROVE r[i] = IF i <= m THEN side[i]
                                ELSE IF i = m + 1 THEN place ELSE side[i - 1]
      OBVIOUS
    <3>2. ahead(i) <=> i <= m  BY <2>6
    <3>3. i # 1 => i - 1 \in Places /\ (ahead(i - 1) <=> i <= m + 1)
      BY <2>5, <2>6, PlacesFacts
    <3>4. i \in Int /\ i >= 1  BY DEF Places
    <3>5. r[i] = IF ahead(i) THEN side[i]
                 ELSE IF i = 1 \/ ahead(i - 1) THEN place ELSE side[i - 1]
      BY <2>1
    <3>6. CASE i <= m  BY <3>2, <3>5, <3>6
    <3>7. CASE i = m + 1
      BY <3>2, <3>3, <3>4, <3>5, <3>7, <2>5
    <3>8. CASE i > m + 1
      BY <3>2, <3>3, <3>4, <3>5, <3>8, <2>5
    <3> QED  BY <3>4, <3>6, <3>7, <3>8, <2>5
  <2>8. Live(place)  BY DEF Live
  <2>9. PICK d \in 0 .. Levels : d = Reference!Lesser(n + 1, Levels)
    BY <1>2, PlacesFacts DEF Reference!Lesser
  <2>10. \A i \in Places : Live(r[i]) <=> i <= d
    <3>1. SUFFICES ASSUME NEW i \in Places PROVE Live(r[i]) <=> i <= n + 1
      BY <1>2, <2>9, PlacesFacts DEF Places, Reference!Lesser
    <3>2. CASE i <= m  BY <3>2, <1>1, <1>2, <2>4, <2>7, PlacesFacts
    <3>3. CASE i = m + 1  BY <3>3, <2>4, <2>5, <2>7, <2>8, <1>2
    <3>4. CASE i > m + 1
      <4>1. i - 1 \in Places /\ r[i] = side[i - 1]
        BY <3>4, <2>5, <2>7, PlacesFacts
      <4> QED  BY <4>1, <1>1, <1>2, PlacesFacts
    <3> QED  BY <3>2, <3>3, <3>4, <2>5, PlacesFacts
  <2>11. Listed(r) = [i \in 1 .. d |-> r[i]]  BY <2>10, ListedIs
  <2>12. longer = [i \in 1 .. n + 1 |-> IF i < m + 1 THEN side[i]
                                        ELSE IF i = m + 1 THEN place ELSE side[i - 1]]
    <3>1. longer = Reference!InsertAt(list, m + 1, place)  BY <2>5
    <3>2. m + 1 \in 1 .. n + 1  BY <1>2, <2>4
    <3>3. Reference!InsertAt(list, m + 1, place) = PutIn(n, side, m + 1, place)
      <4> HIDE DEF place
      <4> QED  BY <1>2, <3>2, InsertAtIs
    <3> QED  BY <3>1, <3>3 DEF PutIn
  <2>13. \A i \in 1 .. n : side[i].price # change.price
    BY <1>1, <1>2, <1>6 DEF Matched
  <2>14. Reference!At(list, change.price) = 0  BY <1>2, <2>13, AtMisses
  <2>15. k = Reference!Cardinality({j \in DOMAIN list : Reference!Better(ask, list[j].price, change.price)})
    <3>1. A = {j \in DOMAIN list : Reference!Better(ask, list[j].price, change.price)}
      BY <1>4 DEF A
    <3> HIDE DEF list
    <3> QED  BY <3>1 DEF Cardinality, Reference!Cardinality
  <2>16. Reference!Inserted(list, ask, change.price, change.shares)
           = SubSeq(longer, 1, Reference!Lesser(Len(longer), Levels))
    <3> HIDE DEF list, k
    <3> QED  BY <2>14, <2>15 DEF Reference!Inserted
  <2>17. Len(longer) = n + 1  BY <1>2, <2>12
  <2>18. SubSeq(longer, 1, d) = [i \in 1 .. d |-> longer[i]]
    BY <2>12, <2>9, PlacesFacts
  <2>19. \A i \in 1 .. d : longer[i] = r[i]
    <3> HIDE DEF longer, place, k
    <3>1. SUFFICES ASSUME NEW i \in 1 .. d PROVE longer[i] = r[i]
      OBVIOUS
    <3>2. d <= Levels /\ d <= n + 1
      BY <1>2, <2>9, PlacesFacts DEF Reference!Lesser
    <3>3. i \in Places /\ i \in 1 .. n + 1
      BY <1>2, <3>2, PlacesFacts DEF Places
    <3>4. longer[i] = IF i < m + 1 THEN side[i]
                      ELSE IF i = m + 1 THEN place ELSE side[i - 1]
      BY <2>12, <3>3
    <3>5. i < m + 1 <=> i <= m  BY <2>5, <3>3
    <3> QED  BY <2>7, <3>3, <3>4, <3>5
  <2> QED  BY <1>3, <2>9, <2>11, <2>16, <2>17, <2>18, <2>19 DEF r
<1> QED  BY <1>5, <1>6

(* Nothing inserted leaves the side as it was.                              *)
LEMMA InsertNothing ==
  ASSUME NEW ask, NEW side \in Side, NEW change, ~change.valid
  PROVE  Insert(ask, side, change) = side
<1>1. Insert(ask, side, change) = [i \in Places |-> side[i]]
  BY DEF Insert
<1> QED  BY <1>1 DEF Side

(* An order is taken by the book when the software model takes it.          *)
LEMMA TakesIs ==
  ASSUME NEW ask \in BOOLEAN, NEW opposite \in Side, Gapless(opposite),
         NEW change \in Change
  PROVE  Accepted(ask, opposite[1], change) <=>
           /\ change.valid
           /\ Reference!Takes(ask, change.price, change.shares, Listed(opposite))
<1> DEFINE n == Depth(opposite)
<1>1. n \in 0 .. Levels /\ \A i \in Places : Live(opposite[i]) <=> i <= n
  BY DepthOfSide
<1>2. Live(opposite[1]) <=> n >= 1  BY <1>1, PlacesFacts
<1>3. Listed(opposite) = [i \in 1 .. n |-> opposite[i]]  BY DEF Listed
<1> HIDE DEF n
<1>4. n >= 1 => Listed(opposite) # <<>> /\ Listed(opposite)[1] = opposite[1]
  BY <1>1, <1>3
<1>5. ~(n >= 1) => Listed(opposite) = <<>>
  BY <1>1, <1>3
<1>6. opposite[1].price \in Int /\ change.price \in Int
  BY PlacesFacts, BookSideAssumption DEF Side, Level, Change
<1>7. CASE n >= 1
  <2>1. CASE ask = TRUE
    BY <1>2, <1>4, <1>6, <1>7, <2>1 DEF Accepted, Crosses, Reference!Takes
  <2>2. CASE ask = FALSE
    BY <1>2, <1>4, <1>6, <1>7, <2>2 DEF Accepted, Crosses, Reference!Takes
  <2> QED  BY <2>1, <2>2
<1>8. CASE ~(n >= 1)
  BY <1>2, <1>5, <1>8 DEF Accepted, Crosses, Reference!Takes
<1> QED  BY <1>7, <1>8

-----------------------------------------------------------------------------
(* The orders of the table.                                                 *)

(* A reference is its tag and its slot.                                     *)
LEMMA OrderParts ==
  ASSUME NEW order \in Nat
  PROVE  /\ SlotOf(order) \in Slots
         /\ TagOf(order) \in Nat
         /\ order = TagOf(order) * SlotCount + SlotOf(order)
         /\ \A t \in Nat : t * SlotCount + SlotOf(order) = order <=> t = TagOf(order)
<1> DEFINE q == TagOf(order)
           r == SlotOf(order)
<1>1. SlotCount \in Nat /\ SlotCount >= 1  BY OrderBookAssumption
<1>2. r \in 0 .. SlotCount - 1  BY <1>1 DEF SlotOf
<1>3. q \in Nat  BY <1>1 DEF TagOf
<1>4. order = SlotCount * q + r  BY <1>1 DEF SlotOf, TagOf
<1> HIDE DEF q, r
<1>5. order = q * SlotCount + r  BY <1>1, <1>3, <1>4, <1>2
<1>6. ASSUME NEW t \in Nat, t * SlotCount + r = order PROVE t = q
  <2>1. t * SlotCount = q * SlotCount  BY <1>1, <1>2, <1>3, <1>5, <1>6
  <2>2. (t - q) * SlotCount = 0  BY <2>1, <1>1, <1>3
  <2> QED  BY <2>2, <1>1, <1>3
<1> QED  BY <1>2, <1>3, <1>5, <1>6 DEF Slots, q, r

(* A table with one slot written.                                           *)
Written(m, p, e) == [s \in Slots |-> IF s = p THEN e ELSE m[s]]

(* The orders after one slot is written with an order.                      *)
LEMMA OrdersWith ==
  ASSUME NEW m, NEW p \in Slots, NEW e, e.live
  PROVE  Orders(Written(m, p, e))
           = Reference!With(Orders(m), p, OrderIn(e, p))
<1> DEFINE n == Written(m, p, e)
<1>1. {i \in Slots : n[i].live} = {i \in Slots : m[i].live} \cup {p}  BY DEF Written
<1>2. \A s \in Slots : n[s] = IF s = p THEN e ELSE m[s]  BY DEF Written
<1> HIDE DEF n
<1>3. DOMAIN Orders(m) = {i \in Slots : m[i].live}  BY DEF Orders
<1>4. \A s \in {i \in Slots : m[i].live} : Orders(m)[s] = OrderIn(m[s], s)
  BY DEF Orders
<1>5. Orders(n) = Reference!With(Orders(m), p, OrderIn(e, p))
  BY <1>1, <1>2, <1>3, <1>4 DEF Reference!With, Orders
<1> QED  BY <1>5 DEF n

(* The orders after one slot is emptied.                                    *)
Dropped(orders, p) == [s \in DOMAIN orders \ {p} |-> orders[s]]

(* A slot written with a dead entry holds no order.                         *)
LEMMA OrdersWithout ==
  ASSUME NEW m, NEW p \in Slots, NEW e, ~e.live
  PROVE  Orders(Written(m, p, e))
           = Dropped(Orders(m), p)
<1> DEFINE n == Written(m, p, e)
<1>1. {i \in Slots : n[i].live} = {i \in Slots : m[i].live} \ {p}  BY DEF Written
<1>2. \A s \in Slots : n[s] = IF s = p THEN e ELSE m[s]  BY DEF Written
<1> HIDE DEF n
<1>3. DOMAIN Orders(m) = {i \in Slots : m[i].live}  BY DEF Orders
<1>4. \A s \in {i \in Slots : m[i].live} : Orders(m)[s] = OrderIn(m[s], s)
  BY DEF Orders
<1>5. Orders(n) = Dropped(Orders(m), p)
  BY <1>1, <1>2, <1>3, <1>4 DEF Orders, Dropped
<1> QED  BY <1>5 DEF n

(* The orders after one of them is left with k shares.                      *)
Reduced(orders, p, k) == [orders EXCEPT ![p].shares = k]

(* A slot written with fewer shares holds the same order with fewer.        *)
LEMMA OrdersReduced ==
  ASSUME NEW m \in [Slots -> Entry], NEW p \in Slots, m[p].live, NEW k,
         NEW e, e = [m[p] EXCEPT !.shares = k]
  PROVE  Orders(Written(m, p, e)) = Reduced(Orders(m), p, k)
<1> DEFINE n == Written(m, p, e)
<1>1. m[p] \in Entry  OBVIOUS
<1>2. e.live /\ OrderIn(e, p) = [OrderIn(m[p], p) EXCEPT !.shares = k]
  BY <1>1 DEF Entry, OrderIn
<1>3. {i \in Slots : n[i].live} = {i \in Slots : m[i].live}  BY <1>2 DEF Written
<1>4. \A s \in Slots : n[s] = IF s = p THEN e ELSE m[s]  BY DEF Written
<1> HIDE DEF n
<1>5. DOMAIN Orders(m) = {i \in Slots : m[i].live} /\ p \in DOMAIN Orders(m)
  BY DEF Orders
<1>6. \A s \in {i \in Slots : m[i].live} : Orders(m)[s] = OrderIn(m[s], s)
  BY DEF Orders
<1>7. Orders(n) = Reduced(Orders(m), p, k)
  BY <1>2, <1>3, <1>4, <1>5, <1>6 DEF Orders, Reduced
<1> QED  BY <1>7 DEF n

-----------------------------------------------------------------------------
(* The event at the head of the pipeline was read from the table as it is,  *)
(* and the sweep leaves nothing behind it.                                  *)
PortsCurrent ==
  Valid => /\ Ready
           /\ table_a = memory[SlotOf(current.order)]
           /\ table_b = memory[SlotOf(current.new_order)]
Swept == ~Ready => \A s \in Slots : s < sweep => ~memory[s].live
ReadTrue == PortsCurrent /\ Swept

(* Only an event or the sweep writes the table.                             *)
LEMMA MemoryKept ==
  ASSUME TypeOK, ~Valid, Ready
  PROVE  Memory = memory
<1>1. ~WritesA /\ ~WriteB  BY DEF WritesA, WriteA, WriteB
<1>2. Memory = [s \in Slots |-> memory[s]]  BY <1>1 DEF Memory
<1> QED  BY <1>2 DEF TypeOK

(* While the sweep runs it writes its slot, and nothing else is written.    *)
LEMMA MemorySwept ==
  ASSUME TypeOK, ~Valid, ~Ready
  PROVE  Memory = Written(memory, sweep, Empty)
BY DEF Written, WritesA, WriteB, DataA, PlaceA, Memory

(* At power up no event is at the head and the sweep has passed no slot.    *)
LEMMA InitReadTrue == Init => ReadTrue
BY DEF Init, ReadTrue, PortsCurrent, Swept, Valid, Slots

(* Every step keeps both: an event arrives only when no write is under way, *)
(* and the sweep empties the slots in order.                                *)
LEMMA NextReadTrue == TypeOK /\ ReadTrue /\ [Next]_vars => ReadTrue'
<1> SUFFICES ASSUME TypeOK, ReadTrue, [Next]_vars PROVE ReadTrue'
  OBVIOUS
<1>1. ASSUME memory' = Memory, sweep' = NextSweep(sweep), NextSweep(sweep) # SlotCount
      PROVE Swept'
  <2>1. sweep # SlotCount /\ sweep' = sweep + 1 /\ sweep \in Int
    BY <1>1, OrderBookAssumption DEF NextSweep, TypeOK
  <2>2. ~Valid /\ ~Ready  BY <2>1 DEF ReadTrue, PortsCurrent, Ready
  <2>3. memory' = Written(memory, sweep, Empty)
    BY <1>1, <2>2, MemorySwept
  <2>4. ~Empty.live  BY DEF Empty
  <2> QED
    BY <2>1, <2>2, <2>3, <2>4 DEF ReadTrue, Swept, Slots, Written
<1>2. ASSUME memory' = Memory, sweep' = NextSweep(sweep) PROVE Swept'
  <2>1. NextSweep(sweep) = SlotCount => Ready'  BY <1>2 DEF Ready
  <2> QED  BY <1>1, <1>2, <2>1 DEF Swept
<1>3. CASE Quiet
  <2>1. ~Valid'  BY <1>3 DEF Quiet, NoEventRead, Valid
  <2> QED  BY <1>2, <1>3, <2>1 DEF Quiet, Update, ReadTrue, PortsCurrent
<1>4. ASSUME NEW event \in Events, Arrive(event) PROVE ReadTrue'
  <2>1. Swept'  BY <1>2, <1>4 DEF Arrive, Update
  <2>2. CASE ~Ready
    <3>1. ~Valid'  BY <1>4, <2>2 DEF Arrive, NoEventRead, Valid
    <3> QED  BY <2>1, <3>1 DEF ReadTrue, PortsCurrent
  <2>3. CASE Ready
    <3>1. memory' = memory  BY <1>4, <2>3, MemoryKept DEF Arrive, Update
    <3>2. ~WritesA /\ ~WriteB  BY <1>4, <2>3 DEF Arrive, WritesA, WriteA, WriteB
    <3>3. current' = event /\ table_a' = memory[SlotOf(event.order)]
          /\ table_b' = memory[SlotOf(event.new_order)]
      BY <1>4, <2>3, <3>2 DEF Arrive, ReadA, ReadB
    <3>4. sweep' = sweep  BY <1>4, <2>3 DEF Arrive, NextSweep, Ready
    <3> QED  BY <2>1, <2>3, <3>1, <3>3, <3>4 DEF ReadTrue, PortsCurrent, Ready, SlotOf
  <2> QED  BY <2>2, <2>3
<1>5. CASE Clear
  <2>1. ~Valid' /\ sweep' = 0  BY <1>5 DEF Clear, NoEventRead, Valid
  <2>2. \A s \in Slots : ~(s < 0)  BY DEF Slots
  <2> QED  BY <2>1, <2>2 DEF ReadTrue, PortsCurrent, Swept
<1>6. CASE UNCHANGED vars
  BY <1>6 DEF vars, ReadTrue, PortsCurrent, Swept, Valid, Ready
<1> QED  BY <1>3, <1>4, <1>5, <1>6 DEF Next

-----------------------------------------------------------------------------
(* What the software model has of the current event's symbol.               *)

(* What the model has of a symbol's side is the list of its levels.         *)
LEMMA SidesAre ==
  ASSUME NEW s \in Symbols, NEW ask \in BOOLEAN
  PROVE  Sides[s][ask] = Listed(levels[s][ask])
BY DEF Sides

(* The list of the updated side.                                            *)
LEMMA UpdatedList ==
  ASSUME TypeOK, SidesSound, Valid
  PROVE  /\ Takes <=> /\ Insertion.valid
                      /\ Reference!Takes(Ask, Insertion.price, Insertion.shares,
                                         Sides[current.symbol][~Ask])
         /\ Listed(UpdatedSide) =
              LET held == Sides[current.symbol][Ask]
                  left == IF Removal.valid
                            THEN Reference!Removed(held, Removal.price, Removal.shares)
                            ELSE held
              IN IF Takes THEN Reference!Inserted(left, Ask, Insertion.price, Insertion.shares)
                 ELSE left
<1> DEFINE side == levels[current.symbol][Ask]
           opposite == levels[current.symbol][~Ask]
           left == Remove(side, Removal)
           insert == [Insertion EXCEPT !.valid = Takes]
<1>1. current.symbol \in Symbols /\ Ask \in BOOLEAN /\ (~Ask) \in BOOLEAN
      /\ Removal \in Change /\ Insertion \in Change
  BY CurrentEvent, ChangeTypes
<1>2. side \in Side /\ opposite \in Side  BY <1>1 DEF TypeOK
<1>3. Sound(Ask, side) /\ Gapless(opposite)  BY <1>1 DEF SidesSound, Sound
<1>4. Takes <=> /\ Insertion.valid
                /\ Reference!Takes(Ask, Insertion.price, Insertion.shares,
                                   Sides[current.symbol][~Ask])
  <2>1. Sides[current.symbol][~Ask] = Listed(opposite)  BY <1>1, SidesAre
  <2>2. Takes = Accepted(Ask, opposite[1], Insertion)  BY DEF Takes, OppositeBest
  <2> HIDE DEF opposite
  <2>3. Accepted(Ask, opposite[1], Insertion) <=>
          /\ Insertion.valid
          /\ Reference!Takes(Ask, Insertion.price, Insertion.shares, Listed(opposite))
    BY <1>1, <1>2, <1>3, TakesIs
  <2> QED  BY <2>1, <2>2, <2>3
<1>5. left \in Side /\ Sound(Ask, left)  BY <1>1, <1>2, <1>3, RemoveType, RemoveSound
<1>6. Listed(left) = IF Removal.valid
                       THEN Reference!Removed(Sides[current.symbol][Ask], Removal.price, Removal.shares)
                       ELSE Sides[current.symbol][Ask]
  BY <1>1, <1>2, <1>3, ListedRemove, SidesAre
<1>7. Takes \in BOOLEAN  BY <1>1 DEF Takes, Accepted, Change
<1>8. /\ insert \in Change /\ insert.valid = Takes
      /\ insert.price = Insertion.price /\ insert.shares = Insertion.shares
  BY <1>1, <1>7 DEF Change
<1>9. UpdatedSide = Insert(Ask, left, insert)
  BY DEF UpdatedSide, Updated, Takes
<1>10. Takes => Insertion.shares # 0  BY DEF Takes, Accepted
<1> HIDE DEF left, insert
<1>11. CASE Takes
  <2>1. Listed(UpdatedSide) = Reference!Inserted(Listed(left), Ask, Insertion.price, Insertion.shares)
    <3>1. insert.valid /\ insert.shares # 0  BY <1>8, <1>10, <1>11
    <3>2. Listed(Insert(Ask, left, insert))
            = Reference!Inserted(Listed(left), Ask, insert.price, insert.shares)
      BY <1>1, <1>5, <1>8, <3>1, ListedInsert
    <3> QED  BY <1>8, <1>9, <3>2
  <2> QED  BY <1>4, <1>6, <1>11, <2>1
<1>12. CASE ~Takes
  <2>1. Listed(UpdatedSide) = Listed(left)
    BY <1>5, <1>8, <1>9, <1>12, InsertNothing
  <2> QED  BY <1>4, <1>6, <1>12, <2>1
<1> QED  BY <1>11, <1>12

(* What the software model sees of the registers' update.                   *)
LEMMA UpdateSeen ==
  ASSUME TypeOK, SidesSound, Valid, Update
  PROVE  /\ Sides' = [Sides EXCEPT ![current.symbol][Ask] = Listed(UpdatedSide)]
         /\ flow' = IF Trades THEN [flow EXCEPT ![current.symbol] = FlowNext] ELSE flow
         /\ Reference!Shows(current.symbol, Sides', flow')
<1>1. current.symbol \in Symbols /\ Ask \in BOOLEAN
  BY CurrentEvent, ChangeTypes
<1>2. /\ levels' = [levels EXCEPT ![current.symbol][Ask] = UpdatedSide]
      /\ flow' = [flow EXCEPT ![current.symbol] = IF Trades THEN FlowNext ELSE @]
      /\ book' = [symbol |-> current.symbol,
                  bids |-> IF Ask THEN levels[current.symbol][FALSE] ELSE UpdatedSide,
                  asks |-> IF Ask THEN UpdatedSide ELSE levels[current.symbol][TRUE],
                  flow |-> IF Trades THEN FlowNext ELSE flow[current.symbol]]
  BY DEF Update
<1>3. levels \in [Symbols -> [BOOLEAN -> Side]] /\ flow \in [Symbols -> Int]
  BY DEF TypeOK
<1>4. flow' = IF Trades THEN [flow EXCEPT ![current.symbol] = FlowNext] ELSE flow
  BY <1>1, <1>2, <1>3
<1>5. \A s \in Symbols, ask \in BOOLEAN :
        levels'[s][ask] = IF s = current.symbol /\ ask = Ask THEN UpdatedSide
                          ELSE levels[s][ask]
  BY <1>1, <1>2, <1>3
<1>6. Sides' = [s \in Symbols |-> [ask \in BOOLEAN |-> Listed(levels'[s][ask])]]
  BY DEF Sides, Listed, Depth
<1>7. Sides' = [Sides EXCEPT ![current.symbol][Ask] = Listed(UpdatedSide)]
  <2>1. Sides = [s \in Symbols |-> [ask \in BOOLEAN |-> Listed(levels[s][ask])]]
    BY DEF Sides
  <2> DEFINE u == Listed(UpdatedSide)
  <2>2. \A s \in Symbols, ask \in BOOLEAN :
          Listed(levels'[s][ask]) = IF s = current.symbol /\ ask = Ask THEN u
                                    ELSE Listed(levels[s][ask])
    BY <1>5
  <2> HIDE DEF u
  <2>3. Sides' = [s \in Symbols |-> [ask \in BOOLEAN |->
                    IF s = current.symbol /\ ask = Ask THEN u ELSE Listed(levels[s][ask])]]
    BY <1>6, <2>2
  <2>4. [Sides EXCEPT ![current.symbol][Ask] = u]
          = [s \in Symbols |-> [ask \in BOOLEAN |->
               IF s = current.symbol /\ ask = Ask THEN u ELSE Listed(levels[s][ask])]]
    BY <1>1, <2>1
  <2> QED  BY <2>3, <2>4 DEF u
<1>8. flow'[current.symbol] = book'.flow  BY <1>1, <1>2, <1>3
<1>9. /\ Sides'[current.symbol][FALSE] = Listed(book'.bids)
      /\ Sides'[current.symbol][TRUE] = Listed(book'.asks)
  <2>1. /\ levels'[current.symbol][FALSE] = book'.bids
        /\ levels'[current.symbol][TRUE] = book'.asks
    <3>1. CASE Ask = TRUE  BY <1>1, <1>2, <1>5, <3>1
    <3>2. CASE Ask = FALSE  BY <1>1, <1>2, <1>5, <3>2
    <3> QED  BY <1>1, <3>1, <3>2
  <2> QED  BY <1>1, <1>6, <2>1
<1>10. book' # NoBook /\ book'.symbol = current.symbol
  <2>1. "flow" \in DOMAIN book'  BY <1>2
  <2>2. DOMAIN NoBook = {}  BY DEF NoBook
  <2> QED  BY <1>2, <2>1, <2>2
<1>11. Shown' = [symbol |-> book'.symbol, bids |-> Listed(book'.bids),
                 asks |-> Listed(book'.asks), flow |-> book'.flow]
  BY <1>10 DEF Shown, Listed, Depth, NoBook
<1> QED  BY <1>4, <1>7, <1>8, <1>9, <1>10, <1>11 DEF Reference!Shows

(* What the software model has of the current event's slots.                *)
LEMMA TableRead ==
  ASSUME TypeOK, ReadTrue, Valid
  PROVE  /\ SlotOf(current.order) \in Slots /\ SlotOf(current.new_order) \in Slots
         /\ Table = Orders(memory)
         /\ DOMAIN Table = {s \in Slots : memory[s].live}
         /\ SlotOf(current.order) \in DOMAIN Table <=> table_a.live
         /\ SlotOf(current.new_order) \in DOMAIN Table <=> table_b.live
         /\ table_a.live =>
              Table[SlotOf(current.order)] = OrderIn(table_a, SlotOf(current.order))
         /\ Reference!Held <=> Hit
<1> DEFINE a == SlotOf(current.order)
           b == SlotOf(current.new_order)
<1>1. current \in Event /\ current.order \in Nat /\ current.new_order \in Nat
  BY CurrentEvent DEF Event
<1>2. a \in Slots /\ b \in Slots  BY <1>1, OrderParts
<1>3. Ready /\ table_a = memory[a] /\ table_b = memory[b]
  BY DEF ReadTrue, PortsCurrent
<1>4. Table = Orders(memory)  BY <1>3 DEF Table
<1>5. DOMAIN Table = {s \in Slots : memory[s].live}  BY <1>4 DEF Orders
<1>6. table_a.live => Table[a] = OrderIn(table_a, a)
  BY <1>2, <1>3, <1>4 DEF Orders
<1>7. Reference!Held <=> Hit
  <2>1. Reference!Slot(current.order) = a  BY DEF Reference!Slot, SlotOf
  <2>2. Reference!Held <=> /\ table_a.live
                           /\ Table[a].order = current.order
                           /\ Table[a].symbol = current.symbol
    BY <1>2, <1>3, <1>5, <2>1 DEF Reference!Held
  <2>3. table_a.live => /\ Table[a].order = table_a.tag * SlotCount + a
                        /\ Table[a].symbol = table_a.symbol
    BY <1>6 DEF OrderIn
  <2>4. table_a.tag \in Nat  BY OrderBookAssumption DEF TypeOK, Entry
  <2>5. table_a.tag * SlotCount + a = current.order <=> table_a.tag = TagOf(current.order)
    BY <1>1, <2>4, OrderParts
  <2> QED  BY <2>2, <2>3, <2>5 DEF Hit
<1> QED  BY <1>2, <1>3, <1>4, <1>5, <1>6, <1>7

(* The table after the ports have written, port A last.                     *)
LEMMA MemoryWritten ==
  ASSUME TypeOK, ReadTrue, Valid
  PROVE  LET b == IF WriteB THEN Written(memory, SlotOf(current.new_order),
                                         Added(current.new_order, table_a.side))
                  ELSE memory
         IN Memory = IF WriteA THEN Written(b, SlotOf(current.order), EntryA) ELSE b
<1> DEFINE b == IF WriteB THEN Written(memory, SlotOf(current.new_order),
                                       Added(current.new_order, table_a.side))
                ELSE memory
<1>1. Ready  BY DEF ReadTrue, PortsCurrent
<1>3. WritesA = WriteA /\ DataA = EntryA /\ PlaceA = SlotOf(current.order)
  BY <1>1 DEF WritesA, DataA, PlaceA, WriteA
<1>5. b = [s \in Slots |-> IF WriteB /\ s = SlotOf(current.new_order)
                             THEN Added(current.new_order, table_a.side) ELSE memory[s]]
  BY DEF Written, TypeOK
<1> HIDE DEF b
<1>6. Memory = [s \in Slots |-> IF WriteA /\ s = SlotOf(current.order) THEN EntryA ELSE b[s]]
  BY <1>3, <1>5 DEF Memory
<1>7. Memory = IF WriteA THEN Written(b, SlotOf(current.order), EntryA) ELSE b
  BY <1>5, <1>6 DEF Written
<1> QED  BY <1>7 DEF b

(* The orders after the ports have written.                                 *)
LEMMA TableWritten ==
  ASSUME TypeOK, ReadTrue, Valid, Update, Ready'
  PROVE  LET b == IF WriteB THEN Written(memory, SlotOf(current.new_order),
                                         Added(current.new_order, table_a.side))
                  ELSE memory
         IN Table' = Orders(IF WriteA THEN Written(b, SlotOf(current.order), EntryA) ELSE b)
<1>1. memory' = Memory  BY DEF Update
<1>2. Table' = Orders(Memory)  BY <1>1 DEF Table, Orders
<1> QED  BY <1>2, MemoryWritten

(* The book after an event that takes nothing off it and adds nothing.      *)
LEMMA NothingDone ==
  ASSUME TypeOK, SidesSound, ReadTrue, Valid, Update, Ready',
         ~Removal.valid, ~Takes, ~WriteA, ~WriteB, ~Trades
  PROVE  Reference!Ignored
<1>1. current.symbol \in Symbols /\ Ask \in BOOLEAN  BY CurrentEvent, ChangeTypes
<1>2. Listed(UpdatedSide) = Sides[current.symbol][Ask]  BY UpdatedList
<1>3. Sides' = Sides
  <2>1. Sides' = [Sides EXCEPT ![current.symbol][Ask] = Sides[current.symbol][Ask]]
    BY <1>2, UpdateSeen
  <2> QED  BY <1>1, <2>1 DEF Sides
<1>4. flow' = flow /\ Reference!Shows(current.symbol, Sides', flow')  BY UpdateSeen
<1>5. Table' = Table  BY TableWritten, TableRead
<1> QED  BY <1>3, <1>4, <1>5 DEF Reference!Ignored

(* An added order.                                                          *)
LEMMA AddApplied ==
  ASSUME TypeOK, SidesSound, ReadTrue, Valid, Update, Ready', current.kind = "Add"
  PROVE  Reference!Add
<1> DEFINE a == SlotOf(current.order)
           order == [order |-> current.order, symbol |-> current.symbol,
                     ask |-> current.side, price |-> current.price,
                     shares |-> current.shares]
           taken == Reference!Takes(current.side, current.price, current.shares,
                                    Sides[current.symbol][~current.side])
           inserted == Reference!Inserted(Sides[current.symbol][current.side],
                                          current.side, current.price, current.shares)
<1>1. current \in Event /\ current.symbol \in Symbols  BY CurrentEvent
<1>2. /\ Ask = current.side /\ ~Removal.valid /\ ~WriteB /\ ~Trades
      /\ Insertion.price = current.price /\ Insertion.shares = current.shares
      /\ Insertion.valid <=> ~table_a.live
      /\ WriteA <=> Takes
      /\ EntryA = Added(current.order, current.side)
  BY DEF Ask, Removal, WriteA, WriteB, Trades, Insertion, Adding, Replacing, Stored,
         Changed, Freed, Reduces, Is, EntryA
<1>3. Reference!Slot(current.order) = a  BY DEF Reference!Slot, SlotOf
<1>4. a \in Slots /\ (a \notin DOMAIN Table <=> ~table_a.live) /\ Table = Orders(memory)
  BY TableRead
<1>5. Takes <=> a \notin DOMAIN Table /\ taken  BY <1>2, <1>4, UpdatedList
<1>6. CASE Takes
  <2>1. Listed(UpdatedSide) = inserted  BY <1>2, <1>6, UpdatedList
  <2>2. Sides' = [Sides EXCEPT ![current.symbol][current.side] = inserted]
    BY <1>2, <2>1, UpdateSeen
  <2>3. flow' = flow /\ Reference!Shows(current.symbol, Sides', flow)
    BY <1>2, UpdateSeen
  <2>4. OrderIn(EntryA, a) = order
    BY <1>1, <1>2, OrderParts DEF OrderIn, Added, Event
  <2>5. EntryA.live  BY <1>2 DEF Added
  <2>6. Table' = Reference!With(Table, a, order)
    <3>1. Table' = Orders(Written(memory, a, EntryA))
      BY <1>2, <1>6, TableWritten
    <3> QED  BY <1>4, <2>4, <2>5, <3>1, OrdersWith
  <2> HIDE DEF inserted, order, a
  <2> QED
    BY <1>3, <1>5, <1>6, <2>2, <2>3, <2>6 DEF Reference!Add, inserted, order
<1>7. CASE ~Takes
  <2>1. Reference!Ignored  BY <1>2, <1>7, NothingDone
  <2> QED  BY <1>3, <1>5, <1>7, <2>1 DEF Reference!Add
<1> QED  BY <1>6, <1>7

(* An execution or a cancel of an order of the table.                       *)
LEMMA ReduceApplied ==
  ASSUME TypeOK, SidesSound, ReadTrue, Valid, Update, Ready', Reduces, Hit
  PROVE  Reference!Reduce
<1> DEFINE a == SlotOf(current.order)
           entry == Table[a]
           removed == Reference!Removed(Sides[current.symbol][table_a.side],
                                        table_a.price, Executed)
<1>1. current \in Event /\ current.symbol \in Symbols /\ table_a \in Entry
  BY CurrentEvent DEF TypeOK
<1>2. /\ Ask = table_a.side /\ Removal.valid /\ ~WriteB /\ ~Takes /\ WriteA
      /\ Removal.price = table_a.price /\ Removal.shares = Executed
      /\ EntryA = IF Remaining # 0 THEN [table_a EXCEPT !.shares = Remaining] ELSE Empty
      /\ Trades <=> current.kind = "Execute"
  BY DEF Ask, Removal, WriteA, WriteB, Trades, Insertion, Adding, Replacing, Takes,
         Accepted, Changed, Reduces, Is, EntryA
<1>3. Reference!Slot(current.order) = a  BY DEF Reference!Slot, SlotOf
<1>4. /\ a \in Slots /\ a \in DOMAIN Table /\ entry = OrderIn(table_a, a)
      /\ Table = Orders(memory) /\ memory[a] = table_a
      /\ Reference!Held
  BY TableRead DEF Hit, ReadTrue, PortsCurrent
<1>5. /\ entry.ask = table_a.side /\ entry.price = table_a.price
      /\ entry.shares = table_a.shares
  BY <1>4 DEF OrderIn
<1>6. /\ Executed = Reference!Lesser(current.shares, entry.shares)
      /\ Executed \in Nat /\ table_a.shares \in Nat /\ Executed <= table_a.shares
      /\ Remaining # 0 <=> entry.shares > Executed
      /\ Remaining = table_a.shares - Executed
  BY <1>1, <1>5, ExecutedType, BookSideAssumption
     DEF Executed, Reference!Lesser, Remaining, Entry, Event
<1>7. Sides' = [Sides EXCEPT ![current.symbol][entry.ask] = removed]
  BY <1>2, <1>5, UpdatedList, UpdateSeen
<1>8. Reference!Shows(current.symbol, Sides', flow')  BY UpdateSeen
<1>9. flow' = Reference!Traded(entry, Executed)
  <2>1. FlowNext = Reference!Wrapped(flow[current.symbol] - flow[current.symbol] \div 8
                     + (IF entry.ask THEN Reference!Lesser(Executed, FlowCap)
                        ELSE -Reference!Lesser(Executed, FlowCap)))
    <3>1. Capped(Executed) = Reference!Lesser(Executed, FlowCap)
      BY <1>6, OrderBookAssumption DEF Capped, Reference!Lesser
    <3>2. (IF entry.ask THEN Reference!Lesser(Executed, FlowCap)
           ELSE -Reference!Lesser(Executed, FlowCap))
            = IF table_a.side THEN Capped(Executed) ELSE -Capped(Executed)
      BY <1>5, <3>1
    <3> QED  BY <3>2 DEF FlowNext, FlowAfter, Wrapped, Reference!Wrapped
  <2>2. flow' = IF Trades THEN [flow EXCEPT ![current.symbol] = FlowNext] ELSE flow
    BY UpdateSeen
  <2> QED  BY <1>2, <2>1, <2>2 DEF Reference!Traded
<1>10. Table' = Orders(Written(memory, a, EntryA))
  BY <1>2, TableWritten
<1>11. Table' = IF entry.shares > Executed
                  THEN [Table EXCEPT ![a].shares = @ - Executed]
                  ELSE Reference!Without(a)
  <2>1. CASE Remaining # 0
    <3>1. EntryA = [memory[a] EXCEPT !.shares = Remaining]  BY <1>2, <1>4, <2>1
    <3>2. memory \in [Slots -> Entry] /\ memory[a].live  BY <1>4 DEF TypeOK, Hit
    <3>3. Table' = Reduced(Table, a, Remaining)
      BY <1>4, <1>10, <3>1, <3>2, OrdersReduced
    <3>4. Remaining = Table[a].shares - Executed  BY <1>5, <1>6
    <3> QED  BY <1>6, <2>1, <3>3, <3>4 DEF Reduced
  <2>2. CASE Remaining = 0
    <3>1. ~EntryA.live  BY <1>2, <2>2 DEF Empty
    <3>2. Table' = Dropped(Table, a)
      BY <1>4, <1>10, <3>1, OrdersWithout
    <3> QED  BY <1>6, <2>2, <3>2 DEF Reference!Without, Dropped
  <2> QED  BY <2>1, <2>2
<1>12. current.kind \in {"Execute", "Cancel"}  BY DEF Reduces, Is
<1> HIDE DEF a
<1> QED
  BY <1>3, <1>4, <1>5, <1>6, <1>7, <1>8, <1>9, <1>11, <1>12 DEF Reference!Reduce

(* An order moved to another reference, price and size.                     *)
Moved(e, o, p, n) == [e EXCEPT !.order = o, !.price = p, !.shares = n]

(* What the order is then.                                                  *)
LEMMA OrderMoved ==
  ASSUME NEW o, NEW s, NEW k, NEW p, NEW n, NEW o2, NEW p2, NEW n2, NEW e,
         e = [order |-> o, symbol |-> s, ask |-> k, price |-> p, shares |-> n]
  PROVE  Moved(e, o2, p2, n2)
           = [order |-> o2, symbol |-> s, ask |-> k, price |-> p2, shares |-> n2]
<1> DEFINE e1 == [e EXCEPT !.order = o2]
           e2 == [e1 EXCEPT !.price = p2]
           e3 == [e2 EXCEPT !.shares = n2]
<1>1. e1 = [order |-> o2, symbol |-> s, ask |-> k, price |-> p, shares |-> n]
  OBVIOUS
<1> HIDE DEF e1
<1>2. e2 = [order |-> o2, symbol |-> s, ask |-> k, price |-> p2, shares |-> n]
  BY <1>1
<1> HIDE DEF e2
<1>3. e3 = [order |-> o2, symbol |-> s, ask |-> k, price |-> p2, shares |-> n2]
  BY <1>2
<1> QED  BY <1>3 DEF Moved, e1, e2

(* A delete or a replacement of an order of the table.                      *)
LEMMA DeleteOrReplaceApplied ==
  ASSUME TypeOK, SidesSound, ReadTrue, Valid, Update, Ready',
         Is({"Delete", "Replace"}), Hit
  PROVE  Reference!DeleteOrReplace
<1> DEFINE a == SlotOf(current.order)
           b == SlotOf(current.new_order)
           entry == Table[a]
           rest == Reference!Without(a)
           left == Reference!Removed(Sides[current.symbol][table_a.side],
                                     table_a.price, table_a.shares)
           new == Added(current.new_order, table_a.side)
           moved == /\ current.kind = "Replace"
                    /\ b \notin DOMAIN rest
                    /\ Reference!Takes(table_a.side, current.price, current.shares,
                                       Sides[current.symbol][~table_a.side])
           inserted == Reference!Inserted(left, table_a.side, current.price, current.shares)
<1>1. current \in Event /\ current.symbol \in Symbols /\ table_a \in Entry
  BY CurrentEvent DEF TypeOK
<1>2. /\ Ask = table_a.side /\ Removal.valid /\ ~Trades
      /\ Removal.price = table_a.price /\ Removal.shares = table_a.shares
      /\ Insertion.price = current.price /\ Insertion.shares = current.shares
      /\ Insertion.valid <=> current.kind = "Replace" /\ (~table_b.live \/ SameSlot)
      /\ WriteA <=> ~(SameSlot /\ Takes)
      /\ WriteB <=> Takes
      /\ EntryA = Empty
  <2>1. Insertion.valid <=> current.kind = "Replace" /\ (~table_b.live \/ SameSlot)
    BY DEF Insertion, Adding, Replacing, Is
  <2>2. Takes => current.kind = "Replace"  BY <2>1 DEF Takes, Accepted
  <2>3. WriteA <=> ~(SameSlot /\ Takes)
    BY <2>2 DEF WriteA, Stored, Changed, Freed, Reduces, Is
  <2>4. WriteB <=> Takes  BY <2>2 DEF WriteB, Is
  <2>5. EntryA = Empty  BY DEF EntryA, Reduces, Is
  <2>6. Ask = table_a.side /\ Removal.valid /\ ~Trades
        /\ Removal.price = table_a.price /\ Removal.shares = table_a.shares
    BY DEF Ask, Removal, Trades, Reduces, Is
  <2> QED  BY <2>1, <2>3, <2>4, <2>5, <2>6 DEF Insertion
<1>3. Reference!Slot(current.order) = a /\ Reference!Slot(current.new_order) = b
  BY DEF Reference!Slot, SlotOf
<1>4. /\ a \in Slots /\ a \in DOMAIN Table /\ entry = OrderIn(table_a, a)
      /\ b \in Slots /\ (b \in DOMAIN Table <=> table_b.live)
      /\ Table = Orders(memory)
      /\ Reference!Held
  BY TableRead DEF Hit
<1>5. /\ entry.ask = table_a.side /\ entry.price = table_a.price
      /\ entry.shares = table_a.shares /\ entry.symbol = current.symbol
  BY <1>4 DEF OrderIn, Hit
<1>6. rest = Dropped(Table, a)  BY DEF Reference!Without, Dropped
<1>7. b \notin DOMAIN rest <=> ~table_b.live \/ SameSlot
  BY <1>4, <1>6 DEF Dropped, SameSlot
<1>8. moved <=> Takes  BY <1>2, <1>7, UpdatedList
<1>9. Listed(UpdatedSide) = IF moved THEN inserted ELSE left
  BY <1>2, <1>8, UpdatedList
<1>10. Sides' = [Sides EXCEPT ![current.symbol][entry.ask] =
                   IF moved THEN inserted ELSE left]
  BY <1>2, <1>5, <1>9, UpdateSeen
<1>11. flow' = flow /\ Reference!Shows(current.symbol, Sides', flow)
  BY <1>2, UpdateSeen
<1>12. OrderIn(new, b) = [entry EXCEPT !.order = current.new_order,
                                       !.price = current.price,
                                       !.shares = current.shares]
  <2>1. TagOf(current.new_order) * SlotCount + b = current.new_order
    BY <1>1, OrderParts DEF Event
  <2>2. entry = [order |-> table_a.tag * SlotCount + a, symbol |-> current.symbol,
                 ask |-> table_a.side, price |-> table_a.price, shares |-> table_a.shares]
    BY <1>4 DEF OrderIn, Hit
  <2>3. OrderIn(new, b) = [order |-> current.new_order, symbol |-> current.symbol,
                           ask |-> table_a.side, price |-> current.price,
                           shares |-> current.shares]
    BY <2>1 DEF OrderIn, Added
  <2> HIDE DEF entry, new
  <2>4. Moved(entry, current.new_order, current.price, current.shares)
          = [order |-> current.new_order, symbol |-> current.symbol,
             ask |-> table_a.side, price |-> current.price, shares |-> current.shares]
    BY <2>2, OrderMoved
  <2> QED  BY <2>3, <2>4 DEF Moved
<1>13. Orders(Written(memory, a, Empty)) = rest
  <2>1. ~Empty.live  BY DEF Empty
  <2> HIDE DEF rest
  <2> QED  BY <1>4, <1>6, <2>1, OrdersWithout
<1>14. Table' = IF moved THEN Reference!With(rest, b, OrderIn(new, b)) ELSE rest
  <2>1. CASE ~Takes
    <3>1. Table' = Orders(Written(memory, a, Empty))  BY <1>2, <2>1, TableWritten
    <3> QED  BY <1>8, <1>13, <2>1, <3>1
  <2>2. CASE Takes
    <3>1. new.live  BY DEF Added
    <3>2. Orders(Written(Written(memory, a, Empty), b, new))
            = Reference!With(rest, b, OrderIn(new, b))
      <4> HIDE DEF new, rest, a, b
      <4> QED  BY <1>4, <1>13, <3>1, OrdersWith
    <3>3. CASE SameSlot
      <4>1. Table' = Orders(Written(memory, b, new))  BY <1>2, <2>2, <3>3, TableWritten
      <4>2. Written(memory, b, new) = Written(Written(memory, a, Empty), b, new)
        BY <3>3 DEF Written, SameSlot
      <4> QED  BY <1>8, <2>2, <3>2, <4>1, <4>2
    <3>4. CASE ~SameSlot
      <4>1. Table' = Orders(Written(Written(memory, b, new), a, Empty))
        BY <1>2, <2>2, <3>4, TableWritten
      <4>2. Written(Written(memory, b, new), a, Empty) = Written(Written(memory, a, Empty), b, new)
        BY <3>4 DEF Written, SameSlot
      <4> QED  BY <1>8, <2>2, <3>2, <4>1, <4>2
    <3> QED  BY <3>3, <3>4
  <2> QED  BY <2>1, <2>2
<1>15. current.kind \in {"Delete", "Replace"}  BY DEF Is
<1> HIDE DEF a, b, new
<1> QED
  BY <1>3, <1>4, <1>5, <1>10, <1>11, <1>12, <1>14, <1>15 DEF Reference!DeleteOrReplace

(* An event for an order the table does not hold.                           *)
LEMMA MissApplied ==
  ASSUME TypeOK, SidesSound, ReadTrue, Valid, Update, Ready',
         current.kind # "Add", ~Hit
  PROVE  Reference!Misses
<1>1. ~Removal.valid /\ ~Takes /\ ~WriteA /\ ~WriteB /\ ~Trades
  BY DEF Removal, Insertion, Adding, Replacing, Takes, Accepted, WriteA, WriteB, Trades,
         Stored, Changed, Freed, Is
<1>2. Reference!Ignored  BY <1>1, NothingDone
<1> QED  BY <1>2, TableRead DEF Reference!Misses

(* An update of the registers is the software model applying the event at   *)
(* the head, or waiting for one.                                            *)
LEMMA UpdateIsStep ==
  ASSUME TypeOK, SidesSound, ReadTrue, Update, TypeOK', sweep' = NextSweep(sweep),
         Valid => ~Valid'
  PROVE  Reference!Next
<1>1. current' \in Events \cup {Reference!NoEvent}
  BY DEF TypeOK, NoEvent, Reference!NoEvent
<1>2. CASE Valid
  <2>1. Ready'
    BY <1>2 DEF ReadTrue, PortsCurrent, Ready, NextSweep
  <2>2. current # Reference!NoEvent  BY <1>2 DEF Valid, NoEvent, Reference!NoEvent
  <2>3. current.kind \in Kinds  BY <1>2, CurrentEvent DEF Event
  <2>4. Reference!Add \/ Reference!Reduce \/ Reference!DeleteOrReplace \/ Reference!Misses
    <3>1. CASE current.kind = "Add"  BY <1>2, <2>1, <3>1, AddApplied
    <3>2. CASE current.kind # "Add" /\ ~Hit  BY <1>2, <2>1, <3>2, MissApplied
    <3>3. CASE Reduces /\ Hit  BY <1>2, <2>1, <3>3, ReduceApplied
    <3>4. CASE Is({"Delete", "Replace"}) /\ Hit
      BY <1>2, <2>1, <3>4, DeleteOrReplaceApplied
    <3> QED  BY <2>3, <3>1, <3>2, <3>3, <3>4 DEF Kinds, Reduces, Is
  <2> QED
    BY <1>1, <2>2, <2>4 DEF Reference!Next, Reference!Step, Reference!Apply
<1>3. CASE ~Valid
  <2>1. current = Reference!NoEvent  BY <1>3 DEF Valid, NoEvent, Reference!NoEvent
  <2>2. levels' = levels /\ flow' = flow /\ book' = NoBook  BY <1>3 DEF Update
  <2>3. Sides' = Sides  BY <2>2 DEF Sides, Listed, Depth
  <2>4. Shown' = Reference!NoSnapshot  BY <2>2 DEF Shown, Reference!NoSnapshot, NoBook
  <2>5. Table' = Table
    <3>1. CASE Ready
      <4>1. memory' = memory  BY <1>3, <3>1, MemoryKept DEF Update
      <4>2. Ready'  BY <3>1 DEF Ready, NextSweep
      <4> QED  BY <3>1, <4>1, <4>2 DEF Table, Orders
    <3>2. CASE ~Ready /\ ~Ready'
      BY <3>2 DEF Table
    <3>3. CASE ~Ready /\ Ready'
      <4>1. sweep = SlotCount - 1
        BY <3>3, OrderBookAssumption DEF Ready, NextSweep, TypeOK
      <4>2. memory' = Written(memory, sweep, Empty)
        BY <1>3, <3>3, MemorySwept DEF Update
      <4>3. \A s \in Slots : s # sweep => ~memory[s].live
        BY <3>3, <4>1, OrderBookAssumption DEF ReadTrue, Swept, Slots
      <4>4. ~Empty.live  BY DEF Empty
      <4>5. {i \in Slots : memory'[i].live} = {}  BY <4>2, <4>3, <4>4 DEF Written
      <4>6. Table' = [s \in {} |-> OrderIn(memory'[s], s)]
        BY <3>3, <4>5 DEF Table, Orders
      <4>7. [s \in {} |-> OrderIn(memory'[s], s)] = <<>>  OBVIOUS
      <4> QED  BY <3>3, <4>6, <4>7 DEF Table
    <3> QED  BY <3>1, <3>2, <3>3
  <2> QED
    BY <1>1, <2>1, <2>2, <2>3, <2>4, <2>5 DEF Reference!Next, Reference!Step, Reference!Idle
<1> QED  BY <1>2, <1>3

(* Cleared registers are an empty book.                                     *)
LEMMA EmptyBook ==
  Depth(EmptySide) = 0 /\ Listed(EmptySide) = <<>>
<1>1. \A i \in Places : Live(EmptySide[i]) <=> i <= 0
  BY EmptyLevelType DEF EmptySide, Places
<1>2. 0 \in 0 .. Levels  BY PlacesFacts
<1>3. Depth(EmptySide) = 0  BY <1>1, <1>2, DepthIs
<1> QED  BY <1>3 DEF Listed

(* The order book of order_book.ml, with its table in a memory of two ports *)
(* that is read a cycle before it is written and swept after a clear, shows *)
(* after every event the book that the software model of                    *)
(* trading/reference.py has after it, for every number of symbols, levels   *)
(* and slots and every sequence of events and clears.                       *)
THEOREM BookImplementsReference == Spec => ImplementsReference
<1>1. Init => Reference!Init
  <2> SUFFICES ASSUME Init PROVE Reference!Init
    OBVIOUS
  <2>1. ~Ready  BY OrderBookAssumption DEF Init, Ready
  <2>2. Sides = [s \in Symbols |-> [ask \in BOOLEAN |-> <<>>]]
    BY EmptyBook DEF Init, Sides
  <2> QED
    BY <2>1, <2>2 DEF Init, Table, Shown, NoEvent, Reference!Init, Reference!NoEvent,
                      Reference!NoSnapshot
<1>2. /\ TypeOK /\ TypeOK' /\ SidesSound /\ ReadTrue /\ [Next]_vars
      => [Reference!Next]_Reference!vars
  <2> SUFFICES ASSUME TypeOK, TypeOK', SidesSound, ReadTrue, [Next]_vars
               PROVE  Reference!Next \/ UNCHANGED Reference!vars
    OBVIOUS
  <2>1. CASE Quiet
    <3>1. ~Valid'  BY <2>1 DEF Quiet, NoEventRead, Valid
    <3> QED  BY <2>1, <3>1, UpdateIsStep DEF Quiet
  <2>2. ASSUME NEW event \in Events, Arrive(event) PROVE Reference!Next
    BY <2>2, UpdateIsStep DEF Arrive
  <2>3. CASE Clear
    <3>1. ~Ready'  BY <2>3, OrderBookAssumption DEF Clear, Ready
    <3>2. Sides' = [s \in Symbols |-> [ask \in BOOLEAN |-> <<>>]]
      BY <2>3, EmptyBook DEF Clear, Sides, Listed, Depth
    <3>3. Reference!Reset
      BY <2>3, <3>1, <3>2
         DEF Clear, NoEventRead, Table, Shown, NoEvent, Reference!Reset, Reference!NoEvent,
             Reference!NoSnapshot
    <3> QED  BY <3>3 DEF Reference!Next
  <2>4. CASE UNCHANGED vars
    BY <2>4 DEF vars, Reference!vars, Table, Sides, Shown, Ready, Orders, Listed, Depth
  <2> QED  BY <2>1, <2>2, <2>3, <2>4 DEF Next
<1>3. Spec => []ReadTrue
  BY InitReadTrue, NextReadTrue, BookTypeOK, PTL DEF Spec
<1> QED
  BY <1>1, <1>2, <1>3, BookTypeOK, BookSidesSound, PTL
     DEF Spec, ImplementsReference, Reference!Spec

-----------------------------------------------------------------------------
(* Sums over the slots.                                                     *)

(* A function of the sums of the first n of some numbers.                   *)
SumsTo(g, f, n) == g = [k \in 0 .. n |-> IF k = 0 THEN 0 ELSE g[k - 1] + f[k - 1]]

(* There is one.                                                            *)
LEMMA SumsExist ==
  ASSUME NEW f, NEW n \in Nat  PROVE \E g : SumsTo(g, f, n)
<1> DEFINE T == {m \in Nat : ~ \E g : SumsTo(g, f, m)}
<1> SUFFICES ASSUME T # {} PROVE FALSE
  OBVIOUS
<1>1. PICK m \in T : \A y \in T : m <= y
  BY LeastNumber
<1>2. m \in Nat /\ ~ \E g : SumsTo(g, f, m)  BY <1>1
<1>3. CASE m = 0
  <2> DEFINE g == [k \in 0 .. 0 |-> 0]
  <2>1. SumsTo(g, f, 0)  BY DEF SumsTo
  <2> QED  BY <1>2, <1>3, <2>1
<1>4. CASE m # 0
  <2>1. m - 1 \in Nat /\ m - 1 \notin T  BY <1>1, <1>2, <1>4
  <2>2. PICK h : SumsTo(h, f, m - 1)  BY <2>1
  <2> DEFINE g == [k \in 0 .. m |-> IF k = m THEN h[m - 1] + f[m - 1] ELSE h[k]]
  <2>3. ASSUME NEW k \in 0 .. m
        PROVE  g[k] = IF k = 0 THEN 0 ELSE g[k - 1] + f[k - 1]
    <3>1. k # m => h[k] = IF k = 0 THEN 0 ELSE h[k - 1] + f[k - 1]
      BY <1>2, <1>4, <2>2 DEF SumsTo
    <3> QED  BY <1>2, <1>4, <3>1
  <2>4. SumsTo(g, f, m)  BY <2>3 DEF SumsTo
  <2> QED  BY <1>2, <2>4
<1> QED  BY <1>3, <1>4

(* The total is the last of them.                                           *)
LEMMA TotalIs ==
  ASSUME NEW f
  PROVE  \E g : SumsTo(g, f, SlotCount) /\ Total(f) = g[SlotCount]
<1>1. SlotCount \in Nat  BY OrderBookAssumption
<1>2. \E g : SumsTo(g, f, SlotCount)  BY <1>1, SumsExist
<1> DEFINE c == CHOOSE g : SumsTo(g, f, SlotCount)
<1>3. SumsTo(c, f, SlotCount)  BY <1>2
<1>4. Total(f) = c[SlotCount]  BY DEF Total, SumsTo
<1> QED  BY <1>3, <1>4

(* One step of the sums.                                                    *)
LEMMA SumsStep ==
  ASSUME NEW f, NEW g, NEW n \in Nat, SumsTo(g, f, n)
  PROVE  /\ g[0] = 0
         /\ \A k \in 1 .. n : g[k] = g[k - 1] + f[k - 1]
<1>1. g[0] = 0  BY DEF SumsTo
<1>2. ASSUME NEW k \in 1 .. n PROVE g[k] = g[k - 1] + f[k - 1]
  <2>1. k \in 0 .. n /\ k # 0  OBVIOUS
  <2> QED  BY <2>1 DEF SumsTo
<1> QED  BY <1>1, <1>2

(* The total of numbers is a number.                                        *)
LEMMA TotalNat ==
  ASSUME NEW f \in [Slots -> Nat]  PROVE Total(f) \in Nat
<1>1. SlotCount \in Nat  BY OrderBookAssumption
<1>2. PICK g : SumsTo(g, f, SlotCount) /\ Total(f) = g[SlotCount]  BY TotalIs
<1> DEFINE T == {m \in 0 .. SlotCount : g[m] \notin Nat}
<1>3. T = {}
  <2> SUFFICES ASSUME T # {} PROVE FALSE
    OBVIOUS
  <2>1. T \in SUBSET Nat  BY <1>1
  <2>2. PICK m \in T : \A y \in T : m <= y  BY <2>1, LeastNumber
  <2>3. m \in 1 .. SlotCount
    BY <1>1, <1>2, <2>2, SumsStep
  <2>4. m - 1 \in 0 .. SlotCount /\ m - 1 \notin T /\ m - 1 \in Slots
    BY <1>1, <2>2, <2>3 DEF Slots
  <2>5. g[m] = g[m - 1] + f[m - 1]  BY <1>1, <1>2, <2>3, SumsStep
  <2>6. g[m - 1] \in Nat /\ f[m - 1] \in Nat  BY <2>4
  <2>7. g[m] \in Nat  BY <2>5, <2>6
  <2> QED  BY <2>2, <2>7
<1>4. SlotCount \in 0 .. SlotCount  BY <1>1
<1> QED  BY <1>2, <1>3, <1>4

(* Changing one of the numbers changes the total as much.                   *)
LEMMA TotalChanged ==
  ASSUME NEW f \in [Slots -> Nat], NEW h \in [Slots -> Nat], NEW p \in Slots,
         \A i \in Slots : i # p => h[i] = f[i]
  PROVE  Total(h) = Total(f) - f[p] + h[p]
<1>1. SlotCount \in Nat /\ SlotCount >= 1 /\ p \in 0 .. SlotCount - 1
  BY OrderBookAssumption DEF Slots
<1>2. PICK u : SumsTo(u, f, SlotCount) /\ Total(f) = u[SlotCount]  BY TotalIs
<1>3. PICK v : SumsTo(v, h, SlotCount) /\ Total(h) = v[SlotCount]  BY TotalIs
<1> DEFINE d(m) == IF m <= p THEN 0 ELSE h[p] - f[p]
           T == {m \in 0 .. SlotCount : ~(u[m] \in Int /\ v[m] = u[m] + d(m))}
<1>4. f[p] \in Nat /\ h[p] \in Nat  OBVIOUS
<1>5. T = {}
  <2> SUFFICES ASSUME T # {} PROVE FALSE
    OBVIOUS
  <2>1. T \in SUBSET Nat  BY <1>1
  <2>2. PICK m \in T : \A y \in T : m <= y  BY <2>1, LeastNumber
  <2>3. m \in 1 .. SlotCount
    BY <1>1, <1>2, <1>3, <2>2, SumsStep
  <2>4. m - 1 \in 0 .. SlotCount /\ m - 1 \notin T /\ m - 1 \in Slots
    BY <1>1, <2>2, <2>3 DEF Slots
  <2>5. u[m] = u[m - 1] + f[m - 1] /\ v[m] = v[m - 1] + h[m - 1]
    BY <1>1, <1>2, <1>3, <2>3, SumsStep
  <2>6. u[m - 1] \in Int /\ v[m - 1] = u[m - 1] + d(m - 1)
        /\ f[m - 1] \in Nat /\ h[m - 1] \in Nat
    BY <2>4
  <2>7. CASE m - 1 = p
    BY <1>1, <1>4, <2>2, <2>3, <2>5, <2>6, <2>7
  <2>8. CASE m - 1 # p
    <3>1. h[m - 1] = f[m - 1]  BY <2>4, <2>8
    <3>2. d(m) = d(m - 1)  BY <1>1, <2>3, <2>8
    <3>3. d(m) \in Int  BY <1>4
    <3> QED  BY <2>2, <2>5, <2>6, <3>1, <3>2, <3>3
  <2> QED  BY <2>7, <2>8
<1>6. SlotCount \in 0 .. SlotCount /\ ~(SlotCount <= p)  BY <1>1
<1>7. u[SlotCount] \in Int /\ v[SlotCount] = u[SlotCount] + (h[p] - f[p])
  BY <1>5, <1>6
<1> QED  BY <1>2, <1>3, <1>4, <1>7

(* No number is more than the total.                                        *)
LEMMA TotalAtLeast ==
  ASSUME NEW f \in [Slots -> Nat], NEW p \in Slots
  PROVE  f[p] <= Total(f)
<1> DEFINE h == [f EXCEPT ![p] = 0]
<1>1. h \in [Slots -> Nat] /\ h[p] = 0 /\ \A i \in Slots : i # p => h[i] = f[i]
  OBVIOUS
<1> HIDE DEF h
<1>2. Total(h) = Total(f) - f[p] + h[p]  BY <1>1, TotalChanged
<1>3. Total(h) \in Nat /\ Total(f) \in Nat  BY <1>1, TotalNat
<1> QED  BY <1>1, <1>2, <1>3

(* The total of nothing.                                                    *)
LEMMA TotalZero ==
  ASSUME NEW f, \A i \in Slots : f[i] = 0
  PROVE  Total(f) = 0
<1>1. SlotCount \in Nat  BY OrderBookAssumption
<1>2. PICK g : SumsTo(g, f, SlotCount) /\ Total(f) = g[SlotCount]  BY TotalIs
<1> DEFINE T == {m \in 0 .. SlotCount : g[m] # 0}
<1>3. T = {}
  <2> SUFFICES ASSUME T # {} PROVE FALSE
    OBVIOUS
  <2>1. T \in SUBSET Nat  BY <1>1
  <2>2. PICK m \in T : \A y \in T : m <= y  BY <2>1, LeastNumber
  <2>3. m \in 1 .. SlotCount
    BY <1>1, <1>2, <2>2, SumsStep
  <2>4. m - 1 \in 0 .. SlotCount /\ m - 1 \notin T /\ m - 1 \in Slots
    BY <1>1, <2>2, <2>3 DEF Slots
  <2>5. g[m] = g[m - 1] + f[m - 1]  BY <1>1, <1>2, <2>3, SumsStep
  <2> QED  BY <2>2, <2>4, <2>5
<1>4. SlotCount \in 0 .. SlotCount  BY <1>1
<1> QED  BY <1>2, <1>3, <1>4

-----------------------------------------------------------------------------
(* The shares of a side at a price.                                         *)

(* The one live level at a price holds its shares.                          *)
LEMMA SharesAtIs ==
  ASSUME NEW ask \in BOOLEAN, NEW side \in Side, Sound(ask, side),
         NEW i \in Places, Live(side[i])
  PROVE  SharesAt(side, side[i].price) = side[i].shares
<1> DEFINE c == CHOOSE j \in Places : Live(side[j]) /\ side[j].price = side[i].price
<1>1. c \in Places /\ Live(side[c]) /\ side[c].price = side[i].price
  OBVIOUS
<1> HIDE DEF c
<1>2. [valid |-> FALSE, price |-> 0, shares |-> 0] \in Change
  BY BookSideAssumption DEF Change
<1>3. c = i  BY <1>1, <1>2, FoundOnce
<1>4. SharesAt(side, side[i].price) = side[c].shares  BY DEF SharesAt, c
<1> QED  BY <1>3, <1>4

(* Without one there are none.                                              *)
LEMMA SharesAtNone ==
  ASSUME NEW side, NEW price,
         \A i \in Places : ~(Live(side[i]) /\ side[i].price = price)
  PROVE  SharesAt(side, price) = 0
BY DEF SharesAt

(* The shares at a price are a number.                                      *)
LEMMA SharesAtNat ==
  ASSUME NEW ask \in BOOLEAN, NEW side \in Side, Sound(ask, side), NEW price
  PROVE  SharesAt(side, price) \in Nat
<1>1. CASE \E i \in Places : Live(side[i]) /\ side[i].price = price
  <2>1. PICK i \in Places : Live(side[i]) /\ side[i].price = price  BY <1>1
  <2>2. SharesAt(side, price) = side[i].shares  BY <2>1, SharesAtIs
  <2>3. side[i] \in Level  BY DEF Side
  <2> QED  BY <2>2, <2>3, BookSideAssumption DEF Level
<1>2. CASE ~ \E i \in Places : Live(side[i]) /\ side[i].price = price
  BY <1>2, SharesAtNone
<1> QED  BY <1>1, <1>2

(* A removal takes its shares off its price, all of them when there are no  *)
(* more, and changes no other price.                                        *)
LEMMA SharesAfterRemove ==
  ASSUME NEW ask \in BOOLEAN, NEW side \in Side, NEW change \in Change,
         Sound(ask, side), NEW price
  PROVE  SharesAt(Remove(side, change), price)
           = IF change.valid /\ price = change.price
               THEN IF SharesAt(side, price) > change.shares
                      THEN SharesAt(side, price) - change.shares ELSE 0
               ELSE SharesAt(side, price)
<1> DEFINE r == Remove(side, change)
<1>1. r \in Side /\ Sound(ask, r)  BY RemoveType, RemoveSound
<1>2. \A i \in Places : side[i] \in Level  BY DEF Side
<1>3. change.shares \in Nat  BY BookSideAssumption DEF Change
<1>4. CASE \E e \in Places : Emptied(side, change, e)
  <2>1. PICK e \in Places : Emptied(side, change, e)  BY <1>4
  <2>2. /\ change.valid /\ Live(side[e]) /\ side[e].price = change.price
        /\ change.shares >= side[e].shares
    BY <2>1 DEF Emptied, Found
  <2>3. \A i \in Places : r[i] = IF i < e THEN side[i]
                                 ELSE IF i = Levels THEN EmptyLevel ELSE side[i + 1]
    BY <2>1, RemoveEmptied
  <2>4. \A i \in Places : Live(side[i]) /\ side[i].price = change.price => i = e
    BY <2>2, FoundOnce
  <2>5. e \in Int /\ Levels \in Int /\ \A i \in Places : i \in Int /\ i <= Levels
    BY PlacesFacts DEF Places
  <2> HIDE DEF r
  <2>6. CASE price = change.price
    <3>1. SharesAt(side, price) = side[e].shares /\ side[e].shares \in Nat
      BY <1>2, <2>2, <2>6, SharesAtIs, BookSideAssumption DEF Level
    <3>2. ASSUME NEW i \in Places, Live(r[i]), r[i].price = price PROVE FALSE
      <4>1. CASE i < e
        <5>1. i # e /\ r[i] = side[i]  BY <2>3, <2>5, <4>1
        <5> QED  BY <2>4, <2>6, <3>2, <5>1
      <4>2. CASE ~(i < e) /\ i = Levels
        BY <2>3, <3>2, <4>2, EmptyLevelType
      <4>3. CASE ~(i < e) /\ i # Levels
        <5>1. i + 1 \in Places /\ i + 1 # e  BY <2>5, <4>3, PlacesFacts
        <5>2. r[i] = side[i + 1]  BY <2>3, <4>3
        <5> QED  BY <2>4, <2>6, <3>2, <5>1, <5>2
      <4> QED  BY <4>1, <4>2, <4>3
    <3>3. SharesAt(r, price) = 0  BY <3>2, SharesAtNone
    <3> QED  BY <1>3, <2>2, <2>6, <3>1, <3>3 DEF r
  <2>7. CASE price # change.price
    <3>1. CASE \E i \in Places : Live(side[i]) /\ side[i].price = price
      <4>1. PICK i \in Places : Live(side[i]) /\ side[i].price = price  BY <3>1
      <4>2. i # e  BY <2>2, <2>7, <4>1
      <4>3. \E k \in Places : r[k] = side[i]
        <5>1. CASE i < e  BY <2>3, <5>1
        <5>2. CASE ~(i < e)
          <6>1. i - 1 \in Places /\ ~(i - 1 < e) /\ i - 1 # Levels /\ (i - 1) + 1 = i
            BY <2>5, <4>2, <5>2 DEF Places
          <6> QED  BY <2>3, <6>1
        <5> QED  BY <5>1, <5>2
      <4>4. PICK k \in Places : r[k] = side[i]  BY <4>3
      <4>5. SharesAt(r, price) = side[i].shares  BY <1>1, <4>1, <4>4, SharesAtIs DEF r
      <4>6. SharesAt(side, price) = side[i].shares  BY <4>1, SharesAtIs
      <4> QED  BY <2>7, <4>5, <4>6 DEF r
    <3>2. CASE ~ \E i \in Places : Live(side[i]) /\ side[i].price = price
      <4>1. ASSUME NEW i \in Places, Live(r[i]), r[i].price = price PROVE FALSE
        <5>1. CASE i < e  BY <2>3, <3>2, <4>1, <5>1
        <5>2. CASE ~(i < e) /\ i = Levels
          BY <2>3, <4>1, <5>2, EmptyLevelType
        <5>3. CASE ~(i < e) /\ i # Levels
          <6>1. i + 1 \in Places  BY <5>3, PlacesFacts
          <6> QED  BY <2>3, <3>2, <4>1, <5>3, <6>1
        <5> QED  BY <5>1, <5>2, <5>3
      <4>2. SharesAt(r, price) = 0  BY <4>1, SharesAtNone
      <4>3. SharesAt(side, price) = 0  BY <3>2, SharesAtNone
      <4> QED  BY <2>7, <4>2, <4>3 DEF r
    <3> QED  BY <3>1, <3>2
  <2> QED  BY <2>6, <2>7
<1>5. CASE ~ \E e \in Places : Emptied(side, change, e)
  <2>1. \A i \in Places : r[i] = IF Found(side, change, i)
                                   THEN [side[i] EXCEPT !.shares = @ - change.shares]
                                   ELSE side[i]
    BY <1>5, PlacesFacts DEF Remove
  <2>2. \A i \in Places : /\ r[i].price = side[i].price
                          /\ Live(r[i]) <=> Live(side[i])
    BY <1>5, RemoveKept
  <2> HIDE DEF r
  <2>3. CASE \E i \in Places : Live(side[i]) /\ side[i].price = price
    <3>1. PICK i \in Places : Live(side[i]) /\ side[i].price = price  BY <2>3
    <3>2. SharesAt(side, price) = side[i].shares  BY <3>1, SharesAtIs
    <3>3. Live(r[i]) /\ r[i].price = price  BY <2>2, <3>1
    <3>4. SharesAt(r, price) = r[i].shares  BY <1>1, <3>3, SharesAtIs DEF r
    <3>5. Found(side, change, i) <=> change.valid /\ price = change.price
      BY <3>1 DEF Found
    <3>6. side[i].shares \in Nat  BY <1>2, BookSideAssumption DEF Level
    <3>7. CASE Found(side, change, i)
      <4>1. side[i].shares > change.shares
        BY <1>3, <1>5, <3>6, <3>7 DEF Emptied
      <4>2. r[i] = [side[i] EXCEPT !.shares = side[i].shares - change.shares]
        BY <2>1, <3>7
      <4>3. r[i].shares = side[i].shares - change.shares
        BY <1>2, <4>2 DEF Level
      <4> QED  BY <3>2, <3>4, <3>5, <3>7, <4>1, <4>3 DEF r
    <3>8. CASE ~Found(side, change, i)
      BY <2>1, <3>2, <3>4, <3>5, <3>8 DEF r
    <3> QED  BY <3>7, <3>8
  <2>4. CASE ~ \E i \in Places : Live(side[i]) /\ side[i].price = price
    <3>1. SharesAt(side, price) = 0  BY <2>4, SharesAtNone
    <3>2. SharesAt(r, price) = 0  BY <2>2, <2>4, SharesAtNone
    <3>3. ~(0 > change.shares)  BY <1>3
    <3> QED  BY <3>1, <3>2, <3>3 DEF r
  <2> QED  BY <2>3, <2>4
<1> QED  BY <1>4, <1>5

(* An insertion loses shares: those past the last place, or past the most a *)
(* level counts.                                                            *)
Loses(side, change) ==
  IF \E i \in Places : Matched(side, change, i)
    THEN \E i \in Places : /\ Matched(side, change, i)
                           /\ side[i].shares + change.shares > MaxShares
    ELSE Full(side)

(* An insertion at a held price adds its shares there.                      *)
LEMMA SharesAfterInsertHeld ==
  ASSUME NEW ask \in BOOLEAN, NEW side \in Side, NEW change \in Change,
         Sound(ask, side), change.valid, change.shares # 0,
         NEW m \in Places, Matched(side, change, m), NEW price
  PROVE  LET was == SharesAt(side, price)
             now == SharesAt(Insert(ask, side, change), price)
             more == IF price = change.price THEN change.shares ELSE 0
         IN  /\ now <= was + more
             /\ ~Loses(side, change) => now = was + more
<1> DEFINE r == Insert(ask, side, change)
           more == IF price = change.price THEN change.shares ELSE 0
<1>1. r \in Side /\ Sound(ask, r)  BY InsertType, InsertSound
<1>2. \A i \in Places : /\ r[i].price = side[i].price
                        /\ Live(r[i]) <=> Live(side[i])
  BY InsertHeld
<1>3. \A i \in Places : r[i] = IF Matched(side, change, i)
                                 THEN [side[i] EXCEPT !.shares = Saturating(@, change.shares)]
                                 ELSE side[i]
  BY DEF Insert
<1>4. \A i \in Places : side[i] \in Level  BY DEF Side
<1>5. change.shares \in Nat /\ MaxShares \in Nat  BY BookSideAssumption DEF Change
<1>6. Live(side[m]) /\ side[m].price = change.price  BY DEF Matched
<1> HIDE DEF r
<1>7. CASE \E i \in Places : Live(side[i]) /\ side[i].price = price
  <2>1. PICK i \in Places : Live(side[i]) /\ side[i].price = price  BY <1>7
  <2>2. SharesAt(side, price) = side[i].shares /\ side[i].shares \in Nat
    BY <1>4, <2>1, SharesAtIs, BookSideAssumption DEF Level
  <2>3. SharesAt(r, price) = r[i].shares  BY <1>1, <1>2, <2>1, SharesAtIs
  <2>4. Matched(side, change, i) <=> price = change.price  BY <2>1 DEF Matched
  <2>5. CASE price = change.price
    <3>1. r[i] = [side[i] EXCEPT !.shares = Saturating(side[i].shares, change.shares)]
      BY <1>3, <2>4, <2>5
    <3>2. r[i].shares = Saturating(side[i].shares, change.shares)
      BY <1>4, <3>1 DEF Level
    <3>3. ~Loses(side, change) => ~(side[i].shares + change.shares > MaxShares)
      BY <2>4, <2>5 DEF Loses
    <3>4. /\ Saturating(side[i].shares, change.shares) <= side[i].shares + change.shares
          /\ ~(side[i].shares + change.shares > MaxShares) =>
               Saturating(side[i].shares, change.shares) = side[i].shares + change.shares
      BY <1>5, <2>2 DEF Saturating
    <3> QED  BY <2>2, <2>3, <2>5, <3>2, <3>3, <3>4 DEF r
  <2>6. CASE price # change.price
    <3>1. r[i] = side[i]  BY <1>3, <2>4, <2>6
    <3>2. more = 0  BY <2>6
    <3> QED  BY <2>2, <2>3, <3>1, <3>2 DEF r
  <2> QED  BY <2>5, <2>6
<1>8. CASE ~ \E i \in Places : Live(side[i]) /\ side[i].price = price
  <2>1. price # change.price  BY <1>6, <1>8
  <2>2. SharesAt(side, price) = 0  BY <1>8, SharesAtNone
  <2>3. SharesAt(r, price) = 0  BY <1>2, <1>8, SharesAtNone
  <2> QED  BY <2>1, <2>2, <2>3 DEF r
<1> QED  BY <1>7, <1>8

(* An insertion at a new price adds a level there, and can push the last    *)
(* level out.                                                               *)
LEMMA SharesAfterInsertNew ==
  ASSUME NEW ask \in BOOLEAN, NEW side \in Side, NEW change \in Change,
         Sound(ask, side), change.valid, change.shares # 0,
         ~ \E m \in Places : Matched(side, change, m), NEW price
  PROVE  LET was == SharesAt(side, price)
             now == SharesAt(Insert(ask, side, change), price)
             more == IF price = change.price THEN change.shares ELSE 0
         IN  /\ now <= was + more
             /\ ~Loses(side, change) => now = was + more
<1> DEFINE r == Insert(ask, side, change)
           more == IF price = change.price THEN change.shares ELSE 0
           ahead(i) == Ahead(ask, side, change, i)
           place == [price |-> change.price, shares |-> change.shares]
<1>1. r \in Side /\ Sound(ask, r)  BY InsertType, InsertSound
<1>2. \A i \in Places : r[i] = IF ahead(i) THEN side[i]
                               ELSE IF i = 1 \/ ahead(i - 1) THEN place
                               ELSE side[i - 1]
  BY DEF Insert
<1>3. \A i, j \in Places : i < j /\ ahead(j) => ahead(i)  BY AheadFirst
<1>4. \A i \in Places : ~(Live(side[i]) /\ side[i].price = change.price)
  BY DEF Matched
<1>5. Live(place) /\ place.price = change.price /\ place.shares = change.shares
  BY DEF Live
<1>6. change.shares \in Nat /\ Levels \in Places
      /\ \A i \in Places : i \in Int /\ i >= 1 /\ i <= Levels
  BY PlacesFacts, BookSideAssumption DEF Change, Places
<1>7. ~Loses(side, change) => ~Live(side[Levels])  BY DEF Loses, Full
<1>8. \A i \in Places : ahead(i) => Live(side[i])  BY DEF Ahead
<1>9. SharesAt(side, price) \in Nat  BY SharesAtNat
<1> HIDE DEF r, ahead, place
<1>10. CASE price = change.price
  <2>1. SharesAt(side, price) = 0  BY <1>4, <1>10, SharesAtNone
  <2>2. CASE \E k \in Places : r[k] = place
    <3>1. PICK k \in Places : r[k] = place  BY <2>2
    <3>2. SharesAt(r, change.price) = change.shares  BY <1>1, <1>5, <3>1, SharesAtIs
    <3> QED  BY <1>6, <1>10, <2>1, <3>2 DEF r
  <2>3. CASE ~ \E k \in Places : r[k] = place
    <3>1. ASSUME NEW i \in Places, Live(r[i]), r[i].price = price PROVE FALSE
      <4>1. i = 1 \/ i - 1 \in Places  BY PlacesFacts
      <4> QED  BY <1>2, <1>4, <1>10, <2>3, <3>1, <4>1
    <3>2. SharesAt(r, price) = 0  BY <3>1, SharesAtNone
    <3>3. \A k \in Places : ahead(k)
      <4> DEFINE T == {k \in Places : ~ahead(k)}
      <4> SUFFICES ASSUME T # {} PROVE FALSE
        OBVIOUS
      <4>1. T \in SUBSET Nat  BY <1>6
      <4>2. PICK k \in T : \A y \in T : k <= y  BY <4>1, LeastNumber
      <4>3. k \in Places /\ ~ahead(k)  OBVIOUS
      <4>4. k = 1 \/ ahead(k - 1)
        <5>1. k # 1 => k - 1 \in Places /\ ~(k <= k - 1)  BY <1>6, <4>3, PlacesFacts
        <5> QED  BY <4>2, <5>1
      <4>5. r[k] = place  BY <1>2, <4>3, <4>4
      <4> QED  BY <2>3, <4>3, <4>5
    <3>4. Live(side[Levels])  BY <1>6, <1>8, <3>3
    <3> QED  BY <1>6, <1>7, <1>10, <2>1, <3>2, <3>4 DEF r
  <2> QED  BY <2>2, <2>3
<1>11. CASE price # change.price
  <2>1. more = 0  BY <1>11
  <2>2. SharesAt(r, price) <= SharesAt(side, price)
    <3>1. CASE \E i \in Places : Live(r[i]) /\ r[i].price = price
      <4>1. PICK i \in Places : Live(r[i]) /\ r[i].price = price  BY <3>1
      <4>2. r[i] # place  BY <1>5, <1>11, <4>1
      <4>3. \E j \in Places : r[i] = side[j]
        <5>1. i = 1 \/ i - 1 \in Places  BY PlacesFacts
        <5> QED  BY <1>2, <4>2, <5>1
      <4>4. PICK j \in Places : r[i] = side[j]  BY <4>3
      <4>5. SharesAt(side, price) = side[j].shares  BY <4>1, <4>4, SharesAtIs
      <4>6. SharesAt(r, price) = r[i].shares  BY <1>1, <4>1, SharesAtIs
      <4> QED  BY <1>9, <4>4, <4>5, <4>6
    <3>2. CASE ~ \E i \in Places : Live(r[i]) /\ r[i].price = price
      <4>1. SharesAt(r, price) = 0  BY <3>2, SharesAtNone
      <4> QED  BY <1>9, <4>1
    <3> QED  BY <3>1, <3>2
  <2>3. ASSUME ~Live(side[Levels]) PROVE SharesAt(r, price) = SharesAt(side, price)
    <3>1. CASE \E j \in Places : Live(side[j]) /\ side[j].price = price
      <4>1. PICK j \in Places : Live(side[j]) /\ side[j].price = price  BY <3>1
      <4>2. \E i \in Places : r[i] = side[j]
        <5>1. CASE ahead(j)  BY <1>2, <5>1
        <5>2. CASE ~ahead(j)
          <6>1. j # Levels  BY <2>3, <4>1
          <6>2. j + 1 \in Places /\ (j + 1) - 1 = j /\ j + 1 # 1 /\ j < j + 1
            BY <1>6, <6>1, PlacesFacts
          <6>3. ~ahead(j + 1)  BY <1>3, <5>2, <6>2
          <6> QED  BY <1>2, <5>2, <6>2, <6>3
        <5> QED  BY <5>1, <5>2
      <4>3. PICK i \in Places : r[i] = side[j]  BY <4>2
      <4>4. SharesAt(side, price) = side[j].shares  BY <4>1, SharesAtIs
      <4>5. SharesAt(r, price) = r[i].shares  BY <1>1, <4>1, <4>3, SharesAtIs
      <4> QED  BY <4>3, <4>4, <4>5
    <3>2. CASE ~ \E j \in Places : Live(side[j]) /\ side[j].price = price
      <4>1. SharesAt(side, price) = 0  BY <3>2, SharesAtNone
      <4>2. ASSUME NEW i \in Places, Live(r[i]), r[i].price = price PROVE FALSE
        <5>1. i = 1 \/ i - 1 \in Places  BY PlacesFacts
        <5>2. r[i] # place  BY <1>5, <1>11, <4>2
        <5> QED  BY <1>2, <3>2, <4>2, <5>1, <5>2
      <4>3. SharesAt(r, price) = 0  BY <4>2, SharesAtNone
      <4> QED  BY <4>1, <4>3
    <3> QED  BY <3>1, <3>2
  <2>4. SharesAt(side, price) + more = SharesAt(side, price)  BY <1>9, <2>1
  <2> QED  BY <1>7, <2>2, <2>3, <2>4 DEF r
<1> QED  BY <1>10, <1>11

(* What one update leaves at a price: the removal's shares go, the          *)
(* insertion's come when it is accepted, and nothing else changes unless a  *)
(* level is lost.                                                           *)
LEMMA SharesAfterUpdate ==
  ASSUME NEW ask \in BOOLEAN, NEW side \in Side, NEW opposite \in Level,
         NEW remove \in Change, NEW insert \in Change, Sound(ask, side), NEW price
  PROVE  LET was == SharesAt(side, price)
             left == IF remove.valid /\ price = remove.price
                       THEN IF was > remove.shares THEN was - remove.shares ELSE 0
                       ELSE was
             taken == Accepted(ask, opposite, insert)
             more == IF taken /\ price = insert.price THEN insert.shares ELSE 0
             now == SharesAt(Updated(ask, side, opposite, remove, insert), price)
         IN  /\ now <= left + more
             /\ ~(taken /\ Loses(Remove(side, remove), insert)) => now = left + more
<1> DEFINE accepted == [insert EXCEPT !.valid = Accepted(ask, opposite, insert)]
           rest == Remove(side, remove)
           taken == Accepted(ask, opposite, insert)
           was == SharesAt(side, price)
           left == IF remove.valid /\ price = remove.price
                     THEN IF was > remove.shares THEN was - remove.shares ELSE 0
                     ELSE was
           more == IF taken /\ price = insert.price THEN insert.shares ELSE 0
           now == SharesAt(Insert(ask, rest, accepted), price)
<1>1. /\ accepted \in Change /\ taken \in BOOLEAN
      /\ accepted.valid = taken /\ accepted.price = insert.price
      /\ accepted.shares = insert.shares
      /\ taken => insert.shares # 0
  BY DEF Change, Accepted, Crosses, Live
<1>2. rest \in Side /\ Sound(ask, rest)  BY RemoveType, RemoveSound
<1>3. SharesAt(rest, price) = left  BY SharesAfterRemove
<1>4. left \in Nat  BY <1>2, <1>3, SharesAtNat
<1>5. Loses(rest, accepted) <=> Loses(rest, insert)
  BY <1>1 DEF Loses, Matched
<1>6. now = SharesAt(Updated(ask, side, opposite, remove, insert), price)
  BY DEF Updated
<1> HIDE DEF accepted, rest, taken, left, now
<1>7. now <= left + more /\ (~(taken /\ Loses(rest, insert)) => now = left + more)
  <2>1. CASE taken /\ \E m \in Places : Matched(rest, accepted, m)
    <3>1. accepted.valid /\ accepted.shares # 0  BY <1>1, <2>1
    <3>2. /\ now <= SharesAt(rest, price)
                     + (IF price = accepted.price THEN accepted.shares ELSE 0)
          /\ ~Loses(rest, accepted) =>
               now = SharesAt(rest, price)
                     + (IF price = accepted.price THEN accepted.shares ELSE 0)
      BY <1>1, <1>2, <2>1, <3>1, SharesAfterInsertHeld DEF now
    <3>3. (IF price = accepted.price THEN accepted.shares ELSE 0) = more
      BY <1>1, <2>1
    <3> QED  BY <1>3, <1>5, <2>1, <3>2, <3>3
  <2>2. CASE taken /\ ~ \E m \in Places : Matched(rest, accepted, m)
    <3>1. accepted.valid /\ accepted.shares # 0  BY <1>1, <2>2
    <3>2. /\ now <= SharesAt(rest, price)
                     + (IF price = accepted.price THEN accepted.shares ELSE 0)
          /\ ~Loses(rest, accepted) =>
               now = SharesAt(rest, price)
                     + (IF price = accepted.price THEN accepted.shares ELSE 0)
      BY <1>1, <1>2, <2>2, <3>1, SharesAfterInsertNew DEF now
    <3>3. (IF price = accepted.price THEN accepted.shares ELSE 0) = more
      BY <1>1, <2>2
    <3> QED  BY <1>3, <1>5, <2>2, <3>2, <3>3
  <2>3. CASE ~taken
    <3>1. Insert(ask, rest, accepted) = rest  BY <1>1, <1>2, <2>3, InsertNothing
    <3>2. more = 0  BY <2>3
    <3> QED  BY <1>3, <1>4, <3>1, <3>2 DEF now
  <2> QED  BY <2>1, <2>2, <2>3
<1> QED  BY <1>6, <1>7 DEF left, taken, rest

-----------------------------------------------------------------------------
(* The shares of the table's orders at a price.                             *)

(* What an order has at a price is a number.                                *)
LEMMA SharesOfNat ==
  ASSUME NEW e \in Entry, NEW s, NEW ask, NEW price
  PROVE  SharesOf(e, s, ask, price) \in Nat
BY BookSideAssumption DEF SharesOf, Entry

(* The shares of the table's orders at a price, slot by slot.               *)
SharesIn(m, s, ask, price) == [i \in Slots |-> SharesOf(m[i], s, ask, price)]

(* They are numbers, which add up to what rests, and none is more than the  *)
(* sum.                                                                     *)
LEMMA SharesInNat ==
  ASSUME NEW m \in [Slots -> Entry], NEW s, NEW ask, NEW price
  PROVE  /\ SharesIn(m, s, ask, price) \in [Slots -> Nat]
         /\ Resting(m, s, ask, price) = Total(SharesIn(m, s, ask, price))
         /\ Resting(m, s, ask, price) \in Nat
         /\ \A p \in Slots : SharesOf(m[p], s, ask, price) <= Resting(m, s, ask, price)
<1> DEFINE f == SharesIn(m, s, ask, price)
<1>1. \A i \in Slots : f[i] = SharesOf(m[i], s, ask, price) /\ f[i] \in Nat
  BY SharesOfNat DEF SharesIn
<1>2. f = [i \in Slots |-> f[i]]  BY DEF SharesIn
<1>3. Resting(m, s, ask, price) = Total(f)  BY DEF Resting, SharesIn
<1> HIDE DEF f
<1>4. f \in [Slots -> Nat]  BY <1>1, <1>2
<1>5. Total(f) \in Nat /\ \A p \in Slots : f[p] <= Total(f)
  BY <1>4, TotalNat, TotalAtLeast
<1> QED  BY <1>1, <1>3, <1>4, <1>5 DEF f

(* A write of one slot changes what rests by what the slot held and holds.  *)
LEMMA RestingWritten ==
  ASSUME NEW m \in [Slots -> Entry], NEW p \in Slots, NEW e \in Entry,
         NEW s, NEW ask, NEW price
  PROVE  /\ Written(m, p, e) \in [Slots -> Entry]
         /\ Resting(Written(m, p, e), s, ask, price)
              = Resting(m, s, ask, price) - SharesOf(m[p], s, ask, price)
                                          + SharesOf(e, s, ask, price)
<1> DEFINE n == Written(m, p, e)
           f == SharesIn(m, s, ask, price)
           h == SharesIn(n, s, ask, price)
<1>1. n \in [Slots -> Entry] /\ n[p] = e /\ \A i \in Slots : i # p => n[i] = m[i]
  BY DEF Written
<1> HIDE DEF n
<1>2. \A i \in Slots : f[i] = SharesOf(m[i], s, ask, price)
                       /\ h[i] = SharesOf(n[i], s, ask, price)
  BY DEF SharesIn
<1>3. f \in [Slots -> Nat] /\ h \in [Slots -> Nat]
      /\ Resting(m, s, ask, price) = Total(f) /\ Resting(n, s, ask, price) = Total(h)
  BY <1>1, SharesInNat
<1> HIDE DEF f, h
<1>4. \A i \in Slots : i # p => h[i] = f[i]  BY <1>1, <1>2
<1>5. Total(h) = Total(f) - f[p] + h[p]  BY <1>3, <1>4, TotalChanged
<1> QED  BY <1>1, <1>2, <1>3, <1>5 DEF n

(* No slot live, nothing rests.                                             *)
LEMMA RestingNone ==
  ASSUME NEW m, \A i \in Slots : ~m[i].live, NEW s, NEW ask, NEW price
  PROVE  Resting(m, s, ask, price) = 0
<1> DEFINE f == SharesIn(m, s, ask, price)
<1>1. \A i \in Slots : f[i] = 0  BY DEF SharesIn, SharesOf
<1>2. Resting(m, s, ask, price) = Total(f)  BY DEF Resting, SharesIn
<1> HIDE DEF f
<1> QED  BY <1>1, <1>2, TotalZero

(* The shares the event takes from a price, and those it adds there.        *)
Taken(s, ask, price) ==
  IF s = current.symbol /\ ask = Ask /\ Removal.valid /\ price = Removal.price
    THEN Removal.shares ELSE 0
Given(s, ask, price) ==
  IF s = current.symbol /\ ask = Ask /\ Takes /\ price = Insertion.price
    THEN Insertion.shares ELSE 0

(* They are those of the entries it writes: added,                          *)
LEMMA AddRests ==
  ASSUME TypeOK, ReadTrue, Valid, Is({"Add"}), NEW s, NEW ask, NEW price
  PROVE  /\ Resting(Memory, s, ask, price)
              = Resting(memory, s, ask, price) - Taken(s, ask, price) + Given(s, ask, price)
         /\ Taken(s, ask, price) <= Resting(memory, s, ask, price)
<1> DEFINE a == SlotOf(current.order)
<1>1. /\ a \in Slots /\ memory \in [Slots -> Entry] /\ memory[a] = table_a
      /\ EntryA \in Entry
  BY CurrentEvent, EntryTypes DEF TypeOK, ReadTrue, PortsCurrent
<1>2. /\ Ask = current.side /\ ~Removal.valid /\ ~WriteB /\ (WriteA <=> Takes)
      /\ EntryA = Added(current.order, current.side)
      /\ Insertion.price = current.price /\ Insertion.shares = current.shares
      /\ Takes => ~table_a.live
  BY DEF Ask, Removal, WriteA, WriteB, Insertion, Adding, Replacing, Stored, Takes,
         Accepted, Changed, Freed, Reduces, Is, EntryA
<1>3. Resting(memory, s, ask, price) \in Nat  BY <1>1, SharesInNat
<1>4. Taken(s, ask, price) = 0  BY <1>2 DEF Taken
<1>5. CASE Takes
  <2>1. Memory = Written(memory, a, EntryA)  BY <1>2, <1>5, MemoryWritten
  <2>2. Resting(Memory, s, ask, price)
          = Resting(memory, s, ask, price) - SharesOf(table_a, s, ask, price)
                                           + SharesOf(EntryA, s, ask, price)
    BY <1>1, <2>1, RestingWritten
  <2>3. SharesOf(table_a, s, ask, price) = 0  BY <1>2, <1>5 DEF SharesOf
  <2>4. SharesOf(EntryA, s, ask, price) = Given(s, ask, price)
    BY <1>2, <1>5 DEF SharesOf, Added, Given
  <2> QED  BY <1>3, <1>4, <2>2, <2>3, <2>4
<1>6. CASE ~Takes
  <2>1. Memory = memory  BY <1>2, <1>6, MemoryWritten
  <2>2. Given(s, ask, price) = 0  BY <1>6 DEF Given
  <2> QED  BY <1>3, <1>4, <2>1, <2>2
<1> QED  BY <1>5, <1>6

(* left of the reduced order,                                               *)
LEMMA ReduceRests ==
  ASSUME TypeOK, ReadTrue, Valid, Reduces, Hit, NEW s, NEW ask, NEW price
  PROVE  /\ Resting(Memory, s, ask, price)
              = Resting(memory, s, ask, price) - Taken(s, ask, price) + Given(s, ask, price)
         /\ Taken(s, ask, price) <= Resting(memory, s, ask, price)
<1> DEFINE a == SlotOf(current.order)
           here == s = current.symbol /\ ask = table_a.side /\ price = table_a.price
<1>1. /\ a \in Slots /\ memory \in [Slots -> Entry] /\ memory[a] = table_a
      /\ EntryA \in Entry /\ table_a \in Entry
  BY CurrentEvent, EntryTypes DEF TypeOK, ReadTrue, PortsCurrent
<1>2. /\ Ask = table_a.side /\ Removal.valid /\ ~WriteB /\ ~Takes /\ WriteA
      /\ Removal.price = table_a.price /\ Removal.shares = Executed
      /\ EntryA = IF Remaining # 0 THEN [table_a EXCEPT !.shares = Remaining] ELSE Empty
  BY DEF Ask, Removal, WriteA, WriteB, Insertion, Adding, Replacing, Takes,
         Accepted, Changed, Reduces, Is, EntryA
<1>3. /\ Executed \in Nat /\ table_a.shares \in Nat /\ Executed <= table_a.shares
      /\ Remaining = table_a.shares - Executed
  BY <1>1, ExecutedType, BookSideAssumption DEF Executed, Remaining, Entry
<1>4. Memory = Written(memory, a, EntryA)  BY <1>2, MemoryWritten
<1>5. Resting(Memory, s, ask, price)
        = Resting(memory, s, ask, price) - SharesOf(table_a, s, ask, price)
                                         + SharesOf(EntryA, s, ask, price)
  BY <1>1, <1>4, RestingWritten
<1>6. /\ Resting(memory, s, ask, price) \in Nat
      /\ SharesOf(table_a, s, ask, price) <= Resting(memory, s, ask, price)
  BY <1>1, SharesInNat
<1>7. Given(s, ask, price) = 0  BY <1>2 DEF Given
<1>8. Taken(s, ask, price) = IF here THEN Executed ELSE 0
  BY <1>2 DEF Taken
<1>9. SharesOf(table_a, s, ask, price) = IF here THEN table_a.shares ELSE 0
  BY DEF SharesOf, Hit
<1>10. SharesOf(EntryA, s, ask, price) = IF here THEN Remaining ELSE 0
  <2>1. CASE Remaining # 0
    <3> DEFINE e == [table_a EXCEPT !.shares = Remaining]
    <3>1. /\ e.live = table_a.live /\ e.symbol = table_a.symbol /\ e.side = table_a.side
          /\ e.price = table_a.price /\ e.shares = Remaining
      BY <1>1 DEF Entry
    <3>2. EntryA = e  BY <1>2, <2>1
    <3> HIDE DEF e
    <3> QED  BY <3>1, <3>2 DEF SharesOf, Hit
  <2>2. CASE Remaining = 0
    BY <1>2, <2>2 DEF SharesOf, Empty
  <2> QED  BY <2>1, <2>2
<1> HIDE DEF here
<1>11. CASE here  BY <1>3, <1>5, <1>6, <1>7, <1>8, <1>9, <1>10, <1>11
<1>12. CASE ~here  BY <1>3, <1>5, <1>6, <1>7, <1>8, <1>9, <1>10, <1>12
<1> QED  BY <1>11, <1>12

(* and those of the order that goes and of the one in its stead.            *)
LEMMA DeleteOrReplaceRests ==
  ASSUME TypeOK, ReadTrue, Valid, Is({"Delete", "Replace"}), Hit,
         NEW s, NEW ask, NEW price
  PROVE  /\ Resting(Memory, s, ask, price)
              = Resting(memory, s, ask, price) - Taken(s, ask, price) + Given(s, ask, price)
         /\ Taken(s, ask, price) <= Resting(memory, s, ask, price)
<1> DEFINE a == SlotOf(current.order)
           b == SlotOf(current.new_order)
           new == Added(current.new_order, table_a.side)
<1>1. /\ a \in Slots /\ b \in Slots /\ memory \in [Slots -> Entry]
      /\ memory[a] = table_a /\ memory[b] = table_b
      /\ table_a \in Entry /\ new \in Entry /\ Empty \in Entry
  BY CurrentEvent, EntryTypes, EmptyTypes DEF TypeOK, ReadTrue, PortsCurrent
<1>2. /\ Ask = table_a.side /\ Removal.valid
      /\ Removal.price = table_a.price /\ Removal.shares = table_a.shares
      /\ Insertion.price = current.price /\ Insertion.shares = current.shares
      /\ EntryA = Empty
      /\ WriteB <=> Takes
      /\ WriteA <=> ~(Takes /\ SameSlot)
      /\ Takes => ~table_b.live \/ SameSlot
  BY DEF Ask, Removal, WriteA, WriteB, Insertion, Adding, Replacing, Takes,
         Accepted, Changed, Freed, Stored, Reduces, Is, EntryA
<1>3. /\ Resting(memory, s, ask, price) \in Nat
      /\ SharesOf(table_a, s, ask, price) <= Resting(memory, s, ask, price)
      /\ SharesOf(table_a, s, ask, price) \in Nat
      /\ SharesOf(new, s, ask, price) \in Nat
  BY <1>1, SharesInNat, SharesOfNat
<1>4. Taken(s, ask, price) = SharesOf(table_a, s, ask, price)
  BY <1>2 DEF Taken, SharesOf, Hit
<1>5. SharesOf(Empty, s, ask, price) = 0  BY DEF SharesOf, Empty
<1>6. SameSlot <=> a = b  BY DEF SameSlot
<1>7. Given(s, ask, price) = IF Takes THEN SharesOf(new, s, ask, price) ELSE 0
  BY <1>2 DEF Given, SharesOf, Added
<1>8. Memory = IF WriteA THEN Written(IF WriteB THEN Written(memory, b, new) ELSE memory,
                                      a, EntryA)
               ELSE IF WriteB THEN Written(memory, b, new) ELSE memory
  BY MemoryWritten
<1> HIDE DEF a, b, new
<1>9. CASE ~Takes
  <2>1. Memory = Written(memory, a, Empty)  BY <1>2, <1>8, <1>9
  <2>2. Resting(Memory, s, ask, price)
          = Resting(memory, s, ask, price) - SharesOf(table_a, s, ask, price)
                                           + SharesOf(Empty, s, ask, price)
    BY <1>1, <2>1, RestingWritten
  <2>3. Given(s, ask, price) = 0  BY <1>7, <1>9
  <2> QED  BY <1>3, <1>4, <1>5, <2>2, <2>3
<1>10. CASE Takes /\ a = b
  <2>1. Memory = Written(memory, a, new)  BY <1>2, <1>6, <1>8, <1>10
  <2>2. Resting(Memory, s, ask, price)
          = Resting(memory, s, ask, price) - SharesOf(table_a, s, ask, price)
                                           + SharesOf(new, s, ask, price)
    BY <1>1, <2>1, RestingWritten
  <2> QED  BY <1>3, <1>4, <1>7, <1>10, <2>2
<1>11. CASE Takes /\ a # b
  <2>1. PICK m : m = Written(memory, b, new)  OBVIOUS
  <2>2. /\ m \in [Slots -> Entry]
        /\ Resting(m, s, ask, price)
             = Resting(memory, s, ask, price) - SharesOf(table_b, s, ask, price)
                                              + SharesOf(new, s, ask, price)
    BY <1>1, <2>1, RestingWritten
  <2>3. m[a] = table_a  BY <1>1, <1>11, <2>1 DEF Written
  <2>4. Resting(Memory, s, ask, price)
          = Resting(m, s, ask, price) - SharesOf(table_a, s, ask, price)
                                      + SharesOf(Empty, s, ask, price)
    <3>1. Memory = Written(m, a, Empty)  BY <1>2, <1>6, <1>8, <1>11, <2>1
    <3>2. Resting(Written(m, a, Empty), s, ask, price)
            = Resting(m, s, ask, price) - SharesOf(m[a], s, ask, price)
                                        + SharesOf(Empty, s, ask, price)
      <4>1. a \in Slots /\ Empty \in Entry /\ m \in [Slots -> Entry]  BY <1>1, <2>2
      <4> QED  BY <4>1, RestingWritten
    <3> QED  BY <2>3, <3>1, <3>2
  <2>5. SharesOf(table_b, s, ask, price) = 0  BY <1>2, <1>6, <1>11 DEF SharesOf
  <2> QED  BY <1>3, <1>4, <1>5, <1>7, <1>11, <2>2, <2>4, <2>5
<1> QED  BY <1>9, <1>10, <1>11

(* What rests after the event.                                              *)
LEMMA RestingUpdated ==
  ASSUME TypeOK, ReadTrue, Valid, NEW s, NEW ask, NEW price
  PROVE  /\ Resting(Memory, s, ask, price)
              = Resting(memory, s, ask, price) - Taken(s, ask, price) + Given(s, ask, price)
         /\ Taken(s, ask, price) <= Resting(memory, s, ask, price)
<1>1. current.kind \in Kinds  BY CurrentEvent DEF Event
<1>2. CASE ~Is({"Add"}) /\ ~Hit
  <2>1. ~Removal.valid /\ ~Takes /\ ~WriteA /\ ~WriteB
    BY <1>2 DEF Removal, Insertion, Adding, Replacing, Takes, Accepted, WriteA, WriteB,
         Stored, Changed, Freed, Is
  <2>2. Memory = memory  BY <2>1, MemoryWritten
  <2>3. Taken(s, ask, price) = 0 /\ Given(s, ask, price) = 0
    BY <2>1 DEF Taken, Given
  <2>4. Resting(memory, s, ask, price) \in Nat  BY SharesInNat DEF TypeOK
  <2> QED  BY <2>2, <2>3, <2>4
<1>3. CASE Is({"Add"})  BY <1>3, AddRests
<1>4. CASE Reduces /\ Hit  BY <1>4, ReduceRests
<1>5. CASE Is({"Delete", "Replace"}) /\ Hit  BY <1>5, DeleteOrReplaceRests
<1> QED  BY <1>1, <1>2, <1>3, <1>4, <1>5 DEF Kinds, Reduces, Is

-----------------------------------------------------------------------------
(* The levels and the orders together.                                      *)

(* Until the sweep has ended the book is empty.                             *)
Unused == ~Ready => /\ levels = [s \in Symbols |-> [ask \in BOOLEAN |-> EmptySide]]
                    /\ lost = [s \in Symbols |-> [ask \in BOOLEAN |-> FALSE]]

(* No event counts before the sweep has ended, so nothing fills the book.   *)
LEMMA NextUnused ==
  TypeOK /\ ReadTrue /\ Unused /\ [Next]_vars => Unused'
<1> SUFFICES ASSUME TypeOK, ReadTrue, Unused, [Next]_vars PROVE Unused'
  OBVIOUS
<1>1. ASSUME Update, sweep' = NextSweep(sweep) PROVE Unused'
  <2>1. CASE Ready  BY <1>1, <2>1 DEF Unused, Ready, NextSweep
  <2>2. CASE ~Ready
    <3>1. ~Valid  BY <2>2 DEF ReadTrue, PortsCurrent
    <3> QED  BY <1>1, <2>2, <3>1 DEF Unused, Update
  <2> QED  BY <2>1, <2>2
<1>2. CASE Quiet  BY <1>1, <1>2 DEF Quiet
<1>3. ASSUME NEW event \in Events, Arrive(event) PROVE Unused'
  BY <1>1, <1>3 DEF Arrive
<1>4. CASE Clear  BY <1>4 DEF Clear, Unused
<1>5. CASE UNCHANGED vars  BY <1>5 DEF vars, Unused, Ready
<1> QED  BY <1>2, <1>3, <1>4, <1>5 DEF Next

(* One event at one price: the levels gain no more than the table, and as   *)
(* much unless something is lost.                                           *)
LEMMA SharesFollow ==
  ASSUME TypeOK, SidesSound, ReadTrue, Valid, Update,
         NEW s \in Symbols, NEW ask \in BOOLEAN, NEW price
  PROVE  /\ SharesAt(levels[s][ask], price) <= Resting(memory, s, ask, price)
              => SharesAt(levels'[s][ask], price) <= Resting(memory', s, ask, price)
         /\ ~lost'[s][ask] =>
              /\ ~lost[s][ask]
              /\ SharesAt(levels[s][ask], price) = Resting(memory, s, ask, price)
                   => SharesAt(levels'[s][ask], price) = Resting(memory', s, ask, price)
<1> DEFINE was == SharesAt(levels[s][ask], price)
           now == SharesAt(levels'[s][ask], price)
           rest == Resting(memory, s, ask, price)
           taken == Taken(s, ask, price)
           given == Given(s, ask, price)
<1>1. /\ current.symbol \in Symbols /\ Ask \in BOOLEAN
      /\ Removal \in Change /\ Insertion \in Change
      /\ OppositeBest \in Level
  BY CurrentEvent, ChangeTypes, UpdatedSideType
<1>2. /\ levels[s][ask] \in Side /\ Sound(ask, levels[s][ask])
      /\ was \in Nat
  BY SharesAtNat DEF TypeOK, SidesSound
<1>3. /\ Resting(memory', s, ask, price) = rest - taken + given
      /\ taken <= rest
  BY RestingUpdated DEF Update
<1>4. rest \in Nat  BY SharesInNat DEF TypeOK
<1>5. taken \in Nat /\ given \in Nat
  BY <1>1, BookSideAssumption DEF Taken, Given, Change
<1>6. CASE s = current.symbol /\ ask = Ask
  <2> DEFINE left == IF was > taken THEN was - taken ELSE 0
  <2>1. levels'[s][ask] = UpdatedSide
    <3>1. levels' = [levels EXCEPT ![current.symbol][Ask] = UpdatedSide]
      BY DEF Update
    <3>2. levels \in [Symbols -> [BOOLEAN -> Side]]  BY DEF TypeOK
    <3> QED  BY <1>1, <1>6, <3>1, <3>2
  <2>2. (lost'[s][ask] <=> lost[s][ask] \/ Drops)
    <3>1. lost' = [lost EXCEPT ![current.symbol][Ask] = @ \/ Drops]
      BY DEF Update
    <3>2. lost \in [Symbols -> [BOOLEAN -> BOOLEAN]]  BY DEF TypeOK
    <3>3. lost'[s][ask] = (lost[s][ask] \/ Drops)
      BY <1>1, <1>6, <3>1, <3>2
    <3> QED  BY <3>3
  <2>3. Drops <=> Takes /\ Loses(Remove(levels[s][ask], Removal), Insertion)
    BY <1>6 DEF Drops, Loses
  <2>4. left = IF Removal.valid /\ price = Removal.price
                 THEN IF was > Removal.shares THEN was - Removal.shares ELSE 0
                 ELSE was
    BY <1>2, <1>6 DEF Taken
  <2>5. given = IF Takes /\ price = Insertion.price THEN Insertion.shares ELSE 0
    BY <1>6 DEF Given
  <2>6. UpdatedSide = Updated(ask, levels[s][ask], OppositeBest, Removal, Insertion)
    BY <1>6 DEF UpdatedSide
  <2>7. Takes <=> Accepted(ask, OppositeBest, Insertion)
    BY <1>6 DEF Takes
  <2> HIDE DEF was, now, rest, taken, given, left
  <2>8. now <= left + given /\ (~Drops => now = left + given)
    <3> DEFINE u == Updated(ask, levels[s][ask], OppositeBest, Removal, Insertion)
               l == IF Removal.valid /\ price = Removal.price
                      THEN IF SharesAt(levels[s][ask], price) > Removal.shares
                             THEN SharesAt(levels[s][ask], price) - Removal.shares ELSE 0
                      ELSE SharesAt(levels[s][ask], price)
               g == IF Accepted(ask, OppositeBest, Insertion) /\ price = Insertion.price
                      THEN Insertion.shares ELSE 0
    <3>1. /\ SharesAt(u, price) <= l + g
          /\ ~(Accepted(ask, OppositeBest, Insertion)
                 /\ Loses(Remove(levels[s][ask], Removal), Insertion))
               => SharesAt(u, price) = l + g
      BY <1>1, <1>2, SharesAfterUpdate
    <3>2. l = left  BY <2>4 DEF was
    <3>3. g = given  BY <2>5, <2>7
    <3>4. SharesAt(u, price) = now  BY <2>1, <2>6 DEF now
    <3> HIDE DEF u, l, g
    <3> QED  BY <2>3, <2>7, <3>1, <3>2, <3>3, <3>4
  <2>9. UpdatedSide \in Side /\ Sound(ask, UpdatedSide)
    BY <1>6, UpdatedSideType, UpdateSound
  <2>10. now \in Nat  BY <2>1, <2>9, SharesAtNat DEF now
  <2>11. was <= rest => left <= rest - taken
    BY <1>2, <1>3, <1>4, <1>5 DEF left
  <2>12. was = rest => left = rest - taken
    BY <1>2, <1>3, <1>4, <1>5 DEF left
  <2>13. left \in Nat  BY <1>2, <1>5 DEF left
  <2>14. was <= rest => now <= rest - taken + given
    BY <1>4, <1>5, <2>8, <2>10, <2>11, <2>13
  <2>15. ~Drops /\ was = rest => now = rest - taken + given
    BY <2>8, <2>12
  <2> QED  BY <1>3, <2>2, <2>14, <2>15 DEF was, now, rest
<1>7. CASE ~(s = current.symbol /\ ask = Ask)
  <2>1. levels'[s][ask] = levels[s][ask]
    <3>1. levels' = [levels EXCEPT ![current.symbol][Ask] = UpdatedSide]
      BY DEF Update
    <3>2. levels \in [Symbols -> [BOOLEAN -> Side]]  BY DEF TypeOK
    <3> QED  BY <1>1, <1>7, <3>1, <3>2
  <2>2. lost'[s][ask] = lost[s][ask]
    <3>1. lost' = [lost EXCEPT ![current.symbol][Ask] = @ \/ Drops]
      BY DEF Update
    <3>2. lost \in [Symbols -> [BOOLEAN -> BOOLEAN]]  BY DEF TypeOK
    <3> QED  BY <1>1, <1>7, <3>1, <3>2
  <2>3. taken = 0 /\ given = 0  BY <1>7 DEF Taken, Given
  <2>4. Resting(memory', s, ask, price) = rest  BY <1>3, <1>4, <2>3
  <2> QED  BY <2>1, <2>2, <2>4
<1> QED  BY <1>6, <1>7

(* When the sweep ends there are neither levels nor orders.                 *)
LEMMA NothingSwept ==
  ASSUME TypeOK, ReadTrue, Unused, Update, sweep' = NextSweep(sweep), ~Ready, Ready',
         NEW s \in Symbols, NEW ask \in BOOLEAN, NEW price
  PROVE  /\ SharesAt(levels'[s][ask], price) = 0
         /\ Resting(memory', s, ask, price) = 0
<1>1. ~Valid  BY DEF ReadTrue, PortsCurrent
<1>2. levels'[s][ask] = EmptySide  BY <1>1 DEF Update, Unused
<1>3. SharesAt(EmptySide, price) = 0
  BY EmptyLevelType, SharesAtNone DEF EmptySide
<1>4. sweep = SlotCount - 1
  BY OrderBookAssumption DEF Ready, NextSweep, TypeOK
<1>5. memory' = Written(memory, sweep, Empty)  BY <1>1, MemorySwept DEF Update
<1>6. \A i \in Slots : i # sweep => ~memory[i].live
  BY <1>4, OrderBookAssumption DEF ReadTrue, Swept, Slots
<1>7. \A i \in Slots : ~memory'[i].live  BY <1>5, <1>6 DEF Written, Empty
<1>8. Resting(memory', s, ask, price) = 0  BY <1>7, RestingNone
<1> QED  BY <1>2, <1>3, <1>8

(* One clock edge keeps the levels behind the orders of the table, and      *)
(* equal to them while nothing is lost.                                     *)
LEMMA UpdateKeepsShares ==
  ASSUME TypeOK, SidesSound, ReadTrue, Unused, Update, sweep' = NextSweep(sweep)
  PROVE  /\ BackedByOrders => BackedByOrders'
         /\ ExactUntilLost => ExactUntilLost'
<1>1. CASE Ready /\ Valid
  <2>1. BackedByOrders => BackedByOrders'
    BY <1>1, SharesFollow DEF BackedByOrders
  <2>2. ExactUntilLost => ExactUntilLost'
    BY <1>1, SharesFollow DEF ExactUntilLost
  <2> QED  BY <2>1, <2>2
<1>2. CASE Ready /\ ~Valid
  <2>1. memory' = memory /\ levels' = levels /\ lost' = lost
    BY <1>2, MemoryKept DEF Update
  <2> QED  BY <1>2, <2>1 DEF BackedByOrders, ExactUntilLost
<1>3. CASE ~Ready /\ Ready'
  BY <1>3, NothingSwept DEF BackedByOrders, ExactUntilLost
<1>4. CASE ~Ready'
  BY <1>4 DEF BackedByOrders, ExactUntilLost
<1> QED  BY <1>1, <1>2, <1>3, <1>4

(* Every step does so: an update by the lemma above, and a clear begins the *)
(* sweep again.                                                             *)
LEMMA NextKeepsShares ==
  TypeOK /\ SidesSound /\ ReadTrue /\ Unused /\ [Next]_vars
    => /\ BackedByOrders => BackedByOrders'
       /\ ExactUntilLost => ExactUntilLost'
<1> SUFFICES ASSUME TypeOK, SidesSound, ReadTrue, Unused, [Next]_vars
             PROVE  /\ BackedByOrders => BackedByOrders'
                    /\ ExactUntilLost => ExactUntilLost'
  OBVIOUS
<1>1. CASE Quiet  BY <1>1, UpdateKeepsShares DEF Quiet
<1>2. ASSUME NEW event \in Events, Arrive(event)
      PROVE  /\ BackedByOrders => BackedByOrders'
             /\ ExactUntilLost => ExactUntilLost'
  BY <1>2, UpdateKeepsShares DEF Arrive
<1>3. CASE Clear
  <2>1. ~Ready'  BY <1>3, OrderBookAssumption DEF Clear, Ready
  <2> QED  BY <2>1 DEF BackedByOrders, ExactUntilLost
<1>4. CASE UNCHANGED vars
  BY <1>4 DEF vars, BackedByOrders, ExactUntilLost, Ready
<1> QED  BY <1>1, <1>2, <1>3, <1>4 DEF Next

(* In the initial state the sweep has not begun.                            *)
LEMMA InitShares == Init => Unused /\ BackedByOrders /\ ExactUntilLost
<1> SUFFICES ASSUME Init PROVE Unused /\ BackedByOrders /\ ExactUntilLost
  OBVIOUS
<1>1. ~Ready  BY OrderBookAssumption DEF Init, Ready
<1> QED  BY <1>1 DEF Init, Unused, BackedByOrders, ExactUntilLost

(* Whatever events come in whatever order, and whenever the book is         *)
(* cleared, no level shows more shares than the live orders of the table    *)
(* have at its price.                                                       *)
THEOREM BookBackedByOrders == Spec => []BackedByOrders
<1>1. Spec => []ReadTrue
  BY InitReadTrue, NextReadTrue, BookTypeOK, PTL DEF Spec
<1>2. Spec => []Unused
  BY <1>1, InitShares, NextUnused, BookTypeOK, PTL DEF Spec
<1> QED
  BY <1>1, <1>2, InitShares, NextKeepsShares, BookTypeOK, BookSidesSound, PTL DEF Spec

(* Until a level leaves the last place or saturates, the levels of a side   *)
(* are the live orders of the table added up price by price.                *)
THEOREM BookExactUntilLost == Spec => []ExactUntilLost
<1>1. Spec => []ReadTrue
  BY InitReadTrue, NextReadTrue, BookTypeOK, PTL DEF Spec
<1>2. Spec => []Unused
  BY <1>1, InitShares, NextUnused, BookTypeOK, PTL DEF Spec
<1> QED
  BY <1>1, <1>2, InitShares, NextKeepsShares, BookTypeOK, BookSidesSound, PTL DEF Spec

=============================================================================
