------------------------------ MODULE BookSide ------------------------------
(***************************************************************************)
(* hardware/hardcaml/src/book_side.ml: one combinational update of the     *)
(* price levels of one side of one symbol.  A side is a vector of Levels   *)
(* levels, best first; a level without shares is an empty place.           *)
(***************************************************************************)
EXTENDS Integers

CONSTANTS Levels,     \* price levels a side keeps
          MaxShares,  \* the most shares a level's word counts (2^32 - 1)
          MaxPrice    \* the highest price (2^32 - 1)

ASSUME BookSideAssumption == /\ Levels \in Nat \ {0}
                             /\ MaxShares \in Nat \ {0}
                             /\ MaxPrice \in Nat

Places == 1 .. Levels
Level == [price : 0 .. MaxPrice, shares : 0 .. MaxShares]
Side == [Places -> Level]
Change == [valid : BOOLEAN, price : 0 .. MaxPrice, shares : 0 .. MaxShares]

EmptyLevel == [price |-> 0, shares |-> 0]
EmptySide == [i \in Places |-> EmptyLevel]

Live(level) == level.shares # 0
Better(ask, a, b) == IF ask THEN a < b ELSE a > b

-----------------------------------------------------------------------------
(* The level at the price loses the shares; when that empties it, the       *)
(* levels behind it move up.                                                *)

Found(side, change, i) ==
  change.valid /\ Live(side[i]) /\ side[i].price = change.price
Emptied(side, change, i) ==
  Found(side, change, i) /\ change.shares >= side[i].shares

(* A removal that shifts only the places behind the emptied one. *)
RemoveLeavesHole(side, change) ==
  [i \in Places |->
     IF Emptied(side, change, i) THEN EmptyLevel
     ELSE IF Found(side, change, i)
       THEN [side[i] EXCEPT !.shares = @ - change.shares]
     ELSE side[i]]

Remove(side, change) ==
  [i \in Places |->
     IF \E j \in 1 .. i : Emptied(side, change, j)
       THEN IF i = Levels THEN EmptyLevel ELSE side[i + 1]
     ELSE IF Found(side, change, i)
       THEN [side[i] EXCEPT !.shares = @ - change.shares]
     ELSE side[i]]

-----------------------------------------------------------------------------
(* More shares at a held price, or a new level in its place; a level pushed *)
(* past the last place is lost.                                             *)

Saturating(a, b) == IF a + b > MaxShares THEN MaxShares ELSE a + b

Matched(side, change, i) == Live(side[i]) /\ side[i].price = change.price
Ahead(ask, side, change, i) ==
  Live(side[i]) /\ Better(ask, side[i].price, change.price)

Insert(ask, side, change) ==
  LET place == [price |-> change.price, shares |-> change.shares]
      held == \E i \in Places : Matched(side, change, i)
  IN [i \in Places |->
        IF ~change.valid THEN side[i]
        ELSE IF Matched(side, change, i)
          THEN [side[i] EXCEPT !.shares = Saturating(@, change.shares)]
        ELSE IF held \/ Ahead(ask, side, change, i) THEN side[i]
        ELSE IF i = 1 \/ Ahead(ask, side, change, i - 1) THEN place
        ELSE side[i - 1]]

-----------------------------------------------------------------------------

(* An added order that would trade with the best opposite level. *)
Crosses(ask, opposite, price) ==
  Live(opposite) /\ IF ask THEN price <= opposite.price ELSE price >= opposite.price

Accepted(ask, opposite, change) ==
  change.valid /\ change.shares # 0 /\ ~Crosses(ask, opposite, change.price)

Updated(ask, side, opposite, remove, insert) ==
  Insert(ask, Remove(side, remove),
         [insert EXCEPT !.valid = Accepted(ask, opposite, insert)])

-----------------------------------------------------------------------------
(* A sound side: no empty place before a level, levels strictly best first. *)

Gapless(side) ==
  \A i \in Places : ~Live(side[i]) => /\ side[i] = EmptyLevel
                                     /\ \A j \in i .. Levels : ~Live(side[j])
BestFirst(ask, side) ==
  \A i, j \in Places :
    i < j /\ Live(side[j]) => Better(ask, side[i].price, side[j].price)
Sound(ask, side) == Gapless(side) /\ BestFirst(ask, side)

=============================================================================
