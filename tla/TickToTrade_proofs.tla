------------------------- MODULE TickToTrade_proofs -------------------------
(***************************************************************************)
(* The two ends of the trading path.  Every decision comes when it is due  *)
(* and is the one on its own beat, for every latency of the model,         *)
(* whatever it computes, every width of the token, any beats and a clear   *)
(* on any edge.  Every message of every packet leaves the framer whole and *)
(* on time and becomes the event the software model parses, with cycles    *)
(* between beats and a clear anywhere.                                     *)
(*                                                                         *)
(* Decisions.  First the arithmetic: the nibbles of the hardware, shifted  *)
(* by its count of leading zeros, are those of the software model, by its  *)
(* bit length.  A beat is followed by its age, the edges since the book    *)
(* showed it.  At each age the registers of that age hold what the beat    *)
(* becomes; an edge ages every beat by one.  The decisions that are due    *)
(* name the beats under way, oldest first, with the token each will find.  *)
(*                                                                         *)
(* Packets.  First the bytes: where the blocks of a packet lie and what    *)
(* each byte reads as.  Position says where the framer stands after some   *)
(* beats: in the header, at or in the length field of a block, in its      *)
(* body, with what it keeps of it, or past all that is framed.  Each beat  *)
(* takes it on by eight bytes, however the blocks lie across the beats.    *)
(***************************************************************************)
EXTENDS TickToTrade, FeedFrontEnd, SequenceTheorems, FiniteSetTheorems,
        WellFoundedInduction, NaturalsInduction, TLAPS

-----------------------------------------------------------------------------
(* The arithmetic of the three stages is that of the software model.       *)

Widest == ShareBits + Levels

LEMMA WidestIs == Widest \in Nat /\ ShareBits \in 1 .. Widest
BY FeaturesAssumption DEF Widest

\* Induction over the numbers: of some numbers one is the least.
LEMMA LeastNumber ==
  ASSUME NEW T \in SUBSET Nat, T # {}
  PROVE  \E x \in T : \A y \in T : x <= y
<1> DEFINE R == {ss \in Nat \X Nat : ss[1] < ss[2]}
<1>1. IsWellFoundedOn(R, Nat)
  BY NatLessThanWellFounded DEF OpToRel
<1>2. PICK x \in T : \A y \in T : ~ (<<y, x>> \in R)
  BY <1>1, WFMin
<1>3. ASSUME NEW y \in T PROVE x <= y
  <2>1. x \in Nat /\ y \in Nat /\ ~(<<y, x>> \in R)
    BY <1>2
  <2>2. y < x => <<y, x>> \in R
    BY <2>1
  <2> QED
    BY <2>1, <2>2
<1> QED
  BY <1>3

\* The powers that are used, as a function.
Powers == [k \in 0 .. Widest + 1 |-> 2 ^ k]

LEMMA PowersAre ==
  /\ Powers[0] = 1
  /\ \A k \in 0 .. Widest : Powers[k + 1] = 2 * Powers[k]
  /\ \A k \in 0 .. Widest + 1 : Powers[k] \in Nat \ {0}
<1>1. Powers[0] = 1 /\ \A k \in 0 .. Widest : Powers[k + 1] = 2 * Powers[k]
  <2>1. Powers[0] = 1
    BY PowersOfTwo, WidestIs DEF Powers
  <2>2. ASSUME NEW k \in 0 .. Widest PROVE Powers[k + 1] = 2 * Powers[k]
    <3>1. Powers[k + 1] = 2 ^ (k + 1) /\ Powers[k] = 2 ^ k
      BY WidestIs DEF Powers
    <3> QED
      BY <3>1, PowersOfTwo DEF Widest
  <2> QED
    BY <2>1, <2>2
<1>2. PICK p : p = Powers
  OBVIOUS
<1> DEFINE T == {k \in 0 .. Widest + 1 : p[k] \notin Nat \ {0}}
<1>3. ASSUME T # {} PROVE FALSE
  <2>0. T \in SUBSET Nat
    BY WidestIs
  <2>1. PICK x \in T : \A y \in T : x <= y
    BY <2>0, <1>3, LeastNumber
  <2>2. x # 0
    BY <2>1, <1>1, <1>2
  <2>3. x - 1 \in 0 .. Widest /\ x - 1 \notin T
    BY <2>1, <2>2, WidestIs
  <2>4. p[x - 1] \in Nat \ {0} /\ p[(x - 1) + 1] = 2 * p[x - 1]
    BY <2>3, <1>1, <1>2, WidestIs
  <2> QED
    BY <2>1, <2>4
<1> QED
  BY <1>1, <1>2, <1>3

LEMMA Doubles ==
  ASSUME NEW k \in 0 .. Widest, NEW m, m = k + 1
  PROVE  Powers[m] = 2 * Powers[k]
BY PowersAre

LEMMA PowersGrow ==
  ASSUME NEW i \in 0 .. Widest + 1, NEW j \in 0 .. Widest + 1, i <= j
  PROVE  Powers[i] <= Powers[j]
<1> DEFINE T == {k \in i .. Widest + 1 : ~ (Powers[i] <= Powers[k])}
<1>1. ASSUME T # {} PROVE FALSE
  <2>0. T \in SUBSET Nat
    BY WidestIs
  <2>1. PICK x \in T : \A y \in T : x <= y
    BY <2>0, <1>1, LeastNumber
  <2>2. x # i
    BY <2>1, PowersAre
  <2>3. x - 1 \in 0 .. Widest /\ x - 1 \in i .. Widest + 1 /\ x - 1 \notin T
    BY <2>1, <2>2, WidestIs
  <2>4. PICK a, b, c \in Nat \ {0} :
          a = Powers[i] /\ b = Powers[x - 1] /\ c = Powers[(x - 1) + 1]
    BY <2>3, PowersAre, WidestIs
  <2>5. a <= b /\ c = 2 * b
    BY <2>3, <2>4, PowersAre
  <2>6. (x - 1) + 1 = x /\ ~(Powers[i] <= Powers[x])
    BY <2>1, WidestIs
  <2>7. Powers[x] = c
    BY <2>4, <2>6
  <2> QED
    BY <2>4, <2>5, <2>6, <2>7
<1> QED
  BY <1>1

\* A number has as many bits as there are powers up to it.
LEMMA BitsAre ==
  ASSUME NEW bits \in 1 .. Widest, NEW n \in Nat, n < 2 ^ bits
  PROVE  \E l \in 0 .. bits :
           /\ Reference!BitLength(n) = l
           /\ LeadingZeros(n, bits) = bits - l
           /\ n < 2 ^ l
<1> DEFINE T == {k \in 0 .. bits : n < Powers[k]}
<1>1. \A k \in 0 .. Widest : Powers[k] = 2 ^ k
  BY WidestIs DEF Powers
<1>2. bits \in T
  BY <1>1, WidestIs
<1>3. PICK l \in T : \A y \in T : l <= y
  <2>1. T \in SUBSET Nat
    OBVIOUS
  <2> QED
    BY <2>1, <1>2, LeastNumber
<1>4. ASSUME NEW k \in 0 .. Widest
      PROVE  (k < l => 2 ^ k <= n) /\ (k >= l => n < 2 ^ k /\ ~(2 ^ k <= n))
  <2>1. Powers[k] \in Nat /\ Powers[l] \in Nat /\ Powers[k] = 2 ^ k
    BY <1>1, PowersAre, WidestIs
  <2>2. k < l => k \notin T /\ k \in 0 .. bits
    BY <1>3
  <2>3. k >= l => Powers[l] <= Powers[k]
    BY PowersGrow, WidestIs
  <2> QED
    BY <2>1, <2>2, <2>3, <1>3
<1>5. {k \in 0 .. Widest : 2 ^ k <= n} = 0 .. l - 1
  BY <1>3, <1>4, WidestIs
<1>6. {k \in 0 .. bits - 1 : n < 2 ^ k} = l .. bits - 1
  <2>1. ASSUME NEW k \in 0 .. bits - 1 PROVE n < 2 ^ k <=> k \in l .. bits - 1
    <3>1. k \in 0 .. Widest
      BY WidestIs
    <3>2. 2 ^ k \in Nat
      BY <3>1, <1>1, PowersAre, WidestIs
    <3> QED
      BY <3>1, <3>2, <1>3, <1>4
  <2>2. l .. bits - 1 \subseteq 0 .. bits - 1
    BY <1>3
  <2> QED
    BY <2>1, <2>2
<1>7. Cardinality(0 .. l - 1) = l /\ Cardinality(l .. bits - 1) = bits - l
  BY <1>3, FS_Interval
<1>8. n < 2 ^ l
  BY <1>1, <1>3, WidestIs
<1>9. /\ Reference!BitLength(n) = Cardinality({k \in 0 .. Widest : 2 ^ k <= n})
      /\ LeadingZeros(n, bits) = Cardinality({k \in 0 .. bits - 1 : n < 2 ^ k})
  BY DEF Reference!BitLength, Widest, LeadingZeros, Cardinality, Reference!Cardinality
<1> QED
  BY <1>3, <1>5, <1>6, <1>7, <1>8, <1>9

LEMMA Nibble ==
  ASSUME NEW p \in Nat \ {0}, NEW v \in Nat, v < 16 * p
  PROVE  v \div p \in 0 .. 15 /\ (v \div p) % 16 = v \div p
<1>1. v \div p \in Nat
  OBVIOUS
<1>2. p * (v \div p) <= v
  OBVIOUS
<1>3. v \div p < 16
  BY <1>1, <1>2
<1> QED
  BY <1>1, <1>3

LEMMA RatioIs ==
  ASSUME NEW bid \in Nat, NEW ask \in Nat
  PROVE  Imbalance(bid, ask) = Reference!RoundedRatio(bid, ask)
BY DEF Imbalance, Abs, Reference!RoundedRatio, Reference!Magnitude

\* Two counts are brought to nibbles alike.
LEMMA NibblesAgree ==
  ASSUME NEW bits \in 1 .. Widest, NEW a \in 0 .. 2 ^ bits - 1, NEW b \in 0 .. 2 ^ bits - 1
  PROVE  Imbalance(Normalized(a, b, bits)[1], Normalized(a, b, bits)[2])
           = Reference!NormalizedRatio(a, b)
<1>1. 2 ^ bits \in Nat /\ \A k \in 0 .. Widest : Powers[k] = 2 ^ k
  <2>1. \A k \in 0 .. Widest : Powers[k] = 2 ^ k
    BY WidestIs DEF Powers
  <2> QED
    BY <2>1, PowersAre, WidestIs
<1>2. PICK n \in Nat : n = IF a > b THEN a ELSE b
  BY <1>1
<1>3. n < 2 ^ bits /\ a <= n /\ b <= n /\ n = IF a < b THEN b ELSE a
  BY <1>1, <1>2
<1>4. PICK l \in 0 .. bits : /\ Reference!BitLength(n) = l
                             /\ LeadingZeros(n, bits) = bits - l
                             /\ n < 2 ^ l
  BY <1>3, BitsAre
<1>5. PICK s \in Nat : s = IF l > 4 THEN l - 4 ELSE 0
  OBVIOUS
<1>6. s = IF LeadingZeros(n, bits) >= bits - 4 THEN 0 ELSE bits - 4 - LeadingZeros(n, bits)
  BY <1>4, <1>5, WidestIs
<1>7. PICK p \in Nat \ {0} : p = 2 ^ s /\ n < 16 * p
  <2>1. s \in 0 .. Widest /\ l \in 0 .. Widest
    BY <1>5, WidestIs
  <2>2. PICK p \in Nat \ {0} : p = Powers[s]
    BY <2>1, PowersAre, WidestIs
  <2>3. CASE l > 4
    <3>1. /\ s \in 0 .. Widest /\ s + 1 \in 0 .. Widest
          /\ s + 2 \in 0 .. Widest /\ s + 3 \in 0 .. Widest
          /\ (s + 1) + 1 = s + 2 /\ (s + 2) + 1 = s + 3 /\ (s + 3) + 1 = l
      BY <2>1, <2>3, <1>5, WidestIs
    <3>2. Powers[s + 1] = 2 * Powers[s] /\ Powers[s + 2] = 2 * Powers[s + 1]
          /\ Powers[s + 3] = 2 * Powers[s + 2] /\ Powers[l] = 2 * Powers[s + 3]
      BY <3>1, PowersAre
    <3>3. Powers[l] = 16 * p
      BY <3>2, <2>2
    <3> QED
      BY <3>3, <2>1, <2>2, <1>1, <1>4
  <2>4. CASE l <= 4
    <3>1. Powers[0] = 1 /\ p = 1
      BY <2>2, <2>4, <1>5, PowersAre
    <3>2. 0 \in 0 .. Widest /\ 1 \in 0 .. Widest + 1 /\ Powers[1] = 2
      BY PowersAre, WidestIs
    <3>3. Powers[l] <= 16
      <4>1. ASSUME l >= 2 PROVE Powers[2] = 4
        <5>1. PICK i \in 0 .. Widest, j \in 0 .. Widest : i = 1 /\ j = 2
          BY <2>1, <4>1, WidestIs
        <5>2. Powers[j] = 2 * Powers[i]
          BY <5>1, Doubles
        <5> QED
          BY <5>1, <5>2, <3>2, <4>1
      <4>2. ASSUME l >= 3 PROVE Powers[3] = 8
        <5>1. PICK i \in 0 .. Widest, j \in 0 .. Widest : i = 2 /\ j = 3
          BY <2>1, <4>2, WidestIs
        <5>2. Powers[j] = 2 * Powers[i]
          BY <5>1, Doubles
        <5> QED
          BY <5>1, <5>2, <4>1, <4>2
      <4>3. ASSUME l >= 4 PROVE Powers[4] = 16
        <5>1. PICK i \in 0 .. Widest, j \in 0 .. Widest : i = 3 /\ j = 4
          BY <2>1, <4>3, WidestIs
        <5>2. Powers[j] = 2 * Powers[i]
          BY <5>1, Doubles
        <5> QED
          BY <5>1, <5>2, <4>2, <4>3
      <4> QED
        BY <2>4, <3>1, <3>2, <4>1, <4>2, <4>3
    <3>4. Powers[l] = 2 ^ l /\ p = 2 ^ s /\ Powers[l] \in Nat
      BY <2>1, <2>2, <1>1, PowersAre, WidestIs
    <3> QED
      BY <3>1, <3>3, <3>4, <1>4
  <2> QED
    BY <2>3, <2>4
<1>8. PICK x, y \in Nat : x = a \div p /\ y = b \div p /\ x % 16 = x /\ y % 16 = y
  <2>1. a < 16 * p /\ b < 16 * p /\ a \in Nat /\ b \in Nat
    BY <1>1, <1>3, <1>7
  <2>2. PICK x, y : x = a \div p /\ y = b \div p
    OBVIOUS
  <2>3. x \in 0 .. 15 /\ x % 16 = x
    BY <2>1, <2>2, Nibble
  <2>4. y \in 0 .. 15 /\ y % 16 = y
    BY <2>1, <2>2, Nibble
  <2>5. x \in Nat /\ y \in Nat
    BY <2>3, <2>4
  <2> QED
    BY <2>2, <2>3, <2>4, <2>5
<1>9. Normalized(a, b, bits) = <<x, y>>
  BY <1>2, <1>6, <1>7, <1>8 DEF Normalized
<1>10. Reference!NormalizedRatio(a, b) = Reference!RoundedRatio(x, y)
  BY <1>3, <1>4, <1>5, <1>7, <1>8 DEF Reference!NormalizedRatio, Reference!ShiftedBy
<1> QED
  BY <1>9, <1>10, RatioIs

LEMMA DepthBitsIs == DepthBits \in 1 .. Widest
<1>1. ASSUME NEW k \in 0 .. Widest PROVE k < Powers[k]
  <2> DEFINE T == {i \in 0 .. Widest : ~(i < Powers[i])}
  <2>1. ASSUME T # {} PROVE FALSE
    <3>0. T \in SUBSET Nat
      BY WidestIs
    <3>1. PICK x \in T : \A y \in T : x <= y
      BY <3>0, <2>1, LeastNumber
    <3>2. x # 0
      BY <3>1, PowersAre
    <3>3. x - 1 \in 0 .. Widest /\ x - 1 \notin T /\ (x - 1) + 1 = x
      BY <3>1, <3>2, WidestIs
    <3>4. PICK c \in Nat \ {0} : c = Powers[x - 1] /\ Powers[x] = 2 * c
      BY <3>3, PowersAre, WidestIs
    <3> QED
      BY <3>1, <3>3, <3>4
  <2> QED
    BY <2>1
<1> DEFINE S == {k \in 0 .. Levels : 2 ^ k < Levels}
<1>2. S \subseteq 0 .. Levels - 1
  <2>1. Levels \in 0 .. Widest
    BY FeaturesAssumption DEF Widest
  <2>2. Powers[Levels] = 2 ^ Levels /\ Powers[Levels] \in Nat
    BY <2>1, PowersAre, WidestIs DEF Powers
  <2>3. Levels \notin S
    BY <2>1, <2>2, <1>1
  <2> QED
    BY <2>1, <2>3
<1>3. IsFiniteSet(0 .. Levels - 1) /\ Cardinality(0 .. Levels - 1) = Levels
  BY FS_Interval, FeaturesAssumption
<1>4. Cardinality(S) \in Nat /\ Cardinality(S) <= Levels
  BY <1>2, <1>3, FS_Subset, FS_CardinalityType
<1> QED
  BY <1>4, FeaturesAssumption DEF DepthBits, Widest

LEMMA DepthIs ==
  ASSUME NEW side, Reference!SharesOf(side) \in 0 .. 2 ^ DepthBits - 1
  PROVE  Depth(side) = Reference!SharesOf(side)
<1>1. 2 ^ DepthBits \in Nat
  <2>1. Powers[DepthBits] = 2 ^ DepthBits /\ Powers[DepthBits] \in Nat
    BY DepthBitsIs, PowersAre, WidestIs DEF Powers
  <2> QED
    BY <2>1
<1>2. Depth(side) = Reference!SharesOf(side) % 2 ^ DepthBits
  BY DEF Depth, Reference!SharesOf, MapThenSumSet, MapThenFoldSet,
         Reference!MapThenSumSet, Reference!MapThenFoldSet
<1> QED
  BY <1>1, <1>2

Features(shown) == Stage3(Stage2(Stage1(shown)))

LEMMA RatiosAgree ==
  ASSUME NEW shown \in Bus
  PROVE  /\ Features(shown).top
              = Reference!NormalizedRatio(shown.bids[1].shares, shown.asks[1].shares)
         /\ Features(shown).depth
              = Reference!NormalizedRatio(Reference!SharesOf(shown.bids),
                                          Reference!SharesOf(shown.asks))
<1>1. PICK a, b : a = shown.bids[1].shares /\ b = shown.asks[1].shares
  OBVIOUS
<1>2. PICK c, d : c = Reference!SharesOf(shown.bids) /\ d = Reference!SharesOf(shown.asks)
  OBVIOUS
<1>3. /\ a \in 0 .. 2 ^ ShareBits - 1 /\ b \in 0 .. 2 ^ ShareBits - 1
      /\ c \in 0 .. 2 ^ DepthBits - 1 /\ d \in 0 .. 2 ^ DepthBits - 1
  BY <1>1, <1>2, BusAssumption
<1>4. Depth(shown.bids) = c /\ Depth(shown.asks) = d
  BY <1>2, <1>3, DepthIs
<1>5. /\ Features(shown).top
           = Imbalance(Normalized(a, b, ShareBits)[1], Normalized(a, b, ShareBits)[2])
      /\ Features(shown).depth
           = Imbalance(Normalized(c, d, DepthBits)[1], Normalized(c, d, DepthBits)[2])
  BY <1>1, <1>4 DEF Features, Stage3, Stage2, Stage1
<1>6. Features(shown).top = Reference!NormalizedRatio(a, b)
  BY <1>3, <1>5, NibblesAgree, WidestIs
<1>7. Features(shown).depth = Reference!NormalizedRatio(c, d)
  BY <1>3, <1>5, NibblesAgree, DepthBitsIs
<1> QED
  BY <1>1, <1>2, <1>6, <1>7

LEMMA FeaturesAgree ==
  ASSUME NEW shown \in Bus
  PROVE  Features(shown) = Reference!FeaturesOf(shown)
<1>1. Features(shown).spread = Reference!FeaturesOf(shown).spread
  BY DEF Features, Stage3, Stage2, Stage1, Spread, Reference!FeaturesOf, Reference!Smaller,
         Reference!ShiftedBy
<1>2. Features(shown).flow = Reference!FeaturesOf(shown).flow
  BY DEF Features, Stage3, Stage2, Stage1, Flow, Reference!FeaturesOf, Reference!ShiftedBy
<1>3. /\ Features(shown).top = Reference!FeaturesOf(shown).top
      /\ Features(shown).depth = Reference!FeaturesOf(shown).depth
  BY RatiosAgree DEF Reference!FeaturesOf
<1>4. Features(shown) = [spread |-> Features(shown).spread, top |-> Features(shown).top,
                        depth |-> Features(shown).depth, flow |-> Features(shown).flow]
  BY DEF Features, Stage3
<1>5. Reference!FeaturesOf(shown)
        = [spread |-> Reference!FeaturesOf(shown).spread,
           top |-> Reference!FeaturesOf(shown).top,
           depth |-> Reference!FeaturesOf(shown).depth,
           flow |-> Reference!FeaturesOf(shown).flow]
  BY DEF Reference!FeaturesOf
<1> QED
  BY <1>1, <1>2, <1>3, <1>4, <1>5

\* What the decision makes of a beat's features and prices.
BuyOn(shown)  == Buy(TRUE, Model(Features(shown)), Context(shown))
SellOn(shown) == Sell(TRUE, Model(Features(shown)), Context(shown))

LEMMA ActsAlike ==
  ASSUME NEW shown \in Bus
  PROVE  /\ Reference!Action(shown)
              = IF BuyOn(shown) THEN "Buy" ELSE IF SellOn(shown) THEN "Sell" ELSE "Hold"
         /\ ~(BuyOn(shown) /\ SellOn(shown))
<1>1. Features(shown) = Reference!FeaturesOf(shown)
  BY FeaturesAgree
<1>2. Model(Features(shown)) \in Int
  BY BusAssumption DEF Features
<1>3. /\ Context(shown).has_ask = (shown.asks[1].shares # 0)
      /\ Context(shown).has_bid = (shown.bids[1].shares # 0)
  BY DEF Context
<1>4. Reference!Action(shown)
        = IF BuyOn(shown) THEN "Buy" ELSE IF SellOn(shown) THEN "Sell" ELSE "Hold"
  BY <1>1, <1>3 DEF Reference!Action, BuyOn, SellOn, Buy, Sell
<1>5. ~(BuyOn(shown) /\ SellOn(shown))
  BY <1>2, DecisionAssumption DEF BuyOn, SellOn, Buy, Sell
<1> QED
  BY <1>4, <1>5


-----------------------------------------------------------------------------
(* The registers by age.                                                   *)

\* The valid bit of the beat of an age.
Bit(a) == IF a <= FeaturesLatency THEN fvalid[a]
          ELSE IF a <= FeaturesLatency + ModelLatency THEN mvalid[a - FeaturesLatency]
          ELSE decision.valid

\* The registers of an age hold what this beat becomes, valid or not.
Holds(a, shown) ==
  /\ a <= FeaturesLatency => context[a] = Context(shown)
  /\ a = 1 => stage1 = Stage1(shown)
  /\ a = 2 => stage2 = Stage2(Stage1(shown))
  /\ a = 3 => vector = Features(shown)
  /\ a \in FeaturesLatency + 1 .. FeaturesLatency + ModelLatency =>
       /\ inside[a - FeaturesLatency] = Features(shown)
       /\ carried[a - FeaturesLatency] = Context(shown)

Pipes ==
  /\ fvalid = [i \in 1 .. 3 |-> fvalid[i]] /\ \A i \in 1 .. 3 : fvalid[i] \in BOOLEAN
  /\ context = [i \in 1 .. 3 |-> context[i]]
  /\ mvalid = [i \in 1 .. ModelLatency |-> mvalid[i]]
  /\ \A i \in 1 .. ModelLatency : mvalid[i] \in BOOLEAN
  /\ inside = [i \in 1 .. ModelLatency |-> inside[i]]
  /\ carried = [i \in 1 .. ModelLatency |-> carried[i]]
  /\ decision.valid \in BOOLEAN

\* Each age has a beat, and its registers hold it.
Shows(B) == /\ B \in [1 .. Latency -> Bus]
            /\ \A a \in 1 .. Latency : Holds(a, B[a])

\* The beats an edge later.
Aged(B, shown) == [a \in 1 .. Latency |-> IF a = 1 THEN shown ELSE B[a - 1]]

\* A pipeline as a function: what was in a register is in the next.
Pushed(q, n, x) == [i \in 1 .. n |-> IF i = 1 THEN x ELSE q[i - 1]]

LEMMA ShiftedIs ==
  ASSUME NEW n \in Nat \ {0}, NEW q, q = [i \in 1 .. n |-> q[i]], NEW x
  PROVE  Shifted(q, x) = Pushed(q, n, x)
<1> DEFINE S == {q[i] : i \in 1 .. n} \cup {x}
<1>1. \A i \in 1 .. n : q[i] \in S
  OBVIOUS
<1>2. x \in S
  OBVIOUS
<1> HIDE DEF S
<1>3. [i \in 1 .. n |-> q[i]] \in Seq(S) /\ Len([i \in 1 .. n |-> q[i]]) = n
  BY <1>1
<1>4. q \in Seq(S) /\ Len(q) = n
  BY <1>3
<1>5. PICK r : r = SubSeq(q, 1, n - 1)
  OBVIOUS
<1>6. r \in Seq(S) /\ Len(r) = n - 1 /\ \A i \in 1 .. n - 1 : r[i] = q[i]
  BY <1>4, <1>5
<1>7. Shifted(q, x) = <<x>> \o r
  BY <1>4, <1>5 DEF Shifted
<1>8. <<x>> \in Seq(S) /\ Len(<<x>>) = 1 /\ <<x>>[1] = x
  BY <1>2
<1>9. PICK p : p = <<x>> \o r
  OBVIOUS
<1>10. p \in Seq(S) /\ Len(p) = n /\ \A i \in 1 .. n : p[i] = IF i = 1 THEN x ELSE q[i - 1]
  <2>1. p \in Seq(S) /\ Len(p) = n
    BY <1>6, <1>8, <1>9, ConcatProperties
  <2>2. \A i \in 1 .. n : p[i] = IF i <= 1 THEN <<x>>[i] ELSE r[i - 1]
    BY <1>6, <1>8, <1>9, ConcatProperties
  <2>3. ASSUME NEW i \in 1 .. n, i # 1 PROVE p[i] = q[i - 1]
    <3>1. PICK k \in 1 .. n - 1 : k = i - 1
      BY <2>3
    <3>2. ~(i <= 1)
      BY <2>3
    <3>3. p[i] = r[i - 1]
      BY <2>2, <3>2
    <3>4. r[k] = q[k]
      BY <3>1, <1>6
    <3> QED
      BY <3>1, <3>3, <3>4
  <2>4. p[1] = x
    BY <2>2, <1>8
  <2> QED
    BY <2>1, <2>3, <2>4
<1>11. p = [i \in 1 .. n |-> p[i]]
  BY <1>10
<1> QED
  BY <1>7, <1>9, <1>10, <1>11 DEF Pushed

LEMMA Sizes == /\ FeaturesLatency = 3 /\ ModelLatency \in Nat \ {0}
               /\ Latency = ModelLatency + 4
BY TickToTradeAssumption DEF FeaturesLatency, Latency

\* On an edge every pipeline keeps its length, and what a register held is in
\* the next.
LEMMA PipesStep ==
  ASSUME Pipes, NEW B, Shows(B), NEW shown \in Bus, NEW clear \in BOOLEAN, Edge(shown, clear)
  PROVE  /\ Pipes'
         /\ \A a \in 1 .. Latency : Holds(a, Aged(B, shown)[a])'
         /\ ~clear => /\ Bit(1)' = shown.valid
                      /\ \A a \in 2 .. Latency : Bit(a)' = Bit(a - 1)
         /\ clear => \A a \in 1 .. Latency : ~Bit(a)'
<1>1. shown.valid \in BOOLEAN /\ 3 \in Nat \ {0}
  BY BusAssumption
<1>2. context' = Pushed(context, 3, Context(shown))
  <2>1. context' = Shifted(context, Context(shown))
    BY DEF Edge, FeaturesClock
  <2>2. context = [i \in 1 .. 3 |-> context[i]]
    BY DEF Pipes
  <2> QED
    BY <2>1, <2>2, <1>1, ShiftedIs
<1>3. inside' = Pushed(inside, ModelLatency, vector)
  <2>1. inside' = Shifted(inside, vector)
    BY DEF Edge
  <2>2. inside = [i \in 1 .. ModelLatency |-> inside[i]]
    BY DEF Pipes
  <2> QED
    BY <2>1, <2>2, Sizes, ShiftedIs
<1>4. carried' = Pushed(carried, ModelLatency, context[3])
  <2>1. carried' = Shifted(carried, context[3])
    BY Sizes DEF Edge
  <2>2. carried = [i \in 1 .. ModelLatency |-> carried[i]]
    BY DEF Pipes
  <2> QED
    BY <2>1, <2>2, Sizes, ShiftedIs
<1>5. fvalid' = IF clear THEN [i \in 1 .. 3 |-> FALSE] ELSE Pushed(fvalid, 3, shown.valid)
  <2>1. fvalid' = IF clear THEN Taps(3, FALSE) ELSE Shifted(fvalid, shown.valid)
    BY Sizes DEF Edge, FeaturesClock
  <2>2. fvalid = [i \in 1 .. 3 |-> fvalid[i]]
    BY DEF Pipes
  <2>3. Shifted(fvalid, shown.valid) = Pushed(fvalid, 3, shown.valid)
    BY <2>2, <1>1, ShiftedIs
  <2> QED
    BY <2>1, <2>3 DEF Taps
<1>6. mvalid' = IF clear THEN [i \in 1 .. ModelLatency |-> FALSE]
                ELSE Pushed(mvalid, ModelLatency, fvalid[3])
  <2>1. mvalid' = IF clear THEN Taps(ModelLatency, FALSE) ELSE Shifted(mvalid, fvalid[3])
    BY Sizes DEF Edge, ModelBits
  <2>2. mvalid = [i \in 1 .. ModelLatency |-> mvalid[i]]
    BY DEF Pipes
  <2>3. Shifted(mvalid, fvalid[3]) = Pushed(mvalid, ModelLatency, fvalid[3])
    BY <2>2, Sizes, ShiftedIs
  <2> QED
    BY <2>1, <2>3 DEF Taps
<1>7. /\ decision'.valid \in BOOLEAN
      /\ clear => decision'.valid = FALSE
      /\ ~clear => decision'.valid = mvalid[ModelLatency]
  <2>1. mvalid[ModelLatency] \in BOOLEAN
    BY Sizes DEF Pipes
  <2>2. decision'.valid = (mvalid[ModelLatency] /\ ~clear)
    BY DEF Edge, DecisionClock, ModelValid
  <2> QED
    BY <2>1, <2>2
<1>8. Pipes'
  <2>1. /\ fvalid' = [i \in 1 .. 3 |-> fvalid'[i]]
        /\ context' = [i \in 1 .. 3 |-> context'[i]]
        /\ mvalid' = [i \in 1 .. ModelLatency |-> mvalid'[i]]
        /\ inside' = [i \in 1 .. ModelLatency |-> inside'[i]]
        /\ carried' = [i \in 1 .. ModelLatency |-> carried'[i]]
    BY <1>2, <1>3, <1>4, <1>5, <1>6 DEF Pushed
  <2>2. ASSUME NEW i \in 1 .. 3 PROVE fvalid'[i] \in BOOLEAN
    <3>1. /\ clear => fvalid'[i] = FALSE
          /\ ~clear /\ i = 1 => fvalid'[i] = shown.valid
          /\ ~clear /\ i # 1 => fvalid'[i] = fvalid[i - 1]
      BY <1>5 DEF Pushed
    <3>2. i # 1 => fvalid[i - 1] \in BOOLEAN
      BY DEF Pipes
    <3> QED
      BY <1>1, <3>1, <3>2
  <2>3. ASSUME NEW i \in 1 .. ModelLatency PROVE mvalid'[i] \in BOOLEAN
    <3>1. /\ clear => mvalid'[i] = FALSE
          /\ ~clear /\ i = 1 => mvalid'[i] = fvalid[3]
          /\ ~clear /\ i # 1 => mvalid'[i] = mvalid[i - 1]
      BY <1>6 DEF Pushed
    <3>2. /\ i # 1 => mvalid[i - 1] \in BOOLEAN
          /\ fvalid[3] \in BOOLEAN
      BY Sizes DEF Pipes
    <3> QED
      BY <3>1, <3>2
  <2> QED
    BY <2>1, <2>2, <2>3, <1>7 DEF Pipes
<1>9. ASSUME NEW a \in 1 .. Latency
      PROVE  Holds(a, Aged(B, shown)[a])'
  <2>1. CASE a = 1
    BY <2>1, <1>2, Sizes DEF Pushed, Aged, Holds, Edge, FeaturesClock
  <2>2. CASE a = 2
    BY <2>2, <1>2, Sizes DEF Pushed, Aged, Holds, Shows, Edge, FeaturesClock
  <2>3. CASE a = 3
    BY <2>3, <1>2, Sizes DEF Pushed, Aged, Holds, Shows, Edge, FeaturesClock, Features
  <2>4. CASE a = 4
    <3>1. vector = Features(B[3]) /\ context[3] = Context(B[3])
      BY Sizes DEF Shows, Holds
    <3>2. Aged(B, shown)[a] = B[3] /\ a - 3 = 1
      BY <2>4 DEF Aged
    <3> QED
      BY <2>4, <3>1, <3>2, <1>3, <1>4, Sizes DEF Pushed, Holds
  <2>5. CASE a > 4
    <3>1. PICK i : i = a - 3
      OBVIOUS
    <3>2. Aged(B, shown)[a] = B[a - 1] /\ Holds(a - 1, B[a - 1])
      BY <2>5, Sizes DEF Aged, Shows
    <3>3. a <= 3 + ModelLatency =>
            inside[i - 1] = Features(B[a - 1]) /\ carried[i - 1] = Context(B[a - 1])
      BY <2>5, <3>1, <3>2, Sizes DEF Holds
    <3>4. a <= 3 + ModelLatency => inside'[i] = inside[i - 1] /\ carried'[i] = carried[i - 1]
      BY <2>5, <3>1, <1>3, <1>4, Sizes DEF Pushed
    <3> QED
      BY <2>5, <3>1, <3>2, <3>3, <3>4, Sizes DEF Holds
  <2> QED
    BY <2>1, <2>2, <2>3, <2>4, <2>5
<1>10. ~clear => Bit(1)' = shown.valid
  BY <1>5, Sizes DEF Pushed, Bit
<1>11. ASSUME ~clear, NEW a \in 2 .. Latency
       PROVE  Bit(a)' = Bit(a - 1)
  <2>1. CASE a <= 3
    BY <2>1, <1>5, <1>11, Sizes DEF Pushed, Bit
  <2>2. CASE a = 4
    BY <2>2, <1>6, <1>11, Sizes DEF Pushed, Bit
  <2>3. CASE a \in 5 .. ModelLatency + 3
    BY <2>3, <1>6, <1>11, Sizes DEF Pushed, Bit
  <2>4. CASE a > ModelLatency + 3
    BY <2>4, <1>7, <1>11, Sizes DEF Pushed, Bit
  <2> QED
    BY <2>1, <2>2, <2>3, <2>4, Sizes
<1>12. ASSUME clear, NEW a \in 1 .. Latency
       PROVE  ~Bit(a)'
  BY <1>5, <1>6, <1>7, <1>12, Sizes DEF Pushed, Bit
<1> QED
  BY <1>8, <1>9, <1>10, <1>11, <1>12

-----------------------------------------------------------------------------
(* The decision and its token.                                             *)

\* C[a + 1] is the software model's token when it came to the beat of age a,
\* C[1] its token now, C[Latency] the token of the hardware.
Counts(B, C) ==
  /\ C[1] = counted /\ C[Latency] = token
  /\ \A a \in 1 .. Latency - 1 :
       C[a] = IF Bit(a) THEN Reference!TokenAfter(B[a], C[a + 1]) ELSE C[a + 1]

\* What is decided is what the software model decides on the oldest beat.
Decided(B, C) ==
  decision.valid =>
    /\ decision.action = Reference!Action(B[Latency])
    /\ decision.order_valid = (Reference!Action(B[Latency]) # "Hold")
    /\ decision.order_valid => decision.order = Reference!Order(B[Latency], C[Latency + 1])

\* The tokens an edge later.
Ticked(C, clear, count) ==
  [a \in 1 .. Latency + 1 |-> IF clear THEN 0 ELSE IF a = 1 THEN count ELSE C[a - 1]]

\* The outputs are registered from what the model and the pipelines show.
LEMMA OutputIs ==
  ASSUME Pipes, NEW B, Shows(B), NEW C, Counts(B, C)
  PROVE  /\ Prediction = Model(Features(B[Latency - 1]))
         /\ ContextNow = Context(B[Latency - 1])
         /\ ModelValid = Bit(Latency - 1)
         /\ B[Latency - 1] \in Bus
         /\ C[Latency - 1] = IF ModelValid THEN Reference!TokenAfter(B[Latency - 1], token)
                             ELSE token
<1>1. Latency - 1 \in 1 .. Latency /\ Latency - 1 = ModelLatency + 3
      /\ Latency - 1 \in FeaturesLatency + 1 .. FeaturesLatency + ModelLatency
      /\ Latency - 1 - FeaturesLatency = ModelLatency
  BY Sizes
<1>2. B[Latency - 1] \in Bus /\ Holds(Latency - 1, B[Latency - 1])
  BY <1>1 DEF Shows
<1>3. inside[ModelLatency] = Features(B[Latency - 1])
      /\ carried[ModelLatency] = Context(B[Latency - 1])
  BY <1>1, <1>2 DEF Holds
<1>4. ModelValid = Bit(Latency - 1)
  BY <1>1, Sizes DEF ModelValid, Bit
<1>5. C[Latency - 1] = IF Bit(Latency - 1) THEN Reference!TokenAfter(B[Latency - 1], token)
                       ELSE token
  BY <1>1, Sizes DEF Counts
<1> QED
  BY <1>2, <1>3, <1>4, <1>5 DEF Prediction, ContextNow

LEMMA DecisionStep ==
  ASSUME Pipes, NEW B, Shows(B), NEW C, Counts(B, C),
         NEW shown \in Bus, NEW clear \in BOOLEAN, Edge(shown, clear),
         NEW count, count = counted'
  PROVE  /\ token' = Ticked(C, clear, count)[Latency]
         /\ Decided(Aged(B, shown), Ticked(C, clear, count))'
<1> DEFINE b == B[Latency - 1]
<1>1. /\ Prediction = Model(Features(b)) /\ ContextNow = Context(b) /\ b \in Bus
      /\ C[Latency - 1] = IF ModelValid THEN Reference!TokenAfter(b, token) ELSE token
  BY OutputIs
<1>2. ModelValid \in BOOLEAN
  BY Sizes DEF ModelValid, Pipes
<1>3. PICK buy, sell \in BOOLEAN : buy = BuyOn(b) /\ sell = SellOn(b)
  BY DEF BuyOn, SellOn, Buy, Sell
<1>4. /\ Reference!Action(b) = IF buy THEN "Buy" ELSE IF sell THEN "Sell" ELSE "Hold"
      /\ ~(buy /\ sell)
  BY <1>1, <1>3, ActsAlike
<1>5. /\ Buy(ModelValid, Prediction, ContextNow) = (ModelValid /\ buy)
      /\ Sell(ModelValid, Prediction, ContextNow) = (ModelValid /\ sell)
  BY <1>1, <1>2, <1>3 DEF BuyOn, SellOn, Buy, Sell
<1>6. DecisionClock(ModelValid, Prediction, ContextNow, clear)
  BY DEF Edge
<1>7. token' = IF clear THEN 0 ELSE IF ModelValid /\ (buy \/ sell) THEN NextToken ELSE token
  BY <1>5, <1>6 DEF DecisionClock
<1>8. /\ Reference!TokenAfter(b, token) = IF buy \/ sell THEN NextToken ELSE token
      /\ (Reference!Action(b) # "Hold") = (buy \/ sell)
      /\ (Reference!Action(b) = "Sell") = sell
      /\ (Reference!Action(b) = "Buy") = buy
  BY <1>4 DEF Reference!TokenAfter, NextToken
<1>9. token' = Ticked(C, clear, count)[Latency]
  <2>1. Ticked(C, clear, count)[Latency] = IF clear THEN 0 ELSE C[Latency - 1]
    BY Sizes DEF Ticked
  <2> QED
    BY <1>1, <1>7, <1>8, <2>1
<1>10. ASSUME decision'.valid
       PROVE  /\ decision'.action = Reference!Action(b)
              /\ decision'.order_valid = (Reference!Action(b) # "Hold")
              /\ decision'.order_valid => decision'.order = Reference!Order(b, token)
  <2>1. ModelValid /\ ~clear
    BY <1>6, <1>10 DEF DecisionClock
  <2>2. /\ decision'.action = IF buy THEN "Buy" ELSE IF sell THEN "Sell" ELSE "Hold"
        /\ decision'.order_valid = (buy \/ sell)
        /\ decision'.order = [token |-> NextToken, sell |-> sell,
                              price |-> IF buy THEN Context(b).ask ELSE Context(b).bid,
                              symbol |-> Context(b).symbol]
    BY <1>1, <1>5, <1>6, <2>1 DEF DecisionClock
  <2>3. /\ Context(b).ask = b.asks[1].price /\ Context(b).bid = b.bids[1].price
        /\ Context(b).symbol = b.symbol
    BY DEF Context
  <2>4. Reference!Order(b, token)
          = [token |-> IF buy \/ sell THEN NextToken ELSE token, sell |-> sell,
             price |-> IF buy THEN b.asks[1].price ELSE b.bids[1].price,
             symbol |-> b.symbol]
    BY <1>8 DEF Reference!Order
  <2> QED
    BY <1>4, <1>8, <2>2, <2>3, <2>4
<1>11. ~decision'.valid \/ ~clear
  BY <1>6 DEF DecisionClock
<1>12. Aged(B, shown)[Latency] = b
  BY Sizes DEF Aged
<1>13. ~clear => Ticked(C, clear, count)[Latency + 1] = token
  BY Sizes DEF Ticked, Counts
<1> QED
  BY <1>9, <1>10, <1>11, <1>12, <1>13 DEF Decided

-----------------------------------------------------------------------------
(* The decisions that are due.                                             *)

Entry(a, shown, count) ==
  [age |-> a, action |-> Reference!Action(shown), order |-> Reference!Order(shown, count)]

\* They are the beats under way, the oldest first.
Awaited(B, C) ==
  /\ Len(due) \in Nat /\ due = [k \in 1 .. Len(due) |-> due[k]]
  /\ \A k \in 1 .. Len(due) :
       /\ due[k].age \in 1 .. Latency
       /\ due[k] = Entry(due[k].age, B[due[k].age], C[due[k].age + 1])
  /\ \A i, j \in 1 .. Len(due) : i < j => due[j].age < due[i].age
  /\ \A a \in 1 .. Latency : Bit(a) <=> \E k \in 1 .. Len(due) : due[k].age = a

\* A sequence as a function, its tail and what is appended to it.
LEMMA LengthIs ==
  ASSUME NEW n \in Nat, NEW s, s = [k \in 1 .. n |-> s[k]]
  PROVE  /\ Len(s) = n /\ DOMAIN s = 1 .. n
         /\ s = << >> <=> n = 0
         /\ s \in Seq({s[k] : k \in 1 .. n})
<1> DEFINE S == {s[k] : k \in 1 .. n}
<1>1. [k \in 1 .. n |-> s[k]] \in Seq(S) /\ Len([k \in 1 .. n |-> s[k]]) = n
  OBVIOUS
<1>2. s \in Seq(S) /\ Len(s) = n
  BY <1>1
<1>3. s = << >> <=> n = 0
  BY <1>2, EmptySeq
<1> QED
  BY <1>2, <1>3

LEMMA TailIs ==
  ASSUME NEW n \in Nat \ {0}, NEW s, s = [k \in 1 .. n |-> s[k]]
  PROVE  Head(s) = s[1] /\ Tail(s) = [k \in 1 .. n - 1 |-> s[k + 1]]
<1>1. PICK S : s \in Seq(S) /\ Len(s) = n /\ s # << >>
  BY LengthIs
<1>2. Head(s) = s[1] /\ Tail(s) \in Seq(S) /\ Len(Tail(s)) = n - 1
  BY <1>1, HeadTailProperties
<1>3. \A k \in 1 .. n - 1 : Tail(s)[k] = s[k + 1]
  BY <1>1
<1>4. PICK t : t = Tail(s)
  OBVIOUS
<1>5. t = [k \in 1 .. n - 1 |-> t[k]]
  BY <1>2, <1>4
<1> QED
  BY <1>2, <1>3, <1>4, <1>5

LEMMA AppendIs ==
  ASSUME NEW n \in Nat, NEW s, s = [k \in 1 .. n |-> s[k]], NEW x
  PROVE  Append(s, x) = [k \in 1 .. n + 1 |-> IF k <= n THEN s[k] ELSE x]
<1> DEFINE S == {s[k] : k \in 1 .. n} \cup {x}
<1>1. \A k \in 1 .. n : s[k] \in S
  OBVIOUS
<1>2. x \in S
  OBVIOUS
<1> HIDE DEF S
<1>3. [k \in 1 .. n |-> s[k]] \in Seq(S) /\ Len([k \in 1 .. n |-> s[k]]) = n
  BY <1>1
<1>4. s \in Seq(S) /\ Len(s) = n
  BY <1>3
<1>5. PICK t : t = Append(s, x)
  OBVIOUS
<1>6. t \in Seq(S) /\ Len(t) = n + 1 /\ t[n + 1] = x /\ \A k \in 1 .. n : t[k] = s[k]
  BY <1>2, <1>4, <1>5, AppendProperties
<1>7. t = [k \in 1 .. n + 1 |-> t[k]]
  BY <1>6
<1>8. ASSUME NEW k \in 1 .. n + 1 PROVE t[k] = IF k <= n THEN s[k] ELSE x
  BY <1>6
<1> QED
  BY <1>5, <1>7, <1>8

\* How many decisions come out on this edge, and go in.
Leaving        == IF Delivered THEN 1 ELSE 0
Arriving(shown) == IF shown.valid THEN 1 ELSE 0

\* What is due then: without the oldest `out`, an edge older, with what came in.
Renewed(s, n, out, in, wanted) ==
  [k \in 1 .. n - out + in |->
     IF k <= n - out THEN [s[k + out] EXCEPT !.age = @ + 1] ELSE wanted]

LEMMA DueIs ==
  ASSUME NEW n \in Nat, due = [k \in 1 .. n |-> due[k]], NEW shown, Expect(shown),
         NEW out, out = Leaving, NEW in, in = Arriving(shown), NEW wanted, wanted = Wanted(shown)
  PROVE  /\ out \in 0 .. 1 /\ in \in 0 .. 1 /\ out <= n
         /\ due' = Renewed(due, n, out, in, wanted)
<1>1. PICK s : s = due
  OBVIOUS
<1>2. s = [k \in 1 .. n |-> s[k]]
  BY <1>1
<1>3. out \in 0 .. 1 /\ in \in 0 .. 1
  BY DEF Leaving, Arriving
<1>4. out = 1 <=> Delivered
  BY DEF Leaving
<1>5. s = << >> <=> n = 0
  BY <1>2, LengthIs
<1>6. out <= n
  BY <1>1, <1>3, <1>4, <1>5 DEF Delivered
<1>7. PICK m \in Nat : m = n - out
  BY <1>3, <1>6
<1>8. PICK r : r = IF Delivered THEN Tail(s) ELSE s
  OBVIOUS
<1>9. r = [k \in 1 .. m |-> s[k + out]]
  <2>1. CASE Delivered
    <3>1. n \in Nat \ {0} /\ out = 1
      BY <2>1, <1>4, <1>6
    <3> QED
      BY <2>1, <3>1, <1>2, <1>7, <1>8, TailIs
  <2>2. CASE ~Delivered
    <3>1. out = 0 /\ m = n
      BY <2>2, <1>3, <1>4, <1>7
    <3> QED
      BY <2>2, <3>1, <1>2, <1>8
  <2> QED
    BY <2>1, <2>2
<1>10. PICK t : t = Older(r)
  OBVIOUS
<1>11. t = [k \in 1 .. m |-> [s[k + out] EXCEPT !.age = @ + 1]]
  BY <1>9, <1>10 DEF Older
<1>12. t = [k \in 1 .. m |-> t[k]]
  BY <1>11
<1>13. due' = IF shown.valid THEN Append(t, wanted) ELSE t
  BY <1>1, <1>8, <1>10 DEF Expect
<1>14. due' = [k \in 1 .. m + in |->
                 IF k <= m THEN [s[k + out] EXCEPT !.age = @ + 1] ELSE wanted]
  <2>1. CASE shown.valid
    <3>1. Append(t, wanted) = [k \in 1 .. m + 1 |-> IF k <= m THEN t[k] ELSE wanted]
      BY <1>12, AppendIs
    <3>2. in = 1
      BY <2>1 DEF Arriving
    <3> QED
      BY <2>1, <3>1, <3>2, <1>11, <1>13
  <2>2. CASE ~shown.valid
    <3>1. in = 0
      BY <2>2 DEF Arriving
    <3> QED
      BY <2>2, <3>1, <1>11, <1>13
  <2> QED
    BY <2>1, <2>2
<1> QED
  BY <1>1, <1>3, <1>6, <1>7, <1>14 DEF Renewed

\* What is due after an edge without a clear.
LEMMA AwaitedStep ==
  ASSUME Pipes, NEW B, Shows(B), NEW C, Counts(B, C), Awaited(B, C),
         NEW shown \in Bus, Edge(shown, FALSE), NEW count
  PROVE  Awaited(Aged(B, shown), Ticked(C, FALSE, count))'
<1>0. PICK wanted : wanted = Wanted(shown)
  OBVIOUS
<1>1. PICK n \in Nat, out \in 0 .. 1, in \in 0 .. 1 :
        /\ n = Len(due) /\ out = Leaving /\ in = Arriving(shown)
  BY DEF Awaited, Leaving, Arriving
<1>2. PICK m \in Nat : m = n - out /\ out <= n
  <2>1. due = [k \in 1 .. n |-> due[k]] /\ Expect(shown)
    BY <1>1 DEF Awaited, Edge
  <2>2. out <= n
    BY <2>1, <1>0, <1>1, DueIs
  <2> QED
    BY <2>2
<1>3. due' = [k \in 1 .. m + in |->
                IF k <= m THEN [due[k + out] EXCEPT !.age = @ + 1] ELSE wanted]
  <2>1. due = [k \in 1 .. n |-> due[k]] /\ Expect(shown)
    BY <1>1 DEF Awaited, Edge
  <2>2. due' = Renewed(due, n, out, in, wanted)
    BY <2>1, <1>0, <1>1, DueIs
  <2> QED
    BY <2>2, <1>2 DEF Renewed
<1>4. Len(due') = m + in /\ due' = [k \in 1 .. m + in |-> due'[k]]
  <2>1. PICK d : d = due'
    OBVIOUS
  <2>2. d = [k \in 1 .. m + in |-> d[k]] /\ m + in \in Nat
    BY <2>1, <1>3
  <2> QED
    BY <2>1, <2>2, LengthIs
<1>5. out = 1 <=> n # 0 /\ due[1].age = Latency
  <2>1. PICK d : d = due
    OBVIOUS
  <2>2. d = [k \in 1 .. n |-> d[k]]
    BY <2>1, <1>1 DEF Awaited
  <2>3. d = << >> <=> n = 0
    BY <2>2, LengthIs
  <2>4. n # 0 => Head(d) = d[1]
    BY <2>2, TailIs
  <2> QED
    BY <2>1, <2>3, <2>4, <1>1 DEF Leaving, Delivered
<1>6. /\ \A k \in 1 .. n : /\ due[k].age \in 1 .. Latency
                           /\ due[k] = Entry(due[k].age, B[due[k].age], C[due[k].age + 1])
      /\ \A i, j \in 1 .. n : i < j => due[j].age < due[i].age
      /\ \A a \in 1 .. Latency : Bit(a) <=> \E k \in 1 .. n : due[k].age = a
  BY <1>1 DEF Awaited
<1>8. ASSUME NEW k \in 1 .. m
      PROVE  k + out \in 1 .. n /\ due[k + out].age \in 1 .. Latency - 1
  <2>1. k + out \in 1 .. n /\ 1 \in 1 .. n
    BY <1>2
  <2>2. due[k + out].age \in 1 .. Latency /\ due[1].age \in 1 .. Latency
    BY <2>1, <1>6
  <2>3. k + out # 1 => due[k + out].age < due[1].age
    BY <2>1, <1>6
  <2>4. k + out = 1 => due[k + out].age # Latency
    BY <2>1, <1>5
  <2> QED
    BY <2>1, <2>2, <2>3, <2>4, Sizes
<1>9. ASSUME NEW k \in 1 .. m
      PROVE  /\ due'[k].age = due[k + out].age + 1
             /\ due'[k] = Entry(due[k + out].age + 1, B[due[k + out].age], C[due[k + out].age + 1])
  <2>1. k \in 1 .. m + in /\ due'[k] = [due[k + out] EXCEPT !.age = @ + 1]
    BY <1>3
  <2>2. due[k + out] = Entry(due[k + out].age, B[due[k + out].age], C[due[k + out].age + 1])
    BY <1>6, <1>8
  <2>3. PICK e : e = due[k + out]
    OBVIOUS
  <2>4. PICK a \in 1 .. Latency : a = e.age
    BY <2>3, <1>6, <1>8
  <2>5. e = Entry(a, B[a], C[a + 1])
    BY <2>2, <2>3, <2>4
  <2>6. [e EXCEPT !.age = @ + 1] = Entry(a + 1, B[a], C[a + 1])
    BY <2>5 DEF Entry
  <2> QED
    BY <2>1, <2>3, <2>4, <2>6 DEF Entry
<1>10. /\ in = 1 <=> shown.valid
       /\ in = 1 => due'[m + 1] = Entry(1, shown, C[1]) /\ due'[m + 1].age = 1
  <2>1. in = 1 <=> shown.valid
    BY <1>1 DEF Arriving
  <2>2. in = 1 => due'[m + 1] = wanted
    BY <1>3
  <2>3. wanted = Entry(1, shown, C[1])
    BY <1>0 DEF Wanted, Entry, Counts
  <2> QED
    BY <2>1, <2>2, <2>3 DEF Entry
<1>11. ASSUME NEW a \in 1 .. Latency - 1
       PROVE  /\ Aged(B, shown)[a + 1] = B[a]
              /\ Ticked(C, FALSE, count)[a + 2] = C[a + 1]
  BY Sizes DEF Aged, Ticked
<1>12. Aged(B, shown)[1] = shown /\ Ticked(C, FALSE, count)[2] = C[1]
  BY Sizes DEF Aged, Ticked
<1>13. ASSUME NEW k \in 1 .. m + in
       PROVE  /\ due'[k].age \in 1 .. Latency
              /\ due'[k] = Entry(due'[k].age, Aged(B, shown)[due'[k].age],
                                 Ticked(C, FALSE, count)[due'[k].age + 1])
  <2>1. CASE k \in 1 .. m
    <3>1. PICK a \in 1 .. Latency - 1 : a = due[k + out].age
      BY <2>1, <1>8
    <3>2. due'[k].age = a + 1 /\ due'[k] = Entry(a + 1, B[a], C[a + 1])
      BY <2>1, <3>1, <1>9
    <3>3. a + 1 \in 1 .. Latency /\ (a + 1) + 1 = a + 2
      BY Sizes
    <3> QED
      BY <3>2, <3>3, <1>11
  <2>2. CASE k = m + 1 /\ in = 1
    <3>1. 1 \in 1 .. Latency /\ 1 + 1 = 2
      BY Sizes
    <3> QED
      BY <2>2, <3>1, <1>10, <1>12
  <2>3. k \in 1 .. m \/ (k = m + 1 /\ in = 1)
    OBVIOUS
  <2> QED
    BY <2>1, <2>2, <2>3
<1>14. ASSUME NEW i \in 1 .. m + in, NEW j \in 1 .. m + in, i < j
       PROVE  due'[j].age < due'[i].age
  <2>1. i \in 1 .. m /\ due'[i].age = due[i + out].age + 1
    BY <1>9, <1>14
  <2>2. i + out \in 1 .. n /\ due[i + out].age \in 1 .. Latency - 1
    BY <2>1, <1>8
  <2>3. CASE j \in 1 .. m
    <3>1. due'[j].age = due[j + out].age + 1
      BY <2>3, <1>9
    <3>2. j + out \in 1 .. n /\ due[j + out].age \in 1 .. Latency - 1
      BY <2>3, <1>8
    <3>3. due[j + out].age < due[i + out].age
      BY <2>2, <3>2, <1>6, <1>14
    <3> QED
      BY <2>1, <2>2, <3>1, <3>2, <3>3, Sizes
  <2>4. CASE j = m + 1 /\ in = 1
    BY <2>1, <2>2, <2>4, <1>10, Sizes
  <2> QED
    BY <2>3, <2>4
<1>15. ASSUME NEW a \in 1 .. Latency
       PROVE  Bit(a)' <=> \E k \in 1 .. m + in : due'[k].age = a
  <2>1. /\ Bit(1)' = shown.valid
        /\ \A b \in 2 .. Latency : Bit(b)' = Bit(b - 1)
    BY PipesStep
  <2>2. \A k \in 1 .. m : due'[k].age = due[k + out].age + 1 /\ due[k + out].age \in 1 .. Latency - 1
    BY <1>8, <1>9
  <2>3. CASE a = 1
    <3>1. ASSUME NEW k \in 1 .. m + in, due'[k].age = 1 PROVE in = 1
      <4>1. k \notin 1 .. m
        BY <3>1, <2>2, Sizes
      <4> QED
        BY <4>1
    <3>2. in = 1 => m + 1 \in 1 .. m + in
      OBVIOUS
    <3> QED
      BY <2>1, <2>3, <3>1, <3>2, <1>10
  <2>4. CASE a # 1
    <3>1. PICK b \in 1 .. Latency - 1 : b = a - 1
      BY <2>4, Sizes
    <3>2. Bit(a)' <=> \E k \in 1 .. n : due[k].age = b
      BY <2>1, <2>4, <3>1, <1>6, Sizes
    <3>3. ASSUME NEW k \in 1 .. n, due[k].age = b
          PROVE  \E l \in 1 .. m + in : due'[l].age = a
      <4>1. k - out \in 1 .. m
        BY <3>3, <1>2, <1>5, Sizes
      <4>2. PICK l \in 1 .. m : l = k - out
        BY <4>1
      <4>3. due'[l].age = a /\ l \in 1 .. m + in
        BY <4>2, <2>2, <3>1, <3>3
      <4> QED
        BY <4>3
    <3>4. ASSUME NEW l \in 1 .. m + in, due'[l].age = a
          PROVE  \E k \in 1 .. n : due[k].age = b
      <4>1. l \in 1 .. m
        BY <3>4, <2>4, <1>10
      <4>2. l + out \in 1 .. n /\ due[l + out].age = b
        BY <4>1, <2>2, <3>1, <3>4, <1>8, Sizes
      <4> QED
        BY <4>2
    <3> QED
      BY <3>2, <3>3, <3>4
  <2> QED
    BY <2>3, <2>4
<1>16. m + in \in Nat
  OBVIOUS
<1> QED
  BY <1>4, <1>13, <1>14, <1>15, <1>16 DEF Awaited

\* The tokens after an edge.
LEMMA CountsStep ==
  ASSUME Pipes, NEW B, Shows(B), NEW C, Counts(B, C),
         NEW shown \in Bus, NEW clear \in BOOLEAN, Edge(shown, clear),
         NEW count, count = counted'
  PROVE  Counts(Aged(B, shown), Ticked(C, clear, count))'
<1>1. Ticked(C, clear, count)[1] = count
  <2>1. clear => count = 0
    BY DEF Edge
  <2> QED
    BY <2>1, Sizes DEF Ticked
<1>2. token' = Ticked(C, clear, count)[Latency]
  BY DecisionStep
<1>3. ASSUME NEW a \in 1 .. Latency - 1
      PROVE  Ticked(C, clear, count)[a]
               = IF Bit(a)' THEN Reference!TokenAfter(Aged(B, shown)[a], Ticked(C, clear, count)[a + 1])
                 ELSE Ticked(C, clear, count)[a + 1]
  <2>1. CASE clear
    <3>1. ~Bit(a)'
      <4>1. \A b \in 1 .. Latency : ~Bit(b)'
        BY <2>1, PipesStep
      <4>2. a \in 1 .. Latency
        BY Sizes
      <4> QED
        BY <4>1, <4>2
    <3> QED
      BY <2>1, <3>1, Sizes DEF Ticked
  <2>2. CASE ~clear /\ a = 1
    <3>1. Bit(a)' = shown.valid
      BY <2>2, PipesStep
    <3>2. Ticked(C, clear, count)[a] = count /\ Ticked(C, clear, count)[a + 1] = counted
      BY <2>2, Sizes DEF Ticked, Counts
    <3>3. count = IF shown.valid THEN Reference!TokenAfter(shown, counted) ELSE counted
      BY <2>2 DEF Edge, Expect
    <3>4. Aged(B, shown)[a] = shown
      BY <2>2, Sizes DEF Aged
    <3> QED
      BY <3>1, <3>2, <3>3, <3>4
  <2>3. CASE ~clear /\ a # 1
    <3>1. PICK b \in 1 .. Latency - 1 : b = a - 1
      BY <2>3, Sizes
    <3>2. Bit(a)' = Bit(b)
      BY <2>3, <3>1, PipesStep, Sizes
    <3>3. C[b] = IF Bit(b) THEN Reference!TokenAfter(B[b], C[b + 1]) ELSE C[b + 1]
      BY DEF Counts
    <3>4. Ticked(C, clear, count)[a] = C[b] /\ Ticked(C, clear, count)[a + 1] = C[b + 1]
      BY <2>3, <3>1, Sizes DEF Ticked
    <3>5. Aged(B, shown)[a] = B[b]
      BY <2>3, <3>1, Sizes DEF Aged
    <3> QED
      BY <3>2, <3>3, <3>4, <3>5
  <2> QED
    BY <2>1, <2>2, <2>3
<1> QED
  BY <1>1, <1>2, <1>3 DEF Counts

-----------------------------------------------------------------------------

Inv == Pipes /\ \E B, C : Shows(B) /\ Counts(B, C) /\ Decided(B, C) /\ Awaited(B, C)

LEMMA InitInv == ASSUME Init PROVE Inv
<1>1. PICK B : B = [a \in 1 .. Latency |-> OnTheBus]
  OBVIOUS
<1>2. PICK C : C = [a \in 1 .. Latency + 1 |-> 0]
  OBVIOUS
<1>3. OnTheBus \in Bus
  BY DEF Bus
<1>4. /\ fvalid = [i \in 1 .. 3 |-> FALSE]
      /\ context = [i \in 1 .. 3 |-> Context(OnTheBus)]
      /\ mvalid = [i \in 1 .. ModelLatency |-> FALSE]
      /\ inside = [i \in 1 .. ModelLatency |-> Features(OnTheBus)]
      /\ carried = [i \in 1 .. ModelLatency |-> Context(OnTheBus)]
      /\ decision.valid = FALSE /\ token = 0 /\ counted = 0 /\ due = << >>
  BY Sizes DEF Init, FeaturesInit, DecisionInit, Taps, Features
<1>5. Pipes
  BY <1>4 DEF Pipes
<1>6. Shows(B)
  <2>1. ASSUME NEW a \in 1 .. Latency PROVE Holds(a, OnTheBus)
    BY <1>4, Sizes DEF Holds, Init, FeaturesInit, Features
  <2> QED
    BY <2>1, <1>1, <1>3 DEF Shows
<1>7. \A a \in 1 .. Latency : ~Bit(a)
  BY <1>4, Sizes DEF Bit
<1>8. Counts(B, C)
  BY <1>2, <1>4, <1>7, Sizes DEF Counts
<1>9. Decided(B, C)
  BY <1>4 DEF Decided
<1>10. Awaited(B, C)
  <2>1. Len(due) = 0 /\ due = [k \in 1 .. Len(due) |-> due[k]]
    BY <1>4
  <2>2. 1 .. 0 = {}
    OBVIOUS
  <2> QED
    BY <2>1, <2>2, <1>7 DEF Awaited
<1> QED
  BY <1>5, <1>6, <1>8, <1>9, <1>10 DEF Inv

LEMMA EdgeKeeps ==
  ASSUME Inv, NEW shown \in Bus, NEW clear \in BOOLEAN, Edge(shown, clear)
  PROVE  Inv'
<1>1. PICK B, C : Shows(B) /\ Counts(B, C) /\ Decided(B, C) /\ Awaited(B, C)
  BY DEF Inv
<1>2. PICK count : count = counted'
  OBVIOUS
<1>3. PICK D, E : D = Aged(B, shown) /\ E = Ticked(C, clear, count)
  OBVIOUS
<1>4. Pipes
  BY DEF Inv
<1>5. Pipes' /\ Shows(D)'
  <2>1. Pipes' /\ \A a \in 1 .. Latency : Holds(a, Aged(B, shown)[a])'
    BY <1>1, <1>4, PipesStep
  <2>2. Aged(B, shown) \in [1 .. Latency -> Bus]
    BY <1>1, Sizes DEF Aged, Shows
  <2> QED
    BY <2>1, <2>2, <1>3 DEF Shows
<1>6. Counts(D, E)'
  BY <1>1, <1>2, <1>3, <1>4, CountsStep
<1>7. Decided(D, E)'
  BY <1>1, <1>2, <1>3, <1>4, DecisionStep
<1>8. Awaited(D, E)'
  <2>1. CASE ~clear
    <3>1. Edge(shown, FALSE) /\ E = Ticked(C, FALSE, count)
      BY <2>1, <1>3
    <3> QED
      BY <3>1, <1>1, <1>3, <1>4, AwaitedStep
  <2>2. CASE clear
    <3>1. due' = << >>
      BY <2>2 DEF Edge
    <3>2. Len(due') = 0 /\ due' = [k \in 1 .. Len(due') |-> due'[k]] /\ 1 .. 0 = {}
      BY <3>1
    <3>3. \A a \in 1 .. Latency : ~Bit(a)'
      BY <2>2, <1>1, <1>4, PipesStep
    <3> QED
      BY <3>2, <3>3 DEF Awaited
  <2> QED
    BY <2>1, <2>2
<1> QED
  BY <1>5, <1>6, <1>7, <1>8 DEF Inv

LEMMA IdleKeeps == ASSUME Inv, UNCHANGED vars PROVE Inv'
<1>1. PICK B, C : Shows(B) /\ Counts(B, C) /\ Decided(B, C) /\ Awaited(B, C)
  BY DEF Inv
<1>2. UNCHANGED <<fvalid, context, stage1, stage2, vector, mvalid, inside, carried,
                  token, decision, due, counted>>
  BY DEF vars, pipeline, features
<1>3. Pipes'
  BY <1>2 DEF Inv, Pipes
<1>4. \A a \in 1 .. Latency : Bit(a)' = Bit(a)
  BY <1>2 DEF Bit
<1>5. Shows(B)'
  BY <1>1, <1>2 DEF Shows, Holds
<1>6. Counts(B, C)'
  <2>1. \A a \in 1 .. Latency - 1 : a \in 1 .. Latency
    BY Sizes
  <2> QED
    BY <1>1, <1>2, <1>4, <2>1 DEF Counts
<1>7. Decided(B, C)'
  BY <1>1, <1>2 DEF Decided
<1>8. Awaited(B, C)'
  BY <1>1, <1>2, <1>4 DEF Awaited
<1> QED
  BY <1>3, <1>5, <1>6, <1>7, <1>8 DEF Inv

LEMMA InvDecides == ASSUME Inv PROVE DecidesAsReference
<1>1. PICK B, C : Shows(B) /\ Counts(B, C) /\ Decided(B, C) /\ Awaited(B, C)
  BY DEF Inv
<1>2. PICK n \in Nat : n = Len(due)
  BY <1>1 DEF Awaited
<1>3. /\ due = << >> <=> n = 0
      /\ n # 0 => Head(due) = due[1]
  <2>1. PICK d : d = due
    OBVIOUS
  <2>2. d = [k \in 1 .. n |-> d[k]]
    BY <2>1, <1>1, <1>2 DEF Awaited
  <2>3. d = << >> <=> n = 0
    BY <2>2, LengthIs
  <2>4. n # 0 => Head(d) = d[1]
    BY <2>2, TailIs
  <2> QED
    BY <2>1, <2>3, <2>4
<1>4. /\ \A k \in 1 .. n : /\ due[k].age \in 1 .. Latency
                           /\ due[k] = Entry(due[k].age, B[due[k].age], C[due[k].age + 1])
      /\ \A i, j \in 1 .. n : i < j => due[j].age < due[i].age
      /\ Bit(Latency) <=> \E k \in 1 .. n : due[k].age = Latency
  BY <1>1, <1>2, Sizes DEF Awaited
<1>5. (\E k \in 1 .. n : due[k].age = Latency) <=> Delivered
  <2>1. ASSUME NEW k \in 1 .. n, due[k].age = Latency PROVE Delivered
    <3>1. 1 \in 1 .. n /\ due[1].age \in 1 .. Latency
      BY <1>4
    <3>2. k # 1 => due[k].age < due[1].age
      BY <3>1, <1>4
    <3> QED
      BY <2>1, <3>1, <3>2, <1>3, Sizes DEF Delivered
  <2>2. ASSUME Delivered PROVE \E k \in 1 .. n : due[k].age = Latency
    BY <2>2, <1>3 DEF Delivered
  <2> QED
    BY <2>1, <2>2
<1>6. decision.valid <=> Delivered
  <2>1. Bit(Latency) <=> decision.valid
    BY Sizes DEF Bit
  <2> QED
    BY <2>1, <1>4, <1>5
<1>7. ASSUME Delivered
      PROVE  Head(due) = Entry(Latency, B[Latency], C[Latency + 1])
  <2>1. n # 0 /\ due[1].age = Latency
    BY <1>3, <1>7 DEF Delivered
  <2> QED
    BY <2>1, <1>3, <1>4
<1> QED
  BY <1>1, <1>6, <1>7 DEF DecidesAsReference, Decided, Entry

\* A decision comes out exactly Latency edges after each book beat and at no
\* other time, none from before a clear, and it is the software model's on
\* that beat, with its prices, its action and the next token: for every model,
\* latency, threshold and width (tick_to_trade.ml, features.ml, decision.ml;
\* trading/reference.py, Pipeline.decide).
THEOREM PathDecidesAsReference == Spec => []DecidesAsReference
<1>1. Init => Inv
  BY InitInv
<1>2. Inv /\ [Next]_vars => Inv'
  <2> SUFFICES ASSUME Inv, [Next]_vars PROVE Inv'
    OBVIOUS
  <2>1. CASE Next
    BY <2>1, EdgeKeeps DEF Next
  <2>2. CASE UNCHANGED vars
    BY <2>2, IdleKeeps
  <2> QED
    BY <2>1, <2>2
<1>3. Inv => DecidesAsReference
  BY InvDecides
<1> QED
  BY <1>1, <1>2, <1>3, PTL DEF Spec

-----------------------------------------------------------------------------
(* The front end.  What packets are. *)

\* The number of values of sixteen bits; the proofs mostly leave it a name.
LEMMA WordIs == Word = 65536
BY DEF Word

LEMMA WordNat == Word \in Nat /\ Word - 1 \in Nat
BY DEF Word

IsPacket(p) ==
  /\ p.count \in 0 .. Word - 1 /\ p.size \in 1 .. Word - 1
  /\ Len(p.blocks) \in Nat
  /\ \A b \in 1 .. Len(p.blocks) : p.blocks[b].length \in 0 .. Word - 1

Blocks(p) == Len(p.blocks)

\* What follows the blocks reads as the length 65535.
LengthOf(p, b) == IF b \in 1 .. Blocks(p) THEN p.blocks[b].length ELSE Word - 1
Finish(p, b) == StartOf(p, b) + LengthOf(p, b)

Following(p, f, c) == IF c = 1 THEN 22 ELSE f[c - 1] + p.blocks[c - 1].length + 2
Starts(p) ==
  CHOOSE start : start = [c \in 1 .. Len(p.blocks) + 1 |->
                            IF c = 1 THEN 22 ELSE start[c - 1] + p.blocks[c - 1].length + 2]

\* The function that lays out the blocks, block by block, exists.
LEMMA StartsExist ==
  ASSUME NEW p, NEW n \in Nat
  PROVE  \E f : f = [c \in 1 .. n |-> Following(p, f, c)]
<1> DEFINE Has(m) == \E f : f = [c \in 1 .. m |-> Following(p, f, c)]
           T == {m \in Nat : ~Has(m)}
<1>1. SUFFICES ASSUME T # {} PROVE FALSE
  OBVIOUS
<1>2. PICK x \in T : \A y \in T : x <= y
  BY <1>1, LeastNumber
<1>3. x # 0
  <2>1. [c \in 1 .. 0 |-> Following(p, <<>>, c)] = [c \in 1 .. 0 |-> Following(p, [d \in 1 .. 0 |-> Following(p, <<>>, d)], c)]
    OBVIOUS
  <2>2. Has(0)
    BY <2>1
  <2> QED
    BY <2>2
<1>4. x - 1 \in Nat /\ x - 1 \notin T
  BY <1>2, <1>3
<1>5. PICK f : f = [c \in 1 .. x - 1 |-> Following(p, f, c)]
  BY <1>4
<1> DEFINE g == [c \in 1 .. x |-> IF c = x THEN Following(p, f, x) ELSE f[c]]
<1>6. ASSUME NEW c \in 1 .. x PROVE g[c] = Following(p, g, c)
  <2>1. CASE c = x
    BY <2>1, <1>4 DEF Following
  <2>2. CASE c # x
    <3>1. c \in 1 .. x - 1 /\ g[c] = f[c]
      BY <2>2, <1>4
    <3>2. f[c] = Following(p, f, c)
      BY <3>1, <1>5
    <3>3. c # 1 => c - 1 \in 1 .. x /\ c - 1 # x
      BY <3>1, <1>4
    <3> QED
      BY <3>1, <3>2, <3>3 DEF Following
  <2> QED
    BY <2>1, <2>2
<1>7. g = [c \in 1 .. x |-> Following(p, g, c)]
  BY <1>6
<1> QED
  BY <1>7

LEMMA StartsRecur ==
  ASSUME NEW p, Blocks(p) \in Nat
  PROVE  Starts(p) = [c \in 1 .. Blocks(p) + 1 |-> Following(p, Starts(p), c)]
<1>1. Blocks(p) + 1 \in Nat
  OBVIOUS
<1>2. \E f : f = [c \in 1 .. Blocks(p) + 1 |-> Following(p, f, c)]
  BY <1>1, StartsExist
<1> QED
  BY <1>2, Zenon DEF Starts, Following, Blocks

LEMMA StartOfIs ==
  ASSUME NEW p, NEW b
  PROVE  StartOf(p, b) = Starts(p)[b]
BY DEF StartOf, Starts

\* The blocks lie one behind the other, a length field before each.
LEMMA Laid ==
  ASSUME NEW p, IsPacket(p)
  PROVE  /\ StartOf(p, 1) = 22
         /\ \A b \in 1 .. Blocks(p) + 1 :
              /\ StartOf(p, b) \in Nat /\ StartOf(p, b) >= 22
              /\ LengthOf(p, b) \in 0 .. Word - 1 /\ Finish(p, b) \in Nat
              /\ Finish(p, b) = StartOf(p, b) + LengthOf(p, b)
         /\ \A b \in 1 .. Blocks(p) :
              /\ StartOf(p, b + 1) = Finish(p, b) + 2
              /\ EndOf(p, b) = Finish(p, b)
<1> DEFINE n == Blocks(p)
           S == [c \in 1 .. n + 1 |-> StartOf(p, c)]
<1>1. n \in Nat /\ \A b \in 1 .. n : p.blocks[b].length \in 0 .. Word - 1
  BY DEF IsPacket, Blocks
<1>2. \A b \in 1 .. n + 1 : StartOf(p, b) = Following(p, Starts(p), b)
  <2>1. Starts(p) = [c \in 1 .. n + 1 |-> Following(p, Starts(p), c)]
    BY <1>1, StartsRecur
  <2> QED
    BY <2>1, StartOfIs
<1>3. n + 1 >= 1 /\ StartOf(p, 1) = 22
  BY <1>1, <1>2 DEF Following
<1>4. ASSUME NEW b \in 1 .. n
      PROVE  StartOf(p, b + 1) = StartOf(p, b) + p.blocks[b].length + 2
  <2>1. b + 1 \in 1 .. n + 1 /\ b + 1 # 1 /\ b + 1 - 1 = b
    BY <1>1
  <2> QED
    BY <2>1, <1>2, StartOfIs DEF Following
<1> DEFINE T == {b \in Nat : b \in 1 .. n + 1 /\ ~(StartOf(p, b) \in Nat /\ StartOf(p, b) >= 22)}
<1>5. T = {}
  <2>1. SUFFICES ASSUME T # {} PROVE FALSE
    OBVIOUS
  <2>2. PICK x \in T : \A y \in T : x <= y
    BY <2>1, LeastNumber
  <2>3. x # 1
    BY <1>3, <2>2
  <2>4. x - 1 \in 1 .. n /\ x - 1 \in 1 .. n + 1 /\ x - 1 \notin T /\ x - 1 + 1 = x
    BY <2>2, <2>3, <1>1
  <2>5. StartOf(p, x - 1) \in Nat /\ StartOf(p, x - 1) >= 22
    BY <2>4
  <2>6. StartOf(p, x) = StartOf(p, x - 1) + p.blocks[x - 1].length + 2
    BY <1>4, <2>4
  <2>7. p.blocks[x - 1].length \in 0 .. Word - 1
    BY <1>1, <2>4
  <2>8. StartOf(p, x) \in Nat /\ StartOf(p, x) >= 22
    BY <2>5, <2>6, <2>7
  <2> QED
    BY <2>2, <2>8
<1>6. ASSUME NEW b \in 1 .. n + 1
      PROVE  /\ StartOf(p, b) \in Nat /\ StartOf(p, b) >= 22
             /\ LengthOf(p, b) \in 0 .. Word - 1
             /\ Finish(p, b) \in Nat /\ Finish(p, b) = StartOf(p, b) + LengthOf(p, b)
  <2>1. b \in Nat /\ b \notin T
    BY <1>1, <1>5
  <2>2. StartOf(p, b) \in Nat /\ StartOf(p, b) >= 22
    BY <2>1
  <2>3. LengthOf(p, b) \in 0 .. Word - 1
    BY <1>1, WordNat DEF LengthOf
  <2> QED
    BY <2>2, <2>3 DEF Finish
<1>7. ASSUME NEW b \in 1 .. n
      PROVE  StartOf(p, b + 1) = Finish(p, b) + 2 /\ EndOf(p, b) = Finish(p, b)
  <2>1. LengthOf(p, b) = p.blocks[b].length
    BY DEF LengthOf
  <2>2. p.blocks[b].length \in Nat /\ b \in 1 .. n + 1
    BY <1>1
  <2>3. StartOf(p, b) \in Nat
    BY <2>2, <1>6
  <2> QED
    BY <1>4, <2>1, <2>2, <2>3 DEF Finish, EndOf
<1> QED
  BY <1>3, <1>6, <1>7

\* No two blocks overlap.
LEMMA Apart ==
  ASSUME NEW p, IsPacket(p), NEW b \in 1 .. Blocks(p) + 1, NEW c \in 1 .. Blocks(p) + 1, b < c
  PROVE  Finish(p, b) + 2 <= StartOf(p, c)
<1> DEFINE n == Blocks(p)
           T == {d \in Nat : b < d /\ d <= n + 1 /\ ~(Finish(p, b) + 2 <= StartOf(p, d))}
<1>1. n \in Nat /\ b \in Nat /\ c \in Nat
  BY DEF IsPacket, Blocks
<1>2. T = {}
  <2>1. SUFFICES ASSUME T # {} PROVE FALSE
    OBVIOUS
  <2>2. PICK x \in T : \A y \in T : x <= y
    BY <2>1, LeastNumber
  <2>3. x - 1 \in 1 .. n /\ x - 1 + 1 = x /\ x - 1 \in Nat /\ x - 1 \notin T /\ x - 1 \in 1 .. n + 1
    BY <2>2, <1>1
  <2>4. StartOf(p, x) = Finish(p, x - 1) + 2
    BY <2>3, Laid
  <2>5. /\ Finish(p, b) \in Nat /\ StartOf(p, x - 1) \in Nat /\ Finish(p, x - 1) \in Nat
        /\ StartOf(p, x - 1) <= Finish(p, x - 1) /\ LengthOf(p, x - 1) \in Nat
    BY <2>3, Laid
  <2>6. CASE x - 1 = b
    BY <2>2, <2>4, <2>5, <2>6
  <2>7. CASE b < x - 1
    <3>1. Finish(p, b) + 2 <= StartOf(p, x - 1)
      BY <2>7, <2>3, <2>2, <1>1
    <3> QED
      BY <2>2, <2>4, <2>5, <3>1
  <2> QED
    BY <2>2, <2>3, <2>6, <2>7, <1>1
<1> QED
  BY <1>1, <1>2

-----------------------------------------------------------------------------
(* The bytes of a packet. *)

FieldsAt(p, i) == {b \in 1 .. Len(p.blocks) : i \in StartOf(p, b) - 2 .. StartOf(p, b) - 1}
BodiesAt(p, i) == {b \in 1 .. Len(p.blocks) : i \in StartOf(p, b) .. EndOf(p, b) - 1}
Half(word, high) == IF high THEN word \div 256 ELSE word % 256
FieldByte(p, i, b) == [value |-> Half(p.blocks[b].length, i = StartOf(p, b) - 2), of |-> <<>>]
BodyByteAt(p, i, b) == [value |-> 255, of |-> <<p.blocks[b], i - StartOf(p, b)>>]

LEMMA ByteCases ==
  ASSUME NEW p, NEW i
  PROVE  ByteOf(p, i) =
           IF i \in {18, 19} THEN [value |-> Half(p.count, i = 18), of |-> <<>>]
           ELSE IF FieldsAt(p, i) # {} THEN FieldByte(p, i, CHOOSE b \in FieldsAt(p, i) : TRUE)
           ELSE IF BodiesAt(p, i) # {} THEN BodyByteAt(p, i, CHOOSE b \in BodiesAt(p, i) : TRUE)
           ELSE [value |-> 255, of |-> <<>>]
BY Zenon DEF ByteOf, FieldsAt, BodiesAt, Half, FieldByte, BodyByteAt

\* A byte is of one length field or of one body.
LEMMA OneBlock ==
  ASSUME NEW p, IsPacket(p), NEW b \in 1 .. Blocks(p) + 1, NEW c \in 1 .. Blocks(p), NEW i \in Int,
         StartOf(p, b) - 2 <= i, i < Finish(p, b) \/ i < StartOf(p, b),
         StartOf(p, c) - 2 <= i, i < Finish(p, c) \/ i < StartOf(p, c)
  PROVE  b = c
<1>1. /\ Blocks(p) \in Nat /\ c \in 1 .. Blocks(p) + 1
  BY DEF IsPacket, Blocks
<1>2. /\ StartOf(p, b) \in Nat /\ StartOf(p, c) \in Nat /\ Finish(p, b) \in Nat /\ Finish(p, c) \in Nat
      /\ StartOf(p, b) <= Finish(p, b) /\ StartOf(p, c) <= Finish(p, c)
  <2>1. ASSUME NEW d \in 1 .. Blocks(p) + 1
        PROVE  StartOf(p, d) \in Nat /\ Finish(p, d) \in Nat /\ StartOf(p, d) <= Finish(p, d)
    <3>1. /\ StartOf(p, d) \in Nat /\ LengthOf(p, d) \in Nat
          /\ Finish(p, d) = StartOf(p, d) + LengthOf(p, d)
      BY Laid
    <3> QED
      BY <3>1
  <2> QED
    BY <2>1, <1>1
<1>3. ~(b < c)
  BY <1>1, <1>2, Apart
<1>4. ~(c < b)
  BY <1>1, <1>2, Apart
<1> QED
  BY <1>1, <1>3, <1>4

LEMMA FieldBytes ==
  ASSUME NEW p, IsPacket(p), NEW b \in 1 .. Blocks(p) + 1
  PROVE  /\ ByteOf(p, StartOf(p, b) - 2).value = LengthOf(p, b) \div 256
         /\ ByteOf(p, StartOf(p, b) - 1).value = LengthOf(p, b) % 256
<1>1. StartOf(p, b) \in Nat /\ StartOf(p, b) >= 22 /\ Blocks(p) \in Nat
  BY Laid DEF IsPacket, Blocks
<1>2. ASSUME NEW i \in Int, i = StartOf(p, b) - 2 \/ i = StartOf(p, b) - 1
      PROVE  ByteOf(p, i).value = Half(LengthOf(p, b), i = StartOf(p, b) - 2)
  <2>1. i \notin {18, 19}
    BY <1>1, <1>2
  <2>2. ASSUME NEW c \in 1 .. Blocks(p), StartOf(p, c) - 2 <= i, i < Finish(p, c) \/ i < StartOf(p, c)
        PROVE  c = b
    <3>1. StartOf(p, b) - 2 <= i /\ i < StartOf(p, b)
      BY <1>1, <1>2
    <3> QED
      BY <2>2, <3>1, OneBlock
  <2>3. ASSUME NEW c \in 1 .. Blocks(p)
        PROVE  StartOf(p, c) \in Int /\ EndOf(p, c) = Finish(p, c) /\ Finish(p, c) \in Int
    BY Laid, <1>1
  <2>4. ASSUME NEW c \in FieldsAt(p, i) PROVE c = b
    <3>1. c \in 1 .. Blocks(p) /\ i \in StartOf(p, c) - 2 .. StartOf(p, c) - 1
      BY DEF FieldsAt, Blocks
    <3> QED
      BY <3>1, <2>2, <2>3
  <2>5. CASE b \in 1 .. Blocks(p)
    <3>1. b \in FieldsAt(p, i)
      BY <2>5, <1>1, <1>2 DEF FieldsAt, Blocks
    <3>2. (CHOOSE c \in FieldsAt(p, i) : TRUE) = b
      BY <3>1, <2>4
    <3>3. ByteOf(p, i) = FieldByte(p, i, b)
      BY <3>1, <3>2, <2>1, ByteCases
    <3> QED
      BY <3>3, <2>5 DEF FieldByte, LengthOf
  <2>6. CASE b \notin 1 .. Blocks(p)
    <3>1. FieldsAt(p, i) = {}
      <4>1. ASSUME NEW c \in FieldsAt(p, i) PROVE FALSE
        <5>1. c \in 1 .. Blocks(p)
          BY DEF FieldsAt, Blocks
        <5> QED
          BY <5>1, <2>4, <2>6
      <4> QED
        BY <4>1
    <3>2. BodiesAt(p, i) = {}
      <4>1. ASSUME NEW c \in BodiesAt(p, i) PROVE FALSE
        <5>1. c \in 1 .. Blocks(p) /\ i \in StartOf(p, c) .. EndOf(p, c) - 1
          BY DEF BodiesAt, Blocks
        <5>2. StartOf(p, c) - 2 <= i /\ i < Finish(p, c)
          BY <5>1, <2>3
        <5>3. c = b
          BY <5>1, <5>2, <2>2
        <5> QED
          BY <5>1, <5>3, <2>6
      <4> QED
        BY <4>1
    <3>3. ByteOf(p, i).value = 255
      BY <3>1, <3>2, <2>1, ByteCases
    <3>4. LengthOf(p, b) = 65535
      BY <2>6, WordIs DEF LengthOf
    <3>5. 65535 \div 256 = 255 /\ 65535 % 256 = 255
      OBVIOUS
    <3> QED
      BY <3>3, <3>4, <3>5 DEF Half
  <2> QED
    BY <2>5, <2>6
<1>3. StartOf(p, b) - 2 # StartOf(p, b) - 1 /\ StartOf(p, b) - 2 \in Int /\ StartOf(p, b) - 1 \in Int
  BY <1>1
<1> QED
  BY <1>2, <1>3 DEF Half

LEMMA BodyBytes ==
  ASSUME NEW p, IsPacket(p), NEW b \in 1 .. Blocks(p), NEW i \in Int,
         StartOf(p, b) <= i, i < Finish(p, b)
  PROVE  ByteOf(p, i).of = <<p.blocks[b], i - StartOf(p, b)>>
<1>1. Blocks(p) \in Nat
  BY DEF IsPacket, Blocks
<1>2. ASSUME NEW c \in 1 .. Blocks(p)
      PROVE  /\ c \in 1 .. Blocks(p) + 1 /\ StartOf(p, c) \in Nat /\ StartOf(p, c) >= 22
             /\ EndOf(p, c) = Finish(p, c) /\ Finish(p, c) \in Nat
  <2>1. c \in 1 .. Blocks(p) + 1
    BY <1>1
  <2> QED
    BY <2>1, Laid
<1>3. i \notin {18, 19}
  BY <1>2
<1>4. FieldsAt(p, i) = {}
  <2>1. ASSUME NEW c \in FieldsAt(p, i) PROVE FALSE
    <3>1. c \in 1 .. Blocks(p) /\ i \in StartOf(p, c) - 2 .. StartOf(p, c) - 1
      BY DEF FieldsAt, Blocks
    <3>2. StartOf(p, c) - 2 <= i /\ i < StartOf(p, c)
      BY <3>1, <1>2
    <3>3. b \in 1 .. Blocks(p) + 1 /\ StartOf(p, b) - 2 <= i
      BY <1>2
    <3>4. b = c
      BY <3>1, <3>2, <3>3, OneBlock
    <3> QED
      BY <3>2, <3>4, <1>2
  <2> QED
    BY <2>1
<1>5. b \in BodiesAt(p, i)
  BY <1>2 DEF BodiesAt, Blocks
<1>6. ASSUME NEW c \in BodiesAt(p, i) PROVE c = b
  <2>1. c \in 1 .. Blocks(p) /\ i \in StartOf(p, c) .. EndOf(p, c) - 1
    BY DEF BodiesAt, Blocks
  <2>2. StartOf(p, c) - 2 <= i /\ i < Finish(p, c)
    BY <2>1, <1>2
  <2>3. b \in 1 .. Blocks(p) + 1 /\ StartOf(p, b) - 2 <= i
    BY <1>2
  <2> QED
    BY <2>1, <2>2, <2>3, OneBlock
<1>7. (CHOOSE c \in BodiesAt(p, i) : TRUE) = b
  BY <1>5, <1>6
<1>8. ByteOf(p, i) = BodyByteAt(p, i, b)
  BY <1>3, <1>4, <1>5, <1>7, ByteCases
<1> QED
  BY <1>8 DEF BodyByteAt

LEMMA HeaderBytesAre ==
  ASSUME NEW p
  PROVE  ByteOf(p, 18).value = p.count \div 256 /\ ByteOf(p, 19).value = p.count % 256
<1>1. ByteOf(p, 18) = [value |-> Half(p.count, TRUE), of |-> <<>>]
  <2>1. 18 \in {18, 19} /\ (18 = 18) = TRUE
    OBVIOUS
  <2> QED
    BY <2>1, ByteCases
<1>2. ByteOf(p, 19) = [value |-> Half(p.count, FALSE), of |-> <<>>]
  <2>1. 19 \in {18, 19} /\ (19 = 18) = FALSE
    OBVIOUS
  <2> QED
    BY <2>1, ByteCases
<1> QED
  BY <1>1, <1>2 DEF Half

LEMMA Rejoined ==
  ASSUME NEW x \in Nat
  PROVE  (x \div 256) * 256 + (x % 256) = x
OBVIOUS

\* A byte is one of 256 values.
LEMMA BytesAreBytes ==
  ASSUME NEW p, IsPacket(p), NEW i \in Int
  PROVE  ByteOf(p, i).value \in 0 .. 255
<1>1. \A n \in 0 .. Word - 1 : n \div 256 \in 0 .. 255 /\ n % 256 \in 0 .. 255
  <2>1. SUFFICES ASSUME NEW n \in 0 .. Word - 1
                 PROVE  n \div 256 \in 0 .. 255 /\ n % 256 \in 0 .. 255
    OBVIOUS
  <2>2. n \in Int /\ n \in Nat /\ 0 <= n /\ n < 65536
    BY WordIs
  <2>3. n \div 256 \in Int /\ n % 256 \in Int /\ 0 <= n % 256 /\ n % 256 < 256
    BY <2>2
  <2>4. PICK q \in Int, r \in 0 .. 255 : q = n \div 256 /\ r = n % 256 /\ n = q * 256 + r
    <3>1. n = (n \div 256) * 256 + (n % 256)
      BY <2>2, Rejoined
    <3> QED
      BY <2>3, <3>1
  <2>5. q \in 0 .. 255
    BY <2>2, <2>4
  <2> QED
    BY <2>4, <2>5
<1>2. p.count \in 0 .. Word - 1
  BY DEF IsPacket
<1>3. ASSUME NEW b \in FieldsAt(p, i) PROVE p.blocks[b].length \in 0 .. Word - 1
  BY DEF IsPacket, FieldsAt
<1>4. CASE i \in {18, 19}
  BY <1>4, <1>1, <1>2, ByteCases DEF Half
<1>5. CASE i \notin {18, 19} /\ FieldsAt(p, i) # {}
  <2>1. PICK b \in FieldsAt(p, i) : b = (CHOOSE c \in FieldsAt(p, i) : TRUE)
    BY <1>5
  <2>2. ByteOf(p, i) = FieldByte(p, i, b)
    BY <2>1, <1>5, ByteCases
  <2>3. FieldByte(p, i, b).value
          = IF i = StartOf(p, b) - 2 THEN p.blocks[b].length \div 256 ELSE p.blocks[b].length % 256
    BY DEF Half, FieldByte
  <2>4. p.blocks[b].length \div 256 \in 0 .. 255 /\ p.blocks[b].length % 256 \in 0 .. 255
    BY <1>1, <1>3
  <2> QED
    BY <2>2, <2>3, <2>4
<1>6. CASE i \notin {18, 19} /\ FieldsAt(p, i) = {}
  <2>1. CASE BodiesAt(p, i) # {}
    <3>1. ByteOf(p, i) = BodyByteAt(p, i, CHOOSE b \in BodiesAt(p, i) : TRUE)
      BY <2>1, <1>6, ByteCases
    <3> QED
      BY <3>1 DEF BodyByteAt
  <2>2. CASE BodiesAt(p, i) = {}
    <3>1. ByteOf(p, i) = [value |-> 255, of |-> <<>>]
      BY <2>2, <1>6, ByteCases
    <3> QED
      BY <3>1
  <2> QED
    BY <2>1, <2>2
<1> QED
  BY <1>4, <1>5, <1>6

-----------------------------------------------------------------------------
(* Where in a packet the framer stands, pos bytes into it: in the header,  *)
(* at or in the length field of a block, in its body, or past what the     *)
(* reference frames.                                                       *)

Reading(p, b) ==
  /\ b \in 1 .. Blocks(p) + 1 /\ b <= Count(p)
  /\ \A c \in 1 .. b - 1 : LengthOf(p, c) >= MinLength
InHeader(pos, s) == s.phase = "Header" /\ pos < 20 /\ s.skip = 20 - pos
AtLength(p, b, pos, s) ==
  s.phase = "Length" /\ pos + 2 = StartOf(p, b) /\ s.count = Count(p) - b + 1
AtLow(p, b, pos, s) ==
  /\ s.phase = "Length_low" /\ pos + 1 = StartOf(p, b) /\ s.count = Count(p) - b + 1
  /\ s.high = LengthOf(p, b) \div 256
Filled(p, b, pos, buf) ==
  b <= Blocks(p) =>
    \A j \in 0 .. MessageBytes - 1 : j < pos - StartOf(p, b) => buf[j].of = <<p.blocks[b], j>>
Begun(p, b, pos, s, tm) == StartOf(p, b) < pos => s.first = tm[StartOf(p, b) \div 8]
InBody(p, b, pos, s, buf, tm) ==
  /\ s.phase = "Body" /\ LengthOf(p, b) >= MinLength
  /\ StartOf(p, b) <= pos /\ pos < Finish(p, b)
  /\ s.skip = Finish(p, b) - pos /\ s.length = LengthOf(p, b) /\ s.count = Count(p) - b
  /\ Filled(p, b, pos, buf) /\ Begun(p, b, pos, s, tm)
Over(p, pos, s) == s.phase = "Drop" /\ \A b \in Framed(p) : EndOf(p, b) <= pos

Position(p, pos, s, buf, tm) ==
  \/ InHeader(pos, s)
  \/ \E b \in 1 .. Blocks(p) + 1 :
       Reading(p, b) /\ (AtLength(p, b, pos, s) \/ AtLow(p, b, pos, s) \/ InBody(p, b, pos, s, buf, tm))
  \/ Over(p, pos, s)

LEMMA CountIs ==
  ASSUME NEW p, IsPacket(p)
  PROVE  Count(p) \in Nat
BY WordNat DEF IsPacket, Count

LEMMA FramedFacts ==
  ASSUME NEW p, IsPacket(p), NEW b \in Framed(p)
  PROVE  /\ b \in 1 .. Blocks(p) /\ b <= Count(p)
         /\ \A c \in 1 .. b : LengthOf(p, c) >= MinLength /\ Finish(p, c) <= p.size
         /\ EndOf(p, b) = Finish(p, b)
<1>1. /\ b \in 1 .. Blocks(p) /\ Blocks(p) \in Nat
      /\ \A c \in 1 .. b : /\ c <= Count(p) /\ p.blocks[c].length >= MinLength
                             /\ EndOf(p, c) <= p.size
  BY DEF Framed, Blocks, IsPacket
<1>2. ASSUME NEW c \in 1 .. b
      PROVE  /\ LengthOf(p, c) >= MinLength /\ Finish(p, c) <= p.size /\ c <= Count(p)
             /\ EndOf(p, c) = Finish(p, c)
  <2>1. c \in 1 .. Blocks(p)
    BY <1>1
  <2>2. EndOf(p, c) = Finish(p, c) /\ LengthOf(p, c) = p.blocks[c].length
    BY <2>1, Laid DEF LengthOf
  <2> QED
    BY <1>1, <2>2
<1>3. b \in 1 .. b
  BY <1>1
<1> QED
  BY <1>1, <1>2, <1>3

\* Framed are the blocks up to where the reference stops.
LEMMA FramedFrom ==
  ASSUME NEW p, IsPacket(p), NEW b \in 1 .. Blocks(p), Reading(p, b),
         LengthOf(p, b) >= MinLength, Finish(p, b) <= p.size
  PROVE  b \in Framed(p)
<1>1. Blocks(p) \in Nat /\ p.size \in Nat /\ Count(p) \in Nat
  BY CountIs, WordNat DEF IsPacket, Blocks
<1>2. ASSUME NEW c \in 1 .. b
      PROVE  /\ c <= Count(p) /\ p.blocks[c].length >= MinLength
             /\ EndOf(p, c) <= p.size
  <2>1. c \in 1 .. Blocks(p) /\ c \in 1 .. Blocks(p) + 1 /\ b \in 1 .. Blocks(p) + 1
    BY <1>1
  <2>2. c <= Count(p)
    BY <2>1, <1>1 DEF Reading
  <2>3. LengthOf(p, c) >= MinLength
    BY <2>1, <1>1 DEF Reading
  <2>4. LengthOf(p, c) = p.blocks[c].length /\ EndOf(p, c) = Finish(p, c)
    BY <2>1, Laid DEF LengthOf
  <2>5. Finish(p, c) <= p.size
    <3>1. CASE c = b
      BY <3>1
    <3>2. CASE c < b
      <4>1. Finish(p, c) + 2 <= StartOf(p, b)
        BY <3>2, <2>1, Apart
      <4>2. /\ Finish(p, c) \in Nat /\ StartOf(p, b) \in Nat /\ Finish(p, b) \in Nat
            /\ LengthOf(p, b) \in Nat /\ Finish(p, b) = StartOf(p, b) + LengthOf(p, b)
        BY <2>1, Laid
      <4> QED
        BY <4>1, <4>2, <1>1
    <3> QED
      BY <3>1, <3>2, <2>1
  <2> QED
    BY <2>2, <2>3, <2>4, <2>5
<1> QED
  BY <1>2 DEF Framed, Blocks

\* While block b is read or to be read, the framed ones before it are over.
LEMMA Ahead ==
  ASSUME NEW p, IsPacket(p), NEW b \in 1 .. Blocks(p) + 1, NEW f \in Framed(p)
  PROVE  /\ f < b => Finish(p, f) + 2 <= StartOf(p, b)
         /\ f >= b => /\ Finish(p, b) <= Finish(p, f) /\ LengthOf(p, b) >= MinLength
                      /\ b <= Blocks(p) /\ Finish(p, b) <= p.size
<1>1. Blocks(p) \in Nat /\ f \in 1 .. Blocks(p) /\ f \in 1 .. Blocks(p) + 1
  BY FramedFacts DEF IsPacket, Blocks
<1>2. f < b => Finish(p, f) + 2 <= StartOf(p, b)
  BY <1>1, Apart
<1>3. ASSUME f >= b
      PROVE  /\ Finish(p, b) <= Finish(p, f) /\ LengthOf(p, b) >= MinLength
             /\ b <= Blocks(p) /\ Finish(p, b) <= p.size
  <2>1. b \in 1 .. f
    BY <1>1, <1>3
  <2>2. LengthOf(p, b) >= MinLength /\ Finish(p, b) <= p.size
    BY <2>1, FramedFacts
  <2>3. CASE b = f
    BY <2>2, <2>3, <1>1, Laid
  <2>4. CASE b < f
    <3>1. Finish(p, b) + 2 <= StartOf(p, f)
      BY <2>4, <1>1, Apart
    <3>2. /\ Finish(p, b) \in Nat /\ StartOf(p, f) \in Nat /\ Finish(p, f) \in Nat
          /\ LengthOf(p, f) \in Nat /\ Finish(p, f) = StartOf(p, f) + LengthOf(p, f)
      BY <1>1, Laid
    <3> QED
      BY <3>1, <3>2, <2>2, <1>1, <1>3
  <2> QED
    BY <2>3, <2>4, <1>1, <1>3
<1> QED
  BY <1>2, <1>3

-----------------------------------------------------------------------------
(* One beat of eight bytes of a packet, v, of which more follows.          *)

LEMMA SmallMod ==
  ASSUME NEW x \in Int
  PROVE  /\ 0 <= x /\ x < 8 => x % 8 = x
         /\ 0 <= x /\ x < Word => x % Word = x
         /\ -Word <= x /\ x < 0 => x % Word = x + Word
<1>1. 0 <= x /\ x < 8 => x % 8 = x
  OBVIOUS
<1>2. 0 <= x /\ x < 65536 => x % 65536 = x
  OBVIOUS
<1>3. -65536 <= x /\ x < 0 => x % 65536 = x + 65536
  OBVIOUS
<1> QED
  BY <1>1, <1>2, <1>3, WordIs

Whole(p, n, v) == v.keep = 8 /\ \A i \in 0 .. 7 : v.lanes[i] = ByteOf(p, 8 * n + i)
TimesAfter(n, tm, t) == [i \in 0 .. n |-> IF i = n THEN t ELSE tm[i]]

\* A length field whose low byte is in the beat begins a body or ends what
\* is framed of the packet.
LEMMA FieldRead ==
  ASSUME NEW p, IsPacket(p), NEW n \in Nat, NEW v, Whole(p, n, v), NEW tm, NEW t,
         NEW b \in 1 .. Blocks(p) + 1, Reading(p, b),
         LowLane \in 0 .. 7, LowHere(v), Field(v) = LengthOf(p, b),
         CountAfter(v) = Count(p) - b + 1, 8 * n + LowLane + 1 = StartOf(p, b)
  PROVE  Position(p, 8 * n + 8, StateAfter(v, t), BufferAfter(v), TimesAfter(n, tm, t))
<1> DEFINE s == StateAfter(v, t)
           pos == 8 * n + 8
<1>1. /\ StartOf(p, b) \in Nat /\ LengthOf(p, b) \in Nat
      /\ Finish(p, b) = StartOf(p, b) + LengthOf(p, b)
      /\ Count(p) \in Nat /\ b \in Nat /\ pos \in Nat
  <2>1. LengthOf(p, b) \in Nat
    BY Laid, WordNat
  <2> QED
    BY <2>1, Laid, CountIs DEF IsPacket, Blocks
<1>2. /\ s.phase = PhaseAfter(v) /\ s.skip = SkipAfter(v) /\ s.count = CountNext(v)
      /\ s.first = FirstAfter(v, t)
      /\ s.length = IF Start(v) THEN Field(v) ELSE state.length
  BY DEF StateAfter
<1>3. CASE LengthOf(p, b) >= MinLength
  <2>1. Start(v)
    BY <1>3 DEF Start
  <2>2. s.phase = "Body" /\ s.length = LengthOf(p, b)
    BY <1>2, <2>1 DEF PhaseAfter
  <2>3. s.skip = LengthOf(p, b) + LowLane - 7
    BY <1>2, <2>1 DEF SkipAfter
  <2>4. s.skip = Finish(p, b) - pos
    BY <2>3, <1>1
  <2>5. s.count = Count(p) - b
    BY <1>1, <1>2, <2>1 DEF CountNext
  <2>6. StartOf(p, b) <= pos /\ pos < Finish(p, b)
    BY <1>1, <1>3 DEF MinLength
  <2>7. Begun(p, b, pos, s, TimesAfter(n, tm, t))
    <3>1. SUFFICES ASSUME StartOf(p, b) < pos
                   PROVE  s.first = TimesAfter(n, tm, t)[StartOf(p, b) \div 8]
      BY DEF Begun
    <3>2. LowLane <= 6 /\ StartOf(p, b) \div 8 = n
      BY <3>1, <1>1
    <3>3. BodyStarts(v)
      BY <2>1, <3>2 DEF BodyStarts
    <3> QED
      BY <1>2, <3>2, <3>3 DEF FirstAfter, TimesAfter
  <2>8. Filled(p, b, pos, BufferAfter(v))
    <3>1. SUFFICES ASSUME b <= Blocks(p), NEW j \in 0 .. MessageBytes - 1, j < pos - StartOf(p, b)
                   PROVE  BufferAfter(v)[j].of = <<p.blocks[b], j>>
      BY DEF Filled
    <3>2. LowLane + j + 1 \in 0 .. 7 /\ j < 7
      BY <3>1, <1>1 DEF MessageBytes
    <3>3. BufferAfter(v)[j] = v.lanes[LowLane + j + 1]
      BY <3>2, <2>1 DEF BufferAfter, Whole
    <3>4. v.lanes[LowLane + j + 1] = ByteOf(p, 8 * n + (LowLane + j + 1))
      BY <3>2 DEF Whole
    <3>5. 8 * n + (LowLane + j + 1) = StartOf(p, b) + j /\ StartOf(p, b) + j \in Int
      BY <1>1 DEF MessageBytes
    <3>6. b \in 1 .. Blocks(p) /\ StartOf(p, b) <= StartOf(p, b) + j /\ StartOf(p, b) + j < Finish(p, b)
      BY <3>1, <3>2, <1>1, <1>3 DEF MinLength, MessageBytes
    <3>7. ByteOf(p, StartOf(p, b) + j).of = <<p.blocks[b], StartOf(p, b) + j - StartOf(p, b)>>
      BY <3>5, <3>6, BodyBytes
    <3>8. StartOf(p, b) + j - StartOf(p, b) = j
      BY <1>1 DEF MessageBytes
    <3> QED
      BY <3>3, <3>4, <3>5, <3>7, <3>8
  <2>9. InBody(p, b, pos, s, BufferAfter(v), TimesAfter(n, tm, t))
    BY <1>3, <2>2, <2>4, <2>5, <2>6, <2>7, <2>8 DEF InBody
  <2> QED
    BY <2>9 DEF Position
<1>4. CASE ~(LengthOf(p, b) >= MinLength)
  <2>1. ~Start(v)
    BY <1>4 DEF Start
  <2>2. s.phase = "Drop"
    BY <1>2, <2>1 DEF PhaseAfter
  <2>3. ASSUME NEW f \in Framed(p) PROVE EndOf(p, f) <= pos
    <3>1. f \in 1 .. Blocks(p) /\ Blocks(p) \in Nat /\ EndOf(p, f) = Finish(p, f)
      BY FramedFacts DEF IsPacket, Blocks
    <3>2. f < b
      BY <3>1, <1>1, <1>4, Ahead
    <3>3. Finish(p, f) + 2 <= StartOf(p, b)
      BY <3>2, Ahead
    <3>4. Finish(p, f) \in Nat
      BY <3>1, Laid
    <3> QED
      BY <3>1, <3>3, <3>4, <1>1
  <2> QED
    BY <2>2, <2>3 DEF Position, Over
<1> QED
  BY <1>3, <1>4

\* The high byte of the next block's length field is in lane h.
LEMMA FieldBegins ==
  ASSUME NEW p, IsPacket(p), NEW n \in Nat, NEW v, Whole(p, n, v), NEW tm, NEW t,
         NEW b \in 1 .. Blocks(p) + 1, Reading(p, b), NEW h \in 0 .. 7,
         state.skip \in Int, ~Is("Length_low"), HighHere(v), HighLane = h,
         CountAfter(v) = Count(p) - b + 1, 8 * n + h + 2 = StartOf(p, b)
  PROVE  Position(p, 8 * n + 8, StateAfter(v, t), BufferAfter(v), TimesAfter(n, tm, t))
<1>1. /\ StartOf(p, b) \in Nat /\ LengthOf(p, b) \in Nat
  BY Laid, WordNat
<1>2. LowLane = h + 1
  BY DEF LowLane
<1>3. v.lanes[h].value = LengthOf(p, b) \div 256
  <2>1. v.lanes[h] = ByteOf(p, 8 * n + h) /\ 8 * n + h = StartOf(p, b) - 2
    BY <1>1 DEF Whole
  <2> QED
    BY <2>1, FieldBytes
<1>4. CASE h < 7
  <2>1. LowLane \in 0 .. 7 /\ LowLane % 8 = h + 1 /\ h + 1 \in 0 .. 7
    BY <1>2, <1>4, SmallMod
  <2>2. LowHere(v)
    BY <1>2, <1>4 DEF LowHere
  <2>3. v.lanes[h + 1].value = LengthOf(p, b) % 256
    <3>1. v.lanes[h + 1] = ByteOf(p, 8 * n + (h + 1)) /\ 8 * n + (h + 1) = StartOf(p, b) - 1
      BY <2>1, <1>1 DEF Whole
    <3> QED
      BY <3>1, FieldBytes
  <2>4. Field(v) = v.lanes[h].value * 256 + v.lanes[h + 1].value
    BY <2>1 DEF Field
  <2>5. Field(v) = LengthOf(p, b)
    BY <2>3, <2>4, <1>1, <1>3, Rejoined
  <2>6. 8 * n + LowLane + 1 = StartOf(p, b)
    BY <1>2
  <2> QED
    BY <2>1, <2>2, <2>5, <2>6, FieldRead
<1>5. CASE h = 7
  <2> DEFINE s == StateAfter(v, t)
  <2>1. ~LowHere(v) /\ ~Start(v)
    BY <1>2, <1>5 DEF LowHere, Start
  <2>2. s.phase = "Length_low"
    BY <2>1 DEF StateAfter, PhaseAfter
  <2>3. s.high = LengthOf(p, b) \div 256
    BY <1>3 DEF StateAfter, HighAfter
  <2>4. s.count = CountAfter(v)
    <3>1. Is("Header") => PrefixEnds
      BY DEF HighHere, Is, Boundary, PrefixEnds, Counting
    <3>2. CountNext(v) = IF Is("Header") THEN HeaderCount(v) ELSE state.count
      BY <2>1, <3>1 DEF CountNext
    <3> QED
      BY <3>2 DEF StateAfter, CountAfter
  <2>5. 8 * n + 8 + 1 = StartOf(p, b)
    BY <1>5
  <2>6. AtLow(p, b, 8 * n + 8, s)
    BY <2>2, <2>3, <2>4, <2>5 DEF AtLow
  <2> QED
    BY <2>6 DEF Position
<1> QED
  BY <1>4, <1>5

\* No block follows.
LEMMA NoneFollows ==
  ASSUME NEW p, IsPacket(p), NEW pos \in Nat, NEW b \in 0 .. Blocks(p), Count(p) = b,
         b = 0 \/ Finish(p, b) <= pos, NEW f \in Framed(p)
  PROVE  EndOf(p, f) <= pos
<1>1. f \in 1 .. Blocks(p) /\ f <= b /\ EndOf(p, f) = Finish(p, f) /\ Blocks(p) \in Nat
  BY FramedFacts DEF IsPacket, Blocks
<1>2. b \in 1 .. Blocks(p) /\ b \in 1 .. Blocks(p) + 1 /\ f \in 1 .. Blocks(p) + 1
  BY <1>1
<1>3. CASE f = b
  BY <1>1, <1>2, <1>3
<1>4. CASE f < b
  <2>1. Finish(p, f) + 2 <= StartOf(p, b)
    BY <1>2, <1>4, Apart
  <2>2. /\ Finish(p, f) \in Nat /\ StartOf(p, b) \in Nat /\ Finish(p, b) \in Nat
        /\ LengthOf(p, b) \in Nat /\ Finish(p, b) = StartOf(p, b) + LengthOf(p, b)
    BY <1>2, Laid, WordNat
  <2> QED
    BY <2>1, <2>2, <1>1, <1>2
<1> QED
  BY <1>1, <1>2, <1>3, <1>4

LEMMA StepLength ==
  ASSUME NEW p, IsPacket(p), NEW n \in Nat, NEW v, Whole(p, n, v), NEW tm, NEW t,
         NEW b \in 1 .. Blocks(p) + 1, Reading(p, b), state.skip \in Int,
         AtLength(p, b, 8 * n, state)
  PROVE  Position(p, 8 * n + 8, StateAfter(v, t), BufferAfter(v), TimesAfter(n, tm, t))
<1>1. state.phase = "Length" /\ 8 * n + 0 + 2 = StartOf(p, b) /\ state.count = Count(p) - b + 1
  BY DEF AtLength
<1>2. ~Is("Length_low") /\ HighHere(v) /\ HighLane = 0 /\ CountAfter(v) = Count(p) - b + 1
  BY <1>1 DEF Is, HighHere, HighLane, CountAfter
<1>3. 0 \in 0 .. 7
  OBVIOUS
<1> QED
  BY <1>1, <1>2, <1>3, FieldBegins

LEMMA StepLow ==
  ASSUME NEW p, IsPacket(p), NEW n \in Nat, NEW v, Whole(p, n, v), NEW tm, NEW t,
         NEW b \in 1 .. Blocks(p) + 1, Reading(p, b), AtLow(p, b, 8 * n, state)
  PROVE  Position(p, 8 * n + 8, StateAfter(v, t), BufferAfter(v), TimesAfter(n, tm, t))
<1>1. /\ state.phase = "Length_low" /\ 8 * n + 0 + 1 = StartOf(p, b) /\ state.count = Count(p) - b + 1
      /\ state.high = LengthOf(p, b) \div 256
  BY DEF AtLow
<1>2. LowLane = 0 /\ LowHere(v) /\ CountAfter(v) = Count(p) - b + 1
  BY <1>1 DEF Is, LowLane, LowHere, CountAfter
<1>3. 0 % 8 = 0 /\ LowLane \in 0 .. 7 /\ 0 \in 0 .. 7
  BY <1>2
<1>4. Field(v) = state.high * 256 + v.lanes[0].value
  BY <1>1, <1>2, <1>3 DEF Field, Is
<1>5. v.lanes[0].value = LengthOf(p, b) % 256
  <2>1. v.lanes[0] = ByteOf(p, 8 * n + 0)
    BY <1>3 DEF Whole
  <2>2. 8 * n + 0 = StartOf(p, b) - 1
    <3>1. StartOf(p, b) \in Nat
      BY Laid
    <3> QED
      BY <1>1, <3>1
  <2> QED
    BY <2>1, <2>2, FieldBytes
<1>6. Field(v) = LengthOf(p, b)
  <2>1. LengthOf(p, b) \in Nat
    BY Laid, WordNat
  <2> QED
    BY <2>1, <1>1, <1>4, <1>5, Rejoined
<1>7. 8 * n + LowLane + 1 = StartOf(p, b)
  BY <1>1, <1>2
<1> QED
  BY <1>2, <1>3, <1>6, <1>7, FieldRead

LEMMA StepOver ==
  ASSUME NEW p, IsPacket(p), NEW n \in Nat, NEW v, NEW tm, NEW t, Over(p, 8 * n, state)
  PROVE  Position(p, 8 * n + 8, StateAfter(v, t), BufferAfter(v), TimesAfter(n, tm, t))
<1>1. state.phase = "Drop"
  BY DEF Over
<1>2. /\ ~Is("Length_low") /\ ~Is("Length") /\ ~Counting /\ ~HighHere(v) /\ ~LowHere(v)
      /\ ~Start(v) /\ ~PrefixEnds
  BY <1>1 DEF Is, Counting, HighHere, LowHere, Start, Boundary, PrefixEnds
<1>3. StateAfter(v, t).phase = "Drop"
  BY <1>1, <1>2 DEF StateAfter, PhaseAfter
<1>4. ASSUME NEW f \in Framed(p) PROVE EndOf(p, f) <= 8 * n + 8
  <2>1. EndOf(p, f) <= 8 * n
    BY DEF Over
  <2>2. EndOf(p, f) \in Nat
    <3>1. f \in 1 .. Blocks(p) /\ f \in 1 .. Blocks(p) + 1 /\ EndOf(p, f) = Finish(p, f)
      BY FramedFacts DEF IsPacket, Blocks
    <3> QED
      BY <3>1, Laid
  <2> QED
    BY <2>1, <2>2
<1> QED
  BY <1>3, <1>4 DEF Position, Over

LEMMA StepHeader ==
  ASSUME NEW p, IsPacket(p), NEW n \in Nat, NEW v, Whole(p, n, v), NEW tm, NEW t,
         InHeader(8 * n, state), 8 * n + 8 < p.size
  PROVE  Position(p, 8 * n + 8, StateAfter(v, t), BufferAfter(v), TimesAfter(n, tm, t))
<1>1. state.phase = "Header" /\ 8 * n < 20 /\ state.skip = 20 - 8 * n /\ state.skip \in Int
  BY DEF InHeader
<1>2. Is("Header") /\ Counting /\ ~Is("Length_low") /\ ~Is("Length")
  BY <1>1 DEF Is, Counting
<1>3. CASE n # 2
  <2>1. state.skip > 8 /\ ~(state.skip <= 8) /\ ~(state.skip < 8) /\ 8 * n + 8 < 20
    BY <1>1, <1>3
  <2>2. ~PrefixEnds /\ ~Boundary
    BY <2>1 DEF PrefixEnds, Boundary
  <2>3. ~HighHere(v) /\ ~LowHere(v) /\ ~Start(v)
    BY <1>2, <2>2 DEF HighHere, LowHere, Start
  <2>4. StateAfter(v, t).phase = "Header" /\ StateAfter(v, t).skip = state.skip - 8
    BY <1>1, <1>2, <2>2, <2>3 DEF StateAfter, PhaseAfter, SkipAfter
  <2>5. state.skip - 8 = 20 - (8 * n + 8)
    BY <1>1
  <2> QED
    BY <2>1, <2>4, <2>5 DEF Position, InHeader
<1>4. CASE n = 2
  <2>1. state.skip = 4 /\ 4 % 8 = 4 /\ (4 - 2) % 8 = 2 /\ (4 - 1) % 8 = 3
    BY <1>1, <1>4
  <2>2. PrefixEnds /\ Boundary /\ K = 4
    BY <1>2, <2>1 DEF PrefixEnds, Boundary, K
  <2>3. /\ v.lanes[2].value = p.count \div 256 /\ v.lanes[3].value = p.count % 256
    <3>1. v.lanes[2] = ByteOf(p, 8 * n + 2) /\ v.lanes[3] = ByteOf(p, 8 * n + 3)
      BY DEF Whole
    <3>2. 8 * n + 2 = 18 /\ 8 * n + 3 = 19
      BY <1>4
    <3> QED
      BY <3>1, <3>2, HeaderBytesAre
  <2>4. p.count \in Nat
    BY WordNat DEF IsPacket
  <2>5. HeaderCount(v) = IF p.count = 65535 THEN 0 ELSE p.count
    <3>1. state.skip # 1
      BY <2>1
    <3>2. HeaderCount(v) = LET count == v.lanes[2].value * 256 + v.lanes[3].value
                           IN IF count = 65535 THEN 0 ELSE count
      BY <2>1, <2>2, <3>1 DEF HeaderCount
    <3>3. v.lanes[2].value * 256 + v.lanes[3].value = p.count
      BY <2>3, <2>4, Rejoined
    <3> QED
      BY <3>2, <3>3
  <2>6. CountAfter(v) = Count(p)
    <3>1. ~(p.size < 20)
      BY <1>4, WordNat DEF IsPacket
    <3> QED
      BY <1>2, <2>5, <3>1 DEF CountAfter, Count
  <2>7. Count(p) \in Nat /\ Blocks(p) \in Nat
    BY CountIs DEF IsPacket, Blocks
  <2>8. CASE Count(p) = 0
    <3>1. ~HighHere(v) /\ ~LowHere(v) /\ ~Start(v)
      BY <1>2, <2>6, <2>8 DEF HighHere, LowHere, Start
    <3>2. StateAfter(v, t).phase = "Drop"
      BY <2>2, <2>6, <2>8, <3>1 DEF StateAfter, PhaseAfter
    <3>3. \A f \in Framed(p) : EndOf(p, f) <= 8 * n + 8
      <4>1. 0 \in 0 .. Blocks(p) /\ 8 * n + 8 \in Nat
        BY <2>7
      <4> QED
        BY <4>1, <2>8, NoneFollows
    <3> QED
      BY <3>2, <3>3 DEF Position, Over
  <2>9. CASE Count(p) # 0
    <3>1. HighHere(v) /\ HighLane = 4
      BY <1>2, <2>2, <2>6, <2>9 DEF HighHere, HighLane
    <3>2. 1 \in 1 .. Blocks(p) + 1 /\ 1 <= Count(p) /\ Count(p) = Count(p) - 1 + 1 /\ 4 \in 0 .. 7
      BY <2>7, <2>9
    <3>3. Reading(p, 1)
      BY <3>2 DEF Reading
    <3>4. 8 * n + 4 + 2 = StartOf(p, 1)
      BY <1>4, Laid
    <3> QED
      BY <1>1, <1>2, <2>6, <3>1, <3>2, <3>3, <3>4, FieldBegins
  <2> QED
    BY <2>8, <2>9
<1> QED
  BY <1>3, <1>4

\* The facts of a body as numbers.
LEMMA BodyFacts ==
  ASSUME NEW p, IsPacket(p), NEW pos \in Nat, NEW b \in 1 .. Blocks(p) + 1,
         NEW buf, NEW tm, InBody(p, b, pos, state, buf, tm)
  PROVE  /\ state.phase = "Body" /\ StartOf(p, b) \in Nat /\ LengthOf(p, b) \in Nat /\ LengthOf(p, b) >= 12
         /\ LengthOf(p, b) < Word /\ Finish(p, b) = StartOf(p, b) + LengthOf(p, b)
         /\ StartOf(p, b) <= pos /\ pos < Finish(p, b)
         /\ state.skip = Finish(p, b) - pos /\ state.skip \in Nat /\ state.skip > 0
         /\ state.length = LengthOf(p, b) /\ Base = pos - StartOf(p, b) /\ Base \in Nat /\ Base < Word
         /\ Is("Body") /\ Counting /\ ~Is("Header") /\ ~Is("Length") /\ ~Is("Length_low")
<1>1. /\ StartOf(p, b) \in Nat /\ LengthOf(p, b) \in Nat /\ LengthOf(p, b) < Word
      /\ Finish(p, b) = StartOf(p, b) + LengthOf(p, b)
  <2>1. LengthOf(p, b) \in 0 .. Word - 1
    BY Laid
  <2>2. LengthOf(p, b) \in Nat /\ LengthOf(p, b) < Word
    BY <2>1, WordNat
  <2> QED
    BY <2>2, Laid
<1>2. /\ state.phase = "Body" /\ LengthOf(p, b) >= 12
      /\ StartOf(p, b) <= pos /\ pos < Finish(p, b)
      /\ state.skip = Finish(p, b) - pos /\ state.length = LengthOf(p, b)
  BY DEF InBody, MinLength
<1>3. state.skip \in Nat /\ state.skip > 0
  BY <1>1, <1>2
<1>4. state.length - state.skip = pos - StartOf(p, b) /\ pos - StartOf(p, b) \in Int
      /\ 0 <= pos - StartOf(p, b) /\ pos - StartOf(p, b) < Word
  BY <1>1, <1>2, WordNat
<1>5. Base = pos - StartOf(p, b)
  BY <1>4, SmallMod DEF Base
<1>6. Is("Body") /\ Counting /\ ~Is("Header") /\ ~Is("Length") /\ ~Is("Length_low")
  BY <1>2 DEF Is, Counting
<1> QED
  BY <1>1, <1>2, <1>3, <1>4, <1>5, <1>6

\* The message so far has the block's own bytes, those of this beat included.
LEMMA SoFar ==
  ASSUME NEW p, IsPacket(p), NEW n \in Nat, NEW v, v.keep \in Int,
         \A i \in 0 .. 7 : v.lanes[i] = ByteOf(p, 8 * n + i),
         NEW b \in 1 .. Blocks(p), NEW tm, InBody(p, b, 8 * n, state, buffer, tm),
         NEW j \in 0 .. MessageBytes - 1, j < LengthOf(p, b),
         StartOf(p, b) + j < 8 * n + 8, StartOf(p, b) + j < 8 * n + v.keep
  PROVE  MessageSoFar(v)[j].of = <<p.blocks[b], j>>
<1> DEFINE offset == (j - Base) % Word
<1>1. b \in 1 .. Blocks(p) + 1 /\ Blocks(p) \in Nat /\ 8 * n \in Nat /\ j \in Nat
  <2>1. Blocks(p) \in Nat
    BY DEF IsPacket, Blocks
  <2>2. j \in Nat
    BY DEF MessageBytes
  <2>3. 8 * n \in Nat
    OBVIOUS
  <2> QED
    BY <2>1, <2>2, <2>3
<1>2. /\ StartOf(p, b) \in Nat /\ LengthOf(p, b) \in Nat /\ LengthOf(p, b) < Word
      /\ Finish(p, b) = StartOf(p, b) + LengthOf(p, b)
      /\ StartOf(p, b) <= 8 * n /\ state.skip = Finish(p, b) - 8 * n /\ state.skip \in Nat
      /\ Base = 8 * n - StartOf(p, b) /\ Base \in Nat /\ Base < Word /\ Is("Body")
  BY <1>1, BodyFacts
<1>3. MessageSoFar(v)[j] =
        IF Is("Body") /\ offset < 8 /\ offset < state.skip /\ offset < v.keep
          THEN v.lanes[offset] ELSE buffer[j]
  BY Zenon DEF MessageSoFar
<1>4. CASE j < Base
  <2>1. j - Base \in Int /\ -Word <= j - Base /\ j - Base < 0
    BY <1>1, <1>2, <1>4, WordNat
  <2>2. offset = j - Base + Word
    BY <2>1, SmallMod
  <2>3. ~(offset < state.skip)
    <3> HIDE DEF offset
    <3> QED
      BY <1>1, <1>2, <2>2, WordNat
  <2>4. buffer[j].of = <<p.blocks[b], j>>
    <3>1. Filled(p, b, 8 * n, buffer) /\ b <= Blocks(p) /\ j < 8 * n - StartOf(p, b)
      BY <1>1, <1>2, <1>4 DEF InBody
    <3> QED
      BY <3>1 DEF Filled
  <2> QED
    BY <1>3, <2>3, <2>4
<1>5. CASE Base <= j
  <2>1. j - Base \in Int /\ 0 <= j - Base /\ j - Base < Word
    BY <1>1, <1>2, <1>5, WordNat
  <2>2. offset = j - Base
    BY <2>1, SmallMod
  <2>3. offset \in 0 .. 7 /\ offset < 8 /\ offset < state.skip /\ offset < v.keep
        /\ 8 * n + offset = StartOf(p, b) + j
    <3> HIDE DEF offset
    <3> QED
      BY <1>1, <1>2, <1>5, <2>2
  <2>4. MessageSoFar(v)[j] = ByteOf(p, StartOf(p, b) + j)
    <3>1. MessageSoFar(v)[j] = v.lanes[offset]
      BY <1>2, <1>3, <2>3
    <3> QED
      BY <3>1, <2>3
  <2>5. ASSUME NEW i \in Int, i = StartOf(p, b) + j PROVE ByteOf(p, i).of = <<p.blocks[b], j>>
    <3>1. StartOf(p, b) <= i /\ i < Finish(p, b) /\ i - StartOf(p, b) = j
      BY <1>1, <1>2, <2>5
    <3>2. ByteOf(p, i).of = <<p.blocks[b], i - StartOf(p, b)>>
      BY <3>1, BodyBytes
    <3> QED
      BY <3>1, <3>2
  <2>6. StartOf(p, b) + j \in Int
    BY <1>1, <1>2
  <2> QED
    BY <2>4, <2>5, <2>6
<1> QED
  BY <1>1, <1>2, <1>4, <1>5

\* The body goes on beyond this beat.
LEMMA StepBody ==
  ASSUME NEW p, IsPacket(p), NEW n \in Nat, NEW v, Whole(p, n, v), NEW tm, NEW t,
         NEW b \in 1 .. Blocks(p) + 1, Reading(p, b),
         InBody(p, b, 8 * n, state, buffer, tm), state.skip > 8
  PROVE  Position(p, 8 * n + 8, StateAfter(v, t), BufferAfter(v), TimesAfter(n, tm, t))
<1> DEFINE s == StateAfter(v, t)
           pos == 8 * n + 8
<1>1. Blocks(p) \in Nat /\ 8 * n \in Nat
  BY DEF IsPacket, Blocks
<1>2. /\ state.phase = "Body" /\ StartOf(p, b) \in Nat /\ LengthOf(p, b) \in Nat /\ LengthOf(p, b) >= 12
      /\ Finish(p, b) = StartOf(p, b) + LengthOf(p, b)
      /\ StartOf(p, b) <= 8 * n
      /\ state.skip = Finish(p, b) - 8 * n /\ state.skip \in Nat
      /\ state.length = LengthOf(p, b) /\ Base = 8 * n - StartOf(p, b)
      /\ Is("Body") /\ Counting /\ ~Is("Header") /\ ~Is("Length") /\ ~Is("Length_low")
  BY <1>1, BodyFacts
<1>3. ~PrefixEnds /\ ~Boundary
  BY <1>2 DEF PrefixEnds, Boundary
<1>4. ~HighHere(v) /\ ~LowHere(v) /\ ~Start(v) /\ ~BodyStarts(v)
  BY <1>2, <1>3 DEF HighHere, LowHere, Start, BodyStarts
<1>5. s.phase = "Body" /\ s.skip = state.skip - 8 /\ s.length = state.length
  BY <1>2, <1>3, <1>4 DEF StateAfter, PhaseAfter, SkipAfter
<1>6. s.count = Count(p) - b
  BY <1>2, <1>4 DEF StateAfter, CountNext, InBody
<1>7. StartOf(p, b) <= pos /\ pos < Finish(p, b) /\ s.skip = Finish(p, b) - pos
  BY <1>2, <1>5
<1>8. Begun(p, b, pos, s, TimesAfter(n, tm, t))
  <2>1. s.first = IF Base = 0 THEN t ELSE state.first
    BY <1>2, <1>4 DEF StateAfter, FirstAfter
  <2>2. CASE Base = 0
    <3>1. StartOf(p, b) = 8 * n /\ StartOf(p, b) \in Int
      BY <1>2, <2>2
    <3>2. StartOf(p, b) \div 8 = n
      BY <3>1
    <3> QED
      BY <2>1, <2>2, <3>2 DEF Begun, TimesAfter
  <2>3. CASE Base # 0
    <3>1. StartOf(p, b) \div 8 \in 0 .. n /\ StartOf(p, b) \div 8 # n /\ StartOf(p, b) < 8 * n
      BY <1>2, <2>3
    <3>2. Begun(p, b, 8 * n, state, tm)
      BY DEF InBody
    <3>3. state.first = tm[StartOf(p, b) \div 8]
      BY <3>1, <3>2 DEF Begun
    <3> QED
      BY <2>1, <2>3, <3>1, <3>3 DEF Begun, TimesAfter
  <2> QED
    BY <2>2, <2>3
<1>9. Filled(p, b, pos, BufferAfter(v))
  <2>1. SUFFICES ASSUME b <= Blocks(p), NEW j \in 0 .. MessageBytes - 1, j < pos - StartOf(p, b)
                 PROVE  BufferAfter(v)[j].of = <<p.blocks[b], j>>
    BY DEF Filled
  <2>2. BufferAfter(v)[j] = MessageSoFar(v)[j]
    BY <1>4 DEF BufferAfter
  <2>3. /\ b \in 1 .. Blocks(p) /\ j \in Nat /\ v.keep = 8 /\ v.keep \in Int
        /\ \A i \in 0 .. 7 : v.lanes[i] = ByteOf(p, 8 * n + i)
    BY <2>1, <1>1 DEF Whole, MessageBytes
  <2>4. j < LengthOf(p, b) /\ StartOf(p, b) + j < 8 * n + 8 /\ StartOf(p, b) + j < 8 * n + v.keep
    BY <2>1, <2>3, <1>2
  <2> QED
    BY <2>2, <2>3, <2>4, SoFar
<1>10. InBody(p, b, pos, s, BufferAfter(v), TimesAfter(n, tm, t))
  BY <1>2, <1>5, <1>6, <1>7, <1>8, <1>9 DEF InBody, MinLength
<1> QED
  BY <1>10 DEF Position

\* The body ends in this beat and the packet does not.
LEMMA StepEnd ==
  ASSUME NEW p, IsPacket(p), NEW n \in Nat, NEW v, Whole(p, n, v), NEW tm, NEW t, 8 * n + 8 < p.size,
         NEW b \in 1 .. Blocks(p) + 1, Reading(p, b),
         InBody(p, b, 8 * n, state, buffer, tm), state.skip <= 8
  PROVE  Position(p, 8 * n + 8, StateAfter(v, t), BufferAfter(v), TimesAfter(n, tm, t))
<1> DEFINE s == StateAfter(v, t)
           pos == 8 * n + 8
<1>1. Blocks(p) \in Nat /\ 8 * n \in Nat /\ Count(p) \in Nat /\ p.size \in Nat /\ p.size < Word
      /\ b \in Nat /\ b <= Count(p)
  BY CountIs, WordNat DEF IsPacket, Blocks, Reading
<1>2. /\ state.phase = "Body" /\ StartOf(p, b) \in Nat /\ LengthOf(p, b) \in Nat /\ LengthOf(p, b) >= 12
      /\ Finish(p, b) = StartOf(p, b) + LengthOf(p, b)
      /\ state.skip = Finish(p, b) - 8 * n /\ state.skip \in Nat /\ state.skip > 0
      /\ Is("Body") /\ Counting /\ ~Is("Header") /\ ~Is("Length") /\ ~Is("Length_low")
  BY <1>1, BodyFacts
<1>3. PrefixEnds
  BY <1>2 DEF PrefixEnds
<1>4. CountAfter(v) = Count(p) - b /\ state.count = Count(p) - b
  BY <1>2 DEF CountAfter, InBody
<1>5. b \in 1 .. Blocks(p)
  <2>1. SUFFICES ASSUME b \notin 1 .. Blocks(p) PROVE FALSE
    OBVIOUS
  <2>2. LengthOf(p, b) = Word - 1
    BY <2>1 DEF LengthOf
  <2>3. StartOf(p, b) >= 22
    BY Laid
  <2> QED
    BY <1>1, <1>2, <2>2, <2>3, WordNat
<1>6. CASE Count(p) = b
  <2>1. CountAfter(v) = 0
    BY <1>1, <1>4, <1>6
  <2>2. ~HighHere(v) /\ ~LowHere(v) /\ ~Start(v)
    BY <1>2, <2>1 DEF HighHere, LowHere, Start
  <2>3. s.phase = "Drop"
    BY <1>3, <2>1, <2>2 DEF StateAfter, PhaseAfter
  <2>4. \A f \in Framed(p) : EndOf(p, f) <= pos
    <3>1. b \in 0 .. Blocks(p) /\ pos \in Nat /\ Finish(p, b) <= pos
      BY <1>1, <1>2, <1>5
    <3> QED
      BY <3>1, <1>6, NoneFollows
  <2> QED
    BY <2>3, <2>4 DEF Position, Over
<1>7. CASE Count(p) # b
  <2>1. /\ b + 1 \in 1 .. Blocks(p) + 1 /\ b + 1 <= Count(p) /\ CountAfter(v) # 0
        /\ CountAfter(v) = Count(p) - (b + 1) + 1
    BY <1>1, <1>4, <1>5, <1>7
  <2>2. Reading(p, b + 1)
    <3>1. ASSUME NEW c \in 1 .. (b + 1) - 1 PROVE LengthOf(p, c) >= MinLength
      <4>1. c \in 1 .. b - 1 \/ c = b
        BY <1>1
      <4>2. LengthOf(p, b) >= MinLength
        BY DEF InBody
      <4> QED
        BY <4>1, <4>2 DEF Reading
    <3> QED
      BY <2>1, <3>1 DEF Reading
  <2>3. StartOf(p, b + 1) = Finish(p, b) + 2
    BY <1>5, Laid
  <2>4. CASE state.skip < 8
    <3>1. Boundary /\ K = state.skip
      BY <1>2, <2>4, SmallMod DEF Boundary, K
    <3>2. HighHere(v) /\ HighLane = state.skip
      BY <1>2, <2>1, <3>1 DEF HighHere, HighLane
    <3>3. state.skip \in 0 .. 7 /\ state.skip \in Int /\ 8 * n + state.skip + 2 = StartOf(p, b + 1)
      BY <1>1, <1>2, <2>3, <2>4
    <3> QED
      BY <1>2, <2>1, <2>2, <3>2, <3>3, FieldBegins
  <2>5. CASE state.skip = 8
    <3>1. ~Boundary
      BY <2>5 DEF Boundary
    <3>2. ~HighHere(v) /\ ~LowHere(v) /\ ~Start(v)
      BY <1>2, <3>1 DEF HighHere, LowHere, Start
    <3>3. s.phase = "Length"
      BY <1>3, <2>1, <3>1, <3>2 DEF StateAfter, PhaseAfter
    <3>4. s.count = Count(p) - (b + 1) + 1
      <4>1. s.count = state.count
        BY <1>2, <3>2 DEF StateAfter, CountNext
      <4> QED
        BY <4>1, <1>4, <2>1
    <3>5. pos + 2 = StartOf(p, b + 1)
      BY <1>1, <1>2, <2>3, <2>5
    <3>6. AtLength(p, b + 1, pos, s)
      BY <3>3, <3>4, <3>5 DEF AtLength
    <3> QED
      BY <2>1, <2>2, <3>6 DEF Position
  <2> QED
    BY <1>2, <2>4, <2>5
<1> QED
  BY <1>6, <1>7

\* A beat of a packet that goes on takes the framer on by eight bytes.
LEMMA StepPosition ==
  ASSUME NEW p, IsPacket(p), NEW n \in Nat, NEW v, Whole(p, n, v), NEW tm, NEW t, 8 * n + 8 < p.size,
         state.skip \in Int, Position(p, 8 * n, state, buffer, tm)
  PROVE  Position(p, 8 * n + 8, StateAfter(v, t), BufferAfter(v), TimesAfter(n, tm, t))
<1>1. CASE InHeader(8 * n, state)
  BY <1>1, StepHeader
<1>2. CASE Over(p, 8 * n, state)
  BY <1>2, StepOver
<1>3. ASSUME NEW b \in 1 .. Blocks(p) + 1, Reading(p, b), AtLength(p, b, 8 * n, state)
      PROVE  Position(p, 8 * n + 8, StateAfter(v, t), BufferAfter(v), TimesAfter(n, tm, t))
  BY <1>3, StepLength
<1>4. ASSUME NEW b \in 1 .. Blocks(p) + 1, Reading(p, b), AtLow(p, b, 8 * n, state)
      PROVE  Position(p, 8 * n + 8, StateAfter(v, t), BufferAfter(v), TimesAfter(n, tm, t))
  BY <1>4, StepLow
<1>5. ASSUME NEW b \in 1 .. Blocks(p) + 1, Reading(p, b), InBody(p, b, 8 * n, state, buffer, tm)
      PROVE  Position(p, 8 * n + 8, StateAfter(v, t), BufferAfter(v), TimesAfter(n, tm, t))
  <2>1. CASE state.skip > 8
    BY <1>5, <2>1, StepBody
  <2>2. CASE state.skip <= 8
    BY <1>5, <2>2, StepEnd
  <2> QED
    BY <2>1, <2>2
<1> QED
  BY <1>1, <1>2, <1>3, <1>4, <1>5 DEF Position

-----------------------------------------------------------------------------
(* The message of a beat is the framed block that ends in it.              *)

\* The blocks that end in a beat, by their last byte.
LEMMA EndingIs ==
  ASSUME NEW p, IsPacket(p), NEW n \in Nat, NEW f
  PROVE  f \in EndingIn(p, n) <=> /\ f \in Framed(p)
                                  /\ 8 * n < Finish(p, f) /\ Finish(p, f) <= 8 * n + 8
<1>1. ASSUME f \in Framed(p)
      PROVE  (EndOf(p, f) - 1) \div 8 = n <=> 8 * n < Finish(p, f) /\ Finish(p, f) <= 8 * n + 8
  <2>1. EndOf(p, f) = Finish(p, f) /\ f \in 1 .. Blocks(p) + 1
    BY <1>1, FramedFacts DEF IsPacket, Blocks
  <2>2. Finish(p, f) \in Nat
    BY <2>1, Laid
  <2>3. ASSUME NEW e \in Nat
        PROVE  (e - 1) \div 8 = n <=> 8 * n < e /\ e <= 8 * n + 8
    BY <2>3
  <2> QED
    BY <2>1, <2>2, <2>3
<1> QED
  BY <1>1 DEF EndingIn

\* What is framed is over before block b is read, or ends no sooner than b.
LEMMA AroundBlock ==
  ASSUME NEW p, IsPacket(p), NEW b \in 1 .. Blocks(p) + 1, NEW f \in Framed(p)
  PROVE  /\ StartOf(p, b) \in Nat /\ Finish(p, b) \in Nat /\ Finish(p, f) \in Nat
         /\ \/ Finish(p, f) + 2 <= StartOf(p, b)
            \/ /\ f >= b /\ StartOf(p, b) + 12 <= Finish(p, b) /\ Finish(p, b) <= Finish(p, f)
               /\ Finish(p, b) <= p.size
               /\ f = b \/ Finish(p, b) + 14 <= Finish(p, f)
<1>1. /\ f \in 1 .. Blocks(p) /\ f \in 1 .. Blocks(p) + 1 /\ Blocks(p) \in Nat
  BY FramedFacts DEF IsPacket, Blocks
<1>2. ASSUME NEW c \in 1 .. Blocks(p) + 1
      PROVE  /\ StartOf(p, c) \in Nat /\ Finish(p, c) \in Nat /\ LengthOf(p, c) \in Nat
             /\ Finish(p, c) = StartOf(p, c) + LengthOf(p, c)
  BY Laid, WordNat
<1>3. CASE f < b
  <2>1. Finish(p, f) + 2 <= StartOf(p, b)
    BY <1>3, Ahead
  <2> QED
    BY <1>1, <1>2, <2>1
<1>4. CASE f >= b
  <2>1. LengthOf(p, b) >= 12 /\ Finish(p, b) <= p.size /\ Finish(p, b) <= Finish(p, f)
    BY <1>4, Ahead DEF MinLength
  <2>2. f = b \/ Finish(p, b) + 14 <= Finish(p, f)
    <3>1. SUFFICES ASSUME f # b PROVE Finish(p, b) + 14 <= Finish(p, f)
      OBVIOUS
    <3>2. b < f
      BY <3>1, <1>1, <1>4
    <3>3. Finish(p, b) + 2 <= StartOf(p, f)
      BY <3>2, <1>1, Apart
    <3>4. LengthOf(p, f) >= 12
      <4>1. f \in 1 .. f
        BY <1>1
      <4> QED
        BY <4>1, FramedFacts DEF MinLength
    <3> QED
      BY <3>3, <3>4, <1>1, <1>2
  <2> QED
    BY <1>1, <1>2, <1>4, <2>1, <2>2
<1> QED
  BY <1>1, <1>3, <1>4

\* The message that leaves the framer in beat n is block b.
Answers(p, b, n, v, tm) ==
  /\ state.length = p.blocks[b].length /\ state.length \in Nat /\ state.length >= 12
  /\ state.first = tm[StartOf(p, b) \div 8] /\ StartOf(p, b) \div 8 # n
  /\ \A j \in 0 .. MessageBytes - 1 :
       j < state.length => MessageSoFar(v)[j].of = <<p.blocks[b], j>>

Cut(p, n, v) ==
  /\ v.keep = IF p.size - 8 * n < 8 THEN p.size - 8 * n ELSE 8
  /\ \A i \in 0 .. 7 : v.lanes[i] = ByteOf(p, 8 * n + i)

\* Where no body ends in the beat, neither does anything framed.
LEMMA QuietBeat ==
  ASSUME NEW p, IsPacket(p), NEW n \in Nat, NEW v, state.skip \in Int, NEW tm,
         Position(p, 8 * n, state, buffer, tm), ~(state.phase = "Body" /\ state.skip <= 8)
  PROVE  ~Complete(v) /\ EndingIn(p, n) = {}
<1>1. ~Complete(v)
  BY DEF Complete, Is, PrefixEnds
<1>2. ASSUME NEW f \in EndingIn(p, n) PROVE FALSE
  <2>1. f \in Framed(p) /\ 8 * n < Finish(p, f) /\ Finish(p, f) <= 8 * n + 8
    BY EndingIs
  <2>2. CASE InHeader(8 * n, state)
    <3>1. f \in 1 .. Blocks(p) /\ f \in 1 .. f /\ f \in 1 .. Blocks(p) + 1
      BY <2>1, FramedFacts DEF IsPacket, Blocks
    <3>2. LengthOf(p, f) >= 12
      BY <2>1, <3>1, FramedFacts DEF MinLength
    <3>3. /\ StartOf(p, f) \in Nat /\ StartOf(p, f) >= 22 /\ LengthOf(p, f) \in Nat
          /\ Finish(p, f) = StartOf(p, f) + LengthOf(p, f)
      BY <3>1, Laid, WordNat
    <3>4. 8 * n < 20
      BY <2>2 DEF InHeader
    <3> QED
      BY <2>1, <3>2, <3>3, <3>4
  <2>3. CASE Over(p, 8 * n, state)
    <3>1. EndOf(p, f) <= 8 * n /\ EndOf(p, f) = Finish(p, f)
      BY <2>1, <2>3, FramedFacts DEF Over
    <3>2. Finish(p, f) \in Nat
      <4>1. f \in 1 .. Blocks(p) + 1
        BY <2>1, FramedFacts DEF IsPacket, Blocks
      <4> QED
        BY <4>1, Laid
    <3> QED
      BY <2>1, <3>1, <3>2
  <2>4. ASSUME NEW b \in 1 .. Blocks(p) + 1, AtLength(p, b, 8 * n, state) PROVE FALSE
    <3>1. 8 * n + 2 = StartOf(p, b)
      BY <2>4 DEF AtLength
    <3> QED
      BY <2>1, <3>1, AroundBlock
  <2>5. ASSUME NEW b \in 1 .. Blocks(p) + 1, AtLow(p, b, 8 * n, state) PROVE FALSE
    <3>1. 8 * n + 1 = StartOf(p, b)
      BY <2>5 DEF AtLow
    <3> QED
      BY <2>1, <3>1, AroundBlock
  <2>6. ASSUME NEW b \in 1 .. Blocks(p) + 1, InBody(p, b, 8 * n, state, buffer, tm) PROVE FALSE
    <3>1. 8 * n \in Nat
      OBVIOUS
    <3>2. state.phase = "Body" /\ StartOf(p, b) <= 8 * n /\ state.skip = Finish(p, b) - 8 * n
      BY <2>6 DEF InBody
    <3>3. state.skip > 8
      BY <3>2
    <3> QED
      BY <2>1, <3>1, <3>2, <3>3, AroundBlock
  <2> QED
    BY <2>2, <2>3, <2>4, <2>5, <2>6 DEF Position
<1> QED
  BY <1>1, <1>2

\* The block under way leaves in the beat of its last byte, if it has that.
LEMMA Emits ==
  ASSUME NEW p, IsPacket(p), NEW n \in Nat, 8 * n < p.size, NEW v, Cut(p, n, v), NEW tm,
         NEW b \in 1 .. Blocks(p) + 1, Reading(p, b),
         InBody(p, b, 8 * n, state, buffer, tm), state.skip <= 8
  PROVE  \/ ~Complete(v) /\ EndingIn(p, n) = {}
         \/ /\ Complete(v) /\ EndingIn(p, n) = {b}
            /\ b \in 1 .. Blocks(p) /\ Answers(p, b, n, v, tm)
<1>1. Blocks(p) \in Nat /\ 8 * n \in Nat /\ p.size \in Nat /\ p.size < Word
  BY WordNat DEF IsPacket, Blocks
<1>2. /\ state.phase = "Body" /\ StartOf(p, b) \in Nat /\ LengthOf(p, b) \in Nat /\ LengthOf(p, b) >= 12
      /\ Finish(p, b) = StartOf(p, b) + LengthOf(p, b)
      /\ StartOf(p, b) <= 8 * n
      /\ state.skip = Finish(p, b) - 8 * n /\ state.skip \in Nat /\ state.skip > 0
      /\ state.length = LengthOf(p, b) /\ Is("Body") /\ Counting
  BY <1>1, BodyFacts
<1>3. v.keep \in Int /\ (state.skip - 1 < v.keep <=> Finish(p, b) <= p.size)
      /\ (Finish(p, b) <= p.size => Finish(p, b) <= 8 * n + v.keep)
  <2>1. v.keep = IF p.size - 8 * n < 8 THEN p.size - 8 * n ELSE 8
    BY DEF Cut
  <2> QED
    BY <1>1, <1>2, <2>1
<1>4. Complete(v) <=> Finish(p, b) <= p.size
  <2>1. (state.skip - 1) % 8 = state.skip - 1
    <3>1. state.skip - 1 \in Int /\ 0 <= state.skip - 1 /\ state.skip - 1 < 8
      BY <1>2
    <3> QED
      BY <3>1, SmallMod
  <2>2. PrefixEnds
    BY <1>2 DEF PrefixEnds
  <2> QED
    BY <1>2, <1>3, <2>1, <2>2 DEF Complete
<1>5. ASSUME NEW f \in EndingIn(p, n) PROVE f = b /\ Finish(p, b) <= p.size
  <2>1. f \in Framed(p) /\ 8 * n < Finish(p, f) /\ Finish(p, f) <= 8 * n + 8
    BY EndingIs
  <2> QED
    BY <1>1, <1>2, <2>1, AroundBlock
<1>6. CASE ~(Finish(p, b) <= p.size)
  BY <1>4, <1>5, <1>6
<1>7. CASE Finish(p, b) <= p.size
  <2>1. b \in 1 .. Blocks(p)
    <3>1. SUFFICES ASSUME b \notin 1 .. Blocks(p) PROVE FALSE
      OBVIOUS
    <3>2. LengthOf(p, b) = Word - 1
      BY <3>1 DEF LengthOf
    <3>3. StartOf(p, b) >= 22
      BY Laid
    <3> QED
      BY <1>1, <1>2, <1>7, <3>2, <3>3, WordNat
  <2>2. b \in Framed(p)
    BY <1>2, <1>7, <2>1, FramedFrom DEF MinLength
  <2>3. b \in EndingIn(p, n)
    <3>1. 8 * n < Finish(p, b) /\ Finish(p, b) <= 8 * n + 8
      BY <1>1, <1>2
    <3> QED
      BY <2>2, <3>1, EndingIs
  <2>4. EndingIn(p, n) = {b}
    BY <1>5, <2>3
  <2>5. StartOf(p, b) < 8 * n
    BY <1>1, <1>2
  <2>6. state.first = tm[StartOf(p, b) \div 8]
    <3>1. Begun(p, b, 8 * n, state, tm)
      BY DEF InBody
    <3> QED
      BY <2>5, <3>1 DEF Begun
  <2>7. StartOf(p, b) \div 8 # n
    BY <1>2, <2>5
  <2>8. state.length = p.blocks[b].length
    BY <1>2, <2>1 DEF LengthOf
  <2>9. ASSUME NEW j \in 0 .. MessageBytes - 1, j < state.length
        PROVE  MessageSoFar(v)[j].of = <<p.blocks[b], j>>
    <3>1. j \in Nat
      BY DEF MessageBytes
    <3>2. /\ j < LengthOf(p, b) /\ StartOf(p, b) + j < 8 * n + 8
          /\ StartOf(p, b) + j < 8 * n + v.keep
      BY <1>1, <1>2, <1>3, <1>7, <2>9, <3>1
    <3> QED
      BY <1>3, <2>1, <3>2, SoFar DEF Cut
  <2>10. Answers(p, b, n, v, tm)
    BY <1>2, <2>6, <2>7, <2>8, <2>9 DEF Answers
  <2> QED
    BY <1>4, <1>7, <2>1, <2>4, <2>10
<1> QED
  BY <1>6, <1>7

\* In each beat nothing is framed or exactly one block, the framer's message.
LEMMA BeatEmits ==
  ASSUME NEW p, IsPacket(p), NEW n \in Nat, 8 * n < p.size, NEW v, Cut(p, n, v), NEW tm,
         state.skip \in Int, Position(p, 8 * n, state, buffer, tm)
  PROVE  \/ ~Complete(v) /\ EndingIn(p, n) = {}
         \/ \E b \in 1 .. Blocks(p) :
              Complete(v) /\ EndingIn(p, n) = {b} /\ Answers(p, b, n, v, tm)
<1>1. CASE ~(state.phase = "Body" /\ state.skip <= 8)
  BY <1>1, QuietBeat
<1>2. CASE state.phase = "Body" /\ state.skip <= 8
  <2>1. PICK b \in 1 .. Blocks(p) + 1 : Reading(p, b) /\ InBody(p, b, 8 * n, state, buffer, tm)
    BY <1>2 DEF Position, InHeader, Over, AtLength, AtLow
  <2> QED
    BY <1>2, <2>1, Emits
<1> QED
  BY <1>1, <1>2

-----------------------------------------------------------------------------
(* The beats of a packet on the bus. *)

\* A packet of some bytes takes an eighth as many beats, rounded up.
LEMMA BeatsAre ==
  ASSUME NEW p, IsPacket(p), NEW n \in Nat
  PROVE  /\ BeatsOf(p) \in Nat /\ BeatsOf(p) > 0
         /\ n < BeatsOf(p) <=> 8 * n < p.size
<1>1. p.size \in Nat /\ p.size > 0
  BY WordNat DEF IsPacket
<1>2. ASSUME NEW z \in Nat, z > 0
      PROVE  (z + 7) \div 8 \in Nat /\ (z + 7) \div 8 > 0 /\ (n < (z + 7) \div 8 <=> 8 * n < z)
  BY <1>2
<1> QED
  BY <1>1, <1>2 DEF BeatsOf

\* The lanes of a beat are the packet's bytes, and the last beat ends it.
LEMMA BeatIs ==
  ASSUME NEW p, IsPacket(p), NEW n \in Nat, n < BeatsOf(p), NEW v, v = BeatOf(p, n)
  PROVE  /\ Cut(p, n, v) /\ v # <<>> /\ 8 * n < p.size
         /\ v.last <=> n + 1 = BeatsOf(p)
         /\ n + 1 < BeatsOf(p) => ~v.last /\ Whole(p, n, v) /\ 8 * n + 8 < p.size
         /\ \A i \in 0 .. 7 : v.lanes[i].value \in Int
<1>1. /\ v.lanes = [i \in Lanes |-> ByteOf(p, 8 * n + i)]
      /\ v.keep = IF p.size - 8 * n < 8 THEN p.size - 8 * n ELSE 8
      /\ v.last = (n = BeatsOf(p) - 1)
  BY DEF BeatOf
<1>2. Cut(p, n, v)
  BY <1>1 DEF Cut, Lanes
<1>3. v # <<>>
  <2>1. "last" \in DOMAIN v
    BY DEF BeatOf
  <2> QED
    BY <2>1
<1>4. 8 * n < p.size /\ BeatsOf(p) \in Nat /\ p.size \in Nat
  <2>1. p.size \in Nat
    BY WordNat DEF IsPacket
  <2> QED
    BY <2>1, BeatsAre
<1>5. v.last <=> n + 1 = BeatsOf(p)
  <2>1. n = BeatsOf(p) - 1 <=> n + 1 = BeatsOf(p)
    BY <1>4
  <2> QED
    BY <1>1, <2>1, Zenon
<1>6. ASSUME n + 1 < BeatsOf(p) PROVE ~v.last /\ Whole(p, n, v) /\ 8 * n + 8 < p.size
  <2>1. 8 * (n + 1) < p.size
    <3>1. n + 1 \in Nat
      OBVIOUS
    <3> QED
      BY <1>6, <3>1, BeatsAre
  <2>2. 8 * n + 8 < p.size
    BY <2>1, <1>4
  <2>3. v.keep = 8
    BY <2>2, <1>1, <1>4
  <2>4. ~v.last
    BY <1>4, <1>5, <1>6
  <2> QED
    BY <1>2, <2>2, <2>3, <2>4 DEF Whole, Cut
<1>7. ASSUME NEW i \in 0 .. 7 PROVE v.lanes[i].value \in Int
  <2>1. v.lanes[i] = ByteOf(p, 8 * n + i) /\ 8 * n + i \in Int
    BY <1>2 DEF Cut
  <2> QED
    BY <2>1, BytesAreBytes
<1> QED
  BY <1>2, <1>3, <1>4, <1>5, <1>6, <1>7

FramerType ==
  /\ state.skip \in Int /\ state.length \in Int /\ state.high \in Int /\ state.count \in Int

\* After a message the next body has all but six of its bytes before it.
Fresh(s) == s.phase = "Body" => s.skip >= s.length - 6

\* The registers hold numbers, and behind a message the next body is young.
LEMMA FramerNumbers ==
  ASSUME FramerType, NEW v, NEW t, \A i \in 0 .. 7 : v.lanes[i].value \in Int
  PROVE  LET s == StateAfter(v, t)
         IN /\ s.skip \in Int /\ s.length \in Int /\ s.high \in Int /\ s.count \in Int
            /\ Complete(v) => Fresh(s)
<1> DEFINE s == StateAfter(v, t)
<1>1. K \in 0 .. 7 /\ (K - 1) % 8 \in 0 .. 7 /\ (K - 2) % 8 \in 0 .. 7
  <2>1. K \in 0 .. 7
    BY DEF FramerType, K
  <2> QED
    BY <2>1
<1>2. HighLane \in 0 .. 7 /\ LowLane \in 0 .. 8 /\ LowLane % 8 \in 0 .. 7
  <2>1. HighLane \in 0 .. 7
    BY <1>1 DEF HighLane
  <2>2. LowLane \in 0 .. 8
    BY <2>1 DEF LowLane
  <2> QED
    BY <2>1, <2>2
<1>3. Field(v) \in Int
  <2>1. v.lanes[HighLane].value \in Int /\ v.lanes[LowLane % 8].value \in Int /\ state.high \in Int
    BY <1>2 DEF FramerType
  <2>2. Field(v) = IF Is("Length_low") THEN state.high * 256 + v.lanes[LowLane % 8].value
                   ELSE v.lanes[HighLane].value * 256 + v.lanes[LowLane % 8].value
    BY DEF Field
  <2> QED
    BY <2>1, <2>2
<1>4. HeaderCount(v) \in Int
  <2>1. v.lanes[(K - 1) % 8].value \in Int /\ v.lanes[(K - 2) % 8].value \in Int /\ state.high \in Int
    BY <1>1 DEF FramerType
  <2> QED
    BY <2>1 DEF HeaderCount
<1>5. CountAfter(v) \in Int
  BY <1>4 DEF CountAfter, FramerType
<1>6. s.skip \in Int /\ s.length \in Int
  <2>1. state.skip \in Int /\ state.length \in Int /\ LowLane \in Int
    BY <1>2 DEF FramerType
  <2>2. s.skip = SkipAfter(v) /\ s.length = IF Start(v) THEN Field(v) ELSE state.length
    BY DEF StateAfter
  <2>3. SkipAfter(v) \in Int
    BY <1>3, <2>1 DEF SkipAfter
  <2> QED
    BY <1>3, <2>1, <2>2, <2>3
<1>7. s.high \in Int
  <2>1. v.lanes[HighLane].value \in Int /\ v.lanes[(K - 2) % 8].value \in Int /\ state.high \in Int
    BY <1>1, <1>2 DEF FramerType
  <2> QED
    BY <2>1 DEF StateAfter, HighAfter
<1>8. s.count \in Int
  <2>1. s.count = CountNext(v)
    BY DEF StateAfter
  <2>2. CountNext(v) \in {CountAfter(v) - 1, HeaderCount(v), state.count}
    BY DEF CountNext
  <2>3. state.count \in Int
    BY DEF FramerType
  <2> QED
    BY <1>4, <1>5, <2>1, <2>2, <2>3
<1>9. ASSUME Complete(v) PROVE Fresh(s)
  <2>1. Is("Body") /\ PrefixEnds /\ state.phase = "Body" /\ ~Is("Length") /\ ~Is("Length_low")
        /\ ~Is("Header")
    BY <1>9 DEF Complete, Is
  <2>2. s.phase = PhaseAfter(v) /\ s.skip = SkipAfter(v)
        /\ s.length = IF Start(v) THEN Field(v) ELSE state.length
    BY DEF StateAfter
  <2>3. CASE Start(v)
    <3>1. LowLane = K + 1
      BY <2>1 DEF LowLane, HighLane
    <3>2. s.skip = Field(v) + LowLane - 7 /\ s.length = Field(v)
      BY <2>2, <2>3 DEF SkipAfter
    <3>3. Field(v) + LowLane - 7 >= Field(v) - 6
      BY <1>1, <1>3, <3>1
    <3> QED
      BY <3>2, <3>3 DEF Fresh
  <2>4. CASE ~Start(v)
    <3>1. s.phase # "Body"
      <4>1. CASE LowHere(v)
        BY <2>2, <2>4, <4>1 DEF PhaseAfter
      <4>2. CASE ~LowHere(v) /\ HighHere(v)
        BY <2>2, <2>4, <4>2 DEF PhaseAfter
      <4>3. CASE ~LowHere(v) /\ ~HighHere(v) /\ CountAfter(v) = 0
        BY <2>1, <2>2, <2>4, <4>3 DEF PhaseAfter
      <4>4. CASE ~LowHere(v) /\ ~HighHere(v) /\ CountAfter(v) # 0
        <5>1. ~Boundary
          BY <2>1, <4>4 DEF HighHere
        <5> QED
          BY <2>1, <2>2, <2>4, <4>4, <5>1 DEF PhaseAfter
      <4> QED
        BY <4>1, <4>2, <4>3, <4>4
    <3> QED
      BY <3>1 DEF Fresh
  <2> QED
    BY <2>3, <2>4
<1> QED
  BY <1>6, <1>7, <1>8, <1>9

-----------------------------------------------------------------------------
(* A message with a block's own bytes parses as the block does.            *)

\* A message's type tells its layout, whose fields lie within its length.
LEMMA LayoutFacts ==
  /\ \A l \in Layouts :
       /\ l.length \in 19 .. 40
       /\ l.shares = 0 \/ (l.shares \in 19 .. 27 /\ l.shares + 4 <= l.length)
       /\ l.price = 0 \/ (l.price \in 31 .. 32 /\ l.price + 4 <= l.length)
       /\ l.kind # "Delete" => l.length >= 20
       /\ l.kind = "Replace" => l.length >= 27
  /\ \A l \in Layouts, k \in Layouts : l.type = k.type => l = k
BY DEF Layouts, Layout

\* No tracked message is shorter than nineteen bytes.
LEMMA ParseLong ==
  ASSUME NEW m, Parse(m) # NoEvent
  PROVE  m.length \in 19 .. 40
BY LayoutFacts DEF Parse, Matches

Corresponds(x, e) == \A field \in FieldsOf(e.kind) : x[field] = e[field]

\* A message with the bytes of a block becomes the event the block stands for.
LEMMA ParsesAsReference ==
  ASSUME NEW m, NEW block, NEW t1, NEW t2,
         m.length = block.length, m.length \in Int, m.length >= 12,
         m.t_first = t1, m.t_last = t2,
         \A j \in 0 .. MessageBytes - 1 : j < m.length => m.bytes[j].of = <<block, j>>
  PROVE  IF Tracked(block) THEN Parse(m) # NoEvent /\ Corresponds(Parse(m), Expected(block, t1, t2))
         ELSE Parse(m) = NoEvent
<1>1. /\ 0 \in 0 .. MessageBytes - 1 /\ 1 \in 0 .. MessageBytes - 1 /\ 2 \in 0 .. MessageBytes - 1
  BY DEF MessageBytes
<1>2. m.bytes[0].of = <<block, 0>> /\ m.bytes[1].of = <<block, 1>> /\ m.bytes[2].of = <<block, 2>>
  BY <1>1
<1>3. TypeAt(m.bytes[0]) = block.type
  BY <1>2 DEF TypeAt
<1>4. LocateAt(m.bytes[1], m.bytes[2]) = block.locate
  BY <1>2 DEF LocateAt
<1>5. Matches(m) = {l \in Layouts : l.type = block.type /\ l.length = block.length}
  BY <1>3 DEF Matches
<1>6. Tracked(block) <=> Matches(m) # {} /\ block.locate \in Locates
  BY <1>5 DEF Tracked
<1>7. CASE ~Tracked(block)
  BY <1>4, <1>6, <1>7 DEF Parse
<1>8. CASE Tracked(block)
  <2>1. PICK l \in Layouts : l.type = block.type /\ l.length = block.length
    BY <1>8 DEF Tracked
  <2>2. (CHOOSE k \in Matches(m) : TRUE) = l
    <3>1. l \in Matches(m) /\ \A k \in Matches(m) : k = l
      BY <1>5, <2>1, LayoutFacts
    <3> QED
      BY <3>1
  <2>3. (CHOOSE k \in Layouts : k.type = block.type /\ k.length = block.length) = l
    <3>1. \A k \in Layouts : k.type = block.type /\ k.length = block.length => k = l
      BY <2>1, LayoutFacts
    <3> QED
      BY <2>1, <3>1
  <2>4. Parse(m) = EventOf(m, l)
    BY <1>4, <1>6, <1>8, <2>2 DEF Parse
  <2>5. ASSUME NEW offset \in Nat, NEW n \in Nat, offset = 0 \/ (offset + n <= m.length /\ offset + n <= 40)
        PROVE  FieldOf(m.bytes, offset, n) = From(block, offset, n)
    <3>1. CASE offset = 0
      BY <3>1 DEF FieldOf, From
    <3>2. CASE offset # 0
      <4>1. ASSUME NEW i \in 1 .. n PROVE m.bytes[offset + i - 1].of = <<block, offset + i - 1>>
        <5>1. offset + i - 1 \in 0 .. MessageBytes - 1 /\ offset + i - 1 < m.length
          BY <2>5, <3>2 DEF MessageBytes
        <5> QED
          BY <5>1
      <4> QED
        BY <3>2, <4>1 DEF FieldOf, From
    <3> QED
      BY <3>1, <3>2
  <2>6. /\ m.length \in 19 .. 40
        /\ l.shares = 0 \/ (l.shares \in 19 .. 27 /\ l.shares + 4 <= m.length)
        /\ l.price = 0 \/ (l.price \in 31 .. 32 /\ l.price + 4 <= m.length)
        /\ l.kind # "Delete" => m.length >= 20
        /\ l.kind = "Replace" => m.length >= 27
    BY <2>1, LayoutFacts
  <2>7. FieldOf(m.bytes, 11, 8) = From(block, 11, 8)
    BY <2>5, <2>6
  <2>8. FieldOf(m.bytes, l.shares, 4) = From(block, l.shares, 4)
    BY <2>5, <2>6
  <2>9. FieldOf(m.bytes, l.price, 4) = From(block, l.price, 4)
    BY <2>5, <2>6
  <2>10. l.kind = "Replace" => FieldOf(m.bytes, 19, 8) = From(block, 19, 8)
    BY <2>5, <2>6
  <2>11. l.kind # "Delete" => FieldOf(m.bytes, 19, 1) = From(block, 19, 1)
    BY <2>5, <2>6
  <2> DEFINE e == Expected(block, t1, t2)
             x == EventOf(m, l)
             newOrder == IF l.kind = "Replace" THEN From(block, 19, 8) ELSE <<>>
  <2>12. e = [kind |-> l.kind, symbol |-> block.locate, side |-> From(block, 19, 1),
              order |-> From(block, 11, 8), new_order |-> newOrder,
              shares |-> From(block, l.shares, 4), price |-> From(block, l.price, 4),
              t_first |-> t1, t_last |-> t2]
    BY <2>3, Zenon DEF Expected
  <2>13. x = [kind |-> l.kind, symbol |-> block.locate, side |-> FieldOf(m.bytes, 19, 1),
              order |-> From(block, 11, 8), new_order |-> FieldOf(m.bytes, 19, 8),
              shares |-> From(block, l.shares, 4), price |-> From(block, l.price, 4),
              t_first |-> t1, t_last |-> t2]
    BY <1>4, <2>7, <2>8, <2>9, Zenon DEF EventOf
  <2>14. Corresponds(x, e)
    <3> HIDE DEF e, x, newOrder
    <3>1. e.kind = l.kind
      BY <2>12
    <3>2. ASSUME NEW field \in {"kind", "symbol", "order", "shares", "price", "t_first", "t_last"}
          PROVE  x[field] = e[field]
      BY <2>12, <2>13
    <3>3. l.kind = "Replace" => x.new_order = e.new_order
      BY <2>10, <2>12, <2>13 DEF newOrder
    <3>4. l.kind # "Delete" => x.side = e.side
      BY <2>11, <2>12, <2>13
    <3>5. ASSUME NEW field \in FieldsOf(e.kind)
          PROVE  x[field] = e[field]
      <4>1. \/ field \in {"kind", "symbol", "order", "shares", "price", "t_first", "t_last"}
            \/ field = "new_order" /\ l.kind = "Replace"
            \/ field = "side" /\ l.kind # "Delete"
        BY <3>1 DEF FieldsOf
      <4> QED
        BY <3>2, <3>3, <3>4, <4>1
    <3> QED
      BY <3>5 DEF Corresponds
  <2>15. x # NoEvent
    <3>1. "kind" \in DOMAIN x
      BY <2>13
    <3> HIDE DEF x
    <3> QED
      BY <3>1 DEF NoEvent
  <2> QED
    BY <1>8, <2>4, <2>14, <2>15
<1> QED
  BY <1>7, <1>8

-----------------------------------------------------------------------------
(* The inductive invariant of the front end. *)

OnTheWire ==
  /\ packet \in FirstPackets \cup Packets
  /\ at \in Nat /\ at <= BeatsOf(packet)
  /\ beat = Nothing \/ (at < BeatsOf(packet) /\ beat = BeatOf(packet, at))
  /\ times = [i \in 0 .. at - 1 |-> times[i]] \/ at = BeatsOf(packet)

Placed ==
  /\ at = BeatsOf(packet) => state = Initial
  /\ ~torn /\ at < BeatsOf(packet) => Position(packet, 8 * at, state, buffer, times)

Ended == ended # Nothing /\ ended # Garbled =>
           ended.block.length \in Int /\ ended.block.length >= 12

FreshAfter ==
  /\ message # NoMessage => Fresh(state)
  /\ event # NoEvent /\ message # NoMessage => message.length <= 14

FeedInv == /\ OnTheWire /\ FramerType /\ Placed /\ Ended /\ FreshAfter
           /\ MessagesAreFramed /\ EventsMatchReference

\* The records of a block and of a message are not the empty ones.
LEMMA NothingIs ==
  /\ Nothing # Garbled
  /\ \A x, y, z : [block |-> x, t_last |-> y, t_first |-> z] # Nothing
  /\ \A x, y, z, w : [length |-> x, bytes |-> y, t_first |-> z, t_last |-> w] # NoMessage
<1>1. Nothing # Garbled
  <2>1. "block" \in DOMAIN Garbled
    BY DEF Garbled
  <2> HIDE DEF Garbled
  <2> QED
    BY <2>1 DEF Nothing
<1>2. ASSUME NEW x, NEW y, NEW z PROVE [block |-> x, t_last |-> y, t_first |-> z] # Nothing
  <2> DEFINE r == [block |-> x, t_last |-> y, t_first |-> z]
  <2>1. "block" \in DOMAIN r
    OBVIOUS
  <2> HIDE DEF r
  <2>2. r # Nothing
    BY <2>1 DEF Nothing
  <2> QED
    BY <2>2 DEF r
<1>3. ASSUME NEW x, NEW y, NEW z, NEW w
      PROVE  [length |-> x, bytes |-> y, t_first |-> z, t_last |-> w] # NoMessage
  <2> DEFINE r == [length |-> x, bytes |-> y, t_first |-> z, t_last |-> w]
  <2>1. "length" \in DOMAIN r
    OBVIOUS
  <2> HIDE DEF r
  <2>2. r # NoMessage
    BY <2>1 DEF NoMessage
  <2> QED
    BY <2>2 DEF r
<1> QED
  BY <1>1, <1>2, <1>3

\* What is on the wire is a packet.
LEMMA OnePacket ==
  ASSUME OnTheWire
  PROVE  IsPacket(packet)
BY PacketsAssumption DEF OnTheWire, IsPacket

\* And a beat on the bus is one of its beats.
LEMMA BeatOnTheBus ==
  ASSUME OnTheWire, beat # Nothing
  PROVE  /\ at \in Nat /\ at < BeatsOf(packet) /\ beat = BeatOf(packet, at)
         /\ Cut(packet, at, beat) /\ beat # <<>> /\ 8 * at < packet.size
         /\ beat.last <=> at + 1 = BeatsOf(packet)
         /\ at + 1 < BeatsOf(packet) =>
              ~beat.last /\ Whole(packet, at, beat) /\ 8 * at + 8 < packet.size
         /\ \A i \in 0 .. 7 : beat.lanes[i].value \in Int
<1>1. at \in Nat /\ at < BeatsOf(packet) /\ beat = BeatOf(packet, at)
  BY DEF OnTheWire
<1>2. IsPacket(packet)
  BY OnePacket
<1> QED
  BY <1>1, <1>2, BeatIs

\* The message of the next cycle is the one that ends in this beat.
LEMMA EdgeFrames ==
  ASSUME FeedInv, FeedEdge
  PROVE  MessagesAreFramed' /\ Ended'
<1>1. OnTheWire /\ FramerType /\ Placed
  BY DEF FeedInv
<1>2. ended' = Ends
  BY DEF FeedEdge
<1>3. CASE beat = Nothing
  <2>1. ended' = Nothing /\ message' = NoMessage
    BY <1>2, <1>3 DEF Ends, FeedEdge, NoBeat
  <2> QED
    BY <2>1 DEF MessagesAreFramed, Ended
<1>4. CASE beat # Nothing /\ torn
  <2>1. ended' = Garbled
    BY <1>2, <1>4 DEF Ends
  <2> QED
    BY <2>1, NothingIs DEF MessagesAreFramed, Ended
<1>5. CASE beat # Nothing /\ ~torn
  <2>1. /\ IsPacket(packet) /\ at \in Nat /\ 8 * at < packet.size /\ at < BeatsOf(packet)
        /\ Cut(packet, at, beat)
    BY <1>1, <1>5, OnePacket, BeatOnTheBus
  <2>2. Position(packet, 8 * at, state, buffer, times) /\ state.skip \in Int
    BY <1>1, <1>5, <2>1 DEF Placed, FramerType
  <2>3. \/ ~Complete(beat) /\ EndingIn(packet, at) = {}
        \/ \E b \in 1 .. Blocks(packet) :
             Complete(beat) /\ EndingIn(packet, at) = {b} /\ Answers(packet, b, at, beat, times)
    BY <2>1, <2>2, BeatEmits
  <2>4. message' = IF Complete(beat)
                     THEN [length |-> state.length, bytes |-> MessageSoFar(beat),
                           t_first |-> state.first, t_last |-> now]
                     ELSE NoMessage
    BY <1>5 DEF FeedEdge, Beat
  <2>5. CASE ~Complete(beat) /\ EndingIn(packet, at) = {}
    <3>1. ended' = Nothing /\ message' = NoMessage
      BY <1>2, <1>5, <2>4, <2>5 DEF Ends
    <3> QED
      BY <3>1 DEF MessagesAreFramed, Ended
  <2>6. ASSUME NEW b \in 1 .. Blocks(packet),
               Complete(beat), EndingIn(packet, at) = {b}, Answers(packet, b, at, beat, times)
        PROVE  MessagesAreFramed' /\ Ended'
    <3>1. (CHOOSE c \in EndingIn(packet, at) : TRUE) = b
      BY <2>6
    <3>2. /\ state.length = packet.blocks[b].length /\ state.length \in Nat /\ state.length >= 12
          /\ state.first = times[StartOf(packet, b) \div 8] /\ StartOf(packet, b) \div 8 # at
          /\ \A j \in 0 .. MessageBytes - 1 :
               j < state.length => MessageSoFar(beat)[j].of = <<packet.blocks[b], j>>
      BY <2>6 DEF Answers
    <3>3. Ends = [block |-> packet.blocks[b], t_last |-> now,
                  t_first |-> times[StartOf(packet, b) \div 8]]
      BY <1>5, <2>6, <3>1, <3>2, Zenon DEF Ends
    <3> DEFINE e == ended'
               m == message'
    <3>4. e # Nothing /\ e.block = packet.blocks[b] /\ e.t_last = now /\ e.t_first = state.first
      BY <1>2, <3>2, <3>3, NothingIs
    <3>5. /\ m # NoMessage /\ m.length = state.length /\ m.bytes = MessageSoFar(beat)
          /\ m.t_first = state.first /\ m.t_last = now
      BY <2>4, <2>6, NothingIs
    <3>6. e.block.length \in Int /\ e.block.length >= 12
      BY <3>2, <3>4
    <3>7. /\ m.length = e.block.length /\ m.t_first = e.t_first /\ m.t_last = e.t_last
          /\ \A j \in 0 .. MessageBytes - 1 : j < m.length => m.bytes[j].of = <<e.block, j>>
      BY <3>2, <3>4, <3>5
    <3>8. Ended'
      BY <3>6 DEF Ended
    <3>9. MessagesAreFramed'
      BY <3>4, <3>5, <3>7 DEF MessagesAreFramed
    <3> QED
      BY <3>8, <3>9
  <2> QED
    BY <2>3, <2>5, <2>6
<1> QED
  BY <1>3, <1>4, <1>5

\* The event of the next cycle is the one of the message now.
LEMMA EdgeParses ==
  ASSUME FeedInv, FeedEdge
  PROVE  EventsMatchReference'
<1>1. MessagesAreFramed /\ Ended
  BY DEF FeedInv
<1>2. parsed' = ended /\ event' = IF message = NoMessage THEN NoEvent ELSE Parse(message)
  BY DEF FeedEdge
<1>3. CASE ended = Nothing
  <2>1. parsed' = Nothing /\ event' = NoEvent
    BY <1>1, <1>2, <1>3 DEF MessagesAreFramed
  <2> QED
    BY <2>1, NothingIs DEF EventsMatchReference
<1>4. CASE ended = Garbled
  BY <1>2, <1>4 DEF EventsMatchReference
<1>5. CASE ended # Nothing /\ ended # Garbled
  <2>1. /\ message # NoMessage /\ message.length = ended.block.length
        /\ message.t_first = ended.t_first /\ message.t_last = ended.t_last
        /\ \A j \in 0 .. MessageBytes - 1 :
             j < message.length => message.bytes[j].of = <<ended.block, j>>
    BY <1>1, <1>5 DEF MessagesAreFramed
  <2>2. message.length \in Int /\ message.length >= 12
    BY <1>1, <1>5, <2>1 DEF Ended
  <2>3. event' = Parse(message)
    BY <1>2, <2>1
  <2> DEFINE e == Expected(ended.block, ended.t_first, ended.t_last)
  <2>4. IF Tracked(ended.block) THEN Parse(message) # NoEvent /\ Corresponds(Parse(message), e)
        ELSE Parse(message) = NoEvent
    BY <2>1, <2>2, ParsesAsReference
  <2> QED
    BY <1>2, <1>5, <2>3, <2>4 DEF EventsMatchReference, Corresponds
<1> QED
  BY <1>3, <1>4, <1>5

\* After a message the framer is early in the next one.
LEMMA EdgeFresh ==
  ASSUME FeedInv, FeedEdge
  PROVE  FreshAfter' /\ FramerType'
<1>1. OnTheWire /\ FramerType /\ FreshAfter
  BY DEF FeedInv
<1>2. CASE beat = Nothing
  <2>1. message' = NoMessage /\ state' = state
    BY <1>2 DEF FeedEdge, NoBeat
  <2> QED
    BY <1>1, <2>1 DEF FreshAfter, FramerType
<1>3. CASE beat # Nothing
  <2>1. /\ state' = IF beat.last THEN Initial ELSE StateAfter(beat, now)
        /\ message' = IF Complete(beat)
                        THEN [length |-> state.length, bytes |-> MessageSoFar(beat),
                              t_first |-> state.first, t_last |-> now]
                        ELSE NoMessage
        /\ event' = IF message = NoMessage THEN NoEvent ELSE Parse(message)
    BY <1>3 DEF FeedEdge, Beat
  <2>2. \A i \in 0 .. 7 : beat.lanes[i].value \in Int
    BY <1>1, <1>3, BeatOnTheBus
  <2>3. FramerType' /\ (message' # NoMessage => Fresh(state)')
    <3>1. CASE beat.last
      BY <2>1, <3>1 DEF FramerType, Fresh, Initial, HeaderBytes
    <3>2. CASE ~beat.last
      <4> DEFINE s == StateAfter(beat, now)
      <4>1. /\ s.skip \in Int /\ s.length \in Int /\ s.high \in Int /\ s.count \in Int
            /\ Complete(beat) => Fresh(s)
        BY <1>1, <2>2, FramerNumbers
      <4>2. state' = s
        BY <2>1, <3>2
      <4> HIDE DEF s
      <4>3. FramerType'
        BY <4>1, <4>2 DEF FramerType
      <4>4. Complete(beat) => Fresh(state)'
        BY <4>1, <4>2 DEF Fresh
      <4> QED
        BY <2>1, <4>3, <4>4
    <3> QED
      BY <3>1, <3>2
  <2>4. event' # NoEvent /\ message' # NoMessage => message'.length <= 14
    <3>1. SUFFICES ASSUME event' # NoEvent, message' # NoMessage PROVE message'.length <= 14
      OBVIOUS
    <3>2. message # NoMessage /\ Complete(beat)
      BY <2>1, <3>1
    <3>3. state.phase = "Body" /\ state.skip <= 8
      BY <3>2 DEF Complete, Is, PrefixEnds
    <3>4. state.skip >= state.length - 6
      BY <1>1, <3>2, <3>3 DEF FreshAfter, Fresh
    <3>5. message'.length = state.length
      BY <2>1, <3>2
    <3> QED
      BY <1>1, <3>3, <3>4, <3>5 DEF FramerType
  <2> QED
    BY <2>3, <2>4 DEF FreshAfter
<1> QED
  BY <1>2, <1>3

\* Where the clock's edge leaves the framer while the packet goes on.
LEMMA EdgePlaces ==
  ASSUME FeedInv, FeedEdge, ~torn, Taken < BeatsOf(packet)
  PROVE  LET tm == [i \in 0 .. Taken - 1 |-> IF i = at THEN now ELSE times[i]]
         IN Position(packet, 8 * Taken, state', buffer', tm)
<1>1. OnTheWire /\ FramerType /\ Placed /\ at \in Nat
  BY DEF FeedInv, OnTheWire
<1>2. CASE beat = Nothing
  <2>1. Taken = at /\ state' = state /\ buffer' = buffer
    BY <1>2 DEF Taken, FeedEdge, NoBeat
  <2>2. Position(packet, 8 * at, state, buffer, times)
    BY <1>1, <2>1 DEF Placed
  <2>3. times = [i \in 0 .. at - 1 |-> times[i]]
    <3>1. BeatsOf(packet) \in Nat
      BY <1>1, OnePacket, BeatsAre
    <3> QED
      BY <1>1, <2>1, <3>1 DEF OnTheWire
  <2>4. [i \in 0 .. at - 1 |-> IF i = at THEN now ELSE times[i]] = [i \in 0 .. at - 1 |-> times[i]]
    <3>1. \A i \in 0 .. at - 1 : i # at
      BY <1>1
    <3> QED
      BY <3>1
  <2> QED
    BY <2>1, <2>2, <2>3, <2>4
<1>3. CASE beat # Nothing
  <2>1. Taken = at + 1
    BY <1>3 DEF Taken
  <2>2. /\ IsPacket(packet) /\ at < BeatsOf(packet) /\ ~beat.last
        /\ Whole(packet, at, beat) /\ 8 * at + 8 < packet.size
    BY <1>1, <1>3, <2>1, OnePacket, BeatOnTheBus
  <2>3. state' = StateAfter(beat, now) /\ buffer' = BufferAfter(beat)
    BY <1>3, <2>2 DEF FeedEdge, Beat
  <2>4. Position(packet, 8 * at, state, buffer, times) /\ state.skip \in Int
    BY <1>1, <2>2 DEF Placed, FramerType
  <2>5. Position(packet, 8 * at + 8, StateAfter(beat, now), BufferAfter(beat), TimesAfter(at, times, now))
    BY <1>1, <2>2, <2>4, StepPosition
  <2>6. 8 * at + 8 = 8 * Taken /\ Taken - 1 = at
    BY <1>1, <2>1
  <2>7. TimesAfter(at, times, now) = [i \in 0 .. Taken - 1 |-> IF i = at THEN now ELSE times[i]]
    BY <2>6 DEF TimesAfter
  <2> QED
    BY <2>3, <2>5, <2>6, <2>7
<1> QED
  BY <1>2, <1>3

\* A clear leaves nothing under way.
LEMMA ClearLeaves ==
  ASSUME FeedInv, Clear
  PROVE  /\ MessagesAreFramed' /\ Ended' /\ EventsMatchReference' /\ FreshAfter' /\ FramerType'
         /\ state' = Initial
<1>1. /\ state' = Initial /\ message' = NoMessage /\ event' = NoEvent
      /\ ended' = Nothing /\ parsed' = Nothing
  BY DEF Clear, ClearFramer
<1>2. FramerType'
  BY <1>1 DEF FramerType, Initial, HeaderBytes
<1> QED
  BY <1>1, <1>2, NothingIs DEF MessagesAreFramed, Ended, EventsMatchReference, FreshAfter

\* A framer at rest stands before the header of whatever comes.
LEMMA AtTheStart ==
  ASSUME NEW p, IsPacket(p), NEW buf, NEW tm
  PROVE  Position(p, 8 * 0, Initial, buf, tm)
BY DEF Position, InHeader, Initial, HeaderBytes

\* One beat, one idle cycle or a clear within a packet.
LEMMA AdvanceKeeps ==
  ASSUME FeedInv, Advance, beat' = Nothing \/ beat' = BeatOf(packet, Taken)
  PROVE  FeedInv'
<1>1. OnTheWire /\ IsPacket(packet)
  BY OnePacket DEF FeedInv
<1>2. /\ Taken < BeatsOf(packet) /\ at' = Taken /\ packet' = packet
      /\ times' = [i \in 0 .. Taken - 1 |-> IF i = at THEN now ELSE times[i]]
  BY DEF Advance
<1>3. Taken \in Nat /\ BeatsOf(packet) \in Nat
  BY <1>1, BeatsAre DEF OnTheWire, Taken
<1>4. OnTheWire'
  <2>1. times' = [i \in 0 .. at' - 1 |-> times'[i]]
    BY <1>2
  <2> QED
    BY <1>1, <1>2, <1>3, <2>1 DEF OnTheWire
<1>5. CASE FeedEdge /\ torn' = torn
  <2>1. Placed'
    <3>1. ~torn => Position(packet, 8 * Taken, state', buffer', times')
      BY <1>2, <1>5, EdgePlaces
    <3>2. at' # BeatsOf(packet)
      BY <1>2, <1>3
    <3> QED
      BY <1>2, <1>5, <3>1, <3>2 DEF Placed
  <2> QED
    BY <1>4, <1>5, <2>1, EdgeFrames, EdgeParses, EdgeFresh DEF FeedInv
<1>6. CASE Clear /\ torn' = TRUE
  <2>1. Placed'
    BY <1>2, <1>3, <1>6, ClearLeaves DEF Placed
  <2> QED
    BY <1>4, <1>6, <2>1, ClearLeaves DEF FeedInv
<1> QED
  BY <1>5, <1>6 DEF Advance

\* From the end of the first packet to the second.
LEMMA NextPacketKeeps ==
  ASSUME FeedInv, NextPacket
  PROVE  FeedInv'
<1>1. OnTheWire
  BY DEF FeedInv
<1>2. PICK p \in Packets : packet' = p /\ beat' = BeatOf(p, 0)
  BY DEF NextPacket
<1>3. /\ beat # Nothing /\ beat.last /\ at' = 0 /\ times' = NoTimes /\ torn' = FALSE
      /\ FeedEdge \/ Clear
  BY DEF NextPacket
<1>4. IsPacket(p) /\ BeatsOf(p) \in Nat /\ BeatsOf(p) > 0
  <2>1. IsPacket(p)
    BY PacketsAssumption DEF IsPacket
  <2> QED
    BY <2>1, BeatsAre
<1>5. OnTheWire'
  <2>1. times' = [i \in 0 .. at' - 1 |-> times'[i]]
    BY <1>3 DEF NoTimes
  <2> QED
    BY <1>2, <1>3, <1>4, <2>1 DEF OnTheWire
<1>6. state' = Initial
  <2>1. CASE FeedEdge
    BY <1>3, <2>1 DEF FeedEdge, Beat
  <2> QED
    BY <1>3, <2>1, ClearLeaves
<1>7. Placed'
  <2>1. Position(p, 8 * 0, state', buffer', times')
    BY <1>4, <1>6, AtTheStart
  <2> QED
    BY <1>2, <1>3, <1>6, <2>1 DEF Placed
<1>8. MessagesAreFramed' /\ Ended' /\ EventsMatchReference' /\ FreshAfter' /\ FramerType'
  BY <1>3, EdgeFrames, EdgeParses, EdgeFresh, ClearLeaves
<1> QED
  BY <1>5, <1>7, <1>8 DEF FeedInv

\* The last packet is over.
LEMMA DrainsKeeps ==
  ASSUME FeedInv, Drains
  PROVE  FeedInv'
<1>1. OnTheWire /\ Placed /\ IsPacket(packet)
  BY OnePacket DEF FeedInv
<1>2. /\ FeedEdge /\ beat' = Nothing /\ at' = BeatsOf(packet) /\ packet' = packet
      /\ (beat # Nothing /\ beat.last) \/ (beat = Nothing /\ at = BeatsOf(packet))
  BY DEF Drains
<1>3. BeatsOf(packet) \in Nat
  BY <1>1, BeatsAre
<1>4. OnTheWire'
  BY <1>1, <1>2, <1>3 DEF OnTheWire
<1>5. state' = Initial
  <2>1. CASE beat # Nothing /\ beat.last
    BY <1>2, <2>1 DEF FeedEdge, Beat
  <2>2. CASE beat = Nothing /\ at = BeatsOf(packet)
    BY <1>1, <1>2, <2>2 DEF Placed, FeedEdge, NoBeat
  <2> QED
    BY <1>2, <2>1, <2>2
<1>6. Placed'
  BY <1>2, <1>3, <1>5 DEF Placed
<1> QED
  BY <1>2, <1>4, <1>6, EdgeFrames, EdgeParses, EdgeFresh DEF FeedInv

\* It holds when the stream begins.
LEMMA FeedInvInit == FeedInit => FeedInv
<1> SUFFICES ASSUME FeedInit PROVE FeedInv
  OBVIOUS
<1>1. /\ state = Initial /\ message = NoMessage /\ packet \in FirstPackets
      /\ beat = BeatOf(packet, 0) /\ at = 0 /\ torn = FALSE /\ event = NoEvent
      /\ times = NoTimes /\ ended = Nothing /\ parsed = Nothing
  BY DEF FeedInit, FramerInit
<1>2. IsPacket(packet) /\ BeatsOf(packet) \in Nat /\ BeatsOf(packet) > 0
  <2>1. IsPacket(packet)
    BY <1>1, PacketsAssumption DEF IsPacket
  <2> QED
    BY <2>1, BeatsAre
<1>3. OnTheWire
  <2>1. times = [i \in 0 .. at - 1 |-> times[i]]
    BY <1>1 DEF NoTimes
  <2> QED
    BY <1>1, <1>2, <2>1 DEF OnTheWire
<1>4. Placed
  BY <1>1, <1>2, AtTheStart DEF Placed
<1>5. FramerType
  BY <1>1 DEF FramerType, Initial, HeaderBytes
<1> QED
  BY <1>1, <1>3, <1>4, <1>5, NothingIs
     DEF FeedInv, MessagesAreFramed, Ended, EventsMatchReference, FreshAfter

\* And every step keeps it.
LEMMA FeedInvNext == FeedInv /\ [FeedNext]_feedVars => FeedInv'
<1> SUFFICES ASSUME FeedInv, [FeedNext]_feedVars PROVE FeedInv'
  OBVIOUS
<1>1. CASE Follows
  BY <1>1, AdvanceKeeps DEF Follows
<1>2. CASE Pauses
  BY <1>2, AdvanceKeeps DEF Pauses
<1>3. CASE NextPacket
  BY <1>3, NextPacketKeeps
<1>4. CASE Drains
  BY <1>4, DrainsKeeps
<1>5. CASE UNCHANGED feedVars
  <2>1. /\ packet' = packet /\ beat' = beat /\ at' = at /\ torn' = torn /\ times' = times
        /\ state' = state /\ buffer' = buffer /\ message' = message
        /\ event' = event /\ ended' = ended /\ parsed' = parsed
    BY <1>5 DEF feedVars, env
  <2> QED
    BY <2>1 DEF FeedInv, OnTheWire, FramerType, Placed, Ended, FreshAfter,
                MessagesAreFramed, EventsMatchReference
<1> QED
  BY <1>1, <1>2, <1>3, <1>4, <1>5 DEF FeedNext

\* The framer, the parser and the packet stay in step on every packet stream:
\* the invariant the theorems below rest on (moldudp64.ml, itch_parser.ml).
THEOREM FeedInvariant == FeedSpec => []FeedInv
BY FeedInvInit, FeedInvNext, PTL DEF FeedSpec

\* A message comes out one cycle after the beat with its last byte, with its
\* block's bytes and times, and no other message does: for all packets, counts,
\* lengths and cuts, with idle cycles and clears (moldudp64.ml;
\* trading/reference.py, frame).
THEOREM FeedMessagesFramed == FeedSpec => []MessagesAreFramed
<1>1. FeedInv => MessagesAreFramed
  BY DEF FeedInv
<1> QED
  BY <1>1, FeedInvariant, PTL

\* The events are what the software model parses of those messages, field by
\* field, for any set of tracked stocks (itch_parser.ml; trading/reference.py,
\* parse).
THEOREM FeedEventsMatch == FeedSpec => []EventsMatchReference
<1>1. FeedInv => EventsMatchReference
  BY DEF FeedInv
<1> QED
  BY <1>1, FeedInvariant, PTL

\* No two events in a row, from the lengths of messages.
LEMMA EdgeApart ==
  ASSUME FeedInv, [FeedNext]_feedVars
  PROVE  [event # NoEvent => event' = NoEvent]_feedVars
<1>1. FreshAfter
  BY DEF FeedInv
<1>2. ASSUME FeedEdge, event # NoEvent PROVE event' = NoEvent
  <2>1. event' = IF message = NoMessage THEN NoEvent ELSE Parse(message)
    BY <1>2 DEF FeedEdge
  <2>2. message # NoMessage => message.length <= 14
    BY <1>1, <1>2 DEF FreshAfter
  <2>3. message # NoMessage => Parse(message) = NoEvent
    <3>1. ASSUME message.length \in 19 .. 40, message.length <= 14 PROVE FALSE
      BY <3>1
    <3> QED
      BY <2>2, <3>1, ParseLong
  <2> QED
    BY <2>1, <2>3
<1>3. FeedNext => FeedEdge \/ event' = NoEvent
  BY DEF FeedNext, Follows, Pauses, NextPacket, Drains, Advance, Clear
<1> QED
  BY <1>2, <1>3

\* Two events never come in two cycles running, which the order book takes for
\* granted: the shortest tracked message has more bytes than the framer can
\* take in the beat that ends one message and the beat after (itch_parser.ml).
THEOREM FeedEventsApart == FeedSpec => EventsApart
<1>1. FeedInv /\ [FeedNext]_feedVars => [event # NoEvent => event' = NoEvent]_feedVars
  BY EdgeApart
<1> QED
  BY <1>1, FeedInvariant, PTL DEF FeedSpec, EventsApart

-----------------------------------------------------------------------------
(* The framer takes eight bytes a beat as the one of trading/formal.py does  *)
(* byte by byte.  First induction up to a number.                            *)

\* What holds of 0 and passes from each number below k to the next holds up to k.
LEMMA Steps ==
  ASSUME NEW k \in Nat, NEW S, 0 \in S, \A i \in 0 .. k - 1 : i \in S => i + 1 \in S
  PROVE  \A i \in 0 .. k : i \in S
<1> DEFINE T == {i \in 0 .. k : i \notin S}
<1>1. SUFFICES ASSUME T # {} PROVE FALSE
  OBVIOUS
<1>2. PICK x \in T : \A y \in T : x <= y
  <2>1. T \in SUBSET Nat
    OBVIOUS
  <2> QED
    BY <1>1, <2>1, LeastNumber
<1>3. x # 0 /\ x - 1 \in 0 .. k - 1 /\ x - 1 \in 0 .. k /\ ~(x <= x - 1) /\ x = (x - 1) + 1
  OBVIOUS
<1>4. x - 1 \in S
  BY <1>2, <1>3
<1> QED
  BY <1>3, <1>4

-----------------------------------------------------------------------------
(* The byte at a time framer. *)

Walker(phase, skip, length, high, count, first, buf, emit) ==
  Serial!Walk(Serial!State(phase, skip, length, high, count, first), buf, emit)

\* What a walk over the bytes of a beat passes through, byte by byte.
Walks(a, v) ==
  /\ a[0] = Serial!Walk(state, buffer, NoMessage)
  /\ \A i \in 1 .. v.keep : a[i] = Serial!OneByte(a[i - 1], v.lanes[i - 1])

After(v) ==
  CHOOSE after : after = [i \in 0 .. v.keep |->
                            IF i = 0 THEN Serial!Walk(state, buffer, Serial!NoMessage)
                            ELSE Serial!OneByte(after[i - 1], v.lanes[i - 1])]

Onward(v, f, i) == IF i = 0 THEN Serial!Walk(state, buffer, Serial!NoMessage)
                   ELSE Serial!OneByte(f[i - 1], v.lanes[i - 1])

\* The walk over the bytes of a beat exists, byte by byte.
LEMMA WalkExists ==
  ASSUME NEW v, NEW n \in Nat
  PROVE  \E f : f = [i \in 0 .. n |-> Onward(v, f, i)]
<1> DEFINE S == {m \in Nat : \E f : f = [i \in 0 .. m |-> Onward(v, f, i)]}
<1>1. 0 \in S
  <2> DEFINE g == [i \in 0 .. 0 |-> Onward(v, <<>>, i)]
  <2>1. ASSUME NEW i \in 0 .. 0 PROVE Onward(v, <<>>, i) = Onward(v, g, i)
    BY DEF Onward
  <2>2. g = [i \in 0 .. 0 |-> Onward(v, g, i)]
    BY <2>1
  <2> QED
    BY <2>2
<1>2. ASSUME NEW m \in 0 .. n - 1, m \in S PROVE m + 1 \in S
  <2>1. m \in Nat /\ m + 1 \in Nat
    OBVIOUS
  <2>2. PICK f : f = [i \in 0 .. m |-> Onward(v, f, i)]
    BY <1>2
  <2> DEFINE g == [i \in 0 .. m + 1 |-> IF i = m + 1 THEN Onward(v, f, m + 1) ELSE f[i]]
  <2>3. ASSUME NEW i \in 0 .. m + 1 PROVE g[i] = Onward(v, g, i)
    <3>1. CASE i = m + 1
      <4>1. g[i - 1] = f[i - 1] /\ i # 0
        BY <3>1, <2>1
      <4>2. Onward(v, g, i) = Onward(v, f, i)
        BY <4>1 DEF Onward
      <4> QED
        BY <3>1, <4>2
    <3>2. CASE i # m + 1
      <4>1. i \in 0 .. m /\ g[i] = f[i]
        BY <3>2, <2>1
      <4>2. f[i] = Onward(v, f, i)
        BY <4>1, <2>2
      <4>3. i # 0 => g[i - 1] = f[i - 1]
        BY <4>1, <2>1
      <4> QED
        BY <4>1, <4>2, <4>3 DEF Onward
    <3> QED
      BY <3>1, <3>2
  <2>4. g = [i \in 0 .. m + 1 |-> Onward(v, g, i)]
    BY <2>3
  <2> QED
    BY <2>1, <2>4
<1>3. n \in S
  <2> HIDE DEF S
  <2>1. \A i \in 0 .. n : i \in S
    BY <1>1, <1>2, Steps
  <2> QED
    BY <2>1
<1> QED
  BY <1>3

LEMMA AfterWalks ==
  ASSUME NEW v, v.keep \in Nat
  PROVE  Walks(After(v), v)
<1>1. \E f : f = [i \in 0 .. v.keep |-> Onward(v, f, i)]
  BY WalkExists
<1>2. After(v) = [i \in 0 .. v.keep |-> Onward(v, After(v), i)]
  BY <1>1, Zenon DEF After, Onward
<1>3. ASSUME NEW i \in 0 .. v.keep PROVE After(v)[i] = Onward(v, After(v), i)
  BY <1>2
<1>4. Serial!NoMessage = NoMessage
  BY DEF Serial!NoMessage, NoMessage
<1>5. After(v)[0] = Serial!Walk(state, buffer, NoMessage)
  <2>1. 0 \in 0 .. v.keep
    OBVIOUS
  <2> QED
    BY <1>3, <1>4, <2>1 DEF Onward
<1>6. ASSUME NEW i \in 1 .. v.keep PROVE After(v)[i] = Serial!OneByte(After(v)[i - 1], v.lanes[i - 1])
  <2>1. i \in 0 .. v.keep /\ i # 0
    OBVIOUS
  <2> QED
    BY <1>3, <2>1 DEF Onward
<1> QED
  BY <1>5, <1>6 DEF Walks

LEMMA WalkedIs == Serial!Walked = After(beat)[beat.keep]
BY DEF Serial!Walked, After

LEMMA WalkerIs ==
  ASSUME NEW phase, NEW s, NEW l, NEW h, NEW c, NEW f, NEW B, NEW E,
         NEW w, w = Walker(phase, s, l, h, c, f, B, E)
  PROVE  /\ w.state = Serial!State(phase, s, l, h, c, f)
         /\ w.state.phase = phase /\ w.state.skip = s /\ w.state.length = l
         /\ w.state.high = h /\ w.state.count = c /\ w.state.first = f
         /\ w.buffer = B /\ w.emit = E
BY DEF Walker, Serial!Walk, Serial!State

\* One byte, phase by phase.
LEMMA ByteOfDrop ==
  ASSUME NEW s, NEW l, NEW h, NEW c, NEW f, NEW B, NEW E, NEW b
  PROVE  Serial!OneByte(Walker("Drop", s, l, h, c, f, B, E), b)
           = Walker("Drop", s, l, h, c, f, B, E)
<1> DEFINE w == Walker("Drop", s, l, h, c, f, B, E)
<1>1. w.state.phase = "Drop"
  BY WalkerIs
<1> HIDE DEF w
<1>2. Serial!OneByte(w, b) = w
  BY <1>1 DEF Serial!OneByte
<1> QED
  BY <1>2 DEF w

LEMMA ByteOfLength ==
  ASSUME NEW s, NEW l, NEW h, NEW c, NEW f, NEW B, NEW E, NEW b
  PROVE  Serial!OneByte(Walker("Length", s, l, h, c, f, B, E), b)
           = Walker("Length_low", s, l, b.value, c, f, B, E)
<1> DEFINE w == Walker("Length", s, l, h, c, f, B, E)
<1>1. /\ w.state.phase = "Length" /\ w.state.skip = s /\ w.state.length = l
      /\ w.state.high = h /\ w.state.count = c /\ w.state.first = f /\ w.buffer = B /\ w.emit = E
  BY WalkerIs
<1> HIDE DEF w
<1>2. Serial!OneByte(w, b) = Serial!LengthByte(w, b)
  BY <1>1 DEF Serial!OneByte
<1>3. Serial!LengthByte(w, b) = Walker("Length_low", s, l, b.value, c, f, B, E)
  BY <1>1 DEF Serial!LengthByte, Walker
<1> QED
  BY <1>2, <1>3 DEF w

LEMMA ByteOfLow ==
  ASSUME NEW s, NEW l, NEW h, NEW c, NEW f, NEW B, NEW E, NEW b,
         NEW field, field = h * 256 + b.value
  PROVE  Serial!OneByte(Walker("Length_low", s, l, h, c, f, B, E), b)
           = IF field < 12 THEN Walker("Drop", s, l, h, c, f, B, E)
             ELSE Walker("Body", field, field, h, c - 1, f, B, E)
<1> DEFINE w == Walker("Length_low", s, l, h, c, f, B, E)
<1>1. /\ w.state.phase = "Length_low" /\ w.state.skip = s /\ w.state.length = l
      /\ w.state.high = h /\ w.state.count = c /\ w.state.first = f /\ w.buffer = B /\ w.emit = E
  BY WalkerIs
<1> HIDE DEF w
<1>2. Serial!OneByte(w, b) = Serial!LowByte(w, b)
  BY <1>1 DEF Serial!OneByte
<1>3. Serial!LowByte(w, b) = IF field < 12 THEN Walker("Drop", s, l, h, c, f, B, E)
             ELSE Walker("Body", field, field, h, c - 1, f, B, E)
  BY <1>1 DEF Serial!LowByte, Walker
<1> QED
  BY <1>2, <1>3 DEF w

LEMMA ByteOfHeader ==
  ASSUME NEW s, NEW l, NEW h, NEW c, NEW f, NEW B, NEW E, NEW b,
         NEW count, count = Serial!Counted(h * 256 + b.value)
  PROVE  Serial!OneByte(Walker("Header", s, l, h, c, f, B, E), b)
           = IF s = 1 THEN Walker(Serial!AfterBlock(count), 0, l, h, count, f, B, E)
             ELSE Walker("Header", s - 1, l, IF s = 2 THEN b.value ELSE h, c, f, B, E)
<1> DEFINE w == Walker("Header", s, l, h, c, f, B, E)
<1>1. /\ w.state.phase = "Header" /\ w.state.skip = s /\ w.state.length = l
      /\ w.state.high = h /\ w.state.count = c /\ w.state.first = f /\ w.buffer = B /\ w.emit = E
  BY WalkerIs
<1> HIDE DEF w
<1>2. Serial!OneByte(w, b) = Serial!HeaderByte(w, b)
  BY <1>1 DEF Serial!OneByte
<1>3. Serial!HeaderByte(w, b)
        = IF s = 1 THEN Walker(Serial!AfterBlock(count), 0, l, h, count, f, B, E)
             ELSE Walker("Header", s - 1, l, IF s = 2 THEN b.value ELSE h, c, f, B, E)
  BY <1>1 DEF Serial!HeaderByte, Walker
<1> QED
  BY <1>2, <1>3 DEF w

LEMMA ByteOfBody ==
  ASSUME NEW s, NEW l, NEW h, NEW c, NEW f, NEW B, NEW E, NEW b,
         NEW first, first = IF l - s = 0 THEN now ELSE f,
         NEW filled, filled = [j \in 0 .. 39 |-> IF j = l - s THEN b ELSE B[j]]
  PROVE  Serial!OneByte(Walker("Body", s, l, h, c, f, B, E), b)
           = IF s = 1
               THEN Walker(Serial!AfterBlock(c), s - 1, l, h, c, first, filled,
                           [length |-> l, bytes |-> filled, t_first |-> first, t_last |-> now])
             ELSE Walker("Body", s - 1, l, h, c, first, filled, E)
<1> DEFINE w == Walker("Body", s, l, h, c, f, B, E)
<1>1. /\ w.state.phase = "Body" /\ w.state.skip = s /\ w.state.length = l
      /\ w.state.high = h /\ w.state.count = c /\ w.state.first = f /\ w.buffer = B /\ w.emit = E
  BY WalkerIs
<1> HIDE DEF w
<1>2. Serial!OneByte(w, b) = Serial!BodyByte(w, b)
  BY <1>1 DEF Serial!OneByte
<1>3. Serial!BodyByte(w, b)
        = IF s = 1
               THEN Walker(Serial!AfterBlock(c), s - 1, l, h, c, first, filled,
                           [length |-> l, bytes |-> filled, t_first |-> first, t_last |-> now])
             ELSE Walker("Body", s - 1, l, h, c, first, filled, E)
  BY <1>1 DEF Serial!BodyByte, Walker
<1> QED
  BY <1>2, <1>3 DEF w

\* The buffer B with i lanes, from lane m on, at the offset off.
Fill(v, m, i, off, B) ==
  [j \in 0 .. 39 |-> IF off <= j /\ j < off + i THEN v.lanes[m + (j - off)] ELSE B[j]]

IsBuffer(B) == B = [j \in 0 .. 39 |-> B[j]]
OneMore(v, m, i, off, B) ==
  [j \in 0 .. 39 |-> IF j = off + i THEN v.lanes[m + i] ELSE Fill(v, m, i, off, B)[j]]

\* What filling the buffer with no lane and with one more makes.
LEMMA FillIsBuffer ==
  ASSUME NEW v, NEW m, NEW i, NEW off, NEW B
  PROVE  IsBuffer(Fill(v, m, i, off, B))
BY DEF Fill, IsBuffer

LEMMA FillNone ==
  ASSUME NEW v, NEW m, NEW off \in Int, NEW B, IsBuffer(B)
  PROVE  Fill(v, m, 0, off, B) = B
<1>1. ASSUME NEW j \in 0 .. 39 PROVE ~(off <= j /\ j < off + 0)
  OBVIOUS
<1>2. Fill(v, m, 0, off, B) = [j \in 0 .. 39 |-> B[j]]
  BY <1>1 DEF Fill
<1> QED
  BY <1>2 DEF IsBuffer

LEMMA FillOne ==
  ASSUME NEW v, NEW m, NEW off \in Int, NEW B, NEW i \in Nat
  PROVE  Fill(v, m, i + 1, off, B) = OneMore(v, m, i, off, B)
<1>1. ASSUME NEW j \in 0 .. 39
      PROVE  (IF j = off + i THEN v.lanes[m + i] ELSE Fill(v, m, i, off, B)[j])
               = IF off <= j /\ j < off + (i + 1) THEN v.lanes[m + (j - off)] ELSE B[j]
  <2>1. CASE j = off + i
    <3>1. off <= j /\ j < off + (i + 1) /\ j - off = i
      BY <2>1
    <3> QED
      BY <2>1, <3>1
  <2>2. CASE j # off + i
    <3>1. (off <= j /\ j < off + i) <=> (off <= j /\ j < off + (i + 1))
      BY <2>2
    <3>2. Fill(v, m, i, off, B)[j] = IF off <= j /\ j < off + i THEN v.lanes[m + (j - off)] ELSE B[j]
      BY DEF Fill
    <3> QED
      BY <2>2, <3>1, <3>2
  <2> QED
    BY <2>1, <2>2
<1> QED
  BY <1>1 DEF Fill, OneMore

\* A body of which i bytes were taken.
Bodily(v, m, i, s, l, h, c, f, B, E) ==
  Walker("Body", s - i, l, h, c, IF l = s /\ i > 0 THEN now ELSE f, Fill(v, m, i, l - s, B), E)

BodyOnward(v, a, m, s, l, h, c, f, B, E) ==
  \A i \in 0 .. v.keep - m : i < s => a[m + i] = Bodily(v, m, i, s, l, h, c, f, B, E)
BodyOver(v, a, m, s, l, h, c, f, B, E) ==
  s <= v.keep - m =>
    LET first  == IF l = s THEN now ELSE f
        filled == Fill(v, m, s, l - s, B)
    IN a[m + s] = Walker(Serial!AfterBlock(c), 0, l, h, c, first, filled,
                         [length |-> l, bytes |-> filled, t_first |-> first, t_last |-> now])

\* Bytes of a body go into the buffer, one after the other.
LEMMA BodyRun ==
  ASSUME NEW v, v.keep \in Nat, NEW a, Walks(a, v), NEW m \in 0 .. v.keep,
         NEW s \in Int, NEW l \in Int, s <= l, s > 0, NEW h, NEW c, NEW f, NEW E,
         NEW B, IsBuffer(B),
         a[m] = Walker("Body", s, l, h, c, f, B, E)
  PROVE  /\ BodyOnward(v, a, m, s, l, h, c, f, B, E)
         /\ BodyOver(v, a, m, s, l, h, c, f, B, E)
<1> DEFINE W(i) == Bodily(v, m, i, s, l, h, c, f, B, E)
           k == v.keep - m
           S == {i \in 0 .. k : i < s => a[m + i] = W(i)}
           Firstly(i) == IF l = s /\ i > 0 THEN now ELSE f
<1>1. k \in Nat /\ m \in Nat
  OBVIOUS
<1>2. ASSUME NEW i \in 0 .. k - 1, i < s, a[m + i] = W(i)
      PROVE  a[m + (i + 1)]
               = IF i + 1 = s
                   THEN Walker(Serial!AfterBlock(c), s - (i + 1), l, h, c, Firstly(i + 1),
                               Fill(v, m, i + 1, l - s, B),
                               [length |-> l, bytes |-> Fill(v, m, i + 1, l - s, B),
                                t_first |-> Firstly(i + 1), t_last |-> now])
                 ELSE W(i + 1)
  <2>1. PICK s1 \in Int : s1 = s - i
    OBVIOUS
  <2>2. m + (i + 1) \in 1 .. v.keep /\ (m + (i + 1)) - 1 = m + i
    OBVIOUS
  <2>3. a[m + (i + 1)] = Serial!OneByte(a[m + i], v.lanes[m + i])
    BY <2>2 DEF Walks
  <2>4. a[m + i] = Walker("Body", s1, l, h, c, Firstly(i), Fill(v, m, i, l - s, B), E)
    BY <1>2, <2>1 DEF Bodily
  <2>5. Firstly(i + 1) = IF l - s1 = 0 THEN now ELSE Firstly(i)
    BY <2>1
  <2>6. Fill(v, m, i + 1, l - s, B)
          = [j \in 0 .. 39 |-> IF j = l - s1 THEN v.lanes[m + i] ELSE Fill(v, m, i, l - s, B)[j]]
    <3>1. PICK o \in Int : o = l - s
      OBVIOUS
    <3>2. l - s1 = o + i /\ i \in Nat /\ m \in Nat
      <4>1. i \in Nat /\ m \in Nat
        <5>1. \A k1 \in Nat : \A i1 \in 0 .. k1 - 1 : i1 \in Nat
          OBVIOUS
        <5> HIDE DEF k
        <5> QED
          BY <1>1, <5>1
      <4> QED
        BY <2>1, <3>1, <4>1
    <3>3. Fill(v, m, i + 1, o, B) = OneMore(v, m, i, o, B)
      BY <3>2, FillOne
    <3>4. OneMore(v, m, i, o, B)
            = [j \in 0 .. 39 |-> IF j = l - s1 THEN v.lanes[m + i] ELSE Fill(v, m, i, o, B)[j]]
      BY <3>2 DEF OneMore
    <3> QED
      BY <3>1, <3>3, <3>4
  <2> DEFINE f1 == Firstly(i + 1)
             B1 == Fill(v, m, i + 1, l - s, B)
             f0 == Firstly(i)
             B0 == Fill(v, m, i, l - s, B)
  <2>7. Serial!OneByte(Walker("Body", s1, l, h, c, f0, B0, E), v.lanes[m + i])
          = IF s1 = 1 THEN Walker(Serial!AfterBlock(c), s1 - 1, l, h, c, f1, B1,
                                  [length |-> l, bytes |-> B1, t_first |-> f1, t_last |-> now])
            ELSE Walker("Body", s1 - 1, l, h, c, f1, B1, E)
    <3> HIDE DEF f1, B1, f0, B0
    <3>1. f1 = IF l - s1 = 0 THEN now ELSE f0
      BY <2>5 DEF f1, f0
    <3>2. B1 = [j \in 0 .. 39 |-> IF j = l - s1 THEN v.lanes[m + i] ELSE B0[j]]
      BY <2>6 DEF B1, B0
    <3> QED
      BY <3>1, <3>2, ByteOfBody
  <2>8. s1 - 1 = s - (i + 1) /\ (s1 = 1 <=> i + 1 = s)
    BY <2>1
  <2>9. W(i + 1) = Walker("Body", s - (i + 1), l, h, c, f1, B1, E)
    BY DEF Bodily
  <2> HIDE DEF f1, B1, f0, B0, W
  <2>10. a[m + (i + 1)] = Serial!OneByte(Walker("Body", s1, l, h, c, f0, B0, E), v.lanes[m + i])
    BY <2>3, <2>4 DEF f0, B0
  <2>11. a[m + (i + 1)]
          = IF i + 1 = s THEN Walker(Serial!AfterBlock(c), s - (i + 1), l, h, c, f1, B1,
                                  [length |-> l, bytes |-> B1, t_first |-> f1, t_last |-> now])
            ELSE W(i + 1)
    BY <2>7, <2>8, <2>9, <2>10
  <2> QED
    BY <2>11 DEF f1, B1
<1>3. 0 \in S
  <2>1. W(0) = Walker("Body", s, l, h, c, f, B, E)
    <3>1. Fill(v, m, 0, l - s, B) = B
      <4>1. l - s \in Int
        OBVIOUS
      <4> QED
        BY <4>1, FillNone
    <3>2. s - 0 = s /\ (IF l = s /\ 0 > 0 THEN now ELSE f) = f
      OBVIOUS
    <3>3. PICK s0 : s0 = s - 0
      OBVIOUS
    <3>4. PICK f0 : f0 = IF l = s /\ 0 > 0 THEN now ELSE f
      OBVIOUS
    <3>5. W(0) = Walker("Body", s0, l, h, c, f0, Fill(v, m, 0, l - s, B), E)
      BY <3>3, <3>4, Zenon DEF Bodily
    <3>6. s0 = s /\ f0 = f
      BY <3>2, <3>3, <3>4
    <3> HIDE DEF W
    <3> QED
      BY <3>1, <3>5, <3>6
  <2>2. m + 0 = m
    OBVIOUS
  <2> QED
    BY <1>1, <2>1, <2>2
<1>4. ASSUME NEW i \in 0 .. k - 1, i \in S PROVE i + 1 \in S
  <2>1. i + 1 \in 0 .. k
    BY <1>1
  <2>2. i + 1 < s => a[m + (i + 1)] = W(i + 1)
    <3>1. SUFFICES ASSUME i + 1 < s PROVE a[m + (i + 1)] = W(i + 1)
      OBVIOUS
    <3>2. i < s /\ i + 1 # s
      BY <3>1
    <3>3. a[m + i] = W(i)
      BY <1>4, <3>2
    <3> HIDE DEF W, k
    <3> QED
      BY <1>2, <3>2, <3>3
  <2> QED
    BY <2>1, <2>2
<1>5. \A i \in 0 .. k : i \in S
  <2> HIDE DEF S, k
  <2> QED
    BY <1>1, <1>3, <1>4, Steps
<1>6. ASSUME s <= k
      PROVE  LET first  == IF l = s THEN now ELSE f
                  filled == Fill(v, m, s, l - s, B)
              IN a[m + s] = Walker(Serial!AfterBlock(c), 0, l, h, c, first, filled,
                                   [length |-> l, bytes |-> filled, t_first |-> first, t_last |-> now])
  <2>1. PICK i \in 0 .. k - 1 : i + 1 = s /\ i < s /\ i \in 0 .. k
    <3>1. s - 1 \in 0 .. k - 1 /\ (s - 1) + 1 = s /\ s - 1 < s /\ s - 1 \in 0 .. k
      BY <1>6
    <3> QED
      BY <3>1
  <2>2. a[m + i] = W(i)
    BY <1>5, <2>1
  <2>3. Firstly(s) = IF l = s THEN now ELSE f
    OBVIOUS
  <2>4. s - s = 0
    OBVIOUS
  <2> HIDE DEF W, k, Firstly
  <2>5. a[m + s] = Walker(Serial!AfterBlock(c), s - s, l, h, c, Firstly(s), Fill(v, m, s, l - s, B),
                          [length |-> l, bytes |-> Fill(v, m, s, l - s, B),
                           t_first |-> Firstly(s), t_last |-> now])
    BY <1>2, <2>1, <2>2
  <2> QED
    BY <2>3, <2>4, <2>5
<1> QED
  BY <1>5, <1>6 DEF BodyOnward, BodyOver

\* A header of which i bytes were taken, and one that is over.
HeaderOnward(v, a, s, l, h, c, f, B, E) ==
  \A i \in 0 .. v.keep : i < s =>
    a[i] = Walker("Header", s - i, l, IF s >= 2 /\ i >= s - 1 THEN v.lanes[s - 2].value ELSE h,
                  c, f, B, E)
HeaderOver(v, a, s, l, h, c, f, B, E) ==
  s <= v.keep =>
    LET high  == IF s >= 2 THEN v.lanes[s - 2].value ELSE h
        count == Serial!Counted(high * 256 + v.lanes[s - 1].value)
    IN a[s] = Walker(Serial!AfterBlock(count), 0, l, high, count, f, B, E)

LEMMA HeaderRun ==
  ASSUME NEW v, v.keep \in Nat, NEW a, Walks(a, v),
         NEW s \in Int, s > 0, NEW l, NEW h, NEW c, NEW f, NEW E, NEW B,
         a[0] = Walker("Header", s, l, h, c, f, B, E)
  PROVE  HeaderOnward(v, a, s, l, h, c, f, B, E) /\ HeaderOver(v, a, s, l, h, c, f, B, E)
<1> DEFINE H(i) == IF s >= 2 /\ i >= s - 1 THEN v.lanes[s - 2].value ELSE h
           W(i) == Walker("Header", s - i, l, H(i), c, f, B, E)
           k == v.keep
           S == {i \in 0 .. k : i < s => a[i] = W(i)}
<1>1. k \in Nat
  OBVIOUS
<1>2. ASSUME NEW i \in 0 .. k - 1, i < s, a[i] = W(i)
      PROVE  a[i + 1] = Serial!OneByte(Walker("Header", s - i, l, H(i), c, f, B, E), v.lanes[i])
  <2>1. i + 1 \in 1 .. v.keep /\ (i + 1) - 1 = i
    OBVIOUS
  <2> QED
    BY <1>2, <2>1 DEF Walks
<1>3. 0 \in S
  <2>1. H(0) = h
    OBVIOUS
  <2>2. s - 0 = s
    OBVIOUS
  <2> QED
    BY <1>1, <2>1, <2>2
<1>4. ASSUME NEW i \in 0 .. k - 1, i \in S PROVE i + 1 \in S
  <2>1. i + 1 \in 0 .. k
    BY <1>1
  <2>2. ASSUME i + 1 < s PROVE a[i + 1] = W(i + 1)
    <3>1. i < s /\ s - i # 1 /\ (s - i) - 1 = s - (i + 1)
      BY <2>2
    <3>2. H(i + 1) = IF s - i = 2 THEN v.lanes[i].value ELSE H(i)
      <4>1. CASE s - i = 2
        <5>1. s >= 2 /\ i + 1 >= s - 1 /\ s - 2 = i
          BY <4>1
        <5> QED
          BY <4>1, <5>1
      <4>2. CASE s - i # 2
        <5>1. ~(i + 1 >= s - 1) /\ ~(i >= s - 1)
          BY <2>2, <4>2
        <5> QED
          BY <4>2, <5>1
      <4> QED
        BY <4>1, <4>2
    <3>3. a[i] = W(i)
      BY <1>4, <3>1
    <3>4. PICK s1 \in Int : s1 = s - i
      OBVIOUS
    <3>5. PICK count : count = Serial!Counted(H(i) * 256 + v.lanes[i].value)
      OBVIOUS
    <3> HIDE DEF H
    <3>6. Serial!OneByte(Walker("Header", s1, l, H(i), c, f, B, E), v.lanes[i])
            = Walker("Header", s1 - 1, l, IF s1 = 2 THEN v.lanes[i].value ELSE H(i), c, f, B, E)
      BY <3>1, <3>4, <3>5, ByteOfHeader
    <3>7. a[i + 1] = Serial!OneByte(Walker("Header", s - i, l, H(i), c, f, B, E), v.lanes[i])
      BY <1>2, <3>1, <3>3
    <3> QED
      BY <3>1, <3>2, <3>4, <3>6, <3>7
  <2> QED
    BY <2>1, <2>2
<1>5. \A i \in 0 .. k : i \in S
  <2> HIDE DEF S, k
  <2> QED
    BY <1>1, <1>3, <1>4, Steps
<1>6. ASSUME s <= k
      PROVE  LET high  == IF s >= 2 THEN v.lanes[s - 2].value ELSE h
                  count == Serial!Counted(high * 256 + v.lanes[s - 1].value)
              IN a[s] = Walker(Serial!AfterBlock(count), 0, l, high, count, f, B, E)
  <2>1. PICK i \in 0 .. k - 1 : /\ i = s - 1 /\ i + 1 = s /\ i < s /\ i \in 0 .. k /\ s - i = 1
                                /\ i >= s - 1
    <3>1. /\ s - 1 \in 0 .. k - 1 /\ (s - 1) + 1 = s /\ s - 1 < s /\ s - 1 \in 0 .. k
          /\ s - (s - 1) = 1 /\ s - 1 >= s - 1
      BY <1>6
    <3> QED
      BY <3>1
  <2>2. a[i] = W(i)
    BY <1>5, <2>1
  <2>3. H(i) = IF s >= 2 THEN v.lanes[s - 2].value ELSE h
    BY <2>1
  <2>4. PICK high : high = H(i)
    OBVIOUS
  <2>5. PICK count : count = Serial!Counted(high * 256 + v.lanes[i].value)
    OBVIOUS
  <2>6. Serial!OneByte(Walker("Header", 1, l, high, c, f, B, E), v.lanes[i])
          = Walker(Serial!AfterBlock(count), 0, l, high, count, f, B, E)
    BY <2>5, ByteOfHeader
  <2>7. a[i + 1] = Serial!OneByte(Walker("Header", s - i, l, H(i), c, f, B, E), v.lanes[i])
    BY <1>2, <2>1, <2>2
  <2> HIDE DEF H
  <2>8. a[s] = Walker(Serial!AfterBlock(count), 0, l, high, count, f, B, E)
    BY <2>1, <2>4, <2>6, <2>7
  <2> QED
    BY <2>1, <2>3, <2>4, <2>5, <2>8
<1> QED
  BY <1>5, <1>6 DEF HeaderOnward, HeaderOver

\* Bytes of a dropped rest change nothing.
LEMMA DropRun ==
  ASSUME NEW v, v.keep \in Nat, NEW a, Walks(a, v), NEW m \in 0 .. v.keep,
         NEW s, NEW l, NEW h, NEW c, NEW f, NEW B, NEW E,
         a[m] = Walker("Drop", s, l, h, c, f, B, E)
  PROVE  a[v.keep] = a[m]
<1> DEFINE k == v.keep - m
           S == {i \in 0 .. k : a[m + i] = a[m]}
<1>1. k \in Nat /\ m \in Nat /\ m + k = v.keep
  OBVIOUS
<1>2. 0 \in S
  BY <1>1
<1>3. ASSUME NEW i \in 0 .. k - 1, i \in S PROVE i + 1 \in S
  <2>1. m + (i + 1) \in 1 .. v.keep /\ (m + (i + 1)) - 1 = m + i /\ i + 1 \in 0 .. k
    BY <1>1
  <2>2. a[m + (i + 1)] = Serial!OneByte(a[m + i], v.lanes[m + i])
    BY <2>1 DEF Walks
  <2>3. a[m + i] = Walker("Drop", s, l, h, c, f, B, E)
    BY <1>3
  <2>4. a[m + (i + 1)] = a[m]
    BY <2>2, <2>3, ByteOfDrop
  <2> QED
    BY <2>1, <2>4
<1>4. \A i \in 0 .. k : i \in S
  <2> HIDE DEF S, k
  <2> QED
    BY <1>1, <1>2, <1>3, Steps
<1>5. k \in 0 .. k
  BY <1>1
<1> QED
  BY <1>1, <1>4, <1>5

\* The low byte of a length field, and what follows it.
LEMMA LowRun ==
  ASSUME NEW v, v.keep \in 1 .. 8, NEW a, Walks(a, v), NEW m \in 0 .. v.keep - 1,
         NEW s, NEW l, NEW h, NEW c, NEW f, NEW E, NEW B, IsBuffer(B),
         a[m] = Walker("Length_low", s, l, h, c, f, B, E),
         NEW field \in Int, field = h * 256 + v.lanes[m].value
  PROVE  a[v.keep] = IF field < 12 THEN Walker("Drop", s, l, h, c, f, B, E)
                     ELSE Bodily(v, m + 1, v.keep - (m + 1), field, field, h, c - 1, f, B, E)
<1>1. /\ m + 1 \in 1 .. v.keep /\ (m + 1) - 1 = m /\ m + 1 \in 0 .. v.keep
      /\ v.keep \in Nat /\ v.keep - (m + 1) \in 0 .. v.keep - (m + 1)
      /\ (m + 1) + (v.keep - (m + 1)) = v.keep /\ v.keep - (m + 1) < 8
  OBVIOUS
<1>2. a[m + 1] = IF field < 12 THEN Walker("Drop", s, l, h, c, f, B, E)
                 ELSE Walker("Body", field, field, h, c - 1, f, B, E)
  <2>1. a[m + 1] = Serial!OneByte(a[m], v.lanes[m])
    BY <1>1 DEF Walks
  <2> QED
    BY <2>1, ByteOfLow
<1>3. CASE field < 12
  BY <1>1, <1>2, <1>3, DropRun
<1>4. CASE ~(field < 12)
  <2>1. PICK n \in 0 .. v.keep : n = m + 1
    BY <1>1
  <2>2. a[n] = Walker("Body", field, field, h, c - 1, f, B, E)
    BY <1>2, <1>4, <2>1
  <2>3. /\ field <= field /\ field > 0 /\ v.keep - n < field /\ v.keep - n \in 0 .. v.keep - n
        /\ n + (v.keep - n) = v.keep
    <3>1. v.keep - n < 8 /\ v.keep - n \in 0 .. v.keep - n /\ n + (v.keep - n) = v.keep
      BY <1>1, <2>1
    <3> QED
      BY <1>4, <3>1
  <2>4. \A i \in 0 .. v.keep - n : i < field => a[n + i] = Bodily(v, n, i, field, field, h, c - 1, f, B, E)
    <3>1. PICK c1 : c1 = c - 1
      OBVIOUS
    <3>2. a[n] = Walker("Body", field, field, h, c1, f, B, E)
      BY <2>2, <3>1
    <3>3. v.keep \in Nat /\ field <= field /\ field > 0
      BY <2>3
    <3>4. \A i \in 0 .. v.keep - n : i < field => a[n + i] = Bodily(v, n, i, field, field, h, c1, f, B, E)
      <4>1. BodyOnward(v, a, n, field, field, h, c1, f, B, E)
        BY <3>2, <3>3, BodyRun
      <4> QED
        BY <4>1 DEF BodyOnward
    <3> QED
      BY <3>1, <3>4
  <2>5. a[v.keep] = Bodily(v, n, v.keep - n, field, field, h, c - 1, f, B, E)
    BY <2>3, <2>4
  <2> QED
    BY <1>4, <2>1, <2>5
<1> QED
  BY <1>3, <1>4


-----------------------------------------------------------------------------
(* The beat at a time framer, next to it. *)

MessageOut(v) ==
  IF Complete(v) THEN [length |-> state.length, bytes |-> MessageSoFar(v),
                       t_first |-> state.first, t_last |-> now]
  ELSE NoMessage
SkipRest == IF PrefixEnds THEN 0 ELSE IF Counting THEN state.skip - 8 ELSE state.skip
HighRest(v) == IF Is("Header") /\ state.skip \in 2 .. 9 THEN v.lanes[(K - 2) % 8].value ELSE state.high
CountRest(v) == IF Is("Header") /\ PrefixEnds THEN HeaderCount(v) ELSE state.count
FirstRest == IF Is("Body") /\ Base = 0 THEN now ELSE state.first

Agrees(v, w) ==
  /\ w.buffer = BufferAfter(v) /\ w.emit = MessageOut(v)
  /\ v.keep = 8 => w.state = StateAfter(v, now)

BeatKept(v) == v.keep \in 1 .. 8 /\ \A i \in 0 .. 7 : v.lanes[i].value \in 0 .. 255

LEMMA KeepFacts ==
  ASSUME NEW v, BeatKept(v)
  PROVE  v.keep \in 1 .. 8 /\ v.keep \in Int /\ v.keep \in Nat /\ 0 \in 0 .. v.keep
<1>1. v.keep \in 1 .. 8
  BY Zenon DEF BeatKept
<1>2. \A k \in 1 .. 8 : k \in Int /\ k \in Nat /\ 0 \in 0 .. k
  OBVIOUS
<1> QED
  BY <1>1, <1>2, Zenon

LEMMA LaneFacts ==
  ASSUME NEW v, BeatKept(v), NEW i \in 0 .. 7
  PROVE  v.lanes[i].value \in 0 .. 255 /\ v.lanes[i].value \in Int
<1>1. v.lanes[i].value \in 0 .. 255
  BY Zenon DEF BeatKept
<1>2. \A x \in 0 .. 255 : x \in Int
  OBVIOUS
<1> QED
  BY <1>1, <1>2, Zenon

\* Equal registers, equal states.
LEMMA AgreesWhen ==
  ASSUME NEW v, NEW phase, NEW s, NEW l, NEW h, NEW c, NEW f, NEW B, NEW E,
         B = BufferAfter(v), E = MessageOut(v),
         v.keep = 8 =>
           /\ phase = PhaseAfter(v) /\ s = SkipAfter(v)
           /\ l = IF Start(v) THEN Field(v) ELSE state.length
           /\ h = HighAfter(v) /\ c = CountNext(v) /\ f = FirstAfter(v, now)
  PROVE  Agrees(v, Walker(phase, s, l, h, c, f, B, E))
<1> DEFINE w == Walker(phase, s, l, h, c, f, B, E)
<1>1. w.state = Serial!State(phase, s, l, h, c, f) /\ w.buffer = B /\ w.emit = E
  BY WalkerIs
<1> HIDE DEF w
<1>2. ASSUME v.keep = 8 PROVE Serial!State(phase, s, l, h, c, f) = StateAfter(v, now)
  BY <1>2 DEF Serial!State, StateAfter
<1>3. Agrees(v, w)
  BY <1>1, <1>2 DEF Agrees
<1> QED
  BY <1>3 DEF w

\* The buffer after a beat, without and with the start of a message.
LEMMA NoStart ==
  ASSUME NEW v, ~Start(v) \/ LowLane + 1 >= v.keep, LowLane \in Int, v.keep \in Int
  PROVE  BufferAfter(v) = MessageSoFar(v)
<1>1. IsBuffer(MessageSoFar(v))
  BY DEF IsBuffer, MessageSoFar, MessageBytes
<1>2. ASSUME NEW j \in 0 .. 39
      PROVE  ~(j < 7 /\ Start(v) /\ LowLane + j + 1 < 8 /\ LowLane + j + 1 < v.keep)
  OBVIOUS
<1>3. BufferAfter(v) = [j \in 0 .. 39 |->
         IF j < 7 /\ Start(v) /\ LowLane + j + 1 < 8 /\ LowLane + j + 1 < v.keep
           THEN v.lanes[LowLane + j + 1] ELSE MessageSoFar(v)[j]]
  <2>1. 0 .. MessageBytes - 1 = 0 .. 39
    BY DEF MessageBytes
  <2> QED
    BY <2>1, Zenon DEF BufferAfter
<1>4. BufferAfter(v) = [j \in 0 .. 39 |-> MessageSoFar(v)[j]]
  BY <1>2, <1>3
<1> QED
  BY <1>1, <1>4 DEF IsBuffer

LEMMA StartFills ==
  ASSUME NEW v, Start(v), v.keep \in 1 .. 8, NEW n \in 0 .. 7, LowLane = n, n + 1 <= v.keep
  PROVE  BufferAfter(v) = Fill(v, n + 1, v.keep - (n + 1), 0, MessageSoFar(v))
<1>1. BufferAfter(v) = [j \in 0 .. 39 |->
         IF j < 7 /\ Start(v) /\ n + j + 1 < 8 /\ n + j + 1 < v.keep
           THEN v.lanes[n + j + 1] ELSE MessageSoFar(v)[j]]
  <2>1. 0 .. MessageBytes - 1 = 0 .. 39
    BY DEF MessageBytes
  <2> QED
    BY <2>1, Zenon DEF BufferAfter
<1>2. ASSUME NEW j \in 0 .. 39
      PROVE  /\ (j < 7 /\ n + j + 1 < 8 /\ n + j + 1 < v.keep)
                  <=> (0 <= j /\ j < 0 + (v.keep - (n + 1)))
             /\ n + j + 1 = (n + 1) + (j - 0)
  OBVIOUS
<1>3. ASSUME NEW j \in 0 .. 39
      PROVE  (IF j < 7 /\ Start(v) /\ n + j + 1 < 8 /\ n + j + 1 < v.keep
                THEN v.lanes[n + j + 1] ELSE MessageSoFar(v)[j])
              = IF 0 <= j /\ j < 0 + (v.keep - (n + 1)) THEN v.lanes[(n + 1) + (j - 0)]
                ELSE MessageSoFar(v)[j]
  BY <1>2
<1> QED
  BY <1>1, <1>3 DEF Fill

\* The message so far, outside and inside a body.
LEMMA SoFarElse ==
  ASSUME NEW v, ~Is("Body"), IsBuffer(buffer)
  PROVE  MessageSoFar(v) = buffer
<1>1. MessageSoFar(v) = [j \in 0 .. 39 |-> buffer[j]]
  BY DEF MessageSoFar, MessageBytes
<1> QED
  BY <1>1 DEF IsBuffer

LEMMA SoFarIs ==
  ASSUME NEW v, v.keep \in 1 .. 8, Is("Body"), NEW l \in Int, NEW s \in Int,
         l = state.length, s = state.skip, s > 0, s <= l, l < Word,
         NEW n \in Int, n = IF s <= v.keep THEN s ELSE v.keep
  PROVE  Base = l - s /\ MessageSoFar(v) = Fill(v, 0, n, l - s, buffer)
<1>1. PICK o \in Int : o = l - s /\ 0 <= o /\ o < Word /\ o + s < Word
  BY WordNat
<1>2. Base = o
  BY <1>1, SmallMod, WordNat DEF Base
<1>3. MessageSoFar(v) = [j \in 0 .. 39 |->
         IF (j - o) % Word < 8 /\ (j - o) % Word < s /\ (j - o) % Word < v.keep
           THEN v.lanes[(j - o) % Word] ELSE buffer[j]]
  <2>1. 0 .. MessageBytes - 1 = 0 .. 39
    BY DEF MessageBytes
  <2>2. MessageSoFar(v) = [j \in 0 .. MessageBytes - 1 |->
         IF Is("Body") /\ (j - Base) % Word < 8 /\ (j - Base) % Word < state.skip /\ (j - Base) % Word < v.keep
           THEN v.lanes[(j - Base) % Word] ELSE buffer[j]]
    BY Zenon DEF MessageSoFar
  <2> QED
    BY <1>2, <2>1, <2>2
<1>4. ASSUME NEW j \in 0 .. 39
      PROVE  (IF (j - o) % Word < 8 /\ (j - o) % Word < s /\ (j - o) % Word < v.keep
                THEN v.lanes[(j - o) % Word] ELSE buffer[j])
              = IF o <= j /\ j < o + n THEN v.lanes[0 + (j - o)] ELSE buffer[j]
  <2>1. CASE o <= j
    <3>1. j - o \in Int /\ 0 <= j - o /\ j - o < Word
      BY <1>1, <2>1, WordIs
    <3>2. (j - o) % Word = j - o
      BY <3>1, SmallMod
    <3>3. (j - o < 8 /\ j - o < s /\ j - o < v.keep) <=> (o <= j /\ j < o + n)
      <4>1. PICK k \in 1 .. 8 : k = v.keep
        OBVIOUS
      <4>2. n <= 8 /\ n <= s /\ n <= k /\ (n = s \/ n = k)
        BY <4>1
      <4>3. PICK x \in Int : x = j - o
        BY <3>1
      <4>4. (x < 8 /\ x < s /\ x < k) <=> x < n
        BY <4>2
      <4>5. x < n <=> (o <= j /\ j < o + n)
        BY <1>1, <2>1, <4>3
      <4> QED
        BY <4>1, <4>3, <4>4, <4>5
    <3>4. 0 + (j - o) = j - o
      OBVIOUS
    <3> QED
      BY <3>2, <3>3, <3>4
  <2>2. CASE j < o
    <3>1. j - o \in Int /\ -Word <= j - o /\ j - o < 0
      BY <1>1, <2>2, WordIs
    <3>2. (j - o) % Word = j - o + Word
      BY <3>1, SmallMod
    <3>3. ~(j - o + Word < s) /\ ~(o <= j)
      BY <1>1, <2>2, WordNat
    <3> QED
      BY <3>2, <3>3
  <2> QED
    BY <1>1, <2>1, <2>2
<1>5. Fill(v, 0, n, o, buffer) = [j \in 0 .. 39 |-> IF o <= j /\ j < o + n THEN v.lanes[0 + (j - o)] ELSE buffer[j]]
  BY Zenon DEF Fill
<1>6. MessageSoFar(v) = Fill(v, 0, n, o, buffer)
  BY <1>3, <1>4, <1>5
<1> QED
  BY <1>1, <1>2, <1>6


\* The registers after a beat in which no body starts, and in which one does.
LEMMA RestAfter ==
  ASSUME NEW v, ~Start(v)
  PROVE  /\ SkipAfter(v) = SkipRest
         /\ CountNext(v) = CountRest(v)
         /\ FirstAfter(v, now) = FirstRest
         /\ ~HighHere(v) => HighAfter(v) = HighRest(v)
         /\ HighHere(v) => HighAfter(v) = v.lanes[HighLane].value
BY DEF SkipAfter, SkipRest, CountNext, CountRest, FirstAfter, FirstRest, BodyStarts,
       HighAfter, HighRest

LEMMA StartAfter ==
  ASSUME NEW v, Start(v)
  PROVE  /\ PhaseAfter(v) = "Body" /\ SkipAfter(v) = Field(v) + LowLane - 7
         /\ CountNext(v) = CountAfter(v) - 1
         /\ FirstAfter(v, now) = IF LowLane <= 6 THEN now ELSE FirstRest
         /\ ~HighHere(v) => HighAfter(v) = HighRest(v)
         /\ HighHere(v) => HighAfter(v) = v.lanes[HighLane].value
BY DEF PhaseAfter, SkipAfter, CountNext, FirstAfter, FirstRest, BodyStarts, HighAfter, HighRest

\* What both carry up to a length field.
Level(v, s, l, c, f, B, E) ==
  /\ s = SkipRest /\ l = state.length /\ c = CountRest(v) /\ f = FirstRest
  /\ B = MessageSoFar(v) /\ E = MessageOut(v)

\* From the low byte of a length field on.
LEMMA LowAgrees ==
  ASSUME NEW v, BeatKept(v), NEW a, Walks(a, v), NEW m \in 0 .. 7, m < v.keep,
         NEW s, NEW l, NEW h \in Int, NEW c, NEW f, NEW B, NEW E,
         a[m] = Walker("Length_low", s, l, h, c, f, B, E),
         IsBuffer(B), Level(v, s, l, c, f, B, E), c = CountAfter(v),
         LowHere(v), LowLane = m, Field(v) = h * 256 + v.lanes[m].value,
         h = HighAfter(v)
  PROVE  Agrees(v, a[v.keep])
<1>1. PICK k \in 1 .. 8 : k = v.keep
  BY KeepFacts
<1>2. m \in 0 .. v.keep - 1 /\ v.keep \in 1 .. 8 /\ m + 1 <= v.keep
  BY <1>1
<1>3. PICK field \in Int : field = Field(v)
  <2>1. PICK low \in Int : low = v.lanes[m].value
    BY LaneFacts
  <2>2. h * 256 + low \in Int
    OBVIOUS
  <2>3. Field(v) = h * 256 + low
    BY <2>1
  <2> QED
    BY <2>2, <2>3
<1>4. a[v.keep] = IF field < 12 THEN Walker("Drop", s, l, h, c, f, B, E)
                  ELSE Bodily(v, m + 1, v.keep - (m + 1), field, field, h, c - 1, f, B, E)
  BY <1>2, <1>3, LowRun
<1>5. CASE field < 12
  <2>1. ~Start(v) /\ PhaseAfter(v) = "Drop"
    BY <1>3, <1>5 DEF Start, PhaseAfter, MinLength
  <2>2. B = BufferAfter(v) /\ E = MessageOut(v)
    BY <1>1, <2>1, NoStart DEF Level
  <2>3. /\ s = SkipAfter(v) /\ l = (IF Start(v) THEN Field(v) ELSE state.length)
        /\ c = CountNext(v) /\ f = FirstAfter(v, now)
    BY <2>1, RestAfter DEF Level
  <2>4. Agrees(v, Walker("Drop", s, l, h, c, f, B, E))
    BY <2>1, <2>2, <2>3, AgreesWhen
  <2> QED
    BY <1>4, <1>5, <2>4
<1>6. CASE ~(field < 12)
  <2>1. Start(v)
    BY <1>3, <1>6 DEF Start, MinLength
  <2>2. PICK i \in Nat : i = v.keep - (m + 1) /\ (v.keep = 8 => i = 7 - m)
    BY <1>1, <1>2
  <2>3. PICK s1, c1, f1, B1 :
           /\ s1 = field - i /\ c1 = c - 1 /\ f1 = (IF i > 0 THEN now ELSE f)
           /\ B1 = Fill(v, m + 1, i, 0, B)
    OBVIOUS
  <2>4. Bodily(v, m + 1, i, field, field, h, c1, f, B, E) = Walker("Body", s1, field, h, c1, f1, B1, E)
    <3>1. field - field = 0
      OBVIOUS
    <3>2. f1 = IF field = field /\ i > 0 THEN now ELSE f
      BY <2>3
    <3> QED
      BY <2>3, <3>1, <3>2 DEF Bodily
  <2>5. B1 = BufferAfter(v) /\ E = MessageOut(v)
    BY <1>2, <2>1, <2>2, <2>3, StartFills DEF Level
  <2>6. /\ PhaseAfter(v) = "Body" /\ SkipAfter(v) = field + m - 7 /\ c1 = CountNext(v)
        /\ FirstAfter(v, now) = IF m <= 6 THEN now ELSE f
    BY <1>3, <2>1, <2>3, StartAfter DEF Level
  <2>7. ASSUME v.keep = 8
        PROVE  s1 = SkipAfter(v) /\ f1 = FirstAfter(v, now)
               /\ field = (IF Start(v) THEN Field(v) ELSE state.length)
    <3>1. i = 7 - m /\ field - i = field + m - 7 /\ (i > 0 <=> m <= 6)
      BY <2>2, <2>7
    <3> QED
      BY <1>3, <2>1, <2>3, <2>6, <3>1
  <2>8. Agrees(v, Walker("Body", s1, field, h, c1, f1, B1, E))
    BY <2>5, <2>6, <2>7, AgreesWhen
  <2>9. a[v.keep] = Bodily(v, m + 1, i, field, field, h, c1, f, B, E)
    BY <1>4, <1>6, <2>2, <2>3
  <2> QED
    BY <2>4, <2>8, <2>9
<1> QED
  BY <1>5, <1>6

\* From a length field on.
LEMMA LengthAgrees ==
  ASSUME NEW v, BeatKept(v), NEW a, Walks(a, v), NEW m \in 0 .. 7, m <= v.keep,
         NEW s, NEW l, NEW h, NEW c, NEW f, NEW B, NEW E,
         a[m] = Walker("Length", s, l, h, c, f, B, E),
         IsBuffer(B), Level(v, s, l, c, f, B, E), c = CountAfter(v),
         HighHere(v), HighLane = m, LowLane = m + 1, ~Is("Length_low")
  PROVE  Agrees(v, a[v.keep])
<1>1. PICK k \in 1 .. 8 : k = v.keep
  BY KeepFacts
<1> PICK low \in Int : low = LowLane /\ low = m + 1
  OBVIOUS
<1>2. CASE k = m
  <2>1. B = BufferAfter(v) /\ E = MessageOut(v)
    <3>1. LowLane \in Int /\ v.keep \in Int /\ LowLane + 1 >= v.keep
      <4>1. low + 1 >= k
        BY <1>2
      <4> QED
        BY <1>1, <4>1
    <3> QED
      BY <3>1, NoStart DEF Level
  <2>2. v.keep # 8
    BY <1>1, <1>2
  <2>3. Agrees(v, Walker("Length", s, l, h, c, f, B, E))
    BY <2>1, <2>2, AgreesWhen
  <2>4. v.keep = m
    BY <1>1, <1>2
  <2> QED
    BY <2>3, <2>4
<1>3. CASE k # m
  <2>1. PICK h1 \in Int : h1 = v.lanes[m].value
    BY LaneFacts
  <2>2. m + 1 \in 1 .. v.keep /\ (m + 1) - 1 = m
    BY <1>1, <1>3
  <2>3. a[m + 1] = Walker("Length_low", s, l, h1, c, f, B, E)
    <3>1. a[m + 1] = Serial!OneByte(a[m], v.lanes[m])
      BY <2>2 DEF Walks
    <3> QED
      BY <2>1, <3>1, ByteOfLength
  <2>4. CASE k = m + 1
    <3>1. v.keep = 8 => ~(LowLane < 8)
      <4>1. k = 8 => ~(low < 8)
        BY <2>4
      <4> QED
        BY <1>1, <4>1
    <3>2. v.keep = 8 => ~Start(v) /\ PhaseAfter(v) = "Length_low"
      BY <3>1 DEF Start, LowHere, PhaseAfter
    <3>3. B = BufferAfter(v) /\ E = MessageOut(v)
      <4>1. LowLane \in Int /\ v.keep \in Int /\ LowLane + 1 >= v.keep
        <5>1. low + 1 >= k
          BY <2>4
        <5> QED
          BY <1>1, <5>1
      <4> QED
        BY <4>1, NoStart DEF Level
    <3>4. v.keep = 8 =>
            /\ s = SkipAfter(v) /\ l = (IF Start(v) THEN Field(v) ELSE state.length)
            /\ h1 = HighAfter(v) /\ c = CountNext(v) /\ f = FirstAfter(v, now)
      BY <2>1, <3>2, RestAfter DEF Level
    <3>5. Agrees(v, Walker("Length_low", s, l, h1, c, f, B, E))
      BY <3>2, <3>3, <3>4, AgreesWhen
    <3> QED
      BY <1>1, <2>3, <2>4, <3>5
  <2>5. CASE k # m + 1
    <3>1. PICK n \in 0 .. 7 : n = m + 1 /\ n < v.keep
      <4>1. m + 1 \in 0 .. 7 /\ m + 1 < v.keep
        BY <1>1, <1>3, <2>5
      <4> QED
        BY <4>1
    <3>2. LowHere(v) /\ LowLane = n /\ LowLane % 8 = n
      <4>1. n % 8 = n
        BY <3>1
      <4> QED
        BY <3>1, <4>1 DEF LowHere
    <3>3. Field(v) = h1 * 256 + v.lanes[n].value
      BY <2>1, <3>2 DEF Field
    <3>4. h1 = HighAfter(v)
      BY <2>1 DEF HighAfter
    <3>5. a[n] = Walker("Length_low", s, l, h1, c, f, B, E)
      BY <2>3, <3>1
    <3> QED
      BY <3>1, <3>2, <3>3, <3>4, <3>5, LowAgrees
  <2> QED
    BY <2>4, <2>5
<1> QED
  BY <1>2, <1>3

\* From the end of a header or a body on.
LEMMA EndAgrees ==
  ASSUME NEW v, BeatKept(v), NEW a, Walks(a, v), NEW m \in 1 .. 8, m <= v.keep,
         state.skip = m, Counting,
         NEW l, NEW h, NEW c, NEW f, NEW B, NEW E,
         a[m] = Walker(Serial!AfterBlock(c), 0, l, h, c, f, B, E),
         IsBuffer(B), Level(v, 0, l, c, f, B, E), c = CountAfter(v), h = HighRest(v)
  PROVE  Agrees(v, a[v.keep])
<1>1. PICK k \in 1 .. 8 : k = v.keep
  BY KeepFacts
<1>2. PrefixEnds /\ (Boundary <=> m < 8) /\ ~Is("Length") /\ ~Is("Length_low")
      /\ LowLane \in Int
  <2>1. PrefixEnds /\ (Boundary <=> m < 8) /\ ~Is("Length") /\ ~Is("Length_low")
    BY DEF PrefixEnds, Boundary, Counting, Is
  <2>2. K \in Int
    BY DEF K
  <2> QED
    BY <2>1, <2>2 DEF LowLane, HighLane
<1>3. CASE c = 0
  <2>1. ~HighHere(v) /\ ~LowHere(v) /\ ~Start(v) /\ PhaseAfter(v) = "Drop"
    <3>1. ~HighHere(v)
      BY <1>2, <1>3 DEF HighHere
    <3> QED
      BY <1>2, <1>3, <3>1 DEF LowHere, Start, PhaseAfter
  <2>2. a[m] = Walker("Drop", 0, l, h, c, f, B, E)
    BY <1>3 DEF Serial!AfterBlock
  <2>3. a[v.keep] = a[m]
    <3>1. v.keep \in Nat /\ m \in 0 .. v.keep
      BY <1>1
    <3> QED
      BY <2>2, <3>1, DropRun
  <2>4. B = BufferAfter(v) /\ E = MessageOut(v)
    BY <1>1, <1>2, <2>1, NoStart DEF Level
  <2>5. /\ 0 = SkipAfter(v) /\ l = (IF Start(v) THEN Field(v) ELSE state.length)
        /\ h = HighAfter(v) /\ c = CountNext(v) /\ f = FirstAfter(v, now)
    BY <2>1, RestAfter DEF Level
  <2>6. Agrees(v, Walker("Drop", 0, l, h, c, f, B, E))
    BY <2>1, <2>4, <2>5, AgreesWhen
  <2> QED
    BY <2>2, <2>3, <2>6
<1>4. CASE c # 0 /\ m = 8
  <2>1. ~HighHere(v) /\ ~LowHere(v) /\ ~Start(v) /\ PhaseAfter(v) = "Length"
    <3>1. ~HighHere(v)
      BY <1>2, <1>4 DEF HighHere
    <3> QED
      BY <1>2, <1>4, <3>1 DEF LowHere, Start, PhaseAfter
  <2>2. a[v.keep] = Walker("Length", 0, l, h, c, f, B, E)
    <3>1. v.keep = m
      BY <1>1, <1>4
    <3> QED
      BY <1>4, <3>1 DEF Serial!AfterBlock
  <2>4. B = BufferAfter(v) /\ E = MessageOut(v)
    BY <1>1, <1>2, <2>1, NoStart DEF Level
  <2>5. /\ 0 = SkipAfter(v) /\ l = (IF Start(v) THEN Field(v) ELSE state.length)
        /\ h = HighAfter(v) /\ c = CountNext(v) /\ f = FirstAfter(v, now)
    BY <2>1, RestAfter DEF Level
  <2>6. Agrees(v, Walker("Length", 0, l, h, c, f, B, E))
    BY <2>1, <2>4, <2>5, AgreesWhen
  <2> QED
    BY <2>2, <2>6
<1>5. CASE c # 0 /\ m # 8
  <2>1. m \in 0 .. 7 /\ m < 8
    BY <1>5
  <2>2. HighHere(v)
    BY <1>2, <1>5, <2>1 DEF HighHere
  <2>3. HighLane = m /\ LowLane = m + 1
    <3>1. K = m
      BY <2>1, SmallMod DEF K
    <3> QED
      BY <1>2, <3>1 DEF HighLane, LowLane
  <2>4. a[m] = Walker("Length", 0, l, h, c, f, B, E)
    BY <1>5 DEF Serial!AfterBlock
  <2> QED
    BY <1>2, <2>1, <2>2, <2>3, <2>4, LengthAgrees
<1> QED
  BY <1>3, <1>4, <1>5


\* The states the framer can be in, whatever the bytes.
LegalState(s) ==
  /\ s = Serial!State(s.phase, s.skip, s.length, s.high, s.count, s.first)
  /\ s.phase \in Phases
  /\ s.skip \in Int /\ s.length \in Int /\ s.high \in 0 .. 255
  /\ s.phase = "Header" => s.skip \in 1 .. HeaderBytes
  /\ s.phase = "Body" => /\ s.length >= MinLength /\ s.length < Word
                         /\ 1 <= s.skip /\ s.skip <= s.length
Legal == LegalState(state) /\ IsBuffer(buffer)

\* Where the rest of the packet is dropped.
LEMMA DropAgrees ==
  ASSUME Legal, Is("Drop"), NEW v, BeatKept(v), NEW a, Walks(a, v)
  PROVE  Agrees(v, a[v.keep])
<1>1. PICK s, l, h, c, f :
        s = state.skip /\ l = state.length /\ h = state.high /\ c = state.count /\ f = state.first
  OBVIOUS
<1>2. a[0] = Walker("Drop", s, l, h, c, f, buffer, NoMessage)
  BY <1>1 DEF Walks, Walker, Legal, LegalState, Is
<1>3. a[v.keep] = a[0]
  <2>1. v.keep \in Nat /\ 0 \in 0 .. v.keep
    BY KeepFacts
  <2> QED
    BY <1>2, <2>1, DropRun
<1>4. /\ ~Is("Header") /\ ~Is("Length") /\ ~Is("Length_low") /\ ~Is("Body")
      /\ ~Counting /\ ~PrefixEnds /\ ~Boundary
  BY DEF Is, Counting, PrefixEnds, Boundary
<1>5. ~HighHere(v) /\ ~LowHere(v) /\ ~Start(v) /\ ~Complete(v) /\ PhaseAfter(v) = "Drop"
  BY <1>4 DEF HighHere, LowHere, Start, Complete, PhaseAfter, Is
<1>6. buffer = BufferAfter(v) /\ NoMessage = MessageOut(v)
  <2>1. BufferAfter(v) = MessageSoFar(v)
    <3>1. LowLane \in Int /\ v.keep \in Int
      <4>1. K \in Int
        BY DEF Legal, LegalState, K
      <4> QED
        BY <4>1, KeepFacts DEF LowLane, HighLane
    <3> QED
      BY <1>5, <3>1, NoStart
  <2> QED
    BY <1>4, <1>5, <2>1, SoFarElse DEF Legal, LegalState, MessageOut
<1>7. /\ s = SkipAfter(v) /\ l = (IF Start(v) THEN Field(v) ELSE state.length)
      /\ h = HighAfter(v) /\ c = CountNext(v) /\ f = FirstAfter(v, now)
  BY <1>1, <1>4, <1>5, RestAfter DEF SkipRest, HighRest, CountRest, FirstRest
<1>8. Agrees(v, Walker("Drop", s, l, h, c, f, buffer, NoMessage))
  BY <1>5, <1>6, <1>7, AgreesWhen
<1> QED
  BY <1>2, <1>3, <1>8

\* At or in a length field.
LEMMA FieldAgrees ==
  ASSUME Legal, Is("Length") \/ Is("Length_low"), NEW v, BeatKept(v), NEW a, Walks(a, v)
  PROVE  Agrees(v, a[v.keep])
<1>1. PICK s, l, h, c, f :
        s = state.skip /\ l = state.length /\ h = state.high /\ c = state.count /\ f = state.first
  OBVIOUS
<1>2. a[0] = Walker(state.phase, s, l, h, c, f, buffer, NoMessage)
  BY <1>1 DEF Walks, Walker, Legal, LegalState
<1>3. /\ ~Is("Header") /\ ~Is("Body") /\ ~Counting /\ ~PrefixEnds /\ ~Boundary /\ ~Complete(v)
  BY DEF Is, Counting, PrefixEnds, Boundary, Complete
<1>4. Level(v, s, l, c, f, buffer, NoMessage) /\ c = CountAfter(v) /\ IsBuffer(buffer)
  BY <1>1, <1>3, SoFarElse DEF Level, SkipRest, CountRest, FirstRest, MessageOut, CountAfter, Legal, LegalState
<1>5. 0 \in 0 .. 7 /\ 0 < v.keep /\ 0 <= v.keep
  <2>1. PICK k \in 1 .. 8 : k = v.keep
    BY KeepFacts
  <2>2. 0 < k /\ 0 <= k
    OBVIOUS
  <2> QED
    BY <2>1, <2>2
<1>6. CASE Is("Length")
  <2>1. HighHere(v) /\ HighLane = 0 /\ ~Is("Length_low")
    BY <1>6 DEF HighHere, HighLane, Is
  <2>2. LowLane = 0 + 1
    BY <2>1 DEF LowLane
  <2>3. a[0] = Walker("Length", s, l, h, c, f, buffer, NoMessage)
    BY <1>2, <1>6 DEF Is
  <2> QED
    BY <1>4, <1>5, <2>1, <2>2, <2>3, LengthAgrees
<1>7. CASE Is("Length_low")
  <2>1. LowHere(v) /\ LowLane = 0 /\ ~HighHere(v)
    BY <1>3, <1>7 DEF LowHere, LowLane, HighHere, Is
  <2>2. Field(v) = h * 256 + v.lanes[0].value
    <3>1. LowLane % 8 = 0
      BY <2>1, SmallMod
    <3> QED
      BY <1>1, <1>7, <3>1 DEF Field
  <2>3. h = HighAfter(v) /\ h \in Int
    BY <1>1, <1>3, <2>1 DEF HighAfter, Legal, LegalState
  <2>4. a[0] = Walker("Length_low", s, l, h, c, f, buffer, NoMessage)
    BY <1>2, <1>7 DEF Is
  <2> QED
    BY <1>4, <1>5, <2>1, <2>2, <2>3, <2>4, LowAgrees
<1> QED
  BY <1>6, <1>7

\* A body of which this beat does not have the last byte.
LEMMA BodyGoesOn ==
  ASSUME Legal, Is("Body"), NEW v, BeatKept(v), NEW a, Walks(a, v), state.skip > v.keep
  PROVE  Agrees(v, a[v.keep])
<1>1. PICK s \in Int, l \in Int, h \in {state.high}, c \in {state.count}, f \in {state.first} :
        s = state.skip /\ l = state.length /\ h = state.high /\ c = state.count /\ f = state.first
  BY DEF Legal, LegalState
<1>2. a[0] = Walker("Body", s, l, h, c, f, buffer, NoMessage)
  BY <1>1 DEF Walks, Walker, Legal, LegalState, Is
<1>3. PICK k \in 1 .. 8 : k = v.keep
  BY KeepFacts
<1>4. /\ s > k /\ s > 0 /\ s <= l /\ l < Word /\ l >= 12 /\ IsBuffer(buffer)
  BY <1>1, <1>3 DEF Legal, LegalState, Is, MinLength
<1>5. a[k] = Bodily(v, 0, k, s, l, h, c, f, buffer, NoMessage)
  <2>1. BodyOnward(v, a, 0, s, l, h, c, f, buffer, NoMessage)
    <3>1. v.keep \in Nat /\ 0 \in 0 .. v.keep
      BY <1>3
    <3> QED
      BY <1>2, <1>4, <3>1, BodyRun
  <2>2. k \in 0 .. v.keep - 0 /\ 0 + k = k
    BY <1>3
  <2> QED
    BY <1>4, <2>1, <2>2 DEF BodyOnward
<1>6. Base = l - s /\ MessageSoFar(v) = Fill(v, 0, k, l - s, buffer)
  <2>1. k \in Int /\ k = IF s <= v.keep THEN s ELSE v.keep
    BY <1>3, <1>4
  <2> QED
    BY <1>1, <1>3, <1>4, <2>1, SoFarIs
<1>7. ~Complete(v)
  <2>1. CASE s <= 8
    <3>1. (s - 1) % 8 = s - 1
      BY <1>4, <2>1, SmallMod
    <3>2. ~((state.skip - 1) % 8 < v.keep)
      BY <1>1, <1>3, <1>4, <3>1
    <3> QED
      BY <3>2 DEF Complete
  <2>2. CASE ~(s <= 8)
    BY <1>1, <2>2 DEF Complete, PrefixEnds
  <2> QED
    BY <2>1, <2>2
<1>8. /\ ~Is("Header") /\ ~Is("Length") /\ ~Is("Length_low") /\ Counting /\ K \in Int
      /\ LowLane = K + 1 /\ LowLane \in Int
  <2>1. ~Is("Header") /\ ~Is("Length") /\ ~Is("Length_low") /\ Counting
    BY DEF Is, Counting
  <2>2. K \in Int
    BY <1>1 DEF K
  <2> QED
    BY <2>1, <2>2 DEF LowLane, HighLane
<1>9. ~Start(v) \/ LowLane + 1 >= v.keep
  <2>1. CASE s < 8
    <3>1. K = s
      BY <1>1, <1>4, <2>1, SmallMod DEF K
    <3> QED
      BY <1>3, <1>4, <1>8, <3>1
  <2>2. CASE ~(s < 8)
    <3>1. ~Boundary
      BY <1>1, <2>2 DEF Boundary
    <3> QED
      BY <1>8, <3>1 DEF Start, LowHere, HighHere
  <2> QED
    BY <2>1, <2>2
<1>10. v.keep = 8 => /\ ~PrefixEnds /\ ~Boundary /\ ~HighHere(v) /\ ~LowHere(v) /\ ~Start(v)
                     /\ PhaseAfter(v) = "Body"
  <2>1. SUFFICES ASSUME v.keep = 8
                 PROVE  /\ ~PrefixEnds /\ ~Boundary /\ ~HighHere(v) /\ ~LowHere(v) /\ ~Start(v)
                        /\ PhaseAfter(v) = "Body"
    OBVIOUS
  <2>2. ~PrefixEnds /\ ~Boundary
    <3>1. ~(s <= 8) /\ ~(s < 8)
      BY <1>3, <1>4, <2>1
    <3> QED
      BY <1>1, <3>1 DEF PrefixEnds, Boundary
  <2>3. ~HighHere(v) /\ ~LowHere(v) /\ ~Start(v)
    BY <1>8, <2>2 DEF HighHere, LowHere, Start
  <2> QED
    BY <2>2, <2>3 DEF PhaseAfter, Is
<1>11. PICK s1, f1, B1 : /\ s1 = s - k /\ f1 = (IF l = s /\ k > 0 THEN now ELSE f)
                         /\ B1 = Fill(v, 0, k, l - s, buffer)
  OBVIOUS
<1>12. a[k] = Walker("Body", s1, l, h, c, f1, B1, NoMessage)
  BY <1>5, <1>11 DEF Bodily
<1>13. B1 = BufferAfter(v) /\ NoMessage = MessageOut(v)
  <2>1. v.keep \in Int
    BY <1>3
  <2> QED
    BY <1>6, <1>7, <1>8, <1>9, <1>11, <2>1, NoStart DEF MessageOut
<1>14. ASSUME v.keep = 8
       PROVE  /\ s1 = SkipAfter(v) /\ l = (IF Start(v) THEN Field(v) ELSE state.length)
              /\ h = HighAfter(v) /\ c = CountNext(v) /\ f1 = FirstAfter(v, now)
  <2>1. ~PrefixEnds /\ ~HighHere(v) /\ ~Start(v)
    BY <1>10, <1>14
  <2>2. s1 = SkipRest /\ h = HighRest(v) /\ c = CountRest(v)
    BY <1>1, <1>3, <1>8, <1>11, <1>14, <2>1 DEF SkipRest, HighRest, CountRest
  <2>3. f1 = FirstRest
    <3>1. (l = s /\ k > 0) <=> Base = 0
      BY <1>6
    <3> QED
      BY <1>1, <1>11, <3>1 DEF FirstRest
  <2> QED
    BY <1>1, <2>1, <2>2, <2>3, RestAfter
<1>15. Agrees(v, Walker("Body", s1, l, h, c, f1, B1, NoMessage))
  BY <1>10, <1>13, <1>14, AgreesWhen
<1> QED
  BY <1>3, <1>12, <1>15

\* A body that ends in this beat.
LEMMA BodyEnds ==
  ASSUME Legal, Is("Body"), NEW v, BeatKept(v), NEW a, Walks(a, v), state.skip <= v.keep
  PROVE  Agrees(v, a[v.keep])
<1>1. PICK s \in Int, l \in Int, h \in {state.high}, c \in {state.count}, f \in {state.first} :
        s = state.skip /\ l = state.length /\ h = state.high /\ c = state.count /\ f = state.first
  BY DEF Legal, LegalState
<1>2. a[0] = Walker("Body", s, l, h, c, f, buffer, NoMessage)
  BY <1>1 DEF Walks, Walker, Legal, LegalState, Is
<1>3. PICK k \in 1 .. 8 : k = v.keep
  BY KeepFacts
<1>4. /\ s <= k /\ s > 0 /\ s <= l /\ l < Word /\ l >= 12 /\ IsBuffer(buffer) /\ s \in 1 .. 8
      /\ l # s
  BY <1>1, <1>3 DEF Legal, LegalState, Is, MinLength
<1>5. PICK B : B = Fill(v, 0, s, l - s, buffer)
  OBVIOUS
<1>6. PICK E : E = [length |-> l, bytes |-> B, t_first |-> f, t_last |-> now]
  OBVIOUS
<1>7. a[s] = Walker(Serial!AfterBlock(c), 0, l, h, c, f, B, E)
  <2>1. BodyOver(v, a, 0, s, l, h, c, f, buffer, NoMessage)
    <3>1. v.keep \in Nat /\ 0 \in 0 .. v.keep
      BY <1>3
    <3> QED
      BY <1>2, <1>4, <3>1, BodyRun
  <2>2. s <= v.keep - 0 /\ 0 + s = s
    BY <1>3, <1>4
  <2> QED
    BY <1>4, <1>5, <1>6, <2>1, <2>2 DEF BodyOver
<1>8. Base = l - s /\ MessageSoFar(v) = B
  <2>1. s = IF s <= v.keep THEN s ELSE v.keep
    BY <1>3, <1>4
  <2> QED
    BY <1>1, <1>3, <1>4, <1>5, <2>1, SoFarIs
<1>9. /\ ~Is("Header") /\ Counting /\ PrefixEnds
  BY <1>1, <1>4 DEF Is, Counting, PrefixEnds
<1>10. Complete(v)
  <2>1. (s - 1) % 8 = s - 1 /\ s - 1 < k
    BY <1>4, SmallMod
  <2> QED
    BY <1>1, <1>3, <1>9, <2>1 DEF Complete
<1>11. E = MessageOut(v)
  BY <1>1, <1>6, <1>8, <1>10 DEF MessageOut
<1>12. f = FirstRest
  <2>1. Base # 0
    BY <1>4, <1>8
  <2> QED
    BY <1>1, <2>1 DEF FirstRest
<1>13. Level(v, 0, l, c, f, B, E) /\ c = CountAfter(v) /\ h = HighRest(v)
  BY <1>1, <1>8, <1>9, <1>11, <1>12 DEF Level, SkipRest, CountRest, CountAfter, HighRest
<1>14. IsBuffer(B) /\ s <= v.keep /\ state.skip = s
  BY <1>1, <1>3, <1>4, <1>5, FillIsBuffer
<1> QED
  BY <1>4, <1>7, <1>9, <1>13, <1>14, EndAgrees


\* A header of which this beat does not have the last byte.
LEMMA HeaderGoesOn ==
  ASSUME Legal, Is("Header"), NEW v, BeatKept(v), NEW a, Walks(a, v), state.skip > v.keep
  PROVE  Agrees(v, a[v.keep])
<1>1. PICK s \in Int, l \in {state.length}, h \in {state.high}, c \in {state.count},
             f \in {state.first} :
        s = state.skip /\ l = state.length /\ h = state.high /\ c = state.count /\ f = state.first
  BY DEF Legal, LegalState
<1>2. a[0] = Walker("Header", s, l, h, c, f, buffer, NoMessage)
  BY <1>1 DEF Walks, Walker, Legal, LegalState, Is
<1>3. PICK k \in 1 .. 8 : k = v.keep
  BY KeepFacts
<1>4. s > k /\ s > 0 /\ IsBuffer(buffer)
  BY <1>1, <1>3 DEF Legal, LegalState, Is
<1>5. PICK s1, h1 : s1 = s - k /\ h1 = IF s >= 2 /\ k >= s - 1 THEN v.lanes[s - 2].value ELSE h
  OBVIOUS
<1>6. a[k] = Walker("Header", s1, l, h1, c, f, buffer, NoMessage)
  <2>1. HeaderOnward(v, a, s, l, h, c, f, buffer, NoMessage)
    <3>1. v.keep \in Nat
      BY <1>3
    <3> QED
      BY <1>2, <1>4, <3>1, HeaderRun
  <2>2. k \in 0 .. v.keep
    BY <1>3
  <2> QED
    BY <1>4, <1>5, <2>1, <2>2 DEF HeaderOnward
<1>7. /\ ~Is("Body") /\ ~Is("Length") /\ ~Is("Length_low") /\ ~Complete(v) /\ Counting /\ K \in Int
      /\ LowLane = K + 1 /\ LowLane \in Int
  <2>1. ~Is("Body") /\ ~Is("Length") /\ ~Is("Length_low") /\ ~Complete(v) /\ Counting
    BY DEF Is, Complete, Counting
  <2>2. K \in Int
    BY <1>1 DEF K
  <2> QED
    BY <2>1, <2>2 DEF LowLane, HighLane
<1>8. ~Start(v) \/ LowLane + 1 >= v.keep
  <2>1. CASE s < 8
    <3>1. K = s
      BY <1>1, <1>4, <2>1, SmallMod DEF K
    <3> QED
      BY <1>3, <1>4, <1>7, <3>1
  <2>2. CASE ~(s < 8)
    <3>1. ~Boundary
      BY <1>1, <2>2 DEF Boundary
    <3> QED
      BY <1>7, <3>1 DEF Start, LowHere, HighHere
  <2> QED
    BY <2>1, <2>2
<1>9. buffer = BufferAfter(v) /\ NoMessage = MessageOut(v)
  <2>1. v.keep \in Int
    BY <1>3
  <2> QED
    BY <1>4, <1>7, <1>8, <2>1, NoStart, SoFarElse DEF MessageOut
<1>10. v.keep = 8 => /\ ~PrefixEnds /\ ~Boundary /\ ~HighHere(v) /\ ~LowHere(v) /\ ~Start(v)
                     /\ PhaseAfter(v) = "Header"
  <2>1. SUFFICES ASSUME v.keep = 8
                 PROVE  /\ ~PrefixEnds /\ ~Boundary /\ ~HighHere(v) /\ ~LowHere(v) /\ ~Start(v)
                        /\ PhaseAfter(v) = "Header"
    OBVIOUS
  <2>2. ~PrefixEnds /\ ~Boundary
    <3>1. ~(s <= 8) /\ ~(s < 8)
      BY <1>3, <1>4, <2>1
    <3> QED
      BY <1>1, <3>1 DEF PrefixEnds, Boundary
  <2>3. ~HighHere(v) /\ ~LowHere(v) /\ ~Start(v)
    BY <1>7, <2>2 DEF HighHere, LowHere, Start
  <2> QED
    BY <2>2, <2>3 DEF PhaseAfter, Is
<1>11. ASSUME v.keep = 8
       PROVE  /\ s1 = SkipAfter(v) /\ l = (IF Start(v) THEN Field(v) ELSE state.length)
              /\ h1 = HighAfter(v) /\ c = CountNext(v) /\ f = FirstAfter(v, now)
  <2>1. ~PrefixEnds /\ ~HighHere(v) /\ ~Start(v)
    BY <1>10, <1>11
  <2>2. s1 = SkipRest /\ c = CountRest(v) /\ f = FirstRest
    BY <1>1, <1>3, <1>5, <1>7, <1>11, <2>1 DEF SkipRest, CountRest, FirstRest
  <2>3. h1 = HighRest(v)
    <3>1. k = 8
      BY <1>3, <1>11
    <3>2. CASE s = 9
      <4>1. s >= 2 /\ k >= s - 1 /\ s - 2 = 7 /\ s \in 2 .. 9
        BY <3>1, <3>2
      <4>2. (K - 2) % 8 = 7
        <5>1. K = s % 8
          BY <1>1 DEF K
        <5>2. \A x \in 2 .. 9 : ((x % 8) - 2) % 8 = x - 2
          OBVIOUS
        <5> QED
          BY <4>1, <5>1, <5>2
      <4> QED
        BY <1>1, <1>5, <4>1, <4>2 DEF HighRest
    <3>3. CASE s # 9
      <4>1. ~(k >= s - 1) /\ s \notin 2 .. 9
        BY <1>4, <3>1, <3>3
      <4> QED
        BY <1>1, <1>5, <4>1 DEF HighRest
    <3> QED
      BY <3>2, <3>3
  <2> QED
    BY <1>1, <2>1, <2>2, <2>3, RestAfter
<1>12. Agrees(v, Walker("Header", s1, l, h1, c, f, buffer, NoMessage))
  BY <1>9, <1>10, <1>11, AgreesWhen
<1> QED
  BY <1>3, <1>6, <1>12

\* A header that ends in this beat.
LEMMA HeaderEnds ==
  ASSUME Legal, Is("Header"), NEW v, BeatKept(v), NEW a, Walks(a, v), state.skip <= v.keep
  PROVE  Agrees(v, a[v.keep])
<1>1. PICK s \in Int, l \in {state.length}, h \in {state.high}, c0 \in {state.count},
             f \in {state.first} :
        s = state.skip /\ l = state.length /\ h = state.high /\ c0 = state.count /\ f = state.first
  BY DEF Legal, LegalState
<1>2. a[0] = Walker("Header", s, l, h, c0, f, buffer, NoMessage)
  BY <1>1 DEF Walks, Walker, Legal, LegalState, Is
<1>3. PICK k \in 1 .. 8 : k = v.keep
  BY KeepFacts
<1>4. s <= k /\ s > 0 /\ IsBuffer(buffer) /\ s \in 1 .. 8
  <2>1. s > 0 /\ IsBuffer(buffer)
    BY <1>1 DEF Legal, LegalState, Is
  <2> QED
    BY <1>1, <1>3, <2>1
<1>5. PICK high : high = IF s >= 2 THEN v.lanes[s - 2].value ELSE h
  OBVIOUS
<1>6. PICK c : c = Serial!Counted(high * 256 + v.lanes[s - 1].value)
  OBVIOUS
<1>7. a[s] = Walker(Serial!AfterBlock(c), 0, l, high, c, f, buffer, NoMessage)
  <2>1. HeaderOver(v, a, s, l, h, c0, f, buffer, NoMessage)
    <3>1. v.keep \in Nat
      BY <1>3
    <3> QED
      BY <1>2, <1>4, <3>1, HeaderRun
  <2>2. s <= v.keep
    BY <1>3, <1>4
  <2> QED
    BY <1>5, <1>6, <2>1, <2>2 DEF HeaderOver
<1>8. /\ ~Is("Body") /\ ~Complete(v) /\ Counting /\ PrefixEnds
  BY <1>1, <1>4 DEF Is, Complete, Counting, PrefixEnds
<1>9. /\ (K - 1) % 8 = s - 1
      /\ s >= 2 => (K - 2) % 8 = s - 2
  <2>1. \A x \in 1 .. 8 : /\ ((x % 8) - 1) % 8 = x - 1
                          /\ x >= 2 => ((x % 8) - 2) % 8 = x - 2
    OBVIOUS
  <2>2. K = s % 8
    BY <1>1 DEF K
  <2> QED
    BY <1>4, <2>1, <2>2
<1>10. HeaderCount(v) = c /\ HighRest(v) = high
  <2>1. CASE s = 1
    <3>1. ~(s >= 2) /\ s \notin 2 .. 9
      BY <2>1
    <3> QED
      BY <1>1, <1>5, <1>6, <1>9, <2>1, <3>1 DEF HeaderCount, HighRest, Serial!Counted
  <2>2. CASE s # 1
    <3>1. s >= 2 /\ s \in 2 .. 9
      BY <1>4, <2>2
    <3> QED
      BY <1>1, <1>5, <1>6, <1>9, <2>2, <3>1 DEF HeaderCount, HighRest, Serial!Counted
  <2> QED
    BY <2>1, <2>2
<1>11. Level(v, 0, l, c, f, buffer, NoMessage) /\ c = CountAfter(v) /\ high = HighRest(v)
  BY <1>1, <1>4, <1>8, <1>10, SoFarElse DEF Level, SkipRest, CountRest, CountAfter, FirstRest, MessageOut
<1>12. s <= v.keep /\ state.skip = s
  BY <1>1, <1>3, <1>4
<1> QED
  BY <1>4, <1>7, <1>8, <1>11, <1>12, EndAgrees

\* The two framers make the same of a beat.
LEMMA BothAgree ==
  ASSUME Legal, BeatKept(beat)
  PROVE  Agrees(beat, Serial!Walked)
<1>1. PICK a : a = After(beat)
  OBVIOUS
<1>2. Walks(a, beat) /\ Serial!Walked = a[beat.keep]
  <2>1. beat.keep \in Nat
    BY KeepFacts
  <2> QED
    BY <1>1, <2>1, AfterWalks, WalkedIs
<1>3. state.skip <= beat.keep \/ state.skip > beat.keep
  <2>1. \A x, y \in Int : x <= y \/ x > y
    OBVIOUS
  <2>2. beat.keep \in Int
    BY KeepFacts
  <2> QED
    BY <2>1, <2>2 DEF Legal, LegalState
<1>4. Is("Header") \/ Is("Length") \/ Is("Length_low") \/ Is("Body") \/ Is("Drop")
  BY DEF Legal, LegalState, Phases, Is
<1>5. Agrees(beat, a[beat.keep])
  BY <1>2, <1>3, <1>4, DropAgrees, FieldAgrees, HeaderGoesOn, HeaderEnds, BodyGoesOn, BodyEnds
<1> QED
  BY <1>2, <1>5


\* And it is in such a state after a beat too.
LEMMA LegalAfter ==
  ASSUME Legal, NEW v, BeatKept(v), NEW t
  PROVE  LegalState(StateAfter(v, t)) /\ IsBuffer(BufferAfter(v))
<1> DEFINE s == StateAfter(v, t)
<1>1. IsBuffer(BufferAfter(v))
  BY DEF IsBuffer, BufferAfter, MessageBytes
<1>2. /\ s.phase = PhaseAfter(v) /\ s.skip = SkipAfter(v)
      /\ s.length = (IF Start(v) THEN Field(v) ELSE state.length)
      /\ s.high = HighAfter(v) /\ s.count = CountNext(v) /\ s.first = FirstAfter(v, t)
      /\ s = Serial!State(s.phase, s.skip, s.length, s.high, s.count, s.first)
  BY DEF StateAfter, Serial!State
<1>3. /\ K \in 0 .. 7 /\ (K - 2) % 8 \in 0 .. 7 /\ HighLane \in 0 .. 7
      /\ LowLane \in 0 .. 8 /\ LowLane % 8 \in 0 .. 7
  <2>1. K \in 0 .. 7
    BY DEF Legal, LegalState, K
  <2>2. HighLane \in 0 .. 7
    BY <2>1 DEF HighLane
  <2>3. LowLane \in 0 .. 8
    BY <2>2 DEF LowLane
  <2> QED
    BY <2>1, <2>2, <2>3
<1>4. HighAfter(v) \in 0 .. 255
  <2>1. v.lanes[HighLane].value \in 0 .. 255 /\ v.lanes[(K - 2) % 8].value \in 0 .. 255
    BY <1>3, LaneFacts
  <2> QED
    BY <2>1 DEF HighAfter, Legal, LegalState
<1>5. Field(v) \in Int /\ Field(v) < Word
  <2>1. PICK x \in 0 .. 255, y \in 0 .. 255 : Field(v) = x * 256 + y
    <3>1. v.lanes[HighLane].value \in 0 .. 255 /\ v.lanes[LowLane % 8].value \in 0 .. 255
          /\ state.high \in 0 .. 255
      BY <1>3, LaneFacts DEF Legal, LegalState
    <3>2. CASE Is("Length_low")
      <4>1. Field(v) = state.high * 256 + v.lanes[LowLane % 8].value
        BY <3>2 DEF Field
      <4> QED
        BY <3>1, <4>1
    <3>3. CASE ~Is("Length_low")
      <4>1. Field(v) = v.lanes[HighLane].value * 256 + v.lanes[LowLane % 8].value
        BY <3>3 DEF Field
      <4> QED
        BY <3>1, <4>1
    <3> QED
      BY <3>2, <3>3
  <2> QED
    BY <2>1, WordIs
<1>6. PICK x \in Int, l \in Int : x = state.skip /\ l = state.length
  BY DEF Legal, LegalState
<1>7. CASE Start(v)
  <2>1. PhaseAfter(v) = "Body" /\ SkipAfter(v) = Field(v) + LowLane - 7 /\ Field(v) >= MinLength
    BY <1>7, StartAfter DEF Start
  <2>2. LowLane <= 7
    BY <1>3, <1>7 DEF Start, LowHere, LowLane, HighHere
  <2>3. SkipAfter(v) \in Int /\ 1 <= SkipAfter(v) /\ SkipAfter(v) <= Field(v)
    BY <1>3, <1>5, <2>1, <2>2 DEF MinLength
  <2> HIDE DEF s
  <2>4. LegalState(s)
    BY <1>2, <1>4, <1>5, <1>7, <2>1, <2>3 DEF LegalState, Phases
  <2> QED
    BY <1>1, <2>4 DEF s
<1>8. CASE ~Start(v)
  <2>1. SkipAfter(v) = IF PrefixEnds THEN 0 ELSE IF Counting THEN x - 8 ELSE x
    BY <1>6, <1>8 DEF SkipAfter
  <2>2. SkipAfter(v) \in Int
    BY <1>6, <2>1
  <2>3. PhaseAfter(v) \in {"Drop", "Length_low", "Length"} \/ (PhaseAfter(v) = state.phase /\ ~PrefixEnds)
    <3>1. CASE LowHere(v)
      BY <1>8, <3>1 DEF PhaseAfter
    <3>2. CASE ~LowHere(v) /\ HighHere(v)
      BY <1>8, <3>2 DEF PhaseAfter
    <3>3. CASE ~LowHere(v) /\ ~HighHere(v) /\ PrefixEnds
      <4>1. CountAfter(v) = 0 \/ ~Boundary
        BY <3>3 DEF HighHere
      <4> QED
        BY <1>8, <3>3, <4>1 DEF PhaseAfter
    <3>4. CASE ~LowHere(v) /\ ~HighHere(v) /\ ~PrefixEnds
      BY <1>8, <3>4 DEF PhaseAfter
    <3> QED
      BY <3>1, <3>2, <3>3, <3>4
  <2>4. PhaseAfter(v) \in Phases
    BY <2>3 DEF Phases, Legal, LegalState
  <2>5. PhaseAfter(v) = "Header" => SkipAfter(v) \in 1 .. HeaderBytes
    <3>1. SUFFICES ASSUME PhaseAfter(v) = "Header" PROVE SkipAfter(v) \in 1 .. HeaderBytes
      OBVIOUS
    <3>2. state.phase = "Header" /\ ~PrefixEnds /\ Counting
      BY <2>3, <3>1 DEF Counting, Is
    <3>3. ~(x <= 8) /\ x \in 1 .. 20
      BY <1>6, <3>2 DEF PrefixEnds, Legal, LegalState, HeaderBytes
    <3> QED
      BY <2>1, <3>2, <3>3 DEF HeaderBytes
  <2>6. PhaseAfter(v) = "Body" => /\ l >= MinLength /\ l < Word
                                  /\ 1 <= SkipAfter(v) /\ SkipAfter(v) <= l
    <3>1. SUFFICES ASSUME PhaseAfter(v) = "Body"
                   PROVE  l >= MinLength /\ l < Word /\ 1 <= SkipAfter(v) /\ SkipAfter(v) <= l
      OBVIOUS
    <3>2. state.phase = "Body" /\ ~PrefixEnds /\ Counting
      BY <2>3, <3>1 DEF Counting, Is
    <3>3. ~(x <= 8) /\ l >= MinLength /\ l < Word /\ x <= l
      BY <1>6, <3>2 DEF PrefixEnds, Legal, LegalState
    <3> QED
      BY <1>6, <2>1, <3>2, <3>3
  <2> HIDE DEF s
  <2>7. LegalState(s)
    BY <1>2, <1>4, <1>6, <1>8, <2>2, <2>4, <2>5, <2>6 DEF LegalState
  <2> QED
    BY <1>1, <2>7 DEF s
<1> QED
  BY <1>7, <1>8


\* A beat on the bus keeps bytes, all eight but for the last of a packet.
LEMMA BeatIsKept ==
  ASSUME OnTheWire, beat # Nothing
  PROVE  BeatKept(beat) /\ (~beat.last => beat.keep = 8)
<1>1. /\ IsPacket(packet) /\ at \in Nat /\ at < BeatsOf(packet) /\ Cut(packet, at, beat)
      /\ 8 * at < packet.size /\ (beat.last <=> at + 1 = BeatsOf(packet))
      /\ at + 1 < BeatsOf(packet) => Whole(packet, at, beat)
  BY OnePacket, BeatOnTheBus
<1>2. BeatsOf(packet) \in Nat /\ packet.size \in Nat
  <2>1. packet.size \in Nat
    BY <1>1, WordNat DEF IsPacket
  <2> QED
    BY <1>1, <2>1, BeatsAre
<1>3. beat.keep \in 1 .. 8
  <2>1. beat.keep = IF packet.size - 8 * at < 8 THEN packet.size - 8 * at ELSE 8
    BY <1>1 DEF Cut
  <2> QED
    BY <1>1, <1>2, <2>1
<1>4. ASSUME NEW i \in 0 .. 7 PROVE beat.lanes[i].value \in 0 .. 255
  <2>1. beat.lanes[i] = ByteOf(packet, 8 * at + i) /\ 8 * at + i \in Int
    BY <1>1 DEF Cut
  <2> QED
    BY <1>1, <2>1, BytesAreBytes
<1>5. ~beat.last => beat.keep = 8
  <2>1. ~beat.last => at + 1 < BeatsOf(packet)
    BY <1>1, <1>2
  <2> QED
    BY <1>1, <2>1 DEF Whole
<1> QED
  BY <1>3, <1>4, <1>5 DEF BeatKept

\* A clock edge is a step of the byte at a time framer.
LEMMA EdgeIsSerial ==
  ASSUME OnTheWire, Legal, FeedEdge
  PROVE  (Serial!Take \/ Serial!Idle) /\ Legal'
<1>1. CASE beat = Nothing
  <2>1. message' = NoMessage /\ state' = state /\ buffer' = buffer
    BY <1>1 DEF FeedEdge, NoBeat
  <2> QED
    BY <1>1, <2>1 DEF Serial!Idle, Serial!NoBeat, Serial!NoMessage, Nothing, NoMessage,
                      Legal, LegalState
<1>2. CASE beat # Nothing
  <2>1. /\ state' = (IF beat.last THEN Initial ELSE StateAfter(beat, now))
        /\ buffer' = BufferAfter(beat) /\ message' = MessageOut(beat)
    BY <1>2, Zenon DEF FeedEdge, Beat, MessageOut
  <2>2. BeatKept(beat) /\ (~beat.last => beat.keep = 8)
    BY <1>2, BeatIsKept
  <2>3. /\ Serial!Walked.buffer = BufferAfter(beat) /\ Serial!Walked.emit = MessageOut(beat)
        /\ ~beat.last => Serial!Walked.state = StateAfter(beat, now)
    BY <2>2, BothAgree DEF Agrees
  <2>4. Serial!Initial = Initial
    BY DEF Serial!Initial, Initial, HeaderBytes
  <2>5. Serial!Take
    BY <1>2, <2>1, <2>3, <2>4 DEF Serial!Take, Serial!NoBeat, Nothing
  <2>6. Legal'
    <3>1. LegalState(Initial)
      BY DEF LegalState, Initial, Serial!State, Phases, HeaderBytes
    <3>2. LegalState(StateAfter(beat, now)) /\ IsBuffer(BufferAfter(beat))
      BY <2>2, LegalAfter
    <3>3. LegalState(state')
      BY <2>1, <3>1, <3>2
    <3>4. IsBuffer(buffer')
      BY <2>1, <3>2
    <3> QED
      BY <3>3, <3>4 DEF Legal
  <2> QED
    BY <2>5, <2>6
<1> QED
  BY <1>1, <1>2

SerialInv == Legal /\ clears \in Nat

\* The invariant holds at first.
LEMMA SerialInvInit == FeedInit => SerialInv
<1> SUFFICES ASSUME FeedInit PROVE SerialInv
  OBVIOUS
<1>1. state = Initial /\ buffer = EmptyBuffer /\ clears = 0
  BY DEF FeedInit, FramerInit
<1>2. LegalState(Initial)
  BY DEF LegalState, Initial, Serial!State, Phases, HeaderBytes
<1>3. IsBuffer(EmptyBuffer)
  BY DEF IsBuffer, EmptyBuffer, MessageBytes
<1> QED
  BY <1>1, <1>2, <1>3 DEF SerialInv, Legal

\* A step is a clock edge, or a clear.
LEMMA SerialStep ==
  ASSUME FeedInv, SerialInv, FeedNext
  PROVE  SerialInv' /\ (clears' = clears => Serial!Take \/ Serial!Idle)
<1>1. OnTheWire /\ Legal /\ clears \in Nat
  BY DEF FeedInv, SerialInv
<1>2. CASE FeedEdge
  <2>1. clears' = clears
    BY <1>2 DEF FeedEdge
  <2> QED
    BY <1>1, <1>2, <2>1, EdgeIsSerial DEF SerialInv
<1>3. CASE Clear
  <2>1. clears' = clears + 1 /\ state' = Initial /\ buffer' = EmptyBuffer
    BY <1>3 DEF Clear, ClearFramer
  <2>2. clears' # clears /\ clears' \in Nat
    BY <1>1, <2>1
  <2>3. LegalState(Initial) /\ IsBuffer(EmptyBuffer)
    BY DEF LegalState, Initial, Serial!State, Phases, HeaderBytes, IsBuffer, EmptyBuffer, MessageBytes
  <2>4. Legal'
    BY <2>1, <2>3 DEF Legal
  <2> QED
    BY <2>2, <2>4 DEF SerialInv
<1>4. FeedEdge \/ Clear
  BY DEF FeedNext, Follows, Pauses, NextPacket, Drains, Advance
<1> QED
  BY <1>2, <1>3, <1>4

\* And every step keeps it and takes the beat as the byte at a time framer does.
LEMMA SerialNext ==
  ASSUME FeedInv, SerialInv, [FeedNext]_feedVars
  PROVE  SerialInv' /\ [clears' = clears => Serial!Take \/ Serial!Idle]_<<Serial!vars, clears>>
<1>1. CASE FeedNext
  BY <1>1, SerialStep
<1>2. CASE UNCHANGED feedVars
  <2>1. /\ state' = state /\ buffer' = buffer /\ message' = message /\ beat' = beat
        /\ now' = now /\ clears' = clears
    BY <1>2 DEF feedVars, env
  <2>2. UNCHANGED <<Serial!vars, clears>>
    BY <2>1 DEF Serial!vars
  <2>3. SerialInv'
    BY <2>1 DEF SerialInv, Legal, LegalState
  <2> QED
    BY <2>2, <2>3
<1> QED
  BY <1>1, <1>2

\* The beat at a time framer and the byte at a time framer make the same state,
\* buffer and message of every beat, whatever bytes it has and in whatever state
\* it comes, a header torn off by a clear included (moldudp64.ml;
\* trading/formal.py, serial framer).
THEOREM FeedMatchesSerial == FeedSpec => MatchesSerial
<1>1. FeedInit => Serial!Init
  BY DEF FeedInit, FramerInit, Serial!Init, Serial!Initial, Initial, HeaderBytes,
         Serial!NoMessage, NoMessage
<1>2. FeedInv /\ SerialInv /\ [FeedNext]_feedVars
        => SerialInv' /\ [clears' = clears => Serial!Take \/ Serial!Idle]_<<Serial!vars, clears>>
  BY SerialNext
<1> QED
  BY <1>1, <1>2, SerialInvInit, FeedInvariant, PTL DEF FeedSpec, MatchesSerial

=============================================================================
