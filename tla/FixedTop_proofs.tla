--------------------------- MODULE FixedTop_proofs --------------------------
(***************************************************************************)
(* Lemmas about every reloadable design, whatever its nodes: what the      *)
(* functions Base and Arrival are, what the words of a bank are beside its *)
(* CRC, and what the registers of the pipeline hold.                       *)
(*                                                                         *)
(* The last is said with a history of the inferences by their age, the     *)
(* cycles since they arrived: a unit's register i holds the inference of   *)
(* age Start + i, and register i of a skew line the one of the age at      *)
(* which its stream is ready, plus i.  A clock edge ages each by one.      *)
(***************************************************************************)
EXTENDS FixedTop, SequenceTheorems, WellFoundedInduction, TLAPS

-----------------------------------------------------------------------------
(* Numbers.                                                                *)

\* Induction over the numbers: of some numbers one is the least.

LEMMA LeastNumber ==
  ASSUME NEW T \in SUBSET Nat, T # {}
  PROVE  \E x \in T : \A y \in T : x <= y
<1> DEFINE R == {ss \in Nat \X Nat : ss[1] < ss[2]}
<1>1. IsWellFoundedOn(R, Nat)
  BY NatLessThanWellFounded DEF OpToRel
<1>2. \E x \in T : \A y \in T : ~ (<<y, x>> \in R)
  BY <1>1, WFMin
<1>3. PICK x \in T : \A y \in T : ~ (<<y, x>> \in R)
  BY <1>2
<1>4. ASSUME NEW y \in T PROVE x <= y
  <2>1. x \in Nat /\ y \in Nat /\ ~(<<y, x>> \in R)
    BY <1>3
  <2>2. y < x => <<y, x>> \in R
    BY <2>1
  <2> QED
    BY <2>1, <2>2
<1> QED
  BY <1>4

\* A set of numbers with a bound has a greatest.
LEMMA MaxIs ==
  ASSUME NEW S \in SUBSET Int, S # {}, NEW b \in Int, \A s \in S : s <= b
  PROVE  Max(S) \in S /\ \A s \in S : s <= Max(S)
<1> DEFINE T == {b - s : s \in S}
<1>1. T \in SUBSET Nat /\ T # {}
  <2>1. \A s \in S : b - s \in Nat
    OBVIOUS
  <2> QED
    BY <2>1
<1>2. PICK x \in T : \A y \in T : x <= y
  BY <1>1, LeastNumber
<1>3. PICK m \in S : x = b - m
  BY <1>2
<1>4. \A s \in S : m >= s
  BY <1>2, <1>3
<1> QED
  BY <1>4 DEF Max

\* Finitely many numbers have a bound.
BoundOf(f, m, b) == \A i \in 0 .. m : f[i] <= b

LEMMA FinitelyManyBounded ==
  ASSUME NEW n \in Nat, NEW f, \A i \in 0 .. n : f[i] \in Int
  PROVE  \E b \in Int : BoundOf(f, n, b)
<1> DEFINE T == {m \in 0 .. n : ~ \E b \in Int : BoundOf(f, m, b)}
<1> SUFFICES T = {}
  OBVIOUS
<1> SUFFICES ASSUME T # {} PROVE FALSE
  OBVIOUS
<1>1. T \in SUBSET Nat
  OBVIOUS
<1>2. PICK m \in T : \A y \in T : m <= y
  BY <1>1, LeastNumber
<1>3. m \in 0 .. n /\ ~ \E b \in Int : BoundOf(f, m, b)
  BY <1>2
<1>4. CASE m = 0
  BY <1>3, <1>4 DEF BoundOf
<1>5. CASE m # 0
  <2>1. m - 1 \in 0 .. n /\ m - 1 \notin T
    BY <1>2, <1>3, <1>5
  <2>2. PICK b \in Int : BoundOf(f, m - 1, b)
    BY <2>1
  <2>3. PICK c \in Int : c >= b /\ c >= f[m]
    BY <1>3
  <2>4. ASSUME NEW i \in 0 .. m PROVE f[i] <= c
    <3>1. i \in 0 .. m - 1 => f[i] <= b
      BY <2>2 DEF BoundOf
    <3>2. f[i] \in Int
      BY <1>3
    <3> QED
      BY <1>3, <2>3, <3>1, <3>2
  <2>5. BoundOf(f, m, c)
    BY <2>4 DEF BoundOf
  <2> QED
    BY <1>3, <2>5
<1> QED
  BY <1>4, <1>5

-----------------------------------------------------------------------------
(* The functions of the design.                                            *)

\* The sum Base is the function its recursion describes.
BaseTo(f, n) == f = [k \in 1 .. n |-> IF k = 1 THEN 0 ELSE f[k - 1] + Held(k - 1)]

LEMMA BaseExists == ASSUME NEW n \in Nat \ {0} PROVE \E f : BaseTo(f, n)
<1> DEFINE T == {m \in Nat \ {0} : ~ \E f : BaseTo(f, m)}
<1> SUFFICES ASSUME T # {} PROVE FALSE
  OBVIOUS
<1>1. T \in SUBSET Nat
  OBVIOUS
<1>2. PICK m \in T : \A y \in T : m <= y
  BY <1>1, LeastNumber
<1>3. m \in Nat \ {0} /\ ~ \E f : BaseTo(f, m)
  BY <1>2
<1>4. CASE m = 1
  <2> DEFINE g == [k \in 1 .. 1 |-> 0]
  <2>1. BaseTo(g, 1)
    BY DEF BaseTo
  <2> QED
    BY <1>3, <1>4, <2>1
<1>5. CASE m # 1
  <2>1. m - 1 \in Nat \ {0} /\ m - 1 \notin T
    BY <1>2, <1>3, <1>5
  <2>2. PICK f : BaseTo(f, m - 1)
    BY <2>1
  <2> DEFINE g == [k \in 1 .. m |-> IF k = m THEN f[m - 1] + Held(m - 1) ELSE f[k]]
  <2>3. ASSUME NEW k \in 1 .. m
        PROVE  g[k] = IF k = 1 THEN 0 ELSE g[k - 1] + Held(k - 1)
    <3>1. k # m => f[k] = IF k = 1 THEN 0 ELSE f[k - 1] + Held(k - 1)
      BY <1>3, <1>5, <2>2 DEF BaseTo
    <3> QED
      BY <1>3, <1>5, <3>1
  <2>4. BaseTo(g, m)
    BY <2>3 DEF BaseTo
  <2> QED
    BY <1>3, <2>4
<1> QED
  BY <1>4, <1>5

LEMMA BaseIs == BaseTo(Base, N + 1)
<1>1. \E f : BaseTo(f, N + 1)
  BY BaseExists, NodesAssumption
<1> QED
  BY <1>1 DEF Base, BaseTo

LEMMA HeldNat == ASSUME NEW k \in 1 .. N PROVE Held(k) \in Nat
<1>1. Nodes[k].weights \in Nat /\ Nodes[k].channels \in Nat
  BY NodesAssumption DEF IsNode
<1> QED
  BY <1>1 DEF Held

\* Base starts at zero and grows by the words of each unit.
LEMMA BaseSteps ==
  /\ Base[1] = 0
  /\ \A k \in 1 .. N : Base[k + 1] = Base[k] + Held(k)
<1>1. N \in Nat \ {0}
  BY NodesAssumption
<1>2. Base[1] = 0
  BY <1>1, BaseIs DEF BaseTo
<1>3. ASSUME NEW k \in 1 .. N PROVE Base[k + 1] = Base[k] + Held(k)
  <2>1. k + 1 \in 1 .. N + 1 /\ k + 1 # 1 /\ (k + 1) - 1 = k
    BY <1>1
  <2> QED
    BY <1>1, <2>1, BaseIs DEF BaseTo
<1> QED
  BY <1>2, <1>3

LEMMA BaseNat == ASSUME NEW k \in 1 .. N + 1 PROVE Base[k] \in Nat
<1> DEFINE T == {m \in 1 .. N + 1 : Base[m] \notin Nat}
<1>1. N \in Nat \ {0}
  BY NodesAssumption
<1> SUFFICES ASSUME T # {} PROVE FALSE
  OBVIOUS
<1>2. T \in SUBSET Nat
  BY <1>1
<1>3. PICK m \in T : \A y \in T : m <= y
  BY <1>2, LeastNumber
<1>4. m \in 1 .. N + 1 /\ m # 1
  BY <1>3, BaseSteps
<1>5. m - 1 \in 1 .. N /\ m - 1 \notin T
  BY <1>1, <1>3, <1>4
<1>6. Base[m] = Base[m - 1] + Held(m - 1)
  BY <1>4, <1>5, BaseSteps
<1>7. Base[m - 1] \in Nat /\ Held(m - 1) \in Nat
  BY <1>1, <1>5, HeldNat
<1>8. Base[m] \notin Nat
  BY <1>3
<1> QED
  BY <1>6, <1>7, <1>8

LEMMA WordsNat == Words \in Nat
  BY BaseNat, NodesAssumption DEF Words

\* The words of a unit lie within the design's.
LEMMA UnitWithin == ASSUME NEW k \in 1 .. N PROVE Base[k] + Held(k) <= Words
<1> DEFINE T == {n \in Nat : k + n <= N /\ ~(Base[k + 1] <= Base[k + n + 1])}
<1>1. N \in Nat \ {0} /\ k \in Nat
  BY NodesAssumption
<1>2. T = {}
  <2> SUFFICES ASSUME T # {} PROVE FALSE
    OBVIOUS
  <2>1. PICK n \in T : \A y \in T : n <= y
    BY LeastNumber
  <2>2. CASE n = 0
    BY <1>1, <2>1, <2>2, BaseNat
  <2>3. CASE n # 0
    <3>1. n \in Nat /\ n - 1 \in Nat /\ n - 1 \notin T /\ k + n \in 1 .. N
      BY <1>1, <2>1, <2>3
    <3>2. Base[k + 1] <= Base[k + n]
      BY <1>1, <3>1
    <3>3. Base[k + n + 1] = Base[k + n] + Held(k + n)
      BY <3>1, BaseSteps
    <3>4. Base[k + 1] \in Nat /\ Base[k + n] \in Nat /\ Held(k + n) \in Nat
      BY <1>1, <3>1, BaseNat, HeldNat
    <3> QED
      BY <2>1, <3>2, <3>3, <3>4
  <2> QED
    BY <2>2, <2>3
<1>3. N - k \in Nat /\ k + (N - k) <= N /\ k + (N - k) + 1 = N + 1
  BY <1>1
<1>4. Base[k + 1] <= Base[N + 1]
  BY <1>2, <1>3
<1> QED
  BY <1>4, BaseSteps DEF Words

-----------------------------------------------------------------------------
(* Arrival is the function its recursion describes. *)

Inputs(k) == DOMAIN Nodes[k].inputs
ArrivesAfter(f, k) == Max({f[Nodes[k].inputs[j]] : j \in Inputs(k)}) + Nodes[k].latency
ArrivesTo(f, n) == f = [k \in 0 .. n |-> IF k = 0 THEN 0 ELSE ArrivesAfter(f, k)]

LEMMA NodeIs ==
  ASSUME NEW k \in 1 .. N
  PROVE  /\ Nodes[k].latency \in Nat \ {0}
         /\ 1 \in Inputs(k) /\ Inputs(k) \subseteq Nat \ {0}
         /\ \A j \in Inputs(k) : Nodes[k].inputs[j] \in 0 .. k - 1
<1>1. IsNode(Nodes[k]) /\ \A j \in Inputs(k) : Nodes[k].inputs[j] \in 0 .. k - 1
  BY NodesAssumption DEF Inputs
<1>2. PICK s \in Seq(Nat) : s = Nodes[k].inputs /\ s # << >>
  BY <1>1 DEF IsNode
<1>3. DOMAIN s = 1 .. Len(s) /\ Len(s) \in Nat \ {0}
  BY <1>2, LenProperties, EmptySeq
<1> QED
  BY <1>1, <1>2, <1>3 DEF IsNode, Inputs

\* It needs the arrivals of the earlier streams only.
LEMMA ArrivalLocal ==
  ASSUME NEW k \in 1 .. N, NEW f, NEW g, \A i \in 0 .. k - 1 : f[i] = g[i]
  PROVE  ArrivesAfter(f, k) = ArrivesAfter(g, k)
<1>1. {f[Nodes[k].inputs[j]] : j \in Inputs(k)} = {g[Nodes[k].inputs[j]] : j \in Inputs(k)}
  BY NodeIs
<1> QED
  BY <1>1 DEF ArrivesAfter

LEMMA ArrivalExists == ASSUME NEW n \in 0 .. N PROVE \E f : ArrivesTo(f, n)
<1> DEFINE T == {m \in 0 .. N : ~ \E f : ArrivesTo(f, m)}
<1> SUFFICES ASSUME T # {} PROVE FALSE
  OBVIOUS
<1>1. T \in SUBSET Nat /\ N \in Nat
  BY NodesAssumption
<1>2. PICK m \in T : \A y \in T : m <= y
  BY <1>1, LeastNumber
<1>3. m \in 0 .. N /\ ~ \E f : ArrivesTo(f, m)
  BY <1>2
<1>4. CASE m = 0
  <2> DEFINE g == [k \in 0 .. 0 |-> 0]
  <2>1. g = [k \in 0 .. 0 |-> IF k = 0 THEN 0 ELSE ArrivesAfter(g, k)]
    OBVIOUS
  <2> QED
    BY <1>3, <1>4, <2>1 DEF ArrivesTo
<1>5. CASE m # 0
  <2>1. m - 1 \in 0 .. N /\ m - 1 \notin T
    BY <1>1, <1>2, <1>3, <1>5
  <2>2. PICK f : ArrivesTo(f, m - 1)
    BY <2>1
  <2> DEFINE g == [k \in 0 .. m |-> IF k = m THEN ArrivesAfter(f, m) ELSE f[k]]
  <2>3. ASSUME NEW k \in 0 .. m
        PROVE  g[k] = IF k = 0 THEN 0 ELSE ArrivesAfter(g, k)
    <3>1. CASE k = 0
      BY <1>3, <1>5, <2>2, <3>1 DEF ArrivesTo
    <3>2. CASE k # 0
      <4>1. ArrivesAfter(g, k) = ArrivesAfter(f, k)
        <5>1. k \in 1 .. N /\ \A i \in 0 .. k - 1 : g[i] = f[i]
          BY <1>1, <1>3, <3>2
        <5> HIDE DEF g
        <5> QED
          BY <5>1, ArrivalLocal
      <4>2. k # m => f[k] = ArrivesAfter(f, k)
        BY <1>3, <3>2, <2>2 DEF ArrivesTo
      <4>3. g[k] = IF k = m THEN ArrivesAfter(f, m) ELSE f[k]
        OBVIOUS
      <4> QED
        BY <3>2, <4>1, <4>2, <4>3
    <3> QED
      BY <3>1, <3>2
  <2>4. g = [k \in 0 .. m |-> IF k = 0 THEN 0 ELSE ArrivesAfter(g, k)]
    <3>1. g = [k \in 0 .. m |-> g[k]]
      OBVIOUS
    <3> HIDE DEF g
    <3> QED
      BY <2>3, <3>1
  <2> QED
    BY <1>3, <2>4 DEF ArrivesTo
<1> QED
  BY <1>4, <1>5

LEMMA ArrivalIs == ArrivesTo(Arrival, N)
<1>1. \E f : ArrivesTo(f, N)
  BY ArrivalExists, NodesAssumption
<1>2. Arrival = CHOOSE f : f = [k \in 0 .. N |-> IF k = 0 THEN 0 ELSE ArrivesAfter(f, k)]
  BY DEF Arrival, ArrivesAfter, Inputs
<1> QED
  BY <1>1, <1>2 DEF ArrivesTo

LEMMA ArrivalNat == ASSUME NEW k \in 0 .. N PROVE Arrival[k] \in Nat
<1> DEFINE T == {m \in 0 .. N : Arrival[m] \notin Nat}
<1> SUFFICES ASSUME T # {} PROVE FALSE
  OBVIOUS
<1>1. T \in SUBSET Nat /\ N \in Nat
  BY NodesAssumption
<1>2. PICK m \in T : \A y \in T : m <= y
  BY <1>1, LeastNumber
<1>3. Arrival[0] = 0
  BY <1>1, ArrivalIs DEF ArrivesTo
<1>4. m \in 1 .. N /\ \A i \in 0 .. m - 1 : Arrival[i] \in Nat
  BY <1>1, <1>2, <1>3
<1>5. Arrival[m] = ArrivesAfter(Arrival, m)
  BY <1>1, <1>4, ArrivalIs DEF ArrivesTo
<1> DEFINE S == {Arrival[Nodes[m].inputs[j]] : j \in Inputs(m)}
<1>6. PICK b \in Int : BoundOf(Arrival, m - 1, b)
  BY <1>4, FinitelyManyBounded
<1>7. S \in SUBSET Nat /\ S # {} /\ \A s \in S : s <= b
  BY <1>4, <1>6, NodeIs DEF BoundOf
<1>8. Max(S) \in Nat
  <2> HIDE DEF S
  <2>1. S \in SUBSET Int
    BY <1>7
  <2>2. Max(S) \in S
    BY <1>7, <2>1, MaxIs
  <2> QED
    BY <1>7, <2>2
<1> QED
  BY <1>2, <1>4, <1>5, <1>8, NodeIs DEF ArrivesAfter

\* A unit starts when its latest input is there.
LEMMA StartIs ==
  ASSUME NEW k \in 1 .. N
  PROVE  /\ Start(k) \in Nat /\ Arrival[k] = Start(k) + Nodes[k].latency
         /\ \A j \in Inputs(k) : /\ Arrival[Nodes[k].inputs[j]] \in Nat
                                 /\ Skew(k, j) \in Nat
                                 /\ Start(k) = Arrival[Nodes[k].inputs[j]] + Skew(k, j)
<1> DEFINE S == {Arrival[Nodes[k].inputs[j]] : j \in Inputs(k)}
<1>1. N \in Nat /\ Nodes[k].latency \in Nat
  BY NodesAssumption, NodeIs
<1>2. \A j \in Inputs(k) : Nodes[k].inputs[j] \in 0 .. k - 1
  BY NodeIs
<1>3. \A i \in 0 .. k - 1 : Arrival[i] \in Nat
  BY <1>1, ArrivalNat
<1>4. PICK b \in Int : BoundOf(Arrival, k - 1, b)
  BY <1>1, <1>3, FinitelyManyBounded
<1>5. S \in SUBSET Nat /\ S # {} /\ \A s \in S : s <= b
  BY <1>2, <1>3, <1>4, NodeIs DEF BoundOf
<1>6. Max(S) \in Nat /\ \A s \in S : s <= Max(S)
  <2> HIDE DEF S
  <2>1. S \in SUBSET Int
    BY <1>5
  <2>2. Max(S) \in S /\ \A s \in S : s <= Max(S)
    BY <1>5, <2>1, MaxIs
  <2> QED
    BY <1>5, <2>2
<1>7. Arrival[k] = Max(S) + Nodes[k].latency
  <2>1. k \in 0 .. N /\ k # 0
    BY <1>1
  <2>2. Arrival[k] = ArrivesAfter(Arrival, k)
    BY <2>1, ArrivalIs DEF ArrivesTo
  <2> QED
    BY <2>2 DEF ArrivesAfter
<1>8. Start(k) = Max(S)
  BY <1>1, <1>6, <1>7 DEF Start
<1>9. ASSUME NEW j \in Inputs(k)
      PROVE  /\ Arrival[Nodes[k].inputs[j]] \in Nat /\ Skew(k, j) \in Nat
             /\ Start(k) = Arrival[Nodes[k].inputs[j]] + Skew(k, j)
  <2>1. Arrival[Nodes[k].inputs[j]] \in S
    OBVIOUS
  <2> HIDE DEF S
  <2>2. PICK a \in Nat : a = Arrival[Nodes[k].inputs[j]] /\ a <= Max(S)
    BY <1>5, <1>6, <2>1
  <2>3. Skew(k, j) = Start(k) - a
    BY <2>2 DEF Skew
  <2> QED
    BY <1>6, <1>8, <2>2, <2>3
<1> QED
  BY <1>6, <1>7, <1>8, <1>9

-----------------------------------------------------------------------------
(* The banks.                                                              *)

CrcStates == {fed \in Seq(Data) : Len(fed) <= Words + 1}
BankTypes == /\ bank \in {0, 1} /\ crc \in [{0, 1} -> CrcStates]
             /\ last \in [{0, 1} -> -1 .. Words]
             /\ word \in [{0, 1} -> [Addresses -> Data]]

\* What a bank's CRC was fed tells of its words: the first it was fed is word 0;
\* and if the writes came in order and none of them was lost, it was fed the
\* words up to the last one written.
Tells(fed, latest, words) ==
  /\ Words # 0 => Len(fed) # 0 /\ fed[1] = words[0]
  /\ latest < Words =>
       /\ Len(fed) <= latest + 1
       /\ Len(fed) = latest + 1 => \A a \in Addresses : a <= latest => words[a] = fed[a + 1]

Begun == \A b \in {0, 1} : Tells(crc[b], last[b], word[b])

LEMMA CrcOfIs ==
  ASSUME NEW words \in [Addresses -> Data]
  PROVE  /\ Weights!CrcOf(words) \in CrcStates /\ Len(Weights!CrcOf(words)) = Words
         /\ \A a \in Addresses : Weights!CrcOf(words)[a + 1] = words[a]
<1>1. Words \in Nat /\ Addresses = 0 .. Words - 1
  BY WordsNat DEF Addresses
<1>2. \A k \in 1 .. Words : k - 1 \in Addresses
  BY <1>1
<1>3. Weights!CrcOf(words) \in [1 .. Words -> Data]
  BY <1>2 DEF Weights!CrcOf
<1>4. Weights!CrcOf(words) \in Seq(Data) /\ Len(Weights!CrcOf(words)) = Words
  BY <1>1, <1>3, SeqDef, LenProperties
<1>5. \A a \in Addresses : a + 1 \in 1 .. Words /\ (a + 1) - 1 = a
  BY <1>1
<1>6. \A a \in Addresses : Weights!CrcOf(words)[a + 1] = words[a]
  BY <1>5 DEF Weights!CrcOf
<1> QED
  BY <1>1, <1>4, <1>6 DEF CrcStates

LEMMA ImageIs == ASSUME NEW m \in Models PROVE Image[m] \in [Addresses -> Data]
BY ImageAssumption

LEMMA InitBanks ==
  ASSUME Init
  PROVE  BankTypes /\ Begun /\ bank = 0 /\ version = 0
         /\ \A b \in {0, 1} : word[b] = Image[Compiled] /\ last[b] # Words
<1> DEFINE image == Image[Compiled]
<1>1. /\ bank = 0 /\ version = 0
      /\ crc = [b \in {0, 1} |-> Weights!CrcOf(image)]
      /\ last = [b \in {0, 1} |-> Words - 1]
      /\ word = [b \in {0, 1} |-> image]
  BY DEF Init, Weights!Init, Weights!Banks
<1>2. Compiled \in Models /\ Words \in Nat /\ Addresses = 0 .. Words - 1
  BY NodesAssumption, WordsNat DEF Addresses
<1>3. image \in [Addresses -> Data]
  BY <1>2, ImageIs
<1>4. /\ Weights!CrcOf(image) \in CrcStates /\ Len(Weights!CrcOf(image)) = Words
      /\ \A a \in Addresses : Weights!CrcOf(image)[a + 1] = image[a]
  BY <1>3, CrcOfIs
<1> HIDE DEF image
<1>5. Tells(Weights!CrcOf(image), Words - 1, image)
  <2>1. Words # 0 => 0 \in Addresses
    BY <1>2
  <2>2. Words # 0 => Weights!CrcOf(image)[0 + 1] = image[0]
    BY <1>4, <2>1
  <2> QED
    BY <1>2, <1>4, <2>2 DEF Tells
<1>6. BankTypes /\ Begun
  BY <1>1, <1>2, <1>3, <1>4, <1>5 DEF BankTypes, Begun
<1> QED
  BY <1>1, <1>2, <1>6 DEF image

\* The CRC of a bank after a write, beside the words of the bank after it.
LEMMA CrcStepTells ==
  ASSUME NEW fed \in CrcStates, NEW latest \in -1 .. Words, NEW words \in [Addresses -> Data],
         Tells(fed, latest, words), NEW address \in Addresses, NEW data \in Data
  PROVE  Tells(Weights!CrcStep(fed, address, data), Weights!Follows(latest, address),
               [words EXCEPT ![address] = data])
<1> DEFINE now  == Weights!CrcStep(fed, address, data)
           next == Weights!Follows(latest, address)
           then == [words EXCEPT ![address] = data]
<1>1. Addresses = 0 .. Words - 1 /\ Words \in Nat /\ Words # 0
  BY WordsNat DEF Addresses
<1>2. fed \in Seq(Data) /\ Len(fed) \in Nat
  BY LenProperties DEF CrcStates
<1>3. /\ then[address] = data
      /\ \A a \in Addresses : a # address => then[a] = words[a]
  OBVIOUS
<1>4. CASE address = 0
  <2>1. now = <<data>> /\ next = 0 /\ Len(now) = 1 /\ now[1] = data
    BY <1>4 DEF Weights!CrcStep, Weights!Follows
  <2>2. then[0] = data
    BY <1>3, <1>4
  <2>3. Tells(now, next, then)
    <3> HIDE DEF now, next, then
    <3> QED
      BY <1>1, <2>1, <2>2 DEF Tells
  <2> QED
    BY <2>3
<1>5. CASE address # 0
  <2>1. now = IF Len(fed) > Words THEN fed ELSE Append(fed, data)
    BY <1>5 DEF Weights!CrcStep
  <2>2. /\ Len(Append(fed, data)) = Len(fed) + 1
        /\ \A k \in 1 .. Len(fed) : Append(fed, data)[k] = fed[k]
        /\ Append(fed, data)[Len(fed) + 1] = data
    BY <1>2, AppendProperties
  <2>3. Len(fed) # 0 /\ fed[1] = words[0]
    BY <1>1 DEF Tells
  <2>4. Len(now) # 0 /\ now[1] = then[0]
    <3>1. then[0] = words[0] /\ 1 \in 1 .. Len(fed)
      BY <1>1, <1>2, <1>3, <1>5, <2>3
    <3> QED
      BY <1>2, <2>1, <2>2, <2>3, <3>1
  <2>5. ASSUME next < Words
        PROVE  /\ Len(now) <= next + 1
               /\ Len(now) = next + 1 =>
                    \A a \in Addresses : a <= next => then[a] = now[a + 1]
    <3>1. next = address /\ latest < address
      BY <1>1, <1>5, <2>5 DEF Weights!Follows
    <3>2. /\ Len(fed) <= latest + 1
          /\ Len(fed) = latest + 1 =>
               \A a \in Addresses : a <= latest => words[a] = fed[a + 1]
      BY <1>1, <3>1 DEF Tells
    <3>3. now = Append(fed, data)
      BY <1>1, <1>2, <2>1, <3>1, <3>2
    <3>4. ASSUME Len(fed) = address, NEW a \in Addresses, a <= address
          PROVE  then[a] = now[a + 1]
      <4>1. CASE a = address
        BY <1>3, <2>2, <3>3, <3>4, <4>1
      <4>2. CASE a # address
        <5>1. a <= latest /\ Len(fed) = latest + 1 /\ a + 1 \in 1 .. Len(fed)
          BY <1>1, <3>1, <3>2, <3>4, <4>2
        <5>2. then[a] = words[a] /\ words[a] = fed[a + 1]
          BY <1>3, <3>2, <4>2, <5>1
        <5> QED
          BY <2>2, <3>3, <5>1, <5>2
      <4> QED
        BY <4>1, <4>2
    <3> HIDE DEF now, then, next
    <3> QED
      BY <1>1, <1>2, <2>2, <3>1, <3>2, <3>3, <3>4
  <2>6. Tells(now, next, then)
    <3> HIDE DEF now, next, then
    <3> QED
      BY <2>4, <2>5 DEF Tells
  <2> QED
    BY <2>6
<1> QED
  BY <1>4, <1>5

LEMMA CrcStepType ==
  ASSUME NEW fed \in CrcStates, NEW latest \in -1 .. Words,
         NEW address \in Addresses, NEW data \in Data
  PROVE  /\ Weights!CrcStep(fed, address, data) \in CrcStates
         /\ Weights!Follows(latest, address) \in -1 .. Words
<1>1. Words \in Nat /\ Addresses = 0 .. Words - 1 /\ Words # 0
  BY WordsNat DEF Addresses
<1>2. fed \in Seq(Data) /\ Len(fed) \in Nat /\ Len(fed) <= Words + 1
  BY LenProperties DEF CrcStates
<1>3. Append(fed, data) \in Seq(Data) /\ Len(Append(fed, data)) = Len(fed) + 1
  BY <1>2, AppendProperties
<1>4. <<data>> \in Seq(Data) /\ Len(<<data>>) = 1
  OBVIOUS
<1>5. Weights!CrcStep(fed, address, data) \in CrcStates
  BY <1>1, <1>2, <1>3, <1>4 DEF Weights!CrcStep, CrcStates
<1> QED
  BY <1>1, <1>5 DEF Weights!Follows

\* A bank whose writes came in order holds the image that its CRC is of.
LEMMA HoldsItsImage ==
  ASSUME BankTypes, Begun, NEW b \in {0, 1}, NEW m \in Models,
         crc[b] = Weights!CrcOf(Image[m]), Weights!InOrder(b)
  PROVE  word[b] = Image[m]
<1> DEFINE words == word[b]
           image == Image[m]
           latest == last[b]
<1>1. words \in [Addresses -> Data] /\ image \in [Addresses -> Data] /\ latest \in -1 .. Words
  BY ImageIs DEF BankTypes
<1>2. Tells(Weights!CrcOf(image), latest, words)
  BY DEF Begun
<1>3. /\ Len(Weights!CrcOf(image)) = Words
      /\ \A a \in Addresses : Weights!CrcOf(image)[a + 1] = image[a]
  BY <1>1, CrcOfIs
<1>4. Words \in Nat /\ Addresses = 0 .. Words - 1 /\ latest # Words
  BY WordsNat DEF Addresses, Weights!InOrder
<1> HIDE DEF words, image, latest
<1>5. \A a \in Addresses : words[a] = image[a]
  BY <1>1, <1>2, <1>3, <1>4 DEF Tells
<1>6. words = image
  BY <1>1, <1>5
<1> QED
  BY <1>6 DEF words, image

\* A write that lands.
LEMMA StoreLands ==
  ASSUME BankTypes, NEW address \in Addresses, NEW data \in Data,
         Store(TRUE, address, data, FALSE)
  PROVE  LET idle == 1 - bank
         IN  /\ bank' = bank /\ idle \in {0, 1} /\ idle # bank
             /\ crc'[idle] = Weights!CrcStep(crc[idle], address, data)
             /\ last'[idle] = Weights!Follows(last[idle], address)
             /\ word'[idle] = [word[idle] EXCEPT ![address] = data]
             /\ crc'[bank] = crc[bank] /\ last'[bank] = last[bank] /\ word'[bank] = word[bank]
             /\ BankTypes'
<1> DEFINE idle == 1 - bank
<1>1. /\ bank' = bank /\ idle \in {0, 1} /\ idle # bank
      /\ crc' = [crc EXCEPT ![idle] = Weights!CrcStep(crc[idle], address, data)]
      /\ last' = [last EXCEPT ![idle] = Weights!Follows(last[idle], address)]
      /\ word' = [word EXCEPT ![idle] = [word[idle] EXCEPT ![address] = data]]
  BY DEF Store, Weights!Clock, Weights!Idle, BankTypes
<1>2. /\ crc'[idle] = Weights!CrcStep(crc[idle], address, data) /\ crc'[bank] = crc[bank]
      /\ last'[idle] = Weights!Follows(last[idle], address) /\ last'[bank] = last[bank]
      /\ word'[idle] = [word[idle] EXCEPT ![address] = data] /\ word'[bank] = word[bank]
  BY <1>1 DEF BankTypes
<1>3. /\ Weights!CrcStep(crc[idle], address, data) \in CrcStates
      /\ Weights!Follows(last[idle], address) \in -1 .. Words
  <2>1. crc[idle] \in CrcStates /\ last[idle] \in -1 .. Words
    BY <1>1 DEF BankTypes
  <2> QED
    BY <2>1, CrcStepType
<1>4. BankTypes'
  BY <1>1, <1>3 DEF BankTypes
<1> QED
  BY <1>1, <1>2, <1>4

\* The banks through a clock edge.
LEMMA StoreKeeps ==
  ASSUME BankTypes, Begun, NEW write \in BOOLEAN, NEW address, NEW data,
         NEW commit \in BOOLEAN,
         write /\ ~commit => address \in Addresses /\ data \in Data,
         Store(write, address, data, commit)
  PROVE  BankTypes' /\ Begun'
         /\ \A b \in {bank, bank'} : word'[b] = word[b] /\ last'[b] = last[b] /\ crc'[b] = crc[b]
<1>1. CASE ~(write /\ ~commit)
  BY <1>1 DEF Store, Weights!Clock, Weights!Idle, BankTypes, Begun
<1>2. CASE write /\ ~commit
  <2> DEFINE idle == 1 - bank
  <2>1. Store(TRUE, address, data, FALSE) /\ address \in Addresses /\ data \in Data
    BY <1>2, Zenon DEF Store
  <2>2. /\ bank' = bank /\ idle \in {0, 1} /\ idle # bank
        /\ crc'[idle] = Weights!CrcStep(crc[idle], address, data)
        /\ last'[idle] = Weights!Follows(last[idle], address)
        /\ word'[idle] = [word[idle] EXCEPT ![address] = data]
        /\ crc'[bank] = crc[bank] /\ last'[bank] = last[bank] /\ word'[bank] = word[bank]
        /\ BankTypes'
    BY <2>1, StoreLands
  <2>3. Tells(crc'[idle], last'[idle], word'[idle])
    <3>1. PICK fed \in CrcStates, latest \in -1 .. Words, words \in [Addresses -> Data] :
            fed = crc[idle] /\ latest = last[idle] /\ words = word[idle]
      BY <2>2 DEF BankTypes
    <3>2. Tells(fed, latest, words)
      BY <2>2, <3>1 DEF Begun
    <3>3. Tells(Weights!CrcStep(fed, address, data), Weights!Follows(latest, address),
                [words EXCEPT ![address] = data])
      BY <2>1, <3>2, CrcStepTells
    <3> QED
      BY <2>2, <3>1, <3>3
  <2>4. Tells(crc'[bank], last'[bank], word'[bank])
    BY <2>2 DEF Begun, BankTypes
  <2>5. Begun'
    BY <2>2, <2>3, <2>4 DEF Begun, BankTypes
  <2> QED
    BY <2>2, <2>5
<1> QED
  BY <1>1, <1>2

-----------------------------------------------------------------------------
(* The lines of registers.                                                 *)

IsLine(line, n) == line = [i \in 1 .. n |-> line[i]]

LEMMA TapIs ==
  ASSUME NEW n \in Nat, NEW line, NEW x, IsLine(line, n)
  PROVE  Tap(line, x) = IF n = 0 THEN x ELSE line[n]
<1> DEFINE V == {line[i] : i \in 1 .. n}
<1>1. line \in [1 .. n -> V]
  BY DEF IsLine
<1>2. line \in Seq(V)
  BY <1>1, SeqDef
<1>3. DOMAIN line = 1 .. Len(line) /\ Len(line) \in Nat
  BY <1>2, LenProperties
<1>4. DOMAIN line = 1 .. n
  BY <1>1
<1>5. Len(line) = n
  <2>1. PICK l \in Nat : l = Len(line) /\ 1 .. l = 1 .. n
    BY <1>3, <1>4
  <2>2. \A i \in Nat : i \in 1 .. l <=> i \in 1 .. n
    BY <2>1
  <2>3. l = n
    BY <2>2
  <2> QED
    BY <2>1, <2>3
<1>6. line = << >> <=> n = 0
  BY <1>2, <1>5, EmptySeq
<1> QED
  BY <1>5, <1>6 DEF Tap

\* An inference as it arrived: what its value is, its tag, and the words, with
\* their addresses, it is allowed.  What a register holds of it:
ValuesOf(value, allowed) == [valid : {TRUE}, from : {value.from}, used : SUBSET allowed,
                            promised : {value.promised}]
Of(v, x) == IF x.value.valid THEN v \in ValuesOf(x.value, x.allowed) ELSE v = Nothing

Shaped == \A k \in 1 .. N :
  /\ DOMAIN skew[k] = Inputs(k) /\ DOMAIN skewTag[k] = Inputs(k)
  /\ \A j \in Inputs(k) : IsLine(skew[k][j], Skew(k, j)) /\ IsLine(skewTag[k][j], Skew(k, j))
  /\ IsLine(pipe[k], Nodes[k].latency) /\ IsLine(pipeTag[k], Nodes[k].latency)

\* Every register holds what its distance from the inputs, in cycles, says.
InPipe(history, k) == \A i \in 1 .. Nodes[k].latency :
  /\ Of(pipe[k][i], history[Start(k) + i])
  /\ pipeTag[k][i] = history[Start(k) + i].tag
InSkew(history, k, j) == \A i \in 1 .. Skew(k, j) :
  /\ Of(skew[k][j][i], history[Arrival[Nodes[k].inputs[j]] + i])
  /\ skewTag[k][j][i] = history[Arrival[Nodes[k].inputs[j]] + i].tag
Carries(history) ==
  \A k \in 1 .. N : InPipe(history, k) /\ \A j \in Inputs(k) : InSkew(history, k, j)

\* What arrives, and what the units pick when they do, is as the history says.
Arrives(history, x) == Of(x, history[0]) /\ history[0].tag = bank
Allows(history, k, n) ==
  \A a \in ReadAt(k, n) :
    <<a, word[history[Start(k) + n].tag][a]>> \in history[Start(k) + n].allowed

LEMMA StreamOf ==
  ASSUME Shaped, NEW h, NEW x, Carries(h), Arrives(h, x), NEW k \in 0 .. N
  PROVE  Of(Stream(k, x), h[Arrival[k]]) /\ TagOf(k) = h[Arrival[k]].tag
<1>1. N \in Nat
  BY NodesAssumption
<1>2. CASE k = 0
  <2>1. Arrival[0] = 0
    BY <1>1, ArrivalIs DEF ArrivesTo
  <2> QED
    BY <1>2, <2>1 DEF Stream, TagOf, Arrives
<1>3. CASE k # 0
  <2>1. k \in 1 .. N
    BY <1>1, <1>3
  <2>2. Arrival[k] = Start(k) + Nodes[k].latency /\ Nodes[k].latency \in 1 .. Nodes[k].latency
    BY <2>1, StartIs, NodeIs
  <2> QED
    BY <1>3, <2>1, <2>2 DEF Stream, TagOf, Carries, InPipe
<1> QED
  BY <1>2, <1>3

LEMMA AlignedOf ==
  ASSUME Shaped, NEW h, NEW x, Carries(h), Arrives(h, x), NEW k \in 1 .. N, NEW j \in Inputs(k)
  PROVE  /\ Of(Aligned(k, j, x), h[Start(k)])
         /\ Tap(skewTag[k][j], TagOf(Nodes[k].inputs[j])) = h[Start(k)].tag
<1> DEFINE n == Skew(k, j)
           m == Nodes[k].inputs[j]
<1>1. n \in Nat /\ Arrival[m] \in Nat /\ Start(k) = Arrival[m] + n
  BY StartIs
<1>2. m \in 0 .. N
  BY NodeIs, NodesAssumption
<1>3. IsLine(skew[k][j], n) /\ IsLine(skewTag[k][j], n) /\ InSkew(h, k, j)
  BY DEF Shaped, Carries
<1>4. Tap(skew[k][j], Stream(m, x)) = IF n = 0 THEN Stream(m, x) ELSE skew[k][j][n]
  BY <1>1, <1>3, TapIs
<1>5. Tap(skewTag[k][j], TagOf(m)) = IF n = 0 THEN TagOf(m) ELSE skewTag[k][j][n]
  BY <1>1, <1>3, TapIs
<1>6. CASE n = 0
  BY <1>1, <1>2, <1>4, <1>5, <1>6, StreamOf DEF Aligned
<1>7. CASE n # 0
  <2>1. n \in 1 .. n
    BY <1>1, <1>7
  <2> QED
    BY <1>1, <1>3, <1>4, <1>5, <1>7, <2>1 DEF Aligned, InSkew
<1> QED
  BY <1>6, <1>7

LEMMA UsesMore ==
  ASSUME NEW value, NEW allowed, NEW v \in ValuesOf(value, allowed), NEW words \in SUBSET allowed
  PROVE  [v EXCEPT !.used = @ \cup words] \in ValuesOf(value, allowed)
BY DEF ValuesOf

LEMMA MadeFrom ==
  ASSUME NEW value, NEW allowed, NEW v \in ValuesOf(value, allowed), NEW words \in SUBSET allowed
  PROVE  [v EXCEPT !.from = value.from, !.used = words] \in ValuesOf(value, allowed)
BY DEF ValuesOf

LEMMA ValueIs ==
  ASSUME NEW value, NEW allowed, NEW v \in ValuesOf(value, allowed)
  PROVE  v.valid /\ v.from = value.from /\ v.used \subseteq allowed /\ v.promised = value.promised
BY DEF ValuesOf

LEMMA JoinedOf ==
  ASSUME Shaped, NEW h, NEW x, Carries(h), Arrives(h, x), NEW k \in 1 .. N
  PROVE  Of(Joined(k, x), h[Start(k)])
<1> DEFINE e == h[Start(k)]
           inputs == {Aligned(k, j, x) : j \in Inputs(k)}
<1>1. 1 \in Inputs(k) /\ \A j \in Inputs(k) : Of(Aligned(k, j, x), e)
  BY NodeIs, AlignedOf
<1>2. CASE ~e.value.valid
  <2>1. Aligned(k, 1, x) = Nothing /\ ~Nothing.valid
    BY <1>1, <1>2 DEF Of, Nothing
  <2> QED
    BY <1>2, <2>1 DEF Joined, Of
<1>3. CASE e.value.valid
  <2>1. \A j \in Inputs(k) : Aligned(k, j, x) \in ValuesOf(e.value, e.allowed)
    BY <1>1, <1>3 DEF Of
  <2>2. \A j \in Inputs(k) : /\ Aligned(k, j, x).used \subseteq e.allowed
                             /\ Aligned(k, j, x).from = e.value.from
    BY <2>1, ValueIs
  <2>3. UNION {input.used : input \in inputs} \in SUBSET e.allowed
    BY <2>2
  <2>4. UNION {input.from : input \in inputs} = e.value.from
    BY <1>1, <2>2
  <2>5. Aligned(k, 1, x).valid
    BY <1>1, <2>1, ValueIs
  <2>6. Joined(k, x) = [Aligned(k, 1, x) EXCEPT
                          !.from = UNION {input.from : input \in inputs},
                          !.used = UNION {input.used : input \in inputs}]
    BY <2>5, Zenon DEF Joined, Inputs
  <2>7. Joined(k, x) = [Aligned(k, 1, x) EXCEPT
                          !.from = e.value.from,
                          !.used = UNION {input.used : input \in inputs}]
    BY <2>4, <2>6, Zenon
  <2>8. Joined(k, x) \in ValuesOf(e.value, e.allowed)
    <3> DEFINE a == Aligned(k, 1, x)
               u == UNION {input.used : input \in inputs}
    <3>1. a \in ValuesOf(e.value, e.allowed) /\ u \in SUBSET e.allowed
      BY <1>1, <2>1, <2>3
    <3>2. Joined(k, x) = [a EXCEPT !.from = e.value.from, !.used = u]
      BY <2>7
    <3> HIDE DEF a, u, e
    <3>3. [a EXCEPT !.from = e.value.from, !.used = u] \in ValuesOf(e.value, e.allowed)
      BY <3>1, MadeFrom
    <3> QED
      BY <3>2, <3>3, Zenon
  <2> QED
    BY <1>3, <2>8 DEF Of
<1> QED
  BY <1>2, <1>3

LEMMA PickedOf ==
  ASSUME NEW h, NEW v, NEW k \in 1 .. N, NEW n \in Nat, Of(v, h[Start(k) + n]),
         Allows(h, k, n), TagAfter(k, n) = h[Start(k) + n].tag
  PROVE  Of(Picked(k, n, v), h[Start(k) + n])
<1> DEFINE e == h[Start(k) + n]
           words == {<<a, word[TagAfter(k, n)][a]>> : a \in ReadAt(k, n)}
<1>1. CASE ~e.value.valid
  BY <1>1 DEF Of, Picked, Nothing
<1>2. CASE e.value.valid
  <2>1. v \in ValuesOf(e.value, e.allowed)
    BY <1>2 DEF Of
  <2>2. words \in SUBSET e.allowed
    BY DEF Allows
  <2>3. v.valid
    BY <2>1, ValueIs
  <2>4. Picked(k, n, v) = [v EXCEPT !.used = @ \cup words]
    BY <2>3, Zenon DEF Picked
  <2>5. [v EXCEPT !.used = @ \cup words] \in ValuesOf(e.value, e.allowed)
    <3> HIDE DEF words, e
    <3> QED
      BY <2>1, <2>2, UsesMore
  <2> QED
    BY <1>2, <2>4, <2>5, Zenon DEF Of
<1> QED
  BY <1>1, <1>2

LEMMA WorkedOf ==
  ASSUME Shaped, NEW h, NEW x, Carries(h), Arrives(h, x), NEW k \in 1 .. N,
         \A n \in Nat : Allows(h, k, n), NEW i \in 1 .. Nodes[k].latency
  PROVE  /\ Of(Worked(k, x)[i], h[Start(k) + (i - 1)])
         /\ Shifted(pipeTag[k], InputTag(k))[i] = h[Start(k) + (i - 1)].tag
<1>1. /\ Nodes[k].latency \in Nat \ {0} /\ Start(k) \in Nat /\ 1 \in Inputs(k)
      /\ i - 1 \in Nat
  BY NodeIs, StartIs
<1>2. /\ i \in DOMAIN pipe[k] /\ i \in DOMAIN pipeTag[k]
  BY DEF Shaped, IsLine
<1>3. InputTag(k) = h[Start(k)].tag
  BY <1>1, AlignedOf DEF InputTag
<1>4. CASE i = 1
  <2>1. Worked(k, x)[i] = Picked(k, 0, Joined(k, x))
    BY <1>2, <1>4 DEF Worked
  <2>2. Start(k) + 0 = Start(k) /\ i - 1 = 0
    BY <1>1, <1>4
  <2>3. Of(Picked(k, 0, Joined(k, x)), h[Start(k) + 0])
    BY <1>3, <2>2, JoinedOf, PickedOf DEF TagAfter
  <2> QED
    BY <1>2, <1>3, <1>4, <2>1, <2>2, <2>3 DEF Shifted
<1>5. CASE i # 1
  <2>1. i - 1 \in 1 .. Nodes[k].latency /\ i - 1 # 0
    BY <1>1, <1>5
  <2>2. /\ Of(pipe[k][i - 1], h[Start(k) + (i - 1)])
        /\ pipeTag[k][i - 1] = h[Start(k) + (i - 1)].tag
    BY <2>1 DEF Carries, InPipe
  <2>3. Worked(k, x)[i] = Picked(k, i - 1, pipe[k][i - 1])
    BY <1>2, <1>5 DEF Worked
  <2>4. Of(Picked(k, i - 1, pipe[k][i - 1]), h[Start(k) + (i - 1)])
    BY <1>1, <2>1, <2>2, PickedOf DEF TagAfter
  <2> QED
    BY <1>2, <1>5, <2>2, <2>3, <2>4 DEF Shifted
<1> QED
  BY <1>4, <1>5

\* The history an edge later: a clear drops the inferences but not their tags.
Older(history, clear) ==
  [age \in Nat \ {0} |->
     IF clear THEN [value |-> Nothing, tag |-> history[age - 1].tag,
                    allowed |-> history[age - 1].allowed]
     ELSE history[age - 1]]

LEMMA OlderIs ==
  ASSUME NEW h, NEW clear \in BOOLEAN, NEW age \in Nat \ {0}, NEW v, ~clear => Of(v, h[age - 1])
  PROVE  /\ Of(IF clear THEN Nothing ELSE v, Older(h, clear)[age])
         /\ Older(h, clear)[age].tag = h[age - 1].tag
<1>1. CASE clear
  <2>1. Older(h, clear)[age] = [value |-> Nothing, tag |-> h[age - 1].tag,
                                allowed |-> h[age - 1].allowed]
    BY <1>1 DEF Older
  <2>2. /\ Older(h, clear)[age].value = Nothing /\ Older(h, clear)[age].tag = h[age - 1].tag
        /\ ~Nothing.valid
    BY <2>1 DEF Nothing
  <2>3. (IF clear THEN Nothing ELSE v) = Nothing
    BY <1>1
  <2> QED
    BY <2>2, <2>3 DEF Of
<1>2. CASE ~clear
  BY <1>2 DEF Older
<1> QED
  BY <1>1, <1>2

LEMMA ShiftedOf ==
  ASSUME Shaped, NEW h, NEW x, Carries(h), Arrives(h, x), NEW k \in 1 .. N, NEW j \in Inputs(k),
         NEW i \in 1 .. Skew(k, j)
  PROVE  LET m == Nodes[k].inputs[j]
         IN  /\ Of(Shifted(skew[k][j], Stream(m, x))[i], h[Arrival[m] + (i - 1)])
             /\ Shifted(skewTag[k][j], TagOf(m))[i] = h[Arrival[m] + (i - 1)].tag
<1> DEFINE m == Nodes[k].inputs[j]
<1>1. m \in 0 .. N /\ Arrival[m] \in Nat /\ Skew(k, j) \in Nat
  BY NodeIs, StartIs, NodesAssumption
<1>2. i \in DOMAIN skew[k][j] /\ i \in DOMAIN skewTag[k][j]
  BY DEF Shaped, IsLine
<1>3. CASE i = 1
  <2>1. Arrival[m] + (i - 1) = Arrival[m]
    BY <1>1, <1>3
  <2> QED
    BY <1>1, <1>2, <1>3, <2>1, StreamOf DEF Shifted
<1>4. CASE i # 1
  <2>1. i - 1 \in 1 .. Skew(k, j)
    BY <1>1, <1>4
  <2> QED
    BY <1>2, <1>4, <2>1 DEF Carries, InSkew, Shifted
<1> QED
  BY <1>3, <1>4

\* A clock edge moves every inference one place on, wherever it is.
LEMMA EdgeCarries ==
  ASSUME Shaped, NEW h, NEW clear \in BOOLEAN, NEW valid, NEW id, NEW write, NEW address,
         NEW data, NEW commit, Clock(clear, valid, id, write, address, data, commit),
         Carries(h), Arrives(h, Arriving(valid, id)),
         \A k \in 1 .. N : \A n \in Nat : Allows(h, k, n),
         NEW next, next = Older(h, clear)
  PROVE  Shaped' /\ Carries(next)'
<1> DEFINE x == Arriving(valid, id)
<1>1. ASSUME NEW k \in 1 .. N
      PROVE  /\ \A j \in Inputs(k) : /\ DOMAIN skew[k][j] = 1 .. Skew(k, j)
                                     /\ DOMAIN skewTag[k][j] = 1 .. Skew(k, j)
             /\ DOMAIN skew[k] = Inputs(k) /\ DOMAIN skewTag[k] = Inputs(k)
             /\ DOMAIN pipe[k] = 1 .. Nodes[k].latency
             /\ DOMAIN pipeTag[k] = 1 .. Nodes[k].latency
  <2>1. \A j \in Inputs(k) : IsLine(skew[k][j], Skew(k, j)) /\ IsLine(skewTag[k][j], Skew(k, j))
    BY DEF Shaped
  <2>2. \A j \in Inputs(k) : DOMAIN skew[k][j] = 1 .. Skew(k, j)
    BY <2>1 DEF IsLine
  <2>3. \A j \in Inputs(k) : DOMAIN skewTag[k][j] = 1 .. Skew(k, j)
    BY <2>1 DEF IsLine
  <2>4. IsLine(pipe[k], Nodes[k].latency) /\ IsLine(pipeTag[k], Nodes[k].latency)
        /\ DOMAIN skew[k] = Inputs(k) /\ DOMAIN skewTag[k] = Inputs(k)
    BY DEF Shaped
  <2>5. DOMAIN pipe[k] = 1 .. Nodes[k].latency
    BY <2>4 DEF IsLine
  <2>6. DOMAIN pipeTag[k] = 1 .. Nodes[k].latency
    BY <2>4 DEF IsLine
  <2> QED
    BY <2>2, <2>3, <2>4, <2>5, <2>6
<1>2. /\ skewTag' = [k \in 1 .. N |-> [j \in DOMAIN skewTag[k] |->
                        Shifted(skewTag[k][j], TagOf(Nodes[k].inputs[j]))]]
      /\ pipeTag' = [k \in 1 .. N |-> Shifted(pipeTag[k], InputTag(k))]
  BY DEF Clock, AlignTags
<1>3. ASSUME NEW k \in 1 .. N
      PROVE  /\ skew'[k] = [j \in Inputs(k) |-> [i \in 1 .. Skew(k, j) |->
                   IF clear THEN Nothing
                   ELSE Shifted(skew[k][j], Stream(Nodes[k].inputs[j], x))[i]]]
             /\ pipe'[k] = [i \in 1 .. Nodes[k].latency |->
                   IF clear THEN Nothing ELSE Worked(k, x)[i]]
  <2>1. CASE clear
    <3>1. /\ skew'[k] = [j \in Inputs(k) |-> [i \in DOMAIN skew[k][j] |-> Nothing]]
          /\ pipe'[k] = [i \in 1 .. Nodes[k].latency |-> Nothing]
      BY <1>1, <2>1 DEF Clock
    <3>2. \A j \in Inputs(k) : [i \in DOMAIN skew[k][j] |-> Nothing]
                               = [i \in 1 .. Skew(k, j) |-> Nothing]
      BY <1>1
    <3> QED
      BY <2>1, <3>1, <3>2
  <2>2. CASE ~clear
    <3>1. /\ skew'[k] = [j \in Inputs(k) |->
                           Shifted(skew[k][j], Stream(Nodes[k].inputs[j], x))]
          /\ pipe'[k] = Worked(k, x)
      BY <1>1, <2>2 DEF Clock
    <3>2. \A j \in Inputs(k) :
            Shifted(skew[k][j], Stream(Nodes[k].inputs[j], x))
              = [i \in 1 .. Skew(k, j) |-> Shifted(skew[k][j], Stream(Nodes[k].inputs[j], x))[i]]
      BY <1>1 DEF Shifted
    <3>3. Worked(k, x) = [i \in 1 .. Nodes[k].latency |-> Worked(k, x)[i]]
      BY <1>1 DEF Worked
    <3> QED
      BY <2>2, <3>1, <3>2, <3>3
  <2> QED
    BY <2>1, <2>2
<1>4. ASSUME NEW k \in 1 .. N
      PROVE  /\ skewTag'[k] = [j \in Inputs(k) |-> [i \in 1 .. Skew(k, j) |->
                   Shifted(skewTag[k][j], TagOf(Nodes[k].inputs[j]))[i]]]
             /\ pipeTag'[k] = [i \in 1 .. Nodes[k].latency |->
                   Shifted(pipeTag[k], InputTag(k))[i]]
  BY <1>1, <1>2 DEF Shifted
<1>5. Shaped'
  <2> SUFFICES ASSUME NEW k \in 1 .. N
               PROVE  /\ DOMAIN skew'[k] = Inputs(k) /\ DOMAIN skewTag'[k] = Inputs(k)
                      /\ \A j \in Inputs(k) : /\ IsLine(skew'[k][j], Skew(k, j))
                                              /\ IsLine(skewTag'[k][j], Skew(k, j))
                      /\ IsLine(pipe'[k], Nodes[k].latency)
                      /\ IsLine(pipeTag'[k], Nodes[k].latency)
    BY DEF Shaped, IsLine
  <2>1. DOMAIN skew'[k] = Inputs(k)
    BY <1>3
  <2>2. DOMAIN skewTag'[k] = Inputs(k)
    BY <1>4
  <2>3. ASSUME NEW j \in Inputs(k) PROVE IsLine(skew'[k][j], Skew(k, j))
    <3>1. skew'[k][j] = [i \in 1 .. Skew(k, j) |->
            IF clear THEN Nothing
            ELSE Shifted(skew[k][j], Stream(Nodes[k].inputs[j], x))[i]]
      BY <1>3
    <3> QED
      BY <3>1 DEF IsLine
  <2>4. ASSUME NEW j \in Inputs(k) PROVE IsLine(skewTag'[k][j], Skew(k, j))
    <3>1. skewTag'[k][j] = [i \in 1 .. Skew(k, j) |->
            Shifted(skewTag[k][j], TagOf(Nodes[k].inputs[j]))[i]]
      BY <1>4
    <3> QED
      BY <3>1 DEF IsLine
  <2>5. IsLine(pipe'[k], Nodes[k].latency)
    <3>1. pipe'[k] = [i \in 1 .. Nodes[k].latency |->
                        IF clear THEN Nothing ELSE Worked(k, x)[i]]
      BY <1>3
    <3> QED
      BY <3>1 DEF IsLine
  <2>6. IsLine(pipeTag'[k], Nodes[k].latency)
    <3>1. pipeTag'[k] = [i \in 1 .. Nodes[k].latency |-> Shifted(pipeTag[k], InputTag(k))[i]]
      BY <1>4
    <3> QED
      BY <3>1 DEF IsLine
  <2> QED
    BY <2>1, <2>2, <2>3, <2>4, <2>5, <2>6
<1>6. ASSUME NEW k \in 1 .. N PROVE InPipe(next, k)'
  <2> SUFFICES ASSUME NEW i \in 1 .. Nodes[k].latency
               PROVE  Of(pipe'[k][i], next[Start(k) + i]) /\ pipeTag'[k][i] = next[Start(k) + i].tag
    BY DEF InPipe, Of
  <2>1. /\ Start(k) + i \in Nat \ {0}
        /\ (Start(k) + i) - 1 = Start(k) + (i - 1)
    BY StartIs, NodeIs
  <2>2. /\ Of(Worked(k, x)[i], h[Start(k) + (i - 1)])
        /\ Shifted(pipeTag[k], InputTag(k))[i] = h[Start(k) + (i - 1)].tag
    BY WorkedOf
  <2>3. pipe'[k][i] = IF clear THEN Nothing ELSE Worked(k, x)[i]
    <3>1. pipe'[k] = [n \in 1 .. Nodes[k].latency |->
                        IF clear THEN Nothing ELSE Worked(k, x)[n]]
      BY <1>3
    <3> QED
      BY <3>1
  <2>4. pipeTag'[k][i] = Shifted(pipeTag[k], InputTag(k))[i]
    <3>1. pipeTag'[k] = [n \in 1 .. Nodes[k].latency |-> Shifted(pipeTag[k], InputTag(k))[n]]
      BY <1>4
    <3> QED
      BY <3>1
  <2> QED
    BY <2>1, <2>2, <2>3, <2>4, OlderIs
<1>7. ASSUME NEW k \in 1 .. N, NEW j \in Inputs(k) PROVE InSkew(next, k, j)'
  <2> DEFINE m == Nodes[k].inputs[j]
  <2> SUFFICES ASSUME NEW i \in 1 .. Skew(k, j)
               PROVE  /\ Of(skew'[k][j][i], next[Arrival[m] + i])
                      /\ skewTag'[k][j][i] = next[Arrival[m] + i].tag
    BY DEF InSkew, Of
  <2>1. /\ Arrival[m] + i \in Nat \ {0}
        /\ (Arrival[m] + i) - 1 = Arrival[m] + (i - 1)
    BY StartIs
  <2>2. /\ Of(Shifted(skew[k][j], Stream(m, x))[i], h[Arrival[m] + (i - 1)])
        /\ Shifted(skewTag[k][j], TagOf(m))[i] = h[Arrival[m] + (i - 1)].tag
    BY ShiftedOf
  <2>3. skew'[k][j][i] = IF clear THEN Nothing ELSE Shifted(skew[k][j], Stream(m, x))[i]
    <3>1. skew'[k][j] = [n \in 1 .. Skew(k, j) |->
            IF clear THEN Nothing ELSE Shifted(skew[k][j], Stream(m, x))[n]]
      BY <1>3
    <3> QED
      BY <3>1
  <2>4. skewTag'[k][j][i] = Shifted(skewTag[k][j], TagOf(m))[i]
    <3>1. skewTag'[k][j] = [n \in 1 .. Skew(k, j) |-> Shifted(skewTag[k][j], TagOf(m))[n]]
      BY <1>4
    <3> QED
      BY <3>1
  <2> QED
    BY <2>1, <2>2, <2>3, <2>4, OlderIs
<1> QED
  BY <1>5, <1>6, <1>7 DEF Carries

\* What a unit picks lies in its own words.
LEMMA PicksAre ==
  ASSUME NEW p \in Picks
  PROVE  /\ p.node \in 1 .. N /\ p.address \in Addresses
         /\ p.stage \in 0 .. 2 + Nodes[p.node].product + Nodes[p.node].sum
<1>1. PICK k \in 1 .. N :
        \/ \E a \in Base[k] .. Base[k] + Nodes[k].weights - 1 :
              p = [node |-> k, stage |-> 0, address |-> a]
        \/ \E a \in Base[k] + Nodes[k].weights
                     .. Base[k] + Nodes[k].weights + Nodes[k].channels - 1 :
              p = [node |-> k, stage |-> 1 + Nodes[k].product, address |-> a]
        \/ \E a \in Base[k] + Nodes[k].weights + Nodes[k].channels
                     .. Base[k] + Nodes[k].weights + Nodes[k].channels + Nodes[k].channels - 1 :
              p = [node |-> k, stage |-> 2 + Nodes[k].product + Nodes[k].sum, address |-> a]
  BY DEF Picks
<1>2. /\ Nodes[k].weights \in Nat /\ Nodes[k].channels \in Nat
      /\ Nodes[k].product \in Nat /\ Nodes[k].sum \in Nat
  BY NodesAssumption DEF IsNode
<1>3. Base[k] \in Nat /\ Base[k] + Held(k) <= Words /\ Words \in Nat
  BY BaseNat, UnitWithin, WordsNat, NodesAssumption
<1> QED
  BY <1>1, <1>2, <1>3 DEF Held, Addresses

\* Before the first inference nothing is in the lines and every tag is zero.
Blank(allowed) == [age \in Nat |-> [value |-> Nothing, tag |-> 0, allowed |-> allowed]]

LEMMA InitCarries ==
  ASSUME Init, NEW allowed
  PROVE  Shaped /\ Carries(Blank(allowed))
<1>1. ASSUME NEW k \in 1 .. N
      PROVE  /\ skew[k] = [j \in Inputs(k) |-> [i \in 1 .. Skew(k, j) |-> Nothing]]
             /\ skewTag[k] = [j \in Inputs(k) |-> [i \in 1 .. Skew(k, j) |-> 0]]
             /\ pipe[k] = [i \in 1 .. Nodes[k].latency |-> Nothing]
             /\ pipeTag[k] = [i \in 1 .. Nodes[k].latency |-> 0]
  BY DEF Init, Line, Inputs
<1>2. Shaped
  <2> SUFFICES ASSUME NEW k \in 1 .. N
               PROVE  /\ DOMAIN skew[k] = Inputs(k) /\ DOMAIN skewTag[k] = Inputs(k)
                      /\ \A j \in Inputs(k) : /\ IsLine(skew[k][j], Skew(k, j))
                                              /\ IsLine(skewTag[k][j], Skew(k, j))
                      /\ IsLine(pipe[k], Nodes[k].latency)
                      /\ IsLine(pipeTag[k], Nodes[k].latency)
    BY DEF Shaped
  <2>1. /\ DOMAIN skew[k] = Inputs(k) /\ DOMAIN skewTag[k] = Inputs(k)
        /\ \A j \in Inputs(k) : /\ skew[k][j] = [i \in 1 .. Skew(k, j) |-> Nothing]
                                /\ skewTag[k][j] = [i \in 1 .. Skew(k, j) |-> 0]
    BY <1>1
  <2> QED
    BY <1>1, <2>1 DEF IsLine
<1>3. \A age \in Nat : /\ Of(Nothing, Blank(allowed)[age])
                       /\ Blank(allowed)[age].tag = 0
  BY DEF Blank, Of, Nothing
<1>4. ASSUME NEW k \in 1 .. N
      PROVE  InPipe(Blank(allowed), k) /\ \A j \in Inputs(k) : InSkew(Blank(allowed), k, j)
  <2>1. \A i \in 1 .. Nodes[k].latency : Start(k) + i \in Nat
    BY StartIs, NodeIs
  <2>2. \A j \in Inputs(k) : \A i \in 1 .. Skew(k, j) : Arrival[Nodes[k].inputs[j]] + i \in Nat
    BY StartIs
  <2>3. \A i \in 1 .. Nodes[k].latency : pipe[k][i] = Nothing
    BY <1>1
  <2>4. \A i \in 1 .. Nodes[k].latency : pipeTag[k][i] = 0
    BY <1>1
  <2>5. InPipe(Blank(allowed), k)
    BY <1>3, <2>1, <2>3, <2>4 DEF InPipe
  <2>6. ASSUME NEW j \in Inputs(k) PROVE InSkew(Blank(allowed), k, j)
    <3>1. skew[k][j] = [i \in 1 .. Skew(k, j) |-> Nothing]
      BY <1>1
    <3>2. skewTag[k][j] = [i \in 1 .. Skew(k, j) |-> 0]
      BY <1>1
    <3>3. \A i \in 1 .. Skew(k, j) : skew[k][j][i] = Nothing
      BY <3>1
    <3>4. \A i \in 1 .. Skew(k, j) : skewTag[k][j][i] = 0
      BY <3>2
    <3> QED
      BY <1>3, <2>2, <3>3, <3>4 DEF InSkew
  <2> QED
    BY <2>5, <2>6
<1> QED
  BY <1>2, <1>4 DEF Carries

\* The history with what arrives now at its head.
Entering(history, entry) == [age \in Nat |-> IF age = 0 THEN entry ELSE history[age]]

LEMMA EntersAhead ==
  ASSUME NEW h, NEW entry, Carries(h)
  PROVE  Carries(Entering(h, entry))
<1>1. \A age \in Nat \ {0} : Entering(h, entry)[age] = h[age]
  BY DEF Entering
<1>2. ASSUME NEW k \in 1 .. N
      PROVE  /\ \A i \in 1 .. Nodes[k].latency : Start(k) + i \in Nat \ {0}
             /\ \A j \in Inputs(k) : \A i \in 1 .. Skew(k, j) :
                  Arrival[Nodes[k].inputs[j]] + i \in Nat \ {0}
  BY StartIs, NodeIs
<1> QED
  BY <1>1, <1>2 DEF Carries, InPipe, InSkew

LEMMA EntersAsItIs ==
  ASSUME NEW valid \in BOOLEAN, NEW id, NEW now, now[0].value = Arriving(valid, id),
         now[0].tag = bank
  PROVE  Arrives(now, Arriving(valid, id))
<1> DEFINE x == Arriving(valid, id)
<1>1. CASE valid
  <2>1. x = [valid |-> TRUE, from |-> {id}, used |-> {},
             promised |-> [words |-> Contents(word[bank]), inOrder |-> Weights!InOrder(bank)]]
    BY <1>1 DEF Arriving
  <2> HIDE DEF x
  <2>2. x \in [valid : {TRUE}, from : {x.from}, used : SUBSET now[0].allowed,
               promised : {x.promised}]
    BY <2>1
  <2>3. x.valid
    BY <2>1
  <2> QED
    BY <2>2, <2>3 DEF Arrives, Of, ValuesOf, x
<1>2. CASE ~valid
  <2>1. x = Nothing /\ ~Nothing.valid
    BY <1>2 DEF Arriving, Nothing
  <2> QED
    BY <2>1 DEF Arrives, Of
<1> QED
  BY <1>1, <1>2

LEMMA StillCarries ==
  ASSUME NEW h, Shaped, Carries(h), UNCHANGED pipeline
  PROVE  Shaped' /\ Carries(h)'
BY DEF pipeline, Shaped, Carries, InPipe, InSkew, IsLine, Of

\* The prediction is of the inference that arrived Latency cycles ago.
LEMMA PredictionOf ==
  ASSUME NEW h, Carries(h)
  PROVE  Latency \in Nat \ {0} /\ Of(Prediction, h[Latency])
<1>1. N \in 1 .. N /\ Nodes[N].latency \in 1 .. Nodes[N].latency
  BY NodesAssumption, NodeIs
<1>2. Latency = Start(N) + Nodes[N].latency /\ Latency \in Nat \ {0}
  BY <1>1, StartIs DEF Latency
<1> QED
  BY <1>1, <1>2 DEF Carries, InPipe, Prediction

-----------------------------------------------------------------------------
(* What uses words at all.  A set of units to which words come: each has    *)
(* words of its own or an input from another of the set.                    *)

Reached(units) == /\ units \subseteq 1 .. N
                  /\ \A k \in units : \/ Nodes[k].weights # 0
                                       \/ \E j \in Inputs(k) : Nodes[k].inputs[j] \in units

Fills(v) == v.valid => v.used # {}

Filled(units) == \A k \in 1 .. N :
  /\ k \in units => \A i \in 1 .. Nodes[k].latency : Fills(pipe[k][i])
  /\ \A j \in Inputs(k) : Nodes[k].inputs[j] \in units
                             => \A i \in 1 .. Skew(k, j) : Fills(skew[k][j][i])

LEMMA UsedThen ==
  ASSUME NEW value, NEW allowed, NEW v \in ValuesOf(value, allowed), NEW words
  PROVE  /\ [v EXCEPT !.used = @ \cup words].used = v.used \cup words
         /\ [v EXCEPT !.from = value.from, !.used = words].used = words
BY DEF ValuesOf

LEMMA StreamFills ==
  ASSUME NEW units \in SUBSET (1 .. N), Filled(units), NEW k \in units, NEW x
  PROVE  Fills(Stream(k, x))
<1>1. k # 0 /\ k \in 1 .. N /\ Nodes[k].latency \in 1 .. Nodes[k].latency
  BY NodeIs, NodesAssumption
<1> QED
  BY <1>1 DEF Filled, Stream

LEMMA AlignedFills ==
  ASSUME Shaped, NEW units \in SUBSET (1 .. N), Filled(units), NEW k \in 1 .. N,
         NEW j \in Inputs(k), Nodes[k].inputs[j] \in units, NEW x
  PROVE  Fills(Aligned(k, j, x))
<1> DEFINE n == Skew(k, j)
           m == Nodes[k].inputs[j]
<1>1. n \in Nat /\ IsLine(skew[k][j], n)
  BY StartIs DEF Shaped
<1>2. Aligned(k, j, x) = IF n = 0 THEN Stream(m, x) ELSE skew[k][j][n]
  BY <1>1, TapIs DEF Aligned
<1>3. n # 0 => n \in 1 .. n
  BY <1>1
<1>4. n # 0 => Fills(skew[k][j][n])
  BY <1>3 DEF Filled
<1> QED
  BY <1>2, <1>4, StreamFills

LEMMA JoinedFills ==
  ASSUME Shaped, NEW h, NEW x, Carries(h), Arrives(h, x), NEW units \in SUBSET (1 .. N),
         Filled(units), NEW k \in 1 .. N, NEW j \in Inputs(k), Nodes[k].inputs[j] \in units
  PROVE  Fills(Joined(k, x))
<1> DEFINE e == h[Start(k)]
           a == Aligned(k, 1, x)
           u == UNION {input.used : input \in {Aligned(k, i, x) : i \in Inputs(k)}}
           f == UNION {input.from : input \in {Aligned(k, i, x) : i \in Inputs(k)}}
<1>1. 1 \in Inputs(k) /\ \A i \in Inputs(k) : Of(Aligned(k, i, x), e)
  BY NodeIs, AlignedOf
<1>2. ~Nothing.valid
  BY DEF Nothing
<1>3. CASE ~e.value.valid
  <2>1. ~a.valid
    BY <1>1, <1>2, <1>3 DEF Of
  <2> QED
    BY <1>2, <2>1 DEF Joined, Fills
<1>4. CASE e.value.valid
  <2>1. \A i \in Inputs(k) : Aligned(k, i, x) \in ValuesOf(e.value, e.allowed)
    BY <1>1, <1>4 DEF Of
  <2>2. \A i \in Inputs(k) : Aligned(k, i, x).valid /\ Aligned(k, i, x).from = e.value.from
    BY <2>1, ValueIs
  <2>3. u # {}
    BY <2>2, AlignedFills DEF Fills
  <2>4. f = e.value.from
    BY <1>1, <2>2
  <2>5. Joined(k, x) = [a EXCEPT !.from = e.value.from, !.used = u]
    <3>1. Joined(k, x) = [a EXCEPT !.from = f, !.used = u]
      BY <1>1, <2>2, Zenon DEF Joined, Inputs
    <3> QED
      BY <2>4, <3>1, Zenon
  <2>6. Joined(k, x).used = u
    <3>1. a \in ValuesOf(e.value, e.allowed)
      BY <1>1, <2>1
    <3> HIDE DEF a, u, e
    <3>2. [a EXCEPT !.from = e.value.from, !.used = u].used = u
      BY <3>1, UsedThen
    <3> QED
      BY <2>5, <3>2, Zenon
  <2> HIDE DEF u
  <2> QED
    BY <2>3, <2>6 DEF Fills
<1> QED
  BY <1>3, <1>4

LEMMA PickedFills ==
  ASSUME NEW e, NEW v, NEW k \in 1 .. N, NEW n \in Nat, Of(v, e),
         Fills(v) \/ ReadAt(k, n) # {}
  PROVE  Fills(Picked(k, n, v))
<1>1. CASE ~v.valid
  BY <1>1 DEF Picked, Fills, Nothing
<1>2. CASE v.valid
  <2> DEFINE words == {<<a, word[TagAfter(k, n)][a]>> : a \in ReadAt(k, n)}
  <2>1. v \in ValuesOf(e.value, e.allowed)
    BY <1>2 DEF Of, Nothing
  <2>2. Picked(k, n, v) = [v EXCEPT !.used = @ \cup words]
    BY <1>2, Zenon DEF Picked
  <2>3. v.used \cup words # {}
    BY <1>2 DEF Fills
  <2>4. Picked(k, n, v).used = v.used \cup words
    <3> HIDE DEF words
    <3>1. [v EXCEPT !.used = @ \cup words].used = v.used \cup words
      BY <2>1, UsedThen
    <3> QED
      BY <2>2, <3>1, Zenon
  <2> HIDE DEF words
  <2> QED
    BY <2>3, <2>4 DEF Fills
<1> QED
  BY <1>1, <1>2

\* A unit with weights reads some as soon as its inputs are there.
LEMMA ReadsAtOnce ==
  ASSUME NEW k \in 1 .. N, Nodes[k].weights # 0
  PROVE  ReadAt(k, 0) # {}
<1> DEFINE p == [node |-> k, stage |-> 0, address |-> Base[k]]
<1>1. Nodes[k].weights \in Nat /\ Base[k] \in Nat
  BY BaseNat, NodesAssumption DEF IsNode
<1>2. Base[k] \in Base[k] .. Base[k] + Nodes[k].weights - 1
  BY <1>1
<1>3. p \in Picks
  BY <1>2 DEF Picks
<1>4. p.node = k /\ p.stage = 0
  OBVIOUS
<1> HIDE DEF p
<1> QED
  BY <1>3, <1>4 DEF ReadAt

LEMMA WorkedFills ==
  ASSUME Shaped, NEW h, NEW x, Carries(h), Arrives(h, x), NEW units, Reached(units),
         Filled(units), NEW k \in units, NEW i \in 1 .. Nodes[k].latency
  PROVE  Fills(Worked(k, x)[i])
<1>1. k \in 1 .. N /\ units \in SUBSET (1 .. N)
  BY DEF Reached
<1>2. i \in DOMAIN pipe[k] /\ Nodes[k].latency \in Nat \ {0}
  BY <1>1, NodeIs DEF Shaped, IsLine
<1>3. CASE i = 1
  <2>1. Worked(k, x)[i] = Picked(k, 0, Joined(k, x))
    BY <1>2, <1>3 DEF Worked
  <2>2. Of(Joined(k, x), h[Start(k)])
    BY <1>1, JoinedOf
  <2>3. Fills(Joined(k, x)) \/ ReadAt(k, 0) # {}
    BY <1>1, ReadsAtOnce, JoinedFills DEF Reached
  <2> QED
    BY <1>1, <2>1, <2>2, <2>3, PickedFills
<1>4. CASE i # 1
  <2>1. i - 1 \in 1 .. Nodes[k].latency /\ i - 1 \in Nat
    BY <1>2, <1>4
  <2>2. Worked(k, x)[i] = Picked(k, i - 1, pipe[k][i - 1])
    BY <1>2, <1>4 DEF Worked
  <2>3. Of(pipe[k][i - 1], h[Start(k) + (i - 1)]) /\ Fills(pipe[k][i - 1])
    BY <1>1, <2>1 DEF Carries, InPipe, Filled
  <2> QED
    BY <1>1, <2>1, <2>2, <2>3, PickedFills
<1> QED
  BY <1>3, <1>4

\* Every register of the set holds, after an edge, an inference that used a word.
LEMMA EdgeFills ==
  ASSUME Shaped, NEW h, NEW clear \in BOOLEAN, NEW valid, NEW id, NEW write, NEW address,
         NEW data, NEW commit, Clock(clear, valid, id, write, address, data, commit),
         Carries(h), Arrives(h, Arriving(valid, id)), NEW units, Reached(units), Filled(units)
  PROVE  Filled(units)'
<1> DEFINE x == Arriving(valid, id)
<1>1. units \in SUBSET (1 .. N) /\ ~Nothing.valid
  BY DEF Reached, Nothing
<1>2. Fills(Nothing)
  BY <1>1 DEF Fills
<1>3. ASSUME NEW k \in units, NEW i \in 1 .. Nodes[k].latency PROVE Fills(pipe'[k][i])
  <2>1. k \in 1 .. N /\ i \in DOMAIN pipe[k]
    BY <1>1 DEF Shaped, IsLine
  <2>2. CASE clear
    <3>1. pipe'[k] = [n \in DOMAIN pipe[k] |-> Nothing]
      BY <2>1, <2>2 DEF Clock
    <3> QED
      BY <1>2, <2>1, <3>1
  <2>3. CASE ~clear
    <3>1. pipe'[k] = Worked(k, x)
      BY <2>1, <2>3 DEF Clock
    <3> QED
      BY <3>1, WorkedFills
  <2> QED
    BY <2>2, <2>3
<1>4. ASSUME NEW k \in 1 .. N, NEW j \in Inputs(k), Nodes[k].inputs[j] \in units,
             NEW i \in 1 .. Skew(k, j)
      PROVE  Fills(skew'[k][j][i])
  <2> DEFINE m == Nodes[k].inputs[j]
  <2>1. j \in DOMAIN skew[k] /\ i \in DOMAIN skew[k][j]
    BY DEF Shaped, IsLine
  <2>2. CASE clear
    <3>1. skew'[k][j] = [n \in DOMAIN skew[k][j] |-> Nothing]
      BY <2>1, <2>2 DEF Clock
    <3> QED
      BY <1>2, <2>1, <3>1
  <2>3. CASE ~clear
    <3>1. skew'[k][j] = Shifted(skew[k][j], Stream(m, x))
      BY <2>1, <2>3 DEF Clock
    <3>2. skew'[k][j][i] = IF i = 1 THEN Stream(m, x) ELSE skew[k][j][i - 1]
      BY <2>1, <3>1 DEF Shifted
    <3>3. i # 1 => i - 1 \in 1 .. Skew(k, j)
      BY StartIs
    <3>4. i # 1 => Fills(skew[k][j][i - 1])
      BY <1>4, <3>3 DEF Filled
    <3> QED
      BY <1>1, <1>4, <3>2, <3>4, StreamFills
  <2> QED
    BY <2>2, <2>3
<1> QED
  BY <1>3, <1>4 DEF Filled, Fills

LEMMA InitFills == ASSUME Init, NEW units PROVE Filled(units)
<1>1. ~Nothing.valid
  BY DEF Nothing
<1>2. ASSUME NEW k \in 1 .. N, NEW i \in 1 .. Nodes[k].latency PROVE pipe[k][i] = Nothing
  BY DEF Init, Line
<1>3. ASSUME NEW k \in 1 .. N, NEW j \in Inputs(k), NEW i \in 1 .. Skew(k, j)
      PROVE  skew[k][j][i] = Nothing
  BY DEF Init, Line, Inputs
<1> QED
  BY <1>1, <1>2, <1>3 DEF Filled, Fills

=============================================================================
