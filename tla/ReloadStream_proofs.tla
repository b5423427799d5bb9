------------------------ MODULE ReloadStream_proofs ------------------------
(***************************************************************************)
(* What holds of every reloadable design and for every set of models and   *)
(* images, equal words or not: what a bank's CRC vouches for, that an edge *)
(* changes no word of a bank in use or put in use, and that a host that    *)
(* leaves Lag cycles after a commit never overtakes an inference: each     *)
(* uses the words of one bank as they were when it arrived.                *)
(***************************************************************************)
EXTENDS ReloadStream, FixedTop_proofs

HostTypes == /\ target \in Models /\ at \in 0 .. Words /\ faults \in 0 .. 2
             /\ since \in 0 .. Gap /\ (at > 0 => since = Gap)

\* The bank in use holds one model, if its writes came in order.
OneInUse == Weights!InOrder(bank) => \E model \in Models : word[bank] = Image[model]

\* What the host has written of the idle bank since it last began with word 0.
\* Without a fault, its words, and the CRC was fed no more.  With one, either its
\* words all the same, but for word 0, which may be the one that was lost; or
\* one word was lost, and the CRC was fed one too few.
Written(fed, words) ==
  /\ faults = 0 /\ at > 0 =>
       Len(fed) = at /\ \A a \in Addresses : a < at => words[a] = Image[target][a]
  /\ faults = 1 => \/ \A a \in Addresses : 0 < a /\ a < at => words[a] = Image[target][a]
                   \/ Len(fed) = at - 1
IdleWritten == Written(crc[1 - bank], word[1 - bank])

\* Each inference is allowed the words it was promised, those of one model if
\* they were written in order.  One whose tag is the idle bank's arrived before
\* the commit; the words it has still to pick there are those it was promised.
Safe(history, age) ==
  /\ history[age].tag \in 0 .. 1
  /\ history[age].value.valid =>
       /\ history[age].value.promised.words = history[age].allowed
       /\ history[age].value.promised.inOrder =>
            \E model \in Models : history[age].allowed = Contents(Image[model])
  /\ history[age].tag # bank => age > since + at
  /\ \A p \in Picks : Start(p.node) + p.stage >= age =>
       <<p.address, word[history[age].tag][p.address]>> \in history[age].allowed
AllSafe(history) == \A age \in Nat \ {0} : Safe(history, age)

Inv == BankTypes /\ HostTypes /\ Begun /\ OneInUse /\ IdleWritten

Flight == Shaped /\ \E history : Carries(history) /\ AllSafe(history)

-----------------------------------------------------------------------------

LEMMA InitKeeps == InitStream => Inv /\ Flight
<1> SUFFICES ASSUME InitStream PROVE Inv /\ Flight
  OBVIOUS
<1>1. Compiled \in Models /\ Init /\ Words \in Nat /\ Gap \in Nat
  BY NodesAssumption, BoundsAssumption, WordsNat DEF InitStream
<1>2. Inv
  <2>1. HostTypes /\ at = 0 /\ faults = 0
    BY <1>1 DEF InitStream, HostTypes
  <2>2. IdleWritten
    BY <2>1 DEF IdleWritten, Written
  <2> QED
    BY <1>1, <2>1, <2>2, InitBanks DEF Inv, OneInUse
<1> DEFINE h == Blank(Contents(Image[Compiled]))
<1>3. Carries(h)
  BY <1>1, InitCarries
<1>4. ASSUME NEW age \in Nat \ {0} PROVE Safe(h, age)
  <2>1. /\ h[age].tag = 0 /\ h[age].allowed = Contents(Image[Compiled])
        /\ h[age].value = Nothing /\ ~Nothing.valid
    BY DEF Blank, Nothing
  <2>2. bank = 0 /\ word[0] = Image[Compiled]
    BY <1>1, InitBanks
  <2>3. \A p \in Picks : <<p.address, word[0][p.address]>> \in Contents(Image[Compiled])
    BY <2>2, PicksAre DEF Contents
  <2> HIDE DEF h
  <2> QED
    BY <1>1, <2>1, <2>2, <2>3 DEF Safe
<1> QED
  BY <1>1, <1>2, <1>3, <1>4, InitCarries DEF Flight, AllSafe

\* Lag is how far the latest pick of any address is behind its address.
LEMMA LagIs == Lag \in Int /\ \A p \in Picks : Start(p.node) + p.stage - p.address <= Lag
<1> DEFINE latest == [k \in 0 .. N |-> IF k = 0 THEN 0
                                       ELSE Start(k) + 2 + Nodes[k].product + Nodes[k].sum]
           S == {0} \cup {Start(p.node) + p.stage - p.address : p \in Picks}
<1>1. N \in Nat
  BY NodesAssumption
<1>2. ASSUME NEW k \in 1 .. N
      PROVE  Start(k) \in Nat /\ Nodes[k].product \in Nat /\ Nodes[k].sum \in Nat
  BY StartIs, NodesAssumption DEF IsNode
<1>3. \A k \in 0 .. N : latest[k] \in Int
  BY <1>1, <1>2
<1>4. PICK b \in Int : BoundOf(latest, N, b)
  <2> HIDE DEF latest
  <2> QED
    BY <1>1, <1>3, FinitelyManyBounded
<1>5. ASSUME NEW p \in Picks
      PROVE  /\ Start(p.node) + p.stage - p.address \in Int
             /\ Start(p.node) + p.stage - p.address <= b
  <2>1. /\ p.node \in 1 .. N /\ p.address \in Nat
        /\ p.stage \in 0 .. 2 + Nodes[p.node].product + Nodes[p.node].sum
    BY PicksAre, WordsNat DEF Addresses
  <2>2. p.node \in 0 .. N /\ p.node # 0
    BY <1>1, <2>1
  <2>3. latest[p.node] <= b
    BY <1>4, <2>2 DEF BoundOf
  <2>4. Start(p.node) + 2 + Nodes[p.node].product + Nodes[p.node].sum <= b
    BY <2>2, <2>3
  <2> QED
    BY <1>2, <2>1, <2>4
<1>6. PICK c \in Int : c >= b /\ c >= 0
  BY <1>4
<1>7. S \in SUBSET Int /\ S # {} /\ \A s \in S : s <= c
  BY <1>5, <1>6
<1>8. Max(S) \in S /\ \A s \in S : s <= Max(S)
  <2> HIDE DEF S
  <2> QED
    BY <1>7, MaxIs
<1>9. Lag = Max(S)
  BY DEF Lag
<1> QED
  BY <1>7, <1>8, <1>9

\* An edge the host may make: where it writes, and how much later it is then.
Moves(write, address, data, commit) ==
  /\ write \in BOOLEAN /\ commit \in BOOLEAN /\ Edge(write, address, data, commit)
  /\ write /\ ~commit => /\ address \in Addresses /\ data \in Data
                         /\ since = Gap /\ address <= at
  /\ ~commit => since' + at' <= since + at + 1
  /\ commit => /\ since' = 0 /\ at' = 0
               /\ \E model \in Models : Weights!IdleCrcIs(model)

LEMMA MinOfTwo ==
  ASSUME NEW a \in Int, NEW b \in Int
  PROVE  Min({a, b}) = IF a <= b THEN a ELSE b
BY DEF Min

LEMMA FaultsType == ASSUME HostTypes, Fault PROVE faults' = IF faults = 0 THEN 1 ELSE 2
BY MinOfTwo DEF HostTypes, Fault

LEMMA StepIsEdge ==
  ASSUME HostTypes, NextStream
  PROVE  HostTypes' /\ \E write, address, data, commit : Moves(write, address, data, commit)
<1>1. Words \in Nat /\ Gap \in Nat \ {0}
  BY WordsNat, BoundsAssumption
<1>2. ASSUME NoWrite, since' + at' <= since + at + 1 PROVE Moves(FALSE, 0, 0, FALSE)
  BY <1>2 DEF NoWrite, Moves
<1>3. CASE HostPauses
  <2>1. /\ since' = (IF since + 1 <= Gap THEN since + 1 ELSE Gap)
        /\ UNCHANGED <<target, at, faults>>
    BY <1>1, <1>3, MinOfTwo DEF HostPauses, HostTypes
  <2>2. HostTypes' /\ since' + at' <= since + at + 1
    BY <1>1, <2>1 DEF HostTypes
  <2>3. NoWrite
    BY <1>3 DEF HostPauses
  <2> QED
    BY <1>2, <2>2, <2>3
<1>4. CASE WriteLost
  <2>1. faults' \in 0 .. 2
    BY <1>4, FaultsType DEF WriteLost
  <2>2. HostTypes' /\ NoWrite /\ since' + at' <= since + at + 1
    BY <1>1, <1>4, <2>1 DEF WriteLost, MayWrite, HostTypes
  <2> QED
    BY <1>2, <2>2
<1>5. CASE HostRetries
  <2>1. HostTypes' /\ NoWrite /\ since' + at' <= since + at + 1
    BY <1>1, <1>5 DEF HostRetries, StartsOver, HostTypes
  <2> QED
    BY <1>2, <2>1
<1>6. CASE HostWrites
  <2>1. /\ at \in Addresses /\ target \in Models /\ HostTypes' /\ since = Gap
        /\ since' + at' <= since + at + 1 /\ at <= at
    BY <1>1, <1>6 DEF HostWrites, MayWrite, HostTypes, Addresses
  <2>2. Image[target][at] \in Data
    BY <2>1, ImageIs
  <2>3. Moves(TRUE, at, Image[target][at], FALSE)
    BY <1>6, <2>1, <2>2 DEF HostWrites, Moves
  <2> QED
    BY <2>1, <2>3
<1>7. CASE WriteTwice
  <2>1. at > 0 /\ UNCHANGED <<target, at, since>> /\ faults' \in 0 .. 2
    BY <1>7, FaultsType DEF WriteTwice
  <2>2. /\ at - 1 \in Addresses /\ target \in Models /\ HostTypes' /\ since = Gap
        /\ since' + at' <= since + at + 1 /\ at - 1 <= at
    BY <1>1, <2>1 DEF HostTypes, Addresses
  <2>3. Image[target][at - 1] \in Data
    BY <2>2, ImageIs
  <2>4. Moves(TRUE, at - 1, Image[target][at - 1], FALSE)
    BY <1>7, <2>2, <2>3 DEF WriteTwice, Moves
  <2> QED
    BY <2>2, <2>4
<1>8. CASE HostCommits
  <2>1. PICK next \in Models, write \in BOOLEAN :
          CommitNow(write, Image[next][0]) /\ target' = next
    BY <1>8 DEF HostCommits
  <2>2. HostTypes' /\ since' = 0 /\ at' = 0 /\ Weights!IdleCrcIs(target) /\ target \in Models
    BY <1>1, <1>8, <2>1 DEF HostCommits, CommitNow, StartsOver, HostTypes
  <2>3. Moves(write, 0, Image[next][0], TRUE)
    BY <2>1, <2>2 DEF CommitNow, Moves
  <2> QED
    BY <2>2, <2>3
<1>9. CASE HostGoesBack
  <2>1. /\ HostTypes' /\ since' = 0 /\ at' = 0
        /\ \E model \in Models : Weights!IdleCrcIs(model)
    BY <1>1, <1>9 DEF HostGoesBack, CommitNow, StartsOver, HostTypes
  <2>2. Moves(FALSE, 0, 0, TRUE)
    BY <1>9, <2>1 DEF HostGoesBack, CommitNow, Moves
  <2> QED
    BY <2>1, <2>2
<1> QED
  BY <1>3, <1>4, <1>5, <1>6, <1>7, <1>8, <1>9 DEF NextStream

\* What the edge is to the banks and to the pipeline.
LEMMA EdgeClocks ==
  ASSUME NEW write, NEW address, NEW data, NEW commit, Edge(write, address, data, commit)
  PROVE  /\ Store(write, address, data, commit)
         /\ \E clear, valid, id : /\ clear \in BOOLEAN /\ valid \in BOOLEAN
                               /\ Clock(clear, valid, id, write, address, data, commit)
<1>1. PICK clear, valid, id : /\ clear \in BOOLEAN /\ valid \in BOOLEAN
                             /\ Clock(clear, valid, id, write, address, data, commit)
  BY DEF Edge
<1>2. Store(write, address, data, commit)
  BY <1>1 DEF Clock
<1> QED
  BY <1>1, <1>2, Zenon

Lands(write, address, data, commit) ==
  /\ bank' = IF commit THEN 1 - bank ELSE bank
  /\ ~write \/ commit => word' = word
  /\ write /\ ~commit => word' = [word EXCEPT ![1 - bank][address] = data]

LEMMA EdgeBanks ==
  ASSUME Inv, NEW write, NEW address, NEW data, NEW commit, Moves(write, address, data, commit)
  PROVE  /\ BankTypes' /\ Begun' /\ OneInUse' /\ \A b \in {bank, bank'} : word'[b] = word[b]
         /\ Lands(write, address, data, commit)
<1>1. Store(write, address, data, commit) /\ write \in BOOLEAN /\ commit \in BOOLEAN
  BY EdgeClocks DEF Moves
<1>2. /\ BankTypes' /\ Begun'
      /\ \A b \in {bank, bank'} : word'[b] = word[b] /\ last'[b] = last[b]
  BY <1>1, StoreKeeps DEF Inv, Moves
<1>3. /\ bank' = IF commit THEN 1 - bank ELSE bank
      /\ ~write \/ commit => word' = word
      /\ write /\ ~commit => word' = [word EXCEPT ![1 - bank][address] = data]
  BY <1>1 DEF Store, Weights!Clock, Weights!Idle
<1>4. OneInUse'
  <2>1. CASE ~commit
    BY <1>2, <1>3, <2>1 DEF Inv, OneInUse, Weights!InOrder
  <2>2. CASE commit
    <3>1. PICK model \in Models : crc[1 - bank] = Weights!CrcOf(Image[model])
      BY <2>2 DEF Moves, Weights!IdleCrcIs, Weights!Idle
    <3>2. bank' = 1 - bank /\ 1 - bank \in {0, 1} /\ word' = word
      BY <1>3, <2>2 DEF Inv, BankTypes
    <3>3. last'[1 - bank] = last[1 - bank]
      BY <1>2, <3>2
    <3>4. Weights!InOrder(1 - bank) => word[1 - bank] = Image[model]
      BY <3>1, <3>2, HoldsItsImage DEF Inv
    <3> QED
      BY <3>2, <3>3, <3>4 DEF OneInUse, Weights!InOrder
  <2> QED
    BY <2>1, <2>2
<1> QED
  BY <1>2, <1>3, <1>4 DEF Lands

-----------------------------------------------------------------------------
(* What the host has written of the idle bank.                             *)

LEMMA NoWriteStays == ASSUME NoWrite PROVE UNCHANGED <<bank, crc, last, word>>
<1>1. Store(FALSE, 0, 0, FALSE)
  BY EdgeClocks DEF NoWrite
<1> QED
  BY <1>1 DEF Store, Weights!Clock

\* A word of the model that reaches the idle bank.
LEMMA WordLands ==
  ASSUME BankTypes, target \in Models, NEW address \in Addresses,
         Edge(TRUE, address, Image[target][address], FALSE)
  PROVE  LET idle == 1 - bank
         IN  /\ bank' = bank /\ idle \in {0, 1} /\ crc[idle] \in CrcStates
             /\ crc'[idle] = Weights!CrcStep(crc[idle], address, Image[target][address])
             /\ word'[idle][address] = Image[target][address]
             /\ \A a \in Addresses : a # address => word'[idle][a] = word[idle][a]
<1> DEFINE idle == 1 - bank
           data == Image[target][address]
<1>1. data \in Data
  BY ImageIs
<1>2. Store(TRUE, address, data, FALSE)
  BY EdgeClocks
<1>3. /\ bank' = bank /\ idle \in {0, 1}
      /\ crc'[idle] = Weights!CrcStep(crc[idle], address, data)
      /\ word'[idle] = [word[idle] EXCEPT ![address] = data]
  BY <1>1, <1>2, StoreLands
<1>4. word[idle] \in [Addresses -> Data] /\ crc[idle] \in CrcStates
  BY <1>3 DEF BankTypes
<1> HIDE DEF data, idle
<1>5. /\ word'[idle][address] = data
      /\ \A a \in Addresses : a # address => word'[idle][a] = word[idle][a]
  BY <1>3, <1>4
<1> QED
  BY <1>3, <1>4, <1>5 DEF data, idle

LEMMA StepWrites == ASSUME Inv, NextStream PROVE IdleWritten'
<1> DEFINE idle == 1 - bank
<1>1. Words \in Nat /\ Addresses = 0 .. Words - 1
  BY WordsNat DEF Addresses
<1>2. at \in Nat /\ faults \in 0 .. 2 /\ target \in Models /\ BankTypes /\ HostTypes
  BY <1>1 DEF Inv, HostTypes
<1>3. /\ faults = 0 /\ at > 0 =>
           Len(crc[idle]) = at /\ \A a \in Addresses : a < at => word[idle][a] = Image[target][a]
      /\ faults = 1 => \/ \A a \in Addresses : 0 < a /\ a < at => word[idle][a] = Image[target][a]
                       \/ Len(crc[idle]) = at - 1
  BY DEF Inv, IdleWritten, Written
<1>4. CASE HostPauses
  <2>1. UNCHANGED <<bank, crc, word, target, at, faults>>
    BY <1>4, NoWriteStays DEF HostPauses
  <2> QED
    BY <2>1 DEF Inv, IdleWritten, Written
<1>5. CASE WriteLost
  <2>1. /\ UNCHANGED <<bank, crc, word, target>> /\ at' = at + 1
        /\ faults' = IF faults = 0 THEN 1 ELSE 2
    BY <1>2, <1>5, NoWriteStays, FaultsType DEF WriteLost
  <2>2. CASE at = 0
    BY <1>1, <1>2, <2>1, <2>2 DEF IdleWritten, Written
  <2>3. CASE at # 0
    BY <1>2, <1>3, <2>1, <2>3 DEF IdleWritten, Written
  <2> QED
    BY <2>2, <2>3
<1>6. CASE HostRetries \/ HostCommits \/ HostGoesBack
  <2>1. at' = 0 /\ faults' = 0
    BY <1>6 DEF HostRetries, HostCommits, HostGoesBack, StartsOver
  <2> QED
    BY <2>1 DEF IdleWritten, Written
<1>7. CASE HostWrites
  <2>1. at \in Addresses /\ Edge(TRUE, at, Image[target][at], FALSE)
    <3>1. at < Words /\ Edge(TRUE, at, Image[target][at], FALSE)
      BY <1>7, Zenon DEF HostWrites, MayWrite
    <3>2. at \in Addresses
      BY <1>1, <1>2, <3>1
    <3> QED
      BY <3>1, <3>2, Zenon
  <2>2. /\ bank' = bank /\ crc[idle] \in CrcStates
        /\ crc'[idle] = Weights!CrcStep(crc[idle], at, Image[target][at])
        /\ word'[idle][at] = Image[target][at]
        /\ \A a \in Addresses : a # at => word'[idle][a] = word[idle][a]
    <3>1. PICK address \in Addresses :
            address = at /\ Edge(TRUE, address, Image[target][address], FALSE)
      BY <2>1
    <3> QED
      BY <1>2, <3>1, WordLands
  <2>3. at' = at + 1 /\ UNCHANGED <<target, faults>>
    BY <1>7 DEF HostWrites
  <2>4. PICK fed \in CrcStates, data \in Data : fed = crc[idle] /\ data = Image[target][at]
    BY <1>2, <2>1, <2>2, ImageIs
  <2>5. Len(Weights!CrcStep(fed, at, data)) =
          IF at = 0 THEN 1 ELSE IF Len(fed) > Words THEN Len(fed) ELSE Len(fed) + 1
    <3>1. fed \in Seq(Data)
      BY DEF CrcStates
    <3> QED
      BY <3>1, AppendProperties DEF Weights!CrcStep
  <2>6. Len(crc'[idle]) =
          IF at = 0 THEN 1
          ELSE IF Len(crc[idle]) > Words THEN Len(crc[idle]) ELSE Len(crc[idle]) + 1
    BY <2>2, <2>4, <2>5
  <2>7. ASSUME NEW a \in Addresses, a < at + 1, a < at => word[idle][a] = Image[target][a]
        PROVE  word'[idle][a] = Image[target][a]
    <3>1. a = at \/ a < at
      BY <1>1, <1>2, <2>7
    <3> QED
      BY <1>1, <1>2, <2>2, <2>7, <3>1
  <2>8. at < Words
    BY <1>1, <2>1
  <2>9. faults = 0 => /\ Len(crc'[idle]) = at + 1
                      /\ \A a \in Addresses : a < at + 1 => word'[idle][a] = Image[target][a]
    BY <1>1, <1>2, <1>3, <2>6, <2>7, <2>8
  <2>10. faults = 1 =>
           \/ \A a \in Addresses : 0 < a /\ a < at + 1 => word'[idle][a] = Image[target][a]
           \/ Len(crc'[idle]) = at
    <3>1. CASE \A a \in Addresses : 0 < a /\ a < at => word[idle][a] = Image[target][a]
      BY <2>7, <3>1
    <3>2. CASE faults = 1 /\ Len(crc[idle]) = at - 1 /\ at # 0
      BY <1>1, <1>2, <2>6, <2>8, <3>2
    <3>3. CASE at = 0
      BY <1>1, <2>7, <3>3
    <3> QED
      BY <1>3, <3>1, <3>2, <3>3
  <2>11. Written(crc[idle], word[idle])'
    BY <1>2, <2>2, <2>3, <2>9, <2>10 DEF Written
  <2> QED
    BY <2>2, <2>11 DEF IdleWritten
<1>8. CASE WriteTwice
  <2>1. /\ at - 1 \in Addresses /\ Edge(TRUE, at - 1, Image[target][at - 1], FALSE)
        /\ UNCHANGED <<target, at>> /\ at > 0
    <3>1. /\ at > 0 /\ Edge(TRUE, at - 1, Image[target][at - 1], FALSE)
          /\ UNCHANGED <<target, at>>
      BY <1>8, Zenon DEF WriteTwice
    <3>2. at - 1 \in Addresses
      BY <1>1, <1>2, <3>1 DEF HostTypes
    <3> QED
      BY <3>1, <3>2, Zenon
  <2>2. /\ bank' = bank
        /\ word'[idle][at - 1] = Image[target][at - 1]
        /\ \A a \in Addresses : a # at - 1 => word'[idle][a] = word[idle][a]
    <3>1. PICK address \in Addresses :
            address = at - 1 /\ Edge(TRUE, address, Image[target][address], FALSE)
      BY <2>1
    <3> QED
      BY <1>2, <3>1, WordLands
  <2>3. faults' = IF faults = 0 THEN 1 ELSE 2
    BY <1>2, <1>8, FaultsType DEF WriteTwice
  <2>4. faults = 0 => \A a \in Addresses : a < at => word'[idle][a] = Image[target][a]
    BY <1>3, <2>1, <2>2
  <2>5. Written(crc[idle], word[idle])'
    BY <1>2, <2>1, <2>2, <2>3, <2>4 DEF Written
  <2> QED
    BY <2>2, <2>5 DEF IdleWritten
<1> QED
  BY <1>4, <1>5, <1>6, <1>7, <1>8 DEF NextStream

\* A write cannot reach a word an inference has still to pick.
LEMMA NeverOvertakes ==
  ASSUME Gap >= Lag, Inv, NEW write, NEW address, NEW data, NEW commit,
         Moves(write, address, data, commit),
         NEW tag \in 0 .. 1, NEW age \in Nat, tag # bank => age > since + at,
         NEW p \in Picks, Start(p.node) + p.stage > age
  PROVE  word'[tag][p.address] = word[tag][p.address]
<1>0. Lands(write, address, data, commit) /\ \A b \in {bank, bank'} : word'[b] = word[b]
  BY EdgeBanks
<1>1. CASE tag \in {bank, bank'}
  BY <1>0, <1>1
<1>2. CASE tag \notin {bank, bank'}
  <2>1. tag = 1 - bank /\ ~commit /\ commit \in BOOLEAN /\ bank \in {0, 1}
    BY <1>0, <1>2 DEF Inv, BankTypes, Moves, Lands
  <2>2. CASE ~write
    BY <1>0, <2>2 DEF Lands
  <2>3. CASE write
    <3>1. since = Gap /\ address <= at /\ address \in Addresses
      BY <2>1, <2>3 DEF Moves
    <3>2. Start(p.node) + p.stage - p.address <= Lag /\ Lag \in Int
      BY LagIs
    <3>3. p.address \in Nat /\ Start(p.node) \in Nat /\ p.stage \in Nat
      <4>1. Nodes[p.node].product \in Nat /\ Nodes[p.node].sum \in Nat
        BY PicksAre, NodesAssumption DEF IsNode
      <4> QED
        BY <4>1, PicksAre, StartIs, WordsNat DEF Addresses
    <3>4. at \in Nat /\ address \in Nat /\ Gap \in Nat
      BY <3>1, WordsNat, BoundsAssumption DEF Inv, HostTypes, Addresses
    <3>5. age > Gap + at
      BY <1>2, <3>1
    <3>6. p.address # address
      BY <3>1, <3>2, <3>3, <3>4, <3>5
    <3>7. word' = [word EXCEPT ![1 - bank][address] = data]
      BY <1>0, <2>1, <2>3 DEF Lands
    <3> QED
      BY <2>1, <3>6, <3>7 DEF Inv, BankTypes
  <2> QED
    BY <2>2, <2>3 DEF Moves
<1> QED
  BY <1>1, <1>2

LEMMA EdgeKeepsFlight ==
  ASSUME Gap >= Lag, Inv, Flight, HostTypes', NEW write, NEW address, NEW data, NEW commit,
         Moves(write, address, data, commit)
  PROVE  Flight'
<1>1. PICK h : Carries(h) /\ AllSafe(h)
  BY DEF Flight
<1>2. PICK allowed : allowed = Contents(word[bank])
  OBVIOUS
<1>3. PICK clear, valid, id : /\ clear \in BOOLEAN /\ valid \in BOOLEAN
                             /\ Clock(clear, valid, id, write, address, data, commit)
  BY EdgeClocks DEF Moves
<1> DEFINE x == Arriving(valid, id)
<1>4. PICK entry : entry.value = x /\ entry.tag = bank /\ entry.allowed = allowed
  <2> DEFINE arriving == [value |-> x, tag |-> bank, allowed |-> allowed]
  <2>1. arriving.value = x /\ arriving.tag = bank /\ arriving.allowed = allowed
    OBVIOUS
  <2> QED
    BY <2>1
<1>5. PICK now : now = Entering(h, entry)
  OBVIOUS
<1>6. PICK next : next = Older(now, clear)
  OBVIOUS
<1>7. now[0] = entry /\ \A age \in Nat \ {0} : now[age] = h[age]
  BY <1>5 DEF Entering
<1>8. x.valid => /\ x.promised.words = allowed
                 /\ x.promised.inOrder =>
                      \E model \in Models : allowed = Contents(Image[model])
  BY <1>2 DEF Arriving, Nothing, Inv, OneInUse
<1>9. Arrives(now, x)
  BY <1>3, <1>4, <1>7, EntersAsItIs
<1> HIDE DEF x
<1>10. Carries(now)
  BY <1>1, <1>5, EntersAhead
\* What an entry of the history holds, that which arrives now included.
<1>11. ASSUME NEW age \in Nat
      PROVE  /\ now[age].tag \in 0 .. 1
             /\ now[age].value.valid =>
                  /\ now[age].value.promised.words = now[age].allowed
                  /\ now[age].value.promised.inOrder =>
                       \E model \in Models : now[age].allowed = Contents(Image[model])
             /\ now[age].tag # bank => age > since + at
             /\ \A p \in Picks : Start(p.node) + p.stage >= age =>
                  <<p.address, word[now[age].tag][p.address]>> \in now[age].allowed
  <2>1. CASE age = 0
    <3>1. \A p \in Picks : <<p.address, word[bank][p.address]>> \in allowed
      BY <1>2, PicksAre DEF Contents
    <3>2. bank \in 0 .. 1
      BY DEF Inv, BankTypes
    <3>3. now[age].value = x /\ now[age].tag = bank /\ now[age].allowed = allowed
      BY <1>4, <1>7, <2>1
    <3> QED
      BY <1>8, <2>1, <3>1, <3>2, <3>3
  <2>2. CASE age # 0
    <3>1. now[age] = h[age] /\ Safe(h, age)
      BY <1>1, <1>7, <2>2 DEF AllSafe
    <3> QED
      BY <3>1 DEF Safe
  <2> QED
    BY <2>1, <2>2
<1>12. \A k \in 1 .. N : \A n \in Nat : Allows(now, k, n)
  <2> SUFFICES ASSUME NEW k \in 1 .. N, NEW n \in Nat, NEW a \in ReadAt(k, n)
               PROVE  <<a, word[now[Start(k) + n].tag][a]>> \in now[Start(k) + n].allowed
    BY DEF Allows
  <2>1. PICK p \in Picks : p.node = k /\ p.stage = n /\ p.address = a
    BY DEF ReadAt
  <2>2. Start(k) + n \in Nat /\ Start(k) + n >= Start(k) + n
    BY StartIs
  <2> QED
    BY <1>11, <2>1, <2>2
<1>13. Shaped' /\ Carries(next)'
  <2>1. Shaped /\ next = Older(now, clear) /\ Arrives(now, Arriving(valid, id))
    BY <1>6, <1>9 DEF Flight, x
  <2> QED
    BY <1>3, <1>10, <1>12, <2>1, EdgeCarries
<1>14. ASSUME NEW age \in Nat \ {0} PROVE Safe(next, age)'
  <2> DEFINE g == age - 1
  <2>1. g \in Nat /\ age = g + 1
    OBVIOUS
  <2>2. /\ next[age].tag = now[g].tag /\ next[age].allowed = now[g].allowed
        /\ next[age].value.valid => next[age].value = now[g].value
    <3>1. CASE clear
      <4>1. next[age] = [value |-> Nothing, tag |-> now[g].tag, allowed |-> now[g].allowed]
        BY <1>6, <3>1 DEF Older
      <4> QED
        BY <4>1 DEF Nothing
    <3>2. CASE ~clear
      BY <1>6, <3>2 DEF Older
    <3> QED
      BY <3>1, <3>2
  <2>3. next[age].tag \in 0 .. 1
    BY <1>11, <2>1, <2>2
  <2>4. next[age].value.valid =>
          /\ next[age].value.promised.words = next[age].allowed
          /\ next[age].value.promised.inOrder =>
               \E model \in Models : next[age].allowed = Contents(Image[model])
    BY <1>11, <2>1, <2>2
  <2>5. ASSUME next[age].tag # bank' PROVE age > since' + at'
    <3>1. CASE commit
      BY <2>1, <3>1 DEF Moves
    <3>2. CASE ~commit
      <4>1. bank' = bank /\ since' + at' <= since + at + 1
        <5>1. Lands(write, address, data, commit)
          BY EdgeBanks
        <5> QED
          BY <3>2, <5>1 DEF Moves, Lands
      <4>2. g > since + at
        BY <1>11, <2>1, <2>2, <2>5, <4>1
      <4>3. {since, at, since', at'} \subseteq Nat
        BY WordsNat, BoundsAssumption DEF Inv, HostTypes
      <4> QED
        BY <2>1, <4>1, <4>2, <4>3
    <3> QED
      BY <3>1, <3>2
  <2>6. ASSUME NEW p \in Picks, Start(p.node) + p.stage >= age
        PROVE  <<p.address, word'[next[age].tag][p.address]>> \in next[age].allowed
    <3>1. Start(p.node) + p.stage \in Nat
      <4>1. Nodes[p.node].product \in Nat /\ Nodes[p.node].sum \in Nat
        BY PicksAre, NodesAssumption DEF IsNode
      <4> QED
        BY <4>1, PicksAre, StartIs
    <3>2. Start(p.node) + p.stage > g /\ Start(p.node) + p.stage >= g
      BY <2>1, <2>6, <3>1
    <3>3. PICK tag \in 0 .. 1 : tag = now[g].tag /\ (tag # bank => g > since + at)
      BY <1>11, <2>1
    <3>4. <<p.address, word[tag][p.address]>> \in now[g].allowed
      BY <1>11, <2>1, <3>2, <3>3
    <3>5. word'[tag][p.address] = word[tag][p.address]
      BY <2>1, <3>2, <3>3, NeverOvertakes
    <3> QED
      BY <2>2, <3>3, <3>4, <3>5
  <2> QED
    BY <2>3, <2>4, <2>5, <2>6 DEF Safe
<1> QED
  BY <1>13, <1>14 DEF Flight, AllSafe

-----------------------------------------------------------------------------

LEMMA NextKeeps ==
  Inv /\ [NextStream]_vars => Inv' /\ \A b \in {bank, bank'} : word'[b] = word[b]
<1> SUFFICES ASSUME Inv, [NextStream]_vars
             PROVE  Inv' /\ \A b \in {bank, bank'} : word'[b] = word[b]
  OBVIOUS
<1>1. CASE NextStream
  <2>1. PICK write, address, data, commit : Moves(write, address, data, commit)
    BY <1>1, StepIsEdge DEF Inv
  <2> QED
    BY <1>1, <2>1, StepIsEdge, EdgeBanks, StepWrites DEF Inv
<1>2. CASE UNCHANGED vars
  BY <1>2 DEF vars, topVars, banks, host, Inv, BankTypes, HostTypes, Begun, OneInUse,
              IdleWritten, Written, Weights!InOrder
<1> QED
  BY <1>1, <1>2

LEMMA NextKeepsFlight ==
  ASSUME Gap >= Lag
  PROVE  Inv /\ Flight /\ [NextStream]_vars => Flight'
<1> SUFFICES ASSUME Inv, Flight, [NextStream]_vars PROVE Flight'
  OBVIOUS
<1>1. CASE NextStream
  <2>1. PICK write, address, data, commit : Moves(write, address, data, commit)
    BY <1>1, StepIsEdge DEF Inv
  <2> QED
    BY <1>1, <2>1, StepIsEdge, EdgeKeepsFlight DEF Inv
<1>2. CASE UNCHANGED vars
  <2>1. PICK h : Carries(h) /\ AllSafe(h)
    BY DEF Flight
  <2>2. UNCHANGED <<pipeline, word, bank, since, at>>
    BY <1>2 DEF vars, topVars, banks, host, pipeline
  <2>3. AllSafe(h)'
    BY <2>1, <2>2 DEF AllSafe, Safe
  <2> QED
    BY <2>1, <2>2, <2>3, StillCarries DEF Flight
<1> QED
  BY <1>1, <1>2

LEMMA Invariant == Spec => []Inv
  BY InitKeeps, NextKeeps, PTL DEF Spec

\* In every design and for all images, equal words or not, a bank whose CRC is an
\* image's holds that image if its writes came in order, however many were lost,
\* or if the host wrote it with one loss or repetition at most (weight_banks.ml
\* bank_crc).
THEOREM ReloadCrcVouches == Spec => []CrcVouches
<1>1. Inv => CrcVouches
  <2> SUFFICES ASSUME Inv, NEW b \in {0, 1}, NEW model \in Models,
                      crc[b] = Weights!CrcOf(Image[model]),
                      \/ Weights!InOrder(b)
                      \/ b = Weights!Idle /\ at = Words /\ model = target /\ faults < 2
               PROVE  word[b] = Image[model]
    BY DEF CrcVouches
  <2>1. CASE Weights!InOrder(b)
    BY <2>1, HoldsItsImage DEF Inv
  <2>2. CASE b = 1 - bank /\ at = Words /\ model = target /\ faults < 2
    <3> DEFINE words == word[b]
               image == Image[model]
    <3>1. words \in [Addresses -> Data] /\ image \in [Addresses -> Data]
      BY ImageIs DEF Inv, BankTypes
    <3>2. /\ Len(Weights!CrcOf(image)) = Words
          /\ \A a \in Addresses : Weights!CrcOf(image)[a + 1] = image[a]
      BY <3>1, CrcOfIs
    <3>3. Words \in Nat /\ Addresses = 0 .. Words - 1 /\ faults \in 0 .. 2
      BY WordsNat DEF Addresses, Inv, HostTypes
    <3>4. Written(Weights!CrcOf(image), words) /\ Tells(Weights!CrcOf(image), last[b], words)
      BY <2>2 DEF Inv, IdleWritten, Begun
    <3>5. \A a \in Addresses : 0 < a => words[a] = image[a]
      BY <2>2, <3>2, <3>3, <3>4 DEF Written
    <3>6. 0 \in Addresses => words[0] = image[0]
      <4>1. 0 \in Addresses => Weights!CrcOf(image)[0 + 1] = image[0]
        BY <3>2
      <4> QED
        BY <3>3, <3>4, <4>1 DEF Tells
    <3>7. \A a \in Addresses : words[a] = image[a]
      BY <3>3, <3>5, <3>6
    <3> HIDE DEF words, image
    <3>8. words = image
      BY <3>1, <3>7
    <3> QED
      BY <3>8 DEF words, image
  <2> QED
    BY <2>1, <2>2 DEF Weights!Idle
<1> QED
  BY <1>1, Invariant, PTL

\* No edge changes a word of the bank in use, or of the bank it puts in use, in
\* every design (fixed_top.ml `write &: ~:commit`).
THEOREM ReloadActivatedAsVerified == Spec => ActivatedAsVerified
<1>1. Inv /\ [NextStream]_vars => [\A b \in {bank, bank'} : word'[b] = word[b]]_vars
  BY NextKeeps
<1> QED
  BY <1>1, Invariant, PTL DEF Spec, ActivatedAsVerified

\* No inference sees half old and half new weights, in every design, for all images,
\* at every pace of the features and whatever clears come, when the host's first
\* write after a commit is Lag cycles later at least (fixed_top.ml's tag beside the
\* data): the words it used are those of the bank it was promised, one model's if
\* their writes came in order.
THEOREM ReloadOneModel == ASSUME Gap >= Lag PROVE Spec => []OneModel
<1>1. Inv /\ Flight => OneModel
  <2> SUFFICES ASSUME Flight, Prediction.valid
               PROVE  /\ Prediction.used \subseteq Prediction.promised.words
                      /\ Prediction.promised.inOrder =>
                           \E model \in Models :
                             Prediction.promised.words = Contents(Image[model])
    BY DEF OneModel
  <2>1. PICK h : Carries(h) /\ AllSafe(h)
    BY DEF Flight
  <2>2. PICK age \in Nat \ {0} :
          /\ h[age].value.valid /\ Prediction \in ValuesOf(h[age].value, h[age].allowed)
    BY <2>1, PredictionOf DEF Of, Nothing
  <2>3. /\ h[age].value.promised.words = h[age].allowed
        /\ h[age].value.promised.inOrder =>
             \E model \in Models : h[age].allowed = Contents(Image[model])
    BY <2>1, <2>2 DEF AllSafe, Safe
  <2>4. /\ Prediction.used \subseteq h[age].allowed
        /\ Prediction.promised = h[age].value.promised
    BY <2>2, ValueIs
  <2> QED
    BY <2>3, <2>4
<1>2. Spec => [](Inv /\ Flight)
  BY InitKeeps, NextKeeps, NextKeepsFlight, PTL DEF Spec
<1> QED
  BY <1>1, <1>2, PTL

=============================================================================
