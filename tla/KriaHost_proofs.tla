--------------------------- MODULE KriaHost_proofs --------------------------
(***************************************************************************)
(* What holds between calls of write_bank for every reloadable design with *)
(* a word to load, every set of models and images and every loss of writes *)
(* that leaves those that reach a bank in order: the board runs the model  *)
(* of the last call that returned.                                         *)
(*                                                                         *)
(* The argument follows a call.  A word of the idle bank is only written   *)
(* while its write is being answered, so what the program reads is still   *)
(* so when it learns it.  The CRC it read vouches for the idle bank, if    *)
(* the writes came in order, and nothing is written from there to the      *)
(* commit.  After the commit either bank and version are the old ones, and *)
(* the first read shows it, or they are the next ones over the image, and  *)
(* all three reads confirm it.                                             *)
(***************************************************************************)
EXTENDS KriaHost, FixedTop_proofs

Call    == {"weights_version", "weights", "weights_idle_crc", "weights_commit"}
Vouched == {"weights", "weights_idle_crc", "weights_commit"}
Before  == {"weights_words", "weights_bank"} \cup Call
After   == {"bank_after", "version_after", "crc_after"}

\* What a bank holds, if its writes came in order.
BankHolds(b, model) == last[b] # Words => word[b] = Image[model]

LoaderTypes ==
  /\ loads \in Before \cup After
  /\ target \in Models /\ at \in Addresses /\ agrees \in BOOLEAN
  /\ version \in Nat /\ held \in [bank : {0, 1}, version : Nat]

\* What the register file has yet to do for the loader, which waits meanwhile.
Pending ==
  /\ weights_write \in BOOLEAN /\ weights_commit \in BOOLEAN
  /\ weights_write =>
       /\ bvalid = Loader /\ loads \in {"weights", "weights_idle_crc"}
       /\ weights_address \in Addresses /\ weights_data \in Data
  /\ weights_commit => bvalid = Loader /\ loads = "bank_after"
  /\ bvalid = Loader => rvalid # Loader

\* An answer on its way to the loader is still true.
ReadsTrue == rvalid = Loader => ~Writing(Loader) /\ rdata = Read(ReadOf(Loader))

\* Up to the commit: what the call has read, and what runs meanwhile.
Underway ==
  /\ loads \in Before => BankHolds(bank, loaded)
  /\ loads \in Call => held.bank = bank
  /\ loads \in Vouched => held.version = version
  /\ loads = "weights_commit" => crc[1 - bank] = Expected
  /\ loads \in Before \cup {"bank_after"} => agrees

NotCommitted ==
  /\ held.bank = bank /\ held.version = version
  /\ crc[1 - bank] = Expected /\ BankHolds(bank, loaded)
  /\ loads = "bank_after" \/ ~agrees
Committed ==
  /\ bank = 1 - held.bank /\ version = (held.version + 1) % Versions
  /\ crc[bank] = Expected /\ agrees /\ ~weights_commit
Decided == loads \in After => NotCommitted \/ Committed

Inv == BankTypes /\ Begun /\ LoaderTypes /\ Pending /\ ReadsTrue /\ Underway /\ Decided

-----------------------------------------------------------------------------

LEMMA SomeWords == Words \in Nat \ {0}
  BY WordsNat, ReloadableAssumption

LEMMA InitKeeps == HostInit => Inv
<1> SUFFICES ASSUME HostInit PROVE Inv
  OBVIOUS
<1>1. BankTypes /\ Begun /\ bank = 0 /\ version = 0 /\ BankHolds(bank, Compiled)
  BY InitBanks DEF HostInit, RegsInit, BankHolds
<1>2. 0 \in Addresses
  BY SomeWords DEF Addresses
<1>3. LoaderTypes
  BY <1>1, <1>2 DEF HostInit, NothingHeld, LoaderTypes, Before, Call
<1>4. Pending /\ ReadsTrue
  BY ProgramsAssumption DEF HostInit, RegsInit, Pending, ReadsTrue
<1>5. Underway /\ Decided
  BY <1>1 DEF HostInit, Underway, Decided, Before, Call, Vouched, After
<1> QED
  BY <1>1, <1>3, <1>4, <1>5 DEF Inv

\* What the loader asks of the register file when its write is accepted.
LEMMA EdgeRequests ==
  ASSUME NEW writer \in Masters, NEW reader \in Masters, NEW lost \in BOOLEAN,
         Tick(writer, reader, lost)
  PROVE  /\ weights_write' = (writer = Loader /\ loads = "weights")
         /\ weights_commit' = (writer = Loader /\ loads = "weights_commit")
         /\ weights_write' => weights_address' = at /\ weights_data' = Image[target][at]
<1>1. Requested(IF writer = NoOne THEN NoWrite ELSE WriteOf(writer))
  BY DEF Tick, RegsClock
<1>2. CASE writer = NoOne
  BY <1>1, <1>2, ProgramsAssumption DEF Requested, NoWrite
<1>3. CASE writer = Runner
  <2>1. runs \in {"features", "control"}
    BY <1>3, ProgramsAssumption DEF Tick, MayWrite, Writing
  <2>2. WriteOf(writer).to = runs
    BY <1>3, <2>1, ProgramsAssumption DEF WriteOf, Write
  <2> QED
    BY <1>1, <1>3, <2>1, <2>2, ProgramsAssumption DEF Requested
<1>4. CASE writer = Loader
  <2>1. loads \in {"weights", "weights_commit"}
    BY <1>4, ProgramsAssumption DEF Tick, MayWrite, Writing
  <2>2. CASE loads = "weights"
    BY <1>1, <1>4, <2>2, ProgramsAssumption DEF Requested, WriteOf, Write
  <2>3. CASE loads = "weights_commit"
    BY <1>1, <1>4, <2>3, ProgramsAssumption DEF Requested, WriteOf, Write
  <2> QED
    BY <2>1, <2>2, <2>3
<1> QED
  BY <1>2, <1>3, <1>4 DEF Masters, Programs

\* The rest of what an edge does between the loader and the banks.
LEMMA EdgeOfRegs ==
  ASSUME NEW writer \in Masters, NEW reader \in Masters, NEW lost \in BOOLEAN,
         Tick(writer, reader, lost)
  PROVE  /\ Store(weights_write, weights_address, weights_data, weights_commit)
         /\ bvalid' = writer /\ rvalid' = reader
         /\ writer = Loader => bvalid = NoOne
         /\ reader = Loader => rdata' = Read(ReadOf(Loader))
BY ProgramsAssumption DEF Tick, RegsClock, Clock

\* While no write of the loader is being answered the banks stand still.
LEMMA BanksStand ==
  ASSUME Pending, bvalid # Loader,
         Store(weights_write, weights_address, weights_data, weights_commit)
  PROVE  UNCHANGED <<bank, version, crc, last, word>>
BY DEF Pending, Store, Weights!Clock

\* A read answers the same as long as loader and banks stand still.
LEMMA SameRead ==
  ASSUME LoaderTypes, ~Writing(Loader), UNCHANGED <<bank, version, crc, loads>>
  PROVE  ~Writing(Loader)' /\ Read(ReadOf(Loader))' = Read(ReadOf(Loader))
<1>1. ~Writing(Loader)'
  BY ProgramsAssumption DEF Writing
<1>2. loads \in {"weights_words", "weights_bank", "weights_version", "weights_idle_crc"}
               \cup After
  BY ProgramsAssumption DEF LoaderTypes, Before, Call, Writing
<1>3. ReadOf(Loader)' = ReadOf(Loader)
  BY ProgramsAssumption DEF ReadOf
<1>4. ReadOf(Loader) \in {"weights_words", "weights_bank", "weights_version",
                          "weights_idle_crc", "weights_crc"}
  BY <1>2, ProgramsAssumption DEF ReadOf, After
<1>5. Read(ReadOf(Loader))' = Read(ReadOf(Loader))
  BY <1>3, <1>4 DEF Read, Weights!Idle
<1> QED
  BY <1>1, <1>5

-----------------------------------------------------------------------------
(* The three turns of an edge: the register file does what the loader      *)
(* wrote, the loader writes, the loader learns; or none of them.           *)

LEMMA WriteTakesEffect ==
  ASSUME Inv, NEW writer \in Masters, NEW reader \in Masters,
         NEW lost \in BOOLEAN, Tick(writer, reader, lost), bvalid = Loader
  PROVE  Inv'
<1>1. rvalid # Loader /\ writer # Loader /\ ~lost /\ reader # Loader
  BY ProgramsAssumption DEF Inv, Pending, Tick, MayWrite, MayRead, Free
<1>2. UNCHANGED <<loads, target, at, held, agrees, loaded>>
  BY <1>1 DEF Tick
<1>3. /\ BankTypes' /\ Begun'
      /\ \A b \in {bank, bank'} : word'[b] = word[b] /\ last'[b] = last[b]
  BY EdgeOfRegs, StoreKeeps DEF Inv, Pending
<1>4. /\ bank' = IF weights_commit THEN 1 - bank ELSE bank
      /\ version' = IF weights_commit THEN (version + 1) % Versions ELSE version
      /\ ~weights_write => crc' = crc /\ word' = word /\ last' = last
  BY EdgeOfRegs DEF Store, Weights!Clock, Weights!Idle
<1>5. LoaderTypes'
  BY <1>2, <1>4, NodesAssumption DEF Inv, LoaderTypes
<1>6. Pending' /\ ReadsTrue'
  BY <1>1, EdgeOfRegs, EdgeRequests DEF Pending, ReadsTrue
<1>7. CASE weights_commit
  <2>1. loads = "bank_after" /\ ~weights_write
    BY <1>7 DEF Inv, Pending
  <2>2. NotCommitted /\ agrees
    BY <1>7, <2>1 DEF Inv, Decided, Underway, After, Committed
  <2>3. Committed'
    BY <1>1, <1>2, <1>4, <1>7, <2>1, <2>2, EdgeRequests
    DEF Inv, BankTypes, LoaderTypes, NotCommitted, Committed, Expected
  <2> QED
    BY <1>2, <1>3, <1>5, <1>6, <2>1, <2>2, <2>3
    DEF Inv, Underway, Decided, Before, Call, Vouched, After
<1>8. CASE ~weights_commit
  <2>1. /\ bank' = bank /\ version' = version
        /\ word'[bank] = word[bank] /\ last'[bank] = last[bank]
    BY <1>3, <1>4, <1>8
  <2>2. weights_write => loads \in {"weights", "weights_idle_crc"}
    BY DEF Inv, Pending
  <2>3. Underway'
    BY <1>2, <1>4, <2>1, <2>2 DEF Inv, Underway, Before, Call, Vouched, BankHolds, Expected
  <2>4. Decided'
    BY <1>1, <1>2, <1>4, <2>1, <2>2, EdgeRequests
    DEF Inv, Decided, After, NotCommitted, Committed, BankHolds, Expected
  <2> QED
    BY <1>3, <1>5, <1>6, <2>3, <2>4 DEF Inv
<1> QED
  BY <1>7, <1>8

LEMMA LoaderWritesKeeps ==
  ASSUME Inv, NEW writer \in Masters, NEW reader \in Masters,
         NEW lost \in BOOLEAN, Tick(writer, reader, lost), writer = Loader \/ lost
  PROVE  Inv'
<1>1. /\ bvalid # Loader /\ rvalid # Loader /\ reader # Loader
      /\ loads \in {"weights", "weights_commit"}
  BY ProgramsAssumption DEF Tick, MayWrite, MayRead, Free, Writing
<1>2. LoaderWrites
  BY <1>1 DEF Tick
<1>3. UNCHANGED <<bank, version, crc, last, word, target, held, agrees, loaded>>
  BY <1>1, <1>2, EdgeOfRegs, BanksStand DEF Inv, LoaderWrites
<1>4. BankTypes' /\ Begun'
  BY <1>3 DEF Inv, BankTypes, Begun
<1>5. ReadsTrue'
  BY <1>1, EdgeOfRegs DEF ReadsTrue
<1>6. CASE loads = "weights"
  <2>1. at' = (at + 1) % Words /\ loads' \in {"weights", "weights_idle_crc"}
    BY <1>2, <1>6 DEF LoaderWrites
  <2>2. at' \in Addresses
    BY <2>1, SomeWords DEF Inv, LoaderTypes, Addresses
  <2>3. LoaderTypes'
    BY <1>3, <2>1, <2>2 DEF Inv, LoaderTypes, Before, Call
  <2>4. Pending'
    <3>1. at \in Addresses /\ Image[target][at] \in Data
      BY ImageIs DEF Inv, LoaderTypes
    <3> QED
      BY <1>1, <1>6, <2>1, <3>1, EdgeOfRegs, EdgeRequests DEF Pending
  <2>5. Underway' /\ Decided'
    BY <1>3, <1>6, <2>1
    DEF Inv, Underway, Decided, Before, Call, Vouched, After, BankHolds
  <2> QED
    BY <1>4, <1>5, <2>3, <2>4, <2>5 DEF Inv
<1>7. CASE loads = "weights_commit"
  <2>1. at' = at /\ loads' = "bank_after"
    BY <1>2, <1>7 DEF LoaderWrites
  <2>2. LoaderTypes'
    BY <1>3, <2>1 DEF Inv, LoaderTypes, After
  <2>3. Pending'
    BY <1>1, <1>7, <2>1, EdgeOfRegs, EdgeRequests DEF Pending
  <2>4. NotCommitted'
    BY <1>3, <1>7, <2>1
    DEF Inv, Underway, NotCommitted, Before, Call, Vouched, BankHolds, Expected
  <2>5. Underway' /\ Decided'
    BY <1>3, <1>7, <2>1, <2>4 DEF Inv, Underway, Decided, Before, Call, Vouched, After
  <2> QED
    BY <1>4, <1>5, <2>2, <2>3, <2>5 DEF Inv
<1> QED
  BY <1>1, <1>6, <1>7

\* What the loader concludes from its last read is what happened.
LEMMA LastReadDecides ==
  ASSUME Inv, rvalid = Loader, loads = "crc_after"
  PROVE  /\ agrees /\ Confirms => BankHolds(bank, target)
         /\ ~(agrees /\ Confirms) => BankHolds(bank, loaded)
<1>1. rdata = [weights_crc |-> crc[bank]]
  BY ProgramsAssumption DEF Inv, ReadsTrue, ReadOf, Read
<1>2. Wanted = [weights_crc |-> Expected]
  BY DEF Wanted
<1>3. CASE NotCommitted
  BY <1>3 DEF NotCommitted
<1>4. CASE Committed
  <2>1. Confirms
    BY <1>1, <1>2, <1>4 DEF Committed, Confirms
  <2>2. BankHolds(bank, target)
    <3>1. bank \in {0, 1} /\ target \in Models /\ crc[bank] = Weights!CrcOf(Image[target])
      BY <1>4 DEF Inv, BankTypes, LoaderTypes, Committed, Expected
    <3> QED
      BY <3>1, HoldsItsImage DEF Inv, BankHolds, Weights!InOrder
  <2> QED
    BY <1>4, <2>1, <2>2 DEF Committed
<1> QED
  BY <1>3, <1>4 DEF Inv, Decided, After

LEMMA LoaderLearnsKeeps ==
  ASSUME Inv, NEW writer \in Masters, NEW reader \in Masters,
         NEW lost \in BOOLEAN, Tick(writer, reader, lost), rvalid = Loader
  PROVE  Inv'
<1>1. bvalid # Loader /\ reader # Loader /\ writer # Loader /\ ~lost
  BY ProgramsAssumption DEF Inv, Pending, Tick, MayWrite, MayRead, Free
<1>2. LoaderLearns
  BY <1>1 DEF Tick
<1>3. UNCHANGED <<bank, version, crc, last, word>>
  BY <1>1, EdgeOfRegs, BanksStand DEF Inv
<1>4. /\ BankTypes' /\ Begun'
  BY <1>3 DEF Inv, BankTypes, Begun
<1>5. Pending' /\ ReadsTrue'
  BY <1>1, EdgeOfRegs, EdgeRequests DEF Pending, ReadsTrue
<1>6. rdata = Read(ReadOf(Loader))
  BY DEF Inv, ReadsTrue
<1>7. CASE loads = "weights_words" /\ Goes("weights_bank") /\ UNCHANGED <<held, agrees, loaded>>
  BY <1>3, <1>4, <1>5, <1>7
  DEF Inv, Goes, LoaderTypes, Underway, Decided, Before, Call, Vouched, After, BankHolds
<1>8. CASE /\ loads = "weights_bank" /\ Goes("weights_version")
           /\ held' = [held EXCEPT !.bank = rdata.weights_bank] /\ UNCHANGED <<agrees, loaded>>
  <2>1. rdata.weights_bank = bank
    BY <1>6, <1>8, ProgramsAssumption DEF ReadOf, Read
  <2>2. LoaderTypes' /\ held'.bank = bank
    BY <1>3, <1>8, <2>1 DEF Inv, BankTypes, LoaderTypes, Goes, Before, Call
  <2> QED
    BY <1>3, <1>4, <1>5, <1>8, <2>2
    DEF Inv, Goes, Underway, Decided, Before, Call, Vouched, After, BankHolds
<1>9. CASE /\ loads = "weights_version" /\ Goes("weights")
           /\ held' = [held EXCEPT !.version = rdata.weights_version]
           /\ UNCHANGED <<agrees, loaded>>
  <2>1. rdata.weights_version = version
    BY <1>6, <1>9, ProgramsAssumption DEF ReadOf, Read
  <2>2. LoaderTypes' /\ held'.bank = held.bank /\ held'.version = version
    BY <1>3, <1>9, <2>1 DEF Inv, LoaderTypes, Goes, Before, Call
  <2> QED
    BY <1>3, <1>4, <1>5, <1>9, <2>2
    DEF Inv, Goes, Underway, Decided, Before, Call, Vouched, After, BankHolds
<1>10. CASE /\ loads = "weights_idle_crc" /\ rdata.weights_idle_crc = Expected
            /\ Goes("weights_commit") /\ UNCHANGED <<held, agrees, loaded>>
  <2>1. crc[1 - bank] = Expected
    BY <1>6, <1>10, ProgramsAssumption DEF ReadOf, Read, Weights!Idle
  <2> QED
    BY <1>3, <1>4, <1>5, <1>10, <2>1
    DEF Inv, Goes, LoaderTypes, Underway, Decided, Before, Call, Vouched, After, BankHolds, Expected
<1>11. CASE Ends /\ BankHolds(bank, loaded')
  <2>1. LoaderTypes'
    BY <1>3, <1>11 DEF Inv, LoaderTypes, Ends, NothingHeld, Before, Call
  <2>2. Underway' /\ Decided'
    BY <1>3, <1>11 DEF Ends, Underway, Decided, Before, Call, Vouched, After, BankHolds
  <2> QED
    BY <1>4, <1>5, <2>1, <2>2 DEF Inv
<1>12. CASE /\ loads = "bank_after" /\ Goes("version_after")
            /\ agrees' = Confirms /\ UNCHANGED <<held, loaded>>
  <2>1. Confirms <=> bank = 1 - held.bank
    <3>1. rdata = [weights_bank |-> bank]
      BY <1>6, <1>12, ProgramsAssumption DEF ReadOf, Read
    <3>2. Wanted = [weights_bank |-> 1 - held.bank]
      BY <1>12 DEF Wanted
    <3> QED
      BY <3>1, <3>2 DEF Confirms
  <2>2. NotCommitted => NotCommitted'
    BY <1>3, <1>12, <2>1 DEF Inv, BankTypes, Goes, NotCommitted, BankHolds, Expected
  <2>3. Committed => Committed'
    BY <1>1, <1>3, <1>12, <2>1, EdgeRequests DEF Goes, Committed, Expected
  <2> QED
    BY <1>3, <1>4, <1>5, <1>12, <2>2, <2>3
    DEF Inv, Goes, LoaderTypes, Underway, Decided, Before, Call, Vouched, After, Confirms
<1>13. CASE /\ loads = "version_after" /\ Goes("crc_after")
            /\ agrees' = (agrees /\ Confirms) /\ UNCHANGED <<held, loaded>>
  <2>1. Committed => Confirms
    <3>1. rdata = [weights_version |-> version]
      BY <1>6, <1>13, ProgramsAssumption DEF ReadOf, Read
    <3>2. Wanted = [weights_version |-> (held.version + 1) % Versions]
      BY <1>13 DEF Wanted
    <3> QED
      BY <3>1, <3>2 DEF Confirms, Committed
  <2>2. NotCommitted => NotCommitted'
    BY <1>3, <1>13 DEF Goes, NotCommitted, BankHolds, Expected
  <2>3. Committed => Committed'
    BY <1>1, <1>3, <1>13, <2>1, EdgeRequests DEF Goes, Committed, Expected
  <2> QED
    BY <1>3, <1>4, <1>5, <1>13, <2>2, <2>3
    DEF Inv, Goes, LoaderTypes, Underway, Decided, Before, Call, Vouched, After, Confirms
<1>14. loads = "weights_idle_crc" => BankHolds(bank, loaded)
  BY DEF Inv, Underway, Before, Call
<1> QED
  BY <1>2, <1>7, <1>8, <1>9, <1>10, <1>11, <1>12, <1>13, <1>14, LastReadDecides
  DEF LoaderLearns

LEMMA LoaderIdles ==
  ASSUME Inv, NEW writer \in Masters, NEW reader \in Masters, NEW lost \in BOOLEAN,
         Tick(writer, reader, lost), bvalid # Loader, rvalid # Loader,
         writer # Loader, ~lost
  PROVE  Inv'
<1>1. UNCHANGED <<bank, version, crc, last, word, loads, target, at, held, agrees, loaded>>
  BY EdgeOfRegs, BanksStand DEF Inv, Tick
<1>2. ~weights_write' /\ ~weights_commit' /\ bvalid' # Loader
  BY EdgeOfRegs, EdgeRequests
<1>3. Pending'
  BY <1>2, EdgeRequests DEF Pending
<1>4. reader = Loader => ~Writing(Loader)
  BY ProgramsAssumption DEF Tick, MayRead
<1>5. ReadsTrue'
  BY <1>1, <1>4, EdgeOfRegs, SameRead DEF Inv, ReadsTrue
<1>6. BankTypes' /\ Begun' /\ LoaderTypes' /\ Underway'
  BY <1>1 DEF Inv, BankTypes, Begun, LoaderTypes, Underway, BankHolds, Expected
<1>7. Decided'
  BY <1>1, <1>2 DEF Inv, Decided, NotCommitted, Committed, BankHolds, Expected
<1> QED
  BY <1>3, <1>5, <1>6, <1>7 DEF Inv

LEMMA NextKeeps == Inv /\ [Next]_vars => Inv'
<1> SUFFICES ASSUME Inv, [Next]_vars PROVE Inv'
  OBVIOUS
<1>1. CASE Next
  <2>1. PICK writer \in Masters, reader \in Masters, lost \in BOOLEAN :
          Tick(writer, reader, lost)
    BY <1>1 DEF Next
  <2> QED
    BY <2>1, WriteTakesEffect, LoaderWritesKeeps, LoaderLearnsKeeps, LoaderIdles
<1>2. CASE UNCHANGED vars
  <2>1. UNCHANGED <<bank, version, crc, last, word, bvalid, rvalid, rdata, weights_write,
                    weights_commit, weights_address, weights_data>>
        /\ UNCHANGED loader
    BY <1>2 DEF vars, regsVars, topVars, banks, requests
  <2>2. BankTypes' /\ Begun' /\ LoaderTypes' /\ Pending' /\ Underway' /\ Decided'
    BY <2>1 DEF loader, Inv, BankTypes, Begun, LoaderTypes, Pending, Underway, Decided,
                NotCommitted, Committed, BankHolds, Expected
  <2>3. ReadsTrue'
    BY <2>1, SameRead DEF loader, Inv, ReadsTrue
  <2> QED
    BY <2>2, <2>3 DEF Inv
<1> QED
  BY <1>1, <1>2

LEMMA Invariant == Spec => []Inv
  BY InitKeeps, NextKeeps, PTL DEF Spec

-----------------------------------------------------------------------------

\* Between calls of write_bank the board runs the model of the last call that
\* returned, in every reloadable design and for all images, equal words or not,
\* whatever writes were lost, if those that reached the bank in use came in order
\* (reload.py write_bank).
THEOREM KriaLoadedIsInForce == Spec => []LoadedIsInForce
<1>1. Inv => LoadedIsInForce
  BY DEF Inv, Underway, Before, Call, BankHolds, LoadedIsInForce, Weights!InOrder
<1> QED
  BY <1>1, Invariant, PTL

-----------------------------------------------------------------------------
(* What kria_run collects.  Its inference is followed from the write of the *)
(* start to the read of the prediction, along the history of the pipeline.  *)

\* Every pick of a unit comes before the loader, which has to read six
\* registers first, can have written over the word.
Prompt == \A p \in Picks : Start(p.node) + p.stage - p.address <= 14

\* The prediction depends on words.
WordsReach == \E units : Reached(units) /\ N \in units
Reaching   == CHOOSE units : Reached(units) /\ N \in units

\* The bank the last accepted commit puts in use is as it was ordered; it holds
\* the model, if its writes came in order.
NextBank == IF weights_commit THEN 1 - bank ELSE bank
Truthful(order) == order.inOrder => order.words = Image[order.model]
InForce == /\ word[NextBank] = ordered.words /\ (last[NextBank] # Words) = ordered.inOrder
           /\ Truthful(ordered) /\ Truthful(asked)

\* How long ago a commit was at least, by where the loader is.
PassedAt(step, sent, answer) ==
  CASE step = "bank_after"      -> answer
    [] step = "version_after"   -> 2 + answer
    [] step = "crc_after"       -> 4 + answer
    [] step = "weights_words"   -> 6 + answer
    [] step = "weights_bank"    -> 8 + answer
    [] step = "weights_version" -> 10 + answer
    [] step = "weights"         -> 12 + sent
    [] step \in {"weights_idle_crc", "weights_commit"} -> 12 + Words
Answer == IF rvalid = Loader THEN 1 ELSE 0
Passed == PassedAt(loads, at, Answer)

\* The words go out in order.
InOrder ==
  /\ loads # "weights" => at = 0
  /\ weights_write => weights_address < IF loads = "weights" THEN at ELSE Words

\* An inference is allowed the words it found, if the loader leaves it the time.
Safe(history, age) ==
  /\ history[age].tag \in 0 .. 1
  /\ IF Prompt
     THEN /\ history[age].tag # bank => age > Passed
          /\ \A p \in Picks : Start(p.node) + p.stage >= age =>
               <<p.address, word[history[age].tag][p.address]>> \in history[age].allowed
     ELSE history[age].allowed = Addresses \X Data
AllSafe(history) == \A age \in Nat \ {0} : Safe(history, age)

\* No inference is on its way to the output, or this one alone.
Quiet(history)     == \A age \in 1 .. Latency : ~history[age].value.valid
Alone(history, here) ==
  /\ history[here].value.valid /\ history[here].value.from = {request}
  /\ \A age \in 1 .. Latency : age # here => ~history[age].value.valid

\* Where kria_run is with its request.
Asking(history) ==
  /\ runs \in {"features", "control"} /\ ~features_valid /\ rvalid # Runner
  /\ runs = "control" => features = request
  /\ Quiet(history)
Started(history) ==
  /\ runs = "status" /\ features_valid /\ features = request
  /\ bvalid = Runner /\ rvalid # Runner /\ Quiet(history)
  /\ asked = ordered /\ ~weights_commit
Running(history) ==
  /\ runs = "status" /\ ~features_valid /\ ~finished
  /\ rvalid = Runner => ~rdata.status
  /\ elapsed \in 1 .. Latency /\ Alone(history, elapsed)
  /\ Prompt => history[elapsed].allowed = Contents(asked.words)
Done(history) ==
  /\ runs \in {"status", "prediction"} /\ ~features_valid /\ Quiet(history)
  /\ cycles = Latency /\ prediction.from = {request}
  /\ Prompt => prediction.used \subseteq Contents(asked.words)
  /\ WordsReach => prediction.used # {}
  /\ rvalid = Runner /\ runs = "prediction" => rdata = [prediction |-> prediction]

Story(history) == Asking(history) \/ Started(history) \/ Running(history) \/ Done(history)

Flight == /\ Shaped /\ (WordsReach => Filled(Reaching))
          /\ \E history : Carries(history) /\ AllSafe(history) /\ Story(history)

-----------------------------------------------------------------------------
(* The edge as the runner and the pipeline see it.                         *)

LEMMA RunnerRequests ==
  ASSUME NEW writer \in Masters, NEW reader \in Masters, NEW lost \in BOOLEAN,
         Tick(writer, reader, lost)
  PROVE  /\ features_valid' = (writer = Runner /\ runs = "control")
         /\ features' = IF writer = Runner /\ runs = "features" THEN request ELSE features
<1>1. Requested(IF writer = NoOne THEN NoWrite ELSE WriteOf(writer))
  BY DEF Tick, RegsClock
<1>2. CASE writer = NoOne
  BY <1>1, <1>2, ProgramsAssumption DEF Requested, NoWrite
<1>3. CASE writer = Runner
  <2>1. runs \in {"features", "control"}
    BY <1>3, ProgramsAssumption DEF Tick, MayWrite, Writing
  <2>2. CASE runs = "features"
    BY <1>1, <1>3, <2>2, ProgramsAssumption DEF Requested, WriteOf, Write
  <2>3. CASE runs = "control"
    BY <1>1, <1>3, <2>3, ProgramsAssumption DEF Requested, WriteOf, Write
  <2> QED
    BY <2>1, <2>2, <2>3
<1>4. CASE writer = Loader
  <2>1. loads \in {"weights", "weights_commit"}
    BY <1>4, ProgramsAssumption DEF Tick, MayWrite, Writing
  <2>2. WriteOf(writer).to = loads
    BY <1>4, <2>1, ProgramsAssumption DEF WriteOf, Write
  <2> QED
    BY <1>1, <1>4, <2>1, <2>2, ProgramsAssumption DEF Requested
<1> QED
  BY <1>2, <1>3, <1>4 DEF Masters, Programs

Bus(writer, reader) ==
  /\ bvalid' = writer /\ rvalid' = reader
  /\ writer = Runner => bvalid # Runner /\ rvalid # Runner /\ Writing(Runner)
  /\ reader = Runner => /\ bvalid # Runner /\ rvalid # Runner /\ ~Writing(Runner)
                        /\ rdata' = Read(runs)
  /\ prediction' = IF Prediction.valid THEN Result(Prediction) ELSE prediction
  /\ finished' = Finished /\ elapsed' = Counted
  /\ cycles' = IF Prediction.valid THEN elapsed ELSE cycles
  /\ Clock(FALSE, features_valid, features,
           weights_write, weights_address, weights_data, weights_commit)

LEMMA EdgeOfBus ==
  ASSUME NEW writer \in Masters, NEW reader \in Masters, NEW lost \in BOOLEAN,
         Tick(writer, reader, lost)
  PROVE  Bus(writer, reader)
<1>1. reader = Runner => ReadOf(reader) = runs
  BY DEF ReadOf
<1> QED
  BY <1>1, ProgramsAssumption DEF Tick, RegsClock, MayWrite, MayRead, Free, Bus

\* Where the runner is after an edge.
LEMMA RunnerSteps ==
  ASSUME NEW writer \in Masters, NEW reader \in Masters, NEW lost \in BOOLEAN,
         Tick(writer, reader, lost)
  PROVE  /\ writer = Runner => RunnerWrites
         /\ writer # Runner /\ rvalid = Runner => RunnerLearns
         /\ writer # Runner /\ rvalid # Runner => UNCHANGED runner
         /\ ordered' = IF writer = Loader /\ loads = "weights_commit"
                       THEN Order(target, word[1 - bank], Weights!InOrder(1 - bank))
                       ELSE ordered
<1>1. writer = Runner => rvalid # Runner
  BY ProgramsAssumption DEF Tick, MayWrite, Free
<1> QED
  BY <1>1 DEF Tick, Weights!Idle

-----------------------------------------------------------------------------
(* The loader's pace.                                                      *)

\* A commit starts the count of Passed again; else it grows by one at most.
Paces == IF weights_commit THEN Passed' = 0 ELSE Passed' <= Passed + 1

LEMMA PassedIs ==
  ASSUME NEW step, NEW sent, NEW answer
  PROVE  /\ step = "bank_after"      => PassedAt(step, sent, answer) = answer
         /\ step = "version_after"   => PassedAt(step, sent, answer) = 2 + answer
         /\ step = "crc_after"       => PassedAt(step, sent, answer) = 4 + answer
         /\ step = "weights_words"   => PassedAt(step, sent, answer) = 6 + answer
         /\ step = "weights_bank"    => PassedAt(step, sent, answer) = 8 + answer
         /\ step = "weights_version" => PassedAt(step, sent, answer) = 10 + answer
         /\ step = "weights"         => PassedAt(step, sent, answer) = 12 + sent
         /\ step \in {"weights_idle_crc", "weights_commit"}
              => PassedAt(step, sent, answer) = 12 + Words
<1>1. CASE step = "bank_after"
  BY <1>1 DEF PassedAt
<1>2. CASE step = "version_after"
  BY <1>2 DEF PassedAt
<1>3. CASE step = "crc_after"
  BY <1>3 DEF PassedAt
<1>4. CASE step = "weights_words"
  BY <1>4 DEF PassedAt
<1>5. CASE step = "weights_bank"
  BY <1>5 DEF PassedAt
<1>6. CASE step = "weights_version"
  BY <1>6 DEF PassedAt
<1>7. CASE step = "weights"
  BY <1>7 DEF PassedAt
<1>8. CASE step \in {"weights_idle_crc", "weights_commit"}
  BY <1>8 DEF PassedAt
<1> QED
  BY <1>1, <1>2, <1>3, <1>4, <1>5, <1>6, <1>7, <1>8

LEMMA PassedNat == ASSUME Inv PROVE Passed \in Nat
<1>1. at \in Nat /\ Words \in Nat /\ Answer \in Nat
  BY SomeWords DEF Inv, LoaderTypes, Addresses, Answer
<1>2. loads \in {"bank_after", "version_after", "crc_after", "weights_words", "weights_bank",
                "weights_version", "weights", "weights_idle_crc", "weights_commit"}
  BY DEF Inv, LoaderTypes, Before, Call, After
<1> QED
  BY <1>1, <1>2, PassedIs DEF Passed

LEMMA PassedAfter == ASSUME Inv' PROVE Passed' \in Nat
<1>1. at' \in Nat /\ Words \in Nat /\ Answer' \in Nat
  BY SomeWords DEF Inv, LoaderTypes, Addresses, Answer
<1>2. loads' \in {"bank_after", "version_after", "crc_after", "weights_words", "weights_bank",
                 "weights_version", "weights", "weights_idle_crc", "weights_commit"}
  BY DEF Inv, LoaderTypes, Before, Call, After
<1> QED
  BY <1>1, <1>2, PassedIs DEF Passed

LEMMA EdgePaces ==
  ASSUME Inv, InOrder, NEW writer \in Masters, NEW reader \in Masters, NEW lost \in BOOLEAN,
         Tick(writer, reader, lost)
  PROVE  Paces /\ InOrder'
<1>1. /\ rvalid' = reader
      /\ weights_write' = (writer = Loader /\ loads = "weights")
      /\ weights_write' => weights_address' = at
  BY EdgeOfRegs, EdgeRequests
<1>2. at \in 0 .. Words - 1 /\ Words \in Nat \ {0} /\ Passed \in Nat
  BY SomeWords, PassedNat DEF Inv, LoaderTypes, Addresses
<1>3. Passed = PassedAt(loads, at, Answer) /\ Passed' = PassedAt(loads', at', Answer')
  BY DEF Passed
<1>4. CASE bvalid = Loader
  <2>1. rvalid # Loader /\ writer # Loader /\ ~lost /\ reader # Loader
    BY <1>4, ProgramsAssumption DEF Inv, Pending, Tick, MayWrite, MayRead, Free
  <2>2. UNCHANGED <<loads, at>>
    BY <2>1 DEF Tick
  <2>3. Answer = 0 /\ Answer' = 0
    BY <1>1, <2>1 DEF Answer
  <2>4. weights_commit => loads = "bank_after"
    BY DEF Inv, Pending
  <2>5. Passed' = Passed
    BY <1>3, <2>2, <2>3
  <2>6. weights_commit => Passed = 0
    BY <1>3, <2>3, <2>4, PassedIs
  <2>7. InOrder'
    BY <1>1, <2>1, <2>2 DEF InOrder
  <2> QED
    BY <1>2, <2>5, <2>6, <2>7 DEF Paces
<1>5. CASE bvalid # Loader
  <2>1. ~weights_commit
    BY <1>5 DEF Inv, Pending
  <2>2. CASE writer = Loader \/ lost
    <3>1. rvalid # Loader /\ reader # Loader /\ loads \in {"weights", "weights_commit"}
      BY <2>2, ProgramsAssumption DEF Tick, MayWrite, MayRead, Free, Writing
    <3>2. LoaderWrites
      BY <2>2, <3>1 DEF Tick
    <3>3. CASE loads = "weights" /\ at + 1 # Words
      <4>1. loads' = "weights" /\ at' = at + 1
        BY <1>2, <3>2, <3>3 DEF LoaderWrites
      <4>2. Passed = 12 + at /\ Passed' = 12 + at'
        BY <1>3, <3>3, <4>1, PassedIs
      <4>3. InOrder'
        BY <1>1, <1>2, <4>1 DEF InOrder
      <4> QED
        BY <1>2, <2>1, <4>1, <4>2, <4>3 DEF Paces
    <3>4. CASE loads = "weights" /\ at + 1 = Words
      <4>1. loads' = "weights_idle_crc" /\ at' = 0
        BY <1>2, <3>2, <3>4 DEF LoaderWrites
      <4>2. Passed = 12 + at /\ Passed' = 12 + Words
        BY <1>3, <3>4, <4>1, PassedIs
      <4>3. InOrder'
        BY <1>1, <1>2, <4>1 DEF InOrder
      <4> QED
        BY <1>2, <2>1, <3>4, <4>2, <4>3 DEF Paces
    <3>5. CASE loads = "weights_commit"
      <4>1. loads' = "bank_after" /\ at' = at /\ Answer' = 0
        BY <1>1, <3>1, <3>2, <3>5 DEF LoaderWrites, Answer
      <4>2. Passed = 12 + Words /\ Passed' = 0
        BY <1>3, <3>5, <4>1, PassedIs
      <4>3. InOrder'
        BY <1>1, <3>5, <4>1 DEF InOrder
      <4> QED
        BY <1>2, <2>1, <4>2, <4>3 DEF Paces
    <3> QED
      BY <3>1, <3>3, <3>4, <3>5
  <2>3. CASE rvalid = Loader /\ ~(writer = Loader \/ lost)
    <3>1. reader # Loader /\ LoaderLearns
      BY <2>3, ProgramsAssumption DEF Tick, MayRead, Free
    <3>2. ~weights_write' /\ Answer = 1 /\ Answer' = 0
      BY <1>1, <2>3, <3>1 DEF Answer
    <3>3. at' = at /\ loads # "weights"
      BY <3>1 DEF LoaderLearns, Goes, Ends
    <3>4. \/ loads = "weights_words" /\ loads' = "weights_bank"
          \/ loads = "weights_bank" /\ loads' = "weights_version"
          \/ loads = "weights_version" /\ loads' = "weights"
          \/ loads = "weights_idle_crc" /\ loads' \in {"weights_commit", "weights_words"}
          \/ loads = "bank_after" /\ loads' = "version_after"
          \/ loads = "version_after" /\ loads' = "crc_after"
          \/ loads = "crc_after" /\ loads' = "weights_words"
      BY <3>1 DEF LoaderLearns, Goes, Ends
    <3>5. at = 0
      BY <3>3 DEF InOrder
    <3>6. InOrder'
      BY <3>2, <3>3, <3>5 DEF InOrder
    <3>7. Passed' <= Passed + 1
      BY <1>2, <1>3, <3>2, <3>3, <3>4, <3>5, PassedIs
    <3> QED
      BY <2>1, <3>6, <3>7 DEF Paces
  <2>4. CASE rvalid # Loader /\ ~(writer = Loader \/ lost)
    <3>1. UNCHANGED <<loads, at>> /\ ~weights_write'
      BY <1>1, <2>4 DEF Tick
    <3>2. InOrder'
      BY <3>1 DEF InOrder
    <3>3. Answer = 0 /\ Answer' \in 0 .. 1
      BY <2>4 DEF Answer
    <3>4. loads \in {"bank_after", "version_after", "crc_after", "weights_words", "weights_bank",
                    "weights_version", "weights", "weights_idle_crc", "weights_commit"}
      BY DEF Inv, LoaderTypes, Before, Call, After
    <3>5. Passed' <= Passed + 1
      BY <1>2, <1>3, <3>1, <3>3, <3>4, PassedIs
    <3> QED
      BY <2>1, <3>2, <3>5 DEF Paces
  <2> QED
    BY <2>2, <2>3, <2>4
<1> QED
  BY <1>4, <1>5

\* The bank the last accepted commit puts in use stays as it was ordered.
LEMMA EdgeInForce ==
  ASSUME Inv, InForce, NEW writer \in Masters, NEW reader \in Masters, NEW lost \in BOOLEAN,
         Tick(writer, reader, lost)
  PROVE  InForce'
<1>1. /\ weights_commit' = (writer = Loader /\ loads = "weights_commit")
      /\ ordered' = IF writer = Loader /\ loads = "weights_commit"
                    THEN Order(target, word[1 - bank], Weights!InOrder(1 - bank))
                    ELSE ordered
  BY EdgeRequests, RunnerSteps
<1>2. \A b \in {bank, bank'} : word'[b] = word[b] /\ last'[b] = last[b]
  BY EdgeOfRegs, StoreKeeps DEF Inv, Pending
<1>3. bank' = IF weights_commit THEN 1 - bank ELSE bank
  BY EdgeOfRegs DEF Store, Weights!Clock, Weights!Idle
<1>4. Truthful(asked)'
  <2>1. asked' \in {asked, ordered}
    BY RunnerSteps DEF RunnerWrites, RunnerLearns, runner
  <2> QED
    BY <2>1 DEF InForce, Truthful
<1>5. CASE weights_commit'
  <2>1. bvalid # Loader /\ writer = Loader /\ loads = "weights_commit"
    BY <1>1, <1>5, EdgeOfRegs, ProgramsAssumption
  <2>2. UNCHANGED <<bank, last, word>>
    BY <2>1, EdgeOfRegs, BanksStand DEF Inv
  <2>3. /\ crc[1 - bank] = Weights!CrcOf(Image[target])
        /\ target \in Models /\ 1 - bank \in {0, 1}
    BY <2>1 DEF Inv, Underway, LoaderTypes, BankTypes, Expected
  <2>4. last[1 - bank] # Words => word[1 - bank] = Image[target]
    BY <2>3, HoldsItsImage DEF Inv, Weights!InOrder
  <2>5. /\ ordered'.model = target /\ ordered'.words = word[1 - bank]
        /\ ordered'.inOrder = (last[1 - bank] # Words)
    BY <1>1, <2>1 DEF Order, Weights!InOrder
  <2> QED
    BY <1>4, <1>5, <2>2, <2>4, <2>5 DEF InForce, NextBank, Truthful
<1>6. CASE ~weights_commit'
  <2>1. ordered' = ordered /\ bank' = NextBank
    BY <1>1, <1>3, <1>6 DEF NextBank
  <2> QED
    BY <1>2, <1>4, <1>6, <2>1 DEF InForce, NextBank, Truthful
<1> QED
  BY <1>5, <1>6

-----------------------------------------------------------------------------
(* The history of the pipeline through an edge.                            *)

\* A write cannot reach a word an inference has still to pick.
LEMMA NeverOvertakes ==
  ASSUME Prompt, Inv, InOrder,
         Store(weights_write, weights_address, weights_data, weights_commit),
         NEW tag \in 0 .. 1, NEW age \in Nat, tag # bank => age > Passed,
         NEW p \in Picks, Start(p.node) + p.stage > age
  PROVE  word'[tag][p.address] = word[tag][p.address]
<1>1. \A b \in {bank, bank'} : word'[b] = word[b]
  BY StoreKeeps DEF Inv, Pending
<1>2. bank' = (IF weights_commit THEN 1 - bank ELSE bank) /\ bank \in {0, 1}
  BY DEF Store, Weights!Clock, Weights!Idle, Inv, BankTypes
<1>3. CASE tag \in {bank, bank'}
  BY <1>1, <1>3
<1>4. CASE tag \notin {bank, bank'} /\ ~weights_write
  BY <1>4 DEF Store
<1>5. CASE tag \notin {bank, bank'} /\ weights_write
  <2>1. tag = 1 - bank /\ ~weights_commit
    BY <1>2, <1>5
  <2>2. word' = [word EXCEPT ![1 - bank][weights_address] = weights_data]
    BY <1>5, <2>1 DEF Store, Weights!Idle
  <2>3. /\ weights_address \in Nat /\ loads \in {"weights", "weights_idle_crc"}
        /\ weights_address < IF loads = "weights" THEN at ELSE Words
    BY <1>5, SomeWords DEF Inv, Pending, InOrder, Addresses
  <2>4. at \in Nat /\ Words \in Nat
    BY SomeWords DEF Inv, LoaderTypes, Addresses
  <2>5. Passed >= 13 + weights_address
    BY <2>3, <2>4, PassedIs DEF Passed
  <2>6. age > Passed /\ Passed \in Nat
    BY <1>5, PassedNat
  <2>7. p.address \in Nat /\ Start(p.node) \in Nat /\ p.stage \in Nat
    <3>1. Nodes[p.node].product \in Nat /\ Nodes[p.node].sum \in Nat
      BY PicksAre, NodesAssumption DEF IsNode
    <3> QED
      BY <3>1, PicksAre, StartIs, SomeWords DEF Addresses
  <2>8. Start(p.node) + p.stage - p.address <= 14
    BY DEF Prompt
  <2>9. p.address # weights_address
    BY <2>3, <2>5, <2>6, <2>7, <2>8
  <2> QED
    BY <2>1, <2>2, <2>9 DEF Inv, BankTypes
<1> QED
  BY <1>3, <1>4, <1>5 DEF Inv, Pending

\* The history an edge later.
Aged(history, next) ==
  /\ next[1].value = Arriving(features_valid, features)
  /\ Prompt /\ ~weights_commit => next[1].allowed = Contents(ordered.words)
  /\ \A age \in Nat \ {0} : next[age + 1] = history[age]

LEMMA EdgeKeepsHistory ==
  ASSUME Inv, InOrder, InForce, features_valid \in BOOLEAN, Shaped,
         WordsReach => Filled(Reaching), NEW h, Carries(h), AllSafe(h),
         NEW writer \in Masters, NEW reader \in Masters, NEW lost \in BOOLEAN,
         Tick(writer, reader, lost)
  PROVE  /\ Shaped' /\ (WordsReach => Filled(Reaching))'
         /\ \E next : Carries(next)' /\ AllSafe(next)' /\ Aged(h, next)
<1>1. PICK found : /\ found = Contents(word[bank])
                   /\ ~weights_commit => found = Contents(ordered.words)
  BY DEF InForce, NextBank
<1>2. PICK valid, id, write, address, data, commit :
        /\ valid \in BOOLEAN /\ valid = features_valid /\ id = features
        /\ Clock(FALSE, valid, id, write, address, data, commit)
  BY EdgeOfBus DEF Bus
<1> DEFINE x == Arriving(valid, id)
<1>3. PICK allowed : allowed = IF Prompt THEN found ELSE Addresses \X Data
  OBVIOUS
<1>4. PICK entry : entry.value = x /\ entry.tag = bank /\ entry.allowed = allowed
  <2> DEFINE arriving == [value |-> x, tag |-> bank, allowed |-> allowed]
  <2>1. arriving.value = x /\ arriving.tag = bank /\ arriving.allowed = allowed
    OBVIOUS
  <2> QED
    BY <2>1
<1>5. PICK now : now = Entering(h, entry)
  OBVIOUS
<1>6. PICK next : next = Older(now, FALSE)
  OBVIOUS
<1>7. now[0] = entry /\ \A age \in Nat \ {0} : now[age] = h[age]
  BY <1>5 DEF Entering
<1>8. \A age \in Nat : next[age + 1] = now[age]
  BY <1>6 DEF Older
<1>9. Arrives(now, x)
  BY <1>2, <1>4, <1>7, EntersAsItIs
<1> HIDE DEF x
<1>10. Carries(now)
  BY <1>5, EntersAhead
<1>11. bank \in 0 .. 1 /\ word \in [0 .. 1 -> [Addresses -> Data]]
       /\ \A p \in Picks : p.address \in Addresses
  BY PicksAre DEF Inv, BankTypes
\* What an entry of the history holds, that which arrives now included.
<1>12. ASSUME NEW age \in Nat
       PROVE  /\ now[age].tag \in 0 .. 1
              /\ \A p \in Picks : Start(p.node) + p.stage >= age =>
                   <<p.address, word[now[age].tag][p.address]>> \in now[age].allowed
              /\ Prompt => (now[age].tag # bank => age > Passed)
              /\ ~Prompt => now[age].allowed = Addresses \X Data
  <2>1. CASE age = 0
    <3>1. now[age].tag = bank /\ now[age].allowed = allowed
      BY <1>4, <1>7, <2>1
    <3>2. \A p \in Picks : <<p.address, word[bank][p.address]>> \in found
      BY <1>1, <1>11 DEF Contents
    <3>3. \A p \in Picks : <<p.address, word[bank][p.address]>> \in Addresses \X Data
      BY <1>11
    <3>4. \A p \in Picks : <<p.address, word[bank][p.address]>> \in allowed
      BY <1>3, <3>2, <3>3
    <3> QED
      BY <1>3, <1>11, <3>1, <3>4
  <2>2. CASE age # 0
    <3>1. now[age] = h[age] /\ Safe(h, age)
      BY <1>7, <2>2 DEF AllSafe
    <3>2. CASE Prompt
      BY <3>1, <3>2 DEF Safe
    <3>3. CASE ~Prompt
      <4>1. PICK tag \in 0 .. 1 : tag = now[age].tag
        BY <3>1 DEF Safe
      <4>2. \A p \in Picks : <<p.address, word[tag][p.address]>> \in Addresses \X Data
        BY <1>11
      <4> QED
        BY <3>1, <3>3, <4>1, <4>2 DEF Safe
    <3> QED
      BY <3>2, <3>3
  <2> QED
    BY <2>1, <2>2
<1>13. \A k \in 1 .. N : \A n \in Nat : Allows(now, k, n)
  <2> SUFFICES ASSUME NEW k \in 1 .. N, NEW n \in Nat, NEW a \in ReadAt(k, n)
               PROVE  <<a, word[now[Start(k) + n].tag][a]>> \in now[Start(k) + n].allowed
    BY DEF Allows
  <2>1. PICK p \in Picks : p.node = k /\ p.stage = n /\ p.address = a
    BY DEF ReadAt
  <2>2. Start(k) + n \in Nat /\ Start(k) + n >= Start(k) + n
    BY StartIs
  <2> QED
    BY <1>12, <2>1, <2>2
<1>14. Arrives(now, Arriving(valid, id))
  BY <1>9 DEF x
<1>15. Shaped' /\ Carries(next)'
  BY <1>2, <1>6, <1>10, <1>13, <1>14, EdgeCarries
<1>16. (WordsReach => Filled(Reaching))'
  <2>1. WordsReach' <=> WordsReach
    BY DEF WordsReach, Reached
  <2>2. PICK units : units = Reaching
    OBVIOUS
  <2>3. WordsReach => Reached(units) /\ Filled(units)
    BY <2>2 DEF WordsReach, Reaching
  <2>4. WordsReach => Filled(units)'
    BY <1>2, <1>10, <1>14, <2>3, EdgeFills
  <2>5. Reaching' = units
    BY <2>2 DEF Reaching, Reached
  <2> QED
    BY <2>1, <2>4, <2>5 DEF Filled
<1>17. Store(weights_write, weights_address, weights_data, weights_commit) /\ Paces
       /\ bank' = IF weights_commit THEN 1 - bank ELSE bank
  BY EdgeOfRegs, EdgePaces DEF Store, Weights!Clock, Weights!Idle
<1>18. ASSUME NEW age \in Nat \ {0} PROVE Safe(next, age)'
  <2> DEFINE g == age - 1
  <2>1. g \in Nat /\ age = g + 1
    OBVIOUS
  <2>2. next[age] = now[g]
    BY <1>8, <2>1
  <2>3. next[age].tag \in 0 .. 1
    BY <1>12, <2>1, <2>2
  <2>4. CASE ~Prompt
    <3>1. next[age].allowed = Addresses \X Data
      BY <1>12, <2>1, <2>2, <2>4
    <3> QED
      BY <2>3, <2>4, <3>1 DEF Safe, Prompt
  <2>5. CASE Prompt
    <3>2. ASSUME next[age].tag # bank' PROVE age > Passed'
      <4>1. CASE weights_commit
        BY <1>17, <2>1, <4>1 DEF Paces
      <4>2. CASE ~weights_commit
        <5>1. g > Passed /\ Passed' <= Passed + 1
          BY <1>12, <1>17, <2>1, <2>2, <2>5, <3>2, <4>2 DEF Paces
        <5>2. Passed \in Nat /\ Passed' \in Int
          <6>1. Inv'
            BY WriteTakesEffect, LoaderWritesKeeps, LoaderLearnsKeeps, LoaderIdles
          <6>2. Passed' \in Nat
            BY <6>1, PassedAfter
          <6> QED
            BY <6>2, PassedNat
        <5> QED
          BY <2>1, <5>1, <5>2
      <4> QED
        BY <4>1, <4>2 DEF Inv, Pending
    <3>3. ASSUME NEW p \in Picks, Start(p.node) + p.stage >= age
          PROVE  <<p.address, word'[next[age].tag][p.address]>> \in next[age].allowed
      <4>1. Start(p.node) + p.stage \in Nat
        <5>1. Nodes[p.node].product \in Nat /\ Nodes[p.node].sum \in Nat
          BY PicksAre, NodesAssumption DEF IsNode
        <5> QED
          BY <5>1, PicksAre, StartIs
      <4>2. Start(p.node) + p.stage > g /\ Start(p.node) + p.stage >= g
        BY <2>1, <3>3, <4>1
      <4>3. PICK tag \in 0 .. 1 : tag = now[g].tag /\ (tag # bank => g > Passed)
        BY <1>12, <2>1, <2>5
      <4>4. <<p.address, word[tag][p.address]>> \in now[g].allowed
        BY <1>12, <2>1, <4>2, <4>3
      <4>5. word'[tag][p.address] = word[tag][p.address]
        BY <1>17, <2>1, <2>5, <4>2, <4>3, NeverOvertakes
      <4> QED
        BY <2>2, <4>3, <4>4, <4>5
    <3>4. Prompt'
      BY <2>5 DEF Prompt
    <3> QED
      BY <2>3, <3>2, <3>3, <3>4 DEF Safe
  <2> QED
    BY <2>4, <2>5
<1>19. Aged(h, next)
  <2>1. 0 + 1 = 1 /\ next[0 + 1] = now[0]
    BY <1>8
  <2>2. next[1].value = Arriving(features_valid, features)
    BY <1>2, <1>4, <1>7, <2>1 DEF x
  <2>3. Prompt /\ ~weights_commit => next[1].allowed = Contents(ordered.words)
    BY <1>1, <1>3, <1>4, <1>7, <2>1
  <2>4. \A age \in Nat \ {0} : next[age + 1] = h[age]
    BY <1>7, <1>8
  <2> QED
    BY <2>2, <2>3, <2>4 DEF Aged
<1> QED
  BY <1>15, <1>16, <1>18, <1>19 DEF AllSafe

-----------------------------------------------------------------------------
(* The request through an edge.                                            *)

\* What an inference that arrives now is.
LEMMA ArrivingIs ==
  ASSUME NEW valid \in BOOLEAN, NEW id
  PROVE  /\ Arriving(valid, id).valid = valid
         /\ valid => Arriving(valid, id).from = {id}
BY DEF Arriving, Nothing

LEMMA LatencyIs == Latency \in Nat \ {0}
<1>1. N \in 1 .. N
  BY NodesAssumption
<1> QED
  BY <1>1, StartIs, NodeIs DEF Latency

LEMMA QuietStays ==
  ASSUME NEW h, NEW next, Aged(h, next), Quiet(h), features_valid = FALSE
  PROVE  Quiet(next)
<1> SUFFICES ASSUME NEW age \in 1 .. Latency PROVE ~next[age].value.valid
  BY DEF Quiet
<1>1. CASE age = 1
  BY <1>1, ArrivingIs DEF Aged
<1>2. CASE age # 1
  <2>1. age - 1 \in Nat \ {0} /\ age - 1 \in 1 .. Latency /\ (age - 1) + 1 = age
    BY <1>2, LatencyIs
  <2> QED
    BY <2>1 DEF Aged, Quiet
<1> QED
  BY <1>1, <1>2

\* What the prediction is, by the history.
LEMMA PredictionByAge ==
  ASSUME NEW h, Carries(h)
  PROVE  /\ ~h[Latency].value.valid => ~Prediction.valid
         /\ h[Latency].value.valid =>
              /\ Prediction.valid /\ Prediction.from = h[Latency].value.from
              /\ Prediction.used \subseteq h[Latency].allowed
<1>1. Of(Prediction, h[Latency])
  BY PredictionOf
<1> QED
  BY <1>1, ValueIs DEF Of, Nothing

LEMMA PredictionFills ==
  ASSUME WordsReach, Filled(Reaching), Prediction.valid
  PROVE  Prediction.used # {}
<1>1. Reached(Reaching) /\ N \in Reaching
  BY DEF WordsReach, Reaching
<1>2. N \in 1 .. N /\ Nodes[N].latency \in 1 .. Nodes[N].latency
  BY NodesAssumption, NodeIs
<1>3. Fills(pipe[N][Nodes[N].latency])
  BY <1>1, <1>2 DEF Filled
<1> QED
  BY <1>3 DEF Fills, Prediction

LEMMA AskingGoesOn ==
  ASSUME Inv, NEW h, Carries(h), NEW next, Aged(h, next), Asking(h),
         NEW writer \in Masters, NEW reader \in Masters, NEW lost \in BOOLEAN,
         Tick(writer, reader, lost)
  PROVE  Story(next)'
<1>1. /\ features_valid' = (writer = Runner /\ runs = "control")
      /\ features' = IF writer = Runner /\ runs = "features" THEN request ELSE features
      /\ Bus(writer, reader)
  BY RunnerRequests, EdgeOfBus
<1>2. Writing(Runner) /\ rvalid' # Runner /\ bvalid' = writer /\ features_valid = FALSE
  BY <1>1, ProgramsAssumption DEF Asking, Writing, Bus
<1>3. Quiet(next)
  BY <1>2, QuietStays DEF Asking
<1>4. CASE writer # Runner
  <2>1. UNCHANGED runner
    BY <1>4, RunnerSteps DEF Asking
  <2> QED
    BY <1>1, <1>2, <1>3, <1>4, <2>1 DEF runner, Asking, Story, Quiet
<1>5. CASE writer = Runner /\ runs = "features"
  <2>1. runs' = "control" /\ request' = request
    BY <1>5, RunnerSteps DEF RunnerWrites
  <2> QED
    BY <1>1, <1>2, <1>3, <1>5, <2>1 DEF Asking, Story, Quiet
<1>6. CASE writer = Runner /\ runs = "control"
  <2>1. runs' = "status" /\ request' = request /\ asked' = ordered
    BY <1>6, RunnerSteps DEF RunnerWrites
  <2>2. ordered' = ordered /\ ~weights_commit'
    BY <1>6, RunnerSteps, EdgeRequests, ProgramsAssumption
  <2>3. features' = request
    BY <1>1, <1>6 DEF Asking
  <2> QED
    BY <1>1, <1>2, <1>3, <1>6, <2>1, <2>2, <2>3 DEF Started, Story, Quiet
<1> QED
  BY <1>4, <1>5, <1>6 DEF Asking

LEMMA StartedGoesOn ==
  ASSUME Inv, NEW h, Carries(h), NEW next, Aged(h, next), Started(h),
         NEW writer \in Masters, NEW reader \in Masters, NEW lost \in BOOLEAN,
         Tick(writer, reader, lost)
  PROVE  Story(next)'
<1>1. /\ features_valid' = (writer = Runner /\ runs = "control")
      /\ Bus(writer, reader) /\ features_valid = TRUE
  BY RunnerRequests, EdgeOfBus DEF Started
<1>2. writer # Runner /\ reader # Runner /\ rvalid' # Runner /\ ~features_valid'
  BY <1>1 DEF Started, Bus
<1>3. UNCHANGED runner
  BY <1>2, RunnerSteps DEF Started
<1>4. ~Prediction.valid
  BY PredictionByAge, LatencyIs DEF Started, Quiet
<1>5. /\ ~finished' /\ elapsed' = 1
      /\ 1 \in 1 .. Latency
  <2>1. ~finished'
    BY <1>1, <1>4 DEF Bus, Finished
  <2>2. elapsed' = 1
    BY <1>1 DEF Bus, Counted
  <2>3. 1 \in 1 .. Latency
    BY LatencyIs
  <2> QED
    BY <2>1, <2>2, <2>3
<1>6. next[1].value.valid /\ next[1].value.from = {request}
  BY <1>1, ArrivingIs DEF Aged, Started
<1>7. ASSUME NEW age \in 1 .. Latency, age # 1 PROVE ~next[age].value.valid
  <2>1. age - 1 \in Nat \ {0} /\ age - 1 \in 1 .. Latency /\ (age - 1) + 1 = age
    BY <1>7, LatencyIs
  <2> QED
    BY <2>1 DEF Aged, Started, Quiet
<1>8. Prompt => next[1].allowed = Contents(asked.words)
  BY DEF Aged, Started
<1>9. Alone(next, 1)'
  BY <1>3, <1>6, <1>7 DEF Alone, runner
<1>10. Running(next)'
  BY <1>2, <1>3, <1>5, <1>8, <1>9 DEF Started, Running, runner, Prompt
<1> QED
  BY <1>10 DEF Story

LEMMA RunningGoesOn ==
  ASSUME Inv, NEW h, Carries(h), NEW next, Aged(h, next), Running(h),
         WordsReach => Filled(Reaching),
         NEW writer \in Masters, NEW reader \in Masters, NEW lost \in BOOLEAN,
         Tick(writer, reader, lost)
  PROVE  Story(next)'
<1>1. /\ features_valid' = (writer = Runner /\ runs = "control")
      /\ Bus(writer, reader) /\ features_valid = FALSE
  BY RunnerRequests, EdgeOfBus DEF Running
<1>2. writer # Runner /\ ~features_valid'
  BY <1>1 DEF Running, Bus, Writing
<1>3. runs' = "status" /\ UNCHANGED <<request, asked>>
  BY <1>2, RunnerSteps DEF Running, RunnerLearns, runner
<1>4. rvalid' = Runner => rdata' = [status |-> finished]
  BY <1>1 DEF Bus, Running, Read
<1>5. rvalid' = Runner => ~rdata'.status
  BY <1>4 DEF Running
<1>6. ~next[1].value.valid
  BY <1>1, ArrivingIs DEF Aged
<1>7. ASSUME NEW age \in 1 .. Latency, age # elapsed + 1 PROVE ~next[age].value.valid
  <2>1. CASE age = 1
    BY <1>6, <2>1
  <2>2. CASE age # 1
    <3>1. /\ age - 1 \in Nat \ {0} /\ age - 1 \in 1 .. Latency /\ (age - 1) + 1 = age
          /\ age - 1 # elapsed
      BY <1>7, <2>2, LatencyIs DEF Running
    <3> QED
      BY <3>1 DEF Aged, Running, Alone
  <2> QED
    BY <2>1, <2>2
<1>8. elapsed \in 1 .. Latency /\ Latency \in Nat \ {0}
  BY LatencyIs DEF Running
<1>9. CASE elapsed # Latency
  <2>1. ~Prediction.valid
    BY <1>8, <1>9, PredictionByAge DEF Running, Alone
  <2>2. ~finished'
    BY <1>1, <2>1 DEF Bus, Finished, Running
  <2>3. elapsed' = elapsed + 1 /\ elapsed' \in 1 .. Latency
    <3>1. elapsed' = Counted /\ elapsed < ElapsedBound /\ elapsed + 1 \in 1 .. Latency
      BY <1>1, <1>8, <1>9 DEF Bus, ElapsedBound
    <3> QED
      BY <1>1, <3>1 DEF Counted
  <2>4. next[elapsed'] = h[elapsed]
    BY <1>8, <2>3 DEF Aged
  <2>5. /\ next[elapsed'].value.valid /\ next[elapsed'].value.from = {request'}
        /\ \A age \in 1 .. Latency : age # elapsed' => ~next[age].value.valid
        /\ Prompt => next[elapsed'].allowed = Contents(asked'.words)
    BY <1>3, <1>7, <2>3, <2>4 DEF Alone, Running
  <2>6. Running(next)'
    BY <1>2, <1>3, <1>5, <2>2, <2>3, <2>5 DEF Running, Alone, Prompt
  <2> QED
    BY <2>6 DEF Story
<1>10. CASE elapsed = Latency
  <2>1. /\ Prediction.valid /\ Prediction.from = {request}
        /\ Prediction.used \subseteq h[Latency].allowed
    BY <1>10, PredictionByAge DEF Running, Alone
  <2>2. prediction' = [from |-> Prediction.from, used |-> Prediction.used] /\ cycles' = Latency
    BY <1>1, <1>10, <2>1 DEF Bus, Result
  <2>3. prediction'.from = {request} /\ prediction'.used = Prediction.used
    BY <2>1, <2>2
  <2>4. Prompt => prediction'.used \subseteq Contents(asked.words)
    BY <1>10, <2>1, <2>3 DEF Running
  <2>5. WordsReach => prediction'.used # {}
    BY <2>1, <2>3, PredictionFills
  <2>6. Quiet(next)'
    <3>1. \A age \in 1 .. Latency : age # elapsed + 1
      BY <1>8, <1>10
    <3> QED
      BY <1>7, <3>1 DEF Quiet
  <2>7. Done(next)'
    BY <1>2, <1>3, <2>2, <2>3, <2>4, <2>5, <2>6 DEF Done, Prompt, WordsReach, Reached
  <2> QED
    BY <2>7 DEF Story
<1> QED
  BY <1>9, <1>10

LEMMA DoneGoesOn ==
  ASSUME Inv, NEW h, Carries(h), NEW next, Aged(h, next), Done(h),
         NEW writer \in Masters, NEW reader \in Masters, NEW lost \in BOOLEAN,
         Tick(writer, reader, lost)
  PROVE  Story(next)'
<1>1. /\ features_valid' = (writer = Runner /\ runs = "control")
      /\ Bus(writer, reader) /\ features_valid = FALSE
  BY RunnerRequests, EdgeOfBus DEF Done
<1>2. writer # Runner /\ ~features_valid'
  BY <1>1 DEF Done, Bus, Writing
<1>3. Quiet(next)
  BY <1>1, QuietStays DEF Done
<1>4. ~Prediction.valid
  BY PredictionByAge, LatencyIs DEF Done, Quiet
<1>5. prediction' = prediction /\ cycles' = cycles
  BY <1>1, <1>4 DEF Bus
<1>6. CASE rvalid = Runner
  <2>1. RunnerLearns /\ rvalid' # Runner
    BY <1>1, <1>2, <1>6, RunnerSteps DEF Bus
  <2>2. CASE runs = "prediction"
    <3>1. runs' = "features"
      BY <2>1, <2>2 DEF RunnerLearns
    <3>2. Asking(next)'
      BY <1>2, <1>3, <2>1, <3>1 DEF Asking, Quiet
    <3> QED
      BY <3>2 DEF Story
  <2>3. CASE runs = "status"
    <3>1. runs' \in {"status", "prediction"} /\ UNCHANGED <<request, asked>>
      BY <2>1, <2>3 DEF RunnerLearns
    <3>2. Done(next)'
      BY <1>2, <1>3, <1>5, <2>1, <3>1 DEF Done, Quiet, Prompt, WordsReach, Reached
    <3> QED
      BY <3>2 DEF Story
  <2> QED
    BY <2>2, <2>3 DEF Done
<1>7. CASE rvalid # Runner
  <2>1. UNCHANGED runner
    BY <1>2, <1>7, RunnerSteps
  <2>2. rvalid' = Runner /\ runs = "prediction" => rdata' = [prediction |-> prediction]
    BY <1>1 DEF Bus, Read
  <2>3. Done(next)'
    BY <1>2, <1>3, <1>5, <2>1, <2>2 DEF Done, Quiet, runner, Prompt, WordsReach, Reached
  <2> QED
    BY <2>3 DEF Story
<1> QED
  BY <1>6, <1>7

-----------------------------------------------------------------------------
(* The runner's invariant, beside the loader's.                            *)

RunInv == InOrder /\ InForce /\ features_valid \in BOOLEAN /\ Flight

LEMMA InitRuns == HostInit => RunInv
<1> SUFFICES ASSUME HostInit PROVE RunInv
  OBVIOUS
<1>1. Init /\ InOrder /\ features_valid = FALSE
  BY DEF HostInit, RegsInit, InOrder
<1>2. bank = 0 /\ \A b \in {0, 1} : word[b] = Image[Compiled] /\ last[b] # Words
  BY <1>1, InitBanks
<1>3. InForce
  BY <1>2 DEF HostInit, RegsInit, InForce, NextBank, Order, Truthful
<1>4. PICK allowed :
        allowed = IF Prompt THEN Contents(Image[Compiled]) ELSE Addresses \X Data
  OBVIOUS
<1>5. PICK h : h = Blank(allowed)
  OBVIOUS
<1>6. Shaped /\ Carries(h) /\ (WordsReach => Filled(Reaching))
  BY <1>1, <1>5, InitCarries, InitFills
<1>7. ASSUME NEW age \in Nat
      PROVE  h[age].value = Nothing /\ h[age].tag = 0 /\ h[age].allowed = allowed
  BY <1>5 DEF Blank
<1>8. AllSafe(h)
  <2> SUFFICES ASSUME NEW age \in Nat \ {0} PROVE Safe(h, age)
    BY DEF AllSafe
  <2>1. h[age].tag = bank /\ h[age].tag \in 0 .. 1 /\ h[age].allowed = allowed
    BY <1>2, <1>7
  <2>2. \A p \in Picks : <<p.address, word[bank][p.address]>> \in Contents(Image[Compiled])
    BY <1>2, PicksAre DEF Contents
  <2> QED
    BY <1>4, <2>1, <2>2 DEF Safe
<1>9. Story(h)
  <2>1. ~Nothing.valid /\ \A age \in 1 .. Latency : age \in Nat
    BY DEF Nothing
  <2>2. Quiet(h)
    BY <1>7, <2>1 DEF Quiet
  <2>3. Asking(h)
    BY <2>2, ProgramsAssumption DEF HostInit, RegsInit, Asking
  <2> QED
    BY <2>3 DEF Story
<1> QED
  BY <1>1, <1>3, <1>6, <1>8, <1>9 DEF RunInv, Flight

LEMMA EdgeRuns ==
  ASSUME Inv, RunInv, NEW writer \in Masters, NEW reader \in Masters, NEW lost \in BOOLEAN,
         Tick(writer, reader, lost)
  PROVE  RunInv'
<1>1. PICK h : Carries(h) /\ AllSafe(h) /\ Story(h)
  BY DEF RunInv, Flight
<1>2. PICK next : Carries(next)' /\ AllSafe(next)' /\ Aged(h, next)
  BY <1>1, EdgeKeepsHistory DEF RunInv, Flight
<1>3. Shaped' /\ (WordsReach => Filled(Reaching))'
  BY <1>1, EdgeKeepsHistory DEF RunInv, Flight
<1>4. Story(next)'
  BY <1>1, <1>2, AskingGoesOn, StartedGoesOn, RunningGoesOn, DoneGoesOn
  DEF RunInv, Flight, Story
<1>5. Flight'
  BY <1>2, <1>3, <1>4 DEF Flight
<1>6. InOrder' /\ InForce' /\ features_valid' \in BOOLEAN
  BY EdgePaces, EdgeInForce, RunnerRequests DEF RunInv
<1> QED
  BY <1>5, <1>6 DEF RunInv

LEMMA StutterRuns == ASSUME RunInv, UNCHANGED vars PROVE RunInv'
<1>1. PICK h : Carries(h) /\ AllSafe(h) /\ Story(h)
  BY DEF RunInv, Flight
<1>2. /\ UNCHANGED pipeline /\ UNCHANGED runner /\ UNCHANGED loader
      /\ UNCHANGED <<bank, last, word, bvalid, rvalid, rdata, features, features_valid,
                     weights_write, weights_commit, weights_address, weights_data, prediction,
                     finished, elapsed, cycles>>
  BY DEF vars, regsVars, topVars, banks, requests, results
<1>3. InOrder' /\ InForce' /\ features_valid' \in BOOLEAN
  BY <1>2 DEF RunInv, loader, runner, InOrder, InForce, NextBank, Truthful
<1>4. Shaped' /\ Carries(h)'
  BY <1>1, <1>2, StillCarries DEF RunInv, Flight
<1>5. (WordsReach => Filled(Reaching))'
  BY <1>2 DEF RunInv, Flight, pipeline, WordsReach, Reaching, Reached, Filled, Fills
<1>6. AllSafe(h)'
  <2>1. Passed' = Passed
    BY <1>2 DEF loader, Passed, PassedAt, Answer
  <2> QED
    BY <1>1, <1>2, <2>1 DEF AllSafe, Safe, Prompt
<1>7. Story(h)'
  BY <1>1, <1>2
  DEF runner, loader, Story, Asking, Started, Running, Done, Quiet, Alone, Prompt, WordsReach,
      Reached
<1> QED
  BY <1>3, <1>4, <1>5, <1>6, <1>7 DEF RunInv, Flight

LEMMA NextRuns == Inv /\ RunInv /\ [Next]_vars => RunInv'
<1> SUFFICES ASSUME Inv, RunInv, [Next]_vars PROVE RunInv'
  OBVIOUS
<1>1. CASE Next
  <2>1. PICK writer \in Masters, reader \in Masters, lost \in BOOLEAN :
          Tick(writer, reader, lost)
    BY <1>1 DEF Next
  <2> QED
    BY <2>1, EdgeRuns
<1>2. CASE UNCHANGED vars
  BY <1>2, StutterRuns
<1> QED
  BY <1>1, <1>2

LEMMA RunInvariant == Spec => []RunInv
  BY InitKeeps, NextKeeps, InitRuns, NextRuns, PTL DEF Spec

\* An answer the runner reads is that of a finished inference.
LEMMA AnswerIsDone ==
  ASSUME RunInv, Answered
  PROVE  \E h : Done(h)
BY DEF RunInv, Flight, Story, Asking, Started, Running, Answered

\* The prediction and the cycle count kria_run collects are of the run it asked
\* for, in every design and however the other program loads meanwhile
\* (kria_regs.ml finished, cycles).
THEOREM KriaAnswersItsRequest == Spec => []AnswersItsRequest
<1>1. RunInv => AnswersItsRequest
  BY AnswerIsDone DEF AnswersItsRequest, Answered, Done
<1> QED
  BY <1>1, RunInvariant, PTL

\* It used the words that the last commit before the start put in use, those of
\* that commit's model if the bank's writes came in order, in every design whose
\* prediction depends on words and whose units pick a word before the loader can
\* have written over it (kria_regs.ml weights_commit beside features_valid).
THEOREM KriaAnswersFromModelInForce ==
  ASSUME Prompt, WordsReach
  PROVE  Spec => []AnswersFromModelInForce
<1>1. RunInv => AnswersFromModelInForce
  <2> SUFFICES ASSUME RunInv, Answered PROVE AnswersFromModelInForce
    BY DEF AnswersFromModelInForce
  <2>1. /\ prediction.used \subseteq Contents(asked.words) /\ prediction.used # {}
        /\ rdata.prediction = prediction
    BY AnswerIsDone DEF Answered, Done
  <2>2. Truthful(asked)
    BY DEF RunInv, InForce
  <2> QED
    BY <2>1, <2>2 DEF AnswersFromModelInForce, Truthful
<1> QED
  BY <1>1, RunInvariant, PTL

=============================================================================
