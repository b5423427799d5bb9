------------------------------ MODULE KriaHost -----------------------------
(***************************************************************************)
(* Two programs of a Kria host on the register file: one runs inferences   *)
(* (runtime/host/kria_run.cpp), the other loads models                     *)
(* (compiler/onnx2fpga/reload.py: write_bank).  They share the bus, where  *)
(* each has at most one transfer at a time, and nothing else.  A write of  *)
(* write_bank may be lost on its way, as the test's Lossy registers do.    *)
(* One step is one clock edge.                                             *)
(***************************************************************************)
EXTENDS KriaRegs

CONSTANTS Runner, Loader    (* the two programs *)

ASSUME ProgramsAssumption == Runner # Loader /\ NoOne \notin {Runner, Loader}

\* A design without words has no weights registers (kria_regs.ml reloadable).
ASSUME ReloadableAssumption == Words # 0

VARIABLES runs,     (* where kria_run is *)
          request,  (* the request it is at: 1 and 2 in turn *)
          loads,    (* where write_bank is *)
          target, at,               (* the model it writes; words sent *)
          held,     (* the bank and version it read first *)
          agrees,   (* what it reads after the commit is as it should be *)
          loaded,   (* the model of the last write_bank that returned *)
          ordered,  (* the last commit the bus accepted: of which model, and *)
                    (* the words and history of the bank it puts in use *)
          asked     (* the same when the bus accepted the last start *)

runner == <<runs, request, asked>>
loader == <<loads, target, at, held, agrees, loaded, ordered>>
vars   == <<regsVars, runner, loader>>

Programs == {Runner, Loader}
Requests == {1, 2}

RunSteps  == {"features", "control", "status", "prediction"}
LoadSteps == {"weights_words", "weights_bank", "weights_version", "weights",
              "weights_idle_crc", "weights_commit",
              "bank_after", "version_after", "crc_after"}

NothingHeld == [bank |-> 0, version |-> 0]

Order(model, words, inOrder) == [model |-> model, words |-> words, inOrder |-> inOrder]

HostInit == /\ RegsInit
            /\ runs = "features" /\ request = 1
            /\ loads = "weights_words" /\ target \in Models /\ at = 0
            /\ held = NothingHeld /\ agrees = TRUE
            /\ loaded = Compiled
            /\ ordered = Order(Compiled, Image[Compiled], TRUE) /\ asked = ordered

-----------------------------------------------------------------------------
(* The transfers a program is ready for: none while it waits for a         *)
(* response, and then the one its step names.                              *)

Write(to, address, data) == [to |-> to, address |-> address, data |-> data]

WriteOf(program) ==
  CASE program = Runner /\ runs = "features" -> Write(runs, 0, request)
    [] program = Loader /\ loads = "weights" -> Write(loads, at, Image[target][at])
    [] program = Runner /\ runs = "control"  -> Write(runs, 0, 1)
    [] OTHER                                 -> Write(loads, 0, 1)

ReadOf(program) ==
  IF program = Runner THEN runs
  ELSE CASE loads = "bank_after"    -> "weights_bank"
         [] loads = "version_after" -> "weights_version"
         [] loads = "crc_after"     -> "weights_crc"
         [] OTHER                   -> loads

Writing(program) == IF program = Runner THEN runs \in {"features", "control"}
                    ELSE loads \in {"weights", "weights_commit"}

Free(program)     == bvalid # program /\ rvalid # program
MayWrite(program) == Free(program) /\ Writing(program)
MayRead(program)  == Free(program) /\ ~Writing(program)

-----------------------------------------------------------------------------
(* kria_run.cpp: features, start, poll the status, collect the prediction. *)

RunnerWrites == /\ runs' = IF runs = "features" THEN "control" ELSE "status"
                /\ asked' = IF runs = "control" THEN ordered ELSE asked
                /\ UNCHANGED request

RunnerLearns ==
  /\ runs' = IF runs = "prediction" THEN "features"
             ELSE IF rdata.status THEN "prediction" ELSE "status"
  /\ request' = IF runs = "prediction" THEN 3 - request ELSE request
  /\ UNCHANGED asked

-----------------------------------------------------------------------------
(* write_bank: what is there, the words, their CRC, the commit, and what   *)
(* is there then.                                                          *)

LoaderWrites ==
  /\ at' = IF loads = "weights" THEN (at + 1) % Words ELSE at
  /\ loads' = IF loads = "weights_commit" THEN "bank_after"
              ELSE IF at + 1 = Words THEN "weights_idle_crc" ELSE "weights"
  /\ UNCHANGED <<target, held, agrees, loaded>>

Expected == Weights!CrcOf(Image[target])

\* What write_bank must read after its commit.
Wanted == CASE loads = "bank_after"    -> [weights_bank |-> 1 - held.bank]
            [] loads = "version_after" -> [weights_version |-> (held.version + 1) % Versions]
            [] loads = "crc_after"     -> [weights_crc |-> Expected]

\* Mutant of Confirms: write_bank does not look after the commit.
ConfirmsNothing == TRUE

Confirms == rdata = Wanted

Goes(step) == loads' = step /\ UNCHANGED <<target, at>>

\* It raises, or returns; the next call may be for any model.
Ends == /\ loads' = "weights_words" /\ target' \in Models /\ UNCHANGED at
        /\ held' = NothingHeld /\ agrees' = TRUE

LoaderLearns ==
  \/ /\ loads = "weights_words" /\ Goes("weights_bank")
     /\ UNCHANGED <<held, agrees, loaded>>
  \/ /\ loads = "weights_bank" /\ Goes("weights_version")
     /\ held' = [held EXCEPT !.bank = rdata.weights_bank] /\ UNCHANGED <<agrees, loaded>>
  \/ /\ loads = "weights_version" /\ Goes("weights")
     /\ held' = [held EXCEPT !.version = rdata.weights_version] /\ UNCHANGED <<agrees, loaded>>
  \/ /\ loads = "weights_idle_crc"
     /\ IF rdata.weights_idle_crc = Expected
        THEN Goes("weights_commit") /\ UNCHANGED <<held, agrees>>
        ELSE Ends
     /\ UNCHANGED loaded
  \/ /\ loads = "bank_after" /\ Goes("version_after")
     /\ agrees' = Confirms /\ UNCHANGED <<held, loaded>>
  \/ /\ loads = "version_after" /\ Goes("crc_after")
     /\ agrees' = (agrees /\ Confirms) /\ UNCHANGED <<held, loaded>>
  \/ /\ loads = "crc_after" /\ Ends
     /\ loaded' = IF agrees /\ Confirms THEN target ELSE loaded

-----------------------------------------------------------------------------

\* One edge: the bus accepts the write of `writer` and the read of `reader`;
\* who was offered an answer takes it; a write of the loader may be lost.
Tick(writer, reader, lost) ==
  /\ writer # NoOne => MayWrite(writer)
  /\ reader # NoOne => MayRead(reader)
  /\ lost => MayWrite(Loader) /\ writer # Loader
  /\ RegsClock(writer, WriteOf(writer), reader, ReadOf(reader))
  /\ CASE writer = Runner -> RunnerWrites
       [] rvalid = Runner -> RunnerLearns
       [] OTHER           -> UNCHANGED runner
  /\ CASE writer = Loader \/ lost -> LoaderWrites
       [] rvalid = Loader         -> LoaderLearns
       [] OTHER                   -> UNCHANGED <<loads, target, at, held, agrees, loaded>>
  /\ ordered' = IF writer = Loader /\ loads = "weights_commit"
                 THEN Order(target, word[Weights!Idle], Weights!InOrder(Weights!Idle))
                 ELSE ordered

Masters == Programs \cup {NoOne}

Next == \E writer, reader \in Masters, lost \in BOOLEAN : Tick(writer, reader, lost)

\* A transfer of this program gets through.
Served(program) == \E other \in Masters \ {program} :
                     Tick(program, other, FALSE) \/ Tick(other, program, FALSE)

\* The clock ticks, and the bus serves either program in the end.
Fairness == WF_vars(Next) /\ \A program \in Programs : SF_vars(Served(program))

Spec == HostInit /\ [][Next]_vars /\ Fairness

-----------------------------------------------------------------------------

Answered == rvalid = Runner /\ runs = "prediction"

\* The prediction and the cycle count kria_run collects are of the run it asked
\* for, never what an earlier start left: by the time the write of the start
\* is answered, the status can no longer show the last result, and the count
\* is the design's latency (kria_regs.ml finished, cycles).
AnswersItsRequest ==
  Answered => rdata.prediction.from = {request} /\ cycles = Latency

\* It used the words that the last commit the bus accepted before the start put
\* in use, although the other program rewrites the banks and commits meanwhile;
\* and they are that commit's model, if the bank's writes had come in order
\* (kria_regs.ml weights_commit beside features_valid).
AnswersFromModelInForce == Answered =>
  /\ rdata.prediction.used # {} /\ rdata.prediction.used \subseteq Contents(asked.words)
  /\ asked.inOrder => asked.words = Image[asked.model]

\* Between calls of write_bank, and in one up to its commit, the board runs the
\* model of the last call that returned (reload.py write_bank; api.py
\* load_weights, after which `predict` answers with that model): whatever writes
\* were lost, as long as those that reached the bank came in order.  They do
\* unless a call that lost word 0 went on where one that raised had stopped.
LoadedIsInForce ==
  /\ loads \in {"weights_words", "weights_bank", "weights_version", "weights",
                "weights_idle_crc"}
  /\ Weights!InOrder(bank)
  => word[bank] = Image[loaded]

\* Neither program waits for good: polling sees every result in the end, and
\* every write_bank ends.
BothGoOn == []<>(runs = "features") /\ []<>(loads = "weights_words")

=============================================================================
