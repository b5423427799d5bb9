------------------------------ MODULE KriaRegs -----------------------------
(***************************************************************************)
(* hardware/hardcaml/src/kria_regs.ml: the AXI4-Lite register file around  *)
(* a reloadable design.  A transfer on either channel is accepted when the *)
(* channel's last response has been taken; the interconnect takes a        *)
(* response in the cycle it is offered.  What a write sets off happens a   *)
(* cycle later, out of registers.                                          *)
(*                                                                         *)
(* A write is [to, address, data] and a read a register's name.  A         *)
(* features word stands for the request it belongs to.                     *)
(***************************************************************************)
EXTENDS FixedTop

CONSTANT NoOne          (* the master of no transfer *)

VARIABLES bvalid, rvalid,         (* whose response is offered, NoOne if low *)
          rdata,                  (* the register read, while rvalid is high *)
          features, features_valid,
          weights_write, weights_commit, weights_address, weights_data,
          prediction, finished,
          elapsed, cycles

requests == <<features, features_valid, weights_write, weights_commit,
              weights_address, weights_data>>
results  == <<prediction, finished, elapsed, cycles>>
regsVars == <<topVars, bvalid, rvalid, rdata, requests, results>>

NoAnswer == [status |-> FALSE]   \* what rdata holds while rvalid is low is not kept
NoWrite  == [to |-> "nothing", address |-> 0, data |-> 0]

\* What a prediction is to its reader.
Result(x) == [from |-> x.from, used |-> x.used]

\* Bound: the cycle counter is compared with the latency and nothing else, and
\* stops soon after it.
ElapsedBound == Latency + 1

RegsInit ==
  /\ Init
  /\ bvalid = NoOne /\ rvalid = NoOne /\ rdata = NoAnswer
  /\ features = 0 /\ features_valid = FALSE
  /\ weights_write = FALSE /\ weights_commit = FALSE
  /\ weights_address = 0 /\ weights_data = 0
  /\ prediction = Result(Nothing) /\ finished = FALSE
  /\ elapsed = 0 /\ cycles = 0

\* The registers a write goes into.
Requested(write) ==
  /\ features' = IF write.to = "features" THEN write.data ELSE features
  /\ features_valid' = (write.to = "control")
  /\ weights_write' = (write.to = "weights")
  /\ weights_commit' = (write.to = "weights_commit")
  /\ weights_address' = write.address
  /\ weights_data' = write.data

\* Mutant of Finished: a new start leaves the last result standing.
FinishedSticks == finished \/ Prediction.valid

\* Mutant of Finished: the flag is up for the one cycle of the result.
FinishedPulses == Prediction.valid

Finished == Prediction.valid \/ (finished /\ ~features_valid)

Counted == IF features_valid THEN 1
           ELSE IF elapsed < ElapsedBound THEN elapsed + 1 ELSE elapsed

\* What a read of a register answers.
Read(register) ==
  CASE register = "status"           -> [status |-> finished]
    [] register = "prediction"       -> [prediction |-> prediction]
    [] register = "weights_words"    -> [weights_words |-> Words]
    [] register = "weights_bank"     -> [weights_bank |-> bank]
    [] register = "weights_version"  -> [weights_version |-> version]
    [] register = "weights_crc"      -> [weights_crc |-> crc[bank]]
    [] register = "weights_idle_crc" -> [weights_idle_crc |-> crc[Weights!Idle]]

\* One clock edge: `writer` has this write accepted, `reader` this read.
RegsClock(writer, write, reader, register) ==
  /\ writer # NoOne => bvalid = NoOne
  /\ reader # NoOne => rvalid = NoOne
  /\ bvalid' = writer /\ rvalid' = reader
  /\ rdata' = IF reader = NoOne THEN NoAnswer ELSE Read(register)
  /\ Requested(IF writer = NoOne THEN NoWrite ELSE write)
  /\ prediction' = IF Prediction.valid THEN Result(Prediction) ELSE prediction
  /\ finished' = Finished
  /\ elapsed' = Counted
  /\ cycles' = IF Prediction.valid THEN elapsed ELSE cycles
  /\ Clock(FALSE, features_valid, features,
           weights_write, weights_address, weights_data, weights_commit)

=============================================================================
