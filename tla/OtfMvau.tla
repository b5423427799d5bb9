------------------------------ MODULE OtfMvau ------------------------------
(***************************************************************************)
(* hardware/hardcaml/src/otf_mvau.ml: the matrix-vector unit.  It reads SF *)
(* words of a vector during the first neuron fold, keeps them in act_buf   *)
(* and replays them for the other NF - 1 folds; each fold ends in one      *)
(* result.  The arithmetic is abstracted to its operands: an accumulator   *)
(* is its bias index and the <<activation, weight address>> pairs added.   *)
(***************************************************************************)
EXTENDS Integers, Sequences

CONSTANTS SF,          (* sf_count = mw / simd *)
          NF,          (* nf_count = mh / pe *)
          BlockRam,    (* Config.block_ram: weights one cycle late *)
          Unwritten    (* a register or memory word before it is written *)

VARIABLES sf, nf,      (* synapse and neuron fold counters *)
          act_buf,     (* the vector's words, for replay *)
          issued,      (* block RAM: a step was issued last cycle *)
          stage,       (* block RAM: that step *)
          acc,
          out_valid, out_data

mvau == <<sf, nf, act_buf, issued, stage, acc, out_valid, out_data>>

Wrap(counter, size) == IF counter = size - 1 THEN 0 ELSE counter + 1

OutFree(ready) == ~out_valid \/ ready
StepHeld       == IF BlockRam THEN issued /\ stage.last ELSE sf = SF - 1
Go(ready)      == ~StepHeld \/ OutFree(ready)
NeedInput      == nf = 0

Step(valid, ready) == Go(ready) /\ (~NeedInput \/ valid)
SReady(ready)      == NeedInput /\ Go(ready)

\* The multiply-accumulate operands the counters point at.
Issue(data) == [first |-> sf = 0, last |-> sf = SF - 1, nf |-> nf,
                act   |-> IF NeedInput THEN data ELSE act_buf[sf],
                waddr |-> nf * SF + sf]

Mac(data)            == IF BlockRam THEN stage ELSE Issue(data)
MacValid(valid, ready) == IF BlockRam THEN Go(ready) /\ issued ELSE Step(valid, ready)

\* acc_next: a first step starts from the bias, a later one from acc.
Accumulate(mac) ==
  LET seed == IF mac.first THEN [bias |-> mac.nf, terms |-> << >>] ELSE acc
  IN  [seed EXCEPT !.terms = Append(@, <<mac.act, mac.waddr>>)]

\* Requantisation picks the multiplier of the fold being finished.
Requant(sum, fold) == [sum |-> sum, mult |-> fold]

Clock(clear, valid, data, ready) ==
  LET step   == Step(valid, ready)
      mac    == Mac(data)
      active == MacValid(valid, ready)
      finish == active /\ mac.last
  IN  /\ sf' = IF clear THEN 0 ELSE IF step THEN Wrap(sf, SF) ELSE sf
      /\ nf' = IF clear THEN 0
               ELSE IF step /\ sf = SF - 1 THEN Wrap(nf, NF) ELSE nf
      /\ act_buf' = IF step /\ NeedInput /\ ~clear
                      THEN [act_buf EXCEPT ![sf] = data] ELSE act_buf
      /\ issued' = IF clear THEN FALSE
                   ELSE IF BlockRam /\ Go(ready) THEN step ELSE issued
      /\ stage' = IF BlockRam /\ Go(ready) THEN Issue(data) ELSE stage
      /\ acc' = IF active THEN Accumulate(mac) ELSE acc
      /\ out_valid' = (~clear /\ (finish \/ (out_valid /\ ~ready)))
      /\ out_data' = IF finish /\ ~clear THEN Requant(Accumulate(mac), mac.nf)
                                         ELSE out_data

Init == /\ sf = 0 /\ nf = 0
        /\ act_buf = [k \in 0 .. SF - 1 |-> Unwritten]
        /\ issued = FALSE
        /\ stage = [first |-> FALSE, last |-> FALSE, nf |-> 0,
                    act |-> Unwritten, waddr |-> 0]
        /\ acc = [bias |-> 0, terms |-> << >>]
        /\ out_valid = FALSE
        /\ out_data = Unwritten

\* What one fold of a vector computes: every word of the vector, in order,
\* against the weights of that fold, from its bias and with its multiplier.
Result(vector, fold) ==
  [sum  |-> [bias  |-> fold,
             terms |-> [k \in 1 .. SF |-> <<vector[k], fold * SF + k - 1>>]],
   mult |-> fold]

=============================================================================
