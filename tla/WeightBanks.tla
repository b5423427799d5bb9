---------------------------- MODULE WeightBanks ----------------------------
(***************************************************************************)
(* hardware/hardcaml/src/weight_banks.ml: which of the two weight banks is *)
(* active, how many commits made it so, and what each bank's CRC says.     *)
(*                                                                         *)
(* The CRC of a bank is fed the data of its writes and never sees where    *)
(* they go, but for a write to word 0, which starts it afresh.  It is kept *)
(* as what it was fed since: CRC-32 is taken not to collide, and what is   *)
(* longer than an image, no CRC of an image any more, is cut at one word   *)
(* more.  Equal words are equal to the CRC, so that a bank can miss a word *)
(* and be fed its value all the same.                                      *)
(***************************************************************************)
EXTENDS Integers, Sequences

CONSTANTS Image,        (* model -> address -> the word of its image *)
          Compiled,     (* the model the bitstream holds *)
          Words,        (* words of one bank *)
          Versions      (* the version counter's modulus, 2^32 in the code *)

VARIABLES bank, version, crc,
          last          (* history: see InOrder *)

Banks == {0, 1}
Idle  == 1 - bank

\* What the CRC of these words is fed.
CrcOf(words) == [k \in 1 .. Words |-> words[k - 1]]

Init == /\ bank = 0 /\ version = 0
        /\ crc = [b \in Banks |-> CrcOf(Image[Compiled])]
        /\ last = [b \in Banks |-> Words - 1]

CrcStep(fed, address, data) ==
  IF address = 0 THEN <<data>> ELSE IF Len(fed) > Words THEN fed ELSE Append(fed, data)

\* The host read `idle_crc` and compared it with the CRC of this model's image.
IdleCrcIs(model) == crc[Idle] = CrcOf(Image[model])

\* Since a bank's word 0 was written, each write to it went to a later word than
\* the one before: `last` is the address of the last one.
InOrder(b) == last[b] # Words

Follows(previous, address) ==
  IF address = 0 \/ address > previous THEN address ELSE Words

\* Mutant of Clock: a write steps the CRC of the bank in use.
ClockStepsActive(write, address, data, commit) ==
  /\ bank' = IF commit THEN Idle ELSE bank
  /\ version' = IF commit THEN (version + 1) % Versions ELSE version
  /\ crc' = IF write THEN [crc EXCEPT ![bank] = CrcStep(@, address, data)] ELSE crc
  /\ last' = IF write THEN [last EXCEPT ![Idle] = Follows(@, address)] ELSE last

Clock(write, address, data, commit) ==
  /\ bank' = IF commit THEN Idle ELSE bank
  /\ version' = IF commit THEN (version + 1) % Versions ELSE version
  /\ crc' = IF write THEN [crc EXCEPT ![Idle] = CrcStep(@, address, data)] ELSE crc
  /\ last' = IF write THEN [last EXCEPT ![Idle] = Follows(@, address)] ELSE last

=============================================================================
