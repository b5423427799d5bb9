---------------------------- MODULE ReloadStream ---------------------------
(***************************************************************************)
(* A reloadable fixed latency design at its ports: inferences stream past, *)
(* up to one a cycle, while a host writes models into the idle bank and    *)
(* commits them the way `load_weights` does (compiler/onnx2fpga/reload.py: *)
(* write_bank), a word a cycle at most.  A write may be lost or repeated   *)
(* on its way; the host compares the idle bank's CRC before it commits,    *)
(* and commits what it cannot tell from the image.                         *)
(* One step is one clock edge.                                             *)
(***************************************************************************)
EXTENDS FixedTop, Functions

CONSTANTS InFlight,     (* bound: inferences in the pipeline at a time *)
          Gap           (* cycles from a commit to the host's next write *)

ASSUME BoundsAssumption == InFlight \in Nat \ {0} /\ Gap \in Nat \ {0}

VARIABLES target,       (* the model the host is writing *)
          at,           (* the words of it the host has sent *)
          since,        (* cycles since the commit, counted up to Gap *)
          faults        (* history: losses and repetitions since the host last *)
                        (* began with word 0, counted up to two *)

host == <<target, at, since, faults>>
vars == <<topVars, host>>

\* How many words the host has sent, at a word a cycle, when a value that was
\* tagged just before the commit reads the last of them: at Gap >= Lag a host
\* that writes in order never overtakes an inference.
Lag == Max({0} \cup {Start(p.node) + p.stage - p.address : p \in Picks})

InitStream == Init /\ target = Compiled /\ at = 0 /\ since = Gap /\ faults = 0

-----------------------------------------------------------------------------
(* One cycle: what the host does, while features may arrive.               *)

Flying  == UNION UNION {{x.from : x \in Range(pipe[k])} : k \in 1 .. N}
FreeIds == (1 .. InFlight) \ Flying

\* The edge, with features or without, and a clear at any time.
Edge(write, address, data, commit) ==
  \/ \E clear \in BOOLEAN : Clock(clear, FALSE, 0, write, address, data, commit)
  \/ /\ FreeIds # {}
     /\ \E clear \in BOOLEAN :
          Clock(clear, TRUE, Min(FreeIds), write, address, data, commit)

NoWrite    == Edge(FALSE, 0, 0, FALSE)
MayWrite   == since = Gap /\ at < Words
Fault      == faults' = Min({faults + 1, 2})
StartsOver == at' = 0 /\ faults' = 0
CommitNow(write, data) == Edge(write, 0, data, TRUE) /\ since' = 0

HostPauses == /\ NoWrite /\ since' = Min({since + 1, Gap})
              /\ UNCHANGED <<target, at, faults>>
HostWrites == /\ MayWrite /\ Edge(TRUE, at, Image[target][at], FALSE)
              /\ at' = at + 1 /\ UNCHANGED <<target, since, faults>>
WriteLost  == /\ MayWrite /\ NoWrite /\ Fault
              /\ at' = at + 1 /\ UNCHANGED <<target, since>>
WriteTwice == /\ at > 0 /\ Edge(TRUE, at - 1, Image[target][at - 1], FALSE) /\ Fault
              /\ UNCHANGED <<target, at, since>>

\* The CRC of the idle bank is not the image's: the host starts over.
HostRetries == /\ at = Words /\ ~Weights!IdleCrcIs(target) /\ NoWrite
               /\ StartsOver /\ UNCHANGED <<target, since>>

\* The host commits, and turns to its next model; a write that reaches the
\* ports in the same cycle is dropped.
HostCommits == /\ at = Words /\ Weights!IdleCrcIs(target)
               /\ \E next \in Models, write \in BOOLEAN :
                    CommitNow(write, Image[next][0]) /\ target' = next
               /\ StartsOver

\* A commit with nothing written since the last one goes back to its model.
HostGoesBack == /\ at = 0 /\ \E model \in Models : Weights!IdleCrcIs(model)
                /\ CommitNow(FALSE, 0) /\ StartsOver /\ UNCHANGED target

NextStream == \/ HostPauses \/ HostWrites \/ WriteLost \/ WriteTwice
              \/ HostRetries \/ HostCommits \/ HostGoesBack

Spec == InitStream /\ [][NextStream]_vars

-----------------------------------------------------------------------------

\* No inference sees half old and half new weights: every word it used, in
\* whatever unit and cycle, is that of the bank in use when its features arrived,
\* and that bank held one model whenever its writes had come in order
\* (docs/specs/003-reloadable-weights.md:26).
OneModel == Prediction.valid =>
  /\ Prediction.used \subseteq Prediction.promised.words
  /\ Prediction.promised.inOrder =>
       \E model \in Models : Prediction.promised.words = Contents(Image[model])

\* A bank whose CRC is that of an image holds that image, whatever its words are,
\* if its writes came in order, however many were lost; and if the host wrote it
\* with one loss or repetition at most, whatever was lost before that.  (Two may
\* make up for each other where the image has equal words.  weight_banks.ml
\* bank_crc, reload.py write_bank, docs/specs/003-reloadable-weights.md:117.)
CrcVouches ==
  \A b \in {0, 1}, model \in Models :
    /\ crc[b] = Weights!CrcOf(Image[model])
    /\ \/ Weights!InOrder(b)
       \/ b = Weights!Idle /\ at = Words /\ model = target /\ faults < 2
    => word[b] = Image[model]

\* An edge changes no word of the bank in use, and none of the bank a commit
\* puts in use: what is activated is what the host verified (fixed_top.ml
\* `write &: ~:commit`).
ActivatedAsVerified == [][\A b \in {bank, bank'} : word'[b] = word[b]]_vars

-----------------------------------------------------------------------------
(* The instances checked.  In both, branches of different length join in  *)
(* an elementwise unit, and a dense layer, with a product stage as a       *)
(* clock_mhz build has, answers.  In the first the longer branch is a      *)
(* table; in the second a dense layer, and the shorter one a table.        *)

\* otf_dense.ml: three stages and the product stages; otf_table.ml: one.
DenseNode(input, product) ==
  [inputs |-> <<input>>, weights |-> 1, channels |-> 1, product |-> product,
   sum |-> 0, latency |-> 3 + product]
FrozenNode(inputs, latency) ==
  [inputs |-> inputs, weights |-> 0, channels |-> 0, product |-> 0,
   sum |-> 0, latency |-> latency]

SkewedDesign == << FrozenNode(<<0>>, 1), FrozenNode(<<0, 1>>, 2), DenseNode(2, 1) >>
TwoLayers    == << DenseNode(0, 0), FrozenNode(<<0>>, 1),
                   FrozenNode(<<2, 1>>, 2), DenseNode(3, 1) >>

\* The images a CRC tells least of: all words of a model are the same.
FlatImages == [model \in Models |-> [a \in Addresses |-> model]]

=============================================================================
