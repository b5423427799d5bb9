------------------------------ MODULE FixedTop -----------------------------
(***************************************************************************)
(* hardware/hardcaml/src/fixed_top.ml with the reloadable otf_dense units: *)
(* a pipeline that takes an inference every cycle while a host rewrites    *)
(* the idle weight bank.  The active bank is sampled when the features     *)
(* arrive and travels beside the data as a tag; each stage of a dense unit *)
(* picks its words by the tag it holds.                                    *)
(*                                                                         *)
(* A node is [inputs |-> Seq(streams), weights, channels, product, sum,    *)
(* latency]; node k writes stream k and stream 0 is the design's input.  A *)
(* unit other than a dense one holds no words.                             *)
(*                                                                         *)
(* A value is what the properties need of it: the inferences it was made   *)
(* `from`, the words that were `used`, with their addresses, and what the  *)
(* inference was `promised` when it arrived: the words of the bank in use, *)
(* and whether their writes had come in order.                             *)
(***************************************************************************)
EXTENDS Integers, Sequences, FiniteSets, FiniteSetsExt

CONSTANTS Nodes,        (* the design's nodes, in the order of design.json *)
          Models, Compiled,
          Data,         (* what a word can hold *)
          Image,        (* model -> address -> the word *)
          Versions

N == Len(Nodes)

IsNode(node) == /\ node.inputs \in Seq(Nat) \ {<< >>}
                /\ {node.weights, node.channels, node.product, node.sum} \subseteq Nat
                /\ node.latency \in Nat \ {0}

\* design.json: every node reads streams that an earlier node writes.
ASSUME NodesAssumption ==
  /\ N \in Nat \ {0}
  /\ \A k \in 1 .. N : /\ IsNode(Nodes[k])
                       /\ \A j \in DOMAIN Nodes[k].inputs : Nodes[k].inputs[j] \in 0 .. k - 1
  /\ Compiled \in Models /\ Versions \in Nat \ {0}

\* Words of a unit, and the address of its first.
Held(k)    == Nodes[k].weights + 2 * Nodes[k].channels
Base[k \in 1 .. N + 1] == IF k = 1 THEN 0 ELSE Base[k - 1] + Held(k - 1)
Words      == Base[N + 1]
Addresses  == 0 .. Words - 1

ASSUME ImageAssumption == Image \in [Models -> [Addresses -> Data]]

\* When each stream is ready: a unit starts once its latest input arrives.
Arrival[k \in 0 .. N] ==
  IF k = 0 THEN 0
  ELSE Max({Arrival[Nodes[k].inputs[j]] : j \in DOMAIN Nodes[k].inputs}) + Nodes[k].latency
Start(k)   == Arrival[k] - Nodes[k].latency
Skew(k, j) == Start(k) - Arrival[Nodes[k].inputs[j]]
Latency    == Arrival[N]

VARIABLES bank, version, crc, last,
          word,             (* bank -> address -> the word it holds *)
          skew, pipe,       (* the values in the skew lines and in the units *)
          skewTag, pipeTag  (* their tags, which no clear resets *)

banks    == <<bank, version, crc, last>>
pipeline == <<skew, pipe, skewTag, pipeTag>>
topVars  == <<banks, word, pipeline>>

Weights == INSTANCE WeightBanks

\* Words with their addresses.
Contents(words) == {<<a, words[a]>> : a \in Addresses}

\* What an invalid value is made from does not matter and is not kept.
Nothing == [valid |-> FALSE, from |-> {0}, used |-> {},
            promised |-> [words |-> {}, inOrder |-> TRUE]]

Line(length, x) == [i \in 1 .. length |-> x]

Init == /\ Weights!Init
        /\ word = [b \in Weights!Banks |-> Image[Compiled]]
        /\ skew = [k \in 1 .. N |-> [j \in DOMAIN Nodes[k].inputs |-> Line(Skew(k, j), Nothing)]]
        /\ skewTag = [k \in 1 .. N |-> [j \in DOMAIN Nodes[k].inputs |-> Line(Skew(k, j), 0)]]
        /\ pipe = [k \in 1 .. N |-> Line(Nodes[k].latency, Nothing)]
        /\ pipeTag = [k \in 1 .. N |-> Line(Nodes[k].latency, 0)]

-----------------------------------------------------------------------------
(* Combinational signals.                                                  *)

\* A line of registers: its output, and the line after an edge.
Tap(line, x)     == IF line = << >> THEN x ELSE line[Len(line)]
Shifted(line, x) == [i \in DOMAIN line |-> IF i = 1 THEN x ELSE line[i - 1]]

Stream(k, x)   == IF k = 0 THEN x ELSE pipe[k][Nodes[k].latency]
TagOf(k)       == IF k = 0 THEN bank ELSE pipeTag[k][Nodes[k].latency]

Aligned(k, j, x) == Tap(skew[k][j], Stream(Nodes[k].inputs[j], x))

\* A unit's inputs once they are all there: valid and tag are the first's.
InputTag(k) == Tap(skewTag[k][1], TagOf(Nodes[k].inputs[1]))
Joined(k, x) ==
  LET inputs == {Aligned(k, j, x) : j \in DOMAIN Nodes[k].inputs}
  IN  IF ~Aligned(k, 1, x).valid THEN Nothing
      ELSE [Aligned(k, 1, x) EXCEPT !.from = UNION {input.from : input \in inputs},
                                    !.used = UNION {input.used : input \in inputs}]

Prediction == pipe[N][Nodes[N].latency]

\* otf_dense.ml `pick`: which words a unit reads, and how many registers after
\* its inputs: the weights at once, a bias with the products, a multiplier
\* with the sum.
Picks ==
  LET Reading(k, stage, first, count) ==
        {[node |-> k, stage |-> stage, address |-> a] : a \in first .. first + count - 1}
      Unit(k, node) ==
        Reading(k, 0, Base[k], node.weights)
          \cup Reading(k, 1 + node.product, Base[k] + node.weights, node.channels)
          \cup Reading(k, 2 + node.product + node.sum,
                       Base[k] + node.weights + node.channels, node.channels)
  IN  UNION {Unit(k, Nodes[k]) : k \in 1 .. N}

ReadAt(k, n) == {pick.address : pick \in {p \in Picks : p.node = k /\ p.stage = n}}

\* The tag a unit's data holds after `n` registers (otf_dense.ml `tags`).
TagAfter(k, n) == IF n = 0 THEN InputTag(k) ELSE pipeTag[k][n]

\* Mutant of Picked: the rescale multiplier is picked by the tag arriving now.
PickedOnArrival(k, n, x) ==
  IF ~x.valid THEN Nothing
  ELSE [x EXCEPT !.used = @ \cup {<<a, word[InputTag(k)][a]>> : a \in ReadAt(k, n)}]

Picked(k, n, x) ==
  IF ~x.valid THEN Nothing
  ELSE [x EXCEPT !.used = @ \cup {<<a, word[TagAfter(k, n)][a]>> : a \in ReadAt(k, n)}]

\* The line of a unit after an edge: each value has read its stage's words.
Worked(k, x) ==
  [i \in DOMAIN pipe[k] |->
     IF i = 1 THEN Picked(k, 0, Joined(k, x)) ELSE Picked(k, i - 1, pipe[k][i - 1])]

-----------------------------------------------------------------------------
(* One clock edge.                                                         *)

\* The inference the inputs stand for.
Arriving(valid, id) ==
  IF ~valid THEN Nothing
  ELSE [valid |-> TRUE, from |-> {id}, used |-> {},
        promised |-> [words |-> Contents(word[bank]), inOrder |-> Weights!InOrder(bank)]]

\* Mutant of Store: a write beside a commit still lands.
StoreUngated(write, address, data, commit) ==
  /\ Weights!Clock(write, address, data, commit)
  /\ word' = IF write THEN [word EXCEPT ![Weights!Idle][address] = data] ELSE word

\* The banks, and the registers of the words in the dense units.
Store(write, address, data, commit) ==
  LET landing == write /\ ~commit
  IN  /\ Weights!Clock(landing, address, data, commit)
      /\ word' = IF landing THEN [word EXCEPT ![Weights!Idle][address] = data] ELSE word

AlignTags ==
  /\ skewTag' = [k \in 1 .. N |-> [j \in DOMAIN skewTag[k] |->
                   Shifted(skewTag[k][j], TagOf(Nodes[k].inputs[j]))]]
  /\ pipeTag' = [k \in 1 .. N |-> Shifted(pipeTag[k], InputTag(k))]

\* The synchronous clear drops the inferences in flight, tags and banks stay.
Clock(clear, valid, id, write, address, data, commit) ==
  /\ Store(write, address, data, commit)
  /\ AlignTags
  /\ IF clear
     THEN /\ skew' = [k \in 1 .. N |-> [j \in DOMAIN skew[k] |->
                        [i \in DOMAIN skew[k][j] |-> Nothing]]]
          /\ pipe' = [k \in 1 .. N |-> [i \in DOMAIN pipe[k] |-> Nothing]]
     ELSE LET x == Arriving(valid, id)
          IN  /\ skew' = [k \in 1 .. N |-> [j \in DOMAIN skew[k] |->
                            Shifted(skew[k][j], Stream(Nodes[k].inputs[j], x))]]
              /\ pipe' = [k \in 1 .. N |-> Worked(k, x)]

=============================================================================
