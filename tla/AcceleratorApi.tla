--------------------------- MODULE AcceleratorApi --------------------------
(***************************************************************************)
(* compiler/onnx2fpga/api.py: an Accelerator, the object a user drives,    *)
(* with what its calls leave behind: the build directories, the board the  *)
(* bitstream is loaded into and the register file new weights are written  *)
(* to.  One step is one call, with every place at which it may raise.  A   *)
(* call that raises before it changes anything is no step.                 *)
(*                                                                         *)
(* A graph is [design, model]: a compiled design and the weights in it.    *)
(* utilisation, top, mult_bits and clock_mhz are kept as the arguments are *)
(* that the model has, a board is one of the names build knows, and the    *)
(* environment is that of one process.                                     *)
(***************************************************************************)
EXTENDS Integers

CONSTANTS Calls,        \* the compiles made: the arguments given, by name
          Choices,      \* what the layers may be set to
          Models,       \* the models load_weights is given
          Dirs,         \* the build directories
          EnvHdl,       \* ONNX2FPGA_HDL, or None
          Generator,    \* the Hardcaml generator "builds", "fails" to build or is "absent"
          MaxRevision,  \* bound: calls that change the layers
          None

AsIs    == "auto"       \* no layer is set to anything
Own     == "own"        \* the weights the design was compiled with
Garbled == "garbled"    \* a bank some of whose words were lost on the way

\* A directory with files of two designs.
Torn == [design |-> None, model |-> None]

\* The kr260 builds as the kv260 does.
Boards == {"icepi_zero", "kv260"}
Hdls   == {"hardcaml", "sv"}

\* What the arguments may be; a directory left out is one of the defaults.
Sound(call) == /\ "hdl" \in DOMAIN call => call["hdl"] \in Hdls
               /\ "out_dir" \in DOMAIN call => call["out_dir"] \in Dirs

ASSUME CallsAssumption == /\ \A call \in Calls : Sound(call)
                          /\ Hdls \cup {"fixed"} \subseteq Dirs /\ None \notin Hdls
                          /\ EnvHdl \in Hdls \cup {None}
                          /\ Generator \in {"builds", "fails", "absent"}

VARIABLES trees,                \* the model is a tree ensemble
          layers, revision,     \* what the layers are set to, and how often they were
          requested,            \* the arguments of the last compile that began
          result, compiledGraph, compiledRevision,
          built,                \* acc.board: the board last built for and its directory
          building,             \* the build that compiles first, or None
          session,              \* the graph the open serial port's frames are cut for
          files,                \* the graph in each build directory
          hardware,             \* the graph in the board's SRAM
          registers,            \* the two banks behind load_weights' registers
          followed,             \* history: no load_weights on them was cut short
          uncounted,            \* history: a setter that raised has changed a layer since
          spoiled               \* history: a compile that raised has written to out_dir since

chosen   == <<trees, layers, revision, uncounted>>
compiled == <<requested, result, compiledGraph, compiledRevision, spoiled>>
banks    == <<registers, followed>>
vars == <<chosen, compiled, built, building, session, files, hardware, banks>>

-----------------------------------------------------------------------------
(* What a compile is asked for: the arguments given, else the last ones.   *)

Get(call, key, default) == IF key \in DOMAIN call THEN call[key] ELSE default
Kept(call, key, default) == Get(call, key, Get(requested, key, default))

Mode(call)    == Kept(call, "mode", "stream")
Weights(call) == Kept(call, "weights", "frozen")
Strict(call)  == Get(call, "strict", TRUE)

\* The backend named, else the environment's, else the one that builds.  Hardcaml
\* when named must be there; that it does not build shows when it is to write.
Resolved(hdl) == IF hdl # None THEN hdl ELSE IF EnvHdl # None THEN EnvHdl
                 ELSE IF Generator = "builds" THEN "hardcaml" ELSE "sv"
Available(hdl) == hdl = "hardcaml" => Generator # "absent"
Generates(hdl) == hdl = "hardcaml" => Generator = "builds"

\* Fixed mode asks for the backend anew, and never falls back to sv.
FixedHdl(call)  == Get(call, "hdl", IF EnvHdl # None THEN EnvHdl ELSE "hardcaml")
AsksHdl(call)   == "hdl" \in DOMAIN call \/ "hdl" \notin DOMAIN requested
StreamHdl(call) == IF AsksHdl(call) THEN Resolved(Get(call, "hdl", None)) ELSE requested["hdl"]

\* Fixed mode takes no target.
Hdl(call)    == IF Mode(call) = "fixed" THEN FixedHdl(call) ELSE StreamHdl(call)
Target(call) == IF Mode(call) = "fixed" THEN "fit" ELSE Kept(call, "target", "fit")

\* The last directory while the backend and the mode stay, else the default.
OutDir(call) ==
  IF "out_dir" \in DOMAIN call THEN call["out_dir"]
  ELSE IF /\ Get(requested, "hdl", None) = Hdl(call)
          /\ Get(requested, "mode", None) = Mode(call)
       THEN requested["out_dir"]
  ELSE IF Mode(call) = "fixed" THEN "fixed" ELSE Hdl(call)

Settings(call) ==
  [mode |-> Mode(call), weights |-> Weights(call), hdl |-> Hdl(call),
   device |-> Kept(call, "device", "vu9p"), target |-> Target(call),
   samples |-> Kept(call, "samples", "random"), out_dir |-> OutDir(call)]

\* The errors that come before anything is remembered.
MayReload(call)   == Mode(call) = "fixed" /\ ~trees /\ layers # "constant"
MayBeFixed(call)  == /\ "target" \notin DOMAIN call /\ layers # "folded"
                     /\ FixedHdl(call) = "hardcaml" /\ Available("hardcaml")
MayBeStream(call) == layers # "constant" /\ (AsksHdl(call) => Available(StreamHdl(call)))
Accepted(call) == /\ Weights(call) = "reloadable" => MayReload(call)
                  /\ IF Mode(call) = "fixed" THEN MayBeFixed(call) ELSE MayBeStream(call)

\* A tree ensemble is refused by the compiler, once the call is remembered.
Compiles(call) == trees => Mode(call) = "fixed"

Emitted(call) == [design |-> [layers |-> layers, settings |-> Settings(call)], model |-> Own]

-----------------------------------------------------------------------------

Init == /\ trees \in BOOLEAN /\ layers = AsIs /\ revision = 0
        /\ requested = << >>
        /\ result = None /\ compiledGraph = None /\ compiledRevision = -1
        /\ built = None /\ building = None /\ session = None
        /\ files = [dir \in Dirs |-> None]
        /\ hardware = None /\ registers = None /\ followed = TRUE
        /\ uncounted = FALSE /\ spoiled = FALSE

Idle == building = None

\* _require_compiled.
Ready == Idle /\ result # None /\ compiledRevision = revision

Dir(graph) == graph.design.settings.out_dir

\* Mutant of Changed: a setter forgets to count the change.
Forgotten == revision' = revision

\* _changed.
Changed == revision' = revision + 1

\* Layer.fold, quantize, arithmetic and memory.  Of a tree ensemble only the
\* widths can be set; "folded" stands for memory too.
Settable == IF trees THEN Choices \ {"folded", "constant"} ELSE Choices
SetLayers ==
  /\ Idle /\ revision < MaxRevision /\ layers' \in Settable
  /\ Changed
  /\ UNCHANGED <<trees, uncounted, compiled, built, building, session, files, hardware, banks>>

\* quantize of a tree ensemble has set its leaves when it refuses the width of
\* its features: the layer is changed, and the change is not counted.
QuantizeStops ==
  /\ Idle /\ trees
  /\ layers' \in Settable
  /\ uncounted' = TRUE
  /\ UNCHANGED <<trees, revision, compiled, built, building, session, files, hardware, banks>>

\* A compile that raises once it has begun: what was asked for is remembered.
Raises(call) ==
  /\ Accepted(call)
  /\ requested' = Settings(call) /\ building' = None
  /\ UNCHANGED <<chosen, result, compiledGraph, compiledRevision, built, session, hardware,
                 banks>>

\* A pass raises, before a file is written.
CompileStops(call) == Raises(call) /\ UNCHANGED <<files, spoiled>>

\* The directory has been written, whole or not.
Leaves(call, written) ==
  /\ Raises(call)
  /\ files' = [files EXCEPT ![OutDir(call)] = written]
  /\ spoiled' = (spoiled \/ (result # None /\ OutDir(call) = Dir(result)))

\* The generator is not built or raises, between two files.
CompileBreaks(call) == Compiles(call) /\ Leaves(call, Torn)

Succeeds(call) == Accepted(call) /\ Compiles(call) /\ Generates(Hdl(call))

\* _check_target raises, when the directory has been written.
CompileMisses(call) ==
  /\ Succeeds(call) /\ Strict(call) /\ Target(call) = "cycles"
  /\ Leaves(call, Emitted(call))

\* Mutant of LetGo: the serial port stays open on the last design.
StaysConnected == built' = None /\ UNCHANGED session

LetGo == built' = None /\ session' = None

\* The registers were those of the design that is now gone.
Compile(call, board) ==
  /\ Succeeds(call)
  /\ LetGo
  /\ requested' = Settings(call) /\ building' = board
  /\ files' = [files EXCEPT ![OutDir(call)] = Emitted(call)]
  /\ result' = Emitted(call) /\ compiledGraph' = Emitted(call)
  /\ compiledRevision' = revision
  /\ registers' = None /\ followed' = TRUE
  /\ uncounted' = FALSE /\ spoiled' = FALSE
  /\ UNCHANGED <<trees, layers, revision, hardware>>

-----------------------------------------------------------------------------
(* build: compiles first if nothing is compiled.                           *)

BoardDevice(board) == IF board = "icepi_zero" THEN "icepi25" ELSE "k26"
BoardMode(board)   == IF board = "icepi_zero" THEN "stream" ELSE "fixed"
BoardCall(board)   == IF board = "icepi_zero" THEN [device |-> BoardDevice(board), hdl |-> "hardcaml"]
                      ELSE [device |-> BoardDevice(board), mode |-> "fixed"]

BuildsFor(board) ==
  LET settings == result.design.settings
  IN  /\ settings.mode = BoardMode(board)
      /\ settings.device = BoardDevice(board)
      /\ settings.hdl = "hardcaml"

BuildCompiles(board) == /\ Idle /\ result = None
                        /\ \/ Compile(BoardCall(board), board)
                           \/ CompileStops(BoardCall(board))
                           \/ CompileBreaks(BoardCall(board))
                           \/ CompileMisses(BoardCall(board))

\* The flow makes the bitstream from the directory's design.json.
Build(board) ==
  /\ building \in {None, board} /\ result # None /\ compiledRevision = revision
  /\ BuildsFor(board)
  /\ built' = [board |-> board, dir |-> Dir(result)]
  /\ building' = None
  /\ UNCHANGED <<chosen, compiled, session, files, hardware, banks>>

\* Not the board's design after all, a tool is missing or the flow fails; the
\* board of an earlier build stays.
BuildStops ==
  /\ ~Idle /\ building' = None
  /\ UNCHANGED <<chosen, compiled, built, session, files, hardware, banks>>

-----------------------------------------------------------------------------
(* deploy, disconnect and the board.                                       *)

Deployable == Ready /\ built # None /\ built.board = "icepi_zero"

\* What `make prog` loads: the bitstream, made again if design.json is newer.
Loaded == files[built.dir]

Deploy(program) ==
  /\ Deployable
  /\ hardware' = IF program THEN Loaded ELSE hardware
  /\ session' = files[Dir(result)]
  /\ UNCHANGED <<chosen, compiled, built, building, files, banks>>

\* The flow or the loader fails and the old port stays open; or the port, the
\* link file or the window check raises after it, with no port open.
DeployStops ==
  /\ Deployable
  /\ \/ hardware' \in {hardware, None, Loaded} /\ UNCHANGED session
     \/ hardware' \in {hardware, Loaded} /\ session' = None
  /\ UNCHANGED <<chosen, compiled, built, building, files, banks>>

Disconnect ==
  /\ Idle /\ session # None /\ session' = None
  /\ UNCHANGED <<chosen, compiled, built, building, files, hardware, banks>>

\* The SRAM forgets; predict then ends in a LinkTimeout.
PowerCycle ==
  /\ Idle /\ hardware # None /\ hardware' = None
  /\ UNCHANGED <<chosen, compiled, built, building, session, files, banks>>

-----------------------------------------------------------------------------
(* load_weights on the registers of the compiled design.                   *)

Reloadable == result # None /\ result.design.settings.weights = "reloadable"

\* SimulatedRegisters(acc.out_dir): the banks power up with the weights of the
\* design.json they are made from.  One made from another design's files, or kept
\* from a design before, is another device's.
OpenRegisters ==
  /\ Ready /\ Reloadable /\ files[Dir(result)] = compiledGraph
  /\ registers' = [active |-> Own, idle |-> Own]
  /\ followed' = (result.model = Own)
  /\ UNCHANGED <<chosen, compiled, built, building, session, files, hardware>>

\* Mutant of Commits: the idle bank's CRC is not looked at.
CommitsBlindly(lost) == TRUE

\* write_bank: the idle bank once it is written, and whether its CRC, which is that
\* of the words that arrived, lets it be committed.  The words lost are ones the CRC
\* tells of: which those are is for ReloadStream and KriaHost (CrcVouches).
IdleBank(model, lost) == IF "word" \in lost THEN Garbled ELSE model
Commits(lost)         == "word" \notin lost

\* The writes of write_bank that are lost: words of the bank, or the commit.  The
\* last look at the registers tells a commit that was lost or of another bank.
LoadWeights(model, lost) ==
  LET idle   == IdleBank(model, lost)
      flips  == Commits(lost) /\ "commit" \notin lost
      loaded == flips /\ idle = model
  IN  /\ Ready /\ Reloadable /\ registers # None
      /\ registers' = IF flips THEN [active |-> idle, idle |-> registers.active]
                      ELSE [registers EXCEPT !.idle = idle]
      /\ result' = IF loaded THEN [result EXCEPT !.model = model] ELSE result
      /\ followed' = (loaded \/ followed)
      /\ UNCHANGED <<chosen, requested, compiledGraph, compiledRevision, spoiled, built,
                     building, session, files, hardware>>

\* The register file stops answering between the commit and the confirmation.
LoadWeightsCut(model) ==
  /\ Ready /\ Reloadable /\ registers # None
  /\ registers' = [active |-> model, idle |-> registers.active]
  /\ followed' = FALSE
  /\ UNCHANGED <<chosen, compiled, built, building, session, files, hardware>>

-----------------------------------------------------------------------------

\* deploy(program=False) is for "a board already loaded" with the bitstream.
AlreadyLoaded == built # None /\ hardware = Loaded

Next ==
  \/ SetLayers \/ QuantizeStops
  \/ \E call \in Calls : /\ Idle
                         /\ \/ Compile(call, None)
                            \/ CompileStops(call)
                            \/ CompileBreaks(call)
                            \/ CompileMisses(call)
  \/ \E board \in Boards : BuildCompiles(board) \/ Build(board)
  \/ BuildStops
  \/ \E program \in BOOLEAN : (program \/ AlreadyLoaded) /\ Deploy(program)
  \/ DeployStops \/ Disconnect \/ PowerCycle
  \/ OpenRegisters
  \/ \E model \in Models : \/ \E lost \in SUBSET {"word", "commit"} : LoadWeights(model, lost)
                           \/ LoadWeightsCut(model)

Spec == Init /\ [][Next]_vars

-----------------------------------------------------------------------------

\* predict, unless told where to run, asks the board while a port is open.
OnBoard == session # None

\* predict goes to the board while a port is open: the board then runs the
\* design the reference model would be run for, and the port's frames are cut
\* for that design, whatever was compiled, built, deployed, changed and
\* compiled again in between (api.py predict, deploy, compile's disconnect).
BoardAnswersAlways == OnBoard => session = result /\ hardware \in {None, result}

\* The same, until a compile that raises writes to the directory of the design
\* in use: the next deploy takes the link and the bitstream from there.
BoardAnswersAsReference == spoiled \/ BoardAnswersAlways

\* Mutant of Vectors: simulate asks the model that was loaded last.
VectorsOfResult == result

\* _write_vectors: the graph simulate takes its expected outputs from.
Vectors == compiledGraph

\* simulate: what Verilator builds is what the directory holds.
Simulated == files[Dir(result)]

\* simulate builds what is in the directory and compares it with outputs of
\* this graph: it is the one the directory was written from, also after new
\* weights were loaded and until a compile that raises writes there (api.py
\* simulate, _write_vectors, load_weights).
SimulationAgrees == result # None /\ ~spoiled => Simulated = Vectors

\* What _require_compiled lets pass was compiled from the layers as they are
\* set now: every setter makes the design stale until the next compile, a
\* compile that raises leaves it stale.  Only a quantize that raises half way
\* is not seen (api.py _changed, _require_compiled, Layer.quantize).
CurrentLayers == Ready /\ ~uncounted => result.design.layers = layers

\* Whether words are lost, as the CRC tells, or the commit is, load_weights leaves
\* predict with the model of the bank in force: it replaces the result if and only
\* if the bank was flipped, and it flips none whose CRC is not the image's
\* (reload.py write_bank before the assignment in api.py load_weights).  Only a
\* register file that stops answering between the two can part them.
LoadedAllOrNothing == registers # None /\ followed => registers.active = result.model

-----------------------------------------------------------------------------
(* The instances checked: compiles of a stream design for the serial board *)
(* and of a fixed latency one, with other modes, targets and directories   *)
(* than the last one or with the same.                                     *)

SomeCalls ==
  { [device |-> "icepi25", mode |-> "stream", weights |-> "frozen", target |-> "cycles",
     strict |-> FALSE],
    [target |-> "cycles"],
    [mode |-> "fixed", weights |-> "reloadable", out_dir |-> "spare"] }

\* A second calibration, with a target out of reach and the directory left out.
MissingCalls == {[device |-> "icepi25"], [samples |-> "train", target |-> "cycles"]}

=============================================================================
