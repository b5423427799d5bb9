------------------------ MODULE AcceleratorApi_proofs -----------------------
(***************************************************************************)
(* What holds of the Python interface for every set of calls, layers and   *)
(* directories, and after any number of calls, those that raise among them. *)
(***************************************************************************)
EXTENDS AcceleratorApi, TLAPS

\* The compile that made the result came no later than the layers' last change.
Counts == revision \in Int /\ compiledRevision \in Int /\ compiledRevision <= revision

\* The arguments remembered are arguments, the directory among them.
Remembers == Sound(requested) /\ ("hdl" \in DOMAIN requested => "out_dir" \in DOMAIN requested)

\* The result is the compiled graph, but for weights loaded into a reloadable one,
\* and only a fixed latency design is reloadable.
Designed ==
  LET settings == result.design.settings
  IN  result # None =>
        /\ result = [design |-> result.design, model |-> result.model]
        /\ settings.out_dir \in Dirs
        /\ settings.weights = "reloadable" => settings.mode = "fixed"
        /\ settings.weights # "reloadable" => compiledGraph = result

Current == result # None /\ compiledRevision = revision /\ ~uncounted
             => result.design.layers = layers

Banked == /\ registers # None =>
               registers = [active |-> registers.active, idle |-> registers.idle]
          /\ LoadedAllOrNothing

BuiltHere ==
  built # None => /\ built.dir = Dir(result)
                  /\ built.board = "icepi_zero" => result.design.settings.mode = "stream"

\* What no compile that raised has written over: the files of the design in use.
InFiles == result # None /\ ~spoiled => files[Dir(result)] = compiledGraph

\* An open port is one to the board of a streaming design.
Deployed == session # None => /\ result # None /\ result.design.settings.mode = "stream"
                              /\ ~spoiled => session = result /\ hardware \in {None, result}

Inv == /\ Counts /\ Remembers /\ Designed /\ Current /\ Banked /\ BuiltHere
       /\ DOMAIN files = Dirs /\ spoiled \in BOOLEAN
       /\ InFiles /\ Deployed

-----------------------------------------------------------------------------
(* What a compile is asked for, and what it leaves.                        *)

LEMMA OutDirIsDir ==
  ASSUME Remembers, NEW call, Sound(call)
  PROVE  Hdl(call) \in Hdls /\ OutDir(call) \in Dirs
<1>1. Hdl(call) \in Hdls
  <2>1. FixedHdl(call) \in Hdls
    BY CallsAssumption DEF FixedHdl, Get, Sound, Hdls
  <2>2. \A hdl \in Hdls \cup {None} : Resolved(hdl) \in Hdls
    BY CallsAssumption DEF Resolved, Hdls
  <2>3. StreamHdl(call) \in Hdls
    BY <2>2, CallsAssumption DEF StreamHdl, AsksHdl, Get, Remembers, Sound
  <2> QED
    BY <2>1, <2>3 DEF Hdl
<1>2. "hardcaml" \in Dirs /\ "sv" \in Dirs /\ "fixed" \in Dirs
  BY CallsAssumption DEF Hdls
<1>3. "out_dir" \in DOMAIN call => OutDir(call) \in Dirs
  BY DEF OutDir, Sound
<1>4. ASSUME "out_dir" \notin DOMAIN call, Get(requested, "hdl", None) = Hdl(call)
      PROVE  requested["out_dir"] \in Dirs
  BY <1>1, <1>4, CallsAssumption DEF Get, Remembers, Sound
<1> QED
  BY <1>1, <1>2, <1>3, <1>4 DEF OutDir, Hdls

LEMMA SettingsAreKept ==
  ASSUME Remembers, NEW call, Sound(call)
  PROVE  /\ Sound(Settings(call))
         /\ "out_dir" \in DOMAIN Settings(call)
<1>1. /\ DOMAIN Settings(call) = {"mode", "weights", "hdl", "device", "target", "samples", "out_dir"}
      /\ Settings(call)["hdl"] = Hdl(call)
      /\ Settings(call)["out_dir"] = OutDir(call)
  BY DEF Settings
<1> QED
  BY <1>1, OutDirIsDir DEF Sound

LEMMA BoardCallsAreSound == \A board : Sound(BoardCall(board))
<1>1. ASSUME NEW board, board # "icepi_zero" PROVE Sound(BoardCall(board))
  BY <1>1 DEF BoardCall, Sound
<1>2. ASSUME NEW board, board = "icepi_zero" PROVE Sound(BoardCall(board))
  <2>1. BoardCall(board) = [device |-> BoardDevice(board), hdl |-> "hardcaml"]
    BY <1>2 DEF BoardCall
  <2> QED
    BY <2>1 DEF Sound, Hdls
<1> QED
  BY <1>1, <1>2

LEMMA EmittedIs ==
  ASSUME NEW call
  PROVE  /\ Emitted(call) = [design |-> Emitted(call).design, model |-> Emitted(call).model]
         /\ Emitted(call).design.layers = layers
         /\ Emitted(call).design.settings = Settings(call)
         /\ Dir(Emitted(call)) = OutDir(call)
         /\ Settings(call).out_dir = OutDir(call)
         /\ Settings(call).weights = Weights(call)
         /\ Settings(call).mode = Mode(call)
BY DEF Emitted, Dir, Settings

\* A compile that succeeds.
LEMMA CompileKeeps ==
  ASSUME Inv, NEW call, Sound(call), NEW board, Compile(call, board)
  PROVE  Inv'
<1> USE DEF Compile, Succeeds, LetGo, chosen
<1>1. OutDir(call) \in Dirs
  BY OutDirIsDir DEF Inv
<1>2. Counts'
  BY DEF Inv, Counts
<1>3. Remembers'
  BY SettingsAreKept DEF Inv, Remembers, Sound
<1>4. Designed'
  BY <1>1, EmittedIs DEF Designed, Accepted, MayReload
<1>5. Current'
  BY EmittedIs DEF Current
<1>6. Banked'
  BY DEF Banked, LoadedAllOrNothing
<1>7. BuiltHere' /\ Deployed'
  BY DEF BuiltHere, Deployed
<1>8. (DOMAIN files = Dirs)'
  BY DEF Inv
<1>9. InFiles'
  BY <1>1, EmittedIs DEF Inv, InFiles, Dir
<1>10. (spoiled \in BOOLEAN)'
  OBVIOUS
<1> QED
  BY <1>2, <1>3, <1>4, <1>5, <1>6, <1>7, <1>8, <1>9, <1>10 DEF Inv

\* A compile that raises: it may leave files, and then says so.
LEMMA RaisedKeeps ==
  ASSUME Inv, NEW call, Sound(call),
         CompileStops(call) \/ CompileBreaks(call) \/ CompileMisses(call)
  PROVE  Inv'
<1>1. /\ Raises(call)
      /\ \/ UNCHANGED <<files, spoiled>>
         \/ \E written :
              /\ files' = [files EXCEPT ![OutDir(call)] = written]
              /\ spoiled' = (spoiled \/ (result # None /\ OutDir(call) = Dir(result)))
  BY DEF CompileStops, CompileBreaks, CompileMisses, Leaves
<1>2. /\ UNCHANGED <<chosen, result, compiledGraph, compiledRevision, built, session, hardware,
                     banks>>
      /\ requested' = Settings(call)
  BY <1>1 DEF Raises
<1>3. Counts' /\ Designed' /\ Current' /\ Banked' /\ BuiltHere'
  BY <1>2 DEF Inv, chosen, banks, Counts, Designed, Current, Banked, BuiltHere,
              LoadedAllOrNothing, Dir
<1>4. Remembers'
  BY <1>2, SettingsAreKept DEF Inv, Remembers, Sound
<1>5. (DOMAIN files = Dirs /\ spoiled \in BOOLEAN)' /\ (spoiled => spoiled')
  <2>1. CASE UNCHANGED <<files, spoiled>>
    BY <2>1 DEF Inv
  <2>2. ASSUME NEW written, files' = [files EXCEPT ![OutDir(call)] = written],
               spoiled' = (spoiled \/ (result # None /\ OutDir(call) = Dir(result)))
        PROVE  (DOMAIN files = Dirs /\ spoiled \in BOOLEAN)' /\ (spoiled => spoiled')
    BY <2>2 DEF Inv
  <2> QED
    BY <1>1, <2>1, <2>2
<1>6. Deployed'
  BY <1>2, <1>5 DEF Inv, Deployed
<1>7. InFiles'
  <2> SUFFICES ASSUME result # None, ~spoiled'
               PROVE  files'[Dir(result)] = compiledGraph
    BY <1>2 DEF InFiles, Dir
  <2>1. Dir(result) \in DOMAIN files
    BY DEF Inv, Designed, Dir
  <2>2. files'[Dir(result)] = files[Dir(result)]
    BY <1>1, <2>1
  <2> QED
    BY <1>5, <2>2 DEF Inv, InFiles
<1> QED
  BY <1>3, <1>4, <1>5, <1>6, <1>7 DEF Inv

-----------------------------------------------------------------------------

LEMMA InitKeeps == Init => Inv
<1> SUFFICES ASSUME Init PROVE Inv
  OBVIOUS
<1>1. Counts /\ Designed /\ Current /\ Banked /\ BuiltHere /\ InFiles /\ Deployed
  BY DEF Init, Counts, Designed, Current, Banked, BuiltHere, InFiles, Deployed, LoadedAllOrNothing
<1>2. Remembers
  <2>1. requested = << >> /\ DOMAIN << >> = {}
    BY DEF Init
  <2> QED
    BY <2>1 DEF Remembers, Sound
<1>3. DOMAIN files = Dirs /\ spoiled \in BOOLEAN
  BY DEF Init
<1> QED
  BY <1>1, <1>2, <1>3 DEF Inv

\* The calls that touch neither the settings nor the weights.
LEMMA BuildKeeps ==
  ASSUME Inv, NEW board, Build(board)
  PROVE  Inv'
<1>1. BuiltHere'
  BY DEF Build, BuildsFor, BuiltHere, BoardMode, Dir, compiled
<1>2. /\ Counts' /\ Remembers' /\ Designed' /\ Current' /\ Banked'
      /\ DOMAIN files' = Dirs /\ (spoiled \in BOOLEAN)' /\ InFiles' /\ Deployed'
  BY DEF Inv, Build, chosen, compiled, banks, Counts, Remembers, Sound, Designed, Current,
         Banked, LoadedAllOrNothing, InFiles, Deployed, Dir
<1> QED
  BY <1>1, <1>2 DEF Inv

LEMMA BoardKeeps ==
  ASSUME Inv, \/ BuildStops \/ Disconnect \/ PowerCycle \/ DeployStops
              \/ \E program \in BOOLEAN : (program \/ AlreadyLoaded) /\ Deploy(program)
  PROVE  Inv'
<1>1. UNCHANGED <<chosen, compiled, built, files, banks>>
  BY DEF BuildStops, Disconnect, PowerCycle, DeployStops, Deploy
<1>2. /\ Counts' /\ Remembers' /\ Designed' /\ Current' /\ Banked' /\ BuiltHere'
      /\ DOMAIN files' = Dirs /\ (spoiled \in BOOLEAN)' /\ InFiles'
  BY <1>1 DEF Inv, chosen, compiled, banks, Counts, Remembers, Sound, Designed, Current,
              Banked, LoadedAllOrNothing, BuiltHere, InFiles, Dir
<1>3. Deployed'
  <2>1. CASE BuildStops \/ Disconnect \/ PowerCycle
    BY <1>1, <2>1 DEF Inv, compiled, Deployed, BuildStops, Disconnect, PowerCycle
  <2>2. ASSUME Deployable
        PROVE  /\ result # None /\ result.design.settings.mode = "stream"
               /\ ~spoiled => Loaded = result /\ files[Dir(result)] = result
    BY <2>2 DEF Inv, Deployable, Ready, BuiltHere, Designed, InFiles, Loaded
  <2>3. CASE DeployStops
    BY <1>1, <2>2, <2>3 DEF Inv, compiled, Deployed, DeployStops
  <2>4. ASSUME NEW program \in BOOLEAN, program \/ AlreadyLoaded, Deploy(program)
        PROVE  Deployed'
    BY <1>1, <2>2, <2>4 DEF compiled, Deployed, Deploy, AlreadyLoaded
  <2> QED
    BY <2>1, <2>3, <2>4
<1> QED
  BY <1>2, <1>3 DEF Inv

LEMMA SettersKeep == ASSUME Inv, SetLayers \/ QuantizeStops PROVE Inv'
<1>1. Counts' /\ Current'
  BY DEF Inv, SetLayers, QuantizeStops, Changed, compiled, Counts, Current
<1>2. /\ Remembers' /\ Designed' /\ Banked' /\ BuiltHere' /\ DOMAIN files' = Dirs
      /\ (spoiled \in BOOLEAN)' /\ InFiles' /\ Deployed'
  BY DEF Inv, SetLayers, QuantizeStops, compiled, banks, Remembers, Sound, Designed, Banked,
         LoadedAllOrNothing, BuiltHere, InFiles, Deployed, Dir
<1> QED
  BY <1>1, <1>2 DEF Inv

\* Loading weights changes the result's model and nothing else of it, and only
\* that of a design no port is open for.
LEMMA LoadKeeps ==
  ASSUME Inv, \/ OpenRegisters
              \/ \E model \in Models : \/ \E lost \in SUBSET {"word", "commit"} :
                                            LoadWeights(model, lost)
                                       \/ LoadWeightsCut(model)
  PROVE  Inv'
<1>1. /\ UNCHANGED <<trees, layers, revision, uncounted, requested, compiledGraph, compiledRevision,
                     spoiled, built, session, files, hardware>>
      /\ Ready /\ Reloadable
  BY DEF OpenRegisters, LoadWeights, LoadWeightsCut, chosen, compiled
<1>2. result' = result \/ \E model \in Models : result' = [result EXCEPT !.model = model]
  BY DEF OpenRegisters, LoadWeights, LoadWeightsCut, compiled
<1>3. /\ result' = [design |-> result.design, model |-> result'.model]
      /\ result'.design = result.design
  BY <1>1, <1>2 DEF Inv, Designed, Ready
<1>4. /\ Counts' /\ Remembers' /\ DOMAIN files' = Dirs
      /\ (spoiled \in BOOLEAN)' /\ InFiles'
  BY <1>1, <1>3 DEF Inv, Counts, Remembers, Sound, InFiles, Ready, Dir
<1>8. Current' /\ BuiltHere'
  BY <1>1, <1>3 DEF Inv, Current, BuiltHere, Ready, Dir
<1>5. Designed'
  BY <1>1, <1>3 DEF Inv, Designed, Reloadable
<1>6. Deployed'
  BY <1>1, <1>3 DEF Inv, Designed, Deployed, Reloadable
<1>7. Banked'
  <2>1. CASE OpenRegisters
    BY <2>1 DEF OpenRegisters, Banked, LoadedAllOrNothing, compiled
  <2>2. ASSUME NEW model \in Models, LoadWeightsCut(model) PROVE Banked'
    BY <2>2 DEF LoadWeightsCut, Banked, LoadedAllOrNothing
  <2>3. ASSUME NEW model \in Models, NEW lost \in SUBSET {"word", "commit"},
               LoadWeights(model, lost)
        PROVE  Banked'
    <3>1. Commits(lost) => IdleBank(model, lost) = model
      BY DEF Commits, IdleBank
    <3>2. CASE Commits(lost) /\ "commit" \notin lost
      <4>1. /\ registers' = [active |-> model, idle |-> registers.active]
            /\ result' = [result EXCEPT !.model = model]
        BY <2>3, <3>1, <3>2 DEF LoadWeights
      <4>2. result'.model = model
        BY <1>1, <4>1 DEF Inv, Designed, Ready
      <4> QED
        BY <4>1, <4>2 DEF Banked, LoadedAllOrNothing
    <3>3. CASE ~(Commits(lost) /\ "commit" \notin lost)
      <4>1. /\ registers # None /\ registers' = [registers EXCEPT !.idle = IdleBank(model, lost)]
            /\ result' = result /\ (followed' => followed)
        BY <2>3, <3>3 DEF LoadWeights
      <4> QED
        BY <4>1 DEF Inv, Banked, LoadedAllOrNothing
    <3> QED
      BY <3>2, <3>3
  <2> QED
    BY <2>1, <2>2, <2>3
<1> QED
  BY <1>4, <1>5, <1>6, <1>7, <1>8 DEF Inv

LEMMA NextKeeps == Inv /\ [Next]_vars => Inv'
<1> SUFFICES ASSUME Inv, [Next]_vars PROVE Inv'
  OBVIOUS
<1>1. CASE SetLayers \/ QuantizeStops
  BY <1>1, SettersKeep
<1>2. ASSUME NEW call \in Calls,
             \/ Compile(call, None) \/ CompileStops(call)
             \/ CompileBreaks(call) \/ CompileMisses(call)
      PROVE  Inv'
  BY <1>2, CallsAssumption, CompileKeeps, RaisedKeeps
<1>3. ASSUME NEW board \in Boards, BuildCompiles(board) PROVE Inv'
  BY <1>3, BoardCallsAreSound, CompileKeeps, RaisedKeeps DEF BuildCompiles
<1>4. ASSUME NEW board \in Boards, Build(board) PROVE Inv'
  BY <1>4, BuildKeeps
<1>5. CASE \/ BuildStops \/ Disconnect \/ PowerCycle \/ DeployStops
           \/ \E program \in BOOLEAN : (program \/ AlreadyLoaded) /\ Deploy(program)
  BY <1>5, BoardKeeps
<1>6. CASE \/ OpenRegisters
           \/ \E model \in Models : \/ \E lost \in SUBSET {"word", "commit"} :
                                         LoadWeights(model, lost)
                                    \/ LoadWeightsCut(model)
  BY <1>6, LoadKeeps
<1>7. CASE UNCHANGED vars
  BY <1>7 DEF vars, chosen, compiled, banks, Inv, Counts, Remembers, Sound, Designed, Current,
              Banked, LoadedAllOrNothing, BuiltHere, InFiles, Deployed, Dir
<1> QED
  BY <1>1, <1>2, <1>3, <1>4, <1>5, <1>6, <1>7 DEF Next

LEMMA Invariant == Spec => []Inv
  BY InitKeeps, NextKeeps, PTL DEF Spec

-----------------------------------------------------------------------------

\* A design that _require_compiled lets pass was compiled from the layers as they
\* are set, whatever was set, compiled and raised before; only a quantize that
\* raised half way is not seen (api.py _changed).
THEOREM ApiCurrentLayers == Spec => []CurrentLayers
<1>1. Inv => CurrentLayers
  BY DEF Inv, Current, CurrentLayers, Ready
<1> QED
  BY <1>1, Invariant, PTL

\* Whether words are lost, as the CRC tells, or the commit is, load_weights leaves
\* predict with the model of the bank in force (reload.py write_bank, api.py
\* load_weights).
THEOREM ApiLoadedAllOrNothing == Spec => []LoadedAllOrNothing
<1>1. Inv => LoadedAllOrNothing
  BY DEF Inv, Banked
<1> QED
  BY <1>1, Invariant, PTL

\* While a port is open, the board runs the design the reference model is run for,
\* until a compile that raises has written to its directory (api.py deploy).
THEOREM ApiBoardAnswers == Spec => []BoardAnswersAsReference
<1>1. Inv => BoardAnswersAsReference
  BY DEF Inv, Deployed, BoardAnswersAsReference, BoardAnswersAlways, OnBoard
<1> QED
  BY <1>1, Invariant, PTL

\* What simulate builds is the graph it takes its expected outputs from, under the
\* same condition (api.py simulate, _write_vectors).
THEOREM ApiSimulationAgrees == Spec => []SimulationAgrees
<1>1. Inv => SimulationAgrees
  BY DEF Inv, InFiles, SimulationAgrees, Simulated, Vectors
<1> QED
  BY <1>1, Invariant, PTL

=============================================================================
