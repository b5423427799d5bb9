------------------------------- MODULE MCHosts ------------------------------
(***************************************************************************)
(* The hosts for TLC, one at a time: two programs of a Kria host on the    *)
(* register file of a fixed latency design, write_bank alone on it, and a  *)
(* host with a serial session to a board.  The host that is not chosen,    *)
(* and its hardware, stay as they are when they are switched on.           *)
(***************************************************************************)
EXTENDS KriaHost, SerialSession

VARIABLE attached

(* One reloadable dense layer of one weight with two product stages: its   *)
(* three words are read in three different cycles of an inference.         *)
OneLayer == << [inputs |-> <<0>>, weights |-> 1, channels |-> 1, product |-> 2,
                sum |-> 0, latency |-> 5] >>

(* The images a CRC tells least of: all words of a model are the same.     *)
FlatImages == [model \in Models |-> [a \in Addresses |-> model]]

-----------------------------------------------------------------------------

KriaKeeps   == UNCHANGED vars
SerialKeeps == UNCHANGED sessionVars

HostsInit == /\ attached \in {"kria", "loader", "serial"}
             /\ HostInit /\ SessionInit
             /\ attached = "serial" => target = Compiled

\* Beside kria_run, bound: a call of write_bank loses any words but the first.
KriaSteps ==
  /\ attached = "kria" /\ SerialKeeps
  /\ \E writer, reader \in Masters, lost \in BOOLEAN :
       (lost => at # 0) /\ Tick(writer, reader, lost)

\* Without kria_run, one call after another loses what it may.
LoaderSteps ==
  /\ attached = "loader" /\ SerialKeeps
  /\ \E writer, reader \in {Loader, NoOne}, lost \in BOOLEAN : Tick(writer, reader, lost)

SerialSteps == attached = "serial" /\ SessionNext /\ KriaKeeps

HostsNext == (KriaSteps \/ LoaderSteps \/ SerialSteps) /\ UNCHANGED attached

\* The fairness of each host's own specification, where it is attached.
HostsFairness ==
  /\ WF_vars(KriaSteps)
  /\ \A program \in Programs : SF_vars(attached = "kria" /\ Served(program))
  /\ WF_sessionVars(attached = "serial" /\ BoardClock(FALSE, FALSE, FALSE, FALSE))
  /\ WF_sessionVars(attached = "serial" /\ \E g, a, c \in BOOLEAN : BoardClock(TRUE, g, a, c))
  /\ WF_sessionVars(attached = "serial" /\ \E r, a, c \in BOOLEAN : BoardClock(r, TRUE, a, c))
  /\ WF_sessionVars(attached = "serial" /\ \E r, g, c \in BOOLEAN : BoardClock(r, g, TRUE, c))
  /\ WF_sessionVars(attached = "serial" /\ \E r, g, a \in BOOLEAN : BoardClock(r, g, a, TRUE))
  /\ WF_sessionVars(attached = "serial" /\ Sends)
  /\ WF_sessionVars(attached = "serial" /\ Reads)

HostsSpec == HostsInit /\ [][HostsNext]_<<attached, vars, sessionVars>> /\ HostsFairness

-----------------------------------------------------------------------------

\* Neither Kria program waits for good.
KriaGoesOn == attached = "kria" => BothGoOn

=============================================================================
