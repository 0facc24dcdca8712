------------------------------ MODULE MCStage0 ------------------------------
(* Stage-0's two ends and its older loaders, one of them per behaviour.     *)
(* The monitor (Stage0Monitor): three-bit registers, a window of three      *)
(* bytes, instructions of two bytes; every packet, with sums below, at and  *)
(* beyond the window's end and 2^3.  The tool (Stage0Console) on the same   *)
(* window: files of one to three bytes, two runs; three frames on a link    *)
(* are more than two runs and a diagnostic leave there.  The loaders        *)
(* (RamLoader): windows of two bytes around a monitor of one, two images of *)
(* at most two chunks anywhere.                                             *)
EXTENDS Stage0Monitor, Sequences

CONSTANTS Byte, Queries, MaxRuns, MaxLink,
          DirectStart, DirectEnd, MonitorBase, MonitorSize, ExtraStart, RamEnd,
          MaxChunk, Attempts, MaxImages, MaxLength

VARIABLES end, runs, job, at, step, outcome, toTarget, toHost, inbuf, target,
          ram, gaveUp, foreign,
          loader, bundle, stage, image, written, attempt, writes, acks, input, held, retries

Files == {<<0>>, <<0, 0>>, <<1, 0, 0>>}
Tool == INSTANCE Stage0Console
Loader == INSTANCE RamLoader WITH
  tool <- loader, toTarget <- writes, toHost <- acks, inbuf <- input, ram <- held

ASSUME ToolAssumption == Tool!ConsoleAssumption
ASSUME LoadersAssumption == Loader!LoaderAssumption

toolVars == <<runs, job, at, step, outcome, toTarget, toHost, inbuf, target, ram,
              gaveUp, foreign>>
loaderVars == <<loader, bundle, stage, image, written, attempt, writes, acks, input, held,
                retries>>
MCVars == <<end, vars, toolVars, loaderVars>>

MonitorStill == first = 0 /\ second = 0
ToolStill == ram = [a \in Window |-> 0]
LoaderStill ==
  /\ loader = "stage0" /\ bundle = <<>> /\ stage = "refused"
  /\ image = 1 /\ written = 0 /\ attempt = 1 /\ writes = <<>> /\ acks = 0 /\ input = 0
  /\ held = <<>> /\ retries = 0
MCInit ==
  /\ Init /\ Tool!Init
  /\ \/ end = "monitor" /\ ToolStill /\ LoaderStill
     \/ end = "tool" /\ MonitorStill /\ LoaderStill
     \/ end = "loader" /\ MonitorStill /\ ToolStill /\ Loader!Init
Monitor(A) == end = "monitor" /\ A /\ UNCHANGED <<end, toolVars, loaderVars>>
Runs(A) == end = "tool" /\ A /\ UNCHANGED <<end, vars, loaderVars>>
Loads(A) == end = "loader" /\ A /\ UNCHANGED <<end, vars, toolVars>>
MCNext ==
  \/ Monitor(Dispatch) \/ Monitor(CrcByte) \/ Monitor(CrcDone) \/ Monitor(Stage2Returns)
  \/ Runs(Tool!StartInfo) \/ Runs(Tool!StartCrc) \/ Runs(Tool!StartCall)
  \/ Runs(Tool!StartVerify) \/ Runs(Tool!Refuse) \/ Runs(Tool!Send) \/ Runs(Tool!Take)
  \/ Runs(Tool!Ignore) \/ Runs(Tool!Timeout) \/ Runs(Tool!Break) \/ Runs(Tool!Serve)
  \/ Runs(Tool!Stage2Returns) \/ Runs(Tool!Diagnostic) \/ Runs(Tool!Deliver)
  \/ Loads(Loader!Check) \/ Loads(Loader!SendChunk) \/ Loads(Loader!NextImage)
  \/ Loads(Loader!Acknowledged) \/ Loads(Loader!Timeout) \/ Loads(Loader!Fail)
  \/ Loads(Loader!Execute) \/ Loads(Loader!PblWrite) \/ Loads(Loader!LoseWrite)
  \/ Loads(Loader!Deliver)
MCSpec == MCInit /\ [][MCNext]_MCVars

(* The tool's runs are answered by the monitor, which never refuses what    *)
(* the tool lets through, and, as long as no run has given up a command     *)
(* (command()), every answer taken is that of the command asked.            *)
ToolInv == Tool!TypeOK /\ Tool!NeverRefused /\ Tool!OwnAnswers

(* The loaders change nothing outside the monitor's place and the two       *)
(* windows, and start the monitor with each image in place, but for a chunk *)
(* for each "timeout retry" (k3765_ram_bundle_load.py, k3765_stage0_load.py). *)
LoaderInv == end = "loader" => Loader!TypeOK /\ Loader!WindowsKept /\ Loader!BundleLoaded

(* If no run has given up a command, "PASS" means that every byte of the    *)
(* file is in RAM at its address (verify_file()).                           *)
PassSound == Tool!PassSound

(* What "PASS: every chunk matched" says (k3765_stage0_console.py:282).     *)
PassTrue == Tool!PassTrue
=============================================================================
