-------------------------- MODULE DownloaderSwitch --------------------------
(***************************************************************************)
(* Which COM port the host talks to: the part of main() in                 *)
(* k3765_linux_shell.py between the verified kit and the upload, with      *)
(* switch_to_downloader(), wait_for_downloader() and the select functions. *)
(*                                                                         *)
(* A modem shows a diagnostic and a modem port under PID 2002 in normal    *)
(* mode, and one port under PID 0016 from the downloader on: the boot ROM, *)
(* the stage-0 monitor and Linux all look the same.  Windows lists a port  *)
(* some time after it is there and drops it some time after it has gone,   *)
(* and lists a downloader port only once a driver is bound to it.          *)
(***************************************************************************)
EXTENDS Naturals, FiniteSets

CONSTANTS Modems,
          MaxCycles    (* bound: power cycles                               *)

ASSUME ModemsAssumption == IsFiniteSet(Modems) /\ MaxCycles \in Nat

VARIABLES
  personality, (* of a modem: "normal", "raw", "stage0", "linux" or "off"   *)
  hs,         (* "hs-usb" is in the description of its downloader port      *)
  ports,      (* what list_ports.comports() returns                         *)
  cycles,
  option,     (* "boot", "no_switch" or "attach"                            *)
  override,   (* the port given with --diag-port or --downloader-port       *)
  place,      (* of the run: "select", "open", "send", "wait", "upload",    *)
              (* "console", "done" or "failed"                              *)
  late,       (* --driver-wait is over                                      *)
  picked,     (* the port chosen last, as a set of at most one              *)
  switched,   (* modems that were sent 0x3A                                 *)
  others      (* history: further modems under PID 0016 at that time        *)

windows == <<personality, hs, ports, cycles>>
asked == <<option, override>>
run == <<asked, place, picked, switched, others>>
switchVars == <<windows, run, late>>

Port == [modem : Modems, face : {"diag", "modem", "download"}]
Faces(m) == CASE personality[m] = "normal" -> {"diag", "modem"}
              [] personality[m] \in {"raw", "stage0", "linux"} -> {"download"}
              [] personality[m] = "off" -> {}
Present(p) == p.face \in Faces(p.modem)

-----------------------------------------------------------------------------
(* The select functions; a result is a set of at most one port              *)

OnlyOne(P) == IF Cardinality(P) = 1 THEN P ELSE {}
Given(face) == {p \in override : p.face = face}
(* Mutant: the product ID is not compared.                                  *)
VendorPorts == ports
DownloaderPorts == {p \in ports : p.face = "download"}
Named(P) == {p \in P : hs[p.modem]}

SelectNormalDiag == IF Given("diag") # {} THEN Given("diag")
                    ELSE OnlyOne({p \in ports : p.face = "diag"})
SelectDownloader == IF Given("download") # {} THEN Given("download")
                    ELSE IF OnlyOne(DownloaderPorts) # {} THEN DownloaderPorts
                    ELSE OnlyOne(Named(DownloaderPorts))
SelectObviousDownloader == IF Given("download") # {} THEN Given("download")
                           ELSE OnlyOne(Named(DownloaderPorts))

-----------------------------------------------------------------------------
SwitchInit ==
  /\ personality \in [Modems -> {"normal", "raw", "stage0", "linux", "off"}]
  /\ hs \in [Modems -> BOOLEAN] /\ cycles = 0
  /\ ports \in SUBSET {p \in Port : Present(p)}
  /\ option \in {"boot", "no_switch", "attach"} /\ place = "select"
  /\ override \in {{}} \union {{p} : p \in Port} /\ late = FALSE
  /\ picked = {} /\ switched = {} /\ others = {}

In(s) == place = s
Goto(s) == place' = s

Attach ==
  /\ In("select") /\ option = "attach" /\ picked' = SelectDownloader
  /\ Goto(IF picked' = {} THEN "failed" ELSE "console")
  /\ UNCHANGED <<windows, late, asked, switched, others>>

NoSwitch ==
  /\ In("select") /\ option = "no_switch" /\ Goto("wait")
  /\ UNCHANGED <<windows, late, asked, picked, switched, others>>

AlreadyRaw ==
  /\ In("select") /\ option = "boot" /\ SelectObviousDownloader # {}
  /\ picked' = SelectObviousDownloader /\ Goto("upload")
  /\ UNCHANGED <<windows, late, asked, switched, others>>

SelectDiag ==
  /\ In("select") /\ option = "boot" /\ SelectObviousDownloader = {}
  /\ picked' = SelectNormalDiag /\ Goto(IF picked' = {} THEN "failed" ELSE "open")
  /\ UNCHANGED <<windows, late, asked, switched, others>>

(* Serial() and the write; an error of either is taken for the modem's      *)
(* disconnection, and the port may have gone since it was listed.           *)
SendDload ==
  /\ In("open") /\ Goto("wait")
  /\ \/ \E p \in picked :
          /\ Present(p) /\ personality' = [personality EXCEPT ![p.modem] = "raw"]
          /\ switched' = {p.modem} /\ others' = {m \in Modems \ {p.modem} : "download" \in Faces(m)}
     \/ UNCHANGED <<personality, switched, others>>
  /\ UNCHANGED <<hs, ports, cycles, late, asked, picked>>

(* One turn of wait_for_downloader().                                       *)
Poll ==
  /\ In("wait") /\ ~late
  /\ IF SelectDownloader = {} THEN UNCHANGED <<place, picked>>
     ELSE picked' = SelectDownloader /\ Goto("upload")
  /\ UNCHANGED <<windows, late, asked, switched, others>>

Timeout ==
  /\ In("wait") /\ late /\ Goto("failed")
  /\ UNCHANGED <<windows, late, asked, picked, switched, others>>

(* load_ram_bundle() or run_linux_console() opens the port.                 *)
OpenPort ==
  /\ place \in {"upload", "console"}
  /\ Goto(IF \E p \in picked : Present(p) THEN "done" ELSE "failed")
  /\ UNCHANGED <<windows, late, asked, picked, switched, others>>

-----------------------------------------------------------------------------
(* Windows and the user                                                     *)

Lists(p) == /\ p \notin ports /\ Present(p) /\ ports' = ports \union {p}
            /\ UNCHANGED <<personality, hs, cycles, run, late>>
Drops(p) == /\ p \in ports /\ ~Present(p) /\ ports' = ports \ {p}
            /\ UNCHANGED <<personality, hs, cycles, run, late>>

PowerCycled(m) ==
  /\ cycles < MaxCycles /\ cycles' = cycles + 1
  /\ \E s \in {"normal", "off"} : personality' = [personality EXCEPT ![m] = s]
  /\ UNCHANGED <<hs, ports, run, late>>

Late == /\ In("wait") /\ ~late /\ late' = TRUE /\ UNCHANGED <<windows, run>>

Run == Attach \/ NoSwitch \/ AlreadyRaw \/ SelectDiag \/ SendDload \/ Poll
       \/ Timeout \/ OpenPort
SwitchNext == Run \/ Late \/ (\E p \in Port : Lists(p) \/ Drops(p))
              \/ \E m \in Modems : PowerCycled(m)

SwitchSpec == SwitchInit /\ [][SwitchNext]_switchVars

-----------------------------------------------------------------------------
SwitchTypeOK ==
  /\ personality \in [Modems -> {"normal", "raw", "stage0", "linux", "off"}]
  /\ hs \in [Modems -> BOOLEAN] /\ ports \in SUBSET Port /\ cycles \in 0..MaxCycles
  /\ option \in {"boot", "no_switch", "attach"} /\ override \in SUBSET Port
  /\ late \in BOOLEAN
  /\ place \in {"select", "open", "wait", "upload", "console", "done", "failed"}
  /\ picked \in SUBSET Port /\ Cardinality(picked) <= 1
  /\ switched \in SUBSET Modems /\ others \in SUBSET Modems

(* A run that switched a modem while no other one was under PID 0016 opens  *)
(* that modem for its upload, and finds the boot ROM there: neither a port  *)
(* left over from before nor a modem that runs something is taken for it.   *)
(* (switch_to_downloader() tells wait_for_downloader() nothing.)            *)
UploadsToSwitched ==
  [][(In("upload") /\ place' = "done" /\ switched # {} /\ others = {}) =>
       \A p \in picked : p.modem \in switched /\ personality[p.modem] = "raw"]_switchVars

(* select_obvious_downloader(), k3765_linux_shell.py:203: "Return a port    *)
(* only when it is explicitly selected or clearly raw."                     *)
ClearlyRaw ==
  [][AlreadyRaw /\ override = {} =>
       \A p \in picked' : personality[p.modem] \notin {"stage0", "linux"}]_switchVars
=============================================================================
