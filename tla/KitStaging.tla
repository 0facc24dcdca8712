----------------------------- MODULE KitStaging -----------------------------
(***************************************************************************)
(* The launcher SHADOW_MSM_BOOT.py (k3765_linux_shell.py) on Windows:      *)
(* verifying the kit, staging it to a session directory on the local disk, *)
(* the local console started from there, and its clean-up.  The kit comes  *)
(* from KitBuild and may lie on the modem's virtual CD, which goes away    *)
(* when the modem leaves its normal mode.                                  *)
(*                                                                         *)
(* A run is one start of the program by the user, from the kit or, once    *)
(* Explorer shows it, from the session directory of another run: a         *)
(* launcher process and, after staging, a console process of its own.      *)
(* The user may also give the hidden options --staged --cleanup-runtime by *)
(* hand: then the console runs from the kit, without a launcher.           *)
(***************************************************************************)
EXTENDS KitBuild

CONSTANTS Runs, Kit,
          Relative     (* --log-dir was given a relative path               *)

ASSUME RunsAssumption == Kit \notin Runs /\ Relative \in BOOLEAN

Modes == {"boot", "dry", "install", "byhand"}
Absent == NoSums

VARIABLES
  onCd,       (* the kit lies on the virtual CD                             *)
  modem,      (* "normal" or "raw"                                          *)
  root,       (* KIT_ROOT of a run's first process: Kit or a run            *)
  mode,       (* what the run was started for                               *)
  launcher,   (* "idle", "verify", "payloads", "driver", "copy", "recheck", *)
              (* "spawn", "closing", "exited", "failed", "killed"         *)
  entries,    (* the list that verify_manifest() returned to the launcher   *)
  console,    (* "none", "verify", "payloads", "logs", "switch", "load",    *)
              (* "shell", "cleanup", "gone", "stuck" (rmtree failed),       *)
              (* "refused" (not a session) or "killed"                      *)
  dir,        (* the session directory, Absent before mkdir and after rmtree*)
  dirSums,    (* its SHA256SUMS                                             *)
  loaded,     (* payloads that load_ram_bundle() has read: "none",          *)
              (* "expected" or "other"                                      *)
  logs        (* of the run: "none", "kept" or "deleted"                    *)

disk == <<dir, dirSums>>
how == <<root, mode>>
world == <<onCd, modem>>
stagingVars == <<buildVars, world, how, launcher, entries, console, disk, loaded, logs>>

-----------------------------------------------------------------------------
(* What a process sees under its KIT_ROOT                                   *)

CdGone == onCd /\ modem = "raw"
FilesAt(x) == IF x = Kit THEN (IF CdGone THEN Nothing ELSE kit)
              ELSE (IF dir[x] = Absent THEN Nothing ELSE dir[x])
SumsAt(x) == IF x = Kit THEN (IF CdGone THEN NoSums ELSE sums) ELSE dirSums[x]
(* KIT_ROOT of the console of r                                             *)
Home(r) == IF mode[r] = "byhand" THEN root[r] ELSE r

StagingInit ==
  /\ BuildInit /\ onCd \in BOOLEAN /\ modem = "normal"
  /\ root = [r \in Runs |-> Kit] /\ mode = [r \in Runs |-> "boot"]
  /\ launcher = [r \in Runs |-> "idle"]
  /\ entries = [r \in Runs |-> {}] /\ console = [r \in Runs |-> "none"]
  /\ dir = [r \in Runs |-> Absent] /\ dirSums = [r \in Runs |-> NoSums]
  /\ loaded = [r \in Runs |-> "none"] /\ logs = [r \in Runs |-> "none"]

Building ==
  /\ BuildNext
  /\ UNCHANGED <<world, how, launcher, entries, console, disk, loaded, logs>>

(* The user starts the program; only the kit itself is used by hand.        *)
Start(r, where, what) ==
  /\ launcher[r] = "idle" /\ build \in {"done", "stopped"}
  /\ FilesAt(where) # Nothing /\ (what = "byhand" => where = Kit)
  /\ root' = [root EXCEPT ![r] = where] /\ mode' = [mode EXCEPT ![r] = what]
  /\ launcher' = [launcher EXCEPT ![r] = IF what = "byhand" THEN "exited" ELSE "verify"]
  /\ console' = [console EXCEPT ![r] = IF what = "byhand" THEN "verify" ELSE "none"]
  /\ UNCHANGED <<buildVars, world, entries, disk, loaded, logs>>

-----------------------------------------------------------------------------
(* The launcher: main() without --staged                                    *)

LauncherStep(r, from, to) == launcher[r] = from /\ launcher' = [launcher EXCEPT ![r] = to]

VerifyManifest(r) ==
  /\ IF Verifies(FilesAt(root[r]), SumsAt(root[r]))
     THEN /\ LauncherStep(r, "verify", "payloads")
          /\ entries' = [entries EXCEPT ![r] = Listed(SumsAt(root[r]))]
     ELSE LauncherStep(r, "verify", "failed") /\ UNCHANGED entries
  /\ UNCHANGED <<buildVars, world, how, console, disk, loaded, logs>>

(* Then main() goes by its options; stage_and_relaunch() begins with mkdir.  *)
VerifyPayloads(r) ==
  /\ LauncherStep(r, "payloads",
       IF ~PayloadsRight(FilesAt(root[r])) THEN "failed"
       ELSE IF mode[r] = "install" THEN "driver"
       ELSE IF mode[r] = "dry" THEN "exited" ELSE "copy")
  /\ dir' = IF launcher'[r] = "copy" THEN [dir EXCEPT ![r] = Nothing] ELSE dir
  /\ UNCHANGED <<buildVars, world, how, entries, console, dirSums, loaded, logs>>

(* pnputil reads the package under KIT_ROOT.                                *)
InstallDriver(r) ==
  /\ \/ LauncherStep(r, "driver", "exited") /\ FilesAt(root[r]) # Nothing
     \/ LauncherStep(r, "driver", "failed")
  /\ UNCHANGED <<buildVars, world, how, entries, console, disk, loaded, logs>>

(* copyfile(); what is read may be damaged without the reader noticing.     *)
CopyEntry(r, f) ==
  /\ launcher[r] = "copy" /\ f \in entries[r] /\ dir[r][f] = "none"
  /\ \/ /\ FilesAt(root[r])[f] # "none" /\ UNCHANGED launcher
        /\ \E c \in {FilesAt(root[r])[f], "damaged"} : dir' = [dir EXCEPT ![r][f] = c]
     \/ /\ LauncherStep(r, "copy", "failed")  (* gone, or the disk is full *)
        /\ UNCHANGED dir
  /\ UNCHANGED <<buildVars, world, how, entries, console, dirSums, loaded, logs>>

CopySums(r) ==
  /\ launcher[r] = "copy" /\ \A f \in entries[r] : dir[r][f] # "none"
  /\ \/ /\ SumsAt(root[r]) # NoSums /\ LauncherStep(r, "copy", "recheck")
        /\ dirSums' = [dirSums EXCEPT ![r] = SumsAt(root[r])]
     \/ LauncherStep(r, "copy", "failed") /\ UNCHANGED dirSums
  /\ UNCHANGED <<buildVars, world, how, entries, console, dir, loaded, logs>>

(* Mutant: the copy is taken for what it was copied from.                   *)
RecheckTrusted(r) ==
  /\ LauncherStep(r, "recheck", "spawn")
  /\ UNCHANGED <<buildVars, world, how, entries, console, disk, loaded, logs>>
(* verify_manifest(destination) *)
Recheck(r) ==
  /\ LauncherStep(r, "recheck", IF Verifies(dir[r], dirSums[r]) THEN "spawn" ELSE "failed")
  /\ UNCHANGED <<buildVars, world, how, entries, console, disk, loaded, logs>>

(* Popen() with a console of its own: nobody waits for anybody.             *)
Spawn(r) ==
  /\ LauncherStep(r, "spawn", "closing") /\ console' = [console EXCEPT ![r] = "verify"]
  /\ UNCHANGED <<buildVars, world, how, entries, disk, loaded, logs>>

LauncherExits(r) ==
  /\ LauncherStep(r, "closing", "exited")
  /\ UNCHANGED <<buildVars, world, how, entries, console, disk, loaded, logs>>

LauncherKilled(r) ==
  /\ launcher[r] \in {"verify", "payloads", "copy", "recheck", "spawn", "closing"}
  /\ launcher' = [launcher EXCEPT ![r] = "killed"]
  /\ UNCHANGED <<buildVars, world, how, entries, console, disk, loaded, logs>>

-----------------------------------------------------------------------------
(* The console: entrypoint() and main() with --staged --cleanup-runtime     *)

Active == {"verify", "payloads", "logs", "switch", "load", "shell"}
ConsoleStep(r, from, to) == console[r] = from /\ console' = [console EXCEPT ![r] = to]

ConsoleVerifies(r) ==
  /\ ConsoleStep(r, "verify",
       IF Verifies(FilesAt(Home(r)), SumsAt(Home(r))) THEN "payloads" ELSE "cleanup")
  /\ UNCHANGED <<buildVars, world, how, launcher, entries, disk, loaded, logs>>

(* Mutant: only the manifest counts, which lists whatever was built in.     *)
ConsoleNoPayloads(r) ==
  /\ ConsoleStep(r, "payloads", "logs")
  /\ UNCHANGED <<buildVars, world, how, launcher, entries, disk, loaded, logs>>
ConsolePayloads(r) ==
  /\ ConsoleStep(r, "payloads",
       IF PayloadsRight(FilesAt(Home(r))) THEN "logs" ELSE "cleanup")
  /\ UNCHANGED <<buildVars, world, how, launcher, entries, disk, loaded, logs>>

(* A relative --log-dir is taken from the session directory, the cwd.       *)
MakeLogs(r) ==
  /\ ConsoleStep(r, "logs", "switch") /\ logs' = [logs EXCEPT ![r] = "kept"]
  /\ UNCHANGED <<buildVars, world, how, launcher, entries, disk, loaded>>

(* The first access to the device.                                          *)
Switch(r) ==
  /\ ConsoleStep(r, "switch", "load") /\ modem' = "raw"
  /\ UNCHANGED <<buildVars, onCd, how, launcher, entries, disk, loaded, logs>>

(* load_ram_bundle() reads the four payloads again.                         *)
Load(r) ==
  /\ IF \A f \in Payload : FilesAt(Home(r))[f] # "none"
     THEN /\ ConsoleStep(r, "load", "shell")
          /\ loaded' = [loaded EXCEPT ![r] =
                IF PayloadsRight(FilesAt(Home(r))) THEN "expected" ELSE "other"]
     ELSE ConsoleStep(r, "load", "cleanup") /\ UNCHANGED loaded
  /\ UNCHANGED <<buildVars, world, how, launcher, entries, disk, logs>>

(* The session is over, or an exception was reported.                       *)
ConsoleEnds(r) ==
  /\ console[r] \in Active /\ console' = [console EXCEPT ![r] = "cleanup"]
  /\ UNCHANGED <<buildVars, world, how, launcher, entries, disk, loaded, logs>>

ConsoleKilled(r) ==
  /\ console[r] \in Active \union {"cleanup"} /\ console' = [console EXCEPT ![r] = "killed"]
  /\ UNCHANGED <<buildVars, world, how, launcher, entries, disk, loaded, logs>>

LogsLost(r) == logs' = [logs EXCEPT ![r] = IF Relative /\ @ = "kept" THEN "deleted" ELSE @]

RemoveTree(r) ==
  \/ /\ ConsoleStep(r, "cleanup", "gone") /\ LogsLost(r)
     /\ dir' = [dir EXCEPT ![r] = Absent] /\ dirSums' = [dirSums EXCEPT ![r] = NoSums]
  \/ /\ ConsoleStep(r, "cleanup", "stuck") (* a file or the directory is in use *)
     /\ \E lost \in {Files} \union {{f} : f \in Files} :
          dir' = [dir EXCEPT ![r] = [f \in Files |-> IF f \in lost THEN "none" ELSE @[f]]]
     /\ \E s \in {NoSums, dirSums[r]} : dirSums' = [dirSums EXCEPT ![r] = s]
     /\ (LogsLost(r) \/ UNCHANGED logs)

(* Mutant: the directory stays when no session came about.                  *)
CleanupAfterSession(r) ==
  /\ IF Home(r) = r /\ loaded[r] # "none" THEN RemoveTree(r)
     ELSE ConsoleStep(r, "cleanup", "refused") /\ UNCHANGED <<disk, logs>>
  /\ UNCHANGED <<buildVars, world, how, launcher, entries, loaded>>
(* cleanup_runtime_directory(): only a child of runtime_root().             *)
Cleanup(r) ==
  /\ IF Home(r) = r THEN RemoveTree(r)
     ELSE ConsoleStep(r, "cleanup", "refused") /\ UNCHANGED <<disk, logs>>
  /\ UNCHANGED <<buildVars, world, how, launcher, entries, loaded>>

(* The user: back to stock firmware.                                        *)
PowerCycle ==
  /\ modem = "raw" /\ modem' = "normal"
  /\ UNCHANGED <<buildVars, onCd, how, launcher, entries, console, disk, loaded, logs>>

-----------------------------------------------------------------------------
LauncherNext(r) ==
  \/ VerifyManifest(r) \/ VerifyPayloads(r) \/ InstallDriver(r)
  \/ (\E f \in Files : CopyEntry(r, f)) \/ CopySums(r) \/ Recheck(r) \/ Spawn(r)
  \/ LauncherExits(r)
ConsoleNext(r) ==
  \/ ConsoleVerifies(r) \/ ConsolePayloads(r) \/ MakeLogs(r) \/ Switch(r) \/ Load(r)
  \/ ConsoleEnds(r) \/ Cleanup(r)

StagingNext ==
  \/ Building \/ PowerCycle
  \/ \E r \in Runs :
       \/ \E where \in {Kit} \union Runs, what \in Modes : Start(r, where, what)
       \/ LauncherNext(r) \/ ConsoleNext(r) \/ LauncherKilled(r) \/ ConsoleKilled(r)

StagingSpec == StagingInit /\ [][StagingNext]_stagingVars

-----------------------------------------------------------------------------
StagingTypeOK ==
  /\ BuildTypeOK /\ onCd \in BOOLEAN /\ modem \in {"normal", "raw"}
  /\ root \in [Runs -> {Kit} \union Runs] /\ mode \in [Runs -> Modes]
  /\ entries \in [Runs -> SUBSET Files]
  /\ launcher \in [Runs -> {"idle", "verify", "payloads", "driver", "copy", "recheck",
                            "spawn", "closing", "exited", "failed", "killed"}]
  /\ console \in [Runs -> Active \union
                            {"none", "cleanup", "gone", "stuck", "refused", "killed"}]
  /\ dir \in [Runs -> Sums] /\ dirSums \in [Runs -> Sums]
  /\ loaded \in [Runs -> {"none", "expected", "other"}]
  /\ logs \in [Runs -> {"none", "kept", "deleted"}]

(* What is uploaded to the modem are the payloads whose hashes the program  *)
(* carries, although sources may be replaced under the builder, copies are  *)
(* damaged and the kit is read again for every step.                        *)
PayloadsExpected == \A r \in Runs : loaded[r] # "other"

(* From its first verification to its clean-up a staged console has the     *)
(* whole verified kit on the local disk, whatever happens to the CD and to  *)
(* the other runs: stage_and_relaunch() never starts it on less, and nobody *)
(* else's cleanup_runtime_directory() takes it away.                        *)
SessionComplete == \A r \in Runs :
  (console[r] \in Active /\ Home(r) = r) =>
    Verifies(dir[r], dirSums[r]) /\ Listed(dirSums[r]) = entries[r]

(* A session directory is left over only after an attempt to remove it that *)
(* failed, a kill, or a launcher that failed before it had a console.       *)
LeftoverExplained == \A r \in Runs :
  dir[r] # Absent =>
    \/ launcher[r] \in {"copy", "recheck", "spawn", "failed", "killed"}
    \/ console[r] \in Active \union {"cleanup", "stuck", "killed"}

(* What is uploaded to the modem are the payloads whose hashes the program  *)
(* carries, although sources may be replaced under the builder, copies are  *)
(* damaged and the kit is read again for every step; and a directory that   *)
(* the builder left half built does not verify.                             *)
KitInv == StagingTypeOK /\ PayloadsExpected /\ HalfBuiltRefused

(* LINUX_SHELL_ISO_README.md:42: "The virtual-CD launcher exits before the  *)
(* modem changes USB personalities."                                        *)
LauncherExitsFirst == \A r \in Runs :
  console[r] = "load" => launcher[r] \in {"exited", "killed"}

(* LINUX_SHELL_ISO_README.md:74: "it deletes only its own staged session    *)
(* directory. Logs remain".                                                 *)
LogsRemain == \A r \in Runs : logs[r] # "deleted"
=============================================================================
