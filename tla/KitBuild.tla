------------------------------ MODULE KitBuild ------------------------------
(***************************************************************************)
(* build_linux_shell_iso_kit.py: assembling the offline kit, and what its  *)
(* SHA256SUMS says to whoever verifies it.                                 *)
(*                                                                         *)
(* A file's data is one of a few contents; two files have the same SHA-256 *)
(* exactly when they have the same content.  The order in which files are  *)
(* copied does not matter, only that SHA256SUMS comes last, so the model   *)
(* takes them in any order.  A file that the builder writes itself (the    *)
(* .cmd files, BUILD_INFO, the driver's README) is a plain file with a     *)
(* source that is always there.                                            *)
(***************************************************************************)
EXTENDS Naturals, FiniteSets

CONSTANTS Payload,    (* pinned by the builder and again by the launcher    *)
          Pinned,     (* pinned by the builder alone                        *)
          Plain       (* copied, or written, without an expected hash       *)

ASSUME KitAssumption ==
  /\ Payload # {} /\ Payload \intersect (Pinned \union Plain) = {}
  /\ Pinned \intersect Plain = {} /\ "none" \notin Payload \union Pinned \union Plain

Files == Payload \union Pinned \union Plain
Found == {"none", "right", "other"}
Contents == Found \union {"damaged"}
Nothing == [f \in Files |-> "none"]
NoSums == [f \in {} |-> "none"]
Sums == {NoSums} \union [Files -> Contents]

VARIABLES
  kit,      (* the output directory, without ...                            *)
  sums,     (* ... SHA256SUMS                                               *)
  build,    (* "idle", "check", "copy", "sums", "done" or "stopped"         *)
  copying   (* the file that checked_copy() has checked, or "none"          *)

buildVars == <<kit, sums, build, copying>>

-----------------------------------------------------------------------------
(* What both programs make of a directory                                   *)

Listed(s) == {f \in DOMAIN s : s[f] # "none"}
(* verify_manifest() *)
Verifies(d, s) == /\ s # NoSums /\ Listed(s) # {}
                  /\ \A f \in Listed(s) : d[f] = s[f]
PayloadsRight(d) == \A f \in Payload : d[f] = "right"

-----------------------------------------------------------------------------
BuildInit == kit = Nothing /\ sums = NoSums /\ build = "idle" /\ copying = "none"

(* output.exists(): every later run is refused and changes nothing.         *)
StartBuild == build = "idle" /\ build' = "check" /\ UNCHANGED <<kit, sums, copying>>

Accepted(f, c) == IF f \in Payload \union Pinned THEN c = "right" ELSE c # "none"

(* checked_copy() hashes the source, whatever it is at the time ...         *)
CheckSource(f) ==
  /\ build = "check" /\ kit[f] = "none"
  /\ \E c \in Found :
       \/ Accepted(f, c) /\ build' = "copy" /\ copying' = f
       \/ ~Accepted(f, c) /\ build' = "stopped" /\ UNCHANGED copying
  /\ UNCHANGED <<kit, sums>>

(* ... and copy2() reads it again: it may have been replaced since.         *)
CopySource ==
  /\ build = "copy" /\ copying' = "none"
  /\ \E c \in Found : /\ kit' = [kit EXCEPT ![copying] = c]
                      /\ build' = IF c = "none" THEN "stopped" ELSE "check"
  /\ UNCHANGED sums

ReadyToSum == \A f \in Files : kit[f] # "none"
(* write_text() creates the file ...                                        *)
CreateSums ==
  /\ build = "check" /\ ReadyToSum
  /\ build' = "sums" /\ sums' = Nothing
  /\ UNCHANGED <<kit, copying>>
(* ... before it fills it, in one write.                                    *)
FillSums ==
  /\ build = "sums" /\ build' = "done" /\ sums' = kit
  /\ UNCHANGED <<kit, copying>>

(* The builder dies, in a copy with a part of the file written.             *)
BuildDies ==
  /\ build \in {"check", "copy", "sums"} /\ build' = "stopped" /\ copying' = "none"
  /\ kit' = IF build = "copy" THEN [kit EXCEPT ![copying] = "damaged"] ELSE kit
  /\ UNCHANGED sums

BuildNext ==
  \/ StartBuild \/ CopySource \/ CreateSums \/ FillSums \/ BuildDies
  \/ \E f \in Files : CheckSource(f)

BuildSpec == BuildInit /\ [][BuildNext]_buildVars

BuildTypeOK ==
  /\ kit \in [Files -> Contents] /\ sums \in Sums /\ copying \in Files \union {"none"}
  /\ build \in {"idle", "check", "copy", "sums", "done", "stopped"}

(* A directory that the builder left half built does not verify: whatever   *)
(* passes verify_manifest() has every file, and was finished.  (main() of   *)
(* the builder against verify_manifest() of the launcher.)                  *)
HalfBuiltRefused == Verifies(kit, sums) => build = "done" /\ Listed(sums) = Files
=============================================================================
