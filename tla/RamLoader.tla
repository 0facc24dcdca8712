------------------------------ MODULE RamLoader ------------------------------
(***************************************************************************)
(* The two older loaders, k3765_ram_bundle_load.py (any images in two RAM  *)
(* windows) and k3765_stage0_load.py (one second stage): what they accept, *)
(* the upload through the PBL with its retries, and the execute command.   *)
(*                                                                         *)
(* An image is an address and a length; its data is its place in the       *)
(* bundle, and ram says whose data each address holds, 0 for none.  Acks   *)
(* carry nothing, so links of acks are numbers.                            *)
(***************************************************************************)
EXTENDS Integers, Sequences, FiniteSetsExt

CONSTANTS DirectStart, DirectEnd,   (* DIRECT_IMAGE_START, DIRECT_IMAGE_END *)
          MonitorBase, MonitorSize, (* MONITOR_BASE, 105928                 *)
          ExtraStart, RamEnd,       (* SAFE_EXTRA_START, SAFE_RAM_END       *)
          MaxChunk,                 (* MAX_CHUNK                            *)
          Attempts,                 (* 3                                    *)
          MaxImages, MaxLength      (* bounds: images given, their length   *)

LoaderAssumption ==
  /\ {DirectStart, DirectEnd, MonitorBase, MonitorSize, ExtraStart, RamEnd} \subseteq Nat
  /\ 0 < DirectStart /\ DirectStart < DirectEnd /\ DirectEnd =< MonitorBase
  /\ 0 < MonitorSize /\ MonitorBase + MonitorSize =< ExtraStart /\ ExtraStart < RamEnd
  /\ {MaxChunk, Attempts} \subseteq Nat \ {0} /\ {MaxImages, MaxLength} \subseteq Nat

VARIABLES
  tool,        (* "bundle" or "stage0"                                       *)
  bundle,      (* the images in their order, the monitor first               *)
  stage,       (* "check", then "send" and "wait" for an ack, "go", an end   *)
  image, written, attempt,
  toTarget,    (* writes on the link: [image, from, to]                      *)
  toHost,      (* acks on the link                                          *)
  inbuf,       (* acks in the host's input buffer                           *)
  ram,
  retries      (* history: "timeout retry" lines                            *)

upload == <<image, written, attempt>>
link == <<toTarget, toHost, inbuf>>
vars == <<tool, bundle, stage, upload, link, ram, retries>>

Image(start, length) == [start |-> start, length |-> length]
End(i) == i.start + i.length
Addresses == 0 .. RamEnd + MaxLength
Given == [start : 0 .. RamEnd, length : 0 .. MaxLength]

(* The images of --image; the monitor file may have the wrong size.         *)
InitBundle ==
  /\ tool = "bundle"
  /\ \E size \in {MonitorSize, MonitorSize - 1}, n \in 1 .. MaxImages :
       \E images \in [1 .. n -> Given] : bundle = <<Image(MonitorBase, size)>> \o images
(* One second stage, at the beginning of its window.                        *)
InitStage0 ==
  /\ tool = "stage0"
  /\ \E size \in {MonitorSize, MonitorSize - 1}, length \in 0 .. RamEnd - ExtraStart + 1 :
       bundle = <<Image(MonitorBase, size), Image(ExtraStart, length)>>
Init ==
  /\ InitBundle \/ InitStage0
  /\ stage = "check" /\ image = 1 /\ written = 0 /\ attempt = 1
  /\ toTarget = <<>> /\ toHost = 0 /\ inbuf = 0
  /\ ram = [a \in Addresses |-> 0] /\ retries = 0

-----------------------------------------------------------------------------
(* What main() lets through *)

MonitorFits == bundle[1].length = MonitorSize

Within(i, start, end) == start =< i.start /\ End(i) =< end
RangeIsAllowed(i) == Within(i, DirectStart, DirectEnd) \/ Within(i, ExtraStart, RamEnd)

(* The order of the addresses, and an image next to another in it.          *)
Before(k, l) ==
  \/ bundle[k].start < bundle[l].start
  \/ bundle[k].start = bundle[l].start /\ End(bundle[k]) < End(bundle[l])
  \/ bundle[k].start = bundle[l].start /\ End(bundle[k]) = End(bundle[l]) /\ k < l
Neighbours(k, l) == Before(k, l) /\ ~\E m \in DOMAIN bundle : Before(k, m) /\ Before(m, l)
(* Mutant: two images overlap only if they start at the same address.       *)
OverlapByStart ==
  \E k, l \in DOMAIN bundle : Neighbours(k, l) /\ bundle[l].start = bundle[k].start
Overlap == \E k, l \in DOMAIN bundle : Neighbours(k, l) /\ bundle[l].start < End(bundle[k])

BundleAccepted ==
  tool = "bundle" /\ (\A k \in 2 .. Len(bundle) : RangeIsAllowed(bundle[k])) /\ ~Overlap
Stage2Accepted == tool = "stage0" /\ ExtraStart + bundle[2].length =< RamEnd

Check ==
  /\ stage = "check"
  /\ stage' = IF MonitorFits /\ (BundleAccepted \/ Stage2Accepted) THEN "send" ELSE "refused"
  /\ UNCHANGED <<tool, bundle, upload, link, ram, retries>>

-----------------------------------------------------------------------------
(* upload() and write_ram() *)

ChunkEnd == Min({written + MaxChunk, bundle[image].length})

(* One attempt: reset_input_buffer(), write(), flush().                     *)
SendChunk ==
  /\ stage = "send" /\ written < bundle[image].length
  /\ toTarget' = Append(toTarget, [image |-> image, from |-> written, to |-> ChunkEnd])
  /\ inbuf' = 0 /\ stage' = "wait"
  /\ UNCHANGED <<tool, bundle, upload, toHost, ram, retries>>

NextImage ==
  /\ stage = "send" /\ written = bundle[image].length
  /\ IF image < Len(bundle) THEN image' = image + 1 /\ written' = 0 /\ UNCHANGED stage
     ELSE stage' = "go" /\ UNCHANGED <<image, written>>
  /\ UNCHANGED <<tool, bundle, attempt, link, ram, retries>>

(* Any ack is this chunk's.  The next write_ram() counts from one again.    *)
Acknowledged ==
  /\ stage = "wait" /\ inbuf > 0 /\ inbuf' = inbuf - 1
  /\ written' = ChunkEnd /\ attempt' = 1 /\ stage' = "send"
  /\ UNCHANGED <<tool, bundle, image, toTarget, toHost, ram, retries>>

(* The deadline, which may cut an ack in two.                               *)
Timeout ==
  /\ stage = "wait" /\ retries' = retries + 1
  /\ IF attempt < Attempts THEN stage' = "send" /\ attempt' = attempt + 1
     ELSE stage' = "failed" /\ UNCHANGED attempt
  /\ UNCHANGED <<tool, bundle, image, written, link, ram>>

(* A rejection, a damaged frame, or the port raises.                        *)
Fail ==
  /\ stage \in {"send", "wait"} /\ stage' = "failed"
  /\ UNCHANGED <<tool, bundle, upload, link, ram, retries>>

(* execute(): whatever the answer, and also when the port goes away.  The   *)
(* PBL takes the command after the writes that are before it on the link.   *)
Execute ==
  /\ stage = "go" /\ toTarget = <<>> /\ stage' = "executed"
  /\ inbuf' = 0
  /\ UNCHANGED <<tool, bundle, upload, toTarget, toHost, ram, retries>>

-----------------------------------------------------------------------------
(* The PBL and the link *)

Stored(w) ==
  LET start == bundle[w.image].start
  IN  [a \in Addresses |-> IF a - start \in w.from .. w.to - 1 THEN w.image ELSE ram[a]]

PblWrite ==
  /\ toTarget # <<>> /\ toTarget' = Tail(toTarget)
  /\ ram' = Stored(Head(toTarget)) /\ toHost' = toHost + 1
  /\ UNCHANGED <<tool, bundle, stage, upload, inbuf, retries>>

LoseWrite ==
  /\ toTarget # <<>> /\ toTarget' = Tail(toTarget)
  /\ UNCHANGED <<tool, bundle, stage, upload, toHost, inbuf, ram, retries>>

Deliver ==
  /\ toHost > 0 /\ toHost' = toHost - 1
  /\ inbuf' \in {inbuf, inbuf + 1}
  /\ UNCHANGED <<tool, bundle, stage, upload, toTarget, ram, retries>>

Next ==
  \/ Check \/ SendChunk \/ NextImage \/ Acknowledged \/ Timeout \/ Fail \/ Execute
  \/ PblWrite \/ LoseWrite \/ Deliver
Spec == Init /\ [][Next]_vars

-----------------------------------------------------------------------------
(* Properties *)

(* Every variable has its type. *)
TypeOK ==
  /\ tool \in {"bundle", "stage0"}
  /\ \A k \in DOMAIN bundle : {bundle[k].start, bundle[k].length} \subseteq Nat
  /\ stage \in {"check", "send", "wait", "go", "executed", "refused", "failed"}
  /\ image \in DOMAIN bundle /\ written \in 0 .. bundle[image].length
  /\ attempt \in 1 .. Attempts
  /\ toHost \in Nat /\ inbuf \in Nat /\ retries \in Nat
  /\ ram \in [Addresses -> 0 .. Len(bundle)]

(* The PBL writes into the resident loader's place, or into one of the two  *)
(* windows, and nothing else is ever changed.                               *)
WindowsKept ==
  \A a \in Addresses : ram[a] # 0 =>
    \/ ram[a] = 1 /\ a \in MonitorBase .. MonitorBase + MonitorSize - 1
    \/ ram[a] > 1 /\ a \in (DirectStart .. DirectEnd - 1) \cup (ExtraStart .. RamEnd - 1)

(* When the monitor is started, each byte of each image is in place, except *)
(* for at most one chunk for each "timeout retry" that was printed: no      *)
(* image lies on another, and without a retry an ack is the chunk's own.    *)
Chunks == UNION {[image : {k}, number : {n \in 0 .. bundle[k].length :
                                           n * MaxChunk < bundle[k].length}] : k \in DOMAIN bundle}
InPlace(c) ==
  LET i == bundle[c.image]
  IN  \A offset \in c.number * MaxChunk .. Min({(c.number + 1) * MaxChunk, i.length}) - 1 :
        ram[i.start + offset] = c.image
BundleLoaded ==
  stage = "executed" => Cardinality({c \in Chunks : ~InPlace(c)}) =< retries
=============================================================================
