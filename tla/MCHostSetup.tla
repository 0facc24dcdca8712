---------------------------- MODULE MCHostSetup -----------------------------
(* What the host does before and around a session, one part per behaviour.  *)
(*   "kit": the kit, its staging and clean-up (KitStaging) with a payload   *)
(*     and a file that only the manifest knows, and two runs, so that one   *)
(*     can work in the session directory of the other; nothing tells the    *)
(*     runs apart, hence the symmetry.                                      *)
(*   "ports": the choice of the COM port (DownloaderSwitch) with two        *)
(*     modems, so that a port of the other one can be taken for the one     *)
(*     that is switched, and one power cycle while the host waits.          *)
(*   "frames": read_frame() (HdlcStream) on four frames, so that two are    *)
(*     lost between others; their payloads have the flag and the escape,    *)
(*     and one is a single byte as a reply of the boot ROM is.              *)
EXTENDS KitStaging, DownloaderSwitch, HdlcStream

CONSTANTS Alphabet, MaxLen

VARIABLE part

FourPayloads == <<<<2>>, <<126, 14>>, <<125, 94>>, <<65, 65, 125>>>>

-----------------------------------------------------------------------------
(* The framing itself, over every payload of one to MaxLen bytes of an      *)
(* alphabet with the flag, the escape, what they are escaped to and others. *)

Samples == UNION {[1..n -> Alphabet] : n \in 1..MaxLen}
Between(frame) == SubSeq(frame, 2, Len(frame) - 1)

(* hdlc_frame() followed by read_frame() gives back the payload, there is   *)
(* no flag inside a frame, and the CRC is that of X.25: over a payload and  *)
(* its check sequence it is 0x0F47, and the switch command's frame is the   *)
(* one in FIRST_2NDTARGET_BOOT.md:18, 7e 3a a1 6e 7e.                       *)
ASSUME RoundTrip ==
  /\ \A payload \in Samples :
       /\ Decode(Between(HdlcFrame(payload))) = payload
       /\ \A i \in DOMAIN Body(payload) : Body(payload)[i] # Flag
       /\ Crc16(payload \o Little(Crc16(payload))) = 3911
  /\ HdlcFrame(<<58>>) = <<126, 58, 161, 110, 126>>

(* A frame with one wrong bit that is still one frame of three bytes or     *)
(* more never passes for a payload, though an escape may have come or gone. *)
ASSUME BitErrorSeen ==
  \A payload \in Samples : LET good == Between(HdlcFrame(payload)) IN
    \A i \in DOMAIN good, k \in 0..7 :
      LET bad == [good EXCEPT ![i] = Flip(@, k)] IN
      (Flag \notin Range(bad) /\ Len(Unescape(bad)) >= 3) =>
        Decode(bad) = Mismatch

-----------------------------------------------------------------------------
MCVars == <<part, stagingVars, switchVars, streamVars>>

(* The parts that are not used stay in an initial state of their own.       *)
NoPorts ==
  /\ personality = [m \in Modems |-> "off"] /\ hs = [m \in Modems |-> FALSE]
  /\ ports = {} /\ cycles = 0 /\ option = "boot" /\ override = {} /\ place = "select"
  /\ late = FALSE /\ picked = {} /\ switched = {} /\ others = {}
MCInit ==
  /\ StreamInit /\ StagingInit
  /\ \/ part = "kit" /\ NoPorts
     \/ part = "ports" /\ onCd = FALSE /\ SwitchInit
     \/ part = "frames" /\ onCd = FALSE /\ NoPorts

InKit(A) == part = "kit" /\ A /\ UNCHANGED <<part, switchVars, streamVars>>
InBuild(A) == InKit(A /\ UNCHANGED <<world, how, launcher, entries, console, disk, loaded, logs>>)
InPorts(A) == part = "ports" /\ A /\ UNCHANGED <<part, stagingVars, streamVars>>
InFrames(A) == part = "frames" /\ A /\ UNCHANGED <<part, stagingVars, switchVars>>

MCNext ==
  \/ InBuild(StartBuild) \/ (\E f \in Files : InBuild(CheckSource(f)))
  \/ InBuild(CopySource) \/ InBuild(CreateSums) \/ InBuild(FillSums) \/ InBuild(BuildDies)
  \/ InKit(PowerCycle)
  \/ \E r \in Runs :
       \/ \E where \in {Kit} \union Runs, what \in Modes : InKit(Start(r, where, what))
       \/ InKit(VerifyManifest(r)) \/ InKit(VerifyPayloads(r)) \/ InKit(InstallDriver(r))
       \/ \E f \in Files : InKit(CopyEntry(r, f))
       \/ InKit(CopySums(r)) \/ InKit(Recheck(r)) \/ InKit(Spawn(r))
       \/ InKit(LauncherExits(r)) \/ InKit(LauncherKilled(r))
       \/ InKit(ConsoleVerifies(r)) \/ InKit(ConsolePayloads(r)) \/ InKit(MakeLogs(r))
       \/ InKit(Switch(r)) \/ InKit(Load(r)) \/ InKit(ConsoleEnds(r))
       \/ InKit(Cleanup(r)) \/ InKit(ConsoleKilled(r))
  \/ InPorts(Attach) \/ InPorts(NoSwitch) \/ InPorts(AlreadyRaw)
  \/ InPorts(SelectDiag) \/ InPorts(SendDload) \/ InPorts(Poll)
  \/ InPorts(Timeout) \/ InPorts(OpenPort) \/ InPorts(Late)
  \/ \E p \in Port : InPorts(Lists(p)) \/ InPorts(Drops(p))
  \/ \E m \in Modems : InPorts(PowerCycled(m))
  \/ InFrames(SendFrame) \/ InFrames(OpeningFlag) \/ InFrames(ClosingFlag)
  \/ InFrames(DataByte) \/ InFrames(Deadline) \/ InFrames(Reset)
MCSpec == MCInit /\ [][MCNext]_MCVars
RunSymmetry == Permutations(Runs)
=============================================================================
