--------------------------- MODULE MCHostConsole ---------------------------
(* The two programs that show the Linux console, one of them per behaviour: *)
(* the kit's follow_linux() (HostConsole) and that of the stage-0 console   *)
(* (LinuxFollow).  What both keep, they keep in the same variables.         *)
(* Two lines, so that the second can be sent too early; two typed chunks or *)
(* keys, so that one can overtake the other or Ctrl+]; two prompts or       *)
(* frames on their way, so that one may be stale; for LinuxFollow a line,   *)
(* two ticks of idle time and three of runtime.                             *)
EXTENDS HostConsole

CONSTANTS KeptLines, Idle, Runtime, MaxFrames

VARIABLES program, interactive, idleOn, inMode, outMode, idleLeft, runLeft,
          silence, lines, frames, target

Kept == INSTANCE LinuxFollow WITH Script <- KeptLines

ASSUME KeptAssumption == Kept!FollowAssumption

onlyKit == <<expired, scripted, sent, input, prompts, shell, stolen>>
onlyKept == <<interactive, idleOn, inMode, outMode, idleLeft, runLeft, silence,
              lines, frames, target>>

MCInit ==
  \/ /\ program = "kit" /\ Init
     /\ interactive = FALSE /\ idleOn = FALSE /\ inMode = "cooked" /\ outMode = "plain"
     /\ idleLeft = 0 /\ runLeft = 0 /\ silence = 0 /\ lines = 0 /\ frames = <<>>
     /\ target = "linux"
  \/ /\ program = "stage0" /\ Kept!Init
     /\ expired = FALSE /\ scripted = 0 /\ sent = 0 /\ input = <<>> /\ prompts = 0
     /\ shell = "boot" /\ stolen = {}
Shell(A) == program = "kit" /\ A /\ UNCHANGED <<program, onlyKept>>
Stage0(A) == program = "stage0" /\ A /\ UNCHANGED <<program, onlyKit>>
MCNext ==
  \/ Shell(SendLine) \/ Shell(SendLive) \/ Shell(SendNothing) \/ Shell(CheckClock)
  \/ Shell(ReadPrompt) \/ Shell(ReadNothing) \/ Shell(LosePrompt) \/ Shell(Broken)
  \/ Shell(Interrupt) \/ Shell(Expire) \/ Shell(Type) \/ Shell(TypeDetach)
  \/ Shell(Boot) \/ Shell(ShellRead) \/ Shell(ProgramRead) \/ Shell(ProgramExit)
  \/ Stage0(Kept!EnterTerminal) \/ Stage0(Kept!SendLine) \/ Stage0(Kept!SendLive)
  \/ Stage0(Kept!SendNothing) \/ Stage0(Kept!CheckClock) \/ Stage0(Kept!ReadFrame)
  \/ Stage0(Kept!ReadNothing) \/ Stage0(Kept!Break) \/ Stage0(Kept!Tick)
  \/ Stage0(Kept!Type) \/ Stage0(Kept!TargetStep)
MCVars == <<program, vars, onlyKept>>
MCSpec ==
  /\ MCInit /\ [][MCNext]_MCVars
  /\ WF_MCVars(Shell(Host)) /\ WF_MCVars(Shell(Expire)) /\ WF_MCVars(Shell(Boot))
  /\ WF_MCVars(Stage0(Kept!Loop)) /\ WF_MCVars(Stage0(Kept!Tick))

(* The kit's loop is paced by the prompt (no line of --command is read by a *)
(* program that an earlier one started) and a detach comes after all that   *)
(* was given and typed before it.                                           *)
ConsoleInv == program = "kit" => TypeOK /\ ScriptPaced /\ DetachLast

(* However "linux" or "attach" ends, the user's terminal has its modes back *)
(* (raw_console_input()), and "No new target frame for N seconds" is said   *)
(* only when that is so, and never to an interactive user.                  *)
FollowInv == program = "stage0" => Kept!TypeOK /\ Kept!TerminalRestored /\ Kept!IdleTrue

(* Once a prompt was seen and the lines of --command are gone, what is      *)
(* typed is sent without another prompt, unless the session ends first.     *)
TypedSent == program = "kit" => TypedIsSent
=============================================================================
