---------------------------- MODULE HostConsole ----------------------------
(***************************************************************************)
(* The host's Linux console: follow_linux() of k3765_linux_shell.py, its   *)
(* reader thread, and the shell at the other end.                          *)
(*                                                                         *)
(* The loop sends at most one piece of input, looks at the clock, and      *)
(* reads one frame for at most 0.1 s.  Lines of --command wait for the     *)
(* shell's prompt; what the user types is queued by a thread and goes out  *)
(* once those lines are gone.  Ctrl+] comes through the same queue.        *)
(*                                                                         *)
(* A frame without the prompt changes nothing in the loop, so output is    *)
(* the number of prompts on their way; no program prints the prompt.       *)
(* Input reaches the shell in order (what the mailbox may drop is the      *)
(* business of TtyConsole).                                                *)
(***************************************************************************)
EXTENDS Integers, Sequences, SequencesExt

CONSTANTS Script,     (* lines given with --command                          *)
          MaxTyped,   (* bound: chunks the user types                        *)
          MaxPrompts  (* bound: prompts on their way                         *)

ASSUME HostAssumption == Script \in Nat /\ MaxTyped \in Nat /\ MaxPrompts \in Nat \ {0}

VARIABLES
  attach,        (* --attach: issue_boot_request is false                    *)
  raw,           (* raw_keys: the terminal is in per-key mode                *)
  limited,       (* max_runtime > 0                                          *)
  step,          (* of the loop: "send", "clock", "read"                     *)
  over,          (* why follow_linux() ended, "no" before                    *)
  expired,       (* monotonic() has reached absolute_deadline                *)
  terminalReady, scriptedReady,
  scripted,      (* lines sent; the rest are pending_lines                   *)
  live,          (* live_chunks: chunk numbers, Detach last                  *)
  typed,         (* history: chunks the reader has put                       *)
  sent,          (* history: chunks sent                                     *)
  input,         (* lines and chunks between host and program, oldest first  *)
  prompts,       (* prompts between shell and host                           *)
  shell,         (* "boot", "waiting" at its prompt or "running" a program   *)
  stolen         (* history: lines that a running program read               *)

options == <<attach, raw, limited>>
loop == <<step, over, terminalReady, scriptedReady, scripted, sent>>
remote == <<shell, stolen>>
vars == <<options, loop, expired, live, typed, input, prompts, remote>>

Detach == 0
Line(k) == [from |-> "script", number |-> k]
Chunk(k) == [from |-> "user", number |-> k]

-----------------------------------------------------------------------------
(* The loop *)

At(s) == over = "no" /\ step = s

(* get_nowait() is asked only when no line is pending.                      *)
LiveTurn == scripted = Script /\ live # <<>>
ScriptTurn == scripted < Script /\ scriptedReady

(* Mutant: sending a line leaves the flag alone.                            *)
ReadyKept(isLine) == UNCHANGED <<terminalReady, scriptedReady>>
(* Mutant: sending typed input waits for a prompt as well.                  *)
ReadyCleared(isLine) == terminalReady' = FALSE /\ scriptedReady' = FALSE
(* What sending does to the two flags: terminal_ready stays.                *)
AfterSend(isLine) ==
  /\ scriptedReady' = (scriptedReady /\ ~isLine /\ raw)
  /\ UNCHANGED terminalReady

SendLine ==
  /\ At("send") /\ terminalReady /\ ScriptTurn
  /\ scripted' = scripted + 1 /\ input' = Append(input, Line(scripted'))
  /\ AfterSend(TRUE) /\ step' = "clock"
  /\ UNCHANGED <<options, over, sent, expired, live, typed, prompts, remote>>

TakeLive == live' = Tail(live)

SendLive ==
  /\ At("send") /\ terminalReady /\ ~ScriptTurn /\ LiveTurn /\ TakeLive
  /\ \/ /\ Head(live) = Detach /\ over' = "detached"
        /\ UNCHANGED <<step, terminalReady, scriptedReady, sent, input>>
     \/ /\ Head(live) # Detach
        /\ input' = Append(input, Chunk(Head(live))) /\ sent' = sent + 1
        /\ AfterSend(FALSE) /\ step' = "clock" /\ UNCHANGED over
  /\ UNCHANGED <<options, scripted, expired, typed, prompts, remote>>

SendNothing ==
  /\ At("send") /\ ~(terminalReady /\ (ScriptTurn \/ LiveTurn)) /\ step' = "clock"
  /\ UNCHANGED <<options, over, terminalReady, scriptedReady, scripted, sent,
                 expired, live, typed, input, prompts, remote>>

(* now >= absolute_deadline                                                 *)
PastDeadline == expired

CheckClock ==
  /\ At("clock")
  /\ IF PastDeadline THEN over' = "runtime" /\ UNCHANGED step
                     ELSE step' = "read" /\ UNCHANGED over
  /\ UNCHANGED <<options, terminalReady, scriptedReady, scripted, sent, expired,
                 live, typed, input, prompts, remote>>

(* read_frame() returns a frame with the prompt ...                         *)
ReadPrompt ==
  /\ At("read") /\ prompts > 0 /\ prompts' = prompts - 1
  /\ terminalReady' = TRUE /\ scriptedReady' = TRUE /\ step' = "send"
  /\ UNCHANGED <<options, over, scripted, sent, expired, live, typed, input, remote>>

(* ... or one without it, or none within its 0.1 s ...                      *)
ReadNothing ==
  /\ At("read") /\ step' = "send"
  /\ UNCHANGED <<options, over, terminalReady, scriptedReady, scripted, sent,
                 expired, live, typed, input, prompts, remote>>

(* ... or the deadline falls inside the frame with the prompt, whose bytes  *)
(* so far are dropped, or the prompt is split over two frames.              *)
LosePrompt ==
  /\ At("read") /\ prompts > 0 /\ prompts' = prompts - 1 /\ step' = "send"
  /\ UNCHANGED <<options, over, terminalReady, scriptedReady, scripted, sent,
                 expired, live, typed, input, remote>>

(* The device is unplugged in a read (caught) or a write (not caught), or   *)
(* a frame fails its CRC: the session is over.                              *)
Broken ==
  /\ \/ At("read")
     \/ At("send") /\ terminalReady /\ (ScriptTurn \/ (LiveTurn /\ Head(live) # Detach))
  /\ over' = "broken"
  /\ UNCHANGED <<options, step, terminalReady, scriptedReady, scripted, sent,
                 expired, live, typed, input, prompts, remote>>

(* Ctrl+C interrupts the host only while the terminal is not in raw mode.   *)
Interrupt ==
  /\ over = "no" /\ ~raw /\ over' = "interrupted"
  /\ UNCHANGED <<options, step, terminalReady, scriptedReady, scripted, sent,
                 expired, live, typed, input, prompts, remote>>

Expire ==
  /\ limited /\ ~expired /\ expired' = TRUE
  /\ UNCHANGED <<options, loop, live, typed, input, prompts, remote>>

-----------------------------------------------------------------------------
(* stdin_reader(): a key in raw mode, a line otherwise.  It returns after   *)
(* Ctrl+], which only raw mode has.                                         *)

ReaderDone == Contains(live, Detach) \/ over = "detached"

Type ==
  /\ over = "no" /\ ~ReaderDone /\ typed < MaxTyped
  /\ typed' = typed + 1 /\ live' = Append(live, typed')
  /\ UNCHANGED <<options, loop, expired, input, prompts, remote>>

TypeDetach ==
  /\ over = "no" /\ ~ReaderDone /\ raw /\ live' = Append(live, Detach)
  /\ UNCHANGED <<options, loop, expired, typed, input, prompts, remote>>

-----------------------------------------------------------------------------
(* The target: PID 1's shell on ttySHM0 *)

Prompt == prompts < MaxPrompts /\ prompts' = prompts + 1 /\ shell' = "waiting"

Boot ==
  /\ shell = "boot" /\ Prompt
  /\ UNCHANGED <<options, loop, expired, live, typed, input, stolen>>

(* A line runs a program; a key of the user may or may not end a line.      *)
ShellRead ==
  /\ shell = "waiting" /\ input # <<>> /\ input' = Tail(input)
  /\ \/ shell' = "running"
     \/ Head(input).from = "user" /\ UNCHANGED shell
  /\ UNCHANGED <<options, loop, expired, live, typed, prompts, stolen>>

ProgramRead ==
  /\ shell = "running" /\ input # <<>> /\ input' = Tail(input)
  /\ stolen' = IF Head(input).from = "script" THEN stolen \cup {Head(input).number}
               ELSE stolen
  /\ UNCHANGED <<options, loop, expired, live, typed, prompts, shell>>

ProgramExit ==
  /\ shell = "running" /\ Prompt
  /\ UNCHANGED <<options, loop, expired, live, typed, input, stolen>>

-----------------------------------------------------------------------------

(* A boot starts with Linux entered.  An attach finds the shell idle or     *)
(* busy, with input and a prompt of an earlier session already consumed     *)
(* (reset_input_buffer()) or still to come.                                 *)
Init ==
  /\ attach \in BOOLEAN /\ raw \in BOOLEAN /\ limited \in BOOLEAN
  /\ step = "send" /\ over = "no" /\ expired = FALSE
  /\ terminalReady = attach /\ scriptedReady = attach
  /\ scripted = 0 /\ live = <<>> /\ typed = 0 /\ sent = 0 /\ input = <<>>
  /\ \/ attach /\ shell \in {"waiting", "running"} /\ prompts \in {0, 1}
     \/ ~attach /\ shell = "boot" /\ prompts = 0
  /\ stolen = {}

Host ==
  \/ SendLine \/ SendLive \/ SendNothing \/ CheckClock
  \/ ReadPrompt \/ ReadNothing \/ LosePrompt
Target == Boot \/ ShellRead \/ ProgramRead \/ ProgramExit
Next == Host \/ Broken \/ Interrupt \/ Expire \/ Type \/ TypeDetach \/ Target

(* The loop goes round, time passes and Linux boots to its prompt; a user   *)
(* need not type and a program need not end.                                *)
Spec ==
  /\ Init /\ [][Next]_vars
  /\ WF_vars(Host) /\ WF_vars(Expire) /\ WF_vars(Boot)

-----------------------------------------------------------------------------
(* Properties *)

(* Every variable has its type; nothing is sent that was not typed.         *)
TypeOK ==
  /\ {attach, raw, limited, expired, terminalReady, scriptedReady} \subseteq BOOLEAN
  /\ step \in {"send", "clock", "read"}
  /\ over \in {"no", "detached", "runtime", "broken", "interrupted"}
  /\ scripted \in 0 .. Script /\ typed \in 0 .. MaxTyped /\ sent \in 0 .. typed
  /\ Range(live) \subseteq 0 .. MaxTyped
  /\ prompts \in 0 .. MaxPrompts /\ shell \in {"boot", "waiting", "running"}
  /\ stolen \subseteq 1 .. Script

(* After a boot, a line of --command is read by the shell and never by a    *)
(* program that an earlier line started, whatever prompts are lost.         *)
ScriptPaced == attach \/ stolen = {}

(* Ctrl+] ends the session only when every --command line and everything    *)
(* typed before it has been sent.                                           *)
DetachLast == over = "detached" => scripted = Script /\ sent = typed /\ live = <<>>

(* Once a prompt was seen and the lines are gone, what is typed is sent     *)
(* without another prompt, unless the session ends first.                   *)
TypedIsSent ==
  \A k \in 1 .. MaxTyped :
    terminalReady /\ scripted = Script /\ typed >= k ~> sent >= k \/ over # "no"

(* --max-runtime ends a session whatever the target does (absolute_deadline *)
(* of follow_linux(); MCHostConsole checks it for LinuxFollow as well).     *)
RuntimeEnds == limited ~> over # "no"

(* The help of --command: "send a command after the prompt".  Attached to a *)
(* shell that is busy, the first line goes to the program it runs.          *)
CommandAfterPrompt == stolen = {}

(* "Ctrl+] detaches the host" (printed when the console opens): once typed, *)
(* the session ends.                                                        *)
DetachWorks == Contains(live, Detach) ~> over # "no"
=============================================================================
