----------------------------- MODULE LinuxFollow -----------------------------
(***************************************************************************)
(* follow_linux() of k3765_stage0_console.py, which "linux" and "attach"   *)
(* use: unlike the shell's loop (HostConsole) it may run without a user,   *)
(* gives up when the target is silent, and takes a frame of eight hex      *)
(* digits for the return of the second stage.                              *)
(*                                                                         *)
(* Time is a counter; idle_deadline and absolute_deadline are the ticks    *)
(* left.  The modes of the user's terminal are part of the state.          *)
(***************************************************************************)
EXTENDS Integers, Sequences, SequencesExt

CONSTANTS Idle,       (* --idle-timeout, in ticks                           *)
          Runtime,    (* --max-runtime, in ticks                            *)
          Script,     (* lines given with --command                         *)
          MaxTyped,   (* bound: keys the user types                         *)
          MaxFrames   (* bound: frames on their way                         *)

FollowAssumption ==
  /\ {Idle, Runtime} \subseteq Nat \ {0}
  /\ {Script, MaxTyped} \subseteq Nat /\ MaxFrames \in Nat \ {0}

VARIABLES
  attach,         (* issue_boot_request is false; attach is interactive     *)
  interactive, idleOn, limited,   (* --interactive, the timeouts given      *)
  step,           (* "terminal", then the loop: "send", "clock", "read"     *)
  over,           (* why it ended, "no" before                              *)
  raw,            (* raw_keys                                               *)
  inMode, outMode,                (* of the user's terminal                 *)
  idleLeft, runLeft, silence,     (* ticks; silence is history              *)
  terminalReady, scriptedReady,
  lines,          (* lines of --command still pending                       *)
  live, typed,    (* live_chunks, and how many keys were typed              *)
  frames,         (* from the target                                        *)
  target          (* "bl1", "returned" or "linux"                           *)

options == <<attach, interactive, idleOn, limited>>
terminal == <<raw, inMode, outMode>>
clocks == <<idleLeft, runLeft, silence>>
flags == <<terminalReady, scriptedReady>>
input == <<lines, live, typed>>
vars == <<options, step, over, terminal, clocks, flags, input, frames, target>>

-----------------------------------------------------------------------------
Init ==
  /\ attach \in BOOLEAN /\ interactive \in BOOLEAN
  /\ attach => interactive
  /\ idleOn \in BOOLEAN /\ limited \in BOOLEAN
  /\ step = "terminal" /\ over = "no"
  /\ raw = FALSE /\ inMode = "cooked" /\ outMode = "plain"
  /\ idleLeft = Idle /\ runLeft = Runtime /\ silence = 0
  /\ terminalReady = attach /\ scriptedReady = attach
  /\ lines = Script /\ live = <<>> /\ typed = 0 /\ frames = <<>>
  /\ target = IF attach THEN "linux" ELSE "bl1"

(* raw_console_input(): only a terminal whose input mode can be changed     *)
(* goes raw; the output mode may or may not follow.                         *)
EnterTerminal ==
  /\ step = "terminal" /\ step' = "send"
  /\ \/ /\ interactive /\ raw' = TRUE /\ inMode' = "raw"
        /\ outMode' \in {"plain", "ansi"}
     \/ UNCHANGED terminal
  /\ UNCHANGED <<options, over, clocks, flags, input, frames, target>>

(* Mutant: without finally, a mode is put back by a normal return only.     *)
LeaveTerminalReturn(why) ==
  IF why \in {"detached", "runtime", "idle", "unplugged", "returned"}
  THEN inMode' = "cooked" /\ outMode' = "plain" /\ UNCHANGED raw
  ELSE UNCHANGED terminal
(* finally: both modes are put back. *)
LeaveTerminal(why) == inMode' = "cooked" /\ outMode' = "plain" /\ UNCHANGED raw

Leave(why) == over' = why /\ LeaveTerminal(why) /\ UNCHANGED step

At(s) == over = "no" /\ step = s

-----------------------------------------------------------------------------
(* The loop *)

LineTurn == terminalReady /\ lines > 0 /\ scriptedReady
LiveTurn == terminalReady /\ ~LineTurn /\ interactive /\ lines = 0 /\ live # <<>>

SendLine ==
  /\ At("send") /\ LineTurn /\ lines' = lines - 1
  /\ scriptedReady' = FALSE /\ step' = "clock"
  /\ UNCHANGED <<options, over, terminal, clocks, terminalReady, live, typed, frames, target>>

SendLive ==
  /\ At("send") /\ LiveTurn /\ live' = Tail(live)
  /\ \/ Head(live) = "detach" /\ Leave("detached") /\ UNCHANGED scriptedReady
     \/ /\ Head(live) = "key" /\ scriptedReady' = (scriptedReady /\ raw)
        /\ step' = "clock" /\ UNCHANGED <<over, terminal>>
  /\ UNCHANGED <<options, clocks, terminalReady, lines, typed, frames, target>>

SendNothing ==
  /\ At("send") /\ ~LineTurn /\ ~LiveTurn /\ step' = "clock"
  /\ UNCHANGED <<options, over, terminal, clocks, flags, input, frames, target>>

(* idle_deadline is infinite for an interactive session.                    *)
CountsIdle == idleOn /\ ~interactive

(* Mutant: the runtime is looked at only when the target is silent.         *)
CheckClockWhenQuiet ==
  /\ At("clock")
  /\ IF CountsIdle /\ idleLeft = 0
     THEN Leave(IF limited /\ runLeft = 0 THEN "runtime" ELSE "idle")
     ELSE IF limited /\ runLeft = 0 /\ frames = <<>> THEN Leave("runtime")
     ELSE step' = "read" /\ UNCHANGED <<over, terminal>>
  /\ UNCHANGED <<options, clocks, flags, input, frames, target>>
CheckClock ==
  /\ At("clock")
  /\ IF limited /\ runLeft = 0 THEN Leave("runtime")
     ELSE IF CountsIdle /\ idleLeft = 0 THEN Leave("idle")
     ELSE step' = "read" /\ UNCHANGED <<over, terminal>>
  /\ UNCHANGED <<options, clocks, flags, input, frames, target>>

RestartIdle == idleLeft' = IF CountsIdle THEN Idle ELSE idleLeft

(* A frame: the prompt sets both flags, eight hex digits end the session.   *)
ReadFrame ==
  /\ At("read") /\ frames # <<>> /\ frames' = Tail(frames)
  /\ \/ /\ Head(frames) = "prompt" /\ step' = "send"
        /\ terminalReady' = TRUE /\ scriptedReady' = TRUE
        /\ UNCHANGED <<over, terminal>>
     \/ Head(frames) = "text" /\ step' = "send" /\ UNCHANGED <<over, terminal, flags>>
     \/ Head(frames) = "hex" /\ Leave("returned") /\ UNCHANGED flags
  /\ RestartIdle /\ silence' = 0
  /\ UNCHANGED <<options, runLeft, input, target>>

(* No frame in time, or its deadline cut one in two.                        *)
ReadNothing ==
  /\ At("read") /\ step' = "send"
  /\ frames' = IF frames = <<>> THEN <<>> ELSE Tail(frames)
  /\ UNCHANGED <<options, over, terminal, clocks, flags, input, target>>

(* The device goes away in a read, which is caught, or a write, which is    *)
(* not; a frame fails its CRC; Ctrl+C, unless the terminal is raw.          *)
Break ==
  /\ over = "no"
  /\ \/ At("read") /\ Leave("unplugged")
     \/ At("read") /\ Leave("error")
     \/ At("send") /\ (LineTurn \/ (LiveTurn /\ Head(live) = "key")) /\ Leave("error")
     \/ ~raw /\ step # "terminal" /\ Leave("interrupted")
  /\ UNCHANGED <<options, clocks, flags, input, frames, target>>

-----------------------------------------------------------------------------
(* Time, the user and the target *)

Less(n) == IF n = 0 THEN 0 ELSE n - 1

Tick ==
  /\ over = "no"
  /\ idleLeft' = Less(idleLeft) /\ runLeft' = Less(runLeft)
  /\ silence' = IF silence < Idle THEN silence + 1 ELSE Idle
  /\ UNCHANGED <<options, step, over, terminal, flags, input, frames, target>>

(* stdin_reader(); the thread runs for an interactive session only, and     *)
(* ends with Ctrl+], which it knows in raw mode.                            *)
Type ==
  /\ over = "no" /\ step # "terminal" /\ interactive /\ typed < MaxTyped
  /\ ~Contains(live, "detach")
  /\ typed' = typed + 1
  /\ \E k \in IF raw THEN {"key", "detach"} ELSE {"key"} : live' = Append(live, k)
  /\ UNCHANGED <<options, step, over, terminal, clocks, flags, lines, frames, target>>

Emit(f) == Len(frames) < MaxFrames /\ frames' = Append(frames, f)
TargetStep ==
  /\ over = "no"
  /\ \/ target = "bl1" /\ Emit("text") /\ UNCHANGED target
     \/ target = "bl1" /\ Emit("hex") /\ target' = "returned"
     \/ target = "bl1" /\ target' = "linux" /\ UNCHANGED frames
     \/ target = "linux" /\ (\E f \in {"text", "prompt", "hex"} : Emit(f)) /\ UNCHANGED target
  /\ UNCHANGED <<options, step, over, terminal, clocks, flags, input>>

Loop == \/ EnterTerminal \/ SendLine \/ SendLive \/ SendNothing
        \/ CheckClock \/ ReadFrame \/ ReadNothing
Next == Loop \/ Break \/ Tick \/ Type \/ TargetStep

(* The loop goes round and time passes.                                     *)
Spec == Init /\ [][Next]_vars /\ WF_vars(Loop) /\ WF_vars(Tick)

-----------------------------------------------------------------------------
(* Properties *)

(* Every variable has its type. *)
TypeOK ==
  /\ {attach, interactive, idleOn, limited, raw, terminalReady, scriptedReady} \subseteq BOOLEAN
  /\ step \in {"terminal", "send", "clock", "read"}
  /\ over \in {"no", "detached", "runtime", "idle", "unplugged", "error", "interrupted",
               "returned"}
  /\ inMode \in {"cooked", "raw"} /\ outMode \in {"plain", "ansi"}
  /\ idleLeft \in 0 .. Idle /\ runLeft \in 0 .. Runtime /\ silence \in 0 .. Idle
  /\ lines \in 0 .. Script /\ Range(live) \subseteq {"key", "detach"}
  /\ Range(frames) \subseteq {"text", "prompt", "hex"}
  /\ target \in {"bl1", "returned", "linux"}

(* However the session ends, the user's terminal has its modes back.        *)
TerminalRestored == over # "no" => inMode = "cooked" /\ outMode = "plain"

(* "No new target frame for N seconds" is said only when that is so, and    *)
(* never to an interactive user.                                            *)
IdleTrue == over = "idle" => silence = Idle /\ ~interactive

(* "UNEXPECTED RETURN R0", which "linux" prints                             *)
(* (k3765_stage0_console.py:639), means that the second stage came back.    *)
ReturnTrue == over = "returned" /\ ~attach => target = "returned"
=============================================================================
