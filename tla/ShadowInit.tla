------------------------------ MODULE ShadowInit ------------------------------
(***************************************************************************)
(* PID 1 (shadow-init.c): it opens ttySHM0 or, failing that,               *)
(* /dev/shadowtrace, puts it on the standard descriptors and becomes       *)
(* BusyBox; when that fails it stays and edits lines itself.               *)
(*                                                                         *)
(* A byte is printable, one of three that edit, or ignored.  line is the C *)
(* array: a command is what stands before its first NUL, which is what     *)
(* shadow_equals() and shadow_write_text() look at.                        *)
(***************************************************************************)
EXTENDS Integers, Sequences, SequencesExt, FiniteSetsExt

CONSTANTS Printable,     (* bytes 32..126                                   *)
          Ignored,       (* CR and the other bytes that do nothing          *)
          LineLength,    (* SHADOW_LINE_LENGTH                              *)
          InputLength,   (* SHADOW_INPUT_LENGTH                             *)
          MaxTyped       (* bound: bytes that the device delivers           *)

Newline == "newline"
Erase == "erase"         (* backspace and delete                            *)
Nul == "nul"
Junk == "junk"           (* what the stack held before _start()             *)
Byte == Printable \cup Ignored \cup {Newline, Erase}

ASSUME InitAssumption ==
  /\ {LineLength, InputLength} \subseteq Nat \ {0} /\ MaxTyped \in Nat
  /\ Printable \cap (Ignored \cup {Newline, Erase, Nul, Junk}) = {}
  /\ Ignored \cap {Newline, Erase} = {}

Standard == 0 .. 2
Descriptors == 0 .. 3

VARIABLES
  pc,          (* "open", "fallback", "attach", "exec", "shell", then what   *)
               (* PID 1 is: "edit" (the loop), "yield" or "busybox"          *)
  files,       (* what each descriptor is: "console", a device or "closed"   *)
  descriptor,  (* -1 for any error                                           *)
  standard,    (* standard_descriptor                                        *)
  buffer,      (* bytes of the last read() not looked at yet                 *)
  line, length,
  typed,       (* history: bytes taken out of buffer                         *)
  out          (* history: commands run and prompts, in order                *)

startup == <<files, descriptor, standard>>
editor == <<buffer, line, length, typed, out>>
pid1Vars == <<pc, startup, editor>>

Prompt == <<"shadow-msm#">>

Pid1Init ==
  /\ pc = "open" /\ descriptor = -1 /\ standard = 0
  /\ \E console \in {"console", "closed"} :
       files = [d \in Descriptors |-> IF d \in Standard THEN console ELSE "closed"]
  /\ \E old \in {Nul, Junk} : line = [i \in 0 .. LineLength - 1 |-> old]
  /\ length = 0 /\ buffer = <<>> /\ typed = <<>> /\ out = <<>>

-----------------------------------------------------------------------------
(* Startup *)

(* open() takes the lowest free descriptor. *)
Lowest == Min({d \in Descriptors : files[d] = "closed"})
Opens(device) == descriptor' = Lowest /\ files' = [files EXCEPT ![Lowest] = device]

(* Session and controlling terminal are asked for, whatever comes of it.    *)
OpenTty ==
  /\ pc = "open"
  /\ \/ Opens("ttySHM0") /\ pc' = "attach"
     \/ pc' = "fallback" /\ UNCHANGED <<files, descriptor>>
  /\ UNCHANGED <<standard, editor>>

OpenTrace ==
  /\ pc = "fallback"
  /\ \/ Opens("shadowtrace") /\ pc' = "attach"
     \/ pc' = "yield" /\ UNCHANGED <<files, descriptor>>
  /\ UNCHANGED <<standard, editor>>

(* shadow_try_busybox(): dup2() onto each standard descriptor; the first    *)
(* that fails leaves the rest as they are.  The counter is local.           *)
Duplicate ==
  /\ pc = "attach"
  /\ \/ /\ files' = [files EXCEPT ![standard] = files[descriptor]]
        /\ standard' = (standard + 1) % 3
        /\ pc' = IF standard + 1 \in Standard THEN "attach" ELSE "exec"
     \/ pc' = "shell" /\ standard' = 0 /\ UNCHANGED files
  /\ UNCHANGED <<descriptor, editor>>

(* The four mounts are optional; execve() returns only when it fails.       *)
Exec == pc = "exec" /\ pc' \in {"busybox", "shell"} /\ UNCHANGED <<startup, editor>>

StartShell ==
  /\ pc = "shell" /\ pc' = "edit" /\ out' = Append(out, Prompt)
  /\ UNCHANGED <<startup, buffer, line, length, typed>>

-----------------------------------------------------------------------------
(* The recovery shell *)

(* read() returns what has arrived, at most the buffer's length.            *)
Read ==
  /\ pc = "edit" /\ buffer = <<>>
  /\ \E n \in 1 .. InputLength :
       /\ Len(typed) + n =< MaxTyped
       /\ buffer' \in [1 .. n -> Byte]
  /\ UNCHANGED <<pc, startup, line, length, typed, out>>

(* Without a device PID 1 only yields; a read() that returns nothing is     *)
(* tried again; BusyBox does not end.                                       *)
Wait ==
  /\ pc \in {"yield", "busybox"} \/ (pc = "edit" /\ buffer = <<>>)
  /\ UNCHANGED pid1Vars

Take ==
  /\ pc = "edit" /\ buffer # <<>>
  /\ buffer' = Tail(buffer) /\ typed' = Append(typed, Head(buffer))

(* The string in a char array. *)
Text(array) ==
  LET nuls == {i \in DOMAIN array : array[i] = Nul}
      end == IF nuls = {} THEN LineLength ELSE Min(nuls)
  IN  [i \in 1 .. end |-> array[i - 1]]

(* Mutant: the line is not terminated. *)
TerminatedNot(array, n) == array
Terminated(array, n) == [array EXCEPT ![n] = Nul]

(* shadow_run_command(): what it writes is told apart by the command only.  *)
RunCommand(text) == Append(out, text)

(* A newline: shadow_run_command() unless the line is empty, and a prompt.  *)
EndLine ==
  /\ Take /\ Head(buffer) = Newline
  /\ line' = Terminated(line, length)
  /\ out' = Append(IF length > 0 THEN RunCommand(Text(line')) ELSE out, Prompt)
  /\ length' = 0
  /\ UNCHANGED <<pc, startup>>

EraseLast ==
  /\ Take /\ Head(buffer) = Erase
  /\ length' = IF length > 0 THEN length - 1 ELSE 0
  /\ UNCHANGED <<pc, startup, line, out>>

Insert ==
  /\ Take /\ Head(buffer) \in Printable /\ length < LineLength - 1
  /\ line' = [line EXCEPT ![length] = Head(buffer)] /\ length' = length + 1
  /\ UNCHANGED <<pc, startup, out>>

Drop ==
  /\ Take
  /\ \/ Head(buffer) \in Ignored
     \/ (Head(buffer) \in Printable /\ length >= LineLength - 1)
  /\ UNCHANGED <<pc, startup, line, length, out>>

Pid1Next ==
  \/ OpenTty \/ OpenTrace \/ Duplicate \/ Exec \/ StartShell
  \/ Read \/ Wait \/ EndLine \/ EraseLast \/ Insert \/ Drop
Pid1Spec == Pid1Init /\ [][Pid1Next]_pid1Vars

-----------------------------------------------------------------------------
(* What was typed, seen as a whole *)

(* How many characters of piece are on the line after its first n bytes.    *)
AfterByte(n, byte) ==
  IF byte = Erase THEN IF n = 0 THEN 0 ELSE n - 1
  ELSE IF byte \in Printable /\ n < LineLength - 1 THEN n + 1
  ELSE n
Kept(piece) ==
  LET kept[n \in 0 .. Len(piece)] == IF n = 0 THEN 0 ELSE AfterByte(kept[n - 1], piece[n])
  IN  kept

(* The j-th character of the line is the last byte that was put there.      *)
Edited(piece) ==
  LET kept == Kept(piece)
      puts(j) == {n \in 1 .. Len(piece) : kept[n - 1] = j - 1 /\ kept[n] = j}
  IN  [j \in 1 .. kept[Len(piece)] |-> piece[Max(puts(j))]]

Newlines(bytes) == {n \in DOMAIN bytes : bytes[n] = Newline}
Piece(bytes, end) ==
  SubSeq(bytes, Max({0} \cup {n \in Newlines(bytes) : n < end}) + 1, end - 1)
Answer(bytes, end) ==
  LET text == Edited(Piece(bytes, end))
  IN  IF bytes[end] # Newline THEN <<>> ELSE IF text = <<>> THEN <<Prompt>> ELSE <<text, Prompt>>
Transcript(bytes) == <<Prompt>> \o FlattenSeq([end \in DOMAIN bytes |-> Answer(bytes, end)])

-----------------------------------------------------------------------------
(* Properties *)

(* Every variable has its type. *)
Pid1TypeOK ==
  /\ pc \in {"open", "fallback", "attach", "exec", "shell", "edit", "yield", "busybox"}
  /\ files \in [Descriptors -> {"console", "closed", "ttySHM0", "shadowtrace"}]
  /\ descriptor \in {-1} \cup Descriptors /\ standard \in Standard
  /\ buffer \in Seq(Byte) /\ Len(buffer) =< InputLength
  /\ line \in [0 .. LineLength - 1 -> Printable \cup {Nul, Junk}]
  /\ length \in 0 .. LineLength - 1 /\ typed \in Seq(Byte)

(* However read() cuts the input, whatever the stack held and whichever     *)
(* line was there before: each nonempty line is run as it was typed and     *)
(* edited, and the prompt that the host waits for comes once after each.    *)
RunsTyped == pc = "edit" => out = Transcript(typed)

(* BusyBox starts with one open device on all three descriptors, and the    *)
(* recovery shell keeps its own, also when dup2() failed half way.          *)
OnDevice ==
  /\ pc = "busybox" =>
       \E device \in {"ttySHM0", "shadowtrace"} : \A d \in Standard : files[d] = device
  /\ pc = "edit" => files[descriptor] \in {"ttySHM0", "shadowtrace"}

(* PID 1's recovery shell runs each line as it was typed, however read()    *)
(* cuts it, and answers it with one prompt; BusyBox and the recovery shell  *)
(* have the device they talk to (shadow-init.c).                            *)
Pid1Inv == Pid1TypeOK /\ RunsTyped /\ OnDevice
=============================================================================
