------------------------- MODULE HostProofs -------------------------
(***************************************************************************)
(* Proofs about the two programs that show the Linux console, for every    *)
(* number of lines, chunks, prompts, frames and ticks: the kit paces its   *)
(* lines by the prompt and detaches last, and the stage-0 console gives    *)
(* the user's terminal back and tells an idle target only from a silence.  *)
(* And about the launcher, for any number of runs and files: what it       *)
(* uploads, what a session keeps and what it leaves behind; and, for any   *)
(* set of modems, which one it uploads to.  And about the framing: what    *)
(* hdlc_frame() makes of any payload read_frame() undoes, and on a stream  *)
(* of frames no deadline and no reset costs more than the frame it falls   *)
(* in.                                                                     *)
(***************************************************************************)
EXTENDS MCHostConsole, KitStaging, DownloaderSwitch, HdlcStream, DataLemmas,
        SequenceTheorems, FiniteSetTheorems, TLAPS

-----------------------------------------------------------------------------
(* The kit's loop *)

Number == 0 .. MaxTyped       \* of chunks, Detach
Item == [from : {"script"}, number : 1 .. Script] \cup [from : {"user"}, number : Nat]

(* TypeOK with the sequences themselves typed.                              *)
Types ==
  /\ TypeOK
  /\ input \in Seq(Item) /\ live \in Seq(Number)

(* live holds the chunks that were typed and not sent, in order, and behind *)
(* them Ctrl+] when the user has typed it.                                  *)
LiveInOrder ==
  \E detach \in {0, 1} :
    /\ Len(live) = typed - sent + detach
    /\ \A i \in 1 .. typed - sent : live[i] = sent + i
    /\ detach = 1 => live[Len(live)] = Detach

(* After a boot at most one of these is so while lines are pending: the     *)
(* shell is not at its prompt, a prompt is on its way, the host may send a  *)
(* line, a line is on its way.  So each prompt allows one line, and the     *)
(* line finds the shell that printed it.                                    *)
OneTurn ==
  ~attach /\ scripted < Script =>
    /\ prompts =< 1 /\ Len(input) =< 1
    /\ shell # "waiting" => prompts = 0 /\ ~scriptedReady /\ Len(input) = 0
    /\ prompts > 0 => ~scriptedReady /\ Len(input) = 0
    /\ scriptedReady => Len(input) = 0

(* After a boot a line on its way is the next input of a waiting shell.     *)
LineMeetsShell ==
  ~attach => \A i \in 1 .. Len(input) :
               input[i].from = "script" => i = 1 /\ shell = "waiting"

ShellInv ==
  Types /\ LiveInOrder /\ OneTurn /\ LineMeetsShell /\ ScriptPaced /\ DetachLast

(* Init establishes the invariant. *)
LEMMA InitKit == Init => ShellInv
<1> SUFFICES ASSUME Init PROVE ShellInv
  OBVIOUS
<1>1. <<>> \in Seq(Item) /\ <<>> \in Seq(Number) /\ Len(<<>>) = 0
  BY EmptySeq
<1>2. Types
  <2>1. Range(live) \subseteq 0 .. MaxTyped
    BY <1>1, RangeOfSeq DEF Init, Number
  <2>2. {attach, raw, limited, expired, terminalReady, scriptedReady} \subseteq BOOLEAN
    BY DEF Init
  <2>3. /\ step = "send" /\ over = "no" /\ scripted = 0 /\ typed = 0 /\ sent = 0
        /\ prompts \in {0, 1} /\ shell \in {"boot", "waiting", "running"} /\ stolen = {}
        /\ input = <<>> /\ live = <<>>
    BY DEF Init
  <2> QED BY <1>1, <2>1, <2>2, <2>3, HostAssumption DEF Types, TypeOK
<1>3. LiveInOrder
  BY <1>1 DEF Init, LiveInOrder
<1>4. OneTurn /\ LineMeetsShell
  BY <1>1 DEF Init, OneTurn, LineMeetsShell
<1>5. ScriptPaced /\ DetachLast
  BY DEF Init, ScriptPaced, DetachLast
<1> QED BY <1>2, <1>3, <1>4, <1>5 DEF ShellInv

(* What is known of an input that grows or loses its head.                  *)
LEMMA Grows ==
  ASSUME NEW S, NEW s \in Seq(S), NEW x \in S
  PROVE  /\ Append(s, x) \in Seq(S) /\ Len(Append(s, x)) = Len(s) + 1
         /\ Append(s, x)[Len(s) + 1] = x
         /\ \A i \in 1 .. Len(s) : Append(s, x)[i] = s[i]
         /\ Len(s) \in Nat
  BY AppendProperties, LenProperties

(* A sequence that loses its head: what follows moves one place up.         *)
LEMMA Shrinks ==
  ASSUME NEW S, NEW s \in Seq(S), s # <<>>
  PROVE  /\ Tail(s) \in Seq(S) /\ Len(Tail(s)) = Len(s) - 1
         /\ Head(s) \in S /\ Head(s) = s[1] /\ Len(s) \in Nat \ {0}
         /\ \A i \in 1 .. Len(Tail(s)) : Tail(s)[i] = s[i + 1]
  BY HeadTailProperties, EmptySeq

(* The booleans keep their type. *)
LEMMA Booleans ==
  ASSUME Types, [Next]_vars
  PROVE  {attach, raw, limited, expired, terminalReady, scriptedReady}' \subseteq BOOLEAN
  BY DEF Types, TypeOK, Next, Host, Target, vars, options, loop, remote, SendLine, SendLive,
     SendNothing,
         AfterSend, CheckClock, ReadPrompt, ReadNothing, LosePrompt, Broken, Interrupt,
         Expire, Type, TypeDetach, Boot, ShellRead, ProgramRead, ProgramExit, Prompt

(* The steps that send, type, read or write input or prompts; every other   *)
(* step leaves all that alone, and does not detach.                         *)
Aside == UNCHANGED <<attach, scriptedReady, scripted, sent, live, typed, input, prompts, remote>>

(* The cases that the next lemmas distinguish. *)
LEMMA KitCases ==
  ASSUME [Next]_vars
  PROVE  \/ SendLine \/ SendLive \/ ReadPrompt \/ LosePrompt \/ Type \/ TypeDetach
         \/ Boot \/ ShellRead \/ ProgramRead \/ ProgramExit
         \/ Aside /\ (over' = over \/ over' # "detached")
  BY DEF Next, Host, Target, vars, options, loop, remote, Aside, SendNothing, CheckClock,
         ReadNothing, Broken, Interrupt, Expire

(* Step and reason keep their types. *)
LEMMA Steps ==
  ASSUME Types, [Next]_vars
  PROVE  /\ step' \in {"send", "clock", "read"}
         /\ over' \in {"no", "detached", "runtime", "broken", "interrupted"}
  BY DEF Types, TypeOK, Next, Host, Target, vars, options, loop, remote, SendLine, SendLive,
     SendNothing,
      CheckClock, ReadPrompt, ReadNothing, LosePrompt, Broken, Interrupt,
      Expire, Type, TypeDetach, Boot, ShellRead, ProgramRead, ProgramExit

(* Every variable keeps its type. *)
LEMMA TypesStep == ASSUME ShellInv, [Next]_vars PROVE Types'
<1>0. Types /\ LiveInOrder
  BY DEF ShellInv
<1>1. /\ scripted \in 0 .. Script /\ typed \in 0 .. MaxTyped /\ sent \in 0 .. typed
      /\ input \in Seq(Item) /\ live \in Seq(Number)
      /\ prompts \in 0 .. MaxPrompts /\ shell \in {"boot", "waiting", "running"}
      /\ stolen \subseteq 1 .. Script
  BY <1>0 DEF Types, TypeOK
<1> DEFINE Goal == /\ scripted' \in 0 .. Script
                   /\ typed' \in 0 .. MaxTyped /\ sent' \in 0 .. typed'
                   /\ input' \in Seq(Item) /\ live' \in Seq(Number)
                   /\ prompts' \in 0 .. MaxPrompts
                   /\ shell' \in {"boot", "waiting", "running"}
                   /\ stolen' \subseteq 1 .. Script
<1>2. ASSUME SendLine PROVE Goal
  <2>1. scripted' = scripted + 1 /\ scripted < Script /\ input' = Append(input, Line(scripted'))
        /\ UNCHANGED <<sent, live, typed, prompts, remote>>
    BY <1>2 DEF SendLine, ScriptTurn
  <2>2. Line(scripted') \in Item
    BY <1>1, <2>1, HostAssumption DEF Line, Item
  <2> QED BY <1>1, <2>1, <2>2, Grows, HostAssumption DEF remote
<1>3. ASSUME SendLive PROVE Goal
  <2>1. /\ live # <<>> /\ live' = Tail(live)
        /\ \/ Head(live) = Detach /\ UNCHANGED <<sent, input>>
           \/ /\ Head(live) # Detach /\ sent' = sent + 1
              /\ input' = Append(input, Chunk(Head(live)))
        /\ UNCHANGED <<scripted, typed, prompts, remote>>
    BY <1>3 DEF SendLive, LiveTurn, TakeLive
  <2>2. /\ live' \in Seq(Number) /\ Head(live) \in Number
        /\ Head(live) = live[1] /\ Len(live) > 0
    <3>1. live \in Seq(Number) /\ live # <<>> /\ live' = Tail(live)
      BY <1>1, <2>1
    <3> QED BY <3>1, Shrinks
  <2>3. Chunk(Head(live)) \in Item
    BY <2>2, HostAssumption DEF Chunk, Item, Number
  <2>4. input' \in Seq(Item)
    BY <1>1, <2>1, <2>3, Grows
  <2>5. Head(live) # Detach => sent < typed
    BY <1>0, <1>1, <2>2 DEF LiveInOrder
  <2> QED BY <1>1, <2>1, <2>2, <2>4, <2>5, HostAssumption DEF remote
<1>4. ASSUME ReadPrompt \/ LosePrompt PROVE Goal
  <2>1. /\ prompts > 0 /\ prompts' = prompts - 1
        /\ UNCHANGED <<scripted, sent, live, typed, input, shell, stolen>>
    BY <1>4 DEF ReadPrompt, LosePrompt, remote
  <2> QED BY <1>1, <2>1, HostAssumption
<1>5. ASSUME Type PROVE Goal
  <2>1. /\ typed < MaxTyped /\ typed' = typed + 1 /\ live' = Append(live, typed')
        /\ UNCHANGED <<scripted, sent, input, prompts, remote>>
    BY <1>5 DEF Type, loop
  <2>2. typed' \in Number
    BY <1>1, <2>1, HostAssumption DEF Number
  <2> QED BY <1>1, <2>1, <2>2, Grows, HostAssumption DEF remote, Number
<1>6. ASSUME TypeDetach PROVE Goal
  <2>1. live' = Append(live, Detach) /\ UNCHANGED <<scripted, sent, typed, input, prompts, remote>>
    BY <1>6 DEF TypeDetach, loop
  <2>2. Detach \in Number
    BY HostAssumption DEF Detach, Number
  <2> QED BY <1>1, <2>1, <2>2, Grows DEF remote
<1>7. ASSUME Boot \/ ProgramExit PROVE Goal
  <2>1. /\ prompts < MaxPrompts /\ prompts' = prompts + 1 /\ shell' = "waiting"
        /\ UNCHANGED <<scripted, sent, live, typed, input, stolen>>
    BY <1>7 DEF Boot, ProgramExit, Prompt, loop
  <2> QED BY <1>1, <2>1, HostAssumption
<1>8. ASSUME ShellRead PROVE Goal
  <2>1. /\ input # <<>> /\ input' = Tail(input) /\ shell' \in {"running", shell}
        /\ UNCHANGED <<scripted, sent, live, typed, prompts, stolen>>
    BY <1>8 DEF ShellRead, loop
  <2> QED BY <1>1, <2>1, Shrinks
<1>9. ASSUME ProgramRead PROVE Goal
  <2>1. /\ input # <<>> /\ input' = Tail(input)
        /\ stolen' = IF Head(input).from = "script" THEN stolen \cup {Head(input).number}
                     ELSE stolen
        /\ UNCHANGED <<scripted, sent, live, typed, prompts, shell>>
    BY <1>9 DEF ProgramRead, loop
  <2>2. input' \in Seq(Item) /\ Head(input) \in Item
    BY <1>1, <2>1, Shrinks
  <2>3. Head(input).from = "script" => Head(input).number \in 1 .. Script
    BY <2>2 DEF Item
  <2> QED BY <1>1, <2>1, <2>2, <2>3
<1>10. ASSUME Aside PROVE Goal
  BY <1>1, <1>10 DEF Aside, remote
<1>11. Goal
  BY <1>2, <1>3, <1>4, <1>5, <1>6, <1>7, <1>8, <1>9, <1>10, KitCases
<1>12. Range(live') \subseteq 0 .. MaxTyped
  BY <1>11, RangeOfSeq DEF Number
<1> QED BY <1>0, <1>11, <1>12, Booleans, Steps DEF Types, TypeOK

(* What was typed and not sent stays in order. *)
LEMMA OrderStep == ASSUME ShellInv, [Next]_vars PROVE LiveInOrder' /\ DetachLast'
<1>0. Types /\ LiveInOrder /\ DetachLast
  BY DEF ShellInv
<1>1. /\ typed \in Nat /\ sent \in 0 .. typed /\ live \in Seq(Number) /\ Len(live) \in Nat
      /\ MaxTyped \in Nat
  BY <1>0, LenProperties, HostAssumption DEF Types, TypeOK
<1>2. PICK detach \in {0, 1} :
        /\ Len(live) = typed - sent + detach
        /\ \A i \in 1 .. typed - sent : live[i] = sent + i
        /\ detach = 1 => live[Len(live)] = Detach
  BY <1>0 DEF LiveInOrder
<1> DEFINE Goal == LiveInOrder' /\ DetachLast'
<1>3. ASSUME SendLive PROVE Goal
  <2>1. /\ live # <<>> /\ live' = Tail(live) /\ scripted = Script
        /\ UNCHANGED <<scripted, typed>>
        /\ \/ Head(live) = Detach /\ sent' = sent
           \/ Head(live) # Detach /\ sent' = sent + 1 /\ over' = over
        /\ over = "no"
    BY <1>3 DEF SendLive, LiveTurn, TakeLive, At
  <2>2. /\ live' \in Seq(Number) /\ Len(live') = Len(live) - 1 /\ Len(live) > 0
        /\ Head(live) = live[1] /\ \A i \in 1 .. Len(live) - 1 : live'[i] = live[i + 1]
    <3>1. live \in Seq(Number) /\ live # <<>> /\ live' = Tail(live)
      BY <1>1, <2>1
    <3> QED BY <3>1, Shrinks
  <2>3. CASE Head(live) = Detach
    <3>1. typed = sent /\ Len(live) = 1
      BY <1>1, <1>2, <2>2, <2>3 DEF Detach
    <3>2. live' = <<>>
      BY <2>2, <3>1, EmptySeq
    <3>3. LiveInOrder'
      BY <1>1, <2>1, <2>2, <2>3, <3>1 DEF LiveInOrder
    <3> QED BY <2>1, <2>3, <3>1, <3>2, <3>3 DEF DetachLast
  <2>4. CASE Head(live) # Detach
    <3>1. sent' = sent + 1 /\ over' = "no" /\ typed' = typed
      BY <2>1, <2>4
    <3>2. sent < typed
      BY <1>1, <1>2, <2>2, <2>4
    <3>3. \A i \in 1 .. typed - sent - 1 : live'[i] = sent + 1 + i
      BY <1>1, <1>2, <2>2, <3>2
    <3>4. detach = 1 => live'[Len(live')] = Detach
      BY <1>1, <1>2, <2>2, <3>2
    <3>5. LiveInOrder'
      BY <1>1, <1>2, <2>2, <3>1, <3>2, <3>3, <3>4 DEF LiveInOrder
    <3> QED BY <3>1, <3>5 DEF DetachLast
  <2> QED BY <2>3, <2>4
<1>4. ASSUME Type PROVE Goal
  <2>1. /\ over = "no" /\ over' = over /\ typed' = typed + 1 /\ live' = Append(live, typed')
        /\ sent' = sent /\ ~Contains(live, Detach) /\ typed < MaxTyped
    BY <1>4 DEF Type, ReaderDone, loop
  <2>2. detach = 0
    <3>1. detach = 1 => Len(live) \in 1 .. Len(live)
      BY <1>1, <1>2
    <3> QED BY <1>2, <2>1, <3>1 DEF Contains
  <2>3. typed' \in Number
    BY <1>1, <2>1, HostAssumption DEF Number
  <2>4. /\ Len(live') = Len(live) + 1 /\ live'[Len(live) + 1] = typed'
        /\ \A i \in 1 .. Len(live) : live'[i] = live[i]
    BY <1>1, <2>1, <2>3, Grows
  <2>5. \A i \in 1 .. typed' - sent' : live'[i] = sent' + i
    BY <1>1, <1>2, <2>1, <2>2, <2>4
  <2>6. LiveInOrder'
    BY <1>1, <1>2, <2>1, <2>2, <2>4, <2>5 DEF LiveInOrder
  <2> QED BY <2>1, <2>6 DEF DetachLast
<1>5. ASSUME TypeDetach PROVE Goal
  <2>1. /\ over = "no" /\ over' = over /\ live' = Append(live, Detach)
        /\ UNCHANGED <<typed, sent>> /\ ~Contains(live, Detach)
    BY <1>5 DEF TypeDetach, ReaderDone, loop
  <2>2. detach = 0
    <3>1. detach = 1 => Len(live) \in 1 .. Len(live)
      BY <1>1, <1>2
    <3> QED BY <1>2, <2>1, <3>1 DEF Contains
  <2>3. Detach \in Number
    BY HostAssumption DEF Detach, Number
  <2>4. /\ Len(live') = Len(live) + 1 /\ live'[Len(live) + 1] = Detach
        /\ \A i \in 1 .. Len(live) : live'[i] = live[i]
    BY <1>1, <2>1, <2>3, Grows
  <2>5. LiveInOrder'
    BY <1>1, <1>2, <2>1, <2>2, <2>4 DEF LiveInOrder
  <2> QED BY <2>1, <2>5 DEF DetachLast
<1>6. ASSUME SendLine \/ ReadPrompt \/ LosePrompt \/ Boot \/ ShellRead \/ ProgramRead \/ ProgramExit
      PROVE  Goal
  <2>1. UNCHANGED <<live, typed, sent>> /\ over' = over
        /\ (over # "detached" \/ scripted' = scripted)
    BY <1>6 DEF SendLine, At, ReadPrompt, LosePrompt, Boot, ShellRead, ProgramRead, ProgramExit,
       loop
  <2> QED BY <1>0, <2>1 DEF LiveInOrder, DetachLast
<1>7. ASSUME Aside, over' = over \/ over' # "detached" PROVE Goal
  BY <1>0, <1>7 DEF Aside, LiveInOrder, DetachLast
<1> QED BY <1>3, <1>4, <1>5, <1>6, <1>7, KitCases

(* A boot stays a boot. *)
LEMMA AttachStays == ASSUME [Next]_vars PROVE attach' = attach
  BY DEF Next, Host, Target, vars, options, SendLine, SendLive, SendNothing, CheckClock,
      ReadPrompt, ReadNothing, LosePrompt, Broken, Interrupt, Expire, Type, TypeDetach,
      Boot, ShellRead, ProgramRead, ProgramExit

(* One prompt, one line: each line finds the shell that waits for it.       *)
LEMMA TurnStep ==
  ASSUME ShellInv, [Next]_vars PROVE OneTurn' /\ LineMeetsShell' /\ ScriptPaced'
<1> DEFINE Goal == OneTurn' /\ LineMeetsShell' /\ ScriptPaced'
<1>0. Types /\ OneTurn /\ LineMeetsShell /\ ScriptPaced /\ Types'
  BY TypesStep DEF ShellInv
<1>1. CASE attach
  BY <1>1, AttachStays DEF OneTurn, LineMeetsShell, ScriptPaced
<1>2. CASE ~attach
  <2>1. /\ ~attach /\ ~attach' /\ stolen = {}
        /\ scripted \in 0 .. Script /\ prompts \in Nat
        /\ shell \in {"boot", "waiting", "running"} /\ scriptedReady \in BOOLEAN
        /\ input \in Seq(Item) /\ Len(input) \in Nat /\ Len(input') \in Nat
    BY <1>0, <1>2, AttachStays, LenProperties, HostAssumption DEF Types, TypeOK, ScriptPaced
  <2>2. scripted < Script =>
          /\ prompts =< 1 /\ Len(input) =< 1
          /\ shell # "waiting" => prompts = 0 /\ ~scriptedReady /\ Len(input) = 0
          /\ prompts > 0 => ~scriptedReady /\ Len(input) = 0
          /\ scriptedReady => Len(input) = 0
    BY <1>0, <1>2 DEF OneTurn
  <2>3. \A i \in 1 .. Len(input) :
          input[i].from = "script" => i = 1 /\ shell = "waiting"
    BY <1>0, <1>2 DEF LineMeetsShell
  <2> DEFINE One == scripted' < Script =>
                      /\ prompts' =< 1 /\ Len(input') =< 1
                      /\ shell' # "waiting" => prompts' = 0 /\ ~scriptedReady' /\ Len(input') = 0
                      /\ prompts' > 0 => ~scriptedReady' /\ Len(input') = 0
                      /\ scriptedReady' => Len(input') = 0
             Meets == \A i \in 1 .. Len(input') :
                        input'[i].from = "script" => i = 1 /\ shell' = "waiting"
             Turn == One /\ Meets /\ stolen' = {}
  <2>4. ASSUME SendLine PROVE Turn
    <3>1. /\ scripted < Script /\ scriptedReady /\ scriptedReady' = FALSE
          /\ input' = Append(input, Line(scripted')) /\ UNCHANGED <<prompts, shell, stolen>>
          /\ scripted' = scripted + 1
      BY <2>4 DEF SendLine, ScriptTurn, AfterSend, remote
    <3>2. Len(input) = 0 /\ prompts = 0 /\ shell = "waiting"
      BY <2>1, <2>2, <3>1
    <3>3. Line(scripted') \in Item
      BY <2>1, <3>1, HostAssumption DEF Line, Item
    <3>4. Len(input') = 1
      BY <2>1, <3>1, <3>2, <3>3, Grows
    <3> QED BY <2>1, <3>1, <3>2, <3>4
  <2>5. ASSUME SendLive PROVE Turn
    <3>1. /\ scripted = Script /\ scripted' = Script /\ UNCHANGED <<shell, stolen>>
          /\ input' = input \/ input' = Append(input, Chunk(Head(live)))
      BY <2>5 DEF SendLive, LiveTurn, remote
    <3>2. live \in Seq(Number) /\ live # <<>>
      BY <1>0, <2>5 DEF Types, SendLive, LiveTurn
    <3>3. Head(live) \in Number
      BY <3>2, Shrinks
    <3>4. Chunk(Head(live)) \in Item /\ Chunk(Head(live)).from = "user"
      BY <3>3, HostAssumption DEF Chunk, Item, Number
    <3>5. CASE input' = input
      BY <2>1, <2>3, <3>1, <3>5, HostAssumption
    <3>6. CASE input' = Append(input, Chunk(Head(live)))
      <4>1. /\ Len(input') = Len(input) + 1 /\ input'[Len(input) + 1] = Chunk(Head(live))
            /\ \A i \in 1 .. Len(input) : input'[i] = input[i]
        BY <2>1, <3>4, <3>6, Grows
      <4>2. \A i \in 1 .. Len(input') : i \in 1 .. Len(input) \/ i = Len(input) + 1
        BY <2>1, <4>1
      <4>3. Meets
        BY <2>3, <3>1, <3>4, <4>1, <4>2
      <4> QED BY <2>1, <3>1, <4>3, HostAssumption
    <3> QED BY <3>1, <3>5, <3>6
  <2>6. ASSUME ReadPrompt PROVE Turn
    <3>1. /\ prompts > 0 /\ prompts' = prompts - 1 /\ scriptedReady' = TRUE
          /\ UNCHANGED <<scripted, input, shell, stolen>>
      BY <2>6 DEF ReadPrompt, remote
    <3> QED BY <2>1, <2>2, <2>3, <3>1
  <2>7. ASSUME LosePrompt PROVE Turn
    <3>1. /\ prompts > 0 /\ prompts' = prompts - 1
          /\ UNCHANGED <<scripted, scriptedReady, input, shell, stolen>>
      BY <2>7 DEF LosePrompt, remote
    <3> QED BY <2>1, <2>2, <2>3, <3>1
  <2>8. ASSUME Boot \/ ProgramExit PROVE Turn
    <3>1. /\ shell # "waiting" /\ shell' = "waiting" /\ prompts' = prompts + 1
          /\ UNCHANGED <<scripted, scriptedReady, input, stolen>>
      BY <2>8 DEF Boot, ProgramExit, Prompt, loop
    <3> QED BY <2>1, <2>2, <2>3, <3>1
  <2>9. ASSUME ShellRead \/ ProgramRead PROVE Turn
    <3>1. /\ input # <<>> /\ input' = Tail(input) /\ shell' \in {"running", "waiting"}
          /\ UNCHANGED <<scripted, scriptedReady, prompts>>
          /\ shell' = "waiting" => shell = "waiting"
          /\ shell # "boot"
      BY <2>9 DEF ShellRead, ProgramRead, loop
    <3>2. /\ Len(input') = Len(input) - 1 /\ Len(input) > 0 /\ Head(input) = input[1]
          /\ \A i \in 1 .. Len(input) - 1 : input'[i] = input[i + 1]
      <4>1. input \in Seq(Item)
        BY <2>1
      <4> QED BY <3>1, <4>1, Shrinks
    <3>3. stolen' = {}
      <4>1. CASE ShellRead
        BY <2>1, <4>1 DEF ShellRead
      <4>2. CASE ProgramRead
        <5>1. Head(input).from # "script"
          BY <2>1, <2>3, <3>2, <4>2 DEF ProgramRead
        <5> QED BY <2>1, <4>2, <5>1 DEF ProgramRead
      <4> QED BY <2>9, <4>1, <4>2
    <3>4. \A i \in 1 .. Len(input') : input'[i] = input[i + 1] /\ i + 1 \in 1 .. Len(input)
          /\ i + 1 # 1
      BY <2>1, <3>2
    <3>5. Meets
      BY <2>3, <3>4
    <3>6. One
      BY <2>1, <2>2, <3>1, <3>2
    <3> QED BY <3>3, <3>5, <3>6
  <2>10. ASSUME Type \/ TypeDetach \/ Aside PROVE Turn
    <3>1. UNCHANGED <<scripted, scriptedReady, input, prompts, shell, stolen>>
      BY <2>10 DEF Type, TypeDetach, Aside, loop, remote
    <3> QED BY <2>1, <2>2, <2>3, <3>1
  <2>11. Turn
    BY <2>4, <2>5, <2>6, <2>7, <2>8, <2>9, <2>10, KitCases
  <2> QED BY <2>1, <2>11 DEF OneTurn, LineMeetsShell, ScriptPaced
<1> QED BY <1>1, <1>2

(* Every step keeps the invariant. *)
LEMMA NextKit == ShellInv /\ [Next]_vars => ShellInv'
  BY TypesStep, OrderStep, TurnStep DEF ShellInv

-----------------------------------------------------------------------------
(* The stage-0 console's loop *)

Key == {"key", "detach"}
Frame == {"text", "prompt", "hex"}

(* TypeOK with the sequences themselves typed; a session that has not       *)
(* entered the terminal is not over; and while the target's silence counts, *)
(* the deadline is what is left of it.                                      *)
KeptInv ==
  /\ Kept!TypeOK /\ Kept!TerminalRestored /\ Kept!IdleTrue
  /\ live \in Seq(Key) /\ frames \in Seq(Frame)
  /\ step = "terminal" => over = "no"
  /\ Kept!CountsIdle => idleLeft + silence = Idle

(* The elements of a typed sequence, as the instance says Range.            *)
LEMMA KeptRange ==
  ASSUME NEW S, NEW s \in Seq(S) PROVE Kept!Range(s) \subseteq S
<1>1. Kept!Range(s) = Range(s)
  BY DEF Kept!Range, Range
<1> QED BY <1>1, RangeOfSeq

(* A session starts typed, with the whole deadline ahead of it.             *)
LEMMA InitKept == Kept!Init => KeptInv
<1> SUFFICES ASSUME Kept!Init PROVE KeptInv
  OBVIOUS
<1>1. <<>> \in Seq(Key) /\ <<>> \in Seq(Frame)
  BY EmptySeq
<1>2. Kept!Range(live) \subseteq Key /\ Kept!Range(frames) \subseteq Frame
  BY <1>1, KeptRange DEF Kept!Init
<1>3. Idle \in Nat \ {0} /\ Runtime \in Nat \ {0} /\ KeptLines \in Nat
  BY KeptAssumption DEF Kept!FollowAssumption
<1>4. Kept!TypeOK
  <2>1. {attach, interactive, idleOn, limited, raw, terminalReady, scriptedReady} \subseteq BOOLEAN
    BY DEF Kept!Init
  <2>2. /\ step = "terminal" /\ over = "no" /\ inMode = "cooked" /\ outMode = "plain"
        /\ idleLeft = Idle /\ runLeft = Runtime /\ silence = 0 /\ lines = KeptLines
        /\ target \in {"linux", "bl1"}
    BY DEF Kept!Init
  <2> QED BY <1>2, <1>3, <2>1, <2>2 DEF Kept!TypeOK, Key, Frame
<1> QED BY <1>1, <1>3, <1>4 DEF Kept!Init, KeptInv, Kept!TerminalRestored, Kept!IdleTrue,
           Kept!CountsIdle

(* The sequences keep their type. *)
LEMMA KeptSequences ==
  ASSUME KeptInv, [Kept!Next]_(Kept!vars)
  PROVE  live' \in Seq(Key) /\ frames' \in Seq(Frame)
<1>1. live \in Seq(Key) /\ frames \in Seq(Frame)
  BY DEF KeptInv
<1>2. \/ live' = live
      \/ live # <<>> /\ live' = Tail(live)
      \/ \E k \in Key : live' = Append(live, k)
  BY DEF Kept!Next, Kept!Loop, Kept!vars, Kept!input, Kept!EnterTerminal, Kept!SendLine,
     Kept!SendLive, Kept!LiveTurn,
         Kept!SendNothing, Kept!CheckClock, Kept!ReadFrame, Kept!ReadNothing, Kept!Break,
         Kept!Tick, Kept!Type, Kept!TargetStep, Key
<1>3. \/ frames' = frames
      \/ frames # <<>> /\ frames' = Tail(frames)
      \/ \E f \in Frame : frames' = Append(frames, f)
  BY DEF Kept!Next, Kept!Loop, Kept!vars, Kept!EnterTerminal, Kept!SendLine, Kept!SendLive,
         Kept!SendNothing, Kept!CheckClock, Kept!ReadFrame, Kept!ReadNothing, Kept!Break,
         Kept!Tick, Kept!Type, Kept!TargetStep, Kept!Emit, Frame
<1>4. live' \in Seq(Key)
  <2>1. CASE live # <<>> /\ live' = Tail(live)
    BY <1>1, <2>1, Shrinks
  <2>2. CASE \E k \in Key : live' = Append(live, k)
    BY <1>1, <2>2, Grows
  <2> QED BY <1>1, <1>2, <2>1, <2>2
<1>5. frames' \in Seq(Frame)
  <2>1. CASE frames # <<>> /\ frames' = Tail(frames)
    BY <1>1, <2>1, Shrinks
  <2>2. CASE \E f \in Frame : frames' = Append(frames, f)
    BY <1>1, <2>2, Grows
  <2> QED BY <1>1, <1>3, <2>1, <2>2
<1> QED BY <1>4, <1>5

(* Every step keeps the types. *)
LEMMA KeptTypes ==
  ASSUME KeptInv, [Kept!Next]_(Kept!vars) PROVE Kept!TypeOK'
<1>0. Kept!TypeOK
  BY DEF KeptInv
<1>1. Kept!Range(live') \subseteq Key /\ Kept!Range(frames') \subseteq Frame
  BY KeptSequences, KeptRange
<1>2. {attach, interactive, idleOn, limited, raw, terminalReady, scriptedReady}' \subseteq BOOLEAN
  BY <1>0 DEF Kept!TypeOK, Kept!Next, Kept!Loop, Kept!vars, Kept!options, Kept!terminal, Kept!flags,
         Kept!EnterTerminal, Kept!SendLine, Kept!SendLive, Kept!SendNothing, Kept!CheckClock,
         Kept!ReadFrame, Kept!ReadNothing, Kept!Break, Kept!Tick, Kept!Type, Kept!TargetStep,
         Kept!Leave, Kept!LeaveTerminal
<1>3. /\ step' \in {"terminal", "send", "clock", "read"}
      /\ over' \in {"no", "detached", "runtime", "idle", "unplugged", "error", "interrupted",
                    "returned"}
      /\ inMode' \in {"cooked", "raw"} /\ outMode' \in {"plain", "ansi"}
  BY <1>0 DEF Kept!TypeOK, Kept!Next, Kept!Loop, Kept!vars, Kept!terminal,
         Kept!EnterTerminal, Kept!SendLine, Kept!SendLive, Kept!SendNothing, Kept!CheckClock,
         Kept!ReadFrame, Kept!ReadNothing, Kept!Break, Kept!Tick, Kept!Type, Kept!TargetStep,
         Kept!Leave, Kept!LeaveTerminal
<1>4. /\ idleLeft' \in 0 .. Idle /\ runLeft' \in 0 .. Runtime /\ silence' \in 0 .. Idle
      /\ lines' \in 0 .. KeptLines
  <2>1. /\ Idle \in Nat \ {0} /\ Runtime \in Nat \ {0} /\ KeptLines \in Nat
        /\ idleLeft \in 0 .. Idle /\ runLeft \in 0 .. Runtime /\ silence \in 0 .. Idle
        /\ lines \in 0 .. KeptLines
    BY <1>0, KeptAssumption DEF Kept!FollowAssumption, Kept!TypeOK
  <2>2. \/ Kept!Tick \/ Kept!ReadFrame \/ Kept!SendLine
        \/ UNCHANGED <<idleLeft, runLeft, silence, lines>>
    BY DEF Kept!Next, Kept!Loop, Kept!vars, Kept!clocks, Kept!input,
           Kept!EnterTerminal, Kept!SendLive, Kept!SendNothing, Kept!CheckClock,
           Kept!ReadNothing, Kept!Break, Kept!Type, Kept!TargetStep
  <2>3. CASE Kept!Tick
    BY <2>1, <2>3 DEF Kept!Tick, Kept!Less, Kept!input
  <2>4. CASE Kept!ReadFrame
    BY <2>1, <2>4 DEF Kept!ReadFrame, Kept!RestartIdle, Kept!input
  <2>5. CASE Kept!SendLine
    BY <2>1, <2>5 DEF Kept!SendLine, Kept!LineTurn, Kept!clocks
  <2>6. CASE UNCHANGED <<idleLeft, runLeft, silence, lines>>
    BY <2>1, <2>6
  <2> QED BY <2>2, <2>3, <2>4, <2>5, <2>6
<1>5. target' \in {"bl1", "returned", "linux"}
  BY <1>0 DEF Kept!TypeOK, Kept!Next, Kept!Loop, Kept!vars,
         Kept!EnterTerminal, Kept!SendLine, Kept!SendLive, Kept!SendNothing, Kept!CheckClock,
         Kept!ReadFrame, Kept!ReadNothing, Kept!Break, Kept!Tick, Kept!Type, Kept!TargetStep
<1> QED BY <1>1, <1>2, <1>3, <1>4, <1>5 DEF Kept!TypeOK, Key, Frame

(* A session that is over stays as it ended, and each way to end it gives   *)
(* the terminal back.                                                       *)
LEMMA KeptEnd ==
  ASSUME KeptInv, [Kept!Next]_(Kept!vars)
  PROVE  /\ Kept!TerminalRestored' /\ Kept!IdleTrue'
         /\ step' = "terminal" => over' = "no"
         /\ Kept!CountsIdle' => idleLeft' + silence' = Idle
<1>0. /\ Kept!TypeOK /\ Kept!TerminalRestored /\ Kept!IdleTrue
      /\ step = "terminal" => over = "no"
      /\ Kept!CountsIdle => idleLeft + silence = Idle
  BY DEF KeptInv
<1>1. /\ Idle \in Nat \ {0} /\ idleLeft \in 0 .. Idle /\ silence \in 0 .. Idle
      /\ {interactive, idleOn} \subseteq BOOLEAN
  BY <1>0, KeptAssumption DEF Kept!FollowAssumption, Kept!TypeOK
<1>2. UNCHANGED <<interactive, idleOn>>
  BY DEF Kept!Next, Kept!Loop, Kept!vars, Kept!options,
         Kept!EnterTerminal, Kept!SendLine, Kept!SendLive, Kept!SendNothing, Kept!CheckClock,
         Kept!ReadFrame, Kept!ReadNothing, Kept!Break, Kept!Tick, Kept!Type, Kept!TargetStep
<1>3. CASE Kept!CheckClock
  BY <1>0, <1>1, <1>2, <1>3
  DEF Kept!CheckClock, Kept!At, Kept!Leave, Kept!LeaveTerminal, Kept!terminal, Kept!clocks,
      Kept!TerminalRestored, Kept!IdleTrue, Kept!CountsIdle
<1>4. CASE Kept!SendLive \/ Kept!Break
  BY <1>0, <1>1, <1>2, <1>4
  DEF Kept!SendLive, Kept!Break, Kept!At, Kept!Leave, Kept!LeaveTerminal, Kept!terminal,
     Kept!clocks,
      Kept!TerminalRestored, Kept!IdleTrue, Kept!CountsIdle
<1>5. CASE Kept!ReadFrame
  BY <1>0, <1>1, <1>2, <1>5
  DEF Kept!ReadFrame, Kept!RestartIdle, Kept!At, Kept!Leave, Kept!LeaveTerminal, Kept!terminal,
      Kept!TerminalRestored, Kept!IdleTrue, Kept!CountsIdle
<1>6. CASE Kept!Tick
  BY <1>0, <1>1, <1>2, <1>6
  DEF Kept!Tick, Kept!Less, Kept!terminal, Kept!TerminalRestored, Kept!IdleTrue, Kept!CountsIdle
<1>7. CASE \/ Kept!EnterTerminal \/ Kept!SendLine \/ Kept!SendNothing \/ Kept!ReadNothing
           \/ Kept!Type \/ Kept!TargetStep \/ UNCHANGED Kept!vars
  BY <1>0, <1>1, <1>2, <1>7
  DEF Kept!EnterTerminal, Kept!SendLine, Kept!SendNothing, Kept!ReadNothing, Kept!Type,
      Kept!TargetStep, Kept!vars, Kept!At, Kept!terminal, Kept!clocks,
      Kept!TerminalRestored, Kept!IdleTrue, Kept!CountsIdle
<1> QED BY <1>3, <1>4, <1>5, <1>6, <1>7 DEF Kept!Next, Kept!Loop

(* Every step of the stage-0 loop keeps its invariant.                      *)
LEMMA NextKept == KeptInv /\ [Kept!Next]_(Kept!vars) => KeptInv'
  BY KeptSequences, KeptTypes, KeptEnd DEF KeptInv

-----------------------------------------------------------------------------
(* Both programs *)

(* Each program's invariant, while it is the one that runs.                 *)
BothInv ==
  /\ program = "kit" => ShellInv
  /\ program = "stage0" => KeptInv

(* Whichever program starts, its invariant holds.                           *)
LEMMA InitBoth == MCInit => BothInv
  BY InitKit, InitKept DEF MCInit, BothInv

(* A step is one of the chosen program's; the other one's never runs.       *)
LEMMA NextBoth == BothInv /\ [MCNext]_MCVars => BothInv'
<1> SUFFICES ASSUME BothInv, [MCNext]_MCVars PROVE BothInv'
  OBVIOUS
<1>1. CASE program = "kit" /\ program' = program /\ [Next]_vars
  BY <1>1, NextKit DEF BothInv
<1>2. CASE program = "stage0" /\ program' = program /\ [Kept!Next]_(Kept!vars)
  BY <1>2, NextKept DEF BothInv
<1>3. CASE UNCHANGED MCVars
  <2>1. program' = program /\ UNCHANGED vars /\ UNCHANGED Kept!vars
    BY <1>3 DEF MCVars, vars, options, loop, remote, onlyKept, Kept!vars, Kept!options,
                Kept!terminal, Kept!clocks, Kept!flags, Kept!input
  <2> QED BY <2>1, NextKit, NextKept DEF BothInv
<1>4. ASSUME MCNext
      PROVE  \/ program = "kit" /\ program' = program /\ [Next]_vars
             \/ program = "stage0" /\ program' = program /\ [Kept!Next]_(Kept!vars)
  BY <1>4 DEF MCNext, Shell, Stage0, Next, Host, Target, Kept!Next, Kept!Loop
<1> QED BY <1>1, <1>2, <1>3, <1>4

(* The invariant holds of every state. *)
THEOREM SpecBothInv == MCSpec => []BothInv
  BY InitBoth, NextBoth, PTL DEF MCSpec

(* The kit's lines are paced by the prompt, and a detach comes last.        *)
THEOREM SpecConsoleInv == MCSpec => []ConsoleInv
<1>1. BothInv => ConsoleInv
  BY DEF BothInv, ShellInv, Types, ConsoleInv
<1> QED BY <1>1, SpecBothInv, PTL

(* However the stage-0 console ends, the user's terminal has its modes      *)
(* back, and an idle target is reported only after that much silence.       *)
THEOREM SpecFollowInv == MCSpec => []FollowInv
<1>1. BothInv => FollowInv
  BY DEF BothInv, KeptInv, FollowInv
<1> QED BY <1>1, SpecBothInv, PTL
-----------------------------------------------------------------------------
(* The launcher: its invariant *)

(* The checksums are written last, over a directory that is complete.       *)
BuildInv ==
  /\ BuildTypeOK
  /\ build = "copy" <=> copying # "none"
  /\ build \in {"idle", "check", "copy"} => sums = NoSums
  /\ build \in {"sums", "done"} => ReadyToSum
  /\ build = "sums" => sums = Nothing
  /\ build = "stopped" => sums \in {NoSums, Nothing}
  /\ build = "done" => sums = kit

(* Before a launcher has written the checksums of its own directory.        *)
NoDirectory == {"idle", "verify", "payloads", "driver"}
NoSumsYet == NoDirectory \union {"copy"}
RootSums(r) == IF root[r] = Kit THEN sums ELSE dirSums[root[r]]

(* A launcher starts on a finished kit, makes its directory once, and the   *)
(* checksums it copies are those it has verified: they may go, with the     *)
(* directory they are in, but nobody rewrites them.                         *)
LauncherInv(r) ==
  /\ launcher[r] # "idle" => build \in {"done", "stopped"}
  /\ launcher[r] \in NoDirectory => dir[r] = Absent
  /\ launcher[r] \in NoSumsYet => dirSums[r] = NoSums
  /\ launcher[r] \in {"copy", "recheck", "spawn"} => dir[r] \in [Files -> Contents]
  /\ launcher[r] \in {"payloads", "copy"} =>
       /\ RootSums(r) = NoSums \/ Listed(RootSums(r)) = entries[r]
       /\ root[r] # Kit => launcher[root[r]] \notin NoSumsYet
  /\ launcher[r] \in {"recheck", "spawn"} => Listed(dirSums[r]) = entries[r]
  /\ launcher[r] = "spawn" => Verifies(dir[r], dirSums[r])
  /\ console[r] # "none" => launcher[r] \in {"closing", "exited", "killed"}
  /\ launcher[r] = "closing" => console[r] # "none"

(* A console keeps what it verified until it cleans up; one started by hand *)
(* has no directory and uses the kit itself, which is not built again.      *)
Staged(r) == Verifies(dir[r], dirSums[r]) /\ Listed(dirSums[r]) = entries[r]
Upload(r) == IF mode[r] = "byhand" THEN kit ELSE dir[r]
SessionInv(r) ==
  /\ mode[r] = "byhand" => /\ root[r] = Kit /\ launcher[r] = "exited"
                           /\ dir[r] = Absent /\ console[r] # "none"
  /\ mode[r] # "byhand" /\ console[r] \in Active => Staged(r)
  /\ mode[r] # "byhand" /\ console[r] \in Active \union {"cleanup"} => dir[r] # Absent
  /\ console[r] \in {"logs", "switch", "load"} => PayloadsRight(Upload(r))
  /\ loaded[r] # "other"
  /\ dir[r] # Absent =>
       \/ launcher[r] \in {"copy", "recheck", "spawn", "failed", "killed"}
       \/ console[r] \in Active \union {"cleanup", "stuck", "killed"}

StagingInv ==
  /\ StagingTypeOK /\ BuildInv
  /\ \A r \in Runs : LauncherInv(r) /\ SessionInv(r)

-----------------------------------------------------------------------------
(* The builder *)

(* "none" stands for no file.                                               *)
LEMMA NoneIsNoFile == "none" \notin Files
  BY KitAssumption DEF Files

(* An empty kit and an empty manifest are of their types.                   *)
LEMMA NothingIsKit == Nothing \in [Files -> Contents] /\ Nothing \in Sums /\ NoSums \in Sums
  BY DEF Nothing, Contents, Found, Sums

(* No kit is there before a build.                                          *)
LEMMA InitBuild == BuildInit => BuildInv
  BY NothingIsKit DEF BuildInit, BuildInv, BuildTypeOK, ReadyToSum

(* Each step of the builder keeps the manifest that of the files.           *)
LEMMA BuildStep == BuildInv /\ [BuildNext]_buildVars => BuildInv'
<1> SUFFICES ASSUME BuildInv, [BuildNext]_buildVars PROVE BuildInv'
  OBVIOUS
<1> USE NoneIsNoFile, NothingIsKit
<1>0. /\ kit \in [Files -> Contents] /\ sums \in Sums /\ copying \in Files \union {"none"}
      /\ build = "copy" => copying \in Files
  BY DEF BuildInv, BuildTypeOK
<1>1. CASE StartBuild
  BY <1>0, <1>1 DEF StartBuild, BuildInv, BuildTypeOK, ReadyToSum
<1>2. CASE CopySource
  <2>1. PICK c \in Found : /\ kit' = [kit EXCEPT ![copying] = c]
                           /\ build' = IF c = "none" THEN "stopped" ELSE "check"
    BY <1>2 DEF CopySource
  <2>2. kit' \in [Files -> Contents] /\ build = "copy" /\ copying' = "none" /\ sums' = sums
    BY <1>0, <1>2, <2>1 DEF CopySource, Contents
  <2> QED BY <1>0, <2>1, <2>2 DEF BuildInv, BuildTypeOK, ReadyToSum
<1>3. CASE CreateSums
  BY <1>0, <1>3 DEF CreateSums, BuildInv, BuildTypeOK, ReadyToSum
<1>4. CASE FillSums
  BY <1>0, <1>4 DEF FillSums, BuildInv, BuildTypeOK, ReadyToSum, Sums
<1>5. CASE BuildDies
  <2>1. kit' \in [Files -> Contents]
    BY <1>0, <1>5 DEF BuildDies, Contents
  <2> QED BY <1>0, <1>5, <2>1 DEF BuildDies, BuildInv, BuildTypeOK, ReadyToSum
<1>6. ASSUME NEW f \in Files, CheckSource(f) PROVE BuildInv'
  BY <1>0, <1>6 DEF CheckSource, BuildInv, BuildTypeOK, ReadyToSum
<1>7. CASE UNCHANGED buildVars
  BY <1>7 DEF buildVars, BuildInv, BuildTypeOK, ReadyToSum
<1> QED BY <1>1, <1>2, <1>3, <1>4, <1>5, <1>6, <1>7 DEF BuildNext

(* A directory that was left half built does not verify. *)
LEMMA HalfBuilt == BuildInv => HalfBuiltRefused
<1> SUFFICES ASSUME BuildInv, Verifies(kit, sums) PROVE build = "done" /\ Listed(sums) = Files
  BY DEF HalfBuiltRefused
<1>1. Listed(Nothing) = {}
  BY DEF Listed, Nothing
<1>2. sums # NoSums /\ sums # Nothing
  BY <1>1 DEF Verifies
<1>3. build = "done" /\ sums = kit /\ ReadyToSum /\ kit \in [Files -> Contents]
  BY <1>2 DEF BuildInv, BuildTypeOK
<1> QED BY <1>3 DEF ReadyToSum, Listed

-----------------------------------------------------------------------------
(* What a process sees *)

(* A process reads files and a manifest of their types, staged or not.      *)
LEMMA Seen ==
  ASSUME StagingInv, NEW x \in {Kit} \union Runs
  PROVE  FilesAt(x) \in [Files -> Contents] /\ SumsAt(x) \in Sums
  BY NothingIsKit, RunsAssumption
  DEF StagingInv, StagingTypeOK, BuildTypeOK, BuildInv, FilesAt, SumsAt, Sums, Absent

(* A manifest lists files of the kit only.                                  *)
LEMMA ListedFiles == ASSUME NEW s \in Sums PROVE Listed(s) \subseteq Files
<1>1. DOMAIN NoSums = {}
  BY DEF NoSums
<1> QED BY <1>1 DEF Listed, Sums

(* Payloads that are right are there. *)
LEMMA RightAreThere ==
  ASSUME StagingInv, NEW x \in {Kit} \union Runs, PayloadsRight(FilesAt(x))
  PROVE  /\ x = Kit => FilesAt(x) = kit
         /\ x # Kit => FilesAt(x) = dir[x]
<1>1. PICK f \in Payload : TRUE
  BY KitAssumption
<1>2. Nothing[f] # "right"
  BY <1>1 DEF Nothing, Files
<1>3. FilesAt(x) # Nothing
  BY <1>2 DEF PayloadsRight
<1> QED BY <1>3 DEF FilesAt

-----------------------------------------------------------------------------
(* The steps of a run *)

(* Nothing of another run changes, and the kit stays as it was built.       *)
OnlyRun(r) ==
  /\ UNCHANGED <<kit, sums, build, copying>>
  /\ \A p \in Runs \ {r} :
       /\ root'[p] = root[p] /\ mode'[p] = mode[p] /\ launcher'[p] = launcher[p]
       /\ entries'[p] = entries[p] /\ console'[p] = console[p]
       /\ dir'[p] = dir[p] /\ dirSums'[p] = dirSums[p] /\ loaded'[p] = loaded[p]

(* Checksums are written once; afterwards they can only go.                 *)
SumsOnce(r) == /\ dirSums'[r] \in {dirSums[r], NoSums} \/ launcher[r] \in NoSumsYet
               /\ launcher'[r] \in NoSumsYet => launcher[r] \in NoSumsYet

(* What a run does with its own directory disturbs no other.                *)
LEMMA OtherRun ==
  ASSUME StagingInv, NEW r \in Runs, OnlyRun(r), SumsOnce(r), NEW q \in Runs \ {r}
  PROVE  LauncherInv(q)' /\ SessionInv(q)'
<1>1. LauncherInv(q) /\ SessionInv(q) /\ q # r /\ root[q] \in {Kit} \union Runs
  BY DEF StagingInv, StagingTypeOK
<1>2. UNCHANGED <<kit, sums, build>> /\ (root[q] = Kit => RootSums(q)' = RootSums(q))
      /\ root'[q] = root[q] /\ mode'[q] = mode[q] /\ launcher'[q] = launcher[q]
      /\ entries'[q] = entries[q] /\ console'[q] = console[q]
      /\ dir'[q] = dir[q] /\ dirSums'[q] = dirSums[q] /\ loaded'[q] = loaded[q]
  BY <1>1 DEF OnlyRun, RootSums
<1>3. ASSUME launcher[q] \in {"payloads", "copy"}
      PROVE  /\ RootSums(q)' = NoSums \/ Listed(RootSums(q)') = entries[q]
             /\ root[q] # Kit => launcher'[root[q]] \notin NoSumsYet
  <2>1. /\ RootSums(q) = NoSums \/ Listed(RootSums(q)) = entries[q]
        /\ root[q] # Kit => launcher[root[q]] \notin NoSumsYet
    BY <1>1, <1>3 DEF LauncherInv
  <2>2. CASE root[q] = Kit
    BY <1>2, <2>1, <2>2
  <2>3. CASE root[q] # Kit
    <3>1. dirSums'[root[q]] \in {dirSums[root[q]], NoSums}
      BY <1>1, <2>1, <2>3 DEF OnlyRun, SumsOnce
    <3>2. launcher'[root[q]] \notin NoSumsYet
      BY <1>1, <2>1, <2>3 DEF OnlyRun, SumsOnce
    <3> QED BY <1>2, <2>1, <2>3, <3>1, <3>2 DEF RootSums
  <2> QED BY <2>2, <2>3
<1>4. LauncherInv(q)'
  BY <1>1, <1>2, <1>3 DEF LauncherInv
<1>5. SessionInv(q)'
  BY <1>1, <1>2 DEF SessionInv, Staged, Upload
<1> QED BY <1>4, <1>5

(* So a run's step is a matter of that run. *)
LEMMA RunStep ==
  ASSUME StagingInv, NEW r \in Runs, OnlyRun(r), SumsOnce(r), StagingTypeOK',
         LauncherInv(r)', SessionInv(r)'
  PROVE  StagingInv'
<1>1. BuildInv'
  BY DEF StagingInv, BuildInv, BuildTypeOK, ReadyToSum, OnlyRun
<1>2. \A q \in Runs : LauncherInv(q)' /\ SessionInv(q)'
  BY OtherRun
<1> QED BY <1>1, <1>2 DEF StagingInv

(* The entries are those of checksums that stand at the root of the run. *)
LEMMA VerifyManifestStep ==
  ASSUME StagingInv, NEW r \in Runs, VerifyManifest(r)
  PROVE  StagingInv'
<1> USE DEF VerifyManifest, LauncherStep, ConsoleStep, world, how, buildVars, disk
<1>0. StagingTypeOK /\ LauncherInv(r) /\ SessionInv(r)
  BY DEF StagingInv
<1>1. OnlyRun(r)
  BY <1>0 DEF StagingTypeOK, OnlyRun, LogsLost, RemoveTree
<1>2. SumsOnce(r)
  BY <1>0 DEF StagingTypeOK, SumsOnce, RemoveTree, NoSumsYet, NoDirectory
<1>3. StagingTypeOK'
  <2>1. root[r] \in {Kit} \union Runs
    BY <1>0 DEF StagingTypeOK
  <2>2. Listed(SumsAt(root[r])) \in SUBSET Files
    BY <2>1, Seen, ListedFiles
  <2>3. entries' \in [Runs -> SUBSET Files]
    BY <1>0, <2>2 DEF StagingTypeOK
  <2> QED BY <1>0, <2>3 DEF StagingTypeOK, BuildTypeOK
<1>4. LauncherInv(r)'
  <2>1. SumsAt(root[r]) # NoSums =>
          /\ SumsAt(root[r]) = RootSums(r) /\ root[r] \in {Kit} \union Runs
          /\ root[r] # Kit => launcher[root[r]] \notin NoSumsYet
    BY <1>0 DEF StagingTypeOK, StagingInv, LauncherInv, SumsAt, RootSums
  <2>2. CASE Verifies(FilesAt(root[r]), SumsAt(root[r]))
    <3>1. SumsAt(root[r]) # NoSums
      BY <2>2 DEF Verifies
    <3>2. root[r] # r
      BY <1>0, <2>1, <3>1, RunsAssumption DEF NoSumsYet, NoDirectory
    <3>3. launcher'[r] = "payloads" /\ entries'[r] = Listed(RootSums(r)) /\ launcher[r] = "verify"
      BY <1>0, <2>1, <2>2, <3>1 DEF StagingTypeOK
    <3>4. RootSums(r)' = RootSums(r)
      BY DEF RootSums
    <3>5. root[r] # Kit => launcher'[root[r]] \notin NoSumsYet
      BY <1>0, <2>1, <3>1, <3>2 DEF StagingTypeOK
    <3> QED BY <1>0, <3>3, <3>4, <3>5 DEF StagingTypeOK, LauncherInv, NoSumsYet, NoDirectory
  <2>3. CASE ~Verifies(FilesAt(root[r]), SumsAt(root[r]))
    BY <1>0, <2>3 DEF StagingTypeOK, LauncherInv, NoSumsYet, NoDirectory
  <2> QED BY <2>2, <2>3
<1>5. SessionInv(r)'
  BY <1>0 DEF StagingTypeOK, SessionInv, LauncherInv, Staged, Upload, Active
<1> QED BY <1>1, <1>2, <1>3, <1>4, <1>5, RunStep

(* mkdir() makes a new directory, with nothing in it. *)
LEMMA VerifyPayloadsStep ==
  ASSUME StagingInv, NEW r \in Runs, VerifyPayloads(r)
  PROVE  StagingInv'
<1> USE DEF VerifyPayloads, LauncherStep, ConsoleStep, world, how, buildVars, disk
<1>0. StagingTypeOK /\ LauncherInv(r) /\ SessionInv(r)
  BY DEF StagingInv
<1>1. OnlyRun(r)
  BY <1>0 DEF StagingTypeOK, OnlyRun, LogsLost, RemoveTree
<1>2. SumsOnce(r)
  BY <1>0 DEF StagingTypeOK, SumsOnce, RemoveTree, NoSumsYet, NoDirectory
<1>3. StagingTypeOK'
  BY <1>0, Seen, ListedFiles, NothingIsKit DEF StagingTypeOK, BuildTypeOK, Active, RemoveTree,
     LogsLost, Absent, Modes
<1>4. LauncherInv(r)'
  <2>1. /\ launcher[r] = "payloads" /\ dir[r] = Absent /\ RootSums(r)' = RootSums(r)
        /\ RootSums(r) = NoSums \/ Listed(RootSums(r)) = entries[r]
        /\ root[r] # Kit => root[r] \in Runs /\ launcher[root[r]] \notin NoSumsYet
    BY <1>0 DEF StagingTypeOK, LauncherInv, RootSums, NoDirectory
  <2>2. root[r] # r \/ root[r] = Kit
    BY <2>1 DEF NoSumsYet, NoDirectory
  <2>3. launcher'[r] \in {"failed", "driver", "exited", "copy"}
        /\ \A p \in Runs \ {r} : launcher'[p] = launcher[p]
    BY <1>0 DEF StagingTypeOK
  <2>4. root[r] # Kit => launcher'[root[r]] \notin NoSumsYet
    BY <2>1, <2>2, <2>3
  <2>5. launcher'[r] = "copy" => dir'[r] = Nothing
    BY <1>0 DEF StagingTypeOK
  <2>6. launcher'[r] # "copy" => dir' = dir
    BY <1>0 DEF StagingTypeOK
  <2> QED BY <1>0, <2>1, <2>3, <2>4, <2>5, <2>6, NothingIsKit
      DEF LauncherInv, NoSumsYet, NoDirectory
<1>5. SessionInv(r)'
  BY <1>0 DEF StagingTypeOK, SessionInv, LauncherInv, Staged, Upload, Active
<1> QED BY <1>1, <1>2, <1>3, <1>4, <1>5, RunStep

(* The driver comes from the kit; nothing is staged. *)
LEMMA InstallDriverStep ==
  ASSUME StagingInv, NEW r \in Runs, InstallDriver(r)
  PROVE  StagingInv'
<1> USE DEF InstallDriver, LauncherStep, ConsoleStep, world, how, buildVars, disk
<1>0. StagingTypeOK /\ LauncherInv(r) /\ SessionInv(r)
  BY DEF StagingInv
<1>1. OnlyRun(r)
  BY <1>0 DEF StagingTypeOK, OnlyRun, LogsLost, RemoveTree
<1>2. SumsOnce(r)
  BY <1>0 DEF StagingTypeOK, SumsOnce, RemoveTree, NoSumsYet, NoDirectory
<1>3. StagingTypeOK'
  BY <1>0, Seen, ListedFiles, NothingIsKit DEF StagingTypeOK, BuildTypeOK, Active, RemoveTree,
     LogsLost, Absent, Modes
<1>4. LauncherInv(r)'
  BY <1>0 DEF StagingTypeOK, LauncherInv, RootSums, NoSumsYet, NoDirectory
<1>5. SessionInv(r)'
  BY <1>0 DEF StagingTypeOK, SessionInv, LauncherInv, Staged, Upload, Active
<1> QED BY <1>1, <1>2, <1>3, <1>4, <1>5, RunStep

(* The copied checksums list what was verified. *)
LEMMA CopySumsStep ==
  ASSUME StagingInv, NEW r \in Runs, CopySums(r)
  PROVE  StagingInv'
<1> USE DEF CopySums, LauncherStep, ConsoleStep, world, how, buildVars, disk
<1>0. StagingTypeOK /\ LauncherInv(r) /\ SessionInv(r)
  BY DEF StagingInv
<1>1. OnlyRun(r)
  BY <1>0 DEF StagingTypeOK, OnlyRun, LogsLost, RemoveTree
<1>2. SumsOnce(r)
  BY <1>0 DEF StagingTypeOK, SumsOnce, RemoveTree, NoSumsYet, NoDirectory
<1>3. StagingTypeOK'
  <2>1. SumsAt(root[r]) \in Sums
    BY <1>0, Seen DEF StagingTypeOK
  <2> QED BY <1>0, <2>1 DEF StagingTypeOK, BuildTypeOK
<1>4. LauncherInv(r)'
  <2>1. SumsAt(root[r]) # NoSums =>
          /\ SumsAt(root[r]) = RootSums(r) /\ root[r] \in {Kit} \union Runs
          /\ root[r] # Kit => launcher[root[r]] \notin NoSumsYet
    BY <1>0 DEF StagingTypeOK, StagingInv, LauncherInv, SumsAt, RootSums
  <2>2. launcher[r] = "copy" /\ (RootSums(r) = NoSums \/ Listed(RootSums(r)) = entries[r])
    BY <1>0 DEF LauncherInv
  <2>3. launcher'[r] = "recheck" => dirSums'[r] = SumsAt(root[r]) /\ SumsAt(root[r]) # NoSums
    BY <1>0 DEF StagingTypeOK
  <2> QED BY <1>0, <2>1, <2>2, <2>3 DEF StagingTypeOK, LauncherInv, NoSumsYet, NoDirectory
<1>5. SessionInv(r)'
  BY <1>0 DEF StagingTypeOK, SessionInv, LauncherInv, Staged, Upload, Active
<1> QED BY <1>1, <1>2, <1>3, <1>4, <1>5, RunStep

(* Only a copy that verifies gets a console. *)
LEMMA RecheckStep ==
  ASSUME StagingInv, NEW r \in Runs, Recheck(r)
  PROVE  StagingInv'
<1> USE DEF Recheck, LauncherStep, ConsoleStep, world, how, buildVars, disk
<1>0. StagingTypeOK /\ LauncherInv(r) /\ SessionInv(r)
  BY DEF StagingInv
<1>1. OnlyRun(r)
  BY <1>0 DEF StagingTypeOK, OnlyRun, LogsLost, RemoveTree
<1>2. SumsOnce(r)
  BY <1>0 DEF StagingTypeOK, SumsOnce, RemoveTree, NoSumsYet, NoDirectory
<1>3. StagingTypeOK'
  BY <1>0, Seen, ListedFiles, NothingIsKit DEF StagingTypeOK, BuildTypeOK, Active, RemoveTree,
     LogsLost, Absent, Modes
<1>4. LauncherInv(r)'
  BY <1>0 DEF StagingTypeOK, LauncherInv, RootSums, NoSumsYet, NoDirectory
<1>5. SessionInv(r)'
  BY <1>0 DEF StagingTypeOK, SessionInv, LauncherInv, Staged, Upload, Active
<1> QED BY <1>1, <1>2, <1>3, <1>4, <1>5, RunStep

(* The console finds what the launcher has verified. *)
LEMMA SpawnStep ==
  ASSUME StagingInv, NEW r \in Runs, Spawn(r)
  PROVE  StagingInv'
<1> USE DEF Spawn, LauncherStep, ConsoleStep, world, how, buildVars, disk
<1>0. StagingTypeOK /\ LauncherInv(r) /\ SessionInv(r)
  BY DEF StagingInv
<1>1. OnlyRun(r)
  BY <1>0 DEF StagingTypeOK, OnlyRun, LogsLost, RemoveTree
<1>2. SumsOnce(r)
  BY <1>0 DEF StagingTypeOK, SumsOnce, RemoveTree, NoSumsYet, NoDirectory
<1>3. StagingTypeOK'
  BY <1>0, Seen, ListedFiles, NothingIsKit DEF StagingTypeOK, BuildTypeOK, Active, RemoveTree,
     LogsLost, Absent, Modes
<1>4. LauncherInv(r)'
  BY <1>0 DEF StagingTypeOK, LauncherInv, RootSums, NoSumsYet, NoDirectory
<1>5. SessionInv(r)'
  <2>1. /\ launcher[r] = "spawn" /\ mode[r] # "byhand" /\ Staged(r)
        /\ dir[r] \in [Files -> Contents] /\ dir[r] # Absent
    <3>1. launcher[r] = "spawn" /\ Staged(r) /\ dir[r] \in [Files -> Contents]
          /\ mode[r] # "byhand"
      BY <1>0 DEF LauncherInv, SessionInv, Staged
    <3>2. \E f \in Files : TRUE
      BY KitAssumption DEF Files
    <3>3. Absent \notin [Files -> Contents]
      BY <3>2 DEF Absent, NoSums
    <3> QED BY <3>1, <3>3
  <2>2. console'[r] = "verify" /\ launcher'[r] = "closing"
    BY <1>0 DEF StagingTypeOK
  <2> QED BY <1>0, <2>1, <2>2 DEF SessionInv, Staged, Active
<1> QED BY <1>1, <1>2, <1>3, <1>4, <1>5, RunStep

(* The launcher leaves the directory to its console. *)
LEMMA LauncherExitsStep ==
  ASSUME StagingInv, NEW r \in Runs, LauncherExits(r)
  PROVE  StagingInv'
<1> USE DEF LauncherExits, LauncherStep, ConsoleStep, world, how, buildVars, disk
<1>0. StagingTypeOK /\ LauncherInv(r) /\ SessionInv(r)
  BY DEF StagingInv
<1>1. OnlyRun(r)
  BY <1>0 DEF StagingTypeOK, OnlyRun, LogsLost, RemoveTree
<1>2. SumsOnce(r)
  BY <1>0 DEF StagingTypeOK, SumsOnce, RemoveTree, NoSumsYet, NoDirectory
<1>3. StagingTypeOK'
  BY <1>0, Seen, ListedFiles, NothingIsKit DEF StagingTypeOK, BuildTypeOK, Active, RemoveTree,
     LogsLost, Absent, Modes
<1>4. LauncherInv(r)'
  BY <1>0 DEF StagingTypeOK, LauncherInv, RootSums, NoSumsYet, NoDirectory
<1>5. SessionInv(r)'
  BY <1>0 DEF StagingTypeOK, SessionInv, LauncherInv, Staged, Upload, Active
<1> QED BY <1>1, <1>2, <1>3, <1>4, <1>5, RunStep

(* A killed launcher leaves its directory, or the console. *)
LEMMA LauncherKilledStep ==
  ASSUME StagingInv, NEW r \in Runs, LauncherKilled(r)
  PROVE  StagingInv'
<1> USE DEF LauncherKilled, LauncherStep, ConsoleStep, world, how, buildVars, disk
<1>0. StagingTypeOK /\ LauncherInv(r) /\ SessionInv(r)
  BY DEF StagingInv
<1>1. OnlyRun(r)
  BY <1>0 DEF StagingTypeOK, OnlyRun, LogsLost, RemoveTree
<1>2. SumsOnce(r)
  BY <1>0 DEF StagingTypeOK, SumsOnce, RemoveTree, NoSumsYet, NoDirectory
<1>3. StagingTypeOK'
  BY <1>0, Seen, ListedFiles, NothingIsKit DEF StagingTypeOK, BuildTypeOK, Active, RemoveTree,
     LogsLost, Absent, Modes
<1>4. LauncherInv(r)'
  BY <1>0 DEF StagingTypeOK, LauncherInv, RootSums, NoSumsYet, NoDirectory
<1>5. SessionInv(r)'
  BY <1>0 DEF StagingTypeOK, SessionInv, LauncherInv, Staged, Upload, Active
<1> QED BY <1>1, <1>2, <1>3, <1>4, <1>5, RunStep

(* The console verifies again what nobody has changed. *)
LEMMA ConsoleVerifiesStep ==
  ASSUME StagingInv, NEW r \in Runs, ConsoleVerifies(r)
  PROVE  StagingInv'
<1> USE DEF ConsoleVerifies, LauncherStep, ConsoleStep, world, how, buildVars, disk
<1>0. StagingTypeOK /\ LauncherInv(r) /\ SessionInv(r)
  BY DEF StagingInv
<1>1. OnlyRun(r)
  BY <1>0 DEF StagingTypeOK, OnlyRun, LogsLost, RemoveTree
<1>2. SumsOnce(r)
  BY <1>0 DEF StagingTypeOK, SumsOnce, RemoveTree, NoSumsYet, NoDirectory
<1>3. StagingTypeOK'
  BY <1>0, Seen, ListedFiles, NothingIsKit DEF StagingTypeOK, BuildTypeOK, Active, RemoveTree,
     LogsLost, Absent, Modes
<1>4. LauncherInv(r)'
  BY <1>0 DEF StagingTypeOK, LauncherInv, RootSums, NoSumsYet, NoDirectory
<1>5. SessionInv(r)'
  BY <1>0 DEF StagingTypeOK, SessionInv, LauncherInv, Staged, Upload, Active
<1> QED BY <1>1, <1>2, <1>3, <1>4, <1>5, RunStep

(* It goes on with payloads that are right. *)
LEMMA ConsolePayloadsStep ==
  ASSUME StagingInv, NEW r \in Runs, ConsolePayloads(r)
  PROVE  StagingInv'
<1> USE DEF ConsolePayloads, LauncherStep, ConsoleStep, world, how, buildVars, disk
<1>0. StagingTypeOK /\ LauncherInv(r) /\ SessionInv(r)
  BY DEF StagingInv
<1>1. OnlyRun(r)
  BY <1>0 DEF StagingTypeOK, OnlyRun, LogsLost, RemoveTree
<1>2. SumsOnce(r)
  BY <1>0 DEF StagingTypeOK, SumsOnce, RemoveTree, NoSumsYet, NoDirectory
<1>3. StagingTypeOK'
  BY <1>0, Seen, ListedFiles, NothingIsKit DEF StagingTypeOK, BuildTypeOK, Active, RemoveTree,
     LogsLost, Absent, Modes
<1>4. LauncherInv(r)'
  BY <1>0 DEF StagingTypeOK, LauncherInv, RootSums, NoSumsYet, NoDirectory
<1>5. SessionInv(r)'
  <2>1. PayloadsRight(FilesAt(Home(r))) => PayloadsRight(Upload(r))
    <3>1. Home(r) \in {Kit} \union Runs /\ (Home(r) = Kit <=> mode[r] = "byhand")
          /\ (mode[r] # "byhand" => Home(r) = r)
      BY <1>0, RunsAssumption DEF StagingTypeOK, SessionInv, Home
    <3> QED BY <3>1, RightAreThere DEF Upload
  <2> QED BY <1>0, <2>1 DEF StagingTypeOK, SessionInv, Staged, Upload, Active
<1> QED BY <1>1, <1>2, <1>3, <1>4, <1>5, RunStep

(* Logs leave the directory as it is. *)
LEMMA MakeLogsStep ==
  ASSUME StagingInv, NEW r \in Runs, MakeLogs(r)
  PROVE  StagingInv'
<1> USE DEF MakeLogs, LauncherStep, ConsoleStep, world, how, buildVars, disk
<1>0. StagingTypeOK /\ LauncherInv(r) /\ SessionInv(r)
  BY DEF StagingInv
<1>1. OnlyRun(r)
  BY <1>0 DEF StagingTypeOK, OnlyRun, LogsLost, RemoveTree
<1>2. SumsOnce(r)
  BY <1>0 DEF StagingTypeOK, SumsOnce, RemoveTree, NoSumsYet, NoDirectory
<1>3. StagingTypeOK'
  BY <1>0, Seen, ListedFiles, NothingIsKit DEF StagingTypeOK, BuildTypeOK, Active, RemoveTree,
     LogsLost, Absent, Modes
<1>4. LauncherInv(r)'
  BY <1>0 DEF StagingTypeOK, LauncherInv, RootSums, NoSumsYet, NoDirectory
<1>5. SessionInv(r)'
  BY <1>0 DEF StagingTypeOK, SessionInv, LauncherInv, Staged, Upload, Active
<1> QED BY <1>1, <1>2, <1>3, <1>4, <1>5, RunStep

(* The switch takes the CD away, not the directory. *)
LEMMA SwitchStep ==
  ASSUME StagingInv, NEW r \in Runs, Switch(r)
  PROVE  StagingInv'
<1> USE DEF Switch, LauncherStep, ConsoleStep, world, how, buildVars, disk
<1>0. StagingTypeOK /\ LauncherInv(r) /\ SessionInv(r)
  BY DEF StagingInv
<1>1. OnlyRun(r)
  BY <1>0 DEF StagingTypeOK, OnlyRun, LogsLost, RemoveTree
<1>2. SumsOnce(r)
  BY <1>0 DEF StagingTypeOK, SumsOnce, RemoveTree, NoSumsYet, NoDirectory
<1>3. StagingTypeOK'
  BY <1>0, Seen, ListedFiles, NothingIsKit DEF StagingTypeOK, BuildTypeOK, Active, RemoveTree,
     LogsLost, Absent, Modes
<1>4. LauncherInv(r)'
  BY <1>0 DEF StagingTypeOK, LauncherInv, RootSums, NoSumsYet, NoDirectory
<1>5. SessionInv(r)'
  BY <1>0 DEF StagingTypeOK, SessionInv, LauncherInv, Staged, Upload, Active
<1> QED BY <1>1, <1>2, <1>3, <1>4, <1>5, RunStep

(* What is read for the upload is what was hashed. *)
LEMMA LoadStep ==
  ASSUME StagingInv, NEW r \in Runs, Load(r)
  PROVE  StagingInv'
<1> USE DEF Load, LauncherStep, ConsoleStep, world, how, buildVars, disk
<1>0. StagingTypeOK /\ LauncherInv(r) /\ SessionInv(r)
  BY DEF StagingInv
<1>1. OnlyRun(r)
  BY <1>0 DEF StagingTypeOK, OnlyRun, LogsLost, RemoveTree
<1>2. SumsOnce(r)
  BY <1>0 DEF StagingTypeOK, SumsOnce, RemoveTree, NoSumsYet, NoDirectory
<1>3. StagingTypeOK'
  BY <1>0, Seen, ListedFiles, NothingIsKit DEF StagingTypeOK, BuildTypeOK, Active, RemoveTree,
     LogsLost, Absent, Modes
<1>4. LauncherInv(r)'
  BY <1>0 DEF StagingTypeOK, LauncherInv, RootSums, NoSumsYet, NoDirectory
<1>5. SessionInv(r)'
  <2>1. ASSUME \A f \in Payload : FilesAt(Home(r))[f] # "none"
        PROVE  PayloadsRight(FilesAt(Home(r)))
    <3>1. Home(r) \in {Kit} \union Runs /\ (Home(r) = Kit <=> mode[r] = "byhand")
          /\ (mode[r] # "byhand" => Home(r) = r)
      BY <1>0, RunsAssumption DEF StagingTypeOK, SessionInv, Home
    <3>2. FilesAt(Home(r)) # Nothing
      BY <2>1, KitAssumption DEF Nothing, Files
    <3>3. FilesAt(Home(r)) = Upload(r)
      BY <3>1, <3>2 DEF FilesAt, Upload
    <3>4. PayloadsRight(Upload(r))
      BY <1>0 DEF SessionInv
    <3> QED BY <3>3, <3>4
  <2> QED BY <1>0, <2>1 DEF StagingTypeOK, SessionInv, Staged, Upload, Active
<1> QED BY <1>1, <1>2, <1>3, <1>4, <1>5, RunStep

(* Whatever ends a session, the clean-up comes next. *)
LEMMA ConsoleEndsStep ==
  ASSUME StagingInv, NEW r \in Runs, ConsoleEnds(r)
  PROVE  StagingInv'
<1> USE DEF ConsoleEnds, LauncherStep, ConsoleStep, world, how, buildVars, disk
<1>0. StagingTypeOK /\ LauncherInv(r) /\ SessionInv(r)
  BY DEF StagingInv
<1>1. OnlyRun(r)
  BY <1>0 DEF StagingTypeOK, OnlyRun, LogsLost, RemoveTree
<1>2. SumsOnce(r)
  BY <1>0 DEF StagingTypeOK, SumsOnce, RemoveTree, NoSumsYet, NoDirectory
<1>3. StagingTypeOK'
  BY <1>0, Seen, ListedFiles, NothingIsKit DEF StagingTypeOK, BuildTypeOK, Active, RemoveTree,
     LogsLost, Absent, Modes
<1>4. LauncherInv(r)'
  <2>1. launcher[r] \in {"closing", "exited", "killed"} /\ console'[r] # "none"
    BY <1>0 DEF StagingTypeOK, LauncherInv, Active, RemoveTree
  <2> QED BY <1>0, <2>1 DEF StagingTypeOK, LauncherInv, NoSumsYet, NoDirectory
<1>5. SessionInv(r)'
  BY <1>0 DEF StagingTypeOK, SessionInv, LauncherInv, Staged, Upload, Active
<1> QED BY <1>1, <1>2, <1>3, <1>4, <1>5, RunStep

(* A killed console leaves its directory. *)
LEMMA ConsoleKilledStep ==
  ASSUME StagingInv, NEW r \in Runs, ConsoleKilled(r)
  PROVE  StagingInv'
<1> USE DEF ConsoleKilled, LauncherStep, ConsoleStep, world, how, buildVars, disk
<1>0. StagingTypeOK /\ LauncherInv(r) /\ SessionInv(r)
  BY DEF StagingInv
<1>1. OnlyRun(r)
  BY <1>0 DEF StagingTypeOK, OnlyRun, LogsLost, RemoveTree
<1>2. SumsOnce(r)
  BY <1>0 DEF StagingTypeOK, SumsOnce, RemoveTree, NoSumsYet, NoDirectory
<1>3. StagingTypeOK'
  BY <1>0, Seen, ListedFiles, NothingIsKit DEF StagingTypeOK, BuildTypeOK, Active, RemoveTree,
     LogsLost, Absent, Modes
<1>4. LauncherInv(r)'
  <2>1. launcher[r] \in {"closing", "exited", "killed"} /\ console'[r] # "none"
    BY <1>0 DEF StagingTypeOK, LauncherInv, Active, RemoveTree
  <2> QED BY <1>0, <2>1 DEF StagingTypeOK, LauncherInv, NoSumsYet, NoDirectory
<1>5. SessionInv(r)'
  BY <1>0 DEF StagingTypeOK, SessionInv, LauncherInv, Staged, Upload, Active
<1> QED BY <1>1, <1>2, <1>3, <1>4, <1>5, RunStep

(* The clean-up removes the directory, or says that it could not. *)
LEMMA CleanupStep ==
  ASSUME StagingInv, NEW r \in Runs, Cleanup(r)
  PROVE  StagingInv'
<1> USE DEF Cleanup, LauncherStep, ConsoleStep, world, how, buildVars, disk
<1>0. StagingTypeOK /\ LauncherInv(r) /\ SessionInv(r)
  BY DEF StagingInv
<1>1. OnlyRun(r)
  BY <1>0 DEF StagingTypeOK, OnlyRun, LogsLost, RemoveTree
<1>2. SumsOnce(r)
  BY <1>0 DEF StagingTypeOK, SumsOnce, RemoveTree, NoSumsYet, NoDirectory
<1>3. StagingTypeOK'
  <2>1. CASE Home(r) = r
    <3>1. console' \in [Runs -> Active \union {"none", "cleanup", "gone", "stuck",
                                              "refused", "killed"}]
      BY <1>0, <2>1 DEF StagingTypeOK, RemoveTree
    <3>2. dir[r] \in [Files -> Contents]
      <4>1. console[r] = "cleanup" /\ mode[r] # "byhand" /\ dir[r] \in Sums
        BY <1>0, <2>1, RunsAssumption DEF StagingTypeOK, SessionInv, Home, RemoveTree
      <4> QED BY <1>0, <4>1 DEF SessionInv, Sums, Absent
    <3>3. dir' \in [Runs -> Sums]
      <4>1. CASE dir' = [dir EXCEPT ![r] = Absent]
        BY <1>0, <4>1, NothingIsKit DEF StagingTypeOK, Absent
      <4>2. ASSUME NEW lost \in SUBSET Files,
                   dir' = [dir EXCEPT ![r] = [f \in Files |-> IF f \in lost THEN "none" ELSE @[f]]]
            PROVE  dir' \in [Runs -> Sums]
        <5>1. [f \in Files |-> IF f \in lost THEN "none" ELSE dir[r][f]] \in [Files -> Contents]
          BY <3>2 DEF Contents, Found
        <5> QED BY <1>0, <4>2, <5>1 DEF StagingTypeOK, Sums
      <4>3. \/ dir' = [dir EXCEPT ![r] = Absent]
            \/ \E lost \in SUBSET Files :
                 dir' = [dir EXCEPT ![r] = [f \in Files |-> IF f \in lost THEN "none" ELSE @[f]]]
        <5>1. {Files} \union {{f} : f \in Files} \subseteq SUBSET Files
          OBVIOUS
        <5> QED BY <2>1, <5>1 DEF RemoveTree
      <4> QED BY <4>1, <4>2, <4>3
    <3>4. dirSums' \in [Runs -> Sums]
      BY <1>0, <2>1, NothingIsKit DEF StagingTypeOK, RemoveTree
    <3>5. logs' \in [Runs -> {"none", "kept", "deleted"}]
      BY <1>0, <2>1 DEF StagingTypeOK, RemoveTree, LogsLost
    <3> QED BY <1>0, <3>1, <3>3, <3>4, <3>5 DEF StagingTypeOK, BuildTypeOK
  <2>2. CASE Home(r) # r
    BY <1>0, <2>2 DEF StagingTypeOK, BuildTypeOK
  <2> QED BY <2>1, <2>2
<1>4. LauncherInv(r)'
  <2>1. launcher[r] \in {"closing", "exited", "killed"} /\ console'[r] # "none"
    BY <1>0 DEF StagingTypeOK, LauncherInv, Active, RemoveTree
  <2> QED BY <1>0, <2>1 DEF StagingTypeOK, LauncherInv, NoSumsYet, NoDirectory
<1>5. SessionInv(r)'
  <2>1. console[r] = "cleanup" /\ (Home(r) = r <=> mode[r] # "byhand")
    BY <1>0, RunsAssumption DEF StagingTypeOK, SessionInv, Home, RemoveTree
  <2>2. CASE Home(r) = r
    <3>1. (console'[r] = "gone" /\ dir'[r] = Absent) \/ console'[r] = "stuck"
      BY <1>0, <2>2 DEF StagingTypeOK, RemoveTree
    <3> QED BY <1>0, <2>1, <2>2, <3>1 DEF SessionInv, Active
  <2>3. CASE Home(r) # r
    <3>1. console'[r] = "refused" /\ UNCHANGED <<dir, dirSums>>
      BY <1>0, <2>3 DEF StagingTypeOK
    <3> QED BY <1>0, <2>1, <2>3, <3>1 DEF SessionInv, Active
  <2> QED BY <2>2, <2>3
<1> QED BY <1>1, <1>2, <1>3, <1>4, <1>5, RunStep

(* copyfile(): the new directory fills, and may hold what was not read well. *)
LEMMA CopyEntryStep ==
  ASSUME StagingInv, NEW r \in Runs, NEW f \in Files, CopyEntry(r, f)
  PROVE  StagingInv'
<1> USE DEF CopyEntry, LauncherStep, world, how, buildVars
<1>0. StagingTypeOK /\ LauncherInv(r) /\ SessionInv(r) /\ launcher[r] = "copy"
  BY DEF StagingInv
<1>1. \/ launcher' = launcher /\ \E c \in Contents : dir' = [dir EXCEPT ![r][f] = c]
      \/ launcher' = [launcher EXCEPT ![r] = "failed"] /\ dir' = dir
  <2>1. FilesAt(root[r])[f] \in Contents
    BY <1>0, Seen DEF StagingTypeOK
  <2>2. "damaged" \in Contents
    BY DEF Contents
  <2> QED BY <2>1, <2>2
<1>2. dir[r] \in [Files -> Contents] /\ console[r] = "none"
  BY <1>0 DEF LauncherInv
<1>3. OnlyRun(r)
  BY <1>0, <1>1 DEF StagingTypeOK, OnlyRun
<1>4. SumsOnce(r)
  BY <1>0, <1>1 DEF StagingTypeOK, SumsOnce, NoSumsYet, NoDirectory
<1>5. dir' \in [Runs -> Sums] /\ dir'[r] \in [Files -> Contents]
  <2>1. ASSUME NEW c \in Contents, dir' = [dir EXCEPT ![r][f] = c]
        PROVE  dir' \in [Runs -> Sums] /\ dir'[r] \in [Files -> Contents]
    <3>1. [dir[r] EXCEPT ![f] = c] \in [Files -> Contents]
      BY <1>2
    <3>2. dir' = [dir EXCEPT ![r] = [dir[r] EXCEPT ![f] = c]]
      BY <2>1
    <3> QED BY <1>0, <3>1, <3>2 DEF StagingTypeOK, Sums
  <2> QED BY <1>0, <1>1, <1>2, <2>1 DEF StagingTypeOK
<1>6. StagingTypeOK'
  BY <1>0, <1>1, <1>5 DEF StagingTypeOK, BuildTypeOK
<1>7. LauncherInv(r)'
  <2>1. root[r] # Kit => root[r] # r
    BY <1>0 DEF LauncherInv, NoSumsYet
  <2> QED BY <1>0, <1>1, <1>5, <2>1 DEF StagingTypeOK, LauncherInv, RootSums, NoSumsYet, NoDirectory
<1>8. SessionInv(r)'
  BY <1>0, <1>1, <1>2 DEF StagingTypeOK, SessionInv, Active
<1> QED BY <1>3, <1>4, <1>6, <1>7, <1>8, RunStep

(* A user starts the program on a finished kit or another run's directory.  *)
LEMMA StartStep ==
  ASSUME StagingInv, NEW r \in Runs, NEW where \in {Kit} \union Runs, NEW what \in Modes,
         Start(r, where, what)
  PROVE  StagingInv'
<1> USE DEF Start, buildVars, world, disk
<1>0. StagingTypeOK /\ LauncherInv(r) /\ SessionInv(r) /\ launcher[r] = "idle"
  BY DEF StagingInv
<1>1. OnlyRun(r)
  BY <1>0 DEF StagingTypeOK, OnlyRun
<1>2. SumsOnce(r)
  BY <1>0 DEF SumsOnce, NoSumsYet, NoDirectory
<1>3. StagingTypeOK'
  BY <1>0 DEF StagingTypeOK, BuildTypeOK, Active
<1>4. dir[r] = Absent /\ dirSums[r] = NoSums /\ console[r] = "none"
  BY <1>0 DEF LauncherInv, NoSumsYet, NoDirectory
<1>5. LauncherInv(r)'
  BY <1>0, <1>4 DEF StagingTypeOK, LauncherInv, NoSumsYet, NoDirectory
<1>6. SessionInv(r)'
  BY <1>0, <1>4 DEF StagingTypeOK, SessionInv, Active
<1> QED BY <1>1, <1>2, <1>3, <1>5, <1>6, RunStep

(* The builder works only while nobody has started.                         *)
LEMMA BuildingStep == ASSUME StagingInv, Building PROVE StagingInv'
<1> USE DEF Building, world, how, disk
<1>1. BuildInv' /\ BuildTypeOK'
  <2>1. BuildInv'
    BY BuildStep DEF StagingInv
  <2> QED BY <2>1 DEF BuildInv
<1>2. StagingTypeOK'
  BY <1>1 DEF StagingInv, StagingTypeOK
<1>3. build \notin {"done", "stopped"}
  BY DEF BuildNext, StartBuild, CopySource, CreateSums, FillSums, BuildDies, CheckSource
<1>4. ASSUME NEW r \in Runs PROVE LauncherInv(r)' /\ SessionInv(r)'
  <2>1. LauncherInv(r) /\ SessionInv(r)
    BY DEF StagingInv
  <2>2. launcher[r] = "idle"
    BY <1>3, <2>1 DEF LauncherInv
  <2>3. console[r] = "none" /\ mode[r] # "byhand"
    BY <2>1, <2>2 DEF LauncherInv, SessionInv
  <2>4. LauncherInv(r)'
    BY <2>1, <2>2 DEF LauncherInv, NoSumsYet, NoDirectory
  <2>5. SessionInv(r)'
    BY <2>1, <2>2, <2>3 DEF SessionInv, Active
  <2> QED BY <2>4, <2>5
<1> QED BY <1>1, <1>2, <1>4 DEF StagingInv

(* The CD comes back, or nothing happens. *)
LEMMA WorldStep ==
  ASSUME StagingInv, PowerCycle \/ UNCHANGED stagingVars
  PROVE  StagingInv'
<1> USE DEF PowerCycle, stagingVars, buildVars, how, disk, world
<1>1. UNCHANGED <<kit, sums, build, copying, root, mode, launcher, entries, console, dir,
                dirSums, loaded, logs, onCd>>
      /\ (modem' = modem \/ modem' = "normal")
  OBVIOUS
<1>2. StagingTypeOK' /\ BuildInv'
  BY <1>1 DEF StagingInv, StagingTypeOK, BuildInv, BuildTypeOK, ReadyToSum
<1>3. ASSUME NEW r \in Runs PROVE LauncherInv(r)' /\ SessionInv(r)'
  BY <1>1 DEF StagingInv, LauncherInv, SessionInv, RootSums, Staged, Upload
<1> QED BY <1>2, <1>3 DEF StagingInv

-----------------------------------------------------------------------------
(* The launcher: the theorems *)

(* Nothing runs and nothing is staged at first.                             *)
LEMMA InitStaging == StagingInit => StagingInv
<1> SUFFICES ASSUME StagingInit PROVE StagingInv
  OBVIOUS
<1>1. BuildInv
  BY InitBuild DEF StagingInit
<1>2. StagingTypeOK
  BY <1>1, NothingIsKit DEF StagingInit, StagingTypeOK, BuildInv, Modes, Absent, Active
<1>3. ASSUME NEW r \in Runs PROVE LauncherInv(r) /\ SessionInv(r)
  BY <1>3 DEF StagingInit, LauncherInv, SessionInv, NoSumsYet, NoDirectory, Active
<1> QED BY <1>1, <1>2, <1>3 DEF StagingInv

(* A step of the builder, of any run or of the user keeps the invariant.    *)
LEMMA NextStaging == StagingInv /\ [StagingNext]_stagingVars => StagingInv'
<1> SUFFICES ASSUME StagingInv, [StagingNext]_stagingVars PROVE StagingInv'
  OBVIOUS
<1>1. ASSUME NEW r \in Runs, LauncherNext(r) PROVE StagingInv'
  BY <1>1, VerifyManifestStep, VerifyPayloadsStep, InstallDriverStep, CopyEntryStep,
     CopySumsStep, RecheckStep, SpawnStep, LauncherExitsStep DEF LauncherNext
<1>2. ASSUME NEW r \in Runs, ConsoleNext(r) PROVE StagingInv'
  BY <1>2, ConsoleVerifiesStep, ConsolePayloadsStep, MakeLogsStep, SwitchStep, LoadStep,
     ConsoleEndsStep, CleanupStep DEF ConsoleNext
<1> QED BY <1>1, <1>2, StartStep, LauncherKilledStep, ConsoleKilledStep, BuildingStep,
           WorldStep DEF StagingNext

(* Any number of runs, of any kit, stay in the invariant. *)
THEOREM SpecStagingInv == StagingSpec => []StagingInv
  BY InitStaging, NextStaging, PTL DEF StagingSpec

(* Only the payloads whose hashes the program carries reach the modem, and  *)
(* a directory that the builder left half built does not verify.            *)
THEOREM SpecKitInv == StagingSpec => []KitInv
<1>1. StagingInv => KitInv
  BY HalfBuilt DEF StagingInv, KitInv, SessionInv, PayloadsExpected
<1> QED BY <1>1, SpecStagingInv, PTL

(* A staged console has the whole verified kit until it cleans up, whatever *)
(* happens to the CD and to the other runs.                                 *)
THEOREM SpecSessionComplete == StagingSpec => []SessionComplete
<1>1. StagingInv => SessionComplete
  <2> SUFFICES ASSUME StagingInv, NEW r \in Runs, console[r] \in Active, Home(r) = r
               PROVE  Staged(r)
    BY DEF SessionComplete, Staged
  <2>1. mode[r] # "byhand"
    BY RunsAssumption DEF StagingInv, SessionInv, Home
  <2> QED BY <2>1 DEF StagingInv, SessionInv
<1> QED BY <1>1, SpecStagingInv, PTL

(* A session directory is left over only after a removal that failed, a     *)
(* kill, or a launcher that failed before it had a console.                 *)
THEOREM SpecLeftoverExplained == StagingSpec => []LeftoverExplained
<1>1. StagingInv => LeftoverExplained
  BY DEF StagingInv, SessionInv, LeftoverExplained
<1> QED BY <1>1, SpecStagingInv, PTL

-----------------------------------------------------------------------------
(* The COM port *)

Off == {"normal", "off"}

Sorts ==
  /\ personality \in [Modems -> {"normal", "raw", "stage0", "linux", "off"}]
  /\ ports \in SUBSET Port /\ override \in SUBSET Port /\ picked \in SUBSET Port

(* A run has at most one port in hand, and the user gives it at most one.   *)
OnePort == (\A p, q \in picked : p = q) /\ (\A p, q \in override : p = q)

(* While the run goes on, the modem it switched alone is the only one that  *)
(* shows a downloader port, and it shows it from the boot ROM: a modem      *)
(* leaves the boot ROM only through a power cycle.                          *)
OneBootRom ==
  switched # {} /\ others = {} =>
    \A m \in Modems : /\ personality[m] \in Off \union {"raw"}
                      /\ personality[m] = "raw" => m \in switched

(* The port of an upload was listed, or given, as a downloader's.           *)
UploadPort == place = "upload" => \A p \in picked : p.face = "download"

SwitchInv == Sorts /\ OnePort /\ OneBootRom /\ UploadPort

(* The faces of a modem, one personality at a time.                         *)
LEMMA FacesOf ==
  ASSUME NEW m
  PROVE  /\ personality[m] = "normal" => Faces(m) = {"diag", "modem"}
         /\ personality[m] \in {"raw", "stage0", "linux"} => Faces(m) = {"download"}
         /\ personality[m] = "off" => Faces(m) = {}
  BY DEF Faces

(* There are finitely many ports.                                           *)
LEMMA PortsFinite == IsFiniteSet(Port)
<1> DEFINE face == {"diag", "modem", "download"}
           pairs == Modems \X face
           f == [x \in pairs |-> [modem |-> x[1], face |-> x[2]]]
<1>1. IsFiniteSet(face)
  <2>1. IsFiniteSet({"diag"}) /\ IsFiniteSet({"modem"}) /\ IsFiniteSet({"download"})
    BY FS_Singleton
  <2>2. IsFiniteSet({"diag"} \cup {"modem"})
    BY <2>1, FS_Union
  <2>3. IsFiniteSet(({"diag"} \cup {"modem"}) \cup {"download"})
    BY <2>1, <2>2, FS_Union
  <2>4. face = ({"diag"} \cup {"modem"}) \cup {"download"}
    OBVIOUS
  <2> QED BY <2>3, <2>4
<1>2. IsFiniteSet(pairs)
  BY <1>1, FS_Product, ModemsAssumption
<1>3. f \in [pairs -> Port]
  BY DEF Port
<1>4. \A p \in Port : \E x \in pairs : f[x] = p
  <2> SUFFICES ASSUME NEW p \in Port PROVE \E x \in pairs : f[x] = p
    OBVIOUS
  <2>1. <<p.modem, p.face>> \in pairs /\ p = [modem |-> p.modem, face |-> p.face]
    BY DEF Port
  <2> QED BY <2>1
<1>5. f \in Surjection(pairs, Port)
  BY <1>3, <1>4 DEF Surjection
<1> QED BY <1>2, <1>5, FS_Surjection

(* A set with one element, of a finite set, has no two.                     *)
LEMMA OnlyOneIsOne ==
  ASSUME NEW P \in SUBSET Port
  PROVE  OnlyOne(P) \in SUBSET P /\ \A p, q \in OnlyOne(P) : p = q
<1>1. IsFiniteSet(P)
  BY PortsFinite, FS_Subset
<1>2. Cardinality(P) = 1 => \E x : P = {x}
  BY <1>1, FS_Singleton
<1> QED BY <1>2 DEF OnlyOne

(* Every select function returns at most one port, and those that look for  *)
(* a downloader return a downloader's.                                      *)
LEMMA Selections ==
  ASSUME Sorts, OnePort
  PROVE  /\ SelectNormalDiag \in SUBSET Port
         /\ \A p, q \in SelectNormalDiag : p = q
         /\ SelectDownloader \in SUBSET Port
         /\ \A p, q \in SelectDownloader : p = q
         /\ \A p \in SelectDownloader : p.face = "download"
         /\ SelectObviousDownloader \in SUBSET Port
         /\ \A p, q \in SelectObviousDownloader : p = q
         /\ \A p \in SelectObviousDownloader : p.face = "download"
<1> DEFINE diags == {p \in ports : p.face = "diag"}
<1>1. diags \in SUBSET Port /\ DownloaderPorts \in SUBSET Port
      /\ Named(DownloaderPorts) \in SUBSET DownloaderPorts
  BY DEF Sorts, DownloaderPorts, Named
<1>2. \A p \in DownloaderPorts : p.face = "download"
  BY DEF DownloaderPorts
<1>3. \A face : /\ Given(face) \in SUBSET Port
                /\ \A p, q \in Given(face) : p = q
                /\ \A p \in Given(face) : p.face = face
  BY DEF Sorts, OnePort, Given
<1>4. OnlyOne(diags) \in SUBSET diags /\ \A p, q \in OnlyOne(diags) : p = q
  BY <1>1, OnlyOneIsOne
<1>5. OnlyOne(DownloaderPorts) \in SUBSET DownloaderPorts
      /\ \A p, q \in OnlyOne(DownloaderPorts) : p = q
  BY <1>1, OnlyOneIsOne
<1>6. OnlyOne(Named(DownloaderPorts)) \in SUBSET DownloaderPorts
      /\ \A p, q \in OnlyOne(Named(DownloaderPorts)) : p = q
  BY <1>1, OnlyOneIsOne
<1>7. OnlyOne(DownloaderPorts) # {} => OnlyOne(DownloaderPorts) = DownloaderPorts
  BY DEF OnlyOne
<1>8. SelectNormalDiag \in SUBSET Port /\ \A p, q \in SelectNormalDiag : p = q
  BY <1>1, <1>3, <1>4 DEF SelectNormalDiag
<1>9. /\ SelectDownloader \in SUBSET Port
      /\ \A p, q \in SelectDownloader : p = q
      /\ \A p \in SelectDownloader : p.face = "download"
  BY <1>1, <1>2, <1>3, <1>5, <1>6, <1>7 DEF SelectDownloader
<1>10. /\ SelectObviousDownloader \in SUBSET Port
       /\ \A p, q \in SelectObviousDownloader : p = q
       /\ \A p \in SelectObviousDownloader : p.face = "download"
  BY <1>1, <1>2, <1>3, <1>6 DEF SelectObviousDownloader
<1> QED BY <1>8, <1>9, <1>10

(* Nothing is picked or switched when the run begins.                       *)
LEMMA InitSwitch == SwitchInit => SwitchInv
  BY DEF SwitchInit, SwitchInv, Sorts, OnePort, OneBootRom, UploadPort

(* The modem that is switched has shown its port; it restarts in the boot   *)
(* ROM, and who else shows a downloader port then is kept in others.        *)
LEMMA SendDloadStep == SwitchInv /\ SendDload => SwitchInv'
<1> SUFFICES ASSUME SwitchInv, SendDload PROVE SwitchInv'
  OBVIOUS
<1> USE DEF SwitchInv
<1>1. UploadPort' /\ OnePort'
  BY DEF SendDload, OnePort, UploadPort, Goto, asked
<1>2. CASE UNCHANGED <<personality, switched, others>>
  BY <1>1, <1>2 DEF SendDload, Sorts, OneBootRom, asked
<1>3. CASE \E p \in picked :
             /\ Present(p) /\ personality' = [personality EXCEPT ![p.modem] = "raw"]
             /\ switched' = {p.modem}
             /\ others' = {m \in Modems \ {p.modem} : "download" \in Faces(m)}
  <2> PICK p \in picked :
             /\ Present(p) /\ personality' = [personality EXCEPT ![p.modem] = "raw"]
             /\ switched' = {p.modem}
             /\ others' = {m \in Modems \ {p.modem} : "download" \in Faces(m)}
    BY <1>3
  <2>1. p.modem \in Modems
    BY DEF Sorts, Port
  <2>2. Sorts'
    BY <2>1 DEF SendDload, Sorts, asked
  <2>3. OneBootRom'
    <3> SUFFICES ASSUME others' = {}, NEW m \in Modems
                 PROVE  /\ personality'[m] \in Off \union {"raw"}
                        /\ personality'[m] = "raw" => m \in switched'
      BY DEF OneBootRom
    <3>1. CASE m = p.modem
      BY <2>1, <3>1 DEF Sorts
    <3>2. CASE m # p.modem
      <4>1. "download" \notin Faces(m) /\ personality'[m] = personality[m]
        BY <3>2 DEF Sorts
      <4>2. personality[m] \notin {"raw", "stage0", "linux"}
        BY <4>1, FacesOf
      <4> QED BY <4>1, <4>2 DEF Sorts, Off
    <3> QED BY <3>1, <3>2
  <2> QED BY <1>1, <2>2, <2>3
<1> QED BY <1>2, <1>3 DEF SendDload

(* A modem that is switched off and on is not in the boot ROM.              *)
LEMMA PowerCycledStep ==
  ASSUME SwitchInv, NEW m \in Modems, PowerCycled(m) PROVE SwitchInv'
<1>1. PICK s \in Off : personality' = [personality EXCEPT ![m] = s]
  BY DEF PowerCycled, Off
<1>2. UNCHANGED <<ports, override, picked, switched, others, place>>
  BY DEF PowerCycled, run, asked
<1>3. OneBootRom'
  BY <1>1, <1>2 DEF SwitchInv, Sorts, OneBootRom, Off
<1> QED BY <1>1, <1>2, <1>3 DEF SwitchInv, Sorts, OnePort, UploadPort, Off

(* Every other step leaves the modems alone and picks what a select         *)
(* function returned, if anything.                                          *)
LEMMA NextSwitch == SwitchInv /\ [SwitchNext]_switchVars => SwitchInv'
<1> SUFFICES ASSUME SwitchInv, [SwitchNext]_switchVars PROVE SwitchInv'
  OBVIOUS
<1> DEFINE Alone == UNCHANGED <<personality, switched, others, override>>
<1>1. ASSUME Alone, ports' \in SUBSET Port, picked' \in SUBSET Port,
             \A p, q \in picked' : p = q, UploadPort'
      PROVE  SwitchInv'
  BY <1>1 DEF SwitchInv, Sorts, OnePort, OneBootRom
<1>2. CASE Attach
  BY <1>1, <1>2, Selections DEF Attach, SwitchInv, Sorts, UploadPort, Goto, windows, asked
<1>3. CASE NoSwitch
  BY <1>1, <1>3 DEF NoSwitch, SwitchInv, Sorts, OnePort, UploadPort, Goto, windows, asked
<1>4. CASE AlreadyRaw
  BY <1>1, <1>4, Selections DEF AlreadyRaw, SwitchInv, Sorts, UploadPort, Goto, windows, asked
<1>5. CASE SelectDiag
  BY <1>1, <1>5, Selections DEF SelectDiag, SwitchInv, Sorts, UploadPort, Goto, windows, asked
<1>6. CASE Poll
  BY <1>1, <1>6, Selections
     DEF Poll, SwitchInv, Sorts, OnePort, UploadPort, Goto, windows, asked
<1>7. CASE Timeout
  BY <1>1, <1>7 DEF Timeout, SwitchInv, Sorts, OnePort, UploadPort, Goto, windows, asked
<1>8. CASE OpenPort
  BY <1>1, <1>8 DEF OpenPort, SwitchInv, Sorts, OnePort, UploadPort, Goto, windows, asked
<1>9. CASE Late \/ UNCHANGED switchVars
  BY <1>1, <1>9
     DEF Late, SwitchInv, Sorts, OnePort, UploadPort, switchVars, windows, run, asked
<1>10. ASSUME NEW p \in Port, Lists(p) \/ Drops(p) PROVE SwitchInv'
  BY <1>1, <1>10 DEF Lists, Drops, SwitchInv, Sorts, OnePort, UploadPort, run, asked
<1> QED BY <1>2, <1>3, <1>4, <1>5, <1>6, <1>7, <1>8, <1>9, <1>10, SendDloadStep,
           PowerCycledStep DEF SwitchNext, Run

(* The search for a port keeps to the invariant, for any set of modems.     *)
THEOREM SpecSwitchInv == SwitchSpec => []SwitchInv
  BY InitSwitch, NextSwitch, PTL DEF SwitchSpec

(* A run that switched the only modem in sight uploads to that modem, and   *)
(* to its boot ROM: the port is there, so it is the port of one that shows  *)
(* a downloader port, and only the switched one does.                       *)
THEOREM SpecUploadsToSwitched == SwitchSpec => UploadsToSwitched
<1> DEFINE Uploads ==
      (In("upload") /\ place' = "done" /\ switched # {} /\ others = {}) =>
        \A p \in picked : p.modem \in switched /\ personality[p.modem] = "raw"
<1>1. SwitchInv /\ SwitchNext => Uploads
  <2> SUFFICES ASSUME SwitchInv, SwitchNext, In("upload"), place' = "done",
                      switched # {}, others = {}, NEW p \in picked
               PROVE  p.modem \in switched /\ personality[p.modem] = "raw"
    OBVIOUS
  <2>1. OpenPort
    BY DEF SwitchNext, Run, In, Goto, Attach, NoSwitch, AlreadyRaw, SelectDiag, SendDload, Poll,
           Timeout, Late, Lists, Drops, PowerCycled, run
  <2>2. PICK q \in picked : Present(q)
    BY <2>1 DEF OpenPort, Goto
  <2>3. Present(p) /\ p.face = "download" /\ p.modem \in Modems
    BY <2>2 DEF SwitchInv, Sorts, OnePort, UploadPort, In, Port
  <2>4. personality[p.modem] \in Off \union {"raw"}
        /\ (personality[p.modem] = "raw" => p.modem \in switched)
    BY <2>3 DEF SwitchInv, OneBootRom
  <2>5. personality[p.modem] \notin Off
    BY <2>3, FacesOf DEF Present, Off
  <2> QED BY <2>4, <2>5
<1>2. SwitchInv /\ [SwitchNext]_switchVars => [Uploads]_switchVars
  BY <1>1
<1> QED BY <1>2, SpecSwitchInv, PTL DEF SwitchSpec, UploadsToSwitched

-----------------------------------------------------------------------------
(* The framing *)

(* Numbers as large as 65536 are named: spelt out they defeat the provers.  *)
Top == 65536
Words == 0 .. Top - 1
Bytes == 0 .. 255

(* What a division leaves. *)
LEMMA Division ==
  ASSUME NEW x \in Nat, NEW p \in Nat \ {0}
  PROVE  x \div p \in Nat /\ (x \div p) * p =< x /\ x < (x \div p) * p + p
  OBVIOUS

(* A multiple grows with its factor. *)
LEMMA Monotone ==
  ASSUME NEW a \in Nat, NEW b \in Nat, NEW p \in Nat, a =< b
  PROVE  a * p =< b * p
  OBVIOUS

(* One multiple more. *)
LEMMA Distribute ==
  ASSUME NEW a \in Int, NEW p \in Int
  PROVE  a * p \in Int /\ 1 * p = p /\ (a + 1) * p = a * p + p /\ (a + 2) * p = a * p + p + p
  OBVIOUS

(* Flipping a bit: an odd multiple is not zero, an even one below an even   *)
(* bound leaves room for one more.                                          *)
LEMMA FlipUnder ==
  ASSUME NEW w \in Nat, NEW x \in 0 .. w - 1, NEW p \in Nat \ {0}, NEW h \in Nat,
         (2 * h) * p = w
  PROVE  (IF (x \div p) % 2 = 1 THEN x - p ELSE x + p) \in 0 .. w - 1
<1>1. PICK q \in Nat : q = x \div p /\ q * p =< x /\ x < q * p + p
  BY Division
<1>2. CASE q % 2 = 1
  <2>1. 1 * p =< q * p
    BY <1>2, Monotone
  <2> QED BY <1>1, <1>2, <2>1, Distribute
<1>3. CASE q % 2 # 1
  <2>1. q < 2 * h
    <3>1. SUFFICES ASSUME 2 * h =< q PROVE FALSE
      OBVIOUS
    <3>2. (2 * h) * p =< q * p
      BY <3>1, Monotone
    <3> QED BY <1>1, <3>2, Distribute
  <2>2. q + 2 =< 2 * h
    BY <1>3, <2>1
  <2>3. (q + 2) * p =< (2 * h) * p
    BY <2>2, Monotone
  <2> QED BY <1>1, <1>3, <2>3, Distribute
<1> QED BY <1>1, <1>2, <1>3

(* The bits that the CRC flips, each with the half of what is above it.     *)
Places == {0, 1, 2, 3, 4, 5, 6, 7, 10, 15}
Half(k, h) == h \in Nat /\ 2^k \in Nat \ {0} /\ (2 * h) * 2^k = Top

(* Each of them is a bit of a word. *)
LEMMA Halves == \A k \in Places : \E h : Half(k, h)
<1>1. /\ Half(0, 32768) /\ Half(1, 16384) /\ Half(2, 8192) /\ Half(3, 4096)
      /\ Half(4, 2048) /\ Half(5, 1024) /\ Half(6, 512) /\ Half(7, 256)
      /\ Half(10, 32) /\ Half(15, 1)
  BY SMT DEF Half, Top
<1> QED BY <1>1, SMT DEF Places

(* Flipping one of them leaves a word. *)
LEMMA FlipWord == ASSUME NEW x \in Words, NEW k \in Places PROVE Flip(x, k) \in Words
<1>1. Top \in Nat
  BY SMT DEF Top
<1>2. PICK h : Half(k, h)
  BY Halves
<1> QED BY <1>1, <1>2, FlipUnder DEF Words, Half, Flip, Bit

(* One shift of the CRC register. *)
LEMMA ShiftWord == ASSUME NEW x \in Words PROVE Shift(x) \in Words
<1>1. x \div 2 \in Words
  <2>1. Top \in Nat
    BY SMT DEF Top
  <2>2. \A y \in Nat : y \div 2 \in Nat /\ y \div 2 =< y
    OBVIOUS
  <2> QED BY <2>1, <2>2 DEF Words
<1>2. Flip(x \div 2, 3) \in Words
  BY <1>1, FlipWord DEF Places
<1>3. Flip(Flip(x \div 2, 3), 10) \in Words
  BY <1>2, FlipWord DEF Places
<1>4. FlipPoly(x \div 2) \in Words
  BY <1>3, FlipWord DEF FlipPoly, Places
<1> QED BY <1>1, <1>4 DEF Shift

(* A byte folded into the register. *)
LEMMA FlipByteWord ==
  ASSUME NEW x \in Words, NEW byte
  PROVE  FlipByte(x, byte) \in Words
<1> DEFINE F == [k \in 1 .. 8 |->
                  [v \in Words |-> IF Bit(byte, k - 1) = 1 THEN Flip(v, k - 1) ELSE v]]
           Def(g) == g = [k \in 0 .. 8 |->
                           IF k = 0 THEN x
                           ELSE IF Bit(byte, k - 1) = 1 THEN Flip(g[k - 1], k - 1) ELSE g[k - 1]]
           mixed == CHOOSE g : Def(g)
<1>1. PICK f \in [0 .. 8 -> Words] : Follows(f, 8, x, F)
  <2>1. \A k \in 1 .. 8 : k - 1 \in Places
    BY DEF Places
  <2>2. \A k \in 1 .. 8, v \in Words : Flip(v, k - 1) \in Words
    BY <2>1, FlipWord
  <2>3. StepsIn(F, 8, Words)
    BY <2>2 DEF StepsIn
  <2> HIDE DEF F
  <2> QED BY <2>3, Recursion
<1>2. f[0] = x /\ \A k \in 1 .. 8 : f[k] = F[k][f[k - 1]] /\ f[k - 1] \in Words
  <2>1. \A k \in 1 .. 8 : k - 1 \in 0 .. 8
    OBVIOUS
  <2> HIDE DEF F
  <2> QED BY <1>1, <2>1 DEF Follows
<1>3. \A k \in 1 .. 8 :
        f[k] = IF Bit(byte, k - 1) = 1 THEN Flip(f[k - 1], k - 1) ELSE f[k - 1]
  <2>1. \A k \in 1 .. 8, v \in Words :
          F[k][v] = IF Bit(byte, k - 1) = 1 THEN Flip(v, k - 1) ELSE v
    OBVIOUS
  <2> HIDE DEF F
  <2> QED BY <1>2, <2>1
<1>4. Def(f)
  BY <1>2, <1>3
<1>5. Def(mixed)
  <2> HIDE DEF Def
  <2> QED BY <1>4
<1>6. /\ mixed[0] = x
      /\ \A k \in 1 .. 8 :
           mixed[k] = IF Bit(byte, k - 1) = 1 THEN Flip(mixed[k - 1], k - 1) ELSE mixed[k - 1]
  <2> HIDE DEF mixed
  <2> QED BY <1>5
<1>7. mixed[8] \in Words
  <2> HIDE DEF mixed
  <2>1. \A i \in 0 .. 8 : mixed[i] = f[i]
    BY <1>2, <1>3, <1>6, SameRecursion
  <2> QED BY <1>1, <2>1
<1>8. FlipByte(x, byte) = mixed[8]
  BY DEF FlipByte
<1> QED BY <1>7, <1>8

(* A byte of data taken into the register. *)
LEMMA CrcByteWord ==
  ASSUME NEW x \in Words, NEW byte
  PROVE  CrcByte(x, byte) \in Words
<1> DEFINE F == [k \in 1 .. 8 |-> [v \in Words |-> Shift(v)]]
           Def(g) == g = [k \in 0 .. 8 |->
                           IF k = 0 THEN FlipByte(x, byte) ELSE Shift(g[k - 1])]
           shifted == CHOOSE g : Def(g)
<1>0. FlipByte(x, byte) \in Words
  BY FlipByteWord
<1>1. PICK f \in [0 .. 8 -> Words] : Follows(f, 8, FlipByte(x, byte), F)
  <2>1. StepsIn(F, 8, Words)
    BY ShiftWord DEF StepsIn
  <2> HIDE DEF F
  <2> QED BY <1>0, <2>1, Recursion
<1>2. f[0] = FlipByte(x, byte) /\ \A k \in 1 .. 8 : f[k] = F[k][f[k - 1]] /\ f[k - 1] \in Words
  <2>1. \A k \in 1 .. 8 : k - 1 \in 0 .. 8
    OBVIOUS
  <2> HIDE DEF F
  <2> QED BY <1>1, <2>1 DEF Follows
<1>3. \A k \in 1 .. 8 : f[k] = Shift(f[k - 1])
  BY <1>2
<1>4. Def(f)
  BY <1>2, <1>3
<1>5. Def(shifted)
  <2> HIDE DEF Def
  <2> QED BY <1>4
<1>6. shifted[0] = FlipByte(x, byte) /\ \A k \in 1 .. 8 : shifted[k] = Shift(shifted[k - 1])
  <2> HIDE DEF shifted
  <2> QED BY <1>5
<1>7. shifted[8] \in Words
  <2> HIDE DEF shifted
  <2>1. \A i \in 0 .. 8 : shifted[i] = f[i]
    BY <1>2, <1>3, <1>6, SameRecursion
  <2> QED BY <1>1, <2>1
<1>8. CrcByte(x, byte) = shifted[8]
  BY DEF CrcByte
<1> QED BY <1>7, <1>8

(* The CRC of any data is a word. *)
LEMMA CrcWord ==
  ASSUME NEW S, NEW data \in Seq(S)
  PROVE  Crc16(data) \in Words
<1>0. PICK n \in Nat : n = Len(data)
  OBVIOUS
<1> DEFINE F == [i \in 1 .. n |-> [v \in Words |-> CrcByte(v, data[i])]]
           Def(g) == g = [i \in 0 .. Len(data) |->
                           IF i = 0 THEN 65535 ELSE CrcByte(g[i - 1], data[i])]
<1>1. 65535 \in Words /\ \A w \in Words : 65535 - w \in Words
  <2>1. Top \in Nat \ {0} /\ 65535 = Top - 1
    BY SMT DEF Top
  <2>2. Top - 1 \in Words /\ \A w \in Words : (Top - 1) - w \in Words
    BY <2>1, SMT DEF Words
  <2> QED BY <2>1, <2>2, SMT
<1>2. PICK f \in [0 .. n -> Words] : Follows(f, n, 65535, F)
  <2>1. StepsIn(F, n, Words)
    BY CrcByteWord DEF StepsIn
  <2> HIDE DEF F
  <2> QED BY <1>1, <2>1, Recursion
<1>3. f[0] = 65535 /\ \A i \in 1 .. n : f[i] = F[i][f[i - 1]] /\ f[i - 1] \in Words
  <2>1. \A i \in 1 .. n : i - 1 \in 0 .. n
    OBVIOUS
  <2> HIDE DEF F
  <2> QED BY <1>2, <2>1, SMT DEF Follows
<1>4. \A i \in 1 .. n : f[i] = CrcByte(f[i - 1], data[i])
  BY <1>3
<1>5. Def(f)
  BY <1>0, <1>3, <1>4, SMT
<1>6. PICK crc : Def(crc) /\ Crc16(data) = 65535 - crc[Len(data)]
  <2> DEFINE chosen == CHOOSE g : Def(g)
  <2>1. Crc16(data) = 65535 - chosen[Len(data)]
    BY SMT DEF Crc16
  <2>2. Def(chosen)
    <3> HIDE DEF Def
    <3> QED BY <1>5
  <2> HIDE DEF Def, chosen
  <2> QED BY <2>1, <2>2
<1>7. crc[0] = 65535 /\ \A i \in 1 .. n : crc[i] = CrcByte(crc[i - 1], data[i])
  BY <1>0, <1>6, SMT
<1>8. crc[n] \in Words
  <2> DEFINE T == {i \in 0 .. n : crc[i] \in Words}
  <2>1. 0 \in T
    BY <1>1, <1>7
  <2>2. \A i \in 0 .. n - 1 : i \in T => i + 1 \in T
    <3> SUFFICES ASSUME NEW i \in 0 .. n - 1, crc[i] \in Words PROVE crc[i + 1] \in Words
      OBVIOUS
    <3>1. i + 1 \in 1 .. n /\ (i + 1) - 1 = i
      OBVIOUS
    <3> QED BY <1>7, <3>1, CrcByteWord
  <2>3. 0 .. n \subseteq T
    <3> HIDE DEF T
    <3> QED BY <2>1, <2>2, UpToN
  <2> QED BY <2>3
<1>9. \A w \in Words : 65535 - w \in Words
  BY <1>1
<1>10. Crc16(data) = 65535 - crc[n]
  <2> HIDE DEF Def
  <2> QED BY <1>0, <1>6, SMT
<1> HIDE DEF Def
<1> QED BY <1>8, <1>9, <1>10, SMT

(* The two bytes of a word. *)
LEMMA LittleBytes ==
  ASSUME NEW w \in Words
  PROVE  Little(w) \in Seq(Bytes) /\ Len(Little(w)) = 2
<1>1. w \in Nat /\ w < Top
  BY SMT DEF Words, Top
<1>2. PICK q \in Nat : q = w \div 256 /\ q * 256 =< w
  BY <1>1, Division, SMT
<1>3. q < 256
  <2>1. SUFFICES ASSUME 256 =< q PROVE FALSE
    BY <1>2, SMT
  <2>2. 256 * 256 =< q * 256
    BY <2>1, Monotone, SMT
  <2> QED BY <1>1, <1>2, <2>2, SMT DEF Top
<1>4. w % 256 \in Bytes /\ w \div 256 \in Bytes
  BY <1>1, <1>2, <1>3, SMT DEF Bytes
<1> QED BY <1>4 DEF Little

(* What read_frame() makes of the bytes between two flags, byte by byte.    *)
LEMMA UnescapeSteps ==
  ASSUME NEW e \in Seq(Bytes)
  PROVE  \E part : /\ part[0] = Raw(<<>>, FALSE)
                   /\ \A i \in 1 .. Len(e) : part[i] = Unescaped(part[i - 1], e[i])
                   /\ Unescape(e) = part[Len(e)].raw
<1>0. PICK n \in Nat : n = Len(e) /\ \A i \in 1 .. n : e[i] \in Int
  <2>1. \A i \in 1 .. Len(e) : e[i] \in Bytes
    BY ElementOfSeq
  <2>2. Bytes \subseteq Int
    BY SMT DEF Bytes
  <2> QED BY <2>1, <2>2, LenProperties
<1> DEFINE V == [raw : Seq(Int), escaped : BOOLEAN]
           F == [i \in 1 .. n |-> [v \in V |-> Unescaped(v, e[i])]]
           Def(g) == g = [i \in 0 .. Len(e) |->
                           IF i = 0 THEN Raw(<<>>, FALSE) ELSE Unescaped(g[i - 1], e[i])]
<1>1. \A v \in V, b \in Int : Unescaped(v, b) \in V
  <2> SUFFICES ASSUME NEW v \in V, NEW b \in Int PROVE Unescaped(v, b) \in V
    OBVIOUS
  <2>1. Toggle(b) \in Int
    <3>1. 2^5 = 32
      BY SMT
    <3> QED BY <3>1 DEF Toggle, Flip
  <2>2. Append(v.raw, b) \in Seq(Int) /\ Append(v.raw, Toggle(b)) \in Seq(Int)
    BY <2>1, AppendProperties
  <2> QED BY <2>2 DEF Unescaped, Raw
<1>2. Raw(<<>>, FALSE) \in V
  BY DEF Raw
<1>3. PICK f \in [0 .. n -> V] : Follows(f, n, Raw(<<>>, FALSE), F)
  <2>1. StepsIn(F, n, V)
    <3> HIDE DEF V
    <3> QED BY <1>0, <1>1 DEF StepsIn
  <2> HIDE DEF F, V
  <2> QED BY <1>2, <2>1, Recursion
<1>4. f[0] = Raw(<<>>, FALSE) /\ \A i \in 1 .. n : f[i] = F[i][f[i - 1]] /\ f[i - 1] \in V
  <2>1. \A i \in 1 .. n : i - 1 \in 0 .. n
    OBVIOUS
  <2> HIDE DEF F, V
  <2> QED BY <1>3, <2>1 DEF Follows
<1>5. \A i \in 1 .. n : f[i] = Unescaped(f[i - 1], e[i])
  <2> HIDE DEF V
  <2> QED BY <1>4
<1>6. Def(f)
  <2>1. \A i \in 0 .. n :
          f[i] = IF i = 0 THEN Raw(<<>>, FALSE) ELSE Unescaped(f[i - 1], e[i])
    <3>1. \A i \in 0 .. n : i = 0 \/ i \in 1 .. n
      OBVIOUS
    <3>2. f[0] = Raw(<<>>, FALSE)
      BY <1>4
    <3> QED BY <1>5, <3>1, <3>2
  <2>2. f = [i \in 0 .. n |-> f[i]]
    BY <1>3
  <2> QED BY <1>0, <2>1, <2>2
<1>7. PICK part : Def(part) /\ Unescape(e) = part[Len(e)].raw
  <2> DEFINE chosen == CHOOSE g : Def(g)
  <2>1. Unescape(e) = chosen[Len(e)].raw
    BY DEF Unescape
  <2>2. Def(chosen)
    <3> HIDE DEF Def
    <3> QED BY <1>6
  <2> HIDE DEF Def, chosen
  <2> QED BY <2>1, <2>2
<1>8. part[0] = Raw(<<>>, FALSE) /\ \A i \in 1 .. n : part[i] = Unescaped(part[i - 1], e[i])
  <2>1. Def(part)
    <3> HIDE DEF Def
    <3> QED BY <1>7
  <2>2. part = [i \in 0 .. n |-> IF i = 0 THEN Raw(<<>>, FALSE) ELSE Unescaped(part[i - 1], e[i])]
    BY <1>0, <2>1
  <2> HIDE DEF Def
  <2>3. part[0] = Raw(<<>>, FALSE)
    BY <2>2
  <2>4. ASSUME NEW i \in 1 .. n PROVE part[i] = Unescaped(part[i - 1], e[i])
    <3>1. i \in 0 .. n /\ i # 0
      OBVIOUS
    <3> QED BY <2>2, <3>1
  <2> QED BY <2>3, <2>4
<1> HIDE DEF Def
<1> QED BY <1>0, <1>7, <1>8

(* The escape of a byte has no flag and is undone. *)
LEMMA EscapeUndone ==
  ASSUME NEW b \in Bytes, NEW head
  PROVE  \/ /\ Escape(b) = <<b>> /\ b # Flag
            /\ Unescaped(Raw(head, FALSE), b) = Raw(Append(head, b), FALSE)
         \/ /\ Escape(b) = <<Esc, Toggle(b)>> /\ Esc # Flag
            /\ Toggle(b) # Flag /\ Toggle(b) \in Bytes
            /\ Unescaped(Raw(head, FALSE), Esc) = Raw(head, TRUE)
            /\ Unescaped(Raw(head, TRUE), Toggle(b)) = Raw(Append(head, b), FALSE)
<1>1. 2^5 = 32
  BY SMT
<1>2. Esc # Flag /\ {93, 94} \subseteq Bytes \ {Flag, Esc}
  BY SMT DEF Flag, Esc, Bytes
<1>3. Unescaped(Raw(head, FALSE), Esc) = Raw(head, TRUE)
  BY DEF Unescaped, Raw
<1>4. \A c : Unescaped(Raw(head, TRUE), c) = Raw(Append(head, Toggle(c)), FALSE)
  BY DEF Unescaped, Raw
<1>5. CASE b \in {Flag, Esc}
  <2>1. Escape(b) = <<Esc, Toggle(b)>>
    BY <1>5 DEF Escape
  <2>2. Toggle(b) \in {93, 94} /\ Toggle(Toggle(b)) = b
    <3>1. CASE b = Flag
      BY <1>1, <3>1 DEF Toggle, Flip, Bit, Flag
    <3>2. CASE b = Esc
      BY <1>1, <3>2 DEF Toggle, Flip, Bit, Esc
    <3> QED BY <1>5, <3>1, <3>2
  <2>3. Toggle(b) # Flag /\ Toggle(b) \in Bytes
    BY <1>2, <2>2
  <2>4. Unescaped(Raw(head, TRUE), Toggle(b)) = Raw(Append(head, b), FALSE)
    BY <1>4, <2>2
  <2> QED BY <1>2, <1>3, <2>1, <2>3, <2>4
<1>6. CASE b \notin {Flag, Esc}
  BY <1>6 DEF Escape, Unescaped, Raw
<1> QED BY <1>5, <1>6

(* A sequence with its next element. *)
LEMMA OneLonger ==
  ASSUME NEW S, NEW s \in Seq(S), NEW i \in 0 .. Len(s) - 1
  PROVE  Append(SubSeq(s, 1, i), s[i + 1]) = SubSeq(s, 1, i + 1)
<1>1. Len(s) \in Nat /\ i + 1 \in 1 .. Len(s) /\ (i + 1) - 1 = i /\ 1 \in 1 .. Len(s)
  BY LenProperties
<1>2. \A j \in 1 .. i : s[j] \in S
  BY <1>1, ElementOfSeq
<1>3. SubSeq(s, 1, i) \in Seq(S) /\ s[i + 1] \in S
  BY <1>1, <1>2, SubSeqProperties, ElementOfSeq
<1>4. SubSeq(s, 1, i + 1) = SubSeq(s, 1, i) \o <<s[i + 1]>>
  BY <1>1, SubSeqRecursiveSecond
<1> QED BY <1>3, <1>4, AppendIsConcat

Unflagged == Bytes \ {Flag}

(* The pieces of a frame's body. *)
LEMMA EscapePiece ==
  ASSUME NEW b \in Bytes
  PROVE  Escape(b) \in Seq(Unflagged) /\ Len(Escape(b)) \in {1, 2}
<1>1. Esc \in Bytes
  BY SMT DEF Esc, Bytes
<1>2. CASE Escape(b) = <<b>> /\ b # Flag
  BY <1>2 DEF Unflagged
<1>3. CASE Escape(b) = <<Esc, Toggle(b)>> /\ Esc # Flag /\ Toggle(b) # Flag /\ Toggle(b) \in Bytes
  BY <1>1, <1>3 DEF Unflagged
<1> QED BY <1>2, <1>3, EscapeUndone

(* The reader takes the bytes after place l, which are the escape of b.     *)
Taking(b, l, e, part) ==
  \A j \in 1 .. Len(Escape(b)) :
    e[l + j] = Escape(b)[j] /\ part[l + j] = Unescaped(part[(l + j) - 1], e[l + j])

(* Two steps of the reader for an escaped byte, one for any other.          *)
LEMMA PieceTaken ==
  ASSUME NEW b \in Bytes, NEW head, NEW l \in Nat, NEW e, NEW part,
         part[l] = Raw(head, FALSE), Taking(b, l, e, part)
  PROVE  part[l + Len(Escape(b))] = Raw(Append(head, b), FALSE)
<1>1. (l + 1) - 1 = l /\ (l + 2) - 1 = l + 1 /\ 1 \in 1 .. 1 /\ 1 \in 1 .. 2 /\ 2 \in 1 .. 2
  OBVIOUS
<1>2. CASE /\ Escape(b) = <<b>>
           /\ Unescaped(Raw(head, FALSE), b) = Raw(Append(head, b), FALSE)
  <2>1. Len(Escape(b)) = 1 /\ Escape(b)[1] = b
    BY <1>2
  <2>2. e[l + 1] = b /\ part[l + 1] = Unescaped(part[(l + 1) - 1], e[l + 1])
    BY <1>1, <2>1 DEF Taking
  <2> QED BY <1>1, <1>2, <2>1, <2>2
<1>3. CASE /\ Escape(b) = <<Esc, Toggle(b)>>
           /\ Unescaped(Raw(head, FALSE), Esc) = Raw(head, TRUE)
           /\ Unescaped(Raw(head, TRUE), Toggle(b)) = Raw(Append(head, b), FALSE)
  <2>1. Len(Escape(b)) = 2 /\ Escape(b)[1] = Esc /\ Escape(b)[2] = Toggle(b)
    BY <1>3
  <2>2. /\ e[l + 1] = Esc /\ part[l + 1] = Unescaped(part[(l + 1) - 1], e[l + 1])
        /\ e[l + 2] = Toggle(b) /\ part[l + 2] = Unescaped(part[(l + 2) - 1], e[l + 2])
    BY <1>1, <2>1 DEF Taking
  <2>3. part[l + 1] = Raw(head, TRUE)
    BY <1>1, <1>3, <2>2
  <2>4. part[l + 2] = Raw(Append(head, b), FALSE)
    BY <1>1, <1>3, <2>2, <2>3
  <2> QED BY <2>1, <2>4
<1> QED BY <1>2, <1>3, EscapeUndone

(* Unescaping a frame's body gives the payload and its check sequence.      *)
LEMMA BodyUnescaped ==
  ASSUME NEW body \in Seq(Bytes), NEW e, e = FlattenSeq([i \in DOMAIN body |-> Escape(body[i])])
  PROVE  e \in Seq(Unflagged) /\ Len(body) =< Len(e) /\ Unescape(e) = body
<1>0. PICK n \in Nat : n = Len(body) /\ DOMAIN body = 1 .. n
  BY LenProperties
<1> DEFINE s == [i \in 1 .. n |-> Escape(body[i])]
<1>1. /\ s \in Seq(Seq(Unflagged)) /\ Len(s) = n
      /\ \A i \in 1 .. n : s[i] = Escape(body[i]) /\ s[i] \in Seq(Unflagged)
                            /\ body[i] \in Bytes /\ Len(s[i]) \in {1, 2}
  <2>1. \A i \in 1 .. n : body[i] \in Bytes
    BY <1>0, ElementOfSeq
  <2>2. \A i \in 1 .. n : Escape(body[i]) \in Seq(Unflagged) /\ Len(Escape(body[i])) \in {1, 2}
    BY <2>1, EscapePiece
  <2> QED BY <2>1, <2>2
<1> HIDE DEF s
<1>2. PICK f \in [0 .. n -> Seq(Unflagged)] :
        /\ f[0] = <<>> /\ e = f[n]
        /\ \A i \in 1 .. n : f[i] = f[i - 1] \o s[i]
        /\ \A i \in 0 .. n : /\ Len(f[i]) =< Len(f[n])
                             /\ \A j \in 1 .. Len(f[i]) : f[n][j] = f[i][j]
  <2>1. e = FlattenSeq(s)
    BY <1>0 DEF s
  <2>2. \E f \in [0 .. n -> Seq(Unflagged)] :
          FlattenSeq(s) = f[n] /\ Pieces(f, n, s) /\ Grown(f, n)
    BY <1>1, FlattenPieces
  <2> QED BY <2>1, <2>2 DEF Pieces, Grown
<1>3. e \in Seq(Unflagged) /\ Len(e) \in Nat
  BY <1>2, LenProperties
<1>4. \A i \in 0 .. n : Len(f[i]) =< Len(e) /\ \A j \in 1 .. Len(f[i]) : e[j] = f[i][j]
  BY <1>2
<1>5. PICK part : /\ part[0] = Raw(<<>>, FALSE)
                  /\ \A i \in 1 .. Len(e) : part[i] = Unescaped(part[i - 1], e[i])
                  /\ Unescape(e) = part[Len(e)].raw
  <2>1. e \in Seq(Bytes)
    BY <1>3, SeqMonotonic DEF Unflagged
  <2> QED BY <2>1, UnescapeSteps
<1> DEFINE Good(i) == i =< Len(f[i]) /\ part[Len(f[i])] = Raw(SubSeq(body, 1, i), FALSE)
           T == {i \in 0 .. n : Good(i)}
<1>6. Good(0)
  <2>1. Len(f[0]) = 0
    BY <1>2, EmptySeq
  <2>2. SubSeq(body, 1, 0) = <<>>
    BY SubSeqEmpty
  <2>3. part[0] = Raw(SubSeq(body, 1, 0), FALSE)
    BY <1>5, <2>2
  <2> QED BY <2>1, <2>3
<1>7. ASSUME NEW i \in 0 .. n - 1, Good(i) PROVE Good(i + 1)
  <2>1. i \in 0 .. n /\ i + 1 \in 1 .. n /\ i + 1 \in 0 .. n /\ (i + 1) - 1 = i
    OBVIOUS
  <2>2. PICK u \in Seq(Unflagged), v \in Seq(Unflagged), w \in Seq(Unflagged) :
          f[i] = u /\ s[i + 1] = v /\ f[i + 1] = w /\ w = u \o v
    <3> HIDE DEF Good
    <3>1. f[i] \in Seq(Unflagged) /\ s[i + 1] \in Seq(Unflagged) /\ f[i + 1] \in Seq(Unflagged)
      BY <1>1, <2>1
    <3>2. f[i + 1] = f[i] \o s[i + 1]
      BY <1>2, <2>1
    <3> QED BY <3>1, <3>2
  <2>3. PICK b \in Bytes : b = body[i + 1] /\ v = Escape(b) /\ Len(v) \in {1, 2}
    <3> HIDE DEF Good
    <3> QED BY <1>1, <2>1, <2>2
  <2>4. PICK l \in Nat, k \in {1, 2} : l = Len(u) /\ k = Len(v)
    BY <2>3, LenProperties
  <2>5. i =< l /\ part[l] = Raw(SubSeq(body, 1, i), FALSE)
    BY <1>7, <2>2, <2>4
  <2> HIDE DEF Good
  <2>6. /\ Len(w) = l + k
        /\ \A j \in 1 .. l + k : w[j] = IF j =< l THEN u[j] ELSE v[j - l]
    BY <2>2, <2>4, ConcatProperties
  <2>7. l + k =< Len(e) /\ \A j \in 1 .. l + k : e[j] = w[j]
    <3>1. Len(f[i + 1]) =< Len(e) /\ \A j \in 1 .. Len(f[i + 1]) : e[j] = f[i + 1][j]
      BY <1>4, <2>1
    <3>2. f[i + 1] = w /\ Len(w) = l + k
      BY <2>2, <2>6
    <3> QED BY <3>1, <3>2
  <2>8. ASSUME NEW j \in 1 .. k
        PROVE  /\ l + j \in 1 .. l + k /\ l + j \in 1 .. Len(e)
               /\ ~(l + j =< l) /\ (l + j) - l = j
    <3>1. PICK m \in Nat : m = Len(e) /\ l + k =< m
      BY <1>3, <2>7
    <3>2. k \in Nat /\ j \in Nat /\ 1 =< j /\ j =< k
      OBVIOUS
    <3> QED BY <3>1, <3>2
  <2>9. \A j \in 1 .. k : e[l + j] = v[j]
    BY <2>6, <2>7, <2>8
  <2>10. \A j \in 1 .. k : part[l + j] = Unescaped(part[(l + j) - 1], e[l + j])
    BY <1>5, <2>8
  <2>11. part[l + k] = Raw(Append(SubSeq(body, 1, i), b), FALSE)
    <3>1. Taking(b, l, e, part)
      BY <2>3, <2>4, <2>9, <2>10 DEF Taking
    <3>2. part[l + Len(Escape(b))] = Raw(Append(SubSeq(body, 1, i), b), FALSE)
      BY <2>5, <3>1, PieceTaken
    <3> QED BY <2>3, <2>4, <3>2
  <2>12. part[l + k] = Raw(SubSeq(body, 1, i + 1), FALSE)
    BY <1>0, <2>3, <2>11, OneLonger
  <2>13. i + 1 =< l + k
    BY <2>5
  <2> QED BY <2>2, <2>6, <2>12, <2>13 DEF Good
<1>8. Good(n)
  <2> HIDE DEF Good
  <2>1. 0 \in T /\ \A i \in 0 .. n - 1 : i \in T => i + 1 \in T
    BY <1>6, <1>7
  <2>2. 0 .. n \subseteq T
    <3> HIDE DEF T
    <3> QED BY <2>1, UpToN
  <2> QED BY <2>2
<1>9. n =< Len(e) /\ Unescape(e) = SubSeq(body, 1, n)
  <2>1. Len(f[n]) = Len(e) /\ n =< Len(f[n]) /\ part[Len(f[n])] = Raw(SubSeq(body, 1, n), FALSE)
    BY <1>2, <1>8
  <2>2. part[Len(e)].raw = SubSeq(body, 1, n)
    BY <2>1 DEF Raw
  <2> QED BY <1>5, <2>1, <2>2
<1> HIDE DEF Good
<1> QED BY <1>0, <1>3, <1>9, SubSeqFull

(* What hdlc_frame() makes of a payload has no flag inside, and read_frame() *)
(* gets the payload back from it.                                           *)
THEOREM FramingUndone ==
  ASSUME NEW payload \in Seq(0 .. 255), payload # <<>>
  PROVE  /\ Body(payload) \in Seq((0 .. 255) \ {Flag}) /\ Len(Body(payload)) >= 3
         /\ Decode(Body(payload)) = payload
<1> DEFINE sum == Little(Crc16(payload))
           body == payload \o sum
<1>0. Bytes = 0 .. 255
  BY SMT DEF Bytes
<1>1. payload \in Seq(Bytes) /\ Len(payload) \in Nat \ {0}
  BY <1>0, EmptySeq, SMT
<1>2. sum \in Seq(Bytes) /\ Len(sum) = 2
  BY <1>1, CrcWord, LittleBytes
<1> HIDE DEF sum
<1>3. /\ body \in Seq(Bytes) /\ Len(body) = Len(payload) + 2
      /\ \A i \in 1 .. Len(payload) + 2 :
           body[i] = IF i =< Len(payload) THEN payload[i] ELSE sum[i - Len(payload)]
  <2>1. payload \o sum \in Seq(Bytes)
    BY <1>1, <1>2, ConcatProperties
  <2>2. /\ Len(payload \o sum) = Len(payload) + Len(sum)
        /\ \A i \in 1 .. Len(payload) + Len(sum) :
             (payload \o sum)[i] = IF i =< Len(payload) THEN payload[i]
                                  ELSE sum[i - Len(payload)]
    BY <1>1, <1>2, ConcatProperties
  <2> QED BY <1>2, <2>1, <2>2
<1> HIDE DEF body
<1>4. Body(payload) = FlattenSeq([i \in DOMAIN body |-> Escape(body[i])])
  BY DEF Body, body, sum
<1>5. /\ Body(payload) \in Seq(Unflagged) /\ Len(body) =< Len(Body(payload))
      /\ Unescape(Body(payload)) = body
  BY <1>3, <1>4, BodyUnescaped
<1>6. SubSeq(body, 1, Len(body) - 2) = payload
  <2>1. /\ SubSeq(body, 1, Len(payload)) \in Seq(Bytes)
        /\ Len(SubSeq(body, 1, Len(payload))) = Len(payload)
        /\ \A i \in 1 .. Len(payload) : SubSeq(body, 1, Len(payload))[i] = body[1 + i - 1]
    <3>1. \A i \in 1 .. Len(payload) : body[i] \in Bytes
      BY <1>1, <1>3, ElementOfSeq
    <3> QED BY <1>1, <3>1, SubSeqProperties
  <2>2. \A i \in 1 .. Len(payload) : SubSeq(body, 1, Len(payload))[i] = payload[i]
    BY <1>1, <1>3, <2>1
  <2>3. SubSeq(body, 1, Len(payload)) = payload
    BY <1>1, <2>1, <2>2, SeqEqual
  <2>4. Len(body) - 2 = Len(payload)
    BY <1>1, <1>3
  <2> QED BY <2>3, <2>4
<1>7. SubSeq(body, Len(body) - 1, Len(body)) = sum
  <2> DEFINE tail == SubSeq(body, Len(payload) + 1, Len(payload) + 2)
  <2>1. \A i \in Len(payload) + 1 .. Len(payload) + 2 : body[i] \in Bytes
    BY <1>1, <1>3, ElementOfSeq
  <2>2. /\ tail \in Seq(Bytes) /\ Len(tail) = 2
        /\ \A i \in 1 .. 2 : tail[i] = body[Len(payload) + i]
    <3>1. /\ tail \in Seq(Bytes)
          /\ Len(tail) = IF Len(payload) + 1 =< Len(payload) + 2
                         THEN (Len(payload) + 2) - (Len(payload) + 1) + 1 ELSE 0
          /\ \A i \in 1 .. (Len(payload) + 2) - (Len(payload) + 1) + 1 :
               tail[i] = body[(Len(payload) + 1) + i - 1]
      BY <1>1, <2>1, SubSeqProperties
    <3>2. \A i \in 1 .. 2 : (Len(payload) + 1) + i - 1 = Len(payload) + i
      BY <1>1
    <3>3. (Len(payload) + 2) - (Len(payload) + 1) + 1 = 2
      BY <1>1
    <3> HIDE DEF tail
    <3> QED BY <1>1, <3>1, <3>2, <3>3
  <2> HIDE DEF tail
  <2>3. \A i \in 1 .. 2 : tail[i] = sum[i]
    <3>1. \A i \in 1 .. 2 : /\ Len(payload) + i \in 1 .. Len(payload) + 2
                            /\ ~(Len(payload) + i =< Len(payload))
                            /\ (Len(payload) + i) - Len(payload) = i
      BY <1>1
    <3> QED BY <1>3, <2>2, <3>1
  <2>4. tail = sum
    BY <1>2, <2>2, <2>3, SeqEqual
  <2>5. Len(body) - 1 = Len(payload) + 1 /\ Len(body) = Len(payload) + 2
    BY <1>1, <1>3
  <2> QED BY <2>4, <2>5 DEF tail
<1>8. ~(Len(body) < 3) /\ Len(body) >= 3
  BY <1>1, <1>3
<1>9. Decode(Body(payload)) = payload
  BY <1>5, <1>6, <1>7, <1>8 DEF Decode, sum
<1>10. Len(Body(payload)) >= 3
  BY <1>5, <1>8, LenProperties
<1> QED BY <1>0, <1>5, <1>9, <1>10 DEF Unflagged

-----------------------------------------------------------------------------
(* The stream of frames *)

(* A byte of the stream is known by its frame k and its place p there.      *)
FrameOf(k) == HdlcFrame(Payloads[k])
Size(k) == Len(FrameOf(k))
Offset[k \in 0 .. Len(Payloads)] == IF k = 0 THEN 0 ELSE Offset[k - 1] + Size(k)
Gone == Offset[shipped] - Len(line)

Marks == [byte : 0 .. 255, of : Nat]
StreamTyped ==
  /\ shipped \in 0 .. Len(Payloads) /\ line \in Seq(Marks) /\ started \in BOOLEAN
  /\ encoded \in Seq(0 .. 255) /\ got \in Seq(Seq(0 .. 255)) /\ hit \subseteq 1 .. shipped

(* What is on its way is the end of what was sent.      *)
LineKept ==
  /\ Len(line) =< Offset[shipped]
  /\ \A j \in 1 .. Len(line), k \in 1 .. shipped : \A p \in 1 .. Size(k) :
       Gone + j = Offset[k - 1] + p => line[j] = [byte |-> FrameOf(k)[p], of |-> k]

(* read_frame() holds nothing, or stands at a flag, or has the beginning of *)
(* the frame it is in.                                                      *)
Inner(k) == Body(Payloads[k])
Begun(k, q) == SubSeq(Inner(k), 1, q - 1)
ReaderKept ==
  /\ ~started => encoded = <<>>
  /\ (started /\ encoded = <<>>) =>
       \E k \in 1 .. shipped : Gone \in {Offset[k - 1] + 1, Offset[k]}
  /\ encoded # <<>> =>
       started /\ \E k \in 1 .. shipped : \E q \in 2 .. Size(k) - 1 :
         Gone = Offset[k - 1] + q /\ encoded = Begun(k, q)

(* It has all that has come of a frame without a cut: of the one that is    *)
(* coming in encoded, of those that have come in got.                       *)
NothingDropped ==
  /\ \A k \in (1 .. shipped) \ hit : \A q \in 1 .. Size(k) - 1 :
       Gone = Offset[k - 1] + q => started /\ encoded = Begun(k, q)
  /\ \A i \in (1 .. shipped) \ hit :
       Offset[i] =< Gone => \E j \in DOMAIN got : got[j] = Payloads[i]

GotInOrder ==
  /\ \A j \in DOMAIN got : \E i \in 1 .. shipped :
       Place(got[j]) = i /\ Payloads[i] = got[j] /\ Offset[i] =< Gone
  /\ \A j \in 2 .. Len(got) : Place(got[j - 1]) < Place(got[j])

StreamIInv == StreamTyped /\ LineKept /\ ReaderKept /\ NothingDropped /\ GotInOrder

(* A frame: a flag, at least three other bytes, a flag. *)
LEMMA FrameShape ==
  ASSUME NEW k \in 1 .. Len(Payloads)
  PROVE  /\ Inner(k) \in Seq(0 .. 255) /\ FrameOf(k) \in Seq(0 .. 255)
         /\ Size(k) \in Nat /\ Size(k) >= 5 /\ Len(Inner(k)) = Size(k) - 2
         /\ FrameOf(k)[1] = Flag /\ FrameOf(k)[Size(k)] = Flag
         /\ \A p \in 2 .. Size(k) - 1 : FrameOf(k)[p] = Inner(k)[p - 1] /\ FrameOf(k)[p] # Flag
         /\ Decode(Inner(k)) = Payloads[k]
<1>1. Payloads[k] \in Seq(0 .. 255) /\ Payloads[k] # <<>>
  BY PayloadsAssumption
<1>2. /\ Inner(k) \in Seq((0 .. 255) \ {Flag}) /\ Len(Inner(k)) >= 3
      /\ Decode(Inner(k)) = Payloads[k]
  BY <1>1, FramingUndone DEF Inner
<1>3. Flag \in 0 .. 255
  BY DEF Flag
<1>4. PICK n \in Nat : n = Len(Inner(k)) /\ n >= 3
  BY <1>2, LenProperties
<1>5. \A i \in 1 .. n : Inner(k)[i] \in 0 .. 255 /\ Inner(k)[i] # Flag
  BY <1>2, <1>4, ElementOfSeq
<1>6. Inner(k) \in Seq(0 .. 255)
  BY <1>2
<1> DEFINE front == <<Flag>> \o Inner(k)
<1>7. <<Flag>> \in Seq(0 .. 255) /\ Len(<<Flag>>) = 1 /\ <<Flag>>[1] = Flag
  BY <1>3
<1>8. /\ front \in Seq(0 .. 255) /\ Len(front) = 1 + n
      /\ \A i \in 1 .. 1 + n : front[i] = IF i =< 1 THEN <<Flag>>[i] ELSE Inner(k)[i - 1]
  <2>1. front \in Seq(0 .. 255) /\ Len(front) = Len(<<Flag>>) + Len(Inner(k))
    BY <1>6, <1>7, ConcatProperties
  <2>2. \A i \in 1 .. Len(<<Flag>>) + Len(Inner(k)) :
          front[i] = IF i =< Len(<<Flag>>) THEN <<Flag>>[i] ELSE Inner(k)[i - Len(<<Flag>>)]
    BY <1>6, <1>7, ConcatProperties
  <2> HIDE DEF front
  <2> QED BY <1>4, <1>7, <2>1, <2>2
<1>9. FrameOf(k) = front \o <<Flag>>
  BY DEF FrameOf, HdlcFrame, Inner
<1> HIDE DEF front
<1>10. /\ FrameOf(k) \in Seq(0 .. 255) /\ Size(k) = n + 2
       /\ \A i \in 1 .. n + 2 :
            FrameOf(k)[i] = IF i =< 1 + n THEN front[i] ELSE <<Flag>>[i - (1 + n)]
  <2>1. FrameOf(k) \in Seq(0 .. 255) /\ Size(k) = Len(front) + Len(<<Flag>>)
    BY <1>7, <1>8, <1>9, ConcatProperties DEF Size
  <2>2. \A i \in 1 .. Len(front) + Len(<<Flag>>) :
          FrameOf(k)[i] = IF i =< Len(front) THEN front[i] ELSE <<Flag>>[i - Len(front)]
    BY <1>7, <1>8, <1>9, ConcatProperties
  <2> QED BY <1>4, <1>7, <1>8, <2>1, <2>2
<1>11. FrameOf(k)[1] = Flag
  BY <1>4, <1>7, <1>8, <1>10
<1>12. FrameOf(k)[n + 2] = Flag
  <2>1. n + 2 \in 1 .. n + 2 /\ ~(n + 2 =< 1 + n) /\ (n + 2) - (1 + n) = 1
    BY <1>4
  <2> QED BY <1>7, <1>10, <2>1
<1>13. \A p \in 2 .. n + 1 : FrameOf(k)[p] = Inner(k)[p - 1] /\ FrameOf(k)[p] # Flag
  <2> SUFFICES ASSUME NEW p \in 2 .. n + 1
               PROVE  FrameOf(k)[p] = Inner(k)[p - 1] /\ FrameOf(k)[p] # Flag
    OBVIOUS
  <2>1. /\ p \in 1 .. n + 2 /\ p =< 1 + n /\ p \in 1 .. 1 + n /\ ~(p =< 1)
        /\ p - 1 \in 1 .. n
    BY <1>4
  <2> QED BY <1>5, <1>8, <1>10, <2>1
<1> QED BY <1>2, <1>4, <1>6, <1>10, <1>11, <1>12, <1>13

(* What has come of a frame, byte by byte. *)
LEMMA BegunGrows ==
  ASSUME NEW k \in 1 .. Len(Payloads)
  PROVE  /\ Begun(k, 1) = <<>> /\ Begun(k, Size(k) - 1) = Inner(k)
         /\ \A q \in 1 .. Size(k) - 2 :
              /\ Append(Begun(k, q), FrameOf(k)[q + 1]) = Begun(k, q + 1)
              /\ Begun(k, q + 1) # <<>>
         /\ \A q \in 1 .. Size(k) - 1 : Begun(k, q) \in Seq(0 .. 255)
<1>1. PICK n \in Nat : n = Size(k) /\ n >= 5
  BY FrameShape
<1>2. Inner(k) \in Seq(0 .. 255) /\ Len(Inner(k)) = n - 2
  BY <1>1, FrameShape
<1>3. Begun(k, 1) = <<>>
  BY SubSeqEmpty DEF Begun
<1>4. Begun(k, n - 1) = Inner(k)
  <2>1. (n - 1) - 1 = n - 2
    BY <1>1
  <2> QED BY <1>2, <2>1, SubSeqFull DEF Begun
<1>5. \A q \in 1 .. n - 1 : Begun(k, q) \in Seq(0 .. 255) /\ Len(Begun(k, q)) = q - 1
  <2> SUFFICES ASSUME NEW q \in 1 .. n - 1
               PROVE  Begun(k, q) \in Seq(0 .. 255) /\ Len(Begun(k, q)) = q - 1
    OBVIOUS
  <2>1. \A i \in 1 .. q - 1 : Inner(k)[i] \in 0 .. 255
    BY <1>1, <1>2, ElementOfSeq
  <2>2. /\ SubSeq(Inner(k), 1, q - 1) \in Seq(0 .. 255)
        /\ Len(SubSeq(Inner(k), 1, q - 1)) = IF 1 =< q - 1 THEN (q - 1) - 1 + 1 ELSE 0
    BY <2>1, SubSeqProperties
  <2> QED BY <2>2 DEF Begun
<1>6. ASSUME NEW q \in 1 .. n - 2
      PROVE  Append(Begun(k, q), FrameOf(k)[q + 1]) = Begun(k, q + 1) /\ Begun(k, q + 1) # <<>>
  <2>1. /\ q + 1 \in 2 .. Size(k) - 1 /\ (q + 1) - 1 = q /\ q + 1 \in 1 .. n - 1
        /\ q - 1 \in 0 .. Len(Inner(k)) - 1 /\ (q - 1) + 1 = q
    BY <1>1, <1>2
  <2>2. FrameOf(k)[q + 1] = Inner(k)[q]
    <3>1. \A p \in 2 .. Size(k) - 1 : FrameOf(k)[p] = Inner(k)[p - 1]
      BY FrameShape
    <3> QED BY <2>1, <3>1
  <2>3. Append(SubSeq(Inner(k), 1, q - 1), Inner(k)[q]) = SubSeq(Inner(k), 1, q)
    BY <1>2, <2>1, OneLonger
  <2>4. Len(Begun(k, q + 1)) = q
    BY <1>5, <2>1
  <2>5. Begun(k, q + 1) # <<>>
    BY <2>4, EmptySeq
  <2> QED BY <2>1, <2>2, <2>3, <2>5 DEF Begun
<1> QED BY <1>1, <1>3, <1>4, <1>5, <1>6

(* Offset is defined, and adds the size of each frame. *)
LEMMA Offsets ==
  /\ Offset \in [0 .. Len(Payloads) -> Nat] /\ Offset[0] = 0
  /\ \A k \in 1 .. Len(Payloads) : Offset[k] = Offset[k - 1] + Size(k)
<1> DEFINE n == Len(Payloads)
           F == [k \in 1 .. n |-> [v \in Nat |-> v + Size(k)]]
           Def(g) == g = [k \in 0 .. n |-> IF k = 0 THEN 0 ELSE g[k - 1] + Size(k)]
           chosen == CHOOSE g : Def(g)
<1>0. n \in Nat
  BY PayloadsAssumption
<1>1. \A k \in 1 .. n : Size(k) \in Nat
  BY FrameShape
<1>2. StepsIn(F, n, Nat)
  BY <1>0, <1>1 DEF StepsIn
<1>3. PICK f \in [0 .. n -> Nat] : Follows(f, n, 0, F)
  <2> HIDE DEF F
  <2> QED BY <1>0, <1>2, Recursion
<1>4. f[0] = 0 /\ \A k \in 1 .. n : f[k] = f[k - 1] + Size(k)
  <2>1. \A k \in 1 .. n : f[k] = F[k][f[k - 1]] /\ f[k - 1] \in Nat
    BY <1>0, <1>3 DEF Follows
  <2> QED BY <1>3, <2>1 DEF Follows
<1>5. Def(f)
  BY <1>0, <1>4
<1>6. Def(chosen)
  <2> HIDE DEF Def
  <2> QED BY <1>5
<1>7. Offset = chosen
  BY DEF Offset
<1> HIDE DEF chosen
<1>8. /\ DOMAIN Offset = 0 .. n /\ Offset[0] = 0 
      /\ \A k \in 1 .. n : Offset[k] = Offset[k - 1] + Size(k)
  BY <1>0, <1>6, <1>7
<1>9. \A k \in 0 .. n : Offset[k] = f[k]
  <2> DEFINE T == {i \in 0 .. n : Offset[i] = f[i]}
  <2>1. 0 \in T
    BY <1>0, <1>4, <1>8
  <2>2. \A i \in 0 .. n - 1 : i \in T => i + 1 \in T
    <3> SUFFICES ASSUME NEW i \in 0 .. n - 1, i \in T PROVE i + 1 \in T
      OBVIOUS
    <3>1. i + 1 \in 1 .. n /\ (i + 1) - 1 = i /\ i + 1 \in 0 .. n
      BY <1>0
    <3> QED BY <1>4, <1>8, <3>1
  <2>3. 0 .. n \subseteq T
    <3> HIDE DEF T
    <3> QED BY <1>0, <2>1, <2>2, UpToN
  <2> QED BY <2>3
<1>10. Offset = [k \in 0 .. n |-> Offset[k]]
  BY <1>6, <1>7
<1>11. Offset \in [0 .. n -> Nat]
  BY <1>9, <1>10
<1> QED BY <1>8, <1>11

(* The frame k and its two ends in the stream. *)
LEMMA SizeOf ==
  ASSUME NEW k \in 1 .. Len(Payloads)
  PROVE  /\ Size(k) \in Nat /\ Size(k) >= 5
         /\ Offset[k] = Offset[k - 1] + Size(k) /\ Offset[k - 1] \in Nat /\ Offset[k] \in Nat
<1>1. k - 1 \in 0 .. Len(Payloads) /\ k \in 0 .. Len(Payloads)
  BY PayloadsAssumption
<1> QED BY <1>1, FrameShape, Offsets

(* A frame ends no later than those after it. *)
LEMMA OffsetsGrow ==
  ASSUME NEW k \in 0 .. Len(Payloads), NEW i \in 0 .. k
  PROVE  Offset[i] =< Offset[k] /\ Offset[i] \in Nat /\ Offset[k] \in Nat
<1> DEFINE T == {m \in 0 .. Len(Payloads) : \A j \in 0 .. m : Offset[j] =< Offset[m]}
<1>0. Len(Payloads) \in Nat
  BY PayloadsAssumption
<1>1. \A m \in 0 .. Len(Payloads) : Offset[m] \in Nat
  BY Offsets
<1>2. 0 \in T
  BY <1>0, <1>1
<1>3. ASSUME NEW m \in 0 .. Len(Payloads) - 1, m \in T PROVE m + 1 \in T
  <2>1. m + 1 \in 1 .. Len(Payloads) /\ (m + 1) - 1 = m /\ m + 1 \in 0 .. Len(Payloads)
    BY <1>0
  <2>2. Offset[m + 1] = Offset[m] + Size(m + 1) /\ Size(m + 1) \in Nat
    BY <2>1, Offsets, FrameShape
  <2>3. ASSUME NEW j \in 0 .. m + 1 PROVE Offset[j] =< Offset[m + 1]
    <3>1. CASE j = m + 1
      BY <1>1, <2>1, <3>1
    <3>2. CASE j # m + 1
      <4>1. j \in 0 .. m /\ j \in 0 .. Len(Payloads)
        BY <1>0, <3>2
      <4>2. Offset[j] =< Offset[m]
        BY <1>3, <4>1
      <4> QED BY <1>1, <2>2, <4>1, <4>2
    <3> QED BY <3>1, <3>2
  <2> QED BY <2>1, <2>3
<1>4. 0 .. Len(Payloads) \subseteq T
  <2> HIDE DEF T
  <2> QED BY <1>0, <1>2, <1>3, UpToN
<1>5. i \in 0 .. Len(Payloads)
  BY <1>0
<1> QED BY <1>1, <1>4, <1>5

(* A byte of the stream has one place ... *)
LEMMA OnePlace ==
  ASSUME NEW k \in 1 .. Len(Payloads), NEW p \in 1 .. Size(k),
         NEW i \in 1 .. Len(Payloads), NEW q \in 1 .. Size(i),
         Offset[k - 1] + p = Offset[i - 1] + q
  PROVE  k = i /\ p = q
<1>0. /\ Len(Payloads) \in Nat
      /\ k - 1 \in 0 .. Len(Payloads) /\ k \in 0 .. Len(Payloads)
      /\ i - 1 \in 0 .. Len(Payloads) /\ i \in 0 .. Len(Payloads)
  BY PayloadsAssumption
<1>1. /\ Size(k) \in Nat /\ Size(i) \in Nat
      /\ Offset[k - 1] \in Nat /\ Offset[i - 1] \in Nat
      /\ Offset[k] = Offset[k - 1] + Size(k) /\ Offset[i] = Offset[i - 1] + Size(i)
  <2>1. Size(k) \in Nat /\ Size(i) \in Nat
    BY FrameShape
  <2>2. Offset[k - 1] \in Nat /\ Offset[i - 1] \in Nat
    BY <1>0, Offsets
  <2>3. Offset[k] = Offset[k - 1] + Size(k) /\ Offset[i] = Offset[i - 1] + Size(i)
    BY Offsets
  <2> QED BY <2>1, <2>2, <2>3
<1>2. CASE k < i
  <2>1. k \in 0 .. i - 1
    BY <1>0, <1>2
  <2>2. Offset[k] =< Offset[i - 1]
    BY <1>0, <2>1, OffsetsGrow
  <2>3. Offset[k - 1] + p =< Offset[i - 1]
    <3>1. p \in Nat /\ p =< Size(k)
      BY <1>1
    <3>2. Offset[k - 1] + p =< Offset[k]
      BY <1>1, <3>1
    <3> QED BY <1>1, <2>2, <3>1, <3>2
  <2> QED BY <1>1, <2>3
<1>3. CASE i < k
  <2>1. i \in 0 .. k - 1
    BY <1>0, <1>3
  <2>2. Offset[i] =< Offset[k - 1]
    BY <1>0, <2>1, OffsetsGrow
  <2>3. Offset[i - 1] + q =< Offset[k - 1]
    <3>1. q \in Nat /\ q =< Size(i)
      BY <1>1
    <3>2. Offset[i - 1] + q =< Offset[i]
      BY <1>1, <3>1
    <3> QED BY <1>1, <2>2, <3>1, <3>2
  <2> QED BY <1>1, <2>3
<1>4. CASE k = i
  BY <1>1, <1>4
<1> QED BY <1>2, <1>3, <1>4

(* ... and every number up to the end of the s frames is one. *)
LEMMA SomePlace ==
  ASSUME NEW s \in 0 .. Len(Payloads), NEW j \in 1 .. Offset[s]
  PROVE  \E k \in 1 .. s : \E p \in 1 .. Size(k) : j = Offset[k - 1] + p
<1> DEFINE T == {k \in 0 .. s : j =< Offset[k]}
<1>0. Len(Payloads) \in Nat /\ s \in T
  BY PayloadsAssumption
<1>1. PICK k \in T : \A i \in T : k =< i
  <2>1. T \subseteq Nat /\ T # {}
    BY <1>0
  <2> HIDE DEF T
  <2> QED BY <2>1, LeastElement
<1>2. k # 0
  BY <1>1, Offsets
<1>3. k \in 1 .. s /\ k - 1 \in 0 .. s /\ k - 1 \notin T /\ k \in 1 .. Len(Payloads)
  BY <1>0, <1>1, <1>2
<1>4. /\ Offset[k] = Offset[k - 1] + Size(k) /\ Size(k) \in Nat
      /\ Offset[k - 1] \in Nat /\ Offset[k] \in Nat /\ Offset[s] \in Nat
  <2>1. k - 1 \in 0 .. Len(Payloads) /\ k \in 0 .. Len(Payloads)
    BY <1>0, <1>3
  <2> QED BY <1>3, <2>1, Offsets, FrameShape
<1>5. j =< Offset[k] /\ ~(j =< Offset[k - 1])
  BY <1>1, <1>3
<1>6. j - Offset[k - 1] \in 1 .. Size(k) /\ j = Offset[k - 1] + (j - Offset[k - 1])
  BY <1>4, <1>5
<1> QED BY <1>3, <1>6
(* What is gone and what is on its way make up what was sent. *)
LEMMA Here ==
  ASSUME StreamTyped, LineKept
  PROVE  /\ Len(Payloads) \in Nat /\ Len(line) \in Nat /\ Offset[shipped] \in Nat
         /\ Gone \in Nat /\ Gone + Len(line) = Offset[shipped]
<1>1. Len(Payloads) \in Nat
  BY PayloadsAssumption
<1>2. Len(line) \in Nat
  BY LenProperties DEF StreamTyped
<1>3. Offset[shipped] \in Nat
  BY OffsetsGrow DEF StreamTyped
<1> QED BY <1>1, <1>2, <1>3 DEF LineKept, Gone

(* Each byte on its way has its place. *)
LEMMA ByteAt ==
  ASSUME StreamTyped, LineKept, NEW j \in 1 .. Len(line)
  PROVE  \E k \in 1 .. shipped : \E p \in 1 .. Size(k) :
           Gone + j = Offset[k - 1] + p /\ line[j] = [byte |-> FrameOf(k)[p], of |-> k]
<1>1. Gone + j \in 1 .. Offset[shipped]
  BY Here
<1>2. PICK k \in 1 .. shipped : \E p \in 1 .. Size(k) : Gone + j = Offset[k - 1] + p
  BY <1>1, SomePlace DEF StreamTyped
<1>3. PICK p \in 1 .. Size(k) : Gone + j = Offset[k - 1] + p
  BY <1>2
<1>4. line[j] = [byte |-> FrameOf(k)[p], of |-> k]
  BY <1>3 DEF LineKept
<1> QED BY <1>3, <1>4

(* The first n bytes are taken or thrown away. *)
LEMMA Dropped ==
  ASSUME StreamTyped, LineKept, NEW n \in 1 .. Len(line),
         line' = SubSeq(line, n + 1, Len(line)), shipped' = shipped
  PROVE  Gone' = Gone + n /\ line' \in Seq(Marks) /\ LineKept'
<1>0. PICK l \in Nat, e \in Nat, g \in Nat :
        l = Len(line) /\ e = Offset[shipped] /\ g = Gone /\ g + l = e
  BY Here
<1>1. \A i \in n + 1 .. l : line[i] \in Marks
  BY <1>0, ElementOfSeq DEF StreamTyped
<1> DEFINE cut == SubSeq(line, n + 1, l)
<1>2. /\ cut \in Seq(Marks) /\ Len(cut) = l - n
      /\ \A i \in 1 .. l - n : cut[i] = line[i + n]
  <2>1. /\ cut \in Seq(Marks)
        /\ Len(cut) = IF n + 1 =< l THEN l - (n + 1) + 1 ELSE 0
        /\ \A i \in 1 .. l - (n + 1) + 1 : cut[i] = line[(n + 1) + i - 1]
    BY <1>0, <1>1, SubSeqProperties
  <2>2. /\ l - (n + 1) + 1 = l - n /\ n =< l
        /\ \A i \in 1 .. l - n : (n + 1) + i - 1 = i + n
    BY <1>0
  <2>3. Len(cut) = l - n
    <3> HIDE DEF cut
    <3> QED BY <1>0, <2>1, <2>2
  <2> HIDE DEF cut
  <2> QED BY <2>1, <2>2, <2>3
<1>3. line' = cut /\ n \in 1 .. l
  BY <1>0
<1> HIDE DEF cut
<1>4. /\ Gone' = g + n /\ Len(line') =< Offset[shipped']
      /\ Len(line') = l - n
  <2>1. Len(line') = l - n
    BY <1>2, <1>3
  <2>2. Offset[shipped'] = e /\ e - (l - n) = g + n /\ l - n =< e
    BY <1>0, <1>3
  <2>3. Gone' = Offset[shipped'] - Len(line')
    BY DEF Gone
  <2> QED BY <2>1, <2>2, <2>3
<1>5. ASSUME NEW j \in 1 .. l - n, NEW k \in 1 .. shipped, NEW p \in 1 .. Size(k),
             (g + n) + j = Offset[k - 1] + p
      PROVE  cut[j] = [byte |-> FrameOf(k)[p], of |-> k]
  <2>1. j + n \in 1 .. l /\ cut[j] = line[j + n]
    <3>1. j + n \in 1 .. l
      BY <1>0, <1>3
    <3> QED BY <1>2, <3>1
  <2>2. g + (j + n) = Offset[k - 1] + p
    BY <1>0, <1>3, <1>5
  <2> QED BY <1>0, <2>1, <2>2 DEF LineKept
<1>6. ASSUME NEW j \in 1 .. Len(line'), NEW k \in 1 .. shipped', NEW p \in 1 .. Size(k),
             Gone' + j = Offset[k - 1] + p
      PROVE  line'[j] = [byte |-> FrameOf(k)[p], of |-> k]
  <2>1. j \in 1 .. l - n /\ k \in 1 .. shipped /\ (g + n) + j = Offset[k - 1] + p
    BY <1>4, <1>6
  <2> QED BY <1>3, <1>5, <2>1
<1>7. LineKept'
  BY <1>4, <1>6 DEF LineKept
<1> QED BY <1>0, <1>2, <1>3, <1>4, <1>7

(* The byte after the g-th is the p-th of frame k, and no other. *)
Turn(g, k, p) ==
  /\ g + 1 = Offset[k - 1] + p
  /\ \A i \in 1 .. Len(Payloads) : Offset[i] =< g + 1 => Offset[i] =< g \/ (i = k /\ p = Size(k))
  /\ \A i \in 1 .. Len(Payloads) : \A q \in 1 .. Size(i) :
       g + 1 = Offset[i - 1] + q => i = k /\ q = p

(* A byte with a place is the only one there. *)
LEMMA TurnOf ==
  ASSUME NEW g \in Nat, NEW k \in 1 .. Len(Payloads), NEW p \in 1 .. Size(k),
         g + 1 = Offset[k - 1] + p
  PROVE  Turn(g, k, p)
<1>1. ASSUME NEW i \in 1 .. Len(Payloads), NEW q \in 1 .. Size(i), g + 1 = Offset[i - 1] + q
      PROVE  i = k /\ q = p
  BY <1>1, OnePlace
<1>2. ASSUME NEW i \in 1 .. Len(Payloads), Offset[i] =< g + 1, ~(Offset[i] =< g)
      PROVE  i = k /\ p = Size(k)
  <2>1. Offset[i] = Offset[i - 1] + Size(i) /\ Size(i) \in 1 .. Size(i)
    <3>1. Size(i) \in Nat /\ Size(i) >= 5 /\ Offset[i] = Offset[i - 1] + Size(i)
      BY SizeOf
    <3> QED BY <3>1
  <2>2. Offset[i] \in Nat
    <3>1. i \in 0 .. Len(Payloads)
      BY PayloadsAssumption
    <3> QED BY <3>1, Offsets
  <2>3. g + 1 = Offset[i]
    BY <1>2, <2>2
  <2> QED BY <1>1, <2>1, <2>3
<1> QED BY <1>1, <1>2 DEF Turn

(* read_frame() takes the next byte. *)
LEMMA Take ==
  ASSUME StreamTyped, LineKept, TakeByte
  PROVE  /\ Gone' = Gone + 1 /\ line' \in Seq(Marks) /\ LineKept'
         /\ shipped' = shipped /\ hit' = hit
         /\ \E k \in 1 .. shipped : \E p \in 1 .. Size(k) :
              Turn(Gone, k, p) /\ NextByte = FrameOf(k)[p] /\ NextByte \in 0 .. 255
<1>1. line # <<>> /\ line' = Tail(line) /\ shipped' = shipped /\ hit' = hit
  BY DEF TakeByte
<1>2. 1 \in 1 .. Len(line) /\ line' = SubSeq(line, 1 + 1, Len(line))
  BY <1>1, Here, EmptySeq, TailIsSubSeq DEF StreamTyped
<1>3. Gone' = Gone + 1 /\ line' \in Seq(Marks) /\ LineKept'
  BY <1>1, <1>2, Dropped
<1>4. PICK k \in 1 .. shipped : \E p \in 1 .. Size(k) :
        Gone + 1 = Offset[k - 1] + p /\ line[1] = [byte |-> FrameOf(k)[p], of |-> k]
  BY <1>2, ByteAt
<1>5. PICK p \in 1 .. Size(k) :
        Gone + 1 = Offset[k - 1] + p /\ line[1] = [byte |-> FrameOf(k)[p], of |-> k]
  BY <1>4
<1>6. k \in 1 .. Len(Payloads)
  BY Here DEF StreamTyped
<1>7. Turn(Gone, k, p)
  BY <1>5, <1>6, Here, TurnOf
<1>8. NextByte = line[1].byte
  BY DEF NextByte
<1>9. FrameOf(k)[p] \in 0 .. 255
  BY <1>6, FrameShape, ElementOfSeq DEF Size
<1> QED BY <1>1, <1>3, <1>5, <1>7, <1>8, <1>9
(* No two payloads are the same. *)
LEMMA PlaceOf ==
  ASSUME NEW k \in 1 .. Len(Payloads)
  PROVE  Place(Payloads[k]) = k
<1>1. k \in DOMAIN Payloads
  BY PayloadsAssumption
<1>2. \A i \in DOMAIN Payloads : Payloads[i] = Payloads[k] => i = k
  BY <1>1, PayloadsAssumption
<1>3. /\ Place(Payloads[k]) \in DOMAIN Payloads
      /\ Payloads[Place(Payloads[k])] = Payloads[k]
  BY <1>1 DEF Place
<1> QED BY <1>2, <1>3

(* What was returned stays in order. *)
LEMMA GotStays ==
  ASSUME StreamTyped, LineKept, GotInOrder, got' = got, NEW n \in Nat, Gone' = Gone + n,
         shipped' \in Nat, shipped =< shipped'
  PROVE  GotInOrder'
<1>1. ASSUME NEW j \in DOMAIN got
      PROVE  \E i \in 1 .. shipped' :
               Place(got[j]) = i /\ Payloads[i] = got[j] /\ Offset[i] =< Gone'
  <2>1. PICK i \in 1 .. shipped : Place(got[j]) = i /\ Payloads[i] = got[j] /\ Offset[i] =< Gone
    BY DEF GotInOrder
  <2>2. i \in 0 .. Len(Payloads) /\ i \in 1 .. shipped'
    BY Here DEF StreamTyped
  <2>3. Offset[i] \in Nat /\ Gone \in Nat
    BY <2>2, Offsets, Here
  <2>4. Offset[i] =< Gone'
    BY <2>1, <2>3
  <2> QED BY <2>1, <2>2, <2>4
<1>2. \A j \in 2 .. Len(got) : Place(got[j - 1]) < Place(got[j])
  BY DEF GotInOrder
<1> QED BY <1>1, <1>2 DEF GotInOrder

(* A flag with nothing before it begins a frame. *)
LEMMA OpeningStep ==
  ASSUME StreamIInv, OpeningFlag
  PROVE  StreamIInv'
<1>0. /\ StreamTyped /\ LineKept /\ ReaderKept /\ NothingDropped /\ GotInOrder
      /\ TakeByte /\ NextByte = Flag /\ encoded = <<>>
      /\ started' = TRUE /\ encoded' = <<>> /\ got' = got
  BY DEF StreamIInv, OpeningFlag
<1>1. /\ Gone' = Gone + 1 /\ line' \in Seq(Marks) /\ LineKept' /\ shipped' = shipped /\ hit' = hit
      /\ Gone \in Nat /\ shipped \in 0 .. Len(Payloads) /\ Len(Payloads) \in Nat
  BY <1>0, Take, Here DEF StreamTyped
<1>2. PICK k \in 1 .. shipped : \E p \in 1 .. Size(k) : Turn(Gone, k, p) /\ NextByte = FrameOf(k)[p]
  BY <1>0, Take
<1>3. PICK p \in 1 .. Size(k) : Turn(Gone, k, p) /\ NextByte = FrameOf(k)[p]
  BY <1>2
<1>4. /\ k \in 1 .. Len(Payloads) /\ Size(k) \in Nat /\ Size(k) >= 5
      /\ Offset[k] = Offset[k - 1] + Size(k) /\ Offset[k - 1] \in Nat
  BY <1>1, SizeOf
<1>5. p = 1 \/ p = Size(k)
  <2>1. \A q \in 2 .. Size(k) - 1 : FrameOf(k)[q] # Flag
    BY <1>4, FrameShape
  <2>2. p \notin 2 .. Size(k) - 1
    BY <1>0, <1>3, <2>1
  <2> QED BY <1>4, <2>2
<1>6. Gone + 1 = Offset[k - 1] + p
  BY <1>3 DEF Turn
<1>7. StreamTyped'
  BY <1>0, <1>1 DEF StreamTyped
<1>8. ReaderKept'
  <2>1. Gone' \in {Offset[k - 1] + 1, Offset[k]}
    BY <1>1, <1>4, <1>5, <1>6
  <2> QED BY <1>0, <1>1, <2>1 DEF ReaderKept
<1>9. NothingDropped'
  <2>1. ASSUME NEW i \in (1 .. shipped) \ hit, NEW q \in 1 .. Size(i) - 1,
               Gone + 1 = Offset[i - 1] + q
        PROVE  <<>> = Begun(i, q)
    <3>1. i \in 1 .. Len(Payloads) /\ q \in 1 .. Size(i) /\ q # Size(i)
      <4>1. i \in 1 .. Len(Payloads)
        BY <1>1
      <4> QED BY <4>1, FrameShape
    <3>2. i = k /\ q = p
      BY <1>3, <2>1, <3>1 DEF Turn
    <3>3. q = 1
      BY <1>5, <3>1, <3>2
    <3> QED BY <3>1, <3>3, BegunGrows
  <2>2. ASSUME NEW i \in (1 .. shipped) \ hit, Offset[i] =< Gone + 1
        PROVE  Offset[i] =< Gone
    <3>1. SUFFICES ASSUME ~(Offset[i] =< Gone) PROVE FALSE
      OBVIOUS
    <3>2. i = k /\ p = Size(k)
      <4>1. i \in 1 .. Len(Payloads)
        BY <1>1
      <4> QED BY <1>3, <2>2, <3>1, <4>1 DEF Turn
    <3>3. Size(k) - 1 \in 1 .. Size(k) - 1 /\ Gone = Offset[k - 1] + (Size(k) - 1)
      <4>1. Gone + 1 = Offset[k - 1] + Size(k)
        BY <1>6, <3>2
      <4>2. Size(k) - 1 \in 1 .. Size(k) - 1
        BY <1>4
      <4> QED BY <1>1, <1>4, <4>1, <4>2
    <3>4. encoded = Begun(k, Size(k) - 1)
      BY <1>0, <3>2, <3>3 DEF NothingDropped
    <3>5. Size(k) - 2 \in 1 .. Size(k) - 2 /\ (Size(k) - 2) + 1 = Size(k) - 1
      BY <1>4
    <3>6. Begun(k, (Size(k) - 2) + 1) # <<>>
      BY <1>4, <3>5, BegunGrows
    <3> QED BY <1>0, <3>4, <3>5, <3>6
  <2>3. \A i \in (1 .. shipped) \ hit :
          Offset[i] =< Gone + 1 => \E j \in DOMAIN got : got[j] = Payloads[i]
    BY <1>0, <2>2 DEF NothingDropped
  <2> QED BY <1>0, <1>1, <2>1, <2>3 DEF NothingDropped
<1>10. GotInOrder'
  BY <1>0, <1>1, GotStays
<1> QED BY <1>1, <1>7, <1>8, <1>9, <1>10 DEF StreamIInv
(* A flag with bytes before it ends the frame, which is decoded. *)
LEMMA ClosingStep ==
  ASSUME StreamIInv, ClosingFlag
  PROVE  StreamIInv'
<1>0. /\ StreamTyped /\ LineKept /\ ReaderKept /\ NothingDropped /\ GotInOrder
      /\ TakeByte /\ NextByte = Flag /\ encoded # <<>>
      /\ started' = FALSE /\ encoded' = <<>> /\ got' = Append(got, Decode(encoded))
  BY DEF StreamIInv, ClosingFlag
<1>1. /\ Gone' = Gone + 1 /\ line' \in Seq(Marks) /\ LineKept' /\ shipped' = shipped /\ hit' = hit
      /\ Gone \in Nat /\ shipped \in 0 .. Len(Payloads) /\ Len(Payloads) \in Nat
  BY <1>0, Take, Here DEF StreamTyped
<1>2. PICK k \in 1 .. shipped : \E q \in 2 .. Size(k) - 1 :
        Gone = Offset[k - 1] + q /\ encoded = Begun(k, q)
  BY <1>0 DEF ReaderKept
<1>3. PICK q \in 2 .. Size(k) - 1 : Gone = Offset[k - 1] + q /\ encoded = Begun(k, q)
  BY <1>2
<1>4. /\ k \in 1 .. Len(Payloads) /\ Size(k) \in Nat /\ Size(k) >= 5
      /\ Offset[k] = Offset[k - 1] + Size(k) /\ Offset[k - 1] \in Nat
  BY <1>1, SizeOf
<1>5. Turn(Gone, k, q + 1) /\ q + 1 \in 1 .. Size(k)
  <2>1. q + 1 \in 1 .. Size(k) /\ Gone + 1 = Offset[k - 1] + (q + 1)
    BY <1>3, <1>4
  <2> QED BY <1>1, <1>4, <2>1, TurnOf
<1>6. NextByte = FrameOf(k)[q + 1]
  <2>1. PICK i \in 1 .. shipped : \E p \in 1 .. Size(i) :
          Turn(Gone, i, p) /\ NextByte = FrameOf(i)[p]
    BY <1>0, Take
  <2>2. PICK p \in 1 .. Size(i) : Turn(Gone, i, p) /\ NextByte = FrameOf(i)[p]
    BY <2>1
  <2>3. k = i /\ q + 1 = p
    <3>1. Gone + 1 = Offset[k - 1] + (q + 1)
      BY <1>5 DEF Turn
    <3> QED BY <1>4, <1>5, <2>2, <3>1 DEF Turn
  <2> QED BY <2>2, <2>3
<1>7. q + 1 = Size(k)
  <2>1. \A p \in 2 .. Size(k) - 1 : FrameOf(k)[p] # Flag
    BY <1>4, FrameShape
  <2>2. q + 1 \notin 2 .. Size(k) - 1
    BY <1>0, <1>6, <2>1
  <2> QED BY <1>4, <1>5, <2>2
<1>8. got' = Append(got, Payloads[k]) /\ Gone + 1 = Offset[k]
  <2>1. q = Size(k) - 1
    BY <1>4, <1>7
  <2>2. encoded = Inner(k)
    BY <1>3, <1>4, <2>1, BegunGrows
  <2>3. Decode(encoded) = Payloads[k]
    BY <1>4, <2>2, FrameShape
  <2>4. Gone + 1 = Offset[k]
    BY <1>3, <1>4, <1>7
  <2> QED BY <1>0, <2>3, <2>4
<1>9. PICK n \in Nat : n = Len(got)
  BY <1>0, LenProperties DEF StreamTyped
<1>10. /\ got' \in Seq(Seq(0 .. 255)) /\ Len(got') = n + 1 /\ got'[n + 1] = Payloads[k]
       /\ DOMAIN got' = 1 .. n + 1 /\ DOMAIN got = 1 .. n
       /\ \A j \in 1 .. n : got'[j] = got[j]
  <2>1. Payloads[k] \in Seq(0 .. 255) /\ got \in Seq(Seq(0 .. 255))
    BY <1>0, <1>4, PayloadsAssumption, ElementOfSeq DEF StreamTyped
  <2>2. Append(got, Payloads[k]) \in Seq(Seq(0 .. 255)) /\ Len(Append(got, Payloads[k])) = n + 1
    BY <1>9, <2>1, AppendProperties
  <2>3. /\ Append(got, Payloads[k])[n + 1] = Payloads[k]
        /\ \A j \in 1 .. n : Append(got, Payloads[k])[j] = got[j]
    BY <1>9, <2>1, AppendProperties
  <2> QED BY <1>8, <1>9, <2>1, <2>2, <2>3, LenProperties
<1>11. StreamTyped'
  <2>1. encoded' \in Seq(0 .. 255)
    BY <1>0, EmptySeq
  <2> QED BY <1>0, <1>1, <1>10, <2>1 DEF StreamTyped
<1>12. ReaderKept'
  BY <1>0 DEF ReaderKept
<1>13. NothingDropped'
  <2>1. ASSUME NEW i \in (1 .. shipped) \ hit, NEW p \in 1 .. Size(i) - 1,
               Gone + 1 = Offset[i - 1] + p
        PROVE  FALSE
    <3>1. i \in 1 .. Len(Payloads) /\ p \in 1 .. Size(i) /\ p # Size(i)
      <4>1. i \in 1 .. Len(Payloads)
        BY <1>1
      <4> QED BY <4>1, FrameShape
    <3>2. i = k /\ p = q + 1
      BY <1>5, <2>1, <3>1 DEF Turn
    <3> QED BY <1>7, <3>1, <3>2
  <2>2. ASSUME NEW i \in (1 .. shipped) \ hit, Offset[i] =< Gone + 1
        PROVE  \E j \in DOMAIN got' : got'[j] = Payloads[i]
    <3>1. i \in 1 .. Len(Payloads)
      BY <1>1
    <3>2. CASE Offset[i] =< Gone
      <4>1. PICK j \in DOMAIN got : got[j] = Payloads[i]
        BY <1>0, <3>2 DEF NothingDropped
      <4> QED BY <1>9, <1>10, <4>1
    <3>3. CASE ~(Offset[i] =< Gone)
      <4>1. i = k
        BY <1>5, <2>2, <3>1, <3>3 DEF Turn
      <4>2. n + 1 \in DOMAIN got'
        BY <1>9, <1>10
      <4> QED BY <1>10, <4>1, <4>2
    <3> QED BY <3>2, <3>3
  <2>3. \A i \in (1 .. shipped') \ hit' :
          Offset[i] =< Gone' => \E j \in DOMAIN got' : got'[j] = Payloads[i]
    BY <1>1, <2>2
  <2>4. \A i \in (1 .. shipped') \ hit' : \A p \in 1 .. Size(i) - 1 : Gone' # Offset[i - 1] + p
    BY <1>1, <2>1
  <2> QED BY <2>3, <2>4 DEF NothingDropped
<1>14. GotInOrder'
  <2>1. Place(Payloads[k]) = k
    BY <1>4, PlaceOf
  <2>2. ASSUME NEW j \in 1 .. n
        PROVE  \E i \in 1 .. shipped : /\ Place(got[j]) = i /\ Payloads[i] = got[j]
                                    /\ Offset[i] =< Gone + 1 /\ i < k
    <3>1. PICK i \in 1 .. shipped : Place(got[j]) = i /\ Payloads[i] = got[j] /\ Offset[i] =< Gone
      BY <1>0, <1>10 DEF GotInOrder
    <3>2. i \in 1 .. Len(Payloads)
      BY <1>1
    <3>3. Offset[i] \in Nat
      BY <3>2, SizeOf
    <3>4. i < k
      <4>1. SUFFICES ASSUME k =< i PROVE FALSE
        BY <1>4, <3>2
      <4>2. i \in 0 .. Len(Payloads) /\ k \in 0 .. i
        BY <1>4, <3>2, <4>1
      <4>3. Offset[k] =< Offset[i]
        BY <4>2, OffsetsGrow
      <4> QED BY <1>1, <1>8, <3>1, <3>3, <4>3
    <3> QED BY <1>1, <3>1, <3>3, <3>4
  <2>3. ASSUME NEW j \in 1 .. n + 1
        PROVE  \E i \in 1 .. shipped :
                 Place(got'[j]) = i /\ Payloads[i] = got'[j] /\ Offset[i] =< Gone + 1
    <3>1. CASE j \in 1 .. n
      <4>1. got'[j] = got[j]
        BY <1>10, <3>1
      <4>2. PICK i \in 1 .. shipped :
              Place(got[j]) = i /\ Payloads[i] = got[j] /\ Offset[i] =< Gone + 1
        BY <2>2, <3>1
      <4> QED BY <4>1, <4>2
    <3>2. CASE j = n + 1
      BY <1>1, <1>8, <1>10, <2>1, <3>2
    <3> QED BY <1>9, <3>1, <3>2
  <2>4. ASSUME NEW j \in 2 .. n + 1
        PROVE  Place(got'[j - 1]) < Place(got'[j])
    <3>1. j - 1 \in 1 .. n
      BY <1>9
    <3>2. CASE j = n + 1
      <4>1. Place(got[j - 1]) < k
        BY <2>2, <3>1
      <4> QED BY <1>10, <2>1, <3>1, <3>2, <4>1
    <3>3. CASE j # n + 1
      <4>1. j \in 1 .. n /\ j \in 2 .. Len(got)
        BY <1>9, <3>3
      <4>2. Place(got[j - 1]) < Place(got[j])
        BY <1>0, <4>1 DEF GotInOrder
      <4> QED BY <1>10, <3>1, <4>1, <4>2
    <3> QED BY <3>2, <3>3
  <2> QED BY <1>1, <1>10, <2>3, <2>4 DEF GotInOrder
<1> QED BY <1>1, <1>11, <1>12, <1>13, <1>14 DEF StreamIInv
(* A byte inside a frame is kept, one outside is skipped. *)
LEMMA DataStep ==
  ASSUME StreamIInv, DataByte
  PROVE  StreamIInv'
<1>0. /\ StreamTyped /\ LineKept /\ ReaderKept /\ NothingDropped /\ GotInOrder
      /\ TakeByte /\ NextByte # Flag
      /\ encoded' = (IF started THEN Append(encoded, NextByte) ELSE encoded)
      /\ started' = started /\ got' = got
  BY DEF StreamIInv, DataByte
<1>1. /\ Gone' = Gone + 1 /\ line' \in Seq(Marks) /\ LineKept' /\ shipped' = shipped /\ hit' = hit
      /\ Gone \in Nat /\ shipped \in 0 .. Len(Payloads) /\ Len(Payloads) \in Nat
  BY <1>0, Take, Here DEF StreamTyped
<1>2. PICK k \in 1 .. shipped : \E p \in 1 .. Size(k) :
        Turn(Gone, k, p) /\ NextByte = FrameOf(k)[p] /\ NextByte \in 0 .. 255
  BY <1>0, Take
<1>3. PICK p \in 1 .. Size(k) :
        Turn(Gone, k, p) /\ NextByte = FrameOf(k)[p] /\ NextByte \in 0 .. 255
  BY <1>2
<1>4. /\ k \in 1 .. Len(Payloads) /\ Size(k) \in Nat /\ Size(k) >= 5
      /\ Offset[k] = Offset[k - 1] + Size(k) /\ Offset[k - 1] \in Nat
  BY <1>1, SizeOf
<1>5. p \in 2 .. Size(k) - 1 /\ p - 1 \in 1 .. Size(k) - 2 /\ (p - 1) + 1 = p
  <2>1. p # 1 /\ p # Size(k)
    BY <1>0, <1>3, <1>4, FrameShape
  <2> QED BY <1>4, <2>1
<1>6. Gone + 1 = Offset[k - 1] + p /\ Gone = Offset[k - 1] + (p - 1)
  <2>1. Gone + 1 = Offset[k - 1] + p
    BY <1>3 DEF Turn
  <2>2. p \in Nat /\ Gone \in Nat /\ Offset[k - 1] \in Nat
    BY <1>1, <1>4
  <2> QED BY <2>1, <2>2
<1>7. /\ Append(Begun(k, p - 1), NextByte) = Begun(k, p) /\ Begun(k, p) # <<>>
      /\ Begun(k, p) \in Seq(0 .. 255)
  <2>1. Append(Begun(k, p - 1), FrameOf(k)[(p - 1) + 1]) = Begun(k, (p - 1) + 1)
    BY <1>4, <1>5, BegunGrows
  <2>2. Begun(k, (p - 1) + 1) # <<>>
    BY <1>4, <1>5, BegunGrows
  <2>3. p \in 1 .. Size(k) - 1
    BY <1>4, <1>5
  <2>4. Begun(k, p) \in Seq(0 .. 255)
    BY <1>4, <2>3, BegunGrows
  <2> QED BY <1>3, <1>5, <2>1, <2>2, <2>4
<1>8. started => encoded = Begun(k, p - 1)
  <2> SUFFICES ASSUME started PROVE encoded = Begun(k, p - 1)
    OBVIOUS
  <2>1. CASE encoded = <<>>
    <3>1. PICK i \in 1 .. shipped : Gone \in {Offset[i - 1] + 1, Offset[i]}
      BY <1>0, <2>1 DEF ReaderKept
    <3>2. i \in 1 .. Len(Payloads)
      BY <1>1
    <3>3. /\ Size(i) \in Nat /\ Size(i) >= 5 /\ Offset[i] = Offset[i - 1] + Size(i)
          /\ Offset[i - 1] \in Nat /\ 2 \in 1 .. Size(i)
      <4>1. /\ Size(i) \in Nat /\ Size(i) >= 5 /\ Offset[i] = Offset[i - 1] + Size(i)
            /\ Offset[i - 1] \in Nat
        BY <3>2, SizeOf
      <4> QED BY <4>1
    <3>4. CASE Gone = Offset[i - 1] + 1
      <4>1. Gone + 1 = Offset[i - 1] + 2
        BY <3>3, <3>4
      <4>2. i = k /\ 2 = p
        BY <1>3, <3>2, <3>3, <4>1 DEF Turn
      <4>3. p - 1 = 1
        BY <4>2
      <4> QED BY <1>4, <2>1, <4>3, BegunGrows
    <3>5. CASE Gone = Offset[i]
      <4>1. p - 1 \in 1 .. Size(k) /\ Size(i) \in 1 .. Size(i)
        BY <1>4, <1>5, <3>3
      <4>2. Offset[k - 1] + (p - 1) = Offset[i - 1] + Size(i)
        BY <1>6, <3>3, <3>5
      <4>3. k = i /\ p - 1 = Size(i)
        BY <1>4, <3>2, <4>1, <4>2, OnePlace
      <4> QED BY <1>4, <1>5, <4>3
    <3> QED BY <3>1, <3>4, <3>5
  <2>2. CASE encoded # <<>>
    <3>1. PICK i \in 1 .. shipped : \E q \in 2 .. Size(i) - 1 :
            Gone = Offset[i - 1] + q /\ encoded = Begun(i, q)
      BY <1>0, <2>2 DEF ReaderKept
    <3>2. PICK q \in 2 .. Size(i) - 1 : Gone = Offset[i - 1] + q /\ encoded = Begun(i, q)
      BY <3>1
    <3>3. i \in 1 .. Len(Payloads)
      BY <1>1
    <3>4. q \in 1 .. Size(i) /\ p - 1 \in 1 .. Size(k)
      <4>1. Size(i) \in Nat
        BY <3>3, SizeOf
      <4>2. q \in 1 .. Size(i)
        BY <3>2, <4>1
      <4>3. p - 1 \in 1 .. Size(k)
        BY <1>4, <1>5
      <4> QED BY <4>2, <4>3
    <3>5. Offset[k - 1] + (p - 1) = Offset[i - 1] + q
      BY <1>6, <3>2
    <3>6. k = i /\ p - 1 = q
      BY <1>4, <3>3, <3>4, <3>5, OnePlace
    <3> QED BY <3>2, <3>6
  <2> QED BY <2>1, <2>2
<1>9. IF started THEN encoded' = Begun(k, p) ELSE encoded' = <<>> /\ encoded = <<>>
  BY <1>0, <1>7, <1>8 DEF ReaderKept
<1>10. StreamTyped'
  <2>1. encoded' \in Seq(0 .. 255)
    BY <1>7, <1>9, EmptySeq
  <2> QED BY <1>0, <1>1, <2>1 DEF StreamTyped
<1>11. ReaderKept'
  <2>1. CASE started
    <3>1. encoded' = Begun(k, p) /\ encoded' # <<>> /\ started'
      BY <1>0, <1>7, <1>9, <2>1
    <3>2. Gone' = Offset[k - 1] + p /\ k \in 1 .. shipped'
      BY <1>1, <1>6
    <3> QED BY <1>5, <3>1, <3>2 DEF ReaderKept
  <2>2. CASE ~started
    BY <1>0, <1>9, <2>2 DEF ReaderKept
  <2> QED BY <2>1, <2>2
<1>12. NothingDropped'
  <2>1. ASSUME NEW i \in (1 .. shipped) \ hit, NEW q \in 1 .. Size(i) - 1,
               Gone + 1 = Offset[i - 1] + q
        PROVE  started /\ encoded' = Begun(i, q)
    <3>1. i \in 1 .. Len(Payloads)
      BY <1>1
    <3>2. q \in 1 .. Size(i)
      BY <3>1, SizeOf
    <3>3. i = k /\ q = p
      BY <1>3, <2>1, <3>1, <3>2 DEF Turn
    <3>4. p - 1 \in 1 .. Size(k) - 1
      BY <1>4, <1>5
    <3>5. started
      BY <1>0, <1>6, <3>3, <3>4 DEF NothingDropped
    <3> QED BY <1>9, <3>3, <3>5
  <2>2. ASSUME NEW i \in (1 .. shipped) \ hit, Offset[i] =< Gone + 1
        PROVE  Offset[i] =< Gone
    <3>1. i \in 1 .. Len(Payloads)
      BY <1>1
    <3> QED BY <1>3, <1>4, <1>5, <2>2, <3>1 DEF Turn
  <2>3. \A i \in (1 .. shipped) \ hit :
          Offset[i] =< Gone + 1 => \E j \in DOMAIN got : got[j] = Payloads[i]
    BY <1>0, <2>2 DEF NothingDropped
  <2> QED BY <1>0, <1>1, <2>1, <2>3 DEF NothingDropped
<1>13. GotInOrder'
  BY <1>0, <1>1, GotStays
<1> QED BY <1>1, <1>10, <1>11, <1>12, <1>13 DEF StreamIInv

(* The deadline falls inside a frame, which is then hit, or before one. *)
LEMMA DeadlineStep ==
  ASSUME StreamIInv, Deadline
  PROVE  StreamIInv'
<1>0. /\ StreamTyped /\ LineKept /\ ReaderKept /\ NothingDropped /\ GotInOrder
      /\ started' = FALSE /\ encoded' = <<>> /\ got' = got /\ shipped' = shipped /\ line' = line
      /\ hit' = hit \cup (IF InsideFrame THEN {Head(line).of} ELSE {})
  BY DEF StreamIInv, Deadline
<1>1. /\ Gone \in Nat /\ shipped \in 0 .. Len(Payloads) /\ Len(Payloads) \in Nat
      /\ Len(line) \in Nat /\ Offset[shipped] \in Nat /\ Gone + Len(line) = Offset[shipped]
  BY <1>0, Here DEF StreamTyped
<1>2. Gone' = Gone /\ LineKept'
  BY <1>0 DEF Gone, LineKept
<1>3. InsideFrame => Head(line).of \in 1 .. shipped
  <2> SUFFICES ASSUME InsideFrame PROVE Head(line).of \in 1 .. shipped
    OBVIOUS
  <2>1. 1 \in 1 .. Len(line)
    BY <1>0, EmptySeq DEF InsideFrame, StreamTyped
  <2>2. line[1].of \in 1 .. shipped
    <3>1. PICK k \in 1 .. shipped : \E p \in 1 .. Size(k) :
            Gone + 1 = Offset[k - 1] + p /\ line[1] = [byte |-> FrameOf(k)[p], of |-> k]
      BY <1>0, <2>1, ByteAt
    <3> QED BY <3>1
  <2> QED BY <2>2
<1>4. StreamTyped'
  <2>1. encoded' \in Seq(0 .. 255)
    BY <1>0, EmptySeq
  <2>2. hit' \subseteq 1 .. shipped
    BY <1>0, <1>3 DEF StreamTyped
  <2> QED BY <1>0, <2>1, <2>2 DEF StreamTyped
<1>5. ReaderKept'
  BY <1>0 DEF ReaderKept
<1>6. ASSUME NEW k \in 1 .. shipped, NEW q \in 1 .. Size(k) - 1, Gone = Offset[k - 1] + q
      PROVE  InsideFrame /\ Head(line).of = k
  <2>1. k \in 1 .. Len(Payloads) /\ k \in 0 .. shipped
    BY <1>1
  <2>2. /\ Size(k) \in Nat /\ Size(k) >= 5 /\ Offset[k] = Offset[k - 1] + Size(k)
        /\ Offset[k - 1] \in Nat /\ Offset[k] \in Nat
    BY <2>1, SizeOf
  <2>3. Offset[k] =< Offset[shipped]
    BY <1>1, <2>1, OffsetsGrow
  <2>4. Gone + 1 =< Offset[k]
    BY <1>6, <2>2
  <2>5. 1 \in 1 .. Len(line) /\ Gone + 1 = Offset[k - 1] + (q + 1) /\ q + 1 \in 1 .. Size(k)
    <3>1. Gone + 1 =< Offset[shipped]
      BY <1>1, <2>2, <2>3, <2>4
    <3>2. 1 \in 1 .. Len(line)
      BY <1>1, <3>1
    <3>3. q + 1 \in 1 .. Size(k) /\ q \in Nat
      BY <2>2
    <3>4. Gone + 1 = Offset[k - 1] + (q + 1)
      BY <1>6, <2>2, <3>3
    <3> QED BY <3>2, <3>3, <3>4
  <2>6. line[1] = [byte |-> FrameOf(k)[q + 1], of |-> k]
    BY <1>0, <2>5 DEF LineKept
  <2>7. line # <<>>
    BY <2>5, EmptySeq
  <2>8. ASSUME NextByte = Flag, Len(line) > 1 PROVE line[2].byte = Flag
    <3>1. q + 1 = Size(k)
      <4>1. FrameOf(k)[q + 1] = Flag
        BY <2>6, <2>8 DEF NextByte
      <4>2. \A p \in 2 .. Size(k) - 1 : FrameOf(k)[p] # Flag
        BY <2>1, FrameShape
      <4>3. q + 1 \notin 2 .. Size(k) - 1
        BY <4>1, <4>2
      <4> QED BY <2>2, <4>3
    <3>2. Gone + 1 = Offset[k]
      BY <2>2, <2>5, <3>1
    <3>3. k # shipped
      BY <1>1, <2>8, <3>2
    <3>4. /\ k + 1 \in 1 .. shipped /\ (k + 1) - 1 = k /\ 2 \in 1 .. Len(line)
          /\ k + 1 \in 1 .. Len(Payloads)
      BY <1>1, <2>8, <3>3
    <3>5. 1 \in 1 .. Size(k + 1)
      BY <3>4, SizeOf
    <3>6. Gone + 2 = Offset[(k + 1) - 1] + 1
      BY <1>1, <3>2, <3>4
    <3>7. line[2] = [byte |-> FrameOf(k + 1)[1], of |-> k + 1]
      BY <1>0, <3>4, <3>5, <3>6 DEF LineKept
    <3> QED BY <3>4, <3>7, FrameShape
  <2> QED BY <2>6, <2>7, <2>8 DEF InsideFrame
<1>7. NothingDropped'
  <2>1. hit \subseteq hit'
    BY <1>0
  <2>2. ASSUME NEW k \in (1 .. shipped) \ hit', NEW q \in 1 .. Size(k) - 1, Gone = Offset[k - 1] + q
        PROVE  FALSE
    BY <1>0, <1>6, <2>2
  <2>3. \A i \in (1 .. shipped) \ hit' :
          Offset[i] =< Gone => \E j \in DOMAIN got : got[j] = Payloads[i]
    BY <1>0, <2>1 DEF NothingDropped
  <2> QED BY <1>0, <1>2, <2>2, <2>3 DEF NothingDropped
<1>8. GotInOrder'
  <2>1. Gone' = Gone + 0 /\ 0 \in Nat /\ shipped' \in Nat /\ shipped =< shipped'
    BY <1>0, <1>1, <1>2
  <2> QED BY <1>0, <2>1, GotStays
<1> QED BY <1>2, <1>4, <1>5, <1>7, <1>8 DEF StreamIInv
(* Every frame with a byte among those that are thrown away is hit. *)
LEMMA ResetStep ==
  ASSUME StreamIInv, Reset
  PROVE  StreamIInv'
<1>0. /\ StreamTyped /\ LineKept /\ ReaderKept /\ NothingDropped /\ GotInOrder
      /\ ~started /\ encoded = <<>> /\ shipped' = shipped
      /\ started' = started /\ encoded' = encoded /\ got' = got
  BY DEF StreamIInv, Reset
<1>1. PICK n \in 1 .. Len(line) :
        line' = SubSeq(line, n + 1, Len(line)) /\ hit' = hit \cup {line[i].of : i \in 1 .. n}
  BY DEF Reset
<1>2. /\ Gone \in Nat /\ shipped \in 0 .. Len(Payloads) /\ Len(Payloads) \in Nat
      /\ Len(line) \in Nat /\ n \in Nat
  BY <1>0, Here DEF StreamTyped
<1>3. Gone' = Gone + n /\ line' \in Seq(Marks) /\ LineKept'
  BY <1>0, <1>1, Dropped
<1>4. StreamTyped'
  <2>1. ASSUME NEW i \in 1 .. n PROVE line[i].of \in 1 .. shipped
    <3>1. i \in 1 .. Len(line)
      BY <1>2
    <3>2. PICK k \in 1 .. shipped : \E p \in 1 .. Size(k) :
            Gone + i = Offset[k - 1] + p /\ line[i] = [byte |-> FrameOf(k)[p], of |-> k]
      BY <1>0, <3>1, ByteAt
    <3> QED BY <3>2
  <2>2. hit' \subseteq 1 .. shipped
    BY <1>0, <1>1, <2>1 DEF StreamTyped
  <2> QED BY <1>0, <1>3, <2>2 DEF StreamTyped
<1>5. ReaderKept'
  BY <1>0 DEF ReaderKept
<1>6. ASSUME NEW k \in 1 .. shipped, NEW q \in 1 .. Size(k), NEW j \in 1 .. n,
             Gone + j = Offset[k - 1] + q
      PROVE  k \in hit'
  <2>1. j \in 1 .. Len(line)
    BY <1>2
  <2>2. line[j].of = k
    <3>1. line[j] = [byte |-> FrameOf(k)[q], of |-> k]
      BY <1>0, <1>6, <2>1 DEF LineKept
    <3> QED BY <3>1
  <2> QED BY <1>1, <2>2
<1>7. ASSUME NEW i \in 1 .. shipped
      PROVE  /\ Size(i) \in Nat /\ Size(i) \in 1 .. Size(i)
             /\ Offset[i] = Offset[i - 1] + Size(i) /\ Offset[i - 1] \in Nat
  <2>1. i \in 1 .. Len(Payloads)
    BY <1>2
  <2>2. /\ Size(i) \in Nat /\ Size(i) >= 5
        /\ Offset[i] = Offset[i - 1] + Size(i) /\ Offset[i - 1] \in Nat
    BY <2>1, SizeOf
  <2> QED BY <2>2
<1>8. NothingDropped'
  <2>1. ASSUME NEW k \in (1 .. shipped) \ hit', NEW q \in 1 .. Size(k) - 1,
               Gone + n = Offset[k - 1] + q
        PROVE  FALSE
    <3>1. q \in 1 .. Size(k) /\ n \in 1 .. n
      BY <1>2, <1>7
    <3> QED BY <1>6, <2>1, <3>1
  <2>2. ASSUME NEW i \in (1 .. shipped) \ hit', Offset[i] =< Gone + n
        PROVE  Offset[i] =< Gone
    <3>1. SUFFICES ASSUME ~(Offset[i] =< Gone) PROVE FALSE
      OBVIOUS
    <3>2. PICK o \in Nat : o = Offset[i] /\ Offset[i] = Offset[i - 1] + Size(i)
      BY <1>7
    <3>3. o - Gone \in 1 .. n /\ Gone + (o - Gone) = o
      BY <1>2, <2>2, <3>1, <3>2
    <3>4. Gone + (o - Gone) = Offset[i - 1] + Size(i)
      BY <3>2, <3>3
    <3> QED BY <1>6, <1>7, <3>3, <3>4
  <2>3. \A i \in (1 .. shipped) \ hit' :
          Offset[i] =< Gone + n => \E j \in DOMAIN got : got[j] = Payloads[i]
    BY <1>0, <1>1, <2>2 DEF NothingDropped
  <2> QED BY <1>0, <1>3, <2>1, <2>3 DEF NothingDropped
<1>9. GotInOrder'
  BY <1>0, <1>2, <1>3, GotStays
<1> QED BY <1>3, <1>4, <1>5, <1>8, <1>9 DEF StreamIInv

(* A new frame goes behind all that is on its way. *)
LEMMA SendStep ==
  ASSUME StreamIInv, SendFrame
  PROVE  StreamIInv'
<1> DEFINE new == shipped + 1
           marked == [i \in DOMAIN FrameOf(new) |-> [byte |-> FrameOf(new)[i], of |-> new]]
<1>0. /\ StreamTyped /\ LineKept /\ ReaderKept /\ NothingDropped /\ GotInOrder
      /\ shipped < Len(Payloads) /\ shipped' = shipped + 1 /\ line' = line \o marked
      /\ started' = started /\ encoded' = encoded /\ got' = got /\ hit' = hit
  BY DEF StreamIInv, SendFrame, FrameOf
<1>1. /\ Gone \in Nat /\ shipped \in 0 .. Len(Payloads) /\ Len(Payloads) \in Nat
      /\ Len(line) \in Nat /\ Offset[shipped] \in Nat /\ Gone + Len(line) = Offset[shipped]
  BY <1>0, Here DEF StreamTyped
<1>2. new \in 1 .. Len(Payloads) /\ new - 1 = shipped /\ new \in Nat
  BY <1>0, <1>1
<1>3. PICK s \in Nat : s = Size(new) /\ s >= 5 /\ Offset[new] = Offset[shipped] + s
  BY <1>2, SizeOf
<1>4. FrameOf(new) \in Seq(0 .. 255) /\ DOMAIN FrameOf(new) = 1 .. s
  <2>1. FrameOf(new) \in Seq(0 .. 255)
    BY <1>2, FrameShape
  <2> QED BY <1>3, <2>1, LenProperties DEF Size
<1>5. /\ marked \in Seq(Marks) /\ Len(marked) = s
      /\ \A i \in 1 .. s : marked[i] = [byte |-> FrameOf(new)[i], of |-> new]
  <2>1. marked \in [1 .. s -> Marks]
    <3>1. \A i \in 1 .. s : FrameOf(new)[i] \in 0 .. 255
      BY <1>3, <1>4, ElementOfSeq DEF Size
    <3>2. \A i \in 1 .. s : [byte |-> FrameOf(new)[i], of |-> new] \in Marks
      BY <1>2, <3>1 DEF Marks
    <3> QED BY <1>4, <3>2
  <2>2. /\ DOMAIN marked = 1 .. s
        /\ \A i \in 1 .. s : marked[i] = [byte |-> FrameOf(new)[i], of |-> new]
    BY <1>4
  <2> HIDE DEF marked
  <2>3. marked \in Seq(Marks)
    BY <1>3, <2>1
  <2>4. Len(marked) = s
    BY <1>3, <2>2, <2>3, LenProperties
  <2> QED BY <2>2, <2>3, <2>4
<1> HIDE DEF marked
<1>6. PICK l \in Nat : l = Len(line) /\ Gone + l = Offset[shipped]
  BY <1>1
<1>7. /\ line' \in Seq(Marks) /\ Len(line') = l + s
      /\ \A j \in 1 .. l + s : line'[j] = IF j =< l THEN line[j] ELSE marked[j - l]
  <2>1. line \in Seq(Marks)
    BY <1>0 DEF StreamTyped
  <2>2. line \o marked \in Seq(Marks) /\ Len(line \o marked) = Len(line) + Len(marked)
    BY <1>5, <2>1, ConcatProperties
  <2>3. \A j \in 1 .. Len(line) + Len(marked) :
          (line \o marked)[j] = IF j =< Len(line) THEN line[j] ELSE marked[j - Len(line)]
    BY <1>5, <2>1, ConcatProperties
  <2> QED BY <1>0, <1>5, <1>6, <2>2, <2>3
<1>8. Gone' = Gone
  <2>1. Gone' = Offset[shipped'] - Len(line')
    BY DEF Gone
  <2>2. Gone' = (Offset[shipped] + s) - (l + s)
    BY <1>0, <1>3, <1>7, <2>1
  <2> QED BY <1>1, <1>6, <2>2
<1>9. StreamTyped'
  <2>1. hit' \subseteq 1 .. shipped' /\ shipped' \in 0 .. Len(Payloads)
    BY <1>0, <1>1 DEF StreamTyped
  <2> QED BY <1>0, <1>7, <2>1 DEF StreamTyped
<1>10. LineKept'
  <2>1. ASSUME NEW j \in 1 .. l + s, NEW k \in 1 .. new, NEW p \in 1 .. Size(k),
               Gone + j = Offset[k - 1] + p
        PROVE  line'[j] = [byte |-> FrameOf(k)[p], of |-> k]
    <3>1. k \in 1 .. Len(Payloads)
      BY <1>2
    <3>2. /\ Size(k) \in Nat /\ Offset[k] = Offset[k - 1] + Size(k)
          /\ Offset[k - 1] \in Nat /\ Offset[k] \in Nat
      BY <3>1, SizeOf
    <3>3. CASE k = new
      <4>1. Gone + j = Offset[shipped] + p
        BY <1>2, <2>1, <3>3
      <4>2. j = l + p /\ ~(j =< l) /\ j - l = p /\ p \in 1 .. s
        <5>1. p \in 1 .. s
          BY <1>3, <3>3
        <5>2. j = l + p
          BY <1>1, <1>6, <4>1, <5>1
        <5> QED BY <5>1, <5>2
      <4> QED BY <1>5, <1>7, <3>3, <4>2
    <3>4. CASE k # new
      <4>1. k \in 1 .. shipped /\ k \in 0 .. shipped
        BY <1>1, <1>2, <3>4
      <4>2. Offset[k] =< Offset[shipped]
        BY <1>1, <4>1, OffsetsGrow
      <4>3. Gone + j =< Offset[shipped]
        <5>1. Offset[k - 1] + p =< Offset[k]
          BY <3>2
        <5> QED BY <1>1, <2>1, <3>2, <4>2, <5>1
      <4>4. j \in 1 .. l /\ line'[j] = line[j]
        BY <1>1, <1>6, <1>7, <4>3
      <4> QED BY <1>0, <1>6, <2>1, <4>1, <4>4 DEF LineKept
    <3> QED BY <3>3, <3>4
  <2>2. Len(line') =< Offset[shipped']
    BY <1>0, <1>1, <1>3, <1>6, <1>7
  <2> QED BY <1>0, <1>7, <1>8, <2>1, <2>2 DEF LineKept
<1>11. ReaderKept'
  <2>1. 1 .. shipped \subseteq 1 .. shipped'
    BY <1>0, <1>1
  <2>2. started /\ encoded = <<>> => \E k \in 1 .. shipped : Gone \in {Offset[k - 1] + 1, Offset[k]}
    BY <1>0 DEF ReaderKept
  <2>3. encoded # <<>> => \E k \in 1 .. shipped : \E q \in 2 .. Size(k) - 1 :
                            Gone = Offset[k - 1] + q /\ encoded = Begun(k, q)
    BY <1>0 DEF ReaderKept
  <2>4. (~started => encoded = <<>>) /\ (encoded # <<>> => started)
    BY <1>0 DEF ReaderKept
  <2> QED BY <1>0, <1>8, <2>1, <2>2, <2>3, <2>4 DEF ReaderKept
<1>12. NothingDropped'
  <2>1. \A k \in (1 .. new) \ hit : k \in (1 .. shipped) \ hit \/ k = new
    BY <1>1
  <2>2. ASSUME NEW q \in 1 .. Size(new) - 1 PROVE Gone # Offset[new - 1] + q
    BY <1>1, <1>2, <1>3
  <2>3. ~(Offset[new] =< Gone)
    BY <1>1, <1>3
  <2>4. \A k \in (1 .. new) \ hit : \A q \in 1 .. Size(k) - 1 :
          Gone = Offset[k - 1] + q => started /\ encoded = Begun(k, q)
    BY <1>0, <2>1, <2>2 DEF NothingDropped
  <2>5. \A i \in (1 .. new) \ hit :
          Offset[i] =< Gone => \E j \in DOMAIN got : got[j] = Payloads[i]
    BY <1>0, <2>1, <2>3 DEF NothingDropped
  <2> QED BY <1>0, <1>8, <2>4, <2>5 DEF NothingDropped
<1>13. GotInOrder'
  <2>1. Gone' = Gone + 0 /\ 0 \in Nat /\ shipped' \in Nat /\ shipped =< shipped'
    BY <1>0, <1>1, <1>8
  <2> QED BY <1>0, <2>1, GotStays
<1> QED BY <1>9, <1>10, <1>11, <1>12, <1>13 DEF StreamIInv
(* The reader of the stream keeps StreamIInv. *)
THEOREM SpecStreamIInv == StreamSpec => []StreamIInv
<1>1. StreamInit => StreamIInv
  <2> SUFFICES ASSUME StreamInit PROVE StreamIInv
    OBVIOUS
  <2>1. /\ shipped = 0 /\ line = <<>> /\ started = FALSE /\ encoded = <<>> /\ got = <<>> /\ hit = {}
        /\ Len(Payloads) \in Nat
    BY PayloadsAssumption DEF StreamInit
  <2>2. Offset[shipped] = 0 /\ 0 \in 0 .. Len(Payloads) /\ 1 .. shipped = {}
    BY <2>1, Offsets
  <2>3. /\ line \in Seq(Marks) /\ Len(line) = 0 /\ encoded \in Seq(0 .. 255)
        /\ got \in Seq(Seq(0 .. 255)) /\ Len(got) = 0 /\ DOMAIN got = {}
    BY <2>1, EmptySeq
  <2>4. StreamTyped
    BY <2>1, <2>2, <2>3 DEF StreamTyped
  <2>5. LineKept
    BY <2>2, <2>3 DEF LineKept
  <2>6. ReaderKept
    BY <2>1 DEF ReaderKept
  <2>7. NothingDropped
    BY <2>2 DEF NothingDropped
  <2>8. GotInOrder
    BY <2>3 DEF GotInOrder
  <2> QED BY <2>4, <2>5, <2>6, <2>7, <2>8 DEF StreamIInv
<1>2. StreamIInv /\ [StreamNext]_streamVars => StreamIInv'
  <2> SUFFICES ASSUME StreamIInv, [StreamNext]_streamVars PROVE StreamIInv'
    OBVIOUS
  <2>1. CASE SendFrame
    BY <2>1, SendStep
  <2>2. CASE OpeningFlag
    BY <2>2, OpeningStep
  <2>3. CASE ClosingFlag
    BY <2>3, ClosingStep
  <2>4. CASE DataByte
    BY <2>4, DataStep
  <2>5. CASE Deadline
    BY <2>5, DeadlineStep
  <2>6. CASE Reset
    BY <2>6, ResetStep
  <2>7. CASE UNCHANGED streamVars
    <3>1. /\ shipped' = shipped /\ line' = line /\ started' = started /\ encoded' = encoded
          /\ got' = got /\ hit' = hit
      BY <2>7 DEF streamVars
    <3>2. Gone' = Gone
      BY <3>1 DEF Gone
    <3> QED BY <3>1, <3>2 DEF StreamIInv, StreamTyped, LineKept, ReaderKept, NothingDropped,
                              GotInOrder
  <2> QED BY <2>1, <2>2, <2>3, <2>4, <2>5, <2>6, <2>7 DEF StreamNext
<1> QED BY <1>1, <1>2, PTL DEF StreamSpec

(* However the deadlines and the resets fall: what read_frame() returns was *)
(* sent, each frame at most once and in order, none with a CRC mismatch,    *)
(* and a frame that no cut has touched and that has gone by was returned.   *)
THEOREM SpecStreamInv == StreamSpec => []StreamInv
<1>1. StreamIInv => StreamInv
  <2> SUFFICES ASSUME StreamIInv PROVE StreamInv
    OBVIOUS
  <2>0. StreamTyped /\ LineKept /\ NothingDropped /\ GotInOrder
    BY DEF StreamIInv
  <2>1. /\ Gone \in Nat /\ shipped \in 0 .. Len(Payloads) /\ Len(Payloads) \in Nat
        /\ Len(line) \in Nat /\ DOMAIN line = 1 .. Len(line) /\ Gone + Len(line) = Offset[shipped]
    BY <2>0, Here, LenProperties DEF StreamTyped
  <2>2. StreamTypeOK
    <3>1. ASSUME NEW i \in 1 .. Len(line)
          PROVE  line[i].byte \in 0 .. 255 /\ line[i].of \in 1 .. shipped
      <4>1. PICK k \in 1 .. shipped : \E p \in 1 .. Size(k) :
              Gone + i = Offset[k - 1] + p /\ line[i] = [byte |-> FrameOf(k)[p], of |-> k]
        BY <2>0, ByteAt
      <4>2. line[i].of = k
        BY <4>1
      <4>3. line[i] \in Marks
        BY <2>0, ElementOfSeq DEF StreamTyped
      <4> QED BY <4>2, <4>3 DEF Marks
    <3>2. \A i \in DOMAIN encoded : encoded[i] \in 0 .. 255
      BY <2>0, LenProperties, ElementOfSeq DEF StreamTyped
    <3> QED BY <2>0, <2>1, <3>1, <3>2 DEF StreamTypeOK, StreamTyped
  <2>3. NothingInvented
    BY <2>0 DEF GotInOrder, NothingInvented
  <2>4. OnlyCutFramesLost
    <3> SUFFICES ASSUME NEW i \in (1 .. shipped) \ hit, \A k \in DOMAIN line : line[k].of # i
                 PROVE  Contains(got, Payloads[i])
      BY DEF OnlyCutFramesLost
    <3>1. i \in 1 .. Len(Payloads) /\ i \in 0 .. shipped
      BY <2>1
    <3>2. PICK o \in Nat : o = Offset[i] /\ Offset[i] = Offset[i - 1] + Size(i)
      BY <3>1, SizeOf
    <3>3. Size(i) \in 1 .. Size(i)
      <4>1. Size(i) \in Nat /\ Size(i) >= 5
        BY <3>1, SizeOf
      <4> QED BY <4>1
    <3>4. o =< Offset[shipped]
      BY <2>1, <3>1, <3>2, OffsetsGrow
    <3>5. o =< Gone
      <4>1. SUFFICES ASSUME ~(o =< Gone) PROVE FALSE
        OBVIOUS
      <4>2. PICK j \in Nat : Gone + j = o /\ j \in 1 .. Len(line)
        <5>1. PICK g \in Nat, l \in Nat : g = Gone /\ l = Len(line) /\ o =< g + l
          BY <2>1, <3>4
        <5>2. o - g \in Nat /\ g + (o - g) = o /\ o - g \in 1 .. l
          BY <4>1, <5>1
        <5> QED BY <5>1, <5>2
      <4>3. Gone + j = Offset[i - 1] + Size(i)
        BY <3>2, <4>2
      <4>4. line[j] = [byte |-> FrameOf(i)[Size(i)], of |-> i]
        BY <2>0, <3>3, <4>2, <4>3 DEF LineKept
      <4>5. line[j].of = i
        BY <4>4
      <4> QED BY <2>1, <4>2, <4>5
    <3>6. PICK j \in DOMAIN got : got[j] = Payloads[i]
      BY <2>0, <3>2, <3>5 DEF NothingDropped
    <3>7. j \in 1 .. Len(got)
      BY <2>0, LenProperties DEF StreamTyped
    <3> QED BY <3>6, <3>7 DEF Contains
  <2> QED BY <2>2, <2>3, <2>4 DEF StreamInv
<1> QED BY <1>1, SpecStreamIInv, PTL
=============================================================================
