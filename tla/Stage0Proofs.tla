---------------------------- MODULE Stage0Proofs ----------------------------
(***************************************************************************)
(* Proofs about stage-0's two ends and its older loaders, for every        *)
(* register width, window, file, set of images and chunk size.             *)
(* The monitor's CRC loop stays in the window and covers the range asked   *)
(* for, and what the host's checks let through is never refused; the tool  *)
(* takes the answer to its own command, and its PASS is true, until a run  *)
(* gives up a command it has sent; the loaders write into their windows    *)
(* only, and what they start is in place but for a chunk for each timeout. *)
(***************************************************************************)
EXTENDS MCStage0, DataLemmas, SequenceTheorems, FiniteSetTheorems, TLAPS

(* What the invariants rest on: the range of a running loop was accepted,   *)
(* and so was the address of a running second stage.                        *)
MonitorInv ==
  /\ TypeOK
  /\ CrcExact
  /\ busy = "crc" => CrcAccepted(first, second)
  /\ busy = "stage2" => CallAccepted(first)

(* An accepted range does not wrap, and lies in the window byte by byte.    *)
LEMMA AcceptedInside ==
  ASSUME NEW a \in Word, NEW n \in Word, CrcAccepted(a, n), NEW k \in 0 .. n - 1
  PROVE  a + k \in Window
  BY WindowAssumption DEF Word, Window, CrcAccepted

(* Where the loop stands lies in the window. *)
LEMMA InvInside == MonitorInv => ReadsInside
<1> SUFFICES ASSUME MonitorInv PROVE ReadsInside
  OBVIOUS
<1>1. ASSUME busy = "crc", r2 > 0 PROVE r1 \in Window
  <2>1. first \in Word /\ second \in Word /\ r2 \in Word /\ fed \in Nat
    BY DEF MonitorInv, TypeOK
  <2>2. CrcAccepted(first, second) /\ r1 = first + fed /\ fed + r2 = second
    BY <1>1 DEF MonitorInv, CrcExact
  <2>3. fed \in 0 .. second - 1
    BY <1>1, <2>1, <2>2, WindowAssumption DEF Word
  <2> QED BY <2>1, <2>2, <2>3, AcceptedInside
<1>2. ASSUME busy = "stage2" PROVE first \in Window /\ first % Align = 0
  BY <1>2, WindowAssumption DEF MonitorInv, TypeOK, CallAccepted, Word, Window
<1> QED BY <1>1, <1>2 DEF ReadsInside

(* Init establishes the invariant. *)
LEMMA InitInv == Init => MonitorInv
  BY WindowAssumption DEF Init, MonitorInv, TypeOK, CrcExact, Word

(* A packet's words are words. *)
LEMMA DecodeWords ==
  ASSUME MonitorInv, Decode \/ UNCHANGED buffer
  PROVE  first' \in Word /\ second' \in Word
  BY DEF MonitorInv, TypeOK, Decode, buffer

(* A reply leaves the handler idle with its registers as they were. *)
LEMMA ReplyInv ==
  ASSUME MonitorInv, first' \in Word, second' \in Word,
         NEW a \in {"bad", "unknown", "banner", "hex", answer}, Reply(a)
  PROVE  MonitorInv'
  BY DEF MonitorInv, TypeOK, CrcExact, Reply, loop

(* Every step keeps the invariant. *)
LEMMA NextInv == MonitorInv /\ [Next]_vars => MonitorInv'
<1> SUFFICES ASSUME MonitorInv, [Next]_vars PROVE MonitorInv'
  OBVIOUS
<1>1. CASE Dispatch
  <2>1. first' \in Word /\ second' \in Word /\ busy = "idle"
    BY <1>1, DecodeWords DEF Dispatch
  <2>2. CASE Simple
    BY <2>1, <2>2, ReplyInv DEF Simple
  <2>3. CASE EnterCrc
    <3>1. TypeOK'
      BY <2>1, <2>3, WindowAssumption DEF MonitorInv, TypeOK, EnterCrc, Word
    <3>2. CrcExact'
      <4>1. r1' = first' /\ r2' = second' /\ fed' = 0
        BY <2>3 DEF EnterCrc
      <4>2. first' \in Int /\ second' \in Int
        BY <2>1, WindowAssumption DEF Word
      <4>3. \A i \in Int : i = i + 0 /\ 0 + i = i
        OBVIOUS
      <4>4. first' = first' + 0 /\ 0 + second' = second'
        BY <4>2, <4>3
      <4> QED BY <4>1, <4>4 DEF CrcExact
    <3>3. busy' = "crc" /\ CrcAccepted(first', second')
      BY <2>3 DEF EnterCrc
    <3>4. CrcAccepted(first, second)'
      BY <3>3 DEF CrcAccepted
    <3> QED BY <3>1, <3>2, <3>3, <3>4 DEF MonitorInv
  <2>4. CASE RefuseCrc
    BY <2>1, <2>4, ReplyInv DEF RefuseCrc
  <2>5. CASE Call
    <3>1. TypeOK' /\ busy' = "stage2"
      BY <2>1, <2>5 DEF MonitorInv, TypeOK, Call, loop
    <3>2. CallAccepted(first)'
      BY <2>5 DEF Call, CallAccepted
    <3> QED BY <3>1, <3>2 DEF MonitorInv, CrcExact
  <2>6. CASE RefuseCall
    BY <2>1, <2>6, ReplyInv DEF RefuseCall
  <2> QED BY <1>1, <2>2, <2>3, <2>4, <2>5, <2>6 DEF Dispatch
<1>2. CASE CrcByte
  <2>1. first' = first /\ second' = second /\ busy' = "crc" /\ busy = "crc"
    BY <1>2 DEF CrcByte, buffer
  <2>2. first \in Word /\ second \in Word /\ r2 \in Word /\ fed \in Nat /\ r2 > 0
    BY <1>2 DEF CrcByte, MonitorInv, TypeOK
  <2>3. CrcAccepted(first, second) /\ r1 = first + fed /\ fed + r2 = second
    BY <2>1 DEF MonitorInv, CrcExact
  <2>4. r1 + 1 \in Word
    BY <2>2, <2>3, WindowAssumption DEF CrcAccepted, Word
  <2>5. (r1 + 1) % Modulus = r1 + 1
    BY <2>4, WindowAssumption DEF Word
  <2>6. r1' = r1 + 1 /\ r2' = r2 - 1 /\ fed' = fed + 1
    BY <1>2, <2>5 DEF CrcByte
  <2>7. TypeOK'
    BY <1>2, <2>1, <2>2, <2>4, <2>6, WindowAssumption
    DEF MonitorInv, TypeOK, CrcByte, Word
  <2>8. CrcExact'
    BY <2>1, <2>2, <2>3, <2>6, WindowAssumption DEF CrcExact, Word
  <2>9. CrcAccepted(first, second)'
    BY <2>1, <2>3 DEF CrcAccepted
  <2> QED BY <2>1, <2>7, <2>8, <2>9 DEF MonitorInv
<1>3. CASE CrcDone
  BY <1>3 DEF MonitorInv, TypeOK, CrcExact, CrcDone, buffer, loop
<1>4. CASE Stage2Returns
  BY <1>4, ReplyInv DEF MonitorInv, TypeOK, Stage2Returns, buffer
<1>5. CASE UNCHANGED vars
  BY <1>5 DEF MonitorInv, TypeOK, CrcExact, CrcAccepted, CallAccepted,
              vars, buffer, loop
<1> QED BY <1>1, <1>2, <1>3, <1>4, <1>5 DEF Next

(* The invariant holds of every state. *)
THEOREM SpecInv == Spec => []MonitorInv
  BY InitInv, NextInv, PTL DEF Spec

(* Every register holds a word. *)
THEOREM SpecTypeOK == Spec => []TypeOK
<1>1. MonitorInv => TypeOK
  BY DEF MonitorInv
<1> QED BY <1>1, SpecInv, PTL

(* No packet makes the monitor load from outside the safe window or call    *)
(* outside it, for any register width and any window.                       *)
THEOREM SpecReadsInside == Spec => []ReadsInside
  BY InvInside, SpecInv, PTL

(* The CRC is over the bytes asked for, each once and in order. *)
THEOREM SpecCrcExact == Spec => []CrcExact
<1>1. MonitorInv => CrcExact
  BY DEF MonitorInv
<1> QED BY <1>1, SpecInv, PTL

(* A request that crc_query() or call_stage2() lets through is accepted by  *)
(* the monitor, so BAD00001 never passes for a CRC or a return value.       *)
THEOREM HostChecksSuffice ==
  /\ \A a, n \in Int : CrcQuery(a, n) => a \in Word /\ n \in Word /\ CrcAccepted(a, n)
  /\ \A pc \in Int : CallStage2(pc) => pc \in Word /\ CallAccepted(pc)
<1>1. ASSUME NEW a \in Int, NEW n \in Int, CrcQuery(a, n)
      PROVE  a \in Word /\ n \in Word /\ CrcAccepted(a, n)
  BY <1>1, WindowAssumption DEF CrcQuery, CrcAccepted, Word
<1>2. ASSUME NEW pc \in Int, CallStage2(pc)
      PROVE  pc \in Word /\ CallAccepted(pc)
  BY <1>2, WindowAssumption DEF CallStage2, CallAccepted, Word
<1> QED BY <1>1, <1>2

-----------------------------------------------------------------------------
(* The tool: its invariant *)

Jobs == [action : {"info", "crc", "verify", "call"}, address : Int, size : Int, data : Seq(Byte)]
Requests == [sub : {"banner", "query", "crc", "call"}, a : Int, n : Int, run : Nat, at : Nat]
Values == [kind : {"banner", "register", "crc", "text", "r0"}, bytes : Seq(Byte)]
Frames == [shape : {"banner", "hex", "text"}, value : Values, run : Nat, at : Nat]

(* Requests that the tool's own checks let through. *)
Checked == {r \in Requests : /\ r.sub = "crc" => CrcQuery(r.a, r.n)
                             /\ r.sub = "call" => CallStage2(r.a)}

(* Only checked requests are on the link; the frames that come back hold no *)
(* BAD00001, and a second stage runs for a call.                            *)
LinkInv ==
  /\ job \in Jobs /\ toTarget \in Seq(Checked)
  /\ toHost \in Seq(Frames) /\ inbuf \in Seq(Frames)
  /\ target = "stage2" => toTarget # <<>> /\ Head(toTarget).sub = "call"

(* A frame that could pass for an answer; a sequence without one, and with  *)
(* one at most.                                                             *)
IsAnswer(f) == f.shape # "text"
Silent(q) == \A i \in 1 .. Len(q) : ~IsAnswer(q[i])
Sole(q) == \A i, j \in 1 .. Len(q) : IsAnswer(q[i]) /\ IsAnswer(q[j]) => i = j

(* The answer to the command being waited for, true of the RAM as it is.    *)
CrcNow == Tool!Crc(Tool!Bytes(Tool!Asked.a, Tool!Asked.n))
Own(f) == /\ step = "wait" /\ f.run = runs /\ f.at = at
          /\ Tool!Asked.sub = "crc" => f.value = CrcNow
Mine(q) == \A i \in 1 .. Len(q) : IsAnswer(q[i]) => Own(q[i])

(* The first n bytes of the file are in RAM.                                *)
InRamUpTo(n) == \A i \in 1 .. n : ram[job.address + i - 1] = job.data[i]

(* As long as no command sent was given up, there is one request or one     *)
(* answer under way, that of the command being waited for, and what was     *)
(* verified so far is in RAM.                                               *)
AskedInv == toTarget # <<>> => /\ step = "wait" /\ toTarget = <<Tool!Asked>>
                               /\ Silent(inbuf) /\ Silent(toHost)
AnswerInv == /\ Sole(inbuf) /\ Sole(toHost) /\ (Silent(inbuf) \/ Silent(toHost))
             /\ Mine(inbuf) /\ Mine(toHost)
VerifyInv == /\ job.action = "verify" /\ step # "over" => InRamUpTo(at)
             /\ Tool!Verified => InRamUpTo(Len(job.data))
TurnInv == ~foreign /\ AskedInv /\ AnswerInv /\ VerifyInv

RunInv ==
  /\ step # "over" => outcome = "none"
  /\ job.action = "verify" => job.size > 0
  /\ step = "wait" => Tool!Allowed

ToolIInv == Tool!TypeOK /\ LinkInv /\ RunInv /\ (gaveUp \/ TurnInv)

-----------------------------------------------------------------------------
(* Sequences of frames *)

(* No frames hold no answer.                                                *)
LEMMA EmptySilent == Silent(<<>>) /\ Sole(<<>>) /\ Mine(<<>>)
  BY DEF Silent, Sole, Mine

(* Where there is no answer, there is no second and no foreign one.         *)
LEMMA SilentIsSole ==
  ASSUME NEW q \in Seq(Frames), Silent(q)
  PROVE  Sole(q) /\ Mine(q)
  BY DEF Silent, Sole, Mine

(* Without its first frame. *)
LEMMA TailFrames ==
  ASSUME NEW q \in Seq(Frames), q # <<>>
  PROVE  /\ Tail(q) \in Seq(Frames) /\ Head(q) \in Frames
         /\ Silent(q) => Silent(Tail(q)) /\ ~IsAnswer(Head(q))
         /\ Sole(q) => Sole(Tail(q))
         /\ Sole(q) /\ IsAnswer(Head(q)) => Silent(Tail(q))
         /\ Mine(q) => Mine(Tail(q)) /\ (IsAnswer(Head(q)) => Own(Head(q)))
<1>1. Len(q) \in Nat /\ Len(q) > 0 /\ Tail(q) \in Seq(Frames) /\ Head(q) = q[1]
      /\ Head(q) \in Frames /\ Len(Tail(q)) = Len(q) - 1
  OBVIOUS
<1>2. ASSUME NEW i \in 1 .. Len(Tail(q))
      PROVE  i + 1 \in 1 .. Len(q) /\ Tail(q)[i] = q[i + 1] /\ i + 1 # 1
  BY <1>1
<1>3. Silent(q) => Silent(Tail(q)) /\ ~IsAnswer(Head(q))
  BY <1>1, <1>2 DEF Silent
<1>4. ASSUME Sole(q), NEW i \in 1 .. Len(Tail(q)), NEW j \in 1 .. Len(Tail(q)),
             IsAnswer(Tail(q)[i]), IsAnswer(Tail(q)[j])
      PROVE  i = j
  <2>1. i + 1 = j + 1
    BY <1>2, <1>4 DEF Sole
  <2> QED BY <2>1
<1>5. ASSUME Sole(q), IsAnswer(Head(q)), NEW i \in 1 .. Len(Tail(q))
      PROVE  ~IsAnswer(Tail(q)[i])
  BY <1>1, <1>2, <1>5 DEF Sole
<1>6. Mine(q) => Mine(Tail(q)) /\ (IsAnswer(Head(q)) => Own(Head(q)))
  BY <1>1, <1>2 DEF Mine
<1>7. Sole(q) => Sole(Tail(q))
  BY <1>4 DEF Sole
<1>8. Sole(q) /\ IsAnswer(Head(q)) => Silent(Tail(q))
  BY <1>5 DEF Silent
<1> QED BY <1>1, <1>3, <1>6, <1>7, <1>8

(* With one more frame. *)
LEMMA MoreFrames ==
  ASSUME NEW q \in Seq(Frames), NEW f \in Frames
  PROVE  /\ Append(q, f) \in Seq(Frames)
         /\ Silent(q) /\ ~IsAnswer(f) => Silent(Append(q, f))
         /\ Sole(q) /\ ~IsAnswer(f) => Sole(Append(q, f))
         /\ Silent(q) => Sole(Append(q, f))
         /\ Mine(q) /\ (IsAnswer(f) => Own(f)) => Mine(Append(q, f))
<1>1. Append(q, f) \in Seq(Frames) /\ Len(q) \in Nat
      /\ Len(Append(q, f)) = Len(q) + 1
  OBVIOUS
<1>2. ASSUME NEW i \in 1 .. Len(Append(q, f))
      PROVE  \/ i \in 1 .. Len(q) /\ Append(q, f)[i] = q[i]
             \/ i = Len(q) + 1 /\ Append(q, f)[i] = f
  BY <1>1
<1>3. Silent(q) /\ ~IsAnswer(f) => Silent(Append(q, f))
  BY <1>2 DEF Silent
<1>4. Sole(q) /\ ~IsAnswer(f) => Sole(Append(q, f))
  BY <1>2 DEF Sole
<1>5. Silent(q) => Sole(Append(q, f))
  BY <1>2 DEF Sole, Silent
<1>6. Mine(q) /\ (IsAnswer(f) => Own(f)) => Mine(Append(q, f))
  BY <1>2 DEF Mine
<1> QED BY <1>1, <1>3, <1>4, <1>5, <1>6

(* What the answer is to is unchanged, and so is what it must say.          *)
LEMMA SameTurn ==
  ASSUME UNCHANGED <<runs, job, at, ram>>
  PROVE  Tool!Asked' = Tool!Asked /\ CrcNow' = CrcNow
<1>1. Tool!Asked' = Tool!Asked
  BY DEF Tool!Asked, Tool!Chunk, Tool!Request
<1> QED BY <1>1 DEF CrcNow, Tool!Crc, Tool!Value, Tool!Bytes

(* The part of a file that a request for it is about. *)
LEMMA ChunkBytes ==
  ASSUME Tool!TypeOK, LinkInv, RunInv, job.action = "verify"
  PROVE  /\ Tool!Chunk \in Seq(Byte) /\ Len(Tool!Chunk) \in Nat
         /\ \A i \in 1 .. Len(Tool!Chunk) : Tool!Chunk[i] = job.data[at + i]
         /\ at + Len(Tool!Chunk) = IF at + job.size < Len(job.data) THEN at + job.size
                                                                   ELSE Len(job.data)
<1> DEFINE last == IF at + job.size < Len(job.data) THEN at + job.size ELSE Len(job.data)
<1>1. /\ at \in Nat /\ at < Len(job.data) /\ job.size > 0 /\ job.size \in Int
      /\ job.data \in Seq(Byte) /\ Len(job.data) \in Nat
  BY DEF Tool!TypeOK, LinkInv, RunInv, Jobs
<1>2. last \in Int /\ at + 1 \in Int /\ at + 1 =< last /\ last =< Len(job.data)
  BY <1>1
<1>3. \A i \in at + 1 .. last : job.data[i] \in Byte
  BY <1>1, <1>2
<1>4. Tool!Chunk = SubSeq(job.data, at + 1, last)
  BY DEF Tool!Chunk
<1> HIDE DEF last
<1>5. /\ SubSeq(job.data, at + 1, last) \in Seq(Byte)
      /\ Len(SubSeq(job.data, at + 1, last))
           = IF at + 1 =< last THEN last - (at + 1) + 1 ELSE 0
      /\ \A i \in 1 .. last - (at + 1) + 1 :
           SubSeq(job.data, at + 1, last)[i] = job.data[at + 1 + i - 1]
  BY <1>2, <1>3, SubSeqProperties
<1>6. Len(Tool!Chunk) = last - at
  BY <1>1, <1>2, <1>4, <1>5
<1>7. \A i \in 1 .. Len(Tool!Chunk) : Tool!Chunk[i] = job.data[at + i]
  BY <1>1, <1>2, <1>4, <1>5, <1>6
<1>8. Tool!Chunk \in Seq(Byte) /\ Len(Tool!Chunk) \in Nat
  BY <1>1, <1>2, <1>4, <1>5, <1>6
<1>9. at + Len(Tool!Chunk) = last
  BY <1>1, <1>2, <1>6
<1> QED BY <1>7, <1>8, <1>9 DEF last

(* What is sent is a request that the tool's checks let through. *)
LEMMA AskedChecked ==
  ASSUME Tool!TypeOK, LinkInv, RunInv
  PROVE  /\ Tool!Asked \in Requests /\ Tool!Asked.run = runs /\ Tool!Asked.at = at
         /\ Tool!Allowed => Tool!Asked \in Checked
<1>1. runs \in Nat /\ at \in Nat /\ job \in Jobs
  BY ToolAssumption DEF Tool!TypeOK, LinkInv, Tool!ConsoleAssumption
<1>2. job.action = "verify" => Len(Tool!Chunk) \in Nat
  BY ChunkBytes
<1>3. Tool!Asked \in Requests /\ Tool!Asked.run = runs /\ Tool!Asked.at = at
  BY <1>1, <1>2 DEF Tool!Asked, Tool!Request, Requests, Jobs
<1>4. Tool!Allowed => Tool!Asked \in Checked
  BY <1>3 DEF Tool!Allowed, Checked, Tool!CrcQuery, Tool!CallStage2, CrcQuery, CallStage2
<1> QED BY <1>3, <1>4

(* The bytes of an accepted range are bytes. *)
LEMMA RangeBytes ==
  ASSUME ram \in [Window -> Byte], NEW r \in Checked, r.sub = "crc"
  PROVE  Tool!CrcAccepted(r.a, r.n) /\ Tool!Bytes(r.a, r.n) \in Seq(Byte)
<1>1. r.a \in Word /\ r.n \in Word /\ CrcAccepted(r.a, r.n)
  BY HostChecksSuffice DEF Checked, Requests
<1>2. \A k \in 0 .. r.n - 1 : r.a + k \in Window
  BY <1>1, AcceptedInside
<1>3. r.n \in Nat /\ r.a \in Int
  BY <1>1, WindowAssumption DEF Word
<1>4. \A i \in 1 .. r.n : ram[r.a + i - 1] \in Byte
  <2>1. ASSUME NEW i \in 1 .. r.n PROVE r.a + (i - 1) = r.a + i - 1 /\ i - 1 \in 0 .. r.n - 1
    BY <1>3
  <2> QED BY <1>2, <2>1
<1>5. Tool!Bytes(r.a, r.n) \in Seq(Byte)
  BY <1>3, <1>4 DEF Tool!Bytes
<1> QED BY <1>1, <1>5 DEF CrcAccepted, Tool!CrcAccepted

(* A call that the host lets through is not refused either. *)
LEMMA CallLetThrough ==
  ASSUME NEW r \in Checked, r.sub = "call"
  PROVE  Tool!CallAccepted(r.a)
<1>1. CallAccepted(r.a)
  BY HostChecksSuffice DEF Checked, Requests
<1> QED BY <1>1 DEF CallAccepted, Tool!CallAccepted

Typed == Tool!TypeOK /\ LinkInv /\ RunInv

(* A run of the tool starts well typed.                                     *)
LEMMA StartTyped ==
  ASSUME Typed, Tool!StartInfo \/ Tool!StartCrc \/ Tool!StartCall \/ Tool!StartVerify
  PROVE  Typed'
<1> USE DEF Typed, Tool!Start
<1>1. Files \subseteq Seq(Byte) /\ Queries \in Nat \ {0} /\ MaxRuns \in Nat
  BY ToolAssumption DEF Tool!ConsoleAssumption
<1>2. \A a \in Tool!Addresses : a \in Int
  BY WindowAssumption DEF Tool!Addresses
<1>3. /\ runs' \in 0 .. MaxRuns /\ outcome' = "none" /\ inbuf' = <<>> /\ step' = "ask"
      /\ UNCHANGED <<gaveUp, foreign, toTarget, toHost, target, ram>>
  BY <1>1 DEF Tool!TypeOK, Tool!StartInfo, Tool!StartCrc, Tool!StartCall, Tool!StartVerify
<1>4. /\ job' \in Jobs /\ at' \in Nat /\ (job'.action = "info" => at' =< Queries)
      /\ job'.action = "verify" => at' < Len(job'.data) /\ job'.size > 0
  <2>1. CASE Tool!StartInfo
    BY <1>1, <2>1 DEF Tool!StartInfo, Jobs
  <2>2. CASE Tool!StartCrc
    BY <1>1, <1>2, <2>2, WindowAssumption DEF Tool!StartCrc, Jobs
  <2>3. CASE Tool!StartCall
    BY <1>1, <1>2, <2>3 DEF Tool!StartCall, Jobs
  <2>4. CASE Tool!StartVerify
    BY <1>1, <1>2, <2>4 DEF Tool!StartVerify, Jobs
  <2> QED BY <2>1, <2>2, <2>3, <2>4
<1>5. Tool!TypeOK'
  BY <1>3, <1>4 DEF Tool!TypeOK, Jobs
<1>6. LinkInv'
  BY <1>3, <1>4 DEF LinkInv
<1>7. RunInv'
  BY <1>3, <1>4 DEF RunInv
<1> QED BY <1>5, <1>6, <1>7

(* So it stays as it asks, waits and gives up.                              *)
LEMMA AskTyped ==
  ASSUME Typed, \/ Tool!Refuse \/ Tool!Send \/ Tool!Ignore \/ Tool!Timeout \/ Tool!Break
                \/ Tool!Deliver
  PROVE  Typed'
<1> USE DEF Typed, Tool!End, Tool!link, Tool!tool
<1>1. UNCHANGED <<runs, job, at, target, ram, foreign>>
  BY DEF Tool!Refuse, Tool!Send, Tool!Ignore, Tool!Timeout, Tool!Break, Tool!Deliver
<1>2. /\ step' \in {"ask", "wait", "over"} /\ gaveUp' \in BOOLEAN
      /\ outcome' \in {"none", "value", "pass", "mismatch", "refused", "timeout", "broken"}
      /\ step' # "over" => outcome' = "none"
      /\ step' = "wait" => Tool!Allowed
  BY DEF Tool!Refuse, Tool!Send, Tool!Ignore, Tool!Timeout, Tool!Break, Tool!Deliver,
         Tool!TypeOK, RunInv
<1>3. Tool!TypeOK'
  BY <1>1, <1>2 DEF Tool!TypeOK
<1>4. RunInv'
  <2>1. Tool!Allowed' = Tool!Allowed
    BY <1>1 DEF Tool!Allowed, Tool!Asked, Tool!Chunk, Tool!Request
  <2> QED BY <1>1, <1>2, <2>1 DEF RunInv
<1>5. LinkInv'
  <2>1. CASE Tool!Refuse \/ Tool!Timeout \/ Tool!Break
    BY <2>1 DEF Tool!Refuse, Tool!Timeout, Tool!Break, LinkInv
  <2>2. CASE Tool!Send
    <3>1. Tool!Asked \in Checked
      BY <2>2, AskedChecked DEF Tool!Send
    <3>2. toTarget \in Seq(Checked)
      BY DEF LinkInv
    <3>3. toTarget' \in Seq(Checked) /\ (toTarget # <<>> => Head(toTarget') = Head(toTarget))
      BY <2>2, <3>1, <3>2 DEF Tool!Send
    <3>4. toTarget # <<>> => toTarget' # <<>>
      BY <2>2, <3>1, <3>2 DEF Tool!Send
    <3> QED BY <1>1, <2>2, <3>3, <3>4 DEF Tool!Send, LinkInv
  <2>3. CASE Tool!Ignore
    BY <1>1, <2>3, TailFrames DEF Tool!Ignore, LinkInv
  <2>4. CASE Tool!Deliver
    BY <1>1, <2>4, TailFrames, MoreFrames DEF Tool!Deliver, LinkInv
  <2> QED BY <2>1, <2>2, <2>3, <2>4
<1> QED BY <1>3, <1>4, <1>5

(* So it stays as it takes an answer and asks for the next part, or ends.   *)
LEMMA TakeTyped ==
  ASSUME Typed, Tool!Take
  PROVE  Typed'
<1> USE DEF Typed, Tool!Take, Tool!End
<1>1. UNCHANGED <<runs, job, gaveUp, toTarget, toHost, target, ram>>
  OBVIOUS
<1>2. Head(inbuf) \in Frames /\ inbuf' \in Seq(Frames)
  BY TailFrames DEF LinkInv
<1>3. Queries \in Nat
  BY ToolAssumption DEF Tool!ConsoleAssumption
<1>4. /\ step' \in {"ask", "over"} /\ at' \in Nat
      /\ job.action = "info" => at' =< Queries
      /\ job.action = "verify" => at' < Len(job.data)
      /\ outcome' \in {"none", "value", "pass", "mismatch", "refused", "timeout"}
      /\ step' # "over" => outcome' = "none"
  <2>1. CASE job.action = "info" /\ Tool!AnsweredInfo
    BY <1>3, <2>1 DEF Tool!AnsweredInfo, Tool!TypeOK, RunInv
  <2>2. CASE job.action = "verify" /\ Tool!AnsweredVerify(Head(inbuf))
    BY <2>2 DEF Tool!AnsweredVerify, Tool!TypeOK, RunInv, LinkInv, Jobs
  <2>3. CASE job.action \in {"crc", "call"} /\ Tool!End("value")
    BY <2>3 DEF Tool!TypeOK, RunInv
  <2> QED BY <2>1, <2>2, <2>3
<1>5. foreign' \in BOOLEAN
  BY DEF Tool!TypeOK
<1>6. Tool!TypeOK'
  BY <1>1, <1>4, <1>5 DEF Tool!TypeOK
<1> QED BY <1>1, <1>2, <1>4, <1>6 DEF LinkInv, RunInv

(* The target answers a request with a frame that says whose it is. *)
LEMMA ServeTyped ==
  ASSUME Typed, Tool!Serve
  PROVE  /\ toTarget' \in Seq(Checked) /\ toHost' \in Seq(Frames)
         /\ target' = "stage2" => toTarget' # <<>> /\ Head(toTarget').sub = "call"
         /\ target' = "stage2" => toTarget' = toTarget /\ toHost' = toHost
         /\ target' # "stage2" =>
              /\ toTarget' = Tail(toTarget)
              /\ \E f \in Frames :
                   /\ toHost' = Append(toHost, f)
                   /\ f.run = Head(toTarget).run /\ f.at = Head(toTarget).at
                   /\ Head(toTarget).sub = "crc" =>
                        f.value = Tool!Crc(Tool!Bytes(Head(toTarget).a, Head(toTarget).n))
<1> DEFINE r == Head(toTarget)
<1>1. /\ toTarget \in Seq(Checked) /\ toTarget # <<>> /\ r \in Checked /\ toHost \in Seq(Frames)
      /\ ram \in [Window -> Byte] /\ target = "monitor"
  BY DEF Typed, LinkInv, Tool!Serve, Tool!TypeOK, Tool!Window, Window
<1>2. Tail(toTarget) \in Seq(Checked)
  BY <1>1
<1>3. r.sub \in {"banner", "query", "crc", "call"} /\ r.run \in Nat /\ r.at \in Nat
  BY <1>1 DEF Checked, Requests
<1> HIDE DEF r
<1>4. ASSUME NEW shape \in {"banner", "hex"}, NEW value \in Values,
             r.sub = "crc" => value = Tool!Crc(Tool!Bytes(r.a, r.n)),
             Tool!Answer(shape, value), UNCHANGED target
      PROVE  /\ target' # "stage2" /\ toTarget' = Tail(toTarget) /\ toHost' \in Seq(Frames)
             /\ \E f \in Frames :
                  /\ toHost' = Append(toHost, f) /\ f.run = r.run /\ f.at = r.at
                  /\ r.sub = "crc" => f.value = Tool!Crc(Tool!Bytes(r.a, r.n))
  <2> DEFINE f == [shape |-> shape, value |-> value, run |-> r.run, at |-> r.at]
  <2>1. f \in Frames /\ f.run = r.run /\ f.at = r.at /\ f.value = value
    BY <1>3 DEF Frames
  <2>2. toHost' = Append(toHost, f)
    BY <1>4 DEF Tool!Answer, Tool!Frame, r
  <2>3. toHost' \in Seq(Frames)
    BY <1>1, <2>1, <2>2
  <2>4. target' # "stage2" /\ toTarget' = Tail(toTarget)
    BY <1>1, <1>4 DEF Tool!Serve
  <2> HIDE DEF f
  <2> QED BY <1>4, <2>1, <2>2, <2>3, <2>4
<1>5. \A kind \in {"banner", "register", "r0"} : Tool!Value(kind, <<>>) \in Values
  BY DEF Values, Tool!Value
<1>6. CASE r.sub = "banner"
  <2>1. Tool!Answer("banner", Tool!Value("banner", <<>>)) /\ UNCHANGED target
    BY <1>6 DEF Tool!Serve, r
  <2>2. r.sub # "crc"
    BY <1>6
  <2> QED BY <1>2, <1>4, <1>5, <2>1, <2>2 DEF r
<1>7. CASE r.sub = "query"
  <2>1. Tool!Answer("hex", Tool!Value("register", <<>>)) /\ UNCHANGED target
    BY <1>7 DEF Tool!Serve, r
  <2>2. r.sub # "crc"
    BY <1>7
  <2> QED BY <1>2, <1>4, <1>5, <2>1, <2>2 DEF r
<1>8. CASE r.sub = "crc"
  <2>1. Tool!CrcAccepted(r.a, r.n) /\ Tool!Bytes(r.a, r.n) \in Seq(Byte)
    BY <1>1, <1>8, RangeBytes DEF r
  <2>2. Tool!Answer("hex", Tool!Crc(Tool!Bytes(r.a, r.n))) /\ UNCHANGED target
    BY <1>8, <2>1 DEF Tool!Serve, r
  <2>3. Tool!Crc(Tool!Bytes(r.a, r.n)) \in Values
    BY <2>1 DEF Values, Tool!Crc, Tool!Value
  <2> QED BY <1>2, <1>4, <2>2, <2>3 DEF r
<1>9. CASE r.sub = "call"
  <2>1. Tool!CallAccepted(r.a)
    BY <1>1, <1>9, CallLetThrough DEF r
  <2>2. target' = "stage2" /\ UNCHANGED toHost /\ toTarget' = toTarget
    BY <1>9, <2>1 DEF Tool!Serve, r
  <2> QED BY <1>1, <1>9, <2>2 DEF r
<1> QED BY <1>3, <1>6, <1>7, <1>8, <1>9

(* Stage 2 answers the call that started it, with one more frame.           *)
LEMMA ReturnTyped ==
  ASSUME Typed, Tool!Stage2Returns
  PROVE  /\ toTarget' = Tail(toTarget) /\ toTarget' \in Seq(Checked) /\ target' = "monitor"
         /\ toHost' \in Seq(Frames)
         /\ \E f \in Frames :
              /\ toHost' = Append(toHost, f)
              /\ f.run = Head(toTarget).run /\ f.at = Head(toTarget).at
<1> DEFINE r == Head(toTarget)
           f == [shape |-> "hex", value |-> Tool!Value("r0", <<>>), run |-> r.run, at |-> r.at]
<1>1. /\ toTarget \in Seq(Checked) /\ toTarget # <<>> /\ toHost \in Seq(Frames)
  BY DEF Typed, LinkInv, Tool!Stage2Returns
<1>2. r \in Checked /\ Tail(toTarget) \in Seq(Checked)
  BY <1>1
<1>3. f \in Frames
  BY <1>2 DEF Checked, Requests, Frames, Values, Tool!Value
<1>4. toHost' = Append(toHost, f) /\ toTarget' = Tail(toTarget) /\ target' = "monitor"
  BY DEF Tool!Stage2Returns, Tool!Answer, Tool!Frame
<1>5. f.run = r.run /\ f.at = r.at
  OBVIOUS
<1> HIDE DEF f
<1>6. toHost' \in Seq(Frames)
  BY <1>1, <1>3, <1>4
<1> QED BY <1>2, <1>3, <1>4, <1>5, <1>6

(* The target keeps the types of the link and of the RAM.                   *)
LEMMA TargetTyped ==
  ASSUME Typed, Tool!Serve \/ Tool!Stage2Returns \/ Tool!Diagnostic
  PROVE  Typed'
<1> USE DEF Typed, Tool!tool
<1>1. UNCHANGED <<runs, job, at, step, outcome, gaveUp, foreign, inbuf>>
  BY DEF Tool!Serve, Tool!Stage2Returns, Tool!Diagnostic
<1>2. ram' \in [Window -> Byte] /\ target' \in {"monitor", "stage2"}
  BY DEF Tool!Serve, Tool!Stage2Returns, Tool!Diagnostic, Tool!TypeOK, Tool!Window, Window
<1>3. Tool!TypeOK'
  BY <1>1, <1>2 DEF Tool!TypeOK, Tool!Window, Window
<1>4. RunInv'
  <2>1. Tool!Allowed' = Tool!Allowed
    BY <1>1 DEF Tool!Allowed, Tool!Asked, Tool!Chunk, Tool!Request
  <2> QED BY <1>1, <2>1 DEF RunInv
<1>5. LinkInv'
  <2>1. CASE Tool!Serve
    BY <1>1, <2>1, ServeTyped DEF LinkInv
  <2>2. CASE Tool!Stage2Returns
    BY <1>1, <2>2, ReturnTyped DEF LinkInv
  <2>3. CASE Tool!Diagnostic
    <3>1. [shape |-> "text", value |-> Tool!Value("text", <<>>), run |-> 0, at |-> 0] \in Frames
      BY DEF Frames, Values, Tool!Value
    <3>2. toHost' \in Seq(Frames)
      BY <2>3, <3>1 DEF Tool!Diagnostic, LinkInv
    <3> QED BY <1>1, <2>3, <3>2 DEF Tool!Diagnostic, LinkInv
  <2> QED BY <2>1, <2>2, <2>3
<1> QED BY <1>3, <1>4, <1>5

-----------------------------------------------------------------------------
(* The tool: whose answer comes *)

(* While no answer is waited for, none is on its way. *)
LEMMA NothingComes ==
  ASSUME Typed, AskedInv, AnswerInv, step # "wait"
  PROVE  toTarget = <<>> /\ Silent(inbuf) /\ Silent(toHost)
  BY DEF AskedInv, AnswerInv, Mine, Own, Silent

(* Before the next command, with nothing on its way. *)
LEMMA QuietTurn ==
  ASSUME toTarget' = <<>>, inbuf' \in Seq(Frames), toHost' \in Seq(Frames),
         Silent(inbuf'), Silent(toHost')
  PROVE  AskedInv' /\ AnswerInv'
<1>1. Sole(inbuf') /\ Sole(toHost')
  BY DEF Sole, Silent
<1>2. Mine(inbuf)' /\ Mine(toHost)'
  BY DEF Mine, Silent
<1> QED BY <1>1, <1>2 DEF AskedInv, AnswerInv

(* A run begins with nothing of an earlier run on its way.                  *)
LEMMA StartTurn ==
  ASSUME Typed, Typed', TurnInv,
         Tool!StartInfo \/ Tool!StartCrc \/ Tool!StartCall \/ Tool!StartVerify
  PROVE  TurnInv'
<1> USE DEF Tool!Start
<1>1. /\ step = "over" /\ step' = "ask" /\ outcome' = "none" /\ inbuf' = <<>>
      /\ UNCHANGED <<foreign, toTarget, toHost>>
      /\ job'.action = "verify" => at' = 0
  BY DEF Tool!StartInfo, Tool!StartCrc, Tool!StartCall, Tool!StartVerify
<1>2. toTarget = <<>> /\ Silent(toHost)
  BY <1>1, NothingComes DEF TurnInv
<1>3. AskedInv' /\ AnswerInv'
  BY <1>1, <1>2, QuietTurn, EmptySilent DEF Typed, LinkInv
<1>4. VerifyInv'
  BY <1>1 DEF VerifyInv, InRamUpTo, Tool!Verified
<1> QED BY <1>1, <1>3, <1>4 DEF TurnInv

(* Nothing is asked in vain: what a command that was refused, or broken off *)
(* before it was sent, leaves is what it found.                             *)
LEMMA RefuseTurn ==
  ASSUME Typed, Typed', TurnInv, Tool!Refuse \/ (Tool!Break /\ step = "ask")
  PROVE  TurnInv'
<1> USE DEF Tool!Refuse, Tool!Break, Tool!End, Tool!link
<1>1. toTarget = <<>> /\ Silent(inbuf) /\ Silent(toHost)
  BY NothingComes DEF TurnInv
<1>2. AskedInv' /\ AnswerInv'
  BY <1>1, QuietTurn DEF Typed, LinkInv
<1>3. VerifyInv'
  BY DEF VerifyInv, Tool!Verified
<1> QED BY <1>2, <1>3 DEF TurnInv

(* One request is sent when nothing is on its way.                          *)
LEMMA SendTurn ==
  ASSUME Typed, Typed', TurnInv, Tool!Send
  PROVE  TurnInv'
<1> USE DEF Tool!Send
<1>1. toTarget = <<>> /\ Silent(toHost)
  BY NothingComes DEF TurnInv
<1>2. Tool!Asked' = Tool!Asked
  BY SameTurn
<1>3. toTarget' = <<Tool!Asked>> /\ Silent(inbuf') /\ Silent(toHost')
  BY <1>1, EmptySilent
<1>4. AskedInv'
  BY <1>2, <1>3 DEF AskedInv
<1>5. AnswerInv'
  BY <1>3 DEF AnswerInv, Mine, Silent, Sole
<1>6. VerifyInv'
  BY DEF VerifyInv, InRamUpTo, TurnInv, Tool!Verified, Typed, RunInv
<1> QED BY <1>4, <1>5, <1>6 DEF TurnInv

(* An answer that matches is the awaited one. *)
LEMMA TakeTurn ==
  ASSUME Typed, Typed', TurnInv, Tool!Take
  PROVE  TurnInv'
<1> USE DEF Tool!Take
<1> DEFINE f == Head(inbuf)
<1>1. inbuf \in Seq(Frames) /\ inbuf # <<>> /\ inbuf' = Tail(inbuf)
      /\ UNCHANGED <<runs, job, gaveUp, toTarget, toHost, target, ram>>
  BY DEF Typed, LinkInv
<1>2. IsAnswer(f)
  BY DEF IsAnswer, Tool!Matches, Tool!Expected
<1>3. Own(f) /\ Silent(inbuf') /\ ~Silent(inbuf)
  BY <1>1, <1>2, TailFrames DEF TurnInv, AnswerInv
<1>4. Silent(toHost) /\ toTarget = <<>>
  BY <1>3 DEF TurnInv, AnswerInv, AskedInv
<1>5. AskedInv' /\ AnswerInv'
  BY <1>1, <1>3, <1>4, QuietTurn DEF Typed, LinkInv
<1>6. ~foreign'
  BY <1>3 DEF Own, TurnInv
<1>7. VerifyInv'
  <2>1. CASE job.action # "verify"
    BY <1>1, <2>1 DEF VerifyInv, Tool!Verified
  <2>2. CASE job.action = "verify" /\ f.value # Tool!Crc(Tool!Chunk)
    BY <1>1, <2>2 DEF VerifyInv, Tool!Verified, Tool!AnsweredVerify, Tool!End
  <2>3. CASE job.action = "verify" /\ f.value = Tool!Crc(Tool!Chunk)
    <3> DEFINE n == Len(Tool!Chunk)
    <3>1. /\ n \in Nat /\ Tool!Chunk \in Seq(Byte) /\ job.address \in Int /\ at \in Nat
          /\ \A i \in 1 .. n : Tool!Chunk[i] = job.data[at + i]
          /\ at + n = IF at + job.size < Len(job.data) THEN at + job.size ELSE Len(job.data)
      BY <2>3, ChunkBytes DEF Typed, Tool!TypeOK, LinkInv, Jobs
    <3>2. Tool!Asked.sub = "crc" /\ Tool!Asked.a = job.address + at /\ Tool!Asked.n = n
      BY <2>3 DEF Tool!Asked, Tool!Request
    <3>3. Tool!Crc(Tool!Bytes(job.address + at, n)) = Tool!Crc(Tool!Chunk)
      BY <1>3, <2>3, <3>2 DEF Own, CrcNow
    <3>4. Tool!Bytes(job.address + at, n) = Tool!Chunk
      BY <3>3 DEF Tool!Crc, Tool!Value
    <3>5. \A i \in 1 .. n : Tool!Bytes(job.address + at, n)[i] = ram[job.address + at + i - 1]
      BY DEF Tool!Bytes
    <3>6. \A i \in 1 .. n : ram[job.address + at + i - 1] = job.data[at + i]
      BY <3>1, <3>4, <3>5
    <3>7. InRamUpTo(at)
      BY <2>3 DEF TurnInv, VerifyInv
    <3> HIDE DEF n
    <3>8. ASSUME NEW i \in 1 .. at + n
          PROVE  ram[job.address + i - 1] = job.data[i]
      <4>1. CASE i =< at
        BY <3>1, <3>7, <4>1 DEF InRamUpTo
      <4>2. CASE i > at
        <5>1. i - at \in 1 .. n /\ at + (i - at) = i
              /\ job.address + at + (i - at) - 1 = job.address + i - 1
          BY <3>1, <4>2
        <5> QED BY <3>6, <5>1
      <4> QED BY <3>1, <4>1, <4>2
    <3>9. InRamUpTo(at + n)
      BY <3>8 DEF InRamUpTo
    <3>10. CASE at + job.size < Len(job.data)
      <4>1. at' = at + n /\ step' = "ask" /\ outcome' = outcome
        BY <2>3, <3>1, <3>10 DEF Tool!AnsweredVerify, Typed, LinkInv, Jobs, Tool!TypeOK
      <4>2. outcome' # "pass"
        BY <4>1 DEF Typed, RunInv
      <4> QED BY <1>1, <3>9, <4>1, <4>2 DEF VerifyInv, InRamUpTo, Tool!Verified
    <3>11. CASE ~(at + job.size < Len(job.data))
      <4>1. step' = "over" /\ at + n = Len(job.data)
        BY <2>3, <3>1, <3>11 DEF Tool!AnsweredVerify, Tool!End
      <4> QED BY <1>1, <3>9, <4>1 DEF VerifyInv, InRamUpTo
    <3> QED BY <3>10, <3>11
  <2> QED BY <2>1, <2>2, <2>3
<1> QED BY <1>5, <1>6, <1>7 DEF TurnInv

(* A frame that is no answer is dropped and the turn goes on.               *)
LEMMA IgnoreTurn ==
  ASSUME Typed, Typed', TurnInv, Tool!Ignore
  PROVE  TurnInv'
<1> USE DEF Tool!Ignore, Tool!tool
<1>1. Tool!Asked' = Tool!Asked /\ CrcNow' = CrcNow
  BY SameTurn
<1>2. inbuf \in Seq(Frames) /\ inbuf # <<>> /\ inbuf' = Tail(inbuf) /\ toHost' = toHost
      /\ toTarget' = toTarget
  BY DEF Typed, LinkInv
<1>3. /\ Silent(inbuf) => Silent(inbuf')
      /\ Sole(inbuf) => Sole(inbuf')
      /\ Mine(inbuf) => Mine(Tail(inbuf))
  BY <1>2, TailFrames
<1>4. AskedInv'
  BY <1>1, <1>2, <1>3 DEF TurnInv, AskedInv
<1>5. Mine(inbuf)' /\ Mine(toHost)'
  BY <1>1, <1>2, <1>3 DEF TurnInv, AnswerInv, Mine, Own
<1>6. AnswerInv'
  BY <1>2, <1>3, <1>5 DEF TurnInv, AnswerInv
<1>7. VerifyInv'
  BY DEF TurnInv, VerifyInv, InRamUpTo, Tool!Verified
<1> QED BY <1>4, <1>6, <1>7 DEF TurnInv

(* A frame that arrives is the one that was on its way.                     *)
LEMMA DeliverTurn ==
  ASSUME Typed, Typed', TurnInv, Tool!Deliver
  PROVE  TurnInv'
<1> USE DEF Tool!Deliver, Tool!tool
<1> DEFINE f == Head(toHost)
<1>1. Tool!Asked' = Tool!Asked /\ CrcNow' = CrcNow
  BY SameTurn
<1>2. /\ inbuf \in Seq(Frames) /\ toHost \in Seq(Frames) /\ toHost # <<>>
      /\ inbuf' = Append(inbuf, f) /\ toHost' = Tail(toHost) /\ toTarget' = toTarget
  BY DEF Typed, LinkInv
<1>3. /\ f \in Frames
      /\ Silent(toHost) => Silent(toHost') /\ ~IsAnswer(f)
      /\ Sole(toHost) => Sole(toHost')
      /\ Sole(toHost) /\ IsAnswer(f) => Silent(toHost')
      /\ Mine(toHost) => Mine(Tail(toHost)) /\ (IsAnswer(f) => Own(f))
  BY <1>2, TailFrames
<1> HIDE DEF f
<1>4. /\ Silent(inbuf) /\ ~IsAnswer(f) => Silent(inbuf')
      /\ Sole(inbuf) /\ ~IsAnswer(f) => Sole(inbuf')
      /\ Silent(inbuf) => Sole(inbuf')
      /\ Mine(inbuf) /\ (IsAnswer(f) => Own(f)) => Mine(Append(inbuf, f))
  BY <1>2, <1>3, MoreFrames
<1>5. AskedInv'
  BY <1>1, <1>2, <1>3, <1>4 DEF TurnInv, AskedInv
<1>6. Mine(Append(inbuf, f)) /\ Mine(Tail(toHost))
  BY <1>3, <1>4 DEF TurnInv, AnswerInv
<1>7. Mine(inbuf)' /\ Mine(toHost)'
  BY <1>1, <1>2, <1>6 DEF Mine, Own
<1>8. Sole(inbuf') /\ Sole(toHost') /\ (Silent(inbuf') \/ Silent(toHost'))
  <2>1. Sole(inbuf) /\ Sole(toHost) /\ (Silent(inbuf) \/ Silent(toHost))
    BY DEF TurnInv, AnswerInv
  <2>2. CASE IsAnswer(f)
    BY <1>3, <1>4, <2>1, <2>2
  <2>3. CASE ~IsAnswer(f)
    BY <1>3, <1>4, <2>1, <2>3
  <2> QED BY <2>2, <2>3
<1>9. AnswerInv'
  BY <1>7, <1>8 DEF AnswerInv
<1>10. VerifyInv'
  BY DEF TurnInv, VerifyInv, InRamUpTo, Tool!Verified
<1> QED BY <1>5, <1>9, <1>10 DEF TurnInv

(* A text of the monitor is not an answer.                                  *)
LEMMA DiagnosticTurn ==
  ASSUME Typed, Typed', TurnInv, Tool!Diagnostic
  PROVE  TurnInv'
<1> USE DEF Tool!Diagnostic, Tool!tool
<1> DEFINE f == [shape |-> "text", value |-> Tool!Value("text", <<>>), run |-> 0, at |-> 0]
<1>1. Tool!Asked' = Tool!Asked /\ CrcNow' = CrcNow
  BY SameTurn
<1>2. /\ toHost \in Seq(Frames) /\ f \in Frames /\ ~IsAnswer(f)
      /\ toHost' = Append(toHost, f) /\ inbuf' = inbuf /\ toTarget' = toTarget
  BY DEF Typed, LinkInv, Frames, Values, Tool!Value, IsAnswer
<1> HIDE DEF f
<1>3. /\ Silent(toHost) => Silent(toHost')
      /\ Sole(toHost) => Sole(toHost')
      /\ Mine(toHost) => Mine(Append(toHost, f))
  BY <1>2, MoreFrames
<1>4. AskedInv'
  BY <1>1, <1>2, <1>3 DEF TurnInv, AskedInv
<1>5. Mine(inbuf)' /\ Mine(toHost)'
  BY <1>1, <1>2, <1>3 DEF TurnInv, AnswerInv, Mine, Own
<1>6. AnswerInv'
  BY <1>2, <1>3, <1>5 DEF TurnInv, AnswerInv
<1>7. VerifyInv'
  BY DEF TurnInv, VerifyInv, InRamUpTo, Tool!Verified
<1> QED BY <1>4, <1>6, <1>7 DEF TurnInv

(* The answer of the one request under way, on a link with no other. *)
LEMMA AnswerTurn ==
  ASSUME Typed, AskedInv, toTarget # <<>>, NEW f \in Frames,
         UNCHANGED <<runs, job, at, step, inbuf>>,
         toTarget' = Tail(toTarget), toHost' = Append(toHost, f),
         f.run = Head(toTarget).run, f.at = Head(toTarget).at,
         Tool!Asked.sub = "crc" => ram' = ram /\ f.value = CrcNow
  PROVE  AskedInv' /\ AnswerInv'
<1>1. /\ step = "wait" /\ toTarget = <<Tool!Asked>> /\ Silent(inbuf) /\ Silent(toHost)
      /\ inbuf \in Seq(Frames) /\ toHost \in Seq(Frames)
  BY DEF AskedInv, Typed, LinkInv
<1>2. toTarget' = <<>> /\ Head(toTarget) = Tool!Asked
  BY <1>1
<1>3. f.run = runs /\ f.at = at
  BY <1>2, AskedChecked DEF Typed
<1>4. Tool!Asked' = Tool!Asked
  BY DEF Tool!Asked, Tool!Chunk, Tool!Request
<1>5. Tool!Asked.sub = "crc" => CrcNow' = CrcNow
  BY SameTurn
<1>6. Sole(toHost') /\ Sole(inbuf') /\ Silent(inbuf')
  BY <1>1, MoreFrames, SilentIsSole
<1>7. Mine(inbuf)'
  BY <1>1 DEF Mine, Silent
<1>8. Mine(toHost)'
  <2>1. ASSUME NEW i \in 1 .. Len(toHost'), IsAnswer(toHost'[i])
        PROVE  toHost'[i] = f
    <3>1. i \in 1 .. Len(toHost) => toHost'[i] = toHost[i]
      BY <1>1
    <3>2. i \in 1 .. Len(toHost) \/ i = Len(toHost) + 1
      BY <1>1, <2>1
    <3> QED BY <1>1, <2>1, <3>1, <3>2 DEF Silent
  <2> QED BY <1>1, <1>3, <1>4, <1>5, <2>1 DEF Mine, Own
<1> QED BY <1>2, <1>6, <1>7, <1>8 DEF AskedInv, AnswerInv

(* The monitor takes the request and leaves its one answer.                 *)
LEMMA ServeTurn ==
  ASSUME Typed, Typed', TurnInv, Tool!Serve
  PROVE  TurnInv'
<1> USE DEF Tool!tool
<1>1. UNCHANGED <<runs, job, at, step, outcome, gaveUp, foreign, inbuf, ram>>
      /\ toTarget # <<>>
  BY DEF Tool!Serve
<1>2. Tool!Asked' = Tool!Asked /\ CrcNow' = CrcNow
  BY <1>1, SameTurn
<1>3. VerifyInv'
  BY <1>1 DEF TurnInv, VerifyInv, InRamUpTo, Tool!Verified
<1>4. CASE target' = "stage2"
  <2>1. toTarget' = toTarget /\ toHost' = toHost
    BY <1>4, ServeTyped
  <2>2. AskedInv' /\ AnswerInv'
    BY <1>1, <1>2, <2>1 DEF TurnInv, AskedInv, AnswerInv, Mine, Own
  <2> QED BY <1>1, <1>3, <2>2 DEF TurnInv
<1>5. CASE target' # "stage2"
  <2>1. toTarget = <<Tool!Asked>> /\ Head(toTarget) = Tool!Asked
    BY <1>1 DEF TurnInv, AskedInv
  <2>2. PICK f \in Frames :
          /\ toHost' = Append(toHost, f)
          /\ f.run = Head(toTarget).run /\ f.at = Head(toTarget).at
          /\ Head(toTarget).sub = "crc" =>
               f.value = Tool!Crc(Tool!Bytes(Head(toTarget).a, Head(toTarget).n))
    BY <1>5, ServeTyped
  <2>3. toTarget' = Tail(toTarget)
    BY <1>5, ServeTyped
  <2>4. Tool!Asked.sub = "crc" => ram' = ram /\ f.value = CrcNow
    BY <1>1, <2>1, <2>2 DEF CrcNow
  <2>5. AskedInv' /\ AnswerInv'
    BY <1>1, <2>2, <2>3, <2>4, AnswerTurn DEF TurnInv
  <2> QED BY <1>1, <1>3, <2>5 DEF TurnInv
<1> QED BY <1>4, <1>5

(* A second stage runs for a call: what was verified is not under it. *)
LEMMA ReturnTurn ==
  ASSUME Typed, Typed', TurnInv, Tool!Stage2Returns
  PROVE  TurnInv'
<1> USE DEF Tool!tool
<1>1. UNCHANGED <<runs, job, at, step, outcome, gaveUp, foreign, inbuf>>
  BY DEF Tool!Stage2Returns
<1>2. toTarget # <<>> /\ Head(toTarget).sub = "call"
  BY DEF Tool!Stage2Returns, Typed, LinkInv
<1>3. step = "wait" /\ Head(toTarget) = Tool!Asked
  BY <1>2 DEF TurnInv, AskedInv
<1>4. Tool!Asked.sub = "call"
  BY <1>2, <1>3
<1>5. job.action # "verify"
  BY <1>4 DEF Tool!Asked, Tool!Request
<1>6. VerifyInv'
  BY <1>1, <1>5 DEF VerifyInv, Tool!Verified
<1>7. PICK f \in Frames :
        /\ toHost' = Append(toHost, f)
        /\ f.run = Head(toTarget).run /\ f.at = Head(toTarget).at
  BY ReturnTyped
<1>8. toTarget' = Tail(toTarget)
  BY ReturnTyped
<1>9. AskedInv' /\ AnswerInv'
  BY <1>1, <1>2, <1>4, <1>7, <1>8, AnswerTurn DEF TurnInv
<1> QED BY <1>1, <1>6, <1>9 DEF TurnInv

-----------------------------------------------------------------------------
(* The tool: the theorems *)

(* Nothing is asked and nothing is on its way at first.                     *)
LEMMA ToolInit == MCInit => ToolIInv
<1> SUFFICES ASSUME MCInit PROVE ToolIInv
  OBVIOUS
<1>1. Tool!Init
  BY DEF MCInit
<1>2. MaxRuns \in Nat /\ Queries \in Nat
  BY ToolAssumption DEF Tool!ConsoleAssumption
<1>3. Tool!TypeOK
  <2>1. /\ runs = 0 /\ job.action = "info" /\ at = 0 /\ step = "over" /\ outcome = "none"
        /\ target = "monitor" /\ ram \in [Tool!Window -> Byte]
        /\ gaveUp = FALSE /\ foreign = FALSE
    BY <1>1 DEF Tool!Init
  <2>2. {gaveUp, foreign} \subseteq BOOLEAN
    BY <2>1
  <2> QED BY <1>2, <2>1, <2>2 DEF Tool!TypeOK
<1>4. LinkInv
  BY <1>1 DEF Tool!Init, LinkInv, Jobs
<1>5. RunInv
  BY <1>1 DEF Tool!Init, RunInv
<1>6. TurnInv
  BY <1>1, EmptySilent
  DEF Tool!Init, TurnInv, AskedInv, AnswerInv, VerifyInv, Tool!Verified
<1> QED BY <1>3, <1>4, <1>5, <1>6 DEF ToolIInv

(* A step of the tool, of the link or of the target keeps the invariant.    *)
LEMMA ToolStep == ToolIInv /\ Tool!Next => ToolIInv'
<1> SUFFICES ASSUME ToolIInv, Tool!Next PROVE ToolIInv'
  OBVIOUS
<1>1. Typed
  BY DEF ToolIInv, Typed
<1>2. Typed'
  BY <1>1, StartTyped, AskTyped, TakeTyped, TargetTyped DEF Tool!Next
<1>3. gaveUp => gaveUp'
  BY DEF Tool!Next, Tool!Start, Tool!StartInfo, Tool!StartCrc, Tool!StartCall,
         Tool!StartVerify, Tool!Refuse, Tool!Send, Tool!Take, Tool!Ignore, Tool!Timeout,
         Tool!Break, Tool!Serve, Tool!Stage2Returns, Tool!Diagnostic, Tool!Deliver, Tool!tool
<1>4. Tool!Timeout \/ (Tool!Break /\ step = "wait") => gaveUp'
  BY DEF Tool!Timeout, Tool!Break
<1>5. Tool!Break => step = "ask" \/ step = "wait"
  BY DEF Tool!Break
<1>6. TurnInv /\ ~Tool!Timeout /\ ~(Tool!Break /\ step = "wait") => TurnInv'
  BY <1>1, <1>2, <1>5, StartTurn, RefuseTurn, SendTurn, TakeTurn, IgnoreTurn, ServeTurn,
     ReturnTurn, DiagnosticTurn, DeliverTurn DEF Tool!Next
<1> QED BY <1>2, <1>3, <1>4, <1>6 DEF ToolIInv, Typed

(* A step of another end, or none, leaves the tool as it is. *)
LEMMA ToolStays == ToolIInv /\ UNCHANGED toolVars => ToolIInv'
<1> SUFFICES ASSUME ToolIInv, UNCHANGED toolVars PROVE ToolIInv'
  OBVIOUS
<1> USE DEF toolVars
<1>1. Tool!Asked' = Tool!Asked /\ CrcNow' = CrcNow
  BY SameTurn
<1>2. Tool!TypeOK' /\ LinkInv'
  BY DEF ToolIInv, Tool!TypeOK, LinkInv
<1>3. RunInv'
  BY <1>1 DEF ToolIInv, RunInv, Tool!Allowed
<1>4. TurnInv => TurnInv'
  BY <1>1 DEF TurnInv, AskedInv, AnswerInv, VerifyInv, Mine, Own, InRamUpTo, Tool!Verified
<1> QED BY <1>2, <1>3, <1>4 DEF ToolIInv

(* So does a step of the composed system.                                   *)
LEMMA MCToolStep == ToolIInv /\ [MCNext]_MCVars => ToolIInv'
<1>1. [MCNext]_MCVars => Tool!Next \/ UNCHANGED toolVars
  BY DEF MCNext, MCVars, Monitor, Runs, Loads, Tool!Next
<1> QED BY <1>1, ToolStep, ToolStays

(* The tool and its link stay in the invariant, whatever the other ends do. *)
THEOREM SpecToolIInv == MCSpec => []ToolIInv
  BY ToolInit, MCToolStep, PTL DEF MCSpec

(* The monitor never refuses what the tool's own checks let through, and,   *)
(* as long as no run has given up a command it had sent (by its deadline, a *)
(* damaged frame, a port error or Ctrl+C), every answer taken is that of    *)
(* the command asked, across runs and diagnostics.                          *)
THEOREM SpecToolInv == MCSpec => []ToolInv
<1>1. ToolIInv => ToolInv
  <2> SUFFICES ASSUME ToolIInv PROVE ToolInv
    OBVIOUS
  <2>1. ASSUME NEW q \in Seq(Frames), NEW f \in Tool!Range(q)
        PROVE  f.value # Tool!Bad
    <3>1. f \in Frames
      BY <2>1 DEF Tool!Range
    <3>2. f.value.kind \in {"banner", "register", "crc", "text", "r0"}
      BY <3>1 DEF Frames, Values
    <3>3. Tool!Bad.kind = "BAD00001"
      BY DEF Tool!Bad, Tool!Value
    <3> QED BY <3>2, <3>3
  <2>2. Tool!NeverRefused
    BY <2>1 DEF ToolIInv, LinkInv, Tool!NeverRefused
  <2> QED BY <2>2 DEF ToolIInv, ToolInv, TurnInv, Tool!OwnAnswers
<1> QED BY <1>1, SpecToolIInv, PTL

(* If no run has given up a command it had sent, "PASS: every chunk         *)
(* matched" means that every byte of the file is in RAM at its address, for *)
(* every file, chunk size and window.                                       *)
THEOREM SpecPassSound == MCSpec => []PassSound
<1>1. ToolIInv => PassSound
  <2> SUFFICES ASSUME ToolIInv, Tool!Verified, ~gaveUp PROVE Tool!InRam
    BY DEF PassSound, Tool!PassSound
  <2>1. InRamUpTo(Len(job.data))
    BY DEF ToolIInv, TurnInv, VerifyInv
  <2>2. DOMAIN job.data = 1 .. Len(job.data)
    BY DEF ToolIInv, LinkInv, Jobs
  <2> QED BY <2>1, <2>2 DEF Tool!InRam, InRamUpTo
<1> QED BY <1>1, SpecToolIInv, PTL

-----------------------------------------------------------------------------
(* The older RAM loaders *)

(* What main() has let through, and what it has not begun. *)
Accepted == Loader!MonitorFits /\ (Loader!BundleAccepted \/ Loader!Stage2Accepted)
Images == [start : Nat, length : Nat]
BundleInv ==
  /\ bundle \in Seq(Images) /\ bundle # <<>> /\ bundle[1].start = MonitorBase
  /\ loader = "stage0" => Len(bundle) = 2 /\ bundle[2].start = ExtraStart
  /\ IF stage \in {"check", "refused"}
     THEN /\ image = 1 /\ written = 0 /\ writes = <<>> /\ acks = 0 /\ input = 0
          /\ held = [a \in Loader!Addresses |-> 0]
     ELSE Accepted

(* Where the upload is, and that each write on the link lies in its image   *)
(* and is no longer than a chunk.                                           *)
Writes == {w \in [image : DOMAIN bundle, from : Nat, to : Nat] :
             w.to =< bundle[w.image].length /\ w.to =< w.from + MaxChunk}
UploadInv ==
  /\ writes \in Seq(Writes)
  /\ stage = "wait" => written < bundle[image].length
  /\ written = bundle[image].length \/ \E n \in Nat : written = n * MaxChunk
  /\ stage \in {"go", "executed"} => image = Len(bundle) /\ written = bundle[image].length
  /\ stage = "executed" => writes = <<>>

(* A chunk that was begun is lost when it is not in place and no write that *)
(* is on the link covers it.  A write that is lost costs an ack; as long as *)
(* the acks that are to come or have come are at most one for each timeout  *)
(* and one for the chunk that is waited for, so are the lost chunks.        *)
Offsets(c) == c.number * MaxChunk ..
              Loader!Min({(c.number + 1) * MaxChunk, bundle[c.image].length}) - 1
Covers(w, c) == w.image = c.image /\ \A offset \in Offsets(c) : offset \in w.from .. w.to - 1
Reached == IF stage = "wait" THEN Loader!ChunkEnd ELSE written
Begun(c) == c.image < image \/ (c.image = image /\ c.number * MaxChunk < Reached)
Lost(c) == ~Loader!InPlace(c) /\ \A i \in 1 .. Len(writes) : ~Covers(writes[i], c)
Gaps == {c \in Loader!Chunks : Begun(c) /\ Lost(c)}
Waits == IF stage = "wait" THEN 1 ELSE 0
Accounted ==
  /\ IsFiniteSet(Gaps)
  /\ Cardinality(Gaps) + Len(writes) + acks + input =< retries + Waits

LoaderIInv ==
  Loader!TypeOK /\ BundleInv /\ UploadInv /\ Loader!WindowsKept /\ (stage # "failed" => Accounted)

-----------------------------------------------------------------------------
(* Images apart from one another *)

(* The lesser of two integers. *)
LEMMA LesserOfTwo ==
  ASSUME NEW x \in Int, NEW y \in Int
  PROVE  Loader!Min({x, y}) = IF x =< y THEN x ELSE y
<1>1. \E z \in {x, y} : \A u \in {x, y} : z =< u
  OBVIOUS
<1>2. Loader!Min({x, y}) \in {x, y} /\ \A u \in {x, y} : Loader!Min({x, y}) =< u
  BY <1>1 DEF Loader!Min
<1> QED BY <1>2

(* An image's address, length and end are numbers.                          *)
LEMMA ImageType ==
  ASSUME BundleInv, NEW k \in DOMAIN bundle
  PROVE  /\ bundle[k].start \in Nat /\ bundle[k].length \in Nat /\ Loader!End(bundle[k]) \in Nat
         /\ Loader!End(bundle[k]) = bundle[k].start + bundle[k].length
         /\ DOMAIN bundle = 1 .. Len(bundle) /\ Len(bundle) \in Nat
<1>1. DOMAIN bundle = 1 .. Len(bundle) /\ Len(bundle) \in Nat
  BY LenProperties DEF BundleInv
<1>2. bundle[k] \in Images
  BY <1>1, ElementOfSeq DEF BundleInv
<1> QED BY <1>1, <1>2 DEF Images, Loader!End

(* Some images have a first one in the order of addresses. *)
LEMMA FirstImage ==
  ASSUME BundleInv, NEW T, T \subseteq DOMAIN bundle, T # {}
  PROVE  \E m \in T : \A k \in T : ~Loader!Before(k, m)
<1>1. \A k \in T : bundle[k].start \in Nat /\ Loader!End(bundle[k]) \in Nat /\ k \in Nat
  BY ImageType
<1> DEFINE S1 == {bundle[k].start : k \in T}
<1>2. PICK s \in S1 : \A x \in S1 : s =< x
  <2>1. S1 \subseteq Nat /\ S1 # {}
    BY <1>1
  <2> HIDE DEF S1
  <2> QED BY <2>1, LeastElement
<1> DEFINE T2 == {k \in T : bundle[k].start = s}
           S2 == {Loader!End(bundle[k]) : k \in T2}
<1>3. PICK e \in S2 : \A x \in S2 : e =< x
  <2>1. S2 \subseteq Nat /\ S2 # {}
    BY <1>1
  <2> HIDE DEF S2
  <2> QED BY <2>1, LeastElement
<1> DEFINE T3 == {k \in T2 : Loader!End(bundle[k]) = e}
<1>4. PICK m \in T3 : \A k \in T3 : m =< k
  <2>1. T3 \subseteq Nat /\ T3 # {}
    BY <1>1, <1>3
  <2> HIDE DEF T3
  <2> QED BY <2>1, LeastElement
<1>5. m \in T /\ bundle[m].start = s /\ Loader!End(bundle[m]) = e
  BY <1>4
<1>6. ASSUME NEW k \in T, Loader!Before(k, m) PROVE FALSE
  <2>1. s =< bundle[k].start
    BY <1>2
  <2>2. bundle[k].start = s => e =< Loader!End(bundle[k])
    BY <1>3
  <2>3. bundle[k].start = s /\ Loader!End(bundle[k]) = e => m =< k
    BY <1>4
  <2>4. bundle[k].start \in Nat /\ s \in Nat /\ Loader!End(bundle[k]) \in Nat /\ e \in Nat
        /\ k \in Nat /\ m \in Nat
    BY <1>1, <1>5
  <2> QED BY <1>5, <1>6, <2>1, <2>2, <2>3, <2>4 DEF Loader!Before
<1> QED BY <1>5, <1>6

(* No overlap of neighbours is no overlap at all. *)
LEMMA Apart ==
  ASSUME BundleInv, ~Loader!Overlap, NEW k \in DOMAIN bundle, NEW l \in DOMAIN bundle,
         Loader!Before(k, l)
  PROVE  Loader!End(bundle[k]) =< bundle[l].start
<1> DEFINE T == {m \in DOMAIN bundle :
                   Loader!Before(k, m) /\ bundle[m].start < Loader!End(bundle[k])}
<1>0. \A m \in DOMAIN bundle : bundle[m].start \in Nat /\ Loader!End(bundle[m]) \in Nat
  BY ImageType
<1>1. SUFFICES ASSUME T # {} PROVE FALSE
  BY <1>0
<1>2. PICK m \in T : \A y \in T : ~Loader!Before(y, m)
  <2>1. T \subseteq DOMAIN bundle
    OBVIOUS
  <2> HIDE DEF T
  <2> QED BY <1>1, <2>1, FirstImage
<1>3. m \in DOMAIN bundle /\ Loader!Before(k, m) /\ bundle[m].start < Loader!End(bundle[k])
  BY <1>2
<1>4. ASSUME NEW y \in DOMAIN bundle, Loader!Before(k, y), Loader!Before(y, m) PROVE FALSE
  <2>1. bundle[y].start =< bundle[m].start
    BY <1>0, <1>3, <1>4 DEF Loader!Before
  <2>2. bundle[y].start < Loader!End(bundle[k])
    BY <1>0, <1>3, <2>1
  <2>3. y \in T
    BY <1>4, <2>2
  <2> QED BY <1>2, <1>4, <2>3
<1>5. Loader!Neighbours(k, m)
  BY <1>3, <1>4 DEF Loader!Neighbours
<1> QED BY <1>3, <1>5 DEF Loader!Overlap

(* An address lies in one image, *)
LEMMA OneImage ==
  ASSUME BundleInv, Accepted, NEW k \in DOMAIN bundle, NEW l \in DOMAIN bundle, NEW x \in Int,
         bundle[k].start =< x, x < Loader!End(bundle[k]),
         bundle[l].start =< x, x < Loader!End(bundle[l])
  PROVE  k = l
<1>1. /\ bundle[k].start \in Nat /\ Loader!End(bundle[k]) \in Nat
      /\ bundle[l].start \in Nat /\ Loader!End(bundle[l]) \in Nat
      /\ DOMAIN bundle = 1 .. Len(bundle) /\ Len(bundle) \in Nat
  BY ImageType
<1> SUFFICES ASSUME k # l PROVE FALSE
  OBVIOUS
<1>2. CASE Loader!BundleAccepted
  <2>1. k \in Nat /\ l \in Nat
    BY <1>1
  <2>2. Loader!Before(k, l) \/ Loader!Before(l, k)
    BY <1>1, <2>1 DEF Loader!Before
  <2>3. Loader!Before(k, l) => Loader!End(bundle[k]) =< bundle[l].start
    BY <1>2, Apart DEF Loader!BundleAccepted
  <2>4. Loader!Before(l, k) => Loader!End(bundle[l]) =< bundle[k].start
    BY <1>2, Apart DEF Loader!BundleAccepted
  <2> QED BY <1>1, <2>2, <2>3, <2>4
<1>3. CASE Loader!Stage2Accepted
  <2>1. Len(bundle) = 2 /\ bundle[2].start = ExtraStart /\ bundle[1].start = MonitorBase
        /\ bundle[1].length = MonitorSize
    BY <1>3 DEF BundleInv, Loader!Stage2Accepted, Accepted, Loader!MonitorFits
  <2>2. 1 \in DOMAIN bundle
    BY <1>1, <2>1
  <2>3. Loader!End(bundle[1]) =< bundle[2].start
    BY <2>1, <2>2, ImageType, LoadersAssumption DEF Loader!LoaderAssumption, Loader!End
  <2>4. (k = 1 /\ l = 2) \/ (k = 2 /\ l = 1)
    BY <1>1, <2>1
  <2> QED BY <1>1, <2>3, <2>4
<1> QED BY <1>2, <1>3 DEF Accepted

(* and that image where main() allows it. *)
Places(k) == IF k = 1 THEN MonitorBase .. MonitorBase + MonitorSize - 1
             ELSE (DirectStart .. DirectEnd - 1) \cup (ExtraStart .. RamEnd - 1)
LEMMA InPlaces ==
  ASSUME BundleInv, Accepted, NEW k \in DOMAIN bundle, NEW x \in Int,
         bundle[k].start =< x, x < Loader!End(bundle[k])
  PROVE  x \in Places(k) /\ x \in Loader!Addresses
<1>1. /\ bundle[k].start \in Nat /\ Loader!End(bundle[k]) \in Nat
      /\ DOMAIN bundle = 1 .. Len(bundle) /\ Len(bundle) \in Nat
      /\ Loader!End(bundle[k]) = bundle[k].start + bundle[k].length
  BY ImageType
<1>2. /\ {DirectStart, DirectEnd, MonitorBase, MonitorSize, ExtraStart, RamEnd} \subseteq Nat
      /\ MaxLength \in Nat
      /\ DirectEnd =< MonitorBase /\ MonitorBase + MonitorSize =< ExtraStart
      /\ ExtraStart < RamEnd
  BY LoadersAssumption DEF Loader!LoaderAssumption
<1>3. CASE k = 1
  <2>1. bundle[1].start = MonitorBase /\ bundle[1].length = MonitorSize
    BY DEF BundleInv, Accepted, Loader!MonitorFits
  <2>2. x \in MonitorBase .. MonitorBase + MonitorSize - 1 /\ x \in 0 .. RamEnd + MaxLength
    BY <1>1, <1>2, <1>3, <2>1
  <2> QED BY <1>3, <2>2 DEF Places, Loader!Addresses
<1>4. CASE k # 1
  <2>1. k \in 2 .. Len(bundle)
    BY <1>1, <1>4
  <2>2. (DirectStart =< bundle[k].start /\ Loader!End(bundle[k]) =< DirectEnd)
        \/ (ExtraStart =< bundle[k].start /\ Loader!End(bundle[k]) =< RamEnd)
    <3>1. CASE Loader!BundleAccepted
      BY <2>1, <3>1 DEF Loader!BundleAccepted, Loader!RangeIsAllowed, Loader!Within
    <3>2. CASE Loader!Stage2Accepted
      <4>1. k = 2 /\ bundle[2].start = ExtraStart
        BY <2>1, <3>2 DEF BundleInv, Loader!Stage2Accepted
      <4>2. ExtraStart + bundle[2].length =< RamEnd
        BY <3>2 DEF Loader!Stage2Accepted
      <4> QED BY <1>1, <1>2, <4>1, <4>2
    <3> QED BY <3>1, <3>2 DEF Accepted
  <2>3. x \in (DirectStart .. DirectEnd - 1) \cup (ExtraStart .. RamEnd - 1)
    BY <1>1, <1>2, <2>2
  <2>4. x \in 0 .. RamEnd + MaxLength
    BY <1>1, <1>2, <2>2
  <2> QED BY <1>4, <2>3, <2>4 DEF Places, Loader!Addresses
<1> QED BY <1>3, <1>4

-----------------------------------------------------------------------------
(* Chunks *)

(* Each further chunk begins at least one chunk's length on. *)
LEMMA Multiples ==
  ASSUME NEW m \in Nat, NEW k \in Nat
  PROVE  /\ m * MaxChunk \in Nat /\ (m + 1) * MaxChunk = m * MaxChunk + MaxChunk
         /\ (m + 1 + k) * MaxChunk >= m * MaxChunk + MaxChunk
<1>1. PICK c \in Nat : c = MaxChunk
  BY LoadersAssumption DEF Loader!LoaderAssumption
<1>2. m * c \in Nat /\ k * c \in Nat
  OBVIOUS
<1>3. (m + 1) * c = m * c + c
  OBVIOUS
<1>4. (m + 1 + k) * c = m * c + c + k * c
  OBVIOUS
<1> QED BY <1>1, <1>2, <1>3, <1>4

(* No bytes are no chunks.                                                  *)
LEMMA NoChunks == \E n \in Nat : 0 = n * MaxChunk
<1>1. PICK c \in Nat : c = MaxChunk
  BY LoadersAssumption DEF Loader!LoaderAssumption
<1>2. 0 * c = 0
  OBVIOUS
<1> QED BY <1>1, <1>2

(* A chunk's first byte is at its number or beyond it.                      *)
LEMMA NoLess == \A n \in Nat : n =< n * MaxChunk
<1>1. PICK c \in Nat : MaxChunk = c + 1
  <2>1. MaxChunk - 1 \in Nat /\ MaxChunk = (MaxChunk - 1) + 1
    BY LoadersAssumption DEF Loader!LoaderAssumption
  <2> QED BY <2>1
<1>2. \A n \in Nat : n * (c + 1) = n * c + n /\ n * c \in Nat
  OBVIOUS
<1> QED BY <1>1, <1>2

(* A chunk's first byte and where the chunk lies. *)
LEMMA ChunkShape ==
  ASSUME BundleInv, NEW c \in Loader!Chunks
  PROVE  /\ c = [image |-> c.image, number |-> c.number]
         /\ c.image \in DOMAIN bundle /\ c.number \in Nat
         /\ c.number * MaxChunk \in Nat /\ c.number * MaxChunk < bundle[c.image].length
         /\ c.number * MaxChunk \in Offsets(c)
         /\ \A offset \in Offsets(c) :
              /\ offset \in Nat /\ offset < bundle[c.image].length
              /\ c.number * MaxChunk =< offset /\ offset < c.number * MaxChunk + MaxChunk
<1>1. PICK k \in DOMAIN bundle :
        c \in [image : {k}, number : {n \in 0 .. bundle[k].length :
                                        n * MaxChunk < bundle[k].length}]
  BY DEF Loader!Chunks
<1>2. /\ c = [image |-> c.image, number |-> c.number] /\ c.image = k
      /\ c.number \in {n \in 0 .. bundle[k].length : n * MaxChunk < bundle[k].length}
  BY <1>1
<1>3. PICK z \in Nat : z = bundle[k].length
  BY ImageType
<1>4. PICK n \in Nat : n = c.number
  BY <1>2, <1>3
<1>5. n * MaxChunk < z /\ c.image = k
  BY <1>2, <1>3, <1>4
<1>6. PICK p \in Nat, q \in Nat : p = n * MaxChunk /\ q = (n + 1) * MaxChunk /\ q = p + MaxChunk
                                  /\ MaxChunk \in Nat \ {0}
  <2>1. MaxChunk \in Nat \ {0}
    BY LoadersAssumption DEF Loader!LoaderAssumption
  <2>2. n * MaxChunk \in Nat /\ (n + 1) * MaxChunk = n * MaxChunk + MaxChunk
    BY <2>1, Multiples
  <2> QED BY <2>1, <2>2
<1>7. Offsets(c) = p .. Loader!Min({q, z}) - 1
  BY <1>3, <1>4, <1>5, <1>6 DEF Offsets
<1>8. Loader!Min({q, z}) = IF q =< z THEN q ELSE z
  BY <1>3, <1>6, LesserOfTwo
<1>9. p < z
  BY <1>5, <1>6
<1>10. /\ p \in Offsets(c)
       /\ \A offset \in Offsets(c) : /\ offset \in Nat /\ offset < z
                                     /\ p =< offset /\ offset < p + MaxChunk
  <2>1. PICK e \in Nat : e = Loader!Min({q, z})
    BY <1>8
  <2>2. e =< z /\ e =< p + MaxChunk /\ p < e
    <3>1. CASE q =< z
      <4>1. e = q
        BY <1>8, <2>1, <3>1
      <4> QED BY <1>6, <3>1, <4>1
    <3>2. CASE ~(q =< z)
      <4>1. e = z
        BY <1>8, <2>1, <3>2
      <4> QED BY <1>6, <1>9, <3>2, <4>1
    <3> QED BY <3>1, <3>2
  <2>3. Offsets(c) = p .. e - 1
    BY <1>7, <2>1
  <2> QED BY <1>6, <2>2, <2>3
<1> QED BY <1>1, <1>2, <1>3, <1>4, <1>5, <1>6, <1>9, <1>10

(* The chunks of an image are those that begin in it.                       *)
LEMMA ChunkIn ==
  ASSUME BundleInv, NEW k \in DOMAIN bundle, NEW n \in Nat, n * MaxChunk < bundle[k].length
  PROVE  [image |-> k, number |-> n] \in Loader!Chunks
<1> DEFINE Of(l) == [image : {l}, number : {m \in 0 .. bundle[l].length :
                                              m * MaxChunk < bundle[l].length}]
<1>1. PICK z \in Nat : z = bundle[k].length
  BY ImageType
<1>2. n \in 0 .. z
  <2>1. n * MaxChunk \in Nat /\ n =< n * MaxChunk
    BY Multiples, NoLess
  <2> QED BY <1>1, <2>1
<1>3. [image |-> k, number |-> n] \in Of(k)
  BY <1>1, <1>2
<1>4. Loader!Chunks = UNION {Of(l) : l \in DOMAIN bundle}
  BY DEF Loader!Chunks
<1> HIDE DEF Of
<1> QED BY <1>3, <1>4

(* Chunks of an image that begin less than a chunk apart are the same. *)
LEMMA SameChunk ==
  ASSUME BundleInv, NEW c \in Loader!Chunks, NEW d \in Loader!Chunks, c.image = d.image,
         c.number * MaxChunk < d.number * MaxChunk + MaxChunk,
         d.number * MaxChunk < c.number * MaxChunk + MaxChunk
  PROVE  c = d
<1>1. PICK m \in Nat, n \in Nat : m = c.number /\ n = d.number
  BY ChunkShape
<1>2. m * MaxChunk \in Nat /\ n * MaxChunk \in Nat /\ MaxChunk \in Nat
  BY Multiples, LoadersAssumption DEF Loader!LoaderAssumption
<1>3. ASSUME m < n PROVE FALSE
  <2>1. PICK k \in Nat : n = m + 1 + k
    <3>1. n - m - 1 \in Nat /\ n = m + 1 + (n - m - 1)
      BY <1>3
    <3> QED BY <3>1
  <2>2. n * MaxChunk >= m * MaxChunk + MaxChunk
    BY <2>1, Multiples
  <2> QED BY <1>1, <1>2, <2>2
<1>4. ASSUME n < m PROVE FALSE
  <2>1. PICK k \in Nat : m = n + 1 + k
    <3>1. m - n - 1 \in Nat /\ m = n + 1 + (m - n - 1)
      BY <1>4
    <3> QED BY <3>1
  <2>2. m * MaxChunk >= n * MaxChunk + MaxChunk
    BY <2>1, Multiples
  <2> QED BY <1>1, <1>2, <2>2
<1>5. c.number = d.number
  BY <1>1, <1>3, <1>4
<1> QED BY <1>5, ChunkShape

(* What it is to be in place, on a chunk's offsets.                         *)
LEMMA InPlaceIs ==
  ASSUME NEW c
  PROVE  Loader!InPlace(c) <=>
           \A offset \in Offsets(c) : held[bundle[c.image].start + offset] = c.image
BY DEF Loader!InPlace, Offsets

(* A write covers one chunk at most, *)
LEMMA CoversOne ==
  ASSUME BundleInv, NEW w \in Writes, NEW c \in Loader!Chunks, NEW d \in Loader!Chunks,
         Covers(w, c), Covers(w, d)
  PROVE  c = d
<1>1. PICK p \in Nat, q \in Nat :
        /\ p = c.number * MaxChunk /\ p \in Offsets(c)
        /\ q = d.number * MaxChunk /\ q \in Offsets(d)
  BY ChunkShape
<1>2. p \in w.from .. w.to - 1 /\ q \in w.from .. w.to - 1 /\ c.image = d.image
  BY <1>1 DEF Covers
<1>3. w.from \in Nat /\ w.to \in Nat /\ w.to =< w.from + MaxChunk /\ MaxChunk \in Nat
  BY LoadersAssumption DEF Writes, Loader!LoaderAssumption
<1>4. p < q + MaxChunk /\ q < p + MaxChunk
  BY <1>2, <1>3
<1> QED BY <1>1, <1>2, <1>4, SameChunk

(* puts it in place, and leaves the others that are in place there. *)
LEMMA StoredInPlace ==
  ASSUME Loader!TypeOK, BundleInv, Accepted, NEW w \in Writes,
         held' = Loader!Stored(w), bundle' = bundle,
         NEW c \in Loader!Chunks, Loader!InPlace(c) \/ Covers(w, c)
  PROVE  Loader!InPlace(c)'
<1> SUFFICES ASSUME NEW offset \in Offsets(c)
             PROVE  held'[bundle[c.image].start + offset] = c.image
  <2>1. Loader!InPlace(c)' <=>
          \A offset \in Offsets(c)' : held'[bundle'[c.image].start + offset] = c.image
    BY DEF Loader!InPlace, Offsets
  <2>2. Offsets(c)' = Offsets(c)
    BY DEF Offsets
  <2> QED BY <2>1, <2>2
<1>1. c.image \in DOMAIN bundle /\ offset \in Nat /\ offset < bundle[c.image].length
  BY ChunkShape
<1>2. PICK x \in Nat : x = bundle[c.image].start + offset
  BY <1>1, ImageType
<1>3. bundle[c.image].start =< x /\ x < Loader!End(bundle[c.image])
  BY <1>1, <1>2, ImageType
<1>4. x \in Loader!Addresses
  BY <1>1, <1>3, InPlaces
<1>5. held'[x] = IF x - bundle[w.image].start \in w.from .. w.to - 1 THEN w.image ELSE held[x]
  BY <1>4 DEF Loader!Stored
<1>6. /\ w.image \in DOMAIN bundle /\ w.from \in Nat /\ w.to \in Nat
      /\ w.to =< bundle[w.image].length
  BY DEF Writes
<1>7. CASE x - bundle[w.image].start \in w.from .. w.to - 1
  <2>1. bundle[w.image].start =< x /\ x < Loader!End(bundle[w.image])
    <3>1. bundle[w.image].start \in Nat /\ bundle[w.image].length \in Nat
          /\ Loader!End(bundle[w.image]) = bundle[w.image].start + bundle[w.image].length
      BY <1>6, ImageType
    <3> QED BY <1>6, <1>7, <3>1
  <2>2. w.image = c.image
    BY <1>1, <1>3, <1>6, <2>1, OneImage
  <2> QED BY <1>2, <1>5, <1>7, <2>2
<1>8. CASE x - bundle[w.image].start \notin w.from .. w.to - 1
  <2>1. ~Covers(w, c)
    <3> SUFFICES ASSUME Covers(w, c) PROVE FALSE
      OBVIOUS
    <3>1. w.image = c.image /\ offset \in w.from .. w.to - 1
      BY DEF Covers
    <3>2. x - bundle[c.image].start = offset
      BY <1>1, <1>2, ImageType
    <3> QED BY <1>8, <3>1, <3>2
  <2>2. held[x] = c.image
    BY <1>2, <2>1, InPlaceIs
  <2> QED BY <1>2, <1>5, <1>8, <2>2
<1> QED BY <1>7, <1>8

-----------------------------------------------------------------------------
(* The steps *)

(* The parts of the invariant that count nothing.                           *)
UploadKept == Loader!TypeOK /\ BundleInv /\ UploadInv

(* What main() is given establishes the invariant.                          *)
LEMMA LoaderInitKept == Loader!Init => LoaderIInv
<1> SUFFICES ASSUME Loader!Init PROVE LoaderIInv
  OBVIOUS
<1>0. /\ {DirectStart, DirectEnd, MonitorBase, MonitorSize, ExtraStart, RamEnd} \subseteq Nat
      /\ 0 < MonitorSize /\ ExtraStart < RamEnd /\ {MaxChunk, Attempts} \subseteq Nat \ {0}
      /\ {MaxImages, MaxLength} \subseteq Nat
  BY LoadersAssumption DEF Loader!LoaderAssumption
<1>1. /\ bundle \in Seq(Images) /\ bundle # <<>> /\ bundle[1].start = MonitorBase
      /\ loader \in {"bundle", "stage0"}
      /\ loader = "stage0" => Len(bundle) = 2 /\ bundle[2].start = ExtraStart
  <2>1. CASE Loader!InitBundle
    <3>1. PICK m \in {MonitorSize, MonitorSize - 1}, n \in 1 .. MaxImages :
            \E images \in [1 .. n -> Loader!Given] :
              bundle = <<Loader!Image(MonitorBase, m)>> \o images
      BY <2>1 DEF Loader!InitBundle
    <3>2. PICK images \in [1 .. n -> Loader!Given] :
              bundle = <<Loader!Image(MonitorBase, m)>> \o images
      BY <3>1
    <3>3. /\ Loader!Image(MonitorBase, m) \in Images
          /\ Loader!Image(MonitorBase, m).start = MonitorBase
      BY <1>0 DEF Loader!Image, Images
    <3>4. Loader!Given \subseteq Images /\ n \in Nat
      BY <1>0 DEF Loader!Given, Images
    <3>5. images \in Seq(Images)
      BY <3>4
    <3>6. PICK monitor \in Images : monitor = Loader!Image(MonitorBase, m)
      BY <3>3
    <3>7. <<monitor>> \in Seq(Images) /\ Len(<<monitor>>) = 1 /\ <<monitor>>[1] = monitor
      OBVIOUS
    <3>8. /\ <<monitor>> \o images \in Seq(Images)
          /\ Len(<<monitor>> \o images) = Len(<<monitor>>) + Len(images)
          /\ \A i \in 1 .. Len(<<monitor>>) + Len(images) :
               (<<monitor>> \o images)[i] =
                 IF i =< Len(<<monitor>>) THEN <<monitor>>[i] ELSE images[i - Len(<<monitor>>)]
      BY <3>5, <3>7, ConcatProperties
    <3>9. Len(images) \in Nat
      BY <3>5, LenProperties
    <3>10. bundle[1] = monitor /\ Len(bundle) >= 1
      BY <3>2, <3>6, <3>7, <3>8, <3>9
    <3>11. loader = "bundle"
      BY <2>1 DEF Loader!InitBundle
    <3>12. bundle # <<>>
      <4>1. bundle \in Seq(Images) /\ Len(<<>>) = 0
        BY <3>2, <3>6, <3>8
      <4> QED BY <3>10, <4>1
    <3> QED BY <3>2, <3>3, <3>6, <3>8, <3>10, <3>11, <3>12
  <2>2. CASE Loader!InitStage0
    <3>1. PICK m \in {MonitorSize, MonitorSize - 1}, n \in 0 .. RamEnd - ExtraStart + 1 :
            bundle = <<Loader!Image(MonitorBase, m), Loader!Image(ExtraStart, n)>>
      BY <2>2 DEF Loader!InitStage0
    <3>2. /\ Loader!Image(MonitorBase, m) \in Images
          /\ Loader!Image(MonitorBase, m).start = MonitorBase
          /\ Loader!Image(ExtraStart, n) \in Images
          /\ Loader!Image(ExtraStart, n).start = ExtraStart
      BY <1>0 DEF Loader!Image, Images
    <3>3. PICK u \in Images, v \in Images :
            /\ u = Loader!Image(MonitorBase, m) /\ v = Loader!Image(ExtraStart, n)
            /\ bundle = <<u, v>>
      BY <3>1, <3>2
    <3>4. /\ <<u, v>> \in Seq(Images) /\ <<u, v>> # <<>> /\ Len(<<u, v>>) = 2
          /\ <<u, v>>[1] = u /\ <<u, v>>[2] = v
      OBVIOUS
    <3>5. loader = "stage0"
      BY <2>2 DEF Loader!InitStage0
    <3> QED BY <3>2, <3>3, <3>4, <3>5
  <2> QED BY <2>1, <2>2 DEF Loader!Init
<1>2. /\ stage = "check" /\ image = 1 /\ written = 0 /\ attempt = 1
      /\ writes = <<>> /\ acks = 0 /\ input = 0
      /\ held = [a \in Loader!Addresses |-> 0] /\ retries = 0
  BY DEF Loader!Init
<1>3. BundleInv
  BY <1>1, <1>2 DEF BundleInv
<1>4. \A k \in DOMAIN bundle : bundle[k].start \in Nat /\ bundle[k].length \in Nat
  BY <1>3, ImageType
<1>5. DOMAIN bundle = 1 .. Len(bundle) /\ Len(bundle) \in Nat /\ 1 \in DOMAIN bundle
  <2>1. DOMAIN bundle = 1 .. Len(bundle) /\ Len(bundle) \in Nat /\ Len(bundle) # 0
    BY <1>1, LenProperties, EmptySeq
  <2> QED BY <2>1
<1>6. Loader!TypeOK
  BY <1>0, <1>1, <1>2, <1>4, <1>5 DEF Loader!TypeOK
<1>7. UploadInv
  <2>1. \E n \in Nat : 0 = n * MaxChunk
    BY NoChunks
  <2> QED BY <1>2, <2>1 DEF UploadInv
<1>8. Loader!WindowsKept
  BY <1>2 DEF Loader!WindowsKept
<1>9. Gaps = {}
  <2>1. ASSUME NEW c \in Loader!Chunks PROVE ~Begun(c)
    <3>1. c.image \in DOMAIN bundle /\ c.number * MaxChunk \in Nat
      BY <1>3, ChunkShape
    <3> QED BY <1>2, <1>5, <3>1 DEF Begun, Reached
  <2> QED BY <2>1 DEF Gaps
<1>10. Accounted
  <2>1. IsFiniteSet(Gaps) /\ Cardinality(Gaps) = 0
    BY <1>9, FS_EmptySet
  <2>2. Len(writes) = 0
    BY <1>2
  <2> QED BY <1>2, <2>1, <2>2 DEF Accounted, Waits
<1> QED BY <1>3, <1>6, <1>7, <1>8, <1>10 DEF LoaderIInv

(* The chunk that is sent. *)
LEMMA ChunkEndIs ==
  ASSUME Loader!TypeOK, BundleInv
  PROVE  /\ image \in DOMAIN bundle /\ written \in Nat /\ bundle[image].length \in Nat
         /\ written =< bundle[image].length /\ MaxChunk \in Nat \ {0}
         /\ Loader!ChunkEnd = IF written + MaxChunk =< bundle[image].length
                               THEN written + MaxChunk
                               ELSE bundle[image].length
<1>1. /\ image \in DOMAIN bundle /\ written \in 0 .. bundle[image].length
      /\ MaxChunk \in Nat \ {0}
  BY LoadersAssumption DEF Loader!TypeOK, Loader!LoaderAssumption
<1>2. PICK z \in Nat : z = bundle[image].length
  BY <1>1, ImageType
<1>3. PICK u \in Nat : u = written + MaxChunk
  BY <1>1, <1>2
<1>4. Loader!ChunkEnd = IF u =< z THEN u ELSE z
  BY <1>2, <1>3, LesserOfTwo DEF Loader!ChunkEnd
<1> QED BY <1>1, <1>2, <1>3, <1>4

(* A chunk that is sent ends in its image, and is no longer than a chunk.   *)
LEMMA ChunkEndType ==
  ASSUME Loader!TypeOK, BundleInv
  PROVE  /\ image \in DOMAIN bundle /\ written \in Nat /\ bundle[image].length \in Nat
         /\ MaxChunk \in Nat \ {0} /\ Loader!ChunkEnd \in 0 .. bundle[image].length
         /\ written =< Loader!ChunkEnd /\ Loader!ChunkEnd =< written + MaxChunk
BY ChunkEndIs

(* The link holds writes only. *)
LEMMA LinkHead ==
  ASSUME UploadInv, writes # <<>>
  PROVE  /\ Head(writes) \in Writes /\ Tail(writes) \in Seq(Writes)
         /\ Len(writes) \in Nat /\ Len(Tail(writes)) = Len(writes) - 1
         /\ Len(writes) >= 1 /\ Head(writes) = writes[1]
         /\ \A i \in 1 .. Len(writes) - 1 : Tail(writes)[i] = writes[i + 1]
<1>1. writes \in Seq(Writes)
  BY DEF UploadInv
<1>2. Len(writes) \in Nat /\ Len(writes) # 0
  BY <1>1, LenProperties, EmptySeq
<1>3. /\ Head(writes) \in Writes /\ Tail(writes) \in Seq(Writes)
      /\ Len(Tail(writes)) = Len(writes) - 1
      /\ \A i \in 1 .. Len(Tail(writes)) : Tail(writes)[i] = writes[i + 1]
  BY <1>1, HeadTailProperties
<1>4. Head(writes) = writes[1]
  BY <1>1
<1> QED BY <1>2, <1>3, <1>4

(* The types, the accepted bundle and the upload's place in it are kept.    *)
LEMMA UploadSteps ==
  ASSUME UploadKept, Loader!Next
  PROVE  UploadKept' /\ UNCHANGED <<loader, bundle>>
<1> USE DEF UploadKept
<1>0. UNCHANGED <<loader, bundle>> /\ Writes' = Writes /\ DOMAIN bundle = 1 .. Len(bundle)
      /\ image \in 1 .. Len(bundle) /\ Len(bundle) \in Nat
  <2>1. UNCHANGED <<loader, bundle>>
    BY DEF Loader!Next, Loader!Check, Loader!SendChunk, Loader!NextImage, Loader!Acknowledged,
       Loader!Timeout, Loader!Fail, Loader!Execute, Loader!PblWrite, Loader!LoseWrite,
       Loader!Deliver
  <2>2. image \in DOMAIN bundle
    BY DEF Loader!TypeOK
  <2> QED BY <2>1, <2>2, ImageType DEF Writes
<1>1. CASE Loader!Check
  <2>1. stage = "check" /\ UNCHANGED <<Loader!upload, Loader!link, held, retries>>
        /\ ((stage' = "send" /\ Accepted) \/ stage' = "refused")
    BY <1>1 DEF Loader!Check, Accepted
  <2>2. BundleInv'
    BY <1>0, <2>1 DEF BundleInv, Loader!upload, Loader!link, Accepted, Loader!MonitorFits,
       Loader!BundleAccepted, Loader!Stage2Accepted, Loader!RangeIsAllowed, Loader!Overlap,
       Loader!Neighbours, Loader!Before
  <2> QED BY <1>0, <2>1, <2>2 DEF Loader!TypeOK, UploadInv, Loader!upload, Loader!link
<1>2. stage \notin {"check", "refused"} => stage' \notin {"check", "refused"}
  BY DEF Loader!Next, Loader!Check, Loader!SendChunk, Loader!NextImage, Loader!Acknowledged,
     Loader!Timeout, Loader!Fail, Loader!Execute, Loader!PblWrite, Loader!LoseWrite,
     Loader!Deliver
<1>3. ASSUME stage \notin {"check", "refused"} PROVE BundleInv'
  BY <1>0, <1>2, <1>3 DEF BundleInv, Accepted, Loader!MonitorFits, Loader!BundleAccepted,
     Loader!Stage2Accepted, Loader!RangeIsAllowed, Loader!Overlap, Loader!Neighbours,
     Loader!Before
<1>4. CASE Loader!SendChunk
  <2>1. /\ stage = "send" /\ written < bundle[image].length /\ stage' = "wait" /\ input' = 0
        /\ writes' = Append(writes, [image |-> image, from |-> written, to |-> Loader!ChunkEnd])
        /\ UNCHANGED <<Loader!upload, acks, held, retries>>
    BY <1>4 DEF Loader!SendChunk
  <2>2. [image |-> image, from |-> written, to |-> Loader!ChunkEnd] \in Writes
    BY ChunkEndType DEF Writes
  <2>3. writes' \in Seq(Writes)
    BY <2>1, <2>2, AppendProperties DEF UploadInv
  <2> QED BY <1>0, <1>3, <2>1, <2>3 DEF Loader!TypeOK, UploadInv, Loader!upload
<1>5. CASE Loader!NextImage
  <2>1. stage = "send" /\ written = bundle[image].length
        /\ UNCHANGED <<attempt, Loader!link, held, retries>>
    BY <1>5 DEF Loader!NextImage
  <2>2. CASE image < Len(bundle)
    <3>1. image' = image + 1 /\ written' = 0 /\ stage' = "send"
      BY <1>5, <2>1, <2>2 DEF Loader!NextImage
    <3>2. image' \in DOMAIN bundle /\ bundle[image'].length \in Nat
      BY <1>0, <2>2, <3>1, ImageType
    <3>3. \E n \in Nat : written' = n * MaxChunk
      BY <3>1, NoChunks
    <3> QED BY <1>0, <1>3, <2>1, <3>1, <3>2, <3>3 DEF Loader!TypeOK, UploadInv, Loader!link
  <2>3. CASE ~(image < Len(bundle))
    <3>1. stage' = "go" /\ UNCHANGED <<image, written>> /\ image = Len(bundle)
      <4>1. image = Len(bundle)
        <5>1. PICK m \in Nat : m = Len(bundle)
          BY <1>0
        <5>2. image \in 1 .. m /\ ~(image < m)
          BY <1>0, <2>3, <5>1
        <5> QED BY <5>1, <5>2
      <4> QED BY <1>5, <2>3, <4>1 DEF Loader!NextImage
    <3> QED BY <1>0, <1>3, <2>1, <3>1 DEF Loader!TypeOK, UploadInv, Loader!link
  <2> QED BY <2>2, <2>3
<1>6. CASE Loader!Acknowledged
  <2>1. /\ stage = "wait" /\ input > 0 /\ input' = input - 1
        /\ written' = Loader!ChunkEnd /\ attempt' = 1 /\ stage' = "send"
        /\ UNCHANGED <<image, writes, acks, held, retries>>
    BY <1>6 DEF Loader!Acknowledged
  <2>2. input' \in Nat /\ 1 \in 1 .. Attempts
    <3>1. input \in Nat /\ Attempts \in Nat \ {0}
      BY LoadersAssumption DEF Loader!TypeOK, Loader!LoaderAssumption
    <3> QED BY <2>1, <3>1
  <2>3. written' = bundle[image].length \/ \E n \in Nat : written' = n * MaxChunk
    <3> SUFFICES ASSUME Loader!ChunkEnd # bundle[image].length
                 PROVE  \E n \in Nat : Loader!ChunkEnd = n * MaxChunk
      BY <2>1
    <3>1. PICK n \in Nat : written = n * MaxChunk
      <4>1. written < bundle[image].length
        BY <2>1 DEF UploadInv
      <4>2. written # bundle[image].length
        BY <4>1, ChunkEndType
      <4> QED BY <4>2 DEF UploadInv
    <3>2. Loader!ChunkEnd = written + MaxChunk
      BY ChunkEndIs
    <3>3. (n + 1) * MaxChunk = n * MaxChunk + MaxChunk
      BY Multiples
    <3> QED BY <3>1, <3>2, <3>3
  <2> QED BY <1>0, <1>3, <2>1, <2>2, <2>3, ChunkEndType DEF Loader!TypeOK, UploadInv
<1>7. CASE Loader!Timeout
  <2>1. /\ stage = "wait" /\ retries' = retries + 1
        /\ UNCHANGED <<image, written, Loader!link, held>>
        /\ stage' \in {"send", "failed"}
        /\ attempt' = attempt \/ (attempt < Attempts /\ attempt' = attempt + 1)
    BY <1>7 DEF Loader!Timeout
  <2>2. attempt' \in 1 .. Attempts /\ retries' \in Nat
    <3>1. Attempts \in Nat /\ attempt \in 1 .. Attempts /\ retries \in Nat
      BY LoadersAssumption DEF Loader!TypeOK, Loader!LoaderAssumption
    <3> QED BY <2>1, <3>1
  <2> QED BY <1>0, <1>3, <2>1, <2>2 DEF Loader!TypeOK, UploadInv, Loader!link
<1>8. CASE Loader!Fail
  <2>1. /\ stage \in {"send", "wait"} /\ stage' = "failed"
        /\ UNCHANGED <<Loader!upload, Loader!link, held, retries>>
    BY <1>8 DEF Loader!Fail
  <2> QED BY <1>0, <1>3, <2>1 DEF Loader!TypeOK, UploadInv, Loader!link, Loader!upload
<1>9. CASE Loader!Execute
  <2>1. /\ stage = "go" /\ writes = <<>> /\ stage' = "executed" /\ input' = 0
        /\ UNCHANGED <<Loader!upload, writes, acks, held, retries>>
    BY <1>9 DEF Loader!Execute
  <2> QED BY <1>0, <1>3, <2>1 DEF Loader!TypeOK, UploadInv, Loader!upload
<1>10. CASE Loader!PblWrite \/ Loader!LoseWrite
  <2>1. /\ writes # <<>> /\ writes' = Tail(writes)
        /\ UNCHANGED <<stage, Loader!upload, input, retries>>
        /\ acks' \in {acks, acks + 1}
        /\ held' = held \/ held' = Loader!Stored(Head(writes))
    BY <1>10 DEF Loader!PblWrite, Loader!LoseWrite
  <2>2. stage \notin {"check", "refused"}
    BY <2>1 DEF BundleInv
  <2>3. Head(writes) \in Writes /\ writes' \in Seq(Writes)
    BY <2>1, LinkHead
  <2>4. held' \in [Loader!Addresses -> 0 .. Len(bundle)]
    <3>1. CASE held' = held
      BY <3>1 DEF Loader!TypeOK
    <3>2. CASE held' = Loader!Stored(Head(writes))
      <4>1. PICK w \in Writes : w = Head(writes)
        BY <2>3
      <4>2. w.image \in 0 .. Len(bundle)
        BY <1>0 DEF Writes
      <4> QED BY <3>2, <4>1, <4>2 DEF Loader!Stored, Loader!TypeOK
    <3> QED BY <2>1, <3>1, <3>2
  <2> QED BY <1>0, <1>3, <2>1, <2>2, <2>3, <2>4 DEF Loader!TypeOK, UploadInv, Loader!upload
<1>11. CASE Loader!Deliver
  <2>1. /\ acks > 0 /\ acks' = acks - 1 /\ input' \in {input, input + 1}
        /\ UNCHANGED <<stage, Loader!upload, writes, held, retries>>
    BY <1>11 DEF Loader!Deliver
  <2>2. stage \notin {"check", "refused"}
    BY <2>1 DEF BundleInv
  <2>3. acks' \in Nat /\ input' \in Nat
    BY <2>1 DEF Loader!TypeOK
  <2> QED BY <1>0, <1>3, <2>1, <2>2, <2>3 DEF Loader!TypeOK, UploadInv, Loader!upload
<1> QED BY <1>1, <1>4, <1>5, <1>6, <1>7, <1>8, <1>9, <1>10, <1>11 DEF Loader!Next

(* The PBL writes where the images are. *)
LEMMA WindowsStep ==
  ASSUME UploadKept, Loader!WindowsKept, Loader!Next
  PROVE  Loader!WindowsKept'
<1> USE DEF UploadKept
<1>1. CASE Loader!PblWrite
  <2>1. writes # <<>> /\ held' = Loader!Stored(Head(writes))
    BY <1>1 DEF Loader!PblWrite
  <2>2. PICK w \in Writes : w = Head(writes)
    BY <2>1, LinkHead
  <2>3. stage \notin {"check", "refused"} /\ Accepted
    BY <2>1 DEF BundleInv
  <2>4. /\ w.image \in DOMAIN bundle /\ w.from \in Nat /\ w.to \in Nat
        /\ w.to =< bundle[w.image].length
    BY DEF Writes
  <2> SUFFICES ASSUME NEW a \in Loader!Addresses, held'[a] # 0
               PROVE  \/ held'[a] = 1 /\ a \in MonitorBase .. MonitorBase + MonitorSize - 1
                      \/ held'[a] > 1 /\ a \in (DirectStart .. DirectEnd - 1)
                                              \cup (ExtraStart .. RamEnd - 1)
    BY DEF Loader!WindowsKept
  <2>5. held'[a] = IF a - bundle[w.image].start \in w.from .. w.to - 1 THEN w.image ELSE held[a]
    BY <2>1, <2>2 DEF Loader!Stored
  <2>6. CASE a - bundle[w.image].start \in w.from .. w.to - 1
    <3>1. a \in Int
      BY LoadersAssumption DEF Loader!Addresses, Loader!LoaderAssumption
    <3>2. bundle[w.image].start =< a /\ a < Loader!End(bundle[w.image])
      <4>1. bundle[w.image].start \in Nat /\ bundle[w.image].length \in Nat
            /\ Loader!End(bundle[w.image]) = bundle[w.image].start + bundle[w.image].length
        BY <2>4, ImageType
      <4> QED BY <2>4, <2>6, <3>1, <4>1
    <3>3. a \in Places(w.image)
      BY <2>3, <2>4, <3>1, <3>2, InPlaces
    <3>4. w.image \in Nat /\ w.image >= 1
      BY <2>4, ImageType
    <3> QED BY <2>5, <2>6, <3>3, <3>4 DEF Places
  <2>7. CASE a - bundle[w.image].start \notin w.from .. w.to - 1
    BY <2>5, <2>7 DEF Loader!WindowsKept
  <2> QED BY <2>6, <2>7
<1>2. CASE ~Loader!PblWrite
  <2>1. held' = held
    BY <1>2 DEF Loader!Next, Loader!Check, Loader!SendChunk, Loader!NextImage,
       Loader!Acknowledged, Loader!Timeout, Loader!Fail, Loader!Execute, Loader!LoseWrite,
       Loader!Deliver
  <2> QED BY <2>1 DEF Loader!WindowsKept
<1> QED BY <1>1, <1>2

(* The count of the lost chunks, when no more are lost, or one more is.     *)
LEMMA NoMoreLost ==
  ASSUME IsFiniteSet(Gaps), Gaps' \subseteq Gaps
  PROVE  /\ IsFiniteSet(Gaps') /\ Cardinality(Gaps) \in Nat /\ Cardinality(Gaps') \in Nat
         /\ Cardinality(Gaps') =< Cardinality(Gaps)
BY FS_Subset, FS_CardinalityType

LEMMA OneMoreLost ==
  ASSUME IsFiniteSet(Gaps), NEW x, Gaps' \subseteq Gaps \cup {x}
  PROVE  /\ IsFiniteSet(Gaps') /\ Cardinality(Gaps) \in Nat /\ Cardinality(Gaps') \in Nat
         /\ Cardinality(Gaps') =< Cardinality(Gaps) + 1
<1> DEFINE S == Gaps \cup {x}
<1>1. /\ IsFiniteSet(S)
      /\ Cardinality(S) = IF x \in Gaps THEN Cardinality(Gaps) ELSE Cardinality(Gaps) + 1
  BY FS_AddElement
<1>2. Gaps' \in SUBSET S
  OBVIOUS
<1>3. IsFiniteSet(Gaps') /\ Cardinality(Gaps') =< Cardinality(S)
  <2> HIDE DEF S
  <2> QED BY <1>1, <1>2, FS_Subset
<1>4. Cardinality(Gaps) \in Nat /\ Cardinality(Gaps') \in Nat
  BY <1>3, FS_CardinalityType
<1> QED BY <1>1, <1>3, <1>4

(* Nothing is said of the writes by a step that leaves them and ram alone.  *)
LEMMA LostSame ==
  ASSUME UNCHANGED <<bundle, writes, held>>, NEW c
  PROVE  (Lost(c) <=> Lost(c)') /\ Loader!Chunks' = Loader!Chunks
BY DEF Lost, Loader!InPlace, Covers, Offsets, Loader!Chunks

(* The chunk that is sent is covered by its write. *)
LEMMA SentCovers ==
  ASSUME UploadKept, written < bundle[image].length, NEW c \in Loader!Chunks, c.image = image,
         written =< c.number * MaxChunk, c.number * MaxChunk < Loader!ChunkEnd,
         NEW w, w = [image |-> image, from |-> written, to |-> Loader!ChunkEnd]
  PROVE  Covers(w, c)
<1>1. PICK n \in Nat : written = n * MaxChunk
  BY ChunkEndIs DEF UploadKept, UploadInv
<1>2. /\ written \in Nat /\ bundle[image].length \in Nat /\ MaxChunk \in Nat
      /\ Loader!ChunkEnd =< written + MaxChunk /\ Loader!ChunkEnd \in Nat
      /\ image \in DOMAIN bundle
  BY ChunkEndType DEF UploadKept
<1>3. PICK d \in Loader!Chunks : d = [image |-> image, number |-> n]
  BY <1>1, <1>2, ChunkIn DEF UploadKept
<1>4. PICK p \in Nat : p = c.number * MaxChunk
  BY ChunkShape DEF UploadKept
<1>5. c = d
  <2>1. c.number * MaxChunk < d.number * MaxChunk + MaxChunk
    BY <1>1, <1>2, <1>3, <1>4
  <2>2. d.number * MaxChunk < c.number * MaxChunk + MaxChunk
    BY <1>1, <1>2, <1>3, <1>4, LoadersAssumption DEF Loader!LoaderAssumption
  <2> QED BY <1>3, <2>1, <2>2, SameChunk DEF UploadKept
<1>6. c.number * MaxChunk = written
  BY <1>1, <1>3, <1>5
<1>7. ASSUME NEW offset \in Offsets(c) PROVE offset \in written .. Loader!ChunkEnd - 1
  <2>1. /\ offset \in Nat /\ offset < bundle[image].length
        /\ written =< offset /\ offset < written + MaxChunk
    BY <1>6, ChunkShape DEF UploadKept
  <2>2. offset < Loader!ChunkEnd
    BY <1>2, <2>1, ChunkEndIs DEF UploadKept
  <2> QED BY <1>2, <2>1, <2>2
<1> QED BY <1>7 DEF Covers

(* Steps that leave the link and ram alone lose nothing. *)
LEMMA HostSteps ==
  ASSUME LoaderIInv, stage # "failed", stage' # "failed",
         Loader!Check \/ Loader!NextImage \/ Loader!Acknowledged \/ Loader!Timeout
  PROVE  Accounted'
<1> USE DEF LoaderIInv
<1>0. UNCHANGED <<bundle, writes, acks, held>>
  BY DEF Loader!Check, Loader!NextImage, Loader!Acknowledged, Loader!Timeout, Loader!link
<1>1. Loader!Chunks' = Loader!Chunks /\ Len(writes) \in Nat
  BY <1>0, LenProperties DEF Loader!Chunks, UploadInv
<1>2. /\ image \in DOMAIN bundle /\ written \in Nat /\ bundle[image].length \in Nat
      /\ Loader!ChunkEnd \in Nat /\ written =< Loader!ChunkEnd
      /\ DOMAIN bundle = 1 .. Len(bundle) /\ Len(bundle) \in Nat
  BY ChunkEndType, ImageType
<1>3. /\ acks \in Nat /\ input \in Nat /\ retries \in Nat
  BY DEF Loader!TypeOK
<1>4. ASSUME NEW c \in Loader!Chunks, Begun(c)' PROVE Begun(c)
  <2>1. PICK p \in Nat : p = c.number * MaxChunk /\ p < bundle[c.image].length
    BY ChunkShape
  <2>2. c.image \in 1 .. Len(bundle)
    BY <1>2, ChunkShape
  <2>3. CASE Loader!Check
    <3>1. stage = "check" /\ stage' # "wait" /\ UNCHANGED <<image, written>>
      BY <2>3 DEF Loader!Check, Loader!upload
    <3> QED BY <1>4, <3>1 DEF Begun, Reached
  <2>4. CASE Loader!NextImage
    <3>1. stage = "send" /\ written = bundle[image].length /\ stage' # "wait"
      BY <2>4 DEF Loader!NextImage
    <3>2. (image' = image + 1 /\ written' = 0) \/ (image' = image /\ written' = written)
      BY <2>4 DEF Loader!NextImage
    <3>3. c.image < image' \/ (c.image = image' /\ p < written')
      BY <1>4, <2>1, <3>1 DEF Begun, Reached
    <3>4. c.image < image \/ (c.image = image /\ p < written)
      BY <1>2, <2>1, <2>2, <3>1, <3>2, <3>3
    <3> QED BY <2>1, <3>1, <3>4 DEF Begun, Reached
  <2>5. CASE Loader!Acknowledged
    <3>1. stage = "wait" /\ stage' = "send" /\ written' = Loader!ChunkEnd /\ image' = image
      BY <2>5 DEF Loader!Acknowledged
    <3> QED BY <1>4, <3>1 DEF Begun, Reached
  <2>6. CASE Loader!Timeout
    <3>1. stage = "wait" /\ stage' = "send" /\ written' = written /\ image' = image
      BY <2>6 DEF Loader!Timeout
    <3>2. c.image < image \/ (c.image = image /\ p < written)
      BY <1>4, <2>1, <3>1 DEF Begun, Reached
    <3>3. c.image < image \/ (c.image = image /\ p < Loader!ChunkEnd)
      BY <1>2, <2>1, <3>2
    <3> QED BY <2>1, <3>1, <3>3 DEF Begun, Reached
  <2> QED BY <2>3, <2>4, <2>5, <2>6
<1>5. Gaps' \subseteq Gaps
  BY <1>0, <1>1, <1>4, LostSame DEF Gaps
<1>6. PICK g \in Nat, g1 \in Nat :
        g = Cardinality(Gaps) /\ g1 = Cardinality(Gaps') /\ g1 =< g /\ IsFiniteSet(Gaps')
  BY <1>5, NoMoreLost DEF Accounted
<1>7. g + Len(writes) + acks + input =< retries + Waits
  BY <1>6 DEF Accounted
<1>8. input' \in Nat /\ retries' \in Nat /\ input' - Waits' - retries' =< input - Waits - retries
  <2>1. CASE Loader!Check \/ Loader!NextImage
    BY <1>3, <2>1 DEF Loader!Check, Loader!NextImage, Loader!link, Waits
  <2>2. CASE Loader!Acknowledged
    BY <1>3, <2>2 DEF Loader!Acknowledged, Waits
  <2>3. CASE Loader!Timeout
    BY <1>3, <2>3 DEF Loader!Timeout, Loader!link, Waits
  <2> QED BY <2>1, <2>2, <2>3
<1>9. Waits \in Nat /\ Waits' \in Nat
  BY DEF Waits
<1>10. g1 + Len(writes) + acks + input' =< retries' + Waits'
  <2>1. PICK t \in Nat, h \in Nat, b \in Nat, b1 \in Nat, r \in Nat, rr \in Nat,
             w \in Nat, w1 \in Nat :
          /\ t = Len(writes) /\ h = acks /\ b = input /\ b1 = input'
          /\ r = retries /\ rr = retries' /\ w = Waits /\ w1 = Waits'
    BY <1>1, <1>3, <1>8, <1>9
  <2>2. g + t + h + b =< r + w /\ b1 - w1 - rr =< b - w - r
    BY <1>7, <1>8, <2>1
  <2>3. g1 + t + h + b1 =< rr + w1
    BY <1>6, <2>2
  <2> QED BY <2>1, <2>3
<1> QED BY <1>0, <1>6, <1>10 DEF Accounted

(* A chunk that is sent is on the link. *)
LEMMA SendStep ==
  ASSUME LoaderIInv, stage # "failed", Loader!SendChunk
  PROVE  Accounted'
<1> USE DEF LoaderIInv
<1> DEFINE sent == [image |-> image, from |-> written, to |-> Loader!ChunkEnd]
<1>0. /\ stage = "send" /\ written < bundle[image].length /\ stage' = "wait" /\ input' = 0
      /\ writes' = Append(writes, sent)
      /\ UNCHANGED <<bundle, image, written, acks, held, retries>>
  BY DEF Loader!SendChunk, Loader!upload
<1>1. /\ writes \in Seq(Writes) /\ sent \in Writes /\ Len(writes) \in Nat
  <2>1. writes \in Seq(Writes)
    BY DEF UploadInv
  <2> QED BY <2>1, ChunkEndType, LenProperties DEF Writes
<1>2. /\ Len(writes') = Len(writes) + 1
      /\ \A i \in 1 .. Len(writes) : writes'[i] = writes[i]
      /\ writes'[Len(writes) + 1] = sent
  <2> HIDE DEF sent
  <2> QED BY <1>0, <1>1, AppendProperties
<1>3. Loader!ChunkEnd' = Loader!ChunkEnd /\ Loader!Chunks' = Loader!Chunks
  BY <1>0 DEF Loader!ChunkEnd, Loader!Chunks
<1>4. ASSUME NEW c \in Loader!Chunks, Begun(c)', Lost(c)' PROVE Begun(c) /\ Lost(c)
  <2>1. \A w : Covers(w, c)' <=> Covers(w, c)
    BY <1>0 DEF Covers, Offsets
  <2>2. Loader!InPlace(c)' <=> Loader!InPlace(c)
    BY <1>0 DEF Loader!InPlace
  <2>3. \A i \in 1 .. Len(writes) + 1 : ~Covers(writes'[i], c)
    BY <1>2, <1>4, <2>1 DEF Lost
  <2>4. ~Covers(sent, c)
    <3>1. Len(writes) + 1 \in 1 .. Len(writes) + 1
      BY <1>1
    <3> QED BY <1>2, <2>3, <3>1
  <2>5. Lost(c)
    <3>1. \A i \in 1 .. Len(writes) : i \in 1 .. Len(writes) + 1
      BY <1>1
    <3> QED BY <1>2, <1>4, <2>2, <2>3, <3>1 DEF Lost
  <2>6. c.image < image \/ (c.image = image /\ c.number * MaxChunk < Loader!ChunkEnd)
    BY <1>0, <1>3, <1>4 DEF Begun, Reached
  <2>7. ~(/\ c.image = image /\ written =< c.number * MaxChunk
            /\ c.number * MaxChunk < Loader!ChunkEnd)
    BY <1>0, <2>4, SentCovers DEF UploadKept
  <2>8. written \in Nat /\ c.number * MaxChunk \in Nat
    BY ChunkEndType, ChunkShape
  <2>9. Begun(c)
    BY <1>0, <2>6, <2>7, <2>8 DEF Begun, Reached
  <2> QED BY <2>5, <2>9
<1>5. Gaps' \subseteq Gaps
  BY <1>3, <1>4 DEF Gaps
<1>6. PICK g \in Nat, g1 \in Nat :
        g = Cardinality(Gaps) /\ g1 = Cardinality(Gaps') /\ g1 =< g /\ IsFiniteSet(Gaps')
  BY <1>5, NoMoreLost DEF Accounted
<1>7. g + Len(writes) + acks + input =< retries + 0
  BY <1>0, <1>6 DEF Accounted, Waits
<1>8. acks \in Nat /\ input \in Nat /\ retries \in Nat
  BY DEF Loader!TypeOK
<1>9. g1 + (Len(writes) + 1) + acks + 0 =< retries + 1
  BY <1>1, <1>6, <1>7, <1>8
<1> QED BY <1>0, <1>2, <1>6, <1>9 DEF Accounted, Waits

(* The PBL puts a chunk in place; the link may lose one, or cut an ack.     *)
LEMMA LinkSteps ==
  ASSUME LoaderIInv, stage # "failed", Loader!PblWrite \/ Loader!LoseWrite
  PROVE  Accounted'
<1> USE DEF LoaderIInv
<1>0. /\ writes # <<>> /\ writes' = Tail(writes)
      /\ UNCHANGED <<stage, bundle, image, written, input, retries>>
      /\ \/ Loader!PblWrite /\ held' = Loader!Stored(Head(writes)) /\ acks' = acks + 1
         \/ Loader!LoseWrite /\ held' = held /\ acks' = acks
  BY DEF Loader!PblWrite, Loader!LoseWrite, Loader!upload
<1>1. stage \notin {"check", "refused"} /\ Accepted
  BY <1>0 DEF BundleInv
<1>2. PICK t \in Nat : t = Len(writes) /\ t >= 1 /\ Len(writes') = t - 1
  BY <1>0, LinkHead
<1>3. PICK w \in Writes : w = Head(writes) /\ w = writes[1]
  BY <1>0, LinkHead
<1>4. \A i \in 1 .. t - 1 : writes'[i] = writes[i + 1]
  BY <1>0, <1>2, LinkHead
<1>5. Loader!Chunks' = Loader!Chunks /\ \A c \in Loader!Chunks : Begun(c)' <=> Begun(c)
  BY <1>0 DEF Loader!Chunks, Begun, Reached, Loader!ChunkEnd
<1>6. ASSUME NEW c \in Loader!Chunks, Lost(c)', ~Lost(c) PROVE Loader!InPlace(c) \/ Covers(w, c)
  <2> SUFFICES ASSUME ~Loader!InPlace(c) PROVE Covers(w, c)
    OBVIOUS
  <2>1. PICK i \in 1 .. t : Covers(writes[i], c)
    BY <1>2, <1>6 DEF Lost
  <2>2. CASE i = 1
    BY <1>3, <2>1, <2>2
  <2>3. CASE i # 1
    <3>1. i - 1 \in 1 .. t - 1 /\ (i - 1) + 1 = i
      BY <2>3
    <3>2. \A u : Covers(u, c)' <=> Covers(u, c)
      BY <1>0 DEF Covers, Offsets
    <3>3. \A j \in 1 .. t - 1 : ~Covers(writes'[j], c)
      <4>1. \A j \in 1 .. Len(writes') : ~(Covers(writes[j], c)')
        BY <1>6 DEF Lost
      <4>2. \A j \in 1 .. Len(writes') : ~Covers(writes'[j], c)
        BY <1>0, <4>1 DEF Covers, Offsets
      <4> QED BY <1>2, <4>2
    <3>4. writes'[i - 1] = writes[i]
      BY <1>4, <3>1
    <3> QED BY <2>1, <3>1, <3>3, <3>4
  <2> QED BY <2>2, <2>3
<1>7. acks \in Nat /\ input \in Nat /\ retries \in Nat /\ Waits \in Nat /\ Waits' = Waits
  BY <1>0 DEF Loader!TypeOK, Waits
<1>8. IsFiniteSet(Gaps) /\ Cardinality(Gaps) + t + acks + input =< retries + Waits
  BY <1>2 DEF Accounted
<1>9. CASE Loader!PblWrite
  <2>1. held' = Loader!Stored(w) /\ bundle' = bundle /\ acks' = acks + 1
    BY <1>0, <1>3, <1>9 DEF Loader!PblWrite
  <2>2. ASSUME NEW c \in Loader!Chunks, Lost(c)' PROVE Lost(c)
    <3> SUFFICES ASSUME ~Lost(c) PROVE FALSE
      OBVIOUS
    <3>1. Loader!InPlace(c)'
      BY <1>1, <1>6, <2>1, <2>2, StoredInPlace
    <3> QED BY <2>2, <3>1 DEF Lost
  <2>3. Gaps' \subseteq Gaps
    BY <1>5, <2>2 DEF Gaps
  <2>4. PICK g \in Nat, g1 \in Nat :
          g = Cardinality(Gaps) /\ g1 = Cardinality(Gaps') /\ g1 =< g /\ IsFiniteSet(Gaps')
    BY <1>8, <2>3, NoMoreLost
  <2>5. g1 + (t - 1) + (acks + 1) + input =< retries + Waits
    <3>1. g + t + acks + input =< retries + Waits
      BY <1>8, <2>4
    <3>2. g1 =< g
      BY <2>4
    <3> QED BY <1>2, <1>7, <3>1, <3>2
  <2> QED BY <1>0, <1>2, <1>7, <2>1, <2>4, <2>5 DEF Accounted
<1>10. CASE Loader!LoseWrite
  <2>1. held' = held /\ acks' = acks
    BY <1>10 DEF Loader!LoseWrite
  <2>2. ASSUME NEW c \in Loader!Chunks, Lost(c)', ~Lost(c) PROVE Covers(w, c)
    <3>1. ~Loader!InPlace(c)
      BY <1>0, <2>1, <2>2 DEF Lost, Loader!InPlace
    <3> QED BY <1>6, <2>2, <3>1
  <2>3. PICK x : Gaps' \subseteq Gaps \cup {x}
    <3>1. CASE Gaps' \subseteq Gaps
      BY <3>1
    <3>2. CASE ~(Gaps' \subseteq Gaps)
      <4>1. PICK x \in Gaps' : x \notin Gaps
        BY <3>2
      <4>2. x \in Loader!Chunks /\ Covers(w, x)
        BY <1>5, <2>2, <4>1 DEF Gaps
      <4>3. ASSUME NEW c \in Gaps', c \notin Gaps PROVE c = x
        <5>1. c \in Loader!Chunks /\ Covers(w, c)
          BY <1>5, <2>2, <4>3 DEF Gaps
        <5> QED BY <4>2, <5>1, CoversOne
      <4> QED BY <4>3
    <3> QED BY <3>1, <3>2
  <2>4. PICK g \in Nat, g1 \in Nat :
          g = Cardinality(Gaps) /\ g1 = Cardinality(Gaps') /\ g1 =< g + 1 /\ IsFiniteSet(Gaps')
    BY <1>8, <2>3, OneMoreLost
  <2>5. g1 + (t - 1) + acks + input =< retries + Waits
    <3>1. g + t + acks + input =< retries + Waits
      BY <1>8, <2>4
    <3>2. g1 =< g + 1
      BY <2>4
    <3> QED BY <1>2, <1>7, <3>1, <3>2
  <2> QED BY <1>0, <1>2, <1>7, <2>1, <2>4, <2>5 DEF Accounted
<1> QED BY <1>0, <1>9, <1>10

(* A cut ack, and the discarded acks, lose nothing.                         *)
LEMMA RestSteps ==
  ASSUME LoaderIInv, stage # "failed", Loader!Deliver \/ Loader!Execute \/ UNCHANGED Loader!vars
  PROVE  Accounted'
<1> USE DEF LoaderIInv
<1>0. /\ UNCHANGED <<bundle, image, written, writes, held, retries>>
      /\ stage' = "wait" <=> stage = "wait"
      /\ \/ acks' = acks /\ input' = 0
         \/ acks > 0 /\ acks' = acks - 1 /\ input' \in {input, input + 1}
         \/ acks' = acks /\ input' = input
  BY DEF Loader!Deliver, Loader!Execute, Loader!vars, Loader!upload, Loader!link
<1>1. Gaps' = Gaps
  <2>1. Loader!Chunks' = Loader!Chunks
    BY <1>0 DEF Loader!Chunks
  <2>2. \A c : Begun(c)' <=> Begun(c)
    BY <1>0 DEF Begun, Reached, Loader!ChunkEnd
  <2>3. \A c : Lost(c)' <=> Lost(c)
    BY <1>0, LostSame
  <2> QED BY <2>1, <2>2, <2>3 DEF Gaps
<1>2. IsFiniteSet(Gaps) /\ Cardinality(Gaps) \in Nat
  BY FS_CardinalityType DEF Accounted
<1>3. PICK t \in Nat : t = Len(writes)
  BY LenProperties DEF UploadInv
<1>4. acks \in Nat /\ input \in Nat /\ retries \in Nat /\ Waits \in Nat /\ Waits' = Waits
  BY <1>0 DEF Loader!TypeOK, Waits
<1>5. Cardinality(Gaps) + t + acks + input =< retries + Waits
  BY <1>3 DEF Accounted
<1>6. Cardinality(Gaps) + t + acks' + input' =< retries + Waits
  BY <1>0, <1>2, <1>4, <1>5
<1> QED BY <1>0, <1>1, <1>2, <1>3, <1>4, <1>6 DEF Accounted

(* Every step keeps the invariant.                                          *)
LEMMA LoaderStepKept == LoaderIInv /\ (Loader!Next \/ UNCHANGED Loader!vars) => LoaderIInv'
<1> SUFFICES ASSUME LoaderIInv, Loader!Next \/ UNCHANGED Loader!vars PROVE LoaderIInv'
  OBVIOUS
<1>1. CASE Loader!Next
  <2>1. UploadKept' /\ Loader!WindowsKept'
    BY <1>1, UploadSteps, WindowsStep DEF LoaderIInv, UploadKept
  <2>2. ASSUME stage' # "failed" PROVE Accounted'
    <3>1. stage # "failed"
      BY <1>1, <2>2 DEF Loader!Next, Loader!Check, Loader!SendChunk, Loader!NextImage,
         Loader!Acknowledged, Loader!Timeout, Loader!Fail, Loader!Execute, Loader!PblWrite,
         Loader!LoseWrite, Loader!Deliver
    <3>2. ~Loader!Fail
      BY <2>2 DEF Loader!Fail
    <3> QED BY <1>1, <2>2, <3>1, <3>2, HostSteps, SendStep, LinkSteps, RestSteps DEF Loader!Next
  <2> QED BY <2>1, <2>2 DEF LoaderIInv, UploadKept
<1>2. CASE UNCHANGED Loader!vars
  <2>1. Loader!TypeOK' /\ BundleInv' /\ UploadInv' /\ Loader!WindowsKept' /\ stage' = stage
    BY <1>2 DEF LoaderIInv, Loader!vars, Loader!upload, Loader!link, Loader!TypeOK, BundleInv,
       UploadInv, Writes, Loader!WindowsKept, Accepted, Loader!MonitorFits, Loader!BundleAccepted,
       Loader!Stage2Accepted, Loader!RangeIsAllowed, Loader!Overlap, Loader!Neighbours,
       Loader!Before
  <2> QED BY <1>2, <2>1, RestSteps DEF LoaderIInv
<1> QED BY <1>1, <1>2

(* Once all is begun, what is not in place is lost, each by a timeout.      *)
LEMMA LoaderDone == LoaderIInv => Loader!BundleLoaded
<1> SUFFICES ASSUME LoaderIInv, stage = "executed"
             PROVE  Cardinality({c \in Loader!Chunks : ~Loader!InPlace(c)}) =< retries
  <2>1. \A S : Loader!Cardinality(S) = Cardinality(S)
    BY DEF Loader!Cardinality, Cardinality
  <2> QED BY <2>1 DEF Loader!BundleLoaded
<1> USE DEF LoaderIInv
<1>1. /\ image = Len(bundle) /\ written = bundle[image].length /\ writes = <<>>
  BY DEF UploadInv
<1>2. ASSUME NEW c \in Loader!Chunks PROVE Begun(c) /\ (Lost(c) <=> ~Loader!InPlace(c))
  <2>1. c.image \in 1 .. Len(bundle) /\ c.number * MaxChunk < bundle[c.image].length
        /\ Len(bundle) \in Nat
    BY ChunkShape, ImageType
  <2>2. Begun(c)
    BY <1>1, <2>1 DEF Begun, Reached
  <2>3. 1 .. Len(writes) = {}
    BY <1>1
  <2> QED BY <2>2, <2>3 DEF Lost
<1>3. {c \in Loader!Chunks : ~Loader!InPlace(c)} = Gaps
  BY <1>2 DEF Gaps
<1>4. /\ Cardinality(Gaps) \in Nat /\ acks \in Nat /\ input \in Nat /\ retries \in Nat
      /\ Len(writes) = 0
      /\ Cardinality(Gaps) + Len(writes) + acks + input =< retries + 0
  BY <1>1, FS_CardinalityType DEF Accounted, Loader!TypeOK, Waits
<1>5. Cardinality(Gaps) =< retries
  BY <1>4
<1> QED BY <1>3, <1>5
(* None of the loader's steps leaves the invariant, and the other ends' do  *)
(* not concern it.                                                          *)
LoaderKept == end = "loader" => LoaderIInv

LEMMA MCLoaderStep == LoaderKept /\ [MCNext]_MCVars => LoaderKept'
<1> SUFFICES ASSUME LoaderKept, [MCNext]_MCVars, end' = "loader" PROVE LoaderIInv'
  BY DEF LoaderKept
<1>1. end = "loader" /\ (Loader!Next \/ UNCHANGED Loader!vars)
  BY DEF MCNext, MCVars, Monitor, Runs, Loads, loaderVars, Loader!Next, Loader!vars,
         Loader!upload, Loader!link
<1> QED BY <1>1, LoaderStepKept DEF LoaderKept

(* Whatever the images, the chunk size and the number of attempts: images   *)
(* that were let through lie apart in their windows, and the chunks that    *)
(* are lost are no more than the timeouts.                                  *)
THEOREM SpecLoaderIInv == MCSpec => []LoaderKept
<1>1. MCInit => LoaderKept
  BY LoaderInitKept DEF MCInit, LoaderKept, LoaderStill
<1> QED BY <1>1, MCLoaderStep, PTL DEF MCSpec

(* The loaders change nothing outside the monitor's place and the two       *)
(* windows, and start the monitor with each image in place, but for a chunk *)
(* for each "timeout retry" (k3765_ram_bundle_load.py, k3765_stage0_load.py). *)
THEOREM SpecLoaderInv == MCSpec => []LoaderInv
<1>1. LoaderKept => LoaderInv
  BY LoaderDone DEF LoaderKept, LoaderInv, LoaderIInv
<1> QED BY <1>1, SpecLoaderIInv, PTL
=============================================================================
