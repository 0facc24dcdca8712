--------------------------- MODULE SdccHostProofs ---------------------------
(***************************************************************************)
(* Proofs about the microSD host, for every block length, FIFO depth,      *)
(* timeout and list of requests: what the core is told is what happened, a *)
(* command is never completed by an earlier one's answer, the data path is *)
(* quiet between requests, and a completion is never cleared unread.       *)
(***************************************************************************)
EXTENDS SdccHost, SequenceTheorems, TLAPS

-----------------------------------------------------------------------------
(* The invariant *)

Word == (0 .. 2) \X (1 .. Words)
InCommand == {"poll", "clock", "clear"}
InTransfer == {"transfer", "loop", "word", "endPoll", "endClock", "finish"}

(* When the data path runs: for a read since before its command, for a      *)
(* write since after it; between the blocks it holds nothing.               *)
PathInv ==
  /\ pc \in InTransfer => dpsm = mrq.dir /\ mrq.dir # "none"
  /\ pc \in InCommand =>
       dpsm = IF cmd = "cmd" /\ mrq.dir = "read" THEN "read" ELSE "off"
  /\ pc \notin InTransfer \cup InCommand => dpsm = "off"
  /\ pc = "write" => mrq.dir = "write"
  /\ dpsm = "off" => fifo = <<>> /\ moved = <<>>

(* While the data path runs, its words are this request's, in order: those  *)
(* the FIFO holds follow those that left it.                                *)
FifoInv ==
  /\ fifo \in Seq(Word) /\ moved \in Seq(Word)
  /\ \A i \in 1 .. Len(moved) : moved[i] = <<serial, i>>
  /\ dpsm # "off" => Len(moved) =< mrq.words
  /\ dpsm = "read" =>
       /\ Len(moved) = transferred + Len(fifo)
       /\ \A i \in 1 .. Len(fifo) : fifo[i] = <<serial, transferred + i>>
  /\ dpsm = "write" =>
       /\ transferred = Len(moved) + Len(fifo)
       /\ \A i \in 1 .. Len(fifo) : fifo[i] = <<serial, Len(moved) + i>>

Whole == [i \in 1 .. mrq.words |-> <<serial, i>>]

(* What a transfer that goes well has done by then. *)
TransferInv ==
  /\ pc \in {"loop", "word", "endPoll", "endClock"} => error = "none"
  /\ pc = "word" => Remaining
  /\ pc \in {"endPoll", "endClock"} => transferred = mrq.words
  /\ pc = "finish" /\ error = "none" => transferred = mrq.words
  /\ pc \in InTransfer /\ mrq.dir = "read" =>
       \A i \in 1 .. transferred : bounce[i] = <<serial, i>>
  /\ pc \in InTransfer \ {"transfer"} /\ mrq.dir = "write" =>
       bounce = Block(serial, mrq.words)
  /\ dpsm = "write" /\ "DATA_END" \in status => stored = Whole
  /\ pc = "finish" /\ error = "none" /\ mrq.dir = "write" => stored = Whole

(* Before its last step a request has reported nothing and left the pages   *)
(* as they were; after it, it has reported what happened.                   *)
Before == pc \in {"sbc", "main", "write", "transfer"} \/ (pc \in InCommand /\ cmd # "stop")
After == pc \in {"stop", "done"} \/ (pc \in InCommand /\ cmd = "stop")
Report ==
  /\ result.bytes = IF Succeeded THEN mrq.words ELSE 0
  /\ mrq.dir = "read" => memory = Block(serial, IF Succeeded THEN mrq.words ELSE 0)
  /\ mrq.dir = "write" /\ Succeeded => stored = Whole
ReportInv ==
  /\ Before \/ pc = "idle" => transferred = 0
  /\ Before \/ pc \in InTransfer =>
       /\ result = NoResult
       /\ mrq.dir = "read" => memory = Blank
       /\ mrq.dir = "write" => memory = Block(serial, mrq.words)
  /\ After => Report

(* A command waits with no answer but its own. *)
AnswerInv ==
  /\ pc \in {"poll", "clock"} /\ cpsm => status \cap CmdBits = {}
  /\ OwnAnswer

SdccIInv ==
  /\ TypeOK /\ ClockCeiling
  /\ PathInv /\ FifoInv /\ TransferInv /\ ReportInv /\ AnswerInv

(* Names for the sets of TypeOK: the steps of a request, what it reports    *)
(* and what a page or a buffer holds.                                       *)
Steps == Waiting \cup {"idle", "done", "sbc", "main", "stop", "write", "transfer",
                       "clear", "finish"}
Results == [sbc : Errors, cmd : Errors, stop : Errors, data : Errors, bytes : 0 .. Words]
Pages == [1 .. Words -> Word]

-----------------------------------------------------------------------------
(* Facts about time, types and blocks *)

(* The smaller of two numbers. *)
LEMMA MinOfTwo ==
  ASSUME NEW a \in Int, NEW b \in Int
  PROVE  Min({a, b}) = IF a <= b THEN a ELSE b
PROOF
<1> DEFINE P(x) == x \in {a, b} /\ \A y \in {a, b} : x <= y
           m == IF a <= b THEN a ELSE b
<1>1. P(m)
  OBVIOUS
<1>2. \A x : P(x) => x = m
  OBVIOUS
<1>3. Min({a, b}) = CHOOSE x : P(x)
  BY DEF Min
<1> HIDE DEF P, m
<1>4. P(CHOOSE x : P(x))
  BY <1>1
<1> QED
  BY <1>2, <1>3, <1>4 DEF m

(* The clocks the core sets are reached and never exceeded. *)
LEMMA ClockOfSetting ==
  ASSUME NEW f \in {0, IdentClock, TransferClock}
  PROVE  CardClock(f) \in 0 .. Mclk /\ CardClock(f) <= f
PROOF
<1>1. CASE f = 0
  BY <1>1 DEF CardClock, Mclk
<1>2. CASE f = IdentClock
  <2>1. Divisor(f) = 19
    BY <1>2, MinOfTwo DEF Divisor, Mclk, IdentClock
  <2>2. f # 0 /\ ~(f >= Mclk) /\ f = 400
    BY <1>2 DEF Mclk, IdentClock
  <2>3. CardClock(f) = 16000 \div (2 * (19 + 1))
    BY <2>1, <2>2 DEF CardClock, Mclk
  <2>4. CardClock(f) = 400
    BY <2>3
  <2>5. CardClock(f) \in 0 .. Mclk
    BY <2>4 DEF Mclk
  <2>6. CardClock(f) <= f
    BY <2>2, <2>4
  <2> QED
    BY <2>5, <2>6
<1>3. CASE f = TransferClock
  <2>1. Divisor(f) = 1
    BY <1>3, MinOfTwo DEF Divisor, Mclk, TransferClock
  <2>2. f # 0 /\ ~(f >= Mclk) /\ f = 4000
    BY <1>3 DEF Mclk, TransferClock
  <2>3. CardClock(f) = 16000 \div (2 * (1 + 1))
    BY <2>1, <2>2 DEF CardClock, Mclk
  <2>4. CardClock(f) = 4000
    BY <2>3
  <2>5. CardClock(f) \in 0 .. Mclk
    BY <2>4 DEF Mclk
  <2>6. CardClock(f) <= f
    BY <2>2, <2>4
  <2> QED
    BY <2>5, <2>6
<1> QED
  BY <1>1, <1>2, <1>3

(* A deadline is a value of jiffies. *)
LEMMA DeadlineType ==
  ASSUME jiffies \in 0 .. Jiffies - 1, NEW ticks \in Nat
  PROVE  In(ticks) \in 0 .. Jiffies - 1
PROOF
<1>1. Jiffies \in Nat /\ Jiffies > 0
  BY SdccAssumption
<1> QED
  BY <1>1 DEF In

(* A page no request has filled is words of memory. *)
LEMMA BlankType == Blank \in [1 .. Words -> Word]
PROOF
  BY SdccAssumption DEF Blank, Word

(* A block is words of memory; with no word of a request it is the blank    *)
(* page.                                                                    *)
LEMMA BlockType ==
  ASSUME NEW n \in {0, 1}, NEW k \in Int
  PROVE  Block(n, k) \in [1 .. Words -> Word] /\ Block(n, 0) = Blank
PROOF
  BY SdccAssumption DEF Block, Blank, Word

(* The requests the core makes are requests. *)
LEMMA RequestType ==
  ASSUME NEW r \in Requests
  PROVE  r \in Request /\ r.words \in 1 .. Words
PROOF
<1>1. r \in Request
  BY SdccAssumption
<1> QED
  BY <1>1 DEF Request

(* The errors computed from status bits are errors. *)
LEMMA ErrorType ==
  ASSUME NEW bits
  PROVE  CommandError(bits) \in Errors /\ DataError(bits) \in Errors
PROOF
  BY DEF CommandError, DataError, Errors

(* The values between two requests. *)
LEMMA NoRequestType ==
  /\ NoRequest \in Request /\ NoRequest.words = 1
  /\ NoResult \in Results
PROOF
  BY SdccAssumption DEF NoRequest, NoResult, Request, Results, Errors

(* What every state says of its request and its words. *)
LEMMA Types ==
  ASSUME SdccIInv
  PROVE  /\ mrq.dir \in {"none", "read", "write"} /\ mrq.words \in 1 .. Words
         /\ transferred \in 0 .. mrq.words /\ serial \in {0, 1}
         /\ fifo \in Seq(Word) /\ moved \in Seq(Word)
         /\ Len(fifo) \in Nat /\ Len(moved) \in Nat
         /\ Block(serial, 0) = Blank
PROOF
<1>1. mrq.dir \in {"none", "read", "write"} /\ mrq.words \in 1 .. Words
  BY DEF SdccIInv, TypeOK, Request
<1>2. transferred \in 0 .. mrq.words /\ serial \in {0, 1}
  BY DEF SdccIInv, TypeOK
<1>3. fifo \in Seq(Word) /\ moved \in Seq(Word)
  BY DEF SdccIInv, FifoInv
<1> QED
  BY <1>1, <1>2, <1>3, LenProperties, BlockType

(* An empty FIFO, and no word moved. *)
LEMMA EmptyFifo ==
  /\ <<>> \in Seq(Word) /\ Len(<<>>) = 0
  /\ Len(<<>>) <= FifoDepth /\ Len(<<>>) <= Words
PROOF
  BY EmptySeq, SdccAssumption

-----------------------------------------------------------------------------
(* The first state and each step *)

(* The quiet controller that probe leaves behind. *)
LEMMA InitStep == Init => SdccIInv
PROOF
<1> SUFFICES ASSUME Init PROVE SdccIInv
  OBVIOUS
<1> USE SdccAssumption DEF Init
<1>1. TypeOK
  <2>1. Blank \in [1 .. Words -> (0 .. 2) \X (1 .. Words)]
    BY BlankType DEF Word
  <2>2. NoRequest \in Request /\ NoRequest.words = 1
    BY DEF NoRequest, Request
  <2>3. NoResult \in [sbc : Errors, cmd : Errors, stop : Errors, data : Errors, bytes : 0 .. Words]
    BY DEF NoResult, Errors
  <2>4. jiffies \in 0 .. Jiffies - 1 /\ deadline \in 0 .. Jiffies - 1
        /\ transferred \in 0 .. mrq.words
    BY <2>2
  <2>5. ios \in [asked : Nat, actual : 0 .. Mclk, power : {"OFF", "UP", "ON"}]
    BY DEF Mclk
  <2>6. Len(fifo) <= FifoDepth /\ Len(moved) <= Words
    BY EmptySeq
  <2>7. bounce \in [1 .. Words -> (0 .. 2) \X (1 .. Words)]
        /\ memory \in [1 .. Words -> (0 .. 2) \X (1 .. Words)]
    BY <2>1
  <2>8. pc \in Waiting \cup {"idle", "done", "sbc", "main", "stop", "write", "transfer",
                              "clear", "finish"}
    OBVIOUS
  <2>9. /\ error \in Errors
        /\ result \in [sbc : Errors, cmd : Errors, stop : Errors, data : Errors,
                       bytes : 0 .. Words]
    BY <2>3 DEF Errors
  <2> QED
    BY <2>2, <2>4, <2>5, <2>6, <2>7, <2>8, <2>9 DEF TypeOK
<1>2. ClockCeiling
  BY DEF ClockCeiling
<1>3. PathInv
  BY DEF PathInv, InTransfer, InCommand
<1>4. FifoInv
  BY EmptySeq DEF FifoInv
<1>5. TransferInv
  BY DEF TransferInv, InTransfer
<1>6. ReportInv
  BY DEF ReportInv, Before, After, InTransfer, InCommand
<1>7. AnswerInv
  BY DEF AnswerInv, OwnAnswer
<1> QED
  BY <1>1, <1>2, <1>3, <1>4, <1>5, <1>6, <1>7 DEF SdccIInv

(* A request comes in. *)
LEMMA StartRequestStep ==
  ASSUME SdccIInv, StartRequest
  PROVE  SdccIInv'
PROOF
<1> USE SdccAssumption DEF StartRequest, locals, datapath
<1>1. TypeOK'
  <2>1. PICK r \in Requests :
          /\ mrq' = r
          /\ memory' = IF r.dir = "write" THEN Block(serial', r.words) ELSE Blank
    OBVIOUS
  <2>2. r \in Request /\ r.words \in 1 .. Words /\ serial' \in {0, 1}
    BY <2>1, RequestType DEF SdccIInv, TypeOK
  <2>3. memory' \in [1 .. Words -> (0 .. 2) \X (1 .. Words)]
    <3>1. Block(serial', r.words) \in [1 .. Words -> Word]
      BY <2>2, BlockType
    <3> QED
      BY <2>1, <3>1, BlankType DEF Word
  <2>4. NoResult \in [sbc : Errors, cmd : Errors, stop : Errors, data : Errors, bytes : 0 .. Words]
    BY DEF NoResult, Errors
  <2>5. transferred' \in 0 .. mrq'.words
    BY <2>1, <2>2 DEF SdccIInv, ReportInv
  <2> QED
    BY <2>1, <2>2, <2>3, <2>4, <2>5 DEF SdccIInv, TypeOK, Waiting
<1>2. ClockCeiling'
  BY DEF SdccIInv, ClockCeiling
<1>3. PathInv'
  BY DEF SdccIInv, PathInv, InTransfer, InCommand
<1>4. FifoInv'
  BY DEF SdccIInv, FifoInv, PathInv, InTransfer, InCommand
<1>5. TransferInv'
  BY DEF SdccIInv, TransferInv, PathInv, InTransfer, InCommand
<1>6. ReportInv'
  BY BlockType DEF SdccIInv, ReportInv, Before, After, InTransfer, InCommand
<1>7. AnswerInv'
  BY DEF SdccIInv, AnswerInv, OwnAnswer
<1> QED
  BY <1>1, <1>2, <1>3, <1>4, <1>5, <1>6, <1>7 DEF SdccIInv

(* The core sets clock and power. *)
LEMMA SetIosStep ==
  ASSUME SdccIInv, SetIos
  PROVE  SdccIInv'
PROOF
<1> USE SdccAssumption DEF SetIos, request, locals, datapath
<1>1. TypeOK'
  <2>1. PICK s \in Settings : ios' = [asked |-> s[1], actual |-> CardClock(s[1]), power |-> s[2]]
    OBVIOUS
  <2>2. s[1] \in Nat /\ s[2] \in {"OFF", "UP", "ON"} /\ s[1] \in {0, IdentClock, TransferClock}
    BY <2>1, ClockAssumption
  <2>3. ios' \in [asked : Nat, actual : 0 .. Mclk, power : {"OFF", "UP", "ON"}]
    BY <2>1, <2>2, ClockOfSetting
  <2> QED
    BY <2>3 DEF SdccIInv, TypeOK
<1>2. ClockCeiling'
  <2>1. PICK s \in Settings : ios' = [asked |-> s[1], actual |-> CardClock(s[1]), power |-> s[2]]
    OBVIOUS
  <2>2. CardClock(s[1]) <= s[1]
    BY <2>1, ClockAssumption, ClockOfSetting
  <2> QED
    BY <2>1, <2>2 DEF ClockCeiling
<1>3. PathInv'
  BY DEF SdccIInv, PathInv, InTransfer, InCommand
<1>4. FifoInv'
  BY DEF SdccIInv, FifoInv, PathInv, InTransfer, InCommand
<1>5. TransferInv'
  BY DEF SdccIInv, TransferInv, PathInv, InTransfer, InCommand, Whole, Remaining
<1>6. ReportInv'
  BY DEF SdccIInv, ReportInv, Report, Succeeded, Whole, Before, After, InTransfer, InCommand
<1>7. AnswerInv'
  BY DEF SdccIInv, AnswerInv, OwnAnswer
<1> QED
  BY <1>1, <1>2, <1>3, <1>4, <1>5, <1>6, <1>7 DEF SdccIInv

(* The command before the main one goes out. *)
LEMMA SendSbcStep ==
  ASSUME SdccIInv, SendSbc
  PROVE  SdccIInv'
PROOF
<1> USE SdccAssumption DEF SendSbc, IssueCommand, request, locals, datapath
<1>1. TypeOK'
  <2>1. In(CmdTicks) \in 0 .. Jiffies - 1
    BY DeadlineType DEF SdccIInv, TypeOK
  <2>2. pc' \in Steps
    BY DEF SdccIInv, TypeOK, Steps, Waiting
  <2> QED
    BY <2>1, <2>2 DEF SdccIInv, TypeOK, Steps
<1>2. ClockCeiling'
  BY DEF SdccIInv, ClockCeiling
<1>3. PathInv'
  BY DEF SdccIInv, PathInv, InTransfer, InCommand
<1>4. FifoInv'
  BY DEF SdccIInv, FifoInv, PathInv, InTransfer, InCommand
<1>5. TransferInv'
  BY DEF SdccIInv, TransferInv, PathInv, InTransfer, InCommand, Whole, Remaining
<1>6. ReportInv'
  BY DEF SdccIInv, ReportInv, Report, Succeeded, Whole, Before, After, InTransfer, InCommand
<1>7. AnswerInv'
  BY DEF SdccIInv, AnswerInv, OwnAnswer
<1> QED
  BY <1>1, <1>2, <1>3, <1>4, <1>5, <1>6, <1>7 DEF SdccIInv

(* The command that ends a transfer goes out. *)
LEMMA SendStopStep ==
  ASSUME SdccIInv, SendStop
  PROVE  SdccIInv'
PROOF
<1> USE SdccAssumption DEF SendStop, IssueCommand, request, locals, datapath
<1>1. TypeOK'
  <2>1. In(CmdTicks) \in 0 .. Jiffies - 1
    BY DeadlineType DEF SdccIInv, TypeOK
  <2>2. pc' \in Steps
    BY DEF SdccIInv, TypeOK, Steps, Waiting
  <2> QED
    BY <2>1, <2>2 DEF SdccIInv, TypeOK, Steps
<1>2. ClockCeiling'
  BY DEF SdccIInv, ClockCeiling
<1>3. PathInv'
  BY DEF SdccIInv, PathInv, InTransfer, InCommand
<1>4. FifoInv'
  BY DEF SdccIInv, FifoInv, PathInv, InTransfer, InCommand
<1>5. TransferInv'
  BY DEF SdccIInv, TransferInv, PathInv, InTransfer, InCommand, Whole, Remaining
<1>6. ReportInv'
  BY DEF SdccIInv, ReportInv, Report, Succeeded, Whole, Before, After, InTransfer, InCommand
<1>7. AnswerInv'
  BY DEF SdccIInv, AnswerInv, OwnAnswer
<1> QED
  BY <1>1, <1>2, <1>3, <1>4, <1>5, <1>6, <1>7 DEF SdccIInv

(* The main command goes out. *)
LEMMA SendMainStep ==
  ASSUME SdccIInv, SendMain
  PROVE  SdccIInv'
PROOF
<1> USE SdccAssumption DEF SendMain, IssueCommand, StartData, request, locals, datapath
<1>1. TypeOK'
  <2>1. In(CmdTicks) \in 0 .. Jiffies - 1
    BY DeadlineType DEF SdccIInv, TypeOK
  <2>2. pc' \in Steps
    BY DEF SdccIInv, TypeOK, Steps, Waiting
  <2>3. "none" \in Errors /\ "ETIMEDOUT" \in Errors /\ "EINVAL" \in Errors
    BY DEF Errors
  <2>4. result' \in Results
    BY <2>3 DEF SdccIInv, TypeOK, Results
  <2>5. dpsm' \in {"off", "read", "write"} /\ ended' \in BOOLEAN
    BY DEF SdccIInv, TypeOK
  <2>6. Len(fifo') <= FifoDepth /\ Len(moved') <= Words
    <3>1. UNCHANGED <<fifo, moved>> \/ (fifo' = <<>> /\ moved' = <<>>)
      OBVIOUS
    <3> QED
      BY <3>1, EmptyFifo DEF SdccIInv, TypeOK
  <2> QED
    BY <2>1, <2>2, <2>3, <2>4, <2>5, <2>6 DEF SdccIInv, TypeOK, Steps, Results
<1>2. ClockCeiling'
  BY DEF SdccIInv, ClockCeiling
<1>3. PathInv'
  BY DEF SdccIInv, PathInv, InTransfer, InCommand
<1>4. FifoInv'
  <2>1. transferred' = 0
    BY DEF SdccIInv, ReportInv, Before
  <2>2. fifo' = <<>> /\ moved' = <<>>
    BY DEF SdccIInv, PathInv, InTransfer, InCommand
  <2> QED
    BY <2>1, <2>2, Types, EmptySeq DEF FifoInv
<1>5. TransferInv'
  BY DEF SdccIInv, TransferInv, PathInv, InTransfer, InCommand, Whole, Remaining
<1>6. ReportInv'
  <2>1. ReportInv /\ Before /\ ~After
    BY DEF SdccIInv, Before, After, InCommand
  <2>2. CASE mrq.dir = "read" /\ ~mrq.fits /\ pc' = "done"
             /\ result' = [result EXCEPT !.cmd = "EINVAL", !.data = "EINVAL"]
    <3>1. result'.bytes = 0 /\ result'.cmd = "EINVAL" /\ memory' = Block(serial, 0)
      BY <2>1, <2>2, Types DEF ReportInv, NoResult
    <3> QED
      BY <2>2, <3>1 DEF ReportInv, Report, Succeeded, Before, After, InTransfer, InCommand
  <2>3. CASE pc' = "poll" /\ cmd' = "cmd" /\ UNCHANGED result
    BY <2>1, <2>3 DEF ReportInv, Before, After, InTransfer, InCommand
  <2> QED
    BY <2>2, <2>3
<1>7. AnswerInv'
  BY DEF SdccIInv, AnswerInv, OwnAnswer
<1> QED
  BY <1>1, <1>2, <1>3, <1>4, <1>5, <1>6, <1>7 DEF SdccIInv

(* A write starts its data path. *)
LEMMA StartWriteStep ==
  ASSUME SdccIInv, StartWrite
  PROVE  SdccIInv'
PROOF
<1> USE SdccAssumption DEF StartWrite, StartData, request, locals, datapath
<1>1. TypeOK'
  <2>1. pc' \in Steps
    BY DEF SdccIInv, TypeOK, Steps, Waiting
  <2>2. "none" \in Errors /\ "ETIMEDOUT" \in Errors /\ "EINVAL" \in Errors
    BY DEF Errors
  <2>3. result' \in Results
    BY <2>2 DEF SdccIInv, TypeOK, Results
  <2>4. mrq.dir = "write"
    BY DEF SdccIInv, PathInv
  <2>5. dpsm' \in {"off", "read", "write"} /\ ended' \in BOOLEAN
    BY <2>4 DEF SdccIInv, TypeOK
  <2>6. Len(fifo') <= FifoDepth /\ Len(moved') <= Words
    <3>1. UNCHANGED <<fifo, moved>> \/ (fifo' = <<>> /\ moved' = <<>>)
      OBVIOUS
    <3> QED
      BY <3>1, EmptyFifo DEF SdccIInv, TypeOK
  <2> QED
    BY <2>1, <2>2, <2>3, <2>4, <2>5, <2>6 DEF SdccIInv, TypeOK, Steps, Results
<1>2. ClockCeiling'
  BY DEF SdccIInv, ClockCeiling
<1>3. PathInv'
  BY DEF SdccIInv, PathInv, InTransfer, InCommand
<1>4. FifoInv'
  <2>1. transferred' = 0
    BY DEF SdccIInv, ReportInv, Before
  <2>2. fifo' = <<>> /\ moved' = <<>>
    BY DEF SdccIInv, PathInv, InTransfer, InCommand
  <2> QED
    BY <2>1, <2>2, Types, EmptySeq DEF FifoInv
<1>5. TransferInv'
  BY DEF SdccIInv, TransferInv, PathInv, InTransfer, InCommand, Whole, Remaining
<1>6. ReportInv'
  <2>1. ReportInv /\ Before /\ mrq.dir = "write"
    BY DEF SdccIInv, Before, PathInv
  <2>2. CASE pc' = "done" /\ result' = [result EXCEPT !.data = "EINVAL"]
    <3>1. result'.bytes = 0 /\ result'.data = "EINVAL"
      BY <2>1, <2>2 DEF ReportInv, NoResult
    <3> QED
      BY <2>1, <2>2, <3>1 DEF ReportInv, Report, Succeeded, Before, After, InTransfer, InCommand
  <2>3. CASE pc' = "transfer" /\ UNCHANGED result
    BY <2>1, <2>3 DEF ReportInv, Before, After, InTransfer, InCommand
  <2> QED
    BY <2>2, <2>3
<1>7. AnswerInv'
  BY DEF SdccIInv, AnswerInv, OwnAnswer
<1> QED
  BY <1>1, <1>2, <1>3, <1>4, <1>5, <1>6, <1>7 DEF SdccIInv

(* One look at the status while a command waits. *)
LEMMA CommandPollStep ==
  ASSUME SdccIInv, CommandPoll
  PROVE  SdccIInv'
PROOF
<1> USE SdccAssumption DEF CommandPoll, Poll, request, locals, datapath
<1>1. TypeOK'
  BY ErrorType DEF SdccIInv, TypeOK, Waiting
<1>2. ClockCeiling'
  BY DEF SdccIInv, ClockCeiling
<1>3. PathInv'
  BY DEF SdccIInv, PathInv, InTransfer, InCommand
<1>4. FifoInv'
  BY DEF SdccIInv, FifoInv, PathInv, InTransfer, InCommand
<1>5. TransferInv'
  BY DEF SdccIInv, TransferInv, PathInv, InTransfer, InCommand, Whole, Remaining
<1>6. ReportInv'
  BY DEF SdccIInv, ReportInv, Report, Succeeded, Whole, Before, After, InTransfer, InCommand
<1>7. AnswerInv'
  BY DEF SdccIInv, AnswerInv, OwnAnswer, CmdBits, CmdErrors, Terminal
<1> QED
  BY <1>1, <1>2, <1>3, <1>4, <1>5, <1>6, <1>7 DEF SdccIInv

(* One look at the clock while a command waits. *)
LEMMA CommandClockStep ==
  ASSUME SdccIInv, CommandClock
  PROVE  SdccIInv'
PROOF
<1> USE SdccAssumption DEF CommandClock, PollClock, request, locals, datapath
<1>1. TypeOK'
  <2>1. pc' \in Steps
    BY DEF SdccIInv, TypeOK, Steps, Waiting
  <2>2. "none" \in Errors /\ "ETIMEDOUT" \in Errors /\ "EINVAL" \in Errors
    BY DEF Errors
  <2> QED
    BY <2>1, <2>2 DEF SdccIInv, TypeOK, Steps
<1>2. ClockCeiling'
  BY DEF SdccIInv, ClockCeiling
<1>3. PathInv'
  BY DEF SdccIInv, PathInv, InTransfer, InCommand
<1>4. FifoInv'
  BY DEF SdccIInv, FifoInv, PathInv, InTransfer, InCommand
<1>5. TransferInv'
  BY DEF SdccIInv, TransferInv, PathInv, InTransfer, InCommand, Whole, Remaining
<1>6. ReportInv'
  BY DEF SdccIInv, ReportInv, Report, Succeeded, Whole, Before, After, InTransfer, InCommand
<1>7. AnswerInv'
  BY DEF SdccIInv, AnswerInv, OwnAnswer
<1> QED
  BY <1>1, <1>2, <1>3, <1>4, <1>5, <1>6, <1>7 DEF SdccIInv

(* The end of a command. *)
LEMMA FinishCommandStep ==
  ASSUME SdccIInv, FinishCommand
  PROVE  SdccIInv'
PROOF
<1> USE SdccAssumption
    DEF FinishCommand, ClearCommand, StopData, AfterMain, request, locals, datapath
<1>1. TypeOK'
  <2>1. pc' \in Steps
    BY DEF SdccIInv, TypeOK, Steps, Waiting
  <2>2. cmd \in {"sbc", "cmd", "stop"} /\ error \in Errors /\ result \in Results
    BY DEF SdccIInv, TypeOK, Results
  <2>3. result' \in Results
    BY <2>2 DEF Results
  <2>4. dpsm' \in {"off", "read", "write"} /\ ended' \in BOOLEAN
    BY DEF SdccIInv, TypeOK
  <2>5. Len(fifo') <= FifoDepth /\ Len(moved') <= Words
    <3>1. UNCHANGED <<fifo, moved>> \/ (fifo' = <<>> /\ moved' = <<>>)
      OBVIOUS
    <3> QED
      BY <3>1, EmptyFifo DEF SdccIInv, TypeOK
  <2>6. status' \subseteq StatusBits
    BY DEF SdccIInv, TypeOK
  <2> QED
    BY <2>1, <2>2, <2>3, <2>4, <2>5, <2>6 DEF SdccIInv, TypeOK, Steps, Results
<1>2. ClockCeiling'
  BY DEF SdccIInv, ClockCeiling
<1>3. PathInv'
  BY DEF SdccIInv, PathInv, InTransfer, InCommand
<1>4. FifoInv'
  <2>1. CASE UNCHANGED datapath
    BY <2>1 DEF SdccIInv, FifoInv
  <2>2. CASE StopData
    BY <2>2, EmptySeq DEF FifoInv
  <2> QED
    BY <2>1, <2>2
<1>5. TransferInv'
  <2>1. dpsm' # "write" /\ pc' \notin {"loop", "word", "endPoll", "endClock", "finish"}
    BY DEF SdccIInv, PathInv, InCommand
  <2>2. pc' = "transfer" => transferred' = 0 /\ mrq'.dir = "read"
    BY DEF SdccIInv, ReportInv, Before, InCommand
  <2> QED
    BY <2>1, <2>2 DEF TransferInv, InTransfer
<1>6. ReportInv'
  <2>1. ReportInv /\ pc = "clear" /\ cmd \in {"sbc", "cmd", "stop"}
    BY DEF SdccIInv, TypeOK
  <2>2. CASE cmd = "stop"
    <3>1. Report /\ pc' = "done" /\ result' = [result EXCEPT !.stop = error]
      BY <2>1, <2>2 DEF ReportInv, After, InCommand
    <3>2. result \in Results
      BY DEF SdccIInv, TypeOK, Results
    <3>3. result'.sbc = result.sbc /\ result'.cmd = result.cmd /\ result'.data = result.data
          /\ result'.bytes = result.bytes
      BY <3>1, <3>2 DEF Results
    <3>4. Report'
      BY <2>2, <3>1, <3>3 DEF Report, Succeeded, Whole
    <3> QED
      BY <2>1, <3>1, <3>4 DEF ReportInv, Before, After, InTransfer, InCommand
  <2>3. CASE cmd # "stop"
    <3>1. /\ transferred = 0 /\ result = NoResult
          /\ mrq.dir = "read" => memory = Blank
          /\ mrq.dir = "write" => memory = Block(serial, mrq.words)
      BY <2>1, <2>3 DEF ReportInv, Before, InCommand
    <3>2. CASE cmd = "sbc" /\ error = "none"
      <4>1. pc' = "main" /\ result' = NoResult
        BY <3>1, <3>2 DEF NoResult
      <4> QED
        BY <3>1, <4>1 DEF ReportInv, Before, After, InTransfer, InCommand
    <3>3. CASE error # "none"
      <4>1. pc' = "done" /\ result'.bytes = 0 /\ (result'.sbc = error \/ result'.cmd = error)
        BY <2>1, <2>3, <3>1, <3>3 DEF NoResult
      <4>2. ~Succeeded'
        BY <3>3, <4>1 DEF Succeeded
      <4> QED
        BY <3>1, <4>1, <4>2, Types DEF ReportInv, Report, Before, After, InTransfer, InCommand
    <3>4. CASE cmd = "cmd" /\ error = "none"
      <4>1. result' = NoResult /\ (mrq.dir = "none" \/ pc' \in {"write", "transfer"})
        BY <3>1, <3>4, Types
      <4>2. mrq.dir = "none" => Report'
        BY <4>1 DEF Report, Succeeded, NoResult
      <4>3. pc' \in {"write", "transfer", "stop", "done"}
        BY <3>4
      <4> QED
        BY <3>1, <4>1, <4>2, <4>3 DEF ReportInv, Before, After, InTransfer, InCommand
    <3> QED
      BY <2>1, <2>3, <3>2, <3>3, <3>4
  <2> QED
    BY <2>2, <2>3
<1>7. AnswerInv'
  BY DEF SdccIInv, AnswerInv, OwnAnswer
<1> QED
  BY <1>1, <1>2, <1>3, <1>4, <1>5, <1>6, <1>7 DEF SdccIInv

(* A transfer begins. *)
LEMMA BeginTransferStep ==
  ASSUME SdccIInv, BeginTransfer
  PROVE  SdccIInv'
PROOF
<1> USE SdccAssumption DEF BeginTransfer, request, locals, datapath
<1>1. TypeOK'
  <2>1. pc' \in Steps
    BY DEF SdccIInv, TypeOK, Steps, Waiting
  <2>2. "none" \in Errors /\ "ETIMEDOUT" \in Errors /\ "EINVAL" \in Errors
    BY DEF Errors
  <2>3. In(DataTicks) \in 0 .. Jiffies - 1
    BY DeadlineType DEF SdccIInv, TypeOK
  <2>4. bounce' \in Pages
    BY DEF SdccIInv, TypeOK, Pages, Word
  <2>5. transferred' \in 0 .. mrq'.words
    BY Types
  <2> QED
    BY <2>1, <2>2, <2>3, <2>4, <2>5 DEF SdccIInv, TypeOK, Steps, Pages, Word
<1>2. ClockCeiling'
  BY DEF SdccIInv, ClockCeiling
<1>3. PathInv'
  BY DEF SdccIInv, PathInv, InTransfer, InCommand
<1>4. FifoInv'
  <2>1. transferred' = transferred
    BY DEF SdccIInv, ReportInv, Before
  <2> QED
    BY <2>1 DEF SdccIInv, FifoInv
<1>5. TransferInv'
  <2>1. mrq.dir = "write" => memory = Block(serial, mrq.words)
    BY DEF SdccIInv, ReportInv, Before
  <2> QED
    BY <2>1 DEF SdccIInv, TransferInv, InTransfer, Whole
<1>6. ReportInv'
  BY DEF SdccIInv, ReportInv, Report, Succeeded, Whole, Before, After, InTransfer, InCommand
<1>7. AnswerInv'
  BY DEF SdccIInv, AnswerInv, OwnAnswer
<1> QED
  BY <1>1, <1>2, <1>3, <1>4, <1>5, <1>6, <1>7 DEF SdccIInv

(* The condition of the transfer's loop. *)
LEMMA TransferLoopStep ==
  ASSUME SdccIInv, TransferLoop
  PROVE  SdccIInv'
PROOF
<1> USE SdccAssumption DEF TransferLoop, Remaining, request, locals, datapath
<1>1. TypeOK'
  <2>1. pc' \in Steps
    BY DEF SdccIInv, TypeOK, Steps, Waiting
  <2>2. "none" \in Errors /\ "ETIMEDOUT" \in Errors /\ "EINVAL" \in Errors
    BY DEF Errors
  <2>3. In(DataTicks) \in 0 .. Jiffies - 1
    BY DeadlineType DEF SdccIInv, TypeOK
  <2> QED
    BY <2>1, <2>2, <2>3 DEF SdccIInv, TypeOK, Steps
<1>2. ClockCeiling'
  BY DEF SdccIInv, ClockCeiling
<1>3. PathInv'
  BY DEF SdccIInv, PathInv, InTransfer, InCommand
<1>4. FifoInv'
  BY DEF SdccIInv, FifoInv, PathInv, InTransfer, InCommand
<1>5. TransferInv'
  <2>1. ~Remaining => transferred = mrq.words
    BY Types DEF Remaining
  <2> QED
    BY <2>1 DEF SdccIInv, TransferInv, InTransfer, Whole
<1>6. ReportInv'
  BY DEF SdccIInv, ReportInv, Report, Succeeded, Whole, Before, After, InTransfer, InCommand
<1>7. AnswerInv'
  BY DEF SdccIInv, AnswerInv, OwnAnswer
<1> QED
  BY <1>1, <1>2, <1>3, <1>4, <1>5, <1>6, <1>7 DEF SdccIInv

(* One word of the transfer. *)
LEMMA TransferWordStep ==
  ASSUME SdccIInv, TransferWord
  PROVE  SdccIInv'
PROOF
<1> USE SdccAssumption DEF TransferWord, request, locals, datapath
<1>1. TypeOK'
  <2>1. pc' \in Steps
    BY DEF SdccIInv, TypeOK, Steps, Waiting
  <2>2. error' \in Errors
    <3>1. error \in Errors /\ DataError(status) \in Errors
      BY ErrorType DEF SdccIInv, TypeOK
    <3> QED
      BY <3>1
  <2>3. bounce \in Pages /\ Len(fifo) <= FifoDepth
    BY DEF SdccIInv, TypeOK, Pages, Word
  <2>4. fifo # <<>> => Head(fifo) \in Word /\ Len(Tail(fifo)) = Len(fifo) - 1
    BY Types, HeadTailProperties
  <2>5. Remaining
    BY DEF SdccIInv, TransferInv
  <2>6. bounce' \in Pages
    BY <2>3, <2>4 DEF Pages
  <2>7. transferred' \in 0 .. mrq'.words
    BY <2>5, Types DEF Remaining
  <2>8. Len(fifo') <= FifoDepth
    <3>1. transferred + 1 \in 1 .. Words
      BY <2>5, Types DEF Remaining
    <3>2. bounce[transferred + 1] \in Word
      BY <3>1, <2>3 DEF Pages
    <3>3. Len(Append(fifo, bounce[transferred + 1])) = Len(fifo) + 1
      BY <3>2, Types, AppendProperties
    <3> QED
      BY <2>3, <2>4, <3>3, Types
  <2> QED
    BY <2>1, <2>2, <2>6, <2>7, <2>8 DEF SdccIInv, TypeOK, Steps, Pages, Word
<1>2. ClockCeiling'
  BY DEF SdccIInv, ClockCeiling
<1>3. PathInv'
  BY DEF SdccIInv, PathInv, InTransfer, InCommand
<1>4. FifoInv'
  <2>1. FifoInv /\ Remaining
    BY DEF SdccIInv, TransferInv
  <2>2. dpsm = mrq.dir
    BY DEF SdccIInv, PathInv, InTransfer
  <2>3. CASE UNCHANGED <<fifo, transferred>>
    BY <2>1, <2>3 DEF FifoInv
  <2>4. CASE mrq.dir = "read" /\ fifo # <<>> /\ fifo' = Tail(fifo) /\ transferred' = transferred + 1
    <3>1. /\ fifo' \in Seq(Word) /\ Len(fifo') = Len(fifo) - 1
          /\ \A i \in 1 .. Len(fifo') : fifo'[i] = fifo[i + 1]
      BY <2>4, Types, HeadTailProperties
    <3>2. /\ Len(moved) = transferred + Len(fifo)
          /\ \A i \in 1 .. Len(fifo) : fifo[i] = <<serial, transferred + i>>
      BY <2>1, <2>2, <2>4 DEF FifoInv
    <3>3. ASSUME NEW i \in 1 .. Len(fifo')
          PROVE  fifo'[i] = <<serial, transferred' + i>>
      <4>1. i \in Int /\ i + 1 \in 1 .. Len(fifo)
        BY <3>1, Types
      <4>2. transferred' + i = transferred + (i + 1)
        BY <2>4, <4>1, Types
      <4> QED
        BY <3>1, <3>2, <4>1, <4>2
    <3>4. UNCHANGED <<moved, serial, dpsm, mrq>> /\ dpsm = "read"
      BY <2>2, <2>4
    <3>5. Len(moved') = transferred' + Len(fifo')
      <4>1. Len(fifo) \in Int /\ transferred \in Int
        BY Types
      <4>2. Len(fifo') = Len(fifo) - 1
        BY <3>1
      <4>3. transferred' = transferred + 1
        BY <2>4
      <4>4. Len(moved') = transferred + Len(fifo)
        BY <3>2, <3>4
      <4> HIDE DEF TransferWord, datapath
      <4> QED
        BY <4>1, <4>2, <4>3, <4>4
    <3> QED
      BY <2>1, <3>1, <3>3, <3>4, <3>5 DEF FifoInv
  <2>5. CASE mrq.dir = "write" /\ fifo' = Append(fifo, bounce[transferred + 1])
             /\ transferred' = transferred + 1
    <3>1. transferred + 1 \in 1 .. mrq.words /\ transferred + 1 \in 1 .. Words
      BY <2>1, Types DEF Remaining
    <3>2. bounce = Block(serial, mrq.words)
      BY <2>5 DEF SdccIInv, TransferInv, InTransfer
    <3>3. bounce[transferred + 1] = <<serial, transferred + 1>>
      BY <3>1, <3>2 DEF Block
    <3>4. <<serial, transferred + 1>> \in Word
      BY <3>1, Types DEF Word
    <3>5. /\ fifo' \in Seq(Word) /\ Len(fifo') = Len(fifo) + 1
          /\ fifo'[Len(fifo) + 1] = <<serial, transferred + 1>>
          /\ \A i \in 1 .. Len(fifo) : fifo'[i] = fifo[i]
      BY <2>5, <3>3, <3>4, Types, AppendProperties
    <3>6. /\ transferred = Len(moved) + Len(fifo)
          /\ \A i \in 1 .. Len(fifo) : fifo[i] = <<serial, Len(moved) + i>>
      BY <2>1, <2>2, <2>5 DEF FifoInv
    <3>7. fifo'[Len(fifo) + 1] = <<serial, Len(moved) + (Len(fifo) + 1)>>
      BY <3>5, <3>6, Types
    <3>8. ASSUME NEW i \in 1 .. Len(fifo')
          PROVE  fifo'[i] = <<serial, Len(moved) + i>>
      <4>1. i \in 1 .. Len(fifo) \/ i = Len(fifo) + 1
        BY <3>5, Types
      <4> QED
        BY <3>5, <3>6, <3>7, <4>1
    <3>9. transferred' = Len(moved') + Len(fifo')
      BY <2>5, <3>5, <3>6, Types
    <3>10. UNCHANGED <<moved, serial, dpsm, mrq>> /\ dpsm = "write"
      BY <2>2, <2>5
    <3> QED
      BY <2>1, <3>5, <3>8, <3>9, <3>10 DEF FifoInv
  <2> QED
    BY <2>3, <2>4, <2>5
<1>5. TransferInv'
  <2>1. TransferInv /\ Remaining
    BY DEF SdccIInv, TransferInv
  <2>2. pc' = "finish" => error' # "none"
    BY <2>1 DEF DataError, TransferInv
  <2>3. pc' = "loop" => error' = "none"
    BY <2>1 DEF TransferInv
  <2>4. mrq.dir = "read" => \A i \in 1 .. transferred' : bounce'[i] = <<serial, i>>
    <3> SUFFICES ASSUME mrq.dir = "read"
                 PROVE  \A i \in 1 .. transferred' : bounce'[i] = <<serial, i>>
      OBVIOUS
    <3>1. \A i \in 1 .. transferred : bounce[i] = <<serial, i>>
      BY <2>1 DEF TransferInv, InTransfer
    <3>2. CASE UNCHANGED <<bounce, transferred>>
      BY <3>1, <3>2
    <3>3. CASE /\ fifo # <<>> /\ transferred' = transferred + 1
               /\ bounce' = [bounce EXCEPT ![transferred + 1] = Head(fifo)]
      <4>1. dpsm = "read" /\ FifoInv
        BY DEF SdccIInv, PathInv, InTransfer
      <4>2. Head(fifo) = fifo[1] /\ 1 \in 1 .. Len(fifo)
        BY <3>3, Types, EmptySeq
      <4>3. Head(fifo) = <<serial, transferred + 1>>
        BY <4>1, <4>2, Types DEF FifoInv
      <4>4. bounce \in Pages /\ transferred + 1 \in 1 .. Words
        <5>1. transferred + 1 \in 1 .. Words
          BY <2>1, Types DEF Remaining
        <5> QED
          BY <5>1 DEF SdccIInv, TypeOK, Pages, Word
      <4> QED
        BY <3>1, <3>3, <4>3, <4>4, Types DEF Pages
    <3> QED
      BY <3>2, <3>3
  <2>5. mrq.dir = "write" => bounce' = Block(serial, mrq.words)
    BY <2>1 DEF TransferInv, InTransfer
  <2> QED
    BY <2>1, <2>2, <2>3, <2>4, <2>5 DEF TransferInv, InTransfer, Whole
<1>6. ReportInv'
  BY DEF SdccIInv, ReportInv, Report, Succeeded, Whole, Before, After, InTransfer, InCommand
<1>7. AnswerInv'
  BY DEF SdccIInv, AnswerInv, OwnAnswer
<1> QED
  BY <1>1, <1>2, <1>3, <1>4, <1>5, <1>6, <1>7 DEF SdccIInv

(* One look at the status while the end of the block is awaited.           *)
LEMMA EndPollStep ==
  ASSUME SdccIInv, EndPoll
  PROVE  SdccIInv'
PROOF
<1> USE SdccAssumption DEF EndPoll, Poll, request, locals, datapath
<1>1. TypeOK'
  <2>1. pc' \in Steps
    BY DEF SdccIInv, TypeOK, Steps, Waiting
  <2>2. error' \in Errors
    BY ErrorType DEF Errors
  <2> QED
    BY <2>1, <2>2 DEF SdccIInv, TypeOK, Steps
<1>2. ClockCeiling'
  BY DEF SdccIInv, ClockCeiling
<1>3. PathInv'
  BY DEF SdccIInv, PathInv, InTransfer, InCommand
<1>4. FifoInv'
  BY DEF SdccIInv, FifoInv, PathInv, InTransfer, InCommand
<1>5. TransferInv'
  BY DEF SdccIInv, TransferInv, PathInv, InTransfer, InCommand, Whole, DataError
<1>6. ReportInv'
  BY DEF SdccIInv, ReportInv, Report, Succeeded, Whole, Before, After, InTransfer, InCommand
<1>7. AnswerInv'
  BY DEF SdccIInv, AnswerInv, OwnAnswer
<1> QED
  BY <1>1, <1>2, <1>3, <1>4, <1>5, <1>6, <1>7 DEF SdccIInv

(* One look at the clock then. *)
LEMMA EndClockStep ==
  ASSUME SdccIInv, EndClock
  PROVE  SdccIInv'
PROOF
<1> USE SdccAssumption DEF EndClock, PollClock, request, locals, datapath
<1>1. TypeOK'
  <2>1. pc' \in Steps
    BY DEF SdccIInv, TypeOK, Steps, Waiting
  <2>2. "none" \in Errors /\ "ETIMEDOUT" \in Errors /\ "EINVAL" \in Errors
    BY DEF Errors
  <2> QED
    BY <2>1, <2>2 DEF SdccIInv, TypeOK, Steps
<1>2. ClockCeiling'
  BY DEF SdccIInv, ClockCeiling
<1>3. PathInv'
  BY DEF SdccIInv, PathInv, InTransfer, InCommand
<1>4. FifoInv'
  BY DEF SdccIInv, FifoInv, PathInv, InTransfer, InCommand
<1>5. TransferInv'
  BY DEF SdccIInv, TransferInv, PathInv, InTransfer, InCommand, Whole, Remaining
<1>6. ReportInv'
  BY DEF SdccIInv, ReportInv, Report, Succeeded, Whole, Before, After, InTransfer, InCommand
<1>7. AnswerInv'
  BY DEF SdccIInv, AnswerInv, OwnAnswer
<1> QED
  BY <1>1, <1>2, <1>3, <1>4, <1>5, <1>6, <1>7 DEF SdccIInv

(* The end of a transfer. *)
LEMMA FinishTransferStep ==
  ASSUME SdccIInv, FinishTransfer
  PROVE  SdccIInv'
PROOF
<1> USE SdccAssumption DEF FinishTransfer, StopData, Copied, request, locals, datapath
<1>1. TypeOK'
  <2>1. pc' \in Steps
    BY DEF SdccIInv, TypeOK, Steps, Waiting
  <2>2. mrq.words \in 0 .. Words
    BY Types
  <2>3. error \in Errors /\ result \in Results
    BY DEF SdccIInv, TypeOK, Results
  <2>4. (IF error = "none" THEN mrq.words ELSE 0) \in 0 .. Words
    BY <2>2, SdccAssumption
  <2>5. result' \in Results
    BY <2>3, <2>4 DEF Results
  <2>6. memory' \in Pages
    BY DEF SdccIInv, TypeOK, Pages, Word
  <2>7. Len(fifo') <= FifoDepth /\ Len(moved') <= Words
    <3>1. UNCHANGED <<fifo, moved>> \/ (fifo' = <<>> /\ moved' = <<>>)
      OBVIOUS
    <3> QED
      BY <3>1, EmptyFifo DEF SdccIInv, TypeOK
  <2>8. status' \subseteq StatusBits
    BY DEF SdccIInv, TypeOK
  <2> QED
    BY <2>1, <2>2, <2>3, <2>4, <2>5, <2>6, <2>7, <2>8 DEF SdccIInv, TypeOK, Steps, Results,
       Pages, Word
<1>2. ClockCeiling'
  BY DEF SdccIInv, ClockCeiling
<1>3. PathInv'
  BY DEF SdccIInv, PathInv, InTransfer, InCommand
<1>4. FifoInv'
  BY DEF SdccIInv, FifoInv, PathInv, InTransfer, InCommand
<1>5. TransferInv'
  BY DEF SdccIInv, TransferInv, PathInv, InTransfer, InCommand, Whole, Remaining
<1>6. ReportInv'
  <2>1. ReportInv /\ TransferInv /\ result = NoResult /\ mrq.dir \in {"read", "write"}
    BY Types DEF SdccIInv, ReportInv, PathInv, InTransfer
  <2>2. /\ result'.sbc = "none" /\ result'.cmd = "none" /\ result'.data = error
        /\ result'.bytes = IF error = "none" THEN mrq.words ELSE 0
    BY <2>1 DEF NoResult
  <2>3. Succeeded' <=> error = "none"
    BY <2>1, <2>2 DEF Succeeded
  <2>4. mrq.dir = "read" => memory' = Block(serial, IF error = "none" THEN mrq.words ELSE 0)
    <3> SUFFICES ASSUME mrq.dir = "read"
                 PROVE  memory' = Block(serial, IF error = "none" THEN mrq.words ELSE 0)
      OBVIOUS
    <3>1. memory = Blank
      BY <2>1 DEF ReportInv, InTransfer
    <3>2. CASE error = "none"
      <4>1. \A i \in 1 .. mrq.words : bounce[i] = <<serial, i>>
        BY <2>1, <3>2 DEF TransferInv, InTransfer
      <4>2. \A i \in 1 .. Words : Copied(i) <=> i <= mrq.words
        BY <3>2
      <4>3. memory' = [i \in 1 .. Words |-> IF i <= mrq.words THEN bounce[i] ELSE Blank[i]]
        BY <3>1, <4>2
      <4>4. \A i \in 1 .. Words : i <= mrq.words => i \in 1 .. mrq.words
        BY Types
      <4>5. memory' = [i \in 1 .. Words |-> IF i <= mrq.words THEN <<serial, i>> ELSE Blank[i]]
        BY <4>1, <4>3, <4>4
      <4> QED
        BY <3>2, <4>5 DEF Block
    <3>3. CASE error # "none"
      <4>1. memory' = [i \in 1 .. Words |-> Blank[i]]
        BY <3>1, <3>3
      <4> QED
        BY <3>3, <4>1, Types DEF Block, Blank
    <3> QED
      BY <3>2, <3>3
  <2>5. mrq.dir = "write" /\ error = "none" => stored' = Whole'
    BY <2>1 DEF TransferInv, Whole
  <2>6. Report'
    BY <2>1, <2>2, <2>3, <2>4, <2>5 DEF Report, Whole
  <2> QED
    BY <2>6 DEF ReportInv, Before, After, InTransfer, InCommand
<1>7. AnswerInv'
  BY DEF SdccIInv, AnswerInv, OwnAnswer
<1> QED
  BY <1>1, <1>2, <1>3, <1>4, <1>5, <1>6, <1>7 DEF SdccIInv

(* The request is handed back. *)
LEMMA DoneStep ==
  ASSUME SdccIInv, Done
  PROVE  SdccIInv'
PROOF
<1> USE SdccAssumption DEF Done, request, locals, datapath
<1>1. TypeOK'
  <2>1. pc' \in Steps
    BY DEF SdccIInv, TypeOK, Steps, Waiting
  <2>2. deadline' \in 0 .. Jiffies - 1 /\ transferred' \in 0 .. mrq'.words
    BY NoRequestType DEF SdccIInv, TypeOK
  <2>3. error' \in Errors
    BY DEF Errors
  <2>4. memory' \in Pages
    BY BlankType DEF Pages
  <2> QED
    BY <2>1, <2>2, <2>3, <2>4, NoRequestType DEF SdccIInv, TypeOK, Steps, Results, Pages, Word
<1>2. ClockCeiling'
  BY DEF SdccIInv, ClockCeiling
<1>3. PathInv'
  BY DEF SdccIInv, PathInv, InTransfer, InCommand
<1>4. FifoInv'
  BY DEF SdccIInv, FifoInv, PathInv, InTransfer, InCommand
<1>5. TransferInv'
  BY DEF SdccIInv, TransferInv, PathInv, InTransfer, InCommand, Whole, Remaining
<1>6. ReportInv'
  BY DEF SdccIInv, ReportInv, Report, Succeeded, Whole, Before, After, InTransfer, InCommand
<1>7. AnswerInv'
  BY DEF SdccIInv, AnswerInv, OwnAnswer
<1> QED
  BY <1>1, <1>2, <1>3, <1>4, <1>5, <1>6, <1>7 DEF SdccIInv

(* The card answers a command. *)
LEMMA CardAnswerStep ==
  ASSUME SdccIInv, CardAnswer
  PROVE  SdccIInv'
PROOF
<1> USE SdccAssumption DEF CardAnswer, request, locals, datapath
<1>1. TypeOK'
  <2>1. status' \subseteq StatusBits
    BY DEF SdccIInv, TypeOK, StatusBits, CmdBits, CmdErrors, Terminal
  <2> QED
    BY <2>1 DEF SdccIInv, TypeOK
<1>2. ClockCeiling'
  BY DEF SdccIInv, ClockCeiling
<1>3. PathInv'
  BY DEF SdccIInv, PathInv, InTransfer, InCommand
<1>4. FifoInv'
  BY DEF SdccIInv, FifoInv, PathInv, InTransfer, InCommand
<1>5. TransferInv'
  BY DEF SdccIInv, TransferInv, PathInv, InTransfer, InCommand, Whole, Remaining, Terminal,
     CmdErrors
<1>6. ReportInv'
  BY DEF SdccIInv, ReportInv, Report, Succeeded, Whole, Before, After, InTransfer, InCommand
<1>7. AnswerInv'
  BY DEF SdccIInv, AnswerInv, OwnAnswer
<1> QED
  BY <1>1, <1>2, <1>3, <1>4, <1>5, <1>6, <1>7 DEF SdccIInv

(* The card sends a word of a read. *)
LEMMA CardSendStep ==
  ASSUME SdccIInv, CardSend
  PROVE  SdccIInv'
PROOF
<1> USE SdccAssumption DEF CardSend, request, locals, datapath
<1>1. TypeOK'
  <2>1. mrq.words \in 1 .. Words /\ serial \in 0 .. 2 /\ Len(moved) \in Nat /\ Len(fifo) \in Nat
    BY Types
  <2>2. <<serial, Len(moved) + 1>> \in Word
    BY <2>1 DEF Word
  <2>3. Len(fifo') = Len(fifo) + 1 /\ Len(moved') = Len(moved) + 1
    BY <2>2, Types, AppendProperties
  <2>4. Len(fifo') <= FifoDepth /\ Len(moved') <= Words
    BY <2>1, <2>3
  <2> QED
    BY <2>1, <2>2, <2>3, <2>4 DEF SdccIInv, TypeOK
<1>2. ClockCeiling'
  BY DEF SdccIInv, ClockCeiling
<1>3. PathInv'
  BY DEF SdccIInv, PathInv, InTransfer, InCommand
<1>4. FifoInv'
  <2> DEFINE word == <<serial, Len(moved) + 1>>
  <2>1. word \in Word
    BY Types DEF Word
  <2>2. fifo' = Append(fifo, word) /\ moved' = Append(moved, word)
    OBVIOUS
  <2>3. FifoInv
    BY DEF SdccIInv
  <2>4. /\ fifo' \in Seq(Word) /\ Len(fifo') = Len(fifo) + 1 /\ fifo'[Len(fifo) + 1] = word
        /\ \A i \in 1 .. Len(fifo) : fifo'[i] = fifo[i]
    BY <2>1, <2>2, Types, AppendProperties
  <2>5. /\ moved' \in Seq(Word) /\ Len(moved') = Len(moved) + 1 /\ moved'[Len(moved) + 1] = word
        /\ \A i \in 1 .. Len(moved) : moved'[i] = moved[i]
    BY <2>1, <2>2, Types, AppendProperties
  <2>6. \A i \in 1 .. Len(moved') : moved'[i] = <<serial, i>>
    BY <2>3, <2>5, Types DEF FifoInv
  <2>7. \A i \in 1 .. Len(fifo') : fifo'[i] = <<serial, transferred + i>>
    <3>1. /\ Len(moved) = transferred + Len(fifo)
          /\ \A i \in 1 .. Len(fifo) : fifo[i] = <<serial, transferred + i>>
      BY <2>3 DEF FifoInv
    <3>2. fifo'[Len(fifo) + 1] = <<serial, transferred + (Len(fifo) + 1)>>
      BY <2>4, <3>1, Types
    <3> HIDE DEF word
    <3>3. ASSUME NEW i \in 1 .. Len(fifo')
          PROVE  fifo'[i] = <<serial, transferred + i>>
      <4>1. i \in 1 .. Len(fifo) \/ i = Len(fifo) + 1
        BY <2>4, Types
      <4> QED
        BY <2>4, <3>1, <3>2, <4>1
    <3> QED
      BY <3>3
  <2> HIDE DEF word
  <2> QED
    BY <2>3, <2>4, <2>5, <2>6, <2>7, Types DEF FifoInv
<1>5. TransferInv'
  BY DEF SdccIInv, TransferInv, PathInv, InTransfer, InCommand, Whole, Remaining
<1>6. ReportInv'
  BY DEF SdccIInv, ReportInv, Report, Succeeded, Whole, Before, After, InTransfer, InCommand
<1>7. AnswerInv'
  BY DEF SdccIInv, AnswerInv, OwnAnswer
<1> QED
  BY <1>1, <1>2, <1>3, <1>4, <1>5, <1>6, <1>7 DEF SdccIInv

(* The card takes a word of a write. *)
LEMMA CardTakeStep ==
  ASSUME SdccIInv, CardTake
  PROVE  SdccIInv'
PROOF
<1> USE SdccAssumption DEF CardTake, request, locals, datapath
<1>1. TypeOK'
  <2>1. mrq.words \in 1 .. Words /\ Len(moved) \in Nat /\ Len(fifo) \in Nat
    BY Types
  <2>2. Head(fifo) \in Word /\ Len(fifo') = Len(fifo) - 1
    BY Types, HeadTailProperties
  <2>3. Len(moved') = Len(moved) + 1
    BY <2>2, Types, AppendProperties
  <2>4. Len(fifo) <= FifoDepth
    BY DEF SdccIInv, TypeOK
  <2>5. Len(fifo') <= FifoDepth /\ Len(moved') <= Words
    BY <2>1, <2>2, <2>3, <2>4
  <2> QED
    BY <2>1, <2>2, <2>3, <2>4, <2>5 DEF SdccIInv, TypeOK
<1>2. ClockCeiling'
  BY DEF SdccIInv, ClockCeiling
<1>3. PathInv'
  BY DEF SdccIInv, PathInv, InTransfer, InCommand
<1>4. FifoInv'
  <2> DEFINE word == Head(fifo)
  <2>1. FifoInv
    BY DEF SdccIInv
  <2>2. word \in Word /\ word = fifo[1]
    BY Types, HeadTailProperties
  <2>3. fifo[1] = <<serial, Len(moved) + 1>> /\ Len(fifo) >= 1
    BY <2>1, Types, EmptySeq DEF FifoInv
  <2>4. moved' = Append(moved, word) /\ fifo' = Tail(fifo)
    OBVIOUS
  <2>5. /\ fifo' \in Seq(Word) /\ Len(fifo') = Len(fifo) - 1
        /\ \A i \in 1 .. Len(fifo') : fifo'[i] = fifo[i + 1]
    BY <2>4, Types, HeadTailProperties
  <2> HIDE DEF word
  <2>6. /\ moved' \in Seq(Word) /\ Len(moved') = Len(moved) + 1 /\ moved'[Len(moved) + 1] = word
        /\ \A i \in 1 .. Len(moved) : moved'[i] = moved[i]
    BY <2>2, <2>4, Types, AppendProperties
  <2>7. \A i \in 1 .. Len(moved') : moved'[i] = <<serial, i>>
    BY <2>1, <2>2, <2>3, <2>6, Types DEF FifoInv
  <2>8. \A i \in 1 .. Len(fifo') : fifo'[i] = <<serial, Len(moved') + i>>
    BY <2>1, <2>5, <2>6, Types DEF FifoInv
  <2> QED
    BY <2>1, <2>5, <2>6, <2>7, <2>8, Types DEF FifoInv
<1>5. TransferInv'
  BY DEF SdccIInv, TransferInv, PathInv, InTransfer, InCommand, Whole, Remaining
<1>6. ReportInv'
  BY DEF SdccIInv, ReportInv, Report, Succeeded, Whole, Before, After, InTransfer, InCommand
<1>7. AnswerInv'
  BY DEF SdccIInv, AnswerInv, OwnAnswer
<1> QED
  BY <1>1, <1>2, <1>3, <1>4, <1>5, <1>6, <1>7 DEF SdccIInv

(* The block ends, well or badly. *)
LEMMA CardEndStep ==
  ASSUME SdccIInv, CardEnd
  PROVE  SdccIInv'
PROOF
<1> USE SdccAssumption DEF CardEnd, request, locals, datapath
<1>1. TypeOK'
  <2>1. status' \subseteq StatusBits
    BY DEF SdccIInv, TypeOK, StatusBits
  <2> QED
    BY <2>1 DEF SdccIInv, TypeOK
<1>2. ClockCeiling'
  BY DEF SdccIInv, ClockCeiling
<1>3. PathInv'
  BY DEF SdccIInv, PathInv, InTransfer, InCommand
<1>4. FifoInv'
  BY DEF SdccIInv, FifoInv, PathInv, InTransfer, InCommand
<1>5. TransferInv'
  <2>1. TransferInv /\ FifoInv
    BY DEF SdccIInv
  <2>2. \/ stored' = moved /\ Len(moved) = mrq.words
        \/ /\ stored' = stored
           /\ dpsm = "write" => ("DATA_END" \in status' <=> "DATA_END" \in status)
    BY DEF DataErrors
  <2>3. Len(moved) = mrq.words => moved = Whole
    <3>1. moved \in [1 .. Len(moved) -> Word]
      BY Types, LenProperties
    <3> QED
      BY <2>1, <3>1 DEF FifoInv, Whole
  <2> QED
    BY <2>1, <2>2, <2>3 DEF TransferInv, InTransfer, Whole, Remaining
<1>6. ReportInv'
  <2>1. ReportInv /\ ~After
    BY DEF SdccIInv, PathInv, After, InTransfer, InCommand
  <2> QED
    BY <2>1 DEF ReportInv, Before, After, InTransfer, InCommand
<1>7. AnswerInv'
  BY DEF SdccIInv, AnswerInv, OwnAnswer, CmdBits, CmdErrors, DataErrors
<1> QED
  BY <1>1, <1>2, <1>3, <1>4, <1>5, <1>6, <1>7 DEF SdccIInv

(* The tick. *)
LEMMA TickStep ==
  ASSUME SdccIInv, Tick
  PROVE  SdccIInv'
PROOF
<1> USE SdccAssumption DEF Tick, request, locals, datapath
<1>1. TypeOK'
  <2>1. jiffies' \in 0 .. Jiffies - 1
    BY DEF SdccIInv, TypeOK
  <2>2. /\ UNCHANGED <<pc, mrq, serial, cmd, error, last, deadline, transferred, bounce>>
        /\ UNCHANGED <<result, memory, ios, cpsm, status, dpsm, fifo, moved, ended, stored>>
    OBVIOUS
  <2>3. TypeOK
    BY DEF SdccIInv
  <2> HIDE DEF Tick, request, locals, datapath
  <2>4. /\ pc' \in Steps /\ mrq' \in Request /\ serial' \in {0, 1}
        /\ cmd' \in {"sbc", "cmd", "stop"}
        /\ error' \in Errors /\ last' \subseteq StatusBits /\ status' \subseteq StatusBits
    BY <2>2, <2>3 DEF TypeOK, Steps
  <2>5. deadline' \in 0 .. Jiffies - 1 /\ transferred' \in 0 .. mrq'.words
    BY <2>2, <2>3 DEF TypeOK
  <2>6. /\ bounce' \in [1 .. Words -> (0 .. 2) \X (1 .. Words)]
        /\ memory' \in [1 .. Words -> (0 .. 2) \X (1 .. Words)]
    BY <2>2, <2>3 DEF TypeOK
  <2>7. /\ result' \in [sbc : Errors, cmd : Errors, stop : Errors, data : Errors,
                        bytes : 0 .. Words]
        /\ ios' \in [asked : Nat, actual : 0 .. Mclk, power : {"OFF", "UP", "ON"}]
    BY <2>2, <2>3 DEF TypeOK
  <2>8. /\ cpsm' \in BOOLEAN /\ ended' \in BOOLEAN /\ dpsm' \in {"off", "read", "write"}
        /\ Len(fifo') <= FifoDepth /\ Len(moved') <= Words
    BY <2>2, <2>3 DEF TypeOK
  <2> QED
    BY <2>1, <2>4, <2>5, <2>6, <2>7, <2>8 DEF TypeOK, Steps
<1>2. ClockCeiling'
  BY DEF SdccIInv, ClockCeiling
<1>3. PathInv'
  BY DEF SdccIInv, PathInv, InTransfer, InCommand
<1>4. FifoInv'
  BY DEF SdccIInv, FifoInv, PathInv, InTransfer, InCommand
<1>5. TransferInv'
  BY DEF SdccIInv, TransferInv, PathInv, InTransfer, InCommand, Whole, Remaining
<1>6. ReportInv'
  BY DEF SdccIInv, ReportInv, Report, Succeeded, Whole, Before, After, InTransfer, InCommand
<1>7. AnswerInv'
  BY DEF SdccIInv, AnswerInv, OwnAnswer
<1> QED
  BY <1>1, <1>2, <1>3, <1>4, <1>5, <1>6, <1>7 DEF SdccIInv

-----------------------------------------------------------------------------
(* The theorems *)

(* Every step, or none, keeps the invariant. *)
LEMMA NextStep ==
  ASSUME SdccIInv, [Next]_vars
  PROVE  SdccIInv'
PROOF
<1>1. CASE StartRequest
  BY <1>1, StartRequestStep
<1>2. CASE SetIos
  BY <1>2, SetIosStep
<1>3. CASE SendSbc
  BY <1>3, SendSbcStep
<1>4. CASE SendStop
  BY <1>4, SendStopStep
<1>5. CASE SendMain
  BY <1>5, SendMainStep
<1>6. CASE StartWrite
  BY <1>6, StartWriteStep
<1>7. CASE CommandPoll
  BY <1>7, CommandPollStep
<1>8. CASE CommandClock
  BY <1>8, CommandClockStep
<1>9. CASE FinishCommand
  BY <1>9, FinishCommandStep
<1>10. CASE BeginTransfer
  BY <1>10, BeginTransferStep
<1>11. CASE TransferLoop
  BY <1>11, TransferLoopStep
<1>12. CASE TransferWord
  BY <1>12, TransferWordStep
<1>13. CASE EndPoll
  BY <1>13, EndPollStep
<1>14. CASE EndClock
  BY <1>14, EndClockStep
<1>15. CASE FinishTransfer
  BY <1>15, FinishTransferStep
<1>16. CASE Done
  BY <1>16, DoneStep
<1>17. CASE CardAnswer
  BY <1>17, CardAnswerStep
<1>18. CASE CardSend
  BY <1>18, CardSendStep
<1>19. CASE CardTake
  BY <1>19, CardTakeStep
<1>20. CASE CardEnd
  BY <1>20, CardEndStep
<1>21. CASE Tick
  BY <1>21, TickStep
<1>22. CASE UNCHANGED vars
  <2> USE <1>22 DEF vars, request, locals, datapath, SdccIInv
  <2>1. TypeOK' /\ ClockCeiling'
    BY DEF TypeOK, ClockCeiling
  <2>2. PathInv' /\ FifoInv'
    BY DEF PathInv, FifoInv
  <2>3. TransferInv'
    BY DEF TransferInv, Remaining, Whole
  <2>4. ReportInv'
    BY DEF ReportInv, Before, After, Report, Succeeded, Whole
  <2>5. AnswerInv'
    BY DEF AnswerInv, OwnAnswer
  <2> QED
    BY <2>1, <2>2, <2>3, <2>4, <2>5
<1> QED
  BY <1>1, <1>2, <1>3, <1>4, <1>5, <1>6, <1>7, <1>8, <1>9, <1>10, <1>11, <1>12, <1>13, <1>14,
     <1>15, <1>16, <1>17, <1>18, <1>19, <1>20, <1>21, <1>22 DEF Next, Driver, Card

(* The inductive invariant: the data path runs when the driver believes it  *)
(* does, its words are this request's in order, and what was reported so    *)
(* far is what happened.                                                    *)
THEOREM SpecSdccIInv == Spec => []SdccIInv
PROOF
<1>1. Init => SdccIInv
  BY InitStep
<1>2. SdccIInv /\ [Next]_vars => SdccIInv'
  BY NextStep
<1> QED
  BY <1>1, <1>2, PTL DEF Spec

(* Every variable keeps its type, the data path is off and its FIFO empty   *)
(* between requests, and the card's clock is never above the one asked for. *)
THEOREM SpecSdccInv == Spec => []SdccInv
PROOF
<1>1. SdccIInv => SdccInv
  BY DEF SdccIInv, SdccInv, DataPathQuiet, PathInv, InTransfer, InCommand
<1> QED
  BY <1>1, SpecSdccIInv, PTL

(* What the core is told is what happened to the block: bytes_xfered, the   *)
(* pages of a read and the card's copy of a write, for every length, FIFO   *)
(* depth and timeout.                                                       *)
THEOREM SpecReportTrue == Spec => []ReportTrue
PROOF
<1>1. SdccIInv => ReportTrue
  BY DEF SdccIInv, ReportInv, After, Report, ReportTrue, Whole
<1> QED
  BY <1>1, SpecSdccIInv, PTL

(* A command taken as successful was answered itself, however late an       *)
(* earlier command's answer came.                                           *)
THEOREM SpecOwnAnswer == Spec => []OwnAnswer
PROOF
<1>1. SdccIInv => OwnAnswer
  BY DEF SdccIInv, AnswerInv
<1> QED
  BY <1>1, SpecSdccIInv, PTL

(* A completion that arrived with the response is not cleared before the    *)
(* transfer has read it: while the data path runs, only the end of its      *)
(* command writes MCI_CLEAR, and that clears command bits.                  *)
THEOREM SpecCompletionKept == Spec => CompletionKept
PROOF
<1> DEFINE Kept == dpsm # "off" /\ dpsm' # "off" /\ "DATA_END" \in status => "DATA_END" \in status'
<1>1. ASSUME SdccIInv, [Next]_vars
      PROVE  Kept
  <2> SUFFICES ASSUME dpsm # "off", dpsm' # "off", "DATA_END" \in status, "DATA_END" \notin status'
               PROVE  FALSE
    OBVIOUS
  <2>1. PathInv
    BY <1>1 DEF SdccIInv
  <2>2. pc \in InTransfer \cup InCommand
    BY <2>1 DEF PathInv
  <2>3. SendSbc \/ SendStop \/ SendMain \/ StartWrite \/ FinishCommand \/ FinishTransfer
    BY <1>1 DEF Next, Driver, Card, vars, locals, datapath, StartRequest, SetIos, CommandPoll,
       CommandClock,
         BeginTransfer, TransferLoop, TransferWord, EndPoll, EndClock, Poll, PollClock, Done,
         CardAnswer, CardSend, CardTake, CardEnd, Tick
  <2>4. FinishCommand \/ FinishTransfer
    BY <2>2, <2>3 DEF SendSbc, SendStop, SendMain, StartWrite, InTransfer, InCommand
  <2>5. CASE FinishCommand
    BY <2>5 DEF FinishCommand, ClearCommand, CmdBits, CmdErrors
  <2>6. CASE FinishTransfer
    BY <2>6 DEF FinishTransfer, StopData
  <2> QED
    BY <2>4, <2>5, <2>6
<1>2. SdccIInv /\ [Next]_vars => [Kept]_vars
  BY <1>1
<1>3. CompletionKept <=> [][Kept]_vars
  BY DEF CompletionKept
<1> QED
  BY <1>2, <1>3, SpecSdccIInv, PTL DEF Spec
=============================================================================
