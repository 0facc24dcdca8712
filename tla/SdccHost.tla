------------------------------ MODULE SdccHost ------------------------------
(***************************************************************************)
(* The polling PL180 host of the microSD slot (sdcc-shadow-msm.c).         *)
(*                                                                         *)
(* The MMC core hands over one request at a time.  shadow_sdcc_request()   *)
(* writes the controller's registers and polls MCI_STATUS until the        *)
(* command, each FIFO word and the end of the block are there or jiffies   *)
(* pass a deadline.  Meanwhile the controller and the card set status      *)
(* bits and move words, and the timer tick advances jiffies, between any   *)
(* two register accesses of the driver.                                    *)
(*                                                                         *)
(* A word is <<serial, index>>: serial tells a request from the one before *)
(* it, so a stale word is visible wherever it ends up.  MCI_STATUS is a    *)
(* set of names; its FIFO flags are read off the FIFO itself.              *)
(***************************************************************************)
EXTENDS Integers, Sequences, FiniteSetsExt

CONSTANTS Words,     (* words in the longest block: max_blk_size / 4         *)
          FifoDepth, (* words MCI_FIFO holds                                 *)
          Jiffies,   (* modulus of jiffies                                   *)
          CmdTicks,  (* SHADOW_CMD_TIMEOUT_MS in jiffies                     *)
          DataTicks, (* SHADOW_DATA_TIMEOUT_MS in jiffies                    *)
          Requests,  (* the requests the MMC core makes                      *)
          Settings   (* the (clock in kHz, power mode) pairs it sets         *)

(* words: blksz / 4, less than Words for the card's registers; fits: one     *)
(* block, of a length that is a power of two and at most max_blk_size.       *)
Request == [dir : {"none", "read", "write"}, words : 1 .. Words, fits : BOOLEAN,
            sbc : BOOLEAN, stop : BOOLEAN, rsp : {"none", "plain", "crc"}]

ASSUME SdccAssumption ==
  /\ Words \in Nat \ {0} /\ FifoDepth \in Nat \ {0}
  /\ Jiffies \in Nat /\ CmdTicks \in Nat /\ DataTicks \in Nat
  /\ 2 * CmdTicks < Jiffies /\ 2 * DataTicks < Jiffies
  /\ Requests \subseteq Request
  /\ Settings \subseteq Nat \X {"OFF", "UP", "ON"}

VARIABLES
  pc,          (* the step of shadow_sdcc_request(), "idle" outside it       *)
  mrq,         (* the request                                                *)
  serial,      (* history: which request, 0 or 1 in turn                     *)
  cmd,         (* the command on the wire: request->sbc, ->cmd or ->stop     *)
  error,       (* the local variable "error"                                 *)
  last,        (* the local variable "status"                                *)
  deadline,    (* of the wait in progress                                    *)
  transferred, (* words moved through the FIFO by the driver                 *)
  bounce,      (* host->bounce                                               *)
  result,      (* the error fields and bytes_xfered the core reads           *)
  memory,      (* what the request's scatterlist holds                       *)
  ios,         (* MCI_CLOCK's divisor, the clock asked for, MCI_POWER        *)
  jiffies,
  cpsm,        (* the controller waits for the answer of a command           *)
  status,      (* the static bits of MCI_STATUS                              *)
  dpsm,        (* MCI_DATACTRL: "off", "read" or "write"                     *)
  fifo,        (* MCI_FIFO, oldest word first                                *)
  moved,       (* words of this block that went between FIFO and card        *)
  ended,       (* the data path has reported the end of the block            *)
  stored       (* history: the block the card committed for this request     *)

request == <<mrq, serial>>
locals == <<cmd, error, last, deadline, transferred, bounce>>
datapath == <<dpsm, fifo, moved, ended, stored>>
vars == <<pc, request, locals, result, memory, ios, jiffies, cpsm, status, datapath>>

-----------------------------------------------------------------------------
(* Time and status *)

(* Mutant: the two counters are compared as plain numbers.                  *)
TimeAfterPlain(b) == jiffies > b
(* time_after(jiffies, b): the signed difference is negative.               *)
TimeAfter(b) == (b - jiffies) % Jiffies >= (Jiffies + 1) \div 2
In(ticks) == (jiffies + ticks) % Jiffies

CmdErrors == {"CMD_CRC_FAIL", "CMD_TIMEOUT"}
CmdBits == CmdErrors \cup {"CMD_RESP_END", "CMD_SENT"}
(* TX_UNDERRUN, RX_OVERRUN and START_BIT_ERR are one bit here: the driver   *)
(* reports each of them as -EIO.                                            *)
DataErrors == {"DATA_CRC_FAIL", "DATA_TIMEOUT", "DATA_OTHER"}
StatusBits == CmdBits \cup DataErrors \cup {"DATA_END"}

Rsp == IF cmd = "cmd" THEN mrq.rsp ELSE "crc"
Terminal == IF Rsp = "none" THEN "CMD_SENT" ELSE "CMD_RESP_END"

(* The answer of a command without MMC_RSP_CRC is taken despite a bad CRC.  *)
CommandError(bits) ==
  IF "CMD_TIMEOUT" \in bits THEN "ETIMEDOUT"
  ELSE IF "CMD_CRC_FAIL" \in bits /\ Rsp = "crc" THEN "EILSEQ" ELSE "none"

DataError(bits) ==
  IF "DATA_TIMEOUT" \in bits THEN "ETIMEDOUT"
  ELSE IF "DATA_CRC_FAIL" \in bits THEN "EILSEQ" ELSE "EIO"

Errors == {"none", "ETIMEDOUT", "EILSEQ", "EIO", "EINVAL"}
Blank == [i \in 1 .. Words |-> <<2, i>>]
(* Memory whose first k words are those of request n.                       *)
Block(n, k) == [i \in 1 .. Words |-> IF i <= k THEN <<n, i>> ELSE Blank[i]]
NoRequest ==
  [dir |-> "none", words |-> 1, fits |-> TRUE, sbc |-> FALSE, stop |-> FALSE, rsp |-> "none"]
NoResult == [sbc |-> "none", cmd |-> "none", stop |-> "none", data |-> "none", bytes |-> 0]

-----------------------------------------------------------------------------
(* shadow_sdcc_request() *)

(* Entry: the core has cleared the error fields; a read finds whatever the  *)
(* pages held, a write its data.                                            *)
StartRequest ==
  \E r \in Requests :
    /\ pc = "idle" /\ ios.power = "ON" /\ ios.asked > 0
    /\ mrq' = r /\ serial' = 1 - serial
    /\ memory' = IF r.dir = "write" THEN Block(serial', r.words) ELSE Blank
    /\ result' = NoResult
    /\ pc' = IF r.sbc THEN "sbc" ELSE "main"
    /\ UNCHANGED <<locals, ios, jiffies, cpsm, status, datapath>>

(* Mutant: the status is not cleared before the command.                    *)
IssueOverStatus(c) ==
  /\ cmd' = c /\ cpsm' = TRUE /\ status' = status
  /\ deadline' = In(CmdTicks) /\ pc' = "poll"
  /\ UNCHANGED <<error, last, transferred, bounce>>
(* shadow_sdcc_command() up to its wait: the command register is zeroed     *)
(* before the status is cleared, so no late answer slips in between.        *)
IssueCommand(c) ==
  /\ cmd' = c /\ cpsm' = TRUE /\ status' = {}
  /\ deadline' = In(CmdTicks) /\ pc' = "poll"
  /\ UNCHANGED <<error, last, transferred, bounce>>

(* shadow_sdcc_start_data(): the data path is enabled with a clean status   *)
(* and an empty FIFO (disabling it resets the FIFO's pointers).             *)
StartData ==
  /\ dpsm' = mrq.dir /\ fifo' = <<>> /\ moved' = <<>> /\ ended' = FALSE
  /\ status' = {}
  /\ UNCHANGED stored

SendSbc ==
  /\ pc = "sbc" /\ IssueCommand("sbc")
  /\ UNCHANGED <<request, result, memory, ios, jiffies, datapath>>

SendStop ==
  /\ pc = "stop" /\ IssueCommand("stop")
  /\ UNCHANGED <<request, result, memory, ios, jiffies, datapath>>

(* A read starts its data path before the command.  -EINVAL: not one block, *)
(* too long, or a length that is no power of two.                           *)
SendMain ==
  /\ pc = "main"
  /\ \/ /\ mrq.dir = "read" /\ ~mrq.fits
        /\ result' = [result EXCEPT !.cmd = "EINVAL", !.data = "EINVAL"]
        /\ pc' = "done" /\ UNCHANGED <<locals, cpsm, status, datapath>>
     \/ /\ mrq.dir = "read" /\ mrq.fits
        /\ StartData /\ IssueCommand("cmd") /\ UNCHANGED result
     \/ /\ mrq.dir # "read"
        /\ IssueCommand("cmd") /\ UNCHANGED <<result, datapath>>
  /\ UNCHANGED <<request, memory, ios, jiffies>>

(* A write starts its data path after the command was answered.             *)
StartWrite ==
  /\ pc = "write"
  /\ \/ /\ ~mrq.fits
        /\ result' = [result EXCEPT !.data = "EINVAL"]
        /\ pc' = "done" /\ UNCHANGED <<status, datapath>>
     \/ /\ mrq.fits /\ StartData /\ pc' = "transfer" /\ UNCHANGED result
  /\ UNCHANGED <<request, locals, memory, ios, jiffies, cpsm>>

-----------------------------------------------------------------------------
(* shadow_sdcc_wait_status() and the rest of shadow_sdcc_command() *)

(* One read of MCI_STATUS in a wait for one of "wanted".                    *)
Poll(wanted, errors, found, again) ==
  /\ last' = status
  /\ pc' = IF status \cap (errors \cup wanted) # {} THEN found ELSE again
  /\ UNCHANGED <<request, cmd, deadline, transferred, bounce, result, memory,
                 ios, jiffies, cpsm, status, datapath>>

(* One look at jiffies in that wait; a wait that is over reads once more.   *)
PollClock(found, again) ==
  /\ IF TimeAfter(deadline)
     THEN pc' = found /\ last' = status /\ error' = "ETIMEDOUT"
     ELSE pc' = again /\ UNCHANGED <<last, error>>
  /\ UNCHANGED <<request, cmd, deadline, transferred, bounce, result, memory,
                 ios, jiffies, cpsm, status, datapath>>

CommandPoll ==
  /\ pc = "poll" /\ Poll({Terminal}, CmdErrors, "clear", "clock")
  /\ error' = CommandError(status)

CommandClock == pc = "clock" /\ PollClock("clear", "poll")

(* Mutant: everything is cleared, as before a command.                      *)
ClearAll == status' = {}
(* What the end of a command clears: only the command bits that were read.  *)
ClearCommand == status' = status \ (last \cap CmdBits)

(* Mutant: it is left running.                                              *)
LeaveData == UNCHANGED datapath
(* Zero in MCI_DATACTRL: the data path and its counters are reset.          *)
StopData ==
  /\ dpsm' = "off" /\ fifo' = <<>> /\ moved' = <<>> /\ ended' = FALSE /\ UNCHANGED stored

AfterMain ==
  IF mrq.dir = "write" THEN "write"
  ELSE IF mrq.dir = "read" THEN "transfer"
  ELSE IF mrq.stop THEN "stop" ELSE "done"

FinishCommand ==
  /\ pc = "clear" /\ ClearCommand
  /\ \/ /\ cmd # "cmd"
        /\ result' = [result EXCEPT ![cmd] = error]
        /\ pc' = IF cmd = "sbc" /\ error = "none" THEN "main" ELSE "done"
        /\ UNCHANGED datapath
     \/ /\ cmd = "cmd" /\ error = "none"
        /\ pc' = AfterMain /\ UNCHANGED <<result, datapath>>
     \/ /\ cmd = "cmd" /\ error # "none" /\ pc' = "done"
        /\ IF mrq.dir = "none"
           THEN result' = [result EXCEPT !.cmd = error] /\ UNCHANGED datapath
           ELSE result' = [result EXCEPT !.cmd = error, !.data = error] /\ StopData
  /\ UNCHANGED <<request, locals, memory, ios, jiffies, cpsm>>

-----------------------------------------------------------------------------
(* shadow_sdcc_transfer_data() *)

BeginTransfer ==
  /\ pc = "transfer" /\ pc' = "loop"
  /\ deadline' = In(DataTicks) /\ transferred' = 0 /\ error' = "none" /\ last' = {}
  /\ bounce' = IF mrq.dir = "write" THEN memory ELSE bounce
  /\ UNCHANGED <<request, cmd, result, memory, ios, jiffies, cpsm, status, datapath>>

Remaining == transferred < mrq.words

(* The while condition.  Once every word is moved, the wait for DATA_END    *)
(* starts with a deadline of its own.                                       *)
TransferLoop ==
  /\ pc = "loop"
  /\ \/ /\ Remaining /\ ~TimeAfter(deadline)
        /\ pc' = "word" /\ UNCHANGED <<error, deadline>>
     \/ /\ Remaining /\ TimeAfter(deadline)
        /\ error' = "ETIMEDOUT" /\ pc' = "finish" /\ UNCHANGED deadline
     \/ /\ ~Remaining
        /\ pc' = "endPoll" /\ deadline' = In(DataTicks) /\ UNCHANGED error
  /\ UNCHANGED <<request, cmd, last, transferred, bounce, result, memory, ios,
                 jiffies, cpsm, status, datapath>>

(* The loop's body.  Between its read of the status and its FIFO access the *)
(* FIFO can only gain words (read) or room (write), so one step is enough.  *)
TransferWord ==
  /\ pc = "word" /\ last' = status
  /\ \/ /\ status \cap DataErrors # {}
        /\ error' = DataError(status) /\ pc' = "finish"
        /\ UNCHANGED <<transferred, bounce, fifo>>
     \/ /\ status \cap DataErrors = {} /\ pc' = "loop" /\ UNCHANGED error
        /\ \/ /\ mrq.dir = "read" /\ fifo # <<>>
              /\ bounce' = [bounce EXCEPT ![transferred + 1] = Head(fifo)]
              /\ fifo' = Tail(fifo) /\ transferred' = transferred + 1
           \/ /\ mrq.dir = "write" /\ Len(fifo) < FifoDepth
              /\ fifo' = Append(fifo, bounce[transferred + 1])
              /\ transferred' = transferred + 1 /\ UNCHANGED bounce
           \/ /\ IF mrq.dir = "read" THEN fifo = <<>> ELSE Len(fifo) = FifoDepth
              /\ UNCHANGED <<fifo, transferred, bounce>>
  /\ UNCHANGED <<request, cmd, deadline, result, memory, ios, jiffies, cpsm,
                 status, dpsm, moved, ended, stored>>

(* Mutant: the words are all there, so the request is taken as done.        *)
EndAtOnce ==
  /\ pc = "endPoll" /\ Poll({}, {}, "finish", "finish") /\ error' = "none"
EndPoll ==
  /\ pc = "endPoll" /\ Poll({"DATA_END"}, DataErrors, "finish", "endClock")
  /\ error' = IF status \cap DataErrors = {} THEN "none" ELSE DataError(status)

EndClock == pc = "endClock" /\ PollClock("finish", "endPoll")

(* sg_copy_from_buffer(): a read that went well, size bytes of the bounce   *)
(* buffer.                                                                  *)
Copied(i) == error = "none" /\ mrq.dir = "read" /\ i <= mrq.words

FinishTransfer ==
  /\ pc = "finish"
  /\ memory' = [i \in 1 .. Words |-> IF Copied(i) THEN bounce[i] ELSE memory[i]]
  /\ result' = [result EXCEPT !.data = error, !.bytes = IF error = "none" THEN mrq.words ELSE 0]
  /\ StopData /\ status' = status \ last
  /\ pc' = IF mrq.stop THEN "stop" ELSE "done"
  /\ UNCHANGED <<request, locals, ios, jiffies, cpsm>>

-----------------------------------------------------------------------------
(* The label "done": mmc_request_done() hands the request back.  The locals *)
(* are gone, and its fields and pages are the core's again.                 *)
Done ==
  /\ pc = "done" /\ pc' = "idle"
  /\ mrq' = NoRequest /\ result' = NoResult /\ memory' = Blank
  /\ cmd' = "cmd" /\ error' = "none" /\ last' = {} /\ deadline' = 0 /\ transferred' = 0
  /\ stored' = <<>>
  /\ UNCHANGED <<serial, bounce, ios, jiffies, cpsm, status, dpsm, fifo, moved, ended>>

-----------------------------------------------------------------------------
(* shadow_sdcc_set_ios() *)

Mclk == 16000 \* kHz

(* The divisor written for a clock of f kHz, below MCLK.                    *)
Divisor(f) == LET d == Mclk \div (2 * f) IN Min({IF d > 0 THEN d - 1 ELSE 0, 255})

(* The clock the card gets: none, MCLK itself or a division of it.          *)
CardClock(f) ==
  IF f = 0 THEN 0
  ELSE IF f >= Mclk THEN Mclk ELSE Mclk \div (2 * (Divisor(f) + 1))

(* The clocks the core sets: none, f_min to identify a card and f_max to    *)
(* transfer, which every SD card reaches.  Both divide MCLK; between two    *)
(* divisions the divisor would be rounded down, and the clock up.           *)
IdentClock == 400
TransferClock == 4000
ASSUME ClockAssumption == \A s \in Settings : s[1] \in {0, IdentClock, TransferClock}

SetIos ==
  \E s \in Settings :
    /\ pc = "idle"
    /\ ios' = [asked |-> s[1], actual |-> CardClock(s[1]), power |-> s[2]]
    /\ UNCHANGED <<pc, request, locals, result, memory, jiffies, cpsm, status, datapath>>

-----------------------------------------------------------------------------
(* The controller, the card and the tick.  None of them is in src/: they    *)
(* do what the driver's register accesses rely on.                          *)

CardAnswer ==
  /\ cpsm /\ cpsm' = FALSE
  /\ \E bit \in {Terminal, "CMD_TIMEOUT"} \cup (IF Rsp = "none" THEN {} ELSE CmdErrors) :
       status' = status \cup {bit}
  /\ UNCHANGED <<pc, request, locals, result, memory, ios, jiffies, datapath>>

(* A read's words may come before the driver has seen the response.         *)
CardSend ==
  /\ dpsm = "read" /\ ~ended /\ Len(moved) < mrq.words /\ Len(fifo) < FifoDepth
  /\ LET word == <<serial, Len(moved) + 1>>
     IN fifo' = Append(fifo, word) /\ moved' = Append(moved, word)
  /\ UNCHANGED <<pc, request, locals, result, memory, ios, jiffies, cpsm, status,
                 dpsm, ended, stored>>

CardTake ==
  /\ dpsm = "write" /\ ~ended /\ fifo # <<>> /\ Len(moved) < mrq.words
  /\ moved' = Append(moved, Head(fifo)) /\ fifo' = Tail(fifo)
  /\ UNCHANGED <<pc, request, locals, result, memory, ios, jiffies, cpsm, status,
                 dpsm, ended, stored>>

(* The end of the block after its CRC was good, or an error at any time.    *)
CardEnd ==
  /\ dpsm # "off" /\ ~ended /\ ended' = TRUE
  /\ \/ /\ Len(moved) = mrq.words /\ status' = status \cup {"DATA_END"}
        /\ stored' = IF dpsm = "write" THEN moved ELSE stored
     \/ /\ \E bit \in DataErrors : status' = status \cup {bit}
        /\ UNCHANGED stored
  /\ UNCHANGED <<pc, request, locals, result, memory, ios, jiffies, cpsm, dpsm,
                 fifo, moved>>

Waiting == {"poll", "clock", "loop", "word", "endPoll", "endClock"}

(* Assumption: a waiting driver looks at the clock at least once in the     *)
(* half period after its deadline (248 days at 100 Hz).                     *)
Punctual == pc \in Waiting => (jiffies - deadline) % Jiffies # Jiffies \div 2

Tick ==
  /\ Punctual /\ jiffies' = (jiffies + 1) % Jiffies
  /\ UNCHANGED <<pc, request, locals, result, memory, ios, cpsm, status, datapath>>

-----------------------------------------------------------------------------

(* shadow_sdcc_prepare_hardware() leaves the controller off and quiet.      *)
Init ==
  /\ pc = "idle"
  /\ mrq = NoRequest
  /\ serial = 0 /\ cmd = "cmd" /\ error = "none" /\ last = {} /\ deadline = 0
  /\ transferred = 0 /\ bounce = Blank /\ result = NoResult /\ memory = Blank
  /\ ios = [asked |-> 0, actual |-> 0, power |-> "OFF"]
  /\ jiffies = Jiffies - 1 \* INITIAL_JIFFIES: the wrap comes early
  /\ cpsm = FALSE /\ status = {} /\ dpsm = "off" /\ fifo = <<>> /\ moved = <<>>
  /\ ended = FALSE /\ stored = <<>>

Driver ==
  \/ SendSbc \/ SendMain \/ SendStop \/ StartWrite
  \/ CommandPoll \/ CommandClock \/ FinishCommand
  \/ BeginTransfer \/ TransferLoop \/ TransferWord \/ EndPoll \/ EndClock
  \/ FinishTransfer \/ Done
Card == CardAnswer \/ CardSend \/ CardTake \/ CardEnd
Next == StartRequest \/ SetIos \/ Driver \/ Card \/ Tick

(* The driver polls and the tick goes on; nothing is expected of the card.  *)
Spec == Init /\ [][Next]_vars /\ WF_vars(Driver) /\ WF_vars(Tick)

-----------------------------------------------------------------------------
(* Properties *)

(* Every variable has its type; no wait moves more than a block.            *)
TypeOK ==
  /\ pc \in Waiting \cup {"idle", "done", "sbc", "main", "stop", "write", "transfer",
                         "clear", "finish"}
  /\ mrq \in Request /\ serial \in {0, 1} /\ cmd \in {"sbc", "cmd", "stop"}
  /\ error \in Errors /\ last \subseteq StatusBits /\ status \subseteq StatusBits
  /\ deadline \in 0 .. Jiffies - 1 /\ jiffies \in 0 .. Jiffies - 1
  /\ transferred \in 0 .. mrq.words
  /\ bounce \in [1 .. Words -> (0 .. 2) \X (1 .. Words)]
  /\ memory \in [1 .. Words -> (0 .. 2) \X (1 .. Words)]
  /\ result \in [sbc : Errors, cmd : Errors, stop : Errors, data : Errors, bytes : 0 .. Words]
  /\ ios \in [asked : Nat, actual : 0 .. Mclk, power : {"OFF", "UP", "ON"}]
  /\ cpsm \in BOOLEAN /\ ended \in BOOLEAN /\ dpsm \in {"off", "read", "write"}
  /\ Len(fifo) <= FifoDepth /\ Len(moved) <= Words

Succeeded == mrq.dir # "none" /\ {result.sbc, result.cmd, result.data} = {"none"}

(* What the core is told is what happened: a successful read left exactly   *)
(* the card's block in memory, a successful write has the card hold exactly *)
(* the block asked for, and a failed request reports no byte and leaves a   *)
(* reader's memory as it was, however late the answers were.                *)
ReportTrue ==
  pc = "done" =>
    /\ result.bytes = IF Succeeded THEN mrq.words ELSE 0
    /\ mrq.dir = "read" =>
         memory = Block(serial, IF Succeeded THEN mrq.words ELSE 0)
    /\ mrq.dir = "write" /\ Succeeded =>
         stored = [i \in 1 .. mrq.words |-> <<serial, i>>]

(* A command taken as successful was answered itself: no status bit of an   *)
(* earlier command, timed out and answered late, completes a later one.     *)
OwnAnswer == pc = "clear" /\ error = "none" => ~cpsm

(* Between requests the data path is off and its FIFO empty, on every exit  *)
(* of shadow_sdcc_request().                                                *)
DataPathQuiet == pc \in {"idle", "done"} => dpsm = "off" /\ fifo = <<>>

(* "Preserve any data-path completion which arrived with the response": an  *)
(* end of block reported while the data path runs is not cleared before the *)
(* transfer has read it.                                                    *)
CompletionKept ==
  [][dpsm # "off" /\ dpsm' # "off" /\ "DATA_END" \in status => "DATA_END" \in status']_vars

(* The card's clock is never above the one the core asked for.              *)
ClockCeiling == ios.actual <= ios.asked

(* The controller's safety: a quiet data path between requests, and no card *)
(* clock above the one asked for.                                           *)
SdccInv == TypeOK /\ DataPathQuiet /\ ClockCeiling

(* Every request is completed, whatever the card does or does not do and    *)
(* wherever jiffies wraps.                                                  *)
RequestEnds == pc # "idle" ~> pc = "idle"
=============================================================================
