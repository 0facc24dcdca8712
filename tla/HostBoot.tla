------------------------------ MODULE HostBoot ------------------------------
(***************************************************************************)
(* The boot session of outputs/k3765_linux_shell.py, from the first RAM    *)
(* write to the call of BL1: the host uploads monitor, Image, BL1 and DTB  *)
(* in chunks to the PBL downloader, executes the monitor, reads the banner *)
(* and the CPU registers, checks the target-side CRC of BL1 and DTB and    *)
(* sends the second-stage call, which BL1 answers with its own checks      *)
(* before it enters Linux.                                                 *)
(*                                                                         *)
(* Nothing in the protocol numbers its frames: a reply is recognised by    *)
(* its shape alone.  The link loses and delays frames, and garbles         *)
(* replies, as the retries, deadlines and CRC tests of the host expect of  *)
(* it; it keeps their order.                                               *)
(***************************************************************************)
EXTENDS Integers, Sequences, FiniteSets

CONSTANTS
  Last,      (* the upload is chunks 1 .. Last of at most MAX_CHUNK bytes    *)
  MonitorChunks, ImageChunks, Bl1Chunks, DtbChunks,   (* whose they are      *)
  Probed,    (* image chunks with a word that BL1 fingerprints               *)
  Queries,   (* register queries after the banner: Len(QUERIES)              *)
  Attempts   (* writes of one chunk before the host gives up: 3              *)

Chunks == 1 .. Last

ASSUME BootAssumption ==
  /\ Last \in Nat \ {0} /\ Queries \in Nat /\ Attempts \in Nat \ {0}
  /\ MonitorChunks \cup ImageChunks \cup Bl1Chunks \cup DtbChunks = Chunks
  /\ Probed \subseteq ImageChunks

VARIABLES
  host,      (* the host's step                                              *)
  at,        (* the chunk it uploads                                         *)
  attempt,   (* attempt in pbl_write_ram()                                   *)
  asked,     (* the stage-0 command it is at, in the order of main()         *)
  log,       (* the replies it took as answers to stage-0 commands           *)
  toTarget,  (* requests on the link                                         *)
  toHost,    (* replies on the link                                          *)
  inbuf,     (* replies in the host's serial input buffer                    *)
  target,    (* what runs on the target                                      *)
  ram,       (* what each chunk's place in SDRAM holds                       *)
  retries,   (* history: "timeout retry" lines printed                       *)
  oldAcks    (* history: acks an interrupted session left on the link        *)

upload == <<at, attempt, retries>>
session == <<asked, log>>
link == <<toTarget, toHost, inbuf>>
device == <<target, ram>>
vars == <<host, upload, session, link, device, oldAcks>>

-----------------------------------------------------------------------------
(* The stage-0 commands of write_boot_log() and the two crc_check() calls.  *)
Banner == 1
CrcBl1 == Queries + 2
CrcDtb == Queries + 3
Commands == 1 .. CrcDtb
Expected(q) == IF q = Banner THEN "banner" ELSE "hex"
CrcRange(q) == IF q = CrcBl1 THEN Bl1Chunks
               ELSE IF q = CrcDtb THEN DtbChunks ELSE {}

Request(kind, arg) == [kind |-> kind, arg |-> arg]
(* A reply's shape is all the host looks at, and whether a CRC agrees with  *)
(* the payload's; "to" is the command it answers, 0 for none.               *)
Reply(shape, to, good) == [shape |-> shape, to |-> to, good |-> good]
Ack == Reply("ack", 0, TRUE)
Other == Reply("other", 0, TRUE)
BadCommand == Reply("hex", 0, FALSE)                          (* BAD00001 *)

Right(cs) == \A c \in cs : ram[c] = "right"

-----------------------------------------------------------------------------
(* RAM is blank, or holds an earlier session's bundle.  The target is the   *)
(* PBL, perhaps with an ack of an interrupted upload still on its way, or   *)
(* a monitor that is still resident.                                        *)
Init ==
  /\ host = "write" /\ at = 1 /\ attempt = 1 /\ retries = 0
  /\ asked = 1 /\ log = <<>>
  /\ toTarget = <<>> /\ inbuf = <<>>
  /\ \E old \in {"blank", "stale"} : ram = [c \in Chunks |-> old]
  /\ \/ target = "pbl" /\ toHost \in {<<>>, <<Ack>>}
     \/ target = "monitor" /\ toHost \in {<<>>, <<BadCommand>>}
  /\ oldAcks = IF toHost = <<Ack>> THEN 1 ELSE 0

-----------------------------------------------------------------------------
(* The host *)

(* reset_input_buffer(), write(), flush() *)
Send(request) == /\ toTarget' = Append(toTarget, request)
                 /\ inbuf' = <<>>
                 /\ UNCHANGED toHost

(* read_frame(): a frame whose CRC is wrong raises through every caller.    *)
Frame == Head(inbuf)
ReadFrame == /\ inbuf # <<>>
             /\ inbuf' = Tail(inbuf)
             /\ UNCHANGED <<toTarget, toHost>>

(* pbl_write_ram(), one attempt. *)
WriteRam ==
  /\ host = "write"
  /\ Send(Request("write", at))
  /\ host' = "ack"
  /\ UNCHANGED <<upload, session, device, oldAcks>>

Acknowledged ==
  /\ at' = at + 1 /\ attempt' = 1
  /\ host' = IF at = Last THEN "go" ELSE "write"
(* Mutant of WriteReply: any reply is an ack. *)
WriteReplyAny ==
  /\ host = "ack"
  /\ ReadFrame
  /\ Acknowledged
  /\ UNCHANGED <<retries, session, device, oldAcks>>

WriteReply ==
  /\ host = "ack"
  /\ ReadFrame
  /\ IF Frame.shape = "ack"
     THEN Acknowledged
     ELSE host' = "failed" /\ UNCHANGED <<at, attempt>>
  /\ UNCHANGED <<retries, session, device, oldAcks>>

(* The line "timeout retry" is printed after the last attempt, too. *)
WriteTimeout ==
  /\ host = "ack"
  /\ retries' = retries + 1
  /\ IF attempt < Attempts
     THEN host' = "write" /\ attempt' = attempt + 1
     ELSE host' = "failed" /\ UNCHANGED attempt
  /\ UNCHANGED <<at, session, link, device, oldAcks>>

(* pbl_execute(): any reply will do, and so does none.  write_boot_log()    *)
(* then reopens the port.                                                   *)
Execute ==
  /\ host = "go"
  /\ Send(Request("go", 0))
  /\ host' = "gone"
  /\ UNCHANGED <<upload, session, device, oldAcks>>

ExecuteReply ==
  /\ host = "gone"
  /\ ReadFrame
  /\ host' = IF Frame.shape = "garbled" THEN "failed" ELSE "ask"
  /\ UNCHANGED <<upload, session, device, oldAcks>>

ExecuteTimeout ==
  /\ host = "gone"
  /\ host' = "ask"
  /\ UNCHANGED <<upload, session, link, device, oldAcks>>

(* stage0_command() *)
Ask ==
  /\ host = "ask"
  /\ Send(Request("ask", asked))
  /\ host' = "answer"
  /\ UNCHANGED <<upload, session, device, oldAcks>>

(* Mutant of Accepted: the CRC is logged and not compared. *)
AcceptedUnchecked(r) ==
  /\ log' = Append(log, r)
  /\ asked' = asked + 1
  /\ host' = IF asked = CrcDtb THEN "call" ELSE "ask"

(* A reply of the expected shape is the answer; a CRC that is not the       *)
(* payload's ends the session, and so does a damaged frame.  Every other    *)
(* reply is set aside and the wait goes on.                                 *)
Accepted(r) ==
  /\ log' = Append(log, r)
  /\ asked' = asked + 1
  /\ host' = IF CrcRange(asked) # {} /\ ~r.good THEN "failed"
             ELSE IF asked = CrcDtb THEN "call" ELSE "ask"
AnswerReply ==
  /\ host = "answer"
  /\ ReadFrame
  /\ IF Frame.shape = Expected(asked)
     THEN Accepted(Frame)
     ELSE /\ host' = IF Frame.shape = "garbled" THEN "failed" ELSE host
          /\ UNCHANGED session
  /\ UNCHANGED <<upload, device, oldAcks>>

(* Mutants of AnswerTimeout: the command is sent again; the deadline is     *)
(* put off for ever.                                                        *)
AnswerRetry ==
  /\ host = "answer"
  /\ host' = "ask"
  /\ UNCHANGED <<upload, session, link, device, oldAcks>>
AnswerWaits == host = "answer" /\ UNCHANGED vars

AnswerTimeout ==
  /\ host = "answer"
  /\ host' = "failed"
  /\ UNCHANGED <<upload, session, link, device, oldAcks>>

(* follow_linux() sends the call; its console is not part of this module.   *)
CallStage2 ==
  /\ host = "call"
  /\ Send(Request("call", 0))
  /\ host' = "console"
  /\ UNCHANGED <<upload, session, device, oldAcks>>

(* The port raises, or the user interrupts the tool; pbl_execute() alone    *)
(* swallows what its read raises.                                           *)
TransportError ==
  /\ host \notin {"gone", "console", "failed"}
  /\ host' = "failed"
  /\ UNCHANGED <<upload, session, link, device, oldAcks>>

-----------------------------------------------------------------------------
(* The target, one request at a time *)

Take(kind) == /\ toTarget # <<>> /\ Head(toTarget).kind = kind
              /\ toTarget' = Tail(toTarget)
Answer(r) == toHost' = Append(toHost, r)

(* PBL *)
PblWrite ==
  /\ target = "pbl" /\ Take("write")
  /\ ram' = [ram EXCEPT ![Head(toTarget).arg] = "right"]
  /\ Answer(Ack)
  /\ UNCHANGED <<host, upload, session, inbuf, target, oldAcks>>

(* Damaged monitor code runs into the unknown. *)
PblExecute ==
  /\ target = "pbl" /\ Take("go")
  /\ target' = IF Right(MonitorChunks) THEN "monitor" ELSE "wild"
  /\ Answer(Other) \/ toHost' = <<>>         (* a GO response, or USB reset *)
  /\ UNCHANGED <<host, upload, session, inbuf, ram, oldAcks>>

PblReject ==
  /\ target = "pbl" /\ (Take("ask") \/ Take("call"))
  /\ Answer(Other)
  /\ UNCHANGED <<host, upload, session, inbuf, device, oldAcks>>

(* The monitor: queries and CRCs are answered in text, a first byte other   *)
(* than 0x1C by BAD00001.                                                   *)
MonitorAnswer ==
  /\ target = "monitor" /\ Take("ask")
  /\ LET q == Head(toTarget).arg
     IN Answer(Reply(Expected(q), q, Right(CrcRange(q))))
  /\ UNCHANGED <<host, upload, session, inbuf, device, oldAcks>>

MonitorReject ==
  /\ target = "monitor" /\ (Take("write") \/ Take("go"))
  /\ Answer(BadCommand)
  /\ UNCHANGED <<host, upload, session, inbuf, device, oldAcks>>

(* BL1: the Image's fingerprint words and the DTB header must be right.     *)
(* Blank RAM never has them; what an earlier session left may.  Its check   *)
(* of the CPU state may refuse a good bundle.  A refusal returns a code to  *)
(* the monitor.                                                             *)
Bl1Passes == \A c \in Probed \cup DtbChunks : ram[c] # "blank"
Bl1 ==
  /\ target = "monitor" /\ Take("call")
  /\ IF ~Right(Bl1Chunks)
     THEN target' = "wild" /\ UNCHANGED toHost
     ELSE \/ Bl1Passes /\ target' = "linux" /\ Answer(Other)
          \/ UNCHANGED target /\ Answer(Reply("hex", 0, FALSE))
  /\ UNCHANGED <<host, upload, session, inbuf, ram, oldAcks>>

-----------------------------------------------------------------------------
(* The link *)

Deliver ==
  /\ toHost # <<>>
  /\ inbuf' = Append(inbuf, Head(toHost))
  /\ toHost' = Tail(toHost)
  /\ UNCHANGED <<host, upload, session, toTarget, device, oldAcks>>

LoseRequest ==
  /\ toTarget # <<>>
  /\ toTarget' = Tail(toTarget)
  /\ UNCHANGED <<host, upload, session, toHost, inbuf, device, oldAcks>>

LoseReply ==
  /\ toHost # <<>>
  /\ toHost' = Tail(toHost)
  /\ UNCHANGED <<host, upload, session, toTarget, inbuf, device, oldAcks>>

Garble ==
  /\ toHost # <<>>
  /\ toHost' = <<Reply("garbled", 0, FALSE)>> \o Tail(toHost)
  /\ UNCHANGED <<host, upload, session, toTarget, inbuf, device, oldAcks>>

-----------------------------------------------------------------------------
HostSteps == \/ WriteRam \/ WriteReply \/ WriteTimeout
             \/ Execute \/ ExecuteReply \/ ExecuteTimeout
             \/ Ask \/ AnswerReply \/ AnswerTimeout
             \/ CallStage2 \/ TransportError
TargetSteps == \/ PblWrite \/ PblExecute \/ PblReject
               \/ MonitorAnswer \/ MonitorReject \/ Bl1
LinkSteps == Deliver \/ LoseRequest \/ LoseReply \/ Garble
Next == HostSteps \/ TargetSteps \/ LinkSteps

(* The host goes on, and each of its waits has a deadline.  Nothing is      *)
(* assumed of the target and the link.                                      *)
Sends == WriteRam \/ Execute \/ Ask \/ CallStage2
Timeouts == WriteTimeout \/ ExecuteTimeout \/ AnswerTimeout
Fairness == WF_vars(Sends) /\ WF_vars(Timeouts)
Spec == Init /\ [][Next]_vars /\ Fairness

-----------------------------------------------------------------------------
Requests == [kind : {"write"}, arg : Chunks]
            \cup [kind : {"ask"}, arg : Commands]
            \cup [kind : {"go", "call"}, arg : {0}]
Replies == [shape : {"ack", "banner", "hex", "other", "garbled"},
            to : {0} \cup Commands, good : BOOLEAN]
TypeOK ==
  /\ host \in {"write", "ack", "go", "gone", "ask", "answer", "call",
               "console", "failed"}
  /\ at \in 1 .. Last + 1 /\ attempt \in 1 .. Attempts
  /\ asked \in 1 .. CrcDtb + 1 /\ log \in Seq(Replies)
  /\ toTarget \in Seq(Requests) /\ toHost \in Seq(Replies)
  /\ inbuf \in Seq(Replies)
  /\ target \in {"pbl", "monitor", "linux", "wild"}
  /\ ram \in [Chunks -> {"blank", "stale", "right"}]
  /\ retries \in 0 .. Last * Attempts /\ oldAcks \in {0, 1}

(* The answers are matched by shape only, and yet each one the host takes   *)
(* was given to the very command it is at: no late reply to an earlier      *)
(* register query is ever logged for another one or compared as a CRC       *)
(* (stage0_command() raises at the first command that times out, so that    *)
(* nothing is ever asked while an older answer is outstanding).             *)
AnswersMatch == \A i \in 1 .. Len(log) : log[i].to = i

(* When BL1 has entered Linux, BL1 and DTB are in RAM as they were read     *)
(* from the kit, and no fingerprinted chunk of the Image is missing.        *)
VerifiedAtEntry ==
  target = "linux" => /\ Right(Bl1Chunks \cup DtbChunks)
                      /\ \A c \in Probed : ram[c] # "blank"

(* An ack may be a late one of an earlier attempt, and the chunk it was     *)
(* taken for may never have arrived.  Each such gap costs one "timeout      *)
(* retry" line or one ack that an interrupted session left behind: an       *)
(* upload without either has no gap.                                        *)
Gaps == {c \in 1 .. at - 1 : ram[c] # "right"}
GapsExplained == Cardinality(Gaps) =< retries + oldAcks

(* The upload's safety, whatever the link loses, delays or garbles.         *)
BootInv == TypeOK /\ GapsExplained

(* Whatever the target and the link do, the session ends.                   *)
SessionEnds == <>(host \in {"console", "failed"})

(* README.md:37, "verify every uploaded image with a target-side CRC        *)
(* before calling it": nothing that is called is other than what was        *)
(* uploaded.  The code verifies BL1 and DTB only.                           *)
EveryImageVerified == target = "linux" => Right(Chunks)
=============================================================================
