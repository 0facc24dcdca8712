---------------------------- MODULE Stage0Console ----------------------------
(***************************************************************************)
(* k3765_stage0_console.py: the runs of "info", "crc", "verify", "call"    *)
(* and "boot" that a user makes against one resident monitor, the link     *)
(* between them, and a second stage that may change the RAM it runs in.    *)
(*                                                                         *)
(* command() flushes its input, sends, and takes the first frame of the    *)
(* right shape that comes within three seconds; nothing tells whose answer *)
(* that is.  A CRC is modelled by the bytes it is of.                      *)
(***************************************************************************)
EXTENDS SafeWindow, Sequences, SequencesExt

CONSTANTS Byte,
          Files,      (* contents of files to verify                        *)
          Queries,    (* registers "info" reads: Len(QUERIES)               *)
          MaxRuns,    (* bound: runs of the tool                            *)
          MaxLink     (* bound: frames on their way to the host             *)

ConsoleAssumption ==
  /\ Files \subseteq Seq(Byte) /\ Queries \in Nat \ {0}
  /\ MaxRuns \in Nat /\ MaxLink \in Nat \ {0}

VARIABLES
  runs,       (* runs started                                               *)
  job,        (* what the running one does: action and arguments            *)
  at,         (* query number, or offset into the file                      *)
  step,       (* "ask", "wait" for the answer, or "over"                    *)
  outcome,    (* of the last run                                            *)
  toTarget, toHost, inbuf,   (* frames on the link and in the serial buffer *)
  target,     (* "monitor" or "stage2"                                      *)
  ram,        (* the bytes of the safe window                               *)
  gaveUp,     (* history: a sent command was given up, its answer may come  *)
  foreign     (* history: an answer to another request was taken            *)

tool == <<runs, job, at, step, outcome, gaveUp, foreign>>
link == <<toTarget, toHost, inbuf>>
vars == <<tool, link, target, ram>>

-----------------------------------------------------------------------------
(* What an answer says. *)
Value(kind, bytes) == [kind |-> kind, bytes |-> bytes]
Crc(bytes) == Value("crc", bytes)
Bytes(a, n) == [i \in 1 .. n |-> ram[a + i - 1]]
Bad == Value("BAD00001", <<>>)

Request(sub, a, n) == [sub |-> sub, a |-> a, n |-> n, run |-> runs, at |-> at]
Frame(shape, value, r) == [shape |-> shape, value |-> value, run |-> r.run, at |-> r.at]

Chunk == SubSeq(job.data, at + 1,
                IF at + job.size < Len(job.data) THEN at + job.size ELSE Len(job.data))

(* The command a run is at. *)
Asked ==
  IF job.action = "info" THEN Request(IF at = 0 THEN "banner" ELSE "query", 0, 0)
  ELSE IF job.action = "crc" THEN Request("crc", job.address, job.size)
  ELSE IF job.action = "verify" THEN Request("crc", job.address + at, Len(Chunk))
  ELSE Request("call", job.address, 0)

(* The ValueErrors of crc_query() and call_stage2(). *)
Allowed == /\ Asked.sub = "crc" => CrcQuery(Asked.a, Asked.n)
           /\ Asked.sub = "call" => CallStage2(Asked.a)
Expected == IF Asked.sub = "banner" THEN "banner" ELSE "hex"

-----------------------------------------------------------------------------
Init ==
  /\ runs = 0 /\ job = [action |-> "info", address |-> 0, size |-> 0, data |-> <<>>]
  /\ at = 0 /\ step = "over" /\ outcome = "none"
  /\ toTarget = <<>> /\ toHost = <<>> /\ inbuf = <<>>
  /\ target = "monitor" /\ ram \in [Window -> Byte]
  /\ gaveUp = FALSE /\ foreign = FALSE

(* main() opens the port, which drops what is in the buffer. *)
Start(action, address, size, data) ==
  /\ step = "over" /\ runs < MaxRuns
  /\ runs' = runs + 1 /\ outcome' = "none"
  /\ job' = [action |-> action, address |-> address, size |-> size, data |-> data]
  /\ inbuf' = <<>>
  /\ UNCHANGED <<gaveUp, foreign, toTarget, toHost, target, ram>>

Addresses == SafeStart - 1 .. SafeEnd

StartInfo == /\ Start("info", 0, 0, <<>>) /\ step' = "ask"
             /\ at' \in {0, 1}                            (* --skip-banner *)
StartCrc == /\ \E a \in Addresses, n \in -1 .. SafeEnd : Start("crc", a, n, <<>>)
            /\ step' = "ask" /\ at' = 0
StartCall == /\ \E a \in Addresses : Start("call", a, 0, <<>>)
             /\ step' = "ask" /\ at' = 0

(* verify_file() up to its loop. *)
StartVerify ==
  \E a \in Addresses, size \in 0 .. 2, data \in Files :
    /\ data # <<>> /\ size > 0 /\ a + Len(data) =< SafeEnd
    /\ Start("verify", a, size, data)
    /\ step' = "ask" /\ at' = 0

End(result) == step' = "over" /\ outcome' = result /\ UNCHANGED at

Refuse == /\ step = "ask" /\ ~Allowed /\ End("refused")
          /\ UNCHANGED <<runs, job, gaveUp, foreign, link, target, ram>>

Send ==
  /\ step = "ask" /\ Allowed /\ step' = "wait"
  /\ inbuf' = <<>> /\ toTarget' = Append(toTarget, Asked)
  /\ UNCHANGED <<runs, job, at, outcome, gaveUp, foreign, toHost, target, ram>>

(* Mutant: the first frame is the answer.                                   *)
MatchesAny(f) == TRUE
(* startswith("K3765-S0-"), or fullmatch of eight hex digits. *)
Matches(f) == f.shape = Expected

(* Mutant: the loop over the file goes on after a chunk that differs.       *)
AnsweredVerifyOn(f) ==
  \/ /\ at + job.size < Len(job.data)
     /\ at' = at + job.size /\ step' = "ask" /\ UNCHANGED outcome
  \/ /\ at + job.size >= Len(job.data)
     /\ End(IF f.value = Crc(Chunk) THEN "pass" ELSE "mismatch")
AnsweredVerify(f) ==
  IF f.value # Crc(Chunk) THEN End("mismatch")
  ELSE \/ /\ at + job.size < Len(job.data)
          /\ at' = at + job.size /\ step' = "ask" /\ UNCHANGED outcome
       \/ /\ at + job.size >= Len(job.data) /\ End("pass")

(* boot_log(): the next register, until all are read. *)
AnsweredInfo ==
  \/ at < Queries /\ at' = at + 1 /\ step' = "ask" /\ UNCHANGED outcome
  \/ at = Queries /\ End("value")

Take ==
  /\ step = "wait" /\ inbuf # <<>> /\ Matches(Head(inbuf))
  /\ inbuf' = Tail(inbuf)
  /\ foreign' = (foreign \/ Head(inbuf).run # runs \/ Head(inbuf).at # at)
  /\ \/ job.action = "info" /\ AnsweredInfo
     \/ job.action = "verify" /\ AnsweredVerify(Head(inbuf))
     \/ job.action \in {"crc", "call"} /\ End("value")
  /\ UNCHANGED <<runs, job, gaveUp, toTarget, toHost, target, ram>>

(* A frame of another shape is ignored; one that the end of a read_frame()  *)
(* cuts in two is lost.                                                     *)
Ignore ==
  /\ step = "wait" /\ inbuf # <<>>
  /\ inbuf' = Tail(inbuf)
  /\ UNCHANGED <<tool, toTarget, toHost, target, ram>>

(* Three seconds are over. *)
Timeout ==
  /\ step = "wait" /\ End("timeout") /\ gaveUp' = TRUE
  /\ UNCHANGED <<runs, job, foreign, link, target, ram>>

(* An exception ends the run: a damaged frame (the "CRC mismatch" of        *)
(* read_frame(), of the answer or of a diagnostic before it), the port, or  *)
(* Ctrl+C.  What was sent is still served.                                  *)
Break ==
  /\ step \in {"ask", "wait"} /\ End("broken")
  /\ gaveUp' = (gaveUp \/ step = "wait")
  /\ UNCHANGED <<runs, job, foreign, link, target, ram>>

-----------------------------------------------------------------------------
(* The target serves its requests in order. *)

Answer(shape, value) ==
  toHost' = Append(toHost, Frame(shape, value, Head(toTarget)))

Serve ==
  /\ target = "monitor" /\ toTarget # <<>> /\ Len(toHost) < MaxLink
  /\ LET r == Head(toTarget) IN
       \/ r.sub = "banner" /\ Answer("banner", Value("banner", <<>>)) /\ UNCHANGED target
       \/ r.sub = "query" /\ Answer("hex", Value("register", <<>>)) /\ UNCHANGED target
       \/ /\ r.sub = "crc" /\ UNCHANGED target
          /\ Answer("hex", IF CrcAccepted(r.a, r.n) THEN Crc(Bytes(r.a, r.n)) ELSE Bad)
       \/ r.sub = "call" /\ ~CallAccepted(r.a) /\ Answer("hex", Bad) /\ UNCHANGED target
       \/ r.sub = "call" /\ CallAccepted(r.a) /\ target' = "stage2" /\ UNCHANGED toHost
  /\ toTarget' = IF target' = "stage2" THEN toTarget ELSE Tail(toTarget)
  /\ UNCHANGED <<tool, inbuf, ram>>

(* Code at the called address may write to the window and may return. *)
Stage2Returns ==
  /\ target = "stage2" /\ target' = "monitor" /\ Len(toHost) < MaxLink
  /\ ram' \in [Window -> Byte]
  /\ Answer("hex", Value("r0", <<>>)) /\ toTarget' = Tail(toTarget)
  /\ UNCHANGED <<tool, inbuf>>

(* "A diagnostic print can arrive just after the preceding command has      *)
(* returned."                                                               *)
Diagnostic ==
  /\ Len(toHost) < MaxLink
  /\ toHost' = Append(toHost, [shape |-> "text", value |-> Value("text", <<>>),
                                 run |-> 0, at |-> 0])
  /\ UNCHANGED <<tool, toTarget, inbuf, target, ram>>

Deliver ==
  /\ toHost # <<>> /\ Len(inbuf) < MaxLink
  /\ inbuf' = Append(inbuf, Head(toHost)) /\ toHost' = Tail(toHost)
  /\ UNCHANGED <<tool, toTarget, target, ram>>

Next ==
  \/ StartInfo \/ StartCrc \/ StartCall \/ StartVerify
  \/ Refuse \/ Send \/ Take \/ Ignore \/ Timeout \/ Break
  \/ Serve \/ Stage2Returns \/ Diagnostic \/ Deliver

Spec == Init /\ [][Next]_vars

-----------------------------------------------------------------------------
(* Properties *)

(* Every variable has its type. *)
TypeOK ==
  /\ runs \in 0 .. MaxRuns /\ job.action \in {"info", "crc", "verify", "call"}
  /\ at \in Nat /\ (job.action = "info" => at =< Queries)
  /\ (job.action = "verify" => at < Len(job.data))
  /\ step \in {"ask", "wait", "over"}
  /\ outcome \in {"none", "value", "pass", "mismatch", "refused", "timeout", "broken"}
  /\ target \in {"monitor", "stage2"} /\ ram \in [Window -> Byte]
  /\ {gaveUp, foreign} \subseteq BOOLEAN

(* The monitor never refuses what the tool's own checks let through: its    *)
(* BAD00001 has the shape of a CRC and would be printed as one.             *)
NeverRefused == \A q \in {toHost, inbuf} : \A f \in Range(q) : f.value # Bad

(* As long as no run has given up a command it had sent (by its deadline,   *)
(* a damaged frame, a port error or Ctrl+C), every answer taken is the      *)
(* answer to the command that was asked, across runs and diagnostics.       *)
OwnAnswers == gaveUp \/ ~foreign

Verified == job.action = "verify" /\ outcome = "pass"
InRam == \A i \in DOMAIN job.data : ram[job.address + i - 1] = job.data[i]

(* If no run has given up a command it had sent, "PASS" means that every    *)
(* byte of the file is in RAM at its address.                               *)
PassSound == Verified /\ ~gaveUp => InRam

(* What "PASS: every chunk matched" says (k3765_stage0_console.py:282).     *)
PassTrue == Verified => InRam
=============================================================================
