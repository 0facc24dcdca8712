--------------------------- MODULE HostBootProofs ---------------------------
(***************************************************************************)
(* Proofs about the boot session, for every division of the bundle into    *)
(* chunks and every number of queries and attempts, on a link that loses,  *)
(* delays and garbles: each answer the host takes was given to the command *)
(* it is at, a gap in the upload has a printed retry or an old ack to      *)
(* explain it, and BL1 enters Linux over a verified BL1 and DTB only.      *)
(***************************************************************************)
EXTENDS HostBoot, FunctionTheorems, FiniteSetTheorems, SequenceTheorems, TLAPS

-----------------------------------------------------------------------------
(* The invariant *)

Uploading == host \in {"write", "ack"}
Asking == host \in {"ask", "answer"}

(* Where the host is in the upload and in the queries, and how many retries *)
(* it can have printed by then.                                             *)
Phase ==
  /\ Uploading => at \in Chunks
  /\ host \notin {"write", "ack", "failed"} => at = Last + 1
  /\ Uploading \/ host \in {"go", "gone"} => asked = 1
  /\ Asking => asked \in Commands
  /\ host \in {"call", "console"} => asked = CrcDtb + 1
  /\ Uploading => retries =< (at - 1) * Attempts + attempt - 1
Logged == Len(log) = asked - 1 /\ AnswersMatch

(* How often a member of Q is on its way in s. *)
Places(s, Q) == {i \in 1 .. Len(s) : s[i] \in Q}
Count(s, Q) == Cardinality(Places(s, Q))

Writes(n) == [kind : {"write"}, arg : 1 .. n]
Acks == [shape : {"ack"}, to : {0} \cup Commands, good : BOOLEAN]
(* Chunks that are not in RAM and will not be: no write is on its way. *)
Missing(n, mem, s) ==
  {c \in 1 .. n : mem[c] # "right" /\ \A i \in 1 .. Len(s) : s[i] # Request("write", c)}
(* They, and the writes on their way, of up to k chunks. *)
Open(n, k, mem, s) == Cardinality(Missing(n, mem, s)) + Count(s, Writes(k))
InFlight == Count(toHost, Acks) + Count(inbuf, Acks)

(* While the host uploads, the acks it can still take, of writes under way  *)
(* included, and the chunks that will not arrive are paid for: by a retry,  *)
(* by an old ack, or by the write it waits for.                             *)
AcksPaid ==
  /\ host = "write" =>
       Open(at - 1, Last, ram, toTarget) + InFlight =< retries + oldAcks
  /\ host = "ack" =>
       Open(at, Last, ram, toTarget) + InFlight =< retries + oldAcks + 1
(* The chunks behind the host that did not arrive, or did not yet. *)
GapsPaid == Open(at - 1, at - 1, ram, toTarget) =< retries + oldAcks

(* What is on its way to the target, in the order the host sent it: writes, *)
(* then the GO, which leaves no write and no second GO behind; one call, by *)
(* a host that is done.                                                     *)
SentInTurn ==
  /\ Uploading \/ host = "go" =>
       /\ target \in {"pbl", "monitor"}
       /\ \A i \in 1 .. Len(toTarget) : toTarget[i].kind = "write"
  /\ host \in {"gone", "ask", "answer", "call"} =>
       \A i \in 1 .. Len(toTarget) :
         /\ target # "pbl" => toTarget[i].kind = "ask"
         /\ toTarget[i].kind \in {"write", "go"} =>
              \A j \in 1 .. i - 1 : toTarget[j].kind = "write"
  /\ \A i \in 1 .. Len(toTarget) : toTarget[i].kind = "call" => host = "console"

(* A monitor that was resident before the upload acknowledges nothing. *)
NoAck(s) == \A i \in 1 .. Len(s) : s[i].shape # "ack"
Resident ==
  target = "monitor" /\ (Uploading \/ host = "go") => at = 1 /\ NoAck(toHost) /\ NoAck(inbuf)

IsAnswer(r) == r.shape \in {"banner", "hex"}
NoAnswer(s) == \A i \in 1 .. Len(s) : ~IsAnswer(s[i])
NoAsk == \A i \in 1 .. Len(toTarget) : toTarget[i].kind # "ask"
(* Before a command is sent, nothing that looks like an answer is about. *)
QuietLink ==
  /\ \/ host \in {"go", "gone", "ask", "call"}
     \/ Uploading /\ target = "pbl"
     => NoAnswer(toHost) /\ NoAnswer(inbuf)
  /\ host \in {"gone", "ask", "call"} => NoAsk
(* While the host waits, its command or the answer to it is the last thing  *)
(* on the link, and there is no other.                                      *)
LastWord ==
  host = "answer" =>
    /\ \A i \in 1 .. Len(toTarget) : toTarget[i].kind = "ask" =>
         /\ i = Len(toTarget) /\ toTarget[i].arg = asked
         /\ NoAnswer(toHost) /\ NoAnswer(inbuf)
    /\ \A i \in 1 .. Len(toHost) : IsAnswer(toHost[i]) =>
         i = Len(toHost) /\ toHost[i].to = asked /\ toTarget = <<>> /\ NoAnswer(inbuf)
    /\ \A i \in 1 .. Len(inbuf) : IsAnswer(inbuf[i]) =>
         i = Len(inbuf) /\ inbuf[i].to = asked /\ toTarget = <<>> /\ toHost = <<>>

(* A CRC that agrees was taken of the right bytes, and stays so: nothing    *)
(* but a write of the PBL changes RAM, and it makes it right.               *)
CrcTrue(s) == \A i \in 1 .. Len(s) : s[i].to # 0 /\ s[i].good => Right(CrcRange(s[i].to))
Verified ==
  /\ CrcTrue(toHost) /\ CrcTrue(inbuf)
  /\ host \in {"ask", "answer", "call", "console"} =>
       /\ asked > CrcBl1 => Right(Bl1Chunks)
       /\ asked > CrcDtb => Right(DtbChunks)
  /\ VerifiedAtEntry

BootIInv ==
  /\ TypeOK /\ Phase /\ Logged
  /\ AcksPaid /\ GapsPaid
  /\ SentInTurn /\ Resident /\ QuietLink /\ LastWord
  /\ Verified

-----------------------------------------------------------------------------
(* Lemmas about sequences and counts *)

(* A sequence that loses its head. *)
LEMMA Dequeue ==
  ASSUME NEW S, NEW s \in Seq(S), s # <<>>
  PROVE  /\ Head(s) = s[1] /\ Head(s) \in S /\ Tail(s) \in Seq(S)
         /\ Len(s) \in Nat \ {0} /\ Len(Tail(s)) = Len(s) - 1
         /\ \A i \in 1 .. Len(s) - 1 : Tail(s)[i] = s[i + 1] /\ i + 1 \in 1 .. Len(s)
<1>1. Len(s) \in Nat \ {0}
  BY EmptySeq
<1> QED BY <1>1, HeadTailProperties

(* A sequence that gains an element. *)
LEMMA Enqueue ==
  ASSUME NEW S, NEW s \in Seq(S), NEW e \in S
  PROVE  /\ Append(s, e) \in Seq(S) /\ Len(s) \in Nat
         /\ Len(Append(s, e)) = Len(s) + 1 /\ Append(s, e)[Len(s) + 1] = e
         /\ \A i \in 1 .. Len(s) : Append(s, e)[i] = s[i]
  BY AppendProperties

(* A sequence whose head is replaced. *)
LEMMA Replace ==
  ASSUME NEW S, NEW s \in Seq(S), s # <<>>, NEW e \in S
  PROVE  /\ <<e>> \o Tail(s) \in Seq(S) /\ Len(<<e>> \o Tail(s)) = Len(s)
         /\ (<<e>> \o Tail(s))[1] = e
         /\ \A i \in 2 .. Len(s) : (<<e>> \o Tail(s))[i] = s[i]
<1>1. /\ Tail(s) \in Seq(S) /\ Len(s) \in Nat \ {0} /\ Len(Tail(s)) = Len(s) - 1
      /\ \A i \in 1 .. Len(s) - 1 : Tail(s)[i] = s[i + 1]
  BY Dequeue
<1>2. <<e>> \in Seq(S) /\ Len(<<e>>) = 1 /\ <<e>>[1] = e
  OBVIOUS
<1>3. /\ <<e>> \o Tail(s) \in Seq(S) /\ Len(<<e>> \o Tail(s)) = Len(s)
      /\ \A i \in 1 .. Len(s) :
           (<<e>> \o Tail(s))[i] = IF i =< 1 THEN <<e>>[i] ELSE Tail(s)[i - 1]
  BY <1>1, <1>2, ConcatProperties
<1> QED BY <1>1, <1>2, <1>3

(* A count is a number, of a finite set of places. *)
LEMMA CountType ==
  ASSUME NEW S, NEW s \in Seq(S), NEW Q
  PROVE  IsFiniteSet(Places(s, Q)) /\ Count(s, Q) \in Nat
<1>1. IsFiniteSet(1 .. Len(s))
  BY FS_Interval, LenProperties
<1>2. Places(s, Q) \in SUBSET (1 .. Len(s))
  BY DEF Places
<1> QED BY <1>1, <1>2, FS_Subset, FS_CardinalityType DEF Count

(* Nothing is counted in an empty sequence. *)
LEMMA CountEmpty ==
  ASSUME NEW Q PROVE Count(<<>>, Q) = 0
<1>1. Places(<<>>, Q) = {}
  BY DEF Places
<1> QED BY <1>1, FS_EmptySet DEF Count

(* What is appended is counted once more. *)
LEMMA CountEnqueue ==
  ASSUME NEW S, NEW s \in Seq(S), NEW e \in S, NEW Q
  PROVE  Count(Append(s, e), Q) = Count(s, Q) + IF e \in Q THEN 1 ELSE 0
<1>1. /\ Len(s) \in Nat /\ Len(Append(s, e)) = Len(s) + 1 /\ Append(s, e)[Len(s) + 1] = e
      /\ \A i \in 1 .. Len(s) : Append(s, e)[i] = s[i]
  BY Enqueue
<1>2. IsFiniteSet(Places(s, Q)) /\ Count(s, Q) \in Nat
  BY CountType
<1>3. CASE e \in Q
  <2>1. Places(Append(s, e), Q) = Places(s, Q) \cup {Len(s) + 1} /\ Len(s) + 1 \notin Places(s, Q)
    BY <1>1, <1>3 DEF Places
  <2> QED BY <1>2, <1>3, <2>1, FS_AddElement DEF Count
<1>4. CASE e \notin Q
  <2>1. Places(Append(s, e), Q) = Places(s, Q)
    BY <1>1, <1>4 DEF Places
  <2> QED BY <1>2, <1>4, <2>1 DEF Count
<1> QED BY <1>3, <1>4

(* What leaves at the head is counted once less. *)
LEMMA CountDequeue ==
  ASSUME NEW S, NEW s \in Seq(S), s # <<>>, NEW Q
  PROVE  Count(s, Q) = Count(Tail(s), Q) + IF Head(s) \in Q THEN 1 ELSE 0
<1>1. /\ Head(s) = s[1] /\ Tail(s) \in Seq(S)
      /\ Len(s) \in Nat \ {0} /\ Len(Tail(s)) = Len(s) - 1
      /\ \A i \in 1 .. Len(s) - 1 : Tail(s)[i] = s[i + 1]
  BY Dequeue
<1>2. /\ IsFiniteSet(Places(s, Q)) /\ Count(s, Q) \in Nat
      /\ IsFiniteSet(Places(Tail(s), Q)) /\ Count(Tail(s), Q) \in Nat
  BY <1>1, CountType
<1>3. Cardinality(Places(s, Q) \ {1}) = Cardinality(Places(Tail(s), Q))
  <2> DEFINE here == Places(Tail(s), Q)
             there == Places(s, Q) \ {1}
             shift == [i \in here |-> i + 1]
  <2>1. shift \in [here -> there]
    BY <1>1 DEF Places
  <2>2. \A i, j \in here : shift[i] = shift[j] => i = j
    BY <1>1 DEF Places
  <2>3. \A k \in there : \E i \in here : shift[i] = k
    <3> SUFFICES ASSUME NEW k \in there PROVE \E i \in here : shift[i] = k
      OBVIOUS
    <3>1. k - 1 \in here /\ shift[k - 1] = k
      BY <1>1 DEF Places
    <3> QED BY <3>1
  <2> HIDE DEF here, there, shift
  <2>4. shift \in Bijection(here, there)
    BY <2>1, <2>2, <2>3, Fun_IsBij
  <2>5. ExistsBijection(here, there)
    BY <2>4 DEF ExistsBijection
  <2>6. IsFiniteSet(here)
    BY <1>2 DEF here
  <2> QED BY <2>5, <2>6, FS_Bijection DEF here, there
<1>4. 1 \in Places(s, Q) <=> Head(s) \in Q
  BY <1>1 DEF Places
<1>5. Cardinality(Places(s, Q) \ {1})
        = IF 1 \in Places(s, Q) THEN Cardinality(Places(s, Q)) - 1 ELSE Cardinality(Places(s, Q))
  BY <1>2, FS_RemoveElement
<1> QED BY <1>2, <1>3, <1>4, <1>5 DEF Count

(* A head replaced by something that does not count adds nothing. *)
LEMMA CountReplace ==
  ASSUME NEW S, NEW s \in Seq(S), s # <<>>, NEW e \in S, NEW Q, e \notin Q
  PROVE  Count(<<e>> \o Tail(s), Q) =< Count(s, Q)
<1>1. /\ Len(<<e>> \o Tail(s)) = Len(s)
      /\ (<<e>> \o Tail(s))[1] = e
      /\ \A i \in 2 .. Len(s) : (<<e>> \o Tail(s))[i] = s[i]
      /\ Len(s) \in Nat
  BY Replace, LenProperties
<1>2. Places(<<e>> \o Tail(s), Q) \in SUBSET Places(s, Q)
  BY <1>1 DEF Places
<1> QED BY <1>2, CountType, FS_Subset DEF Count

(* More is counted in a larger set. *)
LEMMA CountMore ==
  ASSUME NEW S, NEW s \in Seq(S), NEW Q, NEW R, Q \subseteq R
  PROVE  Count(s, Q) =< Count(s, R)
<1>1. Places(s, Q) \in SUBSET Places(s, R)
  BY DEF Places
<1> QED BY <1>1, CountType, FS_Subset DEF Count

(* PART2 *)
-----------------------------------------------------------------------------
(* Types and phases *)

(* The constants, and the commands' order. *)
LEMMA Numbers ==
  /\ Last \in Nat \ {0} /\ Queries \in Nat /\ Attempts \in Nat \ {0}
  /\ Banner = 1 /\ CrcBl1 = Queries + 2 /\ CrcDtb = Queries + 3
  /\ Commands = 1 .. Queries + 3 /\ Chunks = 1 .. Last
  BY BootAssumption DEF Banner, CrcBl1, CrcDtb, Commands, Chunks

(* What the host and the target put on the link is of the link's type. *)
LEMMA Messages ==
  /\ \A c \in Chunks : Request("write", c) \in Requests
  /\ \A q \in Commands : Request("ask", q) \in Requests
  /\ Request("go", 0) \in Requests /\ Request("call", 0) \in Requests
  /\ {Ack, Other, BadCommand, Reply("hex", 0, FALSE), Reply("garbled", 0, FALSE)} \subseteq Replies
  /\ \A q \in Commands, good \in BOOLEAN : Reply(Expected(q), q, good) \in Replies
  BY DEF Request, Requests, Ack, Other, BadCommand, Reply, Replies, Expected

(* A request leaves the link at its head, or joins it at its end, sent by   *)
(* the host in its turn; a send empties the host's input buffer.            *)
LEMMA ToTarget ==
  ASSUME TypeOK, Phase, [Next]_vars
  PROVE  \/ toTarget' = toTarget
         \/ toTarget # <<>> /\ toTarget' = Tail(toTarget)
         \/ \E r \in Requests : toTarget' = Append(toTarget, r)
<1>1. ASSUME WriteRam PROVE \E r \in Requests : toTarget' = Append(toTarget, r)
  <2>1. at \in Chunks
    BY <1>1 DEF WriteRam, Phase, Uploading
  <2> QED BY <1>1, <2>1, Messages DEF WriteRam, Send
<1>2. ASSUME Ask PROVE \E r \in Requests : toTarget' = Append(toTarget, r)
  <2>1. asked \in Commands
    BY <1>2 DEF Ask, Phase, Asking
  <2> QED BY <1>2, <2>1, Messages DEF Ask, Send
<1>3. ASSUME Execute \/ CallStage2 PROVE \E r \in Requests : toTarget' = Append(toTarget, r)
  BY <1>3, Messages DEF Execute, CallStage2, Send
<1>4. ASSUME TargetSteps \/ LinkSteps
      PROVE  \/ toTarget' = toTarget
             \/ toTarget # <<>> /\ toTarget' = Tail(toTarget)
  <2>1. ASSUME TargetSteps PROVE toTarget # <<>> /\ toTarget' = Tail(toTarget)
    BY <2>1 DEF TargetSteps, PblWrite, PblExecute, PblReject, MonitorAnswer, MonitorReject,
       Bl1, Take
  <2>2. ASSUME LinkSteps
        PROVE  \/ toTarget' = toTarget
               \/ toTarget # <<>> /\ toTarget' = Tail(toTarget)
    BY <2>2 DEF LinkSteps, Deliver, LoseRequest, LoseReply, Garble
  <2> QED BY <1>4, <2>1, <2>2
<1>5. ASSUME \/ WriteReply \/ WriteTimeout \/ ExecuteReply \/ ExecuteTimeout
             \/ AnswerReply \/ AnswerTimeout \/ TransportError \/ UNCHANGED vars
      PROVE  toTarget' = toTarget
  BY <1>5 DEF WriteReply, WriteTimeout, ExecuteReply, ExecuteTimeout, AnswerReply,
     AnswerTimeout, TransportError, ReadFrame, vars, link
<1> QED BY <1>1, <1>2, <1>3, <1>4, <1>5 DEF Next, HostSteps

(* A reply joins the link at its end, when the target answers; it leaves    *)
(* it, or is garbled, at its head; a reset of the target loses them all.    *)
LEMMA ToHost ==
  ASSUME TypeOK, [Next]_vars
  PROVE  \/ toHost' = toHost \/ toHost' = <<>>
         \/ toHost # <<>> /\ toHost' = Tail(toHost)
         \/ toHost # <<>> /\ toHost' = <<Reply("garbled", 0, FALSE)>> \o Tail(toHost)
         \/ \E r \in Replies : toHost' = Append(toHost, r)
<1>1. ASSUME MonitorAnswer PROVE \E r \in Replies : toHost' = Append(toHost, r)
  <2>1. toTarget \in Seq(Requests) /\ toTarget # <<>> /\ Head(toTarget).kind = "ask"
    BY <1>1 DEF MonitorAnswer, Take, TypeOK
  <2>2. Head(toTarget) \in Requests
    BY <2>1, Dequeue
  <2>3. Head(toTarget).arg \in Commands
    BY <2>1, <2>2 DEF Requests
  <2>4. Right(CrcRange(Head(toTarget).arg)) \in BOOLEAN
    BY DEF Right
  <2> QED BY <1>1, <2>3, <2>4, Messages DEF MonitorAnswer, Answer
<1>2. ASSUME PblWrite \/ PblReject \/ MonitorReject
      PROVE  \E r \in Replies : toHost' = Append(toHost, r)
  BY <1>2, Messages DEF PblWrite, PblReject, MonitorReject, Answer
<1>3. ASSUME PblExecute
      PROVE  toHost' = <<>> \/ \E r \in Replies : toHost' = Append(toHost, r)
  BY <1>3, Messages DEF PblExecute, Answer
<1>4. ASSUME Bl1
      PROVE  toHost' = toHost \/ \E r \in Replies : toHost' = Append(toHost, r)
  BY <1>4, Messages DEF Bl1, Answer
<1>5. ASSUME LinkSteps
      PROVE  \/ toHost' = toHost
             \/ toHost # <<>> /\ toHost' = Tail(toHost)
             \/ toHost # <<>> /\ toHost' = <<Reply("garbled", 0, FALSE)>> \o Tail(toHost)
  BY <1>5 DEF LinkSteps, Deliver, LoseRequest, LoseReply, Garble
<1>6. ASSUME HostSteps \/ UNCHANGED vars PROVE toHost' = toHost
  BY <1>6 DEF HostSteps, WriteRam, WriteReply, WriteTimeout, Execute, ExecuteReply,
     ExecuteTimeout, Ask, AnswerReply, AnswerTimeout, CallStage2, TransportError,
     Send, ReadFrame, vars, link
<1> QED BY <1>1, <1>2, <1>3, <1>4, <1>5, <1>6 DEF Next, TargetSteps

(* The input buffer is emptied by a send, read by the host, and filled by   *)
(* the link.                                                                *)
LEMMA Inbuf ==
  ASSUME TypeOK, [Next]_vars
  PROVE  \/ inbuf' = inbuf \/ inbuf' = <<>>
         \/ inbuf # <<>> /\ inbuf' = Tail(inbuf)
         \/ toHost # <<>> /\ inbuf' = Append(inbuf, Head(toHost))
<1>1. ASSUME HostSteps \/ UNCHANGED vars
      PROVE  \/ inbuf' = inbuf \/ inbuf' = <<>>
             \/ inbuf # <<>> /\ inbuf' = Tail(inbuf)
  <2>1. ASSUME WriteRam \/ Execute \/ Ask \/ CallStage2 PROVE inbuf' = <<>>
    BY <2>1 DEF WriteRam, Execute, Ask, CallStage2, Send
  <2>2. ASSUME WriteReply \/ ExecuteReply \/ AnswerReply
        PROVE  inbuf # <<>> /\ inbuf' = Tail(inbuf)
    BY <2>2 DEF WriteReply, ExecuteReply, AnswerReply, ReadFrame
  <2>3. ASSUME WriteTimeout \/ ExecuteTimeout \/ AnswerTimeout \/ TransportError \/ UNCHANGED vars
        PROVE  inbuf' = inbuf
    BY <2>3 DEF WriteTimeout, ExecuteTimeout, AnswerTimeout, TransportError, vars, link
  <2> QED BY <1>1, <2>1, <2>2, <2>3 DEF HostSteps
<1>2. ASSUME TargetSteps PROVE inbuf' = inbuf
  BY <1>2 DEF TargetSteps, PblWrite, PblExecute, PblReject, MonitorAnswer, MonitorReject, Bl1
<1>3. ASSUME LinkSteps
      PROVE  \/ inbuf' = inbuf
             \/ toHost # <<>> /\ inbuf' = Append(inbuf, Head(toHost))
  <2>1. CASE Deliver
    BY <2>1 DEF Deliver
  <2>2. CASE LoseRequest \/ LoseReply \/ Garble
    BY <2>2 DEF LoseRequest, LoseReply, Garble
  <2> QED BY <1>3, <2>1, <2>2 DEF LinkSteps
<1> QED BY <1>1, <1>2, <1>3 DEF Next

(* The link keeps its type. *)
LEMMA LinkTypes ==
  ASSUME TypeOK, Phase, [Next]_vars
  PROVE  /\ toTarget' \in Seq(Requests) /\ toHost' \in Seq(Replies) /\ inbuf' \in Seq(Replies)
<1>1. toTarget \in Seq(Requests) /\ toHost \in Seq(Replies) /\ inbuf \in Seq(Replies)
  BY DEF TypeOK
<1>2. toTarget' \in Seq(Requests)
  <2>1. CASE toTarget # <<>> /\ toTarget' = Tail(toTarget)
    BY <1>1, <2>1, Dequeue
  <2>2. CASE \E r \in Requests : toTarget' = Append(toTarget, r)
    BY <1>1, <2>2, Enqueue
  <2> QED BY <1>1, <2>1, <2>2, ToTarget
<1>3. toHost' \in Seq(Replies)
  <2>1. CASE toHost # <<>> /\ toHost' = Tail(toHost)
    BY <1>1, <2>1, Dequeue
  <2>2. CASE \E r \in Replies : toHost' = Append(toHost, r)
    BY <1>1, <2>2, Enqueue
  <2>3. CASE toHost # <<>> /\ toHost' = <<Reply("garbled", 0, FALSE)>> \o Tail(toHost)
    <3>1. Reply("garbled", 0, FALSE) \in Replies
      BY Messages
    <3> QED BY <1>1, <2>3, <3>1, Replace
  <2>4. CASE toHost' = toHost \/ toHost' = <<>>
    BY <1>1, <2>4, EmptySeq
  <2> QED BY <2>1, <2>2, <2>3, <2>4, ToHost
<1>4. inbuf' \in Seq(Replies)
  <2>1. toHost # <<>> => Head(toHost) \in Replies
    BY <1>1, Dequeue
  <2>2. CASE inbuf # <<>> /\ inbuf' = Tail(inbuf)
    BY <1>1, <2>2, Dequeue
  <2>3. CASE toHost # <<>> /\ inbuf' = Append(inbuf, Head(toHost))
    BY <1>1, <2>1, <2>3, Enqueue
  <2>4. CASE inbuf' = inbuf \/ inbuf' = <<>>
    BY <1>1, <2>4, EmptySeq
  <2> QED BY <2>2, <2>3, <2>4, Inbuf
<1> QED BY <1>2, <1>3, <1>4

(* RAM changes by the PBL's writes only, which make it right.               *)
LEMMA RamStep ==
  ASSUME TypeOK, [Next]_vars
  PROVE  /\ ram' \in [Chunks -> {"blank", "stale", "right"}]
         /\ \A c \in Chunks : ram'[c] = ram[c] \/ ram'[c] = "right"
         /\ target # "pbl" => ram' = ram
         /\ ~PblWrite => ram' = ram
<1>0. ram \in [Chunks -> {"blank", "stale", "right"}] /\ toTarget \in Seq(Requests)
  BY DEF TypeOK
<1>1. CASE PblWrite
  BY <1>0, <1>1 DEF PblWrite
<1>2. CASE ~PblWrite
  <2>1. ram' = ram
    BY <1>2 DEF Next, HostSteps, TargetSteps, LinkSteps, WriteRam, WriteReply, WriteTimeout,
       Execute, ExecuteReply, ExecuteTimeout, Ask, AnswerReply, AnswerTimeout, CallStage2,
       TransportError, PblExecute, PblReject, MonitorAnswer, MonitorReject, Bl1,
       Deliver, LoseRequest, LoseReply, Garble, vars, device
  <2> QED BY <1>0, <2>1
<1> QED BY <1>1, <1>2

(* What runs on the target keeps its type, and changes by a GO or a call.   *)
LEMMA TargetStep ==
  ASSUME TypeOK, [Next]_vars
  PROVE  /\ target' \in {"pbl", "monitor", "linux", "wild"}
         /\ ~PblExecute /\ ~Bl1 => target' = target
         /\ oldAcks' = oldAcks
<1>1. CASE ~PblExecute /\ ~Bl1
  BY <1>1 DEF TypeOK, Next, HostSteps, TargetSteps, LinkSteps, WriteRam, WriteReply, WriteTimeout,
     Execute, ExecuteReply, ExecuteTimeout, Ask, AnswerReply, AnswerTimeout, CallStage2,
     TransportError, PblWrite, PblReject, MonitorAnswer, MonitorReject,
     Deliver, LoseRequest, LoseReply, Garble, vars, device
<1>2. CASE PblExecute \/ Bl1
  BY <1>2 DEF TypeOK, PblExecute, Bl1
<1> QED BY <1>1, <1>2

(* The target and the link leave the host where it is.                      *)
LEMMA NotTheHost ==
  ASSUME TargetSteps \/ LinkSteps \/ UNCHANGED vars
  PROVE  UNCHANGED <<host, at, attempt, retries, asked, log, oldAcks>>
<1>1. ASSUME TargetSteps PROVE UNCHANGED <<host, at, attempt, retries, asked, log, oldAcks>>
  BY <1>1 DEF TargetSteps, PblWrite, PblExecute, PblReject, MonitorAnswer, MonitorReject, Bl1,
     upload, session
<1>2. ASSUME LinkSteps \/ UNCHANGED vars
      PROVE  UNCHANGED <<host, at, attempt, retries, asked, log, oldAcks>>
  BY <1>2 DEF LinkSteps, Deliver, LoseRequest, LoseReply, Garble, vars, upload, session
<1> QED BY <1>1, <1>2

(* No chunk uses more than its attempts. *)
LEMMA RetryArithmetic ==
  ASSUME NEW k \in Nat, NEW n \in Nat, NEW a \in Nat, k + 1 =< n
  PROVE  k * a + a =< n * a /\ k * a \in Nat /\ n * a \in Nat
         /\ (k + 1) * a = k * a + a
  OBVIOUS

(* Where the host is keeps its type and its place in the session. *)
LEMMA HostTypes ==
  ASSUME TypeOK, Phase, Logged, [Next]_vars
  PROVE  /\ host' \in {"write", "ack", "go", "gone", "ask", "answer", "call",
                       "console", "failed"}
         /\ at' \in 1 .. Last + 1 /\ attempt' \in 1 .. Attempts
         /\ retries' \in 0 .. Last * Attempts
         /\ Phase'
<1>1. /\ host \in {"write", "ack", "go", "gone", "ask", "answer", "call", "console", "failed"}
      /\ at \in 1 .. Last + 1 /\ attempt \in 1 .. Attempts
      /\ retries \in 0 .. Last * Attempts /\ asked \in 1 .. Queries + 4
  BY Numbers DEF TypeOK
<1>2. /\ Uploading => at \in 1 .. Last
      /\ host \notin {"write", "ack", "failed"} => at = Last + 1
      /\ Uploading \/ host \in {"go", "gone"} => asked = 1
      /\ Asking => asked \in 1 .. Queries + 3
      /\ host \in {"call", "console"} => asked = Queries + 4
      /\ Uploading => retries =< (at - 1) * Attempts + attempt - 1
  BY Numbers DEF Phase
<1> DEFINE Before == (at - 1) * Attempts
           Behind == at * Attempts
           All == Last * Attempts
<1>3. /\ Before \in Nat /\ Behind \in Nat /\ All \in Nat /\ Behind = Before + Attempts
      /\ at =< Last => Behind =< All
  <2>1. at - 1 \in Nat /\ at \in Nat /\ Last \in Nat /\ Attempts \in Nat /\ Before \in Nat
    BY <1>1, Numbers, RetryArithmetic
  <2>2. Behind = Before + Attempts /\ Behind \in Nat /\ All \in Nat
    BY <2>1, RetryArithmetic
  <2>3. at =< Last => Behind =< All
    BY <2>1, RetryArithmetic
  <2> QED BY <2>1, <2>2, <2>3
<1>4. Uploading => retries =< Before + attempt - 1
  BY <1>2
<1>5. CASE WriteRam
  BY <1>1, <1>2, <1>5, Numbers DEF WriteRam, Phase, Uploading, Asking, upload, session
<1>6. CASE WriteReply
  <2>1. CASE Frame.shape = "ack"
    <3>1. /\ at' = at + 1 /\ attempt' = 1 /\ retries' = retries /\ asked' = asked /\ host = "ack"
          /\ host' = IF at = Last THEN "go" ELSE "write"
      BY <1>6, <2>1 DEF WriteReply, Acknowledged, session
    <3>2. retries' =< (at' - 1) * Attempts + attempt' - 1
      <4>1. retries =< Behind
        BY <1>1, <1>3, <1>4, <3>1, Numbers DEF Uploading
      <4>2. (at' - 1) * Attempts = Behind
        BY <1>1, <3>1
      <4> HIDE DEF Behind
      <4> QED BY <1>1, <1>3, <3>1, <4>1, <4>2
    <3> HIDE DEF Before, Behind
    <3> QED BY <1>1, <1>2, <3>1, <3>2, Numbers DEF Phase, Uploading, Asking
  <2>2. CASE Frame.shape # "ack"
    BY <1>1, <1>2, <1>6, <2>2, Numbers DEF WriteReply, Phase, Uploading, Asking, session
  <2> QED BY <2>1, <2>2
<1>7. CASE WriteTimeout
  <2>1. /\ host = "ack" /\ retries' = retries + 1 /\ at' = at /\ asked' = asked
        /\ \/ attempt < Attempts /\ host' = "write" /\ attempt' = attempt + 1
           \/ host' = "failed" /\ attempt' = attempt
    BY <1>7 DEF WriteTimeout, session
  <2>2. retries' \in 0 .. All
    <3>1. retries =< Before + attempt - 1 /\ at =< Last
      BY <1>2, <1>4, <2>1 DEF Uploading
    <3> HIDE DEF Before, Behind, All
    <3> QED BY <1>1, <1>3, <2>1, <3>1, Numbers
  <2>3. Uploading' => retries' =< (at' - 1) * Attempts + attempt' - 1
    <3>1. (at' - 1) * Attempts = Before
      BY <2>1
    <3> HIDE DEF Before
    <3> QED BY <1>1, <1>3, <1>4, <2>1, <3>1, Numbers DEF Uploading
  <2> HIDE DEF Before, Behind
  <2> QED BY <1>1, <1>2, <2>1, <2>2, <2>3, Numbers DEF Phase, Uploading, Asking
<1>8. CASE Execute \/ ExecuteReply \/ ExecuteTimeout \/ Ask \/ AnswerTimeout \/ CallStage2
           \/ TransportError
  <2>1. /\ UNCHANGED <<at, attempt, retries, asked>> /\ ~Uploading'
        /\ host' \in {"gone", "failed", "ask", "answer", "console"}
        /\ host' \in {"gone", "ask", "answer", "console"} => at = Last + 1
        /\ host' = "gone" => asked = 1
        /\ host' \in {"ask", "answer"} => asked \in 1 .. Queries + 3
        /\ host' = "console" => asked = Queries + 4
    BY <1>1, <1>2, <1>8, Numbers DEF Execute, ExecuteReply, ExecuteTimeout, Ask, AnswerTimeout,
       CallStage2, TransportError, upload, session, Uploading, Asking
  <2> HIDE DEF Before, Behind
  <2> QED BY <1>1, <2>1, Numbers DEF Phase, Uploading, Asking
<1>9. CASE AnswerReply
  <2>1. /\ UNCHANGED <<at, attempt, retries>> /\ host = "answer"
        /\ \/ UNCHANGED asked /\ host' \in {"failed", "answer"}
           \/ asked' = asked + 1 /\ host' = "failed"
           \/ asked' = asked + 1 /\ asked = CrcDtb /\ host' = "call"
           \/ asked' = asked + 1 /\ asked # CrcDtb /\ host' = "ask"
    BY <1>9 DEF AnswerReply, Accepted, upload, session
  <2>2. at = Last + 1 /\ asked \in 1 .. Queries + 3 /\ CrcDtb = Queries + 3
    BY <1>2, <2>1, Numbers DEF Asking
  <2>3. /\ ~Uploading' /\ host' \notin {"go", "gone", "console"}
        /\ host' \in {"ask", "answer"} => asked' \in 1 .. Queries + 3
        /\ host' = "call" => asked' = Queries + 4
        /\ host' \in {"failed", "answer", "call", "ask"}
    BY <2>1, <2>2, Numbers DEF Uploading
  <2> HIDE DEF Before, Behind
  <2>4. Phase'
    BY <2>1, <2>2, <2>3, Numbers DEF Phase, Uploading, Asking
  <2> QED BY <1>1, <2>1, <2>3, <2>4
<1>10. CASE TargetSteps \/ LinkSteps \/ UNCHANGED vars
  <2>1. UNCHANGED <<host, at, attempt, retries, asked>>
    BY <1>10, NotTheHost
  <2> QED BY <1>1, <2>1 DEF Phase, Uploading, Asking
<1> QED BY <1>5, <1>6, <1>7, <1>8, <1>9, <1>10 DEF Next, HostSteps

(* What the host took as answers was meant for the commands it was at. *)
LEMMA LogStep ==
  ASSUME TypeOK, Phase, Logged, LastWord, [Next]_vars
  PROVE  asked' \in 1 .. CrcDtb + 1 /\ log' \in Seq(Replies) /\ Logged'
<1>1. /\ log \in Seq(Replies) /\ inbuf \in Seq(Replies) /\ asked \in 1 .. Queries + 4
      /\ Len(log) = asked - 1 /\ \A i \in 1 .. Len(log) : log[i].to = i
  BY Numbers DEF TypeOK, Logged, AnswersMatch
<1>2. CASE AnswerReply /\ Frame.shape = Expected(asked)
  <2>1. /\ host = "answer" /\ inbuf # <<>> /\ Frame = Head(inbuf)
        /\ log' = Append(log, Frame) /\ asked' = asked + 1
    BY <1>2 DEF AnswerReply, ReadFrame, Accepted, Frame
  <2>2. Frame = inbuf[1] /\ Frame \in Replies /\ Len(inbuf) \in Nat \ {0}
    BY <1>1, <2>1, Dequeue
  <2>3. IsAnswer(inbuf[1])
    BY <1>2, <2>2 DEF IsAnswer, Expected
  <2>4. Frame.to = asked
    BY <2>1, <2>2, <2>3 DEF LastWord
  <2>5. /\ log' \in Seq(Replies) /\ Len(log') = asked /\ log'[asked] = Frame
        /\ \A i \in 1 .. asked - 1 : log'[i] = log[i]
    BY <1>1, <2>1, <2>2, Enqueue
  <2>6. asked =< Queries + 3
    BY <2>1, Numbers DEF Phase, Asking
  <2>7. \A i \in 1 .. asked : log'[i].to = i
    BY <1>1, <2>4, <2>5
  <2> QED BY <1>1, <2>1, <2>5, <2>6, <2>7, Numbers DEF Logged, AnswersMatch
<1>3. CASE UNCHANGED <<asked, log>>
  BY <1>1, <1>3, Numbers DEF Logged, AnswersMatch
<1>4. ASSUME HostSteps, ~(AnswerReply /\ Frame.shape = Expected(asked))
      PROVE  UNCHANGED <<asked, log>>
  BY <1>4 DEF HostSteps, WriteRam, WriteReply, WriteTimeout, Execute, ExecuteReply,
     ExecuteTimeout, Ask, AnswerReply, AnswerTimeout, CallStage2, TransportError, session
<1>5. ASSUME TargetSteps \/ LinkSteps \/ UNCHANGED vars PROVE UNCHANGED <<asked, log>>
  BY <1>5, NotTheHost
<1> QED BY <1>2, <1>3, <1>4, <1>5 DEF Next

(* Every variable keeps its type. *)
LEMMA TypesStep ==
  ASSUME TypeOK, Phase, Logged, LastWord, [Next]_vars PROVE TypeOK'
<1>1. oldAcks' = oldAcks /\ oldAcks \in {0, 1} /\ target' \in {"pbl", "monitor", "linux", "wild"}
  BY TargetStep DEF TypeOK
<1> QED BY <1>1, HostTypes, LogStep, LinkTypes, RamStep DEF TypeOK

-----------------------------------------------------------------------------
(* Missing chunks and writes under way *)

(* Missing chunks are finitely many. *)
LEMMA OpenType ==
  ASSUME NEW n \in Nat, NEW k \in Nat, NEW mem, NEW s \in Seq(Requests)
  PROVE  /\ IsFiniteSet(Missing(n, mem, s)) /\ Cardinality(Missing(n, mem, s)) \in Nat
         /\ Count(s, Writes(k)) \in Nat /\ Open(n, k, mem, s) \in Nat
<1>1. IsFiniteSet(1 .. n)
  BY FS_Interval
<1>2. Missing(n, mem, s) \in SUBSET (1 .. n)
  BY DEF Missing
<1>3. IsFiniteSet(Missing(n, mem, s)) /\ Cardinality(Missing(n, mem, s)) \in Nat
  BY <1>1, <1>2, FS_Subset, FS_CardinalityType
<1>4. Count(s, Writes(k)) \in Nat
  BY CountType
<1> QED BY <1>3, <1>4 DEF Open

(* The sum grows with its bounds. *)
LEMMA OpenMore ==
  ASSUME NEW n \in Nat, NEW m \in Nat, NEW k \in Nat, NEW l \in Nat, n =< m, k =< l,
         NEW mem, NEW s \in Seq(Requests)
  PROVE  Open(n, k, mem, s) =< Open(m, l, mem, s)
<1>1. Missing(n, mem, s) \in SUBSET Missing(m, mem, s)
  BY DEF Missing
<1>2. Cardinality(Missing(n, mem, s)) =< Cardinality(Missing(m, mem, s))
  BY <1>1, OpenType, FS_Subset
<1>3. Writes(k) \subseteq Writes(l)
  BY DEF Writes
<1>4. Count(s, Writes(k)) =< Count(s, Writes(l))
  BY <1>3, CountMore
<1>5. /\ Cardinality(Missing(n, mem, s)) \in Nat /\ Cardinality(Missing(m, mem, s)) \in Nat
      /\ Count(s, Writes(k)) \in Nat /\ Count(s, Writes(l)) \in Nat
  BY OpenType
<1> QED BY <1>2, <1>4, <1>5 DEF Open

(* A request that is sent adds itself, if it is a write. *)
LEMMA OpenSent ==
  ASSUME NEW n \in Nat, NEW k \in Nat, NEW mem, NEW s \in Seq(Requests), NEW e \in Requests
  PROVE  Open(n, k, mem, Append(s, e))
           =< Open(n, k, mem, s) + IF e \in Writes(k) THEN 1 ELSE 0
<1>1. Append(s, e) \in Seq(Requests) /\ Len(s) \in Nat /\ Len(Append(s, e)) = Len(s) + 1
      /\ \A i \in 1 .. Len(s) : Append(s, e)[i] = s[i]
  BY Enqueue
<1>2. Missing(n, mem, Append(s, e)) \in SUBSET Missing(n, mem, s)
  BY <1>1 DEF Missing
<1>3. Cardinality(Missing(n, mem, Append(s, e))) =< Cardinality(Missing(n, mem, s))
  BY <1>2, OpenType, FS_Subset
<1>4. /\ Cardinality(Missing(n, mem, s)) \in Nat
      /\ Cardinality(Missing(n, mem, Append(s, e))) \in Nat
      /\ Count(s, Writes(k)) \in Nat
  BY <1>1, OpenType
<1>5. Count(Append(s, e), Writes(k)) = Count(s, Writes(k)) + IF e \in Writes(k) THEN 1 ELSE 0
  BY CountEnqueue
<1> QED BY <1>3, <1>4, <1>5 DEF Open

(* A write of the next chunk: that chunk is not missing yet. *)
LEMMA OpenWrite ==
  ASSUME NEW n \in 1 .. Last, NEW mem, NEW s \in Seq(Requests)
  PROVE  Open(n, Last, mem, Append(s, Request("write", n))) =< Open(n - 1, Last, mem, s) + 1
<1> DEFINE e == Request("write", n)
<1>1. e \in Requests /\ e \in Writes(Last) /\ n \in Nat /\ n - 1 \in Nat /\ Last \in Nat
  BY Numbers, Messages DEF Writes, Request
<1> HIDE DEF e
<1>2. Append(s, e) \in Seq(Requests) /\ Len(s) \in Nat /\ Len(Append(s, e)) = Len(s) + 1
      /\ Append(s, e)[Len(s) + 1] = e
      /\ \A i \in 1 .. Len(s) : Append(s, e)[i] = s[i]
  BY <1>1, Enqueue
<1>3. Missing(n, mem, Append(s, e)) \in SUBSET Missing(n - 1, mem, s)
  BY <1>1, <1>2 DEF Missing, e
<1>4. Cardinality(Missing(n, mem, Append(s, e))) =< Cardinality(Missing(n - 1, mem, s))
  BY <1>1, <1>3, OpenType, FS_Subset
<1>5. Open(n, Last, mem, Append(s, e)) =< Open(n - 1, Last, mem, s) + 1
  <2>1. /\ Cardinality(Missing(n, mem, Append(s, e))) \in Nat
        /\ Cardinality(Missing(n - 1, mem, s)) \in Nat /\ Count(s, Writes(Last)) \in Nat
    BY <1>1, <1>2, OpenType
  <2>2. Count(Append(s, e), Writes(Last)) = Count(s, Writes(Last)) + 1
    BY <1>1, CountEnqueue
  <2> QED BY <1>4, <2>1, <2>2 DEF Open
<1> QED BY <1>5 DEF e

(* A request that is lost leaves at most its own chunk missing. *)
LEMMA OpenLost ==
  ASSUME NEW n \in Nat, NEW k \in Nat, n =< k,
         NEW mem, NEW s \in Seq(Requests), s # <<>>
  PROVE  Open(n, k, mem, Tail(s)) =< Open(n, k, mem, s)
<1>1. /\ Head(s) = s[1] /\ Head(s) \in Requests /\ Tail(s) \in Seq(Requests)
      /\ Len(s) \in Nat \ {0} /\ Len(Tail(s)) = Len(s) - 1
      /\ \A i \in 1 .. Len(s) - 1 : Tail(s)[i] = s[i + 1]
  BY Dequeue
<1>2. /\ IsFiniteSet(Missing(n, mem, s)) /\ Cardinality(Missing(n, mem, s)) \in Nat
      /\ Cardinality(Missing(n, mem, Tail(s))) \in Nat
      /\ Count(s, Writes(k)) \in Nat /\ Count(Tail(s), Writes(k)) \in Nat
  BY <1>1, OpenType
<1>3. \A i \in 1 .. Len(s) : i # 1 => i - 1 \in 1 .. Len(Tail(s)) /\ s[i] = Tail(s)[i - 1]
  BY <1>1
<1>4. CASE Head(s) \in Writes(k)
  <2>1. \A c \in 1 .. n : Head(s) = Request("write", c) => c = Head(s).arg
    BY DEF Request
  <2>2. Missing(n, mem, Tail(s)) \subseteq Missing(n, mem, s) \cup {Head(s).arg}
    BY <1>1, <1>3, <2>1 DEF Missing
  <2>3. /\ IsFiniteSet(Missing(n, mem, s) \cup {Head(s).arg})
        /\ Cardinality(Missing(n, mem, s) \cup {Head(s).arg}) =< Cardinality(Missing(n, mem, s)) + 1
        /\ Cardinality(Missing(n, mem, s) \cup {Head(s).arg}) \in Nat
    <3> DEFINE gone == Missing(n, mem, s)
    <3>1. IsFiniteSet(gone) /\ Cardinality(gone) \in Nat
      BY <1>2
    <3> HIDE DEF gone
    <3>2. /\ IsFiniteSet(gone \cup {Head(s).arg})
          /\ Cardinality(gone \cup {Head(s).arg})
               = IF Head(s).arg \in gone THEN Cardinality(gone) ELSE Cardinality(gone) + 1
      BY <3>1, FS_AddElement
    <3> QED BY <3>1, <3>2 DEF gone
  <2>4. Cardinality(Missing(n, mem, Tail(s))) =< Cardinality(Missing(n, mem, s) \cup {Head(s).arg})
    BY <2>2, <2>3, FS_Subset
  <2> QED BY <1>2, <1>4, <2>3, <2>4, CountDequeue DEF Open
<1>5. CASE Head(s) \notin Writes(k)
  <2>1. \A c \in 1 .. n : Head(s) # Request("write", c)
    BY <1>5 DEF Writes, Request
  <2>2. Missing(n, mem, Tail(s)) \in SUBSET Missing(n, mem, s)
    BY <1>1, <1>3, <2>1 DEF Missing
  <2>3. Cardinality(Missing(n, mem, Tail(s))) =< Cardinality(Missing(n, mem, s))
    BY <1>2, <2>2, FS_Subset
  <2> QED BY <1>2, <1>5, <2>3, CountDequeue DEF Open
<1> QED BY <1>4, <1>5

(* A write that arrives leaves nothing missing, and is no longer under way. *)
LEMMA OpenWritten ==
  ASSUME NEW n \in Nat, NEW k \in Nat, n =< Last,
         NEW mem \in [Chunks -> {"blank", "stale", "right"}],
         NEW s \in Seq(Requests), s # <<>>, Head(s).kind = "write"
  PROVE  Open(n, k, [mem EXCEPT ![Head(s).arg] = "right"], Tail(s))
           + (IF Head(s) \in Writes(k) THEN 1 ELSE 0) =< Open(n, k, mem, s)
<1> DEFINE new == [mem EXCEPT ![Head(s).arg] = "right"]
<1>1. /\ Head(s) = s[1] /\ Head(s) \in Requests /\ Tail(s) \in Seq(Requests)
      /\ Len(s) \in Nat \ {0} /\ Len(Tail(s)) = Len(s) - 1
      /\ \A i \in 1 .. Len(s) - 1 : Tail(s)[i] = s[i + 1]
  BY Dequeue
<1>2. Head(s).arg \in Chunks
  BY <1>1 DEF Requests
<1>3. \A i \in 1 .. Len(s) : i # 1 => i - 1 \in 1 .. Len(Tail(s)) /\ s[i] = Tail(s)[i - 1]
  BY <1>1
<1>4. \A c \in 1 .. n : /\ c \in Chunks
                        /\ Head(s) = Request("write", c) => c = Head(s).arg
                        /\ new[c] # "right" => mem[c] # "right" /\ c # Head(s).arg
  BY <1>2, Numbers DEF Request
<1> HIDE DEF new
<1>5. Missing(n, new, Tail(s)) \in SUBSET Missing(n, mem, s)
  BY <1>1, <1>3, <1>4 DEF Missing
<1>6. /\ Cardinality(Missing(n, new, Tail(s))) =< Cardinality(Missing(n, mem, s))
      /\ Cardinality(Missing(n, mem, s)) \in Nat /\ Cardinality(Missing(n, new, Tail(s))) \in Nat
      /\ Count(s, Writes(k)) \in Nat /\ Count(Tail(s), Writes(k)) \in Nat
  BY <1>1, <1>5, OpenType, FS_Subset
<1>7. Open(n, k, new, Tail(s)) + (IF Head(s) \in Writes(k) THEN 1 ELSE 0) =< Open(n, k, mem, s)
  BY <1>6, CountDequeue DEF Open
<1> QED BY <1>7 DEF new

-----------------------------------------------------------------------------
(* Every ack and every gap is paid for *)

(* Only the PBL's reply to a write is an ack.                               *)
LEMMA NoOtherAck ==
  /\ Ack \in Acks
  /\ {Other, BadCommand, Reply("hex", 0, FALSE), Reply("garbled", 0, FALSE)} \cap Acks = {}
  /\ \A q, good : Reply(Expected(q), q, good) \notin Acks
  BY DEF Acks, Ack, Other, BadCommand, Reply, Expected

(* Neither the target nor the link makes the host's debt larger: a write    *)
(* becomes an ack, and what is lost makes at most its own chunk missing.    *)
LEMMA Flow ==
  ASSUME TypeOK, Phase, TargetSteps \/ LinkSteps, NEW n \in Nat, n =< Last
  PROVE  /\ Open(n, n, ram', toTarget') =< Open(n, n, ram, toTarget)
         /\ Open(n, Last, ram', toTarget') + InFlight' =< Open(n, Last, ram, toTarget) + InFlight
<1>1. /\ toTarget \in Seq(Requests) /\ toHost \in Seq(Replies) /\ inbuf \in Seq(Replies)
      /\ ram \in [Chunks -> {"blank", "stale", "right"}]
      /\ Last \in Nat
  BY Numbers DEF TypeOK
<1>2. [Next]_vars
  BY DEF Next
<1>3. toTarget' \in Seq(Requests) /\ toHost' \in Seq(Replies) /\ inbuf' \in Seq(Replies)
  BY <1>2, LinkTypes
<1> DEFINE h == Count(toHost, Acks)
           b == Count(inbuf, Acks)
           h2 == Count(toHost', Acks)
           b2 == Count(inbuf', Acks)
           o == Open(n, n, ram, toTarget)
           a == Open(n, Last, ram, toTarget)
           o2 == Open(n, n, ram', toTarget')
           a2 == Open(n, Last, ram', toTarget')
<1>4. /\ h \in Nat /\ b \in Nat /\ h2 \in Nat /\ b2 \in Nat
      /\ o \in Nat /\ a \in Nat /\ o2 \in Nat /\ a2 \in Nat
  BY <1>1, <1>3, CountType, OpenType
<1>5. InFlight = h + b /\ InFlight' = h2 + b2
  BY DEF InFlight
<1>6. ASSUME toTarget # <<>>, toTarget' = Tail(toTarget), ram' = ram PROVE o2 =< o /\ a2 =< a
  BY <1>1, <1>6, OpenLost
<1>7. ASSUME toTarget' = toTarget, ram' = ram PROVE o2 = o /\ a2 = a
  BY <1>7
<1>8. ASSUME NEW r \in Replies, toHost' = Append(toHost, r)
      PROVE  h2 = h + IF r \in Acks THEN 1 ELSE 0
  BY <1>1, <1>8, CountEnqueue
<1>9. ASSUME inbuf' = inbuf PROVE b2 = b
  BY <1>9
<1> HIDE DEF h, b, h2, b2, o, a, o2, a2
<1>10. CASE PblWrite
  <2>1. /\ toTarget # <<>> /\ Head(toTarget).kind = "write" /\ toTarget' = Tail(toTarget)
        /\ ram' = [ram EXCEPT ![Head(toTarget).arg] = "right"]
        /\ toHost' = Append(toHost, Ack) /\ inbuf' = inbuf
    BY <1>10 DEF PblWrite, Take, Answer
  <2>2. Head(toTarget) \in Writes(Last)
    <3>1. Head(toTarget) \in Requests
      BY <1>1, <2>1, Dequeue
    <3> QED BY <2>1, <3>1, Numbers DEF Requests, Writes
  <2>3. /\ o2 + (IF Head(toTarget) \in Writes(n) THEN 1 ELSE 0) =< o
        /\ a2 + (IF Head(toTarget) \in Writes(Last) THEN 1 ELSE 0) =< a
    BY <1>1, <2>1, OpenWritten DEF o, a, o2, a2
  <2>4. h2 = h + 1 /\ b2 = b
    BY <1>8, <1>9, <2>1, Messages, NoOtherAck
  <2> QED BY <1>4, <1>5, <2>2, <2>3, <2>4 DEF o, a, o2, a2
<1>11. CASE PblExecute \/ PblReject \/ MonitorAnswer \/ MonitorReject \/ Bl1
  <2>1. toTarget # <<>> /\ toTarget' = Tail(toTarget) /\ ram' = ram /\ inbuf' = inbuf
    BY <1>11 DEF PblExecute, PblReject, MonitorAnswer, MonitorReject, Bl1, Take, device
  <2>2. \/ toHost' = toHost \/ toHost' = <<>>
        \/ \E r \in Replies : r \notin Acks /\ toHost' = Append(toHost, r)
    <3>1. CASE MonitorAnswer
      <4>1. Head(toTarget) \in Requests /\ Head(toTarget).kind = "ask"
        BY <1>1, <2>1, <3>1, Dequeue DEF MonitorAnswer, Take
      <4>2. Head(toTarget).arg \in Commands
        BY <4>1 DEF Requests
      <4>3. Right(CrcRange(Head(toTarget).arg)) \in BOOLEAN
        BY DEF Right
      <4> QED BY <3>1, <4>2, <4>3, Messages, NoOtherAck DEF MonitorAnswer, Answer
    <3>2. CASE PblExecute
      BY <3>2, Messages, NoOtherAck DEF PblExecute, Answer
    <3>3. CASE PblReject \/ MonitorReject
      BY <3>3, Messages, NoOtherAck DEF PblReject, MonitorReject, Answer
    <3>4. CASE Bl1
      BY <3>4, Messages, NoOtherAck DEF Bl1, Answer
    <3> QED BY <1>11, <3>1, <3>2, <3>3, <3>4
  <2>3. h2 =< h
    <3>1. CASE toHost' = toHost \/ toHost' = <<>>
      BY <1>4, <3>1, CountEmpty DEF h, h2
    <3>2. CASE \E r \in Replies : r \notin Acks /\ toHost' = Append(toHost, r)
      BY <1>4, <1>8, <3>2
    <3> QED BY <2>2, <3>1, <3>2
  <2>4. b2 = b /\ o2 =< o /\ a2 =< a
    BY <1>6, <1>9, <2>1
  <2> QED BY <1>4, <1>5, <2>3, <2>4 DEF o, a, o2, a2
<1>12. CASE LoseRequest
  <2>1. toTarget # <<>> /\ toTarget' = Tail(toTarget) /\ ram' = ram /\ inbuf' = inbuf
        /\ toHost' = toHost
    BY <1>12 DEF LoseRequest, device
  <2>2. b2 = b /\ o2 =< o /\ a2 =< a /\ h2 = h
    BY <1>6, <1>9, <2>1 DEF h, h2
  <2> QED BY <1>4, <1>5, <2>2 DEF o, a, o2, a2
<1>13. CASE LoseReply \/ Garble
  <2>1. toTarget' = toTarget /\ ram' = ram /\ inbuf' = inbuf /\ toHost # <<>>
        /\ toHost' \in {Tail(toHost), <<Reply("garbled", 0, FALSE)>> \o Tail(toHost)}
    BY <1>13 DEF LoseReply, Garble, device
  <2>2. h2 =< h
    <3>1. CASE toHost' = Tail(toHost)
      BY <1>1, <1>4, <2>1, <3>1, CountDequeue DEF h, h2
    <3>2. CASE toHost' = <<Reply("garbled", 0, FALSE)>> \o Tail(toHost)
      <4>1. Reply("garbled", 0, FALSE) \in Replies /\ Reply("garbled", 0, FALSE) \notin Acks
        BY Messages, NoOtherAck
      <4> QED BY <1>1, <2>1, <3>2, <4>1, CountReplace DEF h, h2
    <3> QED BY <2>1, <3>1, <3>2
  <2>3. b2 = b /\ o2 = o /\ a2 = a
    BY <1>7, <1>9, <2>1
  <2> QED BY <1>4, <1>5, <2>2, <2>3 DEF o, a, o2, a2
<1>14. CASE Deliver
  <2>1. toTarget' = toTarget /\ ram' = ram /\ toHost # <<>>
        /\ toHost' = Tail(toHost) /\ inbuf' = Append(inbuf, Head(toHost))
    BY <1>14 DEF Deliver, device
  <2>2. Head(toHost) \in Replies
    BY <1>1, <2>1, Dequeue
  <2>3. h = h2 + IF Head(toHost) \in Acks THEN 1 ELSE 0
    BY <1>1, <2>1, CountDequeue DEF h, h2
  <2>4. b2 = b + IF Head(toHost) \in Acks THEN 1 ELSE 0
    BY <1>1, <2>1, <2>2, CountEnqueue DEF b, b2
  <2>5. o2 = o /\ a2 = a
    BY <1>7, <2>1
  <2> QED BY <1>4, <1>5, <2>3, <2>4, <2>5 DEF o, a, o2, a2
<1> QED BY <1>10, <1>11, <1>12, <1>13, <1>14 DEF TargetSteps, LinkSteps

(* Every step keeps the accounts: a send is the write that is waited for, a *)
(* deadline is a retry, and an ack that is taken was paid for.              *)
LEMMA AccountsStep ==
  ASSUME TypeOK, Phase, AcksPaid, GapsPaid, [Next]_vars
  PROVE  AcksPaid' /\ GapsPaid'
<1>1. /\ toTarget \in Seq(Requests) /\ toHost \in Seq(Replies) /\ inbuf \in Seq(Replies)
      /\ Last \in Nat \ {0} /\ at \in 1 .. Last + 1 /\ at - 1 \in Nat /\ at \in Nat
      /\ retries \in Nat /\ oldAcks \in Nat
      /\ Uploading => at \in 1 .. Last
  BY Numbers DEF TypeOK, Phase
<1>2. toTarget' \in Seq(Requests) /\ toHost' \in Seq(Replies) /\ inbuf' \in Seq(Replies)
  BY LinkTypes
<1> DEFINE h == Count(toHost, Acks)
           b == Count(inbuf, Acks)
           b2 == Count(inbuf', Acks)
           paid == retries + oldAcks
           gaps == Open(at - 1, at - 1, ram, toTarget)
           behind == Open(at - 1, Last, ram, toTarget)
           upto == Open(at, Last, ram, toTarget)
<1>3. /\ h \in Nat /\ b \in Nat /\ b2 \in Nat /\ paid \in Nat
      /\ gaps \in Nat /\ behind \in Nat /\ upto \in Nat
  <2>1. h \in Nat /\ b \in Nat /\ b2 \in Nat
    BY <1>1, <1>2, CountType
  <2>2. gaps \in Nat /\ behind \in Nat /\ upto \in Nat
    BY <1>1, OpenType
  <2>3. paid \in Nat
    BY <1>1
  <2> QED BY <2>1, <2>2, <2>3
<1>4. /\ gaps =< paid
      /\ host = "write" => behind + h + b =< paid
      /\ host = "ack" => upto + h + b =< paid + 1
  BY <1>3 DEF AcksPaid, GapsPaid, InFlight
<1>5. host' = host => (Uploading' <=> Uploading)
  BY DEF Uploading
<1>6. CASE WriteRam
  <2>1. /\ host = "write" /\ host' = "ack" /\ at \in 1 .. Last
        /\ toTarget' = Append(toTarget, Request("write", at)) /\ inbuf' = <<>>
        /\ UNCHANGED <<toHost, ram, at, retries, oldAcks>>
    BY <1>1, <1>6 DEF WriteRam, Send, upload, device, Uploading
  <2>2. Request("write", at) \in Requests /\ Request("write", at) \notin Writes(at - 1)
    BY <2>1, Messages, Numbers DEF Writes, Request
  <2>3. Open(at - 1, at - 1, ram, toTarget') =< gaps
    <3>1. Open(at - 1, at - 1, ram, toTarget')
            =< gaps + IF Request("write", at) \in Writes(at - 1) THEN 1 ELSE 0
      BY <1>1, <2>1, <2>2, OpenSent
    <3> HIDE DEF gaps
    <3> QED BY <1>3, <2>2, <3>1
  <2>4. Open(at, Last, ram, toTarget') =< behind + 1
    BY <1>1, <2>1, OpenWrite
  <2>5. Open(at - 1, at - 1, ram, toTarget') \in Nat /\ Open(at, Last, ram, toTarget') \in Nat
    BY <1>1, <1>2, OpenType
  <2>6. b2 = 0
    BY <2>1, CountEmpty
  <2>7. GapsPaid'
    <3> HIDE DEF gaps
    <3> QED BY <1>1, <1>3, <1>4, <2>1, <2>3, <2>5 DEF GapsPaid
  <2>8. InFlight' = h + b2
    BY <2>1 DEF InFlight
  <2>9. Open(at, Last, ram, toTarget') + h + b2 =< paid + 1
    <3> HIDE DEF behind, h, b2, paid, b
    <3> QED BY <1>3, <1>4, <2>1, <2>4, <2>5, <2>6
  <2>10. AcksPaid'
    <3>1. /\ host' = "ack" /\ InFlight' = h + b2 /\ retries' + oldAcks' = paid
          /\ Open(at', Last, ram', toTarget') = Open(at, Last, ram, toTarget')
      BY <2>1, <2>8
    <3> HIDE DEF h, b2, paid
    <3>2. Open(at, Last, ram, toTarget') + (h + b2) =< paid + 1
      BY <1>3, <2>5, <2>9
    <3> QED BY <3>1, <3>2 DEF AcksPaid
  <2> QED BY <2>7, <2>10
<1>7. CASE WriteReply
  <2>1. /\ host = "ack" /\ at \in 1 .. Last /\ inbuf # <<>> /\ inbuf' = Tail(inbuf)
        /\ UNCHANGED <<toTarget, toHost, ram, retries, oldAcks>>
        /\ \/ Head(inbuf).shape = "ack" /\ at' = at + 1 /\ host' \in {"write", "go"}
           \/ at' = at /\ host' = "failed"
    BY <1>1, <1>7 DEF WriteReply, ReadFrame, Acknowledged, Frame, device, Uploading
  <2>2. CASE Head(inbuf).shape = "ack" /\ at' = at + 1 /\ host' \in {"write", "go"}
    <3>1. Head(inbuf) \in Acks
      <4>1. Head(inbuf) \in Replies
        BY <1>1, <2>1, Dequeue
      <4> QED BY <2>2, <4>1 DEF Acks, Replies
    <3>2. b = b2 + 1
      BY <1>1, <2>1, <3>1, CountDequeue
    <3>3. Open(at, at, ram, toTarget) =< upto /\ Open(at, at, ram, toTarget) \in Nat
      BY <1>1, <2>1, OpenMore, OpenType
    <3>4. InFlight' = h + b2 /\ at' - 1 = at
      BY <1>1, <2>1, <2>2 DEF InFlight
    <3>5. upto + h + b2 =< paid /\ Open(at, at, ram, toTarget) =< paid
      <4> HIDE DEF upto, h, b, b2, paid
      <4> QED BY <1>3, <1>4, <2>1, <3>2, <3>3
    <3>6. Open(at, Last, ram, toTarget) + (h + b2) =< paid
      <4> HIDE DEF h, b2, paid
      <4> QED BY <1>3, <3>5
    <3> QED BY <2>1, <2>2, <3>4, <3>5, <3>6 DEF AcksPaid, GapsPaid
  <2>3. CASE at' = at /\ host' = "failed"
    BY <1>4, <2>1, <2>3 DEF AcksPaid, GapsPaid
  <2> QED BY <2>1, <2>2, <2>3
<1>8. CASE WriteTimeout
  <2>1. /\ host = "ack" /\ retries' = retries + 1 /\ host' \in {"write", "failed"}
        /\ UNCHANGED <<toTarget, toHost, inbuf, ram, at, oldAcks>>
    BY <1>8 DEF WriteTimeout, link, device
  <2>2. behind =< upto
    BY <1>1, <2>1, OpenMore DEF Uploading
  <2>3. retries' + oldAcks' = paid + 1 /\ InFlight' = h + b
    BY <1>1, <2>1 DEF InFlight
  <2>4. gaps =< paid + 1 /\ behind + (h + b) =< paid + 1
    <3> HIDE DEF gaps, behind, upto, h, b, paid
    <3> QED BY <1>3, <1>4, <2>1, <2>2
  <2> QED BY <2>1, <2>3, <2>4 DEF AcksPaid, GapsPaid
<1>9. CASE Execute \/ Ask \/ CallStage2
  <2>1. /\ host' \notin {"write", "ack"} /\ UNCHANGED <<ram, at, retries, oldAcks>>
        /\ \E e \in {Request("go", 0), Request("ask", asked), Request("call", 0)} :
             toTarget' = Append(toTarget, e)
    BY <1>9 DEF Execute, Ask, CallStage2, Send, upload, device
  <2>2. PICK e \in {Request("go", 0), Request("ask", asked), Request("call", 0)} :
             toTarget' = Append(toTarget, e) /\ e \in Requests
    <3>1. Ask => asked \in Commands
      BY DEF Ask, Phase, Asking
    <3> QED BY <1>9, <3>1, Messages DEF Execute, Ask, CallStage2, Send
  <2>3. e \notin Writes(at - 1)
    BY DEF Writes, Request
  <2>4. Open(at - 1, at - 1, ram, toTarget') =< gaps + IF e \in Writes(at - 1) THEN 1 ELSE 0
    BY <1>1, <2>2, OpenSent
  <2>5. Open(at - 1, at - 1, ram, toTarget') \in Nat
    BY <1>1, <1>2, OpenType
  <2>6. Open(at - 1, at - 1, ram, toTarget') =< paid
    <3> HIDE DEF gaps, paid
    <3> QED BY <1>3, <1>4, <2>3, <2>4, <2>5
  <2> QED BY <2>1, <2>6 DEF AcksPaid, GapsPaid
<1>10. CASE ExecuteReply \/ ExecuteTimeout \/ AnswerReply \/ AnswerTimeout \/ TransportError
  <2>1. /\ host' \notin {"write", "ack"} /\ UNCHANGED <<toTarget, ram, at, retries, oldAcks>>
    BY <1>10 DEF ExecuteReply, ExecuteTimeout, AnswerReply, AnswerTimeout, TransportError,
       ReadFrame, Accepted, upload, link, device
  <2> QED BY <1>4, <2>1 DEF AcksPaid, GapsPaid
<1>11. CASE TargetSteps \/ LinkSteps
  <2>1. UNCHANGED <<host, at, retries, oldAcks>>
    BY <1>11, NotTheHost
  <2>2. Open(at - 1, at - 1, ram', toTarget') =< gaps
    BY <1>1, <1>11, Flow
  <2>3. Open(at - 1, Last, ram', toTarget') + InFlight' =< behind + InFlight
    BY <1>1, <1>11, Flow
  <2>4. Uploading => Open(at, Last, ram', toTarget') + InFlight' =< upto + InFlight
    BY <1>1, <1>11, Flow
  <2>5. /\ Open(at - 1, at - 1, ram', toTarget') \in Nat
        /\ Open(at - 1, Last, ram', toTarget') \in Nat
        /\ Open(at, Last, ram', toTarget') \in Nat /\ InFlight' \in Nat /\ InFlight = h + b
    <3>1. Count(toHost', Acks) \in Nat /\ Count(inbuf', Acks) \in Nat
      BY <1>2, CountType
    <3>2. /\ Open(at - 1, at - 1, ram', toTarget') \in Nat
          /\ Open(at - 1, Last, ram', toTarget') \in Nat
          /\ Open(at, Last, ram', toTarget') \in Nat
      BY <1>1, <1>2, OpenType
    <3> QED BY <3>1, <3>2 DEF InFlight
  <2>6. /\ Open(at - 1, at - 1, ram', toTarget') =< paid
        /\ host = "write" => Open(at - 1, Last, ram', toTarget') + InFlight' =< paid
        /\ host = "ack" => Open(at, Last, ram', toTarget') + InFlight' =< paid + 1
    <3> HIDE DEF gaps, behind, upto, h, b, paid
    <3> QED BY <1>3, <1>4, <2>2, <2>3, <2>4, <2>5 DEF Uploading
  <2> QED BY <2>1, <2>6 DEF AcksPaid, GapsPaid
<1>12. CASE UNCHANGED vars
  BY <1>12 DEF vars, upload, link, device, AcksPaid, GapsPaid, InFlight
<1> QED BY <1>6, <1>7, <1>8, <1>9, <1>10, <1>11, <1>12 DEF Next, HostSteps

(* The gaps are among the missing chunks and the ones under way.            *)
LEMMA GapsAreOpen ==
  ASSUME TypeOK, GapsPaid PROVE GapsExplained
<1>1. /\ toTarget \in Seq(Requests) /\ at \in 1 .. Last + 1 /\ at - 1 \in Nat
      /\ retries \in Nat /\ oldAcks \in Nat /\ Last \in Nat
  BY Numbers DEF TypeOK
<1> DEFINE missing == Missing(at - 1, ram, toTarget)
           places == Places(toTarget, Writes(at - 1))
           arrive == [i \in places |-> toTarget[i].arg]
           coming == {toTarget[i].arg : i \in places}
<1>2. /\ IsFiniteSet(missing) /\ Cardinality(missing) \in Nat
      /\ IsFiniteSet(places) /\ Cardinality(places) \in Nat
      /\ Cardinality(missing) + Cardinality(places) =< retries + oldAcks
  BY <1>1, OpenType, CountType DEF GapsPaid, Open, Count
<1>3. IsFiniteSet(coming) /\ Cardinality(coming) =< Cardinality(places)
  <2>1. arrive \in Surjection(places, coming)
    <3>1. arrive \in [places -> coming] /\ \A c \in coming : \E i \in places : arrive[i] = c
      OBVIOUS
    <3> QED BY <3>1 DEF Surjection
  <2> HIDE DEF arrive, coming, places
  <2> QED BY <1>2, <2>1, FS_Surjection
<1>4. Gaps \subseteq missing \cup coming
  <2> SUFFICES ASSUME NEW c \in Gaps, c \notin missing PROVE c \in coming
    OBVIOUS
  <2>1. c \in 1 .. at - 1 /\ ram[c] # "right"
    BY DEF Gaps
  <2>2. PICK i \in 1 .. Len(toTarget) : toTarget[i] = Request("write", c)
    BY <2>1 DEF Missing
  <2>3. i \in places /\ toTarget[i].arg = c
    BY <2>1, <2>2 DEF Places, Writes, Request
  <2> QED BY <2>3
<1> HIDE DEF missing, places, arrive, coming
<1>5. Cardinality(coming) \in Nat
  BY <1>3, FS_CardinalityType
<1>6. IsFiniteSet(missing \cup coming)
      /\ Cardinality(missing \cup coming) =< Cardinality(missing) + Cardinality(coming)
      /\ Cardinality(missing \cup coming) \in Nat
  <2>1. /\ IsFiniteSet(missing \cup coming)
        /\ Cardinality(missing \cup coming)
             = Cardinality(missing) + Cardinality(coming) - Cardinality(missing \cap coming)
    BY <1>2, <1>3, FS_Union
  <2>2. Cardinality(missing \cap coming) \in Nat
    BY <1>2, <1>3, FS_Intersection, FS_CardinalityType
  <2>3. Cardinality(missing \cup coming) \in Nat
    BY <2>1, FS_CardinalityType
  <2> QED BY <1>2, <1>5, <2>1, <2>2, <2>3
<1>7. Cardinality(Gaps) =< Cardinality(missing \cup coming) /\ Cardinality(Gaps) \in Nat
  BY <1>4, <1>6, FS_Subset, FS_CardinalityType
<1> QED BY <1>1, <1>2, <1>3, <1>5, <1>6, <1>7 DEF GapsExplained

-----------------------------------------------------------------------------
(* What is on the link *)

(* The host writes neither the replies' link nor the target's RAM.          *)
LEMMA HostSide ==
  ASSUME HostSteps \/ UNCHANGED vars PROVE UNCHANGED <<toHost, target, ram>>
  BY DEF HostSteps, WriteRam, WriteReply, WriteTimeout, Execute, ExecuteReply,
     ExecuteTimeout, Ask, AnswerReply, AnswerTimeout, CallStage2, TransportError,
     Send, ReadFrame, vars, link, device

(* The host's steps, by what they do to the link: a request is sent, a      *)
(* reply is read, or the wait is given up.                                  *)
LEMMA HostCases ==
  ASSUME HostSteps \/ UNCHANGED vars
  PROVE  \/ host = "write" /\ host' = "ack" /\ inbuf' = <<>>
            /\ toTarget' = Append(toTarget, Request("write", at)) /\ UNCHANGED <<at, asked>>
         \/ host = "go" /\ host' = "gone" /\ inbuf' = <<>>
            /\ toTarget' = Append(toTarget, Request("go", 0)) /\ UNCHANGED <<at, asked>>
         \/ host = "ask" /\ host' = "answer" /\ inbuf' = <<>>
            /\ toTarget' = Append(toTarget, Request("ask", asked)) /\ UNCHANGED <<at, asked>>
         \/ host = "call" /\ host' = "console" /\ inbuf' = <<>>
            /\ toTarget' = Append(toTarget, Request("call", 0)) /\ UNCHANGED <<at, asked>>
         \/ host = "ack" /\ host' \in {"write", "go"} /\ inbuf # <<>> /\ inbuf' = Tail(inbuf)
            /\ Head(inbuf).shape = "ack" /\ UNCHANGED <<toTarget, asked>>
         \/ host = "gone" /\ host' = "ask" /\ inbuf # <<>> /\ inbuf' = Tail(inbuf)
            /\ UNCHANGED <<toTarget, at, asked>>
         \/ host = "answer" /\ AnswerReply /\ Head(inbuf).shape = Expected(asked)
         \/ host = "answer" /\ host' = "answer" /\ inbuf # <<>> /\ inbuf' = Tail(inbuf)
            /\ UNCHANGED <<toTarget, at, asked>>
         \/ host = "ack" /\ host' = "write" /\ UNCHANGED <<toTarget, inbuf, at, asked>>
         \/ host = "gone" /\ host' = "ask" /\ UNCHANGED <<toTarget, inbuf, at, asked>>
         \/ UNCHANGED <<host, toTarget, inbuf, at, asked>>
         \/ host # "console" /\ host' = "failed" /\ UNCHANGED toTarget
<1>1. CASE WriteRam \/ Execute \/ Ask \/ CallStage2
  BY <1>1 DEF WriteRam, Execute, Ask, CallStage2, Send, upload, session
<1>2. CASE WriteReply
  BY <1>2 DEF WriteReply, ReadFrame, Acknowledged, Frame, upload, session
<1>3. CASE ExecuteReply \/ AnswerReply
  BY <1>3 DEF ExecuteReply, AnswerReply, ReadFrame, Frame, upload, session
<1>4. CASE WriteTimeout \/ ExecuteTimeout \/ AnswerTimeout \/ TransportError
  BY <1>4 DEF WriteTimeout, ExecuteTimeout, AnswerTimeout, TransportError, upload, session, link
<1>5. CASE UNCHANGED vars
  BY <1>5 DEF vars, upload, session, link
<1> QED BY <1>1, <1>2, <1>3, <1>4, <1>5 DEF HostSteps

(* An answer that is taken was the last thing on the link.                  *)
LEMMA AnswerTaken ==
  ASSUME TypeOK, Phase, LastWord, AnswerReply, Head(inbuf).shape = Expected(asked)
  PROVE  /\ inbuf # <<>> /\ Head(inbuf) = inbuf[1] /\ Len(inbuf) = 1 /\ inbuf[1].to = asked
         /\ inbuf' = Tail(inbuf) /\ Len(inbuf') = 0
         /\ toTarget' = <<>> /\ toHost' = <<>> /\ inbuf[1] \in Replies
         /\ UNCHANGED <<at, ram, target>> /\ asked' = asked + 1
         /\ Accepted(inbuf[1]) /\ host' \in {"failed", "ask", "call"}
<1>1. /\ host = "answer" /\ inbuf # <<>> /\ inbuf \in Seq(Replies) /\ inbuf' = Tail(inbuf)
      /\ UNCHANGED <<toTarget, toHost, at, ram, target>> /\ Accepted(Head(inbuf))
  BY DEF AnswerReply, ReadFrame, Frame, TypeOK, upload, device
<1>2. /\ Head(inbuf) = inbuf[1] /\ inbuf[1] \in Replies /\ Len(inbuf) \in Nat \ {0}
      /\ Len(inbuf') = Len(inbuf) - 1
  BY <1>1, Dequeue
<1>3. IsAnswer(inbuf[1])
  BY <1>2 DEF IsAnswer, Expected
<1>4. 1 = Len(inbuf) /\ inbuf[1].to = asked /\ toTarget = <<>> /\ toHost = <<>>
  <2>1. 1 \in 1 .. Len(inbuf)
    BY <1>2
  <2> QED BY <1>1, <1>3, <2>1 DEF LastWord
<1>5. asked' = asked + 1 /\ host' \in {"failed", "ask", "call"}
  BY <1>1 DEF Accepted
<1> QED BY <1>1, <1>2, <1>4, <1>5

(* The target takes one request, and answers at most once.                  *)
LEMMA TargetCases ==
  ASSUME TypeOK, TargetSteps
  PROVE  /\ toTarget # <<>> /\ toTarget' = Tail(toTarget) /\ inbuf' = inbuf
         /\ UNCHANGED <<host, at, asked>>
         /\ \/ target = "pbl" /\ target' = "pbl" /\ toHost' = Append(toHost, Ack)
            \/ target = "pbl" /\ Head(toTarget).kind = "go"
               /\ (toHost' = <<>> \/ toHost' = Append(toHost, Other))
            \/ target = "pbl" /\ target' = "pbl" /\ toHost' = Append(toHost, Other)
            \/ target = "monitor" /\ target' = "monitor" /\ Head(toTarget).kind = "ask"
               /\ toHost' = Append(toHost, Reply(Expected(Head(toTarget).arg), Head(toTarget).arg,
                                                 Right(CrcRange(Head(toTarget).arg))))
            \/ target = "monitor" /\ target' = "monitor" /\ toHost' = Append(toHost, BadCommand)
               /\ Head(toTarget).kind \in {"write", "go"}
            \/ Bl1 /\ Head(toTarget).kind = "call"
<1>1. UNCHANGED <<host, at, asked>>
  BY NotTheHost
<1>2. CASE PblWrite
  BY <1>1, <1>2 DEF PblWrite, Take, Answer
<1>3. CASE PblExecute
  BY <1>1, <1>3 DEF PblExecute, Take, Answer
<1>4. CASE PblReject
  BY <1>1, <1>4 DEF PblReject, Take, Answer, device
<1>5. CASE MonitorAnswer
  BY <1>1, <1>5 DEF MonitorAnswer, Take, Answer, device
<1>6. CASE MonitorReject
  BY <1>1, <1>6 DEF MonitorReject, Take, Answer, device
<1>7. CASE Bl1
  BY <1>1, <1>7 DEF Bl1, Take
<1> QED BY <1>2, <1>3, <1>4, <1>5, <1>6, <1>7 DEF TargetSteps

(* The link loses or garbles a head, or hands it on.                        *)
LEMMA LinkCases ==
  ASSUME LinkSteps
  PROVE  /\ UNCHANGED <<host, at, asked, target, ram>>
         /\ \/ toHost # <<>> /\ toHost' = Tail(toHost) /\ inbuf' = Append(inbuf, Head(toHost))
               /\ toTarget' = toTarget
            \/ toTarget # <<>> /\ toTarget' = Tail(toTarget) /\ UNCHANGED <<toHost, inbuf>>
            \/ toHost # <<>> /\ toHost' = Tail(toHost) /\ UNCHANGED <<toTarget, inbuf>>
            \/ toHost # <<>> /\ toHost' = <<Reply("garbled", 0, FALSE)>> \o Tail(toHost)
               /\ UNCHANGED <<toTarget, inbuf>>
<1>1. UNCHANGED <<host, at, asked>>
  BY NotTheHost
<1>2. CASE Deliver
  BY <1>1, <1>2 DEF Deliver, device
<1>3. CASE LoseRequest
  BY <1>1, <1>3 DEF LoseRequest, device
<1>4. CASE LoseReply
  BY <1>1, <1>4 DEF LoseReply, device
<1>5. CASE Garble
  BY <1>1, <1>5 DEF Garble, device
<1> QED BY <1>2, <1>3, <1>4, <1>5 DEF LinkSteps

(* The requests on the link stay in the host's order.                       *)
LEMMA SentStep ==
  ASSUME TypeOK, Phase, SentInTurn, Resident, LastWord, [Next]_vars PROVE SentInTurn'
<1>1. /\ toTarget \in Seq(Requests) /\ Len(toTarget) \in Nat /\ Last \in Nat \ {0}
      /\ Uploading => at \in Chunks
      /\ host = "go" => at = Last + 1
      /\ Asking => asked \in Commands
  BY Numbers, LenProperties DEF TypeOK, Phase
<1>2. ASSUME NEW e \in Requests, toTarget' = Append(toTarget, e)
      PROVE  /\ Len(toTarget') = Len(toTarget) + 1 /\ toTarget'[Len(toTarget) + 1] = e
             /\ \A i \in 1 .. Len(toTarget) : toTarget'[i] = toTarget[i]
  BY <1>1, <1>2, Enqueue
<1>3. ASSUME toTarget # <<>>, toTarget' = Tail(toTarget)
      PROVE  /\ Head(toTarget) = toTarget[1] /\ Len(toTarget) \in Nat \ {0}
             /\ Len(toTarget') = Len(toTarget) - 1
             /\ \A i \in 1 .. Len(toTarget) - 1 : toTarget'[i] = toTarget[i + 1]
  BY <1>1, <1>3, Dequeue
<1>4. CASE HostSteps \/ UNCHANGED vars
  <2>0. target' = target
    BY <1>4, HostSide
  <2>1. CASE /\ host = "write" /\ host' = "ack"
             /\ toTarget' = Append(toTarget, Request("write", at))
    <3>1. Request("write", at) \in Requests /\ Request("write", at).kind = "write"
      BY <1>1, <2>1, Messages DEF Request, Uploading
    <3>2. /\ Len(toTarget') = Len(toTarget) + 1
          /\ \A i \in 1 .. Len(toTarget') : toTarget'[i].kind = "write"
      BY <1>1, <1>2, <2>1, <3>1 DEF SentInTurn, Uploading
    <3> QED BY <2>0, <2>1, <3>2 DEF SentInTurn, Uploading
  <2>2. CASE /\ host = "go" /\ host' = "gone"
             /\ toTarget' = Append(toTarget, Request("go", 0))
    <3>1. Request("go", 0) \in Requests /\ Request("go", 0).kind = "go"
      BY Messages DEF Request
    <3>2. /\ Len(toTarget') = Len(toTarget) + 1 /\ toTarget'[Len(toTarget) + 1].kind = "go"
          /\ \A i \in 1 .. Len(toTarget) : toTarget'[i].kind = "write"
      BY <1>1, <1>2, <2>2, <3>1 DEF SentInTurn, Uploading
    <3>3. target' = "pbl"
      BY <1>1, <2>0, <2>2 DEF SentInTurn, Resident
    <3> QED BY <1>1, <2>2, <3>2, <3>3 DEF SentInTurn, Uploading
  <2>3. CASE /\ host = "ask" /\ host' = "answer"
             /\ toTarget' = Append(toTarget, Request("ask", asked))
    <3>1. Request("ask", asked) \in Requests /\ Request("ask", asked).kind = "ask"
      BY <1>1, <2>3, Messages DEF Request, Asking
    <3>2. /\ Len(toTarget') = Len(toTarget) + 1 /\ toTarget'[Len(toTarget) + 1].kind = "ask"
          /\ \A i \in 1 .. Len(toTarget) : toTarget'[i] = toTarget[i]
      BY <1>2, <2>3, <3>1
    <3> QED BY <1>1, <2>0, <2>3, <3>2 DEF SentInTurn, Uploading
  <2>4. CASE host' = "console"
    BY <2>4 DEF SentInTurn, Uploading
  <2>5. CASE /\ toTarget' = toTarget /\ (host' = "console" => host = "console")
             /\ host = "console" => host' = "console"
             /\ Uploading' \/ host' = "go" => Uploading \/ host = "go"
             /\ host' \in {"gone", "ask", "answer", "call"}
                => host \in {"gone", "ask", "answer", "call"}
    BY <2>0, <2>5 DEF SentInTurn
  <2>6. CASE AnswerReply /\ Head(inbuf).shape = Expected(asked)
    <3>1. toTarget' = <<>> /\ host' \in {"failed", "ask", "call"}
      BY <2>6, AnswerTaken
    <3> QED BY <3>1 DEF SentInTurn, Uploading
  <2> QED BY <1>4, <2>1, <2>2, <2>3, <2>4, <2>5, <2>6, HostCases DEF Uploading
<1>5. CASE TargetSteps
  <2>1. /\ toTarget # <<>> /\ toTarget' = Tail(toTarget) /\ host' = host
        /\ \/ target' = target
           \/ target = "pbl" /\ Head(toTarget).kind = "go"
           \/ Head(toTarget).kind = "call"
    BY <1>5, TargetCases
  <2>2. /\ Head(toTarget) = toTarget[1] /\ Len(toTarget) \in Nat \ {0}
        /\ Len(toTarget') = Len(toTarget) - 1
        /\ \A i \in 1 .. Len(toTarget) - 1 : toTarget'[i] = toTarget[i + 1]
    BY <1>3, <2>1
  <2>3. \A i \in 1 .. Len(toTarget') : toTarget'[i] = toTarget[i + 1]
        /\ i + 1 \in 1 .. Len(toTarget)
    BY <2>2
  <2>4. \A i \in 1 .. Len(toTarget') : toTarget'[i].kind = "call" => host' = "console"
    BY <2>1, <2>3 DEF SentInTurn
  <2>5. ASSUME Uploading' \/ host' = "go"
        PROVE  /\ target' \in {"pbl", "monitor"}
               /\ \A i \in 1 .. Len(toTarget') : toTarget'[i].kind = "write"
    BY <2>1, <2>2, <2>3, <2>5 DEF SentInTurn, Uploading
  <2>6. ASSUME host \in {"gone", "ask", "answer", "call"}, NEW i \in 1 .. Len(toTarget')
        PROVE  /\ target' # "pbl" => toTarget'[i].kind = "ask"
               /\ toTarget'[i].kind \in {"write", "go"} =>
                    \A j \in 1 .. i - 1 : toTarget'[j].kind = "write"
    <3>1. /\ toTarget'[i] = toTarget[i + 1] /\ i + 1 \in 1 .. Len(toTarget)
          /\ 1 \in 1 .. (i + 1) - 1
          /\ 1 \in 1 .. Len(toTarget)
      BY <2>2, <2>3
    <3>2. toTarget'[i].kind \in {"write", "go"} => toTarget[1].kind = "write"
      BY <2>6, <3>1 DEF SentInTurn
    <3>3. \A j \in 1 .. i - 1 : toTarget'[j] = toTarget[j + 1] /\ j + 1 \in 1 .. (i + 1) - 1
      BY <2>2, <2>3
    <3>4. toTarget'[i].kind \in {"write", "go"} => \A j \in 1 .. i - 1 : toTarget'[j].kind = "write"
      BY <2>6, <3>1, <3>3 DEF SentInTurn
    <3>5. toTarget[1].kind # "call" /\ toTarget'[i].kind # "call"
      BY <2>1, <2>4, <2>6, <3>1 DEF SentInTurn
    <3>6. toTarget'[i] \in Requests
      BY <1>1, <3>1
    <3>7. target' # "pbl" => toTarget'[i].kind = "ask"
      <4>1. CASE target' = target
        BY <2>6, <3>1, <4>1 DEF SentInTurn
      <4>2. CASE target = "pbl" /\ Head(toTarget).kind = "go"
        <5>1. toTarget'[i].kind \notin {"write", "go", "call"}
          BY <2>2, <3>2, <3>5, <4>2
        <5> QED BY <3>6, <5>1 DEF Requests
      <4> QED BY <2>1, <2>2, <3>5, <4>1, <4>2
    <3> QED BY <3>4, <3>7
  <2> QED BY <2>1, <2>4, <2>5, <2>6 DEF SentInTurn
<1>6. CASE LinkSteps
  <2>1. CASE toTarget' = toTarget
    BY <1>6, <2>1, LinkCases DEF SentInTurn, Uploading
  <2>2. CASE toTarget # <<>> /\ toTarget' = Tail(toTarget)
    <3>1. /\ Len(toTarget) \in Nat \ {0} /\ Len(toTarget') = Len(toTarget) - 1
          /\ \A i \in 1 .. Len(toTarget) - 1 : toTarget'[i] = toTarget[i + 1]
          /\ host' = host /\ target' = target
      BY <1>3, <1>6, <2>2, LinkCases
    <3>2. \A i \in 1 .. Len(toTarget') :
            toTarget'[i] = toTarget[i + 1] /\ i + 1 \in 1 .. Len(toTarget)
      BY <3>1
    <3>3. \A i \in 1 .. Len(toTarget') : \A j \in 1 .. i - 1 :
            toTarget'[j] = toTarget[j + 1] /\ j + 1 \in 1 .. (i + 1) - 1
      BY <3>1
    <3>4. \A i \in 1 .. Len(toTarget') : toTarget'[i].kind = "call" => host' = "console"
      BY <3>1, <3>2 DEF SentInTurn
    <3>5. Uploading' \/ host' = "go" =>
            /\ target' \in {"pbl", "monitor"}
            /\ \A i \in 1 .. Len(toTarget') : toTarget'[i].kind = "write"
      BY <3>1, <3>2 DEF SentInTurn, Uploading
    <3>6. ASSUME host \in {"gone", "ask", "answer", "call"}, NEW i \in 1 .. Len(toTarget')
          PROVE  /\ target' # "pbl" => toTarget'[i].kind = "ask"
                 /\ toTarget'[i].kind \in {"write", "go"} =>
                      \A j \in 1 .. i - 1 : toTarget'[j].kind = "write"
      <4>1. toTarget'[i] = toTarget[i + 1] /\ i + 1 \in 1 .. Len(toTarget)
        BY <3>2
      <4>2. /\ target # "pbl" => toTarget[i + 1].kind = "ask"
            /\ toTarget[i + 1].kind \in {"write", "go"} =>
                 \A j \in 1 .. (i + 1) - 1 : toTarget[j].kind = "write"
        BY <3>6, <4>1 DEF SentInTurn
      <4> QED BY <3>1, <3>3, <4>1, <4>2
    <3> QED BY <3>1, <3>4, <3>5, <3>6 DEF SentInTurn
  <2> QED BY <1>6, <2>1, <2>2, LinkCases
<1> QED BY <1>4, <1>5, <1>6 DEF Next

(* A reply's index before and after a head has left, or one has joined.     *)
LEMMA ReplyPlaces ==
  ASSUME NEW s \in Seq(Replies)
  PROVE  /\ Len(s) \in Nat
         /\ s # <<>> => /\ Head(s) = s[1] /\ Head(s) \in Replies /\ Len(s) \in Nat \ {0}
                        /\ Len(Tail(s)) = Len(s) - 1
                        /\ \A i \in 1 .. Len(Tail(s)) :
                             Tail(s)[i] = s[i + 1] /\ i + 1 \in 1 .. Len(s) /\ 1 \in 1 .. Len(s)
         /\ \A r \in Replies : /\ Len(Append(s, r)) = Len(s) + 1
                               /\ Append(s, r)[Len(s) + 1] = r
                               /\ \A i \in 1 .. Len(s) : Append(s, r)[i] = s[i]
         /\ s # <<>> => LET t == <<Reply("garbled", 0, FALSE)>> \o Tail(s)
                        IN  /\ Len(t) = Len(s) /\ t[1] = Reply("garbled", 0, FALSE)
                            /\ \A i \in 1 .. Len(s) : i # 1 => t[i] = s[i]
<1>1. Len(s) \in Nat
  BY LenProperties
<1>2. ASSUME s # <<>>
      PROVE  /\ Head(s) = s[1] /\ Head(s) \in Replies /\ Len(s) \in Nat \ {0}
             /\ Len(Tail(s)) = Len(s) - 1
             /\ \A i \in 1 .. Len(Tail(s)) :
                  Tail(s)[i] = s[i + 1] /\ i + 1 \in 1 .. Len(s) /\ 1 \in 1 .. Len(s)
  BY <1>2, Dequeue
<1>3. ASSUME NEW r \in Replies
      PROVE  /\ Len(Append(s, r)) = Len(s) + 1
             /\ Append(s, r)[Len(s) + 1] = r
             /\ \A i \in 1 .. Len(s) : Append(s, r)[i] = s[i]
  BY Enqueue
<1>4. ASSUME s # <<>>
      PROVE  LET t == <<Reply("garbled", 0, FALSE)>> \o Tail(s)
             IN  /\ Len(t) = Len(s) /\ t[1] = Reply("garbled", 0, FALSE)
                 /\ \A i \in 1 .. Len(s) : i # 1 => t[i] = s[i]
  <2>1. Reply("garbled", 0, FALSE) \in Replies
    BY Messages
  <2> QED BY <1>1, <1>4, <2>1, Replace
<1> QED BY <1>1, <1>2, <1>3, <1>4

(* None of Q in s. *)
Without(s, Q) == \A i \in 1 .. Len(s) : s[i] \notin Q

(* Replies without Q stay so as they are read, garbled, or joined by a      *)
(* reply that is not in Q.                                                  *)
LEMMA StaysWithout ==
  ASSUME NEW s \in Seq(Replies), NEW Q, Without(s, Q)
  PROVE  /\ s # <<>> => Without(Tail(s), Q) /\ Head(s) \notin Q
         /\ \A r \in Replies : r \notin Q => Without(Append(s, r), Q)
         /\ s # <<>> /\ Reply("garbled", 0, FALSE) \notin Q
              => Without(<<Reply("garbled", 0, FALSE)>> \o Tail(s), Q)
<1>1. ASSUME s # <<>> PROVE Without(Tail(s), Q) /\ Head(s) \notin Q
  BY <1>1, ReplyPlaces DEF Without
<1>2. ASSUME NEW r \in Replies, r \notin Q PROVE Without(Append(s, r), Q)
  <2>1. \A i \in 1 .. Len(s) + 1 : i \in 1 .. Len(s) \/ i = Len(s) + 1
    BY ReplyPlaces
  <2> QED BY <1>2, <2>1, ReplyPlaces DEF Without
<1>3. ASSUME s # <<>>, Reply("garbled", 0, FALSE) \notin Q
      PROVE  Without(<<Reply("garbled", 0, FALSE)>> \o Tail(s), Q)
  <2> DEFINE t == <<Reply("garbled", 0, FALSE)>> \o Tail(s)
  <2>1. /\ Len(t) = Len(s) /\ t[1] = Reply("garbled", 0, FALSE)
        /\ \A i \in 1 .. Len(s) : i # 1 => t[i] = s[i]
    BY <1>3, ReplyPlaces
  <2> HIDE DEF t
  <2>2. \A i \in 1 .. Len(t) : t[i] \notin Q
    BY <1>3, <2>1 DEF Without
  <2> QED BY <2>2 DEF Without, t
<1> QED BY <1>1, <1>2, <1>3

(* Acks and answers as sets. *)
AckShaped == {r \in Replies : r.shape = "ack"}
Answers == {r \in Replies : IsAnswer(r)}

(* What the target and the link put on the link, by its shape.              *)
LEMMA Shapes ==
  /\ \A s \in Seq(Replies) : /\ NoAck(s) <=> Without(s, AckShaped)
                             /\ NoAnswer(s) <=> Without(s, Answers)
  /\ Ack \notin Answers /\ Other \notin Answers \cup AckShaped /\ BadCommand \notin AckShaped
  /\ Reply("garbled", 0, FALSE) \notin Answers \cup AckShaped
  /\ Reply("hex", 0, FALSE) \notin AckShaped
  /\ \A q, good : Reply(Expected(q), q, good) \notin AckShaped
  /\ NoAck(<<>>) /\ NoAnswer(<<>>)
<1>1. \A s \in Seq(Replies) : \A i \in 1 .. Len(s) : s[i] \in Replies
  OBVIOUS
<1>2. \A s \in Seq(Replies) : /\ NoAck(s) <=> Without(s, AckShaped)
                              /\ NoAnswer(s) <=> Without(s, Answers)
  BY <1>1 DEF NoAck, NoAnswer, Without, AckShaped, Answers
<1>3. /\ Ack \notin Answers /\ Other \notin Answers \cup AckShaped /\ BadCommand \notin AckShaped
      /\ Reply("garbled", 0, FALSE) \notin Answers \cup AckShaped
      /\ Reply("hex", 0, FALSE) \notin AckShaped
      /\ \A q, good : Reply(Expected(q), q, good) \notin AckShaped
  BY DEF Ack, Other, BadCommand, Reply, Answers, AckShaped, IsAnswer, Expected
<1>4. NoAck(<<>>) /\ NoAnswer(<<>>)
  BY DEF NoAck, NoAnswer
<1> QED BY <1>2, <1>3, <1>4

(* A resident monitor goes on acknowledging nothing. *)
LEMMA ResidentStep ==
  ASSUME TypeOK, Phase, SentInTurn, Resident, LastWord, [Next]_vars PROVE Resident'
<1> SUFFICES ASSUME target' = "monitor", Uploading' \/ host' = "go"
             PROVE  at' = 1 /\ Without(toHost', AckShaped) /\ Without(inbuf', AckShaped)
  BY LinkTypes, Shapes DEF Resident
<1>1. toHost \in Seq(Replies) /\ inbuf \in Seq(Replies) /\ toTarget \in Seq(Requests)
  BY DEF TypeOK
<1>2. CASE HostSteps \/ UNCHANGED vars
  <2>1. UNCHANGED <<toHost, target>>
    BY <1>2, HostSide
  <2>2. Uploading \/ host = "go"
    BY <1>2, HostCases, AnswerTaken DEF Uploading
  <2>3. at = 1 /\ Without(toHost, AckShaped) /\ Without(inbuf, AckShaped)
    BY <1>1, <2>1, <2>2, Shapes DEF Resident
  <2>4. inbuf # <<>> => Head(inbuf).shape # "ack"
    <3>1. inbuf # <<>> => Head(inbuf) \in Replies /\ Head(inbuf) \notin AckShaped
      BY <1>1, <2>3, StaysWithout, ReplyPlaces
    <3> QED BY <3>1 DEF AckShaped
  <2>5. at' = at /\ inbuf' \in {<<>>, inbuf}
    BY <1>2, <2>2, <2>4, HostCases, AnswerTaken DEF Uploading
  <2>6. Without(<<>>, AckShaped)
    BY DEF Without
  <2> QED BY <2>1, <2>3, <2>5, <2>6
<1>3. CASE TargetSteps
  <2>1. /\ host' = host /\ at' = at /\ inbuf' = inbuf /\ toTarget # <<>>
        /\ (Uploading' <=> Uploading)
    BY <1>3, TargetCases DEF Uploading
  <2>2. Head(toTarget).kind = "write"
    <3>1. Head(toTarget) = toTarget[1] /\ 1 \in 1 .. Len(toTarget)
      BY <1>1, <2>1, Dequeue
    <3> QED BY <2>1, <3>1 DEF SentInTurn
  <2>3. target = "monitor" /\ toHost' = Append(toHost, BadCommand)
    BY <1>3, <2>2, TargetCases
  <2>4. at = 1 /\ Without(toHost, AckShaped) /\ Without(inbuf, AckShaped)
    BY <1>1, <2>1, <2>3, Shapes DEF Resident
  <2>5. Without(toHost', AckShaped)
    BY <1>1, <2>3, <2>4, StaysWithout, Shapes, Messages
  <2> QED BY <2>1, <2>4, <2>5
<1>4. CASE LinkSteps
  <2>1. UNCHANGED <<host, at, target>> /\ (Uploading' <=> Uploading)
    BY <1>4, LinkCases DEF Uploading
  <2>2. at = 1 /\ Without(toHost, AckShaped) /\ Without(inbuf, AckShaped)
    BY <1>1, <2>1, Shapes DEF Resident
  <2>3. Without(toHost', AckShaped)
    BY <1>1, <1>4, <2>2, LinkCases, StaysWithout, Shapes
  <2>4. Without(inbuf', AckShaped)
    <3>1. toHost # <<>> => Head(toHost) \in Replies /\ Head(toHost) \notin AckShaped
      BY <1>1, <2>2, StaysWithout, ReplyPlaces
    <3> QED BY <1>1, <1>4, <2>2, <3>1, LinkCases, StaysWithout
  <2> QED BY <2>1, <2>2, <2>3, <2>4
<1> QED BY <1>2, <1>3, <1>4 DEF Next

(* Nothing that looks like an answer comes about unasked. *)
LEMMA QuietStep ==
  ASSUME TypeOK, Phase, SentInTurn, Resident, QuietLink, LastWord, [Next]_vars
  PROVE  QuietLink'
<1>1. /\ toHost \in Seq(Replies) /\ inbuf \in Seq(Replies) /\ toTarget \in Seq(Requests)
      /\ Last \in Nat \ {0}
      /\ host = "go" => at = Last + 1
  BY Numbers DEF TypeOK, Phase
<1>2. toHost' \in Seq(Replies) /\ inbuf' \in Seq(Replies) /\ toTarget' \in Seq(Requests)
  BY LinkTypes
<1>3. Without(<<>>, Answers)
  BY DEF Without
<1>4. ASSUME host' \in {"go", "gone", "ask", "call"} \/ (Uploading' /\ target' = "pbl")
      PROVE  Without(toHost', Answers) /\ Without(inbuf', Answers)
  <2>1. CASE HostSteps \/ UNCHANGED vars
    <3>1. toHost' = toHost /\ target' = target
      BY <2>1, HostSide
    <3>2. CASE AnswerReply /\ Head(inbuf).shape = Expected(asked)
      <4>1. toHost' = <<>> /\ Len(inbuf') = 0
        BY <3>2, AnswerTaken
      <4> QED BY <4>1 DEF Without
    <3>3. CASE host = "ack" /\ Head(inbuf).shape = "ack" /\ inbuf # <<>> /\ inbuf' = Tail(inbuf)
      <4>1. target = "pbl"
        <5>1. Head(inbuf) = inbuf[1] /\ 1 \in 1 .. Len(inbuf)
          BY <1>1, <3>3, Dequeue
        <5>2. ~NoAck(inbuf)
          BY <3>3, <5>1 DEF NoAck
        <5> QED BY <3>3, <5>2 DEF SentInTurn, Resident, Uploading
      <4>2. Without(toHost, Answers) /\ Without(inbuf, Answers)
        BY <1>1, <3>3, <4>1, Shapes DEF QuietLink, Uploading
      <4> QED BY <1>1, <3>1, <3>3, <4>2, StaysWithout
    <3>4. CASE /\ host \in {"go", "gone", "ask", "call"} \/ (Uploading /\ target = "pbl")
               /\ inbuf' \in {<<>>, inbuf} \/ (inbuf # <<>> /\ inbuf' = Tail(inbuf))
      <4>1. Without(toHost, Answers) /\ Without(inbuf, Answers)
        BY <1>1, <3>4, Shapes DEF QuietLink
      <4> QED BY <1>1, <1>3, <3>1, <3>4, <4>1, StaysWithout
    <3> QED BY <1>4, <2>1, <3>1, <3>2, <3>3, <3>4, HostCases DEF Uploading
  <2>2. CASE TargetSteps
    <3>1. /\ host' = host /\ toTarget # <<>> /\ inbuf' = inbuf /\ (Uploading' <=> Uploading)
      BY <2>2, TargetCases DEF Uploading
    <3>2. Head(toTarget) = toTarget[1] /\ 1 \in 1 .. Len(toTarget)
      BY <1>1, <3>1, Dequeue
    <3>3. /\ Uploading \/ host = "go" => Head(toTarget).kind = "write"
          /\ host \in {"gone", "ask", "call"} => /\ Head(toTarget).kind # "ask"
                                                 /\ target = "pbl"
          /\ Head(toTarget).kind = "call" => host = "console"
          /\ host = "go" => target = "pbl"
      <4>1. Uploading \/ host = "go" => Head(toTarget).kind = "write"
        BY <3>2 DEF SentInTurn
      <4>2. host \in {"gone", "ask", "call"} => Head(toTarget).kind # "ask"
        BY <3>2 DEF QuietLink, NoAsk
      <4>3. host \in {"gone", "ask", "call"} => target = "pbl"
        BY <3>2, <4>2 DEF SentInTurn
      <4>4. Head(toTarget).kind = "call" => host = "console"
        BY <3>2 DEF SentInTurn
      <4>5. host = "go" => target = "pbl"
        BY <1>1 DEF SentInTurn, Resident
      <4> QED BY <4>1, <4>2, <4>3, <4>4, <4>5
    <3>4. /\ host \in {"go", "gone", "ask", "call"} \/ (Uploading /\ target = "pbl")
          /\ target = "pbl"
          /\ toHost' = <<>> \/ toHost' \in {Append(toHost, Ack), Append(toHost, Other)}
      BY <1>4, <2>2, <3>1, <3>3, TargetCases DEF Uploading
    <3>5. Without(toHost, Answers) /\ Without(inbuf, Answers)
      BY <1>1, <3>4, Shapes DEF QuietLink
    <3> QED BY <1>1, <1>3, <3>1, <3>4, <3>5, StaysWithout, Shapes, Messages
  <2>3. CASE LinkSteps
    <3>1. UNCHANGED <<host, target>> /\ (Uploading' <=> Uploading)
      BY <2>3, LinkCases DEF Uploading
    <3>2. Without(toHost, Answers) /\ Without(inbuf, Answers)
      BY <1>1, <1>4, <3>1, Shapes DEF QuietLink
    <3>3. Without(toHost', Answers)
      BY <1>1, <2>3, <3>2, LinkCases, StaysWithout, Shapes
    <3>4. toHost # <<>> => Head(toHost) \in Replies /\ Head(toHost) \notin Answers
      BY <1>1, <3>2, StaysWithout, ReplyPlaces
    <3>5. Without(inbuf', Answers)
      BY <1>1, <2>3, <3>2, <3>4, LinkCases, StaysWithout
    <3> QED BY <3>3, <3>5
  <2> QED BY <2>1, <2>2, <2>3 DEF Next
<1>5. ASSUME host' \in {"gone", "ask", "call"} PROVE NoAsk'
  <2>1. CASE HostSteps \/ UNCHANGED vars
    <3>1. CASE AnswerReply /\ Head(inbuf).shape = Expected(asked)
      BY <3>1, AnswerTaken DEF NoAsk
    <3>2. CASE host = "go" /\ toTarget' = Append(toTarget, Request("go", 0))
      <4>1. Request("go", 0) \in Requests /\ Request("go", 0).kind = "go"
        BY Messages DEF Request
      <4>2. /\ Len(toTarget) \in Nat /\ Len(toTarget') = Len(toTarget) + 1
            /\ toTarget'[Len(toTarget) + 1].kind = "go"
            /\ \A i \in 1 .. Len(toTarget) : toTarget'[i].kind = "write"
        BY <1>1, <3>2, <4>1, Enqueue DEF SentInTurn
      <4>3. \A i \in 1 .. Len(toTarget') : i \in 1 .. Len(toTarget) \/ i = Len(toTarget) + 1
        BY <4>2
      <4> QED BY <4>2, <4>3 DEF NoAsk
    <3>3. CASE host \in {"gone", "ask", "call"} /\ toTarget' = toTarget
      BY <3>3 DEF QuietLink, NoAsk
    <3> QED BY <1>5, <2>1, <3>1, <3>2, <3>3, HostCases
  <2>2. CASE TargetSteps \/ LinkSteps
    <3>1. host' = host /\ (toTarget' = toTarget \/ (toTarget # <<>> /\ toTarget' = Tail(toTarget)))
      BY <2>2, TargetCases, LinkCases
    <3>2. NoAsk
      BY <1>5, <3>1 DEF QuietLink
    <3>3. toTarget # <<>> => /\ Len(toTarget) \in Nat \ {0}
                             /\ Len(Tail(toTarget)) = Len(toTarget) - 1
                             /\ \A i \in 1 .. Len(toTarget) - 1 :
                                  Tail(toTarget)[i] = toTarget[i + 1]
                                  /\ i + 1 \in 1 .. Len(toTarget)
      BY <1>1, Dequeue
    <3> QED BY <3>1, <3>2, <3>3 DEF NoAsk
  <2> QED BY <2>1, <2>2 DEF Next
<1>6. (host' \in {"go", "gone", "ask", "call"} \/ (Uploading' /\ target' = "pbl"))
        => NoAnswer(toHost') /\ NoAnswer(inbuf')
  BY <1>2, <1>4, Shapes
<1> QED BY <1>5, <1>6 DEF QuietLink

(* While the host waits, its command or the answer is the last thing about. *)
LEMMA LastWordStep ==
  ASSUME TypeOK, Phase, SentInTurn, QuietLink, LastWord, [Next]_vars
  PROVE  LastWord'
<1> SUFFICES ASSUME host' = "answer" PROVE LastWord'
  BY DEF LastWord
<1>1. /\ toHost \in Seq(Replies) /\ inbuf \in Seq(Replies) /\ toTarget \in Seq(Requests)
  BY DEF TypeOK
<1>2. /\ toHost' \in Seq(Replies) /\ inbuf' \in Seq(Replies)
  BY LinkTypes
<1>3. toTarget # <<>> =>
        /\ Len(toTarget) \in Nat \ {0} /\ Len(Tail(toTarget)) = Len(toTarget) - 1
        /\ Head(toTarget) = toTarget[1] /\ 1 \in 1 .. Len(toTarget)
        /\ \A i \in 1 .. Len(Tail(toTarget)) :
             Tail(toTarget)[i] = toTarget[i + 1] /\ i + 1 \in 1 .. Len(toTarget)
  BY <1>1, Dequeue
<1>4. CASE HostSteps \/ UNCHANGED vars
  <2>1. toHost' = toHost
    BY <1>4, HostSide
  <2>2. CASE AnswerReply /\ Head(inbuf).shape = Expected(asked)
    <3>1. host' \in {"failed", "ask", "call"}
      BY <2>2, AnswerTaken
    <3> QED BY <3>1
  <2>3. CASE /\ host = "ask" /\ inbuf' = <<>> /\ asked' = asked
             /\ toTarget' = Append(toTarget, Request("ask", asked))
    <3>1. /\ Request("ask", asked) \in Requests /\ Request("ask", asked).kind = "ask"
          /\ Request("ask", asked).arg = asked
      BY <2>3, Messages DEF Phase, Asking, Request
    <3>2. /\ Len(toTarget) \in Nat /\ Len(toTarget') = Len(toTarget) + 1
          /\ toTarget'[Len(toTarget) + 1] = Request("ask", asked)
          /\ \A i \in 1 .. Len(toTarget) : toTarget'[i] = toTarget[i]
      BY <1>1, <2>3, <3>1, Enqueue
    <3>3. NoAsk /\ NoAnswer(toHost) /\ NoAnswer(inbuf')
      BY <2>3, Shapes DEF QuietLink
    <3>4. \A i \in 1 .. Len(toTarget') : i \in 1 .. Len(toTarget) \/ i = Len(toTarget')
      BY <3>2
    <3>5. \A i \in 1 .. Len(toTarget') : toTarget'[i].kind = "ask" =>
             i = Len(toTarget') /\ toTarget'[i].arg = asked
      BY <3>1, <3>2, <3>3, <3>4 DEF NoAsk
    <3> QED BY <2>1, <2>3, <3>3, <3>5 DEF LastWord, NoAnswer
  <2>4. CASE /\ host = "answer" /\ inbuf # <<>> /\ inbuf' = Tail(inbuf)
             /\ UNCHANGED <<toTarget, asked>>
    <3>1. /\ Len(inbuf) \in Nat \ {0} /\ Len(inbuf') = Len(inbuf) - 1
          /\ \A i \in 1 .. Len(inbuf') : inbuf'[i] = inbuf[i + 1] /\ i + 1 \in 1 .. Len(inbuf)
      BY <1>1, <2>4, ReplyPlaces
    <3>2. NoAnswer(inbuf) => NoAnswer(inbuf')
      BY <3>1 DEF NoAnswer
    <3>3. \A i \in 1 .. Len(inbuf') : IsAnswer(inbuf'[i]) =>
            i = Len(inbuf') /\ inbuf'[i].to = asked /\ toTarget = <<>> /\ toHost = <<>>
      <4> SUFFICES ASSUME NEW i \in 1 .. Len(inbuf'), IsAnswer(inbuf'[i])
                   PROVE  i = Len(inbuf') /\ inbuf'[i].to = asked /\ toTarget = <<>>
                          /\ toHost = <<>>
        OBVIOUS
      <4>1. /\ i + 1 = Len(inbuf) /\ inbuf[i + 1].to = asked /\ toTarget = <<>> /\ toHost = <<>>
            /\ inbuf'[i] = inbuf[i + 1]
        BY <2>4, <3>1 DEF LastWord
      <4> QED BY <3>1, <4>1
    <3> QED BY <2>1, <2>4, <3>2, <3>3 DEF LastWord
  <2>5. CASE host = "answer" /\ UNCHANGED <<toTarget, inbuf, asked>>
    BY <2>1, <2>5 DEF LastWord
  <2> QED BY <1>4, <2>2, <2>3, <2>4, <2>5, HostCases
<1>5. CASE TargetSteps
  <2>1. /\ host = "answer" /\ asked' = asked /\ toTarget # <<>> /\ inbuf' = inbuf
        /\ toTarget' = Tail(toTarget)
    BY <1>5, TargetCases
  <2>2. Without(toHost, Answers) /\ Without(inbuf, Answers)
    <3>1. NoAnswer(toHost) /\ NoAnswer(inbuf)
      BY <2>1 DEF LastWord, NoAnswer
    <3> QED BY <1>1, <3>1, Shapes
  <2>3. \A i \in 1 .. Len(toTarget') : toTarget'[i].kind = "ask" =>
           i = Len(toTarget') /\ toTarget'[i].arg = asked
    <3> SUFFICES ASSUME NEW i \in 1 .. Len(toTarget'), toTarget'[i].kind = "ask"
                 PROVE  i = Len(toTarget') /\ toTarget'[i].arg = asked
      OBVIOUS
    <3>1. toTarget'[i] = toTarget[i + 1] /\ i + 1 = Len(toTarget) /\ toTarget[i + 1].arg = asked
      BY <1>3, <2>1 DEF LastWord
    <3> QED BY <1>3, <2>1, <3>1
  <2>4. Head(toTarget).kind # "call"
    BY <1>3, <2>1 DEF SentInTurn
  <2>5. CASE toHost' = <<>> \/ toHost' \in {Append(toHost, Ack), Append(toHost, Other)}
    <3>1. Without(<<>>, Answers)
      BY DEF Without
    <3>2. Without(toHost', Answers)
      BY <1>1, <2>2, <2>5, <3>1, StaysWithout, Shapes, Messages
    <3>3. NoAnswer(toHost') /\ NoAnswer(inbuf')
      BY <1>2, <2>1, <2>2, <3>2, Shapes
    <3> QED BY <2>1, <2>3, <3>3 DEF LastWord, NoAnswer
  <2>6. CASE /\ target = "monitor" /\ Head(toTarget).kind = "ask"
             /\ toHost' = Append(toHost, Reply(Expected(Head(toTarget).arg), Head(toTarget).arg,
                                               Right(CrcRange(Head(toTarget).arg))))
    <3> DEFINE r == Reply(Expected(Head(toTarget).arg), Head(toTarget).arg,
                          Right(CrcRange(Head(toTarget).arg)))
    <3>1. 1 = Len(toTarget) /\ Head(toTarget).arg = asked
      BY <1>3, <2>1, <2>6 DEF LastWord
    <3>2. r.to = asked /\ r \in Replies
      <4>1. Right(CrcRange(Head(toTarget).arg)) \in BOOLEAN
        BY DEF Right
      <4>2. asked \in Commands
        BY <2>1 DEF Phase, Asking
      <4>3. r \in Replies
        BY <3>1, <4>1, <4>2, Messages
      <4> QED BY <3>1, <4>3 DEF Reply
    <3>3. toTarget' = <<>>
      <4>1. toTarget' \in Seq(Requests) /\ Len(toTarget') = 0
        BY <1>1, <1>3, <2>1, <3>1, Dequeue
      <4> QED BY <4>1, EmptySeq
    <3> HIDE DEF r
    <3>4. /\ Len(toHost) \in Nat /\ Len(toHost') = Len(toHost) + 1 /\ toHost'[Len(toHost) + 1] = r
          /\ \A i \in 1 .. Len(toHost) : toHost'[i] = toHost[i]
      BY <1>1, <2>6, <3>2, ReplyPlaces DEF r
    <3>5. \A i \in 1 .. Len(toHost') : i \in 1 .. Len(toHost) \/ i = Len(toHost')
      BY <3>4
    <3>6. NoAnswer(inbuf') /\ NoAnswer(toHost)
      BY <1>1, <1>2, <2>1, <2>2, Shapes
    <3>7. \A i \in 1 .. Len(toHost') : IsAnswer(toHost'[i]) => i = Len(toHost')
          /\ toHost'[i].to = asked
      BY <3>2, <3>4, <3>5, <3>6 DEF NoAnswer
    <3>8. \A i \in 1 .. Len(toTarget') : FALSE
      BY <3>3
    <3>9. \A i \in 1 .. Len(inbuf') : ~IsAnswer(inbuf'[i])
      BY <3>6 DEF NoAnswer
    <3> QED BY <2>1, <3>3, <3>6, <3>7, <3>8, <3>9 DEF LastWord
  <2>7. CASE target = "monitor" /\ Head(toTarget).kind \in {"write", "go"}
    BY <1>3, <2>1, <2>7 DEF SentInTurn
  <2> QED BY <1>5, <2>4, <2>5, <2>6, <2>7, TargetCases
<1>6. CASE LinkSteps
  <2>0. host = "answer" /\ asked' = asked
    BY <1>6, LinkCases
  <2>1. CASE toTarget # <<>> /\ toTarget' = Tail(toTarget) /\ UNCHANGED <<toHost, inbuf>>
    <3>1. NoAnswer(toHost) /\ NoAnswer(inbuf)
      BY <2>0, <2>1 DEF LastWord, NoAnswer
    <3>2. \A i \in 1 .. Len(toTarget') : toTarget'[i].kind = "ask" =>
            i = Len(toTarget') /\ toTarget'[i].arg = asked
      <4> SUFFICES ASSUME NEW i \in 1 .. Len(toTarget'), toTarget'[i].kind = "ask"
                   PROVE  i = Len(toTarget') /\ toTarget'[i].arg = asked
        OBVIOUS
      <4>1. toTarget'[i] = toTarget[i + 1] /\ i + 1 = Len(toTarget) /\ toTarget[i + 1].arg = asked
        BY <1>3, <2>0, <2>1 DEF LastWord
      <4> QED BY <1>3, <2>1, <4>1
    <3> QED BY <2>0, <2>1, <3>1, <3>2 DEF LastWord, NoAnswer
  <2>2. CASE /\ toHost # <<>> /\ toTarget' = toTarget
             /\ toHost' = Tail(toHost) /\ inbuf' = Append(inbuf, Head(toHost))
    <3>1. /\ Len(toHost) \in Nat \ {0} /\ Len(toHost') = Len(toHost) - 1
          /\ Head(toHost) = toHost[1] /\ 1 \in 1 .. Len(toHost) /\ Head(toHost) \in Replies
          /\ \A i \in 1 .. Len(toHost') : toHost'[i] = toHost[i + 1] /\ i + 1 \in 1 .. Len(toHost)
      BY <1>1, <2>2, ReplyPlaces
    <3>2. /\ Len(inbuf) \in Nat /\ Len(inbuf') = Len(inbuf) + 1
          /\ inbuf'[Len(inbuf) + 1] = Head(toHost)
          /\ \A i \in 1 .. Len(inbuf) : inbuf'[i] = inbuf[i]
          /\ \A i \in 1 .. Len(inbuf') : i \in 1 .. Len(inbuf) \/ i = Len(inbuf')
      <4>1. /\ Len(inbuf) \in Nat /\ Len(inbuf') = Len(inbuf) + 1
            /\ inbuf'[Len(inbuf) + 1] = Head(toHost)
            /\ \A i \in 1 .. Len(inbuf) : inbuf'[i] = inbuf[i]
        BY <1>1, <2>2, <3>1, ReplyPlaces
      <4> QED BY <4>1
    <3>3. NoAnswer(inbuf)
      BY <2>0, <2>2 DEF LastWord, NoAnswer
    <3>4. CASE IsAnswer(Head(toHost))
      <4>1. Len(toHost) = 1 /\ Head(toHost).to = asked /\ toTarget = <<>>
        BY <2>0, <3>1, <3>4 DEF LastWord
      <4>2. toHost' = <<>>
        BY <1>2, <3>1, <4>1, EmptySeq
      <4>3. \A i \in 1 .. Len(inbuf') : IsAnswer(inbuf'[i]) => i = Len(inbuf')
            /\ inbuf'[i].to = asked
        BY <3>2, <3>3, <4>1 DEF NoAnswer
      <4>4. Len(toTarget') = 0 /\ toTarget' = <<>> /\ Len(toHost') = 0
        BY <2>2, <4>1, <4>2
      <4> QED BY <2>0, <4>2, <4>3, <4>4 DEF LastWord
    <3>5. CASE ~IsAnswer(Head(toHost))
      <4>1. NoAnswer(inbuf')
        BY <3>2, <3>3, <3>5 DEF NoAnswer
      <4>2. NoAnswer(toHost) => NoAnswer(toHost')
        BY <3>1 DEF NoAnswer
      <4>3. \A i \in 1 .. Len(toHost') : IsAnswer(toHost'[i]) =>
              i = Len(toHost') /\ toHost'[i].to = asked /\ toTarget = <<>>
        <5> SUFFICES ASSUME NEW i \in 1 .. Len(toHost'), IsAnswer(toHost'[i])
                     PROVE  i = Len(toHost') /\ toHost'[i].to = asked /\ toTarget = <<>>
          OBVIOUS
        <5>1. i + 1 = Len(toHost) /\ toHost[i + 1].to = asked /\ toTarget = <<>>
          BY <2>0, <3>1 DEF LastWord
        <5> QED BY <3>1, <5>1
      <4>4. \A i \in 1 .. Len(toTarget) : toTarget[i].kind = "ask" =>
              i = Len(toTarget) /\ toTarget[i].arg = asked /\ NoAnswer(toHost)
        BY <2>0 DEF LastWord
      <4> QED BY <2>0, <2>2, <4>1, <4>2, <4>3, <4>4 DEF LastWord, NoAnswer
    <3> QED BY <3>4, <3>5
  <2>3. CASE toHost # <<>> /\ toHost' = Tail(toHost) /\ UNCHANGED <<toTarget, inbuf>>
    <3>1. /\ Len(toHost) \in Nat \ {0} /\ Len(toHost') = Len(toHost) - 1
          /\ \A i \in 1 .. Len(toHost') : toHost'[i] = toHost[i + 1] /\ i + 1 \in 1 .. Len(toHost)
      BY <1>1, <2>3, ReplyPlaces
    <3>2. NoAnswer(toHost) => NoAnswer(toHost')
      BY <3>1 DEF NoAnswer
    <3>3. \A i \in 1 .. Len(toHost') : IsAnswer(toHost'[i]) =>
            i = Len(toHost') /\ toHost'[i].to = asked /\ toTarget = <<>> /\ NoAnswer(inbuf)
      <4> SUFFICES ASSUME NEW i \in 1 .. Len(toHost'), IsAnswer(toHost'[i])
                   PROVE  i = Len(toHost') /\ toHost'[i].to = asked /\ toTarget = <<>>
                          /\ NoAnswer(inbuf)
        OBVIOUS
      <4>1. i + 1 = Len(toHost) /\ toHost[i + 1].to = asked /\ toTarget = <<>> /\ NoAnswer(inbuf)
        BY <2>0, <3>1 DEF LastWord
      <4> QED BY <3>1, <4>1
    <3>4. \A i \in 1 .. Len(inbuf) : ~IsAnswer(inbuf[i])
      BY <2>0, <2>3 DEF LastWord
    <3> QED BY <2>0, <2>3, <3>2, <3>3, <3>4 DEF LastWord
  <2>4. CASE /\ toHost # <<>> /\ UNCHANGED <<toTarget, inbuf>>
             /\ toHost' = <<Reply("garbled", 0, FALSE)>> \o Tail(toHost)
    <3>1. /\ Len(toHost') = Len(toHost) /\ toHost'[1] = Reply("garbled", 0, FALSE)
          /\ \A i \in 1 .. Len(toHost) : i # 1 => toHost'[i] = toHost[i]
      BY <1>1, <2>4, ReplyPlaces
    <3>2. ~IsAnswer(Reply("garbled", 0, FALSE))
      BY DEF IsAnswer, Reply
    <3>3. \A i \in 1 .. Len(toHost') : IsAnswer(toHost'[i]) =>
            toHost'[i] = toHost[i] /\ i \in 1 .. Len(toHost)
      BY <3>1, <3>2
    <3>4. NoAnswer(toHost) => NoAnswer(toHost')
      BY <3>3 DEF NoAnswer
    <3>5. \A i \in 1 .. Len(inbuf) : ~IsAnswer(inbuf[i])
      BY <2>0, <2>4 DEF LastWord
    <3> QED BY <2>0, <2>4, <3>1, <3>3, <3>4, <3>5 DEF LastWord
  <2> QED BY <1>6, <2>1, <2>2, <2>3, <2>4, LinkCases
<1> QED BY <1>4, <1>5, <1>6 DEF Next

-----------------------------------------------------------------------------
(* What was verified, and every step together *)

(* The ranges the host verifies are chunks, each its own. *)
LEMMA Ranges ==
  /\ Bl1Chunks \subseteq Chunks /\ DtbChunks \subseteq Chunks
  /\ CrcRange(CrcBl1) = Bl1Chunks /\ CrcRange(CrcDtb) = DtbChunks
  /\ \A q : CrcRange(q) \subseteq Chunks
  BY Numbers, BootAssumption DEF CrcRange

(* What is right stays right. *)
LEMMA RightStays ==
  ASSUME TypeOK, [Next]_vars, NEW cs, cs \subseteq Chunks, \A c \in cs : ram[c] = "right"
  PROVE  \A c \in cs : ram'[c] = "right"
  BY RamStep

(* A true CRC stays true, and the monitor takes true ones. *)
LEMMA CrcStep ==
  ASSUME TypeOK, Phase, CrcTrue(toHost), CrcTrue(inbuf), [Next]_vars
  PROVE  CrcTrue(toHost)' /\ CrcTrue(inbuf)'
<1> DEFINE Lie == {r \in Replies : r.to # 0 /\ r.good /\ ~Right(CrcRange(r.to))}
<1>1. /\ toHost \in Seq(Replies) /\ inbuf \in Seq(Replies) /\ toTarget \in Seq(Requests)
      /\ toHost' \in Seq(Replies) /\ inbuf' \in Seq(Replies)
  BY LinkTypes DEF TypeOK
<1>2. Without(toHost, Lie) /\ Without(inbuf, Lie) /\ Without(<<>>, Lie)
  BY DEF Without, CrcTrue
<1>3. {Ack, Other, BadCommand, Reply("hex", 0, FALSE), Reply("garbled", 0, FALSE)} \cap Lie = {}
  BY DEF Ack, Other, BadCommand, Reply
<1>4. \A q : Reply(Expected(q), q, Right(CrcRange(q))) \notin Lie
  BY DEF Reply
<1> HIDE DEF Lie
<1>5. Without(toHost', Lie)
  <2>1. CASE HostSteps \/ UNCHANGED vars
    BY <1>2, <2>1, HostSide
  <2>2. CASE TargetSteps
    <3>1. ASSUME MonitorAnswer PROVE Without(toHost', Lie)
      <4>1. Head(toTarget) \in Requests /\ Head(toTarget).kind = "ask"
        BY <1>1, <3>1, Dequeue DEF MonitorAnswer, Take
      <4>2. Head(toTarget).arg \in Commands
        BY <4>1 DEF Requests
      <4>3. Right(CrcRange(Head(toTarget).arg)) \in BOOLEAN
        BY DEF Right
      <4>4. Reply(Expected(Head(toTarget).arg), Head(toTarget).arg,
                  Right(CrcRange(Head(toTarget).arg))) \in Replies
        BY <4>2, <4>3, Messages
      <4> QED BY <1>1, <1>2, <1>4, <3>1, <4>4, StaysWithout DEF MonitorAnswer, Answer
    <3>2. ASSUME \/ PblWrite \/ PblExecute \/ PblReject \/ MonitorReject \/ Bl1
          PROVE  toHost' \in {toHost, <<>>, Append(toHost, Ack), Append(toHost, Other),
                              Append(toHost, BadCommand), Append(toHost, Reply("hex", 0, FALSE))}
      BY <3>2 DEF PblWrite, PblExecute, PblReject, MonitorReject, Bl1, Answer
    <3>3. ASSUME toHost' \in {toHost, <<>>, Append(toHost, Ack), Append(toHost, Other),
                              Append(toHost, BadCommand), Append(toHost, Reply("hex", 0, FALSE))}
          PROVE  Without(toHost', Lie)
      BY <1>1, <1>2, <1>3, <3>3, StaysWithout, Messages
    <3> QED BY <2>2, <3>1, <3>2, <3>3 DEF TargetSteps
  <2>3. CASE LinkSteps
    BY <1>1, <1>2, <1>3, <2>3, LinkCases, StaysWithout
  <2> QED BY <2>1, <2>2, <2>3 DEF Next
<1>6. Without(inbuf', Lie)
  <2>1. toHost # <<>> => Head(toHost) \in Replies /\ Head(toHost) \notin Lie
    BY <1>1, <1>2, StaysWithout, ReplyPlaces
  <2>2. CASE inbuf # <<>> /\ inbuf' = Tail(inbuf)
    BY <1>1, <1>2, <2>2, StaysWithout
  <2>3. CASE toHost # <<>> /\ inbuf' = Append(inbuf, Head(toHost))
    BY <1>1, <1>2, <2>1, <2>3, StaysWithout
  <2>4. CASE inbuf' = inbuf \/ inbuf' = <<>>
    BY <1>2, <2>4
  <2> QED BY <2>2, <2>3, <2>4, Inbuf
<1>7. \A r \in Replies : r \notin Lie /\ r.to # 0 /\ r.good
      => \A c \in CrcRange(r.to) : ram'[c] = "right"
  <2> SUFFICES ASSUME NEW r \in Replies, r \notin Lie, r.to # 0, r.good
               PROVE  \A c \in CrcRange(r.to) : ram'[c] = "right"
    OBVIOUS
  <2>1. \A c \in CrcRange(r.to) : ram[c] = "right"
    BY DEF Lie, Right
  <2> QED BY <2>1, Ranges, RightStays
<1>8. \A s \in Seq(Replies) : \A i \in 1 .. Len(s) : s[i] \in Replies
  OBVIOUS
<1>9. \A q : CrcRange(q)' = CrcRange(q)
  BY DEF CrcRange
<1> QED BY <1>1, <1>5, <1>6, <1>7, <1>8, <1>9 DEF Without, CrcTrue, Right, CrcRange

(* A host that goes on has verified what it asked for; BL1 enters Linux at  *)
(* its call only.                                                           *)
LEMMA VerifiedStep ==
  ASSUME TypeOK, Phase, SentInTurn, LastWord, Verified, [Next]_vars
  PROVE  Verified'
<1>1. /\ CrcTrue(toHost) /\ CrcTrue(inbuf)
      /\ host \in {"ask", "answer", "call", "console"} =>
           /\ asked > CrcBl1 => \A c \in Bl1Chunks : ram[c] = "right"
           /\ asked > CrcDtb => \A c \in DtbChunks : ram[c] = "right"
      /\ toTarget \in Seq(Requests) /\ inbuf \in Seq(Replies)
      /\ ram \in [Chunks -> {"blank", "stale", "right"}]
  BY DEF Verified, TypeOK, Right
<1>2. CrcTrue(toHost)' /\ CrcTrue(inbuf)'
  BY <1>1, CrcStep
<1>3. /\ (\A c \in Bl1Chunks : ram[c] = "right") => (\A c \in Bl1Chunks : ram'[c] = "right")
      /\ (\A c \in DtbChunks : ram[c] = "right") => (\A c \in DtbChunks : ram'[c] = "right")
  BY Ranges, RightStays
<1>4. ASSUME host' \in {"ask", "answer", "call", "console"}
      PROVE  /\ asked' > CrcBl1 => \A c \in Bl1Chunks : ram'[c] = "right"
             /\ asked' > CrcDtb => \A c \in DtbChunks : ram'[c] = "right"
  <2>1. CASE AnswerReply /\ Head(inbuf).shape = Expected(asked)
    <3>1. /\ inbuf[1].to = asked /\ Len(inbuf) = 1 /\ Accepted(inbuf[1])
          /\ ram' = ram /\ asked' = asked + 1 /\ host = "answer" /\ inbuf[1] \in Replies
      BY <2>1, AnswerTaken DEF AnswerReply
    <3>2. asked \in Nat /\ asked # 0
      BY <3>1, Numbers DEF Phase, Asking
    <3>3. inbuf[1].good => \A c \in CrcRange(asked) : ram[c] = "right"
      BY <1>1, <3>1, <3>2 DEF CrcTrue, Right
    <3>4. CrcRange(asked) = {} \/ inbuf[1].good
      <4>1. inbuf[1].good \in BOOLEAN
        BY <3>1 DEF Replies
      <4>2. CrcRange(asked) # {} /\ ~inbuf[1].good => host' = "failed"
        BY <3>1 DEF Accepted
      <4> QED BY <1>4, <4>1, <4>2
    <3>5. \A c \in CrcRange(asked) : ram[c] = "right"
      BY <3>3, <3>4
    <3>6. /\ asked' > CrcBl1 => asked > CrcBl1 \/ asked = CrcBl1
          /\ asked' > CrcDtb => asked > CrcDtb \/ asked = CrcDtb
      BY <3>1, <3>2, Numbers
    <3> QED BY <1>1, <3>1, <3>5, <3>6, Ranges
  <2>2. CASE host = "gone"
    <3>1. asked = 1 /\ asked' = asked
      BY <1>4, <2>2, HostCases, NotTheHost, AnswerTaken DEF Phase, Next
    <3> QED BY <3>1, Numbers
  <2>3. CASE host \in {"ask", "answer", "call", "console"} /\ asked' = asked
    BY <1>1, <1>3, <2>3
  <2>4. \/ AnswerReply /\ Head(inbuf).shape = Expected(asked)
        \/ host = "gone"
        \/ host \in {"ask", "answer", "call", "console"} /\ asked' = asked
    <3>1. CASE HostSteps \/ UNCHANGED vars
      BY <1>4, <3>1, HostCases
    <3>2. CASE TargetSteps \/ LinkSteps
      BY <1>4, <3>2, NotTheHost
    <3> QED BY <3>1, <3>2 DEF Next
  <2> QED BY <2>1, <2>2, <2>3, <2>4
<1>5. target' = "linux" =>
        /\ \A c \in Bl1Chunks \cup DtbChunks : ram'[c] = "right"
        /\ \A c \in Probed : ram'[c] # "blank"
  <2>1. CASE Bl1 /\ target' # target
    <3>1. host = "console" /\ ram' = ram
      <4>1. toTarget # <<>> /\ Head(toTarget).kind = "call" /\ ram' = ram
        BY <2>1 DEF Bl1, Take
      <4>2. Head(toTarget) = toTarget[1] /\ 1 \in 1 .. Len(toTarget)
        BY <1>1, <4>1, Dequeue
      <4> QED BY <4>1, <4>2 DEF SentInTurn
    <3>2. asked > CrcBl1 /\ asked > CrcDtb
      BY <3>1, Numbers DEF Phase
    <3>3. target' = "linux" => Bl1Passes
      BY <2>1 DEF Bl1
    <3> QED BY <1>1, <3>1, <3>2, <3>3 DEF Bl1Passes
  <2>2. CASE target' = target
    <3>1. target = "linux" => ram' = ram
      BY RamStep
    <3> QED BY <2>2, <3>1 DEF Verified, VerifiedAtEntry, Right
  <2>3. CASE PblExecute
    BY <2>3 DEF PblExecute
  <2> QED BY <2>1, <2>2, <2>3, TargetStep
<1> QED BY <1>2, <1>4, <1>5 DEF Verified, VerifiedAtEntry, Right

(* A session starts within the invariant, whatever an earlier one left.     *)
LEMMA InitBoot == Init => BootIInv
<1> SUFFICES ASSUME Init PROVE BootIInv
  OBVIOUS
<1>1. /\ host = "write" /\ at = 1 /\ attempt = 1 /\ retries = 0 /\ asked = 1 /\ log = <<>>
      /\ toTarget = <<>> /\ inbuf = <<>>
      /\ ram \in [Chunks -> {"blank", "stale", "right"}]
      /\ \/ target = "pbl" /\ toHost \in {<<>>, <<Ack>>}
         \/ target = "monitor" /\ toHost \in {<<>>, <<BadCommand>>}
      /\ oldAcks = IF toHost = <<Ack>> THEN 1 ELSE 0
  BY DEF Init
<1>2. Len(toTarget) = 0 /\ Len(inbuf) = 0 /\ Len(log) = 0
  BY <1>1
<1>3. toTarget \in Seq(Requests) /\ inbuf \in Seq(Replies) /\ log \in Seq(Replies)
  BY <1>1, EmptySeq
<1>4. /\ toHost \in Seq(Replies) /\ Len(toHost) \in {0, 1}
      /\ \A i \in 1 .. Len(toHost) : i = 1 /\ toHost[1] \in {Ack, BadCommand}
                                     /\ (toHost[1] = Ack <=> toHost = <<Ack>>)
                                     /\ (target = "monitor" => toHost[1] = BadCommand)
                                     /\ (target = "pbl" => toHost[1] = Ack)
  <2>1. Ack \in Replies /\ BadCommand \in Replies /\ Ack # BadCommand
    BY Messages DEF Ack, BadCommand, Reply
  <2>2. CASE toHost = <<>>
    BY <2>2
  <2>3. CASE toHost = <<Ack>> /\ target = "pbl"
    BY <2>1, <2>3
  <2>4. CASE toHost = <<BadCommand>> /\ target = "monitor"
    BY <2>1, <2>4
  <2> QED BY <1>1, <2>2, <2>3, <2>4
<1>5. TypeOK
  <2>1. 0 \in 0 .. Last * Attempts
    <3>1. Last * Attempts \in Nat
      BY Numbers, RetryArithmetic
    <3> QED BY <3>1
  <2> QED BY <1>1, <1>3, <1>4, <2>1, Numbers DEF TypeOK
<1>6. Phase /\ Logged
  <2>1. (at - 1) * Attempts = 0
    BY <1>1, Numbers
  <2> QED BY <1>1, <1>2, <2>1, Numbers DEF Phase, Logged, AnswersMatch, Uploading, Asking
<1>7. GapsPaid /\ AcksPaid
  <2>1. Missing(0, ram, toTarget) = {} /\ at - 1 = 0
    BY <1>1 DEF Missing
  <2>2. \A k : Open(0, k, ram, toTarget) = 0
    BY <1>1, <2>1, CountEmpty, FS_EmptySet DEF Open
  <2>3. Count(inbuf, Acks) = 0
    BY <1>1, CountEmpty
  <2>4. Count(toHost, Acks) =< oldAcks /\ Count(toHost, Acks) \in Nat
    <3>1. Count(toHost, Acks) \in Nat
      BY <1>4, CountType
    <3>2. CASE toHost = <<Ack>>
      <4>1. Places(toHost, Acks) \in SUBSET {1}
        BY <1>4 DEF Places
      <4>2. IsFiniteSet({1}) /\ Cardinality({1}) = 1
        BY FS_Singleton
      <4>3. Cardinality(Places(toHost, Acks)) =< 1
        BY <4>1, <4>2, FS_Subset
      <4> QED BY <1>1, <3>1, <3>2, <4>3 DEF Count
    <3>3. CASE toHost # <<Ack>>
      <4>1. Places(toHost, Acks) = {}
        BY <1>4, <3>3, NoOtherAck DEF Places
      <4> QED BY <1>1, <3>1, <3>3, <4>1, FS_EmptySet DEF Count
    <3> QED BY <3>2, <3>3
  <2>5. InFlight =< oldAcks /\ InFlight \in Nat /\ oldAcks \in Nat
    BY <1>1, <2>3, <2>4 DEF InFlight
  <2> QED BY <1>1, <2>1, <2>2, <2>5 DEF GapsPaid, AcksPaid
<1>8. SentInTurn /\ LastWord
  BY <1>1, <1>2 DEF SentInTurn, LastWord, Uploading
<1>9. Resident
  BY <1>1, <1>2, <1>4 DEF Resident, NoAck, BadCommand, Reply
<1>10. QuietLink
  BY <1>1, <1>2, <1>4 DEF QuietLink, NoAnswer, NoAsk, IsAnswer, Ack, Reply, Uploading
<1>11. Verified
  <2>1. target # "linux" /\ Ack.to = 0 /\ BadCommand.to = 0
    BY <1>1 DEF Ack, BadCommand, Reply
  <2> QED BY <1>1, <1>2, <1>4, <2>1 DEF Verified, VerifiedAtEntry, CrcTrue
<1> QED BY <1>5, <1>6, <1>7, <1>8, <1>9, <1>10, <1>11 DEF BootIInv

(* Every step keeps the invariant. *)
LEMMA NextBoot == BootIInv /\ [Next]_vars => BootIInv'
<1> SUFFICES ASSUME BootIInv, [Next]_vars PROVE BootIInv'
  OBVIOUS
<1>1. /\ TypeOK /\ Phase /\ Logged /\ AcksPaid /\ GapsPaid
      /\ SentInTurn /\ Resident /\ QuietLink /\ LastWord /\ Verified
  BY DEF BootIInv
<1> QED BY <1>1, TypesStep, HostTypes, LogStep, AccountsStep, SentStep, ResidentStep, QuietStep,
           LastWordStep, VerifiedStep DEF BootIInv

(* The invariant holds of every state. *)
THEOREM SpecBootIInv == Spec => []BootIInv
  BY InitBoot, NextBoot, PTL DEF Spec

(* Whatever the link loses, delays or garbles, a chunk that is missing      *)
(* behind the host has a printed "timeout retry" or an old ack to explain   *)
(* it.                                                                      *)
THEOREM SpecBootInv == Spec => []BootInv
<1>1. BootIInv => BootInv
  BY GapsAreOpen DEF BootIInv, BootInv
<1> QED BY <1>1, SpecBootIInv, PTL

(* Replies carry no number, and still each answer stage0_command() takes    *)
(* was given to the command it is at.                                       *)
THEOREM SpecAnswersMatch == Spec => []AnswersMatch
<1>1. BootIInv => AnswersMatch
  BY DEF BootIInv, Logged
<1> QED BY <1>1, SpecBootIInv, PTL

(* BL1 enters Linux over a right BL1 and DTB, and no fingerprinted chunk of *)
(* the Image is missing.                                                    *)
THEOREM SpecVerifiedAtEntry == Spec => []VerifiedAtEntry
<1>1. BootIInv => VerifiedAtEntry
  BY DEF BootIInv, Verified
<1> QED BY <1>1, SpecBootIInv, PTL
=============================================================================
