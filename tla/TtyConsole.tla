----------------------------- MODULE TtyConsole -----------------------------
(***************************************************************************)
(* ttySHM0 (tty-shadow-msm.c) and /dev/shadowtrace (timer-shadow-msm.c)    *)
(* reading one input mailbox.                                              *)
(*                                                                         *)
(* The TTY is polled: while the port is active a delayed work item asks    *)
(* the flip buffer for room, receives at most that many bytes, pushes them *)
(* and schedules itself one jiffy later.  Activation resets the mailbox;   *)
(* shutdown clears "polling" and cancels the work synchronously.  A reader *)
(* of /dev/shadowtrace takes bytes from the same mailbox at any time.      *)
(*                                                                         *)
(* shadow_msm_diag_receive() and _input_reset() are single steps (module   *)
(* DiagBridge: interrupts are masked and nothing else uses the runtime)    *)
(* and the ring is the FIFO of module InputFifo, which InputMailbox        *)
(* implements.  Host bytes are numbered in the order the host sends them,  *)
(* 1 .. MaxBytes, so that loss, age and owner of a byte can be told.       *)
(***************************************************************************)
EXTENDS Integers, Sequences, SequencesExt, FiniteSetsExt

CONSTANTS Capacity,     (* bytes the ring holds: RING_SIZE - 1               *)
          PacketLimit,  (* host bytes per packet, and SHADOW_TTY_RX_CHUNK    *)
          FlipLimit,    (* bytes the TTY flip buffer takes before it is full *)
          TraceReads,   (* lengths user programs read /dev/shadowtrace with; *)
                        (* a read of length 0 returns before it receives     *)
          MaxBytes      (* bound: bytes the host sends in a behaviour        *)

ASSUME ConsoleAssumption ==
  /\ PacketLimit \in Nat \ {0} /\ Capacity \in Nat /\ Capacity >= PacketLimit
  /\ FlipLimit \in Nat \ {0} /\ MaxBytes \in Nat
  /\ TraceReads \subseteq Nat \ {0}

VARIABLES
  arrived,   (* host bytes the monitor has dispatched                        *)
  ring,      (* the mailbox ring, oldest byte first                          *)
  port,      (* the TTY port                                                 *)
  polling,   (* state->polling                                               *)
  work,      (* poll_work: idle, waiting for its timer, or queued            *)
  canceling, (* cancel_delayed_work_sync() owns the work's pending bit       *)
  poll,      (* the step shadow_tty_poll() is at, "off" when not running     *)
  input,     (* its input[0 .. count-1]                                      *)
  flip,      (* bytes pushed to the line discipline and not consumed         *)
  lost,      (* history: bytes that met a full ring                          *)
  mark,      (* history: host bytes dispatched before the last activation    *)
  shorts     (* history: receives for less than a packet since the ring was  *)
             (* last empty                                                   *)

host == <<arrived, ring, lost, shorts>>
session == <<port, polling, mark>>
worker == <<work, canceling, poll>>
vars == <<host, session, worker, input, flip>>

-----------------------------------------------------------------------------
(* The mailbox *)

(* The next packet of the host: k bytes, 0 when none is pending or the      *)
(* dispatched command is another one.                                       *)
Packet(k) == [i \in 1 .. k |-> arrived + i]
(* Mutant of Fits: the full test is off by one. *)
FitsLess(k) == Min({k, Capacity - 1 - Len(ring)})

Fits(k) == Min({k, Capacity - Len(ring)})
Stored(k) == ring \o SubSeq(Packet(k), 1, Fits(k))

(* shadow_msm_diag_receive(buffer, limit) with packet k: the monitor stores *)
(* what fits, then the oldest bytes, up to the limit, are Taken.            *)
Count(limit, k) == Min({limit, Len(Stored(k))})
Taken(limit, k) == SubSeq(Stored(k), 1, Count(limit, k))

Receive(limit, k) ==
  /\ arrived + k =< MaxBytes
  /\ ring' = SubSeq(Stored(k), Count(limit, k) + 1, Len(Stored(k)))
  /\ arrived' = arrived + k
  /\ lost' = lost + (k - Fits(k))
  /\ shorts' = IF ring' = <<>> THEN 0
               ELSE IF limit < PacketLimit THEN shorts + 1 ELSE shorts

-----------------------------------------------------------------------------
Init == /\ arrived = 0 /\ ring = <<>> /\ lost = 0 /\ shorts = 0
        /\ port = "closed" /\ polling = FALSE /\ mark = 0
        /\ work = "idle" /\ canceling = FALSE /\ poll = "off"
        /\ input = <<>> /\ flip = <<>>

(* Mutant of Activate: the mailbox is not reset. *)
ActivateKeepRing ==
  /\ port = "closed"
  /\ mark' = arrived
  /\ polling' = TRUE
  /\ work' = IF work = "idle" /\ ~canceling THEN "queued" ELSE work
  /\ port' = "open"
  /\ UNCHANGED <<host, canceling, poll, input, flip>>

(* First open of the port: shadow_tty_activate(), which does not sleep      *)
(* between the reset and schedule_delayed_work(..., 0).                     *)
Activate ==
  /\ port = "closed"
  /\ ring' = <<>> /\ shorts' = 0 /\ mark' = arrived
  /\ polling' = TRUE
  /\ work' = IF work = "idle" /\ ~canceling THEN "queued" ELSE work
  /\ port' = "open"
  /\ UNCHANGED <<arrived, lost, canceling, poll, input, flip>>

(* Last close or hangup: shadow_tty_shutdown() clears the flag first... *)
StopPolling ==
  /\ port = "open"
  /\ polling' = FALSE
  /\ port' = "stopping"
  /\ UNCHANGED <<host, mark, worker, input, flip>>

(* ... then takes the pending bit, dequeues the work or stops its timer ... *)
CancelPending ==
  /\ port = "stopping" /\ ~canceling
  /\ canceling' = TRUE
  /\ work' = "idle"
  /\ UNCHANGED <<host, session, poll, input, flip>>

(* Mutant of CancelDone: cancel_delayed_work(), which does not wait. *)
CancelNoWait ==
  /\ port = "stopping" /\ canceling
  /\ canceling' = FALSE
  /\ port' = "closed"
  /\ UNCHANGED <<host, polling, mark, work, poll, input, flip>>

(* ... and returns when no instance of the work runs any more.              *)
CancelDone ==
  /\ port = "stopping" /\ canceling
  /\ poll = "off"
  /\ canceling' = FALSE
  /\ port' = "closed"
  /\ UNCHANGED <<host, polling, mark, work, poll, input, flip>>

-----------------------------------------------------------------------------
(* The delayed work *)

TimerExpires ==
  /\ work = "delayed"
  /\ work' = "queued"
  /\ UNCHANGED <<host, session, canceling, poll, input, flip>>

PollStart ==
  /\ work = "queued" /\ poll = "off"
  /\ work' = "idle"
  /\ poll' = "check"
  /\ UNCHANGED <<host, session, canceling, input, flip>>

PollCheck ==
  /\ poll = "check"
  /\ poll' = IF polling THEN "receive" ELSE "off"
  /\ UNCHANGED <<host, session, work, canceling, input, flip>>

(* tty_buffer_request_room(), then the receive; no room, no receive. *)
Room == Min({PacketLimit, FlipLimit - Len(flip)})
(* Mutant of PollReceive: a poll that finds no room ends there. *)
PollReceiveGivesUp ==
  /\ poll = "receive"
  /\ IF Room > 0
     THEN /\ \E k \in 0 .. PacketLimit :
               Receive(Room, k) /\ input' = Taken(Room, k)
          /\ poll' = "push"
     ELSE /\ input' = <<>> /\ poll' = "off"
          /\ UNCHANGED host
  /\ UNCHANGED <<session, work, canceling, flip>>

PollReceive ==
  /\ poll = "receive"
  /\ IF Room > 0
     THEN \E k \in 0 .. PacketLimit :
            Receive(Room, k) /\ input' = Taken(Room, k)
     ELSE /\ input' = <<>>
          /\ UNCHANGED host
  /\ poll' = "push"
  /\ UNCHANGED <<session, work, canceling, flip>>

PollPush ==
  /\ poll = "push"
  /\ flip' = flip \o input
  /\ input' = <<>>
  /\ poll' = "again"
  /\ UNCHANGED <<host, session, work, canceling>>

(* if (READ_ONCE(state->polling)) schedule_delayed_work(..., 1): the work   *)
(* core refuses while a cancel owns the pending bit.                        *)
PollAgain ==
  /\ poll = "again"
  /\ work' = IF polling /\ work = "idle" /\ ~canceling THEN "delayed" ELSE work
  /\ poll' = "off"
  /\ UNCHANGED <<host, session, canceling, input, flip>>

-----------------------------------------------------------------------------
(* The line discipline hands a byte to its reader. *)
Consume ==
  /\ flip # <<>>
  /\ flip' = Tail(flip)
  /\ UNCHANGED <<host, session, worker, input>>

(* One iteration of shadow_trace_read()'s loop in some user program.        *)
TraceRead(length) ==
  /\ \E k \in 0 .. PacketLimit : Receive(Min({length, PacketLimit}), k)
  /\ UNCHANGED <<session, worker, input, flip>>

PollSteps == PollStart \/ PollCheck \/ PollReceive \/ PollPush \/ PollAgain
Next ==
  \/ Activate \/ StopPolling \/ CancelPending \/ CancelDone
  \/ TimerExpires \/ PollSteps
  \/ Consume
  \/ \E length \in TraceReads : TraceRead(length)

(* Timers expire, the worker thread runs queued work to its end, and the    *)
(* program on the TTY keeps reading.                                        *)
Fairness == WF_vars(TimerExpires) /\ WF_vars(PollSteps) /\ WF_vars(Consume)
Spec == Init /\ [][Next]_vars /\ Fairness

-----------------------------------------------------------------------------
Bytes == 1 .. MaxBytes
TypeOK ==
  /\ arrived \in 0 .. MaxBytes /\ lost \in 0 .. MaxBytes /\ shorts \in Nat
  /\ ring \in Seq(Bytes) /\ Len(ring) =< Capacity
  /\ port \in {"closed", "open", "stopping"}
  /\ polling \in BOOLEAN /\ canceling \in BOOLEAN
  /\ mark \in 0 .. MaxBytes
  /\ work \in {"idle", "delayed", "queued"}
  /\ poll \in {"off", "check", "receive", "push", "again"}
  /\ input \in Seq(Bytes) /\ Len(input) =< PacketLimit
  /\ flip \in Seq(Bytes) /\ Len(flip) =< FlipLimit

(* Once shadow_tty_shutdown() has returned nothing of the poll loop is left *)
(* to run, so nothing touches the closed port or the mailbox.               *)
QuietWhenClosed ==
  port = "closed" => work = "idle" /\ poll = "off" /\ ~polling

(* What the poll loop pushes into the TTY belongs to the session that is    *)
(* open or closing, and arrived after that session's activation reset       *)
(* (shadow_tty_activate(), shadow_tty_poll()).                              *)
FreshSession ==
  [][flip' # flip /\ Len(flip') > Len(flip) =>
       /\ port # "closed"
       /\ \A i \in Len(flip) + 1 .. Len(flip') : flip'[i] > mark]_vars

(* No receive, on either device, leaves more behind than the short receives *)
(* before it explain: each adds at most one packet less a byte.             *)
BacklogBounded == Len(ring) =< shorts * (PacketLimit - 1)

(* The driver's safety: nothing runs for a closed port, and the backlog is  *)
(* explained by the short receives.                                         *)
TtyInv == TypeOK /\ QuietWhenClosed /\ BacklogBounded

(* Hence a byte is lost to a full ring only after so many short receives    *)
(* that the backlog they left plus one packet exceeds the ring: with 255    *)
(* and 64, at least four in a row without the ring becoming empty.          *)
LossNeedsShortReads ==
  [][lost' > lost => shorts * (PacketLimit - 1) + PacketLimit > Capacity]_vars

(* While the port stays open every byte in the ring leaves it: the poll     *)
(* loop never dies and never stops asking for room.                         *)
RingDrains ==
  \A b \in Bytes : (\E i \in 1 .. Len(ring) : ring[i] = b) /\ port = "open"
                  ~> ~(\E i \in 1 .. Len(ring) : ring[i] = b) \/ port # "open"
=============================================================================
