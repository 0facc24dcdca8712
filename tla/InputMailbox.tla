---------------------------- MODULE InputMailbox ----------------------------
(***************************************************************************)
(* The input mailbox at physical 0x008FF800: the only channel from the     *)
(* host keyboard to Linux.  The resident monitor's command 0x1C/0x0E       *)
(* appends the bytes of a host packet to a 256-byte ring, and Linux's      *)
(* shadow_msm_diag_receive() first lets the monitor dispatch one pending   *)
(* host command and then drains the ring.  Monitor and kernel share one    *)
(* CPU: the monitor runs as a subroutine of the kernel, interrupts masked  *)
(* (module DiagBridge), so a call is one sequence of steps, taken here one *)
(* byte at a time.  Before Linux the monitor's own loop dispatches.        *)
(*                                                                         *)
(* The ring indices are exact.  A byte is a member of OldByte (anything    *)
(* written before Linux registered its input bridge, an earlier session's  *)
(* RAM content included) or of NewByte (typed to this Linux).              *)
(***************************************************************************)
EXTENDS Integers, Sequences

CONSTANTS RingSize,     (* SHADOW_MSM_INPUT_RING_SIZE, INPUT_RING_SIZE: 256  *)
          PacketLimit,  (* INPUT_PACKET_LIMIT: 64                            *)
          ChunkLimit,   (* SHADOW_MSM_INPUT_CHUNK, SHADOW_TTY_RX_CHUNK: 64   *)
          OldByte, NewByte

ASSUME MailboxAssumption == /\ RingSize \in Nat /\ RingSize >= 2
                            /\ PacketLimit \in Nat \ {0}
                            /\ ChunkLimit \in Nat \ {0}
                            /\ OldByte \cap NewByte = {}
                            /\ OldByte # {}

VARIABLES
  linux,  (* Linux owns the CPU and has registered its input bridge          *)
  pc,     (* where the current call is                                       *)
  magic,  (* mailbox->magic holds SHADOW_MSM_INPUT_MAGIC                     *)
  head,   (* mailbox->head, the monitor's index                              *)
  tail,   (* mailbox->tail, Linux's index                                    *)
  data,   (* mailbox->data                                                   *)
  frame,  (* the packet's bytes the handler has still to store (r2, r4)      *)
  lhead,  (* the handler's r3, then the receiver's local head                *)
  ltail,  (* the receiver's local tail                                       *)
  limit,  (* the receiver's limit argument                                   *)
  chunk   (* buffer[0 .. count-1] of the current receive                     *)

mailbox == <<magic, head, tail, data>>
vars == <<linux, pc, magic, head, tail, data, frame, lhead, ltail, limit, chunk>>

-----------------------------------------------------------------------------
Byte == OldByte \cup NewByte
Index == 0 .. RingSize - 1

(* (i + 1) & RING_MASK, for an index of the ring. *)
Succ(i) == IF i = RingSize - 1 THEN 0 ELSE i + 1

(* Bytes between tail t and head h, and the slot of the i-th of them. *)
Used(t, h) == IF h >= t THEN h - t ELSE h - t + RingSize
Slot(t, i) == IF t + i - 1 < RingSize THEN t + i - 1 ELSE t + i - 1 - RingSize
Contents(t, h, d) == [i \in 1 .. Used(t, h) |-> d[Slot(t, i)]]

(* The bytes a packet may carry in each phase, and what the handler keeps. *)
Source == IF linux THEN NewByte ELSE OldByte
Packets == UNION {[1 .. n -> Source] : n \in 0 .. PacketLimit + 1}
Capped(f) == IF Len(f) > PacketLimit THEN SubSeq(f, 1, PacketLimit) ELSE f

-----------------------------------------------------------------------------
(* RAM after a power-up is arbitrary, so the magic is absent and the two    *)
(* words mean nothing; after a warm reset it still holds the mailbox of the *)
(* session before, with in-range indices.                                   *)
Init == /\ linux = FALSE
        /\ pc = "idle"
        /\ magic \in BOOLEAN
        /\ head \in Index /\ tail \in Index
        /\ data \in [Index -> OldByte]
        /\ frame = <<>>
        /\ lhead = 0 /\ ltail = 0 /\ limit = 1
        /\ chunk = <<>>

(* The monitor receives command 0x1C/0x0E with packet f: initialise the     *)
(* mailbox if nobody has, cap the length, load the indices.  An empty       *)
(* packet leaves at once.  The dispatcher was called by the monitor's own   *)
(* loop before Linux and by shadow_msm_diag_receive() afterwards.           *)
MailboxInput(f) ==
  /\ pc = IF linux THEN "dispatch" ELSE "idle"
  /\ magic' = TRUE
  /\ head' = IF magic THEN head ELSE 0
  /\ tail' = IF magic THEN tail ELSE 0
  /\ frame' = Capped(f)
  /\ lhead' = head'
  /\ pc' = IF f # <<>> THEN "store" ELSE IF linux THEN "check" ELSE "idle"
  /\ UNCHANGED <<linux, data, ltail, limit, chunk>>

(* Mutant of StoreByte: the ring is taken for never full. *)
StoreByteUnchecked ==
  /\ pc = "store"
  /\ frame # <<>>
  /\ data' = [data EXCEPT ![lhead] = Head(frame)]
  /\ lhead' = Succ(lhead)
  /\ frame' = Tail(frame)
  /\ UNCHANGED <<linux, pc, magic, head, tail, ltail, limit, chunk>>

(* mailbox_loop: one byte, unless the ring is full. *)
StoreByte ==
  /\ pc = "store"
  /\ frame # <<>>
  /\ Succ(lhead) # tail
  /\ data' = [data EXCEPT ![lhead] = Head(frame)]
  /\ lhead' = Succ(lhead)
  /\ frame' = Tail(frame)
  /\ UNCHANGED <<linux, pc, magic, head, tail, ltail, limit, chunk>>

(* mailbox_commit: publish the head; bytes that found no room are gone and  *)
(* the host is not told.                                                    *)
Commit ==
  /\ pc = "store"
  /\ frame = <<>> \/ Succ(lhead) = tail
  /\ head' = lhead
  /\ frame' = <<>>
  /\ pc' = IF linux THEN "check" ELSE "idle"
  /\ UNCHANGED <<linux, magic, tail, data, lhead, ltail, limit, chunk>>

(* shadow_msm_diag_receive(buffer, n) enters the monitor's dispatcher. *)
Receive(n) ==
  /\ linux /\ pc = "idle"
  /\ limit' = n
  /\ chunk' = <<>>
  /\ pc' = "dispatch"
  /\ UNCHANGED <<linux, mailbox, frame, lhead, ltail>>

(* No host command was pending, or it was another one. *)
DispatchOther ==
  /\ pc = "dispatch"
  /\ pc' = "check"
  /\ UNCHANGED <<linux, mailbox, frame, lhead, ltail, limit, chunk>>

(* Back from the dispatcher: without the magic the call returns 0.  Both    *)
(* words are in range, so the receiver's "& RING_MASK" is the identity.     *)
CheckMagic ==
  /\ pc = "check"
  /\ IF magic
     THEN /\ lhead' = head /\ ltail' = tail
          /\ pc' = "drain"
     ELSE /\ pc' = "idle"
          /\ UNCHANGED <<lhead, ltail>>
  /\ UNCHANGED <<linux, mailbox, frame, limit, chunk>>

(* while (tail != head && count < limit) *)
DrainByte ==
  /\ pc = "drain"
  /\ ltail # lhead /\ Len(chunk) < limit
  /\ chunk' = Append(chunk, data[ltail])
  /\ ltail' = Succ(ltail)
  /\ UNCHANGED <<linux, pc, mailbox, frame, lhead, limit>>

(* Mutant of FinishReceive: the tail is not published. *)
FinishReceiveSilently ==
  /\ pc = "drain"
  /\ ltail = lhead \/ Len(chunk) >= limit
  /\ pc' = "idle"
  /\ UNCHANGED <<linux, magic, head, tail, data, frame, lhead, ltail, limit, chunk>>

(* if (count) WRITE_ONCE(mailbox->tail, tail); return count; *)
FinishReceive ==
  /\ pc = "drain"
  /\ ltail = lhead \/ Len(chunk) >= limit
  /\ tail' = IF chunk # <<>> THEN ltail ELSE tail
  /\ pc' = "idle"
  /\ UNCHANGED <<linux, magic, head, data, frame, lhead, ltail, limit, chunk>>

(* Mutant of InputReset: only the head is reset. *)
InputResetHead ==
  /\ pc = "idle"
  /\ head' = 0 /\ tail' = tail /\ magic' = TRUE
  /\ linux' = TRUE
  /\ UNCHANGED <<pc, data, frame, lhead, ltail, limit, chunk>>

(* shadow_msm_diag_input_reset(): at device_initcall time, and again on     *)
(* every activation of the TTY port.                                        *)
InputReset ==
  /\ pc = "idle"
  /\ head' = 0 /\ tail' = 0 /\ magic' = TRUE
  /\ linux' = TRUE
  /\ UNCHANGED <<pc, data, frame, lhead, ltail, limit, chunk>>

Next ==
  \/ \E f \in Packets : MailboxInput(f)
  \/ StoreByte
  \/ Commit
  \/ \E n \in 1 .. ChunkLimit : Receive(n)
  \/ DispatchOther
  \/ CheckMagic
  \/ DrainByte
  \/ FinishReceive
  \/ InputReset

Spec == Init /\ [][Next]_vars

-----------------------------------------------------------------------------
TypeOK ==
  /\ linux \in BOOLEAN
  /\ pc \in {"idle", "dispatch", "store", "check", "drain"}
  /\ magic \in BOOLEAN
  /\ head \in Index /\ tail \in Index
  /\ data \in [Index -> Byte]
  /\ frame \in Seq(Byte) /\ Len(frame) =< PacketLimit
  /\ lhead \in Index /\ ltail \in Index
  /\ limit \in 1 .. ChunkLimit
  /\ chunk \in Seq(Byte) /\ Len(chunk) =< limit

(* The two ends of the queue of bytes as the running step sees them: the    *)
(* handler's register copy of the head while it stores, the receiver's      *)
(* local tail while it drains.                                              *)
Front == IF pc = "drain" THEN ltail ELSE tail
Back == IF pc = "store" THEN lhead ELSE head
Unread == IF magic THEN Contents(Front, Back, data) ELSE <<>>

UnreadSlots == {Slot(Front, i) : i \in 1 .. Used(Front, Back)}

(* The mailbox is a bounded FIFO of RingSize - 1 bytes: nothing is lost     *)
(* except the rest of a packet that meets a full ring, nothing is           *)
(* duplicated, reordered or invented (monitor mailbox_input and             *)
(* shadow_msm_diag_receive together).                                       *)
Fifo == INSTANCE InputFifo WITH
          Capacity <- RingSize - 1, Packet <- PacketLimit, Chunk <- ChunkLimit,
          pending <- frame, queue <- Unread, chunk <- chunk
FifoSpec == Fifo!Spec

(* A byte the ring has accepted stays in its slot, and stays between the    *)
(* two ends, until the receiver takes it as the oldest one; only the reset  *)
(* gives such bytes up (the full test of mailbox_loop and the order in      *)
(* which head and tail are published).                                      *)
UnreadStep ==
  magic => \A s \in UnreadSlots :
             /\ data'[s] = data[s]
             /\ s \in UnreadSlots' \/ (pc = "drain" /\ s = ltail)
UnreadKept == [][InputReset \/ UnreadStep]_vars

(* Linux never reads a byte stored before it reset the mailbox, neither one *)
(* typed at the stage-0 monitor nor one an earlier session left in RAM.     *)
NoStaleInput == linux => \A i \in 1 .. Len(chunk) : chunk[i] \in NewByte

(* The inductive strengthening the proofs use: which steps need Linux and   *)
(* the magic, that only the handler holds packet bytes, that the receiver's *)
(* copies of the indices are current, and that what Linux has not read yet  *)
(* is as fresh as what it has.                                              *)
ControlInv ==
  /\ pc \in {"dispatch", "check", "drain"} => linux
  /\ pc \in {"store", "drain"} \/ linux => magic
  /\ pc # "store" => frame = <<>>
  /\ ~linux \/ pc \in {"dispatch", "store", "check"} => chunk = <<>>
  /\ pc = "drain" => lhead = head /\ (chunk = <<>> => ltail = tail)
FreshInv ==
  linux => /\ \A i \in 1 .. Len(frame) : frame[i] \in NewByte
           /\ \A s \in UnreadSlots : data[s] \in NewByte
MailboxInv == TypeOK /\ ControlInv /\ FreshInv /\ NoStaleInput
=============================================================================
