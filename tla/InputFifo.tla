----------------------------- MODULE InputFifo -----------------------------
(***************************************************************************)
(* What the RAM-only host input path promises its users, without the ring, *)
(* the mailbox words or the two address spaces: a bounded first-in         *)
(* first-out queue.  The bytes of one host command are accepted in order   *)
(* while there is room and the rest is dropped once there is none; a read  *)
(* takes bytes from the front only; a reset empties the queue.             *)
(*                                                                         *)
(* InputMailbox is shown to implement this module.                         *)
(***************************************************************************)
EXTENDS Naturals, Sequences

CONSTANTS Byte,      (* what a host byte can be                              *)
          Capacity,  (* how many bytes the queue holds                       *)
          Packet,    (* the bytes one host command carries at most           *)
          Chunk      (* the bytes one read returns at most                   *)

VARIABLES pending,  (* bytes of the current command not yet accepted         *)
          queue,    (* bytes accepted and not yet read                       *)
          chunk     (* bytes the current read has taken                      *)

vars == <<pending, queue, chunk>>

UpTo(n) == {s \in Seq(Byte) : Len(s) =< n}

(* The queue may start with bytes an earlier session left in RAM. *)
Init == /\ pending = <<>>
        /\ queue \in UpTo(Capacity)
        /\ chunk = <<>>

Arrive == /\ pending = <<>>
          /\ pending' \in UpTo(Packet)
          /\ UNCHANGED <<queue, chunk>>

Accept == /\ pending # <<>>
          /\ Len(queue) < Capacity
          /\ queue' = Append(queue, Head(pending))
          /\ pending' = Tail(pending)
          /\ UNCHANGED chunk

DropRest == /\ pending # <<>>
            /\ Len(queue) = Capacity
            /\ pending' = <<>>
            /\ UNCHANGED <<queue, chunk>>

BeginRead == /\ chunk' = <<>>
             /\ UNCHANGED <<pending, queue>>

Take == /\ pending = <<>>
        /\ queue # <<>>
        /\ Len(chunk) < Chunk
        /\ chunk' = Append(chunk, Head(queue))
        /\ queue' = Tail(queue)
        /\ UNCHANGED pending

Flush == /\ pending = <<>>
         /\ queue' = <<>>
         /\ UNCHANGED <<pending, chunk>>

Next == \/ Arrive \/ Accept \/ DropRest
        \/ BeginRead \/ Take \/ Flush

Spec == Init /\ [][Next]_vars
=============================================================================
