-------------------------- MODULE TtyConsoleProofs --------------------------
(***************************************************************************)
(* Proofs about the target's end of the console.  ttySHM0 and              *)
(* /dev/shadowtrace on one mailbox, for every ring, packet and flip buffer *)
(* size: nothing runs for a closed port, no keystroke that arrived before  *)
(* a session is pushed into the TTY during it, and a byte is lost only to  *)
(* a backlog that short receives explain.  PID 1, for every line and input *)
(* length and whatever is typed: each line is run as it was typed and      *)
(* edited.                                                                 *)
(***************************************************************************)
EXTENDS TtyConsole, ShadowInit, DataLemmas

(* How far the port, its flag, the work and a cancel agree: the flag is set *)
(* exactly while the port is open; while a cancel owns the pending bit the  *)
(* port is stopping and nothing can be queued.                              *)
PortInv ==
  /\ polling <=> port = "open"
  /\ canceling => port = "stopping" /\ work = "idle"
  /\ QuietWhenClosed

(* Whose bytes are where: ring and input hold bytes that arrived after the  *)
(* activation of the session, and only a poll about to push has an input,   *)
(* for which the flip buffer still has the room that was asked for.         *)
ByteInv ==
  /\ mark =< arrived /\ lost =< arrived
  /\ \A i \in 1 .. Len(ring) : mark < ring[i] /\ ring[i] =< arrived
  /\ \A i \in 1 .. Len(input) : mark < input[i]
  /\ input # <<>> => poll = "push"
  /\ Len(flip) + Len(input) =< FlipLimit

(* Shutdown leaves nothing running only because of what PortInv says of the *)
(* steps before it; the backlog's bound is inductive by itself.             *)
TtyIInv == TypeOK /\ PortInv /\ ByteInv /\ BacklogBounded

-----------------------------------------------------------------------------
(* Lemmas about the operators of a receive *)

(* The lesser of two integers. *)
LEMMA MinOfTwo ==
  ASSUME NEW a \in Int, NEW b \in Int
  PROVE  Min({a, b}) = IF a =< b THEN a ELSE b
<1>1. \E x \in {a, b} : \A y \in {a, b} : x =< y
  OBVIOUS
<1>2. Min({a, b}) \in {a, b} /\ \A y \in {a, b} : Min({a, b}) =< y
  BY <1>1 DEF Min
<1> QED BY <1>2

(* What a packet of k bytes adds to the ring: a prefix of it that fits.     *)
LEMMA StoredBytes ==
  ASSUME TtyIInv, NEW k \in 0 .. PacketLimit, arrived + k =< MaxBytes
  PROVE  /\ Fits(k) \in 0 .. k /\ Fits(k) =< Capacity - Len(ring)
         /\ Fits(k) < k => Len(ring) + k > Capacity
         /\ Stored(k) \in Seq(Bytes)
         /\ Len(Stored(k)) = Len(ring) + Fits(k)
         /\ \A i \in 1 .. Len(Stored(k)) :
              mark < Stored(k)[i] /\ Stored(k)[i] =< arrived + k
<1>1. /\ ring \in Seq(Bytes) /\ Len(ring) \in 0 .. Capacity
      /\ arrived \in Nat /\ mark \in Nat /\ mark =< arrived
      /\ \A i \in 1 .. Len(ring) : mark < ring[i] /\ ring[i] =< arrived
  BY ConsoleAssumption DEF TtyIInv, TypeOK, ByteInv
<1>2. /\ Fits(k) \in 0 .. k /\ Fits(k) =< Capacity - Len(ring)
      /\ Fits(k) < k => Len(ring) + k > Capacity
  BY <1>1, MinOfTwo, ConsoleAssumption DEF Fits
<1> DEFINE head == SubSeq(Packet(k), 1, Fits(k))
<1>3. \A i \in 1 .. Fits(k) : Packet(k)[i] = arrived + i /\ arrived + i \in Bytes
  BY <1>1, <1>2, ConsoleAssumption DEF Packet, Bytes
<1>4. head \in Seq(Bytes) /\ Len(head) = Fits(k)
      /\ \A i \in 1 .. Fits(k) : head[i] = arrived + i
  BY <1>2, <1>3, SubSeqProperties
<1> HIDE DEF head
<1>5. /\ Stored(k) \in Seq(Bytes)
      /\ Len(Stored(k)) = Len(ring) + Fits(k)
      /\ \A i \in 1 .. Len(ring) + Fits(k) :
           Stored(k)[i] = IF i =< Len(ring) THEN ring[i] ELSE head[i - Len(ring)]
  <2>1. Stored(k) = ring \o head
    BY DEF Stored, head
  <2>2. /\ ring \o head \in Seq(Bytes)
        /\ Len(ring \o head) = Len(ring) + Len(head)
        /\ \A i \in 1 .. Len(ring) + Len(head) :
             (ring \o head)[i] = IF i =< Len(ring) THEN ring[i] ELSE head[i - Len(ring)]
    BY <1>1, <1>4, ConcatProperties
  <2> QED BY <1>4, <2>1, <2>2
<1>6. \A i \in 1 .. Len(Stored(k)) :
        mark < Stored(k)[i] /\ Stored(k)[i] =< arrived + k
  <2> SUFFICES ASSUME NEW i \in 1 .. Len(Stored(k))
               PROVE  mark < Stored(k)[i] /\ Stored(k)[i] =< arrived + k
    OBVIOUS
  <2>1. CASE i =< Len(ring)
    <3>1. i \in 1 .. Len(ring) /\ Stored(k)[i] = ring[i]
      BY <1>1, <1>2, <1>5, <2>1
    <3>2. ring[i] \in Int
      BY <1>1, <3>1, ConsoleAssumption DEF Bytes
    <3> QED BY <1>1, <3>1, <3>2
  <2>2. CASE i > Len(ring)
    <3>1. i - Len(ring) \in 1 .. Fits(k)
      BY <1>1, <1>2, <1>5, <2>2
    <3>2. Stored(k)[i] = arrived + (i - Len(ring))
      BY <1>1, <1>2, <1>4, <1>5, <2>2, <3>1
    <3> QED BY <1>1, <1>2, <3>1, <3>2
  <2> QED BY <1>1, <2>1, <2>2
<1> QED BY <1>2, <1>5, <1>6

(* One more short receive pays for a packet less a byte. *)
LEMMA OneMore ==
  ASSUME NEW a \in Nat, NEW b \in Nat
  PROVE  a * b \in Nat /\ (a + 1) * b = a * b + b /\ 0 * b = 0
  OBVIOUS

(* What a receive leaves of host's bytes. *)
ReceivedBytes ==
  /\ arrived' \in 0 .. MaxBytes /\ mark =< arrived'
  /\ lost' \in 0 .. MaxBytes /\ lost' =< arrived'
  /\ ring' \in Seq(Bytes) /\ Len(ring') =< Capacity
  /\ \A i \in 1 .. Len(ring') : mark < ring'[i] /\ ring'[i] =< arrived'

(* A receive for limit bytes: where the bytes of the ring and those taken   *)
(* come from, what is left, and what a lost byte says.                      *)
LEMMA ReceiveBytes ==
  ASSUME TtyIInv, NEW k \in 0 .. PacketLimit, NEW limit \in 1 .. PacketLimit,
         Receive(limit, k)
  PROVE  /\ ReceivedBytes
         /\ Taken(limit, k) \in Seq(Bytes) /\ Len(Taken(limit, k)) =< limit
         /\ \A i \in 1 .. Len(Taken(limit, k)) : mark < Taken(limit, k)[i]
<1>1. /\ arrived + k =< MaxBytes /\ arrived' = arrived + k
      /\ lost' = lost + (k - Fits(k))
      /\ ring' = SubSeq(Stored(k), Count(limit, k) + 1, Len(Stored(k)))
  BY DEF Receive
<1>2. /\ Len(ring) \in 0 .. Capacity /\ arrived \in Nat /\ mark \in Nat
      /\ mark =< arrived /\ lost \in Nat /\ lost =< arrived
  BY ConsoleAssumption DEF TtyIInv, TypeOK, ByteInv
<1>3. /\ Fits(k) \in 0 .. k /\ Fits(k) =< Capacity - Len(ring)
      /\ Stored(k) \in Seq(Bytes) /\ Len(Stored(k)) = Len(ring) + Fits(k)
      /\ \A i \in 1 .. Len(Stored(k)) :
           mark < Stored(k)[i] /\ Stored(k)[i] =< arrived + k
  BY <1>1, StoredBytes
<1> DEFINE stored == Stored(k)
           count == Count(limit, k)
<1>4. count \in 0 .. Len(stored) /\ count =< limit
  BY <1>2, <1>3, MinOfTwo DEF Count
<1>5. /\ stored \in Seq(Bytes) /\ Len(stored) \in 0 .. Capacity
      /\ \A i \in 1 .. Len(stored) :
           stored[i] \in Bytes /\ mark < stored[i] /\ stored[i] =< arrived + k
  BY <1>2, <1>3, ConsoleAssumption
<1>6. ring' = SubSeq(stored, count + 1, Len(stored)) /\ Taken(limit, k) = SubSeq(stored, 1, count)
  BY <1>1 DEF Taken
<1> HIDE DEF stored, count
<1>7. /\ ring' \in Seq(Bytes) /\ Len(ring') = Len(stored) - count
      /\ \A i \in 1 .. Len(stored) - count : ring'[i] = stored[count + i]
  <2>1. \A i \in count + 1 .. Len(stored) : stored[i] \in Bytes
    BY <1>4, <1>5
  <2>2. /\ SubSeq(stored, count + 1, Len(stored)) \in Seq(Bytes)
        /\ Len(SubSeq(stored, count + 1, Len(stored)))
             = IF count + 1 =< Len(stored) THEN Len(stored) - (count + 1) + 1 ELSE 0
        /\ \A i \in 1 .. Len(stored) - (count + 1) + 1 :
             SubSeq(stored, count + 1, Len(stored))[i] = stored[count + 1 + i - 1]
    BY <1>4, <1>5, <2>1, SubSeqProperties
  <2>3. \A i \in 1 .. Len(stored) - count : stored[count + 1 + i - 1] = stored[count + i]
    BY <1>4, <1>5
  <2> QED BY <1>4, <1>5, <1>6, <2>2, <2>3
<1>8. /\ Taken(limit, k) \in Seq(Bytes) /\ Len(Taken(limit, k)) = count
      /\ \A i \in 1 .. count : Taken(limit, k)[i] = stored[i]
  BY <1>4, <1>5, <1>6, SubSeqProperties
<1>9. \A i \in 1 .. Len(stored) - count : count + i \in 1 .. Len(stored)
  BY <1>4, <1>5
<1>10. \A i \in 1 .. Len(ring') : mark < ring'[i] /\ ring'[i] =< arrived'
  BY <1>1, <1>5, <1>7, <1>9
<1>11. \A i \in 1 .. Len(Taken(limit, k)) : mark < Taken(limit, k)[i]
  BY <1>4, <1>5, <1>8
<1>12. arrived' \in 0 .. MaxBytes /\ mark =< arrived' /\ lost' \in 0 .. MaxBytes
       /\ lost' =< arrived'
  BY <1>1, <1>2, <1>3, ConsoleAssumption
<1>13. Len(ring') =< Capacity /\ Len(Taken(limit, k)) =< limit
  BY <1>4, <1>5, <1>7, <1>8, ConsoleAssumption
<1> QED BY <1>7, <1>8, <1>10, <1>11, <1>12, <1>13 DEF ReceivedBytes

(* What a receive leaves behind, and when it finds the ring full.           *)
LEMMA ReceiveBacklog ==
  ASSUME TtyIInv, NEW k \in 0 .. PacketLimit, NEW limit \in 1 .. PacketLimit,
         Receive(limit, k)
  PROVE  /\ shorts' \in Nat
         /\ Len(ring') =< shorts' * (PacketLimit - 1)
         /\ lost' > lost => shorts * (PacketLimit - 1) + PacketLimit > Capacity
<1> DEFINE step == PacketLimit - 1
           paid == shorts * step
<1>1. /\ Len(ring) \in 0 .. Capacity /\ shorts \in Nat /\ lost \in Nat
      /\ Len(ring) =< paid
  BY ConsoleAssumption DEF TtyIInv, TypeOK, BacklogBounded
<1>2. /\ step = PacketLimit - 1 /\ paid \in Nat
      /\ (shorts + 1) * step = paid + step /\ 0 * step = 0
  BY <1>1, OneMore, ConsoleAssumption
<1>3. /\ Fits(k) \in 0 .. k
      /\ Fits(k) < k => Len(ring) + k > Capacity
      /\ Stored(k) \in Seq(Bytes) /\ Len(Stored(k)) = Len(ring) + Fits(k)
  BY StoredBytes DEF Receive
<1>4. Count(limit, k) = IF limit =< Len(Stored(k)) THEN limit ELSE Len(Stored(k))
  BY <1>1, <1>3, MinOfTwo DEF Count
<1>5. ring' = <<>> \/ Len(ring') = Len(Stored(k)) - limit
  <2>1. CASE limit < Len(Stored(k))
    <3>1. \A i \in limit + 1 .. Len(Stored(k)) : Stored(k)[i] \in Bytes
      BY <1>3
    <3>2. Len(Stored(k)) \in Int /\ Count(limit, k) = limit
      BY <1>1, <1>3, <1>4, <2>1
    <3>3. ring' = SubSeq(Stored(k), limit + 1, Len(Stored(k)))
      BY <3>2 DEF Receive
    <3>4. Len(ring') = Len(Stored(k)) - (limit + 1) + 1
      BY <2>1, <3>1, <3>2, <3>3, SubSeqProperties
    <3> QED BY <3>2, <3>4
  <2>2. CASE ~(limit < Len(Stored(k)))
    <3>1. Count(limit, k) = Len(Stored(k)) /\ Len(Stored(k)) \in Int
      BY <1>1, <1>3, <1>4, <2>2
    <3>2. ring' = SubSeq(Stored(k), Len(Stored(k)) + 1, Len(Stored(k)))
      BY <3>1 DEF Receive
    <3> QED BY <3>1, <3>2, SubSeqEmpty
  <2> QED BY <2>1, <2>2
<1>6. shorts' = IF ring' = <<>> THEN 0
                ELSE IF limit < PacketLimit THEN shorts + 1 ELSE shorts
  BY DEF Receive
<1>7. shorts' \in Nat /\ Len(ring') =< shorts' * step
  <2>1. CASE ring' = <<>>
    BY <1>2, <1>6, <2>1
  <2>2. CASE ring' # <<>> /\ limit < PacketLimit
    <3>1. shorts' = shorts + 1 /\ Len(ring') = Len(Stored(k)) - limit
      BY <1>5, <1>6, <2>2
    <3>2. Len(ring') =< paid + step
      <4> HIDE DEF paid, step
      <4> QED BY <1>1, <1>2, <1>3, <3>1, ConsoleAssumption
    <3> QED BY <1>1, <1>2, <3>1, <3>2
  <2>3. CASE ring' # <<>> /\ ~(limit < PacketLimit)
    <3>1. shorts' = shorts /\ Len(ring') = Len(Stored(k)) - limit /\ limit = PacketLimit
      BY <1>5, <1>6, <2>3, ConsoleAssumption
    <3>2. Len(ring') =< paid
      <4> HIDE DEF paid, step
      <4> QED BY <1>1, <1>2, <1>3, <3>1, ConsoleAssumption
    <3> QED BY <1>1, <3>1, <3>2
  <2> QED BY <2>1, <2>2, <2>3
<1>8. ASSUME lost' > lost PROVE paid + PacketLimit > Capacity
  <2>1. lost' = lost + (k - Fits(k)) /\ k \in Int
    BY ConsoleAssumption DEF Receive
  <2>2. Fits(k) < k
    BY <1>1, <1>3, <1>8, <2>1
  <2> HIDE DEF paid, step
  <2> QED BY <1>1, <1>2, <1>3, <2>2, ConsoleAssumption
<1> QED BY <1>7, <1>8

-----------------------------------------------------------------------------
(* The inductive invariant *)

(* Init establishes the invariant. *)
LEMMA InitTtyIInv == Init => TtyIInv
<1> SUFFICES ASSUME Init PROVE TtyIInv
  OBVIOUS
<1>1. TypeOK
  <2>1. <<>> \in Seq(Bytes) /\ Len(<<>>) = 0
    BY EmptySeq
  <2>2. /\ arrived = 0 /\ lost = 0 /\ shorts = 0 /\ mark = 0
        /\ ring = <<>> /\ input = <<>> /\ flip = <<>>
    BY DEF Init
  <2>3. /\ port \in {"closed", "open", "stopping"} /\ polling \in BOOLEAN
        /\ canceling \in BOOLEAN /\ work \in {"idle", "delayed", "queued"}
        /\ poll \in {"off", "check", "receive", "push", "again"}
    BY DEF Init
  <2> QED BY <2>1, <2>2, <2>3, ConsoleAssumption DEF TypeOK
<1>2. PortInv
  BY DEF Init, PortInv, QuietWhenClosed
<1>3. ByteInv
  BY ConsoleAssumption DEF Init, ByteInv
<1>4. BacklogBounded
  BY OneMore, ConsoleAssumption DEF Init, BacklogBounded
<1> QED BY <1>1, <1>2, <1>3, <1>4 DEF TtyIInv

(* The port, its flag, the work and a cancel keep agreeing.                 *)
LEMMA PortStep == ASSUME TtyIInv, [Next]_vars PROVE PortInv'
<1>0. TypeOK /\ PortInv
  BY DEF TtyIInv
<1> USE DEF PortInv, QuietWhenClosed
<1>1. CASE Activate
  BY <1>0, <1>1 DEF Activate, TypeOK
<1>2. CASE StopPolling
  BY <1>0, <1>2 DEF StopPolling, worker
<1>3. CASE CancelPending
  BY <1>0, <1>3 DEF CancelPending, session
<1>4. CASE CancelDone
  BY <1>0, <1>4 DEF CancelDone
<1>5. CASE TimerExpires
  BY <1>0, <1>5 DEF TimerExpires, session
<1>6. CASE PollStart
  BY <1>0, <1>6 DEF PollStart, session
<1>7. CASE PollCheck
  BY <1>0, <1>7 DEF PollCheck, session
<1>8. CASE PollReceive
  BY <1>0, <1>8 DEF PollReceive, session
<1>9. CASE PollPush
  BY <1>0, <1>9 DEF PollPush, session
<1>10. CASE PollAgain
  BY <1>0, <1>10 DEF PollAgain, session
<1>11. CASE Consume
  BY <1>0, <1>11 DEF Consume, session, worker
<1>12. ASSUME NEW size \in TraceReads, TraceRead(size) PROVE PortInv'
  BY <1>0, <1>12 DEF TraceRead, session, worker
<1>13. CASE UNCHANGED vars
  BY <1>0, <1>13 DEF vars, session, worker
<1> QED
  BY <1>1, <1>2, <1>3, <1>4, <1>5, <1>6, <1>7, <1>8, <1>9, <1>10, <1>11, <1>12,
     <1>13 DEF Next, PollSteps

(* A receive happens in a poll that has room, or for a user program; in     *)
(* both cases for between one byte and a packet.                            *)
LEMMA RoomBound ==
  ASSUME TypeOK
  PROVE  /\ Room \in Int /\ Room =< PacketLimit
         /\ Room =< FlipLimit - Len(flip)
         /\ \A size \in TraceReads : Min({size, PacketLimit}) \in 1 .. PacketLimit
<1>1. Len(flip) \in Int /\ PacketLimit \in Int /\ FlipLimit \in Int
  BY ConsoleAssumption DEF TypeOK
<1>2. \A size \in TraceReads : size \in Int /\ size > 0
  BY ConsoleAssumption
<1>3. Room = IF PacketLimit =< FlipLimit - Len(flip) THEN PacketLimit
             ELSE FlipLimit - Len(flip)
  BY <1>1, MinOfTwo DEF Room
<1>4. \A size \in TraceReads :
        Min({size, PacketLimit}) = IF size =< PacketLimit THEN size ELSE PacketLimit
  BY <1>1, <1>2, MinOfTwo
<1> QED BY <1>1, <1>2, <1>3, <1>4, ConsoleAssumption

(* The steps that touch none of the bytes.                                  *)
Aside == UNCHANGED <<host, mark, input, flip>>

(* Every step moves bytes or leaves them alone.                             *)
LEMMA StepCases ==
  ASSUME [Next]_vars
  PROVE  \/ Activate \/ PollReceive \/ PollPush \/ Consume
         \/ \E size \in TraceReads : TraceRead(size)
         \/ /\ Aside
            /\ poll = "push" => poll' = "push"
  BY DEF Next, vars, session, worker, Aside, StopPolling, CancelPending, CancelDone,
         TimerExpires, PollSteps, PollStart, PollCheck, PollAgain

(* Port, flag, work and step stay of their types.                           *)
LEMMA ControlTypes ==
  ASSUME TypeOK, [Next]_vars
  PROVE  /\ port' \in {"closed", "open", "stopping"} /\ polling' \in BOOLEAN
         /\ canceling' \in BOOLEAN /\ work' \in {"idle", "delayed", "queued"}
         /\ poll' \in {"off", "check", "receive", "push", "again"}
  BY DEF TypeOK, Next, vars, session, worker, Activate, StopPolling, CancelPending,
         CancelDone, TimerExpires, PollSteps, PollStart, PollCheck, PollReceive,
         PollPush, PollAgain, Consume, TraceRead

(* A receive keeps the backlog's bound, and so does every other step.       *)
LEMMA BacklogStep == ASSUME TtyIInv, [Next]_vars PROVE BacklogBounded'
<1>0. TypeOK /\ BacklogBounded
  BY DEF TtyIInv
<1>1. CASE Activate
  BY <1>1, OneMore, ConsoleAssumption DEF Activate, BacklogBounded
<1>2. CASE PollReceive
  <2>1. CASE Room > 0
    <3>1. PICK k \in 0 .. PacketLimit : Receive(Room, k)
      BY <1>2, <2>1 DEF PollReceive
    <3>2. Room \in 1 .. PacketLimit
      BY <1>0, <2>1, RoomBound
    <3> QED BY <3>1, <3>2, ReceiveBacklog DEF BacklogBounded
  <2>2. CASE ~(Room > 0)
    BY <1>0, <1>2, <2>2 DEF PollReceive, host, BacklogBounded
  <2> QED BY <2>1, <2>2
<1>3. CASE PollPush
  BY <1>0, <1>3 DEF PollPush, host, BacklogBounded
<1>4. CASE Consume
  BY <1>0, <1>4 DEF Consume, host, BacklogBounded
<1>5. ASSUME NEW size \in TraceReads, TraceRead(size) PROVE BacklogBounded'
  <2>1. PICK k \in 0 .. PacketLimit : Receive(Min({size, PacketLimit}), k)
    BY <1>5 DEF TraceRead
  <2> QED BY <1>0, <2>1, RoomBound, ReceiveBacklog DEF BacklogBounded
<1>6. CASE Aside
  BY <1>0, <1>6 DEF Aside, host, BacklogBounded
<1> QED BY <1>1, <1>2, <1>3, <1>4, <1>5, <1>6, StepCases

(* The bytes keep their owner, and every variable its type.                 *)
LEMMA ByteStep == ASSUME TtyIInv, [Next]_vars PROVE ByteInv' /\ TypeOK'
<1>0. TypeOK /\ PortInv /\ ByteInv
  BY DEF TtyIInv
<1>1. CASE Activate
  <2>1. ring' = <<>> /\ <<>> \in Seq(Bytes) /\ Len(<<>>) = 0
    BY <1>1, EmptySeq DEF Activate
  <2>2. input = <<>>
    BY <1>0, <1>1 DEF PortInv, QuietWhenClosed, ByteInv, Activate
  <2> QED BY <1>0, <1>1, <2>1, <2>2, ConsoleAssumption DEF Activate, TypeOK, ByteInv
<1>2. CASE PollReceive
  <2>1. CASE Room > 0
    <3>1. PICK k \in 0 .. PacketLimit : Receive(Room, k) /\ input' = Taken(Room, k)
      BY <1>2, <2>1 DEF PollReceive
    <3>2. Room \in 1 .. PacketLimit /\ Room =< FlipLimit - Len(flip)
      BY <1>0, <2>1, RoomBound
    <3>3. /\ ReceivedBytes /\ shorts' \in Nat
          /\ input' \in Seq(Bytes) /\ Len(input') =< Room
          /\ \A i \in 1 .. Len(input') : mark < input'[i]
      BY <3>1, <3>2, ReceiveBytes, ReceiveBacklog DEF ReceivedBytes
    <3>4. poll' = "push" /\ UNCHANGED <<session, work, canceling, flip>>
      BY <1>2 DEF PollReceive
    <3>5. Len(input') =< PacketLimit /\ Len(flip') + Len(input') =< FlipLimit
      BY <1>0, <3>2, <3>3, <3>4, LenProperties, ConsoleAssumption DEF TypeOK
    <3>6. TypeOK'
      BY <1>0, <3>3, <3>4, <3>5 DEF ReceivedBytes, TypeOK, session
    <3>7. ByteInv'
      BY <3>3, <3>4, <3>5 DEF ReceivedBytes, ByteInv, session
    <3> QED BY <3>6, <3>7
  <2>2. CASE ~(Room > 0)
    <3>1. /\ input' = <<>> /\ poll' = "push" /\ <<>> \in Seq(Bytes) /\ Len(<<>>) = 0
          /\ UNCHANGED <<host, session, work, canceling, flip>>
      BY <1>2, <2>2, EmptySeq DEF PollReceive
    <3>2. TypeOK'
      BY <1>0, <3>1, ConsoleAssumption DEF TypeOK, host, session
    <3>3. ByteInv'
      BY <1>0, <3>1, ConsoleAssumption DEF TypeOK, ByteInv, host, session
    <3> QED BY <3>2, <3>3
  <2> QED BY <2>1, <2>2
<1>3. CASE PollPush
  <2>1. /\ flip' = flip \o input /\ input' = <<>> /\ poll' = "again"
        /\ UNCHANGED <<host, session, work, canceling>>
    BY <1>3 DEF PollPush
  <2>2. flip \in Seq(Bytes) /\ input \in Seq(Bytes) /\ Len(flip) + Len(input) =< FlipLimit
    BY <1>0 DEF TypeOK, ByteInv
  <2>3. flip' \in Seq(Bytes) /\ Len(flip') = Len(flip) + Len(input)
    BY <2>1, <2>2, ConcatProperties
  <2>4. input' \in Seq(Bytes) /\ Len(input') = 0
    BY <2>1, EmptySeq
  <2>5. TypeOK'
    BY <1>0, <2>1, <2>2, <2>3, <2>4, ConsoleAssumption DEF TypeOK, host, session
  <2>6. ByteInv'
    BY <1>0, <2>1, <2>2, <2>3, <2>4, LenProperties, ConsoleAssumption
    DEF TypeOK, ByteInv, host, session
  <2> QED BY <2>5, <2>6
<1>4. CASE Consume
  <2>1. flip # <<>> /\ flip' = Tail(flip) /\ UNCHANGED <<host, session, worker, input>>
    BY <1>4 DEF Consume
  <2>2. flip \in Seq(Bytes) /\ Len(flip) =< FlipLimit /\ Len(flip) \in Nat /\ Len(input) \in Nat
    BY <1>0, LenProperties DEF TypeOK
  <2>3. flip' \in Seq(Bytes) /\ Len(flip') = Len(flip) - 1
    BY <2>1, <2>2, HeadTailProperties
  <2>4. TypeOK'
    BY <1>0, <2>1, <2>2, <2>3, ConsoleAssumption DEF TypeOK, host, session, worker
  <2>5. ByteInv'
    BY <1>0, <2>1, <2>2, <2>3, ConsoleAssumption DEF TypeOK, ByteInv, host, session, worker
  <2> QED BY <2>4, <2>5
<1>5. ASSUME NEW size \in TraceReads, TraceRead(size) PROVE ByteInv' /\ TypeOK'
  <2>1. PICK k \in 0 .. PacketLimit : Receive(Min({size, PacketLimit}), k)
    BY <1>5 DEF TraceRead
  <2>2. ReceivedBytes /\ shorts' \in Nat
    BY <1>0, <2>1, RoomBound, ReceiveBytes, ReceiveBacklog DEF ReceivedBytes
  <2>3. UNCHANGED <<session, worker, input, flip>>
    BY <1>5 DEF TraceRead
  <2> QED BY <1>0, <2>2, <2>3 DEF ReceivedBytes, TypeOK, ByteInv, session, worker
<1>6. ASSUME Aside, poll = "push" => poll' = "push" PROVE ByteInv' /\ TypeOK'
  <2>1. /\ port' \in {"closed", "open", "stopping"} /\ polling' \in BOOLEAN
        /\ canceling' \in BOOLEAN /\ work' \in {"idle", "delayed", "queued"}
        /\ poll' \in {"off", "check", "receive", "push", "again"}
    BY <1>0, ControlTypes
  <2>2. TypeOK'
    BY <1>0, <1>6, <2>1 DEF Aside, TypeOK, host
  <2>3. ByteInv'
    BY <1>0, <1>6 DEF Aside, ByteInv, host
  <2> QED BY <2>2, <2>3
<1> QED BY <1>1, <1>2, <1>3, <1>4, <1>5, <1>6, StepCases

(* The invariant holds of every state. *)
THEOREM SpecTtyIInv == Spec => []TtyIInv
<1>1. TtyIInv /\ [Next]_vars => TtyIInv'
  BY PortStep, ByteStep, BacklogStep DEF TtyIInv
<1> QED BY InitTtyIInv, <1>1, PTL DEF Spec

-----------------------------------------------------------------------------
(* What the invariant is for *)

(* Once shadow_tty_shutdown() has returned nothing of the poll loop runs,   *)
(* and what a receive leaves in the ring is explained by short receives.    *)
THEOREM SpecTtyInv == Spec => []TtyInv
<1>1. TtyIInv => TtyInv
  BY DEF TtyIInv, PortInv, TtyInv
<1> QED BY <1>1, SpecTtyIInv, PTL

(* Whatever is pushed into the TTY is pushed for a session that is open or  *)
(* closing and arrived after its activation.                                *)
THEOREM SpecFreshSession == Spec => FreshSession
<1> DEFINE Fresh == flip' # flip /\ Len(flip') > Len(flip) =>
                      /\ port # "closed"
                      /\ \A i \in Len(flip) + 1 .. Len(flip') : flip'[i] > mark
<1>1. ASSUME TtyIInv, [Next]_vars PROVE Fresh
  <2>0. TypeOK /\ PortInv /\ ByteInv
    BY <1>1 DEF TtyIInv
  <2>1. CASE PollPush
    <3>1. port # "closed"
      BY <2>0, <2>1 DEF PollPush, PortInv, QuietWhenClosed
    <3>2. flip \in Seq(Bytes) /\ input \in Seq(Bytes) /\ flip' = flip \o input
      BY <2>0, <2>1 DEF PollPush, TypeOK
    <3>3. /\ Len(flip') = Len(flip) + Len(input)
          /\ \A i \in 1 .. Len(flip) + Len(input) :
               flip'[i] = IF i =< Len(flip) THEN flip[i] ELSE input[i - Len(flip)]
      BY <3>2, ConcatProperties
    <3>4. Len(flip) \in Nat /\ Len(input) \in Nat
      BY <3>2, LenProperties
    <3>5. \A i \in Len(flip) + 1 .. Len(flip') :
            flip'[i] = input[i - Len(flip)] /\ i - Len(flip) \in 1 .. Len(input)
      BY <3>3, <3>4
    <3>6. mark \in Int /\ \A i \in 1 .. Len(input) : input[i] \in Int /\ mark < input[i]
      BY <2>0, <3>2, ConsoleAssumption, ElementOfSeq DEF TypeOK, ByteInv, Bytes
    <3> QED BY <3>1, <3>5, <3>6
  <2>2. CASE Consume
    <3>1. flip' = Tail(flip) /\ flip # <<>> /\ flip \in Seq(Bytes)
      BY <2>0, <2>2 DEF Consume, TypeOK
    <3>2. Len(flip') = Len(flip) - 1 /\ Len(flip) \in Nat
      BY <3>1, HeadTailProperties, LenProperties
    <3> QED BY <3>2
  <2>3. CASE UNCHANGED flip
    BY <2>3
  <2>4. PollPush \/ Consume \/ UNCHANGED flip
    BY <1>1, StepCases DEF Aside, Activate, PollReceive, TraceRead
  <2> QED BY <2>1, <2>2, <2>3, <2>4
<1>2. TtyIInv /\ [Next]_vars => [Fresh]_vars
  BY <1>1
<1> QED BY <1>2, SpecTtyIInv, PTL DEF Spec, FreshSession

(* A byte is lost to a full ring only when the short receives since the     *)
(* ring was last empty left enough behind.                                  *)
THEOREM SpecLossNeedsShortReads == Spec => LossNeedsShortReads
<1> DEFINE Explained == lost' > lost => shorts * (PacketLimit - 1) + PacketLimit > Capacity
<1>1. ASSUME TtyIInv, [Next]_vars PROVE Explained
  <2>0. TypeOK
    BY <1>1 DEF TtyIInv
  <2>1. CASE UNCHANGED lost
    BY <2>0, <2>1, ConsoleAssumption DEF TypeOK
  <2>2. CASE PollReceive /\ Room > 0
    <3>1. PICK k \in 0 .. PacketLimit : Receive(Room, k)
      BY <2>2 DEF PollReceive
    <3>2. Room \in 1 .. PacketLimit
      BY <2>0, <2>2, RoomBound
    <3> QED BY <1>1, <3>1, <3>2, ReceiveBacklog
  <2>3. ASSUME NEW size \in TraceReads, TraceRead(size) PROVE Explained
    <3>1. PICK k \in 0 .. PacketLimit : Receive(Min({size, PacketLimit}), k)
      BY <2>3 DEF TraceRead
    <3> QED BY <1>1, <2>0, <3>1, RoomBound, ReceiveBacklog
  <2>4. \/ UNCHANGED lost
        \/ PollReceive /\ Room > 0
        \/ \E size \in TraceReads : TraceRead(size)
    <3>1. PollReceive => Room > 0 \/ UNCHANGED host
      BY DEF PollReceive
    <3>2. Activate \/ PollPush \/ Consume \/ Aside => UNCHANGED lost
      BY DEF Aside, host, Activate, PollPush, Consume
    <3>3. UNCHANGED host => UNCHANGED lost
      BY DEF host
    <3> QED BY <1>1, <3>1, <3>2, <3>3, StepCases
  <2> QED BY <2>1, <2>2, <2>3, <2>4
<1>2. TtyIInv /\ [Next]_vars => [Explained]_vars
  BY <1>1
<1> QED BY <1>2, SpecTtyIInv, PTL DEF Spec, LossNeedsShortReads

(* With the driver's sizes, a ring of 256 slots and packets of 64 bytes: at *)
(* least four short receives in a row come before the first loss.           *)
THEOREM FourShortReads ==
  ASSUME Capacity = 255, PacketLimit = 64
  PROVE  Spec => [][lost' > lost => shorts >= 4]_vars
<1> DEFINE Explained == lost' > lost => shorts * (PacketLimit - 1) + PacketLimit > Capacity
           Four == lost' > lost => shorts >= 4
<1>1. TypeOK /\ [Explained]_vars => [Four]_vars
  BY DEF TypeOK
<1>2. TtyInv => TypeOK
  BY DEF TtyInv
<1> QED BY <1>1, <1>2, SpecLossNeedsShortReads, SpecTtyInv, PTL DEF LossNeedsShortReads

-----------------------------------------------------------------------------
(* PID 1 *)

Devices == {"ttySHM0", "shadowtrace"}

(* What is attached: until an open() succeeds one descriptor is free; from  *)
(* then on descriptor is a device, and the standard descriptors below       *)
(* standard are it too.                                                     *)
FilesInv ==
  /\ pc \in {"open", "fallback"} => standard = 0 /\ files[3] = "closed"
  /\ pc \in {"attach", "exec", "shell", "edit", "busybox"} =>
       descriptor \in Descriptors /\ files[descriptor] \in Devices
  /\ pc = "attach" => \A d \in Standard : d < standard => files[d] = files[descriptor]
  /\ pc \in {"exec", "busybox"} => \A d \in Standard : files[d] = files[descriptor]

(* What the array holds: the characters of the line being typed, none of    *)
(* which ends it.  The rest of the array is arbitrary.                      *)
Current == Piece(typed, Len(typed) + 1)
LineInv ==
  /\ length = Kept(Current)[Len(Current)]
  /\ \A j \in 1 .. length : line[j - 1] \in Printable /\ line[j - 1] = Edited(Current)[j]

(* Nothing is typed before the recovery shell runs. *)
EditorInv ==
  /\ pc # "edit" => typed = <<>> /\ buffer = <<>> /\ out = <<>>
  /\ LineInv /\ RunsTyped

Pid1IInv == Pid1TypeOK /\ FilesInv /\ EditorInv

-----------------------------------------------------------------------------
(* Lemmas about the line that is typed *)

(* A byte moves the end of the line by one at most. *)
LEMMA AfterByteType ==
  ASSUME NEW n \in 0 .. LineLength - 1, NEW byte
  PROVE  /\ AfterByte(n, byte) \in 0 .. LineLength - 1
         /\ AfterByte(n, byte) =< n \/ AfterByte(n, byte) = n + 1
BY InitAssumption DEF AfterByte

(* Kept is what its recursion says. *)
LEMMA KeptSteps ==
  ASSUME NEW piece \in Seq(Byte), NEW m \in Nat, m = Len(piece)
  PROVE  /\ Kept(piece) \in [0 .. m -> 0 .. LineLength - 1]
         /\ Kept(piece)[0] = 0
         /\ \A n \in 1 .. m : Kept(piece)[n] = AfterByte(Kept(piece)[n - 1], piece[n])
<1> DEFINE V == 0 .. LineLength - 1
           F == [n \in 1 .. m |-> [v \in V |-> AfterByte(v, piece[n])]]
           Def(g) == g = [n \in 0 .. m |-> IF n = 0 THEN 0 ELSE AfterByte(g[n - 1], piece[n])]
           kept == CHOOSE g : Def(g)
<1>1. Kept(piece) = kept
  BY DEF Kept
<1>2. PICK f \in [0 .. m -> V] : Follows(f, m, 0, F)
  <2>1. StepsIn(F, m, V) /\ 0 \in V
    BY AfterByteType, InitAssumption DEF StepsIn
  <2> HIDE DEF F, V
  <2> QED BY <2>1, Recursion
<1>3. f[0] = 0 /\ \A n \in 1 .. m : f[n] = AfterByte(f[n - 1], piece[n])
  <2>1. ASSUME NEW n \in 1 .. m PROVE f[n] = AfterByte(f[n - 1], piece[n])
    <3>1. n - 1 \in 0 .. m /\ f[n - 1] \in V
      BY <1>2
    <3>2. F[n][f[n - 1]] = AfterByte(f[n - 1], piece[n])
      BY <3>1
    <3> HIDE DEF F
    <3> QED BY <1>2, <3>2 DEF Follows
  <2> QED BY <1>2, <2>1 DEF Follows
<1>4. Def(kept)
  <2>1. f = [n \in 0 .. m |-> f[n]]
    BY <1>2
  <2>2. \A n \in 0 .. m : f[n] = IF n = 0 THEN 0 ELSE AfterByte(f[n - 1], piece[n])
    BY <1>3
  <2>3. Def(f)
    <3> HIDE DEF F, V
    <3> QED BY <2>1, <2>2
  <2> HIDE DEF Def
  <2> QED BY <2>3
<1>5. kept[0] = 0 /\ \A n \in 1 .. m : kept[n] = AfterByte(kept[n - 1], piece[n])
  <2> HIDE DEF kept, F, V
  <2> QED BY <1>4
<1>6. \A n \in 0 .. m : kept[n] = f[n]
  <2> HIDE DEF kept, F, V
  <2> DEFINE T == {n \in 0 .. m : kept[n] = f[n]}
  <2>1. 0 \in T
    BY <1>3, <1>5
  <2>2. \A n \in 0 .. m - 1 : n \in T => n + 1 \in T
    <3> SUFFICES ASSUME NEW n \in 0 .. m - 1, kept[n] = f[n] PROVE kept[n + 1] = f[n + 1]
      OBVIOUS
    <3>1. n + 1 \in 1 .. m /\ (n + 1) - 1 = n
      OBVIOUS
    <3> QED BY <1>3, <1>5, <3>1
  <2>3. 0 .. m \subseteq T
    <3> HIDE DEF T
    <3> QED BY <2>1, <2>2, UpToN
  <2> QED BY <2>3
<1>7. kept \in [0 .. m -> V]
  <2>1. kept = [n \in 0 .. m |-> kept[n]]
    <3> HIDE DEF kept, F, V
    <3> QED BY <1>4
  <2> HIDE DEF kept, F, V, Def
  <2> QED BY <1>2, <1>6, <2>1
<1> HIDE DEF kept, F, Def
<1> QED BY <1>1, <1>5, <1>7

(* An empty line has no characters. *)
LEMMA NothingKept == Kept(<<>>)[0] = 0
<1>1. PICK bytes \in Seq(Byte), m \in Nat : bytes = <<>> /\ m = Len(bytes)
  <2>1. <<>> \in Seq(Byte) /\ 0 \in Nat /\ 0 = Len(<<>>)
    OBVIOUS
  <2> QED BY <2>1
<1> QED BY <1>1, KeptSteps

(* One more byte leaves what was kept before it alone. *)
LEMMA KeptAppend ==
  ASSUME NEW piece \in Seq(Byte), NEW byte \in Byte, NEW m \in Nat, m = Len(piece)
  PROVE  /\ Append(piece, byte) \in Seq(Byte) /\ Len(Append(piece, byte)) = m + 1
         /\ \A n \in 1 .. m : Append(piece, byte)[n] = piece[n]
         /\ Append(piece, byte)[m + 1] = byte
         /\ \A n \in 0 .. m : Kept(Append(piece, byte))[n] = Kept(piece)[n]
         /\ Kept(Append(piece, byte))[m + 1] = AfterByte(Kept(piece)[m], byte)
<1> DEFINE more == Append(piece, byte)
<1>1. more \in Seq(Byte) /\ Len(more) = m + 1
  BY AppendProperties
<1>2. (\A n \in 1 .. m : more[n] = piece[n]) /\ more[m + 1] = byte
  BY AppendProperties
<1> HIDE DEF more
<1>3. /\ Kept(piece)[0] = 0
      /\ \A n \in 1 .. m : Kept(piece)[n] = AfterByte(Kept(piece)[n - 1], piece[n])
  BY KeptSteps
<1>4. /\ Kept(more)[0] = 0
      /\ \A n \in 1 .. m + 1 : Kept(more)[n] = AfterByte(Kept(more)[n - 1], more[n])
  <2>1. PICK m1 \in Nat : m1 = m + 1
    OBVIOUS
  <2>2. /\ Kept(more)[0] = 0
        /\ \A n \in 1 .. m1 : Kept(more)[n] = AfterByte(Kept(more)[n - 1], more[n])
    BY <1>1, <2>1, KeptSteps
  <2> QED BY <2>1, <2>2
<1>5. \A n \in 0 .. m : Kept(more)[n] = Kept(piece)[n]
  <2> DEFINE T == {n \in 0 .. m : Kept(more)[n] = Kept(piece)[n]}
  <2>1. 0 \in T
    BY <1>3, <1>4
  <2>2. \A n \in 0 .. m - 1 : n \in T => n + 1 \in T
    <3> SUFFICES ASSUME NEW n \in 0 .. m - 1, Kept(more)[n] = Kept(piece)[n]
                 PROVE  Kept(more)[n + 1] = Kept(piece)[n + 1]
      OBVIOUS
    <3>1. n + 1 \in 1 .. m /\ n + 1 \in 1 .. m + 1 /\ (n + 1) - 1 = n
      OBVIOUS
    <3> QED BY <1>2, <1>3, <1>4, <3>1
  <2>3. 0 .. m \subseteq T
    <3> HIDE DEF T
    <3> QED BY <2>1, <2>2, UpToN
  <2> QED BY <2>3
<1>6. Kept(more)[m + 1] = AfterByte(Kept(piece)[m], byte)
  <2>1. m + 1 \in 1 .. m + 1 /\ (m + 1) - 1 = m /\ m \in 0 .. m
    OBVIOUS
  <2>2. Kept(more)[m + 1] = AfterByte(Kept(more)[m], more[m + 1])
    BY <1>4, <2>1
  <2> QED BY <1>2, <1>5, <2>1, <2>2
<1> QED BY <1>1, <1>2, <1>5, <1>6 DEF more

(* Where the j-th character of the line may have been put. *)
Puts(piece, j) ==
  {n \in 1 .. Len(piece) : Kept(piece)[n - 1] = j - 1 /\ Kept(piece)[n] = j}

(* The line's characters by their places. *)
LEMMA EditedPuts ==
  ASSUME NEW piece
  PROVE  Edited(piece) = [j \in 1 .. Kept(piece)[Len(piece)] |-> piece[Max(Puts(piece, j))]]
BY DEF Edited, Puts

(* Each character of the line was put there. *)
LEMMA EachPut ==
  ASSUME NEW piece \in Seq(Byte), NEW m \in Nat, m = Len(piece),
         NEW j \in 1 .. Kept(piece)[m]
  PROVE  Puts(piece, j) # {}
<1> DEFINE Put(n) == \A i \in 1 .. Kept(piece)[n] : \E k \in 1 .. n :
                        Kept(piece)[k - 1] = i - 1 /\ Kept(piece)[k] = i
           T == {n \in 0 .. m : Put(n)}
<1>1. /\ Kept(piece) \in [0 .. m -> 0 .. LineLength - 1]
      /\ Kept(piece)[0] = 0
      /\ \A n \in 1 .. m : Kept(piece)[n] = AfterByte(Kept(piece)[n - 1], piece[n])
  BY KeptSteps
<1>2. 0 \in T
  BY <1>1
<1>3. \A n \in 0 .. m - 1 : n \in T => n + 1 \in T
  <2> SUFFICES ASSUME NEW n \in 0 .. m - 1, Put(n) PROVE Put(n + 1)
    OBVIOUS
  <2>1. PICK a \in 0 .. LineLength - 1 : a = Kept(piece)[n]
    BY <1>1
  <2>2. PICK c \in 0 .. LineLength - 1 : c = Kept(piece)[n + 1]
    BY <1>1
  <2>3. c =< a \/ c = a + 1
    <3>1. n + 1 \in 1 .. m /\ (n + 1) - 1 = n
      OBVIOUS
    <3>2. c = AfterByte(a, piece[n + 1])
      BY <1>1, <2>1, <2>2, <3>1
    <3> QED BY <3>2, AfterByteType
  <2> SUFFICES ASSUME NEW i \in 1 .. c
               PROVE  \E k \in 1 .. n + 1 : Kept(piece)[k - 1] = i - 1 /\ Kept(piece)[k] = i
    BY <2>2
  <2>4. CASE i \in 1 .. a
    <3>1. PICK k \in 1 .. n : Kept(piece)[k - 1] = i - 1 /\ Kept(piece)[k] = i
      BY <2>1, <2>4
    <3> QED BY <3>1
  <2>5. CASE i \notin 1 .. a
    <3>1. i = a + 1 /\ i = c
      BY <2>1, <2>2, <2>3, <2>5, InitAssumption
    <3>2. n + 1 \in 1 .. n + 1 /\ (n + 1) - 1 = n /\ (a + 1) - 1 = a
      BY <2>1
    <3> QED BY <2>1, <2>2, <3>1, <3>2
  <2> QED BY <2>4, <2>5
<1>4. 0 .. m \subseteq T
  <2> HIDE DEF T
  <2> QED BY <1>2, <1>3, UpToN
<1>5. Put(m)
  <2>1. m \in 0 .. m
    OBVIOUS
  <2> QED BY <1>4, <2>1
<1> QED BY <1>5 DEF Puts

(* What a byte does to the characters of the line. *)
LEMMA EditedAppend ==
  ASSUME NEW piece \in Seq(Byte), NEW byte \in Byte, NEW m \in Nat, m = Len(piece),
         NEW k \in 0 .. LineLength - 1, k = Kept(piece)[m],
         NEW k1 \in 0 .. LineLength - 1, k1 = AfterByte(k, byte)
  PROVE  \A j \in 1 .. k1 :
           Edited(Append(piece, byte))[j] = IF j = k + 1 THEN byte ELSE Edited(piece)[j]
<1> DEFINE more == Append(piece, byte)
<1>1. /\ more \in Seq(Byte) /\ Len(more) = m + 1
      /\ \A n \in 1 .. m : more[n] = piece[n]
      /\ more[m + 1] = byte
      /\ \A n \in 0 .. m : Kept(more)[n] = Kept(piece)[n]
      /\ Kept(more)[m + 1] = k1
  BY KeptAppend
<1> HIDE DEF more
<1> SUFFICES ASSUME NEW j \in 1 .. k1
             PROVE  Edited(more)[j] = IF j = k + 1 THEN byte ELSE Edited(piece)[j]
  BY DEF more
<1>2. k1 =< k \/ k1 = k + 1
  BY AfterByteType
<1>3. Edited(more)[j] = more[Max(Puts(more, j))]
  <2>1. j \in 1 .. Kept(more)[Len(more)]
    BY <1>1
  <2> QED BY <2>1, EditedPuts
<1>4. \A n \in 1 .. m : n \in Puts(more, j) <=> n \in Puts(piece, j)
  BY <1>1 DEF Puts
<1>5. m + 1 \in Puts(more, j) <=> j = k + 1
  <2>1. m + 1 \in 1 .. m + 1 /\ (m + 1) - 1 = m /\ m \in 0 .. m
    OBVIOUS
  <2>2. m + 1 \in Puts(more, j) <=> Kept(more)[m] = j - 1 /\ Kept(more)[m + 1] = j
    BY <1>1, <2>1 DEF Puts
  <2>3. m + 1 \in Puts(more, j) <=> k = j - 1 /\ k1 = j
    BY <1>1, <2>1, <2>2
  <2> QED BY <1>2, <2>3
<1>6. Puts(more, j) \subseteq 1 .. m + 1 /\ Puts(piece, j) \subseteq 1 .. m
  BY <1>1 DEF Puts
<1>7. CASE j = k + 1
  <2>1. Max(Puts(more, j)) = m + 1
    <3>1. Puts(more, j) \subseteq 0 .. m + 1 /\ Puts(more, j) # {} /\ m + 1 \in Nat
      BY <1>5, <1>6, <1>7
    <3>2. /\ Max(Puts(more, j)) \in Puts(more, j)
          /\ \A n \in Puts(more, j) : n =< Max(Puts(more, j))
      BY <3>1, MaxUpTo
    <3> QED BY <1>5, <1>6, <1>7, <3>2
  <2> QED BY <1>1, <1>3, <1>7, <2>1
<1>8. CASE j # k + 1
  <2>1. Puts(more, j) = Puts(piece, j)
    <3>1. ASSUME NEW n \in Puts(more, j) PROVE n \in Puts(piece, j)
      <4>1. n \in 1 .. m + 1 /\ n # m + 1
        BY <1>5, <1>6, <1>8
      <4>2. n \in 1 .. m
        BY <4>1
      <4> QED BY <1>4, <4>2
    <3>2. ASSUME NEW n \in Puts(piece, j) PROVE n \in Puts(more, j)
      BY <1>4, <1>6
    <3> QED BY <3>1, <3>2
  <2>2. j \in 1 .. k
    BY <1>2, <1>8
  <2>3. Max(Puts(piece, j)) \in 1 .. m
    <3>1. Puts(piece, j) # {}
      BY <2>2, EachPut
    <3>2. Puts(piece, j) \subseteq 0 .. m
      BY <1>6
    <3>3. Max(Puts(piece, j)) \in Puts(piece, j)
      BY <3>1, <3>2, MaxUpTo
    <3> QED BY <1>6, <3>3
  <2>4. Edited(piece)[j] = piece[Max(Puts(piece, j))]
    BY <2>2, EditedPuts
  <2> QED BY <1>1, <1>3, <1>8, <2>1, <2>3, <2>4
<1> QED BY <1>7, <1>8

-----------------------------------------------------------------------------
(* Lemmas about what was typed as a whole *)

(* The last newline before end, 0 when there is none. *)
Before(bytes, end) == Max({0} \cup {n \in Newlines(bytes) : n < end})

(* It stands before end, and the line that ends at end follows it. *)
LEMMA BeforeIs ==
  ASSUME NEW bytes \in Seq(Byte), NEW m \in Nat, m = Len(bytes), NEW end \in 1 .. m + 1
  PROVE  /\ Before(bytes, end) \in 0 .. end - 1
         /\ Piece(bytes, end) = SubSeq(bytes, Before(bytes, end) + 1, end - 1)
         /\ Piece(bytes, end) \in Seq(Byte)
<1> DEFINE T == {0} \cup {n \in Newlines(bytes) : n < end}
<1>1. DOMAIN bytes = 1 .. m
  BY LenProperties
<1>2. T \subseteq 0 .. end - 1 /\ T # {} /\ end - 1 \in Nat
  BY <1>1 DEF Newlines
<1>3. Max(T) \in 0 .. end - 1
  <2>1. Max(T) \in T
    <3> HIDE DEF T
    <3> QED BY <1>2, MaxUpTo
  <2> HIDE DEF T
  <2> QED BY <1>2, <2>1
<1>4. PICK a \in 0 .. end - 1 : a = Before(bytes, end)
  BY <1>3 DEF Before
<1>5. Piece(bytes, end) = SubSeq(bytes, a + 1, end - 1)
  BY <1>4 DEF Piece, Before
<1>6. SubSeq(bytes, a + 1, end - 1) \in Seq(Byte)
  <2>1. \A i \in a + 1 .. end - 1 : i \in 1 .. m
    OBVIOUS
  <2>2. \A i \in a + 1 .. end - 1 : bytes[i] \in Byte
    BY <2>1, ElementOfSeq
  <2>3. a + 1 \in Int /\ end - 1 \in Int
    OBVIOUS
  <2> QED BY <2>2, <2>3, SubSeqProperties
<1> QED BY <1>4, <1>5, <1>6

(* Before anything is typed the line is empty. *)
LEMMA NothingTyped == Piece(<<>>, 1) = <<>>
<1>1. PICK bytes \in Seq(Byte), m \in Nat : bytes = <<>> /\ m = Len(bytes) /\ m = 0
  <2>1. <<>> \in Seq(Byte) /\ 0 \in Nat /\ 0 = Len(<<>>)
    OBVIOUS
  <2> QED BY <2>1
<1>2. PICK one \in 1 .. m + 1 : one = 1
  BY <1>1
<1>3. /\ Before(bytes, one) \in 0 .. one - 1
      /\ Piece(bytes, one) = SubSeq(bytes, Before(bytes, one) + 1, one - 1)
  BY <1>1, BeforeIs
<1>4. Before(bytes, one) = 0
  BY <1>2, <1>3
<1>5. SubSeq(bytes, 1, 0) = <<>>
  BY SubSeqEmpty
<1> QED BY <1>1, <1>2, <1>3, <1>4, <1>5

(* One more byte leaves the lines before it alone, *)
LEMMA PieceSame ==
  ASSUME NEW bytes \in Seq(Byte), NEW byte \in Byte, NEW m \in Nat, m = Len(bytes),
         NEW end \in 1 .. m + 1
  PROVE  Piece(Append(bytes, byte), end) = Piece(bytes, end)
<1> DEFINE more == Append(bytes, byte)
<1>1. more \in Seq(Byte) /\ Len(more) = m + 1 /\ \A n \in 1 .. m : more[n] = bytes[n]
  BY AppendProperties
<1> HIDE DEF more
<1>2. DOMAIN more = 1 .. m + 1 /\ DOMAIN bytes = 1 .. m
  BY <1>1, LenProperties
<1>3. {n \in Newlines(more) : n < end} = {n \in Newlines(bytes) : n < end}
  BY <1>1, <1>2 DEF Newlines
<1>4. PICK a \in 0 .. end - 1 : a = Before(bytes, end)
  BY BeforeIs
<1>5. a = Before(more, end)
  BY <1>3, <1>4 DEF Before
<1>6. Piece(bytes, end) = SubSeq(bytes, a + 1, end - 1)
  BY <1>4, BeforeIs
<1>7. Piece(more, end) = SubSeq(more, a + 1, end - 1)
  BY <1>5 DEF Piece, Before
<1>8. SubSeq(more, a + 1, end - 1) = SubSeq(bytes, a + 1, end - 1)
  <2>1. a + 1 \in Int /\ end - 1 \in Int
    OBVIOUS
  <2>2. \A i \in a + 1 .. end - 1 : i \in 1 .. m
    OBVIOUS
  <2>3. \A i \in a + 1 .. end - 1 : more[i] = bytes[i] /\ bytes[i] \in Byte /\ more[i] \in Byte
    BY <1>1, <2>2, ElementOfSeq
  <2> DEFINE size == (end - 1) - (a + 1) + 1
  <2>4. /\ SubSeq(more, a + 1, end - 1) \in Seq(Byte)
        /\ Len(SubSeq(more, a + 1, end - 1)) = IF a + 1 =< end - 1 THEN size ELSE 0
        /\ \A i \in 1 .. size : SubSeq(more, a + 1, end - 1)[i] = more[(a + 1) + i - 1]
    BY <2>1, <2>3, SubSeqProperties
  <2>5. /\ SubSeq(bytes, a + 1, end - 1) \in Seq(Byte)
        /\ Len(SubSeq(bytes, a + 1, end - 1)) = IF a + 1 =< end - 1 THEN size ELSE 0
        /\ \A i \in 1 .. size : SubSeq(bytes, a + 1, end - 1)[i] = bytes[(a + 1) + i - 1]
    BY <2>1, <2>3, SubSeqProperties
  <2>6. \A i \in 1 .. size : (a + 1) + i - 1 \in a + 1 .. end - 1
    OBVIOUS
  <2>7. \A i \in 1 .. Len(SubSeq(more, a + 1, end - 1)) :
          SubSeq(more, a + 1, end - 1)[i] = SubSeq(bytes, a + 1, end - 1)[i]
    BY <2>3, <2>4, <2>5, <2>6
  <2> QED BY <2>4, <2>5, <2>7, SeqEqual
<1> QED BY <1>6, <1>7, <1>8 DEF more

(* and is put on the line that is typed, or begins one. *)
LEMMA PieceAppend ==
  ASSUME NEW bytes \in Seq(Byte), NEW byte \in Byte, NEW m \in Nat, m = Len(bytes)
  PROVE  Piece(Append(bytes, byte), m + 2) =
           IF byte = Newline THEN <<>> ELSE Append(Piece(bytes, m + 1), byte)
<1> DEFINE more == Append(bytes, byte)
<1>1. /\ more \in Seq(Byte) /\ Len(more) = m + 1
      /\ \A n \in 1 .. m : more[n] = bytes[n]
      /\ more[m + 1] = byte
  BY AppendProperties
<1>0. Piece(more, m + 1) = Piece(bytes, m + 1)
  <2>1. m + 1 \in 1 .. m + 1
    OBVIOUS
  <2> QED BY <2>1, PieceSame
<1> HIDE DEF more
<1>2. DOMAIN more = 1 .. m + 1
  BY <1>1, LenProperties
<1>3. PICK m1 \in Nat : m1 = m + 1
  OBVIOUS
<1>4. /\ Before(more, m + 2) \in 0 .. m + 1
      /\ Piece(more, m + 2) = SubSeq(more, Before(more, m + 2) + 1, m + 1)
  <2>1. m1 = Len(more) /\ m + 2 \in 1 .. m1 + 1
    BY <1>1, <1>3
  <2>2. /\ Before(more, m + 2) \in 0 .. (m + 2) - 1
        /\ Piece(more, m + 2) = SubSeq(more, Before(more, m + 2) + 1, (m + 2) - 1)
    BY <1>1, <2>1, BeforeIs
  <2>3. (m + 2) - 1 = m + 1
    OBVIOUS
  <2> QED BY <2>2, <2>3
<1>5. CASE byte = Newline
  <2> DEFINE T == {0} \cup {n \in Newlines(more) : n < m + 2}
  <2>1. m + 1 \in T /\ T \subseteq 0 .. m1 /\ T # {}
    BY <1>1, <1>2, <1>3, <1>5 DEF Newlines
  <2>2. Max(T) \in T /\ \A y \in T : y =< Max(T)
    <3> HIDE DEF T
    <3> QED BY <2>1, MaxUpTo
  <2>3. Max(T) = m + 1
    <3> HIDE DEF T
    <3>1. Max(T) \in 0 .. m1 /\ m + 1 =< Max(T)
      BY <2>1, <2>2
    <3> QED BY <1>3, <3>1
  <2>4. Before(more, m + 2) = m + 1
    BY <2>3 DEF Before
  <2>5. SubSeq(more, (m + 1) + 1, m + 1) = <<>>
    <3>1. (m + 1) + 1 \in Int /\ m + 1 \in Int /\ m + 1 < (m + 1) + 1
      OBVIOUS
    <3> QED BY <3>1, SubSeqEmpty
  <2> QED BY <1>4, <1>5, <2>4, <2>5 DEF more
<1>6. CASE byte # Newline
  <2>1. {n \in Newlines(more) : n < m + 2} = {n \in Newlines(more) : n < m + 1}
    BY <1>1, <1>2, <1>6 DEF Newlines
  <2>2. PICK a \in 0 .. m : a = Before(more, m + 1)
    <3>1. m + 1 \in 1 .. m1 + 1 /\ m1 = Len(more) /\ (m + 1) - 1 = m
      BY <1>1, <1>3
    <3>2. Before(more, m + 1) \in 0 .. (m + 1) - 1
      BY <1>1, <3>1, BeforeIs
    <3> QED BY <3>1, <3>2
  <2>3. a = Before(more, m + 2)
    BY <2>1, <2>2 DEF Before
  <2>4. Piece(more, m + 1) = SubSeq(more, a + 1, m)
    <3>1. (m + 1) - 1 = m
      OBVIOUS
    <3> QED BY <2>2, <3>1 DEF Piece, Before
  <2>5. SubSeq(more, a + 1, m + 1) = SubSeq(more, a + 1, m) \o <<byte>>
    <3>1. a + 1 \in 1 .. Len(more) /\ m + 1 \in a + 1 .. Len(more) /\ (m + 1) - 1 = m
      BY <1>1
    <3>2. SubSeq(more, a + 1, m + 1) = SubSeq(more, a + 1, (m + 1) - 1) \o <<more[m + 1]>>
      BY <1>1, <3>1, SubSeqRecursiveSecond
    <3> QED BY <1>1, <3>1, <3>2
  <2>6. Append(Piece(bytes, m + 1), byte) = Piece(bytes, m + 1) \o <<byte>>
    <3>1. m + 1 \in 1 .. m + 1
      OBVIOUS
    <3>2. Piece(bytes, m + 1) \in Seq(Byte)
      BY <3>1, BeforeIs
    <3> QED BY <3>2, AppendIsConcat
  <2> QED BY <1>0, <1>4, <1>6, <2>3, <2>4, <2>5, <2>6 DEF more
<1> QED BY <1>5, <1>6

(* What one more byte adds to what should have been said. *)
Said(bytes, byte) ==
  LET text == Edited(Piece(bytes, Len(bytes) + 1))
  IN  IF byte # Newline THEN Transcript(bytes)
      ELSE IF text = <<>> THEN Append(Transcript(bytes), Prompt)
      ELSE Append(Append(Transcript(bytes), text), Prompt)

(* At first there is only a prompt, *)
LEMMA NothingSaid == Transcript(<<>>) = <<Prompt>>
<1>1. [end \in DOMAIN <<>> |-> Answer(<<>>, end)] = <<>>
  OBVIOUS
<1>2. FlattenSeq(<<>>) = <<>>
  BY DEF FlattenSeq
<1>3. <<Prompt>> \o <<>> = <<Prompt>>
  <2>1. <<Prompt>> \in Seq({Prompt})
    OBVIOUS
  <2> QED BY <2>1, ConcatEmptySeq
<1> QED BY <1>1, <1>2, <1>3 DEF Transcript

(* and each byte adds what it completes. *)
LEMMA TranscriptAppend ==
  ASSUME NEW bytes \in Seq(Byte), NEW byte \in Byte
  PROVE  Transcript(Append(bytes, byte)) = Said(bytes, byte)
<1>0. PICK m \in Nat : m = Len(bytes)
  BY LenProperties
<1> DEFINE more == Append(bytes, byte)
           S == {Prompt} \cup {Edited(Piece(more, end)) : end \in 1 .. m + 1}
           text == Edited(Piece(bytes, m + 1))
           x == Answer(more, m + 1)
           s == [end \in 1 .. m |-> Answer(bytes, end)]
<1>1. /\ more \in Seq(Byte) /\ Len(more) = m + 1
      /\ \A n \in 1 .. m : more[n] = bytes[n]
      /\ more[m + 1] = byte
  BY <1>0, AppendProperties
<1>2. \A end \in 1 .. m + 1 : Piece(more, end) = Piece(bytes, end)
  BY <1>0, PieceSame
<1>3. DOMAIN more = 1 .. m + 1 /\ DOMAIN bytes = 1 .. m
  BY <1>0, <1>1, LenProperties
<1> HIDE DEF more
<1>4. \A end \in 1 .. m + 1 : Answer(more, end) \in Seq(S)
  <2> SUFFICES ASSUME NEW end \in 1 .. m + 1 PROVE Answer(more, end) \in Seq(S)
    OBVIOUS
  <2>1. Prompt \in S /\ Edited(Piece(more, end)) \in S
    OBVIOUS
  <2> HIDE DEF S
  <2> QED BY <2>1 DEF Answer
<1>5. \A end \in 1 .. m : Answer(more, end) = Answer(bytes, end)
  BY <1>1, <1>2 DEF Answer
<1>6. s \in Seq(Seq(S)) /\ Len(s) = m
  BY <1>4, <1>5
<1>7. [end \in 1 .. m + 1 |-> Answer(more, end)] = Append(s, x)
  BY <1>5, <1>6
<1>8. x \in Seq(S)
  BY <1>4
<1>9. x = IF byte # Newline THEN <<>> ELSE IF text = <<>> THEN <<Prompt>> ELSE <<text, Prompt>>
  BY <1>1, <1>2 DEF Answer
<1>10. Prompt \in S /\ text \in S
  BY <1>2
<1> HIDE DEF S, s, x, text
<1>11. FlattenSeq(s) \in Seq(S) /\ FlattenSeq(Append(s, x)) = FlattenSeq(s) \o x
  BY <1>6, <1>8, FlattenAppend
<1>12. Transcript(bytes) = <<Prompt>> \o FlattenSeq(s)
  BY <1>3 DEF Transcript, s
<1>13. Transcript(more) = <<Prompt>> \o (FlattenSeq(s) \o x)
  BY <1>3, <1>7, <1>11 DEF Transcript
<1>14. PICK u \in Seq(S) : u = FlattenSeq(s)
  BY <1>11
<1>15. PICK v \in Seq(S) : v = <<Prompt>> \o u
  <2>1. <<Prompt>> \in Seq(S)
    BY <1>10
  <2> QED BY <2>1, ConcatProperties
<1>16. <<Prompt>> \o (u \o x) = v \o x
  <2>1. <<Prompt>> \in Seq(S)
    BY <1>10
  <2> QED BY <1>8, <1>15, <2>1, ConcatAssociative
<1>17. Transcript(more) = v \o x /\ Transcript(bytes) = v
  BY <1>12, <1>13, <1>14, <1>15, <1>16
<1>18. CASE byte # Newline
  BY <1>0, <1>9, <1>17, <1>18, ConcatEmptySeq DEF Said, more
<1>19. CASE byte = Newline /\ text = <<>>
  <2>1. Append(v, Prompt) = v \o <<Prompt>>
    BY <1>10, AppendIsConcat
  <2> QED BY <1>0, <1>9, <1>17, <1>19, <2>1 DEF Said, more, text
<1>20. CASE byte = Newline /\ text # <<>>
  <2>1. Append(v, text) = v \o <<text>> /\ Append(v, text) \in Seq(S)
    BY <1>10, AppendIsConcat, AppendProperties
  <2>2. Append(Append(v, text), Prompt) = (v \o <<text>>) \o <<Prompt>>
    BY <1>10, <2>1, AppendIsConcat
  <2>3. <<text>> \in Seq(S) /\ <<Prompt>> \in Seq(S)
    BY <1>10
  <2>4. (v \o <<text>>) \o <<Prompt>> = v \o (<<text>> \o <<Prompt>>)
    BY <2>3, ConcatAssociative
  <2>5. <<text>> \o <<Prompt>> = <<text, Prompt>>
    BY Pair
  <2> QED BY <1>0, <1>9, <1>17, <1>20, <2>2, <2>4, <2>5 DEF Said, more, text
<1> QED BY <1>18, <1>19, <1>20

-----------------------------------------------------------------------------
(* PID 1 keeps the invariant *)

(* It holds at first. *)
LEMMA Pid1InitIInv == Pid1Init => Pid1IInv
<1> SUFFICES ASSUME Pid1Init PROVE Pid1IInv
  OBVIOUS
<1> USE DEF Pid1Init
<1>1. Pid1TypeOK
  BY InitAssumption DEF Pid1TypeOK, Descriptors, Standard
<1>2. FilesInv
  BY DEF FilesInv, Descriptors, Standard
<1>3. LineInv
  <2>1. <<>> \in Seq(Byte) /\ Len(typed) = 0 /\ typed \in Seq(Byte)
    OBVIOUS
  <2>2. Current = <<>>
    BY <2>1, NothingTyped DEF Current
  <2>3. Kept(<<>>)[0] = 0
    BY NothingKept
  <2> QED BY <2>2, <2>3 DEF LineInv
<1> QED BY <1>1, <1>2, <1>3 DEF Pid1IInv, EditorInv, RunsTyped

(* The lowest free descriptor. *)
LEMMA LowestFree ==
  ASSUME Pid1TypeOK, files[3] = "closed"
  PROVE  Lowest \in Descriptors
<1> DEFINE T == {d \in Descriptors : files[d] = "closed"}
<1>1. T \subseteq Nat /\ T # {}
  BY DEF Descriptors
<1>2. \E d \in T : \A y \in T : d =< y
  <2> HIDE DEF T
  <2> QED BY <1>1, LeastElement
<1>3. Min(T) \in T
  <2> HIDE DEF T
  <2> QED BY <1>2 DEF Min
<1> QED BY <1>3 DEF Lowest

(* Startup attaches one device, and leaves what is typed alone. *)
LEMMA StartupKeepsFiles ==
  ASSUME Pid1TypeOK, FilesInv, OpenTty \/ OpenTrace \/ Duplicate \/ Exec
  PROVE  Pid1TypeOK' /\ FilesInv' /\ UNCHANGED editor /\ pc # "edit" /\ pc' # "edit"
<1> USE DEF Pid1TypeOK, FilesInv, Devices, startup, editor
<1>1. CASE OpenTty
  <2>1. files[3] = "closed" /\ Lowest \in Descriptors
    BY <1>1, LowestFree DEF OpenTty
  <2> QED BY <1>1, <2>1 DEF OpenTty, Opens, Standard
<1>2. CASE OpenTrace
  <2>1. files[3] = "closed" /\ Lowest \in Descriptors
    BY <1>2, LowestFree DEF OpenTrace
  <2> QED BY <1>2, <2>1 DEF OpenTrace, Opens, Standard
<1>3. CASE Duplicate
  <2> USE <1>3 DEF Duplicate, Descriptors, Standard
  <2>1. UNCHANGED editor /\ pc # "edit" /\ pc' # "edit" /\ descriptor' = descriptor
    OBVIOUS
  <2>2. CASE pc' = "shell" /\ standard' = 0 /\ UNCHANGED files
    BY <2>1, <2>2
  <2>3. CASE /\ files' = [files EXCEPT ![standard] = files[descriptor]]
             /\ standard' = (standard + 1) % 3
             /\ pc' = IF standard + 1 \in Standard THEN "attach" ELSE "exec"
    <3>1. /\ files' \in [Descriptors -> {"console", "closed", "ttySHM0", "shadowtrace"}]
          /\ files'[descriptor'] = files[descriptor]
          /\ \A d \in Standard : d =< standard => files'[d] = files[descriptor]
      BY <2>1, <2>3
    <3>2. CASE standard = 0
      BY <2>1, <2>3, <3>1, <3>2
    <3>3. CASE standard = 1
      BY <2>1, <2>3, <3>1, <3>3
    <3>4. CASE standard = 2
      BY <2>1, <2>3, <3>1, <3>4
    <3> QED BY <3>2, <3>3, <3>4
  <2> QED BY <2>2, <2>3
<1>4. CASE Exec
  BY <1>4 DEF Exec
<1> QED BY <1>1, <1>2, <1>3, <1>4

(* What a byte does to the line that is typed. *)
LEMMA CurrentStep ==
  ASSUME Pid1TypeOK, NEW byte \in Byte, typed' = Append(typed, byte)
  PROVE  /\ Current \in Seq(Byte)
         /\ Current' = IF byte = Newline THEN <<>> ELSE Append(Current, byte)
<1>1. PICK m \in Nat : m = Len(typed)
  BY LenProperties DEF Pid1TypeOK
<1>2. typed \in Seq(Byte) /\ Len(typed') + 1 = m + 2 /\ m + 1 \in 1 .. m + 1
  BY <1>1, AppendProperties DEF Pid1TypeOK
<1>3. Current \in Seq(Byte)
  BY <1>1, <1>2, BeforeIs DEF Current
<1>4. Piece(Append(typed, byte), m + 2) =
        IF byte = Newline THEN <<>> ELSE Append(Piece(typed, m + 1), byte)
  BY <1>1, <1>2, PieceAppend
<1>5. Current' = Piece(typed', Len(typed') + 1)
  BY DEF Current
<1> QED BY <1>1, <1>2, <1>3, <1>4, <1>5 DEF Current

(* A byte that is put on the line, taken from it or left out. *)
LEMMA LineStep ==
  ASSUME Pid1TypeOK, LineInv, NEW byte \in Byte, byte # Newline,
         typed' = Append(typed, byte), length' = AfterByte(length, byte),
         length' = length + 1 => byte \in Printable /\ line'[length] = byte,
         \A j \in 1 .. length : line'[j - 1] = line[j - 1]
  PROVE  LineInv'
<1>1. PICK m \in Nat : m = Len(Current)
  BY CurrentStep, LenProperties
<1>2. /\ Current \in Seq(Byte) /\ Current' = Append(Current, byte)
      /\ Len(Current') = m + 1
  BY <1>1, CurrentStep, AppendProperties
<1>3. length \in 0 .. LineLength - 1 /\ length = Kept(Current)[m]
  BY <1>1 DEF Pid1TypeOK, LineInv
<1>4. length' \in 0 .. LineLength - 1 /\ (length' =< length \/ length' = length + 1)
  BY <1>3, AfterByteType
<1>5. Kept(Current')[m + 1] = length'
  BY <1>1, <1>2, <1>3, KeptAppend
<1>6. \A j \in 1 .. length' :
        Edited(Current')[j] = IF j = length + 1 THEN byte ELSE Edited(Current)[j]
  BY <1>1, <1>2, <1>3, <1>4, EditedAppend
<1>7. \A j \in 1 .. length : line[j - 1] \in Printable /\ line[j - 1] = Edited(Current)[j]
  BY DEF LineInv
<1>8. ASSUME NEW j \in 1 .. length'
      PROVE  line'[j - 1] \in Printable /\ line'[j - 1] = Edited(Current')[j]
  <2>1. CASE j = length + 1
    <3>1. length' = length + 1 /\ j - 1 = length
      BY <1>3, <1>4, <2>1
    <3> QED BY <1>6, <2>1, <3>1
  <2>2. CASE j # length + 1
    <3>1. j \in 1 .. length
      BY <1>3, <1>4, <2>2
    <3> QED BY <1>6, <1>7, <2>2, <3>1
  <2> QED BY <2>1, <2>2
<1>9. /\ length' = Kept(Current')[Len(Current')]
      /\ \A j \in 1 .. length' : line'[j - 1] \in Printable /\ line'[j - 1] = Edited(Current')[j]
  BY <1>2, <1>5, <1>8
<1> QED BY <1>9 DEF LineInv

(* What the array says when the line is terminated. *)
LEMMA TextIsLine ==
  ASSUME Pid1TypeOK, LineInv
  PROVE  /\ Terminated(line, length) \in [0 .. LineLength - 1 -> Printable \cup {Nul, Junk}]
         /\ Text(Terminated(line, length)) = Edited(Current)
         /\ Edited(Current) = <<>> <=> length = 0
<1> DEFINE array == Terminated(line, length)
           nuls == {i \in DOMAIN array : array[i] = Nul}
<1>0. length \in 0 .. LineLength - 1 /\ LineLength \in Nat
  BY InitAssumption DEF Pid1TypeOK
<1>1. /\ array \in [0 .. LineLength - 1 -> Printable \cup {Nul, Junk}]
      /\ array[length] = Nul
      /\ \A i \in 0 .. LineLength - 1 : i # length => array[i] = line[i]
  BY <1>0 DEF Terminated, Pid1TypeOK
<1>2. \A j \in 1 .. length : line[j - 1] \in Printable /\ line[j - 1] = Edited(Current)[j]
  BY DEF LineInv
<1> HIDE DEF array
<1>3. \A j \in 1 .. length : array[j - 1] = line[j - 1] /\ array[j - 1] # Nul
  <2> SUFFICES ASSUME NEW j \in 1 .. length PROVE array[j - 1] = line[j - 1] /\ array[j - 1] # Nul
    OBVIOUS
  <2>1. j - 1 \in 0 .. LineLength - 1 /\ j - 1 # length
    BY <1>0
  <2>2. array[j - 1] = line[j - 1]
    BY <1>1, <2>1
  <2> QED BY <1>2, <2>2, InitAssumption
<1>4. length \in nuls /\ \A i \in nuls : length =< i
  <2>1. length \in nuls
    BY <1>0, <1>1
  <2>2. ASSUME NEW i \in nuls PROVE length =< i
    <3>1. i \in 0 .. LineLength - 1 /\ array[i] = Nul
      BY <1>1
    <3>2. i + 1 \notin 1 .. length
      <4>1. (i + 1) - 1 = i
        BY <3>1
      <4> QED BY <1>3, <3>1, <4>1
    <3> QED BY <1>0, <3>1, <3>2
  <2> QED BY <2>1, <2>2
<1>5. Min(nuls) = length
  <2>1. nuls \subseteq Int
    BY <1>1
  <2> HIDE DEF nuls
  <2>2. Min(nuls) \in nuls /\ \A i \in nuls : Min(nuls) =< i
    BY <1>4 DEF Min
  <2>3. Min(nuls) \in Int /\ length \in Int /\ Min(nuls) =< length /\ length =< Min(nuls)
    BY <1>0, <1>4, <2>1, <2>2
  <2> QED BY <2>3
<1>6. Text(array) = [i \in 1 .. length |-> array[i - 1]]
  <2>1. Text(array) = [i \in 1 .. (IF nuls = {} THEN LineLength ELSE Min(nuls)) |-> array[i - 1]]
    BY DEF Text
  <2>2. nuls # {}
    BY <1>4
  <2> HIDE DEF nuls
  <2> QED BY <1>5, <2>1, <2>2
<1>7. Edited(Current) = [j \in 1 .. length |-> Edited(Current)[j]]
  <2>1. Edited(Current) =
          [j \in 1 .. Kept(Current)[Len(Current)] |-> Current[Max(Puts(Current, j))]]
    BY EditedPuts
  <2>2. Kept(Current)[Len(Current)] = length
    BY DEF LineInv
  <2> QED BY <2>1, <2>2
<1>8. Text(array) = Edited(Current)
  BY <1>2, <1>3, <1>6, <1>7
<1>9. Edited(Current) \in Seq(Printable) /\ Len(Edited(Current)) = length
  BY <1>0, <1>2, <1>7
<1>10. Edited(Current) = <<>> <=> length = 0
  BY <1>9, EmptySeq
<1> QED BY <1>1, <1>8, <1>10 DEF array

(* The recovery shell's steps. *)
LEMMA EditorKeeps ==
  ASSUME Pid1IInv, Read \/ EndLine \/ EraseLast \/ Insert \/ Drop
  PROVE  Pid1TypeOK' /\ EditorInv' /\ UNCHANGED startup /\ pc = "edit" /\ pc' = "edit"
<1> USE DEF Pid1IInv
<1>1. CASE Read
  <2>1. PICK n \in 1 .. InputLength : buffer' \in [1 .. n -> Byte]
    BY <1>1 DEF Read
  <2>2. buffer' \in Seq(Byte) /\ Len(buffer') =< InputLength
    BY <2>1, InitAssumption
  <2>3. /\ UNCHANGED <<pc, startup, line, length, typed, out>> /\ pc = "edit"
        /\ UNCHANGED <<pc, files, descriptor, standard>>
    BY <1>1 DEF Read, startup
  <2>4. Pid1TypeOK'
    BY <2>2, <2>3 DEF Pid1TypeOK
  <2>5. EditorInv'
    BY <2>3 DEF EditorInv, LineInv, RunsTyped, Current
  <2> QED BY <2>3, <2>4, <2>5
<1>2. CASE EndLine \/ EraseLast \/ Insert \/ Drop
  <2>1. Take /\ UNCHANGED <<pc, files, descriptor, standard>>
    BY <1>2 DEF EndLine, EraseLast, Insert, Drop, startup
  <2>2. PICK byte : byte = Head(buffer)
    OBVIOUS
  <2>3. /\ byte \in Byte /\ buffer' \in Seq(Byte) /\ Len(buffer') =< InputLength
        /\ typed' = Append(typed, byte) /\ typed' \in Seq(Byte)
        /\ pc = "edit" /\ pc' = "edit" /\ UNCHANGED startup
    <3>1. buffer \in Seq(Byte) /\ buffer # <<>> /\ Len(buffer) =< InputLength
      BY <2>1 DEF Take, Pid1TypeOK
    <3>2. byte \in Byte /\ Tail(buffer) \in Seq(Byte) /\ Len(Tail(buffer)) = Len(buffer) - 1
      BY <2>2, <3>1, HeadTailProperties
    <3>3. Append(typed, byte) \in Seq(Byte)
      BY <3>2, AppendProperties DEF Pid1TypeOK
    <3>4. Len(buffer) \in Nat /\ InputLength \in Nat
      BY <3>1, LenProperties, InitAssumption
    <3> QED BY <2>1, <2>2, <3>1, <3>2, <3>3, <3>4 DEF Take, startup
  <2>4. Transcript(typed') = Said(typed, byte) /\ out = Transcript(typed)
    BY <2>3, TranscriptAppend DEF Pid1TypeOK, EditorInv, RunsTyped
  <2>5. /\ line \in [0 .. LineLength - 1 -> Printable \cup {Nul, Junk}]
        /\ length \in 0 .. LineLength - 1 /\ LineLength \in Nat \ {0}
    BY InitAssumption DEF Pid1TypeOK
  <2>6. /\ byte \in Printable => byte # Newline /\ byte # Erase /\ byte \notin Ignored
        /\ byte \in Ignored => byte # Newline /\ byte # Erase
        /\ Newline # Erase
    BY InitAssumption DEF Newline, Erase
  <2>7. ASSUME byte # Newline, length' = AfterByte(length, byte), out' = out,
               line' \in [0 .. LineLength - 1 -> Printable \cup {Nul, Junk}],
               length' = length + 1 => byte \in Printable /\ line'[length] = byte,
               \A j \in 1 .. length : line'[j - 1] = line[j - 1]
        PROVE  Pid1TypeOK' /\ EditorInv'
    <3>1. LineInv'
      BY <2>3, <2>7, LineStep DEF EditorInv
    <3>2. length' \in 0 .. LineLength - 1
      BY <2>5, <2>7, AfterByteType
    <3>3. Pid1TypeOK'
      BY <2>1, <2>3, <2>7, <3>2 DEF Pid1TypeOK
    <3>4. RunsTyped'
      BY <2>4, <2>7 DEF RunsTyped, Said
    <3> QED BY <2>3, <3>1, <3>3, <3>4 DEF EditorInv
  <2>8. CASE EndLine
    <3>1. /\ byte = Newline /\ line' = Terminated(line, length) /\ length' = 0
          /\ out' = Append(IF length > 0 THEN RunCommand(Text(line')) ELSE out, Prompt)
      BY <2>2, <2>8 DEF EndLine
    <3>2. /\ line' \in [0 .. LineLength - 1 -> Printable \cup {Nul, Junk}]
          /\ Text(line') = Edited(Current)
          /\ Edited(Current) = <<>> <=> length = 0
      BY <3>1, TextIsLine DEF EditorInv
    <3>3. out' = Said(typed, byte)
      <4>1. CASE length = 0
        BY <2>4, <3>1, <3>2, <4>1 DEF Said, Current
      <4>2. CASE length > 0
        BY <2>4, <3>1, <3>2, <4>2 DEF Said, Current, RunCommand
      <4> QED BY <2>5, <4>1, <4>2
    <3>4. LineInv'
      <4>1. Current' = <<>>
        BY <2>3, <3>1, CurrentStep
      <4>2. Kept(<<>>)[0] = 0
        BY NothingKept
      <4> QED BY <3>1, <4>1, <4>2 DEF LineInv
    <3>5. Pid1TypeOK'
      BY <2>1, <2>3, <2>5, <3>1, <3>2 DEF Pid1TypeOK
    <3> QED BY <2>3, <2>4, <3>3, <3>4, <3>5 DEF EditorInv, RunsTyped
  <2>9. CASE EraseLast
    <3>1. byte = Erase /\ line' = line /\ out' = out
      BY <2>2, <2>9 DEF EraseLast
    <3>2. length' = AfterByte(length, byte) /\ length' # length + 1
      BY <2>5, <2>9, <3>1 DEF EraseLast, AfterByte
    <3> QED BY <2>3, <2>5, <2>6, <2>7, <3>1, <3>2
  <2>10. CASE Insert
    <3>1. /\ byte \in Printable /\ length < LineLength - 1 /\ out' = out
          /\ line' = [line EXCEPT ![length] = byte] /\ length' = length + 1
      BY <2>2, <2>10 DEF Insert
    <3>2. length' = AfterByte(length, byte)
      BY <2>6, <3>1 DEF AfterByte
    <3>3. /\ line' \in [0 .. LineLength - 1 -> Printable \cup {Nul, Junk}]
          /\ line'[length] = byte
          /\ \A j \in 1 .. length : line'[j - 1] = line[j - 1]
      BY <2>5, <3>1
    <3> QED BY <2>3, <2>6, <2>7, <3>1, <3>2, <3>3
  <2>11. CASE Drop
    <3>1. /\ byte \in Ignored \/ (byte \in Printable /\ length >= LineLength - 1)
          /\ line' = line /\ length' = length /\ out' = out
      BY <2>2, <2>11 DEF Drop
    <3>2. length' = AfterByte(length, byte) /\ length' # length + 1
      BY <2>5, <2>6, <3>1, InitAssumption DEF AfterByte
    <3> QED BY <2>3, <2>5, <2>6, <2>7, <3>1, <3>2
  <2> QED BY <1>2, <2>3, <2>8, <2>9, <2>10, <2>11
<1> QED BY <1>1, <1>2

(* Every step keeps it. *)
LEMMA Pid1StepKeeps == Pid1IInv /\ [Pid1Next]_pid1Vars => Pid1IInv'
<1> SUFFICES ASSUME Pid1IInv, [Pid1Next]_pid1Vars PROVE Pid1IInv'
  OBVIOUS
<1>1. CASE OpenTty \/ OpenTrace \/ Duplicate \/ Exec
  <2>1. Pid1TypeOK' /\ FilesInv' /\ UNCHANGED editor /\ pc # "edit" /\ pc' # "edit"
    BY <1>1, StartupKeepsFiles DEF Pid1IInv
  <2>2. EditorInv'
    BY <2>1 DEF Pid1IInv, EditorInv, LineInv, RunsTyped, Current, editor
  <2> QED BY <2>1, <2>2 DEF Pid1IInv
<1>2. CASE StartShell
  <2>1. /\ pc = "shell" /\ pc' = "edit" /\ out' = Append(out, Prompt)
        /\ UNCHANGED <<files, descriptor, standard, buffer, line, length, typed>>
    BY <1>2 DEF StartShell, startup
  <2>2. typed = <<>> /\ out = <<>>
    BY <2>1 DEF Pid1IInv, EditorInv
  <2>3. Transcript(<<>>) = <<Prompt>>
    BY NothingSaid
  <2>4. Append(<<>>, Prompt) = <<Prompt>>
    OBVIOUS
  <2>5. RunsTyped'
    BY <2>1, <2>2, <2>3, <2>4 DEF RunsTyped
  <2> QED BY <2>1, <2>5 DEF Pid1IInv, Pid1TypeOK, FilesInv, EditorInv, LineInv, Current
<1>3. CASE Read \/ EndLine \/ EraseLast \/ Insert \/ Drop
  <2>1. Pid1TypeOK' /\ EditorInv' /\ UNCHANGED startup /\ pc = "edit" /\ pc' = "edit"
    BY <1>3, EditorKeeps
  <2> QED BY <2>1 DEF Pid1IInv, FilesInv, startup
<1>4. CASE Wait \/ UNCHANGED pid1Vars
  BY <1>4 DEF Wait, pid1Vars, startup, editor, Pid1IInv, Pid1TypeOK, FilesInv, EditorInv,
              LineInv, RunsTyped, Current
<1> QED BY <1>1, <1>2, <1>3, <1>4 DEF Pid1Next

(* The invariant holds in every state of PID 1. *)
THEOREM SpecPid1IInv == Pid1Spec => []Pid1IInv
<1> QED BY Pid1InitIInv, Pid1StepKeeps, PTL DEF Pid1Spec

(* PID 1's recovery shell runs each line as it was typed, however read()    *)
(* cuts it, and answers it with one prompt; BusyBox and the recovery shell  *)
(* have the device they talk to.                                            *)
THEOREM SpecPid1Inv == Pid1Spec => []Pid1Inv
<1>1. Pid1IInv => Pid1Inv
  BY DEF Pid1IInv, Pid1Inv, FilesInv, EditorInv, OnDevice, Devices
<1> QED BY <1>1, SpecPid1IInv, PTL
=============================================================================
