---------------------------- MODULE RuntimeProofs ----------------------------
(***************************************************************************)
(* Proofs about the resident runtime as Linux uses it.  The input mailbox, *)
(* for every ring size, packet and chunk limit: no accepted byte is        *)
(* overwritten or skipped, Linux reads no stale byte, and the ring         *)
(* implements InputFifo.  The bridge, for any set of user tasks and kernel *)
(* workers: the page table the firmware runs on, non-reentrance, the       *)
(* masked window, and the restoration of page table and interrupts.        *)
(***************************************************************************)
EXTENDS InputMailbox, DiagBridge, SequenceTheorems, TLAPS

-----------------------------------------------------------------------------
(* Arithmetic of the ring. *)

(* Succ stays in the ring. *)
LEMMA SuccIndex == ASSUME NEW i \in Index PROVE Succ(i) \in Index
  BY MailboxAssumption DEF Index, Succ

(* The number of unread bytes is at most RingSize - 1. *)
LEMMA UsedBound ==
  ASSUME NEW t \in Index, NEW h \in Index
  PROVE  /\ Used(t, h) \in 0 .. RingSize - 1
         /\ Used(t, h) = 0 <=> t = h
  BY MailboxAssumption DEF Index, Used

(* The i-th unread slot is a slot. *)
LEMMA SlotIndex ==
  ASSUME NEW t \in Index, NEW i \in 1 .. RingSize
  PROVE  Slot(t, i) \in Index
  BY MailboxAssumption DEF Index, Slot

(* A slot is unread iff it lies between tail and head, cyclically. *)
Between(t, h, s) == IF h >= t THEN t =< s /\ s < h ELSE t =< s \/ s < h

(* The unread slots are those between tail and head. *)
LEMMA UnreadBetween ==
  ASSUME NEW t \in Index, NEW h \in Index, NEW s
  PROVE  s \in {Slot(t, i) : i \in 1 .. Used(t, h)}
           <=> s \in Index /\ Between(t, h, s)
<1>1. ASSUME NEW i \in 1 .. Used(t, h), s = Slot(t, i)
      PROVE  s \in Index /\ Between(t, h, s)
  BY <1>1, MailboxAssumption DEF Index, Used, Slot, Between
<1>2. ASSUME s \in Index, Between(t, h, s)
      PROVE  \E i \in 1 .. Used(t, h) : s = Slot(t, i)
  <2> DEFINE k == IF s >= t THEN s - t + 1 ELSE s - t + RingSize + 1
  <2>1. k \in 1 .. Used(t, h) /\ s = Slot(t, k)
    BY <1>2, MailboxAssumption DEF Index, Used, Slot, Between
  <2> QED BY <2>1
<1> QED BY <1>1, <1>2

(* Storing at the head extends the contents by one byte at the back. *)
LEMMA ContentsAppend ==
  ASSUME NEW t \in Index, NEW h \in Index, NEW d \in [Index -> Byte],
         NEW b \in Byte, NEW e \in [Index -> Byte], Succ(h) # t,
         e[h] = b, \A i \in Index : i # h => e[i] = d[i]
  PROVE  Contents(t, Succ(h), e) = Append(Contents(t, h, d), b)
<1>1. Used(t, Succ(h)) = Used(t, h) + 1 /\ Used(t, h) \in 0 .. RingSize - 2
  BY MailboxAssumption DEF Index, Used, Succ
<1>2. \A i \in 1 .. Used(t, h) : Slot(t, i) \in Index /\ Slot(t, i) # h
  BY MailboxAssumption DEF Index, Used, Slot
<1>3. Slot(t, Used(t, h) + 1) = h
  BY MailboxAssumption DEF Index, Used, Slot
<1>4. Contents(t, h, d) \in Seq(Byte) /\ Len(Contents(t, h, d)) = Used(t, h)
  BY <1>1, <1>2 DEF Contents
<1>5. /\ Contents(t, Succ(h), e) \in Seq(Byte)
      /\ Len(Contents(t, Succ(h), e)) = Used(t, h) + 1
  <2>1. \A i \in 1 .. Used(t, h) + 1 : Slot(t, i) \in Index
    BY <1>1, <1>2, <1>3
  <2> QED BY <1>1, <2>1 DEF Contents
<1>6. /\ Append(Contents(t, h, d), b) \in Seq(Byte)
      /\ Len(Append(Contents(t, h, d), b)) = Used(t, h) + 1
      /\ \A i \in 1 .. Used(t, h) :
           Append(Contents(t, h, d), b)[i] = Contents(t, h, d)[i]
      /\ Append(Contents(t, h, d), b)[Used(t, h) + 1] = b
  <2> DEFINE c == Contents(t, h, d)
  <2>1. c \in Seq(Byte) /\ Len(c) = Used(t, h)
    BY <1>4
  <2> HIDE DEF c
  <2>2. /\ Append(c, b) \in Seq(Byte)
        /\ Len(Append(c, b)) = Used(t, h) + 1
        /\ \A i \in 1 .. Used(t, h) : Append(c, b)[i] = c[i]
        /\ Append(c, b)[Used(t, h) + 1] = b
    BY <2>1, AppendProperties
  <2> QED BY <2>2 DEF c
<1>7. \A i \in 1 .. Used(t, h) + 1 :
        Contents(t, Succ(h), e)[i] = Append(Contents(t, h, d), b)[i]
  <2>1. \A i \in 1 .. Used(t, h) :
          Contents(t, Succ(h), e)[i] = Contents(t, h, d)[i]
    BY <1>1, <1>2 DEF Contents
  <2>2. Contents(t, Succ(h), e)[Used(t, h) + 1] = b
    BY <1>1, <1>3 DEF Contents
  <2>3. \A i \in 1 .. Used(t, h) + 1 :
          i \in 1 .. Used(t, h) \/ i = Used(t, h) + 1
    BY <1>1
  <2> QED BY <1>6, <2>1, <2>2, <2>3
<1> QED BY <1>5, <1>6, <1>7, SeqEqual

(* Advancing the tail removes the front byte. *)
LEMMA ContentsTail ==
  ASSUME NEW t \in Index, NEW h \in Index, NEW d \in [Index -> Byte], t # h
  PROVE  /\ Contents(t, h, d) # <<>>
         /\ Head(Contents(t, h, d)) = d[t]
         /\ Contents(Succ(t), h, d) = Tail(Contents(t, h, d))
<1>1. Used(Succ(t), h) = Used(t, h) - 1 /\ Used(t, h) \in 1 .. RingSize - 1
  BY MailboxAssumption DEF Index, Used, Succ
<1>2. \A i \in 1 .. Used(t, h) : Slot(t, i) \in Index
  BY <1>1, MailboxAssumption DEF Index, Slot
<1>3. \A i \in 1 .. Used(t, h) - 1 : Slot(Succ(t), i) = Slot(t, i + 1)
  BY <1>1, MailboxAssumption DEF Index, Slot, Succ
<1>4. Slot(t, 1) = t
  BY MailboxAssumption DEF Index, Slot
<1>5. Contents(t, h, d) \in Seq(Byte) /\ Len(Contents(t, h, d)) = Used(t, h)
  BY <1>1, <1>2 DEF Contents
<1>6. Contents(t, h, d) # <<>>
  BY <1>1, <1>5
<1>7. Head(Contents(t, h, d)) = d[t]
  BY <1>1, <1>4, <1>5, <1>6 DEF Contents
<1>8. /\ Contents(Succ(t), h, d) \in Seq(Byte)
      /\ Len(Contents(Succ(t), h, d)) = Used(t, h) - 1
  BY <1>1, <1>2, <1>3 DEF Contents
<1>9. \A i \in 1 .. Used(t, h) - 1 :
        Contents(Succ(t), h, d)[i] = Contents(t, h, d)[i + 1]
  BY <1>1, <1>3 DEF Contents
<1>10. Contents(Succ(t), h, d) = Tail(Contents(t, h, d))
  BY <1>1, <1>5, <1>6, <1>8, <1>9, HeadTailProperties, SeqEqual
<1> QED BY <1>6, <1>7, <1>10

-----------------------------------------------------------------------------
(* A packet is a sequence of at most PacketLimit bytes once it is capped,   *)
(* and capping keeps the source of its bytes.                               *)
LEMMA CappedPacket ==
  ASSUME NEW f \in Packets
  PROVE  /\ f \in Seq(Source)
         /\ Capped(f) \in Seq(Source)
         /\ Len(Capped(f)) =< PacketLimit
         /\ f = <<>> => Capped(f) = <<>>
<1>1. PICK n \in 0 .. PacketLimit + 1 : f \in [1 .. n -> Source]
  BY DEF Packets
<1>2. f \in Seq(Source) /\ Len(f) = n
  BY <1>1, MailboxAssumption
<1>3. CASE Len(f) > PacketLimit
  <2>1. SubSeq(f, 1, PacketLimit) \in Seq(Source)
    BY <1>2, <1>3, MailboxAssumption
  <2>2. Len(SubSeq(f, 1, PacketLimit)) = PacketLimit
    BY <1>2, <1>3, MailboxAssumption
  <2> QED BY <1>2, <1>3, <2>1, <2>2, MailboxAssumption DEF Capped
<1>4. CASE Len(f) =< PacketLimit
  BY <1>2, <1>4, MailboxAssumption DEF Capped
<1> QED BY <1>2, <1>3, <1>4, MailboxAssumption

(* Either source is part of Byte. *)
LEMMA SourceByte == Source \subseteq Byte /\ (linux => Source = NewByte)
  BY DEF Source, Byte

(* A packet is a sequence of bytes, of new ones once Linux runs. *)
LEMMA CappedBytes ==
  ASSUME NEW f \in Packets
  PROVE  /\ Capped(f) \in Seq(Byte)
         /\ linux => \A i \in 1 .. Len(Capped(f)) : Capped(f)[i] \in NewByte
<1>1. Capped(f) \in Seq(Source)
  BY CappedPacket
<1> DEFINE g == Capped(f)
<1>2. g \in Seq(Source)
  BY <1>1
<1> HIDE DEF g
<1>3. g \in Seq(Byte) /\ \A i \in 1 .. Len(g) : g[i] \in Source
  BY <1>2, SourceByte, SeqMonotonic
<1> QED BY <1>3, SourceByte DEF g

(* The unread slots, in terms of the two ends. *)
LEMMA UnreadSlotsBetween ==
  ASSUME TypeOK, NEW s
  PROVE  s \in UnreadSlots <=> s \in Index /\ Between(Front, Back, s)
<1>1. Front \in Index /\ Back \in Index
  BY DEF TypeOK, Front, Back
<1> QED BY <1>1, UnreadBetween DEF UnreadSlots

(* The initial states satisfy the inductive invariant. *)
LEMMA InitMailboxInv == Init => MailboxInv
<1> SUFFICES ASSUME Init PROVE MailboxInv
  OBVIOUS
<1>1. TypeOK
  BY MailboxAssumption DEF Init, TypeOK, Byte, Index
<1> QED
  BY <1>1 DEF Init, MailboxInv, ControlInv, FreshInv, NoStaleInput

(* Every step preserves the types: the ring indices stay in the ring, the   *)
(* packet and the chunk within their limits.                                *)
LEMMA TypeStep == ASSUME MailboxInv, [Next]_vars PROVE TypeOK'
<1> USE MailboxAssumption
<1>0. TypeOK /\ ControlInv
  BY DEF MailboxInv
<1>1. ASSUME NEW f \in Packets, MailboxInput(f) PROVE TypeOK'
  <2>1. Capped(f) \in Seq(Byte) /\ Len(Capped(f)) =< PacketLimit
    BY CappedPacket, CappedBytes
  <2> QED BY <1>0, <1>1, <2>1 DEF TypeOK, MailboxInput, Index
<1>2. CASE StoreByte
  <2>1. Head(frame) \in Byte /\ Tail(frame) \in Seq(Byte)
        /\ Len(Tail(frame)) = Len(frame) - 1
    BY <1>0, <1>2, HeadTailProperties DEF TypeOK, StoreByte
  <2>2. Len(frame) \in Nat
    BY <1>0 DEF TypeOK
  <2> QED BY <1>0, <1>2, <2>1, <2>2, SuccIndex DEF TypeOK, StoreByte
<1>3. CASE Commit
  BY <1>0, <1>3 DEF TypeOK, Commit
<1>4. ASSUME NEW n \in 1 .. ChunkLimit, Receive(n) PROVE TypeOK'
  BY <1>0, <1>4 DEF TypeOK, Receive, mailbox
<1>5. CASE DispatchOther
  BY <1>0, <1>5 DEF TypeOK, DispatchOther, mailbox
<1>6. CASE CheckMagic
  BY <1>0, <1>6 DEF TypeOK, CheckMagic, mailbox
<1>7. CASE DrainByte
  <2>1. data[ltail] \in Byte /\ Succ(ltail) \in Index
    BY <1>0, SuccIndex DEF TypeOK
  <2>2. chunk \in Seq(Byte) /\ Len(chunk) \in Nat
    BY <1>0 DEF TypeOK
  <2>3. Append(chunk, data[ltail]) \in Seq(Byte)
        /\ Len(Append(chunk, data[ltail])) = Len(chunk) + 1
    BY <2>1, <2>2
  <2> QED BY <1>0, <1>7, <2>1, <2>2, <2>3 DEF TypeOK, DrainByte, mailbox
<1>8. CASE FinishReceive
  BY <1>0, <1>8 DEF TypeOK, FinishReceive
<1>9. CASE InputReset
  BY <1>0, <1>9 DEF TypeOK, InputReset, Index
<1>10. CASE UNCHANGED vars
  BY <1>0, <1>10 DEF TypeOK, vars
<1> QED BY <1>1, <1>2, <1>3, <1>4, <1>5, <1>6, <1>7, <1>8, <1>9, <1>10 DEF Next

(* Every step preserves the control part of the invariant. *)
LEMMA ControlStep == ASSUME MailboxInv, [Next]_vars PROVE ControlInv'
<1>0. TypeOK /\ ControlInv
  BY DEF MailboxInv
<1> USE DEF ControlInv
<1>1. ASSUME NEW f \in Packets, MailboxInput(f) PROVE ControlInv'
  <2>1. f = <<>> => Capped(f) = <<>>
    BY CappedPacket
  <2> QED BY <1>0, <1>1, <2>1 DEF TypeOK, MailboxInput
<1>2. CASE StoreByte
  BY <1>0, <1>2 DEF TypeOK, StoreByte
<1>3. CASE Commit
  BY <1>0, <1>3 DEF TypeOK, Commit
<1>4. ASSUME NEW n \in 1 .. ChunkLimit, Receive(n) PROVE ControlInv'
  BY <1>0, <1>4 DEF TypeOK, Receive, mailbox
<1>5. CASE DispatchOther
  BY <1>0, <1>5 DEF TypeOK, DispatchOther, mailbox
<1>6. CASE CheckMagic
  BY <1>0, <1>6 DEF TypeOK, CheckMagic, mailbox
<1>7. CASE DrainByte
  <2>1. chunk' # <<>>
    BY <1>0, <1>7, AppendProperties DEF TypeOK, DrainByte
  <2> QED BY <1>0, <1>7, <2>1 DEF TypeOK, DrainByte, mailbox
<1>8. CASE FinishReceive
  BY <1>0, <1>8 DEF TypeOK, FinishReceive
<1>9. CASE InputReset
  BY <1>0, <1>9 DEF TypeOK, InputReset
<1>10. CASE UNCHANGED vars
  BY <1>0, <1>10 DEF vars
<1> QED BY <1>1, <1>2, <1>3, <1>4, <1>5, <1>6, <1>7, <1>8, <1>9, <1>10 DEF Next

(* No step disturbs an unread byte, except the receiver taking the oldest.  *)
LEMMA UnreadStepHolds ==
  ASSUME MailboxInv, Next PROVE InputReset \/ UnreadStep
<1> USE MailboxAssumption
<1>0. TypeOK /\ ControlInv /\ TypeOK'
  BY TypeStep DEF MailboxInv
<1> SUFFICES ASSUME ~InputReset, magic, NEW s \in UnreadSlots
             PROVE  /\ data'[s] = data[s]
                    /\ s \in UnreadSlots' \/ (pc = "drain" /\ s = ltail)
  BY DEF UnreadStep
<1>a. s \in Index /\ Between(Front, Back, s)
  BY <1>0, UnreadSlotsBetween
<1>b. Front \in Index /\ Back \in Index /\ Front' \in Index /\ Back' \in Index
  BY <1>0 DEF TypeOK, Front, Back
<1>c. Between(Front', Back', s) => s \in UnreadSlots'
  BY <1>a, <1>b, UnreadBetween DEF UnreadSlots
<1>d. ASSUME data' = data, Front' = Front, Back' = Back
      PROVE  data'[s] = data[s] /\ s \in UnreadSlots'
  BY <1>a, <1>c, <1>d
<1>1. ASSUME NEW f \in Packets, MailboxInput(f) PROVE data' = data /\ Front' = Front /\ Back' = Back
  BY <1>0, <1>1 DEF MailboxInput, Front, Back, ControlInv
<1>2. CASE StoreByte
  <2>1. Front' = Front /\ Back = lhead /\ Back' = Succ(lhead) /\ Front # Back'
    BY <1>2 DEF StoreByte, Front, Back
  <2>2. s # lhead
    BY <1>a, <1>b, <2>1 DEF Index, Between
  <2>3. data'[s] = data[s]
    BY <1>0, <1>2, <1>a, <2>2 DEF StoreByte, TypeOK
  <2>4. Between(Front', Back', s)
    BY <1>a, <1>b, <2>1 DEF Index, Between, Succ
  <2> QED BY <1>c, <2>3, <2>4
<1>3. CASE Commit
  BY <1>3, <1>d DEF Commit, Front, Back
<1>4. ASSUME NEW n \in 1 .. ChunkLimit, Receive(n) PROVE data' = data /\ Front' = Front
      /\ Back' = Back
  BY <1>4 DEF Receive, mailbox, Front, Back
<1>5. CASE DispatchOther
  BY <1>5, <1>d DEF DispatchOther, mailbox, Front, Back
<1>6. CASE CheckMagic
  BY <1>6, <1>d DEF CheckMagic, mailbox, Front, Back
<1>7. CASE DrainByte
  <2>1. /\ data' = data /\ Front = ltail /\ Front' = Succ(ltail)
        /\ Back' = Back /\ pc = "drain"
    BY <1>7 DEF DrainByte, mailbox, Front, Back
  <2>2. s # ltail => Between(Front', Back', s)
    BY <1>a, <1>b, <2>1 DEF Index, Between, Succ
  <2> QED BY <1>a, <1>c, <2>1, <2>2
<1>8. CASE FinishReceive
  <2>1. data' = data /\ Front' = Front /\ Back' = Back
    BY <1>0, <1>8 DEF FinishReceive, Front, Back, ControlInv
  <2> QED BY <2>1, <1>d
<1> QED BY <1>1, <1>2, <1>3, <1>4, <1>5, <1>6, <1>7, <1>8, <1>d DEF Next

(* Once Linux runs, what it has read and what it may still read is new: the *)
(* reset leaves no unread byte and later packets carry new bytes only.      *)
LEMMA FreshStep ==
  ASSUME MailboxInv, [Next]_vars PROVE FreshInv' /\ NoStaleInput'
<1> USE MailboxAssumption
<1>0. TypeOK /\ ControlInv /\ FreshInv /\ NoStaleInput /\ TypeOK'
  BY TypeStep DEF MailboxInv
<1> SUFFICES ASSUME linux'
             PROVE  /\ \A i \in 1 .. Len(frame') : frame'[i] \in NewByte
                    /\ \A s \in UnreadSlots' : data'[s] \in NewByte
                    /\ \A i \in 1 .. Len(chunk') : chunk'[i] \in NewByte
  BY DEF FreshInv, NoStaleInput
<1>a. Front' \in Index /\ Back' \in Index
  BY <1>0 DEF TypeOK, Front, Back
<1>e. Front \in Index /\ Back \in Index
  BY <1>0 DEF TypeOK, Front, Back
<1>b. \A s : s \in UnreadSlots' <=> s \in Index /\ Between(Front', Back', s)
  BY <1>a, UnreadBetween DEF UnreadSlots
<1>c. \A s : s \in UnreadSlots <=> s \in Index /\ Between(Front, Back, s)
  BY <1>0, UnreadSlotsBetween
<1>d. ASSUME linux, data' = data, Front' = Front, Back' = Back
      PROVE  \A s \in UnreadSlots' : data'[s] \in NewByte
  BY <1>0, <1>b, <1>c, <1>d DEF FreshInv
<1>1. ASSUME NEW f \in Packets, MailboxInput(f)
      PROVE  /\ \A i \in 1 .. Len(frame') : frame'[i] \in NewByte
             /\ \A s \in UnreadSlots' : data'[s] \in NewByte
             /\ chunk' = chunk /\ linux
  <2>1. linux /\ chunk' = chunk /\ data' = data /\ frame' = Capped(f)
    BY <1>1 DEF MailboxInput
  <2>2. Front' = Front /\ Back' = Back
    BY <1>0, <1>1, <2>1 DEF MailboxInput, Front, Back, ControlInv
  <2> QED BY <2>1, <2>2, <1>d, CappedBytes
<1>2. CASE StoreByte
  <2>1. linux /\ chunk' = chunk /\ Front' = Front /\ Back = lhead /\ Back' = Succ(lhead)
    BY <1>2 DEF StoreByte, Front, Back
  <2>2. /\ frame \in Seq(Byte) /\ frame # <<>>
        /\ frame' = Tail(frame) /\ data' = [data EXCEPT ![lhead] = Head(frame)]
    BY <1>0, <1>2 DEF StoreByte, TypeOK
  <2>3. Head(frame) = frame[1] /\ Len(frame) >= 1 /\ Len(frame) \in Nat
    BY <2>2
  <2>4. Head(frame) \in NewByte
    BY <1>0, <2>1, <2>3 DEF FreshInv
  <2>5. \A i \in 1 .. Len(frame') : frame'[i] \in NewByte
    BY <1>0, <2>1, <2>2, <2>3, HeadTailProperties DEF FreshInv
  <2>6. ASSUME NEW s \in UnreadSlots', s # lhead PROVE s \in UnreadSlots
    <3>1. s \in Index /\ Between(Front, Succ(Back), s) /\ s # Back
      BY <1>b, <2>1, <2>6
    <3>2. Succ(Back) # Front
      BY <1>2, <2>1 DEF StoreByte, Front
    <3>3. Between(Front, Back, s)
      BY <1>e, <3>1, <3>2 DEF Index, Between, Succ
    <3> QED BY <1>c, <3>1, <3>3
  <2>7. \A s \in UnreadSlots' : data'[s] \in NewByte
    BY <1>0, <1>b, <2>1, <2>2, <2>4, <2>6 DEF FreshInv, TypeOK
  <2> QED BY <1>0, <2>1, <2>5, <2>7 DEF NoStaleInput
<1>3. CASE Commit
  <2>1. linux /\ data' = data /\ Front' = Front /\ Back' = Back /\ chunk' = chunk /\ frame' = <<>>
    BY <1>3 DEF Commit, Front, Back
  <2> QED BY <2>1, <1>0, <1>d DEF NoStaleInput
<1>4. ASSUME NEW n \in 1 .. ChunkLimit, Receive(n)
      PROVE  /\ linux /\ data' = data /\ Front' = Front /\ Back' = Back
             /\ chunk' = <<>> /\ frame' = frame
  BY <1>4 DEF Receive, mailbox, Front, Back
<1>5. CASE DispatchOther \/ CheckMagic
  <2>1. /\ linux /\ data' = data /\ Front' = Front /\ Back' = Back
        /\ chunk' = chunk /\ frame' = frame
    BY <1>5 DEF DispatchOther, CheckMagic, mailbox, Front, Back
  <2> QED BY <2>1, <1>0, <1>d DEF NoStaleInput, FreshInv
<1>7. CASE DrainByte
  <2>1. /\ linux /\ data' = data /\ frame' = frame /\ Back' = Back /\ ltail # Back
        /\ Front = ltail /\ Front' = Succ(ltail) /\ chunk' = Append(chunk, data[ltail])
    BY <1>0, <1>7 DEF DrainByte, mailbox, Front, Back, ControlInv
  <2>2. ltail \in UnreadSlots
    <3>1. Between(Front, Back, Front)
      BY <1>e, <2>1 DEF Index, Between
    <3> QED BY <1>c, <1>e, <2>1, <3>1
  <2>3. ASSUME NEW s \in UnreadSlots' PROVE s \in UnreadSlots
    <3>1. s \in Index /\ Between(Succ(Front), Back, s)
      BY <1>b, <2>1, <2>3
    <3>2. Between(Front, Back, s)
      BY <1>e, <2>1, <3>1 DEF Index, Between, Succ
    <3> QED BY <1>c, <3>1, <3>2
  <2>4. data[ltail] \in NewByte /\ \A s \in UnreadSlots' : data'[s] \in NewByte
    BY <1>0, <2>1, <2>2, <2>3 DEF FreshInv
  <2>5. chunk \in Seq(Byte) /\ data[ltail] \in Byte
    BY <1>0 DEF TypeOK
  <2>6. /\ Len(chunk') = Len(chunk) + 1 /\ Len(chunk) \in Nat
        /\ \A i \in 1 .. Len(chunk) : chunk'[i] = chunk[i]
        /\ chunk'[Len(chunk) + 1] = data[ltail]
    BY <2>1, <2>5, AppendProperties
  <2>7. \A i \in 1 .. Len(chunk') : i \in 1 .. Len(chunk) \/ i = Len(chunk) + 1
    BY <2>6
  <2>8. \A i \in 1 .. Len(chunk') : chunk'[i] \in NewByte
    BY <1>0, <2>1, <2>4, <2>6, <2>7 DEF NoStaleInput
  <2> QED BY <1>0, <2>1, <2>4, <2>8 DEF FreshInv
<1>8. CASE FinishReceive
  <2>1. /\ linux /\ data' = data /\ Front' = Front /\ Back' = Back
        /\ chunk' = chunk /\ frame' = frame
    BY <1>0, <1>8 DEF FinishReceive, Front, Back, ControlInv
  <2> QED BY <2>1, <1>0, <1>d DEF NoStaleInput, FreshInv
<1>9. CASE InputReset
  <2>1. /\ Front' = 0 /\ Back' = 0 /\ frame' = <<>> /\ chunk' = chunk
        /\ ~linux => chunk = <<>>
    BY <1>0, <1>9 DEF InputReset, Front, Back, ControlInv
  <2>2. UnreadSlots' = {}
    BY <1>b, <2>1 DEF Index, Between
  <2>3. \A i \in 1 .. Len(chunk') : chunk'[i] \in NewByte
    BY <1>0, <2>1 DEF NoStaleInput
  <2> QED BY <2>1, <2>2, <2>3
<1>10. CASE UNCHANGED vars
  <2>1. /\ linux /\ data' = data /\ Front' = Front /\ Back' = Back
        /\ chunk' = chunk /\ frame' = frame
    BY <1>10 DEF vars, Front, Back
  <2> QED BY <2>1, <1>0, <1>d DEF NoStaleInput, FreshInv
<1>11. ASSUME NEW n \in 1 .. ChunkLimit, Receive(n)
       PROVE  /\ \A i \in 1 .. Len(frame') : frame'[i] \in NewByte
              /\ \A s \in UnreadSlots' : data'[s] \in NewByte
              /\ \A i \in 1 .. Len(chunk') : chunk'[i] \in NewByte
  BY <1>0, <1>4, <1>11, <1>d DEF FreshInv
<1>12. ASSUME NEW f \in Packets, MailboxInput(f)
       PROVE  \A i \in 1 .. Len(chunk') : chunk'[i] \in NewByte
  BY <1>0, <1>1, <1>12 DEF NoStaleInput
<1> QED
  BY <1>1, <1>2, <1>3, <1>5, <1>7, <1>8, <1>9, <1>10, <1>11, <1>12 DEF Next

-----------------------------------------------------------------------------
(* The inductive invariant holds in every reachable state. *)
THEOREM MailboxInvariant == Spec => []MailboxInv
<1>1. MailboxInv /\ [Next]_vars => MailboxInv'
  BY TypeStep, ControlStep, FreshStep DEF MailboxInv
<1> QED BY InitMailboxInv, <1>1, PTL DEF Spec

(* Type correctness: above all, no index ever leaves the ring. *)
THEOREM TypeCorrect == Spec => []TypeOK
<1>1. MailboxInv => TypeOK
  BY DEF MailboxInv
<1> QED BY <1>1, MailboxInvariant, PTL

(* Linux reads no byte stored before its reset of the mailbox. *)
THEOREM NoStale == Spec => []NoStaleInput
<1>1. MailboxInv => NoStaleInput
  BY DEF MailboxInv
<1> QED BY <1>1, MailboxInvariant, PTL

(* No accepted byte is overwritten or skipped. *)
THEOREM UnreadSafe == Spec => UnreadKept
<1>1. MailboxInv /\ [Next]_vars => [InputReset \/ UnreadStep]_vars
  BY UnreadStepHolds
<1> QED BY <1>1, MailboxInvariant, PTL DEF Spec, UnreadKept

-----------------------------------------------------------------------------
(* The mailbox implements the bounded FIFO. *)

(* The queue the ring stands for: a sequence of Used bytes. *)
LEMMA UnreadSeq ==
  ASSUME TypeOK, magic
  PROVE  /\ Unread \in Seq(Byte) /\ Len(Unread) = Used(Front, Back)
         /\ Used(Front, Back) \in 0 .. RingSize - 1
<1>1. Front \in Index /\ Back \in Index
  BY DEF TypeOK, Front, Back
<1>2. Used(Front, Back) \in 0 .. RingSize - 1
  BY <1>1, UsedBound
<1>3. \A i \in 1 .. Used(Front, Back) : data[Slot(Front, i)] \in Byte
  BY <1>1, <1>2, SlotIndex, MailboxAssumption DEF TypeOK
<1> QED BY <1>2, <1>3 DEF Unread, Contents

(* An empty ring stands for the empty queue. *)
LEMMA EmptyContents ==
  ASSUME NEW i \in Index, NEW d PROVE Contents(i, i, d) = <<>>
  BY UsedBound DEF Contents

(* The initial ring is an initial FIFO: empty, or with a session's rest. *)
LEMMA FifoInit == Init => Fifo!Init
<1> SUFFICES ASSUME Init PROVE Fifo!Init
  OBVIOUS
<1>1. TypeOK /\ frame = <<>> /\ chunk = <<>>
  BY InitMailboxInv DEF Init, MailboxInv
<1>2. Unread \in Seq(Byte) /\ Len(Unread) =< RingSize - 1
  <2>1. CASE magic
    BY <1>1, <2>1, UnreadSeq, MailboxAssumption
  <2>2. CASE ~magic
    BY <2>2, MailboxAssumption DEF Unread
  <2> QED BY <2>1, <2>2
<1> QED BY <1>1, <1>2 DEF Fifo!Init, Fifo!UpTo

(* Every step of the ring is a step of the FIFO or leaves it alone. *)
LEMMA FifoStep == ASSUME MailboxInv, [Next]_vars PROVE [Fifo!Next]_Fifo!vars
<1> USE MailboxAssumption
<1>0. TypeOK /\ ControlInv /\ TypeOK'
  BY TypeStep DEF MailboxInv
<1>a. Front \in Index /\ Back \in Index
  BY <1>0 DEF TypeOK, Front, Back
<1>b. ASSUME magic' = magic, data' = data, Front' = Front, Back' = Back
      PROVE  Unread' = Unread
  BY <1>b DEF Unread
<1>1. ASSUME NEW f \in Packets, MailboxInput(f) PROVE Fifo!Arrive
  <2>1. frame = <<>> /\ chunk' = chunk /\ frame' = Capped(f) /\ data' = data
    BY <1>0, <1>1 DEF MailboxInput, ControlInv
  <2>2. Unread' = Unread
    <3>1. CASE magic
      BY <1>0, <1>1, <1>b, <2>1, <3>1
         DEF MailboxInput, Front, Back, ControlInv
    <3>2. CASE ~magic
      <4>1. magic' /\ Front' = 0 /\ Back' = 0 /\ 0 \in Index
        BY <1>0, <1>1, <3>2 DEF MailboxInput, Front, Back, ControlInv, Index
      <4>2. Unread' = Contents(0, 0, data) /\ Unread = <<>>
        BY <2>1, <3>2, <4>1 DEF Unread
      <4> QED BY <4>1, <4>2, EmptyContents
    <3> QED BY <3>1, <3>2
  <2>3. frame' \in Fifo!UpTo(PacketLimit)
    BY <2>1, CappedPacket, CappedBytes DEF Fifo!UpTo
  <2> QED BY <2>1, <2>2, <2>3 DEF Fifo!Arrive
<1>2. CASE StoreByte
  <2>1. /\ magic /\ magic' /\ Front' = Front /\ Back = lhead
        /\ Back' = Succ(lhead) /\ Succ(lhead) # Front
        /\ data' = [data EXCEPT ![lhead] = Head(frame)]
        /\ frame # <<>> /\ frame' = Tail(frame) /\ chunk' = chunk
    BY <1>0, <1>2 DEF StoreByte, Front, Back, ControlInv
  <2>2. Head(frame) \in Byte
    BY <1>0, <2>1, HeadTailProperties DEF TypeOK
  <2>3. Unread' = Append(Unread, Head(frame))
    <3>1. Unread = Contents(Front, Back, data) /\ Unread' = Contents(Front, Back', data')
      BY <2>1 DEF Unread
    <3>2. data \in [Index -> Byte] /\ data' \in [Index -> Byte] /\ Succ(Back) # Front
      BY <1>0, <2>1 DEF TypeOK
    <3>3. data'[Back] = Head(frame) /\ \A i \in Index : i # Back => data'[i] = data[i]
      BY <1>a, <2>1, <3>2
    <3>4. Contents(Front, Succ(Back), data') = Append(Contents(Front, Back, data), Head(frame))
      BY <1>a, <2>2, <3>2, <3>3, ContentsAppend
    <3> QED BY <2>1, <3>1, <3>4
  <2>4. Len(Unread) < RingSize - 1
    BY <1>0, <1>a, <2>1, UnreadSeq DEF Index, Used, Succ
  <2> QED BY <2>1, <2>3, <2>4 DEF Fifo!Accept, Fifo!Next
<1>3. CASE Commit
  <2>1. /\ magic /\ magic' = magic /\ data' = data /\ Front' = Front
        /\ Back = lhead /\ Back' = Back /\ chunk' = chunk /\ frame' = <<>>
    BY <1>0, <1>3 DEF Commit, Front, Back, ControlInv
  <2>2. Unread' = Unread
    BY <2>1, <1>b
  <2>3. CASE frame = <<>>
    BY <2>1, <2>2, <2>3 DEF Fifo!vars
  <2>4. CASE frame # <<>>
    <3>1. Succ(lhead) = Front
      BY <1>3, <2>4 DEF Commit, Front
    <3>2. Len(Unread) = RingSize - 1
      BY <1>0, <1>a, <2>1, <3>1, UnreadSeq DEF Index, Used, Succ
    <3> QED BY <2>1, <2>2, <2>4, <3>2 DEF Fifo!DropRest, Fifo!Next
  <2> QED BY <2>3, <2>4
<1>4. ASSUME NEW n \in 1 .. ChunkLimit, Receive(n) PROVE Fifo!BeginRead
  <2>1. /\ magic' = magic /\ data' = data /\ Front' = Front /\ Back' = Back
        /\ chunk' = <<>> /\ frame' = frame
    BY <1>4 DEF Receive, mailbox, Front, Back
  <2> QED BY <2>1, <1>b DEF Fifo!BeginRead
<1>5. CASE DispatchOther \/ CheckMagic
  <2>1. /\ magic' = magic /\ data' = data /\ Front' = Front /\ Back' = Back
        /\ chunk' = chunk /\ frame' = frame
    BY <1>5 DEF DispatchOther, CheckMagic, mailbox, Front, Back
  <2> QED BY <2>1, <1>b DEF Fifo!vars
<1>6. CASE DrainByte
  <2>1. /\ magic /\ magic' /\ data' = data /\ frame' = frame /\ frame = <<>>
        /\ Back' = Back /\ Front # Back /\ Front = ltail /\ Front' = Succ(Front)
        /\ chunk' = Append(chunk, data[Front]) /\ Len(chunk) < limit
    BY <1>0, <1>6 DEF DrainByte, mailbox, Front, Back, ControlInv
  <2>2. /\ Unread # <<>> /\ data[Front] = Head(Unread)
        /\ Unread' = Tail(Unread)
    BY <1>0, <1>a, <2>1, ContentsTail DEF Unread, TypeOK
  <2>3. Len(chunk) < ChunkLimit
    BY <1>0, <2>1 DEF TypeOK
  <2> QED BY <2>1, <2>2, <2>3 DEF Fifo!Take, Fifo!Next
<1>7. CASE FinishReceive
  <2>1. /\ magic' = magic /\ data' = data /\ Front' = Front /\ Back' = Back
        /\ chunk' = chunk /\ frame' = frame
    BY <1>0, <1>7 DEF FinishReceive, Front, Back, ControlInv
  <2> QED BY <2>1, <1>b DEF Fifo!vars
<1>8. CASE InputReset
  <2>1. /\ magic' /\ Front' = 0 /\ Back' = 0 /\ 0 \in Index
        /\ chunk' = chunk /\ frame' = frame /\ frame = <<>>
    BY <1>0, <1>8 DEF InputReset, Front, Back, ControlInv, Index
  <2>2. Unread' = <<>>
    <3>1. Unread' = Contents(0, 0, data')
      BY <2>1 DEF Unread
    <3> QED BY <2>1, <3>1, EmptyContents
  <2> QED BY <2>1, <2>2 DEF Fifo!Flush, Fifo!Next
<1>9. CASE UNCHANGED vars
  <2>1. /\ magic' = magic /\ data' = data /\ Front' = Front /\ Back' = Back
        /\ chunk' = chunk /\ frame' = frame
    BY <1>9 DEF vars, Front, Back
  <2> QED BY <2>1, <1>b DEF Fifo!vars
<1> QED
  BY <1>1, <1>2, <1>3, <1>4, <1>5, <1>6, <1>7, <1>8, <1>9 DEF Next, Fifo!Next

(* The ring in RAM, with the monitor writing and Linux reading, is a        *)
(* bounded FIFO of RingSize - 1 bytes.                                      *)
THEOREM ImplementsFifo == Spec => FifoSpec
<1>1. MailboxInv /\ [Next]_vars => [Fifo!Next]_Fifo!vars
  BY FifoStep
<1> QED
  BY <1>1, FifoInit, MailboxInvariant, PTL DEF Spec, FifoSpec, Fifo!Spec

-----------------------------------------------------------------------------
(* The bridge *)

(* The initial state of the bridge satisfies its inductive invariant. *)
LEMMA InitBridgeInv == BridgeInit => BridgeInv
<1> SUFFICES ASSUME BridgeInit PROVE BridgeInv
  OBVIOUS
<1>1. BridgeTypeOK
  BY DEF BridgeInit, BridgeTypeOK, Tasks, Users, Pgds, Contexts, Ops, Steps
<1>2. MmInv /\ OwnAddressSpace
  BY DEF BridgeInit, MmInv, OwnAddressSpace, Users, Tasks
<1>3. ContextInv /\ WindowInv /\ IrqDiscipline
  BY DEF BridgeInit, ContextInv, WindowInv, IrqDiscipline, InWindow, Contexts
<1> QED BY <1>1, <1>2, <1>3 DEF BridgeInv

(* Every step preserves the types. *)
LEMMA BridgeTypeStep == ASSUME BridgeInv, [BridgeNext]_bridgeVars PROVE BridgeTypeOK'
<1>0. BridgeTypeOK
  BY DEF BridgeInv
<1> USE BridgeAssumption DEF BridgeTypeOK, Tasks, Users, Pgds, Contexts, Ops, Steps
<1>1. ASSUME NEW o \in {"emit", "receive", "reset"}, KernelCall(o) PROVE BridgeTypeOK'
  BY <1>0, <1>1 DEF KernelCall, Enter, sched, seen
<1>2. CASE ConsoleWrite
  BY <1>0, <1>2 DEF ConsoleWrite, Enter, sched, seen
<1>3. CASE DirectTrace
  BY <1>0, <1>3 DEF DirectTrace, sched, seen
<1>4. ASSUME NEW c \in Contexts, LockIrqsave(c) PROVE BridgeTypeOK'
  BY <1>0, <1>4 DEF LockIrqsave, sched, seen
<1>5. ASSUME NEW c \in Contexts, BorrowInitMm(c) PROVE BridgeTypeOK'
  BY <1>0, <1>5 DEF BorrowInitMm, sched, seen
<1>6. ASSUME NEW c \in Contexts, EnterRuntime(c) PROVE BridgeTypeOK'
  BY <1>0, <1>6 DEF EnterRuntime, sched, seen, locals
<1>7. ASSUME NEW c \in Contexts, LeaveRuntime(c) PROVE BridgeTypeOK'
  BY <1>0, <1>7 DEF LeaveRuntime, sched, seen, locals
<1>8. ASSUME NEW c \in Contexts, UseMailbox(c) PROVE BridgeTypeOK'
  BY <1>0, <1>8 DEF UseMailbox, sched, seen, locals
<1>9. ASSUME NEW c \in Contexts, ReturnInitMm(c) PROVE BridgeTypeOK'
  BY <1>0, <1>9 DEF ReturnInitMm, sched, seen, locals
<1>10. ASSUME NEW c \in Contexts, UnlockIrqrestore(c) PROVE BridgeTypeOK'
  BY <1>0, <1>10 DEF UnlockIrqrestore, sched, seen, locals
<1>11. CASE Interrupt
  BY <1>0, <1>11 DEF Interrupt, sched, seen, locals
<1>12. CASE InterruptReturn
  BY <1>0, <1>12 DEF InterruptReturn, sched, seen, locals
<1>13. CASE Exec
  BY <1>0, <1>13 DEF Exec, seen, locals
<1>14. ASSUME NEW u \in Children, Fork(u) PROVE BridgeTypeOK'
  BY <1>0, <1>14 DEF Fork, seen, locals
<1>15. ASSUME NEW t \in Tasks, Switch(t) PROVE BridgeTypeOK'
  BY <1>0, <1>15 DEF Switch, seen, locals
<1>16. CASE DisableForReturn
  BY <1>0, <1>16 DEF DisableForReturn, seen, locals
<1>17. CASE UserReturnCheckpoint
  BY <1>0, <1>17 DEF UserReturnCheckpoint, Enter, locals
<1>18. CASE ReturnToUser
  BY <1>0, <1>18 DEF ReturnToUser, seen, locals
<1>19. CASE EnterKernel
  BY <1>0, <1>19 DEF EnterKernel, seen, locals
<1>20. CASE FirstSyscallCheckpoint
  BY <1>0, <1>20 DEF FirstSyscallCheckpoint, Enter, locals
<1>21. CASE UNCHANGED bridgeVars
  BY <1>0, <1>21 DEF bridgeVars, sched, seen, locals
<1> QED
  BY <1>1, <1>2, <1>3, <1>4, <1>5, <1>6, <1>7, <1>8, <1>9, <1>10, <1>11, <1>12, <1>13, <1>14,
     <1>15, <1>16, <1>17, <1>18, <1>19, <1>20, <1>21 DEF BridgeNext, BridgeStep

(* Every step preserves who owns an address space: PID 1 is the first.      *)
LEMMA MmStep == ASSUME BridgeInv, [BridgeNext]_bridgeVars PROVE MmInv'
<1>0. BridgeTypeOK /\ MmInv /\ ContextInv /\ WindowInv
  BY DEF BridgeInv
<1> USE BridgeAssumption DEF MmInv, Tasks, Users
<1>1. ASSUME NEW o \in {"emit", "receive", "reset"}, KernelCall(o) PROVE MmInv'
  BY <1>0, <1>1 DEF KernelCall, sched
<1>2. CASE ConsoleWrite
  BY <1>0, <1>2 DEF ConsoleWrite, sched
<1>3. CASE DirectTrace
  BY <1>0, <1>3 DEF DirectTrace, sched
<1>4. ASSUME NEW c \in Contexts, LockIrqsave(c) PROVE MmInv'
  BY <1>0, <1>4 DEF LockIrqsave, sched
<1>5. ASSUME NEW c \in Contexts, BorrowInitMm(c) PROVE MmInv'
  BY <1>0, <1>5 DEF BorrowInitMm, sched
<1>6. ASSUME NEW c \in Contexts, EnterRuntime(c) PROVE MmInv'
  BY <1>0, <1>6 DEF EnterRuntime, sched
<1>7. ASSUME NEW c \in Contexts, LeaveRuntime(c) PROVE MmInv'
  BY <1>0, <1>7 DEF LeaveRuntime, sched
<1>8. ASSUME NEW c \in Contexts, UseMailbox(c) PROVE MmInv'
  BY <1>0, <1>8 DEF UseMailbox, sched
<1>9. ASSUME NEW c \in Contexts, ReturnInitMm(c) PROVE MmInv'
  BY <1>0, <1>9 DEF ReturnInitMm, sched
<1>10. ASSUME NEW c \in Contexts, UnlockIrqrestore(c) PROVE MmInv'
  BY <1>0, <1>10 DEF UnlockIrqrestore, sched
<1>11. CASE Interrupt
  BY <1>0, <1>11 DEF Interrupt, sched
<1>12. CASE InterruptReturn
  BY <1>0, <1>12 DEF InterruptReturn, sched
<1>13. CASE Exec
  BY <1>0, <1>13 DEF Exec, BridgeTypeOK
<1>14. ASSUME NEW u \in Children, Fork(u) PROVE MmInv'
  BY <1>0, <1>14 DEF Fork, BridgeTypeOK
<1>15. ASSUME NEW t \in Tasks, Switch(t) PROVE MmInv'
  BY <1>0, <1>15 DEF Switch, InKernel
<1>16. CASE DisableForReturn
  BY <1>0, <1>16 DEF DisableForReturn
<1>17. CASE UserReturnCheckpoint
  BY <1>0, <1>17 DEF UserReturnCheckpoint
<1>18. CASE ReturnToUser
  BY <1>0, <1>18 DEF ReturnToUser
<1>19. CASE EnterKernel
  BY <1>0, <1>19 DEF EnterKernel
<1>20. CASE FirstSyscallCheckpoint
  BY <1>0, <1>20 DEF FirstSyscallCheckpoint
<1>21. CASE UNCHANGED bridgeVars
  BY <1>0, <1>21 DEF bridgeVars, sched
<1> QED
  BY <1>1, <1>2, <1>3, <1>4, <1>5, <1>6, <1>7, <1>8, <1>9, <1>10, <1>11, <1>12, <1>13, <1>14,
     <1>15, <1>16, <1>17, <1>18, <1>19, <1>20, <1>21 DEF BridgeNext, BridgeStep

(* Every step keeps the interrupt context out of the bridge. *)
LEMMA ContextStep == ASSUME BridgeInv, [BridgeNext]_bridgeVars PROVE ContextInv'
<1>0. BridgeTypeOK /\ MmInv /\ ContextInv /\ WindowInv /\ IrqDiscipline
  BY DEF BridgeInv
<1> USE BridgeAssumption DEF ContextInv, InWindow, Steps, Contexts
<1>1. ASSUME NEW o \in {"emit", "receive", "reset"}, KernelCall(o) PROVE ContextInv'
  BY <1>0, <1>1 DEF KernelCall, Enter, BridgeTypeOK, sched, InKernel
<1>2. CASE ConsoleWrite
  BY <1>0, <1>2 DEF ConsoleWrite, Enter, BridgeTypeOK, sched, Running
<1>3. CASE DirectTrace
  BY <1>0, <1>3 DEF DirectTrace, sched, InKernel
<1>4. ASSUME NEW c \in Contexts, LockIrqsave(c) PROVE ContextInv'
  BY <1>0, <1>4 DEF LockIrqsave, sched, Running
<1>5. ASSUME NEW c \in Contexts, BorrowInitMm(c) PROVE ContextInv'
  BY <1>0, <1>5 DEF BorrowInitMm, sched
<1>6. ASSUME NEW c \in Contexts, EnterRuntime(c) PROVE ContextInv'
  BY <1>0, <1>6 DEF EnterRuntime, sched, locals
<1>7. ASSUME NEW c \in Contexts, LeaveRuntime(c) PROVE ContextInv'
  BY <1>0, <1>7 DEF LeaveRuntime, sched, locals
<1>8. ASSUME NEW c \in Contexts, UseMailbox(c) PROVE ContextInv'
  BY <1>0, <1>8 DEF UseMailbox, sched, locals
<1>9. ASSUME NEW c \in Contexts, ReturnInitMm(c) PROVE ContextInv'
  BY <1>0, <1>9 DEF ReturnInitMm, sched, locals, Running
<1>10. ASSUME NEW c \in Contexts, UnlockIrqrestore(c) PROVE ContextInv'
  <2>1. c = "task" /\ at["task"] = "unlock"
    BY <1>0, <1>10 DEF UnlockIrqrestore, Running
  <2>2. InWindow("task") /\ ~hardirq
    BY <1>0, <2>1
  <2>3. /\ at' = [at EXCEPT !["task"] = "out"] /\ mode' = mode
        /\ mm' = mm /\ op' = op /\ hardirq' = FALSE
    BY <1>10, <2>1, <2>2 DEF UnlockIrqrestore, BridgeTypeOK, sched, locals
  <2>4. at'["task"] = "out" /\ at'["irq"] = "out"
    BY <1>0, <2>3 DEF BridgeTypeOK
  <2> QED BY <2>3, <2>4
<1>11. CASE Interrupt
  <2>1. irqsOn /\ ~hardirq /\ ~InWindow("task")
    BY <1>0, <1>11 DEF Interrupt, WindowInv
  <2>2. mode \notin {"returning", "leaving"}
    BY <1>0, <2>1 DEF IrqDiscipline
  <2>3. /\ at' = at /\ op' = op /\ mode' = mode /\ mm' = mm
        /\ hardirq' = TRUE /\ irqsOn' = FALSE
    BY <1>11 DEF Interrupt, sched, locals
  <2> QED BY <1>0, <2>1, <2>2, <2>3
<1>12. CASE InterruptReturn
  <2>1. /\ at' = at /\ op' = op /\ mode' = mode /\ mm' = mm /\ hardirq' = FALSE
    BY <1>12 DEF InterruptReturn, sched, locals
  <2> QED BY <1>0, <2>1
<1>13. CASE Exec
  BY <1>0, <1>13 DEF Exec, InKernel
<1>14. ASSUME NEW u \in Children, Fork(u) PROVE ContextInv'
  BY <1>0, <1>14 DEF Fork, InKernel
<1>15. ASSUME NEW t \in Tasks, Switch(t) PROVE ContextInv'
  BY <1>0, <1>15 DEF Switch, InKernel
<1>16. CASE DisableForReturn
  BY <1>0, <1>16 DEF DisableForReturn, InKernel
<1>17. CASE UserReturnCheckpoint
  BY <1>0, <1>17 DEF UserReturnCheckpoint, Enter, BridgeTypeOK
<1>18. CASE ReturnToUser
  BY <1>0, <1>18 DEF ReturnToUser
<1>19. CASE EnterKernel
  BY <1>0, <1>19 DEF EnterKernel
<1>20. CASE FirstSyscallCheckpoint
  BY <1>0, <1>20 DEF FirstSyscallCheckpoint, Enter, BridgeTypeOK
<1>21. CASE UNCHANGED bridgeVars
  BY <1>0, <1>21 DEF bridgeVars, sched, locals
<1> QED
  BY <1>1, <1>2, <1>3, <1>4, <1>5, <1>6, <1>7, <1>8, <1>9, <1>10, <1>11, <1>12, <1>13, <1>14,
     <1>15, <1>16, <1>17, <1>18, <1>19, <1>20, <1>21 DEF BridgeNext, BridgeStep

(* Every step keeps what the bridge has put aside, and restores it.         *)
LEMMA WindowStep ==
  ASSUME BridgeInv, [BridgeNext]_bridgeVars
  PROVE  WindowInv' /\ OwnAddressSpace' /\ IrqDiscipline'
<1> DEFINE Goal == WindowInv /\ OwnAddressSpace /\ IrqDiscipline
<1>0. BridgeTypeOK /\ MmInv /\ ContextInv /\ WindowInv /\ OwnAddressSpace /\ IrqDiscipline
  BY DEF BridgeInv
<1> USE BridgeAssumption DEF WindowInv, OwnAddressSpace, IrqDiscipline, InWindow, Steps, Contexts
<1>1. ASSUME NEW o \in {"emit", "receive", "reset"}, KernelCall(o) PROVE Goal'
  BY <1>0, <1>1 DEF KernelCall, Enter, sched
<1>2. CASE ConsoleWrite
  BY <1>0, <1>2 DEF ConsoleWrite, Enter, sched
<1>3. CASE DirectTrace
  BY <1>0, <1>3 DEF DirectTrace, BridgeTypeOK, sched, InKernel
<1>4. ASSUME NEW c \in Contexts, LockIrqsave(c) PROVE Goal'
  BY <1>0, <1>4 DEF LockIrqsave, BridgeTypeOK, ContextInv, sched, Running
<1>5. ASSUME NEW c \in Contexts, BorrowInitMm(c) PROVE Goal'
  BY <1>0, <1>5 DEF BorrowInitMm, BridgeTypeOK, ContextInv, sched
<1>6. ASSUME NEW c \in Contexts, EnterRuntime(c) PROVE Goal'
  BY <1>0, <1>6 DEF EnterRuntime, sched, locals
<1>7. ASSUME NEW c \in Contexts, LeaveRuntime(c) PROVE Goal'
  BY <1>0, <1>7 DEF LeaveRuntime, sched, locals
<1>8. ASSUME NEW c \in Contexts, UseMailbox(c) PROVE Goal'
  BY <1>0, <1>8 DEF UseMailbox, sched, locals
<1>9. ASSUME NEW c \in Contexts, ReturnInitMm(c) PROVE Goal'
  BY <1>0, <1>9 DEF ReturnInitMm, BridgeTypeOK, ContextInv, sched, locals
<1>10. ASSUME NEW c \in Contexts, UnlockIrqrestore(c) PROVE Goal'
  BY <1>0, <1>10 DEF UnlockIrqrestore, BridgeTypeOK, MmInv, ContextInv, sched
<1>11. CASE Interrupt
  BY <1>0, <1>11 DEF Interrupt, sched, locals
<1>12. CASE InterruptReturn
  BY <1>0, <1>12 DEF InterruptReturn, ContextInv, sched, locals
<1>13. CASE Exec
  BY <1>0, <1>13 DEF Exec, BridgeTypeOK, InKernel
<1>14. ASSUME NEW u \in Children, Fork(u) PROVE Goal'
  BY <1>0, <1>14 DEF Fork, BridgeTypeOK, locals
<1>15. ASSUME NEW t \in Tasks, Switch(t) PROVE Goal'
  BY <1>0, <1>15 DEF Switch, locals
<1>16. CASE DisableForReturn
  BY <1>0, <1>16 DEF DisableForReturn, locals, InKernel
<1>17. CASE UserReturnCheckpoint
  BY <1>0, <1>17 DEF UserReturnCheckpoint, Enter, BridgeTypeOK, locals
<1>18. CASE ReturnToUser
  BY <1>0, <1>18 DEF ReturnToUser, locals
<1>19. CASE EnterKernel
  BY <1>0, <1>19 DEF EnterKernel, locals
<1>20. CASE FirstSyscallCheckpoint
  BY <1>0, <1>20 DEF FirstSyscallCheckpoint, Enter, BridgeTypeOK, locals
<1>21. CASE UNCHANGED bridgeVars
  BY <1>0, <1>21 DEF bridgeVars, sched, locals
<1> QED
  BY <1>1, <1>2, <1>3, <1>4, <1>5, <1>6, <1>7, <1>8, <1>9, <1>10, <1>11, <1>12, <1>13, <1>14,
     <1>15, <1>16, <1>17, <1>18, <1>19, <1>20, <1>21 DEF BridgeNext, BridgeStep

-----------------------------------------------------------------------------
(* The inductive invariant holds in every reachable state. *)
THEOREM BridgeInvariant == BridgeSpec => []BridgeInv
<1>1. BridgeInv /\ [BridgeNext]_bridgeVars => BridgeInv'
  BY BridgeTypeStep, MmStep, ContextStep, WindowStep DEF BridgeInv
<1> QED BY InitBridgeInv, <1>1, PTL DEF BridgeSpec

(* Type correctness of the bridge. *)
THEOREM BridgeTypeCorrect == BridgeSpec => []BridgeTypeOK
<1>1. BridgeInv => BridgeTypeOK
  BY DEF BridgeInv
<1> QED BY <1>1, BridgeInvariant, PTL

(* Firmware code and mailbox are reached only through init_mm's page table. *)
THEOREM RuntimeAlwaysMapped == BridgeSpec => []RuntimeMapped
<1>1. BridgeInv => RuntimeMapped
  <2> SUFFICES ASSUME BridgeInv, NEW c \in Contexts, InRuntime(c)
               PROVE  ttbr = InitPgd
    BY DEF RuntimeMapped
  <2>1. c = "task" /\ at["task"] \in {"busy", "access"}
    BY DEF BridgeInv, ContextInv, InRuntime, Contexts
  <2>2. CASE op["task"] = "direct"
    BY <2>1, <2>2 DEF BridgeInv, ContextInv, MmInv, OwnAddressSpace, InWindow
  <2>3. CASE op["task"] # "direct"
    BY <2>1, <2>3 DEF BridgeInv, WindowInv, InWindow, Steps
  <2> QED BY <2>2, <2>3
<1> QED BY <1>1, BridgeInvariant, PTL

(* The firmware transport is never re-entered. *)
THEOREM NeverReentered == BridgeSpec => []NotReentered
<1>1. BridgeInv => NotReentered
  BY DEF BridgeInv, ContextInv, NotReentered, InRuntime
<1> QED BY <1>1, BridgeInvariant, PTL

(* Interrupts are masked while the page table is borrowed. *)
THEOREM AlwaysMasked == BridgeSpec => []WindowMasked
<1>1. BridgeInv => WindowMasked
  <2> SUFFICES ASSUME BridgeInv, NEW c \in Contexts, InWindow(c)
               PROVE  ~irqsOn /\ c = Running
    BY DEF WindowMasked
  <2>1. c = "task"
    BY DEF BridgeInv, ContextInv, InWindow, Contexts, Steps
  <2> QED BY <2>1 DEF BridgeInv, ContextInv, WindowInv, Running
<1> QED BY <1>1, BridgeInvariant, PTL

(* Every task gets its own page table back. *)
THEOREM AddressSpaceRestored == BridgeSpec => []OwnAddressSpace
<1>1. BridgeInv => OwnAddressSpace
  BY DEF BridgeInv
<1> QED BY <1>1, BridgeInvariant, PTL

(* Every caller gets its interrupt state back. *)
THEOREM InterruptsRestored == BridgeSpec => []IrqDiscipline
<1>1. BridgeInv => IrqDiscipline
  BY DEF BridgeInv
<1> QED BY <1>1, BridgeInvariant, PTL
=============================================================================
