-------------------------- MODULE ShadowTimerProofs --------------------------
(***************************************************************************)
(* Proofs about the timer, its interrupt and the watchdog, for every       *)
(* counter width, period, guard and length of a masked section: the next   *)
(* tick is always on its way, the watchdog is serviced in time, and no     *)
(* match is made a tick twice.                                             *)
(***************************************************************************)
EXTENDS ShadowTimer, TLAPS

-----------------------------------------------------------------------------
(* The invariant *)

(* Where the probe and the handler are, and what has been set by then.  The *)
(* handler runs with interrupts off and is entered for a latched match.     *)
FlowInv ==
  /\ phase \in {"first", "periodic"} => pc \in {"read", "load", "poll"}
  /\ phase \notin {"first", "periodic", "running"} => pc = "idle"
  /\ irqsOn => phase = "running" /\ pc = "idle"
  /\ phase \notin {"map", "failed"} => base
  /\ phase \in {"periodic", "boot", "running"} => periodic
  /\ phase \in {"periodic", "boot"} => enabled
  /\ phase = "running" /\ pc \in {"idle", "vector", "mask"} => enabled
  /\ phase = "running" /\ pc \notin {"idle", "vector"} => guard > 0
  /\ irqCount > 0 => phase = "running"
  /\ pc \in {"mask", "ack"} => latch
  /\ pc = "vector" /\ guard = 0 => latch
  /\ fresh = latch

(* A match that was written is latched or ahead.  The reload in progress    *)
(* knows how far the counter has gone since it was read.                    *)
Programmed ==
  \/ phase = "boot"
  \/ phase = "periodic" /\ pc = "poll"
  \/ phase = "running" /\ pc \notin {"read", "load"}
ArmInv ==
  /\ pc = "load" => spent =< LoadLimit /\ count = (now + spent) % Modulus
  /\ Programmed => latch \/ Ahead \in 1 .. Period

(* How long ago the watchdog was serviced.  A match comes at most a period  *)
(* after the reload read the counter, which was at most one masked stretch  *)
(* after the acknowledge; it waits at most for the end of one more stretch, *)
(* and then for the handler to acknowledge it.                              *)
Entered == pc \in {"mask", "ack"} \/ (pc = "vector" /\ guard = 0)
WatchInv ==
  irqCount > 0 =>
    /\ pc = "read" => dog =< spent
    /\ pc = "load" => dog =< MaskLimit + spent
    /\ pc \notin {"read", "load"} /\ ~latch => dog + Ahead =< Period + MaskLimit
    /\ pc \notin {"read", "load"} /\ latch =>
         dog =< Period + MaskLimit + (IF irqsOn THEN MaskLimit
                                      ELSE IF Entered THEN MaskLimit + spent ELSE spent)

TimerIInv == TypeOK /\ FlowInv /\ ArmInv /\ WatchInv

-----------------------------------------------------------------------------
(* Words of the counter *)

(* The limits, as numbers. *)
LEMMA Limits ==
  /\ Modulus \in Nat /\ Modulus > 0 /\ Period \in Nat /\ Period < Modulus /\ Period > 0
  /\ Rate \in Nat /\ MinDelta \in Nat /\ MinDelta =< Period
  /\ Guard \in Nat /\ Guard > 0 /\ MaskLimit \in Nat /\ LoadLimit \in Nat
  /\ LoadLimit =< MaskLimit /\ LoadLimit < MinDelta /\ LoadLimit < Period
  /\ WatchdogLimit \in Nat /\ WatchdogLimit > Period + 3 * MaskLimit
PROOF
  BY TimerAssumption

(* What a sum or a difference of two words is after it wraps. *)
LEMMA Wrapped ==
  ASSUME NEW x \in Int, - Modulus < x, x < 2 * Modulus
  PROVE  x % Modulus = IF x < 0 THEN x + Modulus
                       ELSE IF x < Modulus THEN x ELSE x - Modulus
PROOF
  BY Limits

(* One count brings the match one nearer, and meets it when it was next.    *)
LEMMA AheadOfCount ==
  ASSUME NEW c \in Word, NEW m \in Word, NEW d, d = (c + 1) % Modulus
  PROVE  /\ d \in Word
         /\ (m - c) % Modulus > 0 => (m - d) % Modulus = ((m - c) % Modulus) - 1
         /\ (m - c) % Modulus = 1 => d = m
PROOF
<1>1. c \in 0 .. Modulus - 1 /\ m \in 0 .. Modulus - 1 /\ Modulus \in Nat /\ Modulus > 0
  BY Limits DEF Word
<1>2. d = IF c + 1 < Modulus THEN c + 1 ELSE 0
  BY <1>1, Wrapped
<1>3. (m - c) % Modulus = IF m < c THEN m - c + Modulus ELSE m - c
  BY <1>1, Wrapped
<1>4. d \in 0 .. Modulus - 1
  BY <1>1, <1>2
<1>5. (m - d) % Modulus = IF m < d THEN m - d + Modulus ELSE m - d
  BY <1>1, <1>4, Wrapped
<1> QED
  BY <1>1, <1>2, <1>3, <1>4, <1>5 DEF Word

(* A match written n counts after the counter was read is as far ahead as   *)
(* is left of the delta.                                                    *)
LEMMA AheadOfLoad ==
  ASSUME NEW c \in Word, NEW n \in Nat, NEW delta \in Nat, n < delta, delta < Modulus,
         NEW m, m = (c + delta) % Modulus, NEW k, k = (c + n) % Modulus
  PROVE  m \in Word /\ k \in Word /\ (m - k) % Modulus = delta - n
PROOF
<1>1. c \in 0 .. Modulus - 1 /\ Modulus \in Nat /\ Modulus > 0
  BY Limits DEF Word
<1>2. m = IF c + delta < Modulus THEN c + delta ELSE c + delta - Modulus
  BY <1>1, Wrapped
<1>3. k = IF c + n < Modulus THEN c + n ELSE c + n - Modulus
  BY <1>1, Wrapped
<1>4. m \in 0 .. Modulus - 1 /\ k \in 0 .. Modulus - 1
  BY <1>1, <1>2, <1>3
<1>5. (m - k) % Modulus = IF m < k THEN m - k + Modulus ELSE m - k
  BY <1>1, <1>4, Wrapped
<1> QED
  BY <1>1, <1>2, <1>3, <1>4, <1>5 DEF Word

(* One count after n is n + 1 counts after. *)
LEMMA CountOn ==
  ASSUME NEW c \in Word, NEW n \in Nat, n < Period
  PROVE  (((c + n) % Modulus) + 1) % Modulus = (c + (n + 1)) % Modulus
PROOF
<1>1. c \in 0 .. Modulus - 1 /\ Modulus \in Nat /\ Modulus > 0 /\ n + 1 < Modulus
  BY Limits DEF Word
<1> DEFINE k == (c + n) % Modulus
<1>2. k = IF c + n < Modulus THEN c + n ELSE c + n - Modulus
  BY <1>1, Wrapped
<1>3. (c + (n + 1)) % Modulus = IF c + n + 1 < Modulus THEN c + n + 1 ELSE c + n + 1 - Modulus
  BY <1>1, Wrapped, Limits
<1>4. k \in 0 .. Modulus - 1
  BY <1>1, <1>2
<1>5. (k + 1) % Modulus = IF k + 1 < Modulus THEN k + 1 ELSE 0
  BY <1>1, <1>4, Wrapped
<1> HIDE DEF k
<1>6. (k + 1) % Modulus = (c + (n + 1)) % Modulus
  BY <1>1, <1>2, <1>3, <1>4, <1>5
<1> QED
  BY <1>6 DEF k

-----------------------------------------------------------------------------
(* The first state and each step *)

(* Before the probe. *)
LEMMA InitStep == Init => TimerIInv
PROOF
<1> SUFFICES ASSUME Init PROVE TimerIInv
  OBVIOUS
<1>1. TypeOK
  <2>1. 0 \in Word /\ 0 \in 0 .. WatchdogLimit /\ 0 \in 0 .. Guard /\ 0 \in 0 .. MaskLimit
    BY Limits DEF Word
  <2> QED
    BY <2>1 DEF Init, TypeOK, Word
<1>2. FlowInv
  BY DEF Init, FlowInv
<1>3. ArmInv
  BY DEF Init, ArmInv, Programmed
<1>4. WatchInv
  BY DEF Init, WatchInv
<1> QED
  BY <1>1, <1>2, <1>3, <1>4 DEF TimerIInv

(* One count. *)
LEMMA ElapseStep ==
  ASSUME TimerIInv, Elapse
  PROVE  TimerIInv'
PROOF
<1> USE Limits DEF Elapse, hw, registered
<1>a. /\ Ahead > 0 => Ahead' = Ahead - 1
      /\ Ahead = 1 => latch'
  BY AheadOfCount DEF TimerIInv, TypeOK, Ahead
<1>b. Ahead \in Int /\ ~(~irqsOn /\ latch /\ irqsOn)
  BY DEF TimerIInv, TypeOK, Ahead, Word
<1>1. TypeOK'
  <2>1. count' \in Word
    BY AheadOfCount DEF TimerIInv, TypeOK
  <2>2. dog' \in 0 .. WatchdogLimit
    BY DEF TimerIInv, TypeOK
  <2>3. spent' \in 0 .. MaskLimit
    BY DEF TimerIInv, TypeOK
  <2>4. latch' \in BOOLEAN /\ fresh' \in BOOLEAN
    BY Zenon DEF TimerIInv, TypeOK
  <2> HIDE Limits
  <2> QED
    BY <2>1, <2>2, <2>3, <2>4 DEF TimerIInv, TypeOK
<1>2. FlowInv'
  BY DEF TimerIInv, TypeOK, FlowInv
<1>3. ArmInv'
  <2>1. ArmInv /\ TypeOK
    BY DEF TimerIInv
  <2>2. ASSUME pc = "load" PROVE spent' =< LoadLimit /\ count' = (now + spent') % Modulus
    <3>1. spent \in Nat /\ spent < LoadLimit /\ spent' = spent + 1
      BY <2>2 DEF TimerIInv, TypeOK, FlowInv
    <3>2. count = (now + spent) % Modulus /\ now \in Word
      BY <2>1, <2>2 DEF ArmInv, TypeOK
    <3>3. (count + 1) % Modulus = (now + (spent + 1)) % Modulus
      BY <3>1, <3>2, CountOn
    <3> QED
      BY <3>1, <3>3
  <2>3. ASSUME Programmed, ~latch' PROVE Ahead' \in 1 .. Period
    <3>1. Ahead \in 1 .. Period /\ Ahead # 1
      BY <2>1, <2>3, <1>a DEF ArmInv
    <3> QED
      BY <3>1, <1>a, <1>b
  <2> QED
    BY <2>2, <2>3 DEF ArmInv, Programmed
<1>4. WatchInv'
  <2>1. TypeOK /\ FlowInv /\ ArmInv /\ WatchInv
    BY DEF TimerIInv
  <2>2. CASE irqCount = 0
    BY <2>2 DEF WatchInv
  <2>3. CASE irqCount > 0
    <3>1. /\ dog \in Nat /\ spent \in Nat /\ dog' =< dog + 1 /\ dog' \in Nat
          /\ ~irqsOn => spent' = spent + 1
          /\ irqsOn => ~latch /\ spent' = 0
      BY <2>1, <2>3 DEF TypeOK, FlowInv, Deliverable
    <3>2. pc \notin {"read", "load"} => latch \/ Ahead \in 1 .. Period
      BY <2>1, <2>3 DEF FlowInv, ArmInv, Programmed
    <3>3. ~latch' => Ahead # 1 /\ ~latch
      BY <1>a
    <3>4. Entered' <=> Entered
      BY DEF Entered
    <3>5. (pc = "read" => dog' =< spent') /\ (pc = "load" => dog' =< MaskLimit + spent')
      BY <2>1, <2>3, <3>1 DEF WatchInv, FlowInv
    <3>6. ASSUME pc \notin {"read", "load"}, ~latch' PROVE dog' + Ahead' =< Period + MaskLimit
      BY <2>1, <2>3, <3>1, <3>2, <3>3, <3>6, <1>a, <1>b DEF WatchInv
    <3>7. ASSUME pc \notin {"read", "load"}, latch'
          PROVE  dog' =< Period + MaskLimit + (IF irqsOn' THEN MaskLimit
                           ELSE IF Entered' THEN MaskLimit + spent' ELSE spent')
      <4>1. CASE latch
        BY <2>1, <2>3, <3>1, <3>4, <3>7, <4>1 DEF WatchInv
      <4>2. CASE ~latch
        <5>1. dog + 1 =< Period + MaskLimit
          BY <2>1, <2>3, <3>1, <3>2, <3>7, <4>2, <1>b DEF WatchInv
        <5> QED
          BY <3>1, <5>1
      <4> QED
        BY <4>1, <4>2
    <3> QED
      BY <3>5, <3>6, <3>7 DEF WatchInv
  <2> QED
    BY <2>1, <2>2, <2>3 DEF TypeOK
<1> QED
  BY <1>1, <1>2, <1>3, <1>4 DEF TimerIInv

(* The reload reads the counter. *)
LEMMA ReadCountStep ==
  ASSUME TimerIInv, ReadCount
  PROVE  TimerIInv'
PROOF
<1> USE Limits DEF ReadCount, hw, registered
<1>1. TypeOK'
  BY DEF TimerIInv, TypeOK
<1>2. FlowInv'
  BY DEF TimerIInv, TypeOK, FlowInv
<1>3. ArmInv'
  <2>1. count \in Word /\ count % Modulus = count
    BY Wrapped DEF TimerIInv, TypeOK, Word
  <2> QED
    BY <2>1 DEF TimerIInv, FlowInv, ArmInv, Programmed, Word
<1>4. WatchInv'
  BY DEF TimerIInv, TypeOK, FlowInv, ArmInv, WatchInv, Entered, Programmed, Ahead
<1> QED
  BY <1>1, <1>2, <1>3, <1>4 DEF TimerIInv

(* It writes the match. *)
LEMMA WriteMatchStep ==
  ASSUME TimerIInv, WriteMatch
  PROVE  TimerIInv'
PROOF
<1> USE Limits DEF WriteMatch, Delta, hw, registered
<1>a. Delta \in Nat /\ now \in Word /\ spent \in Nat /\ LoadLimit < Delta /\ Delta < Modulus
      /\ (phase # "first" => Delta = Period)
  BY TimerAssumption DEF TimerIInv, TypeOK
<1>b. spent =< LoadLimit /\ count = (now + spent) % Modulus
  BY DEF TimerIInv, ArmInv
<1>c. match' \in Word /\ (match' - count) % Modulus = Delta - spent
  BY <1>a, <1>b, AheadOfLoad
<1>d. Ahead' = Delta - spent
  BY <1>c DEF Ahead
<1>1. TypeOK'
  BY <1>c DEF TimerIInv, TypeOK
<1>2. FlowInv'
  BY DEF TimerIInv, TypeOK, FlowInv
<1>3. ArmInv'
  BY <1>a, <1>b, <1>d DEF TimerIInv, FlowInv, ArmInv, Programmed
<1>4. WatchInv'
  <2>1. TypeOK /\ FlowInv /\ WatchInv
    BY DEF TimerIInv
  <2>2. CASE irqCount > 0
    <3>1. dog =< MaskLimit + spent /\ dog \in Nat /\ phase = "running" /\ ~irqsOn
      BY <2>1, <2>2 DEF WatchInv, FlowInv, TypeOK
    <3> QED
      BY <2>2, <3>1, <1>a, <1>b, <1>d DEF WatchInv, Entered
  <2> QED
    BY <2>1, <2>2 DEF WatchInv, TypeOK
<1> QED
  BY <1>1, <1>2, <1>3, <1>4 DEF TimerIInv

(* It has waited for the match to settle. *)
LEMMA PolledStep ==
  ASSUME TimerIInv, Polled
  PROVE  TimerIInv'
PROOF
<1> USE Limits DEF Polled, hw, registered
<1>1. TypeOK'
  <2> HIDE Limits
  <2>1. /\ TypeOK
        /\ UNCHANGED <<count, match, latch, enabled, dog, irqsOn, periodic, irqCount, now>>
        /\ UNCHANGED <<guard, spent, fresh>>
    BY DEF TimerIInv
  <2>2. pc' \in {"idle", "event"} /\ phase' \in {"request", "failed", "boot", "running"}
    BY DEF Polled
  <2>3. base' \in BOOLEAN /\ clock' \in BOOLEAN /\ schedClock' \in BOOLEAN
    BY <2>1 DEF Polled, TypeOK
  <2> HIDE DEF Polled
  <2> QED
    BY <2>1, <2>2, <2>3 DEF TypeOK
<1>2. FlowInv'
  BY DEF TimerIInv, TypeOK, FlowInv
<1>3. ArmInv'
  BY DEF TimerIInv, TypeOK, FlowInv, ArmInv, Programmed, Ahead
<1>4. WatchInv'
  BY DEF TimerIInv, TypeOK, FlowInv, ArmInv, WatchInv, Entered, Programmed, Ahead
<1> QED
  BY <1>1, <1>2, <1>3, <1>4 DEF TimerIInv

(* The timer block is mapped, or is not. *)
LEMMA MapBaseStep ==
  ASSUME TimerIInv, MapBase
  PROVE  TimerIInv'
PROOF
<1> USE Limits DEF MapBase, hw, registered
<1>1. TypeOK'
  <2>1. dog' \in 0 .. WatchdogLimit /\ spent' \in 0 .. MaskLimit
    BY DEF TimerIInv, TypeOK
  <2>2. base' \in BOOLEAN /\ phase' \in {"clocksource", "failed"}
    BY DEF TimerIInv, TypeOK
  <2> HIDE Limits
  <2> QED
    BY <2>1, <2>2 DEF TimerIInv, TypeOK
<1>2. FlowInv'
  BY DEF TimerIInv, TypeOK, FlowInv
<1>3. ArmInv'
  BY DEF TimerIInv, TypeOK, FlowInv, ArmInv, Programmed, Ahead
<1>4. WatchInv'
  BY DEF TimerIInv, TypeOK, FlowInv, ArmInv, WatchInv, Entered, Programmed, Ahead
<1> QED
  BY <1>1, <1>2, <1>3, <1>4 DEF TimerIInv

(* The clocks are registered and the latch cleared. *)
LEMMA RegisterClocksStep ==
  ASSUME TimerIInv, RegisterClocks
  PROVE  TimerIInv'
PROOF
<1> USE Limits DEF RegisterClocks, hw, registered
<1>1. TypeOK'
  <2>1. spent' \in 0 .. MaskLimit
    OBVIOUS
  <2> HIDE Limits
  <2> QED
    BY <2>1 DEF TimerIInv, TypeOK
<1>2. FlowInv'
  BY DEF TimerIInv, TypeOK, FlowInv
<1>3. ArmInv'
  BY DEF TimerIInv, TypeOK, FlowInv, ArmInv, Programmed, Ahead
<1>4. WatchInv'
  BY DEF TimerIInv, TypeOK, FlowInv, ArmInv, WatchInv, Entered, Programmed, Ahead
<1> QED
  BY <1>1, <1>2, <1>3, <1>4 DEF TimerIInv

(* The interrupt is requested and the device made periodic. *)
LEMMA RequestIrqStep ==
  ASSUME TimerIInv, RequestIrq
  PROVE  TimerIInv'
PROOF
<1> USE Limits DEF RequestIrq, hw, registered
<1>1. TypeOK'
  <2>1. spent' \in 0 .. MaskLimit
    OBVIOUS
  <2> HIDE Limits
  <2>2. /\ TypeOK
        /\ UNCHANGED <<count, match, latch, dog, irqsOn, irqCount, now, guard, fresh>>
    BY DEF TimerIInv
  <2>3. /\ phase' \in {"periodic", "failed"} /\ pc' \in {"read", pc}
        /\ enabled' \in BOOLEAN /\ periodic' \in BOOLEAN
    BY <2>2 DEF RequestIrq, TypeOK
  <2>4. base' \in BOOLEAN /\ clock' \in BOOLEAN /\ schedClock' \in BOOLEAN
    BY <2>2 DEF RequestIrq, TypeOK
  <2> HIDE DEF RequestIrq
  <2> QED
    BY <2>1, <2>2, <2>3, <2>4 DEF TypeOK
<1>2. FlowInv'
  BY DEF TimerIInv, TypeOK, FlowInv
<1>3. ArmInv'
  BY DEF TimerIInv, TypeOK, FlowInv, ArmInv, Programmed, Ahead
<1>4. WatchInv'
  BY DEF TimerIInv, TypeOK, FlowInv, ArmInv, WatchInv, Entered, Programmed, Ahead
<1> QED
  BY <1>1, <1>2, <1>3, <1>4 DEF TimerIInv

(* Linux enables interrupts. *)
LEMMA EnableIrqsStep ==
  ASSUME TimerIInv, EnableIrqs
  PROVE  TimerIInv'
PROOF
<1> USE Limits DEF EnableIrqs, hw, registered
<1>1. TypeOK'
  BY DEF TimerIInv, TypeOK
<1>2. FlowInv'
  BY DEF TimerIInv, TypeOK, FlowInv
<1>3. ArmInv'
  BY DEF TimerIInv, TypeOK, FlowInv, ArmInv, Programmed, Ahead
<1>4. WatchInv'
  BY DEF TimerIInv, TypeOK, FlowInv, ArmInv, WatchInv, Entered, Programmed, Ahead
<1> QED
  BY <1>1, <1>2, <1>3, <1>4 DEF TimerIInv

(* Linux masks interrupts. *)
LEMMA MaskIrqsStep ==
  ASSUME TimerIInv, MaskIrqs
  PROVE  TimerIInv'
PROOF
<1> USE Limits DEF MaskIrqs, Pet, hw, registered
<1>1. TypeOK'
  <2>1. spent' \in 0 .. MaskLimit /\ dog' \in 0 .. WatchdogLimit
    BY DEF TimerIInv, TypeOK
  <2> HIDE Limits
  <2> QED
    BY <2>1 DEF TimerIInv, TypeOK
<1>2. FlowInv'
  BY DEF TimerIInv, TypeOK, FlowInv
<1>3. ArmInv'
  BY DEF TimerIInv, TypeOK, FlowInv, ArmInv, Programmed, Ahead
<1>4. WatchInv'
  <2>1. Ahead' = Ahead /\ (latch \/ Ahead \in 1 .. Period) /\ dog \in Nat /\ dog' \in Nat
        /\ dog' =< dog
    BY DEF Ahead, TimerIInv, TypeOK, ArmInv, Programmed
  <2>2. ~latch
    BY DEF Deliverable, TimerIInv, FlowInv
  <2> QED
    BY <2>1, <2>2 DEF TimerIInv, WatchInv, Entered
<1> QED
  BY <1>1, <1>2, <1>3, <1>4 DEF TimerIInv

(* Linux unmasks them. *)
LEMMA UnmaskIrqsStep ==
  ASSUME TimerIInv, UnmaskIrqs
  PROVE  TimerIInv'
PROOF
<1> USE Limits DEF UnmaskIrqs, Pet, hw, registered
<1>1. TypeOK'
  BY DEF TimerIInv, TypeOK
<1>2. FlowInv'
  BY DEF TimerIInv, TypeOK, FlowInv
<1>3. ArmInv'
  BY DEF TimerIInv, TypeOK, FlowInv, ArmInv, Programmed, Ahead
<1>4. WatchInv'
  BY DEF TimerIInv, TypeOK, FlowInv, ArmInv, WatchInv, Entered, Programmed, Ahead
<1> QED
  BY <1>1, <1>2, <1>3, <1>4 DEF TimerIInv

(* The handler is entered. *)
LEMMA TakeInterruptStep ==
  ASSUME TimerIInv, TakeInterrupt
  PROVE  TimerIInv'
PROOF
<1> USE Limits DEF TakeInterrupt, Deliverable, hw, registered
<1>1. TypeOK'
  <2>1. spent' \in 0 .. MaskLimit /\ guard' \in 0 .. Guard
    OBVIOUS
  <2> HIDE Limits
  <2> QED
    BY <2>1 DEF TimerIInv, TypeOK
<1>2. FlowInv'
  BY DEF TimerIInv, TypeOK, FlowInv
<1>3. ArmInv'
  BY DEF TimerIInv, TypeOK, FlowInv, ArmInv, Programmed, Ahead
<1>4. WatchInv'
  BY DEF TimerIInv, TypeOK, FlowInv, ArmInv, WatchInv, Entered, Programmed, Ahead
<1> QED
  BY <1>1, <1>2, <1>3, <1>4 DEF TimerIInv

(* It looks for a vector. *)
LEMMA ReadVectorStep ==
  ASSUME TimerIInv, ReadVector
  PROVE  TimerIInv'
PROOF
<1> USE Limits DEF ReadVector, hw, registered
<1>1. TypeOK'
  <2>1. spent' \in 0 .. MaskLimit
    BY DEF TimerIInv, TypeOK
  <2>2. guard' \in 0 .. Guard
    BY DEF TimerIInv, TypeOK
  <2> HIDE Limits
  <2>3. /\ TypeOK
        /\ UNCHANGED <<count, match, latch, enabled, dog, phase, base, clock, schedClock,
                       periodic, irqCount, now, fresh>>
    BY DEF TimerIInv
  <2>4. pc' \in {"mask", "idle"} /\ irqsOn' \in BOOLEAN
    BY <2>3 DEF ReadVector, TypeOK
  <2> HIDE DEF ReadVector
  <2> QED
    BY <2>1, <2>2, <2>3, <2>4 DEF TypeOK
<1>2. FlowInv'
  BY DEF TimerIInv, TypeOK, FlowInv
<1>3. ArmInv'
  BY DEF TimerIInv, TypeOK, FlowInv, ArmInv, Programmed, Ahead
<1>4. WatchInv'
  BY DEF TimerIInv, TypeOK, FlowInv, ArmInv, WatchInv, Entered, Programmed, Ahead
<1> QED
  BY <1>1, <1>2, <1>3, <1>4 DEF TimerIInv

(* It masks the route. *)
LEMMA IrqMaskStep ==
  ASSUME TimerIInv, IrqMask
  PROVE  TimerIInv'
PROOF
<1> USE Limits DEF IrqMask, hw, registered
<1>1. TypeOK'
  BY DEF TimerIInv, TypeOK
<1>2. FlowInv'
  BY DEF TimerIInv, TypeOK, FlowInv
<1>3. ArmInv'
  BY DEF TimerIInv, TypeOK, FlowInv, ArmInv, Programmed, Ahead
<1>4. WatchInv'
  BY DEF TimerIInv, TypeOK, FlowInv, ArmInv, WatchInv, Entered, Programmed, Ahead
<1> QED
  BY <1>1, <1>2, <1>3, <1>4 DEF TimerIInv

(* It acknowledges the match and services the watchdog. *)
LEMMA IrqAckStep ==
  ASSUME TimerIInv, IrqAck
  PROVE  TimerIInv'
PROOF
<1> USE Limits DEF IrqAck, Pet, hw, registered
<1>1. TypeOK'
  <2>1. dog' \in 0 .. WatchdogLimit
    BY DEF TimerIInv, TypeOK
  <2> HIDE Limits
  <2> QED
    BY <2>1 DEF TimerIInv, TypeOK
<1>2. FlowInv'
  BY DEF TimerIInv, TypeOK, FlowInv
<1>3. ArmInv'
  BY DEF TimerIInv, TypeOK, FlowInv, ArmInv, Programmed, Ahead
<1>4. WatchInv'
  BY DEF TimerIInv, TypeOK, FlowInv, ArmInv, WatchInv, Entered, Programmed, Ahead
<1> QED
  BY <1>1, <1>2, <1>3, <1>4 DEF TimerIInv

(* It makes the tick. *)
LEMMA TickStep ==
  ASSUME TimerIInv, Tick
  PROVE  TimerIInv'
PROOF
<1> USE Limits DEF Tick, hw, registered
<1>1. TypeOK'
  BY DEF TimerIInv, TypeOK
<1>2. FlowInv'
  BY DEF TimerIInv, TypeOK, FlowInv
<1>3. ArmInv'
  BY DEF TimerIInv, TypeOK, FlowInv, ArmInv, Programmed, Ahead
<1>4. WatchInv'
  BY DEF TimerIInv, TypeOK, FlowInv, ArmInv, WatchInv, Entered, Programmed, Ahead
<1> QED
  BY <1>1, <1>2, <1>3, <1>4 DEF TimerIInv

(* It unmasks the route. *)
LEMMA IrqUnmaskStep ==
  ASSUME TimerIInv, IrqUnmask
  PROVE  TimerIInv'
PROOF
<1> USE Limits DEF IrqUnmask, hw, registered
<1>1. TypeOK'
  BY DEF TimerIInv, TypeOK
<1>2. FlowInv'
  BY DEF TimerIInv, TypeOK, FlowInv
<1>3. ArmInv'
  BY DEF TimerIInv, TypeOK, FlowInv, ArmInv, Programmed, Ahead
<1>4. WatchInv'
  BY DEF TimerIInv, TypeOK, FlowInv, ArmInv, WatchInv, Entered, Programmed, Ahead
<1> QED
  BY <1>1, <1>2, <1>3, <1>4 DEF TimerIInv

-----------------------------------------------------------------------------
(* The theorems *)

(* Every step, or none, keeps the invariant. *)
LEMMA NextStep ==
  ASSUME TimerIInv, [Next]_vars
  PROVE  TimerIInv'
PROOF
<1>1. CASE Elapse
  BY <1>1, ElapseStep
<1>2. CASE ReadCount
  BY <1>2, ReadCountStep
<1>3. CASE WriteMatch
  BY <1>3, WriteMatchStep
<1>4. CASE Polled
  BY <1>4, PolledStep
<1>5. CASE MapBase
  BY <1>5, MapBaseStep
<1>6. CASE RegisterClocks
  BY <1>6, RegisterClocksStep
<1>7. CASE RequestIrq
  BY <1>7, RequestIrqStep
<1>8. CASE EnableIrqs
  BY <1>8, EnableIrqsStep
<1>9. CASE MaskIrqs
  BY <1>9, MaskIrqsStep
<1>10. CASE UnmaskIrqs
  BY <1>10, UnmaskIrqsStep
<1>11. CASE TakeInterrupt
  BY <1>11, TakeInterruptStep
<1>12. CASE ReadVector
  BY <1>12, ReadVectorStep
<1>13. CASE IrqMask
  BY <1>13, IrqMaskStep
<1>14. CASE IrqAck
  BY <1>14, IrqAckStep
<1>15. CASE Tick
  BY <1>15, TickStep
<1>16. CASE IrqUnmask
  BY <1>16, IrqUnmaskStep
<1>17. CASE UNCHANGED vars
  BY <1>17 DEF vars, hw, registered, TimerIInv, TypeOK, FlowInv, ArmInv, WatchInv, Programmed,
       Ahead, Entered
<1> QED
  BY <1>1, <1>2, <1>3, <1>4, <1>5, <1>6, <1>7, <1>8, <1>9, <1>10,
     <1>11, <1>12, <1>13, <1>14, <1>15, <1>16, <1>17
     DEF Next, Program, Probe, Handler

(* The inductive invariant: where probe and handler are, the distance of    *)
(* the next match, and the budget of the watchdog.                          *)
THEOREM SpecTimerIInv == Spec => []TimerIInv
PROOF
<1>1. Init => TimerIInv
  BY InitStep
<1>2. TimerIInv /\ [Next]_vars => TimerIInv'
  BY NextStep
<1> QED
  BY <1>1, <1>2, PTL DEF Spec

(* Outside the handler the next tick is latched or at most a period ahead:  *)
(* the reload never writes a match behind the counter, wherever the counter *)
(* wraps and for every width of it.                                         *)
THEOREM SpecTimerInv == Spec => []TimerInv
PROOF
<1>1. TimerIInv => TimerInv
  BY DEF TimerIInv, TimerInv, NextTickArmed, ArmInv, Programmed, InHandler
<1> QED
  BY <1>1, SpecTimerIInv, PTL

(* From the first timer interrupt on the watchdog never runs out, if it     *)
(* waits for longer than a period and three masked stretches.               *)
THEOREM SpecWatchdogFed == Spec => []WatchdogFed
PROOF
<1>1. TimerIInv => WatchdogFed
  <2> SUFFICES ASSUME TimerIInv, irqCount > 0 PROVE dog < WatchdogLimit
    BY DEF WatchdogFed
  <2>1. dog \in Nat /\ spent \in Nat /\ spent =< MaskLimit /\ Ahead \in Int
    BY Limits DEF TimerIInv, TypeOK, Ahead, Word
  <2>2. CASE pc \in {"read", "load"}
    BY <2>1, <2>2, Limits DEF TimerIInv, WatchInv
  <2>3. CASE pc \notin {"read", "load"} /\ latch
    BY <2>1, <2>3, Limits DEF TimerIInv, WatchInv
  <2>4. CASE pc \notin {"read", "load"} /\ ~latch
    <3>1. Ahead > 0
      BY <2>4 DEF TimerIInv, FlowInv, ArmInv, Programmed
    <3> QED
      BY <2>1, <2>4, <3>1, Limits DEF TimerIInv, WatchInv
  <2> QED
    BY <2>2, <2>3, <2>4
<1> QED
  BY <1>1, SpecTimerIInv, PTL

(* A match is acknowledged, counted and made a tick once: the handler comes *)
(* to its acknowledge only with a match latched since the last one.         *)
THEOREM SpecOneTickPerMatch == Spec => OneTickPerMatch
PROOF
<1>1. TimerIInv /\ [Next]_vars => [pc = "ack" /\ pc' # "ack" => fresh]_vars
  BY DEF TimerIInv, FlowInv
<1> QED
  BY <1>1, SpecTimerIInv, PTL DEF Spec, OneTickPerMatch
=============================================================================
