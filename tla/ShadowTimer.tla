----------------------------- MODULE ShadowTimer -----------------------------
(***************************************************************************)
(* The MSM6290 timer, its interrupt route and the watchdog, as             *)
(* timer-shadow-msm.c drives them: the probe with its error paths, the     *)
(* level interrupt flow, and the periodic reload that is computed from a   *)
(* free-running counter read, match = now + delta, on w-bit words.         *)
(*                                                                         *)
(* NO_HZ_IDLE and HIGH_RES_TIMERS are off (k3765_probe.config), so the     *)
(* clockevents core uses the periodic mode only; set_state_oneshot and     *)
(* set_next_event are never called.                                        *)
(*                                                                         *)
(* Time is the counter.  It passes between any two steps, but a pending    *)
(* interrupt is taken at once, code that masks interrupts is bounded by    *)
(* MaskLimit counts, and the few instructions between reading the counter  *)
(* and writing the match by LoadLimit.                                     *)
(***************************************************************************)
EXTENDS Integers

CONSTANTS
  Modulus,     (* 2^32: counter and match words wrap here                    *)
  Rate,        (* SHADOW_MSM_TIMER_RATE: the first match                     *)
  Period,      (* DIV_ROUND_CLOSEST(RATE, HZ)                                *)
  MinDelta,    (* SHADOW_MSM_TIMER_MIN_DELTA                                 *)
  Guard,       (* dispatches per interrupt entry: 8                          *)
  MaskLimit, LoadLimit,
  WatchdogLimit  (* counts after which the board resets itself               *)

ASSUME TimerAssumption ==
  /\ {Modulus, Rate, Period, MinDelta, Guard, MaskLimit, LoadLimit,
      WatchdogLimit} \subseteq Nat
  /\ LoadLimit =< MaskLimit /\ LoadLimit < MinDelta
  /\ MinDelta =< Period /\ Period =< Rate
  /\ Rate < Modulus
  /\ Guard > 0
  /\ WatchdogLimit > Period + 3 * MaskLimit

VARIABLES
  count, match,     (* the counter and match registers                       *)
  latch, enabled,   (* the timer's bit in BANK1_RAW and BANK1_MASK           *)
  dog,              (* counts since the watchdog was serviced                *)
  irqsOn,           (* the CPU takes interrupts                              *)
  phase,            (* how far shadow_timer_of_init() is                     *)
  base,             (* shadow_timer_base is mapped                           *)
  clock,            (* the clocksource is registered                         *)
  schedClock,       (* sched_clock() reads the counter                       *)
  periodic,         (* shadow_timer_periodic                                 *)
  irqCount,         (* shadow_timer_irq_count, saturating at 1               *)
  pc,               (* the step of the handler or of shadow_timer_program()  *)
  now, guard,       (* their locals                                          *)
  spent,            (* counts since the current masked stretch began         *)
  fresh             (* history: a match since the last acknowledge           *)

hw == <<count, match, latch, enabled>>
registered == <<base, clock, schedClock>>
vars == <<hw, dog, irqsOn, phase, registered, periodic, irqCount, pc, now,
          guard, spent, fresh>>

-----------------------------------------------------------------------------
Deliverable == irqsOn /\ latch /\ enabled
InHandler == pc \in {"vector", "mask", "ack", "event", "unmask"}
             \/ (phase = "running" /\ pc \in {"read", "load", "poll"})

(* Firmware left the timer as it was. *)
Init == /\ count \in 0 .. Modulus - 1 /\ match = 0
        /\ latch \in BOOLEAN /\ enabled = FALSE
        /\ dog = 0 /\ irqsOn = FALSE
        /\ phase = "map" /\ base = FALSE /\ clock = FALSE
        /\ schedClock = FALSE /\ periodic = FALSE /\ irqCount = 0
        /\ pc = "idle" /\ now = 0 /\ guard = 0 /\ spent = 0
        /\ fresh = latch

(* shadow_msm_watchdog_service(), where the timer block is mapped. *)
Pet == dog' = IF base THEN 0 ELSE dog

(* One count.  The comparator latches the interrupt when it meets the match. *)
Elapse ==
  /\ ~Deliverable
  /\ irqsOn \/ spent < (IF pc = "load" THEN LoadLimit ELSE MaskLimit)
  /\ count' = (count + 1) % Modulus
  /\ latch' = (latch \/ count' = match)
  /\ fresh' = (fresh \/ count' = match)
  /\ dog' = IF dog < WatchdogLimit THEN dog + 1 ELSE dog
  /\ spent' = IF irqsOn THEN 0 ELSE spent + 1
  /\ UNCHANGED <<match, enabled, irqsOn, phase, registered, periodic,
                 irqCount, pc, now, guard>>

-----------------------------------------------------------------------------
(* shadow_timer_program(delta), in its three calls: the probe's first       *)
(* match, set_state_periodic and the interrupt.                             *)
Delta == LET delta == IF phase = "first" THEN Rate ELSE Period
         IN IF delta < MinDelta THEN MinDelta ELSE delta

ReadCount ==
  /\ pc = "read"
  /\ now' = count
  /\ pc' = "load"
  /\ spent' = 0
  /\ UNCHANGED <<hw, dog, irqsOn, phase, registered, periodic, irqCount,
                 guard, fresh>>

WriteMatch ==
  /\ pc = "load"
  /\ match' = (now + Delta) % Modulus
  /\ pc' = "poll"
  /\ UNCHANGED <<count, latch, enabled, dog, irqsOn, phase, registered,
                 periodic, irqCount, now, guard, spent, fresh>>

(* The status bit comes within 1024 reads, or -ETIME.  The probe gives up:  *)
(* unregister_clocksource, then unmap.  The interrupt ignores the result,   *)
(* and so does the core, which has set the handler already.                 *)
Polled ==
  /\ pc = "poll"
  /\ \/ /\ phase = "first"
        /\ pc' = "idle" /\ phase' = "request"
        /\ UNCHANGED registered
     \/ /\ phase = "first"                                       (* -ETIME *)
        /\ pc' = "idle" /\ phase' = "failed"
        /\ clock' = FALSE /\ base' = FALSE
        /\ UNCHANGED schedClock
     \/ /\ phase = "periodic"
        /\ pc' = "idle" /\ phase' = "boot"
        /\ UNCHANGED registered
     \/ /\ phase = "running"
        /\ pc' = "event"
        /\ UNCHANGED <<phase, registered>>
  /\ UNCHANGED <<hw, dog, irqsOn, periodic, irqCount, now, guard, spent, fresh>>

-----------------------------------------------------------------------------
(* shadow_timer_of_init(), with interrupts still off.  Each step may fail.  *)

MapBase ==
  /\ phase = "map"
  /\ \/ base' = TRUE /\ dog' = 0 /\ phase' = "clocksource"
     \/ phase' = "failed" /\ UNCHANGED <<base, dog>>
  /\ spent' = 0
  /\ UNCHANGED <<hw, irqsOn, clock, schedClock, periodic, irqCount, pc, now,
                 guard, fresh>>

(* irq_of_parse_and_map() or clocksource_register_hz() fails: goto unmap.   *)
(* Otherwise register sched_clock, clear the latch, program the first match.*)
RegisterClocks ==
  /\ phase = "clocksource"
  /\ \/ /\ clock' = TRUE /\ schedClock' = TRUE
        /\ latch' = FALSE /\ fresh' = FALSE
        /\ phase' = "first" /\ pc' = "read"
        /\ UNCHANGED base
     \/ /\ base' = FALSE /\ phase' = "failed"
        /\ UNCHANGED <<clock, schedClock, latch, fresh, pc>>
  /\ spent' = 0
  /\ UNCHANGED <<count, match, enabled, dog, irqsOn, periodic, irqCount, now,
                 guard>>

(* request_irq() unmasks the route; registering the clockevent device shuts *)
(* it down, sets its handler and switches it to periodic mode.              *)
RequestIrq ==
  /\ phase = "request"
  /\ \/ /\ enabled' = TRUE
        /\ phase' = "periodic" /\ periodic' = TRUE /\ pc' = "read"
        /\ UNCHANGED registered
     \/ /\ clock' = FALSE /\ base' = FALSE /\ phase' = "failed"
        /\ UNCHANGED <<enabled, periodic, schedClock, pc>>
  /\ spent' = 0
  /\ UNCHANGED <<count, match, latch, dog, irqsOn, irqCount, now, guard, fresh>>

(* start_kernel(): local_irq_enable() *)
EnableIrqs ==
  /\ phase = "boot"
  /\ phase' = "running" /\ irqsOn' = TRUE /\ spent' = 0
  /\ UNCHANGED <<hw, dog, registered, periodic, irqCount, pc, now, guard, fresh>>

-----------------------------------------------------------------------------
(* Linux masks interrupts for a while: a diagnostic bridge call (which      *)
(* services the watchdog before and after) or any other critical section.   *)
MaskIrqs ==
  /\ phase = "running" /\ pc = "idle" /\ irqsOn /\ ~Deliverable
  /\ irqsOn' = FALSE /\ spent' = 0
  /\ Pet \/ UNCHANGED dog
  /\ UNCHANGED <<hw, phase, registered, periodic, irqCount, pc, now, guard,
                 fresh>>
UnmaskIrqs ==
  /\ phase = "running" /\ pc = "idle" /\ ~irqsOn
  /\ irqsOn' = TRUE /\ spent' = 0
  /\ Pet \/ UNCHANGED dog
  /\ UNCHANGED <<hw, phase, registered, periodic, irqCount, pc, now, guard,
                 fresh>>

-----------------------------------------------------------------------------
(* The interrupt: shadow_handle_irq(), handle_level_irq(),                  *)
(* shadow_timer_interrupt().                                                *)

TakeInterrupt ==
  /\ Deliverable /\ phase = "running" /\ pc = "idle"
  /\ irqsOn' = FALSE /\ spent' = 0
  /\ pc' = "vector" /\ guard' = 0
  /\ UNCHANGED <<hw, dog, phase, registered, periodic, irqCount, now, fresh>>

(* The active vector: the timer's, or the spurious one when the route is    *)
(* quiet.                                                                   *)
ReadVector ==
  /\ pc = "vector"
  /\ IF guard < Guard /\ latch /\ enabled
     THEN /\ pc' = "mask" /\ guard' = guard + 1
          /\ UNCHANGED <<irqsOn, spent>>
     ELSE /\ pc' = "idle" /\ irqsOn' = TRUE /\ spent' = 0
          /\ UNCHANGED guard
  /\ UNCHANGED <<hw, dog, phase, registered, periodic, irqCount, now, fresh>>

IrqMask ==
  /\ pc = "mask"
  /\ enabled' = FALSE
  /\ pc' = "ack"
  /\ UNCHANGED <<count, match, latch, dog, irqsOn, phase, registered, periodic,
                 irqCount, now, guard, spent, fresh>>

(* Mutants of IrqAck: the latch is not cleared; the watchdog is not         *)
(* serviced.                                                                *)
IrqAckNothing ==
  /\ pc = "ack"
  /\ irqCount' = 1
  /\ Pet
  /\ pc' = IF periodic THEN "read" ELSE "event"
  /\ fresh' = FALSE
  /\ UNCHANGED <<hw, irqsOn, phase, registered, periodic, now, guard, spent>>
IrqAckNoPet ==
  /\ pc = "ack"
  /\ latch' = FALSE /\ fresh' = FALSE
  /\ irqCount' = 1
  /\ pc' = IF periodic THEN "read" ELSE "event"
  /\ UNCHANGED <<count, match, enabled, dog, irqsOn, phase, registered,
                 periodic, now, guard, spent>>

(* Acknowledge, count, service the watchdog, and reload in periodic mode.   *)
IrqAck ==
  /\ pc = "ack"
  /\ latch' = FALSE /\ fresh' = FALSE
  /\ irqCount' = 1
  /\ Pet
  /\ pc' = IF periodic THEN "read" ELSE "event"
  /\ UNCHANGED <<count, match, enabled, irqsOn, phase, registered, periodic,
                 now, guard, spent>>

(* event->event_handler(event): tick_handle_periodic() *)
Tick ==
  /\ pc = "event"
  /\ pc' = "unmask"
  /\ UNCHANGED <<hw, dog, irqsOn, phase, registered, periodic, irqCount, now,
                 guard, spent, fresh>>

(* Mutants of IrqUnmask: the route stays masked; the latch is cleared here, *)
(* after the reload.                                                        *)
IrqUnmaskNever ==
  /\ pc = "unmask"
  /\ pc' = "vector"
  /\ UNCHANGED <<hw, dog, irqsOn, phase, registered, periodic, irqCount, now,
                 guard, spent, fresh>>

IrqUnmaskClears ==
  /\ pc = "unmask"
  /\ enabled' = TRUE /\ latch' = FALSE
  /\ pc' = "vector"
  /\ UNCHANGED <<count, match, dog, irqsOn, phase, registered, periodic,
                 irqCount, now, guard, spent, fresh>>

IrqUnmask ==
  /\ pc = "unmask"
  /\ enabled' = TRUE
  /\ pc' = "vector"
  /\ UNCHANGED <<count, match, latch, dog, irqsOn, phase, registered, periodic,
                 irqCount, now, guard, spent, fresh>>

-----------------------------------------------------------------------------
Program == ReadCount \/ WriteMatch \/ Polled
Probe == MapBase \/ RegisterClocks \/ RequestIrq \/ EnableIrqs
Handler == \/ TakeInterrupt \/ ReadVector \/ IrqMask \/ IrqAck
           \/ Tick \/ IrqUnmask
Next == Elapse \/ Program \/ Probe \/ MaskIrqs \/ UnmaskIrqs \/ Handler

(* The counter runs, the CPU goes on, and masked sections end. *)
Fairness == /\ WF_vars(Elapse) /\ WF_vars(Program \/ Probe \/ Handler)
            /\ WF_vars(UnmaskIrqs)
Spec == Init /\ [][Next]_vars /\ Fairness

-----------------------------------------------------------------------------
Word == 0 .. Modulus - 1
TypeOK ==
  /\ count \in Word /\ match \in Word /\ now \in Word
  /\ latch \in BOOLEAN /\ enabled \in BOOLEAN /\ irqsOn \in BOOLEAN
  /\ dog \in 0 .. WatchdogLimit
  /\ phase \in {"map", "clocksource", "first", "request", "periodic", "boot",
                "running", "failed"}
  /\ base \in BOOLEAN /\ clock \in BOOLEAN /\ schedClock \in BOOLEAN
  /\ periodic \in BOOLEAN /\ irqCount \in {0, 1}
  /\ pc \in {"idle", "read", "load", "poll",
             "vector", "mask", "ack", "event", "unmask"}
  /\ guard \in 0 .. Guard /\ spent \in 0 .. MaskLimit
  /\ fresh \in BOOLEAN

(* Outside the handler the next tick is latched already or the match is     *)
(* ahead of the counter by at most a period: it was never written behind    *)
(* the counter, which would silence the tick until the counter wraps.       *)
Ahead == (match - count) % Modulus
NextTickArmed ==
  phase = "running" /\ ~InHandler => latch \/ Ahead \in 1 .. Period

(* The timer's safety: the next tick is always on its way.                  *)
TimerInv == TypeOK /\ NextTickArmed

(* From the first timer interrupt on the watchdog is serviced in time,      *)
(* however the masked sections fall.                                        *)
WatchdogFed == irqCount > 0 => dog < WatchdogLimit

(* A match is acknowledged, counted and made a tick once: the loop of       *)
(* shadow_handle_irq() does not dispatch it again.                          *)
OneTickPerMatch == [][pc = "ack" /\ pc' # "ack" => fresh]_vars

(* Linux ticks for ever, through counter wraps and masked sections.         *)
TicksForever == [](phase = "running" => <>(pc = "event"))

(* timer-shadow-msm.c:438, "Bound the wait so a clockevent programming      *)
(* failure cannot wedge Linux": whatever fails in the probe, the clock that *)
(* Linux reads from then on is one it can read.                             *)
ClockReadable == clock \/ schedClock => base
=============================================================================
