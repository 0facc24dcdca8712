----------------------------- MODULE DiagBridge -----------------------------
(***************************************************************************)
(* How Linux calls the resident ARMPRG runtime (timer-shadow-msm.c).       *)
(*                                                                         *)
(* The runtime is firmware code at 0x008xxxxx.  It polls the USB device,   *)
(* is not re-entrant, and is fully mapped only by init_mm's page table.    *)
(* shadow_msm_diag_emit(), _receive() and _input_reset() therefore mask    *)
(* interrupts, replace the translation table base by init_mm's when the    *)
(* active one differs, do their access, and put both back.  They are       *)
(* called by user tasks inside system calls, by kernel workers (which run  *)
(* on whatever page table the last user task left), from printk, and from  *)
(* the exception paths on which interrupts are masked already.  Before     *)
(* PID 1 owns a page table, kernel_init() also calls the runtime directly, *)
(* with neither the lock nor the mask (patch 0001, shadow_msm_c_trace).    *)
(*                                                                         *)
(* The kernel is uniprocessor and PREEMPT_NONE (k3765_probe.config): a     *)
(* spinlock is only its interrupt mask, a task in the kernel runs until it *)
(* sleeps, and the one thing that can break in is the timer interrupt.     *)
(***************************************************************************)
EXTENDS FiniteSets

CONSTANTS PidOne,    (* kernel_init(), then the process that execs /init     *)
          Children,  (* user tasks PID 1 may fork                            *)
          Kworkers,  (* kernel threads: no page table of their own           *)
          InitPgd,   (* init_mm.pgd                                          *)
          NoMm       (* a task without an address space                      *)

Users == {PidOne} \cup Children
Tasks == Users \cup Kworkers

ASSUME BridgeAssumption ==
  /\ PidOne \notin Children \cup Kworkers
  /\ Children \cap Kworkers = {}
  /\ InitPgd \notin Users /\ NoMm \notin Users \cup {InitPgd}

VARIABLES
  cur,       (* the current task                                             *)
  mode,      (* where the current task is: in user mode, in the kernel, or   *)
             (* on the way in ("entry") or out ("returning", "leaving")      *)
  mm,        (* each task's page table, NoMm for kernel threads and for      *)
             (* children not forked yet; a user task's is named after it     *)
  active,    (* the page table of current->active_mm: a kernel thread keeps  *)
             (* that of the user task before it                              *)
  ttbr,      (* the page table the CPU uses                                  *)
  irqsOn,    (* the CPU takes interrupts                                     *)
  hardirq,   (* the timer interrupt is running on top of the current task    *)
  at,        (* how far each context is in a bridge call                     *)
  op,        (* which call it is                                             *)
  saved,     (* saved_ttbr                                                   *)
  borrowed,  (* borrowed_init_mm                                             *)
  flags,     (* the interrupt state raw_spin_lock_irqsave() put aside        *)
  userReturnSeen, firstSyscallSeen

sched == <<cur, mode, mm, active>>
seen == <<userReturnSeen, firstSyscallSeen>>
locals == <<op, saved, borrowed, flags>>
bridgeVars == <<sched, ttbr, irqsOn, hardirq, at, locals, seen>>

-----------------------------------------------------------------------------
Contexts == {"task", "irq"}
Running == IF hardirq THEN "irq" ELSE "task"
Pgds == Users \cup {InitPgd}
Ops == {"emit", "receive", "reset", "direct"}
Steps == {"out", "lock", "map", "call", "busy", "access", "unmap", "unlock"}

(* Between raw_spin_lock_irqsave() and raw_spin_unlock_irqrestore(). *)
InWindow(c) == at[c] \in Steps \ {"out", "lock"} /\ op[c] # "direct"
(* Executing firmware code, or reading and writing the mailbox words.       *)
InRuntime(c) == at[c] \in {"busy", "access"}

(* The kernel-mode code of the current task, outside the bridge. *)
InKernel == mode = "kernel" /\ ~hardirq /\ at["task"] = "out"

Runnable(t) == t \in Kworkers \cup {PidOne} \/ mm[t] # NoMm

-----------------------------------------------------------------------------
BridgeInit == /\ cur = PidOne /\ mode = "kernel"
        /\ mm = [t \in Tasks |-> NoMm]
        /\ active = InitPgd /\ ttbr = InitPgd
        /\ irqsOn = TRUE /\ hardirq = FALSE
        /\ at = [c \in Contexts |-> "out"]
        /\ op = [c \in Contexts |-> "emit"]
        /\ saved = [c \in Contexts |-> InitPgd]
        /\ borrowed = [c \in Contexts |-> FALSE]
        /\ flags = [c \in Contexts |-> TRUE]
        /\ userReturnSeen = FALSE /\ firstSyscallSeen = FALSE

Enter(c, o) ==
  /\ at[c] = "out"
  /\ at' = [at EXCEPT ![c] = "lock"]
  /\ op' = [op EXCEPT ![c] = o]
  /\ UNCHANGED <<saved, borrowed, flags>>

(* A driver or system call: TTY and /dev/shadowtrace reads, writes, resets. *)
KernelCall(o) ==
  /\ InKernel
  /\ Enter("task", o)
  /\ UNCHANGED <<sched, ttbr, irqsOn, hardirq, seen>>

(* Mutant of ConsoleWrite: printk() is passed on from interrupts too. *)
ConsoleWriteAlways ==
  /\ mode = "kernel" \/ hardirq
  /\ Enter(Running, "emit")
  /\ UNCHANGED <<sched, ttbr, irqsOn, hardirq, seen>>

(* shadow_console_write(): printk() may come from any context, and what it  *)
(* brings from an interrupt is dropped.                                     *)
ConsoleWrite ==
  /\ mode = "kernel" \/ hardirq          \* kernel code is running
  /\ ~hardirq                            \* if (in_interrupt()) return;
  /\ Enter(Running, "emit")
  /\ UNCHANGED <<sched, ttbr, irqsOn, hardirq, seen>>

(* shadow_msm_c_trace() in kernel_init(): a failed exec comes back here.    *)
DirectTrace ==
  /\ InKernel
  /\ cur = PidOne /\ mm[PidOne] = NoMm
  /\ at' = [at EXCEPT !["task"] = "busy"]
  /\ op' = [op EXCEPT !["task"] = "direct"]
  /\ UNCHANGED <<sched, ttbr, irqsOn, hardirq, saved, borrowed, flags, seen>>

-----------------------------------------------------------------------------
(* The bridge itself, in context c. *)

(* Mutant of LockIrqsave: raw_spin_lock() for raw_spin_lock_irqsave(). *)
LockOnly(c) ==
  /\ c = Running /\ at[c] = "lock"
  /\ flags' = [flags EXCEPT ![c] = irqsOn]
  /\ at' = [at EXCEPT ![c] = "map"]
  /\ UNCHANGED <<sched, ttbr, irqsOn, hardirq, op, saved, borrowed, seen>>

LockIrqsave(c) ==
  /\ c = Running /\ at[c] = "lock"
  /\ flags' = [flags EXCEPT ![c] = irqsOn]
  /\ irqsOn' = FALSE
  /\ at' = [at EXCEPT ![c] = "map"]
  /\ UNCHANGED <<sched, ttbr, hardirq, op, saved, borrowed, seen>>

(* Mutants of BorrowInitMm: kernel threads are taken to run on init_mm;     *)
(* what is put aside is current's page table and not the TTBR.              *)
BorrowForUsers(c) ==
  /\ c = Running /\ at[c] = "map"
  /\ saved' = [saved EXCEPT ![c] = ttbr]
  /\ borrowed' = [borrowed EXCEPT ![c] = mm[cur] # NoMm]
  /\ ttbr' = IF mm[cur] # NoMm THEN InitPgd ELSE ttbr
  /\ at' = [at EXCEPT ![c] = IF op[c] = "reset" THEN "access" ELSE "call"]
  /\ UNCHANGED <<sched, irqsOn, hardirq, op, flags, seen>>

(* Read the TTBR and install init_mm's page table if another is active. *)
BorrowInitMm(c) ==
  /\ c = Running /\ at[c] = "map"
  /\ saved' = [saved EXCEPT ![c] = ttbr]
  /\ borrowed' = [borrowed EXCEPT ![c] = ttbr # InitPgd]
  /\ ttbr' = IF ttbr # InitPgd THEN InitPgd ELSE ttbr
  /\ at' = [at EXCEPT ![c] = IF op[c] = "reset" THEN "access" ELSE "call"]
  /\ UNCHANGED <<sched, irqsOn, hardirq, op, flags, seen>>

EnterRuntime(c) ==
  /\ c = Running /\ at[c] = "call"
  /\ at' = [at EXCEPT ![c] = "busy"]
  /\ UNCHANGED <<sched, ttbr, irqsOn, hardirq, locals, seen>>

(* Back from the firmware: a receive goes on to the mailbox. *)
LeaveRuntime(c) ==
  /\ c = Running /\ at[c] = "busy"
  /\ at' = [at EXCEPT ![c] = CASE op[c] = "direct" -> "out"
                               [] op[c] = "receive" -> "access"
                               [] OTHER -> "unmap"]
  /\ UNCHANGED <<sched, ttbr, irqsOn, hardirq, locals, seen>>

UseMailbox(c) ==
  /\ c = Running /\ at[c] = "access"
  /\ at' = [at EXCEPT ![c] = "unmap"]
  /\ UNCHANGED <<sched, ttbr, irqsOn, hardirq, locals, seen>>

(* Mutant of ReturnInitMm: only a task with an address space of its own     *)
(* gets it back.                                                            *)
ReturnToUsers(c) ==
  /\ c = Running /\ at[c] = "unmap"
  /\ ttbr' = IF mm[cur] # NoMm THEN mm[cur] ELSE ttbr
  /\ at' = [at EXCEPT ![c] = "unlock"]
  /\ UNCHANGED <<sched, irqsOn, hardirq, locals, seen>>

ReturnInitMm(c) ==
  /\ c = Running /\ at[c] = "unmap"
  /\ ttbr' = IF borrowed[c] THEN saved[c] ELSE ttbr
  /\ at' = [at EXCEPT ![c] = "unlock"]
  /\ UNCHANGED <<sched, irqsOn, hardirq, locals, seen>>

(* Mutant of UnlockIrqrestore: raw_spin_unlock_irq(). *)
UnlockIrq(c) ==
  /\ c = Running /\ at[c] = "unlock"
  /\ irqsOn' = TRUE
  /\ at' = [at EXCEPT ![c] = "out"]
  /\ UNCHANGED <<sched, ttbr, hardirq, locals, seen>>

UnlockIrqrestore(c) ==
  /\ c = Running /\ at[c] = "unlock"
  /\ irqsOn' = flags[c]
  /\ at' = [at EXCEPT ![c] = "out"]
  /\ UNCHANGED <<sched, ttbr, hardirq, locals, seen>>

-----------------------------------------------------------------------------
(* The timer interrupt.  Its handler services the watchdog, reprograms the  *)
(* timer and runs the tick; it may printk (ConsoleWrite).                   *)
Interrupt ==
  /\ irqsOn /\ ~hardirq
  /\ hardirq' = TRUE /\ irqsOn' = FALSE
  /\ UNCHANGED <<sched, ttbr, at, locals, seen>>

InterruptReturn ==
  /\ hardirq /\ at["irq"] = "out"
  /\ hardirq' = FALSE /\ irqsOn' = TRUE
  /\ UNCHANGED <<sched, ttbr, at, locals, seen>>

(* kernel_init() becomes PID 1's user process: exec_mmap() switches to the  *)
(* new page table.                                                          *)
Exec ==
  /\ InKernel /\ irqsOn
  /\ cur = PidOne /\ mm[PidOne] = NoMm
  /\ mm' = [mm EXCEPT ![PidOne] = PidOne]
  /\ active' = PidOne /\ ttbr' = PidOne
  /\ UNCHANGED <<cur, mode, irqsOn, hardirq, at, locals, seen>>

Fork(u) ==
  /\ InKernel /\ irqsOn
  /\ mm[cur] # NoMm /\ mm[u] = NoMm
  /\ mm' = [mm EXCEPT ![u] = u]
  /\ UNCHANGED <<cur, mode, active, ttbr, irqsOn, hardirq, at, locals, seen>>

(* The current task sleeps and the scheduler picks t.  Only a task with an  *)
(* address space of its own changes the TTBR, and switch_mm() leaves it     *)
(* alone when that address space is the active one already: what a kernel   *)
(* thread does to the TTBR, the next user task may inherit.                 *)
Switch(t) ==
  /\ InKernel /\ irqsOn
  /\ t # cur /\ Runnable(t)
  /\ cur' = t
  /\ active' = IF mm[t] # NoMm THEN mm[t] ELSE active
  /\ ttbr' = IF active' # active THEN active' ELSE ttbr
  /\ UNCHANGED <<mode, mm, irqsOn, hardirq, at, locals, seen>>

(* ret_to_user masks interrupts, then calls the checkpoint hook. *)
DisableForReturn ==
  /\ InKernel /\ mm[cur] # NoMm
  /\ irqsOn' = FALSE
  /\ mode' = "returning"
  /\ UNCHANGED <<cur, mm, active, ttbr, hardirq, at, locals, seen>>

UserReturnCheckpoint ==
  /\ mode = "returning"
  /\ mode' = "leaving"
  /\ userReturnSeen' = TRUE
  /\ IF userReturnSeen THEN UNCHANGED <<at, locals>> ELSE Enter("task", "emit")
  /\ UNCHANGED <<cur, mm, active, ttbr, irqsOn, hardirq, firstSyscallSeen>>

ReturnToUser ==
  /\ mode = "leaving" /\ at["task"] = "out"
  /\ mode' = "user" /\ irqsOn' = TRUE
  /\ UNCHANGED <<cur, mm, active, ttbr, hardirq, at, locals, seen>>

(* vector_swi re-enables interrupts, then calls the checkpoint hook. *)
EnterKernel ==
  /\ mode = "user" /\ ~hardirq
  /\ mode' = "entry"
  /\ UNCHANGED <<cur, mm, active, ttbr, irqsOn, hardirq, at, locals, seen>>

FirstSyscallCheckpoint ==
  /\ mode = "entry" /\ ~hardirq
  /\ mode' = "kernel"
  /\ firstSyscallSeen' = TRUE
  /\ IF firstSyscallSeen THEN UNCHANGED <<at, locals>> ELSE Enter("task", "emit")
  /\ UNCHANGED <<cur, mm, active, ttbr, irqsOn, hardirq, userReturnSeen>>

BridgeStep(c) == \/ LockIrqsave(c) \/ BorrowInitMm(c) \/ EnterRuntime(c)
                 \/ LeaveRuntime(c) \/ UseMailbox(c) \/ ReturnInitMm(c)
                 \/ UnlockIrqrestore(c)

BridgeNext ==
  \/ \E o \in {"emit", "receive", "reset"} : KernelCall(o)
  \/ ConsoleWrite
  \/ DirectTrace
  \/ \E c \in Contexts : BridgeStep(c)
  \/ Interrupt \/ InterruptReturn
  \/ Exec
  \/ \E u \in Children : Fork(u)
  \/ \E t \in Tasks : Switch(t)
  \/ DisableForReturn \/ UserReturnCheckpoint \/ ReturnToUser
  \/ EnterKernel \/ FirstSyscallCheckpoint

BridgeSpec == BridgeInit /\ [][BridgeNext]_bridgeVars

-----------------------------------------------------------------------------
BridgeTypeOK ==
  /\ cur \in Tasks
  /\ mode \in {"user", "entry", "kernel", "returning", "leaving"}
  /\ mm \in [Tasks -> Users \cup {NoMm}]
  /\ active \in Pgds /\ ttbr \in Pgds
  /\ irqsOn \in BOOLEAN /\ hardirq \in BOOLEAN
  /\ at \in [Contexts -> Steps] /\ op \in [Contexts -> Ops]
  /\ saved \in [Contexts -> Pgds]
  /\ borrowed \in [Contexts -> BOOLEAN] /\ flags \in [Contexts -> BOOLEAN]
  /\ userReturnSeen \in BOOLEAN /\ firstSyscallSeen \in BOOLEAN

(* Firmware code runs, and the mailbox is touched, only while init_mm's     *)
(* page table is active: in the bridge, and in the direct trace calls that  *)
(* rely on PID 1 having no page table yet (patches 0005, 0007 and 0008 are  *)
(* the boots in which this failed).                                         *)
RuntimeMapped == \A c \in Contexts : InRuntime(c) => ttbr = InitPgd

(* The firmware transport is never entered while a call is inside it        *)
(* (shadow_timer_interrupt's comment: "not re-entrant").                    *)
NotReentered == ~(InRuntime("task") /\ InRuntime("irq"))

(* Interrupts stay masked while the page table is borrowed.                 *)
WindowMasked ==
  \A c \in Contexts : InWindow(c) => ~irqsOn /\ c = Running

(* Outside the bridge the CPU is on the page table the scheduler believes   *)
(* it is on, and a user task is on its own, whoever called the bridge       *)
(* before and however often the CPU was switched.                           *)
OwnAddressSpace ==
  ~InWindow("task") /\ ~InWindow("irq") =>
    ttbr = active /\ (mm[cur] # NoMm => ttbr = mm[cur])

(* The bridge gives interrupts back as it found them: the exception return  *)
(* path stays masked across its checkpoint, everything else runs unmasked.  *)
IrqDiscipline ==
  ~hardirq /\ ~InWindow("task") => irqsOn = (mode \notin {"returning", "leaving"})

(* The inductive strengthening the proofs use.                              *)
(* Who has an address space, and what runs before PID 1 has one. *)
MmInv ==
  /\ \A t \in Users : mm[t] \in {t, NoMm}
  /\ \A t \in Kworkers : mm[t] = NoMm
  /\ mm[PidOne] = NoMm => active = InitPgd /\ \A t \in Tasks : mm[t] = NoMm
  /\ mm[cur] # NoMm => active = mm[cur]
  /\ mode # "kernel" => mm[cur] # NoMm
(* Only the task context uses the bridge, and not from user mode. *)
ContextInv ==
  /\ at["irq"] = "out"
  /\ hardirq => ~irqsOn /\ ~InWindow("task")
  /\ mode \in {"returning", "leaving"} => ~hardirq
  /\ mode \in {"user", "entry", "returning"} => at["task"] = "out"
  /\ at["task"] # "out" /\ op["task"] = "direct" =>
       /\ at["task"] = "busy" /\ mm[PidOne] = NoMm /\ mode = "kernel"
(* What a call in progress has put aside, and which table it left active. *)
WindowInv ==
  InWindow("task") =>
    /\ ~irqsOn
    /\ flags["task"] = (mode \notin {"returning", "leaving"})
    /\ at["task"] \in {"map", "unlock"} => ttbr = active
    /\ at["task"] \in {"call", "busy", "access", "unmap"} =>
         /\ ttbr = InitPgd
         /\ borrowed["task"] = (saved["task"] # InitPgd)
         /\ saved["task"] = active
BridgeInv == /\ BridgeTypeOK /\ MmInv /\ ContextInv /\ WindowInv
             /\ OwnAddressSpace /\ IrqDiscipline
=============================================================================
