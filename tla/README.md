# Shadow-MSM in TLA+

Shadow-MSM boots Linux on the ZTE K3765-Z USB modem (Qualcomm MSM6290, ARM926)
from RAM: a host tool puts four images into the modem's SDRAM through the
resident PBL downloader, starts a small monitor built out of the vendor's
ARMPRG programmer, and from there a boot loader (BL1) that checks the images
and enters Linux.  Linux has no USB driver.  It goes on using the monitor,
which stays resident in low RAM, as its only transport to the host: every
character it prints and every key it reads is a call into firmware code.

The modules in this directory model the parts of that system in which order,
sharing and failure matter.  Paths below are relative to the repository root.

## 1. Inventory

| Part | Source | State it keeps | Operations | Modelled in |
|---|---|---|---|---|
| Stage-0 monitor, mailbox | `work/build_armprg_stage0_monitor.py:250-290` | 256-byte ring, head, tail, magic at 0x008FF800 | command 0x1C/0x0E | `InputMailbox` |
| Stage-0 monitor, dispatcher | same, 83-238 | packet buffer, registers of the CRC loop | banner, register queries, CRC, call, rejection | `Stage0Monitor`, `SafeWindow`; a session's replies in `HostBoot` |
| Runtime bridge | `kernel/drivers/timer-shadow-msm.c:83-251`, patches 0001, 0004, 0005, 0007, 0008 | TTBR, interrupt mask, two "seen" flags | emit, receive, input reset, two entry checkpoints, direct trace | `DiagBridge` |
| ttySHM0 | `kernel/drivers/tty-shadow-msm.c` | `polling`, the delayed work, the flip buffer | activate, shutdown, poll, write, console write | `TtyConsole`, `DiagBridge` |
| /dev/shadowtrace | `timer-shadow-msm.c:567-670` | none | read, write, keepalive | `TtyConsole`, `DiagBridge` |
| Timer, interrupt route, watchdog | `timer-shadow-msm.c:284-563` | count, match, latch, mask, registrations | probe, program, interrupt, service | `ShadowTimer` |
| Host boot session | `outputs/k3765_linux_shell.py:458-783, 1103-1190` | attempt, chunk, current command, serial buffers | write, execute, query, CRC check, call | `HostBoot` |
| BL1 | `work/build_linux_image_bl1.py` | none | check image words, DTB, CPU state; jump or refuse | `HostBoot` |
| Host Linux console | `k3765_linux_shell.py:786-1010` | pending lines, live queue, two ready flags | follow, send, detach | `HostConsole` |
| HDLC framing | `k3765_linux_shell.py:105-124, 458-493` | bytes of the frame being read | frame, unframe, CRC-16, deadline, buffer reset | `HdlcFrame`, `HdlcStream` |
| Kit builder | `work/build_linux_shell_iso_kit.py` | the kit directory, `SHA256SUMS` | check, copy, sum | `KitBuild` |
| Launcher | `k3765_linux_shell.py:215-380, 1103-1224` | session directories, two processes per run | verify, stage, relaunch, clean up, install driver | `KitStaging` |
| Port selection, mode switch | `k3765_linux_shell.py:136-212, 384-455, 1131-1165` | ports seen, port picked | select, switch, wait, attach | `DownloaderSwitch` |
| Stage-0 console tool | `outputs/k3765_stage0_console.py` | file offset, serial buffer | info, crc, verify, call, boot | `Stage0Console` |
| its `linux` and `attach` | same, 310-509 | terminal modes, deadlines, ready flags | follow, send, detach | `LinuxFollow` |
| SDCC microSD host | `kernel/drivers/sdcc-shadow-msm.c` | one request, bounce buffer, controller registers | request, set clock and power | `SdccHost` |
| PID 1 | `kernel/userspace/shadow-init.c` | descriptors, line buffer | device fallback, BusyBox handover, line editing | `ShadowInit` |
| Older RAM loaders | `outputs/k3765_ram_bundle_load.py`, `k3765_stage0_load.py` | images, chunk, attempt | check, upload, execute | `RamLoader` |
| Other host tools, probe builders, kernel build, CI, neofetch, device tree, logs | see `PROJECT.json` | | | not modelled |

How they interact.  The host and the target exchange HDLC frames without
sequence numbers.  The monitor answers one command at a time; before Linux from
its own loop, afterwards only when Linux calls its dispatcher inside
`shadow_msm_diag_receive()`.  Typed characters travel host -> frame -> monitor
-> mailbox ring -> TTY poll work -> flip buffer -> line discipline -> shell.
Output travels shell or `printk` -> `shadow_msm_diag_emit()` -> firmware print
routine -> host.  The timer interrupt is the only asynchronous event the kernel
takes, and it must never enter the firmware.  The watchdog, which the firmware
left running, is serviced from the interrupt and around each bridge call.

What is hard about it:

* *Interleaving.*  Two programs in one CPU share ring indices without a lock.
  Kernel threads, user tasks, `printk` and the timer interrupt reach the same
  non-re-entrant firmware.  The poll work re-arms itself while the port closes.
* *Translation.*  The firmware is mapped by `init_mm` only.  Kernel threads run
  on whatever page table the last user task left.
* *Loss and delay.*  A late acknowledge is indistinguishable from a timely one;
  so is a late register value.
* *Restart.*  RAM survives a warm reset, the mailbox included.  A kit may be
  left half built, a session directory half removed.
* *Disappearance.*  The kit may lie on the modem's own virtual CD, which the
  mode switch takes away; serial ports come and go under Windows' feet.
* *Time.*  A match written behind a 32-bit counter is 36 hours late.  The
  watchdog does not wait.
* *Limits.*  Ring, flip buffer, frame and wait bounds all cut silently.

`PROJECT.json` lists every such hazard under `hazards`, at its line, with the
properties that would catch it.

## 2. Modules

| Module | What it is |
|---|---|
| `InputFifo` | abstract: a bounded FIFO with batch admission and bounded reads |
| `InputMailbox` | the ring, byte by byte, monitor side and kernel side; refines `InputFifo` |
| `DiagBridge` | every caller of the firmware, on a uniprocessor with one interrupt |
| `RuntimeProofs` | theorems about the mailbox and the bridge |
| `TtyConsole` | ttySHM0 and /dev/shadowtrace over the mailbox, host to reader |
| `TtyConsoleProofs` | theorems about the driver and about PID 1 |
| `HostBoot` | host, link, PBL, monitor and BL1 from first write to Linux entry |
| `HostBootProofs` | its theorems, with the lemmas about counting what is on a link |
| `ShadowTimer` | counter, match, interrupt flow, probe and watchdog on w-bit words |
| `ShadowTimerProofs` | its theorems, with the lemmas about wrapping words |
| `HostConsole` | `follow_linux()`, its reader thread and the shell that gets the input |
| `SdccHost` | one SD request at a time against controller, card and a wrapping jiffies |
| `SdccHostProofs` | its theorems |
| `SafeWindow` | the bounds of the SDRAM window as monitor and host test them |
| `Stage0Monitor` | the command handler: dispatch, bounded CRC loop, bounded call |
| `Stage0Console` | runs of the stage-0 tool against one monitor |
| `Stage0Proofs` | theorems about the handler, the tool and the loaders, over `MCStage0` |
| `LinuxFollow` | the tool's own Linux console, with its deadlines and terminal modes |
| `ShadowInit` | PID 1: its device, the handover to BusyBox, the recovery shell |
| `RamLoader` | the two older loaders: what they accept, their uploads |
| `KitBuild` | building the kit, and what its checksums vouch for |
| `KitStaging` | the launcher and its consoles over the kit of `KitBuild`, which it EXTENDS |
| `DownloaderSwitch` | which COM port the host talks to |
| `HostProofs` | theorems about the two consoles, the launcher, the choice of the port, and framing |
| `HdlcFrame` | CRC, escaping and unframing as operators |
| `HdlcStream` | `read_frame()` byte by byte |
| `DataLemmas` | lemmas for the proof modules: least elements, recursive functions, flattened sequences |
| `MC...` | the TLC instances, with their `.cfg` files |

Four `MC` modules hold several specifications.  `MCTtyConsole` has the driver
and PID 1, `MCHostConsole` the two programs that show the Linux console,
`MCStage0` the two ends of stage-0 and the older loaders, `MCHostSetup` the
kit, the ports and the frames of the host.
Each chooses one of them in the initial state and keeps to it, so that a
behaviour of the run is a behaviour of one specification and the variables of
the others stand still; nothing is composed that the code does not compose.
`MCHostConsole` shares the variables that both programs have.

`InputMailbox` and `TtyConsole` divide the input path between them.  The first
has the exact ring and takes the calls one byte at a time; it shows that a call
has the effect of one atomic step on a FIFO.  The second uses that: the mailbox
is a sequence of at most `Ring` bytes there and a receive is one step, which
leaves room for the poll work, the port and its competing readers.  In the same
way `DiagBridge` shows that a bridge call is a masked, non-re-entered section,
which is what allows the other modules to take a call without interrupts in it.

### InputMailbox

`pc` is where the running call is: `idle`, `dispatch` (inside the firmware's
dispatcher), `store` (the handler's loop), `check`, `drain` (the kernel's
loop).  `lhead` and `ltail` are the register copies of the indices; `frame` and
`chunk` the packet and the receive buffer.  `linux` says who calls the
dispatcher.  A byte is a member of `OldByte` (written before Linux reset the
mailbox, an earlier session's RAM content included) or of `NewByte`.  Indices
are in range by construction of both sides, so `& RING_MASK` appears only in
`Succ`.

### DiagBridge

A context is the current task or the interrupt on top of it.  `pc[c]` walks
through one bridge call: `lock`, `map` (read TTBR, borrow), `call`, `busy`
(firmware), `access` (mailbox words), `unmap`, `unlock`.  `mode` is where the
current task is with respect to user mode; `active` is the page table of
`current->active_mm`, which a kernel thread keeps and which `switch_mm()`
compares with before it writes the TTBR.  `spin_lock` on a uniprocessor is the
interrupt mask and nothing else, so the model has no lock word: what excludes a
second caller is the mask, and the property is what must show it.

### TtyConsole

`port` (closed, open, stopping), `polling`, the delayed work (idle, delayed,
queued) and the worker's position inside `shadow_tty_poll()` are separate
variables, so that `cancel_delayed_work_sync()` can meet the work anywhere.
A byte is its number in order of arrival; `mark` is the last one before the
reset of the current session.  `shorts` counts the receives for less than a
packet since the ring was last empty.

### HostBoot

One chunk stands for one `MAX_CHUNK` write.  `toTarget`, `toHost` and `inbuf`
are the two directions of the link and the host's serial input buffer, which
`reset_input_buffer()` empties.  A reply has a shape, which is all the host
looks at, and a hidden `to` field that says which command it answers; only
properties read it.  A chunk of RAM is `blank`, `stale` (an earlier session's)
or `right`.

### ShadowTimer

Time is the counter.  It advances between any two steps except that a pending,
enabled, unmasked interrupt is taken first, and that masked code is limited to
`MaskLimit` counts.  `handle_level_irq()` is mask-and-ack, handler, unmask; the
handler reprograms the timer through the same three steps (`ReadCount`,
`WriteMatch`, `Polled`) as the probe.  `NO_HZ_IDLE` and `HIGH_RES_TIMERS` are
off in `kernel/k3765_probe.config`, so one-shot mode is never entered.

### HostConsole

`step` is the place in the loop of `follow_linux()`: `send`, `clock`, `read`.
`scripted` of `Script` lines have been sent; `live` is the reader's queue, with
`Detach` for the object that Ctrl+] puts there.  A frame without the prompt has
no effect on the loop, so output is just `prompts`, the number of prompts on
their way; one may be lost in a frame that `read_frame()` drops at its deadline
or be split over two frames.  `stolen` remembers the lines read by a program
instead of the shell.  Assumed: no program prints the prompt.

### SdccHost

`pc` follows `shadow_sdcc_request()`; a wait is a pair of steps, one reading
MCI_STATUS and one reading jiffies, so that status bits, FIFO words and ticks
come between.  `status` has the static bits by name, `fifo` and `moved` are the
words in the controller and the words that went through the card.  A word
carries the number of its request (modulo 2), which makes a stale one visible
in memory, bounce buffer or card.  At the label `done` the request goes back to
the core and its fields are forgotten.  Clearing MCI_DATACTRL resets the FIFO,
as in a PL180; the driver relies on it.

### Stage0Monitor and SafeWindow

The handler finds its arguments in the firmware's packet buffer and looks at no
length beyond the first two bytes, so `first` and `second` survive from packet
to packet and a short packet replaces none, one or both of them.  `busy` says
whether control is in the command loop, in the CRC loop or in a second stage;
the CRC loop is one step per byte, on registers modulo `Modulus`.  The CRC's
value is abstracted to the number of bytes fed.  `SafeWindow` has the two sides'
bounds: comparisons with carry in the monitor, Python integers in the host.

### Stage0Console

A run is one start of the tool.  Frames carry the run and offset they answer in
fields that only properties read; what the tool looks at is the shape: banner,
or eight hex digits, which a CRC, a register, a return value and BAD00001 all
have.  A CRC's value is the bytes it is of.  A second stage may rewrite the
window before it returns; a diagnostic frame may come at any time.  A run gives up
a command it has sent when its three seconds are over (`Timeout`) or when an
exception ends it (`Break`): a damaged frame, whose "CRC mismatch"
`read_frame()` raises, the port, or Ctrl+C.  The command is still served;
`gaveUp` remembers that this has happened.

### LinuxFollow

As `HostConsole`, with what the kit's loop does not have: a session without a
user, the idle deadline, a return of the second stage recognised by its shape,
and the Windows console modes, `inMode` and `outMode`, saved and put back by
`raw_console_input()`.  Time is the ticks left before each deadline; `silence`
is what really passed since the last frame.

### ShadowInit

`pc` follows `_start()`; `files` is what each descriptor refers to.  `line` is
the C array with what the stack left in it, and a command is what stands before
its first NUL, as `shadow_equals()` sees it.  `out` is the commands run and the
prompts, in order; what a command prints is abstracted.

### RamLoader

The images are an address and a length each; `ram` says whose byte an address
holds, so that an image on another one is seen.  Acks carry nothing and are
counted.  The two programs share everything but what they accept.

### KitBuild and KitStaging

A file's data is `right` (what the programs pin), `other`, `damaged` or `none`;
equal contents stand for equal hashes.  Checking a source and copying it are
two steps.  In `KitStaging` a run has a launcher and a console process, with
places of their own; `root` is where the first was started from, the kit or
the session directory of another run.  On a CD, files are gone while the modem
is `raw`.  `RemoveTree` may succeed, or fail half way.

### DownloaderSwitch

`personality` is what a modem runs, which decides the USB ports it has; `ports`
is what Windows lists, which follows late in both directions.  `picked` is the
result of the last select function.  `others` are further modems under PID 0016
when the switch command was sent.

### HdlcFrame and HdlcStream

The CRC is the real one, bit by bit, and bytes are 0..255.  In `HdlcStream`
each byte on the line has the number of its frame, which only properties read.
`Deadline` may fall between any two bytes, `Reset` between two calls of
`read_frame()`.

## 3. Runs

| Run | Question | Bounds | Result |
|---|---|---|---|
| `mailbox` | Is the shared ring a bounded FIFO, and does Linux ever read a byte from before it? | ring of 4, packets to 3, reads to 2 | 21,619 states |
| `bridge` | Does the firmware run mapped, masked and once at a time, and is everything put back? | init, one child, two kernel threads | 1,074 states |
| `tty` | Do open, close, poll and a competing reader keep sessions apart and lose no more than they must?  Does PID 1 run what was typed? | ring of 4, flip buffer of 2, 8 bytes; lines of 2, reads of 2, 4 bytes | 100,767 states |
| `boot` | Are unnumbered answers matched, is what the host verified there at the entry, does the session end? | 5 chunks, 2 attempts, 1 query | 370,760 states |
| `timer` | Does the tick go on over a wrap and masked sections, and the watchdog with it? | 4-bit counter, period 4, masks to 5 | 118,948 states |
| `sdcc` | Is what the MMC core is told true, and does each request end? | 2-word blocks, FIFO of 1, 6 jiffies | 731,640 states |
| `console` | Are lines paced, sent in order, and do both consoles end and clean up? | 2 scripted and 2 typed lines, 2 prompts, run time 3 | 135,856 states |
| `stage0` | Does the monitor stay inside its window, when is a PASS true, and what do the loaders write? | 3-bit addresses, window of 3; 2 runs of the tool with 2 queries; 2 images, 3 attempts | 1,557,949 states |
| `host_setup` | Which payloads, directories, ports and frames does the host use? | 1 payload, 2 launcher runs, 2 modems, frames of 2 bytes | 481,369 states |
| `boot_verify` | "Verify every uploaded image": is each one verified before the entry? | as `boot` | **violated** |
| `console_detach` | "Ctrl+] detaches the host": does it always? | as `console`, kit's loop only | **violated** |
| `console_pass` | "PASS: every chunk matched": does it always mean that? | as `stage0` | **violated** |

Why the bounds are enough.

* `mailbox`: a ring of four slots holds three bytes, so two packets fill it, cut
  the second and wrap both indices; a packet longer than the limit is capped.
  Nothing in the code looks at a byte's value, so two values (and one old one)
  tell order and origin apart.  The theorems remove the bound.
* `bridge`: one child is the second page table, a kernel thread a task without
  one, and two of them can follow each other; a third user task adds nothing the
  TTBR can tell apart.  The theorems remove this bound, too.
* `tty`: eight bytes fill a ring of four twice, so it overflows, drains and is
  reset while bytes of the earlier session are unread; with a flip buffer of two
  the room is 0, 1 and 2 in turn.  PID 1's line holds two characters and so
  does a read, so that four bytes fill a line, overflow it, erase in it or make
  up two, cut anywhere; two printable bytes tell order.
* `boot`: each payload has one chunk, the Image two, so that a fingerprinted and
  an unfingerprinted chunk exist; two attempts make one retry and one failure.
  The link queues are not bounded by a constraint: the host sends one request
  per wait, so attempts and commands bound them.
* `timer`: sixteen counts are four periods, so counter and match wrap in every
  alignment; `MaskLimit` is longer than a period, so that a tick falls due in a
  masked section, and the next one in a handler that is slow after its reload:
  clearing the latch only then would lose it.
* `console`: the second line is the one that can be sent too early, a second
  typed chunk the one that can be overtaken, and a second prompt the one that
  can be stale.
* `sdcc`: a two-word block does not fit the FIFO, so both sides wait for each
  other; a one-word block does, and can be complete before its response is
  read.  Six jiffies put the wrap inside every wait; half of them are the range
  of `time_after()`, longer than the longest wait.
* `console`, `LinuxFollow`'s part: two ticks of idle time and three of runtime
  let either deadline come first or both together; one frame on its way is
  enough, since a frame has no memory of the one before it.
* `stage0`: three-bit registers and a window of three bytes give sums below, at
  and beyond the window's end and beyond 2^3, for every packet; the theorems
  remove this bound.  Files of one to three bytes with chunks of one and two
  have a last chunk that is short, whole or the only one; two runs are an
  earlier one that gave up its command and a later one that takes its answer, and
  two queries an answer for another register.  Two images of up to two chunks
  anywhere in ten addresses overlap each other and the monitor in every way.
* `host_setup`: two runs are one that works in the other's session directory; a
  payload and a plain file tell the pinned files from those only the manifest
  knows.  Two modems are the one switched and another; one power cycle is a
  port that goes while the host waits.  Four frames have two cut between two
  others; seven byte values have flag, escape, what both are escaped to, and
  plain ones.

### What the properties say

A run's `...Inv` takes the type invariant of its module with it.

`mailbox`.  `FifoSpec`: every behaviour of the ring is one of the bounded FIFO:
nothing is lost but the rest of a packet that meets a full ring, nothing is
duplicated, reordered or invented.  `UnreadKept`: an accepted byte stays in its
slot until it is the oldest and is read.  `NoStaleInput`: no byte from before
Linux's reset is ever delivered.

`bridge`.  `RuntimeMapped`, `NotReentered`, `WindowMasked`: firmware runs on
`init_mm`'s table, one call at a time, masked.  `OwnAddressSpace`: outside a
call the CPU is on the page table the scheduler believes to be active, and a
user task on its own.  A kernel thread that left `init_mm` behind would be
found out only when `switch_mm()` later skips the write.  `IrqDiscipline`: each
caller gets its own interrupt state back, the exception paths masked, system
calls unmasked.

`tty`.  `TtyInv` is `QuietWhenClosed` and `BacklogBounded`.  `QuietWhenClosed`:
after shutdown no work is armed, queued or running.
`FreshSession`: the TTY is given bytes of its own session only.
`BacklogBounded` and `LossNeedsShortReads`: what is left in the ring, and hence
a cut packet, is explained by receives that took less than was there.
`RingDrains`: what is in the ring of an open port is eventually taken.
`Pid1Inv`: whatever the stack held and however `read()` cuts the input, PID 1's
recovery shell runs each line as it was typed and edited and answers it with
one prompt, which the host's script waits for; BusyBox starts with one device
on all three descriptors, and a recovery shell has its own also when `dup2()`
failed half way.

`boot`.  `AnswersMatch`: although replies carry no number, each reply the host
accepts answers the command it is at; this holds because `stage0_command()`
gives up at its first timeout instead of asking again.  `VerifiedAtEntry`: when
Linux is entered, BL1 and the DTB are intact and every fingerprinted Image
chunk was written at least once by some session.  `GapsExplained` (in `BootInv`): a chunk
taken for written that is not costs one "timeout retry" line or one ack of an
interrupted session.  `SessionEnds`: every session reaches the console or fails.

`timer`.  `NextTickArmed` (in `TimerInv`): outside the handler the tick is latched or at most a
period ahead.  `OneTickPerMatch`: each acknowledged interrupt belongs to a match
since the last one.  `WatchdogFed`, `TicksForever`.

`console`.  `ScriptPaced` and `DetachLast` make `ConsoleInv`.  `ScriptPaced`: after a boot no `--command` line reaches a program
that an earlier one started; lost prompts stop the script, they never speed it
up.  `DetachLast`: Ctrl+] overtakes nothing.  `TypedSent`: typed input needs no
further prompt once the lines are gone.  `RuntimeEnds`: `--max-runtime` ends
the session of a silent, busy or dead target, in both programs.  `FollowInv`:
however `linux` or `attach` ends, by Ctrl+], deadline, exception or Ctrl+C, the
terminal has both modes back, and "No new target frame for N seconds" is true
and never said to an interactive user.

`stage0`.  `ReadsInside`: no packet, whatever an earlier one left in the
buffer, makes the handler load or jump outside the window.  `CrcExact`: the CRC
is over the bytes asked for, each once, also when it is over none.  `ToolInv`:
the monitor refuses nothing that the tool lets through (its BAD00001 would be
printed as a CRC), and as long as no run has given up a command it had sent, by
its deadline, a damaged frame, a port error or Ctrl+C, every answer taken is
that of the command asked.  `PassSound`: under the same condition PASS means
that every byte of the file is in RAM.  `LoaderInv`: the older loaders
change nothing outside the monitor's place and their two windows, and when they
start the monitor each image is in place, except for at most one chunk for each
"timeout retry" printed; "PBL acknowledged every bounded RAM chunk" in their
log means no more than that.

`host_setup`.  `KitInv`: what reaches the modem has the hashes that the program
carries, although the builder hashes and copies in two steps and the kit is
read once to verify and again to stage and to load; and a directory left half
built never verifies.  `SessionComplete`: a staged console has the whole
verified kit from its first step to its clean-up, whatever happens to the CD or
to another run.  `LeftoverExplained`: a session directory is left only by a
removal that failed, a kill, or a launcher that failed before it had a console.
`UploadsToSwitched`: the port opened for the upload belongs to the modem that
was sent the switch command, in its boot ROM.  `StreamInv`: a deadline or a
reset costs the frame it falls in and no other, nothing is invented, and no
cut makes `read_frame()` raise.  The module also assumes, and TLC evaluates,
`RoundTrip` (unframing undoes framing for every short payload, the CRC is that
of X.25, and the switch command's frame is the documented one) and
`BitErrorSeen` (no single wrong bit passes, even when it makes or unmakes an
escape).

`sdcc`.  `ReportTrue`: bytes, error and memory agree with what happened, for
reads and writes, after every error and time-out.  `OwnAnswer`: a response that
came just after its wait ran out does not complete the next command.
`DataPathQuiet` (with `ClockCeiling` in `SdccInv`): each of the exits of a
request leaves the data path off.
`CompletionKept`: an end of block that came with the response is still there
when the transfer looks for it.  `ClockCeiling`: the card's clock is never
above the one the core asked for, for the clocks that it asks for: `f_min` to
identify a card, `f_max` to use it (the divisor is floored, so 3 MHz, between
the two, would give 4).
`RequestEnds`: jiffies alone ends a wait, and does so across its wrap.

### Disagreements between text and code

Three have a run.

* `README.md:37` promises to "verify every uploaded image with a target-side CRC
  before calling it".  `main()` checks BL1 and the DTB
  (`k3765_linux_shell.py:1177-1188`).  The Image is outside the monitor's CRC
  window, and `outputs/TEST_LOG.md` records that a CRC over all of it outlasts
  the watchdog; BL1 compares 17 of its words instead.  `boot_verify` shows the
  consequence: a late ack is taken for the next chunk, that chunk is lost, and
  Linux is entered with a hole.  `outputs/LINUX_SHELL_ISO_README.md` describes
  the narrower check correctly.
* "Ctrl+] detaches the host" (`k3765_linux_shell.py:1192`, `README.md:412`).
  The loop looks at the queue only after the first prompt and only when no
  scripted line is pending, so a Ctrl+] typed while Linux does not come up, or
  while a line waits for a prompt that was lost or for a program that does not
  end, is never acted on (`console_detach`).  Ctrl+C is forwarded in raw mode,
  so it does not help, although the help of `--max-runtime` says "zero runs
  until Ctrl+C".
* `verify_file()` prints "PASS: every chunk matched"
  (`k3765_stage0_console.py:282`).  `command()` takes the first eight hex digits
  after its flush, also the late answer to a command that an earlier run gave up, so PASS
  can be printed over RAM that differs (`console_pass`).

Six more are stated as definitions that no run keeps.  Naming one as the only
INVARIANT (PROPERTY for `ClearlyRaw`) of a `.cfg` for its module, with the
constants of that module's run, shows the counterexample.

* `ClockReadable` of `ShadowTimer`.  `timer-shadow-msm.c:438` bounds the status
  wait "so a clockevent programming failure cannot wedge Linux".  When that wait
  fails in the probe, the error path unmaps the timer block, but
  `sched_clock_register()` has no undo and `sched_clock()` keeps reading.
* `CommandAfterPrompt` of `HostConsole`.  The help of `--command` says "send a
  command after the prompt" (`k3765_linux_shell.py:1069`).  With `--attach` both
  ready flags start out true, and a program that an earlier session left
  running reads the first line.
* `LauncherExitsFirst` of `KitStaging`.  "The virtual-CD launcher exits before
  the modem changes USB personalities" (`outputs/LINUX_SHELL_ISO_README.md:42`).
  After `Popen()` nothing orders the launcher's exit and the console's switch.
* `LogsRemain` of `KitStaging`, with `Relative = TRUE`.  "Logs remain" (same
  file, line 74).  A relative `--log-dir` is forwarded as it is and resolved in
  the session directory, which the clean-up removes.
* `ClearlyRaw` of `DownloaderSwitch`.  `select_obvious_downloader()` promises a
  port "only when it is explicitly selected or clearly raw"
  (`k3765_linux_shell.py:203`); it looks at product ID and description, which
  are the same when the monitor or Linux runs.
* `ReturnTrue` of `LinuxFollow`.  `linux` prints "UNEXPECTED RETURN R0"
  (`k3765_stage0_console.py:639`) for any frame of eight hex digits, also one
  that a program under Linux wrote.

## 4. Assumptions

* Hardware and firmware are modelled as the code in the repository uses them;
  every such definition is marked external in the map.  A match write takes
  effect even when its status poll times out; the active-vector register
  reports the timer while its latch and mask bits are set.
* The link keeps frame order, and a damaged frame is detected by its CRC.
* The runs of the stage-0 tool begin with nothing on the way: no other program
  has left a command unanswered, and none talks to the monitor between them.
* `LoadLimit < MinDelta`: the instructions between reading the counter and
  writing the match take fewer counts (30 us each) than the driver's minimum
  delta; they are a handful of instructions with interrupts masked.  They are
  part of a masked section, hence `LoadLimit =< MaskLimit`.
* `WatchdogLimit > Period + 3 * MaskLimit`: a masked section, the handler after
  it and the next masked section end before the board resets itself.  The
  driver cannot enforce this; a firmware print to a host that has stopped
  reading would break it, and is not modelled.
* The input path of `HostConsole` loses nothing; what the mailbox may drop is
  shown in `TtyConsole`.
* A waiting SD driver looks at jiffies within half their period (248 days) of
  its deadline; the scatterlist covers its request; the core makes one request
  at a time, after power-up.
* The core asks for the clocks 0, `f_min` and `f_max` only
  (`ClockAssumption`): `mmc_rescan()` begins at 400 kHz, which is `f_min`, and
  every SD card's own limit is above `f_max`.
* A read of /dev/shadowtrace asks for at least one byte (`TraceReads` has no 0):
  `shadow_trace_read()` returns at once otherwise.
* A uniprocessor `PREEMPT_NONE` kernel, as configured.
* Code that a second stage runs may write to the window and may never return;
  it does not forge frames of its own before it returns.
* A cut frame's bytes fail their CRC (the model's cuts do; a 16-bit CRC can
  pass by chance), and SHA-256 does not collide.
* Writes to the TTY and to /dev/shadowtrace do not fail (the drivers' do not),
  and BusyBox does not end.  The older loaders are given a port of a PBL.
* A user starts the launcher once per run and, of the hidden options, gives
  `--staged --cleanup-runtime` by hand from the kit only.  Nothing but the
  programs modelled changes a session directory, though reads may be damaged.
* `UploadsToSwitched` is about hosts with no other modem under PID 0016 at the
  time of the switch: with one, `select_downloader()` takes a lone port by
  design, whichever it is.

Fairness.  `TtyConsole`: an armed timer expires, the work queue runs queued
work and the running work goes on, and the reader of the TTY reads; nothing is
asked of the host.  `HostBoot`: the host proceeds and its waits have deadlines,
which is what `time.monotonic()` loops give; nothing is asked of target or
link.  `ShadowTimer`: the counter runs, the CPU goes on, masked sections end.
`HostConsole`: the loop goes round (its read has a time-out), time passes and
Linux boots; a user need not type, a program need not end.  `SdccHost`: the
driver runs and the tick goes on; nothing is asked of the card.
`LinuxFollow`: the loop goes round and time passes; nothing is asked of user or
target.  All other modules have safety properties only and need none.

Deadlock is not checked in `boot`, `console`, `stage0` and `host_setup` and the
violation runs (a finished session, or the last of a bounded number of runs or
frames, stops) and in `timer` (a failed probe with interrupts masked for good
lets the bounded counter stop); it is checked everywhere else.  `host_setup`
uses the symmetry of its two runs of the launcher, which is sound because its
properties are safety properties that treat all runs alike.

## 5. Proofs

`RuntimeProofs`, mailbox, for every ring size of at least two and every packet and
chunk limit: type correctness and `MailboxInv`, from it `NoStaleInput` and
`UnreadKept`, and `Spec => FifoSpec`.  `NoStaleInput` alone is not inductive: a
byte is delivered one at a time out of slots that must themselves be fresh, so
`FreshInv` says it of the packet in the handler's registers and of every unread
slot, and `ControlInv` that the receiver's local indices are those of the
mailbox while it drains.  `MailboxInv` and `BridgeInv`, the type
invariants among their parts, are proved and no longer part of a run, which
checks what follows from them.  The refinement rests on three lemmas about
`Contents`: adding at the head appends, taking at the tail removes the first,
and a write outside the unread slots changes nothing.

`RuntimeProofs`, bridge, for every set of children and kernel threads: `BridgeInv`,
and from it `RuntimeMapped`, `NotReentered`, `WindowMasked`, `OwnAddressSpace`,
`IrqDiscipline`.  The strengthening is in three parts: `MmInv` (a user task's
page table is its own or none yet, and whose table is active), `ContextInv`
(where a context may be in each mode and what its saved interrupt state says)
and `WindowInv` (between borrow and return, `saved` is the active page table).
The last is why a kernel thread may borrow at all: it does not know whose page
table it puts back, only that it is the one it found.

`TtyConsoleProofs`, for every ring, packet, flip-buffer size and set of read
lengths: `TtyInv`, and the action properties `FreshSession` and
`LossNeedsShortReads`.  `QuietWhenClosed` is not inductive: that nothing runs
when shutdown returns follows from what holds while it is under way, so
`PortInv` says that the flag follows the port and that a cancel which owns the
pending bit keeps the work from being queued.  `ByteInv` says whose bytes the
ring and the driver's `input` hold (after `mark`), which a single push cannot
show.  `FourShortReads` puts the driver's sizes, 255 and 64, into
`LossNeedsShortReads`.

The same module has PID 1, for every length of line and of read: `Pid1Inv`.
`FilesInv` follows the descriptors: one is free until an `open()` succeeds, and
which are the device while `dup2()` goes through them.
`EditorInv` relates the array and its index to all bytes typed so far: the
array holds the line that the bytes since the last end of line make up, and the
shell's transcript is that of the pieces before.  A byte either extends the last
piece or, if it ends a line, begins a new one; the lemmas say what that does to
the pieces of a sequence and to the functions that run over them.

`HostBootProofs`, for every number of chunks, attempts and queries, which chunks
belong to which image and which are probed: `BootInv`, `AnswersMatch`,
`VerifiedAtEntry`.  The heart is `AcksPaid`.  A gap in RAM is
noticed by nobody, so the invariant keeps accounts: the chunks that are missing
and will not come, the writes and the acks still on the link are together no
more than the retries printed and the old acks, plus one while the host waits.
A write that arrives turns into an ack or a right chunk, a lost one costs a
retry.  The lemmas count members of a sequence as it grows, shrinks or loses an
element.  `AnswersMatch` rests on `LastWord`: while the host waits, its command
or the answer to it is the last thing on the link.  `VerifiedAtEntry` needs
that a CRC reply, wherever it is, is true of the RAM as it is now.

`ShadowTimerProofs`, for every word size, period, minimum delta and limit that
`TimerAssumption` allows: `TimerInv`, `WatchdogFed`, `OneTickPerMatch`.
`FlowInv` says where probe and handler are and what is set up by then.
`ArmInv` carries the reload through its three steps: between reading the
counter and writing the match the counter has moved by `spent` counts, fewer
than `MinDelta`, so the match is still ahead of it modulo the word.
`WatchInv` adds up the watchdog's time: at most a period from the counter's
read to the match, and a masked stretch each before that read, at the match and
to the acknowledge, which is where `Period + 3 * MaskLimit` comes from.

`SdccHostProofs`, for every block and FIFO size, timeout and width of jiffies:
`SdccInv`, `ReportTrue`, `OwnAnswer`, `CompletionKept`.  `PathInv` ties the data
path to the place in the request, `FifoInv` says that FIFO and moved words are
this request's in order, `TransferInv` what a transfer without an error has
done, and `ReportInv` splits a request at its last step: before it nothing is
reported and the pages are untouched, after it the report is what happened.
`AnswerInv` adds to `OwnAnswer` that a command waits with its answer bits clear.

`Stage0Proofs` is about both ends of stage-0.  For every register width, window
and instruction size: `ReadsInside`, `CrcExact` and type correctness of the
handler, and `HostChecksSuffice`: what `crc_query()` and `call_stage2()` let
through the monitor accepts.  The inductive invariant adds to the properties
that the CRC loop's end is inside the window (`first + second =< SafeEnd`) while
it runs: from that and `CrcExact` the next address is inside as long as a byte
is left, and no register wraps.  For every file, window and number of commands:
`ToolInv` and `PassSound`.  Until a run gives up a command (`gaveUp`), `TurnInv`
says that there is one request or one answer under way, the answer to the
command being waited for and true of the RAM; and what `verify_file()` has
passed so far is in RAM, which no later command changes.  The CRC is an
uninterpreted value of the bytes here: that a CRC tells two contents apart is
the assumption of section 4, not a result.

`HostProofs` has four parts.  The consoles, for every script, amount of typing,
prompts, frames and ticks: `ConsoleInv` and `FollowInv`.  `OneTurn` is what
`ScriptPaced` needs: after a boot, at most one of a busy shell, a prompt on its
way, a host that may send and a line on its way, so a line meets the shell that
printed its prompt.  `LiveInOrder` says which keys the queue holds, from which
`DetachLast`.  The launcher, for any kit and any number of runs: `KitInv`,
`SessionComplete`, `LeftoverExplained`.  `BuildInv` says that the sums are
written last, over a directory that is complete; `LauncherInv` that a run copies
the entries of the manifest it has verified, although that manifest may vanish
under it with another run's directory; `SessionInv` that a staged console keeps
what it verified until it cleans up.  The choice of the port, for any set of
modems: `UploadsToSwitched`.  `OneBootRom` says that as long as nobody else was
under PID 0016 at the switch, only the switched modem shows a downloader port,
and from its boot ROM; that at most one port is picked makes the port that is
opened that one.

Framing, for every payload of bytes (not empty): `FramingUndone`, that the
frame has no flag inside and that unframing gives the payload back, escapes and
CRC included.  The CRC itself is not taken apart: all that is used is that both
ends compute the same one, sixteen bits wide.  On it rests `StreamInv`, for any
sequence of payloads that differ (a copy of one could stand for another).  The
invariant measures everything by `Gone`, the number of bytes of the stream that
have left the line: `LineKept` says that what is on the line is
the rest of the stream, `ReaderKept` that `encoded` is the beginning of the
frame the reader stands in, unless it has nothing, `NothingDropped` that it
cannot have lost that beginning without a cut in the frame, `GotInOrder` that
each payload that has come is one that has gone, in the order they went.

The loaders, in `Stage0Proofs`, for any set of images, chunk size and number of
attempts: `LoaderInv`.  `main()` compares each image with its successor in
the order of addresses only; `Apart` shows that this keeps every two apart, by
taking the first image that would reach into another one.  A byte of a window
therefore has one owner, and a write of one image leaves the others in place.
`Accounted` keeps accounts as `AcksPaid` does for the boot session: the chunks
that were begun and are neither in place nor covered by a write on the link,
with the writes and acks that are under way, are no more than the timeouts, and
one while the loader waits.

The invariants named `...IInv`, `ShellInv`, `KeptInv`, `StagingInv` and
`SwitchInv` were checked by TLC on the instances of the runs before they were
proved.  What proving changed in the models: the reads of /dev/shadowtrace
are of at least one byte; `ClockCeiling` depends on the two clocks the core asks
for, which is an assumption with a name now and no accident of the instance;
`LoadLimit =< MaskLimit` was tacit; and CASE with OTHER, which the prover does
not expand, became IF where a proof had to look inside.

Induction over data is done without the library's induction theorems, whose
predicate parameter the provers cannot instantiate: `DataLemmas` takes the set
of numbers at which a claim fails as a set, and refutes its least element.
`LeastElement` and `UpToN` give that step.  From them come the lemmas about
recursive functions and `FlattenSeq` that framing and PID 1 use, and the first
image in the loaders' `Apart`.  The models therefore write recursion as functions; no module
declares a RECURSIVE operator.

What proving changed in the models, further: `RamLoader` states the order of
addresses by `Before` and `Neighbours` and not by a sorted sequence, `ShadowInit`
the transcript by the pieces of what was typed, and `HdlcStream` counts the
frames `shipped`; the sizes of images are naturals by assumption.

Model-checked only.  *Liveness* under fairness: `RingDrains`, `SessionEnds`,
`TicksForever`, `TypedSent`, `RuntimeEnds`, `RequestEnds`; and ENABLED, which
nothing here uses outside of WF, is out of the prover's reach as well.
*Arithmetic on bits*: `BitErrorSeen` and the CRC's residue in `RoundTrip`, which
are facts about the polynomial, are assumptions that TLC evaluates over bounded
payloads.  Every other property of a passing run is a theorem.

## 6. Not modelled, and what is left

* Kernel trace patches 0002, 0003, 0006, 0009: further callers of the bridge,
  which `DiagBridge` has as `KernelCall` and `DirectTrace`.
* The register-level handoff of BL1 and the memory layout of the images:
  straight-line code without state.  While reading it: BL1 changes r10 and r11
  before it saves registers, and the monitor, which `README.md:249` says it
  "returns cleanly" to, saves r4 to r6 only.
* The LED and RGB tools, one or two frames each; one-off probe builders; build
  and CI scripts; vendored programs and data; everything inside PBL and ARMPRG,
  which is not in the repository.

Worth doing next: that `DiagBridge`'s masked section implements the atomic call
that `TtyConsole` and `ShadowTimer` take it for; liveness of the launcher (a
console that comes to no session removes its directory) and of the wait for a
driver.
