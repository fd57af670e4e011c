# TLA+ models of the BDN9 rehost

This directory holds a model-checking and proof development for
`rehostry-bdn9`: a rehost of the QMK firmware of a BDN9 keypad (STM32F072) in a
unicorn-based emulator. The Python in `src/src/rehostry_bdn9` is not the
firmware; it is everything *around* it: modelled peripherals, a modelled USB
host, breakpoint handlers on ChibiOS' idle loop and context switch, a TCP bridge
for clients, and a few tools that drive the whole. The firmware, the emulator
backend and the operating system are external: they are modelled from how the
Python code and its comments use them, and marked `EXTERNAL` in the modules.

## 1. Inventory

Paths are under `src/src/rehostry_bdn9/`; `pm/` is `peripheral_models/`,
`bp/` is `bp_handlers/`.

| component | state it keeps | operations | talks to |
|---|---|---|---|
| Guest clock, `pm/guest_clock.py` | a wrapping tick counter, a count of MMIO accesses | activity tick, jump to a deadline, drip; wrapping compare | every MMIO handler, the idle seam |
| TIM2, `pm/stm32f0_timers.py` | CCR1, DIER, SR, the compare already fired, a pending flag | CNT read (which pumps), CCR1/DIER/SR writes, `poll_compare`, `take_pending_irq` | clock, pump, idle seam |
| USB pump, `pm/usb_pump.py` | a call throttle, the next SOF, the inhibit budget, what the vector slot said | `pump`, `inhibit` | USB host, clock, the backend's list of pending interrupts |
| ChibiOS seams, `bp/chibios_pump.py` | nothing of their own | idle visit; entry of `_port_exit_from_isr`; its final spin | clock, TIM2, pump, backend |
| USB peripheral, `pm/stm32f0_usb.py` | EPnR, ISTR events, CNTR, DADDR, BCDR, packet memory | register reads and writes, `raise_ctr_rx/tx` | firmware, USB host |
| USB host, `pm/usb_host.py` | enumeration state, queue of transfers, the current one, patience counters | `step`, `request` | USB peripheral, pump, bridge |
| TCP bridge, `pm/usb_host.py` | backlog, connected clients | publish, accept and greet, read commands | host, GPIO, clients |
| GPIO band, `pm/stm32f0_gpio.py` | MODER, PUPDR, ODR; held switches, encoder phases and queued rotation | register reads and writes; `press`, `release`, `encoder_turn` | firmware, bridge |
| RCC and flash controller, `pm/stm32f0_rcc.py` | oscillator and clock-switch bits; key sequence, CR, AR, the list of erased pages | register reads and writes; a write may blank a page | firmware, flash memory |
| Delay timers TIM3 and TIM14, `pm/stm32f0_timers.py` | an update flag each | a one-pulse start that is over at once | firmware |
| System memory, SoC catch-all, backend reference, `pm/` | storage, constants | reads and writes | backend |
| Fuzz-reach probe, `bp/fuzz_reach_probe.py` | ring of visited addresses, address gate | chunk hook, watcher thread, gated SETUP | a ring file, the backend |
| Fuzz-reach harness, `fuzz_entry.py` | slots, phases measured in guest ticks, verdicts | spawn, wait, score | bridge, ring file |
| Test-run client, `attack.py` | what it has read from the bridge | connect, ask, wait, grade | bridge |
| Web panel, `bdn9_panel.py` | one busy flag, the last report | HTTP handlers, the run thread | test-run client |
| Command line, `cli.py` | a deadline, the child | spawn, stream its log, reap its session | operating system |
| Target tool, `src/tools/fuzz_reach_targets.py` | the observer of one decode: levels, arms, what is being skipped | run a decode, chain the runs of a request, accept or refuse the table | the harness, through the table |
| Spawn recipe, binding, paths, `src/tools/extract_firmware.py` | none | pure functions | operating system |

**How they interact.** There is one emulation thread. Every modelled register
access by the guest enters Python on it: GPIO accesses and reads of TIM2's
counter call the USB pump, the pump lets the modelled host take one step, and a
step that latched something appends IRQ 31 to the backend's `_pending_irqs`.
Two breakpoint handlers run on the same thread: the idle seam (jump the clock to
the armed compare and inject TIM2) and the context-switch seam (inhibit the
pump at the entry of `_port_exit_from_isr`, inject the NMI at its spin). The
backend drains the list between chunks of guest instructions. So although only
one thread touches these structures, *any* guest instruction that touches a
modelled register may put an entry into the list, and what counts is where the
guest stands when the list is drained. Real threads come in with the bridge: an
acceptor, a reader per client and the emulation thread all write to the same
sockets; readers also queue control transfers and move switches and encoders.

**What is hard.** (a) Interrupt delivery through four code paths into one list,
with a "the NMI must arrive alone" rule kept by three cooperating guards.
(b) A compare that is recorded as fired before it can be delivered, in a tickless
kernel that never rearms it by itself. (c) A wrapping clock read with two
different comparisons. (d) A USB host that must never run ahead of the
firmware's interrupt handler, and must tell a stale STALL from a real one.
(e) A greeting, a backlog replay and live lines racing onto one socket.
(f) Encoder phases released by the firmware's own reads, under clients that turn again. (g) A client that grades a guest it cannot see into: reports that
come late into another window, empty reports the guest repeats by itself,
answers that never come, an impostor on the port, a device that remembers less
than it pretends. (h) Runs and emulators that share ports: two posts at once, a
child killed before its `finally`, marks in a log that another process writes.
(i) Registers that show more than they store, written back by a driver that
another driver may preempt: a start bit, a ready bit, an update flag. (j) Hook
targets found by watching single instructions, where what is skipped must not
count, and a score that rests on the first record of a log.
PROJECT.json lists each hazard at its line, with the property that
watches it or the reason why none does.

**What makes each component correct.** Clock: never backwards, and a deadline
is either in the future or reached. Seams and pump: exceptions arrive one at a
time, the NMI alone, nothing peripheral inside the context switch, no fired
compare lost, the inhibit always ends. Host and peripheral: transactions keep
the firmware's EP0 machine in step, one truthful answer per request in order,
reports in order, everything answered in the end. Bridge: greeting first, no
line twice, none missing. GPIO: pins read what the world does, and rotation is
conserved. Test run: no check that says something of the guest is true of silence,
isolation is granted to per-interface state only, a rotation is credited by its
own report, and a genuine device reaches the top. Panel: only the run's own
guest is graded, nothing is left behind, the panel becomes ready again. Harness:
slots are exclusive and conserved, a hit or a live device has been earned by the
right request. Target tool: an arm is the one its documentation defines, and
entries can be told apart by their logs. Flash controller: an erase that is asked for happens
once, or fails and leaves no trace, on the page that was named. Clocks and
delays: each polling loop of the firmware ends.

## 2. Modules

| module | models | lines of code it stands for |
|---|---|---|
| `GuestClock` | the wrapping clock as operators on two variables | `pm/guest_clock.py` |
| `IrqSeams` | pump, seams, TIM2, the backend's list, the kernel around them; EXTENDS `GuestClock` | `pm/usb_pump.py`, `bp/chibios_pump.py`, `pm/stm32f0_timers.py` |
| `IrqSeams_proofs` | theorems of `IrqSeams`, for all constants | |
| `UsbDevice` | the endpoint registers and buffers, and the ways either side writes them | `pm/stm32f0_usb.py` |
| `UsbHost` | the host's state machine over `UsbDevice`, with the firmware's EP0 driver | `pm/usb_host.py` |
| `UsbHost_proofs` | theorems of `UsbHost`, for all constants | |
| `ControlPipe` | abstract: what the host promises its clients | |
| `Gpio` | switches, encoders, pins, the polling firmware | `pm/stm32f0_gpio.py` |
| `Gpio_proofs` | theorems of `Gpio`, for all constants | |
| `Bridge` | publishing, greeting, backlog, readers, sockets, clients | `pm/usb_host.py`, the connection class of `attack.py` |
| `Bridge_proofs` | theorems of `Bridge`, for all constants | |
| `Attack` | the questions of a test run, any device that answers them, the milestone | `attack.py`, `run_attack` from the enumeration on |
| `Attack_proofs` | theorems of `Attack`, for all constants | |
| `Panel` | runs that share a port: start, probe, process, challenge, teardown | `bdn9_panel.py`, `cli.py`, the rest of `attack.py`, `tools_decoy.py`, `start_bridge` |
| `Panel_proofs` | theorems of `Panel`, for all constants | |
| `FuzzSweep` | the reach harness: slots, children, emulators, marks and scores | `fuzz_entry.py`, `bp/fuzz_reach_probe.py` |
| `FuzzSweep_proofs` | theorems of `FuzzSweep` and of `ReachTargets`, for all constants | |
| `ReachTargets` | the observer of a decode, chains, the table's acceptance, the score of a hook log | `src/tools/fuzz_reach_targets.py`, the scoring functions of `fuzz_entry.py` |
| `FlashStore` | abstract: what the flash controller promises the firmware's store | |
| `Flash` | the flash controller and the driver in front of it | `pm/stm32f0_rcc.py` |
| `ClockTree` | ready bits, the clock switch, the delay timers, and the loops that poll them | `pm/stm32f0_rcc.py`, `pm/stm32f0_timers.py` |
| `Board` | `Flash` and `ClockTree` composed: drivers that preempt each other | |
| `Flash_proofs` | theorems of `Flash` and `Board`, for all constants | |
| `MCIrqSeams`, `MCUsbHost`, `MCGpio`, `MCBridge`, `MCAttack`, `MCFuzzSweep` | instances for TLC | |

A definition preceded by the word *Mutant* is a plausible bug in the definition
that follows it; no specification uses it. Each property of a passing run is
violated when its mutant replaces the definition: PROJECT.json pairs them.

### GuestClock and IrqSeams

A tick is the guest's 0.1 ms; `Modulus` stands for 2^32 and is a parameter, so
that TLC can let the counter wrap. `IrqSeams` is one state machine because the
four files share one list. Its actions, with the code that runs in them:

* `ReadCnt`, `GpioAccess`: a register access that pumps. `Pump` is `pump()`
  whole: the budget is spent before the throttle is looked at, SOF pacing, the
  host's step (reduced to whether it acted), the vector check, the raised line.
* `WriteCcr1`, `WriteDier`, `WriteSr`, `WriteCntr`, `WriteBcdr`, `OtherAccess`:
  the register writes that matter and any other access that only moves time.
* `IdleVisit`: the breakpoint on the idle loop, in its order: lift the inhibit,
  pump, deliver a deferred compare, or jump and poll, or drip.
* `IsrExitToReschedule` (with `Entering`), `ReachSpin` (with `Switch`): the two
  breakpoints of the context switch.
* `Drain`, `ServeUsb`, `SwitchAway`, `SwitchBack`, `GoIdle`, `IsrReturn`: the
  backend and the kernel, external.

`base` says what runs below the interrupt handlers: a thread, the idle thread,
the stretch from the entry breakpoint to the spin (`resched`), the same stretch
reached without the breakpoint by a thread that was switched away inside it
(`tail`), or the spin. TIM2's own vector slot is taken as live, as the comment at
`pm/stm32f0_timers.py:87` establishes; the log counters are left out.

### UsbDevice, UsbHost, ControlPipe

A register is a record of its fields, written with the hardware's rules (STAT
toggles, CTR is cleared by a zero, SETUP is read-only). `UsbHost` has one action
per state of `UsbHost.step`, plus `TakeReport` for the interrupt endpoints, which
the code polls before everything else. The firmware half follows ChibiOS' USBv1
driver as the host's comments describe it: acknowledge RESET, serve the endpoint
ISTR names, receive before transmit, run the callback. Between acknowledging an
event and finishing its callback the firmware may read a register that pumps, so
a host step may fall there; `CtrLatency` bounds how many may fall into one event
and `ResetLatency` how many a RESET may wait.

What the modelling showed, beyond the findings:

* An EP0 opened before D+ is asserted looks ready at once, and the first SETUP,
  given while the RESET is still pending, is wiped by the firmware's reset
  handler. The request ends by patience. `ControlPipe` therefore lets the *first*
  transfer be given up, and `IsControlPipe` shows that no other one is.
* With a handler slower than the host's patience the answers may be false: a
  stall that was none, an `ok` that belongs to the previous request. `usb_pipe` is
  therefore a statement about a handler quicker than the patience.
* The interrupt endpoints are polled first and without counting patience, so an
  endless stream of reports would starve EP0. `MaxReports` bounds it.
* The host never returns to `wait_attach`.

Left out: DTOG, the byte layout of the packet memory, FNR, OUT data longer than
a packet (the code sends it as one), IN requests with wLength 0, the decoding of
replies for the panel. The enumeration script is appended in one step, so a
client's request cannot fall between two of its entries.

### Gpio

`Poll` is the firmware reading the next scanned pin: the read is counted, every
`PhaseEvery`-th lets the encoders with queued rotation move one quadrature
phase, then the pin is evaluated. The decoder is QMK's table (external). The
pacing constant, 16, leaves one more read between phases than one poll of nine
switches and three encoders makes (15); every instance keeps that relation.
Alternate functions and LCKR are plain storage and left out, and the side effects every
access has on clock and pump are `IrqSeams`'.

### Bridge

One unit is one line. `Publish` is the critical section of `_publish`, `SendLine`
each blocking send outside it; `Accept` is the acceptor's critical section,
`Greet` its sends; readers and clients follow. A socket holds `Capacity` lines
and a send waits while it is full. Clients read what arrives.

A command is of one of two kinds. One that `fits` is answered, also when it is
refused or unknown. A `misfit` is a REQ whose numbers `struct.pack` does not take
(a wLength of 65536): the `struct.error` is none of the exceptions that
`_command` and `_reader` expect, so the reader of a client that is still there
ends. `EndReader` is that end and the end of file; `CloseSocket` what comes after
the lock is released. A socket closed with commands unread, or sent to after it
was closed, is reset, and a reset may lose lines that were under way (`Reset`).
`EveryLineHeard` promises nothing more to the client that sent the misfit
(`Misfit`), and everything to the others.

### Attack and Panel

`Attack` is one test run after the challenge. `run.passed` is the set of checks
that are true, `run.pc` the batch of questions under way. The guest is external
and any device: `store` says how it keeps HID idle rates (per interface, one
store, or its first answer repeated), `handler` what it makes of GET_PROTOCOL,
`keys` whether a key emits a report (the prediction is none), `hurt` what malformed requests have
damaged, `owed` the input reports it has not sent yet. A control run is the
stalled image, which never answers. An answer that comes after its deadline is
*lost*; `MaxLosses` bounds how many. `Report` and `RepeatIdle` put reports into
the window that happens to be open, as one TCP stream cut by wall clock does;
`FirstPress` is how the code picks the one that counts. `Rung` is the milestone
ladder, with its conjunctions as sets of checks.

`Panel` is what surrounds that. One record per run is its thread; `Post` and
`Begin` are the two critical sections of the panel, `Command` a run that knows no
panel. `Probe` and `Classify` are `_preflight`, `Spawn` to `BindMarker` the
opening of `run_attack`, `Close`, `Wait`, `Finish` its `finally` and the end of
`_run`. `StartBridge` is the emulator's bind, which happens some time after the
spawn: between the probe and it, another guest or the decoy may take the port.
The nonce and the pid are modelled by what they do: a greeting convinces exactly
the run whose guest it comes from. `RunCommand`, `Line` and `Reap` are the `run`
command, which probes nothing, challenges nobody and may hold the port against
the others for as long as its log is silent.

Both commands start the emulator before the `try` whose `finally` ends it; `boot`
is the place between. `Interrupt` ends a command anywhere, by a signal whose handler exits or
a print into a closed pipe: from the guarded part by way of `finally`
(`Guarded`), elsewhere at once. Where the emulator then lives and is told nothing
(`Unguarded`: the place `boot`, and the teardown before the signal) the run is
`lost`. `NothingLeftBehind` says that an emulator outlives its run in this way
only, and never one from the panel; `ReadyAgain` excepts the ports of lost runs.
The threads of the panel are not interrupted: Python runs signal handlers in the
main thread, and their stages append to a list.

Left out: a signal that ends Python itself at once (SIGKILL, or SIGTERM to
`rehostry-bdn9 run`, `attack` or `panel`, which install no handler), which no code
survives to act on.

### FuzzSweep

The pool (`Take`, `Collect`, `Expire`), the child (`Booted` to `Fail`, one action
per phase of `reach_one`) and the emulator (`Boot`, `Serve`, `Crash`, `Exit`). A
hook log is the sequence of requests whose handling has run the hooked handler.
Phases are measured by the code in guest ticks read from a file that two threads
of the emulator write under one name, so that a reader may see it late or torn;
a phase may therefore end at any moment before its wall, and the model keeps no
tick. Walls are summed in `Longest` and compared with `ChildWait`.
Left out: the contents of the result file. The parent reads it also after a kill
(`fuzz_entry.py:544-548`), so that one left by an earlier sweep in the same
directory is taken for this child's.

### ReachTargets

`Arm.run` lets the firmware decode one request and watches every instruction.
The firmware is external and any: `Execute` is its next instruction, of a kind
the observer tells apart (`Ops`), and `Inside` one of a callee that is run
opaquely or of a case helper. Both end in `Observe`, the code hook and the memory
hook, which changes `seen`: the levels with their arms, a decision that still
waits for its next instruction, and what is being skipped. `Chain` joins the runs
of one request, `Derive` puts a table of two entries together and accepts it as
`derive` does, `Logged` is what a boot leaves in the hook log, each record at the
moment of its instruction, and `HitFor` the score. What `_identity` compares
besides the handler and the setup bytes (the exception number, r1 for a
descriptor, the OUT bytes) is one value, `Rests`: it agrees with the request or
it differs, and a record that differs must not be a hit. The tool writes r1 down
and refuses no table for it. Code addresses are small numbers and every assignment of arms to addresses
is tried. `DefinedArm` is the definition of the module's docstring, on the trace
alone. `MCFuzzSweep` runs the tool before a sweep and never during one.

Left out: the collecting run that only looks for the OUT callback (what it finds
is the choice `out`), the budget of instructions and emulator faults (the run
then ends without an arm), and the search for functions in the image. The starts
of QMK's hook and of the descriptor function, which are hooked before any arm
(lines 524-526 of the tool), are taken not to be arms.

### FlashStore, Flash, ClockTree, Board

A write to a controller register is one action, with the erase it triggers.
CR is the set of its bits; `WriteCr` stores them, erases if PER and STRT are
among them, and clears STRT; an erase may fail and then leaves memory and record
alone. The driver is external and follows the comments of the controller: it
unlocks, sets PER, writes AR, sets STRT, polls SR and clears PER, each time
writing back what it read. `FlashStore` is what all this is for, and
`IsFlashStore` the refinement: `asked` is the page of a driver that has not yet
come to its start bit.

`ClockTree` stores what was written and shows what a read derives: a ready bit
follows its ON bit, SWS follows SW, a one-pulse delay has ended when it starts.
`Turn` writes a whole register back, so that the derived bits of its neighbours
become stored ones. `waiting` is the polling loop the firmware is in.

Left out: the enable, reset, latency and option registers (storage), the
erase before an emulator exists (`backend_ref` empty, which no running guest
meets), the word that the log shows of an erased page.

## 3. Runs

| run | question | instance |
|---|---|---|
| `irq_safety` | does any interleaving break delivery? | modulus 4, throttle 2, budget 2, one counter read per window, two nested handlers, one suspended thread |
| `irq_live` | does the inhibit end, does a sleeping kernel wake, and is an image without a USB handler left alone? | vector slot empty, one handler |
| `usb_pipe` | is the host a control pipe, step by step? | packets of 2, patience 3 and 4, latency 2, seven requests of every shape, three submissions, two reports |
| `gpio_polled` | honest pins, conserved rotation, rotation heard | 2 switches, 1 encoder, pacing 5 for 4 reads |
| `bridge_feed` | no line twice, none missing, closed clients forgotten | 2 clients, of which one gives up to two commands of either kind; backlog 1, sockets of 2, two lines |
| `attack_ladder` | is every milestone earned, and reached by a genuine device? | bytes 1 and 255, three rotations of which two share a knob, one lost answer |
| `panel` | whose answers are graded, who is left behind, does the panel become ready? | 2 runs of any of the three kinds, commands interrupted anywhere, one repeated probe, the decoy |
| `fuzz_slots` | are slots exclusive and credit earned? are arms the ones defined, and entries told apart? | 3 entries on 2 slots, three modes; traces of 6 instructions, 3 levels, 3 addresses, tables of 2 entries |
| `board` | is the flash controller a flash store, and does every wait end? | 2 pages of 2, two erases, HSI and PLL, both delay timers |
| `gpio_reverse`, `bridge_hello`, `fuzz_orphan` | a statement of the documentation the code does not keep (section 5) | small |

**Why the bounds are enough.** *Clock:* with modulus 4 the counter wraps every few
steps, and deadlines can lie ahead, at and behind it; what depends on the real
width is proved. *Budget and throttle:* two is the least value for which "spent",
"spent early" and "not yet spent" differ; the proofs cover the rest. *USB:*
packets of two bytes give a full, a short and an empty last packet with
descriptors of at most four bytes; patience 3 and 4 exceed the latency 2, as 24
and 4000 exceed a handler's few register reads. Three
submissions are the script's entry and two clients' requests, so that a refused,
an abandoned and a good transfer meet in every order. *GPIO:* the encoder state
is four phases and a queue; two detents are eight phases, twice round.
*Bridge:* with a backlog of one and three kinds of writers every overlap of
replay and live line already occurs; a second command is what a reset needs (one
unread when the socket is closed, or sent after it), and a client without commands
shows that another's misfit costs it nothing. *Test run:* 255 is the byte a missing answer
is read as and 1 any other; two rotations of one knob share an endpoint and the
third does not; one lost answer is enough to make each check fail alone. *Panel:*
two runs and the decoy are all pairs that can meet on one port. *Harness:* a
third entry is the one that gets a slot somebody had before; the walls are the
code's 300, 150 and 120 seconds in tens. *Targets:* with three levels (four in
the code) a call can be followed twice and refused once; a decision, two calls
and an effect fit into a trace; three addresses let two handlers and the
not-found arm coincide or differ in every way. *Board:* two pages show an erase
of the wrong one, two erases show the previous one coming back; HSI and PLL share
a register, and one of them runs at reset.

`CHECK_DEADLOCK FALSE` is set only where a bounded number of lines, runs, entries,
erases or questions lets the system stop.

**Fairness.** `irq_live`: the backend's chunks are bounded, so a list is drained;
the guest executes, so a handler ends, the spin is reached, the idle loop goes
round, and a busy thread reads a modelled register again (weak fairness only).
`usb_pipe`: the pump is called again and again, and the firmware's start-up and its
interrupt handler run to their end. `gpio_polled`: QMK's matrix scan never ends.
`bridge_feed`: each thread of the bridge and each reading client continues when
it can; nothing makes a client connect, ask or close. `panel`: a thread that has
been started runs on, since all its waits have deadlines, and a process that was
told to end does; nobody has to post, and a log need not grow before its process
ends. `board`: a driver that has begun goes on, since ChibiOS returns to a thread
that was preempted; nothing makes it begin. `attack_ladder`, `fuzz_slots`: none, they
check safety only. `SleepEnds` leaves out one case by hypothesis: a deadline that
is late by exactly half the counter's range (section 5).

## 4. Proofs

Every theorem below is checked by TLAPS for every value of the constants that
satisfies the named assumptions of the module; hypotheses beyond those stand in
the theorem. The invariants were checked by TLC first.

### IrqSeams_proofs

`TypeCorrect`; `DeliveryInvariant` (`SeamInv`) and from it `NmiAlone`, `Sealed`,
`OneAtATime`, `Tim2Outermost`, `NoCompareLost`, `Tim2Stops`: the delivery
properties of `irq_safety`, and that TIM2 is queued only with the emulation
stopped. None of them is inductive. That the window stays sealed depends on what
the budget is when the guest enters it and on how many visits it has made since:
`WindowContext` says that budget and visits together still cover the whole
inhibit, and `WindowAssumption` (a window makes fewer counter reads than the
budget) turns that into "no entry". The other parts say which entry may be in
the list in which context: an NMI only at the spin with the emulation stopped,
TIM2 only in the idle thread with it stopped, USB anywhere else, never two. From
these a step of the pump can raise only onto an empty list outside the window,
a step of the idle seam can inject only onto an empty list, and the places that
empty the list can only drop a USB entry, whose CTR stays latched.
`CompareContext` then follows: nothing drops a TIM2 entry.

`NeverUnwired`: an image without a USB handler never has IRQ 31 queued. Its
invariant is that the vector check never says "yes" for it; a failed read leaves
the question open, and an open question does not raise.
`ClockForward`: the action property `ClockNeverGoesBack`. Each way the clock
moves adds less than half its range, which is what "forward" means on a counter
that wraps; a jump, because the deadline was found in the future by the wrapping
compare.

Assumptions: the modulus is even and above 2 (2^32), throttle, budget and activity
divisor are positive, a drip is less than half the range (1), the window makes fewer reads than
the budget. The last is an assumption about ChibiOS that the code makes too when
it chooses 64.

### UsbHost_proofs

Without any assumption on the handler's latency, so for a firmware as slow as it
likes: `Soundness` and from it `TypeCorrect`, `NeverBoth`, `IntoBuffer`,
`InOrder`. The invariant adds to the types that the packets on their way are
bytes of a request and that a reply is being cut only for a request the firmware
knows (`MoreTypes`); that before the host has seen EP0 open nothing is on EP0 and no callback
runs but the reset's (`ResetFirst`, `Opening`); that the reset comes before
anything is carried out, hence before the first report; and that an armed report
is the next one, an unarmed endpoint has delivered all of its own
(`ReportsKept`). `InOrder` needs all of these: a bus reset clears the report
endpoints, and only because it comes first does it lose no report.

With the hypothesis `Outlasts`, which says that a handler's event is over before
the host's patience is (`ResetLatency` and `CtrLatency` at most `StepPatience`,
`CtrLatency` less than `StallPatience`; in the code 4000 and 24): `InStep`,
`Performed`, and `PipeSteps`, that every step of host and firmware is a step of
`ControlPipe` or changes none of its variables. The hypothesis is needed: with
`CtrLatency = StallPatience` TLC finds `OkMeansPerformed` violated. The invariant
`Steady` behind them has three parts.

* `Phase`: where the host's state, EP0's register, the firmware's machine, the
  running callback and the bytes sent so far stand together, for each of the
  fifteen points of a transfer, from `Boots` over `Pends` (the SETUP waits),
  `Arms`, `Goes`, `Drains` (packets of the answer), `Empties`, `Emptied` (the empty
  one), `AwaitsStatus`, or `AwaitsData`, `Takes`, `SendsStatus`, to `Rests`. `Refuses` is
  a request the firmware does not know, `Lost` the one SETUP that a late bus reset
  wipes. In the phases where an event waits for the handler (`Timely`) the host has
  waited for no longer than the event has, so by `Outlasts` it can neither give up
  nor believe a STALL that a past transfer left there. One lemma per action shows
  which phase it leads to.
* `Books`: what was submitted is what was answered, the current transfer and the
  queue, in this order. Hence the answer of a step is that of the first request
  still open, which is all `ControlPipe` asks of its place.
* `Credit`: a request without an answer is carried out before its status is
  taken, so the count of `ok`s never overtakes `performed`.

Assumptions: packets and patience are positive, request names are known and have
lengths, and what the firmware sends back is not empty. That every request is
answered in the end, the fairness half of `IsControlPipe`, stays with `usb_pipe`.

### Gpio_proofs

`Levels` is the invariant that the levels driven by the world are exactly those
of the pressed switches and of the encoders' phases (`LowHonest`), and that what is left of a poll is an end
of the scan order; `TypeCorrect` and `HonestInputs` follow. `Paced`, `NoJump` and
`NothingLost` have the hypothesis `PhaseEvery > PollLength`, in the code 16 for 15
reads: `PollInv` counts, for an encoder whose phase has moved, the reads until its
pad B comes up, and says that with those already made they stay below
`PhaseEvery`. A torn read, pad A before the phase and pad B after it, shows the
old phase or the new one (`TornRead`), never the one opposite. `NothingLost` is also
under `~MayReverse`: with reversal it is false, which is the finding of
`gpio_reverse`.

### Bridge_proofs

`Invariant` (`BridgeInv`), `TypeCorrect` and `NoLineTwiceTheorem`. That no line
arrives twice is not inductive: lines are also in the backlog, in a copy of it,
in a publisher's hands and in sockets. `LinesOnce` says that what a client has
read, what its socket holds and what is on its way to it are apart; `BacklogIsLast` that the backlog is the tail of
what has been published, so that a copy of it and the lines published later
cannot overlap; `ListsDistinct` that a client is in each list of clients at most
once; `NewcomersUntouched` that nothing is on its way to a client not yet
accepted. A reset or a send to a closed socket only takes lines away from what
`LinesOnce` counts (`LinesReset`, `LinesKept`). Assumption: the name for "no
client" is none of the clients.

### Attack_proofs

`TypeCorrect`, and four properties of `attack_ladder`. `NoLateMatch` needs that a
report carries what has caused it or nothing (`ReportsHonest`); `ControlIsSilent`
that a control run hears nothing and so misses its first rotation. For
`IsolationIsEarned` the invariant is `StoreTells`: at the isolation test the
device has already answered interface 0 with the byte it was sent, so a device
that repeats its first answers cannot answer the swapped one. `ParityIsEarned` is the
longest: `Earns` lists, stage by stage, the checks that a genuine device which
has lost no answer must have passed by now, and `Ledger` the facts of every run
on which they rest (an empty keymap owes nothing to the key, so the report found
in a rotation's window is not the key's). Assumption: the volume encoder's rotations are
some but not all of the rotations, and no rotation is named like the key.

### Panel_proofs, FuzzSweep_proofs, Flash_proofs

`Panel_proofs` proves for any number of runs and of probes `Invariant`
(`PanelInv`) and from it `TypeCorrect`, `OwnGuestGraded` and `NobodyLeftBehind`.
The property that only the own guest is graded is not inductive: a run may be
about to grade. The invariant adds that nothing is graded before the challenge,
and that whoever comes after it has its own guest as peer; the probe of the port
and the panel's flag play no part in the argument, as they may fail. The other
property (`GuestBounded`) needs that no process lives before the spawn, that the
only ways to the end of a run that has spawned are `Close`, `Reap` and an
interruption where nothing guards it, and that a run from the panel is never
interrupted, which needs that its origin does not change (`OriginKept`).

`FuzzSweep_proofs` proves for any number of entries and of workers `Invariant`
(`SlotInv`) and `SlotsAreExclusive`. Exclusive slots alone are not inductive: a
slot that is returned must not be in the list already, and the list must name no
slot twice (`FreeDistinct`, `HeldApart`). That none is lost is a sum of a length
and a cardinality (`Conserved`), which needs the set of running entries to be
finite although the set of entries need not be. The one assumption it uses is
that the number of workers is a natural number.

`RunsInOrder` (`SweepInv`) is the invariant of a run behind `TypeCorrect` and
`CreditEarned`. It ranks the requests in the order in which a run asks for them,
enumeration, entry, address, device, and says that log and queue, read one after
the other, rise (`Ordered`): no request is worked off twice or ahead of an older
one, and nothing is logged that the child has not yet sent. So a log has three
records at most, since the address question leaves none; and without the host's
own enumeration it can hold but the entry's when the second mark is set. A run
that ends empties the queue, and an emulator that outlives its child finds
nothing to do, so the log does not change under a score.

The same module proves of `ReachTargets`, for any decode, any number of levels and
any addresses, `ReachInvariant` (`ReachInv`) and from it `ArmsCorrect`
(`ArmsAsDefined`) and `HitsCorrect` (`HitsTellApart`). The definition of an arm
looks back over the whole trace, the observer sees an instruction once; that they
agree at the end is not inductive. `ObserverInv` says where they stand after each
instruction: the observer is at the level the trace has come to (`LevelsMatch`),
it skips exactly while the firmware is elsewhere (`SkipsTogether`), no effect has
been passed (`EndsAtEffect`), and every level already has the arm the definition
gives for the trace so far, except the last one while it waits for the
instruction after a decision (`ArmsSoFar`). The step `CaughtUp` is the argument:
the next instruction of the body is the arm that level waits for, because the
decision before it is the greatest of its level (`LastArm`). That a new level has
no arm yet needs that no decision lies in a level not entered
(the second part of `LevelsMatch`). The lemmas about traces (`FollowedAppend`,
`SamePrefix`, `LevelsKept`) say what one more instruction leaves as it was.
`OneHit` is the argument for the score: in an accepted table of however many
entries, a chain ends at its entry's own handler and passes no own handler before
(`FirstOwn`), so the first own record is that one, whatever the firmware goes on
to execute. Of the two conditions of `Accepted` this uses the second only; that
no own handler is the arm of a request not found is not needed to tell entries
apart. The assumption is `ReachAssumption`: at least one level, and code addresses
that are not zero.

`Flash_proofs` proves for any number and size of pages `Invariant` (`FlashInv`),
`ImplementsStore` (the controller and its driver start as the flash store does,
and each step of theirs is one of its steps or none) and `BoardImplementsStore`,
the same with the clock drivers preempting. The invariant says why no write to CR
erases twice or by itself: the start bit never stays behind an operation, PER is
set exactly from `select` to the end of the polling, and AR names the page of
this erase when the start bit is written. The assumption is that sizes are
positive. `FirstLookEnds` is the safety half of `WaitsEnd`, for any set of
oscillators: whatever a loop of the clock and delay drivers waits for is there
when the wait begins and still there at its first look, however registers are
written back with what they showed (`ClockInv`). That the firmware does look is
the fairness of the run.

### Only model-checked

Liveness (`InhibitExpires`, `SleepEnds`, `RotationHeard`, `EveryLineHeard`,
`ClosedForgotten`, `WaitsEnd`, `ReadyAgain`) and the fairness that `IsFlashStore`
and `IsControlPipe` ask for, which the prover cannot do. The steps that these two
refinements consist of are proved (`ImplementsStore`, `PipeSteps`). Every invariant
and every other action property that a passing run checks is proved as well.

## 5. Where the code and its documentation disagree

Three have a run in which TLC shows a trace; PROJECT.json quotes the lines.

* `gpio_reverse`: turning an encoder back reverses the phases still queued.
* `bridge_hello`: a published line can overtake the greeting.
* `fuzz_orphan`: the parent waits 1170 s for a child whose phases may sum to
  1199 s; the child is then killed without its `finally`, and its emulator stays
  in the slot the next entry gets.

The following were met while modelling, and have no run of their own:

* A notification withheld in the context-switch window is raised with the next
  SOF that is due, not by the next pump as `pm/usb_pump.py:94-95` has it: the
  return value of the host's step is gone by line 156. The `Pump` of `IrqSeams`
  does what the code does.
* A deferred compare can be deferred again at each visit that finds an entry in
  the list (`bp/chibios_pump.py:188`), where STATUS.md:926-927 counts on one visit.
* At exactly half the counter's range a deadline is past for `catch_up_to`
  (`pm/guest_clock.py:96`) and not reached for `elapsed_ge` (line 115): the idle
  seam then neither jumps nor delivers until the next activity tick.
* A REQ whose numbers do not fit gets no answer and ends the connection of a
  client that is still there (`pm/usb_host.py:131`, past the `except` at lines 617
  and 552), where every other command that cannot be read gets an `ERR` line
  (line 619).
* `Popen` stands before the `try` (`attack.py:522` and 530, `cli.py:93` and 97):
  a command interrupted between the two, or inside the teardown, leaves its
  emulator running, with the port. `Interrupt` of `Panel` does so.
* A transfer that merely waits too long is answered `stall` (`pm/usb_host.py:322`),
  where the comment at lines 56-57 keeps that word for a refusal observed.
* PREDICTIONS.md asks for fresh protocol *and* idle round trips after the
  malformed requests; `attack.py:906` looks only at the status of the protocol
  answer, and line 920 reads a missing idle answer as 0xff.
* The isolation test draws its two first bytes independently (`attack.py:819`):
  equal ones fail a correct device, one run in 255. `GenuineGetsParity` excludes
  them by hypothesis.

* `cli.py:4-6` says the `run` command streams the log for `--seconds` and then
  reaps. Between two looks at the deadline it blocks in `readline`
  (`cli.py:107`), so it overstays until the emulator logs its next line; a silent
  emulator is never reaped. `Line` of `Panel` is that read.
* `cli.py:46-49` calls the emulator a grandchild of the command; the challenge of
  `attack.py` compares the greeting's pid with that of the child itself.
* LOCK keeps no write out of the flash controller, and any write to CR may clear
  it, keys or not (`pm/stm32f0_rcc.py:208`), where lines 156-157 say it is modelled so that the
  unlock sequence has an effect: it has one for a driver that looks at the bit.
* A failed erase shows EOP like a good one (`pm/stm32f0_rcc.py:187`).
* `pm/stm32f0_timers.py:101-105` says TIM3's interrupt is delivered if the
  firmware arms DIER; nothing delivers it, and a start that is not one-pulse is only noted.

## 6. Plan

Done: `GuestClock`, `IrqSeams`, `UsbDevice`, `UsbHost`, `ControlPipe`, `Gpio`,
`Bridge`, `Attack`, `Panel`, `FuzzSweep`, `ReachTargets`, `FlashStore`, `Flash`,
`ClockTree`, `Board`; theorems for every invariant and action property of the
runs, and of `WaitsEnd` the safety half. What remains with TLC is liveness.

Not planned: argument parsing, spawn recipe, path and binding helpers, locating
functions in the firmware's image and cutting it out of a hex file (pure functions), the catch-all
peripherals (storage and constants), log text, the prose of a verdict.
