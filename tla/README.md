# Verification of digikit's emulator

digikit runs the firmware of two Elektron instruments (Digitakt II, Digitone II)
on a host: it extracts the firmware image, boots it in an instruction-set
simulator (Unicorn, ColdFire), models the peripherals the firmware waits for,
saves the booted machine as snapshots, and drives a panel with a screen, keys
and a serial console.  This directory holds TLA+ models of the parts of it whose
correctness depends on the order of events, TLC configurations that check them
on small instances, and TLAPS proofs of theorems that hold for every instance.

* [The system](#the-system) lists the parts, their state and what is hard in them.
* [The models](#the-models) says which module models which part, and how.
* [The runs](#the-runs) says what each configuration checks, with its bounds and fairness.
* [What is proved](#what-is-proved) gives the arguments and their assumptions.
* [Where code and documentation disagree](#where-code-and-documentation-disagree)
  and [other observations](#other-observations) list what came up on the way.
* [What is not modelled](#what-is-not-modelled) and [the plan](#the-plan) say what is left.

Run a configuration with `tlc -config X.cfg MCModule.tla`, and check proofs with
`tlapm ModuleProofs.tla`.  `PROJECT.json` maps each definition to the lines it
translates, and lists the runs, the theorems, the hazards of the code with the
properties that cover them, and for each checked property a mutant: a plausible
bug, defined in the module as `...Bug` next to the definition it replaces, that
makes the property fail under the configuration of its run.  No `Next` uses a
`...Bug` operator.

## The system

One process emulates one machine.  Almost everything runs on one host thread,
which alternates between letting Unicorn execute guest instructions and doing
host work at the boundaries; peripherals run inside memory hooks, in the middle
of a guest instruction.  In the GUI a worker thread emulates while the UI thread
takes input.  What makes it hard is the interleaving of guest and host work, the
snapshot, which may be taken between any two instructions and resumed in a new
process with other options, and the files, which outlive every process.

| Part (source) | State | Operations | Interacts with | Hard because | Correct when |
|---|---|---|---|---|---|
| Run loop (`emu/longrun.py` `spin`) | clock, step, budget | choose a step, run it, service timers, return | timers, machine, every caller | rounding of fractional deadlines, repeated calls, block-bounded steps | deadlines are met, the clock never rewinds |
| Timers (`emu/pit.py`, `emu/dtim.py`) | deadline per channel, held flags, armed writes | deadline, step, service, release | run loop, guest registers, interrupt controller | several timers due at once; the guest reprograms them in mid-step | fixed precedence, no backlog, nothing delivered during the intro |
| Exception entry (`emu/harness.py`) | frames on the guest's stack, mask, PC, `_srtrap_target` | raise_vector, rte, trap, trampoline | timers, firmware handlers | nesting, and with `srtrap` the work is split between host and guest code | handlers match frames, a task keeps its mask |
| Unblock policy (`emu/longrun.py` `build`, `emu/blockers.py`) | counts of pends | satisfy a pend nobody will post | RTOS of the guest | which waits may be satisfied, and when | a satisfied pend is one that could not be posted |
| Snapshots (`emu/snapshot.py`, `emu/checkpoint.py`, seam in `longrun.build`) | file, table of deferred components, registered components | save, restore, claim, register, spin's guard | every stateful peripheral, GUI, tools | several owners of one snapshot; files of every age; crashes | what runs is what was saved, failure changes nothing |
| UART8 transmit DMA (`emu/edma.py`) | TCD35, owed completions, sent bytes | SERQ, deliver, kick | firmware ring, snapshots | completions outlive a session; legacy snapshots | each byte once, in order; one completion per transfer |
| Panel input (`emu/panelin.py`, `emu/gui.py`, `emu/device.py`) | queue, masks, dwell counters, RX ring | send, drain, encode, feed, receive | UI thread, worker, firmware | two threads, deferral, a wire of states instead of edges | order kept, masks true, everything delivered, a dwell apart |
| Storage (`emu/esdhc.py`) | card overlay, armed channel, semaphores | command, data transfer, bus test | eDMA, storage driver, snapshots | three completions with three owners; other eDMA users | a block device |
| Launcher and ladder (`emu/run.py`, `emu/extract.py`, `emu/checkpoint.py`) | sections, marker, rungs, sidecar | extract, match, make, pick a rung | the file system, earlier runs | any command may die or do less than asked | a firmware runs on its own sections and its own rungs |
| GUI worker (`emu/gui.py`) | thread, published picture, flags | load, run, publish; draw, pause, replay, restart, close | UI thread, run loop | a restart that does not wait for the old worker, a picture drawn while it is written | one worker per machine, the latest picture is shown |
| SSI audio DMA (`emu/ssi.py`) | request clock, channels 48 and 50, two delivered flags, the forced source | serve, deliver, force, save, restore, align | run loop, firmware handlers | its own rate, interrupts refused and retried, a handler entered from another's return | no request is lost, no handler is lost or entered twice |
| Cold boot (`emu/dspboot.py`, `emu/boot.py`, `emu/flashboot.py`) | guest, patches | boot to an instruction count | ladder, storage | stops early, models missing | seen through the ladder and the storage model |
| Board inputs, serial, DSP boot (`emu/gpio.py`, `emu/serial.py`, `emu/dsp.py`) | register state | register reads and writes | firmware | little: single-step models | reads follow writes |
| Screen, console, tracing (`emu/screen.py`, `emu/frame.py`, ...) | none of its own | read guest memory | GUI | little | a function of guest memory |
| Host replacements (`emu/hle.py`, `emu/softfloat.py`, ...) | none | compute what guest code would | guest registers | numeric | equal to the code replaced |
| Symbols (`emu/symbols.py`, `emu/hwref.py`, ...) | tables | signature search | build | data | a function of the image |
| Containers (`dt2/`) | none | unpack, decompress, check, repack, seal | extraction, patching | a bit stream interleaved with bytes, fields that cover one another | a file holds what it was asked to, and the bootstrap accepts it |
| Patching (`tools/patchimg.py`, `tools/roundtrip.py`, `tools/machinebuild.py`) | the directory of sections | patch, rebuild | containers, extraction | one directory for the files of several devices, extractions cut off | nothing but the asked change, nobody else's bootstrap |
| SHARC tracer (`tools/sharc_trace.py`) | live and stopped paths, abstract machine of each | execute, fork, merge, stop | an image of DSP code | conditions nobody can decide, delay slots, loops, values that stop being known | the machine's run is among the paths |
| Panel sweep (`tools/panelsweep.py`) | records seen, calibrated callers, rows | ask, wait, calibrate, file, flush | firmware's event queue, RX ring, run loop | an answer that comes in the window of a later question, among redraws | rows belong to what was worked, or say that they may not |
| Other SHARC tools, measurement (`tools/`) | files | batch programs | the parts above | size | per tool |
| Device descriptions (`devices/`) | data | none | device.py | - | - |

`PROJECT.json` gives the state of each ("modelled", "partly", "not_modelled")
with a note on what is left out.

## The models

### Timers: `Timers.tla`, `MCTimers.tla`, proofs in `TimersProofs.tla`

The clock is the number of instructions executed.  A period is a rational number
of instructions in the code (a rate divided by an instruction rate), so the
model counts in `Grain` = 2 ticks per instruction: half-instruction deadlines
are enough to make rounding up, and rounding twice, matter.

`phase` says where the host is.  In `run` the guest acts: `WriteTimer`,
`WriteMask`, `WriteSr`, `Trap` (the RTOS yield, which keeps the mask), `Rte`,
`Trampoline` (the `srtrap` entry code), `Release` (the hook on the intro's
exit).  `Step` is the head of `spin`: it asks every source for its deadlines
(`Deadline`), which also arms channels and consumes unnoticed DTIM writes, and
takes the smallest of the candidates, rounded up.  `Boundary` credits the step
and `ServiceChannel` walks `Pits.channels` then `Dtims.channels`, one action per
channel and outcome (skip, disarm, arm, miss, fire, lose), because the CPU's mask
changes from one channel of a walk to the next.  `Return`/`Spin`/`SetRate` are a
caller's view: `spin` is called again on the same sources and the GUI's
governor changes the instruction rate in between.

`RaiseVector` has both ways of entering an exception: the host builds the frame,
or (`build.srtrap`) leaves a placeholder and redirects to guest code that reads the real
SR and raises the mask.  With it, the mask is still down when the next timer
of the walk is considered, which is why `SameLevelRefused` and
`HandlerMatchesFrame` are theorems only without `srtrap`.  `build.fast` bounds a step
by basic blocks, as `_FastStepper` does, with its 3.87 instructions per block, and
`build.handlers` are the channels whose vector the firmware handles.  A behaviour
starts in one of the configurations `Builds` and keeps it.

### Snapshots: `Checkpoint.tla`, `MCCheckpoint.tla`, proofs in `CheckpointProofs.tla`

The state of a component is its *age*: how many slices it has run since it was
built.  A resumed machine is right when the guest and every saved component have
aged alike since the snapshot, which is what `Whole` says; a component that was
never claimed, was claimed late or was wound back shows up as an age that is off.

Components come in three kinds, as in the code: `Builtin`, whose state
`restore_into` validates before it changes anything; `Custom`, which validate in
their own restore (`Esdhc`, `Ssi0Dma`); `Late`, which can only be built against
the restored guest (the timers), are deferred and claimed by the caller.  `Damages`
lists what can be wrong with which part of a file (a bad schema; a
configuration, such as the timer rate, that differs from this session's).
`OpenFile`/`Dump` split `save`, so `Stop` in between leaves a torn file.
`Start`, `Refuse`, `InstallGuest`, `RestorePart`, `RejectPart`, `Built` are the
restore; `Create`, `Claim`, `ClaimFails`, `Register`, `Run` the callers'
protocol; `DumpLegacy` is a snapshot of the guest alone, as `checkpoint.extend`
takes it.  `Init` allows every file a session may find.

### Transmit DMA: `TxChannel.tla`, `MCTxChannel.tla`, proofs in `TxProofs.tla`

A write to SERQ moves the whole major loop at once (`RunMajor`) and owes the
guest one completion, which `Deliver` can only hand over at the firmware's
free-space loop or its idle spin.  The firmware's side (`Enqueue`, the wait for
room in `Fits`, `Put`, `Isr`) is external to the repository's code and follows the
disassembly in the docstring of `edma.py`.  A *session* begins cold (without the
model), on a legacy snapshot (guest alone; a transfer left armed is kicked) or on
a stateful one; `Save`, `Extend` and `Resume` may come between any two actions,
and a snapshot may be resumed any number of times.

### Panel input: `PanelInput.tla`, `MCPanelInput.tla`, proofs in `PanelProofs.tla`

The UI thread (`PressKey`, `ReleaseKey`, `TurnKnob`, `Pause`) interleaves with
every step of the worker's `_drain_input`: one action per event popped, so an
append lands between two pops or before the deferred ones are put back.
`Feed` writes to the receive ring whatever it still holds, as `panelin.feed`
does (`Wrapped`), or raises.  A turn too far for the wire raises where nothing
catches it (`TurnRaises`): the worker's thread is dead from there on.  The wire carries masks; a mask is the set of
buttons held.  The history `made` is what the user did; the properties compare
it with what the firmware has read.

### Storage: `BlockDevice.tla`, `Esdhc.tla`, `MCEsdhc.tla`, proofs in `EsdhcProofs.tla`

`BlockDevice` is the abstract specification: one request at a time, answered in
one step with what was last written, saved and resumed as a whole, or saved as a
rung, which has the driver's side only: the card is then found as delivered, and a
request under way may be lost and passed over (`SaveRung`, `PassOver`).  `Esdhc` is
the controller with the driver of the firmware (external, after the docstrings
of `esdhc.py`): TCD59 is programmed, the channel armed, the command issued,
and the driver pends on the semaphores of command, data and DMA, or polls DONE
for EXT_CSD.  A command completes inside the write of XFERTYP (`CardToHost`,
`HostToCard`).  Other users arm other channels at any time (`ArmOther`).  `Save` is
`save_longrun`, with the controller's state; `Rung` is the save of `make` in a cold
boot and of `extend` in a session on any snapshot.  Both look at nothing but a count
of instructions, so `Rung`, like `Save` and `Resume`, may come between any two steps
of the driver, and it drops overlay, armed channel and bus-test word, whatever
they are.  `intact` is a history: it becomes FALSE when a rung's `Holds` says that the
controller had something the job under way still needs, and when a cold boot, which has no
eDMA semaphore (`emu/dspboot.py:365-369`), has run a command whose driver waits for it.  The
mapping reads the abstract disk as overlay over image over zeros, a request
as served once its command has run, and as lost when its channel was armed and no longer
is before that.

### Files: `Ladder.tla`, `MCLadder.tla`, proofs in `HostProofs.tla`

One variable per file or family of files: the extracted image, the marker with
the firmware's hash, the rungs with the build that saved them, the sidecar.
`task` is the command that runs and where it is.  Each command may `Die` at each
step; what it was writing is then whole, missing or cut off.  Two firmwares go
by one name (an upgraded `.syx` dropped over the old one).  `unsure` and `cut`
are histories: they record the events under which the code does not know what
it is looking at, so that the invariants can say these are the *only* ones.

### The window and its worker: `Worker.tla`, `MCWorker.tla`, proofs in `HostProofs.tla`

The worker's thread goes from loading to `top`, `spinning`, `publishing` and
round again, and a picture it publishes is cleared, filled and counted in three
actions (`Clear`, `Fill`, `Bump`), because the other thread looks in between:
`Look` and `Draw` read it in two halves, and `Note` takes down the version after
that.  A picture read while it was written is `Torn`.  `Restart` and `Quit` tell the
worker to stop and join it, and a join may time out: the worker left behind is
`Replaced`, which keeps only where it is, since `App` no longer refers to it.
`passed` and `late` are histories of the two things that make the promises
below not hold: a picture published between drawing and noting, and a join that
timed out.

### Audio clock: `Ssi.tla`, `MCSsi.tla`, proofs in `SsiProofs.tla`

The distance to the next request is kept in instructions times `Hz`, so that a
period that is no whole number of instructions stays exact, as the code's
`Fraction` is.  `Boundary` is one turn of `spin`'s loop with this source in it: n
instructions, fewer than the distance when another source's deadline is nearer
and up to `Slack` more when steps are bounded by blocks; then `service`, which is
the minor loop and the delivery of vector 170, then of 191.  `clock` is what a clock
that missed nothing would show, and `Steady` compares the two.  The handlers are
the firmware's, as the comments of `ssi.py` read them: 170 acknowledges, forces
191 and returns; at its RTE a hook may enter 191 in a frame that returns to that
same RTE (`TxRte`).  `Save` and `Resume` come between any two actions.

### Firmware files: `Bytes.tla`, `Lz.tla`, `Container.tla`, `Firmware.tla`, `MCFirmware.tla`, proofs in `HostProofs.tla`

`Lz` is the stream of a compressed section: the packer of `aplib.py`, which
writes every byte as a literal, and the reader of `elz.py`, which knows literals,
matches, repeated offsets and the terminator.  A byte has `B` bits and every
constant of the format (bias, terminator, width of a gamma) scales with it.  What
Elektron's own packer writes is external, as a list of events.  `Container` is the
container with its table, the seal and the checksums, and the messages of seven
bits it travels in, written (`build.py`, `authcode.py`) and read (`container.py`,
`extract.py`).  `Firmware` puts the tools on top: over one file in hand and one
directory of sections, files are downloaded, extracted or half extracted,
patched and rebuilt, in any order.  `asked` is a history of the contents the
file was meant to have, `doubt` one of an extraction that was cut off and of a section 2 or
4 that `patchimg` changed.  It refuses these sections as far as it recognises them
(`IdentifySection`): an image by its digest (`Known`), a section 2 by two texts
(`BootMarks`), a section 4 by length and first bytes, and any section declared as one of
them (`CheckSectionAllowed`); an image that is none of these is patched.  Each layer extends the one
below, and `Bytes` holds what they share.  The loops of both codecs are recursive functions
over positions, bounded by what each pass must consume, so that they can be proved about.

### Tracing the audio core: `SharcValue.tla`, `SharcCompute.tla`, `SharcPath.tla`, `SharcTrace.tla`, `SharcMachine.tla`, `SharcCoverage.tla`, `MCSharcTrace.tla`, proofs in `ToolProofs.tla`

`SharcValue` has the abstract words (a constant, an affine expression over
names, or unknown) and the three-valued flags; `SharcCompute` every fixed-point
computation over them; `SharcPath` one path and `Execute`, which takes it over
an instruction and returns the one or two paths that follow (conditions that are
not known fork it; delay slots, loops, calls, the stacks, memory under two names,
post-modify and circular MODIFY); `SharcTrace` the search: a queue of live
paths, merged when nothing but their history differs, limited in number and in
steps.  `SharcMachine` is the concrete machine, from the manuals that the tracer
cites and with its own arithmetic (results as integers, not the tracer's
adder), and `SharcCoverage` relates the two: `Represents` says that a path speaks of
a machine, `Covered` that every run of the machine is spoken of at each step until
a path says why it stopped.

### Panel sweep: `PanelSweep.tla`, `MCPanelSweep.tla`, proofs in `ToolProofs.tla`

`stage` and `number` say which question `main` is at: `Question` computes it from them,
as the loops over groups, buttons, edges and encoders do (`Key`, `Edge`).  `Inject`
clears the records and feeds one input, `Chunk` is one spin of `probe_wait`, and the
judgement of what was seen is an action per stage (`Calibrate`, `SignCheck`,
`SweepButton`, `SweepEncoder`, `FlushEncoder`), after which `Proceed` goes on to the
next question or the next stage.  The records of the panel and those of a redraw
are kept apart, since a redraw's are all alike and only their number matters.
The firmware is external and does what the tool's comments found it to do (`Handle`):
it may keep one record per kind of input back until the next input of that kind,
may redraw around any input (one caller, one payload), and sends in order, in any
step before `probe_wait` gives up.  `Crash` is a spin that stops for another reason.

### How the modules go together

Modules are composed where the components meet in the code.  `Esdhc` refines
`BlockDevice`.  `Checkpoint` is the protocol that `TxChannel`, `Esdhc` and `Ssi` use
when they save and resume; the first two restate its two outcomes (state with
components, or the guest alone) as `session`, and `Checkpoint` covers the rest
(parts missing, damaged, unclaimed or claimed twice).  `Ladder` decides which
file `Checkpoint` opens, over sections that `Firmware` says the contents of.
`Timers` supplies the `now` whose continuity `Checkpoint` guards (component
"timers"), and `Ssi` shares its loop.  `Worker` is the thread in whose chunks
`PanelInput` drains the queue.  `Firmware` stands on `Container`, whose compression is `Lz`;
`SharcCoverage` joins `SharcTrace` and `SharcMachine` over one `SharcPath`.

## The runs

State counts are distinct states.

| Run | Shows | Bounds, and why they are enough |
|---|---|---|
| `timers` | Deadlines met, no backlog, no stranded deadline, display first, no re-entry, masks kept, in two configurations: counted steps with host-built frames and every vector handled; block-bounded steps with the trampoline and a vector without handler | Two PITs on one level in a 2:1 ratio, which collide at every second tick; one DTIM of a lower level whose period is half an instruction, so it is due at every boundary and has a backlog, or two and a half after a rate change; a new step begins short of 5 instructions (`MaxInstrs`), which is two ticks of the slower PIT, in calls of `spin` for 3; masks 0 and 7; nesting is not bounded (2.4 million states, the longest run: some two minutes) |
| `checkpoint_plain` | Any number of sessions over one file, with any damage: whole and atomic but for the two exceptions below, never rewound | Two built-in components, one custom, the timers, each with the damage it can have; two build manifests; age at most 4, which is two saves and a resume with a slice between each |
| `checkpoint_claim_raises` (violation) | A claim that raises disarms the guard of `spin` | one damage: the timers' configuration |
| `tx_channel` | Bytes once and in order, one completion per transfer, room comes | Ring of 3 bytes and calls of 1 or 2, so indices wrap and callers wait; 5 bytes, which is a ring and a wrapped transfer (86 thousand states) |
| `panel_input` | Masks true, nothing dropped, order kept, turns never late, dwell kept, all delivered | Two buttons on one channel, one of them latching, one on another, one without a wire, one encoder, turned near or too far; 4 events, enough for a press under a held modifier and its release; dwell 0 or 2; ring of 3, which 4 events go round |
| `worker` | The screen shows the latest picture, one worker at a time, a worker told to stop ends | Two emulators, so that one is replaced beside its successor; two pictures, one of them dark; two published per worker, so that one can come while the other is drawn |
| `ssi` | Requests keep their period, delivered flags match handlers, at most three frames, everything is served | A request every two and a half instructions and a boundary up to three instructions late, so it is late by less and by more than a period; two minor loops; masks that let in both, one or neither vector (2.4 thousand states) |
| `esdhc` | `BlockDevice` is implemented, the bus test passes, requests are answered, but for what a rung or a cold boot loses | 2 sectors, one in the image and one beyond it; 2 requests of 1 or 2 sectors: a write and what reads it back; one foreign channel; any number of saves, rungs and resumes, each between any two steps (245 thousand states) |
| `ladder` | Own sections, own rungs, except after the named events | 2 firmwares, 2 rungs, any number of commands and deaths (564 thousand states) |
| `firmware` | Sections keep their contents, files pass the bootstrap's checks, a device keeps its own bootstrap, rebuilding is stable | Bytes of 4 bits; three official files of two devices with matches that overlap, repeat an offset and reach far, a section 4 that is all zeros and a section 5 that looks like a header; a bootstrap that `patchimg` knows by its texts, one by its digest and one not at all; patches of a main section and of a bootstrap, declared as any section or none; two rebuilds, so the second reads what the first wrote (1.5 thousand states, each with files to pack and read) |
| `sharc_trace` | The machine's run is among the paths, the lists are bounded, a trace ends | Words of 3 bits, so every operand, carry and overflow is enumerated; every fixed-point computation over pairs of operands, and programs of a few instructions, each around one hazard; limits of 1 to 8 paths and 2 to 12 steps, so a trace ends of itself or against either |
| `panel_sweep` | Calibration finds the call sites, no encoder is missed or wrong, a misread button leaves a mark | 3 groups of 3 buttons, one of them a group whose records are kept back, so that a late answer passes from button to button and out of the group's last one; 3 encoders, so two late answers in a row; a wait of 4 steps and 2 quiet ones, so that it ends in each of its ways; at most two redraws on their way, so that one of them may pass for a single answer and the other not (739 thousand states) |

Deadlock is checked except where the system stops: in `timers` `Halt` (the
guest crashed) and the bound `MaxInstrs` end a behaviour, a trace and a sweep end,
and so does the worker's session when the window is closed.

The types (`TypeOK`) of `Timers`, `TxChannel`, `PanelInput`, `Ladder`, `Esdhc` and `Ssi` are proved or
implied by what is, and are no property of a run; nor are four invariants whose
theorem says all a small instance could: `SameLevelRefused`, `HandlerMatchesFrame`,
`IntroQuiet` and `SavesAll`.

### Fairness

* `Timers`, `Checkpoint`, `Ladder`, `Firmware` and `PanelSweep` have none: their properties are safety.
* `TxChannel`: weak fairness of `Put`, `Deliver` and `Isr`, each by itself: the guest keeps
  executing its loop, the deliver hooks sit on code that loop passes, and a
  handler that was entered runs to its end.  Nobody must queue, save or resume.
* `PanelInput`: weak fairness of the worker, which is a loop without a wait once
  not paused; strong fairness of `Rx`, since the ring is read in every chunk, which
  is far longer than a full ring takes.  Nobody owes an event or an unpause, and
  `Delivered` allows for a paused worker and a feed that raised.
* `Esdhc`: weak fairness of the driver's steps.  `Answered` speaks of sessions of `longrun`,
  which has the semaphore a cold boot lacks, and of jobs that are still `intact`.
* `Worker`: weak fairness of the worker's thread and of every replaced one, and
  strong fairness of the end of a chunk, which is a number of instructions and
  ends whatever the guest draws in it.  Nobody owes a tick, a key or an answer.
* `Ssi`: weak fairness of the handlers, which run to their end, of the firmware's
  setting up of each vector, and of the masks the interrupted code runs under,
  which it goes through again and again; strong fairness of taking each vector
  at a boundary, because nothing ties what the guest masks to the clock.  That
  completions do not keep the guest busy for ever (`KeepsUp`) is a hypothesis of
  the second half of `Served`, as it is of the hardware.
* `SharcTrace`: weak fairness of the search, which is a loop.

Liveness across resumes is stated under `Settles` (a user who goes on resuming
one snapshot for ever undoes every progress), which is part of the property and
not of the specification.

## What is proved

All theorems are for every value of the constants that satisfies the module's
named assumptions, and for behaviours of any length: the bounds of the runs
(`MaxInstrs`, `MaxAge`, `MaxBytes`) are arbitrary constants in them.

**Deadlines** (`TimersProofs`).  `TypeCorrect` needs one fact more than the type,
that a trampoline is only entered with a target (`TypeInv`).  `DeadlinesMet`,
`NoBacklog` and `ClockNeverRewinds` follow from one inductive invariant, `ClockInv`:
`now` is where `spin` resumes; a held source has no deadline; outside service every
deadline is ahead of the clock; the step the guest is running is no longer than
the rounded distance to any deadline; in service the channels already walked are
ahead of the clock again.  `OnTime` is not inductive without the bound on the
step, and that bound is only restored because service leaves nothing behind the
clock.  The lemma `StepReach` is where the direction of each rounding is used:
a step of at most a rounded-up distance overruns by less than an instruction, or
by less than three when blocks bound it (`Overrun` = 2).

**Delivery** (`TimersProofs`, second part).  `DisplayPrecedence` (`DisplayLeads`) rests on
`Display = Head(PitOrder)`, which the order `(3, 2, 0)` satisfies: the display timer
is refused only by a mask at its level or above, and every later channel is
refused by the same mask.  It holds with and without `srtrap`.  `Refusal`,
`HandlersMatchFrames` and `NoHandlerReentered` are proved
**without `srtrap`** (they state `~build.srtrap => ...`).  `RefusalInv` says that every channel taken
so far in a walk has left the mask at its level or above; `FrameInv`, that the
outermost frame and no other returns to the task, and that from a timer's frame
inwards neither the mask nor a saved SR is below that timer's level, which is why the
same source cannot be taken again.  With `srtrap`, `HandlerMatchesFrame` is false
(see [other observations](#other-observations)).  `TaskMasksKept` (`TaskMaskKept`) is proved
**with and without `srtrap`**, from `EntryInv`, which looks at the contexts from the
task to what runs now: one that is still in its trampoline has not raised the mask,
and the frame below it does not hold a mask yet; so the first mask that is really
saved, or the live one if there is none, is the task's.  Neither the frames' masks
alone nor the live one would be inductive, since a trampoline may itself be
interrupted before it has written its frame.
`IntroUndisturbed` (`IntroQuiet`) holds since a source is held from the start or never.

**Snapshots** (`CheckpointProofs`).  Four theorems without assumptions on what
can be damaged.  `RestoredWhole` (`UndamagedWhole`): of every component whose own
claim did not raise, what runs has aged with its snapshot.  `RestoreFailsAtomically`
(`ValidatedAtomically`): a failed restore has changed nothing unless a component
that validates itself was damaged.  The documentation leaves both exceptions
out; `Whole`, which does so too, is false (run `checkpoint_claim_raises`).  `SnapshotsComplete` (`SavesAll`) and `ClaimsNeverRewind`
(`NoRewind`) rest on `TableInv`: once the machine has run nothing is pending, and every
live component is registered or late.  `WholeInv` says per phase which components have
been restored (neither in `todo` nor `pending` nor damaged), and that the guest has
not moved while anything is pending, so a claim finds it where the snapshot left it.

**Transmit DMA** (`TxProofs`).  `CompletionsMatch` (`OneCompletion`).  The property
alone is not inductive: `LiveInv` adds that a session without the model owes
nothing and, where a transfer is armed, that its CITER is nonzero (else a kick
would do nothing); `SavedInv` says of the snapshot what its kind will make of it when
it is resumed.  `BytesExactlyOnce` (`ExactlyOnce`) rests on `ExactInv`, of the live
guest and of the snapshot: if n bytes have gone out, they are the first n queued
(`Console`), the others are in the ring, each at its place modulo the ring
(`Stream`), and the counters agree with that (`Counts`): SADDR is at n modulo the
ring, and what the free-space test lets in keeps the queued ones within one ring
of n, so a byte that goes in overwrites none that has not gone out.  `Divided`,
`Residues` and `Shifted` are the arithmetic of indices that wrap.  `TypeCorrect`
is the type, which needs `ConsoleInv` for the console's bytes.

**Storage** (`EsdhcProofs`).  `ImplementsDevice`: `Spec => Device`, the refinement of
`BlockDevice` that the run checks, for every number of sectors, image, script of
requests and set of other eDMA users, with saves, rungs and resumes between any two steps.
The invariant it needs is `Coherent`, of the live machine and of the snapshot alike: from SERQ
to the command the transfer that is armed is the one the driver programmed, or none is and
the job is not `intact`; its count is a whole number of sectors that lie on the card.
Every step then maps to a request, an answer of the card, a request passed over
(`LostCommand`: a data command without a channel moves nothing), a
report to the driver, a save of either kind (`RungOf`), a resume, or nothing.  `BusTest`
(`BusTestPasses`) says that the pattern the driver reads back is the complement of the one it
wrote unless a rung fell in between, and needs that any other resumed controller still has
it; `TypeCorrect` is `TypeOK`, which bounds every semaphore.

**Panel input** (`PanelProofs`).  Everything the run checks but `Delivered`, for every
set of buttons, encoders, channels and dwells, any ring and number of events.
`MaskIsHeld`, `NothingDropped`, `InOrder`, `TurnNeverLate` and `Spaced` share one
inductive invariant, because none is inductive alone.  `QueueInv` says where an
event can be: what is still to be taken (`Pending`) is in the queue or deferred,
both in rising order, the deferred ones first, and nothing taken comes after
something pending unless it is a turn that overtook a transition.  `MessageInv`
and `LineInv` carry that order through the stream being built, the ring and what
was read; `SentInv` says that what is no longer pending was sent, unless a feed
failed; `HeldInv`, that the masks kept are those of the transitions taken (not of
those the user has made), which is what makes a mask sent late the right one;
`PassInv` and `PaceInv`, that a pass with transitions in its stream began a whole
dwell after the last and took no second one.

**The window and its worker** (`HostProofs`).  Both safety invariants, for any number of
emulators, every set of pictures and any number of them published.  `Joined`
(`WorkersJoined`) is inductive once `at` is a function on the workers; its proof is that
nothing but a start brings a worker to life, and that a start follows a join.
`ScreenCurrent` (`ScreenIsCurrent`) needs `LedgerInv`, that `shown` never runs ahead of
`version` and is forgotten with the control surface (or a screen that was skipped could
belong to the surface before), and `PictureInv`, that what the window has read of
`fb` is what it holds whenever nothing is being written and no picture has passed
between the drawing and the noting.

**Audio clock** (`SsiProofs`).  `Grid` (`Steady`) needs the clock alone: `ClockKept` is the
arithmetic of a boundary, however late, and the deadline in a snapshot satisfies
the same.  `NeverReentered` (`Nested`) and `FlagsMatchHandlers` (`InHandler`) rest on
the shape of the exception stack (`Stacked`): the two vectors alternate; each frame
has saved the level of the handler below it; vector 170 is done with its work
before anything is stacked on it; and nothing is stacked on a 191 that itself
interrupted something but 170, so 191 never comes back a second time.  Three frames
follow from that, and that a handler yet to acknowledge is the only one of its
vector.

**SHARC tracer** (`ToolProofs`).  `AtMostTwo`: executing an instruction makes one path
or two, for every state, instruction and word width, which is what the limit on
states relies on; `BoundedAlways` (`Bounded`) follows by counting, since a step takes
one live path away and files two at most.

**Panel sweep** (`ToolProofs`, second part).  All three invariants of the run, for every
span of groups and encoders, every set of groups whose records are kept back, every
cap, quiet time and burst.  `SweepInductive` is the invariant they share.  Its subject is
`Stream`, the records of the window and those still on their way, which only an
injection adds to and which a judgement cuts down to what has not arrived.
`WaitInv` says why a wait ends: something wanted was heard, or nothing is on its way
(`Cap`), or the emulator stopped.  `CalInv` has the two ways a calibration may stand: it
took a redraw or a button's record for an answer, which `EncodersAgree` will notice,
or every answer is the one asked for and only the one that `_drain` throws away may
be late.  `EncPipe` says that at most one turn is owed, the one before the question
(`Earlier`), and that what is missing from the table (`Missing`) is owed, which is why one
more turn completes it; `FiledInv`, that what is not owed is filed, under its own
code and with its own step.  `ButtonPipe` and `RowsInv` are the argument of
`UnmarkedIsRight`: until two rows of different buttons share a code, a late record is
the release of a button that has a right row (`Late`, `Owned`), so the row it spoils
shares that code.  The other way round, a press that is late is the answer to its own
release.  `KeysDiffer` and `PressedOnce` are the arithmetic of the two nested loops.

**Files** (`HostProofs`).  `ShapesKept`, `SectionsMatch` (`RightFirmware`) and
`LadderMatches` (`NeverMixed`), from one invariant.  `OriginInv` follows the image and
its marker through an extraction.  `RungInv` says that the points a running make has
passed hold its build and that, unless `cut`, every other rung is missing, cut off
or the sidecar's.  `HandInv` carries that to the panel.

**Firmware files** (`HostProofs`).  All four invariants of the run, `ContentsKept`
(`SectionsKept`), `FilesAuthentic` (`Authentic`), `RebuiltAsIs` (`Stable`) and
`OwnBootstraps` (`OwnBootstrap`), for every width of a byte, size of a message and
alignment, all official files and edits, and chains of downloads, extractions, cut
ones, patches and builds of any length.  `FirmwareAssumption` says of the official files only
what the format requires: four sections under the header's table, everything in words,
stored sections that read as what they hold.

They rest on `CodecKeeps`: what `aplib.pack_section` makes of any data `elz.depack_section`
reads back, unless its length cannot be written into a word, and of any stream that `classify`
takes for a packed one, whoever made it, what is read is bytes.

The argument goes up the layers, and each has its lemma:

* Loops that add up or append are recursive functions in the model, and what is true of
  them for every length is shown by induction.  The library's induction theorems take an operator,
  which the provers cannot instantiate, so `UpTo` is proved here for *sets* of numbers, from
  the well-foundedness of `<`; `Recursion` and `RecursionOnly` say that such a function exists
  and is the only one.  `Summed` and `Concatenated` (every byte of a concatenation lies
  where the lengths before it say) then serve every layer.
* The codec: `TagHolds` and `Assembled` say where in the stream the tag and the bytes of each event
  lie (`Placed`).  `Stands` is the reader's invariant: after `i` control bits it is behind the
  bytes of event `i`, and the register holds the rest of that group's tag above its sentinel;
  `BitIsRead` carries it over one bit, whether or not the register is refilled in between.
  `LiteralPassed` and `EndPassed` carry it over a pass of `depack`'s loop: the gamma of the terminator
  is read to its last stop bit without an overflow and wraps to the bias.  `PackedIsRead` is
  the whole stream.  For any stream, packed or not, `DepackTyped` has every pass leave a reader
  inside the stream and bytes as output, copies that read their own output included.
* Seven-bit bytes: `BitsRead` and `MarkerHolds` read a sum of distinct powers of two bit by bit;
  with `Pieces` and `Encoded`, `Decoded` has `Decode8in7` undo `Encode8in7` for any
  payload, the short last group included.
* Messages: `Carried`, the stream and its padding come out of the messages it was cut into.
* Container: `EndsRecursion` and `Starts` lay the sections out without overlap, `TableLaid` and
  `WholeLaid` put every word where `Sections` looks for it, and `SectionsRead` is that every
  section is read back; it needs the offsets in words, which the guard `Fits` has from
  `struct.pack`.
* Seal and preamble: `Sealed`, `StreamRead`, `FinishedSections`, `AuthenticFinished` and
  `FinishedAgain`; here the order of `rebuild` matters, the checksum over the sealed container.
* Storing: `StoreKept`, what `store_for_section` writes is what `classify` takes it for when
  `Plain` holds.  A length of a section fits because the container's does.

`CodecInv` is the inductive invariant: the file in hand was `Finished` from a container of
four sections in their order (`IsMade`), which hold what was asked (`Kept`) and, unless the
file is an official one, are stored as these tools store it (`AsStored`); directory
and `asked` are images of bytes.  `SectionsKept` alone is not inductive, since it says
nothing of the sections `classify` cannot tell, nor where they lie, and `Stable` needs the
stored form.  Elektron's packer compresses better than the tools', which is why an official
file need not be rebuilt as it is.

`OwnBootstrap` then needs only the guards of the tools.  `FileInv` says that the contents asked
of the file in hand are its device's, and, unless an extraction was cut off or a section 2
or 4 was patched unrecognised (`doubt`), these sections of the directory are those of the file the
*marker* names, whether or not that is the file in hand; a marker that matches is only then
worth something to `RoundTrip`.  What `patchimg` knows its sections by is arbitrary in it.

### Only model-checked

* Liveness (`RoomComes`, `Delivered`, `Answered`, `Retires`, `Served`, `Terminates`), which is out
  of the prover's reach.
* `Covered`, a statement about every run of two machines: its induction would need the
  soundness of each computation, for each instruction, of `SharcCompute`.

## Where code and documentation disagree

The run's property states the documentation's sentence and fails.

* **`checkpoint_claim_raises`.**  `claim` takes the saved state out of the table
  before the component has accepted it (`emu/snapshot.py:63`), so after a claim that
  raises, the guard of `spin` sees nothing unclaimed and the machine runs with
  fresh timers, what `emu/longrun.py:72` says cannot happen.

## Other observations

Seen while modelling, and part of the models unless said otherwise; no run
refutes anything here.

Timers, snapshots, input and files:

* With `srtrap` the mask is not raised until guest code runs, so a second timer
  of the same level is not refused in the same walk; and as `_srtrap_target` is one
  field, the second handler then runs under both frames (`emu/harness.py:455`),
  although `longrun` says of `srtrap` that it "delivers interrupts and runs the ISRs
  correctly" (`emu/longrun.py:139`).
* `Dtims.arm` survives a step in which the source is held, and is cleared by the
  first `deadline` after release (`emu/dtim.py:235`).
* `panelin.feed` does not look at the firmware's read index: more than a ring of
  messages before the firmware reads overwrites unread ones (`lost` in the model).
* Encoder turns wait in the dwell with the buttons (`emu/gui.py:260`), although
  only buttons need it.
* `extend` resumes with the transmit model and saves without it
  (`emu/checkpoint.py:204`): a transfer it completed, whose interrupt is owed, is
  kicked again by the next session and its bytes go out twice.  `stripped`
  marks such sessions.
* So are the sectors of the card: writes are "retained in a sparse card overlay
  and checkpointed so later reads and resumed runs see them"
  (`emu/longrun.py:199-201`), but a rung that `make` (`emu/checkpoint.py:92-104`) or `extend`
  (`emu/checkpoint.py:194-204`) takes after the driver has written holds the driver's memory of
  the write and not the sector, so a resumed run reads what was there before.
  `BlockDevice` has this as `SaveRung`; without it `Device` fails.
* A rung between SERQ and a data command loses the armed channel, and the resumed
  request waits for ever for a transfer that does not happen; one between CMD19 and CMD14 loses the
  pattern, and the bus test fails (`intact` in `Esdhc`).
* In a cold boot no driver that waits for its DMA semaphore goes on, as nobody posts it
  (`emu/dspboot.py:365-369` gives `Esdhc` two of the three), and a session resumed from a rung
  after such a command waits on.
* Malformed files do not all "fail atomically at the restore seam"
  (`emu/snapshot.py:397`): `Esdhc` and `Ssi0Dma` validate themselves after memory and
  registers were written (`emu/snapshot.py:417`).
* The sidecar is to invalidate an existing ladder "instead of silently resuming it
  into a mixed state" (`emu/run.py:42`); a make that saved nothing exits 0 and the old
  `boot400M` is resumed (`emu/run.py:263`).
* An encoder turned by more than 127 steps raises outside the handler that
  protects the worker (`emu/gui.py:273`): its thread ends with the events it took and
  the status line unchanged.
* A `boot400M` cut off by a crash exists, so it is not rebuilt while its sidecar
  matches; the GUI then dies on it (`CutOff` in `Ladder`).
* The list of points in the sidecar is written and never compared.

The window:

* `tick` notes the version after drawing, so a picture published in between
  counts as shown and is skipped until the next one (`emu/gui.py:1257`; `passed`).
* After STOP REPLAY the last replayed frame stays until a new version comes.
* `_identify_device` sets the product before the names of its buttons and
  encoders, so a tick in between builds a control surface without them.
* SAVE may write a framebuffer that is being filled (not modelled).

The audio clock:

* A second major loop that ends before the first is acknowledged is swallowed by
  one CINT (`emu/ssi.py:307`).
* Vector 170 is considered first at every boundary, so under overload it starves
  191, which then runs only from the RTE hook; `Served` has `KeepsUp` for that.

Firmware files:

* `classify` tells what a stored section is from its bytes (`emu/extract.py:61-76`): a
  section 5 whose second word is zero is taken for one with a header and loses it
  at the next rebuild, and a section 4 of zeros is taken for a compressed one and
  fails.  The properties except these contents (`Plain`).
* An extraction that is cut off leaves the old marker over sections of the new
  file (`emu/extract.py:180-201`), and `check_provenance` accepts them, although it says it
  refuses "to run against sections that were extracted from a different .syx".
  `OwnBootstrap` excepts this (`doubt`).
* `patchimg` says that sections 2 and 4 "are refused unconditionally"
  (`tools/patchimg.py:27`), but refuses those it recognises: a bootstrap or updater of another
  version without the texts, length or first bytes it looks for is patched when nobody declares it
  (lines 61-79, which say so of `None`, and 99-113), and `roundtrip` then builds it into a file.
  `OwnBootstrap` excepts this too (`doubt`).
* `machinebuild --section3` takes an image whose origin nobody checks, and its plan
  does not look for edits that overlap (`patchimg`'s does).
* Reading a file verifies none of the checksums that writing one puts in.
* `depack_section` raises EOFError, not ValueError, when a stream ends early.

The SHARC tracer, each left out of the programs checked or harmless in them:

* A second visit of one circular MODIFY reuses its symbol (`tools/sharc_trace.py:4606`,
  against the comment above it); the programs visit each once.
* The result of `fext` with sign extension for opcode 0x12 is not masked to the
  field (line 893).
* `data_memory_tainted` is never set: a store through an unknown address leaves
  known words standing.  `lost` ends the promise of `Covered` there.
* `_aconv` divides the coefficients of an affine address by four (not modelled).
* A predicated access known to be false forks all the same (3b); an undecided
  delayed branch keeps an empty transfer for two slots; `_astatx_forget` returns an
  affine ASTATX as it was; a circular candidate is masked to 32 bits before it is
  compared; unconditional 7a and post-modify ignore L; the shifter's 0xB0 forgets ALU
  flags.

Of the panel sweep:

* The mark of a misread button may be on another row than the misread one: the
  codes in `button_duplicate_codes` are those that several buttons got, and a row
  with a late answer whose owner's row shows its own is not among them
  (`tools/panelsweep.py:531`).  `UnmarkedIsRight` is about the whole report.
* `probe_wait` returns why it stopped, and only calibration's error messages use
  it: a guest that crashes in the middle leaves rows that look unanswered.

And in a tool that is not modelled, `_ptr_topo_order` of `tools/sharcdb.py` falls back
to the order of addresses on an irreducible flow graph, so a merge may leave an
unvisited predecessor out.

## What is not modelled

* Of the modelled parts: register encodings (a timer register is its period, a
  TCD its counts), page compression and pickling, minor-loop offsets, commands
  without data, the text of the wire protocol, `release_all`, snapshots named on the
  command line, `DT2_*` overrides, the progress report of `spin`; of the window its
  layout, status line and SAVE; of the audio clock channel 48, which raises no
  interrupt, the addresses and bytes of its transfers and a rate changed between
  sessions; of the tracer floating point, program memory, byte and short accesses,
  long-word pairs, PX, ASTATY, address conversion (7d), the scaled 15a/15b, 14d, RTI
  and the report; of the panel sweep the wait for the intro, records that were
  there before the first question and the printed tables.
* `longrun.build`'s unblock policy: it is a count of pends of one firmware's
  functions, and what it should satisfy is a fact about that firmware, not about
  this code.
* `machinepatch`, `machinecommit`, `cavefind` and `sharcdb` and the other SHARC tools: they
  run once, from one file to another, and what they compute is a function of one
  image's instructions (tables of opcodes, literal addresses, hashes) which no
  small instance has.  Together with the tracer's decoder and its reports they are
  most of the lines of the repository.
* Symbols, hardware tables, screen and console decoders, host replacements of
  arithmetic: functions of data, without order or concurrency.  Board inputs: single
  registers.

## The plan

The order follows what a user would notice most: timing and exceptions first,
since every session depends on them; snapshots, the second thing every session
does; the DMA and storage that snapshots carry; input; the files around it all;
then the tracer, the window, the firmware files, the audio clock and the sweep.  These are
done, as above.  What is left that would pay:

1. The receive side of `emu/serial.py` under `PanelInput`'s `Rx`, and channel 48 in `Ssi`.

Runs are kept to one per question.  New modules take the place of a second
configuration of an old one, not of its properties.
