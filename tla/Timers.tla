------------------------------- MODULE Timers -------------------------------
(***************************************************************************)
(* The timer interrupts of the emulated ColdFire and the loop that paces   *)
(* them: emu/pit.py (Pits), emu/dtim.py (Dtims, Timers), emu/longrun.py    *)
(* (spin) and the exception entry of emu/harness.py (raise_vector, rte,    *)
(* the srtrap trampoline).                                                 *)
(*                                                                         *)
(* One host thread runs everything.  spin alternates between the guest     *)
(* (phase "run": some instructions execute inside Unicorn) and the host    *)
(* (phase "top": choose how far to run; phase "service": walk the timers). *)
(* Timers have no clock but the count of executed instructions.  A period  *)
(* is a fraction of an instruction count, so deadlines are kept in Grain   *)
(* ticks per instruction and a step is a deadline rounded up.              *)
(***************************************************************************)
EXTENDS Integers, SequencesExt

CONSTANTS
  PitOrder,     \* Pits.channels: the PITs, in the order service walks them
  DtimOrder,    \* Dtims.channels, likewise
  Display,      \* the PIT that drives the display task (PIT3)
  Periods,      \* [channel -> the periods its registers can be given, ticks]
  Level,        \* [channel -> its interrupt level in the INTC, 1..7]
  Ipls,         \* the interrupt masks task code runs at
  IdleStep,     \* IDLE_STEP: the step when no timer has a deadline
  ArmStep,      \* ARM_STEP: the step while a DTIM write is still unnoticed
  Budgets,      \* the `instrs` a caller may pass to spin
  Builds,       \* the machines: [fast |-> spin(fast=True) bounds a step by
                \* basic blocks, srtrap |-> build(srtrap=True) enters
                \* exceptions through guest code, handlers |-> the channels
                \* whose vector slot holds a usable handler address]
  MaxInstrs     \* bound: no new step once the clock has reached it

Grain    == 2       \* ticks per instruction
Off      == 0       \* Pits.period / Dtims.period return None
Unarmed  == 0       \* self.next[ch] is None (a deadline is never 0)
NoLevel  == 0       \* level=None: an exception that keeps the mask
TrapVec  == "trap"  \* the RTOS's `trap #N` yield

PitChannel  == Range(PitOrder)
DtimChannel == Range(DtimOrder)
Channel     == PitChannel \cup DtimChannel
Source      == {"Pits", "Dtims"}

SourceOf(c) == IF c \in PitChannel THEN "Pits" ELSE "Dtims"

ASSUME ChannelsAssumption ==
  /\ PitOrder \in Seq(STRING) /\ DtimOrder \in Seq(STRING)
  /\ PitChannel # {} /\ DtimChannel # {}
  /\ PitChannel \cap DtimChannel = {}
  /\ TrapVec \notin Channel /\ "none" \notin Channel
  /\ Display = Head(PitOrder)
  /\ \A i, j \in 1..Len(PitOrder) : PitOrder[i] = PitOrder[j] => i = j
  /\ \A i, j \in 1..Len(DtimOrder) : DtimOrder[i] = DtimOrder[j] => i = j

ASSUME RatesAssumption ==
  /\ \A c \in Channel : Periods[c] \subseteq Nat \ {0}
  /\ \A c \in Channel : Level[c] \in 1..7
  /\ Ipls \subseteq 0..7
  /\ IdleStep \in Nat \ {0} /\ ArmStep \in Nat \ {0}
  /\ Budgets \subseteq Nat
  /\ Builds \subseteq [fast : BOOLEAN, srtrap : BOOLEAN,
                       handlers : SUBSET Channel]
  /\ MaxInstrs \in Nat

VARIABLES
  period,   \* what the timer's registers make of its period, or Off
  masked,   \* the INTC mask bit of the channel's source
  held,     \* self.held of each source
  next,     \* self.next: the deadline in ticks, or Unarmed
  arm,      \* Dtims.arm: channels written since `deadline` last looked
  outcome,  \* what the last service did with a channel's tick
  phase,    \* where the host is: caller, top, run, service or stopped
  budget,   \* spin's `instrs`
  base,     \* spin's `base`
  done,     \* spin's `done`
  now,      \* the sources' `now`, the clock carried from call to call
  step,     \* the step `emu_start` was given
  walk,     \* the position of service's walk over the channels
  ipl,      \* the CPU's live interrupt mask
  pc,       \* what the CPU executes: a task, an ISR, the entry trampoline
  frames,   \* the exception frames on the stack, innermost last
  target,   \* Machine._srtrap_target
  taskIpl,  \* history: the mask the task code last chose for itself
  build     \* the machine that runs

timerVars == <<period, masked, held, next, arm>>
spinVars  == <<phase, budget, base, done, now, step, walk>>
cpuVars   == <<ipl, pc, frames, target, taskIpl, build>>
vars      == <<timerVars, outcome, spinVars, cpuVars>>

-----------------------------------------------------------------------------
(* The CPU.  A pc of kind "tramp" is inside the entry trampoline of level  *)
(* `lvl`: the mask is not raised and the frame's SR not written yet.       *)

Task     == [at |-> "task",  vec |-> "none", lvl |-> NoLevel]
Isr(v)   == [at |-> "isr",   vec |-> v,      lvl |-> NoLevel]
Tramp(l) == [at |-> "tramp", vec |-> "none", lvl |-> l]

(* Variants named ...Bug are plausible defects of the definition that      *)
(* follows them; Next uses none of them.                                   *)

(* The live mask stays at the interrupted value.                           *)
RaiseVectorMaskBug(v, lvl) ==
  /\ frames' = Append(frames, [vec |-> v, pc |-> pc, sr |-> ipl])
  /\ pc' = Isr(v)
  /\ UNCHANGED <<ipl, target>>

(* Machine.raise_vector with a usable handler: push a frame and enter the  *)
(* handler with the mask raised to lvl, or, with srtrap, leave both to the *)
(* trampoline and only remember the handler.                               *)
RaiseVector(v, lvl) ==
  \/ /\ ~build.srtrap
     /\ frames' = Append(frames, [vec |-> v, pc |-> pc, sr |-> ipl])
     /\ pc' = Isr(v)
     /\ ipl' = IF lvl = NoLevel THEN ipl ELSE lvl
     /\ UNCHANGED target
  \/ /\ build.srtrap
     /\ frames' = Append(frames, [vec |-> v, pc |-> pc, sr |-> 0])
     /\ pc' = Tramp(lvl)
     /\ target' = v
     /\ UNCHANGED ipl

-----------------------------------------------------------------------------
(* The guest, while Unicorn runs it.                                       *)

InGuest == phase = "run"

(* Firmware programs a timer's registers.  The write hook on the DTIM      *)
(* registers records the channel; the PITs have no such hook.              *)
WriteTimer(c, p) ==
  /\ InGuest
  /\ period' = [period EXCEPT ![c] = p]
  /\ arm' = IF c \in DtimChannel THEN arm \cup {c} ELSE arm
  /\ UNCHANGED <<masked, held, next, outcome, spinVars, cpuVars>>

(* Firmware flips the channel's mask bit in the interrupt controller.      *)
WriteMask(c) ==
  /\ InGuest
  /\ masked' = [masked EXCEPT ![c] = ~@]
  /\ UNCHANGED <<period, held, next, arm, outcome, spinVars, cpuVars>>

(* `move.w #...,sr`: a task takes any mask, a handler may only raise its   *)
(* own (external firmware: a handler drops the mask by returning).         *)
WriteSr(l) ==
  /\ InGuest
  /\ \/ pc.at = "task"
     \/ pc.at = "isr" /\ l >= ipl
  /\ l # ipl
  /\ ipl' = l
  /\ taskIpl' = IF pc.at = "task" THEN l ELSE taskIpl
  /\ UNCHANGED <<timerVars, outcome, spinVars, pc, frames, target, build>>

(* A task yields: on_intr delivers `trap #N`, which keeps the mask.        *)
Trap ==
  /\ InGuest
  /\ pc.at = "task"
  /\ RaiseVector(TrapVec, NoLevel)
  /\ UNCHANGED <<timerVars, outcome, spinVars, taskIpl, build>>

(* The frame is dropped, but its SR is not installed.                      *)
RteMaskBug ==
  /\ InGuest
  /\ pc.at = "isr"
  /\ frames # <<>>
  /\ pc' = Last(frames).pc
  /\ frames' = Front(frames)
  /\ UNCHANGED <<timerVars, outcome, spinVars, ipl, target, taskIpl, build>>

(* on_intr on EXCP_RTE: SR and PC come back from the innermost frame.      *)
Rte ==
  /\ InGuest
  /\ pc.at = "isr"
  /\ frames # <<>>
  /\ ipl' = Last(frames).sr
  /\ pc' = Last(frames).pc
  /\ frames' = Front(frames)
  /\ UNCHANGED <<timerVars, outcome, spinVars, target, taskIpl, build>>

(* The placeholder SR stays in the frame.                                  *)
TrampolineBug ==
  /\ InGuest
  /\ pc.at = "tramp"
  /\ ipl' = IF pc.lvl = NoLevel THEN ipl ELSE pc.lvl
  /\ pc' = Isr(target)
  /\ UNCHANGED <<timerVars, outcome, spinVars, frames, target, taskIpl, build>>

(* The trampoline runs: the true SR goes into the frame, the mask rises to *)
(* the slot's level and _srtrap_exit redirects to the remembered handler.  *)
Trampoline ==
  /\ InGuest
  /\ pc.at = "tramp"
  /\ frames # <<>>
  /\ frames' = [frames EXCEPT ![Len(frames)].sr = ipl]
  /\ ipl' = IF pc.lvl = NoLevel THEN ipl ELSE pc.lvl
  /\ pc' = Isr(target)
  /\ UNCHANGED <<timerVars, outcome, spinVars, target, taskIpl, build>>

(* The hook on the intro's exit: Timers.release frees every source.        *)
Release ==
  /\ InGuest
  /\ \E s \in Source : held[s]
  /\ held' = [s \in Source |-> FALSE]
  /\ UNCHANGED <<period, masked, next, arm, outcome, spinVars, cpuVars>>

-----------------------------------------------------------------------------
(* spin.                                                                   *)

Clock == Grain * (base + done)

(* The clock restarts at zero on every call.                               *)
SpinBug(n) ==
  /\ phase = "caller"
  /\ phase' = "top"
  /\ budget' = n
  /\ base' = 0
  /\ done' = 0
  /\ UNCHANGED <<timerVars, outcome, now, step, walk, cpuVars>>

(* A caller runs the machine for at least n instructions.                  *)
Spin(n) ==
  /\ phase = "caller"
  /\ phase' = "top"
  /\ budget' = n
  /\ base' = now
  /\ done' = 0
  /\ UNCHANGED <<timerVars, outcome, now, step, walk, cpuVars>>

(* Between calls the GUI changes the timer rate: source.ips = n rescales   *)
(* every running timer's period and leaves its deadline alone.             *)
SetRate(f) ==
  /\ phase = "caller"
  /\ f # period
  /\ \A c \in Channel : (f[c] = Off) <=> (period[c] = Off)
  /\ period' = f
  /\ UNCHANGED <<masked, held, next, arm, outcome, spinVars, cpuVars>>

(* `instrs` is a floor: the loop ends after the step that reaches it.      *)
Return ==
  /\ phase = "top"
  /\ done >= budget
  /\ phase' = "caller"
  /\ UNCHANGED <<timerVars, outcome, budget, base, done, now, step, walk,
                 cpuVars>>

(* Pits.deadline and Dtims.deadline: a channel that is off loses its       *)
(* deadline, one that is unarmed gets one, and the DTIM writes that were   *)
(* waiting are noticed; a held source looks at nothing.                    *)
Deadline(c) ==
  IF held[SourceOf(c)] THEN next[c]
  ELSE IF period[c] = Off THEN Unarmed
  ELSE IF next[c] = Unarmed THEN Clock + period[c]
  ELSE next[c]

Unnoticed == IF held["Dtims"] THEN arm ELSE {}

(* An exact deadline is rounded past itself.                               *)
RoundUpBug(d) == IF d <= Clock THEN 1 ELSE (d - Clock) \div Grain + 1

(* Instructions to a deadline d: max(1, ceil(d - done)).                   *)
RoundUp(d) ==
  IF d - Clock <= Grain THEN 1 ELSE (d - Clock + Grain - 1) \div Grain

(* What the sources' `step` calls take the minimum of, given the deadlines *)
(* nx and the unnoticed writes un.                                         *)
StepCandidates(nx, un) ==
  LET Armed == {c \in Channel : ~held[SourceOf(c)] /\ nx[c] # Unarmed}
  IN  {RoundUp(nx[c]) : c \in Armed}
        \cup (IF \E s \in Source : \A c \in Armed : SourceOf(c) # s
              THEN {IdleStep} ELSE {})
        \cup (IF un # {} THEN {ArmStep} ELSE {})

(* The top of the loop: Timers.step chooses how far the guest runs.        *)
Step ==
  /\ phase = "top"
  /\ done < budget
  /\ base + done < MaxInstrs
  /\ next' = [c \in Channel |-> Deadline(c)]
  /\ arm' = Unnoticed
  /\ \E n \in StepCandidates(next', arm') :
       /\ \A k \in StepCandidates(next', arm') : n <= k
       /\ step' = n
  /\ phase' = "run"
  /\ UNCHANGED <<period, masked, held, outcome, budget, base, done, now,
                 walk, cpuVars>>

(* The first design of the block budget: multiplied, not divided.          *)
BlocksBug(n) == (n * 387) \div 100

(* What a step is credited: the count itself, or in fast mode the blocks   *)
(* that fit it, at 3.87 instructions each, at least one (_FastStepper).    *)
PerBlock(n) == (n * 387) \div 100
Blocks(n)   == (n * 100) \div 387
AtLeastOne(n) == IF n < 1 THEN 1 ELSE n

Executed(n) ==
  IF build.fast THEN AtLeastOne(PerBlock(AtLeastOne(Blocks(n)))) ELSE n

(* emu_start returned: credit the step, publish the clock, start service.  *)
Boundary ==
  /\ phase = "run"
  /\ done' = done + Executed(step)
  /\ now' = base + done'
  /\ outcome' = [c \in Channel |-> "none"]
  /\ walk' = 1
  /\ phase' = "service"
  /\ UNCHANGED <<timerVars, budget, base, step, cpuVars>>

(* emu_start failed, a vector was unhandled, or PC is zero: the incomplete *)
(* step is not credited and the timers are not serviced.                   *)
Halt ==
  /\ phase = "run"
  /\ phase' = "stopped"
  /\ UNCHANGED <<timerVars, outcome, budget, base, done, now, step, walk,
                 cpuVars>>

-----------------------------------------------------------------------------
(* Timers.service: Pits.service, then Dtims.service; one action per        *)
(* channel of the walk.                                                    *)

(* `channels` listed as (0, 2, 3).                                         *)
WalkBug == Reverse(PitOrder) \o DtimOrder

Walk == PitOrder \o DtimOrder

AtChannel(c) ==
  /\ phase = "service"
  /\ walk <= Len(Walk)
  /\ c = Walk[walk]
  /\ walk' = walk + 1
  /\ UNCHANGED <<period, masked, held, arm, phase, budget, base, done, now,
                 step>>

(* A held source delivers nothing, and an armed channel waits its time.    *)
SkipChannel(c) ==
  /\ AtChannel(c)
  /\ \/ held[SourceOf(c)]
     \/ period[c] # Off /\ next[c] # Unarmed /\ Clock < next[c]
  /\ UNCHANGED <<next, outcome, cpuVars>>

(* The firmware switched the timer off: its clock restarts if it returns.  *)
DisarmChannel(c) ==
  /\ AtChannel(c)
  /\ ~held[SourceOf(c)]
  /\ period[c] = Off
  /\ next' = [next EXCEPT ![c] = Unarmed]
  /\ UNCHANGED <<outcome, cpuVars>>

(* The firmware switched it on during the step: it starts counting here.   *)
ArmChannel(c) ==
  /\ AtChannel(c)
  /\ ~held[SourceOf(c)]
  /\ period[c] # Off
  /\ next[c] = Unarmed
  /\ next' = [next EXCEPT ![c] = Clock + period[c]]
  /\ UNCHANGED <<outcome, cpuVars>>

Due(c) ==
  /\ ~held[SourceOf(c)]
  /\ period[c] # Off
  /\ next[c] # Unarmed
  /\ Clock >= next[c]

(* The backlog is chased.                                                  *)
RearmedBug(c) == next[c] + period[c]

(* The deadline moves one period on; a backlog is dropped, not chased.     *)
Rearmed(c) ==
  IF next[c] + period[c] <= Clock THEN Clock + period[c]
                                  ELSE next[c] + period[c]

Takeable(c) == ~masked[c] /\ ipl < Level[c]

(* Masked, or the CPU runs at or above the level: counted as missed.       *)
MissTick(c) ==
  /\ AtChannel(c)
  /\ Due(c)
  /\ ~Takeable(c)
  /\ next' = [next EXCEPT ![c] = Rearmed(c)]
  /\ outcome' = [outcome EXCEPT ![c] = "missed"]
  /\ UNCHANGED cpuVars

(* Delivered: the handler is entered and the tick counted as fired.        *)
FireTick(c) ==
  /\ AtChannel(c)
  /\ Due(c)
  /\ Takeable(c)
  /\ c \in build.handlers
  /\ next' = [next EXCEPT ![c] = Rearmed(c)]
  /\ outcome' = [outcome EXCEPT ![c] = "fired"]
  /\ RaiseVector(c, Level[c])
  /\ UNCHANGED <<taskIpl, build>>

(* raise_vector finds no usable handler: the tick is counted nowhere.      *)
LoseTick(c) ==
  /\ AtChannel(c)
  /\ Due(c)
  /\ Takeable(c)
  /\ c \notin build.handlers
  /\ next' = [next EXCEPT ![c] = Rearmed(c)]
  /\ UNCHANGED <<outcome, cpuVars>>

(* The walk is over and spin re-reads PC for the next step.                *)
EndService ==
  /\ phase = "service"
  /\ walk > Len(Walk)
  /\ phase' = "top"
  /\ UNCHANGED <<timerVars, outcome, budget, base, done, now, step, walk,
                 cpuVars>>

-----------------------------------------------------------------------------
Rates == [c \in Channel |-> {Off} \cup Periods[c]]

(* A machine about to be spun for the first time: construction stopped the *)
(* DTIMs a snapshot left armed (clear_stale).  While the intro runs the    *)
(* DTIMs are held, and the PITs too unless a tool asks for the intro's own *)
(* PIT3.                                                                   *)
Init ==
  /\ period \in {f \in [Channel -> UNION {Rates[c] : c \in Channel}] :
                   /\ \A c \in Channel : f[c] \in Rates[c]
                   /\ \A c \in DtimChannel : f[c] = Off}
  /\ masked \in [Channel -> BOOLEAN]
  /\ held \in [Source -> BOOLEAN]
  /\ held["Pits"] => held["Dtims"]
  /\ next = [c \in Channel |-> Unarmed]
  /\ arm = {}
  /\ outcome = [c \in Channel |-> "none"]
  /\ phase = "caller"
  /\ budget = 0 /\ base = 0 /\ done = 0 /\ now = 0 /\ step = 1 /\ walk = 1
  /\ ipl = 0 /\ pc = Task /\ frames = <<>> /\ target = "none"
  /\ taskIpl = 0
  /\ build \in Builds

Guest ==
  \/ \E c \in Channel : \E p \in Rates[c] : WriteTimer(c, p)
  \/ \E c \in Channel : WriteMask(c)
  \/ \E l \in Ipls : WriteSr(l)
  \/ Trap \/ Rte \/ Trampoline \/ Release

Caller ==
  \/ \E n \in Budgets : Spin(n)
  \/ \E f \in [Channel -> UNION {Rates[c] : c \in Channel}] :
       (\A c \in Channel : f[c] \in Rates[c]) /\ SetRate(f)

ServiceChannel(c) ==
  \/ SkipChannel(c) \/ DisarmChannel(c) \/ ArmChannel(c)
  \/ MissTick(c) \/ FireTick(c) \/ LoseTick(c)

Next ==
  \/ Guest
  \/ Caller
  \/ Step \/ Boundary \/ Halt \/ Return \/ EndService
  \/ \E c \in Channel : ServiceChannel(c)

Spec == Init /\ [][Next]_vars
-----------------------------------------------------------------------------
(* Properties.                                                             *)

Contexts == {Task} \cup {Isr(v) : v \in Channel \cup {TrapVec}}
                   \cup {Tramp(l) : l \in 0..7}

Frame == [vec : Channel \cup {TrapVec}, pc : Contexts, sr : 0..7]

(* Every variable keeps the shape the code gives it.                       *)
TypeOK ==
  /\ period \in [Channel -> Nat]
  /\ \A c \in Channel : period[c] \in {Off} \cup Periods[c]
  /\ masked \in [Channel -> BOOLEAN]
  /\ held \in [Source -> BOOLEAN]
  /\ next \in [Channel -> Nat]
  /\ arm \subseteq DtimChannel
  /\ outcome \in [Channel -> {"none", "fired", "missed"}]
  /\ phase \in {"caller", "top", "run", "service", "stopped"}
  /\ budget \in Nat /\ base \in Nat /\ done \in Nat /\ now \in Nat
  /\ step \in Nat \ {0} /\ walk \in 1..(Len(Walk) + 1)
  /\ ipl \in 0..7
  /\ pc \in Contexts
  /\ frames \in Seq(Frame)
  /\ target \in Channel \cup {TrapVec, "none"}
  /\ taskIpl \in 0..7
  /\ build \in Builds

(* Pits.step: "a timer lands on the instruction it was due at".  No        *)
(* deadline is overrun by a whole instruction, whatever the guest rewrites *)
(* in the middle of a step; block-bounded steps overrun by two at most.    *)
Overrun == IF build.fast THEN 2 ELSE 0

OnTime ==
  phase = "service" =>
    \A c \in Channel :
      next[c] # Unarmed => Clock < next[c] + Grain * (1 + Overrun)

(* service drops a backlog instead of chasing it: once a service is over,  *)
(* every armed deadline lies ahead, so the next step moves the clock and   *)
(* no channel ticks twice for one instant.                                 *)
Ahead ==
  phase \in {"caller", "top"} =>
    \A c \in Channel : next[c] # Unarmed => next[c] > Clock

(* spin resumes from `pits.now` instead of rewinding: across calls, rate   *)
(* changes and reprogramming no deadline is ever further off than one      *)
(* period, so no channel falls silent after its first call.                *)
NeverStranded ==
  \A c \in Channel :
    next[c] # Unarmed => \E p \in Periods[c] : next[c] <= Clock + p

(* Pits: `(3, 2, 0)` is load-bearing.  The display timer's tick is never   *)
(* missed in favour of a channel that does not outrank it.                 *)
DisplayLeads ==
  phase \in {"service", "top"} /\ outcome[Display] = "missed"
      /\ ~masked[Display] =>
    \A c \in Channel : outcome[c] = "fired" => Level[c] > Level[Display]

(* Pits: "the first timer taken raises IPL to its own level, which refuses *)
(* any later one at the same level": of two channels taken in one service  *)
(* the later one has the higher level.                                     *)
SameLevelRefused ==
  \A i, j \in 1..Len(Walk) :
    i < j /\ outcome[Walk[i]] = "fired" /\ outcome[Walk[j]] = "fired" =>
      Level[Walk[i]] < Level[Walk[j]]

(* raise_vector and rte: the handler that runs is the one whose frame is   *)
(* innermost, and so is every handler a frame will return to.              *)
HandlerMatchesFrame ==
  /\ pc.at = "isr" => frames # <<>> /\ Last(frames).vec = pc.vec
  /\ \A i \in 1..Len(frames) :
       frames[i].pc.at = "isr" => i > 1 /\ frames[i - 1].vec = frames[i].pc.vec

(* Pits.service: "the handler cannot be re-entered by the same source", at *)
(* any nesting depth and however many boundaries it takes, when the host   *)
(* raises the mask.                                                        *)
NoReentry ==
  ~build.srtrap =>
    \A i, j \in 1..Len(frames) :
      i < j /\ frames[i].vec \in Channel => frames[i].vec # frames[j].vec

(* raise_vector saves the interrupted mask, the trampoline fills it in and *)
(* rte restores it: whatever was taken in between, a task resumes under    *)
(* the mask it chose.                                                      *)
TaskMaskKept == pc.at = "task" => ipl = taskIpl

(* Pits: "Do not deliver anything while the intro is still running".  A    *)
(* held channel has no frame on the stack and no deadline that could fire  *)
(* early after release().                                                  *)
IntroQuiet ==
  \A c \in Channel :
    held[SourceOf(c)] =>
      /\ next[c] = Unarmed
      /\ \A i \in 1..Len(frames) : frames[i].vec # c

=============================================================================
