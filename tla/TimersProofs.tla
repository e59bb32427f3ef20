---------------------------- MODULE TimersProofs ----------------------------
(* Proofs about Timers for every set of channels, every table of periods   *)
(* and levels and every budget.                                            *)
EXTENDS Timers, SequenceTheorems, TLAPS

(* A trampoline, running or interrupted, was entered by raise_vector, which *)
(* had remembered a handler: the jump at its end never goes to "none".     *)
TrampolineHasTarget ==
  /\ pc.at = "tramp" => target # "none"
  /\ \A i \in 1..Len(frames) : frames[i].pc.at = "tramp" => target # "none"

TypeInv == TypeOK /\ TrampolineHasTarget

-----------------------------------------------------------------------------
(* The shapes of the derived constants.                                    *)
LEMMA ChannelFacts ==
  /\ Walk \in Seq(Channel) /\ Len(Walk) \in Nat
  /\ \A c \in Channel : SourceOf(c) \in Source
  /\ TrapVec \notin Channel /\ "none" \notin Channel \cup {TrapVec}
PROOF
<1>1. PitOrder \in Seq(PitChannel) /\ DtimOrder \in Seq(DtimChannel)
  BY ChannelsAssumption DEF PitChannel, DtimChannel, Range
<1>2. PitOrder \in Seq(Channel) /\ DtimOrder \in Seq(Channel)
  BY <1>1 DEF Channel
<1> QED
  BY <1>2, ChannelsAssumption DEF Walk, SourceOf, Source, TrapVec

(* The innermost frame and what is left when it is dropped.                *)
LEMMA FrontLast ==
  ASSUME NEW S, NEW s \in Seq(S), s # <<>>
  PROVE  /\ Last(s) \in S /\ Front(s) \in Seq(S)
         /\ Last(s) = s[Len(s)] /\ Len(s) \in Nat \ {0}
         /\ Len(Front(s)) = Len(s) - 1
         /\ \A i \in 1..(Len(s) - 1) : Front(s)[i] = s[i]
PROOF
<1>1. Len(s) \in Nat \ {0}
  BY EmptySeq
<1>2. Last(s) = s[Len(s)] /\ Last(s) \in S
  BY <1>1, ElementOfSeq DEF Last
<1>3. /\ Front(s) \in Seq(S) /\ Len(Front(s)) = Len(s) - 1
      /\ \A i \in 1..(Len(s) - 1) : Front(s)[i] = s[i]
  <2> DEFINE n == Len(s) - 1
  <2>1. n \in Nat /\ 1 \in Int /\ n \in Int
    BY <1>1
  <2>2. \A i \in 1..n : s[i] \in S
    BY <1>1, ElementOfSeq
  <2> HIDE DEF n
  <2>3. /\ SubSeq(s, 1, n) \in Seq(S)
        /\ Len(SubSeq(s, 1, n)) = IF 1 <= n THEN n - 1 + 1 ELSE 0
        /\ \A i \in 1..(n - 1 + 1) : SubSeq(s, 1, n)[i] = s[1 + i - 1]
    BY <2>1, <2>2, SubSeqProperties
  <2>4. n - 1 + 1 = n /\ \A i \in 1..n : 1 + i - 1 = i
    BY <2>1
  <2>5. Front(s) = SubSeq(s, 1, n)
    BY DEF Front, n
  <2>6. Front(s) \in Seq(S) /\ Len(Front(s)) = n
    BY <2>1, <2>3, <2>4, <2>5
  <2>7. \A i \in 1..n : Front(s)[i] = s[i]
    BY <2>3, <2>4, <2>5
  <2> QED
    BY <2>6, <2>7 DEF n
<1> QED
  BY <1>1, <1>2, <1>3

(* Rounding a deadline up gives a positive step.                           *)
LEMMA RoundUpPositive ==
  ASSUME TypeOK, NEW d \in Nat
  PROVE  RoundUp(d) \in Nat \ {0}
PROOF
<1>1. Clock \in Nat
  BY DEF TypeOK, Clock, Grain
<1> QED
  BY <1>1, SMT DEF RoundUp, Grain

(* Executed credits at least one instruction.                              *)
LEMMA ExecutedPositive ==
  ASSUME NEW n \in Nat \ {0}
  PROVE  Executed(n) \in Nat \ {0}
PROOF
  BY RatesAssumption, SMT DEF Executed, AtLeastOne, PerBlock, Blocks

(* Entering an exception keeps the CPU state typed.                        *)
LEMMA RaiseVectorType ==
  ASSUME TypeInv, NEW v \in Channel \cup {TrapVec}, NEW l \in 0..7,
         RaiseVector(v, l)
  PROVE  /\ ipl' \in 0..7 /\ pc' \in Contexts /\ frames' \in Seq(Frame)
         /\ target' \in Channel \cup {TrapVec, "none"}
         /\ TrampolineHasTarget'
PROOF
<1> DEFINE f(s) == [vec |-> v, pc |-> pc, sr |-> s]
<1>1. \A s \in 0..7 : f(s) \in Frame
  BY DEF TypeInv, TypeOK, Frame
<1>2. \A s \in 0..7 : /\ Append(frames, f(s)) \in Seq(Frame)
                      /\ Len(Append(frames, f(s))) = Len(frames) + 1
                      /\ Append(frames, f(s))[Len(frames) + 1] = f(s)
                      /\ \A i \in 1..Len(frames) :
                           Append(frames, f(s))[i] = frames[i]
  BY <1>1 DEF TypeInv, TypeOK
<1>3. Len(frames) \in Nat
  BY DEF TypeInv, TypeOK
<1>4. CASE ~build.srtrap
  <2>1. frames' = Append(frames, f(ipl)) /\ pc' = Isr(v) /\ target' = target
        /\ ipl' \in 0..7 /\ ipl \in 0..7
    BY <1>4 DEF RaiseVector, TypeInv, TypeOK, f
  <2>2. TrampolineHasTarget'
    BY <2>1, <1>2, <1>3 DEF TrampolineHasTarget, TypeInv, Isr
  <2> QED
    BY <2>1, <2>2, <1>2 DEF Contexts, TypeInv, TypeOK
<1>5. CASE build.srtrap
  <2>1. frames' = Append(frames, f(0)) /\ pc' = Tramp(l) /\ target' = v
        /\ ipl' = ipl
    BY <1>5 DEF RaiseVector, f
  <2>2. TrampolineHasTarget'
    BY <2>1, ChannelFacts DEF TrampolineHasTarget
  <2> QED
    BY <2>1, <2>2, <1>2 DEF Contexts, TypeInv, TypeOK
<1> QED
  BY <1>4, <1>5, RatesAssumption

LEMMA TypeInit == Init => TypeInv
PROOF
<1> SUFFICES ASSUME Init PROVE TypeInv
  OBVIOUS
<1>1. /\ period \in [Channel -> UNION {Rates[c] : c \in Channel}]
      /\ \A c \in Channel : period[c] \in Rates[c]
  BY DEF Init
<1>2. \A c \in Channel : Rates[c] = {Off} \cup Periods[c]
  BY DEF Rates
<1>3. \A c \in Channel : period[c] \in {Off} \cup Periods[c] /\ period[c] \in Nat
  BY <1>1, <1>2, RatesAssumption DEF Off
<1>4. period \in [Channel -> Nat]
  BY <1>1, <1>3
<1>5. frames \in Seq(Frame) /\ Len(frames) = 0
  BY DEF Init
<1>6. next \in [Channel -> Nat] /\ arm \subseteq DtimChannel
      /\ outcome \in [Channel -> {"none", "fired", "missed"}]
  BY DEF Init, Unarmed
<1>7. pc \in Contexts /\ pc.at = "task"
  BY DEF Init, Contexts, Task
<1>8. walk \in 1..(Len(Walk) + 1)
  BY ChannelFacts DEF Init
<1> QED
  BY <1>3, <1>4, <1>5, <1>6, <1>7, <1>8
     DEF Init, TypeInv, TypeOK, TrampolineHasTarget

(* Type correctness, action by action.                                     *)
LEMMA TypeNext == TypeInv /\ [Next]_vars => TypeInv'
PROOF
<1> SUFFICES ASSUME TypeInv, [Next]_vars PROVE TypeInv'
  OBVIOUS
<1> USE DEF TypeInv
<1> USE ChannelFacts
<1>1. ASSUME NEW c \in Channel, NEW p \in Rates[c], WriteTimer(c, p)
      PROVE  TypeInv'
  <2>1. p \in Nat /\ p \in {Off} \cup Periods[c]
    BY RatesAssumption DEF Rates, Off
  <2>2. arm' \subseteq DtimChannel
    BY <1>1 DEF WriteTimer, TypeOK
  <2>3. period' \in [Channel -> Nat]
        /\ \A k \in Channel : period'[k] \in {Off} \cup Periods[k]
    BY <1>1, <2>1 DEF WriteTimer, TypeOK
  <2> QED
    BY <1>1, <2>2, <2>3
       DEF WriteTimer, TypeOK, TrampolineHasTarget, spinVars, cpuVars
<1>2. ASSUME NEW c \in Channel, WriteMask(c)
      PROVE  TypeInv'
  BY <1>2 DEF WriteMask, TypeOK, TrampolineHasTarget, spinVars, cpuVars
<1>3. ASSUME NEW l \in Ipls, WriteSr(l)
      PROVE  TypeInv'
  <2>1. l \in 0..7
    BY RatesAssumption
  <2> QED
    BY <1>3, <2>1 DEF WriteSr, TypeOK, TrampolineHasTarget, timerVars, spinVars
<1>4. ASSUME Trap
      PROVE  TypeInv'
  <2>1. NoLevel \in 0..7 /\ RaiseVector(TrapVec, NoLevel)
    BY <1>4 DEF Trap, NoLevel
  <2> QED
    BY <1>4, <2>1, RaiseVectorType DEF Trap, TypeOK, timerVars, spinVars
<1>5. ASSUME Rte
      PROVE  TypeInv'
  <2>1. frames \in Seq(Frame) /\ frames # <<>>
    BY <1>5 DEF Rte, TypeOK
  <2>2. Last(frames) \in Frame /\ Front(frames) \in Seq(Frame)
        /\ Last(frames) = frames[Len(frames)] /\ Len(frames) \in Nat \ {0}
        /\ Len(Front(frames)) = Len(frames) - 1
        /\ \A i \in 1..(Len(frames) - 1) : Front(frames)[i] = frames[i]
    BY <2>1, FrontLast
  <2>3. TrampolineHasTarget'
    BY <1>5, <2>2 DEF Rte, TrampolineHasTarget
  <2> QED
    BY <1>5, <2>2, <2>3 DEF Rte, TypeOK, Frame, timerVars, spinVars
<1>6. ASSUME Trampoline
      PROVE  TypeInv'
  <2> DEFINE n == Len(frames)
  <2>1. frames \in Seq(Frame) /\ n \in Nat \ {0} /\ frames[n] \in Frame
    BY <1>6 DEF Trampoline, TypeOK
  <2> DEFINE g == [frames[n] EXCEPT !.sr = ipl]
  <2>2. g \in Frame /\ g.pc = frames[n].pc
    BY <2>1, Zenon DEF TypeOK, Frame
  <2>3. /\ frames' \in Seq(Frame) /\ Len(frames') = n
        /\ \A i \in 1..n : frames'[i].pc = frames[i].pc
    BY <1>6, <2>1, <2>2 DEF Trampoline
  <2>4. target \in Channel \cup {TrapVec}
    BY <1>6 DEF Trampoline, TrampolineHasTarget, TypeOK
  <2>5. pc.lvl \in 0..7
    BY DEF TypeOK, Contexts, Task, Isr, Tramp, NoLevel
  <2>6. ipl' \in 0..7 /\ pc' \in Contexts /\ pc'.at = "isr"
    BY <1>6, <2>4, <2>5 DEF Trampoline, TypeOK, Contexts, Isr
  <2>7. TrampolineHasTarget'
    BY <1>6, <2>3, <2>6 DEF Trampoline, TrampolineHasTarget
  <2> QED
    BY <1>6, <2>3, <2>6, <2>7 DEF Trampoline, TypeOK, timerVars, spinVars
<1>7. ASSUME Release
      PROVE  TypeInv'
  BY <1>7 DEF Release, TypeOK, TrampolineHasTarget, spinVars, cpuVars
<1>8. ASSUME NEW n \in Budgets, Spin(n)
      PROVE  TypeInv'
  BY <1>8, RatesAssumption
     DEF Spin, TypeOK, TrampolineHasTarget, timerVars, cpuVars
<1>9. ASSUME NEW f \in [Channel -> UNION {Rates[c] : c \in Channel}],
             \A c \in Channel : f[c] \in Rates[c], SetRate(f)
      PROVE  TypeInv'
  <2>1. \A c \in Channel : f[c] \in {Off} \cup Periods[c] /\ f[c] \in Nat
    BY <1>9, RatesAssumption DEF Rates, Off
  <2>2. f \in [Channel -> Nat]
    BY <2>1
  <2> QED
    BY <1>9, <2>1, <2>2
       DEF SetRate, TypeOK, TrampolineHasTarget, spinVars, cpuVars
<1>10. ASSUME Step
       PROVE  TypeInv'
  <2>1. Clock \in Nat
    BY DEF Clock, Grain, TypeOK
  <2>2. \A c \in Channel : Deadline(c) \in Nat
    BY <2>1 DEF Deadline, Off, Unarmed, TypeOK
  <2>3. next' \in [Channel -> Nat] /\ arm' \subseteq DtimChannel
    BY <1>10, <2>2 DEF Step, Unnoticed, TypeOK
  <2>4. \A n \in StepCandidates(next', arm') : n \in Nat \ {0}
    <3> TAKE n \in StepCandidates(next', arm')
    <3>1. CASE \E c \in Channel : n = RoundUp(next'[c])
      BY <3>1, <2>3, RoundUpPositive
    <3>2. CASE n = IdleStep \/ n = ArmStep
      BY <3>2, RatesAssumption
    <3> QED
      BY <3>1, <3>2 DEF StepCandidates
  <2>5. step' \in Nat \ {0}
    BY <1>10, <2>4 DEF Step
  <2> QED
    BY <1>10, <2>3, <2>5 DEF Step, TypeOK, TrampolineHasTarget, cpuVars
<1>11. ASSUME Boundary
       PROVE  TypeInv'
  <2>1. Executed(step) \in Nat
    BY ExecutedPositive DEF TypeOK
  <2> QED
    BY <1>11, <2>1, SMTT(30)
       DEF Boundary, TypeOK, TrampolineHasTarget, timerVars, cpuVars
<1>12. ASSUME Halt \/ Return \/ EndService
       PROVE  TypeInv'
  BY <1>12 DEF Halt, Return, EndService, TypeOK, TrampolineHasTarget,
               timerVars, cpuVars
<1>13. ASSUME NEW c \in Channel, ServiceChannel(c)
       PROVE  TypeInv'
  <2>0. AtChannel(c)
    BY <1>13, Zenon DEF ServiceChannel, SkipChannel, DisarmChannel,
                        ArmChannel, MissTick, FireTick, LoseTick
  <2>1. walk' \in 1..(Len(Walk) + 1)
    BY <2>0 DEF AtChannel, TypeOK
  <2>2. Clock \in Nat /\ Rearmed(c) \in Nat /\ Clock + period[c] \in Nat
        /\ Unarmed \in Nat
    BY DEF Clock, Grain, Rearmed, Unarmed, TypeOK
  <2>3. next' \in [Channel -> Nat]
    BY <1>13, <2>2 DEF ServiceChannel, SkipChannel, DisarmChannel, ArmChannel,
                       MissTick, FireTick, LoseTick, TypeOK
  <2>4. outcome' \in [Channel -> {"none", "fired", "missed"}]
    BY <1>13 DEF ServiceChannel, SkipChannel, DisarmChannel, ArmChannel,
                 MissTick, FireTick, LoseTick, TypeOK
  <2>5. /\ ipl' \in 0..7 /\ pc' \in Contexts /\ frames' \in Seq(Frame)
        /\ target' \in Channel \cup {TrapVec, "none"}
        /\ taskIpl' = taskIpl /\ build' = build
        /\ TrampolineHasTarget'
    <3>1. CASE FireTick(c)
      <4>1. Level[c] \in 0..7 /\ RaiseVector(c, Level[c]) /\ taskIpl' = taskIpl
            /\ build' = build
        BY <3>1, RatesAssumption DEF FireTick
      <4> QED
        BY <4>1, RaiseVectorType
    <3>2. CASE UNCHANGED cpuVars
      BY <3>2 DEF cpuVars, TypeOK, TrampolineHasTarget
    <3> QED
      BY <1>13, <3>1, <3>2 DEF ServiceChannel, SkipChannel, DisarmChannel,
                               ArmChannel, MissTick, LoseTick
  <2> QED
    BY <2>0, <2>1, <2>3, <2>4, <2>5 DEF AtChannel, TypeOK
<1>14. CASE UNCHANGED vars
  BY <1>14 DEF vars, timerVars, spinVars, cpuVars, TypeOK, TrampolineHasTarget
<1> QED
  BY <1>1, <1>2, <1>3, <1>4, <1>5, <1>6, <1>7, <1>8, <1>9, <1>10, <1>11,
     <1>12, <1>13, <1>14 DEF Next, Guest, Caller

(* A machine is built once.                                                *)
LEMMA BuildKept ==
  ASSUME [Next]_vars
  PROVE  build' = build
PROOF
<1>1. CASE \E c \in Channel : ServiceChannel(c)
  BY <1>1 DEF ServiceChannel, SkipChannel, DisarmChannel, ArmChannel, MissTick,
              FireTick, LoseTick, cpuVars
<1>2. CASE Guest \/ Caller
  BY <1>2 DEF Guest, Caller, WriteTimer, WriteMask, WriteSr, Trap, Rte,
              Trampoline, Release, Spin, SetRate, cpuVars
<1>3. CASE Step \/ Boundary \/ Halt \/ Return \/ EndService \/ UNCHANGED vars
  BY <1>3 DEF Step, Boundary, Halt, Return, EndService, vars, cpuVars
<1> QED
  BY <1>1, <1>2, <1>3 DEF Next

(* Every variable keeps its shape in every behaviour: no interleaving of   *)
(* guest writes, deliveries and returns drives the loop's bookkeeping or   *)
(* the exception stack out of its type.                                    *)
THEOREM TypeCorrect == Spec => []TypeOK
PROOF
<1>1. Init => TypeInv
  BY TypeInit
<1>2. TypeInv /\ [Next]_vars => TypeInv'
  BY TypeNext
<1>3. TypeInv => TypeOK
  BY DEF TypeInv
<1> QED
  BY <1>1, <1>2, <1>3, PTL DEF Spec

-----------------------------------------------------------------------------
(* The inductive invariant of the clock.  Its first part says that `now`   *)
(* is the position spin resumes from; the fourth that every step begins    *)
(* short of every deadline; the fifth that the step just begun reaches no  *)
(* further than the nearest one; the last that service has put every       *)
(* deadline it walked past ahead of the clock again.                       *)
ClockInv ==
  /\ now = base + done
  /\ \A c \in Channel : held[SourceOf(c)] => next[c] = Unarmed
  /\ NeverStranded
  /\ phase \in {"caller", "top", "run"} =>
       \A c \in Channel : next[c] # Unarmed => next[c] > Clock
  /\ phase = "run" =>
       \A c \in Channel : next[c] # Unarmed => step <= RoundUp(next[c])
  /\ OnTime
  /\ phase = "service" =>
       \A i \in 1..(walk - 1) :
         next[Walk[i]] # Unarmed => next[Walk[i]] > Clock


(* A step no longer than a rounded-up deadline overruns it by less than an *)
(* instruction, or by less than three when blocks bound it.                *)
LEMMA StepReach ==
  ASSUME NEW n \in Nat \ {0}, NEW d \in Nat, NEW k \in Nat,
         k < d, n <= (IF d - k <= 2 THEN 1 ELSE (d - k + 2 - 1) \div 2)
  PROVE  k + 2 * Executed(n) < d + 2 * (1 + Overrun)
PROOF
<1>1. k + 2 * n < d + 2
  OBVIOUS
<1>2. CASE ~build.fast
  BY <1>1, <1>2 DEF Executed, Overrun
<1>3. CASE build.fast
  <2>1. Executed(n) \in Nat /\ Executed(n) <= n + 2
    BY <1>3, SMT DEF Executed, AtLeastOne, PerBlock, Blocks
  <2> QED
    BY <1>1, <1>3, <2>1 DEF Overrun
<1> QED
  BY <1>2, <1>3

LEMMA ClockInit == Init => ClockInv
PROOF
  BY DEF Init, ClockInv, NeverStranded, OnTime, Clock, Grain, Unarmed

(* Every place of the walk is a channel, and every channel has a place.    *)
LEMMA WalkCovers ==
  /\ \A i \in 1..Len(Walk) : Walk[i] \in Channel
  /\ \A c \in Channel : \E i \in 1..Len(Walk) : Walk[i] = c
PROOF
<1>1. PitOrder \in Seq(STRING) /\ DtimOrder \in Seq(STRING)
  BY ChannelsAssumption
<1>2. /\ Len(PitOrder) \in Nat /\ Len(DtimOrder) \in Nat
      /\ Len(Walk) = Len(PitOrder) + Len(DtimOrder)
      /\ \A i \in 1..Len(PitOrder) : Walk[i] = PitOrder[i]
      /\ \A i \in 1..Len(DtimOrder) : Walk[Len(PitOrder) + i] = DtimOrder[i]
  BY <1>1 DEF Walk
<1>3. \A i \in 1..Len(Walk) : Walk[i] \in Channel
  BY ChannelFacts
<1>4. ASSUME NEW c \in PitChannel
      PROVE  \E i \in 1..Len(Walk) : Walk[i] = c
  <2>1. PICK i \in 1..Len(PitOrder) : PitOrder[i] = c
    BY <1>1 DEF PitChannel, Range
  <2> QED
    BY <1>2, <2>1
<1>5. ASSUME NEW c \in DtimChannel
      PROVE  \E i \in 1..Len(Walk) : Walk[i] = c
  <2>1. PICK i \in 1..Len(DtimOrder) : DtimOrder[i] = c
    BY <1>1 DEF DtimChannel, Range
  <2>2. Len(PitOrder) + i \in 1..Len(Walk) /\ Walk[Len(PitOrder) + i] = c
    BY <1>2, <2>1
  <2> QED
    BY <2>2
<1> QED
  BY <1>3, <1>4, <1>5 DEF Channel

(* The clock invariant, action by action.  Most actions move neither the   *)
(* clock nor a deadline; Step, Boundary and the walk are where it is won.  *)
LEMMA ClockNext == TypeInv /\ ClockInv /\ [Next]_vars => ClockInv'
PROOF
<1> SUFFICES ASSUME TypeInv, ClockInv, [Next]_vars PROVE ClockInv'
  OBVIOUS
<1> USE DEF Grain, Unarmed
<1>0. /\ Clock \in Nat /\ base \in Nat /\ done \in Nat /\ now \in Nat
      /\ step \in Nat \ {0} /\ walk \in 1..(Len(Walk) + 1)
      /\ Len(Walk) \in Nat
      /\ next \in [Channel -> Nat]
      /\ \A c \in Channel : next[c] \in Nat
      /\ \A c \in Channel : period[c] \in Nat
      /\ \A c \in Channel : \A p \in Periods[c] : p \in Nat
      /\ \A c \in Channel : period[c] # Off =>
           period[c] \in Periods[c] /\ period[c] > 0
      /\ Overrun \in Nat
  BY ChannelFacts, RatesAssumption DEF TypeInv, TypeOK, Clock, Off, Overrun
<1>0a. build' = build /\ Overrun' = Overrun
  BY BuildKept DEF Overrun
<1>1. ASSUME NEW c \in Channel,
             WriteMask(c) \/ (\E p \in Rates[c] : WriteTimer(c, p))
      PROVE  ClockInv'
  BY <1>0a, <1>1 DEF WriteTimer, WriteMask, ClockInv, NeverStranded, OnTime,
                     Clock, RoundUp, spinVars
<1>2. ASSUME \/ \E l \in Ipls : WriteSr(l)
             \/ Trap \/ Rte \/ Trampoline \/ Halt
      PROVE  ClockInv'
  BY <1>0a, <1>2 DEF WriteSr, Trap, Rte, Trampoline, Halt, ClockInv, NeverStranded,
              OnTime, Clock, RoundUp, Overrun, timerVars, spinVars
<1>3. ASSUME Release
      PROVE  ClockInv'
  BY <1>0a, <1>3, ChannelFacts DEF Release, ClockInv, NeverStranded, OnTime,
                                   Clock, RoundUp, spinVars
<1>4. ASSUME NEW n \in Budgets, Spin(n)
      PROVE  ClockInv'
  <2>1. Clock' = Clock
    BY <1>0, <1>4 DEF Spin, Clock, ClockInv
  <2> QED
    BY <1>0, <1>0a, <1>4, <2>1 DEF Spin, ClockInv, NeverStranded, OnTime, timerVars
<1>5. ASSUME NEW f \in [Channel -> UNION {Rates[c] : c \in Channel}],
             SetRate(f)
      PROVE  ClockInv'
  BY <1>5 DEF SetRate, ClockInv, NeverStranded, OnTime, Clock, RoundUp,
              Overrun, spinVars
<1>6. ASSUME Return \/ UNCHANGED vars
      PROVE  ClockInv'
  BY <1>0a, <1>6 DEF Return, vars, ClockInv, NeverStranded, OnTime, Clock, RoundUp,
              Overrun, timerVars, spinVars
<1>7. ASSUME Step
      PROVE  ClockInv'
  <2>1. Clock' = Clock /\ phase' = "run" /\ now' = now /\ base' = base
        /\ done' = done /\ held' = held /\ phase = "top"
    BY <1>7 DEF Step, Clock
  <2>2. \A c \in Channel : next'[c] = Deadline(c)
    BY <1>7 DEF Step
  <2>3. ASSUME NEW c \in Channel, next'[c] # Unarmed
        PROVE  /\ next'[c] \in Nat /\ next'[c] > Clock
               /\ \E p \in Periods[c] : next'[c] <= Clock + p
               /\ ~held[SourceOf(c)]
    BY <1>0, <2>1, <2>2, <2>3
       DEF Deadline, ClockInv, NeverStranded
  <2>4. ASSUME NEW c \in Channel, next'[c] # Unarmed
        PROVE  step' <= RoundUp(next'[c])
    <3>1. RoundUp(next'[c]) \in StepCandidates(next', arm')
      BY <2>3, <2>4 DEF StepCandidates
    <3>2. \A k \in StepCandidates(next', arm') : step' <= k
      BY <1>7 DEF Step
    <3> QED
      BY <3>1, <3>2
  <2>5. \A d \in Nat : RoundUp(d)' = RoundUp(d)
    BY <2>1 DEF RoundUp
  <2>6. \A c \in Channel : held[SourceOf(c)] => next'[c] = Unarmed
    BY <2>3
  <2> QED
    BY <1>0a, <2>1, <2>3, <2>4, <2>5, <2>6
       DEF ClockInv, NeverStranded, OnTime, RoundUp
<1>8. ASSUME Boundary
      PROVE  ClockInv'
  <2>1. Executed(step) \in Nat
    BY <1>0, ExecutedPositive
  <2> DEFINE e == Executed(step)
  <2>2a. /\ now' = base + done' /\ base' = base /\ done' = done + e
         /\ next' = next /\ held' = held /\ walk' = 1
         /\ phase = "run" /\ phase' = "service"
    BY <1>8 DEF Boundary, timerVars
  <2>2b. Clock' = Clock + 2 * e /\ Clock' \in Nat
    <3>1. e \in Nat
      BY <2>1
    <3> HIDE DEF e
    <3> QED
      BY <1>0, <2>2a, <3>1 DEF Clock
  <2>2. /\ Clock' = Clock + 2 * Executed(step) /\ Clock' \in Nat
        /\ now' = base + done' /\ base' = base
        /\ next' = next /\ held' = held /\ walk' = 1
        /\ phase = "run" /\ phase' = "service"
    BY <2>2a, <2>2b
  <2>3. ASSUME NEW c \in Channel, next[c] # Unarmed
        PROVE  Clock' < next[c] + 2 * (1 + Overrun)
    <3>1. Clock < next[c] /\ step <= RoundUp(next[c])
      BY <2>2, <2>3 DEF ClockInv
    <3> QED
      BY <1>0, <2>2, <3>1, StepReach DEF RoundUp
  <2>4. ASSUME NEW c \in Channel, next[c] # Unarmed
        PROVE  \E p \in Periods[c] : next[c] <= Clock' + p
    <3>1. PICK p \in Periods[c] : next[c] <= Clock + p
      BY <2>4 DEF ClockInv, NeverStranded
    <3> QED
      BY <1>0, <2>1, <2>2, <3>1, SMTT(30)
  <2> QED
    BY <1>0a, <2>2, <2>3, <2>4 DEF ClockInv, NeverStranded, OnTime, Overrun
<1>9. ASSUME EndService
      PROVE  ClockInv'
  <2>1. walk > Len(Walk)
        /\ \A i \in 1..(walk - 1) :
             next[Walk[i]] # Unarmed => next[Walk[i]] > Clock
    BY <1>9 DEF EndService, ClockInv
  <2>2. ASSUME NEW c \in Channel, next[c] # Unarmed
        PROVE  next[c] > Clock
    <3>1. PICK i \in 1..Len(Walk) : Walk[i] = c
      BY WalkCovers
    <3>2. i \in 1..(walk - 1)
      BY <1>0, <2>1
    <3> QED
      BY <2>1, <2>2, <3>1, <3>2
  <2> QED
    BY <1>0a, <1>9, <2>2 DEF EndService, ClockInv, NeverStranded, OnTime, Clock,
                      timerVars
<1>10. ASSUME NEW c \in Channel, ServiceChannel(c)
       PROVE  ClockInv'
  <2>1. /\ phase = "service" /\ phase' = phase /\ walk <= Len(Walk)
        /\ c = Walk[walk] /\ walk' = walk + 1
        /\ now' = now /\ base' = base /\ done' = done /\ held' = held
        /\ Clock' = Clock
    <3>1. AtChannel(c)
      BY <1>10, Zenon DEF ServiceChannel, SkipChannel, DisarmChannel,
                          ArmChannel, MissTick, FireTick, LoseTick
    <3> QED
      BY <3>1 DEF AtChannel, Clock
  <2>2. \A k \in Channel : k # c => next'[k] = next[k]
    BY <1>0, <1>10 DEF ServiceChannel, SkipChannel, DisarmChannel, ArmChannel,
                       MissTick, FireTick, LoseTick
  <2>3. /\ next'[c] # Unarmed =>
             /\ next'[c] \in Nat /\ next'[c] > Clock
             /\ \E p \in Periods[c] : next'[c] <= Clock + p
        /\ held[SourceOf(c)] => next'[c] = Unarmed
    <3>1. CASE SkipChannel(c)
      BY <1>0, <3>1 DEF SkipChannel, ClockInv, NeverStranded
    <3>2. CASE DisarmChannel(c)
      BY <1>0, <3>2 DEF DisarmChannel
    <3>3. CASE ArmChannel(c)
      BY <1>0, <3>3 DEF ArmChannel
    <3>4. CASE Due(c) /\ next' = [next EXCEPT ![c] = Rearmed(c)]
      <4>1. next'[c] = Rearmed(c) /\ ~held[SourceOf(c)] /\ period[c] # Off
            /\ next[c] <= Clock
        BY <1>0, <3>4 DEF Due
      <4>2. Rearmed(c) \in Nat /\ Rearmed(c) > Clock
            /\ Rearmed(c) <= Clock + period[c]
        BY <1>0, <4>1 DEF Rearmed
      <4> QED
        BY <1>0, <4>1, <4>2
    <3> QED
      BY <1>10, <3>1, <3>2, <3>3, <3>4
         DEF ServiceChannel, MissTick, FireTick, LoseTick
  <2>4. \A k \in Channel : next'[k] # Unarmed =>
          /\ next'[k] \in Nat
          /\ Clock < next'[k] + 2 * (1 + Overrun)
          /\ \E p \in Periods[k] : next'[k] <= Clock + p
    <3> TAKE k \in Channel
    <3>1. CASE k = c
      BY <1>0, <2>3, <3>1
    <3>2. CASE k # c
      BY <1>0, <2>1, <2>2, <3>2 DEF ClockInv, OnTime, NeverStranded
    <3> QED
      BY <3>1, <3>2
  <2>5. \A i \in 1..(walk' - 1) :
          next'[Walk[i]] # Unarmed => next'[Walk[i]] > Clock
    <3> TAKE i \in 1..(walk' - 1)
    <3>1. i \in 1..Len(Walk) /\ Walk[i] \in Channel
      BY <1>0, <2>1, WalkCovers
    <3>2. CASE Walk[i] = c
      BY <2>3, <3>2
    <3>3. CASE Walk[i] # c
      <4>1. i \in 1..(walk - 1)
        BY <1>0, <2>1, <3>3
      <4> QED
        BY <2>1, <2>2, <3>1, <3>3, <4>1 DEF ClockInv
    <3> QED
      BY <3>2, <3>3
  <2>6. \A k \in Channel : held[SourceOf(k)] => next'[k] = Unarmed
    BY <2>2, <2>3 DEF ClockInv
  <2> QED
    BY <1>0a, <2>1, <2>4, <2>5, <2>6 DEF ClockInv, NeverStranded, OnTime
<1> QED
  BY <1>1, <1>2, <1>3, <1>4, <1>5, <1>6, <1>7, <1>8, <1>9, <1>10
     DEF Next, Guest, Caller

LEMMA ClockInvariant == Spec => [](TypeInv /\ ClockInv)
PROOF
<1>1. Init => TypeInv /\ ClockInv
  BY TypeInit, ClockInit
<1>2. TypeInv /\ ClockInv /\ [Next]_vars => (TypeInv /\ ClockInv)'
  BY TypeNext, ClockNext
<1> QED
  BY <1>1, <1>2, PTL DEF Spec

(* Pits.step: a timer lands on the instruction it was due at, and within   *)
(* two instructions of it when steps are bounded by basic blocks.          *)
THEOREM DeadlinesMet == Spec => []OnTime
PROOF
<1>1. ClockInv => OnTime
  BY DEF ClockInv
<1> QED
  BY <1>1, ClockInvariant, PTL

(* Pits.service drops a backlog: whenever the guest is about to run, every *)
(* armed deadline is still to come.                                        *)
THEOREM NoBacklog == Spec => []Ahead
PROOF
<1>1. ClockInv => Ahead
  BY DEF ClockInv, Ahead
<1> QED
  BY <1>1, ClockInvariant, PTL

(* spin resumes from the sources' clock: no deadline is ever further than  *)
(* one of the channel's periods away.                                      *)
THEOREM ClockNeverRewinds == Spec => []NeverStranded
PROOF
<1>1. ClockInv => NeverStranded
  BY DEF ClockInv
<1> QED
  BY <1>1, ClockInvariant, PTL

-----------------------------------------------------------------------------
(* Which ticks a service delivers and the exception frames delivery builds. *)
(* What the entry through the trampoline (srtrap) breaks is proved without  *)
(* it.                                                                      *)

(* The inductive invariant of the display timer's precedence.  Service has *)
(* not touched what lies ahead of it; once the display timer was refused,  *)
(* the mask stands at its level or above.                                  *)
DisplayInv ==
  /\ phase = "service" =>
       \A i \in walk..Len(Walk) : outcome[Walk[i]] = "none"
  /\ phase \in {"caller", "service", "top"} /\ outcome[Display] = "missed"
         /\ ~masked[Display] =>
       /\ phase = "service" => Level[Display] <= ipl
       /\ \A c \in Channel : outcome[c] = "fired" => Level[c] > Level[Display]

(* The inductive invariant of refusal: every channel taken so far has left *)
(* the mask at its own level or above.                                     *)
RefusalInv ==
  /\ phase = "service" =>
       /\ \A i \in walk..Len(Walk) : outcome[Walk[i]] = "none"
       /\ \A i \in 1..(walk - 1) :
            outcome[Walk[i]] = "fired" => Level[Walk[i]] <= ipl
  /\ SameLevelRefused

(* The inductive invariant of the exception frames the host builds: the    *)
(* outermost frame, and no other, returns to the task; a timer's frame     *)
(* keeps the mask at its level or above for as long as it is on the stack. *)
FrameInv ==
  /\ pc.at # "tramp"
  /\ pc.at = "task" => frames = <<>> /\ ipl = taskIpl
  /\ HandlerMatchesFrame
  /\ \A i \in 1..Len(frames) :
       /\ frames[i].pc.at # "tramp"
       /\ frames[i].pc.at = "task" <=> i = 1
       /\ frames[i].pc.at = "task" => frames[i].sr = taskIpl
       /\ frames[i].vec \in Channel =>
            /\ Level[frames[i].vec] <= ipl
            /\ \A j \in (i + 1)..Len(frames) :
                 Level[frames[i].vec] <= frames[j].sr

-----------------------------------------------------------------------------
(* A channel has one place in the walk, and the display timer has the      *)
(* first.                                                                  *)
LEMMA WalkPlaces ==
  /\ Len(Walk) \in Nat \ {0}
  /\ Walk[1] = Display
  /\ \A i, j \in 1..Len(Walk) : Walk[i] = Walk[j] => i = j
PROOF
<1>1. PitOrder \in Seq(STRING) /\ DtimOrder \in Seq(STRING)
  BY ChannelsAssumption
<1>2. /\ Len(PitOrder) \in Nat /\ Len(DtimOrder) \in Nat
      /\ Len(Walk) = Len(PitOrder) + Len(DtimOrder)
      /\ \A i \in 1..Len(PitOrder) : Walk[i] = PitOrder[i]
      /\ \A i \in 1..Len(DtimOrder) : Walk[Len(PitOrder) + i] = DtimOrder[i]
  BY <1>1 DEF Walk
<1>3. /\ \A i \in 1..Len(PitOrder) : PitOrder[i] \in PitChannel
      /\ \A i \in 1..Len(DtimOrder) : DtimOrder[i] \in DtimChannel
  BY <1>1 DEF PitChannel, DtimChannel, Range
<1>4. PitOrder # <<>> /\ Len(PitOrder) \in Nat \ {0}
  BY <1>1, ChannelsAssumption, EmptySeq DEF PitChannel, Range
<1>5. Walk[1] = Display
  BY <1>1, <1>2, <1>4, ChannelsAssumption
<1>6. ASSUME NEW i \in 1..Len(Walk), NEW j \in 1..Len(Walk), Walk[i] = Walk[j]
      PROVE  i = j
  <2> DEFINE n == Len(PitOrder)
  <2>1. i \in 1..n \/ (i - n \in 1..Len(DtimOrder) /\ n + (i - n) = i)
    BY <1>2
  <2>2. j \in 1..n \/ (j - n \in 1..Len(DtimOrder) /\ n + (j - n) = j)
    BY <1>2
  <2>3. CASE i \in 1..n /\ j \in 1..n
    BY <1>2, <1>6, <2>3, ChannelsAssumption
  <2>4. CASE i \notin 1..n /\ j \notin 1..n
    <3>1. DtimOrder[i - n] = DtimOrder[j - n]
      BY <1>2, <1>6, <2>1, <2>2, <2>4
    <3> QED
      BY <1>2, <2>1, <2>2, <2>4, <3>1, ChannelsAssumption
  <2>5. CASE (i \in 1..n /\ j \notin 1..n) \/ (i \notin 1..n /\ j \in 1..n)
    <3>1. \/ Walk[i] \in PitChannel /\ Walk[j] \in DtimChannel
          \/ Walk[j] \in PitChannel /\ Walk[i] \in DtimChannel
      BY <1>2, <1>3, <2>1, <2>2, <2>5
    <3> QED
      BY <1>6, <3>1, ChannelsAssumption
  <2> QED
    BY <2>3, <2>4, <2>5
<1> QED
  BY <1>2, <1>4, <1>5, <1>6

(* What every action of the walk has in common.                            *)
LEMMA WalkStep ==
  ASSUME TypeInv, NEW c \in Channel, ServiceChannel(c)
  PROVE  /\ phase = "service" /\ phase' = phase /\ masked' = masked
         /\ held' = held
         /\ walk \in 1..Len(Walk) /\ c = Walk[walk] /\ walk' = walk + 1
         /\ \A k \in Channel : k # c => outcome'[k] = outcome[k]
         /\ outcome'[c] \in {outcome[c], "fired", "missed"}
         /\ outcome'[c] = "missed" /\ outcome[c] # "missed" => ~Takeable(c)
         /\ \/ ~FireTick(c) /\ UNCHANGED cpuVars
               /\ (outcome'[c] = "fired" => outcome[c] = "fired")
            \/ /\ FireTick(c) /\ ipl < Level[c] /\ outcome'[c] = "fired"
               /\ ~held[SourceOf(c)]
               /\ RaiseVector(c, Level[c]) /\ taskIpl' = taskIpl
PROOF
<1>1. AtChannel(c)
  BY Zenon DEF ServiceChannel, SkipChannel, DisarmChannel, ArmChannel,
               MissTick, FireTick, LoseTick
<1>2. /\ phase = "service" /\ phase' = phase /\ masked' = masked
      /\ held' = held
      /\ walk \in 1..Len(Walk) /\ c = Walk[walk] /\ walk' = walk + 1
  BY <1>1 DEF AtChannel, TypeInv, TypeOK
<1>3. outcome \in [Channel -> {"none", "fired", "missed"}]
  BY DEF TypeInv, TypeOK
<1>4. CASE FireTick(c)
  BY <1>2, <1>3, <1>4 DEF FireTick, Due, Takeable
<1>5. CASE ~FireTick(c) /\ MissTick(c)
  BY <1>2, <1>3, <1>5 DEF MissTick
<1>6. CASE ~FireTick(c) /\ ~MissTick(c)
  BY <1>2, <1>6 DEF ServiceChannel, SkipChannel, DisarmChannel, ArmChannel,
                    LoseTick
<1> QED
  BY <1>4, <1>5, <1>6

-----------------------------------------------------------------------------
(* Outside the walk, outcome and masked stand still or the phase is "run". *)
LEMMA OffWalk ==
  ASSUME TypeInv, [Next]_vars, \A c \in Channel : ~ServiceChannel(c)
  PROVE  \/ /\ phase' = "service" /\ walk' = 1
            /\ \A c \in Channel : outcome'[c] = "none"
         \/ /\ UNCHANGED outcome /\ phase' \in {"run", "stopped"}
         \/ /\ UNCHANGED <<outcome, masked>>
            /\ phase \in {"caller", "top", "service"}
            /\ phase' \in {"caller", "top"}
         \/ UNCHANGED <<outcome, masked, phase, walk, ipl>>
PROOF
<1>1. CASE Guest
  BY <1>1 DEF Guest, WriteTimer, WriteMask, WriteSr, Trap, Rte, Trampoline,
              Release, InGuest, spinVars
<1>2. CASE Caller
  BY <1>2 DEF Caller, Spin, SetRate, timerVars, spinVars, cpuVars
<1>3. CASE Boundary
  BY <1>3 DEF Boundary
<1>4. CASE Step \/ Halt \/ Return \/ EndService
  BY <1>4 DEF Step, Halt, Return, EndService, timerVars
<1>5. CASE UNCHANGED vars
  BY <1>5 DEF vars, timerVars, spinVars, cpuVars
<1> QED
  BY <1>1, <1>2, <1>3, <1>4, <1>5 DEF Next

LEMMA DisplayNext == TypeInv /\ DisplayInv /\ [Next]_vars => DisplayInv'
PROOF
<1> SUFFICES ASSUME TypeInv, DisplayInv, [Next]_vars PROVE DisplayInv'
  OBVIOUS
<1>0. Display \in Channel /\ Display = Walk[1]
  BY WalkPlaces, WalkCovers
<1>1. CASE \A c \in Channel : ~ServiceChannel(c)
  BY <1>0, <1>1, OffWalk, WalkCovers DEF DisplayInv
<1>2. ASSUME NEW c \in Channel, ServiceChannel(c)
      PROVE  DisplayInv'
  <2>1. Level[c] \in 1..7 /\ Level[Display] \in 1..7
    BY <1>0, RatesAssumption
  <2>2. ASSUME NEW i \in (walk + 1)..Len(Walk)
        PROVE  outcome'[Walk[i]] = "none"
    <3>1. walk \in 1..Len(Walk) /\ i \in 1..Len(Walk) /\ i # walk
          /\ i \in walk..Len(Walk)
      BY <1>2, WalkStep, WalkPlaces
    <3>2. Walk[i] # c /\ Walk[i] \in Channel
      BY <1>2, <3>1, WalkStep, WalkPlaces, WalkCovers
    <3> QED
      BY <1>2, <3>1, <3>2, WalkStep DEF DisplayInv
  <2>3. /\ ipl \in 0..7 /\ ipl' \in 0..7
        /\ ipl' = ipl \/ (ipl < Level[c] /\ ipl' = Level[c])
    <3>1. ipl \in 0..7 /\ ipl' \in 0..7
      BY TypeNext DEF TypeInv, TypeOK
    <3> QED
      BY <1>2, <2>1, <3>1, WalkStep DEF RaiseVector, NoLevel, cpuVars
  <2>4. ASSUME outcome'[Display] = "missed", ~masked[Display]
        PROVE  /\ Level[Display] <= ipl'
               /\ \A k \in Channel :
                    outcome'[k] = "fired" => Level[k] > Level[Display]
    <3>1. CASE c = Display
      <4>1. walk = 1
        BY <1>0, <1>2, <3>1, WalkStep, WalkPlaces
      <4>2. \A k \in Channel : outcome[k] = "none"
        BY <1>2, <4>1, WalkStep, WalkCovers DEF DisplayInv
      <4>3. ~Takeable(c) /\ ~FireTick(c) /\ ipl' = ipl
        BY <1>0, <1>2, <2>4, <3>1, <4>2, WalkStep DEF cpuVars
      <4>4. Level[Display] <= ipl
        BY <2>1, <2>3, <2>4, <3>1, <4>3 DEF Takeable, TypeInv, TypeOK
      <4> QED
        BY <1>2, <2>4, <3>1, <4>2, <4>3, <4>4, WalkStep
    <3>2. CASE c # Display
      <4>1. /\ Level[Display] <= ipl
            /\ \A k \in Channel :
                 outcome[k] = "fired" => Level[k] > Level[Display]
        BY <1>0, <1>2, <2>4, <3>2, WalkStep DEF DisplayInv
      <4>2. ipl \in 0..7 /\ ipl <= ipl'
            /\ (outcome'[c] = "fired" =>
                  outcome[c] = "fired" \/ ipl < Level[c])
        BY <1>2, <2>1, <2>3, WalkStep, SMTT(30) DEF cpuVars, TypeInv, TypeOK
      <4> QED
        BY <1>2, <2>1, <2>3, <4>1, <4>2, WalkStep, SMTT(30)
    <3> QED
      BY <3>1, <3>2
  <2> QED
    BY <1>2, <2>2, <2>4, WalkStep DEF DisplayInv
<1> QED
  BY <1>1, <1>2

(* Pits: the walk starts with the display timer, so its tick is never      *)
(* missed in favour of a channel that does not outrank it; the entry       *)
(* through the trampoline keeps this.                                      *)
THEOREM DisplayPrecedence == Spec => []DisplayLeads
PROOF
<1>1. Init => DisplayInv
  BY WalkPlaces, WalkCovers DEF Init, DisplayInv
<1>2. TypeInv /\ DisplayInv /\ [Next]_vars => DisplayInv'
  BY DisplayNext
<1>3. DisplayInv => DisplayLeads
  BY DEF DisplayInv, DisplayLeads
<1>4. Init => TypeInv
  BY TypeInit
<1>5. TypeInv /\ [Next]_vars => TypeInv'
  BY TypeNext
<1> QED
  BY <1>1, <1>2, <1>3, <1>4, <1>5, PTL DEF Spec

-----------------------------------------------------------------------------
(* What entering an exception adds to the stack when the host builds it.   *)
LEMMA Entered ==
  ASSUME TypeInv, ~build.srtrap, NEW v, NEW l, RaiseVector(v, l)
  PROVE  /\ Len(frames) \in Nat /\ Len(frames') = Len(frames) + 1
         /\ frames' # <<>> /\ Last(frames') = frames'[Len(frames) + 1]
         /\ \A i \in 1..Len(frames) : frames'[i] = frames[i]
         /\ frames'[Len(frames) + 1].vec = v
         /\ frames'[Len(frames) + 1].pc = pc
         /\ frames'[Len(frames) + 1].sr = ipl
         /\ pc'.at = "isr" /\ pc'.vec = v
         /\ ipl' = IF l = NoLevel THEN ipl ELSE l
PROOF
<1> DEFINE f == [vec |-> v, pc |-> pc, sr |-> ipl]
<1>1. frames' = Append(frames, f) /\ pc' = Isr(v)
      /\ ipl' = IF l = NoLevel THEN ipl ELSE l
  BY DEF RaiseVector
<1>2. frames \in Seq(Frame)
  BY DEF TypeInv, TypeOK
<1>3. /\ Len(frames) \in Nat /\ Len(frames') = Len(frames) + 1
      /\ \A i \in 1..Len(frames) : frames'[i] = frames[i]
      /\ frames'[Len(frames) + 1] = f
  BY <1>1, <1>2
<1>4. frames' # <<>>
  BY <1>3
<1> QED
  BY <1>1, <1>3, <1>4 DEF Last, Isr

LEMMA RefusalNext ==
  ASSUME ~build.srtrap
  PROVE  TypeInv /\ RefusalInv /\ [Next]_vars => RefusalInv'
PROOF
<1> SUFFICES ASSUME TypeInv, RefusalInv, [Next]_vars PROVE RefusalInv'
  OBVIOUS
<1>1. CASE \A c \in Channel : ~ServiceChannel(c)
  <2>1. CASE phase' = "service" /\ walk' = 1
             /\ \A c \in Channel : outcome'[c] = "none"
    BY <2>1, WalkCovers, WalkPlaces DEF RefusalInv, SameLevelRefused
  <2>2. CASE UNCHANGED outcome /\ phase' # "service"
    BY <2>2 DEF RefusalInv, SameLevelRefused
  <2>3. CASE UNCHANGED <<outcome, phase, walk, ipl>>
    BY <2>3 DEF RefusalInv, SameLevelRefused
  <2> QED
    BY <1>1, <2>1, <2>2, <2>3, OffWalk
<1>2. ASSUME NEW c \in Channel, ServiceChannel(c)
      PROVE  RefusalInv'
  <2>1. Level[c] \in 1..7 /\ \A i \in 1..Len(Walk) : Level[Walk[i]] \in 1..7
    BY RatesAssumption, WalkCovers
  <2>2. /\ walk \in 1..Len(Walk) /\ walk' = walk + 1 /\ c = Walk[walk]
        /\ Len(Walk) \in Nat
        /\ \A i \in 1..Len(Walk) : i # walk => outcome'[Walk[i]] = outcome[Walk[i]]
    BY <1>2, WalkStep, WalkPlaces, WalkCovers
  <2>3. outcome[c] = "none"
    BY <1>2, <2>2, WalkStep DEF RefusalInv
  <2>4. /\ ipl \in 0..7 /\ ipl' \in 0..7 /\ ipl <= ipl'
        /\ outcome'[c] = "fired" => ipl < Level[c] /\ ipl' = Level[c]
    <3>1. ipl \in 0..7 /\ ipl' \in 0..7
      BY TypeNext DEF TypeInv, TypeOK
    <3>2. CASE FireTick(c)
      <4>1. RaiseVector(c, Level[c]) /\ ipl < Level[c]
        BY <1>2, <3>2, WalkStep
      <4>2. ipl' = Level[c]
        BY <2>1, <4>1, Entered DEF NoLevel
      <4> QED
        BY <2>1, <3>1, <4>1, <4>2
    <3>3. CASE ~FireTick(c)
      BY <1>2, <2>3, <3>1, <3>3, WalkStep DEF cpuVars
    <3> QED
      BY <3>2, <3>3
  <2>5. \A i \in 1..(walk - 1) :
          outcome[Walk[i]] = "fired" => Level[Walk[i]] <= ipl
    BY <1>2, WalkStep DEF RefusalInv
  <2>6. \A i \in walk'..Len(Walk) : outcome'[Walk[i]] = "none"
    BY <1>2, <2>2, WalkStep DEF RefusalInv
  <2>7. \A i \in 1..(walk' - 1) :
          outcome'[Walk[i]] = "fired" => Level[Walk[i]] <= ipl'
    <3> SUFFICES ASSUME NEW i \in 1..(walk' - 1), outcome'[Walk[i]] = "fired"
                 PROVE  Level[Walk[i]] <= ipl'
      OBVIOUS
    <3>1. CASE i = walk
      BY <2>1, <2>2, <2>4, <3>1
    <3>2. CASE i # walk
      <4>1. i \in 1..(walk - 1) /\ i \in 1..Len(Walk)
        BY <2>2, <3>2
      <4>2. Level[Walk[i]] <= ipl /\ Level[Walk[i]] \in 1..7
        BY <2>1, <2>2, <2>5, <3>2, <4>1
      <4> QED
        BY <2>4, <4>2
    <3> QED
      BY <3>1, <3>2
  <2>8. SameLevelRefused'
    <3> SUFFICES ASSUME NEW i \in 1..Len(Walk), NEW j \in 1..Len(Walk), i < j,
                        outcome'[Walk[i]] = "fired", outcome'[Walk[j]] = "fired"
                 PROVE  Level[Walk[i]] < Level[Walk[j]]
      BY DEF SameLevelRefused
    <3>1. j < walk'
      BY <2>2, <2>6
    <3>2. CASE j = walk
      BY <2>1, <2>2, <2>4, <2>5, <3>2, SMTT(30)
    <3>3. CASE j < walk
      BY <2>2, <3>3 DEF RefusalInv, SameLevelRefused
    <3> QED
      BY <2>2, <3>1, <3>2, <3>3
  <2> QED
    BY <2>6, <2>7, <2>8 DEF RefusalInv
<1> QED
  BY <1>1, <1>2

(* Pits: when the host raises the mask on entry, of two channels taken in  *)
(* one service the later has the higher level.                             *)
THEOREM Refusal == Spec => [](~build.srtrap => SameLevelRefused)
PROOF
<1>1. Init => TypeInv /\ RefusalInv
  BY TypeInit, WalkCovers, WalkPlaces DEF Init, RefusalInv, SameLevelRefused
<1> DEFINE Inv == TypeInv /\ (~build.srtrap => RefusalInv)
<1>2. Inv /\ [Next]_vars => Inv'
  BY TypeNext, RefusalNext, BuildKept
<1>3. Inv => (~build.srtrap => SameLevelRefused)
  BY DEF RefusalInv
<1> QED
  BY <1>1, <1>2, <1>3, PTL DEF Spec

-----------------------------------------------------------------------------
(* A new frame on top keeps the frame invariant when the mask only rises   *)
(* and, for a timer, rises to the level of its channel.                    *)
LEMMA EnteredFrameInv ==
  ASSUME TypeInv, FrameInv, ~build.srtrap, NEW v, NEW l \in 0..7, RaiseVector(v, l),
         taskIpl' = taskIpl, l = NoLevel \/ ipl < l,
         v \in Channel => l = Level[v] /\ l # NoLevel
  PROVE  FrameInv'
PROOF
<1> DEFINE n == Len(frames)
<1>1. ipl \in 0..7 /\ ipl' \in 0..7 /\ ipl <= ipl'
      /\ (v \in Channel => Level[v] <= ipl')
  <2>1. ipl' = IF l = NoLevel THEN ipl ELSE l
    BY Entered
  <2>2. ipl \in 0..7
    BY DEF TypeInv, TypeOK
  <2> QED
    BY <2>1, <2>2
<1>2. n \in Nat /\ Len(frames') = n + 1 /\ frames' # <<>>
      /\ \A i \in 1..n : frames'[i] = frames[i]
  BY Entered
<1>3. /\ pc.at # "tramp"
      /\ pc.at = "task" => n = 0 /\ ipl = taskIpl
      /\ pc.at = "isr" => n > 0 /\ frames[n].vec = pc.vec
      /\ pc.at \in {"task", "isr"}
  <2>1. pc.at \in {"task", "isr", "tramp"}
    BY DEF TypeInv, TypeOK, Contexts, Task, Isr, Tramp
  <2>2. frames # <<>> => n > 0
    BY EmptySeq DEF TypeInv, TypeOK
  <2> QED
    BY <2>1, <2>2 DEF FrameInv, HandlerMatchesFrame, Last
<1>4. \A i \in 1..n : frames[i].vec \in Channel => Level[frames[i].vec] \in 1..7
  BY RatesAssumption
<1>5. ASSUME NEW i \in 1..(n + 1)
      PROVE  /\ frames'[i].pc.at # "tramp"
             /\ frames'[i].pc.at = "task" <=> i = 1
             /\ frames'[i].pc.at = "task" => frames'[i].sr = taskIpl'
             /\ frames'[i].pc.at = "isr" =>
                  i > 1 /\ frames'[i - 1].vec = frames'[i].pc.vec
             /\ frames'[i].vec \in Channel =>
                  /\ Level[frames'[i].vec] <= ipl'
                  /\ \A j \in (i + 1)..(n + 1) :
                       Level[frames'[i].vec] <= frames'[j].sr
  <2>1. CASE i = n + 1
    <3>1. frames'[i].pc = pc /\ frames'[i].sr = ipl /\ frames'[i].vec = v
      BY <2>1, Entered
    <3>2. pc.at = "isr" => i > 1 /\ frames'[i - 1].vec = pc.vec
      BY <1>2, <1>3, <2>1
    <3>3. pc.at = "task" <=> i = 1
      BY <1>2, <1>3, <2>1
    <3> QED
      BY <1>1, <1>2, <1>3, <2>1, <3>1, <3>2, <3>3
  <2>2. CASE i \in 1..n
    <3>1. frames'[i] = frames[i] /\ frames'[n + 1].sr = ipl
      BY <1>2, <2>2, Entered
    <3>2. frames'[i].pc.at = "isr" =>
            i > 1 /\ frames'[i - 1].vec = frames'[i].pc.vec
      BY <1>2, <2>2, <3>1 DEF FrameInv, HandlerMatchesFrame
    <3>3. ASSUME frames[i].vec \in Channel
          PROVE  /\ Level[frames[i].vec] <= ipl'
                 /\ \A j \in (i + 1)..(n + 1) :
                      Level[frames[i].vec] <= frames'[j].sr
      <4>1. Level[frames[i].vec] <= ipl /\ Level[frames[i].vec] \in 1..7
        BY <1>4, <2>2, <3>3 DEF FrameInv
      <4>2. \A j \in (i + 1)..n : Level[frames[i].vec] <= frames'[j].sr
        BY <1>2, <2>2, <3>3 DEF FrameInv
      <4> QED
        BY <1>1, <1>2, <3>1, <4>1, <4>2, SMTT(30)
    <3> QED
      BY <2>2, <3>1, <3>2, <3>3 DEF FrameInv
  <2> QED
    BY <1>2, <2>1, <2>2
<1>6. pc'.at = "isr" /\ Last(frames').vec = pc'.vec
  BY Entered
<1> QED
  BY <1>2, <1>5, <1>6 DEF FrameInv, HandlerMatchesFrame

LEMMA FrameNext ==
  ASSUME ~build.srtrap
  PROVE  TypeInv /\ FrameInv /\ [Next]_vars => FrameInv'
PROOF
<1> SUFFICES ASSUME TypeInv, FrameInv, [Next]_vars PROVE FrameInv'
  OBVIOUS
<1>0. ipl \in 0..7 /\ frames \in Seq(Frame) /\ Len(frames) \in Nat
  BY DEF TypeInv, TypeOK
<1>1. CASE UNCHANGED cpuVars
  BY <1>1 DEF cpuVars, FrameInv, HandlerMatchesFrame
<1>2. ASSUME NEW l \in Ipls, WriteSr(l)
      PROVE  FrameInv'
  <2>1. /\ pc' = pc /\ frames' = frames /\ ipl' = l /\ l \in 0..7
        /\ pc.at = "task" => taskIpl' = l
        /\ pc.at # "task" => taskIpl' = taskIpl /\ ipl <= l
    BY <1>2, RatesAssumption DEF WriteSr
  <2>2. CASE pc.at = "task"
    <3>1. Len(frames) = 0
      BY <2>2 DEF FrameInv
    <3> QED
      BY <2>1, <2>2, <3>1 DEF FrameInv, HandlerMatchesFrame
  <2>3. CASE pc.at # "task"
    <3>1. \A i \in 1..Len(frames) :
            frames[i].vec \in Channel => Level[frames[i].vec] <= l
      <4> SUFFICES ASSUME NEW i \in 1..Len(frames), frames[i].vec \in Channel
                   PROVE  Level[frames[i].vec] <= l
        OBVIOUS
      <4>1. Level[frames[i].vec] \in 1..7 /\ Level[frames[i].vec] <= ipl
        BY RatesAssumption DEF FrameInv
      <4> QED
        BY <1>0, <2>1, <2>3, <4>1
    <3> QED
      BY <2>1, <2>3, <3>1 DEF FrameInv, HandlerMatchesFrame
  <2> QED
    BY <2>2, <2>3
<1>3. ASSUME Trap
      PROVE  FrameInv'
  BY <1>3, ChannelFacts, EnteredFrameInv DEF Trap, NoLevel
<1>4. ASSUME Rte
      PROVE  FrameInv'
  <2> DEFINE n == Len(frames)
  <2>1. /\ n \in Nat \ {0} /\ Len(frames') = n - 1
        /\ \A i \in 1..(n - 1) : frames'[i] = frames[i]
        /\ pc' = frames[n].pc /\ ipl' = frames[n].sr /\ taskIpl' = taskIpl
    BY <1>0, <1>4, FrontLast DEF Rte
  <2>2. frames' \in Seq(Frame)
    BY <1>4, TypeNext DEF TypeInv, TypeOK
  <2>3. pc'.at # "tramp"
    BY <2>1 DEF FrameInv
  <2>4. ASSUME pc'.at = "task"
        PROVE  frames' = <<>> /\ ipl' = taskIpl'
    BY <2>1, <2>2, <2>4, EmptySeq DEF FrameInv
  <2>5. ASSUME pc'.at = "isr"
        PROVE  frames' # <<>> /\ Last(frames').vec = pc'.vec
    <3>1. n > 1 /\ frames[n - 1].vec = pc'.vec
      BY <2>1, <2>5 DEF FrameInv, HandlerMatchesFrame
    <3>2. Last(frames') = frames'[n - 1] /\ n - 1 \in 1..(n - 1)
      BY <2>1, <3>1 DEF Last
    <3> QED
      BY <2>1, <2>2, <3>1, <3>2, EmptySeq
  <2>6. ASSUME NEW i \in 1..(n - 1)
        PROVE  /\ frames'[i].pc.at # "tramp"
               /\ frames'[i].pc.at = "task" <=> i = 1
               /\ frames'[i].pc.at = "task" => frames'[i].sr = taskIpl'
               /\ frames'[i].pc.at = "isr" =>
                    i > 1 /\ frames'[i - 1].vec = frames'[i].pc.vec
               /\ frames'[i].vec \in Channel =>
                    /\ Level[frames'[i].vec] <= ipl'
                    /\ \A j \in (i + 1)..(n - 1) :
                         Level[frames'[i].vec] <= frames'[j].sr
    <3>1. frames'[i] = frames[i] /\ i \in 1..n /\ n \in (i + 1)..n
      BY <2>1
    <3>2. frames'[i].pc.at = "isr" =>
            i > 1 /\ frames'[i - 1].vec = frames'[i].pc.vec
      BY <2>1, <3>1, SMTT(30) DEF FrameInv, HandlerMatchesFrame
    <3>3. frames[i].vec \in Channel =>
            /\ Level[frames[i].vec] <= ipl'
            /\ \A j \in (i + 1)..(n - 1) :
                 Level[frames[i].vec] <= frames'[j].sr
      BY <2>1, <3>1, SMTT(30) DEF FrameInv
    <3> QED
      BY <2>1, <3>1, <3>2, <3>3 DEF FrameInv
  <2> QED
    BY <2>1, <2>3, <2>4, <2>5, <2>6 DEF FrameInv, HandlerMatchesFrame
<1>5. ASSUME Trampoline
      PROVE  FrameInv'
  BY <1>5 DEF Trampoline, FrameInv
<1>6. ASSUME NEW c \in Channel, FireTick(c)
      PROVE  FrameInv'
  <2>1. /\ RaiseVector(c, Level[c]) /\ taskIpl' = taskIpl /\ ipl < Level[c]
        /\ Level[c] \in 0..7 /\ Level[c] # NoLevel
    BY <1>6, RatesAssumption DEF FireTick, Takeable, NoLevel
  <2> QED
    BY <2>1, EnteredFrameInv
<1>7. ASSUME NEW c \in Channel, ServiceChannel(c), ~FireTick(c)
      PROVE  FrameInv'
  BY <1>1, <1>7, WalkStep
<1>8. CASE \/ \E c \in Channel : \E p \in Rates[c] : WriteTimer(c, p)
           \/ \E c \in Channel : WriteMask(c)
           \/ Release \/ Caller
  BY <1>1, <1>8 DEF WriteTimer, WriteMask, Release, Caller, Spin, SetRate
<1>9. CASE Step \/ Boundary \/ Halt \/ Return \/ EndService \/ UNCHANGED vars
  BY <1>1, <1>9 DEF Step, Boundary, Halt, Return, EndService, vars
<1> QED
  BY <1>2, <1>3, <1>4, <1>5, <1>6, <1>7, <1>8, <1>9 DEF Next, Guest

LEMMA FrameInvariant == Spec => [](TypeInv /\ (~build.srtrap => FrameInv))
PROOF
<1>1. Init => TypeInv /\ FrameInv
  BY TypeInit DEF Init, FrameInv, HandlerMatchesFrame, Task
<1> DEFINE Inv == TypeInv /\ (~build.srtrap => FrameInv)
<1>2. Inv /\ [Next]_vars => Inv'
  BY TypeNext, FrameNext, BuildKept
<1> QED
  BY <1>1, <1>2, PTL DEF Spec

(* raise_vector and rte: the handler that runs is the one whose frame is   *)
(* innermost, at any depth of nesting.                                     *)
THEOREM HandlersMatchFrames == Spec => [](~build.srtrap => HandlerMatchesFrame)
PROOF
<1>1. (~build.srtrap => FrameInv) => (~build.srtrap => HandlerMatchesFrame)
  BY DEF FrameInv
<1> QED
  BY <1>1, FrameInvariant, PTL

LEMMA ReentryNext ==
  ASSUME ~build.srtrap
  PROVE  TypeInv /\ FrameInv /\ NoReentry /\ [Next]_vars => NoReentry'
PROOF
<1> SUFFICES ASSUME TypeInv, FrameInv, NoReentry, [Next]_vars
             PROVE  NoReentry'
  OBVIOUS
<1>0. build' = build
  BY BuildKept
<1>1. CASE UNCHANGED frames
  BY <1>0, <1>1 DEF NoReentry
<1>2. ASSUME NEW c \in Channel, FireTick(c)
      PROVE  NoReentry'
  <2>1. RaiseVector(c, Level[c]) /\ ipl < Level[c]
        /\ Level[c] \in 1..7 /\ ipl \in 0..7
    BY <1>2, RatesAssumption DEF FireTick, Takeable, TypeInv, TypeOK
  <2>2. \A i \in 1..Len(frames) : frames[i].vec # c
    BY <2>1 DEF FrameInv
  <2> QED
    BY <2>1, <2>2, Entered DEF NoReentry
<1>3. CASE Trap
  <2>1. RaiseVector(TrapVec, NoLevel)
    BY <1>3 DEF Trap
  <2> QED
    BY <2>1, Entered, ChannelFacts DEF NoReentry
<1>4. CASE Rte
  <2>1. frames \in Seq(Frame) /\ frames # <<>> /\ frames' = Front(frames)
    BY <1>4 DEF Rte, TypeInv, TypeOK
  <2>2. /\ Len(frames) \in Nat \ {0} /\ Len(frames') = Len(frames) - 1
        /\ \A i \in 1..(Len(frames) - 1) : frames'[i] = frames[i]
    BY <2>1, FrontLast
  <2>3. ASSUME ~build.srtrap, NEW i \in 1..Len(frames'), NEW j \in 1..Len(frames'),
               i < j, frames'[i].vec \in Channel
        PROVE  frames'[i].vec # frames'[j].vec
    <3>1. i \in 1..Len(frames) /\ j \in 1..Len(frames)
      BY <2>2
    <3>2. frames'[i] = frames[i] /\ frames'[j] = frames[j]
      BY <2>2
    <3> QED
      BY <2>3, <3>1, <3>2 DEF NoReentry
  <2> QED
    BY <1>0, <2>3 DEF NoReentry
<1>5. CASE Trampoline
  BY <1>5 DEF Trampoline, FrameInv
<1>6. \/ UNCHANGED frames \/ Trap \/ Rte \/ Trampoline
      \/ \E c \in Channel : FireTick(c)
  <2>1. CASE \E c \in Channel : ServiceChannel(c)
    BY <2>1, WalkStep DEF cpuVars
  <2> QED
    BY <2>1 DEF Next, Guest, Caller, WriteTimer, WriteMask, WriteSr,
       Release, Spin, SetRate, Step, Boundary, Halt, Return, EndService,
       vars, cpuVars
<1> QED
  BY <1>1, <1>2, <1>3, <1>4, <1>5, <1>6

(* Pits.service: no handler is re-entered by its own source.  A second     *)
(* frame of a channel would have been taken at a mask below its level,     *)
(* but the first frame keeps the mask at that level.                       *)
THEOREM NoHandlerReentered == Spec => []NoReentry
PROOF
<1>1. Init => NoReentry
  BY DEF Init, NoReentry
<1> DEFINE Inv == TypeInv /\ (~build.srtrap => FrameInv)
<1>2. Inv /\ NoReentry /\ [Next]_vars => NoReentry'
  BY ReentryNext, BuildKept DEF NoReentry
<1> QED
  BY <1>1, <1>2, FrameInvariant, PTL DEF Spec

-----------------------------------------------------------------------------
(* The masks that are saved, with the host's frames and with the           *)
(* trampoline's alike.  Of the contexts on the stack, from the task to     *)
(* what runs, those still in the trampoline have not raised the mask, and  *)
(* the frame below such a one is not written yet: the first mask that is   *)
(* really saved, or if there is none the live one, is the task's.          *)
Depth == Len(frames) + 1
Context(i) == IF i <= Len(frames) THEN frames[i].pc ELSE pc
MaskOf(i) == IF i <= Len(frames) THEN frames[i].sr ELSE ipl
Entering(i) == \A j \in 2..i : Context(j).at = "tramp"
Written(i) == i = Depth \/ Context(i + 1).at # "tramp"

EntryInv ==
  \A i \in 1..Depth :
    /\ Context(i).at = "task" <=> i = 1
    /\ Entering(i) /\ Written(i) => MaskOf(i) = taskIpl

(* An exception adds a context that is the handler or its trampoline.      *)
LEMMA Pushed ==
  ASSUME TypeInv, NEW v, NEW l, RaiseVector(v, l), NEW d, d = Depth
  PROVE  /\ d \in Nat \ {0} /\ Depth' = d + 1 /\ Len(frames) = d - 1
         /\ \A i \in 1..d : Context(i)' = Context(i)
         /\ \A i \in 1..(d - 1) : MaskOf(i)' = MaskOf(i)
         /\ \/ Context(d + 1)'.at = "isr" /\ MaskOf(d)' = ipl
            \/ Context(d + 1)'.at = "tramp" /\ MaskOf(d + 1)' = ipl
PROOF
<1> DEFINE f(s) == [vec |-> v, pc |-> pc, sr |-> s]
<1>1. frames \in Seq(Frame) /\ d \in Nat \ {0} /\ Len(frames) = d - 1
  <2>1. frames \in Seq(Frame) /\ Len(frames) \in Nat
    BY DEF TypeInv, TypeOK
  <2> QED
    BY <2>1 DEF Depth
<1>2. PICK s : /\ frames' = Append(frames, f(s))
               /\ \/ s = ipl /\ pc'.at = "isr"
                  \/ pc'.at = "tramp" /\ ipl' = ipl
  <2>1. CASE ~build.srtrap
    <3>1. frames' = Append(frames, f(ipl)) /\ pc' = Isr(v)
      BY <2>1 DEF RaiseVector
    <3> QED
      BY <3>1 DEF Isr
  <2>2. CASE build.srtrap
    <3>1. frames' = Append(frames, f(0)) /\ pc' = Tramp(l) /\ ipl' = ipl
      BY <2>2 DEF RaiseVector
    <3> QED
      BY <3>1 DEF Tramp
  <2> QED
    BY <2>1, <2>2
<1>3. /\ Len(frames') = d /\ \A i \in 1..(d - 1) : frames'[i] = frames[i]
      /\ frames'[d] = f(s)
  BY <1>1, <1>2
<1>4. frames'[d].pc = pc /\ frames'[d].sr = s
  BY <1>3
<1> HIDE DEF f
<1>5. Depth' = d + 1
  BY <1>1, <1>3 DEF Depth
<1>6. ASSUME NEW i \in 1..d PROVE Context(i)' = Context(i)
  BY <1>1, <1>3, <1>4 DEF Context
<1>7. ASSUME NEW i \in 1..(d - 1) PROVE MaskOf(i)' = MaskOf(i)
  BY <1>1, <1>3 DEF MaskOf
<1>8. Context(d + 1)' = pc' /\ MaskOf(d)' = s /\ MaskOf(d + 1)' = ipl'
  BY <1>1, <1>3, <1>4 DEF Context, MaskOf
<1> QED
  BY <1>1, <1>2, <1>5, <1>6, <1>7, <1>8

(* Raising an exception leaves every mask that was written, and enters no  *)
(* frame whose trampoline is yet to save one over a mask already changed.  *)
LEMMA EntryPush ==
  ASSUME TypeInv, EntryInv, NEW v, NEW l, RaiseVector(v, l), taskIpl' = taskIpl
  PROVE  EntryInv'
PROOF
<1>0. PICK d : d = Depth
  OBVIOUS
<1>1. /\ d \in Nat \ {0} /\ Depth' = d + 1 /\ Len(frames) = d - 1
      /\ \A i \in 1..d : Context(i)' = Context(i)
      /\ \A i \in 1..(d - 1) : MaskOf(i)' = MaskOf(i)
      /\ \/ Context(d + 1)'.at = "isr" /\ MaskOf(d)' = ipl
         \/ Context(d + 1)'.at = "tramp" /\ MaskOf(d + 1)' = ipl
  BY <1>0, Pushed
<1>2. d \in Nat \ {0} /\ d = Depth
  BY <1>0, <1>1
<1>3. MaskOf(d) = ipl
  BY <1>1 DEF MaskOf
<1>4. Entering(d) => ipl = taskIpl
  BY <1>2, <1>3 DEF EntryInv, Written
<1> SUFFICES ASSUME NEW i \in 1..(d + 1)
             PROVE  /\ Context(i)'.at = "task" <=> i = 1
                    /\ Entering(i)' /\ Written(i)' => MaskOf(i)' = taskIpl
  BY <1>1, <1>2 DEF EntryInv
<1>5. \A j \in 1..d : Context(j)' = Context(j)
  BY <1>1, <1>2
<1>6. i \in 1..d => (Entering(i)' => Entering(i))
  BY <1>2, <1>5 DEF Entering
<1>7. CASE i \in 1..(d - 1)
  <2>1. Written(i)' => Written(i)
    BY <1>1, <1>2, <1>5, <1>7 DEF Written
  <2>2. MaskOf(i)' = MaskOf(i)
    BY <1>1, <1>7
  <2> QED
    BY <1>2, <1>5, <1>6, <1>7, <2>1, <2>2 DEF EntryInv
<1>8. CASE i = d
  <2>1. Context(d)'.at = "task" <=> d = 1
    BY <1>2, <1>5 DEF EntryInv
  <2>2. Written(d)' => Context(d + 1)'.at # "tramp"
    BY <1>1, <1>2 DEF Written
  <2>3. Written(d)' => MaskOf(d)' = ipl
    BY <1>1, <1>2, <2>2
  <2> QED
    BY <1>4, <1>6, <1>8, <2>1, <2>3
<1>9. CASE i = d + 1
  <2>1. Context(d + 1)'.at # "task" /\ i # 1
    BY <1>1, <1>2, <1>9
  <2>2. Entering(d + 1)' => Entering(d) /\ Context(d + 1)'.at = "tramp"
    BY <1>2, <1>5 DEF Entering
  <2>3. Entering(d + 1)' => MaskOf(d + 1)' = ipl
    BY <1>1, <1>2, <2>2
  <2> QED
    BY <1>4, <1>9, <2>1, <2>2, <2>3
<1> QED
  BY <1>2, <1>7, <1>8, <1>9

(* Every step of the guest and of the host keeps the mask of the outermost *)
(* context that has one written.                                           *)
LEMMA EntryNext == TypeInv /\ EntryInv /\ [Next]_vars => EntryInv'
PROOF
<1> SUFFICES ASSUME TypeInv, EntryInv, [Next]_vars PROVE EntryInv'
  OBVIOUS
<1>0. PICK n \in Nat : frames \in Seq(Frame) /\ n = Len(frames) /\ Depth = n + 1
  BY DEF TypeInv, TypeOK, Depth
<1>1. CASE UNCHANGED cpuVars
  BY <1>1 DEF cpuVars, EntryInv, Entering, Written, Context, MaskOf, Depth
<1>2. ASSUME NEW l \in Ipls, WriteSr(l)
      PROVE  EntryInv'
  <2>1. /\ pc' = pc /\ frames' = frames /\ ipl' = l
        /\ \/ pc.at = "task" /\ taskIpl' = l
           \/ pc.at = "isr" /\ taskIpl' = taskIpl
    BY <1>2 DEF WriteSr
  <2>2. /\ Depth' = n + 1 /\ \A i \in 1..(n + 1) : Context(i)' = Context(i)
        /\ \A i \in 1..n : MaskOf(i)' = MaskOf(i)
        /\ Context(n + 1) = pc /\ MaskOf(n + 1)' = l
    BY <1>0, <2>1 DEF Depth, Context, MaskOf
  <2>3. ASSUME NEW i \in 1..(n + 1)
        PROVE  (Entering(i)' <=> Entering(i)) /\ (Written(i)' <=> Written(i))
    BY <1>0, <2>2 DEF Entering, Written
  <2>4. CASE pc.at = "task"
    <3>1. n = 0
      BY <1>0, <2>2, <2>4 DEF EntryInv
    <3> QED
      BY <2>1, <2>2, <2>4, <3>1 DEF EntryInv
  <2>5. CASE pc.at = "isr"
    <3>1. n # 0 /\ ~Entering(n + 1)
      BY <1>0, <2>2, <2>5 DEF EntryInv, Entering
    <3> QED
      BY <1>0, <2>1, <2>2, <2>3, <2>5, <3>1 DEF EntryInv
  <2> QED
    BY <2>1, <2>4, <2>5
<1>3. CASE Trap
  BY <1>3, EntryPush DEF Trap
<1>4. CASE Rte
  <2>1. /\ n \in Nat \ {0} /\ Len(frames') = n - 1
        /\ \A i \in 1..(n - 1) : frames'[i] = frames[i]
        /\ pc' = frames[n].pc /\ ipl' = frames[n].sr /\ taskIpl' = taskIpl
        /\ pc.at = "isr"
    BY <1>0, <1>4, FrontLast DEF Rte
  <2>2. /\ Depth' = n /\ \A i \in 1..n : Context(i)' = Context(i)
        /\ \A i \in 1..n : MaskOf(i)' = MaskOf(i)
        /\ Context(n + 1) = pc
    BY <1>0, <2>1 DEF Depth, Context, MaskOf
  <2>3. ASSUME NEW i \in 1..n
        PROVE  (Entering(i)' => Entering(i)) /\ (Written(i)' => Written(i))
    <3>1. Entering(i)' => Entering(i)
      BY <1>0, <2>2 DEF Entering
    <3>2. i = n => Written(i)
      BY <1>0, <2>1, <2>2 DEF Written
    <3>3. i # n => (Written(i)' => Written(i))
      BY <1>0, <2>1, <2>2 DEF Written
    <3> QED
      BY <3>1, <3>2, <3>3
  <2> QED
    BY <1>0, <2>1, <2>2, <2>3 DEF EntryInv
<1>5. CASE Trampoline
  <2>1. /\ n \in Nat \ {0} /\ frames' = [frames EXCEPT ![n].sr = ipl]
        /\ pc.at = "tramp" /\ pc'.at = "isr" /\ taskIpl' = taskIpl
    BY <1>0, <1>5, EmptySeq DEF Trampoline, Isr
  <2>2. /\ Len(frames') = n /\ \A i \in 1..n : frames'[i].pc = frames[i].pc
        /\ \A i \in 1..(n - 1) : frames'[i].sr = frames[i].sr
        /\ frames'[n].sr = ipl
    BY <1>0, <2>1 DEF Frame
  <2>3. /\ Depth' = n + 1 /\ \A i \in 1..n : Context(i)' = Context(i)
        /\ \A i \in 1..(n - 1) : MaskOf(i)' = MaskOf(i)
        /\ MaskOf(n)' = ipl /\ MaskOf(n + 1) = ipl
        /\ Context(n + 1) = pc /\ Context(n + 1)' = pc'
    BY <1>0, <2>1, <2>2 DEF Depth, Context, MaskOf
  <2>4. Entering(n) => ipl = taskIpl
    <3>1. Entering(n) => Entering(n + 1)
      BY <1>0, <2>1, <2>3 DEF Entering
    <3> QED
      BY <1>0, <2>3, <3>1 DEF EntryInv, Written
  <2>5. ASSUME NEW i \in 1..n PROVE Entering(i)' => Entering(i)
    BY <2>3 DEF Entering
  <2>6. ASSUME NEW i \in 1..(n - 1) PROVE Written(i)' => Written(i)
    BY <1>0, <2>3 DEF Written
  <2>7. ~Entering(n + 1)'
    BY <2>1, <2>3 DEF Entering
  <2>8. ASSUME NEW i \in 1..(n + 1)
        PROVE  /\ Context(i)'.at = "task" <=> i = 1
               /\ Entering(i)' /\ Written(i)' => MaskOf(i)' = taskIpl
    <3>1. CASE i = n + 1
      BY <2>1, <2>3, <2>7, <3>1
    <3>2. CASE i = n
      BY <1>0, <2>1, <2>3, <2>4, <2>5, <3>2 DEF EntryInv
    <3>3. CASE i \in 1..(n - 1)
      BY <1>0, <2>3, <2>5, <2>6, <3>3 DEF EntryInv
    <3> QED
      BY <2>1, <3>1, <3>2, <3>3
  <2> QED
    BY <2>1, <2>3, <2>8 DEF EntryInv
<1>6. ASSUME NEW c \in Channel, FireTick(c)
      PROVE  EntryInv'
  BY <1>6, EntryPush DEF FireTick
<1>7. ASSUME NEW c \in Channel, ServiceChannel(c), ~FireTick(c)
      PROVE  EntryInv'
  BY <1>1, <1>7, WalkStep
<1>8. CASE \/ \E c \in Channel : \E p \in Rates[c] : WriteTimer(c, p)
           \/ \E c \in Channel : WriteMask(c)
           \/ Release \/ Caller
  BY <1>1, <1>8 DEF WriteTimer, WriteMask, Release, Caller, Spin, SetRate
<1>9. CASE Step \/ Boundary \/ Halt \/ Return \/ EndService \/ UNCHANGED vars
  BY <1>1, <1>9 DEF Step, Boundary, Halt, Return, EndService, vars
<1> QED
  BY <1>2, <1>3, <1>4, <1>5, <1>6, <1>7, <1>8, <1>9 DEF Next, Guest

(* raise_vector, the trampoline and rte: whatever was taken in between, and *)
(* wherever the trampolines of several exceptions were interrupted, a task *)
(* resumes under the mask it chose.                                        *)
THEOREM TaskMasksKept == Spec => []TaskMaskKept
PROOF
<1>1. Init => TypeInv /\ EntryInv
  <2> SUFFICES ASSUME Init PROVE EntryInv
    BY TypeInit
  <2>1. Len(frames) = 0 /\ pc.at = "task" /\ ipl = taskIpl
    BY DEF Init, Task
  <2> QED
    BY <2>1 DEF EntryInv, Depth, Context, MaskOf
<1>2. TypeInv /\ EntryInv /\ [Next]_vars => TypeInv' /\ EntryInv'
  BY TypeNext, EntryNext
<1>3. TypeInv /\ EntryInv => TaskMaskKept
  <2> SUFFICES ASSUME TypeInv, EntryInv, pc.at = "task" PROVE ipl = taskIpl
    BY DEF TaskMaskKept
  <2>1. Depth \in Nat \ {0} /\ Context(Depth) = pc /\ MaskOf(Depth) = ipl
    <3>1. Len(frames) \in Nat
      BY DEF TypeInv, TypeOK
    <3> QED
      BY <3>1 DEF Depth, Context, MaskOf
  <2>2. Depth = 1
    BY <2>1 DEF EntryInv
  <2> QED
    BY <2>1, <2>2 DEF EntryInv, Entering, Written
<1> QED
  BY <1>1, <1>2, <1>3, PTL DEF Spec

-----------------------------------------------------------------------------
(* A held channel owns no frame.                                           *)
QuietInv ==
  \A c \in Channel :
    held[SourceOf(c)] => \A i \in 1..Len(frames) : frames[i].vec # c

LEMMA EnteredVec ==
  ASSUME TypeInv, NEW v, NEW l, RaiseVector(v, l)
  PROVE  \A i \in 1..Len(frames') :
           \/ frames'[i].vec = v
           \/ i \in 1..Len(frames) /\ frames'[i].vec = frames[i].vec
PROOF
<1> DEFINE f(s) == [vec |-> v, pc |-> pc, sr |-> s]
<1>1. frames \in Seq(Frame) /\ Len(frames) \in Nat
  BY DEF TypeInv, TypeOK
<1>2. PICK s : frames' = Append(frames, f(s))
  BY DEF RaiseVector
<1> DEFINE g == f(s)
<1>3. g.vec = v /\ frames' = Append(frames, g)
  BY <1>2
<1> HIDE DEF g
<1> QED
  BY <1>1, <1>3

LEMMA QuietNext == TypeInv /\ QuietInv /\ [Next]_vars => QuietInv'
PROOF
<1> SUFFICES ASSUME TypeInv, QuietInv, [Next]_vars PROVE QuietInv'
  OBVIOUS
<1>1. CASE UNCHANGED <<held, frames>>
  BY <1>1 DEF QuietInv
<1>2. ASSUME NEW v \in Channel \cup {TrapVec}, NEW l, RaiseVector(v, l),
             UNCHANGED held, v \in Channel => ~held[SourceOf(v)]
      PROVE  QuietInv'
  BY <1>2, EnteredVec, ChannelFacts DEF QuietInv
<1>3. CASE Trap
  BY <1>2, <1>3, ChannelFacts DEF Trap, timerVars
<1>4. CASE Rte
  <2>1. frames \in Seq(Frame) /\ frames # <<>> /\ frames' = Front(frames)
        /\ held' = held
    BY <1>4 DEF Rte, TypeInv, TypeOK, timerVars
  <2> QED
    BY <2>1, FrontLast, SMTT(30) DEF QuietInv
<1>5. CASE Trampoline
  <2> DEFINE n == Len(frames)
  <2>1. frames \in Seq(Frame) /\ n \in Nat /\ held' = held
        /\ frames' = [frames EXCEPT ![n].sr = ipl]
    BY <1>5 DEF Trampoline, TypeInv, TypeOK, timerVars
  <2>2. Len(frames') = n /\ \A i \in 1..n : frames'[i].vec = frames[i].vec
    BY <2>1 DEF Frame
  <2> QED
    BY <2>1, <2>2 DEF QuietInv
<1>6. CASE Release
  BY <1>6, ChannelFacts DEF Release, QuietInv
<1>7. ASSUME NEW c \in Channel, ServiceChannel(c)
      PROVE  QuietInv'
  <2>1. /\ held' = held
        /\ \/ UNCHANGED frames
           \/ RaiseVector(c, Level[c]) /\ ~held[SourceOf(c)]
    BY <1>7, WalkStep DEF cpuVars
  <2> QED
    BY <1>1, <1>2, <2>1
<1>8. CASE \/ Step \/ Boundary \/ Halt \/ Return \/ EndService \/ Caller
           \/ UNCHANGED vars
           \/ \E c \in Channel : \E p \in Rates[c] : WriteTimer(c, p)
           \/ \E c \in Channel : WriteMask(c)
           \/ \E l \in Ipls : WriteSr(l)
  BY <1>1, <1>8 DEF Step, Boundary, Halt, Return, EndService, Caller, Spin,
     SetRate, WriteTimer, WriteMask, WriteSr, vars, timerVars, cpuVars
<1> QED
  BY <1>3, <1>4, <1>5, <1>6, <1>7, <1>8 DEF Next, Guest

(* Pits.hold: while the intro runs a held source delivers nothing and arms *)
(* nothing that could fire the moment it is released.                      *)
THEOREM IntroUndisturbed == Spec => []IntroQuiet
PROOF
<1>1. Init => QuietInv
  BY DEF Init, QuietInv
<1>2. TypeInv /\ QuietInv /\ [Next]_vars => QuietInv'
  BY QuietNext
<1>3. ClockInv /\ QuietInv => IntroQuiet
  BY DEF ClockInv, QuietInv, IntroQuiet
<1> QED
  BY <1>1, <1>2, <1>3, ClockInvariant, PTL DEF Spec
=============================================================================
