----------------------------- MODULE ToolProofs -----------------------------
(***************************************************************************)
(* Theorems of two of the tools: the path search of the SHARC tracer       *)
(* (SharcTrace) and the sweep of the front panel (PanelSweep).             *)
(***************************************************************************)
EXTENDS SharcTrace, PanelSweep, SequenceTheorems, FiniteSetTheorems, TLAPS

(* The path search.  No instruction makes more than two paths of one, so   *)
(* the lists of a trace stay within their bound whatever the program, the  *)
(* seeds and the limits.                                                   *)
(* One path or two. *)
OneOrTwo(q) == \E a, b : q = <<a>> \/ q = <<a, b>>

(* A predicate makes at most two paths: the taken one and the other. *)
LEMMA ForkTwo == ASSUME NEW p, NEW yes, NEW no PROVE OneOrTwo(Fork(p, yes, no))
<1>1. CASE p = 0
  BY <1>1 DEF Fork, OneOrTwo
<1>2. CASE p # 0 /\ p = 1
  BY <1>2 DEF Fork, OneOrTwo
<1>3. CASE p # 0 /\ p # 1
  BY <1>3 DEF Fork, OneOrTwo
<1> QED BY <1>1, <1>2, <1>3

(* An instruction under a condition makes at most two paths. *)
LEMMA GuardedTwo == ASSUME NEW s, NEW cond, NEW done_ PROVE OneOrTwo(Guarded(s, cond, done_))
BY ForkTwo DEF Guarded

(* So does a transfer. *)
LEMMA TransferTwo ==
    ASSUME NEW s, NEW i, NEW to, NEW p PROVE OneOrTwo(Transfer(s, i, to, p))
<1>1. CASE Nested(s)
  BY <1>1 DEF Transfer, NestedStop, OneOrTwo
<1>2. CASE ~Nested(s)
  BY <1>2, ForkTwo DEF Transfer
<1> QED BY <1>1, <1>2

(* So does a branch with a computation on one of its sides. *)
LEMMA BranchTwo ==
    ASSUME NEW s, NEW i, NEW Go(_), NEW Pass(_) PROVE OneOrTwo(WithBranch(s, i, Go, Pass))
<1>1. CASE Nested(s)
  BY <1>1 DEF WithBranch, NestedStop, OneOrTwo
<1>2. CASE ~Nested(s)
  BY <1>2, ForkTwo DEF WithBranch
<1> QED BY <1>1, <1>2

(* So do the conditional access and the indirect jump. *)
LEMMA AccessTwo == ASSUME NEW s, NEW i PROVE OneOrTwo(Access3b(s, i))
BY ForkTwo DEF Access3b

LEMMA IndirectTwo == ASSUME NEW s, NEW i PROVE OneOrTwo(Indirect(s, i))
<1>1. CASE Nested(s)
  BY <1>1 DEF Indirect, NestedStop, OneOrTwo
<1>2. CASE ~Nested(s) /\ IsConst(s.reg["I12"]) /\ IsConst(s.reg["M14"])
  BY <1>2, TransferTwo DEF Indirect
<1>3. CASE ~Nested(s) /\ ~(IsConst(s.reg["I12"]) /\ IsConst(s.reg["M14"]))
  BY <1>3 DEF Indirect, OneOrTwo
<1> QED BY <1>1, <1>2, <1>3

LEMMA OnlyOne == ASSUME NEW a PROVE OneOrTwo(<<a>>)
BY DEF OneOrTwo

(* Whatever the instruction, _execute returns one path or two. *)
THEOREM AtMostTwo == ASSUME NEW s, NEW i PROVE OneOrTwo(Execute(s, i))
BY OnlyOne, GuardedTwo, TransferTwo, BranchTwo, AccessTwo, IndirectTwo DEF Execute
-----------------------------------------------------------------------------
(* The lists hold sequences, and there is room for one path at least.      *)
Room(q, n) == Len(q.done) + 2 * Len(q.active) <= n
AreLists(q) == \E S : q.active \in Seq(S) /\ q.done \in Seq(S)
Filed(q, n) == \E x, y : q = Lists(x, y) /\ AreLists(Lists(x, y)) /\ Room(Lists(x, y), n)
IInv == /\ AreLists(Lists(active, done))
        /\ limits.states \in Nat \ {0}
        /\ Bounded

(* What one path more does to the room two lists take.                     *)
LEMMA Places ==
    ASSUME NEW T, NEW live, NEW stopped, live \in Seq(T), stopped \in Seq(T)
    PROVE  /\ AreLists(Lists(live, stopped))
           /\ Len(live) \in Nat /\ Len(stopped) \in Nat
           /\ \A n : Room(Lists(live, stopped), n) <=> Len(stopped) + 2 * Len(live) <= n
<1>1. Lists(live, stopped).active = live /\ Lists(live, stopped).done = stopped
  BY DEF Lists
<1>2. AreLists(Lists(live, stopped))
  BY <1>1 DEF AreLists
<1>3. Len(live) \in Nat /\ Len(stopped) \in Nat
  OBVIOUS
<1> QED BY <1>1, <1>2, <1>3 DEF Room

LEMMA OneMore ==
    ASSUME NEW T, NEW q \in Seq(T), NEW e \in T
    PROVE  Append(q, e) \in Seq(T) /\ Len(Append(q, e)) = Len(q) + 1
OBVIOUS

(* Filing one path takes one place more, or leaves the lists within twice  *)
(* --max-states.                                                           *)
LEMMA FileRoom ==
    ASSUME limits.states \in Nat,
           NEW q, NEW s, NEW n \in Nat, n >= 2 * limits.states - 1, Filed(q, n)
    PROVE  Filed(File(q, s), n + 1)
<1>0. PICK live, stopped : /\ q = Lists(live, stopped)
                           /\ AreLists(Lists(live, stopped)) /\ Room(Lists(live, stopped), n)
  BY DEF Filed
<1> DEFINE most == limits.states
<1>1. q.active = live /\ q.done = stopped
  BY <1>0 DEF Lists
<1>2. PICK S : live \in Seq(S) /\ stopped \in Seq(S)
  BY <1>0 DEF AreLists, Lists
<1> DEFINE T == S \cup {s, Stop(s, "max-states")}
           fewer(t) == IF s.steps < t.steps THEN s ELSE t
           merged == [j \in DOMAIN live |->
                        IF j \in Twins(live, s) THEN fewer(live[j]) ELSE live[j]]
<1>3. live \in Seq(T) /\ stopped \in Seq(T) /\ s \in T /\ Stop(s, "max-states") \in T
  BY <1>2
<1>4. \/ File(q, s) = Lists(live, Append(stopped, s))
      \/ File(q, s) = Lists(merged, stopped)
      \/ File(q, s) = Lists(live, Append(stopped, Stop(s, "max-states")))
      \/ File(q, s) = Lists(Append(live, s), stopped) /\ ~Full(q)
  <2>1. CASE s.stopped # Running
    BY <1>1, <2>1 DEF File
  <2>2. CASE s.stopped = Running /\ Twins(live, s) # {}
    BY <1>1, <2>2 DEF File
  <2>3. CASE s.stopped = Running /\ Twins(live, s) = {}
    BY <1>1, <2>3 DEF File
  <2> QED BY <2>1, <2>2, <2>3
<1>5. Full(q) <=> Len(live) + Len(stopped) >= most
  BY <1>1 DEF Full
<1>6. most \in Nat /\ n >= 2 * most - 1
  OBVIOUS
<1>7. merged \in Seq(T) /\ Len(merged) = Len(live)
  <2>1. DOMAIN live = 1 .. Len(live) /\ Len(live) \in Nat
    BY <1>3
  <2>2. \A j \in 1 .. Len(live) : merged[j] \in T
    BY <1>3, <2>1
  <2>3. merged = [j \in 1 .. Len(live) |-> merged[j]]
    BY <2>1
  <2> HIDE DEF merged, T
  <2> QED BY <2>1, <2>2, <2>3
<1> HIDE DEF T, merged, most
<1>8. Len(live) \in Nat /\ Len(stopped) \in Nat /\ Len(stopped) + 2 * Len(live) <= n
  BY <1>0, <1>3, Places
<1>9. CASE File(q, s) = Lists(live, Append(stopped, s))
  <2>1. Append(stopped, s) \in Seq(T) /\ Len(Append(stopped, s)) = Len(stopped) + 1
    BY <1>3, OneMore
  <2>2. Len(Append(stopped, s)) + 2 * Len(live) <= n + 1
    BY <1>8, <2>1
  <2> QED BY <1>3, <1>9, <2>1, <2>2, Places DEF Filed
<1>10. CASE File(q, s) = Lists(merged, stopped)
  <2>1. Len(stopped) + 2 * Len(merged) <= n + 1
    BY <1>7, <1>8
  <2> QED BY <1>3, <1>7, <1>10, <2>1, Places DEF Filed
<1>11. CASE File(q, s) = Lists(live, Append(stopped, Stop(s, "max-states")))
  <2> DEFINE e == Stop(s, "max-states")
  <2>1. Append(stopped, e) \in Seq(T) /\ Len(Append(stopped, e)) = Len(stopped) + 1
    BY <1>3, OneMore
  <2>2. Len(Append(stopped, e)) + 2 * Len(live) <= n + 1
    BY <1>8, <2>1
  <2> QED BY <1>3, <1>11, <2>1, <2>2, Places DEF Filed
<1>12. CASE File(q, s) = Lists(Append(live, s), stopped) /\ ~Full(q)
  <2>1. Append(live, s) \in Seq(T) /\ Len(Append(live, s)) = Len(live) + 1
    BY <1>3, OneMore
  <2>2. Len(stopped) + 2 * Len(Append(live, s)) <= n + 1
    BY <1>5, <1>6, <1>8, <1>12, <2>1
  <2> QED BY <1>3, <1>12, <2>1, <2>2, Places DEF Filed
<1> QED BY <1>4, <1>9, <1>10, <1>11, <1>12

LEMMA InitIInv == Init => IInv
<1> SUFFICES ASSUME Init PROVE IInv
  OBVIOUS
<1>1. PICK t \in Traces : active = <<t.start>> /\ limits = t.limits
  BY DEF Init
<1>2. limits.states \in Nat \ {0}
  BY <1>1, LimitsAssumption
<1>3. active \in Seq({t.start}) /\ done \in Seq({t.start}) /\ Len(active) = 1 /\ Len(done) = 0
  BY <1>1 DEF Init
<1> QED BY <1>2, <1>3 DEF IInv, AreLists, Lists, Bounded

LEMMA StepIInv == IInv /\ [Next]_vars => IInv'
<1> SUFFICES ASSUME IInv, [Next]_vars PROVE IInv'
  OBVIOUS
<1>0. PICK S : active \in Seq(S) /\ done \in Seq(S)
  BY DEF IInv, AreLists, Lists
<1>1. CASE Halt
  <2> DEFINE stopped == Stop(Head(active), Halted(Head(active)))
             T == S \cup {stopped}
  <2>1. done' = Append(done, stopped) /\ active' = Tail(active) /\ active # <<>>
        /\ limits' = limits
    BY <1>1 DEF Halt
  <2>2. active \in Seq(T) /\ done \in Seq(T) /\ stopped \in T
    BY <1>0
  <2> HIDE DEF stopped, T
  <2>3. Tail(active) \in Seq(T) /\ Len(Tail(active)) = Len(active) - 1
        /\ Append(done, stopped) \in Seq(T) /\ Len(Append(done, stopped)) = Len(done) + 1
    BY <2>1, <2>2
  <2>4. AreLists(Lists(active, done))'
    BY <2>1, <2>3 DEF AreLists, Lists
  <2>5. Len(active) \in Nat /\ Len(done) \in Nat
    BY <1>0
  <2>6. Bounded'
    BY <2>1, <2>3, <2>5 DEF IInv, Bounded
  <2> QED BY <2>1, <2>4, <2>6 DEF IInv
<1>2. CASE Run
  <2> DEFINE s == Head(active)
             q == Lists(Tail(active), done)
             paths == Execute(s, Fetch(s))
             m == 2 * limits.states - 1
  <2>1. /\ active' = FileAll(q, paths).active /\ done' = FileAll(q, paths).done
        /\ active # <<>> /\ limits' = limits
    BY <1>2 DEF Run
  <2>2. /\ Tail(active) \in Seq(S) /\ Len(Tail(active)) = Len(active) - 1
        /\ Len(done) \in Nat /\ Len(active) \in Nat
    BY <1>0, <2>1
  <2>3. limits.states \in Nat /\ m \in Nat /\ Len(done) + 2 * (Len(active) - 1) <= m
    BY <2>2 DEF IInv, Bounded
  <2>4. Filed(q, m)
    BY <1>0, <2>2, <2>3, Places, ZenonT(40) DEF Filed
  <2> HIDE DEF q, paths
  <2>5. m >= 2 * limits.states - 1 /\ m + 1 \in Nat /\ m + 1 >= 2 * limits.states - 1
        /\ (m + 1) + 1 = m + 2
    BY <2>3
  <2>6. \A e : Filed(File(q, e), m + 1)
    <3> HIDE DEF m
    <3> QED BY <2>3, <2>4, <2>5, FileRoom
  <2>7. \A e, f : Filed(File(File(q, e), f), m + 2)
    <3> HIDE DEF m
    <3>1. \A e, f : Filed(File(File(q, e), f), (m + 1) + 1)
      BY <2>3, <2>5, <2>6, FileRoom
    <3> QED BY <2>5, <3>1
  <2>8. PICK a, b : paths = <<a>> \/ paths = <<a, b>>
    BY AtMostTwo DEF OneOrTwo, paths
  <2>9. PICK x, y : /\ FileAll(q, paths) = Lists(x, y) /\ AreLists(Lists(x, y))
                    /\ Room(Lists(x, y), m + 1) \/ Room(Lists(x, y), m + 2)
    <3>1. FileAll(q, paths) = File(q, a) \/ FileAll(q, paths) = File(File(q, a), b)
      <4>1. CASE paths = <<a>>
        BY <4>1 DEF FileAll
      <4>2. CASE paths = <<a, b>>
        BY <4>2 DEF FileAll
      <4> QED BY <2>8, <4>1, <4>2
    <3> HIDE DEF m
    <3> QED BY <2>6, <2>7, <3>1 DEF Filed
  <2>10. active' = x /\ done' = y
    BY <2>1, <2>9 DEF Lists
  <2>11. PICK R : x \in Seq(R) /\ y \in Seq(R)
    BY <2>9 DEF AreLists, Lists
  <2>12. Len(y) + 2 * Len(x) <= m + 1 \/ Len(y) + 2 * Len(x) <= m + 2
    <3> HIDE DEF m
    <3> QED BY <2>9, <2>11, Places
  <2>13. Len(x) \in Nat /\ Len(y) \in Nat
    BY <2>11
  <2>14. Len(y) + 2 * Len(x) <= 2 * limits.states + 1
    BY <2>3, <2>12, <2>13
  <2>15. Bounded'
    BY <2>1, <2>10, <2>14, Zenon DEF Bounded
  <2> QED BY <2>1, <2>9, <2>10, <2>15 DEF IInv
<1>3. CASE UNCHANGED vars
  BY <1>3 DEF vars, IInv, AreLists, Lists, Bounded
<1> QED BY <1>1, <1>2, <1>3 DEF Next

(* Whatever the program and the limits, a trace returns at most            *)
(* 2 * --max-states + 1 states, and never keeps more than that alive.      *)
THEOREM BoundedAlways == Spec => []Bounded
<1>1. IInv => Bounded
  BY DEF IInv
<1> QED BY InitIInv, StepIInv, <1>1, PTL DEF Spec
-----------------------------------------------------------------------------
(* The sweep of the panel (PanelSweep).  The records of a window that are    *)
(* not late answers of an earlier one are in candidates or still on their    *)
(* way; nothing but Inject adds to them.                                     *)
Event ==
  [ret : {"button"}, code : Nat \X Nat, value : {"press", "release"}]
    \cup [ret : {"encoder"}, code : Nat, value : Int]

SweepTypes ==
  /\ stage \in DOMAIN After \cup {"done", "fatal"} /\ at \in {"inject", "wait", "judge"}
  /\ Asking => number \in 1 .. Asks(stage)
  /\ candidates \in Seq(Event) /\ outbox \in Seq(Event) /\ cal \in Seq(Event \cup {Noise})
  /\ kept \in [{"encoders", "special"} -> Seq(Event)]
  /\ redraws \in Nat /\ burst \in Nat /\ crashed \in BOOLEAN
  /\ probe \in [total : Nat, last : Nat, got : BOOLEAN, quiet : Int]

(* probe_wait ends a window only when it has got something it wants, or when *)
(* there is nothing on its way.                                              *)
Heard ==
  stage # "calibrate" =>
    From(candidates, IF stage = "buttons" THEN "button" ELSE "encoder") # {}
WaitInv ==
  Asking =>
    /\ at = "wait" => probe.total < Cap /\ (probe.got => Heard)
    /\ at = "judge" /\ ~crashed => outbox = <<>> \/ Heard

Stream == IF at = "inject" THEN outbox ELSE candidates \o outbox
Picks == [i \in 1..6 |-> Calibration[IF i < Drained THEN i ELSE i + 1]]

(* Calibration either took a wrong record, which it will notice, or nothing  *)
(* came late but the answer it throws away.                                  *)
ButtonsInv ==
  /\ kept["encoders"] = <<>>
  /\ \A i \in DOMAIN Stream : Stream[i].ret = "button"
  /\ \A i \in DOMAIN cal : cal[i].ret = "button" \/ cal[i] = Noise
  /\ \/ \E i \in DOMAIN cal : cal[i] = Noise
     \/ /\ \A i \in DOMAIN cal : cal[i] = Picks[i]
        /\ Stream = <<>> \/ (at # "inject" /\ Stream = <<Calibration[number]>>)

LateDrain == {<<>>} \cup IF number = 5 THEN {<<Calibration[Drained]>>} ELSE {}
TurnsPipe ==
  LET own == IF at = "inject" THEN {} ELSE {Calibration[number]}
  IN  \/ kept["encoders"] = <<>> /\ \E late \in LateDrain :
           Stream = late \/ \E q \in own : Stream = Append(late, q)
      \/ \E q \in own : kept["encoders"] = <<q>> /\ Stream \in LateDrain

TurnsInv ==
  /\ \A i \in 1..3 : cal[i] = Picks[i]
  /\ \/ \E i \in 4..Len(cal) : cal[i].ret # "encoder"
     \/ (\A i \in 4..Len(cal) : cal[i] = Picks[i]) /\ TurnsPipe

CalInv ==
  /\ stage \in {"calibrate", "sign"} => kept["special"] = <<>>
  /\ stage = "calibrate" =>
       /\ Len(cal) = IF number <= Drained THEN number - 1 ELSE number - 2
       /\ seen = <<>>
       /\ IF number <= Drained THEN ButtonsInv ELSE TurnsInv
  /\ stage \in {"calibrate", "sign"} => rows = <<>>
  /\ stage \in {"calibrate", "sign", "buttons"} => byCode = <<>>

(* The encoders: the record of the question before, and whether it is filed. *)
Earlier ==
  CASE stage = "sign" ->
         IF number = 1 THEN {} ELSE {EncoderEvent(EnLo, SignDeltas[number - 1])}
    [] stage = "encoders" ->
         {EncoderEvent(IF number = 1 THEN EnLo ELSE EnLo + number - 2, 1)}
    [] OTHER -> {EncoderEvent(EnHi, 1)}
Missing ==
  CASE stage = "sign" -> number > 1 /\ SignDeltas[number - 1] \notin DOMAIN seen
    [] stage = "encoders" -> number > 1 /\ EnLo + number - 1 \notin DOMAIN byCode
    [] OTHER -> EnHi + 1 \notin DOMAIN byCode

EncWaiting ==
  LET k == kept["encoders"]
  IN  /\ k # <<>> => \E p \in Earlier : k = <<p>>
      /\ Len(outbox) <= 1
      /\ outbox # <<>> => \/ outbox[1] \in Earlier /\ k = <<>>
                          \/ outbox[1].ret = "button" /\ number = 1
      /\ Missing => \E p \in Earlier : k = <<p>> \/ outbox = <<p>>
EncWindow(b) ==
  /\ \/ Len(Stream) = b + 1 /\ Stream[b + 1] = Question /\ kept["encoders"] = <<>>
     \/ Len(Stream) = b /\ kept["encoders"] = <<Question>>
  /\ \A i \in 1..b : Stream[i] \in Earlier \/ (Stream[i].ret = "button" /\ number = 1)
  /\ b = 2 => Stream[1].ret = "button"
  /\ Missing => b > 0 /\ Stream[b] \in Earlier

Turning == stage \in {"sign", "encoders", "flush"}
EncPipe ==
  Turning /\ ~crashed =>
    IF at = "inject" THEN EncWaiting ELSE \E b \in 0..2 : EncWindow(b)

FiledInv ==
  /\ stage # "fatal" => \A v \in DOMAIN seen : seen[v].code = EnLo + 1
  /\ stage = "sign" => \A m \in 1 .. number - 2 : SignDeltas[m] \in DOMAIN seen
  /\ stage \notin {"calibrate", "fatal", "sign"} => \A d \in {1, 5, -1} : d \in DOMAIN seen
  /\ \A c \in DOMAIN byCode : byCode[c].value = 1
  /\ stage = "encoders" => \A c \in EnLo .. EnLo + number - 3 : c + 1 \in DOMAIN byCode
  /\ stage = "flush" => number = 1 /\ \A c \in EnLo .. EnHi - 1 : c + 1 \in DOMAIN byCode
  /\ stage = "done" => \A c \in EnLo .. EnHi : c + 1 \in DOMAIN byCode

(* The buttons: a record that is late is the release of a button that has a  *)
(* right row already, or rows share a code.                                  *)
Duplicate ==
  \E k, l \in DOMAIN rows : rows[k] = rows[l] /\ k[1] # l[1]
Owned(code) == \E k \in DOMAIN rows : k[1] = code /\ rows[k] = code
Late(r) ==
  \E m \in 1 .. number - 1 :
    /\ m % 2 = 0 /\ Owned(Key(m))
    /\ r = ButtonEvent(Key(m)[1], Key(m)[2], "release")
SpecialKey == Key(number)[1] \in Special
Even == number % 2 = 0
Pressed == ButtonEvent(Key(number)[1], Key(number)[2], "press")

ButtonWaiting ==
  LET k == kept["special"]
  IN  /\ Len(outbox) + Len(k) <= 1
      /\ number = 1 => k = <<>>
      /\ outbox # <<>> => outbox[1].ret = IF number = 1 THEN "encoder" ELSE "button"
      /\ number > 1 /\ ~Duplicate =>
           IF Even
           THEN /\ outbox = <<>>
                /\ IF SpecialKey THEN \/ k = <<>> /\ Owned(Key(number))
                                      \/ k = <<Pressed>>
                   ELSE k # <<>> => Late(k[1])
           ELSE (k # <<>> => Late(k[1])) /\ (outbox # <<>> => Late(outbox[1]))
ButtonWindow(b) ==
  LET k == kept["special"]
  IN  /\ \/ /\ Len(Stream) = b + 1 /\ Stream[b + 1] = Question
            /\ Len(k) + b <= 1 /\ (k # <<>> => ~SpecialKey /\ number > 1)
            /\ k # <<>> /\ ~Duplicate => Late(k[1])
         \/ Len(Stream) = b /\ k = <<Question>> /\ SpecialKey
      /\ b = 1 => Stream[1].ret = IF number = 1 THEN "encoder" ELSE "button"
      /\ b = 1 /\ number > 1 /\ ~Duplicate =>
           IF Even THEN SpecialKey /\ Stream[1] = Pressed ELSE Late(Stream[1])
      /\ b = 0 /\ Even /\ SpecialKey /\ ~Duplicate => Owned(Key(number))

ButtonPipe ==
  stage = "buttons" /\ ~crashed =>
    /\ kept["encoders"] \in {<<>>, <<EncoderEvent(EnLo, 1)>>}
    /\ \A i \in DOMAIN kept["special"] : kept["special"][i].ret = "button"
    /\ IF at = "inject" THEN ButtonWaiting ELSE \E b \in 0..1 : ButtonWindow(b)

RowsInv ==
  /\ IsFiniteSet({k[1] : k \in DOMAIN rows})
  /\ stage = "buttons" => DOMAIN rows \subseteq {<<Key(m), Edge(m)>> : m \in 1 .. number - 1}
  /\ ~crashed => Duplicate \/ \A k \in DOMAIN rows : rows[k] = k[1]

SweepInvariant ==
  /\ SweepTypes /\ WaitInv /\ CalInv /\ CalibrationRight
  /\ EncPipe /\ (~crashed => FiledInv) /\ ButtonPipe /\ RowsInv

-----------------------------------------------------------------------------
(* What arrives in a spin was on its way: the stream of a window stays.      *)
LEMMA Arrival ==
  ASSUME SweepTypes, NEW n \in 0 .. Len(outbox)
  PROVE  LET now == candidates \o SubSeq(outbox, 1, n)
             rest == SubSeq(outbox, n + 1, Len(outbox))
         IN  /\ now \in Seq(Event) /\ rest \in Seq(Event) /\ now \o rest = candidates \o outbox
             /\ n = Len(outbox) => rest = <<>>
PROOF
<1> DEFINE R == Event
           c == candidates
           o == outbox
           s == SubSeq(o, 1, n)
           t == SubSeq(o, n + 1, Len(o))
<1>0. c \in Seq(R) /\ o \in Seq(R) /\ n \in 0 .. Len(o)
  BY DEF SweepTypes
<1> HIDE DEF R, c, o
<1>1. s \in Seq(R) /\ Len(s) = n /\ \A i \in 1..n : s[i] = o[i]
  BY <1>0
<1>2. t \in Seq(R) /\ Len(t) = Len(o) - n /\ \A i \in 1..(Len(o) - n) : t[i] = o[n + i]
  BY <1>0
<1>3. s \in Seq(R) /\ t \in Seq(R) /\ Len(o) \in Nat
  BY <1>0, <1>1, <1>2
<1> HIDE DEF s, t
<1>4. /\ s \o t \in Seq(R) /\ Len(s \o t) = Len(s) + Len(t)
      /\ \A i \in 1 .. Len(s) : (s \o t)[i] = s[i]
      /\ \A i \in 1 .. Len(t) : (s \o t)[Len(s) + i] = t[i]
  BY <1>3
<1>5. Len(s \o t) = Len(o)
  BY <1>1, <1>2, <1>3, <1>4
<1>6. ASSUME NEW i \in 1..Len(o) PROVE (s \o t)[i] = o[i]
  <2>1. CASE i <= n
    BY <1>1, <1>4, <2>1
  <2>2. CASE i > n
    <3>1. i - n \in 1..Len(t) /\ n + (i - n) = i
      BY <1>2, <1>3, <2>2
    <3>2. (s \o t)[Len(s) + (i - n)] = t[i - n] /\ t[i - n] = o[n + (i - n)]
      BY <1>2, <1>4, <3>1
    <3> QED
      BY <1>1, <3>1, <3>2
  <2>3. i \in Int /\ n \in Int
    BY <1>0, <1>3
  <2>4. i <= n \/ i > n
    BY <2>3
  <2> QED
    BY <2>1, <2>2, <2>4, Zenon
<1>7. s \o t = o
  BY <1>0, <1>4, <1>5, <1>6, SeqEqual
<1>8. (c \o s) \o t = c \o (s \o t)
  BY <1>0, <1>3, ConcatAssociative, SMTT(30)
<1>9. n = Len(o) => t = <<>>
  BY <1>2, EmptySeq
<1>10. c \o s \in Seq(R)
  BY <1>0, <1>3
<1> QED
  BY <1>3, <1>7, <1>8, <1>9, <1>10, Zenon DEF s, t, R, c, o

(* Questions of different pairs are about different buttons.                 *)
LEMMA KeysDiffer ==
  ASSUME SweepAssumption, NEW i \in Nat \ {0}, NEW j \in Nat \ {0},
         (i - 1) \div 2 # (j - 1) \div 2
  PROVE  Key(i) # Key(j)
PROOF
<1> DEFINE m == (i - 1) \div 2
           n == (j - 1) \div 2
<1>1. m \in Nat /\ n \in Nat /\ m # n /\ BitCount \in Nat \ {0} /\ ChLo \in Nat
  BY DEF SweepAssumption
<1> HIDE DEF m, n
<1>2. m \div BitCount \in Nat /\ n \div BitCount \in Nat
  BY <1>1
<1>3. m \div BitCount # n \div BitCount \/ m % BitCount # n % BitCount
  BY <1>1, Z3
<1>4. ChLo + m \div BitCount # ChLo + n \div BitCount \/ m % BitCount # n % BitCount
  BY <1>1, <1>2, <1>3
<1> QED
  BY <1>4 DEF Key, m, n

-----------------------------------------------------------------------------
(* The questions are events of the panel.                                    *)
LEMMA Asked ==
  ASSUME SweepAssumption, SweepTypes, Asking
  PROVE  /\ Question \in Event /\ Asks(stage) \in Nat
         /\ stage = "calibrate" => Question = Calibration[number]
         /\ stage = "sign" => Question = EncoderEvent(EnLo, SignDeltas[number])
         /\ stage = "buttons" =>
              Question = ButtonEvent(Key(number)[1], Key(number)[2], Edge(number))
         /\ stage = "encoders" => Question = EncoderEvent(EnLo + number - 1, 1)
         /\ stage = "flush" => Question = EncoderEvent(EnHi, 1)
PROOF
<1>1. stage \in {"calibrate", "sign", "buttons", "encoders", "flush"}
  BY DEF Asking, After
<1>2. Asks(stage) \in Nat
  <2>1. CASE stage = "buttons"
    <3>1. Asks(stage) = 2 * BitCount * (ChHi - ChLo + 1)
      BY <2>1 DEF Asks
    <3>2. 2 * BitCount \in Nat /\ ChHi - ChLo + 1 \in Nat
      BY DEF SweepAssumption
    <3> QED
      BY <3>1, <3>2
  <2> QED
    BY <1>1, <2>1 DEF Asks, SweepAssumption
<1>3. number \in 1 .. Asks(stage)
  BY DEF SweepTypes
<1>4. number \in Nat \ {0}
  BY <1>2, <1>3
<1>5. CASE stage = "calibrate"
  <2>1. number \in 1..7 /\ Question = Calibration[number]
    BY <1>3, <1>5 DEF Asks, Question
  <2>2. \A i \in 1..7 : Calibration[i] \in Event
    BY DEF Calibration, Event, ButtonEvent, EncoderEvent
  <2> QED
    BY <1>2, <1>5, <2>1, <2>2
<1>6. CASE stage = "sign"
  <2>1. number \in 1..4 /\ Question = EncoderEvent(EnLo, SignDeltas[number])
    BY <1>3, <1>6 DEF Asks, Question
  <2>2. \A i \in 1..4 : SignDeltas[i] \in Int
    BY DEF SignDeltas
  <2>3. Question \in Event
    BY <2>1, <2>2 DEF Event, EncoderEvent, SweepAssumption
  <2> QED
    BY <1>2, <1>6, <2>1, <2>3
<1>7. CASE stage = "buttons"
  <2>1. Question = ButtonEvent(Key(number)[1], Key(number)[2], Edge(number))
    BY <1>7 DEF Question
  <2> DEFINE n == (number - 1) \div 2
  <2>2. n \in Nat
    BY <1>4
  <2>3. Key(number) = <<ChLo + n \div BitCount, n % BitCount>>
    BY DEF Key
  <2> HIDE DEF n
  <2>4. Key(number)[1] \in Nat /\ Key(number)[2] \in Nat
    BY <2>2, <2>3 DEF SweepAssumption
  <2>5. Question \in Event
    BY <2>1, <2>4 DEF Event, ButtonEvent, Edge
  <2> QED
    BY <1>2, <1>7, <2>1, <2>5
<1>8. CASE stage = "encoders"
  BY <1>2, <1>4, <1>8 DEF Question, Event, EncoderEvent, SweepAssumption
<1>9. CASE stage = "flush"
  BY <1>2, <1>9 DEF Question, Event, EncoderEvent, SweepAssumption
<1> QED
  BY <1>1, <1>5, <1>6, <1>7, <1>8, <1>9

(* What an input does: nothing after a crash, and otherwise it is queued or  *)
(* kept back, behind what was kept back of its kind.                         *)
LEMMA Injected ==
  ASSUME SweepAssumption, SweepTypes, Inject
  PROVE  /\ Asking /\ at = "inject" /\ at' = "wait" /\ candidates' = <<>> /\ redraws' = 0
         /\ UNCHANGED <<stage, number, report, crashed>>
         /\ outbox' \in Seq(Event) /\ Stream' = outbox'
         /\ kept' \in [{"encoders", "special"} -> Seq(Event)] /\ burst' \in Nat
         /\ probe' = [total |-> 0, last |-> 0, got |-> FALSE, quiet |-> 0]
         /\ crashed => outbox' = outbox /\ kept' = kept
         /\ ~crashed =>
              LET kind == Kind(Question)
              IN  \/ kind = "direct" /\ outbox' = Append(outbox, Question) /\ kept' = kept
                  \/ /\ kind \in {"encoders", "special"}
                     /\ outbox' = Append(outbox \o kept[kind], Question)
                     /\ kept' = [kept EXCEPT ![kind] = <<>>]
                  \/ /\ kind \in {"encoders", "special"}
                     /\ outbox' = outbox \o kept[kind]
                     /\ kept' = [kept EXCEPT ![kind] = <<Question>>]
PROOF
<1>1. /\ Asking /\ at = "inject" /\ at' = "wait" /\ candidates' = <<>> /\ redraws' = 0
      /\ UNCHANGED <<stage, number, report, crashed>>
      /\ probe' = [total |-> 0, last |-> 0, got |-> FALSE, quiet |-> 0]
  BY DEF Inject
<1>2. Question \in Event
  BY <1>1, Asked
<1>3. Kind(Question) \in {"direct", "encoders", "special"}
  BY DEF Kind
<1>4. CASE crashed
  <2>1. outbox' = outbox /\ kept' = kept /\ burst' = burst
    BY <1>4 DEF Inject, firmware
  <2>2. outbox' \in Seq(Event) /\ Stream' = outbox'
    BY <1>1, <2>1 DEF SweepTypes, Stream
  <2> QED
    BY <1>1, <1>4, <2>1, <2>2 DEF SweepTypes
<1>5. CASE ~crashed
  <2>1. Handle(Question)
    BY <1>5 DEF Inject
  <2>2. burst' \in Nat
    BY <2>1 DEF Handle, SweepTypes, SweepAssumption
  <2>3. \/ Kind(Question) = "direct" /\ outbox' = Append(outbox, Question) /\ kept' = kept
        \/ /\ Kind(Question) \in {"encoders", "special"}
           /\ outbox' = Append(outbox \o kept[Kind(Question)], Question)
           /\ kept' = [kept EXCEPT ![Kind(Question)] = <<>>]
        \/ /\ Kind(Question) \in {"encoders", "special"}
           /\ outbox' = outbox \o kept[Kind(Question)]
           /\ kept' = [kept EXCEPT ![Kind(Question)] = <<Question>>]
    BY <1>3, <2>1 DEF Handle
  <2>4. outbox \in Seq(Event) /\ kept \in [{"encoders", "special"} -> Seq(Event)]
    BY DEF SweepTypes
  <2>5. outbox' \in Seq(Event) /\ kept' \in [{"encoders", "special"} -> Seq(Event)]
    <3>1. <<Question>> \in Seq(Event) /\ <<>> \in Seq(Event)
      BY <1>2
    <3>2. \A k \in {"encoders", "special"} :
            /\ outbox \o kept[k] \in Seq(Event)
            /\ Append(outbox \o kept[k], Question) \in Seq(Event)
      BY <1>2, <2>4
    <3>3. Append(outbox, Question) \in Seq(Event)
      BY <1>2, <2>4
    <3> QED
      BY <2>3, <2>4, <3>1, <3>2, <3>3, ZenonT(40)
  <2>6. Stream' = outbox'
    <3>1. <<>> \o outbox' = outbox'
      BY <2>5
    <3> QED
      BY <1>1, <3>1 DEF Stream
  <2> QED
    BY <1>1, <1>5, <2>2, <2>3, <2>5, <2>6
<1> QED
  BY <1>4, <1>5

(* A wait, and how it ends, leaves the stream as it is.                      *)
LEMMA Waited ==
  ASSUME SweepTypes, Chunk \/ Crash \/ WaitCrashed
  PROVE  /\ Asking /\ at = "wait" /\ at' \in {"wait", "judge"} /\ Stream' = Stream
         /\ UNCHANGED <<stage, number, report, kept>> /\ (crashed => crashed')
PROOF
<1>1. CASE Chunk
  <2>1. PICK n \in 0 .. Len(outbox) :
          /\ candidates' = candidates \o SubSeq(outbox, 1, n)
          /\ outbox' = SubSeq(outbox, n + 1, Len(outbox))
    BY <1>1 DEF Chunk
  <2>2. candidates' \o outbox' = candidates \o outbox
    BY <2>1, Arrival
  <2>3. /\ Asking /\ at = "wait" /\ at' \in {"wait", "judge"}
        /\ UNCHANGED <<stage, number, report, kept, crashed>>
    BY <1>1 DEF Chunk
  <2> QED
    BY <2>2, <2>3 DEF Stream
<1>2. CASE Crash
  BY <1>2 DEF Crash, Stream, window, firmware
<1>3. CASE WaitCrashed
  BY <1>3 DEF WaitCrashed, Stream, window, firmware
<1> QED
  BY <1>1, <1>2, <1>3

(* The judging of a window, in whatever stage.                               *)
Judge == Calibrate \/ SignCheck \/ SweepButton \/ SweepEncoder \/ FlushEncoder

(* Judging a window takes nothing from what is on its way.                   *)
LEMMA Judged ==
  ASSUME Judge
  PROVE  /\ Asking /\ at = "judge" /\ UNCHANGED <<window, firmware, crashed>>
         /\ stage' # "fatal" => at' = "inject" /\ Stream' = outbox
         /\ Stream = candidates \o outbox
         /\ stage' # stage => number' = 1 \/ stage' = "fatal"
         /\ stage' = stage => number' = number + 1 /\ number < Asks(stage)
         /\ stage' \in {stage, After[stage], "done", "fatal"}
PROOF
<1>1. /\ Asking /\ at = "judge" /\ UNCHANGED <<window, firmware, crashed>>
      /\ Proceed \/ Finish \/ Fail
  BY DEF Judge, Calibrate, SignCheck, SweepButton, SweepEncoder, FlushEncoder, Judging,
         Asking, After
<1>2. stage # "done" /\ stage # "fatal" /\ After[stage] # stage /\ After[stage] # "fatal"
  BY <1>1 DEF Asking, After
<1>3. /\ stage' # "fatal" => at' = "inject"
      /\ stage' # stage => number' = 1 \/ stage' = "fatal"
      /\ stage' = stage => number' = number + 1 /\ number < Asks(stage)
      /\ stage' \in {stage, After[stage], "done", "fatal"}
  BY <1>1, <1>2 DEF Proceed, Finish, Fail
<1> QED
  BY <1>1, <1>3 DEF Stream, firmware

(* A caller that fired once left one record, or it is the redraw.            *)
LEMMA SingleAnswer ==
  ASSUME NEW r \in Singles
  PROVE  r = Noise \/ \E i \in DOMAIN candidates :
           r = candidates[i] /\ From(candidates, r.ret) = {i}
PROOF
<1>1. \/ \E i \in {j \in DOMAIN candidates : From(candidates, candidates[j].ret) = {j}} :
           r = candidates[i]
      \/ r \in (IF redraws = 1 THEN {Noise} ELSE {})
  BY DEF Singles
<1> QED
  BY <1>1

(* Every step keeps the types.                                               *)
LEMMA TypesNext == SweepAssumption /\ SweepTypes /\ [SweepNext]_sweepVars => SweepTypes'
PROOF
<1> SUFFICES ASSUME SweepAssumption, SweepTypes, [SweepNext]_sweepVars PROVE SweepTypes'
  OBVIOUS
<1>1. CASE Inject
  <2>1. Asking' = Asking /\ Asks(stage)' = Asks(stage)
    BY <1>1, Injected DEF Asking, Asks
  <2>2. probe' \in [total : Nat, last : Nat, got : BOOLEAN, quiet : Int]
    <3>1. probe' = [total |-> 0, last |-> 0, got |-> FALSE, quiet |-> 0]
      BY <1>1, Injected
    <3> QED
      BY <3>1
  <2>3. candidates' \in Seq(Event) /\ redraws' \in Nat /\ at' \in {"inject", "wait", "judge"}
    <3>1. candidates' = <<>> /\ redraws' = 0 /\ at' = "wait"
      BY <1>1, Injected
    <3> QED
      BY <3>1
  <2> QED
    BY <1>1, <2>1, <2>2, <2>3, Injected DEF SweepTypes, report
<1>2. CASE Chunk
  <2>1. PICK n \in 0 .. Len(outbox), m \in 0 .. burst :
          /\ candidates' = candidates \o SubSeq(outbox, 1, n) /\ redraws' = redraws + m
          /\ outbox' = SubSeq(outbox, n + 1, Len(outbox)) /\ burst' = burst - m
          /\ LET count == Wanted(candidates \o SubSeq(outbox, 1, n), redraws + m)
             IN  probe' = [total |-> probe.total + 1, last |-> count,
                           got |-> probe.got \/ count > probe.last,
                           quiet |-> IF count > probe.last THEN 0
                                     ELSE IF probe.got THEN probe.quiet + 1 ELSE probe.quiet]
    BY <1>2 DEF Chunk
  <2>2. candidates' \in Seq(Event) /\ outbox' \in Seq(Event)
    BY <2>1, Arrival
  <2>3. redraws' \in Nat /\ burst' \in Nat
    BY <2>1 DEF SweepTypes
  <2>4. Wanted(candidates', redraws') \in Nat
    <3>1. \A caller : Cardinality(From(candidates', caller)) \in Nat
      <4> SUFFICES ASSUME NEW caller PROVE Cardinality(From(candidates', caller)) \in Nat
        OBVIOUS
      <4>1. IsFiniteSet(1 .. Len(candidates')) /\ From(candidates', caller) \subseteq 1 .. Len(candidates')
        BY <2>2, FS_Interval DEF From
      <4> QED
        BY <4>1, FS_Subset, FS_CardinalityType
    <3>2. \A caller : Counted(candidates', redraws', caller) \in Nat
      BY <2>3, <3>1 DEF Counted
    <3>3. Len(candidates') + redraws' \in Nat
      BY <2>2, <2>3
    <3> QED
      BY <3>2, <3>3 DEF Wanted
  <2>5. probe' \in [total : Nat, last : Nat, got : BOOLEAN, quiet : Int]
    BY <2>1, <2>4 DEF SweepTypes
  <2>6. UNCHANGED <<stage, number, report, kept, crashed>> /\ at' \in {"wait", "judge"}
    BY <1>2 DEF Chunk
  <2> QED
    BY <2>2, <2>3, <2>5, <2>6 DEF SweepTypes, report, Asking, Asks
<1>3. CASE Crash \/ WaitCrashed
  BY <1>3 DEF Crash, WaitCrashed, SweepTypes, window, firmware, report, Asking, Asks
<1>4. CASE Judge
  <2>1. UNCHANGED <<window, firmware, crashed>> /\ Asking
    BY <1>4, Judged
  <2>2. stage' \in DOMAIN After \cup {"done", "fatal"} /\ at' \in {"inject", "wait", "judge"}
    <3>1. Proceed \/ Finish \/ Fail
      BY <1>4 DEF Judge, Calibrate, SignCheck, SweepButton, SweepEncoder, FlushEncoder
    <3> QED
      BY <2>1, <3>1 DEF Proceed, Finish, Fail, SweepTypes, Asking, After
  <2>3. Asking' => number' \in 1 .. Asks(stage)'
    <3>1. Asks(stage)' = Asks(stage')
      BY DEF Asks
    <3>2. CASE stage' = stage
      <4>1. Asks(stage) \in Nat /\ number \in 1 .. Asks(stage)
        BY <2>1, Asked DEF SweepTypes
      <4>2. number' = number + 1 /\ number < Asks(stage)
        BY <1>4, <3>2, Judged
      <4> QED
        BY <3>1, <3>2, <4>1, <4>2
    <3>3. CASE stage' # stage /\ stage' \in DOMAIN After
      <4>1. Asks(stage') \in Nat \ {0}
        <5>1. stage' \in {"calibrate", "sign", "buttons", "encoders", "flush"}
          BY <3>3 DEF After
        <5>2. BitCount * (ChHi - ChLo + 1) \in Nat \ {0} /\ EnHi - EnLo + 1 \in Nat \ {0}
          BY SMT DEF SweepAssumption
        <5>3. 2 * BitCount * (ChHi - ChLo + 1) = 2 * (BitCount * (ChHi - ChLo + 1))
          BY DEF SweepAssumption
        <5> QED
          BY <5>1, <5>2, <5>3 DEF Asks
      <4>2. number' = 1
        BY <1>4, <3>3, Judged DEF After
      <4> QED
        BY <3>1, <4>1, <4>2
    <3> QED
      BY <3>2, <3>3 DEF Asking
  <2>4. cal' \in Seq(Event \cup {Noise})
    <3>1. CASE cal' = cal
      BY <3>1 DEF SweepTypes
    <3>2. ASSUME NEW r \in Singles, cal' = Append(cal, r)
          PROVE  cal' \in Seq(Event \cup {Noise})
      <4>1. r \in Event \cup {Noise}
        BY SingleAnswer DEF SweepTypes
      <4> QED
        BY <3>2, <4>1 DEF SweepTypes
    <3> QED
      BY <1>4, <3>1, <3>2
         DEF Judge, Calibrate, SignCheck, SweepButton, SweepEncoder, FlushEncoder
  <2> QED
    BY <2>1, <2>2, <2>3, <2>4 DEF SweepTypes, window, firmware
<1>5. CASE UNCHANGED sweepVars
  BY <1>5 DEF sweepVars, SweepTypes, window, firmware, report, Asking, Asks
<1> QED
  BY <1>1, <1>2, <1>3, <1>4, <1>5 DEF SweepNext, Judge

(* No window is judged with records on their way that were not waited for.   *)
LEMMA WaitNext ==
  SweepAssumption /\ SweepTypes /\ CalibrationRight /\ WaitInv /\ [SweepNext]_sweepVars
    => WaitInv'
PROOF
<1> SUFFICES ASSUME SweepAssumption, SweepTypes, CalibrationRight, WaitInv,
                    [SweepNext]_sweepVars
             PROVE  WaitInv'
  OBVIOUS
<1>1. CASE Inject
  <2>1. at' = "wait" /\ probe' = [total |-> 0, last |-> 0, got |-> FALSE, quiet |-> 0]
    BY <1>1, Injected
  <2>2. probe'.total < Cap /\ ~probe'.got
    BY <2>1 DEF SweepAssumption
  <2> QED
    BY <2>1, <2>2 DEF WaitInv
<1>2. CASE Chunk
  <2>1. PICK n \in 0 .. Len(outbox), m \in 0 .. burst :
          LET total == probe.total + 1
              now == candidates \o SubSeq(outbox, 1, n)
              count == Wanted(now, redraws + m)
              more == count > probe.last
              quiet == IF more THEN 0
                       ELSE IF probe.got THEN probe.quiet + 1 ELSE probe.quiet
              still == ~more /\ probe.got /\ quiet >= Quiet
          IN  /\ total = Cap => n = Len(outbox) /\ m = burst
              /\ candidates' = now /\ redraws' = redraws + m
              /\ outbox' = SubSeq(outbox, n + 1, Len(outbox)) /\ burst' = burst - m
              /\ probe' = [total |-> total, last |-> count,
                           got |-> probe.got \/ more, quiet |-> quiet]
              /\ at' = IF still \/ total >= Cap THEN "judge" ELSE "wait"
    BY <1>2 DEF Chunk
  <2> DEFINE count == Wanted(candidates', redraws')
  <2>2. Asking /\ at = "wait" /\ UNCHANGED <<stage, number, report, kept, crashed>>
    BY <1>2 DEF Chunk
  <2>3. /\ probe' = [total |-> probe.total + 1, last |-> count,
                     got |-> probe.got \/ count > probe.last, quiet |-> probe'.quiet]
        /\ at' = "wait" => probe.total + 1 < Cap \/ ~(probe.total + 1 >= Cap)
        /\ at' = "judge" => (probe.got \/ probe.total + 1 >= Cap)
        /\ probe.total + 1 = Cap => n = Len(outbox)
        /\ candidates' = candidates \o SubSeq(outbox, 1, n)
        /\ outbox' = SubSeq(outbox, n + 1, Len(outbox))
    BY <2>1
  <2>4. probe.total < Cap /\ (probe.got => Heard) /\ probe.total \in Nat /\ Cap \in Nat
    BY <2>2 DEF WaitInv, SweepTypes, SweepAssumption
  <2>5. candidates' \in Seq(Event) /\ (n = Len(outbox) => outbox' = <<>>)
    BY <2>3, Arrival
  <2>6. \A i \in DOMAIN candidates : i \in DOMAIN candidates' /\ candidates'[i] = candidates[i]
    <3> DEFINE s == SubSeq(outbox, 1, n)
    <3>1. s \in Seq(Event) /\ candidates \in Seq(Event)
      BY DEF SweepTypes
    <3> HIDE DEF s
    <3>2. \A i \in DOMAIN candidates :
            i \in DOMAIN (candidates \o s) /\ (candidates \o s)[i] = candidates[i]
      BY <3>1
    <3> QED
      BY <2>3, <3>2 DEF s
  <2>7. Heard => Heard'
    <3>1. \A caller : From(candidates, caller) # {} => From(candidates', caller) # {}
      BY <2>6 DEF From
    <3> QED
      BY <2>2, <3>1 DEF Heard
  <2>8. count > probe.last => Heard'
    <3> SUFFICES ASSUME count > probe.last, stage # "calibrate"
                 PROVE  From(candidates', IF stage = "buttons" THEN "button" ELSE "encoder") # {}
      BY <2>2 DEF Heard
    <3> DEFINE caller == IF stage = "buttons" THEN "button" ELSE "encoder"
    <3>1. ButtonCaller = "button" /\ EncoderCaller = "encoder"
      BY <2>2 DEF CalibrationRight, Asking, After
    <3>2. count = Counted(candidates', redraws', caller)
      BY <3>1 DEF Wanted
    <3>3. count = Cardinality(From(candidates', caller)) + 0
      BY <3>2 DEF Counted, Noise
    <3>4. probe.last \in Nat
      BY DEF SweepTypes
    <3>5. From(candidates', caller) = {} => Cardinality(From(candidates', caller)) = 0
      BY FS_EmptySet
    <3> HIDE DEF count, caller
    <3>6. From(candidates', caller) # {}
      BY <3>3, <3>4, <3>5
    <3> QED
      BY <3>6 DEF caller
  <2>9. probe'.got => Heard'
    <3> DEFINE got == probe.got \/ count > probe.last
    <3>1. probe' = [total |-> probe.total + 1, last |-> count, got |-> got, quiet |-> probe'.quiet]
      BY <2>3
    <3>2. got => probe.got \/ count > probe.last
      OBVIOUS
    <3> HIDE DEF count, got
    <3>3. probe'.got = got
      BY <3>1
    <3> QED
      BY <2>4, <2>7, <2>8, <3>2, <3>3, Zenon
  <2>10. at' = "wait" => probe'.total < Cap
    BY <2>3, <2>4, SMTT(30)
  <2>11. at' = "judge" => outbox' = <<>> \/ Heard'
    <3>1. probe.total + 1 >= Cap => probe.total + 1 = Cap
      BY <2>4
    <3>2. at' = "judge" /\ ~probe.got => outbox' = <<>>
      BY <2>3, <2>5, <3>1
    <3> QED
      BY <2>4, <2>7, <3>2
  <2> QED
    BY <2>9, <2>10, <2>11 DEF WaitInv
<1>3. CASE Crash \/ WaitCrashed
  <2>1. crashed' /\ at' = "judge"
    BY <1>3 DEF Crash, WaitCrashed
  <2> QED
    BY <2>1 DEF WaitInv
<1>4. CASE Judge
  <2>1. at' = "inject" \/ ~Asking'
    BY <1>4, Judged DEF Asking, After
  <2> QED
    BY <2>1 DEF WaitInv
<1>5. CASE UNCHANGED sweepVars
  <2>1. UNCHANGED <<stage, at, probe, candidates, outbox, crashed>>
    BY <1>5 DEF sweepVars, window, firmware
  <2> QED
    BY <2>1 DEF WaitInv, Asking, Heard, From
<1> QED
  BY <1>1, <1>2, <1>3, <1>4, <1>5 DEF SweepNext, Judge

-----------------------------------------------------------------------------
(* The stream of a window that is judged: what is left of it is on its way.  *)
LEMMA Streamed ==
  ASSUME SweepTypes, at = "judge"
  PROVE  /\ Stream \in Seq(Event) /\ Len(Stream) = Len(candidates) + Len(outbox)
         /\ Len(candidates) \in Nat /\ Len(outbox) \in Nat
         /\ DOMAIN candidates = 1 .. Len(candidates) /\ DOMAIN outbox = 1 .. Len(outbox)
         /\ DOMAIN Stream = 1 .. Len(Stream)
         /\ \A i \in 1 .. Len(candidates) : candidates[i] \in Event /\ Stream[i] = candidates[i]
         /\ \A i \in 1 .. Len(outbox) : outbox[i] \in Event
                                        /\ Stream[Len(candidates) + i] = outbox[i]
         /\ Len(outbox) = 0 => outbox = <<>>
         /\ Len(candidates) = 0 => Stream = outbox
PROOF
<1> DEFINE R == Event
           c == candidates
           o == outbox
<1>1. c \in Seq(R) /\ o \in Seq(R) /\ Stream = c \o o
  BY DEF SweepTypes, Stream
<1> HIDE DEF R, c, o
<1>2. /\ c \o o \in Seq(R) /\ Len(c \o o) = Len(c) + Len(o) /\ Len(c) \in Nat /\ Len(o) \in Nat
      /\ \A i \in 1 .. Len(c) : (c \o o)[i] = c[i] /\ c[i] \in R
      /\ \A i \in 1 .. Len(o) : (c \o o)[Len(c) + i] = o[i] /\ o[i] \in R
      /\ DOMAIN c = 1 .. Len(c) /\ DOMAIN o = 1 .. Len(o)
      /\ DOMAIN (c \o o) = 1 .. Len(c \o o)
  BY <1>1
<1>3. Len(o) = 0 => o = <<>>
  BY <1>1, EmptySeq
<1>4. Len(c) = 0 => c \o o = o
  <2>1. Len(c) = 0 => c = <<>>
    BY <1>1, EmptySeq
  <2>2. <<>> \o o = o
    BY <1>1
  <2> QED
    BY <2>1, <2>2
<1> QED
  BY <1>1, <1>2, <1>3, <1>4 DEF R, c, o

(* The records of calibration: which of the firmware's callers they name,    *)
(* and that none is kept back but an encoder's.                              *)
LEMMA CalibrationKinds ==
  ASSUME SweepAssumption
  PROVE  /\ \A i \in 1..4 : /\ Calibration[i].ret = "button"
                            /\ Kind(Calibration[i]) = "direct"
         /\ \A i \in 5..7 : /\ Calibration[i].ret = "encoder"
                            /\ Kind(Calibration[i]) = "encoders"
         /\ \A i \in 1..7 : Calibration[i] # Noise
         /\ \A i \in 1..3 : Picks[i] = Calibration[i]
         /\ \A i \in 4..6 : Picks[i] = Calibration[i + 1]
         /\ Drained = 4
PROOF
<1>1. \A i \in {1, 2, 3, 4} : /\ Calibration[i].ret = "button"
                              /\ Calibration[i].code[1] \in {0, 1}
  BY DEF Calibration, ButtonEvent
<1>2. \A i \in {5, 6, 7} : Calibration[i].ret = "encoder"
  BY DEF Calibration, EncoderEvent
<1>3. 0 \notin Special /\ 1 \notin Special
  BY DEF SweepAssumption
<1>4. \A i \in 1..4 : Kind(Calibration[i]) = "direct"
  BY <1>1, <1>3 DEF Kind
<1>5. \A i \in 5..7 : Kind(Calibration[i]) = "encoders"
  BY <1>2 DEF Kind
<1>6. Noise.ret = "redraw"
  BY DEF Noise
<1> QED
  BY <1>1, <1>2, <1>4, <1>5, <1>6 DEF Picks, Drained

(* The questions of calibration and of the sign check keep back no button.   *)
LEMMA NoButtonKept ==
  ASSUME SweepAssumption, SweepTypes, stage \in {"calibrate", "sign"}, Inject
  PROVE  kept'["special"] = kept["special"]
PROOF
<1>1. Kind(Question) \in {"direct", "encoders"}
  <2>1. CASE stage = "calibrate"
    <3>1. Asking /\ number \in 1..7
      BY <2>1, Injected DEF SweepTypes, Asks
    <3>2. Question = Calibration[number]
      BY <2>1, <3>1, Asked
    <3> QED
      BY <3>1, <3>2, CalibrationKinds
  <2>2. CASE stage = "sign"
    BY <2>2, Injected, Asked, SMTT(30) DEF Kind, EncoderEvent
  <2> QED
    BY <2>1, <2>2
<1>2. kept \in [{"encoders", "special"} -> Seq(Event)]
  BY DEF SweepTypes
<1>3. "direct" # "encoders" /\ "direct" # "special" /\ "encoders" # "special"
  OBVIOUS
<1>4. kept' = kept \/ kept' = [kept EXCEPT !["encoders"] = <<>>]
      \/ kept' = [kept EXCEPT !["encoders"] = <<Question>>]
  BY <1>1, <1>3, Injected
<1> QED
  BY <1>2, <1>3, <1>4

(* A question of calibration is put: of a button it is on its way, of an     *)
(* encoder it may be kept back.                                              *)
LEMMA CalInject ==
  ASSUME SweepAssumption, SweepTypes, CalInv, Inject
  PROVE  CalInv'
PROOF
<1>1. /\ Asking /\ at = "inject" /\ at' = "wait" /\ Stream' = outbox'
      /\ UNCHANGED <<stage, number, cal, seen, rows, byCode>>
  BY Injected DEF report
<1>2. stage \in {"calibrate", "sign"} => kept'["special"] = <<>>
  BY NoButtonKept DEF CalInv
<1>3. Stream = outbox /\ outbox \in Seq(Event)
  BY <1>1 DEF Stream, SweepTypes
<1>4. Drained = 4 /\ Noise.ret = "redraw"
  BY DEF Drained, Noise
<1>5. kept \in [{"encoders", "special"} -> Seq(Event)]
  BY DEF SweepTypes
<1>6. ASSUME stage = "calibrate" PROVE IF number <= Drained THEN ButtonsInv' ELSE TurnsInv'
  <2>1. number \in 1..7 /\ Question = Calibration[number]
    BY <1>1, <1>6, Asked DEF SweepTypes, Asks
  <2>2. CASE number <= 4
    <3>1. ButtonsInv /\ Kind(Question) = "direct" /\ Question.ret = "button"
      BY <1>4, <1>6, <2>1, <2>2, CalibrationKinds DEF CalInv
    <3>2. \/ outbox' = Append(outbox, Question) /\ kept' = kept
          \/ outbox' = outbox /\ kept' = kept
      BY <3>1, Injected
    <3>3. \A i \in DOMAIN outbox' : outbox'[i].ret = "button"
      BY <1>3, <3>1, <3>2 DEF ButtonsInv
    <3>4. \/ \E i \in DOMAIN cal' : cal'[i] = Noise
          \/ /\ \A i \in DOMAIN cal' : cal'[i] = Picks[i]
             /\ outbox' = <<>> \/ outbox' = <<Calibration[number]>>
      <4>1. outbox = <<>> => Append(outbox, Question) = <<Question>>
        OBVIOUS
      <4> QED
        BY <1>1, <1>3, <2>1, <3>1, <3>2, <4>1 DEF ButtonsInv
    <3>5. ButtonsInv'
      BY <1>1, <3>1, <3>2, <3>3, <3>4 DEF ButtonsInv, Picks
    <3> QED
      BY <1>4, <2>2, <3>5
  <2>3. CASE number > 4
    <3>1. TurnsInv /\ Kind(Question) = "encoders"
      BY <1>4, <1>6, <2>1, <2>3, CalibrationKinds DEF CalInv
    <3>2. ASSUME TurnsPipe PROVE TurnsPipe'
      <4> DEFINE D == LateDrain
      <4>1. kept["encoders"] = <<>> /\ outbox \in D
        BY <1>1, <1>3, <3>2 DEF TurnsPipe
      <4>2. LateDrain' = D
        BY <1>1 DEF LateDrain
      <4>3. \/ outbox' = outbox /\ kept' = kept
            \/ outbox' = Append(outbox \o <<>>, Question) /\ kept'["encoders"] = <<>>
            \/ outbox' = outbox \o <<>> /\ kept'["encoders"] = <<Question>>
        BY <1>5, <3>1, <4>1, Injected
      <4>4. outbox \o <<>> = outbox
        BY <1>3
      <4>5. at' # "inject"
        BY <1>1
      <4> HIDE DEF D
      <4>6. \/ kept'["encoders"] = <<>> /\ outbox' = outbox
            \/ kept'["encoders"] = <<>> /\ outbox' = Append(outbox, Question)
            \/ kept'["encoders"] = <<Question>> /\ outbox' = outbox
        BY <4>1, <4>3, <4>4
      <4> QED
        BY <1>1, <2>1, <4>1, <4>2, <4>5, <4>6, Zenon DEF TurnsPipe
    <3>3. TurnsInv'
      BY <1>1, <3>1, <3>2 DEF TurnsInv, Picks
    <3> QED
      BY <1>4, <2>3, <2>1, <3>3
  <2> QED
    BY <2>1, <2>2, <2>3
<1> QED
  BY <1>1, <1>2, <1>6 DEF CalInv

(* A pick of calibration, once a button's question was the last: a redraw or *)
(* the record asked for.                                                     *)
LEMMA ButtonPicked ==
  ASSUME SweepAssumption, SweepTypes, Judging("calibrate"), number \in 1..3, ButtonsInv,
         NEW r \in Singles
  PROVE  /\ r.ret = "button" \/ r = Noise
         /\ \/ r = Noise
            \/ \E i \in DOMAIN cal : cal[i] = Noise
            \/ r = Calibration[number] /\ outbox = <<>>
PROOF
<1>1. at = "judge"
  BY DEF Judging
<1>2. CASE r = Noise
  BY <1>2
<1>3. ASSUME r # Noise PROVE /\ r.ret = "button"
                             /\ \/ \E i \in DOMAIN cal : cal[i] = Noise
                                \/ r = Calibration[number] /\ outbox = <<>>
  <2>1. PICK i \in DOMAIN candidates : r = candidates[i]
    BY <1>3, SingleAnswer
  <2>2. i \in 1 .. Len(candidates) /\ r = Stream[i] /\ i \in DOMAIN Stream
    BY <1>1, <2>1, Streamed
  <2>3. CASE \E k \in DOMAIN cal : cal[k] = Noise
    BY <2>2, <2>3 DEF ButtonsInv
  <2>4. CASE ~\E k \in DOMAIN cal : cal[k] = Noise
    <3>1. Stream = <<Calibration[number]>>
      <4>1. Stream # <<>>
        BY <2>2
      <4> QED
        BY <2>4, <4>1 DEF ButtonsInv
    <3>2. Len(Stream) = 1 /\ Stream[1] = Calibration[number]
      BY <3>1
    <3>3. i = 1 /\ Len(outbox) = 0
      BY <1>1, <2>2, <3>2, Streamed
    <3> QED
      BY <1>1, <2>2, <3>2, <3>3, Streamed DEF ButtonsInv
  <2> QED
    BY <2>3, <2>4
<1> QED
  BY <1>2, <1>3

(* A pick of an encoder's record leaves nothing behind.                      *)
LEMMA TurnPicked ==
  ASSUME SweepAssumption, SweepTypes, Judging("calibrate"), number \in 5..7, TurnsPipe,
         NEW r \in Singles, r.ret = "encoder"
  PROVE  r = Calibration[number] /\ outbox = <<>> /\ kept["encoders"] = <<>>
PROOF
<1>1. at = "judge" /\ Noise.ret # "encoder"
  BY DEF Judging, Noise
<1>2. PICK i \in DOMAIN candidates : r = candidates[i]
  BY <1>1, SingleAnswer
<1>3. i \in 1 .. Len(candidates) /\ r = Stream[i] /\ i \in DOMAIN Stream
  BY <1>1, <1>2, Streamed
<1> DEFINE d == Calibration[Drained]
           q == Calibration[number]
<1>4. d.ret = "button"
  BY CalibrationKinds
<1>5. at # "inject" /\ LateDrain \subseteq {<<>>, <<d>>}
  BY <1>1 DEF LateDrain
<1>6. \/ kept["encoders"] = <<>> /\ \E late \in LateDrain :
           Stream = late \/ Stream = Append(late, q)
      \/ Stream \in LateDrain
  BY <1>5 DEF TurnsPipe
<1> HIDE DEF d, q
<1>7. Stream # <<>> /\ Stream # <<d>>
  <2>1. Stream = <<d>> => Stream[i] = d
    BY <1>3
  <2> QED
    BY <1>3, <1>4, <2>1
<1>8. kept["encoders"] = <<>> /\ \E late \in {<<>>, <<d>>} : Stream = Append(late, q)
  BY <1>5, <1>6, <1>7
<1>9. Stream[i] = q /\ i = Len(Stream)
  <2>1. d \in Event /\ q \in Event
    BY DEF d, q, Drained, Calibration, Event, ButtonEvent, EncoderEvent
  <2>2. CASE Stream = Append(<<>>, q)
    <3>1. Len(Stream) = 1 /\ Stream[1] = q
      BY <2>2
    <3> QED
      BY <1>3, <3>1
  <2>3. CASE Stream = Append(<<d>>, q)
    <3>1. Len(Stream) = 2 /\ Stream[1] = d /\ Stream[2] = q
      BY <2>1, <2>3
    <3>2. i \in 1..2 /\ i # 1
      BY <1>3, <1>4, <3>1
    <3> QED
      BY <3>1, <3>2
  <2> QED
    BY <1>8, <2>2, <2>3
<1>10. Len(outbox) = 0
  BY <1>1, <1>3, <1>9, Streamed
<1> QED
  BY <1>1, <1>3, <1>8, <1>9, <1>10, Streamed DEF q

(* Calibration goes on only with right records, and ends with nothing left   *)
(* on its way.                                                               *)
LEMMA CalJudge ==
  ASSUME SweepAssumption, SweepTypes, CalInv, Calibrate
  PROVE  /\ CalInv'
         /\ stage' \in {"calibrate", "sign", "fatal"}
         /\ stage' = "sign" => /\ number' = 1 /\ at' = "inject" /\ outbox' = <<>>
                               /\ kept'["encoders"] = <<>>
                               /\ ButtonCaller' = "button" /\ EncoderCaller' = "encoder"
PROOF
<1>1. /\ Judging("calibrate") /\ stage = "calibrate" /\ at = "judge" /\ Asking
      /\ number \in 1..7 /\ Asks(stage) = 7
      /\ UNCHANGED <<seen, rows, byCode, candidates, outbox, kept>>
  BY DEF Calibrate, Judging, window, firmware, SweepTypes, Asks, Asking, After
<1>2. /\ kept["special"] = <<>> /\ seen = <<>> /\ rows = <<>> /\ byCode = <<>>
      /\ Len(cal) = IF number <= 4 THEN number - 1 ELSE number - 2
      /\ IF number <= 4 THEN ButtonsInv ELSE TurnsInv
  BY <1>1 DEF CalInv, Drained
<1>3. \/ Fail /\ stage' = "fatal"
      \/ /\ number = 4 /\ cal' = cal /\ ButtonsAgree(cal) /\ Proceed
      \/ /\ number # 4 /\ Proceed /\ (number = 7 => EncodersAgree(cal'))
         /\ \E r \in Singles : cal' = Append(cal, r)
  <2>1. Fail => stage' = "fatal"
    BY DEF Fail
  <2>2. Drained = 4 /\ Asks("calibrate") = 7
    BY DEF Drained, Asks
  <2> QED
    BY <2>1, <2>2 DEF Calibrate, Accepted
<1>4. Proceed => /\ at' = "inject"
                 /\ number < 7 => number' = number + 1 /\ stage' = "calibrate"
                 /\ number = 7 => number' = 1 /\ stage' = "sign"
  BY <1>1 DEF Proceed, After
<1>5. at' = "inject" => Stream' = outbox
  BY <1>1 DEF Stream
<1>6. cal \in Seq(Event \cup {Noise}) /\ Noise.ret = "redraw"
  BY DEF SweepTypes, Noise
<1>7. CASE stage' = "fatal"
  BY <1>7 DEF CalInv
<1>8. ASSUME number \in 1..3, Proceed, NEW r \in Singles, cal' = Append(cal, r)
      PROVE  CalInv' /\ stage' = "calibrate"
  <2>1. ButtonsInv /\ Len(cal) = number - 1
    BY <1>2, <1>8
  <2>2. /\ r.ret = "button" \/ r = Noise
        /\ \/ r = Noise
           \/ \E i \in DOMAIN cal : cal[i] = Noise
           \/ r = Calibration[number] /\ outbox = <<>>
    BY <1>1, <1>8, <2>1, ButtonPicked
  <2>3. r \in Event \cup {Noise}
    BY SingleAnswer DEF SweepTypes
  <2>4. /\ Len(cal') = number /\ DOMAIN cal' = 1..number /\ cal'[number] = r
        /\ DOMAIN cal = 1 .. number - 1
        /\ \A i \in 1 .. number - 1 : cal'[i] = cal[i]
    BY <1>6, <1>8, <2>1, <2>3
  <2>5. /\ number' = number + 1 /\ number' <= 4 /\ stage' = "calibrate" /\ Stream' = outbox
        /\ at' = "inject"
    BY <1>4, <1>5, <1>8
  <2>6. \A i \in DOMAIN outbox : outbox[i].ret = "button"
    <3> SUFFICES ASSUME NEW i \in DOMAIN outbox PROVE outbox[i].ret = "button"
      OBVIOUS
    <3>1. /\ DOMAIN Stream = 1 .. Len(candidates) + Len(outbox) /\ i \in 1 .. Len(outbox)
          /\ Len(candidates) \in Nat /\ Len(outbox) \in Nat
          /\ Stream[Len(candidates) + i] = outbox[i]
      BY <1>1, Streamed
    <3>2. Len(candidates) + i \in DOMAIN Stream
      BY <3>1
    <3> QED
      BY <2>1, <3>1, <3>2 DEF ButtonsInv
  <2>7. \A i \in DOMAIN cal' : cal'[i].ret = "button" \/ cal'[i] = Noise
    <3> SUFFICES ASSUME NEW i \in 1..number PROVE cal'[i].ret = "button" \/ cal'[i] = Noise
      BY <2>4
    <3>1. CASE i = number
      BY <2>2, <2>4, <3>1
    <3>2. CASE i # number
      <4>1. i \in 1 .. number - 1
        BY <1>8, <3>2
      <4> QED
        BY <2>1, <2>4, <4>1 DEF ButtonsInv
    <3> QED
      BY <3>1, <3>2
  <2>8. \/ \E i \in DOMAIN cal' : cal'[i] = Noise
        \/ (\A i \in DOMAIN cal' : cal'[i] = Picks[i]) /\ outbox = <<>>
    <3>1. CASE r = Noise
      BY <1>8, <2>4, <3>1
    <3>2. CASE \E i \in DOMAIN cal : cal[i] = Noise
      BY <1>8, <2>4, <3>2
    <3>3. CASE /\ r = Calibration[number] /\ outbox = <<>>
               /\ ~\E i \in DOMAIN cal : cal[i] = Noise
      <4>1. r = Picks[number]
        BY <1>8, <3>3, CalibrationKinds
      <4>2. \A i \in 1 .. number - 1 : cal[i] = Picks[i]
        BY <2>1, <2>4, <3>3 DEF ButtonsInv
      <4>3. \A i \in 1..number : i = number \/ i \in 1 .. number - 1
        BY <1>8
      <4> QED
        BY <2>4, <3>3, <4>1, <4>2, <4>3
    <3> QED
      BY <2>2, <3>1, <3>2, <3>3
  <2>9. ButtonsInv'
    BY <1>1, <1>2, <2>1, <2>5, <2>6, <2>7, <2>8 DEF ButtonsInv, Picks
  <2> QED
    BY <1>1, <1>2, <1>8, <2>4, <2>5, <2>9 DEF CalInv, Drained
<1>9. ASSUME number = 4, cal' = cal, ButtonsAgree(cal), Proceed
      PROVE  CalInv' /\ stage' = "calibrate"
  <2>1. ButtonsInv /\ Len(cal) = 3 /\ DOMAIN cal = 1..3
    BY <1>2, <1>6, <1>9
  <2>2. \A i \in DOMAIN cal : cal[i] # Noise
    <3>1. /\ cal[2].ret = cal[1].ret /\ cal[3].ret = cal[1].ret
          /\ DiffersIn(cal[1], cal[2], "value")
      BY <1>9 DEF ButtonsAgree
    <3>2. cal[1] # cal[2]
      BY <3>1 DEF DiffersIn
    <3>3. \A i \in 1..3 : cal[i].ret = "button" \/ cal[i] = Noise
      BY <2>1 DEF ButtonsInv
    <3>4. "button" # "redraw"
      OBVIOUS
    <3>5. 1 \in 1..3 /\ 2 \in 1..3 /\ 3 \in 1..3
      OBVIOUS
    <3>6. cal[1] # Noise /\ cal[2] # Noise /\ cal[3] # Noise
      BY <1>6, <3>1, <3>2, <3>3, <3>4, <3>5, Zenon
    <3> QED
      BY <2>1, <3>6
  <2>3. (\A i \in 1..3 : cal[i] = Picks[i]) /\ (Stream = <<>> \/ Stream = <<Calibration[4]>>)
    BY <1>1, <1>9, <2>1, <2>2 DEF ButtonsInv
  <2>4. number' = 5 /\ stage' = "calibrate" /\ at' = "inject" /\ Stream' = outbox
    BY <1>4, <1>5, <1>9
  <2>5. outbox \in {<<>>, <<Calibration[4]>>}
    <3>1. CASE Len(candidates) = 0
      BY <1>1, <2>3, <3>1, Streamed
    <3>2. CASE Len(candidates) # 0
      <4>1. Len(Stream) <= 1
        BY <2>3, SMTT(30)
      <4> QED
        BY <1>1, <3>2, <4>1, Streamed
    <3> QED
      BY <3>1, <3>2
  <2>6. TurnsInv'
    <3>1. kept'["encoders"] = <<>>
      BY <1>1, <2>1 DEF ButtonsInv
    <3>2. Stream' \in LateDrain'
      BY <2>4, <2>5 DEF LateDrain, Drained
    <3>3. TurnsPipe'
      BY <2>4, <3>1, <3>2 DEF TurnsPipe
    <3>4. \A i \in 4 .. Len(cal) : FALSE
      BY <2>1
    <3> QED
      BY <1>9, <2>3, <3>3, <3>4 DEF TurnsInv, Picks
  <2> QED
    BY <1>1, <1>2, <1>9, <2>1, <2>4, <2>6 DEF CalInv, Drained
<1>10. ASSUME number \in 5..7, Proceed, NEW r \in Singles, cal' = Append(cal, r)
       PROVE  /\ \A i \in 1..3 : cal'[i] = Picks[i]
              /\ Len(cal') = number - 1
              /\ \/ \E i \in 4 .. Len(cal') : cal'[i].ret # "encoder"
                 \/ /\ \A i \in 4 .. Len(cal') : cal'[i] = Picks[i]
                    /\ outbox = <<>> /\ kept["encoders"] = <<>>
  <2>1. TurnsInv /\ Len(cal) = number - 2
    BY <1>2, <1>10
  <2>2. r \in Event \cup {Noise}
    BY SingleAnswer DEF SweepTypes
  <2>3. /\ Len(cal') = number - 1 /\ cal'[number - 1] = r
        /\ \A i \in 1 .. number - 2 : cal'[i] = cal[i]
    BY <1>6, <1>10, <2>1, <2>2
  <2>4. \A i \in 1..3 : cal'[i] = Picks[i]
    BY <1>10, <2>1, <2>3 DEF TurnsInv
  <2>5. CASE \E i \in 4 .. Len(cal) : cal[i].ret # "encoder"
    <3>1. PICK i \in 4 .. number - 2 : cal[i].ret # "encoder"
      BY <2>1, <2>5
    <3>2. i \in 4 .. Len(cal') /\ cal'[i] = cal[i]
      BY <1>10, <2>3, <3>1
    <3> QED
      BY <2>3, <2>4, <3>1, <3>2
  <2>6. CASE (\A i \in 4 .. Len(cal) : cal[i] = Picks[i]) /\ TurnsPipe
    <3>1. CASE r.ret # "encoder"
      <4>1. number - 1 \in 4 .. Len(cal')
        BY <1>10, <2>3
      <4> QED
        BY <2>3, <2>4, <3>1, <4>1
    <3>2. CASE r.ret = "encoder"
      <4>1. r = Calibration[number] /\ outbox = <<>> /\ kept["encoders"] = <<>>
        BY <1>1, <1>10, <2>6, <3>2, TurnPicked
      <4>2. Picks[number - 1] = Calibration[number]
        <5>1. number - 1 \in 4..6 /\ (number - 1) + 1 = number
          BY <1>10
        <5> QED
          BY <5>1, CalibrationKinds
      <4>3. ASSUME NEW i \in 4 .. number - 1 PROVE cal'[i] = Picks[i]
        <5>1. CASE i = number - 1
          BY <2>3, <4>1, <4>2, <5>1
        <5>2. CASE i # number - 1
          <6>1. i \in 4 .. number - 2 /\ i \in 1 .. number - 2
            BY <1>10, <5>2
          <6> QED
            BY <2>1, <2>3, <2>6, <6>1
        <5> QED
          BY <5>1, <5>2
      <4> QED
        BY <2>3, <2>4, <4>1, <4>3
    <3> QED
      BY <3>1, <3>2
  <2> QED
    BY <2>1, <2>5, <2>6 DEF TurnsInv
<1>11. ASSUME number \in 5..6, Proceed, NEW r \in Singles, cal' = Append(cal, r)
       PROVE  CalInv' /\ stage' = "calibrate"
  <2>1. number' = number + 1 /\ stage' = "calibrate" /\ at' = "inject" /\ Stream' = outbox
    BY <1>4, <1>5, <1>11
  <2>2. number \in 5..7
    BY <1>11
  <2>3. outbox = <<>> /\ kept["encoders"] = <<>> => TurnsPipe'
    BY <1>1, <2>1 DEF TurnsPipe, LateDrain
  <2>4. TurnsInv' /\ Len(cal') = number - 1
    BY <1>10, <1>11, <2>2, <2>3 DEF TurnsInv, Picks
  <2> QED
    BY <1>1, <1>2, <1>11, <2>1, <2>4 DEF CalInv, Drained
<1>12. ASSUME number = 7, Proceed, EncodersAgree(cal'), NEW r \in Singles, cal' = Append(cal, r)
       PROVE  /\ CalInv' /\ stage' = "sign" /\ number' = 1 /\ at' = "inject" /\ outbox' = <<>>
              /\ kept'["encoders"] = <<>>
              /\ ButtonCaller' = "button" /\ EncoderCaller' = "encoder"
  <2>1. number' = 1 /\ stage' = "sign" /\ at' = "inject"
    BY <1>4, <1>12
  <2>2. number \in 5..7
    BY <1>12
  <2>3. /\ \A i \in 1..3 : cal'[i] = Picks[i]
        /\ Len(cal') = 6
        /\ \/ \E i \in 4..6 : cal'[i].ret # "encoder"
           \/ /\ \A i \in 4..6 : cal'[i] = Picks[i]
              /\ outbox = <<>> /\ kept["encoders"] = <<>>
    BY <1>10, <1>12, <2>2
  <2>4. Picks[1].ret = "button" /\ Picks[4].ret = "encoder"
    <3>1. 1 \in 1..4 /\ 1 \in 1..3 /\ 4 \in 4..6 /\ 4 + 1 \in 5..7
      OBVIOUS
    <3> QED
      BY <3>1, CalibrationKinds
  <2>5. cal'[1].ret = "button"
    BY <2>3, <2>4
  <2>6. \A i \in 4..6 : cal'[i].ret = "encoder"
    <3>1. /\ cal'[5].ret = cal'[4].ret /\ cal'[6].ret = cal'[4].ret
          /\ DiffersIn(cal'[4], cal'[5], "value") /\ cal'[1].ret # cal'[4].ret
      BY <1>12 DEF EncodersAgree
    <3>2. cal'[4] # cal'[5]
      BY <3>1 DEF DiffersIn
    <3>3. r \in Event \cup {Noise}
      BY SingleAnswer DEF SweepTypes
    <3>4. cal' \in Seq(Event \cup {Noise})
      BY <1>6, <1>12, <3>3
    <3>5. cal'[4] \in Event \cup {Noise} /\ cal'[5] \in Event \cup {Noise}
      <4>1. 4 \in 1 .. Len(cal') /\ 5 \in 1 .. Len(cal')
        BY <2>3
      <4> QED
        BY <3>4, <4>1, ElementOfSeq
    <3>6. \A e \in Event : e.ret = "button" \/ e.ret = "encoder"
      BY DEF Event
    <3>7. cal'[4].ret \in {"button", "encoder"} \/ cal'[4] = Noise
      BY <3>5, <3>6
    <3>8. cal'[5].ret \in {"button", "encoder"} \/ cal'[5] = Noise
      BY <3>5, <3>6
    <3>9. cal'[4].ret = "encoder"
      BY <1>6, <2>5, <3>1, <3>2, <3>7, <3>8
    <3> QED
      BY <3>1, <3>9
  <2>7. outbox = <<>> /\ kept["encoders"] = <<>> /\ \A i \in 4..6 : cal'[i] = Picks[i]
    BY <2>3, <2>6
  <2>8. EncoderCaller' = "encoder" /\ ButtonCaller' = "button"
    BY <2>4, <2>5, <2>7 DEF EncoderCaller, ButtonCaller
  <2> QED
    BY <1>1, <1>2, <1>12, <2>1, <2>7, <2>8 DEF CalInv
<1>13. number \in 1..3 \/ number = 4 \/ number \in 5..6 \/ number = 7
  BY <1>1
<1>14. CASE Fail
  BY <1>7, <1>14 DEF Fail
<1>15. CASE number = 4 /\ cal' = cal /\ ButtonsAgree(cal) /\ Proceed
  BY <1>9, <1>15
<1>16. CASE /\ number # 4 /\ Proceed /\ (number = 7 => EncodersAgree(cal'))
            /\ \E r \in Singles : cal' = Append(cal, r)
  <2>1. PICK r \in Singles : cal' = Append(cal, r)
    BY <1>16
  <2>2. CASE number \in 1..3
    BY <1>8, <1>16, <2>1, <2>2
  <2>3. CASE number \in 5..6
    BY <1>11, <1>16, <2>1, <2>3
  <2>4. CASE number = 7
    BY <1>12, <1>16, <2>1, <2>4
  <2> QED
    BY <1>13, <1>16, <2>2, <2>3, <2>4
<1> QED
  BY <1>3, <1>14, <1>15, <1>16

(* Where judging a window after calibration leads.                           *)
LEMMA StageAfter ==
  ASSUME SweepTypes
  PROVE  /\ SignCheck => stage = "sign" /\ stage' \in {"sign", "buttons"}
         /\ SweepButton => stage = "buttons" /\ stage' \in {"buttons", "encoders"}
         /\ SweepEncoder => stage = "encoders" /\ stage' \in {"encoders", "flush", "done"}
         /\ FlushEncoder => stage = "flush" /\ stage' \in {"flush", "done"}
PROOF
<1>1. SignCheck => stage = "sign" /\ stage' \in {"sign", "buttons"}
  BY DEF SignCheck, Judging, Proceed, After
<1>2. SweepButton => stage = "buttons" /\ stage' \in {"buttons", "encoders"}
  BY DEF SweepButton, Judging, Proceed, After
<1>3. SweepEncoder => stage = "encoders" /\ stage' \in {"encoders", "flush", "done"}
  BY DEF SweepEncoder, Judging, Proceed, Finish, After
<1>4. FlushEncoder => stage = "flush" /\ stage' \in {"flush", "done"}
  BY DEF FlushEncoder, Judging, Proceed, Finish, After
<1> QED
  BY <1>1, <1>2, <1>3, <1>4

(* Calibration passes with both callers, or with a wrong record that it will *)
(* notice: every step keeps this.                                            *)
LEMMA CalNext ==
  SweepAssumption /\ SweepTypes /\ CalInv /\ CalibrationRight /\ [SweepNext]_sweepVars
    => CalInv' /\ CalibrationRight'
PROOF
<1> SUFFICES ASSUME SweepAssumption, SweepTypes, CalInv, CalibrationRight,
                    [SweepNext]_sweepVars
             PROVE  CalInv' /\ CalibrationRight'
  OBVIOUS
<1>1. CASE Inject
  <2>1. UNCHANGED <<stage, cal>>
    BY <1>1, Injected DEF report
  <2> QED
    BY <1>1, <2>1, CalInject DEF CalibrationRight, ButtonCaller, EncoderCaller
<1>2. CASE Chunk \/ Crash \/ WaitCrashed
  <2>1. /\ at # "inject" /\ at' # "inject" /\ Stream' = Stream
        /\ UNCHANGED <<stage, number, cal, seen, rows, byCode, kept>>
    BY <1>2, Waited DEF report
  <2>2. CalibrationRight'
    BY <2>1 DEF CalibrationRight, ButtonCaller, EncoderCaller
  <2>3. ButtonsInv => ButtonsInv'
    BY <2>1 DEF ButtonsInv, Picks
  <2>4. TurnsInv => TurnsInv'
    <3>1. TurnsPipe => TurnsPipe'
      BY <2>1 DEF TurnsPipe, LateDrain
    <3> QED
      BY <2>1, <3>1 DEF TurnsInv, Picks
  <2> QED
    BY <2>1, <2>2, <2>3, <2>4 DEF CalInv
<1>3. CASE Calibrate
  BY <1>3, CalJudge DEF CalibrationRight
<1>4. CASE SignCheck
  <2>1. stage = "sign" /\ stage' \in {"sign", "buttons"} /\ UNCHANGED <<kept, cal, rows, byCode>>
    BY <1>4, StageAfter DEF SignCheck, firmware
  <2> QED
    BY <2>1 DEF CalInv, CalibrationRight, ButtonCaller, EncoderCaller
<1>5. CASE SweepButton \/ SweepEncoder \/ FlushEncoder
  <2>1. /\ stage \in {"buttons", "encoders", "flush"} /\ cal' = cal
        /\ stage' \in {"buttons", "encoders", "flush", "done"}
        /\ stage' = "buttons" => byCode' = byCode /\ stage = "buttons"
    BY <1>5, StageAfter DEF SweepButton, SweepEncoder, FlushEncoder
  <2> QED
    BY <2>1 DEF CalInv, CalibrationRight, ButtonCaller, EncoderCaller
<1>6. CASE UNCHANGED sweepVars
  <2>1. UNCHANGED <<stage, number, at, candidates, outbox, kept, cal, seen, rows, byCode>>
    BY <1>6 DEF sweepVars, window, firmware, report
  <2>2. Stream' = Stream
    BY <2>1 DEF Stream
  <2>3. ButtonsInv' = ButtonsInv
    BY <2>1, <2>2 DEF ButtonsInv, Picks
  <2>4. TurnsInv' = TurnsInv
    BY <2>1, <2>2 DEF TurnsInv, TurnsPipe, LateDrain, Picks
  <2> QED
    BY <2>1, <2>3, <2>4 DEF CalInv, CalibrationRight, ButtonCaller, EncoderCaller
<1> QED
  BY <1>1, <1>2, <1>3, <1>4, <1>5, <1>6 DEF SweepNext

-----------------------------------------------------------------------------
(* The encoders.  A turn flushes what was kept of the one before, so a       *)
(* window holds at most a button's late record, the turn before, and its     *)
(* own.                                                                      *)
LEMMA EncInject ==
  ASSUME SweepAssumption, SweepTypes, Inject, Turning, ~crashed, EncWaiting
  PROVE  \E b \in 0..2 : EncWindow(b)'
PROOF
<1>1. /\ Asking /\ at = "inject" /\ Stream' = outbox'
      /\ UNCHANGED <<stage, number, cal, seen, rows, byCode>>
  BY Injected DEF report
<1>2. Question' = Question /\ Earlier' = Earlier /\ Missing' = Missing
  BY <1>1 DEF Question, Earlier, Missing, Key, Edge
<1> DEFINE k == kept["encoders"]
           q == Question
           s == outbox \o k
<1>3. q.ret = "encoder" /\ q \in Event /\ Kind(q) = "encoders"
  <2>1. q.ret = "encoder"
    BY <1>1, Asked DEF Turning, EncoderEvent
  <2> QED
    BY <1>1, <2>1, Asked DEF Kind
<1>4. \A p \in Earlier : p.ret = "encoder"
  BY DEF Earlier, EncoderEvent
<1>5. outbox \in Seq(Event) /\ k \in Seq(Event) /\ kept \in [{"encoders", "special"} -> Seq(Event)]
  BY DEF SweepTypes
<1>6. /\ k # <<>> => \E p \in Earlier : k = <<p>>
      /\ Len(outbox) <= 1
      /\ outbox # <<>> => \/ outbox[1] \in Earlier /\ k = <<>>
                          \/ outbox[1].ret = "button" /\ number = 1
      /\ Missing => \E p \in Earlier : k = <<p>> \/ outbox = <<p>>
  BY DEF EncWaiting
<1>7. \/ kept'["encoders"] = <<>> /\ outbox' = Append(s, q)
      \/ kept'["encoders"] = <<q>> /\ outbox' = s
  <2>1. "encoders" # "direct"
    OBVIOUS
  <2> QED
    BY <1>3, <1>5, <2>1, Injected
<1> HIDE DEF k, q, s
<1>8. /\ s \in Seq(Event) /\ Len(s) = Len(outbox) + Len(k)
      /\ \A i \in 1 .. Len(outbox) : s[i] = outbox[i]
      /\ \A i \in 1 .. Len(k) : s[Len(outbox) + i] = k[i]
      /\ Len(outbox) \in Nat /\ Len(k) \in Nat
  BY <1>5 DEF s
<1>9. /\ Len(k) \in {0, 1} /\ (Len(k) = 1 => k[1] \in Earlier)
      /\ Len(outbox) \in {0, 1}
      /\ Len(outbox) = 0 <=> outbox = <<>>
      /\ Len(k) = 0 <=> k = <<>>
  <2>1. Len(k) = 0 <=> k = <<>>
    BY <1>5, EmptySeq
  <2>2. Len(outbox) = 0 <=> outbox = <<>>
    BY <1>5, EmptySeq
  <2>3. k # <<>> => Len(k) = 1 /\ k[1] \in Earlier
    BY <1>6
  <2>4. Len(outbox) \in {0, 1}
    <3>1. Len(outbox) \in Nat
      BY <1>8
    <3>2. Len(outbox) <= 1
      BY <1>6
    <3>3. \A n \in Nat : n <= 1 => n \in {0, 1}
      OBVIOUS
    <3> QED
      BY <3>1, <3>2, <3>3, Zenon
  <2>5. Len(k) \in {0, 1} /\ (Len(k) = 1 => k[1] \in Earlier)
    <3>1. CASE Len(k) = 0
      BY <3>1
    <3>2. CASE Len(k) # 0
      BY <2>1, <2>3, <3>2
    <3> QED
      BY <3>1, <3>2
  <2> QED
    BY <2>1, <2>2, <2>4, <2>5
<1>10. Len(s) \in 0..2
  BY <1>8, <1>9
<1>11. /\ \A i \in 1 .. Len(s) : s[i] \in Earlier \/ (s[i].ret = "button" /\ number = 1)
       /\ Len(s) = 2 => s[1].ret = "button"
       /\ Missing => Len(s) > 0 /\ s[Len(s)] \in Earlier
  <2>1. CASE Len(outbox) = 0
    <3>1. Len(s) = Len(k) /\ \A i \in 1 .. Len(k) : s[i] = k[i]
      BY <1>8, <2>1
    <3>2. Missing => Len(k) = 1
      BY <1>6, <1>9, <2>1
    <3> QED
      BY <1>9, <3>1, <3>2
  <2>2. CASE Len(outbox) = 1 /\ Len(k) = 0
    <3>1. Len(s) = 1 /\ s[1] = outbox[1]
      BY <1>8, <2>2
    <3>2. outbox[1] \in Earlier \/ (outbox[1].ret = "button" /\ number = 1)
      BY <1>6, <1>9, <2>2
    <3>3. Missing => outbox[1] \in Earlier
      BY <1>6, <1>9, <2>2
    <3> QED
      BY <3>1, <3>2, <3>3
  <2>3. CASE Len(outbox) = 1 /\ Len(k) = 1
    <3>1. Len(s) = 2 /\ s[1] = outbox[1] /\ s[2] = k[1]
      BY <1>8, <2>3
    <3>2. outbox[1].ret = "button" /\ number = 1
      BY <1>6, <1>9, <2>3
    <3> QED
      BY <1>9, <2>3, <3>1, <3>2
  <2> QED
    BY <1>9, <2>1, <2>2, <2>3
<1>12. /\ \/ Len(Stream') = Len(s) + 1 /\ Stream'[Len(s) + 1] = q /\ kept'["encoders"] = <<>>
          \/ Len(Stream') = Len(s) /\ kept'["encoders"] = <<q>>
       /\ \A i \in 1 .. Len(s) : Stream'[i] = s[i]
  <2>1. q \in Event
    BY <1>3
  <2>2. CASE kept'["encoders"] = <<>> /\ outbox' = Append(s, q)
    <3>1. Len(outbox') = Len(s) + 1 /\ outbox'[Len(s) + 1] = q
      <4>1. s \in Seq(Event)
        BY <1>8
      <4> QED
        BY <2>1, <2>2, <4>1, AppendProperties
    <3>2. \A i \in 1 .. Len(s) : outbox'[i] = s[i]
      BY <1>8, <2>1, <2>2
    <3> QED
      BY <1>1, <2>2, <3>1, <3>2
  <2>3. CASE kept'["encoders"] = <<q>> /\ outbox' = s
    BY <1>1, <2>3
  <2> QED
    BY <1>7, <2>2, <2>3
<1>13. \A i \in 1 .. Len(s) : Stream'[i] \in Earlier \/ (Stream'[i].ret = "button" /\ number = 1)
  BY <1>11, <1>12
<1>14. Len(s) = 2 => Stream'[1].ret = "button"
  BY <1>11, <1>12
<1>15. Missing => Len(s) > 0 /\ Stream'[Len(s)] \in Earlier
  BY <1>8, <1>10, <1>11, <1>12
<1>16. PICK b \in 0..2 : b = Len(s)
  BY <1>10
<1>17. /\ \/ Len(Stream') = b + 1 /\ Stream'[b + 1] = q /\ kept'["encoders"] = <<>>
          \/ Len(Stream') = b /\ kept'["encoders"] = <<q>>
       /\ \A i \in 1..b : Stream'[i] \in Earlier \/ (Stream'[i].ret = "button" /\ number = 1)
       /\ b = 2 => Stream'[1].ret = "button"
       /\ Missing => b > 0 /\ Stream'[b] \in Earlier
  BY <1>12, <1>13, <1>14, <1>15, <1>16
<1>18. EncWindow(b)'
  BY <1>1, <1>2, <1>17 DEF EncWindow, q
<1> QED
  BY <1>18

(* A window of an encoder that is judged, of which something was heard or    *)
(* nothing is on its way.                                                    *)
LEMMA EncJudged ==
  ASSUME SweepAssumption, SweepTypes, WaitInv, EncPipe, Turning, ~crashed, at = "judge"
  PROVE  LET own == From(candidates, "encoder")
         IN  /\ \A i \in own : candidates[i] \in Earlier \cup {Question}
             /\ Missing => \E i \in own : candidates[i] \in Earlier
             /\ \/ /\ kept["encoders"] = <<>> /\ outbox = <<>>
                   /\ \E i \in own : candidates[i] = Question
                \/ kept["encoders"] = <<>> /\ outbox = <<Question>>
                \/ kept["encoders"] = <<Question>> /\ outbox = <<>>
             /\ own \subseteq 1..3
PROOF
<1> DEFINE q == Question
           k == kept["encoders"]
           n == Len(candidates)
           m == Len(outbox)
           own == From(candidates, "encoder")
<1>1. Asking
  BY DEF Turning, Asking, After
<1>2. PICK b \in 0..2 : EncWindow(b)
  BY DEF EncPipe
<1>3. q.ret = "encoder"
  BY <1>1, Asked DEF Turning, EncoderEvent
<1>4. \A p \in Earlier : p.ret = "encoder"
  BY DEF Earlier, EncoderEvent
<1>5. /\ n \in Nat /\ m \in Nat /\ Len(Stream) = n + m /\ DOMAIN candidates = 1..n
      /\ \A i \in 1..n : Stream[i] = candidates[i]
      /\ \A i \in 1..m : Stream[n + i] = outbox[i]
      /\ m = 0 => outbox = <<>>
  BY Streamed
<1>6. own = {i \in 1..n : Stream[i].ret = "encoder"}
  BY <1>5 DEF From
<1>7. m = 0 \/ own # {}
  <2>1. outbox = <<>> => m = 0
    BY <1>5
  <2>2. outbox = <<>> \/ Heard
    BY <1>1 DEF WaitInv
  <2>3. Heard => own # {}
    BY DEF Heard, Turning
  <2> QED
    BY <2>1, <2>2, <2>3
<1>8. /\ \/ Len(Stream) = b + 1 /\ Stream[b + 1] = q /\ k = <<>>
         \/ Len(Stream) = b /\ k = <<q>>
      /\ \A i \in 1..b : Stream[i] \in Earlier \/ (Stream[i].ret = "button" /\ number = 1)
      /\ b = 2 => Stream[1].ret = "button"
      /\ Missing => b > 0 /\ Stream[b] \in Earlier
  BY <1>2 DEF EncWindow
<1>9. outbox \in Seq(Event)
  BY DEF SweepTypes
<1> HIDE DEF q, k, n, m, own
<1>10. m > 0 => n >= 1 /\ (b = 2 => n >= 2)
  <2>1. ASSUME m > 0 PROVE n >= 1 /\ (b = 2 => n >= 2)
    <3>1. PICK i \in 1..n : Stream[i].ret = "encoder"
      BY <1>5, <1>6, <1>7, <2>1
    <3>2. b = 2 => i # 1
      BY <1>8, <3>1
    <3> QED
      BY <1>5, <3>1, <3>2
  <2> QED
    BY <2>1
<1>11. \/ k = <<>> /\ n = b + 1 /\ m = 0 /\ Stream[n] = q
       \/ k = <<>> /\ n = b /\ m = 1 /\ Stream[n + 1] = q
       \/ k = <<q>> /\ n = b /\ m = 0
  <2>1. CASE Len(Stream) = b + 1 /\ Stream[b + 1] = q /\ k = <<>>
    <3>1. n + m = b + 1
      BY <1>5, <2>1
    <3>2. m = 0 => n = b + 1
      BY <1>5, <3>1
    <3>3. m > 0 => m = 1 /\ n = b
      BY <1>5, <1>10, <3>1
    <3>4. m = 0 \/ m > 0
      BY <1>5
    <3> QED
      BY <2>1, <3>2, <3>3, <3>4
  <2>2. CASE Len(Stream) = b /\ k = <<q>>
    <3>1. n + m = b
      BY <1>5, <2>2
    <3>2. m = 0
      BY <1>5, <1>10, <3>1
    <3> QED
      BY <1>5, <2>2, <3>1, <3>2
  <2> QED
    BY <1>8, <2>1, <2>2
<1>12. n >= b /\ n \in 0..3 /\ (n = b \/ (n = b + 1 /\ Stream[n] = q))
  BY <1>5, <1>11
<1>13. \A i \in own : i \in 1..n /\ candidates[i] = Stream[i] /\ Stream[i].ret = "encoder"
  BY <1>5, <1>6
<1>14. ASSUME NEW i \in own PROVE candidates[i] \in Earlier \cup {q}
  <2>1. i \in 1..b \/ (i = n /\ Stream[n] = q)
    BY <1>12, <1>13
  <2>2. CASE i \in 1..b
    BY <1>8, <1>13, <2>2
  <2>3. CASE i = n /\ Stream[n] = q
    BY <1>13, <2>3
  <2> QED
    BY <2>1, <2>2, <2>3
<1>15. Missing => \E i \in own : candidates[i] \in Earlier
  <2>1. ASSUME Missing PROVE b \in own /\ candidates[b] \in Earlier
    <3>1. b > 0 /\ Stream[b] \in Earlier /\ Stream[b].ret = "encoder"
      BY <1>4, <1>8, <2>1
    <3>2. b \in 1..n
      BY <1>12, <3>1
    <3> QED
      BY <1>5, <1>6, <3>1, <3>2
  <2> QED
    BY <2>1
<1>16. \/ k = <<>> /\ outbox = <<>> /\ \E i \in own : candidates[i] = q
       \/ k = <<>> /\ outbox = <<q>>
       \/ k = <<q>> /\ outbox = <<>>
  <2>1. CASE k = <<>> /\ n = b + 1 /\ m = 0 /\ Stream[n] = q
    <3>1. n \in 1..n
      BY <1>5, <2>1
    <3>2. n \in own /\ candidates[n] = q
      BY <1>3, <1>5, <1>6, <2>1, <3>1 DEF q
    <3> QED
      BY <1>5, <2>1, <3>2
  <2>2. CASE k = <<>> /\ n = b /\ m = 1 /\ Stream[n + 1] = q
    <3>1. Len(outbox) = 1 /\ outbox[1] = q
      BY <1>5, <2>2 DEF m
    <3>2. outbox = <<q>>
      BY <1>9, <3>1
    <3> QED
      BY <2>2, <3>2
  <2>3. CASE k = <<q>> /\ n = b /\ m = 0
    BY <1>5, <2>3
  <2> QED
    BY <1>11, <2>1, <2>2, <2>3
<1>17. own \subseteq 1..3
  BY <1>12, <1>13
<1> QED
  BY <1>14, <1>15, <1>16, <1>17 DEF q, k, own

(* Refile: nothing filed is lost, what was heard is filed, and nothing else.   *)
LEMMA RefileKeeps ==
  ASSUME NEW map, NEW field, NEW own \in SUBSET (1..3)
  PROVE  LET new == Refile(map, own, field)
         IN  /\ DOMAIN map \subseteq DOMAIN new
             /\ \A i \in own : candidates[i][field] \in DOMAIN new
             /\ \A k \in DOMAIN new : \/ k \in DOMAIN map /\ new[k] = map[k]
                                      \/ \E i \in own : new[k] = candidates[i]
PROOF
<1> DEFINE under(k) == {i \in own : candidates[i][field] = k}
           D == DOMAIN map \cup {candidates[i][field] : i \in own}
           new == Refile(map, own, field)
<1>1. new = [k \in D |-> IF under(k) # {} THEN candidates[Newest(under(k))] ELSE map[k]]
  BY DEF Refile
<1>2. ASSUME NEW S \in SUBSET (1..3), S # {} PROVE Newest(S) \in S
  <2>1. \E i \in S : \A j \in S : j <= i
    <3>1. CASE 3 \in S
      BY <3>1
    <3>2. CASE 3 \notin S /\ 2 \in S
      <4>1. \A j \in S : j <= 2
        BY <3>2
      <4> QED
        BY <3>2, <4>1
    <3>3. CASE 3 \notin S /\ 2 \notin S
      <4>1. \A j \in S : j = 1
        BY <3>3
      <4>2. PICK i \in S : TRUE
        BY <1>2
      <4>3. i = 1 /\ 1 \in S /\ \A j \in S : j <= 1
        BY <4>1
      <4> QED
        BY <4>3
    <3> QED
      BY <3>1, <3>2, <3>3
  <2> QED
    BY <2>1 DEF Newest
<1>3. \A k : under(k) \in SUBSET (1..3)
  OBVIOUS
<1>4. \A k : under(k) # {} => Newest(under(k)) \in own
  <2>1. \A k : under(k) # {} => Newest(under(k)) \in under(k)
    BY <1>2, <1>3
  <2> QED
    BY <2>1
<1>5. DOMAIN new = D
  BY <1>1
<1>6. ASSUME NEW k \in D
      PROVE  \/ k \in DOMAIN map /\ new[k] = map[k]
             \/ \E i \in own : new[k] = candidates[i]
  <2>1. CASE under(k) # {}
    <3>1. new[k] = candidates[Newest(under(k))]
      BY <1>1, <2>1
    <3> QED
      BY <1>4, <2>1, <3>1
  <2>2. CASE under(k) = {}
    <3>1. new[k] = map[k]
      BY <1>1, <2>2
    <3>2. k \in DOMAIN map
      BY <2>2
    <3> QED
      BY <3>1, <3>2
  <2> QED
    BY <2>1, <2>2
<1> QED
  BY <1>5, <1>6

(* Between two questions at most the last one's record is left.              *)
LEMMA Resting ==
  ASSUME NEW q, Earlier' = {q}, UNCHANGED <<kept, outbox>>,
         \/ kept["encoders"] = <<>> /\ outbox = <<>>
         \/ kept["encoders"] = <<>> /\ outbox = <<q>>
         \/ kept["encoders"] = <<q>> /\ outbox = <<>>,
         Missing' => kept["encoders"] = <<q>> \/ outbox = <<q>>
  PROVE  EncWaiting'
PROOF
<1> DEFINE k == kept["encoders"]
           o == outbox
<1>1. k = <<>> \/ k = <<q>>
  OBVIOUS
<1>2. o = <<>> \/ (o = <<q>> /\ k = <<>>)
  OBVIOUS
<1>3. o = <<>> => Len(o) <= 1
  OBVIOUS
<1>4. o = <<q>> => Len(o) <= 1 /\ o[1] = q
  OBVIOUS
<1>5. k # <<>> => \E p \in Earlier' : k = <<p>>
  BY <1>1
<1>6. Len(o) <= 1 /\ (o # <<>> => o[1] \in Earlier' /\ k = <<>>)
  BY <1>2, <1>3, <1>4
<1>7. Missing' => \E p \in Earlier' : k = <<p>> \/ o = <<p>>
  OBVIOUS
<1>8. k' = k /\ o' = o
  OBVIOUS
<1> HIDE DEF k, o
<1>9. /\ k' # <<>> => \E p \in Earlier' : k' = <<p>>
      /\ Len(o') <= 1
      /\ o' # <<>> => \/ o'[1] \in Earlier' /\ k' = <<>>
                      \/ o'[1].ret = "button" /\ number' = 1
      /\ Missing' => \E p \in Earlier' : k' = <<p>> \/ o' = <<p>>
  BY <1>5, <1>6, <1>7, <1>8
<1> QED
  BY <1>9 DEF EncWaiting, k, o

(* The sign check: each step is filed under the step, or is on its way to    *)
(* the next.                                                                 *)
LEMMA SignNext ==
  ASSUME SweepAssumption, SweepTypes, WaitInv, CalInv, CalibrationRight, EncPipe, FiledInv,
         ~crashed, SignCheck
  PROVE  EncPipe' /\ FiledInv'
PROOF
<1>1. /\ stage = "sign" /\ at = "judge" /\ Asking /\ Turning /\ number \in 1..4
      /\ Asks(stage) = 4
  BY DEF SignCheck, Judging, SweepTypes, Asks, Asking, After, Turning
<1>2. EncoderCaller = "encoder"
  BY <1>1 DEF CalibrationRight
<1> DEFINE own == From(candidates, "encoder")
           q == Question
           new == Refile(seen, own, "value")
<1>3. /\ seen' = new /\ UNCHANGED <<byCode, kept, outbox, candidates, crashed>> /\ Proceed
  BY <1>2 DEF SignCheck, window, firmware
<1>4. /\ at' = "inject"
      /\ \/ number < 4 /\ number' = number + 1 /\ stage' = "sign"
         \/ number = 4 /\ number' = 1 /\ stage' = "buttons"
  BY <1>1, <1>3 DEF Proceed, After
<1>5. /\ \A i \in own : candidates[i] \in Earlier \cup {q}
      /\ Missing => \E i \in own : candidates[i] \in Earlier
      /\ \/ kept["encoders"] = <<>> /\ outbox = <<>> /\ \E i \in own : candidates[i] = q
         \/ kept["encoders"] = <<>> /\ outbox = <<q>>
         \/ kept["encoders"] = <<q>> /\ outbox = <<>>
      /\ own \subseteq 1..3
  BY <1>1, EncJudged
<1>6. q = EncoderEvent(EnLo, SignDeltas[number])
  BY <1>1, Asked
<1>7. \A p \in Earlier : number > 1 /\ p = EncoderEvent(EnLo, SignDeltas[number - 1])
  BY <1>1 DEF Earlier
<1>8. \A i \in own : candidates[i].code = EnLo + 1
  BY <1>5, <1>6, <1>7 DEF EncoderEvent
<1> HIDE DEF own, q
<1>9. /\ DOMAIN seen \subseteq DOMAIN new
      /\ \A i \in own : candidates[i].value \in DOMAIN new
      /\ \A k \in DOMAIN new : \/ k \in DOMAIN seen /\ new[k] = seen[k]
                               \/ \E i \in own : new[k] = candidates[i]
  BY <1>5, RefileKeeps
<1> HIDE DEF new
<1>10. \A v \in DOMAIN new : new[v].code = EnLo + 1
  BY <1>1, <1>8, <1>9 DEF FiledInv
<1>11. number > 1 => SignDeltas[number - 1] \in DOMAIN new
  <2>1. CASE ~Missing
    BY <1>1, <1>9, <2>1 DEF Missing
  <2>2. CASE Missing
    <3>1. PICK i \in own : candidates[i] = EncoderEvent(EnLo, SignDeltas[number - 1])
      BY <1>5, <1>7, <2>2
    <3>2. candidates[i].value = SignDeltas[number - 1]
      BY <3>1 DEF EncoderEvent
    <3> QED
      BY <1>9, <3>2
  <2> QED
    BY <2>1, <2>2
<1>12. ASSUME NEW m \in 1 .. number - 1 PROVE SignDeltas[m] \in DOMAIN new
  <2>1. CASE m = number - 1
    BY <1>1, <1>11, <2>1
  <2>2. CASE m # number - 1
    <3>1. m \in 1 .. number - 2
      BY <1>1, <2>2
    <3> QED
      BY <1>1, <1>9, <3>1 DEF FiledInv
  <2> QED
    BY <2>1, <2>2
<1>13. CASE number < 4 /\ number' = number + 1 /\ stage' = "sign"
  <2>1. Earlier' = {q}
    <3>1. number' # 1 /\ number' - 1 = number
      BY <1>1, <1>13
    <3> QED
      BY <1>6, <1>13, <3>1 DEF Earlier, SignDeltas
  <2>2. Missing' => SignDeltas[number] \notin DOMAIN new
    <3>1. number' - 1 = number
      BY <1>1, <1>13
    <3> QED
      BY <1>3, <1>13, <3>1 DEF Missing, SignDeltas
  <2>3. Missing' => kept["encoders"] = <<q>> \/ outbox = <<q>>
    <3>1. ASSUME NEW i \in own, candidates[i] = q PROVE SignDeltas[number] \in DOMAIN new
      <4>1. candidates[i].value = SignDeltas[number]
        BY <1>6, <3>1 DEF EncoderEvent
      <4> QED
        BY <1>9, <4>1
    <3> QED
      BY <1>5, <2>2, <3>1
  <2>4. EncWaiting'
    BY <1>3, <1>5, <2>1, <2>3, Resting
  <2>5. EncPipe'
    BY <1>4, <2>4 DEF EncPipe
  <2>6. \A m \in 1 .. number' - 2 : SignDeltas[m] \in DOMAIN new
    <3>1. number' - 2 = number - 1
      BY <1>1, <1>13
    <3> QED
      BY <1>12, <3>1
  <2>7. FiledInv'
    BY <1>1, <1>3, <1>10, <1>13, <2>6 DEF FiledInv, SignDeltas
  <2> QED
    BY <2>5, <2>7
<1>14. CASE number = 4 /\ number' = 1 /\ stage' = "buttons"
  <2>1. EncPipe'
    BY <1>14 DEF EncPipe, Turning
  <2>2. \A d \in {1, 5, -1} : d \in DOMAIN new
    <3>1. SignDeltas[1] \in DOMAIN new /\ SignDeltas[2] \in DOMAIN new /\ SignDeltas[3] \in DOMAIN new
      BY <1>12, <1>14
    <3> QED
      BY <3>1 DEF SignDeltas
  <2>3. FiledInv'
    BY <1>1, <1>3, <1>10, <1>14, <2>2 DEF FiledInv
  <2> QED
    BY <2>1, <2>3
<1> QED
  BY <1>4, <1>13, <1>14

(* The sweep of the encoders: each turn is filed by its code, or is on its   *)
(* way to the next one.                                                      *)
LEMMA EncoderNext ==
  ASSUME SweepAssumption, SweepTypes, WaitInv, CalibrationRight, EncPipe, FiledInv,
         ~crashed, SweepEncoder
  PROVE  EncPipe' /\ FiledInv'
PROOF
<1>1. /\ stage = "encoders" /\ at = "judge" /\ Asking /\ Turning
      /\ Asks(stage) = EnHi - EnLo + 1 /\ number \in 1 .. EnHi - EnLo + 1
      /\ EnLo \in Nat /\ EnHi \in Nat
  BY DEF SweepEncoder, Judging, SweepTypes, Asks, Asking, After, Turning, SweepAssumption
<1>2. EncoderCaller = "encoder"
  BY <1>1 DEF CalibrationRight
<1> DEFINE own == From(candidates, "encoder")
           q == Question
           new == Refile(byCode, own, "code")
<1>3. /\ byCode' = new /\ UNCHANGED <<seen, kept, outbox, candidates, crashed>>
      /\ IF number = Asks(stage) /\ Expected \subseteq DOMAIN new THEN Finish ELSE Proceed
  BY <1>1, <1>2 DEF SweepEncoder, window, firmware, FiledBy
<1>4. /\ at' = "inject"
      /\ \/ number < EnHi - EnLo + 1 /\ number' = number + 1 /\ stage' = "encoders"
         \/ number = EnHi - EnLo + 1 /\ number' = 1 /\ stage' = "flush"
         \/ stage' = "done" /\ Expected \subseteq DOMAIN new
  <2>1. CASE Finish /\ Expected \subseteq DOMAIN new
    BY <2>1 DEF Finish
  <2>2. CASE Proceed
    BY <1>1, <2>2 DEF Proceed, After
  <2> QED
    BY <1>3, <2>1, <2>2
<1>5. /\ \A i \in own : candidates[i] \in Earlier \cup {q}
      /\ Missing => \E i \in own : candidates[i] \in Earlier
      /\ \/ kept["encoders"] = <<>> /\ outbox = <<>> /\ \E i \in own : candidates[i] = q
         \/ kept["encoders"] = <<>> /\ outbox = <<q>>
         \/ kept["encoders"] = <<q>> /\ outbox = <<>>
      /\ own \subseteq 1..3
  BY <1>1, EncJudged
<1>6. q = EncoderEvent(EnLo + number - 1, 1) /\ q.code = EnLo + number /\ q.value = 1
  <2>1. q = EncoderEvent(EnLo + number - 1, 1)
    BY <1>1, Asked
  <2>2. (EnLo + number - 1) + 1 = EnLo + number
    BY <1>1
  <2> QED
    BY <2>1, <2>2 DEF EncoderEvent
<1>7. \A p \in Earlier : p.value = 1 /\ (number > 1 => p.code = EnLo + number - 1)
  <2>1. (EnLo + number - 2) + 1 = EnLo + number - 1
    BY <1>1
  <2> QED
    BY <1>1, <2>1 DEF Earlier, EncoderEvent
<1>8. \A i \in own : candidates[i].value = 1
  BY <1>5, <1>6, <1>7
<1> HIDE DEF own, q
<1>9. /\ DOMAIN byCode \subseteq DOMAIN new
      /\ \A i \in own : candidates[i].code \in DOMAIN new
      /\ \A k \in DOMAIN new : \/ k \in DOMAIN byCode /\ new[k] = byCode[k]
                               \/ \E i \in own : new[k] = candidates[i]
  BY <1>5, RefileKeeps
<1> HIDE DEF new
<1>10. \A c \in DOMAIN new : new[c].value = 1
  BY <1>8, <1>9 DEF FiledInv
<1>11. number > 1 => EnLo + number - 1 \in DOMAIN new
  <2>1. CASE ~Missing
    BY <1>1, <1>9, <2>1 DEF Missing
  <2>2. CASE Missing
    <3>1. number > 1
      BY <1>1, <2>2 DEF Missing
    <3>2. PICK i \in own : candidates[i].code = EnLo + number - 1
      BY <1>5, <1>7, <2>2, <3>1
    <3> QED
      BY <1>9, <3>2
  <2> QED
    BY <2>1, <2>2
<1>12. ASSUME NEW c \in EnLo .. EnLo + number - 2 PROVE c + 1 \in DOMAIN new
  <2>1. CASE c = EnLo + number - 2
    <3>1. c + 1 = EnLo + number - 1 /\ number > 1
      BY <1>1, <1>12, <2>1
    <3> QED
      BY <1>11, <3>1
  <2>2. CASE c # EnLo + number - 2
    <3>1. c \in EnLo .. EnLo + number - 3
      BY <1>1, <2>2
    <3> QED
      BY <1>1, <1>9, <3>1 DEF FiledInv
  <2> QED
    BY <2>1, <2>2
<1>13. EnLo + number \in DOMAIN new \/ kept["encoders"] = <<q>> \/ outbox = <<q>>
  BY <1>5, <1>6, <1>9
<1>14. \A d \in DOMAIN seen : seen[d].code = EnLo + 1
  BY <1>1 DEF FiledInv
<1>15. \A d \in {1, 5, -1} : d \in DOMAIN seen
  BY <1>1 DEF FiledInv
<1>16. CASE number < EnHi - EnLo + 1 /\ number' = number + 1 /\ stage' = "encoders"
  <2>1. Earlier' = {q} /\ (Missing' => EnLo + number \notin DOMAIN new)
    <3>1. number' # 1 /\ EnLo + number' - 2 = EnLo + number - 1 /\ EnLo + number' - 1 = EnLo + number
      BY <1>1, <1>16
    <3> QED
      BY <1>3, <1>6, <1>16, <3>1 DEF Earlier, Missing
  <2>2. EncWaiting'
    BY <1>3, <1>5, <1>13, <2>1, Resting
  <2>3. EncPipe'
    BY <1>4, <2>2 DEF EncPipe
  <2>4. \A c \in EnLo .. EnLo + number' - 3 : c + 1 \in DOMAIN new
    <3>1. EnLo + number' - 3 = EnLo + number - 2
      BY <1>1, <1>16
    <3> QED
      BY <1>12, <3>1
  <2>5. FiledInv'
    BY <1>3, <1>10, <1>14, <1>15, <1>16, <2>4 DEF FiledInv
  <2> QED
    BY <2>3, <2>5
<1>17. CASE number = EnHi - EnLo + 1 /\ number' = 1 /\ stage' = "flush"
  <2>1. EnLo + number - 1 = EnHi /\ EnLo + number = EnHi + 1 /\ EnLo + number - 2 = EnHi - 1
    BY <1>1, <1>17
  <2>2. Earlier' = {q} /\ (Missing' => EnLo + number \notin DOMAIN new)
    BY <1>3, <1>6, <1>17, <2>1 DEF Earlier, Missing
  <2>3. EncWaiting'
    BY <1>3, <1>5, <1>13, <2>2, Resting
  <2>4. EncPipe'
    BY <1>4, <2>3 DEF EncPipe
  <2>5. \A c \in EnLo .. EnHi - 1 : c + 1 \in DOMAIN new
    BY <1>12, <2>1
  <2>6. FiledInv'
    BY <1>3, <1>10, <1>14, <1>15, <1>17, <2>5 DEF FiledInv
  <2> QED
    BY <2>4, <2>6
<1>18. CASE stage' = "done" /\ Expected \subseteq DOMAIN new
  <2>1. EncPipe'
    BY <1>18 DEF EncPipe, Turning
  <2>2. \A c \in EnLo .. EnHi : c + 1 \in DOMAIN new
    BY <1>18 DEF Expected
  <2>3. FiledInv'
    BY <1>3, <1>10, <1>14, <1>15, <1>18, <2>2 DEF FiledInv
  <2> QED
    BY <2>1, <2>3
<1> QED
  BY <1>4, <1>16, <1>17, <1>18

(* One more turn of the last encoder gets what was kept back of it: all are  *)
(* filed.                                                                    *)
LEMMA FlushNext ==
  ASSUME SweepAssumption, SweepTypes, WaitInv, CalibrationRight, EncPipe, FiledInv,
         ~crashed, FlushEncoder
  PROVE  EncPipe' /\ FiledInv'
PROOF
<1>1. /\ stage = "flush" /\ at = "judge" /\ Asking /\ Turning /\ EnHi \in Nat /\ EnLo \in Nat
  BY DEF FlushEncoder, Judging, Asking, After, Turning, SweepAssumption
<1>2. EncoderCaller = "encoder"
  BY <1>1 DEF CalibrationRight
<1> DEFINE own == From(candidates, "encoder")
           q == Question
           new == Refile(byCode, own, "code")
<1>3. /\ byCode' = new /\ UNCHANGED <<seen, kept, outbox, candidates, crashed>>
      /\ IF own = {} \/ Expected \subseteq DOMAIN new THEN Finish ELSE Proceed
  BY <1>2 DEF FlushEncoder, window, firmware, FiledBy
<1>4. /\ \A i \in own : candidates[i] \in Earlier \cup {q}
      /\ Missing => \E i \in own : candidates[i] \in Earlier
      /\ own \subseteq 1..3
  BY <1>1, EncJudged
<1>5. q = EncoderEvent(EnHi, 1) /\ Earlier = {EncoderEvent(EnHi, 1)}
  BY <1>1, Asked DEF Earlier
<1>6. EncoderEvent(EnHi, 1).value = 1 /\ EncoderEvent(EnHi, 1).code = EnHi + 1
  BY DEF EncoderEvent
<1> HIDE DEF own, q
<1>7. /\ DOMAIN byCode \subseteq DOMAIN new
      /\ \A i \in own : candidates[i].code \in DOMAIN new
      /\ \A k \in DOMAIN new : \/ k \in DOMAIN byCode /\ new[k] = byCode[k]
                               \/ \E i \in own : new[k] = candidates[i]
  BY <1>4, RefileKeeps
<1> HIDE DEF new
<1>8. \A c \in DOMAIN new : new[c].value = 1
  BY <1>4, <1>5, <1>6, <1>7 DEF FiledInv
<1>9. EnHi + 1 \in DOMAIN new
  <2>1. ~Missing => EnHi + 1 \in DOMAIN byCode
    BY <1>1 DEF Missing
  <2> QED
    BY <1>4, <1>5, <1>6, <1>7, <2>1
<1>10. \A c \in EnLo .. EnHi : c + 1 \in DOMAIN new
  <2> SUFFICES ASSUME NEW c \in EnLo .. EnHi PROVE c + 1 \in DOMAIN new
    OBVIOUS
  <2>1. c = EnHi \/ c \in EnLo .. EnHi - 1
    BY <1>1
  <2>2. c \in EnLo .. EnHi - 1 => c + 1 \in DOMAIN byCode
    BY <1>1 DEF FiledInv
  <2> QED
    BY <1>7, <1>9, <2>1, <2>2
<1>11. Finish
  BY <1>3, <1>10 DEF Expected
<1>12. EncPipe'
  BY <1>11 DEF Finish, EncPipe, Turning
<1>13. FiledInv'
  <2>1. stage' = "done"
    BY <1>11 DEF Finish
  <2>2. (\A d \in DOMAIN seen : seen[d].code = EnLo + 1) /\ \A d \in {1, 5, -1} : d \in DOMAIN seen
    BY <1>1 DEF FiledInv
  <2> QED
    BY <1>3, <1>8, <1>10, <2>1, <2>2 DEF FiledInv
<1> QED
  BY <1>12, <1>13

-----------------------------------------------------------------------------
(* The buttons.  A press flushes what was kept of the button before, so a    *)
(* window holds at most one late record and its own.                         *)
LEMMA ButtonInject ==
  ASSUME SweepAssumption, SweepTypes, Inject, stage = "buttons", ~crashed, ButtonWaiting,
         \A i \in DOMAIN kept["special"] : kept["special"][i].ret = "button"
  PROVE  /\ kept'["encoders"] = kept["encoders"]
         /\ \A i \in DOMAIN kept'["special"] : kept'["special"][i].ret = "button"
         /\ \E b \in 0..1 : ButtonWindow(b)'
PROOF
<1>1. /\ Asking /\ at = "inject" /\ Stream' = outbox'
      /\ UNCHANGED <<stage, number, cal, seen, rows, byCode>>
  BY Injected DEF report
<1> DEFINE k == kept["special"]
           q == Question
           s == outbox \o k
           flushed == kept'["special"]
<1>2. /\ Question' = q /\ Duplicate' = Duplicate /\ SpecialKey' = SpecialKey /\ Even' = Even
      /\ Pressed' = Pressed /\ Owned(Key(number))' = Owned(Key(number))
      /\ \A r : Late(r)' <=> Late(r)
  BY <1>1 DEF Question, Duplicate, SpecialKey, Even, Pressed, Owned, Late, Key, Edge
<1>3. /\ q.ret = "button" /\ q \in Event
      /\ Kind(q) = IF SpecialKey THEN "special" ELSE "direct"
  <2>1. q = ButtonEvent(Key(number)[1], Key(number)[2], Edge(number)) /\ q \in Event
    BY <1>1, Asked
  <2> HIDE DEF q
  <2>2. q.ret = "button" /\ q.code[1] = Key(number)[1]
    BY <2>1 DEF ButtonEvent
  <2> QED
    BY <2>1, <2>2 DEF Kind, SpecialKey
<1>4. outbox \in Seq(Event) /\ k \in Seq(Event) /\ kept \in [{"encoders", "special"} -> Seq(Event)]
  BY DEF SweepTypes
<1>5. /\ Len(outbox) + Len(k) <= 1
      /\ number = 1 => k = <<>>
      /\ outbox # <<>> => outbox[1].ret = IF number = 1 THEN "encoder" ELSE "button"
      /\ number > 1 /\ ~Duplicate =>
           IF Even
           THEN /\ outbox = <<>>
                /\ IF SpecialKey THEN \/ k = <<>> /\ Owned(Key(number))
                                      \/ k = <<Pressed>>
                   ELSE k # <<>> => Late(k[1])
           ELSE (k # <<>> => Late(k[1])) /\ (outbox # <<>> => Late(outbox[1]))
  BY DEF ButtonWaiting
<1>6. \/ ~SpecialKey /\ kept' = kept /\ outbox' = Append(outbox, q)
      \/ /\ SpecialKey /\ kept' = [kept EXCEPT !["special"] = <<>>]
         /\ outbox' = Append(s, q)
      \/ /\ SpecialKey /\ kept' = [kept EXCEPT !["special"] = <<q>>]
         /\ outbox' = s
  <2>1. "special" # "direct" /\ "special" # "encoders" /\ "direct" # "encoders"
    OBVIOUS
  <2>2. Kind(q) = "special" <=> SpecialKey
    BY <1>3, <2>1
  <2> HIDE DEF q
  <2> QED
    BY <1>3, <2>1, <2>2, Injected DEF q
<1>7. /\ kept'["encoders"] = kept["encoders"]
      /\ \/ ~SpecialKey /\ flushed = k /\ outbox' = Append(outbox, q)
         \/ SpecialKey /\ flushed = <<>> /\ outbox' = Append(s, q)
         \/ SpecialKey /\ flushed = <<q>> /\ outbox' = s
  BY <1>4, <1>6
<1>8. \A i \in DOMAIN k : k[i].ret = "button"
  OBVIOUS
<1> HIDE DEF k, q, s, flushed
<1>9. \A i \in DOMAIN flushed : flushed[i].ret = "button"
  <2>1. flushed = <<q>> => \A i \in DOMAIN flushed : flushed[i] = q
    OBVIOUS
  <2>2. flushed = <<>> => \A i \in DOMAIN flushed : FALSE
    OBVIOUS
  <2> QED
    BY <1>3, <1>7, <1>8, <2>1, <2>2
<1>10. Len(outbox) \in Nat /\ Len(k) \in Nat /\ DOMAIN k = 1 .. Len(k)
  BY <1>4
<1>11. (Len(outbox) = 0 <=> outbox = <<>>) /\ (Len(k) = 0 <=> k = <<>>)
  BY <1>4, EmptySeq
<1>12. Even <=> number % 2 = 0
  BY DEF Even
<1>13. Even => number > 1
  <2>1. number \in Nat \ {0}
    BY <1>1, Asked DEF SweepTypes
  <2> QED
    BY <1>12, <2>1
<1> DEFINE n == Len(outbox)
           m == Len(k)
<1>20. n \in 0..1 /\ m \in 0..1 /\ (n = 1 => m = 0)
  <2>1. n \in Nat /\ m \in Nat /\ n + m <= 1
    BY <1>5, <1>10
  <2> HIDE DEF n, m
  <2> QED
    BY <2>1
<1>14. CASE ~SpecialKey
  <2>1. flushed = k /\ outbox' = Append(outbox, q)
    BY <1>7, <1>14
  <2>2. PICK b \in 0..1 : b = Len(outbox)
    BY <1>20
  <2>3. /\ Len(outbox') = b + 1 /\ outbox'[b + 1] = q
        /\ b = 1 => outbox'[1] = outbox[1]
    BY <1>3, <1>4, <2>1, <2>2, AppendProperties
  <2>4. Len(flushed) + b <= 1
    BY <1>5, <1>10, <2>1, <2>2
  <2>5. k # <<>> => number > 1
    <3>1. number \in Nat \ {0}
      BY <1>1, Asked DEF SweepTypes
    <3> QED
      BY <1>5, <3>1
  <2>6. k # <<>> /\ ~Duplicate => Late(k[1])
    BY <1>5, <1>14, <2>5
  <2>7. b = 1 => outbox'[1].ret = IF number = 1 THEN "encoder" ELSE "button"
    BY <1>5, <1>11, <2>2, <2>3
  <2>8. b = 1 /\ number > 1 /\ ~Duplicate => ~Even /\ Late(outbox'[1])
    BY <1>5, <1>11, <2>2, <2>3
  <2>9. ButtonWindow(b)'
    BY <1>1, <1>2, <1>14, <2>1, <2>3, <2>4, <2>5, <2>6, <2>7, <2>8 DEF ButtonWindow, flushed, q
  <2> QED
    BY <1>7, <1>9, <2>9 DEF flushed
<1>15. CASE SpecialKey
  <2>1. /\ \/ flushed = <<>> /\ outbox' = Append(s, q)
           \/ flushed = <<q>> /\ outbox' = s
    BY <1>7, <1>15
  <2>2. /\ s \in Seq(Event) /\ Len(s) = Len(outbox) + Len(k)
        /\ Len(outbox) = 1 => s[1] = outbox[1]
        /\ Len(outbox) = 0 /\ Len(k) = 1 => s[1] = k[1]
    BY <1>4 DEF s
  <2>3. PICK b \in 0..1 : b = Len(s)
    BY <1>5, <1>10, <2>2
  <2>4. \/ flushed = <<>> /\ Len(outbox') = b + 1 /\ outbox'[b + 1] = q
        \/ flushed = <<q>> /\ Len(outbox') = b
    <3>1. outbox' = Append(s, q) => Len(outbox') = b + 1 /\ outbox'[b + 1] = q
      BY <1>3, <2>2, <2>3, AppendProperties
    <3> QED
      BY <2>1, <2>3, <3>1
  <2>5. b = 1 => outbox'[1] = s[1]
    BY <1>3, <2>1, <2>2, <2>3, AppendProperties
  <2>6. b = 1 => \/ Len(outbox) = 1 /\ outbox # <<>> /\ s[1] = outbox[1]
                 \/ Len(k) = 1 /\ k # <<>> /\ outbox = <<>> /\ s[1] = k[1]
    <3>1. b = n + m
      BY <2>2, <2>3
    <3>2. b = 1 => n = 1 \/ (n = 0 /\ m = 1)
      BY <1>20, <3>1
    <3>3. (n = 1 => outbox # <<>>) /\ (n = 0 => outbox = <<>>) /\ (m = 1 => k # <<>>)
      BY <1>11
    <3> QED
      BY <2>2, <3>2, <3>3
  <2>7. b = 1 => s[1].ret = IF number = 1 THEN "encoder" ELSE "button"
    BY <1>5, <1>8, <1>10, <2>6
  <2>8. b = 1 /\ number > 1 /\ ~Duplicate => IF Even THEN s[1] = Pressed ELSE Late(s[1])
    <3>1. k = <<Pressed>> => k[1] = Pressed
      OBVIOUS
    <3> QED
      BY <1>5, <1>15, <2>6, <3>1
  <2>9. b = 0 /\ Even /\ ~Duplicate => Owned(Key(number))
    <3>1. b = 0 => k = <<>>
      BY <1>10, <1>11, <2>2, <2>3
    <3>2. k = <<>> => k # <<Pressed>>
      OBVIOUS
    <3> QED
      BY <1>5, <1>13, <1>15, <3>1, <3>2
  <2>10. Len(<<>>) = 0
    OBVIOUS
  <2>11. flushed = <<>> => Len(flushed) + b <= 1
    BY <2>10
  <2>12. ButtonWindow(b)'
    BY <1>1, <1>2, <1>15, <2>4, <2>5, <2>7, <2>8, <2>9, <2>11 DEF ButtonWindow, flushed, q
  <2> QED
    BY <1>7, <1>9, <2>12 DEF flushed
<1> QED
  BY <1>14, <1>15

(* A record of a button that is not the question's own.                      *)
Before(r) == number > 1 /\ (~Duplicate => IF Even THEN SpecialKey /\ r = Pressed ELSE Late(r))

(* A window of a button that is judged: its own record was heard, or is on   *)
(* its way behind one before, or is kept back.                               *)
LEMMA ButtonJudged ==
  ASSUME SweepAssumption, SweepTypes, WaitInv, ButtonPipe, stage = "buttons", ~crashed,
         at = "judge",
         NEW own, own = From(candidates, "button"), NEW k, k = kept["special"],
         NEW q, q = Question
  PROVE  /\ own \subseteq 1..2
         /\ \A i \in own : candidates[i] = q \/ Before(candidates[i])
         /\ \/ /\ outbox = <<>> /\ \E i \in own : candidates[i] = q
               /\ Len(k) <= 1 /\ (k # <<>> => ~SpecialKey /\ (~Duplicate => Late(k[1])))
            \/ /\ outbox = <<q>> /\ k = <<>>
               /\ own # {} /\ \A i \in own : Before(candidates[i])
            \/ /\ outbox = <<>> /\ k = <<q>> /\ SpecialKey
               /\ Even /\ ~Duplicate =>
                    Owned(Key(number)) \/ \E i \in own : Before(candidates[i])
PROOF
<1> DEFINE n == Len(candidates)
           m == Len(outbox)
<1>1. Asking
  BY DEF Asking, After
<1>2. PICK b \in 0..1 : ButtonWindow(b)
  BY DEF ButtonPipe
<1>3. q.ret = "button"
  BY <1>1, Asked DEF ButtonEvent
<1>4. /\ n \in Nat /\ m \in Nat /\ Len(Stream) = n + m /\ DOMAIN candidates = 1..n
      /\ \A i \in 1..n : Stream[i] = candidates[i]
      /\ \A i \in 1..m : Stream[n + i] = outbox[i]
      /\ m = 0 => outbox = <<>>
  BY Streamed
<1>5. own = {i \in 1..n : Stream[i].ret = "button"}
  BY <1>4 DEF From
<1>6. m = 0 \/ own # {}
  <2>1. outbox = <<>> => m = 0
    BY <1>4
  <2>2. outbox = <<>> \/ Heard
    BY <1>1 DEF WaitInv
  <2>3. Heard => own # {}
    BY DEF Heard
  <2> QED
    BY <2>1, <2>2, <2>3
<1>7. /\ \/ /\ Len(Stream) = b + 1 /\ Stream[b + 1] = q
            /\ Len(k) + b <= 1 /\ (k # <<>> => ~SpecialKey /\ number > 1)
            /\ k # <<>> /\ ~Duplicate => Late(k[1])
         \/ Len(Stream) = b /\ k = <<q>> /\ SpecialKey
      /\ b = 1 => Stream[1].ret = IF number = 1 THEN "encoder" ELSE "button"
      /\ b = 1 /\ number > 1 /\ ~Duplicate =>
           IF Even THEN SpecialKey /\ Stream[1] = Pressed ELSE Late(Stream[1])
      /\ b = 0 /\ Even /\ SpecialKey /\ ~Duplicate => Owned(Key(number))
  BY <1>2 DEF ButtonWindow
<1>8. outbox \in Seq(Event) /\ k \in Seq(Event)
  BY DEF SweepTypes
<1>9. number > 1 <=> number # 1
  <2>1. number \in Nat \ {0}
    BY <1>1, Asked DEF SweepTypes
  <2> QED
    BY <2>1
<1>10. b = 1 /\ Stream[1].ret = "button" => Before(Stream[1])
  BY <1>7, <1>9 DEF Before
<1>11. Len(k) \in Nat /\ (Len(k) = 0 <=> k = <<>>)
  BY <1>8, EmptySeq
<1> HIDE DEF n, m
<1>12. m > 0 => \E i \in 1..n : Stream[i].ret = "button"
  BY <1>4, <1>5, <1>6
<1>13. m > 0 => n >= 1
  BY <1>4, <1>12
<1>14. \/ /\ n = b + 1 /\ m = 0 /\ Stream[n] = q /\ Len(k) <= 1
          /\ k # <<>> => ~SpecialKey /\ (~Duplicate => Late(k[1]))
       \/ n = 1 /\ b = 1 /\ m = 1 /\ Stream[2] = q /\ k = <<>>
       \/ n = b /\ m = 0 /\ k = <<q>> /\ SpecialKey
  <2>1. CASE /\ Len(Stream) = b + 1 /\ Stream[b + 1] = q
             /\ Len(k) + b <= 1 /\ (k # <<>> => ~SpecialKey /\ number > 1)
             /\ k # <<>> /\ ~Duplicate => Late(k[1])
    <3>1. n + m = b + 1 /\ b \in 0..1
      BY <1>4, <2>1
    <3>2. m = 0 => n = b + 1
      BY <1>4, <3>1
    <3>3. m > 0 => m = 1 /\ n = 1 /\ b = 1
      BY <1>4, <1>13, <3>1
    <3>4. m = 0 \/ m > 0
      BY <1>4
    <3>5. Len(k) + b <= 1 /\ Len(k) \in Nat
      BY <1>11, <2>1
    <3>6. Len(k) <= 1 /\ (b = 1 => Len(k) = 0)
      BY <3>5
    <3>7. b = 1 => k = <<>>
      BY <1>11, <3>6
    <3>8. b = 1 => Stream[2] = q
      BY <2>1
    <3> QED
      BY <2>1, <3>2, <3>3, <3>4, <3>6, <3>7, <3>8
  <2>2. CASE Len(Stream) = b /\ k = <<q>> /\ SpecialKey
    <3>1. n + m = b /\ b \in 0..1
      BY <1>4, <2>2
    <3>2. m = 0 /\ n = b
      BY <1>4, <1>13, <3>1
    <3> QED
      BY <2>2, <3>2
  <2> QED
    BY <1>7, <2>1, <2>2
<1>15. n \in 0..2 /\ \A i \in 1..n : (i = 1 /\ b = 1) \/ (i = n /\ Stream[n] = q)
  <2>1. CASE n = b + 1 /\ m = 0 /\ Stream[n] = q
    BY <2>1
  <2>2. CASE n = 1 /\ b = 1
    BY <2>2
  <2>3. CASE n = b
    BY <2>3
  <2> QED
    BY <1>14, <2>1, <2>2, <2>3
<1>16. own \subseteq 1..2
  BY <1>5, <1>15
<1>17. ASSUME NEW i \in own PROVE candidates[i] = q \/ Before(candidates[i])
  <2>1. i \in 1..n /\ candidates[i] = Stream[i] /\ Stream[i].ret = "button"
    BY <1>4, <1>5
  <2>2. CASE i = 1 /\ b = 1
    BY <1>10, <2>1, <2>2
  <2>3. CASE i = n /\ Stream[n] = q
    BY <2>1, <2>3
  <2> QED
    BY <1>15, <2>1, <2>2, <2>3
<1>18. b = 1 /\ n >= 1 /\ Stream[1].ret = "button" => \E i \in own : Before(candidates[i])
  <2>1. ASSUME b = 1, n >= 1, Stream[1].ret = "button" PROVE 1 \in own /\ Before(candidates[1])
    <3>1. 1 \in 1..n
      BY <1>4, <2>1
    <3> QED
      BY <1>4, <1>5, <1>10, <2>1, <3>1
  <2> QED
    BY <2>1
<1>19. ASSUME /\ n = b + 1 /\ m = 0 /\ Stream[n] = q /\ Len(k) <= 1
              /\ k # <<>> => ~SpecialKey /\ (~Duplicate => Late(k[1]))
       PROVE  /\ outbox = <<>> /\ \E i \in own : candidates[i] = q
              /\ Len(k) <= 1 /\ (k # <<>> => ~SpecialKey /\ (~Duplicate => Late(k[1])))
  <2>1. n \in 1..n
    BY <1>19
  <2>2. n \in own /\ candidates[n] = q
    BY <1>3, <1>4, <1>5, <1>19, <2>1
  <2>3. outbox = <<>>
    BY <1>4, <1>19
  <2> QED
    BY <1>19, <2>2, <2>3
<1>20. ASSUME n = 1 /\ b = 1 /\ m = 1 /\ Stream[2] = q /\ k = <<>>
       PROVE  /\ outbox = <<q>> /\ k = <<>> /\ Len(outbox) = 1 /\ outbox[1].ret = "button"
              /\ own # {} /\ \A i \in own : Before(candidates[i])
  <2>1. Len(outbox) = 1 /\ outbox[1] = q
    <3>1. 1 \in 1..m /\ n + 1 = 2
      BY <1>20
    <3> QED
      BY <1>4, <1>20, <3>1 DEF m
  <2>2. outbox = <<q>>
    BY <1>8, <2>1
  <2>3. Stream[1].ret = "button"
    BY <1>12, <1>20
  <2>4. own # {} /\ \A i \in own : Before(candidates[i])
    <3>1. \A i \in own : i = 1
      BY <1>5, <1>20
    <3>2. \E i \in own : Before(candidates[i])
      BY <1>18, <1>20, <2>3
    <3> QED
      BY <3>1, <3>2
  <2> QED
    BY <1>3, <1>20, <2>1, <2>2, <2>4
<1>21. ASSUME n = b /\ m = 0 /\ k = <<q>> /\ SpecialKey
       PROVE  /\ outbox = <<>> /\ k = <<q>> /\ SpecialKey
              /\ Even /\ ~Duplicate =>
                   Owned(Key(number)) \/ \E i \in own : Before(candidates[i])
  <2>1. Even => number # 1
    BY DEF Even
  <2>2. Even /\ ~Duplicate => Owned(Key(number)) \/ \E i \in own : Before(candidates[i])
    <3>1. b = 0 \/ b = 1
      OBVIOUS
    <3>2. b = 0 /\ Even /\ ~Duplicate => Owned(Key(number))
      BY <1>7, <1>21
    <3>3. b = 1 /\ Even => \E i \in own : Before(candidates[i])
      BY <1>7, <1>18, <1>21, <2>1
    <3> QED
      BY <3>1, <3>2, <3>3
  <2>3. outbox = <<>>
    BY <1>4, <1>21
  <2> QED
    BY <1>21, <2>2, <2>3
<1>22. \/ /\ outbox = <<>> /\ \E i \in own : candidates[i] = q
          /\ Len(k) <= 1 /\ (k # <<>> => ~SpecialKey /\ (~Duplicate => Late(k[1])))
       \/ /\ outbox = <<q>> /\ k = <<>>
          /\ own # {} /\ \A i \in own : Before(candidates[i])
       \/ /\ outbox = <<>> /\ k = <<q>> /\ SpecialKey
          /\ Even /\ ~Duplicate =>
               Owned(Key(number)) \/ \E i \in own : Before(candidates[i])
  BY <1>14, <1>19, <1>20, <1>21, Zenon
<1> QED
  BY <1>16, <1>17, <1>22

(* No question of the buttons is asked twice.                                *)
LEMMA AskedOnce ==
  ASSUME SweepAssumption, NEW n \in Nat \ {0}, NEW m \in 1 .. n - 1
  PROVE  /\ <<Key(m), Edge(m)>> # <<Key(n), Edge(n)>>
         /\ m % 2 = 0 /\ n % 2 = 1 => Key(m) # Key(n)
PROOF
<1>1. m \in Nat \ {0} /\ m < n
  OBVIOUS
<1>2. (m - 1) \div 2 = (n - 1) \div 2 => m % 2 = 1 /\ n % 2 = 0
  BY <1>1
<1>3. (m - 1) \div 2 # (n - 1) \div 2 => Key(m) # Key(n)
  BY <1>1, KeysDiffer
<1>4. m % 2 = 1 /\ n % 2 = 0 => Edge(m) # Edge(n)
  BY DEF Edge
<1>5. Key(m) # Key(n) \/ Edge(m) # Edge(n)
  BY <1>2, <1>3, <1>4
<1>6. m % 2 = 0 /\ n % 2 = 1 => Key(m) # Key(n)
  BY <1>2, <1>3
<1> QED
  BY <1>5, <1>6

(* A press is followed by the release of its button.                         *)
LEMMA PressedOnce ==
  ASSUME NEW n \in Nat \ {0}
  PROVE  /\ n % 2 = 1 => Key(n + 1) = Key(n) /\ (n + 1) % 2 = 0
         /\ n % 2 = 0 => (n + 1) % 2 = 1
         /\ n % 2 = 0 \/ n % 2 = 1
PROOF
<1>1. n % 2 = 1 => ((n + 1) - 1) \div 2 = (n - 1) \div 2 /\ (n + 1) % 2 = 0
  OBVIOUS
<1>2. (n % 2 = 0 => (n + 1) % 2 = 1) /\ (n % 2 = 0 \/ n % 2 = 1)
  OBVIOUS
<1> QED
  BY <1>1, <1>2 DEF Key

(* A row is added for the button that was asked, or none.                    *)
LEMMA RowAdded ==
  ASSUME SweepAssumption, SweepTypes, CalibrationRight, RowsInv, SweepButton,
         NEW own, own = From(candidates, "button"),
         NEW asked, asked = <<Key(number), Edge(number)>>
  PROVE  /\ asked \notin DOMAIN rows
         /\ DOMAIN rows' = IF own = {} THEN DOMAIN rows ELSE DOMAIN rows \cup {asked}
         /\ \A k \in DOMAIN rows : k \in DOMAIN rows' /\ rows'[k] = rows[k]
         /\ own # {} /\ own \subseteq 1..2 =>
              asked \in DOMAIN rows' /\ \E i \in own : rows'[asked] = candidates[i].code
PROOF
<1>1. stage = "buttons" /\ Asking
  BY DEF SweepButton, Judging, Asking, After
<1>2. ButtonCaller = "button" /\ number \in Nat \ {0}
  BY <1>1, Asked DEF CalibrationRight, SweepTypes
<1>3. asked = <<Question.code, Question.value>>
  <2>1. Question = ButtonEvent(Key(number)[1], Key(number)[2], Edge(number))
    BY <1>1, Asked
  <2>2. Key(number) = <<Key(number)[1], Key(number)[2]>>
    BY DEF Key
  <2> QED
    BY <2>1, <2>2 DEF ButtonEvent
<1> HIDE DEF Question
<1>4. rows' = IF own = {} THEN rows
              ELSE [k \in DOMAIN rows \cup {asked} |->
                      IF k = asked THEN candidates[Oldest(own)].code ELSE rows[k]]
  BY <1>2, <1>3 DEF SweepButton
<1>5. asked \notin DOMAIN rows
  <2>1. ASSUME asked \in DOMAIN rows PROVE FALSE
    <3>1. PICK m \in 1 .. number - 1 : asked = <<Key(m), Edge(m)>>
      BY <1>1, <2>1 DEF RowsInv
    <3> QED
      BY <1>2, <3>1, AskedOnce
  <2> QED
    BY <2>1
<1>6. DOMAIN rows' = IF own = {} THEN DOMAIN rows ELSE DOMAIN rows \cup {asked}
  BY <1>4
<1>7. \A k \in DOMAIN rows : k \in DOMAIN rows' /\ rows'[k] = rows[k]
  BY <1>4, <1>5
<1>8. own # {} /\ own \subseteq 1..2 => Oldest(own) \in own
  <2>1. ASSUME own # {}, own \subseteq 1..2 PROVE \E i \in own : \A j \in own : i <= j
    <3>1. CASE 1 \in own
      <4>1. \A j \in own : 1 <= j
        BY <2>1
      <4> QED
        BY <3>1, <4>1
    <3>2. CASE 1 \notin own
      <4>1. \A j \in own : j = 2
        BY <2>1, <3>2
      <4>2. 2 \in own
        BY <2>1, <4>1
      <4>3. \A j \in own : 2 <= j
        BY <4>1
      <4> QED
        BY <4>2, <4>3
    <3> QED
      BY <3>1, <3>2
  <2> QED
    BY <2>1 DEF Oldest
<1>9. own # {} => asked \in DOMAIN rows' /\ rows'[asked] = candidates[Oldest(own)].code
  BY <1>4, <1>6
<1> QED
  BY <1>5, <1>6, <1>7, <1>8, <1>9

(* Of a window of the sweep of the buttons: the row is right, or two buttons *)
(* share a code; and what is late is a release of a button with a right row. *)
LEMMA ButtonNext ==
  ASSUME SweepAssumption, SweepTypes, WaitInv, CalInv, CalibrationRight, ButtonPipe, RowsInv,
         FiledInv, ~crashed, SweepButton
  PROVE  /\ EncPipe' /\ ButtonPipe' /\ FiledInv'
         /\ Duplicate' \/ \A k \in DOMAIN rows' : rows'[k] = k[1]
PROOF
<1> DEFINE key == Key(number)
<1>1. /\ stage = "buttons" /\ at = "judge" /\ Asking /\ at' = "inject"
      /\ number \in Nat \ {0} /\ number <= Asks(stage)
      /\ UNCHANGED <<kept, outbox, candidates, crashed, seen, byCode>>
      /\ \/ number < Asks(stage) /\ number' = number + 1 /\ stage' = "buttons"
         \/ number = Asks(stage) /\ number' = 1 /\ stage' = "encoders"
  <2>1. /\ stage = "buttons" /\ at = "judge" /\ Asking /\ Proceed
        /\ UNCHANGED <<kept, outbox, candidates, crashed, seen, byCode>>
    BY DEF SweepButton, Judging, Asking, After, window, firmware
  <2>2. number \in Nat \ {0} /\ number <= Asks(stage) /\ Asks(stage) \in Nat
    BY <2>1, Asked DEF SweepTypes
  <2>3. After["buttons"] = "encoders"
    BY DEF After
  <2> QED
    BY <2>1, <2>2, <2>3 DEF Proceed
<1>2. PICK own : own = From(candidates, "button")
  OBVIOUS
<1>3. PICK k : k = kept["special"]
  OBVIOUS
<1>4. PICK q : q = Question
  OBVIOUS
<1>5. PICK asked : asked = <<key, Edge(number)>>
  OBVIOUS
<1>6. /\ q = ButtonEvent(key[1], key[2], Edge(number)) /\ q.code = key /\ q.ret = "button"
      /\ Pressed.code = key
      /\ \A i : <<Key(i)[1], Key(i)[2]>> = Key(i)
  <2>1. \A i : <<Key(i)[1], Key(i)[2]>> = Key(i)
    BY DEF Key
  <2>2. q = ButtonEvent(key[1], key[2], Edge(number))
    BY <1>1, <1>4, Asked
  <2> QED
    BY <2>1, <2>2 DEF ButtonEvent, Pressed
<1>7. /\ own \subseteq 1..2
      /\ \A i \in own : candidates[i] = q \/ Before(candidates[i])
      /\ \/ /\ outbox = <<>> /\ \E i \in own : candidates[i] = q
            /\ Len(k) <= 1 /\ (k # <<>> => ~SpecialKey /\ (~Duplicate => Late(k[1])))
         \/ /\ outbox = <<q>> /\ k = <<>>
            /\ own # {} /\ \A i \in own : Before(candidates[i])
         \/ /\ outbox = <<>> /\ k = <<q>> /\ SpecialKey
            /\ Even /\ ~Duplicate =>
                 Owned(key) \/ \E i \in own : Before(candidates[i])
  BY <1>1, <1>2, <1>3, <1>4, ButtonJudged
<1>8. /\ asked \notin DOMAIN rows
      /\ DOMAIN rows' = IF own = {} THEN DOMAIN rows ELSE DOMAIN rows \cup {asked}
      /\ \A l \in DOMAIN rows : l \in DOMAIN rows' /\ rows'[l] = rows[l]
      /\ own # {} => asked \in DOMAIN rows' /\ \E i \in own : rows'[asked] = candidates[i].code
  <2>1. asked = <<Key(number), Edge(number)>>
    BY <1>5
  <2>2. /\ asked \notin DOMAIN rows
        /\ DOMAIN rows' = IF own = {} THEN DOMAIN rows ELSE DOMAIN rows \cup {asked}
        /\ \A l \in DOMAIN rows : l \in DOMAIN rows' /\ rows'[l] = rows[l]
        /\ own # {} /\ own \subseteq 1..2 =>
             asked \in DOMAIN rows' /\ \E i \in own : rows'[asked] = candidates[i].code
    BY <1>2, <2>1, RowAdded, SMTT(30)
  <2>3. own \subseteq 1..2
    BY <1>7
  <2> QED
    BY <2>2, <2>3
<1>9. asked[1] = key
  BY <1>5
<1> HIDE DEF key
<1>10. Duplicate => Duplicate'
  BY <1>8 DEF Duplicate
<1>11. \A c : Owned(c) => Owned(c)'
  BY <1>8 DEF Owned
<1>12. ASSUME ~Duplicate', NEW i \in own, Before(candidates[i]),
              rows'[asked] = candidates[i].code, own # {}
       PROVE  Even /\ candidates[i] = Pressed
  <2>1. CASE Even
    BY <1>10, <1>12, <2>1 DEF Before
  <2>2. CASE ~Even
    <3>1. PICK m \in 1 .. number - 1 :
            m % 2 = 0 /\ Owned(Key(m)) /\ candidates[i].code = Key(m)
      <4>1. Late(candidates[i])
        BY <1>10, <1>12, <2>2 DEF Before
      <4> QED
        BY <1>6, <4>1 DEF Late, ButtonEvent
    <3>2. Key(m) # key
      <4>1. number % 2 = 1
        BY <1>1, <2>2 DEF Even
      <4> QED
        BY <1>1, <3>1, <4>1, AskedOnce DEF key
    <3>3. PICK l \in DOMAIN rows : l[1] = Key(m) /\ rows[l] = Key(m)
      BY <3>1 DEF Owned
    <3>4. /\ l \in DOMAIN rows' /\ asked \in DOMAIN rows'
          /\ rows'[l] = rows'[asked] /\ l[1] # asked[1]
      BY <1>8, <1>9, <1>12, <3>1, <3>2, <3>3
    <3>5. Duplicate'
      BY <3>4 DEF Duplicate
    <3> QED
      BY <1>12, <3>5
  <2> QED
    BY <2>1, <2>2
<1>13. ASSUME ~Duplicate', own # {} PROVE rows'[asked] = key
  <2>1. PICK i \in own : rows'[asked] = candidates[i].code
    BY <1>8, <1>13
  <2>2. CASE candidates[i] = q
    BY <1>6, <2>1, <2>2
  <2>3. CASE Before(candidates[i])
    BY <1>6, <1>12, <1>13, <2>1, <2>3
  <2> QED
    BY <1>7, <2>2, <2>3
<1>14. Duplicate' \/ \A l \in DOMAIN rows' : rows'[l] = l[1]
  <2> SUFFICES ASSUME ~Duplicate', NEW l \in DOMAIN rows' PROVE rows'[l] = l[1]
    OBVIOUS
  <2>1. CASE l \in DOMAIN rows
    <3>1. rows[l] = l[1]
      BY <1>10, <2>1 DEF RowsInv
    <3> QED
      BY <1>8, <2>1, <3>1
  <2>2. CASE l \notin DOMAIN rows
    <3>1. l = asked /\ own # {}
      BY <1>8, <2>2
    <3> QED
      BY <1>9, <1>13, <3>1
  <2> QED
    BY <2>1, <2>2
<1>15. ASSUME ~Duplicate', own # {}, NEW c, c = key PROVE Owned(c)'
  <2>1. asked \in DOMAIN rows' /\ asked[1] = c /\ rows'[asked] = c
    BY <1>8, <1>9, <1>13, <1>15
  <2> QED
    BY <2>1 DEF Owned
<1>16. kept["encoders"] \in {<<>>, <<EncoderEvent(EnLo, 1)>>}
       /\ \A i \in DOMAIN k : k[i].ret = "button"
  BY <1>1, <1>3 DEF ButtonPipe
<1>17. outbox = <<>> \/ outbox = <<q>>
  BY <1>7
<1>18. /\ outbox = <<q>> => Len(outbox) = 1 /\ outbox[1] = q
       /\ k = <<q>> => Len(k) = 1 /\ k[1] = q
       /\ Len(<<>>) = 0
  OBVIOUS
<1>19. CASE number = Asks(stage) /\ number' = 1 /\ stage' = "encoders"
  <2>1. Len(outbox) <= 1 /\ (outbox # <<>> => outbox[1].ret = "button")
    <3>1. CASE outbox = <<>>
      BY <1>18, <3>1
    <3>2. CASE outbox = <<q>>
      BY <1>6, <1>18, <3>2
    <3> QED
      BY <1>17, <3>1, <3>2
  <2>2. Earlier' = {EncoderEvent(EnLo, 1)} /\ ~Missing'
    BY <1>19 DEF Earlier, Missing
  <2>3. kept'["encoders"] \in {<<>>, <<EncoderEvent(EnLo, 1)>>} /\ outbox' = outbox
    BY <1>1, <1>16
  <2>4. EncWaiting'
    BY <1>19, <2>1, <2>2, <2>3 DEF EncWaiting
  <2>5. EncPipe' /\ ButtonPipe'
    BY <1>1, <1>19, <2>4 DEF EncPipe, ButtonPipe
  <2>6. byCode = <<>> /\ EnLo \in Nat
    BY <1>1 DEF CalInv, SweepAssumption
  <2>7. \A c \in EnLo .. EnLo + number' - 3 : FALSE
    BY <1>19, <2>6
  <2>8. \A c \in DOMAIN byCode : FALSE
    BY <2>6
  <2>9. (\A v \in DOMAIN seen : seen[v].code = EnLo + 1) /\ \A d \in {1, 5, -1} : d \in DOMAIN seen
    BY <1>1 DEF FiledInv
  <2>10. FiledInv'
    BY <1>1, <1>19, <2>7, <2>8, <2>9 DEF FiledInv
  <2> QED
    BY <1>14, <2>5, <2>10
<1>20. CASE number < Asks(stage) /\ number' = number + 1 /\ stage' = "buttons"
  <2>1. Len(outbox) + Len(k) <= 1
    <3>1. Len(k) \in Nat
      BY <1>3 DEF SweepTypes
    <3>2. CASE outbox = <<>> /\ Len(k) <= 1
      BY <1>18, <3>1, <3>2
    <3>3. CASE outbox = <<q>> /\ k = <<>>
      BY <1>18, <3>3
    <3>4. CASE outbox = <<>> /\ k = <<q>>
      BY <1>18, <3>4
    <3> QED
      BY <1>7, <3>2, <3>3, <3>4
  <2>2. outbox # <<>> => outbox[1].ret = "button"
    BY <1>6, <1>17, <1>18
  <2>3. number' # 1 /\ number' - 1 = number
    BY <1>1, <1>20
  <2>4. ASSUME NEW r, Late(r) PROVE Late(r)'
    <3>1. PICK m \in 1 .. number - 1 :
            /\ m % 2 = 0 /\ Owned(Key(m))
            /\ r = ButtonEvent(Key(m)[1], Key(m)[2], "release")
      BY <2>4 DEF Late
    <3>2. m \in 1 .. number' - 1
      BY <1>1, <2>3
    <3>3. Owned(Key(m))'
      <4>1. \A c : c = Key(m) => Owned(c)'
        BY <1>11, <3>1
      <4> QED
        BY <4>1 DEF Key
    <3> QED
      BY <3>1, <3>2, <3>3 DEF Late
  <2>5. ASSUME ~Duplicate', number % 2 = 1
        PROVE  /\ outbox = <<>>
               /\ IF SpecialKey' THEN \/ k = <<>> /\ Owned(Key(number))'
                                      \/ k = <<Pressed'>>
                  ELSE k # <<>> => Late(k[1])'
    <3>1. ~Even /\ Key(number') = key /\ number' % 2 = 0
      BY <1>1, <1>20, <2>5, PressedOnce DEF Even, key
    <3>2. SpecialKey' = SpecialKey
      BY <3>1 DEF SpecialKey, key
    <3>3. Pressed' = q
      BY <1>6, <2>5, <3>1 DEF Pressed, Edge
    <3>4. outbox # <<q>>
      <4>1. ASSUME outbox = <<q>> PROVE FALSE
        <5>1. own # {} /\ \A i \in own : Before(candidates[i])
          BY <1>7, <1>18, <4>1
        <5>2. PICK i \in own : rows'[asked] = candidates[i].code
          BY <1>8, <5>1
        <5> QED
          BY <1>12, <2>5, <3>1, <5>1, <5>2
      <4> QED
        BY <4>1
    <3>5. outbox = <<>>
      BY <1>17, <3>4
    <3>6. CASE /\ \E i \in own : candidates[i] = q
               /\ k # <<>> => ~SpecialKey /\ (~Duplicate => Late(k[1]))
      <4>1. ASSUME NEW c, c = key PROVE Owned(c)'
        BY <1>15, <2>5, <3>6, <4>1
      <4>2. Owned(Key(number))'
        <5>1. PICK c : c = key
          OBVIOUS
        <5>2. Owned(c)' /\ Key(number)' = c
          BY <3>1, <4>1, <5>1 DEF Key
        <5> QED
          BY <5>2 DEF Owned
      <4>3. k # <<>> => ~SpecialKey /\ Late(k[1])'
        <5>1. k # <<>> => Late(k[1])
          BY <1>10, <2>5, <3>6
        <5>2. ASSUME NEW r, r = k[1], k # <<>> PROVE Late(r)'
          BY <2>4, <5>1, <5>2
        <5> QED
          BY <3>6, <5>2
      <4> QED
        BY <3>2, <3>5, <4>2, <4>3
    <3>7. CASE k = <<q>> /\ SpecialKey
      BY <3>2, <3>3, <3>5, <3>7
    <3> QED
      BY <1>7, <3>4, <3>6, <3>7
  <2>6. ASSUME ~Duplicate', number % 2 = 0
        PROVE  (k # <<>> => Late(k[1])') /\ (outbox # <<>> => Late(outbox[1])')
    <3>1. Even /\ Edge(number) = "release"
      BY <2>6 DEF Even, Edge
    <3>2. ASSUME own # {} \/ Owned(key) PROVE Late(q)'
      <4>1. ASSUME NEW c, c = key PROVE Owned(c)'
        BY <1>11, <1>15, <2>6, <3>2, <4>1
      <4>2. PICK m \in 1 .. number' - 1 : m = number
        BY <1>1, <2>3
      <4>3. Owned(Key(m))'
        <5>1. PICK c : c = key
          OBVIOUS
        <5>2. Owned(c)' /\ Key(m)' = c
          BY <4>1, <4>2, <5>1 DEF Key, key
        <5> QED
          BY <5>2 DEF Owned
      <4>4. q = ButtonEvent(Key(m)[1], Key(m)[2], "release") /\ m % 2 = 0
        BY <1>6, <2>6, <3>1, <4>2 DEF key
      <4> QED
        BY <4>2, <4>3, <4>4 DEF Late
    <3>3. CASE outbox = <<>> /\ (k # <<>> => (~Duplicate => Late(k[1])))
      <4>1. k # <<>> => Late(k[1])
        BY <1>10, <2>6, <3>3
      <4>2. ASSUME NEW r, r = k[1], k # <<>> PROVE Late(r)'
        BY <2>4, <4>1, <4>2
      <4> QED
        BY <3>3, <4>2
    <3>4. CASE outbox = <<q>> /\ k = <<>> /\ own # {}
      <4>1. outbox[1] = q
        BY <1>18, <3>4
      <4>2. outbox' = outbox
        BY <1>1
      <4>3. ASSUME NEW r, r = outbox'[1] PROVE Late(r)'
        BY <3>2, <3>4, <4>1, <4>2, <4>3
      <4>4. Late(outbox[1])'
        BY <4>3 DEF Late
      <4> QED
        BY <3>4, <4>4
    <3>5. CASE /\ outbox = <<>> /\ k = <<q>>
               /\ Owned(key) \/ \E i \in own : Before(candidates[i])
      <4>1. k[1] = q
        BY <1>18, <3>5
      <4> QED
        BY <3>2, <3>5, <4>1
    <3> QED
      BY <1>7, <1>10, <2>6, <3>1, <3>3, <3>4, <3>5
  <2>7. Even' <=> number' % 2 = 0
    BY DEF Even
  <2>8. number % 2 = 1 => number' % 2 = 0
    BY <1>1, <1>20, PressedOnce
  <2>9. number % 2 = 0 => number' % 2 = 1
    BY <1>1, <1>20, PressedOnce
  <2>10. number % 2 = 0 \/ number % 2 = 1
    BY <1>1, PressedOnce
  <2>11. ~Duplicate' =>
           IF Even'
           THEN /\ outbox = <<>>
                /\ IF SpecialKey' THEN \/ k = <<>> /\ Owned(Key(number))'
                                       \/ k = <<Pressed'>>
                   ELSE k # <<>> => Late(k[1])'
           ELSE (k # <<>> => Late(k[1])') /\ (outbox # <<>> => Late(outbox[1])')
    <3>1. CASE number % 2 = 1
      BY <2>5, <2>7, <2>8, <3>1
    <3>2. CASE number % 2 = 0
      BY <2>6, <2>7, <2>9, <3>2
    <3> QED
      BY <2>10, <3>1, <3>2
  <2>12. ButtonWaiting'
    BY <1>1, <1>3, <2>1, <2>2, <2>3, <2>11 DEF ButtonWaiting
  <2>13. ButtonPipe'
    BY <1>1, <1>3, <1>16, <2>12 DEF ButtonPipe
  <2>14. EncPipe'
    BY <1>20 DEF EncPipe, Turning
  <2>15. byCode = <<>>
    BY <1>1 DEF CalInv
  <2>16. \A c \in DOMAIN byCode : FALSE
    BY <2>15
  <2>17. (\A v \in DOMAIN seen : seen[v].code = EnLo + 1) /\ \A d \in {1, 5, -1} : d \in DOMAIN seen
    BY <1>1 DEF FiledInv
  <2>18. FiledInv'
    BY <1>1, <1>20, <2>16, <2>17 DEF FiledInv
  <2> QED
    BY <1>14, <2>13, <2>14, <2>18
<1> QED
  BY <1>1, <1>19, <1>20

(* The rows are of buttons that were asked, each once.                       *)
LEMMA RowsBound ==
  ASSUME SweepAssumption, SweepTypes, CalibrationRight, RowsInv, SweepButton
  PROVE  /\ IsFiniteSet({k[1] : k \in DOMAIN rows})'
         /\ stage' = "buttons" =>
              DOMAIN rows' \subseteq {<<Key(m), Edge(m)>> : m \in 1 .. number' - 1}
PROOF
<1>1. PICK own : own = From(candidates, "button")
  OBVIOUS
<1>2. PICK asked : asked = <<Key(number), Edge(number)>>
  OBVIOUS
<1>3. DOMAIN rows' \subseteq DOMAIN rows \cup {asked}
  BY <1>1, <1>2, RowAdded
<1>4. stage = "buttons" /\ Asking /\ number \in Nat \ {0}
  <2>1. stage = "buttons" /\ Asking
    BY DEF SweepButton, Judging, Asking, After
  <2> QED
    BY <2>1, Asked DEF SweepTypes
<1>5. IsFiniteSet({k[1] : k \in DOMAIN rows} \cup {asked[1]})
  BY FS_AddElement DEF RowsInv
<1>6. {k[1] : k \in DOMAIN rows'} \subseteq {k[1] : k \in DOMAIN rows} \cup {asked[1]}
  BY <1>3
<1>7. IsFiniteSet({k[1] : k \in DOMAIN rows'})
  BY <1>5, <1>6, FS_Subset
<1>8. ASSUME stage' = "buttons", NEW l \in DOMAIN rows'
      PROVE  l \in {<<Key(m), Edge(m)>> : m \in 1 .. number' - 1}
  <2>1. number' = number + 1
    BY <1>4, <1>8 DEF SweepButton, Proceed, After
  <2>2. CASE l = asked
    <3>1. number \in 1 .. number' - 1
      BY <1>4, <2>1
    <3> QED
      BY <1>2, <2>2, <3>1
  <2>3. CASE l \in DOMAIN rows
    <3>1. PICK m \in 1 .. number - 1 : l = <<Key(m), Edge(m)>>
      BY <1>4, <2>3 DEF RowsInv
    <3>2. m \in 1 .. number' - 1
      BY <1>4, <2>1
    <3> QED
      BY <3>1, <3>2
  <2> QED
    BY <1>3, <2>2, <2>3
<1> QED
  BY <1>7, <1>8

(* The sweep of the buttons begins with at most the last turn under way.     *)
LEMMA ButtonsBegin ==
  ASSUME SweepAssumption, SweepTypes, WaitInv, CalInv, EncPipe, ~crashed, SignCheck,
         stage' = "buttons"
  PROVE  ButtonPipe'
PROOF
<1>1. /\ stage = "sign" /\ at = "judge" /\ Asking /\ Turning /\ Proceed
      /\ UNCHANGED <<kept, outbox, candidates, crashed>>
  BY DEF SignCheck, Judging, Asking, After, Turning, window, firmware
<1>2. at' = "inject" /\ number' = 1 /\ number = 4
  BY <1>1, SMTT(30) DEF Proceed, SweepTypes, Asks
<1>3. PICK q : q = Question
  OBVIOUS
<1>4. q = EncoderEvent(EnLo, 1)
  BY <1>1, <1>2, <1>3, Asked DEF SignDeltas
<1>5. \/ kept["encoders"] = <<>> /\ outbox = <<>>
      \/ kept["encoders"] = <<>> /\ outbox = <<q>>
      \/ kept["encoders"] = <<q>> /\ outbox = <<>>
  BY <1>1, <1>3, EncJudged
<1>6. kept["special"] = <<>>
  BY <1>1 DEF CalInv
<1>7. Len(<<>>) = 0
  OBVIOUS
<1>8. outbox = <<q>> => Len(outbox) = 1 /\ outbox[1] = q
  OBVIOUS
<1>9. Len(outbox) \in {0, 1} /\ (outbox # <<>> => outbox[1].ret = "encoder")
  BY <1>4, <1>5, <1>7, <1>8 DEF EncoderEvent
<1>10. \A i \in DOMAIN <<>> : FALSE
  OBVIOUS
<1>11. kept["encoders"] \in {<<>>, <<EncoderEvent(EnLo, 1)>>}
  BY <1>4, <1>5
<1>12. Len(outbox) + Len(kept["special"]) <= 1
  <2>1. Len(kept["special"]) = 0
    BY <1>6, <1>7
  <2>2. PICK n \in {0, 1} : n = Len(outbox)
    BY <1>9
  <2>3. n + 0 <= 1
    OBVIOUS
  <2> QED
    BY <2>1, <2>2, <2>3
<1>13. ButtonWaiting'
  BY <1>1, <1>2, <1>6, <1>9, <1>12 DEF ButtonWaiting
<1> QED
  BY <1>1, <1>2, <1>6, <1>10, <1>11, <1>13 DEF ButtonPipe

(* What is known of the records on their way and of those filed.             *)
Pipes == EncPipe /\ (~crashed => FiledInv) /\ ButtonPipe /\ RowsInv

(* Every step keeps it.                                                      *)
LEMMA PipesNext ==
  SweepAssumption /\ SweepTypes /\ WaitInv /\ CalInv /\ CalibrationRight /\ Pipes
    /\ [SweepNext]_sweepVars
    => Pipes'
PROOF
<1> SUFFICES ASSUME SweepAssumption, SweepTypes, WaitInv, CalInv, CalibrationRight, Pipes,
                    [SweepNext]_sweepVars
             PROVE  Pipes'
  OBVIOUS
<1>1. EncPipe /\ (~crashed => FiledInv) /\ ButtonPipe /\ RowsInv
  BY DEF Pipes
<1>2. CASE Inject
  <2>1. /\ UNCHANGED <<stage, number, cal, seen, rows, byCode, crashed>> /\ Asking
        /\ at = "inject" /\ at' = "wait"
    BY <1>2, Injected DEF report
  <2>2. RowsInv'
    BY <1>1, <2>1 DEF RowsInv, Duplicate
  <2>3. ~crashed => FiledInv'
    BY <1>1, <2>1 DEF FiledInv, SignDeltas
  <2>4. EncPipe'
    <3>1. ASSUME Turning, ~crashed PROVE \E b \in 0..2 : EncWindow(b)'
      <4>1. EncWaiting
        BY <1>1, <2>1, <3>1 DEF EncPipe
      <4> QED
        BY <1>2, <3>1, <4>1, EncInject
    <3>2. Turning' = Turning
      BY <2>1 DEF Turning
    <3> QED
      BY <2>1, <3>1, <3>2 DEF EncPipe
  <2>5. ButtonPipe'
    <3>1. ASSUME stage = "buttons", ~crashed
          PROVE  /\ kept'["encoders"] \in {<<>>, <<EncoderEvent(EnLo, 1)>>}
                 /\ \A i \in DOMAIN kept'["special"] : kept'["special"][i].ret = "button"
                 /\ \E b \in 0..1 : ButtonWindow(b)'
      <4>1. /\ ButtonWaiting /\ \A i \in DOMAIN kept["special"] : kept["special"][i].ret = "button"
            /\ kept["encoders"] \in {<<>>, <<EncoderEvent(EnLo, 1)>>}
        BY <1>1, <2>1, <3>1 DEF ButtonPipe
      <4> QED
        BY <1>2, <3>1, <4>1, ButtonInject
    <3> QED
      BY <2>1, <3>1 DEF ButtonPipe
  <2> QED
    BY <2>1, <2>2, <2>3, <2>4, <2>5 DEF Pipes
<1>3. CASE Chunk \/ Crash \/ WaitCrashed
  <2>1. /\ at # "inject" /\ at' # "inject" /\ Stream' = Stream /\ (crashed => crashed')
        /\ UNCHANGED <<stage, number, cal, seen, rows, byCode, kept>>
    BY <1>3, Waited DEF report
  <2>2. RowsInv'
    BY <1>1, <2>1 DEF RowsInv, Duplicate
  <2>3. ~crashed' => FiledInv'
    BY <1>1, <2>1 DEF FiledInv, SignDeltas
  <2>4. EncPipe'
    <3>1. ASSUME NEW b \in 0..2, EncWindow(b) PROVE EncWindow(b)'
      <4>1. Question' = Question /\ Earlier' = Earlier /\ Missing' = Missing
        BY <2>1 DEF Question, Earlier, Missing, Key, Edge
      <4> QED
        BY <2>1, <3>1, <4>1 DEF EncWindow
    <3> QED
      BY <1>1, <2>1, <3>1 DEF EncPipe, Turning
  <2>5. ButtonPipe'
    <3>1. ASSUME NEW b \in 0..1, ButtonWindow(b) PROVE ButtonWindow(b)'
      <4>1. /\ Question' = Question /\ Duplicate' = Duplicate /\ SpecialKey' = SpecialKey
            /\ Even' = Even /\ Pressed' = Pressed /\ Owned(Key(number))' = Owned(Key(number))
            /\ \A r : Late(r)' <=> Late(r)
        BY <2>1 DEF Question, Duplicate, SpecialKey, Even, Pressed, Owned, Late, Key, Edge
      <4>2. (Late(kept["special"][1])' <=> Late(kept["special"][1]))
            /\ (Late(Stream[1])' <=> Late(Stream[1]))
        BY <2>1, <4>1 DEF Late, Owned, Key
      <4> QED
        BY <2>1, <3>1, <4>1, <4>2 DEF ButtonWindow
    <3> QED
      BY <1>1, <2>1, <3>1 DEF ButtonPipe
  <2> QED
    BY <2>2, <2>3, <2>4, <2>5 DEF Pipes
<1>4. CASE Calibrate
  <2>1. /\ stage = "calibrate" /\ UNCHANGED <<seen, rows, byCode, crashed>>
        /\ stage' \in {"calibrate", "sign", "fatal"}
        /\ stage' = "sign" => /\ number' = 1 /\ at' = "inject" /\ outbox' = <<>>
                              /\ kept'["encoders"] = <<>>
    BY <1>4, CalJudge DEF Calibrate, Judging
  <2>2. RowsInv'
    BY <1>1, <2>1 DEF RowsInv, Duplicate
  <2>3. ButtonPipe'
    BY <2>1 DEF ButtonPipe
  <2>4. EncPipe'
    <3>1. stage' = "sign" => EncWaiting'
      <4>1. stage' = "sign" => Earlier' = {} /\ ~Missing' /\ Len(outbox') <= 1
        BY <2>1 DEF Earlier, Missing
      <4> QED
        BY <2>1, <4>1 DEF EncWaiting
    <3> QED
      BY <2>1, <3>1 DEF EncPipe, Turning
  <2>5. FiledInv'
    <3>1. seen' = <<>> /\ byCode' = <<>>
      BY <2>1 DEF CalInv
    <3>2. \A c \in DOMAIN <<>> : FALSE
      OBVIOUS
    <3>3. stage' = "sign" => \A m \in 1 .. number' - 2 : FALSE
      BY <2>1
    <3> QED
      BY <2>1, <3>1, <3>2, <3>3 DEF FiledInv
  <2> QED
    BY <2>2, <2>3, <2>4, <2>5 DEF Pipes
<1>5. CASE SignCheck
  <2>1. /\ stage = "sign" /\ stage' \in {"sign", "buttons"} /\ UNCHANGED <<rows, crashed>>
        /\ rows = <<>>
    BY <1>5, StageAfter DEF SignCheck, CalInv
  <2>2. RowsInv'
    <3>1. DOMAIN rows = {}
      BY <2>1
    <3> QED
      BY <1>1, <2>1, <3>1 DEF RowsInv, Duplicate
  <2>3. ~crashed => EncPipe' /\ FiledInv'
    BY <1>1, <1>5, SignNext
  <2>4. ~crashed => ButtonPipe'
    <3>1. stage' = "sign" => ButtonPipe'
      BY DEF ButtonPipe
    <3> QED
      BY <1>1, <1>5, <2>1, <3>1, ButtonsBegin
  <2>5. crashed => EncPipe' /\ ButtonPipe'
    BY <2>1 DEF EncPipe, ButtonPipe
  <2> QED
    BY <2>1, <2>2, <2>3, <2>4, <2>5 DEF Pipes
<1>6. CASE SweepButton
  <2>1. crashed' = crashed
    BY <1>6 DEF SweepButton
  <2>2. ~crashed => /\ EncPipe' /\ ButtonPipe' /\ FiledInv'
                    /\ Duplicate' \/ \A k \in DOMAIN rows' : rows'[k] = k[1]
    BY <1>1, <1>6, ButtonNext
  <2>3. crashed => EncPipe' /\ ButtonPipe'
    BY <2>1 DEF EncPipe, ButtonPipe
  <2>4. RowsInv'
    BY <1>1, <1>6, <2>1, <2>2, RowsBound DEF RowsInv
  <2> QED
    BY <2>1, <2>2, <2>3, <2>4 DEF Pipes
<1>7. CASE SweepEncoder \/ FlushEncoder
  <2>1. /\ UNCHANGED <<rows, crashed>> /\ stage' \in {"encoders", "flush", "done"}
    BY <1>7, StageAfter DEF SweepEncoder, FlushEncoder
  <2>2. RowsInv' /\ ButtonPipe'
    BY <1>1, <2>1 DEF RowsInv, Duplicate, ButtonPipe
  <2>3. ~crashed => EncPipe' /\ FiledInv'
    BY <1>1, <1>7, EncoderNext, FlushNext
  <2>4. crashed => EncPipe'
    BY <2>1 DEF EncPipe
  <2> QED
    BY <2>1, <2>2, <2>3, <2>4 DEF Pipes
<1>8. CASE UNCHANGED sweepVars
  <2>1. UNCHANGED <<stage, number, at, candidates, outbox, kept, cal, seen, rows, byCode, crashed>>
    BY <1>8 DEF sweepVars, window, firmware, report
  <2>2. RowsInv' = RowsInv
    BY <2>1 DEF RowsInv, Duplicate
  <2>3. FiledInv' = FiledInv
    BY <2>1 DEF FiledInv, SignDeltas
  <2>4. Question' = Question /\ Stream' = Stream /\ Earlier' = Earlier /\ Missing' = Missing
    BY <2>1 DEF Question, Stream, Earlier, Missing, Key, Edge
  <2>5. EncPipe' = EncPipe
    <3>1. EncWaiting' = EncWaiting
      BY <2>1, <2>4 DEF EncWaiting
    <3>2. \A b \in 0..2 : EncWindow(b)' = EncWindow(b)
      BY <2>1, <2>4 DEF EncWindow
    <3> QED
      BY <2>1, <3>1, <3>2 DEF EncPipe, Turning
  <2>6. ButtonPipe' = ButtonPipe
    <3>1. ButtonWaiting' = ButtonWaiting
      BY <2>1 DEF ButtonWaiting, Duplicate, SpecialKey, Even, Pressed, Owned, Late, Key
    <3>2. \A b \in 0..1 : ButtonWindow(b)' = ButtonWindow(b)
      BY <2>1, <2>4 DEF ButtonWindow, Duplicate, SpecialKey, Even, Pressed, Owned, Late, Key
    <3> QED
      BY <2>1, <3>1, <3>2 DEF ButtonPipe
  <2> QED
    BY <1>1, <2>1, <2>2, <2>3, <2>5, <2>6 DEF Pipes
<1> QED
  BY <1>2, <1>3, <1>4, <1>5, <1>6, <1>7, <1>8 DEF SweepNext

(* The sweep begins with nothing under way.                                  *)
LEMMA SweepBegins == SweepAssumption /\ SweepInit => SweepInvariant
PROOF
<1> SUFFICES ASSUME SweepAssumption, SweepInit PROVE SweepInvariant
  OBVIOUS
<1>1. /\ stage = "calibrate" /\ number = 1 /\ at = "inject" /\ candidates = <<>> /\ redraws = 0
      /\ probe = [total |-> 0, last |-> 0, got |-> FALSE, quiet |-> 0]
      /\ cal = <<>> /\ seen = <<>> /\ rows = <<>> /\ byCode = <<>>
      /\ kept = [k \in {"encoders", "special"} |-> <<>>]
      /\ outbox = <<>> /\ burst = 0 /\ crashed = FALSE
  BY DEF SweepInit
<1>2. \A i \in DOMAIN <<>> : FALSE
  OBVIOUS
<1>3. kept["encoders"] = <<>> /\ kept["special"] = <<>>
  BY <1>1
<1>4. SweepTypes
  <2>1. Asking /\ number \in 1 .. Asks(stage)
    BY <1>1 DEF Asking, After, Asks
  <2>2. kept \in [{"encoders", "special"} -> Seq(Event)]
    BY <1>1
  <2>3. probe \in [total : Nat, last : Nat, got : BOOLEAN, quiet : Int]
    BY <1>1
  <2>4. candidates \in Seq(Event) /\ outbox \in Seq(Event) /\ cal \in Seq(Event \cup {Noise})
    BY <1>1
  <2>5. redraws \in Nat /\ burst \in Nat /\ crashed \in BOOLEAN /\ stage \in DOMAIN After
        /\ at \in {"inject", "wait", "judge"}
    BY <1>1 DEF After
  <2> QED
    BY <2>1, <2>2, <2>3, <2>4, <2>5 DEF SweepTypes
<1>5. WaitInv
  BY <1>1 DEF WaitInv
<1>6. CalInv
  <2>1. ButtonsInv
    BY <1>1, <1>2, <1>3 DEF ButtonsInv, Stream
  <2>2. Len(cal) = 0
    BY <1>1
  <2> QED
    BY <1>1, <1>3, <2>1, <2>2 DEF CalInv, Drained
<1>7. CalibrationRight
  BY <1>1 DEF CalibrationRight
<1>8. EncPipe /\ ButtonPipe
  BY <1>1 DEF EncPipe, ButtonPipe, Turning
<1>9. FiledInv
  BY <1>1, <1>2 DEF FiledInv
<1>10. RowsInv
  <2>1. DOMAIN rows = {}
    BY <1>1
  <2>2. IsFiniteSet({k[1] : k \in DOMAIN rows})
    <3>1. {k[1] : k \in DOMAIN rows} = {}
      BY <2>1
    <3> QED
      BY <3>1, FS_EmptySet
  <2> QED
    BY <1>1, <2>1, <2>2 DEF RowsInv
<1> QED
  BY <1>4, <1>5, <1>6, <1>7, <1>8, <1>9, <1>10 DEF SweepInvariant

(* Every step keeps the invariant.                                           *)
LEMMA SweepStep == SweepAssumption /\ SweepInvariant /\ [SweepNext]_sweepVars => SweepInvariant'
PROOF
<1> SUFFICES ASSUME SweepAssumption, SweepInvariant, [SweepNext]_sweepVars
             PROVE  SweepInvariant'
  OBVIOUS
<1>1. SweepTypes /\ WaitInv /\ CalInv /\ CalibrationRight /\ Pipes
  BY DEF SweepInvariant, Pipes
<1>2. SweepTypes'
  BY <1>1, TypesNext
<1>3. WaitInv'
  BY <1>1, WaitNext
<1>4. CalInv' /\ CalibrationRight'
  BY <1>1, CalNext
<1>5. Pipes'
  BY <1>1, PipesNext
<1> QED
  BY <1>2, <1>3, <1>4, <1>5 DEF SweepInvariant, Pipes

(* The inductive invariant of the sweep.                                     *)
THEOREM SweepInductive == SweepSpec => []SweepInvariant
PROOF
<1>1. SweepInit => SweepInvariant
  BY SweepBegins, SweepAssumption
<1>2. SweepInvariant /\ [SweepNext]_sweepVars => SweepInvariant'
  BY SweepStep, SweepAssumption
<1> QED
  BY <1>1, <1>2, PTL DEF SweepSpec

(* If calibration ends, it has the firmware's two callers, whatever was late *)
(* or drowned in redraws.                                                    *)
THEOREM SweepCalibrated == SweepSpec => []CalibrationRight
PROOF
<1>1. SweepInvariant => CalibrationRight
  BY DEF SweepInvariant
<1> QED
  BY <1>1, SweepInductive, PTL

(* Unless the emulator stopped, every step of the sign check is confirmed,   *)
(* and in the end every encoder has its row.                                 *)
THEOREM SweepComplete == SweepSpec => []EncodersComplete
PROOF
<1>1. SweepInvariant => EncodersComplete
  <2> SUFFICES ASSUME SweepInvariant, ~crashed PROVE EncodersComplete
    BY DEF EncodersComplete
  <2>1. FiledInv
    BY DEF SweepInvariant
  <2>2. stage \notin {"calibrate", "fatal", "sign"} =>
          \A d \in {1, 5, -1} : d \in DOMAIN seen /\ seen[d].code = EnLo + 1
    BY <2>1 DEF FiledInv
  <2>3. stage = "done" =>
          \A c \in EnLo .. EnHi : c + 1 \in DOMAIN byCode /\ byCode[c + 1].value = 1
    BY <2>1 DEF FiledInv
  <2> QED
    BY <2>2, <2>3 DEF EncodersComplete
<1> QED
  BY <1>1, SweepInductive, PTL

(* A sweep that marks no code as shared has every row right: a late answer   *)
(* repeats the code of a right row.                                          *)
THEOREM SweepUnmarked == SweepSpec => []UnmarkedIsRight
PROOF
<1>1. SweepInvariant => UnmarkedIsRight
  <2> SUFFICES ASSUME SweepInvariant, ~crashed, DuplicateCodes = {}
               PROVE  \A k \in DOMAIN rows : rows[k] = k[1]
    BY DEF UnmarkedIsRight
  <2>1. RowsInv
    BY DEF SweepInvariant
  <2>2. ASSUME NEW k \in DOMAIN rows, NEW l \in DOMAIN rows, rows[k] = rows[l], k[1] # l[1]
        PROVE  FALSE
    <3> DEFINE S == Owners(rows[k])
    <3>1. k[1] \in S /\ l[1] \in S
      BY <2>2 DEF Owners
    <3>2. S \subseteq {m[1] : m \in DOMAIN rows}
      BY DEF Owners
    <3>3. IsFiniteSet(S)
      BY <2>1, <3>2, FS_Subset DEF RowsInv
    <3> HIDE DEF S
    <3>4. IsFiniteSet({k[1]} \cup {l[1]}) /\ Cardinality({k[1]} \cup {l[1]}) = 2
      <4>1. IsFiniteSet({k[1]}) /\ Cardinality({k[1]}) = 1 /\ l[1] \notin {k[1]}
        BY <2>2, FS_Singleton
      <4> QED
        BY <4>1, FS_AddElement
    <3>5. Cardinality({k[1]} \cup {l[1]}) <= Cardinality(S)
      BY <3>1, <3>3, FS_Subset
    <3>6. Cardinality(S) \in Nat
      BY <3>3, FS_CardinalityType
    <3>7. Cardinality(S) > 1
      BY <3>4, <3>5, <3>6
    <3>8. rows[k] \in DuplicateCodes
      BY <3>7 DEF DuplicateCodes, S
    <3> QED
      BY <3>8
  <2>3. ~Duplicate
    BY <2>2 DEF Duplicate
  <2> QED
    BY <2>1, <2>3 DEF RowsInv
<1> QED
  BY <1>1, SweepInductive, PTL
=============================================================================
