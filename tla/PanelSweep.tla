----------------------------- MODULE PanelSweep -----------------------------
(* The sweep of the front panel (tools/panelsweep.py): every button and      *)
(* encoder is worked once, and the record the firmware queues for it is read *)
(* where the firmware sends it.  The firmware may keep a record back until   *)
(* something else of the same kind is worked, so an answer can come in the   *)
(* window of a later question.                                               *)
EXTENDS Integers, Sequences, FiniteSets

CONSTANTS
  ChLo, ChHi,  \* the span of button groups swept, --channels
  BitCount,    \* the buttons of a group, BIT_RANGE
  EnLo, EnHi,  \* the span of encoders swept, --encoders
  Special,     \* button groups whose records the firmware may keep back
  Cap,         \* --probe, in steps of min_chunk instructions
  Quiet,       \* quiet_chunks
  MaxBurst     \* bound: redraw records on their way

ASSUME SweepAssumption ==
  /\ ChLo \in Nat /\ ChHi \in Nat /\ ChLo <= ChHi /\ BitCount \in Nat \ {0}
  /\ EnLo \in Nat /\ EnHi \in Nat /\ EnLo <= EnHi
  /\ Special \subseteq Nat \ {0, 1}
  /\ Cap \in Nat \ {0} /\ Quiet \in Nat \ {0} /\ MaxBurst \in Nat

VARIABLES
  stage,       \* what main is doing
  number,      \* which question of it
  at,          \* "inject", "wait" or "judge"
  candidates,  \* state['candidates']: the panel's records since the question ...
  redraws,     \* ... and how many are a redraw's
  probe,       \* the loop of probe_wait: total, last, got, quiet
  cal,         \* the records calibration picked, in order
  seen,        \* sign_check: encoder records by value
  rows,        \* sweep_buttons: codes got, by button and edge
  byCode,      \* sweep_encoders: encoder records by code
  kept,        \* firmware: the record kept back, per kind of input
  outbox,      \* firmware: records of the panel on their way to queue_send
  burst,       \* firmware: redraw records on their way
  crashed      \* the emulator stopped for another reason than its budget

window == <<candidates, redraws, probe>>
firmware == <<kept, outbox, burst>>
report == <<cal, seen, rows, byCode>>
sweepVars == <<stage, number, at, window, report, firmware, crashed>>

-----------------------------------------------------------------------------
(* Records are what queue_send is handed.  Their callers are told apart by   *)
(* return address; noise is a redraw's, and always the same.                 *)
ButtonEvent(c, b, edge) == [ret |-> "button", code |-> <<c, b>>, value |-> edge]
EncoderEvent(c, delta) == [ret |-> "encoder", code |-> c + 1, value |-> delta]
Noise == [ret |-> "redraw", code |-> 0, value |-> 0]

Calibration ==
  << ButtonEvent(0, 0, "press"), ButtonEvent(0, 0, "release"),
     ButtonEvent(1, 0, "press"), ButtonEvent(1, 0, "release"),
     EncoderEvent(0, 1), EncoderEvent(0, 5), EncoderEvent(1, 1) >>
Drained == 4  \* the question whose answer _drain throws away
SignDeltas == <<1, 5, -1, 1>>

(* Two nested loops and two edges: the button of a question is its number's  *)
(* quotient.                                                                 *)
Key(i) ==
  LET n == (i - 1) \div 2
  IN  <<ChLo + n \div BitCount, n % BitCount>>
Edge(i) == IF i % 2 = 1 THEN "press" ELSE "release"

Asks(s) ==
  CASE s = "calibrate" -> 7
    [] s = "sign" -> 4
    [] s = "buttons" -> 2 * BitCount * (ChHi - ChLo + 1)
    [] OTHER -> EnHi - EnLo + 1
Question ==
  CASE stage = "calibrate" -> Calibration[number]
    [] stage = "sign" -> EncoderEvent(EnLo, SignDeltas[number])
    [] stage = "buttons" -> ButtonEvent(Key(number)[1], Key(number)[2], Edge(number))
    [] stage = "encoders" -> EncoderEvent(EnLo + number - 1, 1)
    [] OTHER -> EncoderEvent(EnHi, 1)

After == [calibrate |-> "sign", sign |-> "buttons", buttons |-> "encoders",
          encoders |-> "flush", flush |-> "done"]
Asking == stage \in DOMAIN After

-----------------------------------------------------------------------------
(* The firmware.  An input flushes what its kind kept back, then is itself   *)
(* sent or kept; it may set off redraws, which come when they like.          *)
Kind(r) == CASE r.ret = "encoder" -> "encoders"
             [] r.ret = "button" /\ r.code[1] \in Special -> "special"
             [] OTHER -> "direct"

Handle(r) ==
  /\ burst' \in burst .. MaxBurst
  /\ IF Kind(r) = "direct"
     THEN outbox' = Append(outbox, r) /\ kept' = kept
     ELSE \/ /\ outbox' = Append(outbox \o kept[Kind(r)], r)
             /\ kept' = [kept EXCEPT ![Kind(r)] = <<>>]
          \/ /\ outbox' = outbox \o kept[Kind(r)]
             /\ kept' = [kept EXCEPT ![Kind(r)] = <<r>>]

(* Candidates are cleared, then the input is fed and probe_wait begins.      *)
Inject ==
  /\ Asking /\ at = "inject"
  /\ candidates' = <<>> /\ redraws' = 0
  /\ IF crashed THEN UNCHANGED firmware ELSE Handle(Question)
  /\ probe' = [total |-> 0, last |-> 0, got |-> FALSE, quiet |-> 0]
  /\ at' = "wait"
  /\ UNCHANGED <<stage, number, report, crashed>>

(* The records probe_wait counts: all in calibration, afterwards those of    *)
(* the caller that calibration found.                                        *)
ButtonCaller == cal[1].ret
EncoderCaller == cal[4].ret
From(records, caller) == {i \in DOMAIN records : records[i].ret = caller}
Counted(records, noise, caller) ==
  Cardinality(From(records, caller)) + IF caller = Noise.ret THEN noise ELSE 0
Wanted(records, noise) ==
  CASE stage = "calibrate" -> Len(records) + noise
    [] stage = "buttons" -> Counted(records, noise, ButtonCaller)
    [] OTHER -> Counted(records, noise, EncoderCaller)

(* One spin of probe_wait.  What the panel has sent arrives in order, in     *)
(* this step or a later one, but before the cap.                             *)
Chunk ==
  /\ Asking /\ at = "wait" /\ ~crashed
  /\ \E n \in 0..Len(outbox), m \in 0..burst :
       LET total == probe.total + 1
           now == candidates \o SubSeq(outbox, 1, n)
           count == Wanted(now, redraws + m)
           more == count > probe.last
           quiet == IF more THEN 0
                    ELSE IF probe.got THEN probe.quiet + 1 ELSE probe.quiet
           still == ~more /\ probe.got /\ quiet >= Quiet
       IN  /\ total = Cap => n = Len(outbox) /\ m = burst
           /\ candidates' = now /\ redraws' = redraws + m
           /\ outbox' = SubSeq(outbox, n + 1, Len(outbox)) /\ burst' = burst - m
           /\ probe' = [total |-> total, last |-> count,
                        got |-> probe.got \/ more, quiet |-> quiet]
           /\ at' = IF still \/ total >= Cap THEN "judge" ELSE "wait"
  /\ UNCHANGED <<stage, number, report, kept, crashed>>

(* spin stops for another reason: probe_wait returns what there is, and      *)
(* nobody asks why.                                                          *)
Crash ==
  /\ Asking /\ at = "wait" /\ ~crashed
  /\ crashed' = TRUE /\ at' = "judge"
  /\ UNCHANGED <<stage, number, window, report, firmware>>

WaitCrashed ==
  /\ Asking /\ at = "wait" /\ crashed
  /\ at' = "judge"
  /\ UNCHANGED <<stage, number, window, report, firmware, crashed>>

-----------------------------------------------------------------------------
Judging(s) == stage = s /\ at = "judge"
Proceed ==
  LET more == number < Asks(stage)
  IN  /\ at' = "inject"
      /\ number' = IF more THEN number + 1 ELSE 1
      /\ stage' = IF more THEN stage ELSE After[stage]
Finish == stage' = "done" /\ at' = "inject" /\ number' = 1
Fail == stage' = "fatal" /\ at' = "judge" /\ number' = number

(* pick_singleton: the caller that fired exactly once, if there is one.      *)
Singles ==
  {candidates[i] : i \in {j \in DOMAIN candidates :
                            From(candidates, candidates[j].ret) = {j}}}
    \cup (IF redraws = 1 THEN {Noise} ELSE {})

(* Plausible bug: identical records pass, too.                               *)
DiffersInBug(r, s, field) ==
  {f \in {"code", "value"} : r[f] # s[f]} \subseteq {field}

(* diff_offset: two records differ in this field and no other.               *)
DiffersIn(r, s, field) ==
  {f \in {"code", "value"} : r[f] # s[f]} = {field}

(* What calibrate asks of the three button records, once the group is let    *)
(* go, and of all six in the end.                                            *)
ButtonsAgree(p) ==
  /\ p[2].ret = p[1].ret /\ p[3].ret = p[1].ret
  /\ DiffersIn(p[1], p[2], "value") /\ DiffersIn(p[1], p[3], "code")

EncodersAgree(p) ==
  /\ p[5].ret = p[4].ret /\ p[6].ret = p[4].ret
  /\ DiffersIn(p[4], p[5], "value") /\ DiffersIn(p[4], p[6], "code")
  /\ p[1].ret # p[4].ret

Accepted(p) ==
  /\ number = Drained => ButtonsAgree(p)
  /\ number = Asks("calibrate") => EncodersAgree(p)

(* A question of calibrate.  The answer to a drain is thrown away.           *)
Calibrate ==
  /\ Judging("calibrate")
  /\ \/ /\ number = Drained
        /\ cal' = cal
        /\ IF Accepted(cal) THEN Proceed ELSE Fail
     \/ /\ number # Drained
        /\ \E r \in Singles : Singles = {r} /\ cal' = Append(cal, r)
        /\ IF Accepted(cal') THEN Proceed ELSE Fail
     \/ /\ number # Drained /\ \A r \in Singles : Singles # {r}
        /\ cal' = cal /\ Fail
  /\ UNCHANGED <<seen, rows, byCode, window, firmware, crashed>>

Oldest(S) == CHOOSE i \in S : \A j \in S : i <= j
Newest(S) == CHOOSE i \in S : \A j \in S : j <= i

(* Later records of one key replace earlier ones.                            *)
Refile(map, own, field) ==
  LET under(k) == {i \in own : candidates[i][field] = k}
  IN  [k \in DOMAIN map \cup {candidates[i][field] : i \in own} |->
         IF under(k) # {} THEN candidates[Newest(under(k))] ELSE map[k]]

SignCheck ==
  /\ Judging("sign")
  /\ seen' = Refile(seen, From(candidates, EncoderCaller), "value")
  /\ Proceed
  /\ UNCHANGED <<cal, rows, byCode, window, firmware, crashed>>

(* A row of sweep_buttons holds the first record of each window.             *)
SweepButton ==
  /\ Judging("buttons")
  /\ LET own == From(candidates, ButtonCaller)
         asked == <<Question.code, Question.value>>
     IN  rows' = IF own = {} THEN rows
                 ELSE [k \in DOMAIN rows \cup {asked} |->
                         IF k = asked THEN candidates[Oldest(own)].code ELSE rows[k]]
  /\ Proceed
  /\ UNCHANGED <<cal, seen, byCode, window, firmware, crashed>>

(* Plausible bug: filed by the encoder that was turned.                      *)
FiledByBug(own) ==
  [c \in DOMAIN byCode \cup (IF own = {} THEN {} ELSE {Question.code}) |->
     IF own # {} /\ c = Question.code THEN candidates[Newest(own)] ELSE byCode[c]]
FiledBy(own) == Refile(byCode, own, "code")
Expected == {c + 1 : c \in EnLo .. EnHi}

SweepEncoder ==
  /\ Judging("encoders")
  /\ byCode' = FiledBy(From(candidates, EncoderCaller))
  /\ IF number = Asks("encoders") /\ Expected \subseteq DOMAIN byCode'
     THEN Finish ELSE Proceed
  /\ UNCHANGED <<cal, seen, rows, window, firmware, crashed>>

(* The extra turns end when every code was seen, or when one got nothing.    *)
FlushEncoder ==
  /\ Judging("flush")
  /\ LET own == From(candidates, EncoderCaller)
     IN  /\ byCode' = FiledBy(own)
         /\ IF own = {} \/ Expected \subseteq DOMAIN byCode' THEN Finish ELSE Proceed
  /\ UNCHANGED <<cal, seen, rows, window, firmware, crashed>>

-----------------------------------------------------------------------------
SweepInit ==
  /\ stage = "calibrate" /\ number = 1 /\ at = "inject"
  /\ candidates = <<>> /\ redraws = 0
  /\ probe = [total |-> 0, last |-> 0, got |-> FALSE, quiet |-> 0]
  /\ cal = <<>> /\ seen = <<>> /\ rows = <<>> /\ byCode = <<>>
  /\ kept = [k \in {"encoders", "special"} |-> <<>>]
  /\ outbox = <<>> /\ burst = 0 /\ crashed = FALSE

SweepNext ==
  \/ Inject \/ Chunk \/ Crash \/ WaitCrashed
  \/ Calibrate \/ SignCheck \/ SweepButton \/ SweepEncoder \/ FlushEncoder

SweepSpec == SweepInit /\ [][SweepNext]_sweepVars

-----------------------------------------------------------------------------
(* What reads back as a press of one button may be the late answer to        *)
(* another; the codes that more than one button got.                         *)
(* Plausible bug: only presses count.                                        *)
OwnersBug(code) ==
  {k[1] : k \in {l \in DOMAIN rows : rows[l] = code /\ l[2] = "press"}}
Owners(code) == {k[1] : k \in {l \in DOMAIN rows : rows[l] = code}}
DuplicateCodes ==
  {code \in {rows[k] : k \in DOMAIN rows} : Cardinality(Owners(code)) > 1}

(* Whatever was kept back, came late or was drowned in redraws: if           *)
(* calibration ends, it has the firmware's two call sites.                   *)
CalibrationRight ==
  stage \notin {"calibrate", "fatal"} =>
    ButtonCaller = "button" /\ EncoderCaller = "encoder"

(* Unless the emulator stopped, every step of the sign check is confirmed by *)
(* a record of the encoder that was turned, and in the end every encoder's   *)
(* row is there and shows the step it was turned by: one more turn gets what *)
(* was kept back of the last.                                                *)
EncodersComplete ==
  ~crashed =>
    /\ stage \notin {"calibrate", "fatal", "sign"} =>
         \A d \in {1, 5, -1} : d \in DOMAIN seen /\ seen[d].code = EnLo + 1
    /\ stage = "done" =>
         \A c \in EnLo .. EnHi : c + 1 \in DOMAIN byCode /\ byCode[c + 1].value = 1

(* A sweep of the buttons that marks no code as shared has every row right:  *)
(* no late answer goes unnoticed, unless the emulator stopped.               *)
UnmarkedIsRight ==
  stage = "done" /\ ~crashed /\ DuplicateCodes = {} =>
    \A k \in DOMAIN rows : rows[k] = k[1]
=============================================================================
