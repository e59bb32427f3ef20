----------------------------- MODULE HostProofs -----------------------------
(* Theorems of the programs on the host: of Ladder, for every set of       *)
(* firmwares and every ladder; of Worker, for any number of emulators and  *)
(* pictures; and of Firmware, for every set of official files and edits and*)
(* every width of a byte, down to the bits of the codec.                   *)
EXTENDS Ladder, Worker, Firmware, SequenceTheorems, FiniteSetTheorems,
        FunctionTheorems, WellFoundedInduction, TLAPS


(* A command that is past need_sections has a MAIN image, and one that is  *)
(* past need_snapshot has boot400M.                                        *)
ThereInv ==
  /\ task.does \in {"mark", "match", "snapshot"} => main # NONE
  /\ task.does = "mark" => main = MainOf[task.syx]
  /\ task.does = "pick" => rung[Default] # Absent

(* A marker tells the truth about the sections while nothing is in doubt,  *)
(* and a run that got past it is of that firmware.                         *)
OriginInv ==
  /\ ~unsure /\ marker \in Firmware /\ task.does # "mark" =>
       main \in {NONE, MainOf[marker]}
  /\ task.does = "snapshot" => marker = task.syx /\ main # NONE
  /\ task.does = "make" /\ task.run => marker = task.syx /\ main # NONE
  /\ task.does \in {"pick", "gui"} => marker = task.syx /\ main # NONE

(* The points that the running make has passed.                            *)
Passed == IF task.does = "make" THEN task.asked \ task.todo ELSE {}

(* A rung is the sidecar's or the running make's own, unless some make of  *)
(* another build was cut short.                                            *)
RungInv ==
  /\ task.does = "make" => task.todo \subseteq task.asked
  /\ \A p \in Passed : rung[p] = task.build
  /\ ~cut /\ sidecar # Absent =>
       \A p \in Point \ Passed : rung[p] \in {Absent, CutOff, sidecar}

(* What a run hands to its panel.                                          *)
HandInv ==
  /\ task.does = "make" /\ task.run => task.build = [img |-> main, models |-> TRUE]
  /\ task.does = "pick" /\ ~cut => sidecar = [img |-> main, models |-> TRUE]
  /\ task.does = "gui" /\ ~cut => task.from = [img |-> main, models |-> TRUE]

Inv == TypeOK /\ ThereInv /\ OriginInv /\ RungInv /\ HandInv

LEMMA AbsentNoBuild == Absent \notin Build /\ CutOff \notin Build /\ Absent # CutOff
  BY LadderAssumption DEF Absent, CutOff, Build

LEMMA InitInv == Init => Inv
PROOF
  <1> SUFFICES ASSUME Init PROVE Inv
    OBVIOUS
  <1> USE AbsentNoBuild DEF Init
  <1>1. TypeOK
    <2>1. rung \in [Point -> Build \cup {Absent, CutOff}]
      OBVIOUS
    <2> QED
      BY <2>1 DEF TypeOK, Tasks, Image
  <1>2. ThereInv /\ HandInv
    BY DEF ThereInv, HandInv, Idle
  <1>3. OriginInv
    BY LadderAssumption DEF OriginInv, Idle
  <1>4. RungInv
    BY DEF RungInv, Passed, Idle
  <1> QED
    BY <1>1, <1>2, <1>3, <1>4 DEF Inv

(* What the fields of a command are, by what it does.                      *)
LEMMA Fields ==
  ASSUME task \in Tasks
  PROVE  /\ task # Idle => task.syx \in Firmware
         /\ task.does = "make" =>
              task \in [does : {"make"}, syx : Firmware, build : Build,
                       asked : SUBSET Point, todo : SUBSET Point, run : BOOLEAN]
         /\ task.does = "nothing" <=> task = Idle
  BY DEF Tasks, Idle

(* A command of the first kind that goes to its next step.                 *)
LEMMA StepType ==
  ASSUME task \in Tasks,
         NEW step \in {"extract", "write", "mark", "match", "snapshot"},
         task.does \in {"extract", "write", "mark", "match", "snapshot"},
         Goto(step)
  PROVE  /\ task' \in Tasks
         /\ task' = [does |-> step, syx |-> task.syx, accept |-> task.accept,
                     run |-> task.run]
PROOF
  <1>1. task \in [does : {"extract", "write", "mark", "match", "snapshot"},
                 syx : Firmware, accept : BOOLEAN, run : BOOLEAN]
    BY DEF Tasks, Idle
  <1> QED
    BY <1>1 DEF Tasks, Goto

(* The steps of extraction and of the checks before a panel.               *)
LEMMA SectionSteps ==
  ASSUME Inv,
         \/ \E f \in Firmware : Extract(f)
         \/ \E f \in Firmware, accept \in BOOLEAN : Run(f, accept)
         \/ RemoveStale \/ WriteSection \/ RecordSource \/ NeedMatchingSections
  PROVE  Inv'
PROOF
  <1> USE LadderAssumption DEF Inv, TypeOK, ThereInv, OriginInv, RungInv, HandInv,
        Passed, Tasks, Idle, disk
  <1>1. ASSUME NEW f \in Firmware, Extract(f) PROVE Inv'
    BY <1>1 DEF Extract, Start
  <1>2. ASSUME NEW f \in Firmware, NEW accept \in BOOLEAN, Run(f, accept) PROVE Inv'
    <2>1. PICK step \in {"extract", "match"} :
            Start(step, f, accept, TRUE) /\ (step = "match" => main # NONE)
      BY <1>2 DEF Run, NeedsSections
    <2> USE <2>1 DEF Start
    <2>2. /\ task' = [does |-> step, syx |-> f, accept |-> accept, run |-> TRUE]
          /\ task'.does = step /\ task.does = "nothing"
          /\ UNCHANGED <<tested, main, marker, rung, sidecar, unsure, cut>>
      OBVIOUS
    <2>3. TypeOK'
      BY <2>2
    <2>4. ThereInv' /\ OriginInv'
      BY <2>2
    <2>5. RungInv' /\ HandInv'
      BY <2>2
    <2> QED
      BY <2>3, <2>4, <2>5
  <1>3. CASE RemoveStale
    BY <1>3 DEF RemoveStale, Goto
  <1>4. CASE WriteSection
    BY <1>4 DEF WriteSection, Goto, Image
  <1>5. CASE RecordSource
    <2> USE <1>5 DEF RecordSource, Goto, Quit
    <2>1. CASE task.run
      <3>1. TypeOK'
        BY <2>1, StepType, ZenonT(40)
      <3>2. ThereInv'
        BY <2>1
      <3>3. OriginInv'
        BY <2>1
      <3>4. RungInv'
        BY <2>1
      <3>5. HandInv'
        BY <2>1
      <3> QED
        BY <3>1, <3>2, <3>3, <3>4, <3>5
    <2>2. CASE ~task.run
      <3>1. TypeOK'
        <4>1. task.syx \in Firmware
          BY Fields
        <4>2. task' = Idle
          BY <2>2
        <4> QED
          BY <4>1, <4>2
      <3>2. ThereInv'
        BY <2>2
      <3>3. OriginInv'
        BY <2>2
      <3>4. RungInv'
        BY <2>2
      <3>5. HandInv'
        BY <2>2
      <3> QED
        BY <3>1, <3>2, <3>3, <3>4, <3>5
    <2> QED
      BY <2>1, <2>2
  <1>6. CASE NeedMatchingSections
    <2> USE <1>6 DEF NeedMatchingSections, Goto, Quit, Matches
    <2>1. CASE marker # NONE /\ marker = task.syx
      BY <2>1
    <2>2. CASE marker = NONE /\ (tested \/ task.accept)
      <3>1. TypeOK'
        BY <2>2, StepType
      <3>2. ThereInv'
        BY <2>2
      <3>3. OriginInv'
        BY <2>2
      <3>4. RungInv'
        BY <2>2
      <3>5. HandInv'
        BY <2>2
      <3> QED
        BY <3>1, <3>2, <3>3, <3>4, <3>5
    <2>3. CASE \/ marker # NONE /\ marker # task.syx
               \/ marker = NONE /\ ~(tested \/ task.accept)
      BY <2>3
    <2> QED
      BY <2>1, <2>2, <2>3
  <1> QED
    BY <1>1, <1>2, <1>3, <1>4, <1>5, <1>6

(* The steps that make a ladder and resume it.                             *)
LEMMA LadderSteps ==
  ASSUME Inv,
         \/ \E f \in Firmware, models \in BOOLEAN, points \in (SUBSET Point) \ {{}} :
              Make(f, models, points)
         \/ NeedSnapshot \/ SaveRung \/ EndMake \/ UsableRung \/ CloseGui
  PROVE  Inv'
PROOF
  <1> USE LadderAssumption, AbsentNoBuild
      DEF Inv, TypeOK, ThereInv, OriginInv, RungInv, HandInv, Passed, Tasks, Idle, disk
  <1>1. ASSUME NEW f \in Firmware, NEW models \in BOOLEAN,
               NEW points \in (SUBSET Point) \ {{}}, Make(f, models, points)
        PROVE  Inv'
    BY <1>1 DEF Make, Making, Build
  <1>2. CASE NeedSnapshot
    <2> USE <1>2 DEF NeedSnapshot, Pick, Making
    <2>1. CASE Fresh
      BY <2>1 DEF Fresh
    <2>2. CASE ~Fresh
      <3>1. TypeOK'
        <4>1. task.syx \in Firmware /\ [img |-> main, models |-> TRUE] \in Build
          BY Fields DEF Build
        <4>2. task' \in [does : {"make"}, syx : Firmware, build : Build,
                        asked : SUBSET Point, todo : SUBSET Point, run : BOOLEAN]
          <5>1. task' = [does |-> "make", syx |-> task.syx,
                         build |-> [img |-> main, models |-> TRUE],
                         asked |-> Point, todo |-> Point, run |-> TRUE]
            BY <2>2
          <5> QED
            BY <4>1, <5>1
        <4> QED
          BY <4>2
      <3>2. ThereInv'
        BY <2>2 DEF Build
      <3>3. OriginInv'
        BY <2>2 DEF Build
      <3>4. RungInv'
        BY <2>2 DEF Build
      <3>5. HandInv'
        BY <2>2 DEF Build
      <3> QED
        BY <3>1, <3>2, <3>3, <3>4, <3>5
    <2> QED
      BY <2>1, <2>2
  <1>3. CASE SaveRung
    BY <1>3 DEF SaveRung
  <1>4. CASE EndMake
    <2> USE <1>4 DEF EndMake, Saved, Pick, Quit
    <2>0. task.syx \in Firmware /\ task.build \in Build
      BY Fields
    <2>1. TypeOK'
      <3>1. task' \in Tasks
        BY <2>0
      <3>2. sidecar' \in Build \cup {Absent} /\ cut' \in BOOLEAN
        BY <2>0
      <3> QED
        BY <3>1, <3>2
    <2>2. ThereInv' /\ OriginInv'
      OBVIOUS
    <2>3. RungInv'
      <3>1. CASE task.asked \ task.todo = Point
        BY <3>1
      <3>2. CASE task.asked \ task.todo # Point
        <4>1. ~cut' => ~cut /\ sidecar = task.build /\ sidecar' = task.build
          BY <3>2
        <4>2. ~cut' => \A p \in Point : rung[p] \in {Absent, CutOff, task.build}
          BY <2>0, <4>1
        <4>3. Passed' = {}
          OBVIOUS
        <4> QED
          BY <4>1, <4>2, <4>3
      <3> QED
        BY <3>1, <3>2
    <2>4. HandInv'
      <3>1. CASE task.asked \ task.todo = Point
        BY <3>1
      <3>2. CASE task.asked \ task.todo # Point
        BY <3>2
      <3> QED
        BY <3>1, <3>2
    <2> QED
      BY <2>1, <2>2, <2>3, <2>4
  <1>5. CASE UsableRung
    <2>1. PICK p \in Point :
            /\ p = Default \/ rung[p] \notin {Absent, CutOff}
            /\ IF rung[p] = CutOff
                 THEN Quit
                 ELSE task' = [does |-> "gui", syx |-> task.syx, from |-> rung[p]]
      BY <1>5 DEF UsableRung
    <2>2. task.does = "pick" /\ UNCHANGED <<tested, disk, unsure, cut>>
      BY <1>5 DEF UsableRung
    <2>3. CASE rung[p] = CutOff
      BY <2>1, <2>2, <2>3 DEF Quit
    <2>4. CASE rung[p] # CutOff
      <3>1. rung[p] \in Build
        BY <2>1, <2>2, <2>4
      <3>2. ~cut => rung[p] = [img |-> main, models |-> TRUE]
        <4>1. ~cut => sidecar = [img |-> main, models |-> TRUE] /\ sidecar # Absent
          BY <2>2 DEF Absent
        <4>2. ~cut => rung[p] \in {Absent, CutOff, sidecar}
          BY <2>2, <4>1
        <4> QED
          BY <3>1, <4>1, <4>2
      <3> QED
        BY <2>1, <2>2, <2>4, <3>1, <3>2
    <2> QED
      BY <2>3, <2>4
  <1>6. CASE CloseGui
    BY <1>6 DEF CloseGui, Quit
  <1> QED
    BY <1>1, <1>2, <1>3, <1>4, <1>5, <1>6

(* Commands that die.                                                      *)
LEMMA DieStep ==
  ASSUME Inv, Die
  PROVE  Inv'
PROOF
  <1> USE LadderAssumption, AbsentNoBuild
      DEF Inv, TypeOK, ThereInv, OriginInv, RungInv, HandInv, Passed, Tasks, Idle, disk,
          Quit
  <1>0. task' = Idle /\ tested' = tested
    BY DEF Die
  <1>1. CASE DieExtracting
    BY <1>0, <1>1 DEF DieExtracting, Image
  <1>2. CASE DieMarking
    BY <1>0, <1>2 DEF DieMarking
  <1>3. CASE DieMaking
    BY <1>0, <1>3, ZenonT(40) DEF DieMaking, Saved
  <1>4. CASE DieElsewhere
    BY <1>0, <1>4 DEF DieElsewhere
  <1> QED
    BY <1>1, <1>2, <1>3, <1>4 DEF Die

LEMMA StutterInv == Inv /\ UNCHANGED vars => Inv'
  BY DEF Inv, TypeOK, ThereInv, OriginInv, RungInv, HandInv, Passed, vars, disk

LEMMA NextInv == Inv /\ [Next]_vars => Inv'
  BY SectionSteps, LadderSteps, DieStep, StutterInv DEF Next

THEOREM Invariance == Spec => []Inv
  <1> QED
    BY InitInv, NextInv, PTL DEF Spec

(* The files and the running command keep their shapes: every make is of   *)
(* an image, and every panel is started on a snapshot.                     *)
THEOREM ShapesKept == Spec => []TypeOK
  <1>1. Inv => TypeOK
    BY DEF Inv
  <1> QED
    BY <1>1, Invariance, PTL

(* emu.run never pairs a firmware with another's sections unless their     *)
(* origin was guessed or an extraction died.                               *)
THEOREM SectionsMatch == Spec => []RightFirmware
  <1>1. Inv => RightFirmware
    BY DEF Inv, TypeOK, OriginInv, RightFirmware, Tasks, Idle
  <1> QED
    BY <1>1, Invariance, PTL

(* emu.run never resumes another build's rung unless a make of another     *)
(* build was cut short.                                                    *)
THEOREM LadderMatches == Spec => []NeverMixed
  <1>1. Inv => NeverMixed
    BY DEF Inv, HandInv, NeverMixed
  <1> QED
    BY <1>1, Invariance, PTL

-----------------------------------------------------------------------------
(* The two threads of the window (Worker): how many workers there are and  *)
(* what is drawn, for every number of emulators, every set of pictures and *)
(* any number of them published.                                           *)
JoinInv ==
  /\ at = [w \in Workers |-> at[w]]
  /\ Joined

(* A worker moves only while it lives, so after a join in time nothing but *)
(* the new emulator's start changes who does.                              *)
LEMMA JoinNext == JoinInv /\ [WorkerNext]_workerVars => JoinInv'
PROOF
<1> SUFFICES ASSUME JoinInv, [WorkerNext]_workerVars PROVE JoinInv'
  OBVIOUS
<1> USE DEF JoinInv, Joined, Alive, Ended
<1>1. ASSUME NEW w \in Workers, NEW here, NEW there, Goes(w, here, there),
             here \notin Ended, here # "none", UNCHANGED <<cur, ui, late>>
      PROVE  JoinInv'
  BY <1>1 DEF Goes
<1>2. ASSUME UNCHANGED <<at, cur, late>>, ui' = ui \/ (ui' # "closed" /\ ui # "closed")
      PROVE  JoinInv'
  BY <1>2
<1>3. ASSUME NEW here, NEW there, To(here, there),
             here \notin Ended, here # "none", UNCHANGED <<cur, ui, late>>
      PROVE  JoinInv'
  <2>1. CASE cur \in Workers
    BY <1>1, <1>3, <2>1 DEF To
  <2>2. CASE cur \notin Workers
    BY <1>3, <2>2 DEF To, Goes
  <2> QED
    BY <2>1, <2>2
<1>4. CASE WorkerStep
  <2>1. CASE Load
    BY <1>3, <2>1 DEF Load, window
  <2>2. CASE LoadFails
    BY <1>3, <2>2 DEF LoadFails, window
  <2>3. CASE Leave
    BY <1>3, <2>3 DEF Leave, window
  <2>4. CASE Chunk
    BY <1>3, <2>4 DEF Chunk, window
  <2>5. CASE Spun
    BY <1>3, <2>5 DEF Spun, window
  <2>6. CASE Halt
    BY <1>3, <2>6 DEF Halt, window
  <2>7. CASE NothingNew
    BY <1>3, <2>7 DEF NothingNew, window
  <2>8. CASE Clear \/ Fill
    BY <1>2, <2>8 DEF Clear, Fill, window
  <2>9. CASE Bump
    <3>1. UNCHANGED <<cur, ui, late>>
      BY <2>9 DEF Bump, window
    <3>2. UNCHANGED at \/ To("publishing", "top")
      BY <2>9 DEF Bump
    <3> QED
      BY <1>2, <1>3, <3>1, <3>2
  <2> QED
    BY <1>4, <2>1, <2>2, <2>3, <2>4, <2>5, <2>6, <2>7, <2>8, <2>9 DEF WorkerStep
<1>5. CASE Guest
  BY <1>2, <1>5 DEF Guest, Pixel, Handover, Compose, window
<1>6. ASSUME NEW w \in Workers, Replaced(w)
      PROVE  JoinInv'
  <2>1. /\ UNCHANGED <<cur, ui, late>>
        /\ \/ \E move \in Onward : Goes(w, move[1], move[2])
           \/ \E there : Goes(w, "top", there)
    BY <1>6 DEF Replaced, window
  <2>2. \A s \in Onward : s[1] \notin Ended /\ s[1] # "none"
    BY DEF Onward
  <2> QED
    BY <1>1, <2>1, <2>2
<1>7. CASE Ensure \/ Look \/ Draw \/ Note \/ Play
  BY <1>2, <1>7 DEF Ensure, Look, Draw, Note, Play
<1>8. CASE Toggle \/ StartReplay \/ StopReplay \/ Restart \/ QuitAll
  BY <1>2, <1>8 DEF Toggle, StartReplay, StopReplay, Restart, QuitAll,
                    Ask, window
<1>9. CASE StartWorker
  <2>1. CASE JoinTimesOut
    BY <1>9, <2>1 DEF StartWorker, JoinTimesOut
  <2>2. CASE Join
    BY <1>9, <2>2 DEF StartWorker, Join
  <2> QED
    BY <1>9, <2>1, <2>2 DEF StartWorker
<1>10. CASE Close
  BY <1>10 DEF Close, Join, JoinTimesOut
<1>11. CASE UNCHANGED workerVars
  BY <1>2, <1>11 DEF workerVars, window
<1> QED
  BY <1>4, <1>5, <1>6, <1>7, <1>8, <1>9, <1>10, <1>11 DEF WorkerNext, UI

(* restart and quit_all: one worker at a time inside the simulator, and    *)
(* none when the window is gone, unless a join has timed out.              *)
THEOREM WorkersJoined == WorkerSpec => []Joined
PROOF
<1>1. WorkerInit => JoinInv
  BY DEF WorkerInit, JoinInv, Joined, Alive
<1>2. JoinInv => Joined
  BY DEF JoinInv
<1> QED
  BY <1>1, <1>2, JoinNext, PTL DEF WorkerSpec

-----------------------------------------------------------------------------
(* `shown` never runs ahead of `version`, and forgets when the control     *)
(* surface goes, so the next one is drawn upon before anything is skipped. *)
LedgerInv ==
  /\ version \in Nat /\ shown \in Int /\ shown <= version /\ cur \in Nat \ {0}
  /\ controls = 0 => shown = NeverShown \/ ui = "restarting"
  /\ ui \in {"looking", "half drawn", "drawn"} => controls # 0
  /\ ui = "restarting" => controls = 0

(* Between two changes of fb, what the UI has read of it is what it holds. *)
PictureInv ==
  writing = "nothing" /\ ~passed =>
    /\ ui = "half drawn" => half = fb
    /\ ui = "drawn" => screen = fb
    /\ ui = "idle" /\ controls # 0 /\ shown = version => screen = fb

DrawInv == LedgerInv /\ PictureInv

LEMMA DrawNext == DrawInv /\ [WorkerNext]_workerVars => DrawInv'
PROOF
<1> SUFFICES ASSUME DrawInv, [WorkerNext]_workerVars PROVE DrawInv'
  OBVIOUS
<1> USE DEF DrawInv, LedgerInv, PictureInv, NeverShown
<1>1. ASSUME UNCHANGED <<fb, writing, version, cur, ui, half, controls, screen, shown, passed>>
      PROVE  DrawInv'
  BY <1>1
<1>2. CASE Load \/ LoadFails \/ Leave \/ Chunk
  BY <1>1, <1>2 DEF Load, LoadFails, Leave, Chunk, picture, window
<1>3. CASE Spun \/ Halt \/ NothingNew
  BY <1>1, <1>3 DEF Spun, Halt, NothingNew, picture, window
<1>4. CASE Clear
  BY <1>4 DEF Clear, window
<1>5. CASE Fill
  BY <1>5 DEF Fill, window
<1>6. CASE Bump
  <2>1. /\ version' = version + 1
        /\ UNCHANGED <<fb, cur, ui, half, controls, screen, shown>>
    BY <1>6 DEF Bump, Bumped, window
  <2>2. ui \in {"half drawn", "drawn"} => passed'
    BY <1>6, Zenon DEF Bump, Bumped, Drawing
  <2>3. LedgerInv'
    <3>1. /\ version' \in Nat /\ shown' \in Int /\ shown' <= version'
          /\ cur' \in Nat \ {0}
      <4>1. version \in Nat /\ shown \in Int /\ shown <= version /\ cur \in Nat \ {0}
        OBVIOUS
      <4> HIDE DEF DrawInv, LedgerInv, PictureInv
      <4> QED
        BY <2>1, <4>1
    <3>2. /\ controls = 0 => shown = NeverShown \/ ui = "restarting"
          /\ ui \in {"looking", "half drawn", "drawn"} => controls # 0
          /\ ui = "restarting" => controls = 0
      OBVIOUS
    <3> QED
      BY <2>1, <3>1, <3>2, Zenon
  <2>4. shown # version + 1
    <3>1. shown \in Int /\ version \in Nat /\ shown <= version
      OBVIOUS
    <3> HIDE DEF DrawInv, LedgerInv, PictureInv
    <3> QED
      BY <3>1
  <2>5. PictureInv'
    BY <2>1, <2>2, <2>4, Zenon
  <2> QED
    BY <2>3, <2>5
<1>7. CASE Pixel
  BY <1>7 DEF Pixel, window
<1>8. CASE Handover \/ Compose
  BY <1>1, <1>8 DEF Handover, Compose, picture, window
<1>9. ASSUME NEW w \in Workers, Replaced(w)
      PROVE  DrawInv'
  BY <1>1, <1>9 DEF Replaced, picture, window
<1>10. CASE Ensure
  BY <1>10 DEF Ensure, picture
<1>11. CASE Look
  BY <1>11 DEF Look, picture
<1>12. CASE Draw
  BY <1>12 DEF Draw, picture
<1>13. CASE Note
  BY <1>13 DEF Note, picture
<1>14. CASE Play
  BY <1>14 DEF Play, picture
<1>15. CASE Toggle \/ StartReplay \/ StopReplay
  BY <1>1, <1>15 DEF Toggle, StartReplay, StopReplay, picture, window
<1>16. CASE Restart \/ QuitAll
  BY <1>16 DEF Restart, QuitAll, Ask, picture
<1>17. CASE StartWorker
  BY <1>17 DEF StartWorker, Begin, Forget
<1>18. CASE Close
  BY <1>18 DEF Close, picture
<1>19. CASE UNCHANGED workerVars
  BY <1>1, <1>19 DEF workerVars, picture, window
<1> QED
  BY <1>2, <1>3, <1>4, <1>5, <1>6, <1>7, <1>8, <1>9, <1>10, <1>11, <1>12, <1>13, <1>14,
     <1>15, <1>16, <1>17, <1>18, <1>19
     DEF WorkerNext, UI, WorkerStep, Guest

(* App.tick: a screen that skips drawing shows what was published last,    *)
(* unless a picture came between its drawing and the noting of a version.  *)
THEOREM ScreenIsCurrent == WorkerSpec => []ScreenCurrent
PROOF
<1>1. WorkerInit => DrawInv
  BY DEF WorkerInit, DrawInv, LedgerInv, PictureInv, NeverShown
<1>2. DrawInv => ScreenCurrent
  BY DEF DrawInv, LedgerInv, PictureInv, ScreenCurrent, Settled
<1> QED
  BY <1>1, <1>2, DrawNext, PTL DEF WorkerSpec

-----------------------------------------------------------------------------
(* Induction and recursion over numbers, stated of sets and functions.     *)

(* A set that holds 0 and with every number the next holds all of them.    *)
LEMMA SetInduction ==
  ASSUME NEW P, 0 \in P, \A n \in Nat : n \in P => n + 1 \in P
  PROVE  Nat \subseteq P
<1> DEFINE T == {n \in Nat : n \notin P}
           R == OpToRel(<, Nat)
<1> SUFFICES ASSUME T # {} PROVE FALSE
  OBVIOUS
<1>1. IsWellFoundedOn(R, Nat)
  BY NatLessThanWellFounded
<1>2. T \subseteq Nat
  OBVIOUS
<1> HIDE DEF T, R
<1>3. PICK m \in T : \A y \in T : <<y, m>> \notin R
  BY <1>1, <1>2, WFMin
<1> USE DEF T
<1>4. m # 0
  OBVIOUS
<1>5. m - 1 \in Nat
  BY <1>4
<1>6. m - 1 \notin P
  BY <1>5
<1>7. <<m - 1, m>> \in R
  BY <1>5 DEF R, OpToRel
<1> QED
  BY <1>3, <1>5, <1>6, <1>7

(* The same up to n.                                                       *)
LEMMA UpTo ==
  ASSUME NEW n \in Nat, NEW P, 0 \in P, \A i \in 1..n : i - 1 \in P => i \in P
  PROVE  0..n \subseteq P
<1> DEFINE Q == {k \in Nat : k <= n => k \in P}
<1>1. 0 \in Q
  OBVIOUS
<1>2. ASSUME NEW k \in Nat, k \in Q PROVE k + 1 \in Q
  <2> SUFFICES ASSUME k + 1 <= n PROVE k + 1 \in P
    OBVIOUS
  <2>1. k + 1 \in 1..n /\ (k + 1) - 1 = k /\ k \in P
    BY <1>2
  <2> QED BY <2>1
<1> HIDE DEF Q
<1>3. Nat \subseteq Q
  BY <1>1, <1>2, SetInduction
<1> QED BY <1>3 DEF Q

(* f takes the steps up to n from x0.                                      *)
Iterates(f, n, S, x0, step) ==
  /\ f \in [0..n -> S]
  /\ f[0] = x0
  /\ \A i \in 1..n : f[i] = step[i][f[i - 1]]

(* A recursive function up to n exists.                                    *)
LEMMA Recursion ==
  ASSUME NEW n \in Nat, NEW S, NEW x0 \in S, NEW step \in [1..n -> [S -> S]]
  PROVE  \E f : Iterates(f, n, S, x0, step)
<1> DEFINE Good(f, k) == f[0] = x0 /\ \A i \in 1..k : f[i] = step[i][f[i - 1]]
           P == {k \in Nat : \E f \in [0..k -> S] : Good(f, k)}
<1>1. 0 \in P
  <2> DEFINE f == [i \in 0..0 |-> x0]
  <2>1. f \in [0..0 -> S] /\ Good(f, 0)
    OBVIOUS
  <2> QED BY <2>1
<1>2. ASSUME NEW k \in 1..n, k - 1 \in P PROVE k \in P
  <2>1. PICK f \in [0..(k - 1) -> S] : Good(f, k - 1)
    BY <1>2
  <2> DEFINE g == [i \in 0..k |-> IF i = k THEN step[k][f[k - 1]] ELSE f[i]]
  <2>2. step[k][f[k - 1]] \in S
    OBVIOUS
  <2>3. g \in [0..k -> S]
    BY <2>2
  <2>4. \A i \in 1..k : i - 1 \in 0..(k - 1) /\ i - 1 # k /\ (i # k => i \in 0..(k - 1))
    OBVIOUS
  <2>5. Good(g, k)
    BY <2>1, <2>4
  <2> HIDE DEF g
  <2>6. \E e \in [0..k -> S] : Good(e, k)
    BY <2>3, <2>5
  <2> HIDE DEF Good
  <2> QED BY <2>6
<1>3. n \in P
  <2> HIDE DEF P
  <2>1. 0..n \subseteq P
    BY <1>1, <1>2, UpTo
  <2> QED BY <2>1
<1>4. PICK f \in [0..n -> S] : Good(f, n)
  BY <1>3
<1> QED BY <1>4 DEF Iterates

(* h takes the same steps, as long as they stay in S.                      *)
Follows(h, n, S, x0, step) ==
  h[0] = x0 /\ \A i \in 1..n : h[i - 1] \in S => h[i] = step[i][h[i - 1]]

Agree(h, f, n) == \A i \in 0..n : h[i] = f[i]

(* There is only one.                                                      *)
LEMMA RecursionOnly ==
  ASSUME NEW n \in Nat, NEW S, NEW x0, NEW step, NEW f, Iterates(f, n, S, x0, step),
         NEW h, Follows(h, n, S, x0, step)
  PROVE  Agree(h, f, n)
<1> DEFINE Same == {i \in 0..n : h[i] = f[i]}
<1>1. 0 \in Same
  BY DEF Iterates, Follows
<1>2. ASSUME NEW i \in 1..n, i - 1 \in Same PROVE i \in Same
  <2>1. f[i - 1] \in S /\ h[i - 1] = f[i - 1]
    BY <1>2 DEF Iterates
  <2> QED BY <2>1 DEF Iterates, Follows
<1>3. 0..n \subseteq Same
  <2> HIDE DEF Same
  <2> QED BY <1>1, <1>2, UpTo
<1> QED BY <1>3 DEF Agree

-----------------------------------------------------------------------------
(* Powers of two, quotients and remainders.                                *)

(* There are n numbers from 1 to n.                                        *)
LEMMA IntervalCard ==
  ASSUME NEW n \in Nat PROVE IsFiniteSet(1..n) /\ Cardinality(1..n) = n
BY FS_Interval

(* Powers of two are numbers.                                              *)
LEMMA PowerNat == ASSUME NEW n \in Nat PROVE 2^n \in Nat
BY IntervalCard, FS_SUBSET, FS_CardinalityType

(* Twice as many sets of n + 1 things as of n.                             *)
LEMMA PowerNext == ASSUME NEW n \in Nat PROVE 2^(n + 1) = 2 * 2^n
<1> DEFINE S == SUBSET (1..n)
           T == SUBSET (1..(n + 1))
           W == {X \in T : n + 1 \in X}
           f == [X \in S |-> X \cup {n + 1}]
<1>1. /\ IsFiniteSet(S) /\ Cardinality(S) = 2^n
      /\ IsFiniteSet(T) /\ Cardinality(T) = 2^(n + 1)
  <2>1. IsFiniteSet(1..n) /\ IsFiniteSet(1..(n + 1))
    BY IntervalCard, n + 1 \in Nat
  <2>2. Cardinality(1..n) = n /\ Cardinality(1..(n + 1)) = n + 1
    BY IntervalCard, n + 1 \in Nat
  <2>3. IsFiniteSet(S) /\ Cardinality(S) = 2^Cardinality(1..n)
    BY <2>1, FS_SUBSET
  <2>4. IsFiniteSet(T) /\ Cardinality(T) = 2^Cardinality(1..(n + 1))
    BY <2>1, FS_SUBSET
  <2> QED BY <2>2, <2>3, <2>4
<1>2. \A X \in S : X \cup {n + 1} \in W /\ (X \cup {n + 1}) \ {n + 1} = X
  OBVIOUS
<1>3. \A Y \in W : Y \ {n + 1} \in S /\ Y = (Y \ {n + 1}) \cup {n + 1}
  OBVIOUS
<1>4. f \in Bijection(S, W)
  <2> HIDE DEF S, W
  <2>1. f \in [S -> W]
    BY <1>2
  <2>2. \A a, b \in S : f[a] = f[b] => a = b
    BY <1>2
  <2>3. \A t \in W : \E s \in S : f[s] = t
    BY <1>3
  <2> QED BY <2>1, <2>2, <2>3, Fun_IsBij
<1>5. IsFiniteSet(W) /\ Cardinality(W) = Cardinality(S)
  <2> HIDE DEF S, W, f
  <2> QED BY <1>1, <1>4, FS_Bijection DEF ExistsBijection
<1>6. T = S \cup W /\ S \cap W = {}
  OBVIOUS
<1>7. Cardinality(T) = Cardinality(S) + Cardinality(W) - Cardinality({})
  <2> HIDE DEF S, W, T
  <2> QED BY <1>1, <1>5, <1>6, FS_Union
<1>8. Cardinality({}) = 0
  BY FS_EmptySet
<1> HIDE DEF S, W, T
<1> QED BY <1>1, <1>5, <1>7, <1>8, PowerNat, n + 1 \in Nat

(* Powers of two are positive.                                             *)
LEMMA PowerPositive == ASSUME NEW n \in Nat PROVE 2^n \in Nat /\ 2^n >= 1
<1> DEFINE P == {k \in Nat : 2^k >= 1}
<1>1. 0 \in P
  BY 2^0 = 1
<1>2. ASSUME NEW k \in Nat, k \in P PROVE k + 1 \in P
  BY <1>2, PowerNat, PowerNext
<1> HIDE DEF P
<1>3. Nat \subseteq P
  BY <1>1, <1>2, SetInduction
<1> QED BY <1>3, PowerNat DEF P

(* Powers of two multiply by adding exponents.                             *)
LEMMA PowerSum ==
  ASSUME NEW a \in Nat, NEW b \in Nat PROVE 2^(a + b) = 2^a * 2^b
<1> DEFINE P == {k \in Nat : 2^(a + k) = 2^a * 2^k}
<1>1. 0 \in P
  BY 2^0 = 1, a + 0 = a, PowerNat
<1>2. ASSUME NEW k \in Nat, k \in P PROVE k + 1 \in P
  <2>1. 2^((a + k) + 1) = 2 * 2^(a + k) /\ 2^(k + 1) = 2 * 2^k
    BY PowerNext, a + k \in Nat
  <2>2. 2^(a + k) = 2^a * 2^k
    BY <1>2
  <2>3. 2^a \in Nat /\ 2^k \in Nat
    BY PowerNat
  <2>4. 2 * (2^a * 2^k) = 2^a * (2 * 2^k)
    BY <2>3
  <2>5. a + (k + 1) = (a + k) + 1
    OBVIOUS
  <2> QED BY <2>1, <2>2, <2>4, <2>5
<1> HIDE DEF P
<1>3. Nat \subseteq P
  BY <1>1, <1>2, SetInduction
<1> QED BY <1>3 DEF P

(* Quotient and remainder.                                                 *)
LEMMA Division ==
  ASSUME NEW a \in Int, NEW m \in Nat \ {0}
  PROVE  /\ a = (m * (a \div m)) + (a % m)
         /\ a \div m \in Int /\ a % m \in 0..(m - 1)
         /\ a \in Nat => a \div m \in Nat
OBVIOUS

(* There is only one quotient and remainder.                               *)
LEMMA DivisionOnly ==
  ASSUME NEW a \in Int, NEW m \in Nat \ {0}, NEW q \in Int, NEW r \in 0..(m - 1), a = m * q + r
  PROVE  a \div m = q /\ a % m = r
OBVIOUS

-----------------------------------------------------------------------------
(* Sums and concatenations: the recursive functions of Bytes and of        *)
(* SequencesExt are what their equations say.                              *)

(* A sum is what its partial sums come to.                                 *)
LEMMA Summed ==
  ASSUME NEW n \in Nat, NEW m \in Nat \ {0}, NEW items \in [1..n -> Int]
  PROVE  \E f \in [0..n -> 0..(m - 1)] :
           /\ f[0] = 0
           /\ \A i \in 1..n : f[i] = (f[i - 1] + items[i]) % m
           /\ SumTo(n, m, items) = f[n]
<1> DEFINE M == 0..(m - 1)
           step == [i \in 1..n |-> [x \in M |-> (x + items[i]) % m]]
           Eq(h) == h = [i \in 0..n |-> IF i = 0 THEN 0 ELSE (h[i - 1] + items[i]) % m]
           g == CHOOSE h : Eq(h)
<1>1. step \in [1..n -> [M -> M]] /\ 0 \in M
  <2>1. \A i \in 1..n : \A x \in M : (x + items[i]) % m \in M
    <3> TAKE i \in 1..n
    <3> TAKE x \in M
    <3>1. x + items[i] \in Int
      OBVIOUS
    <3> QED BY <3>1, Division
  <2> HIDE DEF M
  <2>2. step \in [1..n -> [M -> M]]
    BY <2>1
  <2> QED BY <2>2 DEF M
<1>2. PICK f : Iterates(f, n, M, 0, step)
  <2> HIDE DEF M, step
  <2> QED BY <1>1, Recursion
<1>3. \A i \in 1..n : i - 1 \in 0..n /\ i \in 0..n /\ i # 0
  OBVIOUS
<1>4. /\ f \in [0..n -> M] /\ f[0] = 0
      /\ \A i \in 1..n : f[i] = (f[i - 1] + items[i]) % m
  BY <1>2, <1>3 DEF Iterates
<1>5. Eq(f)
  <2>1. \A i \in 0..n : f[i] = IF i = 0 THEN 0 ELSE (f[i - 1] + items[i]) % m
    BY <1>4
  <2>2. DOMAIN f = 0..n /\ f = [i \in 0..n |-> f[i]]
    BY <1>4
  <2> QED BY <2>1, <2>2
<1>6. Eq(g)
  <2> HIDE DEF Eq
  <2> QED BY <1>5
<1>7. \A i \in 0..n : g[i] = f[i]
  <2> HIDE DEF g
  <2>1. g[0] = 0
    BY <1>6
  <2>2. \A i \in 1..n : g[i] = (g[i - 1] + items[i]) % m
    BY <1>3, <1>6
  <2>3. \A i \in 1..n : g[i - 1] \in M => g[i] = step[i][g[i - 1]]
    BY <1>3, <2>2
  <2> HIDE DEF Eq, step, M
  <2>4. Follows(g, n, M, 0, step)
    BY <2>1, <2>3 DEF Follows
  <2>5. Agree(g, f, n)
    BY <1>2, <2>4, RecursionOnly
  <2> QED BY <2>5 DEF Agree
<1>8. SumTo(n, m, items) = g[n]
  BY DEF SumTo
<1> HIDE DEF g, Eq, step
<1>9. SumTo(n, m, items) = f[n]
  BY <1>7, <1>8
<1> f \in [0..n -> 0..(m - 1)]
  BY <1>4
<1> WITNESS f \in [0..n -> 0..(m - 1)]
<1> QED BY <1>4, <1>9

(* A sum is below its modulus.                                             *)
LEMMA SumIsBounded ==
  ASSUME NEW n \in Nat, NEW m \in Nat \ {0}, NEW items \in [1..n -> Int]
  PROVE  SumTo(n, m, items) \in 0..(m - 1)
<1>1. PICK f \in [0..n -> 0..(m - 1)] :
        /\ f[0] = 0
        /\ \A i \in 1..n : f[i] = (f[i - 1] + items[i]) % m
        /\ SumTo(n, m, items) = f[n]
  BY Summed
<1> QED BY <1>1

(* The parts of ss up to n end at ends in their concatenation.             *)
Laid(ss, n, ends) ==
  /\ ends \in [0..n -> Nat]
  /\ ends[0] = 0
  /\ \A i \in 1..n : ends[i] = ends[i - 1] + Len(ss[i])
  /\ Len(Concat(ss)) = ends[n]
  /\ \A i \in 1..n : \A j \in 1..Len(ss[i]) : Concat(ss)[ends[i - 1] + j] = ss[i][j]

(* What is in a concatenation, and where.                                  *)
LEMMA Concatenated ==
  ASSUME NEW T, NEW n \in Nat, NEW ss \in [1..n -> Seq(T)]
  PROVE  /\ Concat(ss) \in Seq(T)
         /\ \E ends : Laid(ss, n, ends)
<1> DEFINE S == Seq(T)
           step == [i \in 1..n |-> [x \in S |-> IF i = 1 THEN ss[i] ELSE x \o ss[i]]]
           Eq(h) == h = [i \in 1..n |-> IF i = 1 THEN ss[i] ELSE h[i - 1] \o ss[i]]
           g == CHOOSE h : Eq(h)
           g0 == [i \in 0..n |-> IF i = 0 THEN <<>> ELSE g[i]]
<1>1. step \in [1..n -> [S -> S]] /\ <<>> \in S
  OBVIOUS
<1>2. PICK f : Iterates(f, n, S, <<>>, step)
  <2> HIDE DEF S, step
  <2> QED BY <1>1, Recursion
<1>3. \A i \in 1..n : i - 1 \in 0..n /\ i \in 0..n /\ i # 0 /\ (i # 1 => i - 1 \in 1..n)
  OBVIOUS
<1>4. f \in [0..n -> S] /\ f[0] = <<>> /\ \A i \in 1..n : f[i] = f[i - 1] \o ss[i]
  <2>1. f \in [0..n -> S] /\ f[0] = <<>>
    BY <1>2 DEF Iterates
  <2>2. ASSUME NEW i \in 1..n PROVE f[i] = f[i - 1] \o ss[i]
    <3>1. f[i - 1] \in S /\ f[i] = step[i][f[i - 1]]
      BY <1>2, <1>3 DEF Iterates
    <3>2. f[i] = IF i = 1 THEN ss[i] ELSE f[i - 1] \o ss[i]
      BY <3>1
    <3>3. <<>> \o ss[i] = ss[i]
      BY ConcatEmptySeq
    <3>4. i = 1 => f[i - 1] = <<>>
      BY <2>1
    <3> QED BY <3>2, <3>3, <3>4
  <2> QED BY <2>1, <2>2
<1>5. \E h : Eq(h)
  <2> DEFINE h == [i \in 1..n |-> f[i]]
  <2>1. \A i \in 1..n : f[i] = IF i = 1 THEN ss[i] ELSE f[i - 1] \o ss[i]
    BY <1>2, <1>3 DEF Iterates
  <2>2. \A i \in 1..n : i # 1 => h[i - 1] = f[i - 1]
    BY <1>3
  <2>3. Eq(h)
    BY <2>1, <2>2
  <2> QED BY <2>3
<1>6. Eq(g)
  <2> HIDE DEF Eq
  <2> QED BY <1>5
<1>7. \A i \in 1..n : g[i] = f[i]
  <2>1. g0[0] = <<>>
    BY SMTT(30)
  <2>2. \A i \in 1..n : g0[i - 1] \in S => g0[i] = step[i][g0[i - 1]]
    <3> SUFFICES ASSUME NEW i \in 1..n, g0[i - 1] \in S PROVE g0[i] = step[i][g0[i - 1]]
      OBVIOUS
    <3> HIDE DEF g
    <3>1. g[i] = IF i = 1 THEN ss[i] ELSE g[i - 1] \o ss[i]
      BY <1>6
    <3>2. g0[i] = g[i] /\ (i # 1 => g0[i - 1] = g[i - 1])
      BY <1>3
    <3>3. step[i][g0[i - 1]] = IF i = 1 THEN ss[i] ELSE g0[i - 1] \o ss[i]
      OBVIOUS
    <3> QED BY <3>1, <3>2, <3>3, SMTT(30)
  <2>3. \A i \in 0..n : g0[i] = f[i]
    <3> HIDE DEF g0, g, Eq, step, S
    <3>1. Follows(g0, n, S, <<>>, step)
      BY <2>1, <2>2 DEF Follows
    <3>2. Agree(g0, f, n)
      BY <1>2, <3>1, RecursionOnly
    <3> QED BY <3>2 DEF Agree
  <2> HIDE DEF g
  <2> QED BY <2>3, <1>3
<1>8. Concat(ss) = f[n]
  <2>1. Len(ss) = n
    OBVIOUS
  <2>2. CASE n = 0
    <3>1. Concat(ss) = ss
      BY <2>1, <2>2 DEF Concat, FlattenSeq
    <3>2. ss = <<>>
      BY <2>2
    <3> QED BY <3>1, <3>2, <2>2, <1>4
  <2>3. CASE n # 0
    <3>1. Concat(ss) = g[n]
      BY <2>1, <2>3 DEF Concat, FlattenSeq
    <3> HIDE DEF g, step, Eq
    <3> QED BY <3>1, <2>3, <1>7
  <2> QED BY <2>2, <2>3
<1> HIDE DEF step, g, g0, Eq
<1> DEFINE ends == [i \in 0..n |-> Len(f[i])]
<1>9. /\ ends \in [0..n -> Nat] /\ ends[0] = 0
      /\ \A i \in 1..n : ends[i] = ends[i - 1] + Len(ss[i])
  <2>1. \A i \in 0..n : Len(f[i]) \in Nat
    BY <1>4, LenProperties
  <2>2. \A i \in 1..n : Len(f[i]) = Len(f[i - 1]) + Len(ss[i])
    <3> TAKE i \in 1..n
    <3> DEFINE a == f[i - 1]
               b == ss[i]
    <3>1. a \in Seq(T) /\ b \in Seq(T) /\ f[i] = a \o b
      BY <1>3, <1>4
    <3> HIDE DEF a, b
    <3>2. Len(a \o b) = Len(a) + Len(b)
      BY <3>1, ConcatProperties
    <3> QED BY <3>1, <3>2 DEF a, b
  <2> QED BY <2>1, <2>2, <1>4, <1>3
<1> DEFINE P == {k \in 0..n : \A i \in 1..k : \A j \in 1..Len(ss[i]) :
                    /\ ends[i - 1] + j \in 1..Len(f[k])
                    /\ f[k][ends[i - 1] + j] = ss[i][j]}
<1>10. 0 \in P
  OBVIOUS
<1>11. ASSUME NEW k \in 1..n, k - 1 \in P PROVE k \in P
  <2> SUFFICES ASSUME NEW i \in 1..k, NEW j \in 1..Len(ss[i])
               PROVE  /\ ends[i - 1] + j \in 1..Len(f[k])
                      /\ f[k][ends[i - 1] + j] = ss[i][j]
    BY <1>11
  <2>1. /\ f[k - 1] \in Seq(T) /\ ss[k] \in Seq(T) /\ f[k] = f[k - 1] \o ss[k]
        /\ ends[k - 1] = Len(f[k - 1])
    BY <1>3, <1>4
  <2>2. /\ Len(f[k]) = Len(f[k - 1]) + Len(ss[k]) /\ Len(f[k - 1]) \in Nat /\ Len(ss[k]) \in Nat
        /\ \A p \in 1..(Len(f[k - 1]) + Len(ss[k])) :
             f[k][p] = IF p <= Len(f[k - 1]) THEN f[k - 1][p] ELSE ss[k][p - Len(f[k - 1])]
    <3> DEFINE a == f[k - 1]
               b == ss[k]
    <3>1. a \in Seq(T) /\ b \in Seq(T) /\ f[k] = a \o b
      BY <2>1
    <3> HIDE DEF a, b, ends
    <3>2. /\ Len(a \o b) = Len(a) + Len(b)
          /\ \A p \in 1..(Len(a) + Len(b)) :
               (a \o b)[p] = IF p <= Len(a) THEN a[p] ELSE b[p - Len(a)]
      BY <3>1, ConcatProperties
    <3>3. Len(a) \in Nat /\ Len(b) \in Nat
      BY <3>1, LenProperties
    <3> QED BY <3>1, <3>2, <3>3 DEF a, b
  <2>3. CASE i = k
    <3> DEFINE p == ends[k - 1] + j
    <3>1. p \in 1..(Len(f[k - 1]) + Len(ss[k])) /\ ~(p <= Len(f[k - 1])) /\ p - Len(f[k - 1]) = j
      <4> DEFINE x == Len(f[k - 1])
                 y == Len(ss[k])
      <4>1. x \in Nat /\ y \in Nat /\ j \in 1..y /\ p = x + j
        BY <2>1, <2>2, <2>3
      <4> HIDE DEF x, y, p
      <4>2. p \in 1..(x + y) /\ ~(p <= x) /\ p - x = j
        BY <4>1
      <4> QED BY <4>2 DEF x, y
    <3> QED BY <3>1, <2>2, <2>3
  <2>4. CASE i # k
    <3> DEFINE p == ends[i - 1] + j
    <3>0. i \in 1..(k - 1)
      BY <2>4
    <3>1. p \in 1..Len(f[k - 1]) /\ f[k - 1][p] = ss[i][j]
      <4> HIDE DEF ends
      <4> QED BY <1>11, <3>0
    <3>2. p \in 1..(Len(f[k - 1]) + Len(ss[k])) /\ p <= Len(f[k - 1])
      BY <3>1, <2>2, SMTT(30)
    <3> HIDE DEF p
    <3>3. f[k][p] = f[k - 1][p]
      BY <2>2, <3>2
    <3> QED BY <3>1, <3>2, <3>3, <2>2 DEF p
  <2> QED BY <2>3, <2>4
<1>12. n \in P
  <2> HIDE DEF P
  <2>1. 0..n \subseteq P
    BY <1>10, <1>11, UpTo
  <2> QED BY <2>1
<1>13. Concat(ss) \in Seq(T) /\ Len(Concat(ss)) = ends[n]
  BY <1>4, <1>8
<1>14. \A i \in 1..n : \A j \in 1..Len(ss[i]) : Concat(ss)[ends[i - 1] + j] = ss[i][j]
  BY <1>8, <1>12
<1> HIDE DEF ends
<1> QED BY <1>9, <1>13, <1>14 DEF Laid

-----------------------------------------------------------------------------
(* Bytes in seven bits (here, of B - 1): build.encode_8in7 and the loop of *)
(* container.decode_syx undo each other.                                   *)

(* A byte is one bit more than its low part.                               *)
LEMMA Widths ==
  /\ B \in Nat /\ B >= 2 /\ B - 1 \in Nat \ {0}
  /\ 2^(B - 1) \in Nat \ {0}
  /\ 2^B = 2 * 2^(B - 1)
  /\ 2^(2 * B) = 2^B * 2^B
  /\ 2^B \in Nat \ {0} /\ 2^(2 * B) \in Nat \ {0}
<1>1. B \in Nat /\ B >= 2 /\ B - 1 \in Nat \ {0}
  BY BytesAssumption
<1>2. 2^(B - 1) \in Nat \ {0} /\ 2^B \in Nat \ {0}
  <2>1. B - 1 \in Nat
    BY <1>1
  <2>2. 2^(B - 1) \in Nat /\ 2^(B - 1) >= 1 /\ 2^B \in Nat /\ 2^B >= 1
    BY <2>1, <1>1, PowerPositive
  <2> QED BY <2>2
<1>3. 2^B = 2 * 2^(B - 1)
  <2>1. (B - 1) + 1 = B /\ B - 1 \in Nat
    BY <1>1
  <2>2. 2^((B - 1) + 1) = 2 * 2^(B - 1)
    BY <2>1, PowerNext
  <2> QED BY <2>1, <2>2
<1>4. 2^(2 * B) = 2^B * 2^B
  <2>1. B + B = 2 * B
    BY <1>1
  <2>2. 2^(B + B) = 2^B * 2^B
    BY <1>1, PowerSum
  <2> QED BY <2>1, <2>2
<1>5. 2^(2 * B) \in Nat \ {0}
  BY <1>2, <1>4
<1> QED BY <1>1, <1>2, <1>3, <1>4, <1>5

(* A byte is its high bit and its low part.                                *)
LEMMA ByteSplit ==
  ASSUME NEW b \in Byte
  PROVE  /\ High(b) \in {0, 1}
         /\ b % 2^(B - 1) \in 0..(2^(B - 1) - 1)
         /\ b = (b % 2^(B - 1)) + 2^(B - 1) * High(b)
<1> DEFINE k == 2^(B - 1)
<1>1. k \in Nat \ {0} /\ b \in 0..(2 * k - 1)
  BY Widths DEF Byte
<1> HIDE DEF k
<1>2. /\ b = (k * (b \div k)) + (b % k)
      /\ b \div k \in Nat /\ b % k \in 0..(k - 1)
  <2>1. b \in Int /\ b \in Nat
    BY <1>1
  <2> QED BY <1>1, <2>1, Division
<1>3. b \div k < 2
  <2>1. SUFFICES ASSUME b \div k >= 2 PROVE FALSE
    BY <1>2
  <2>2. k * (b \div k) >= k * 2
    BY <1>1, <1>2, <2>1
  <2> QED BY <1>1, <1>2, <2>2
<1>4. b \div k \in {0, 1}
  BY <1>2, <1>3
<1>5. High(b) = b \div k
  BY DEF High, k
<1>6. b % k = b % 2^(B - 1) /\ k = 2^(B - 1)
  BY DEF k
<1> QED BY <1>2, <1>4, <1>5, <1>6

(* Twice a half.                                                           *)
LEMMA Doubled ==
  ASSUME NEW a \in Nat, NEW q \in Nat, NEW b \in {0, 1}
  PROVE  (2 * a) * q + b * a = a * (2 * q + b)
OBVIOUS

(* One bit more stays below the next power.                                *)
LEMMA StillBelow ==
  ASSUME NEW a \in Int, NEW x \in Int, NEW c \in Nat \ {0}, NEW top \in Nat,
         a >= 0, a <= top - 2 * c, x >= 0, x <= c
  PROVE  a + x \in 0..(top - c)
OBVIOUS

Halves(p, n) ==
  /\ p \in [0..n -> Nat \ {0}]
  /\ \A i \in 1..n : p[i - 1] = 2 * p[i]

BitSums(f, n, p, bits, m) ==
  /\ f \in [0..n -> Int]
  /\ f[0] = 0
  /\ \A i \in 1..n : f[i] = (f[i - 1] + bits[i] * p[i]) % m

(* The sum after i bits: a multiple of the power they have come down to,   *)
(* the last bit lowest, and less than one more unit of any power before.   *)
BitsSoFar(f, p, bits, i) ==
  /\ \A j \in 0..i : f[i] - f[j] \in 0..(p[j] - p[i])
  /\ \E q \in Nat : f[i] = p[i] * q /\ (i # 0 => q % 2 = bits[i])

(* One more bit summed.                                                    *)
LEMMA NextBit ==
  ASSUME NEW n \in Nat, NEW p, Halves(p, n), NEW m \in Nat, p[0] <= m,
         NEW bits \in [1..n -> {0, 1}], NEW f, BitSums(f, n, p, bits, m),
         NEW i \in 1..n, BitsSoFar(f, p, bits, i - 1)
  PROVE  BitsSoFar(f, p, bits, i)
<1>1. /\ i - 1 \in 0..n /\ i \in 0..n /\ 0 \in 0..n
      /\ p[i] \in Nat \ {0} /\ p[i - 1] = 2 * p[i] /\ p[0] \in Nat
      /\ f[i - 1] \in Int /\ f[0] = 0 /\ bits[i] \in {0, 1}
  BY SMTT(30) DEF Halves, BitSums
<1>2. f[i] = (f[i - 1] + bits[i] * p[i]) % m
  BY DEF BitSums
<1>3. f[i - 1] - f[0] \in 0..(p[0] - p[i - 1])
  <2>1. 0 \in 0..(i - 1)
    OBVIOUS
  <2> QED BY <2>1 DEF BitsSoFar
<1>4. bits[i] * p[i] \in {0, p[i]}
  BY <1>1
<1>5. f[i - 1] + bits[i] * p[i] \in 0..(m - 1)
  <2> DEFINE x == bits[i] * p[i]
  <2>1. x \in {0, p[i]}
    BY <1>4
  <2> HIDE DEF x
  <2>2. x >= 0 /\ x <= p[i] /\ x \in Int
    BY <2>1, <1>1
  <2>3. f[i - 1] >= 0 /\ f[i - 1] <= p[0] - 2 * p[i]
    BY <1>1, <1>3
  <2>4. f[i - 1] + x \in 0..(p[0] - p[i])
    BY <2>2, <2>3, <1>1, StillBelow
  <2>5. f[i - 1] + x \in 0..(m - 1)
    BY <2>4, <1>1, SMTT(30)
  <2> QED BY <2>5 DEF x
<1>6. f[i] = f[i - 1] + bits[i] * p[i]
  <2> DEFINE x == f[i - 1] + bits[i] * p[i]
  <2>1. x \in 0..(m - 1) /\ f[i] = x % m
    BY <1>2, <1>5
  <2> HIDE DEF x
  <2>2. x % m = x
    BY <2>1
  <2> QED BY <2>1, <2>2 DEF x
<1>7. \A j \in 0..i : f[i] - f[j] \in 0..(p[j] - p[i])
  <2> TAKE j \in 0..i
  <2>1. f[i] \in Int
    BY <1>1 DEF BitSums
  <2>2. CASE j = i
    BY <2>2, <2>1, <1>1
  <2>3. CASE j # i
    <3>1. j \in 0..(i - 1) /\ j \in 0..n
      BY <2>3
    <3>2. f[i - 1] - f[j] \in 0..(p[j] - p[i - 1]) /\ f[j] \in Int /\ p[j] \in Nat
      BY <3>1 DEF BitsSoFar, BitSums, Halves
    <3> DEFINE x == bits[i] * p[i]
    <3>3. x \in {0, p[i]} /\ f[i] = f[i - 1] + x
      BY <1>4, <1>6
    <3> HIDE DEF x
    <3>4. x >= 0 /\ x <= p[i] /\ x \in Int
      BY <3>3, <1>1
    <3>5. f[i - 1] - f[j] >= 0 /\ f[i - 1] - f[j] <= p[j] - 2 * p[i]
      BY <3>2, <1>1
    <3>6. f[i - 1] - f[j] \in Int
      BY <3>2, <1>1
    <3>7. (f[i - 1] - f[j]) + x \in 0..(p[j] - p[i])
      BY <3>2, <3>4, <3>5, <3>6, <1>1, StillBelow
    <3>8. f[i] - f[j] = (f[i - 1] - f[j]) + x
      <4> DEFINE a == f[i]
                 b == f[i - 1]
                 c == f[j]
      <4>1. a = b + x /\ b \in Int /\ c \in Int
        BY <3>2, <3>3, <1>1
      <4> HIDE DEF a, b, c
      <4>2. a - c = (b - c) + x
        BY <3>4, <4>1
      <4> QED BY <4>2 DEF a, b, c
    <3> QED BY <3>7, <3>8
  <2> QED BY <2>2, <2>3
<1>8. PICK q \in Nat : f[i - 1] = p[i - 1] * q
  BY DEF BitsSoFar
<1>9. f[i] = p[i] * (2 * q + bits[i])
  <2>1. f[i] = (2 * p[i]) * q + bits[i] * p[i]
    BY <1>1, <1>6, <1>8
  <2> QED BY <2>1, <1>1, Doubled
<1>10. 2 * q + bits[i] \in Nat /\ (2 * q + bits[i]) % 2 = bits[i]
  <2>1. bits[i] = 0 \/ bits[i] = 1
    BY <1>1
  <2>2. (2 * q + 0) % 2 = 0 /\ (2 * q + 1) % 2 = 1
    OBVIOUS
  <2> QED BY <2>1, <2>2
<1> QED BY <1>7, <1>9, <1>10 DEF BitsSoFar

(* Bits summed at falling powers of two are read back by quotients.        *)
LEMMA BitsRead ==
  ASSUME NEW n \in Nat, NEW p, Halves(p, n), NEW m \in Nat, p[0] <= m,
         NEW bits \in [1..n -> {0, 1}], NEW f, BitSums(f, n, p, bits, m)
  PROVE  /\ f[n] \in 0..(p[0] - 1)
         /\ \A j \in 1..n : (f[n] \div p[j]) % 2 = bits[j]
<1> DEFINE P == {i \in 0..n : BitsSoFar(f, p, bits, i)}
<1>1. 0 \in P
  <2>1. f[0] = 0 /\ p[0] \in Nat
    BY DEF BitSums, Halves
  <2>2. f[0] - f[0] \in 0..(p[0] - p[0]) /\ f[0] = p[0] * 0
    BY <2>1
  <2>3. \A j \in 0..0 : j = 0
    OBVIOUS
  <2> QED BY <2>2, <2>3 DEF BitsSoFar
<1>2. ASSUME NEW i \in 1..n, i - 1 \in P PROVE i \in P
  BY <1>2, NextBit
<1>3. \A i \in 0..n : BitsSoFar(f, p, bits, i)
  <2>1. 0..n \subseteq P
    <3> HIDE DEF P
    <3> QED BY <1>1, <1>2, UpTo
  <2> QED BY <2>1
<1>4. n \in 0..n /\ 0 \in 0..n /\ p[n] \in Nat \ {0} /\ p[0] \in Nat \ {0} /\ f[0] = 0 /\ f[n] \in Int
  BY DEF BitSums, Halves
<1>5. \A j \in 0..n : f[n] - f[j] \in 0..(p[j] - p[n])
  BY <1>3, <1>4 DEF BitsSoFar
<1>6. f[n] \in 0..(p[0] - 1)
  BY <1>4, <1>5, SMTT(30)
<1>7. ASSUME NEW j \in 1..n PROVE (f[n] \div p[j]) % 2 = bits[j]
  <2>1. j \in 0..n /\ j # 0 /\ p[j] \in Nat \ {0} /\ f[j] \in Int
    BY DEF BitSums, Halves
  <2>2. PICK q \in Nat : f[j] = p[j] * q /\ q % 2 = bits[j]
    BY <2>1, <1>3 DEF BitsSoFar
  <2>3. f[n] - f[j] \in 0..(p[j] - 1)
    <3> DEFINE x == f[n] - f[j]
               a == p[j]
               b == p[n]
    <3>1. x \in 0..(a - b) /\ a \in Nat \ {0} /\ b \in Nat \ {0}
      BY <2>1, <1>5, <1>4
    <3> HIDE DEF x, a, b
    <3>2. x \in 0..(a - 1)
      BY <3>1
    <3> QED BY <3>2 DEF x, a
  <2>4. f[n] = p[j] * q + (f[n] - f[j])
    BY <2>1, <2>2, <1>4
  <2>5. f[n] \div p[j] = q
    <3> DEFINE a == f[n]
               r == f[n] - f[j]
               d == p[j]
    <3>1. a \in Int /\ r \in 0..(d - 1) /\ a = d * q + r /\ d \in Nat \ {0} /\ q \in Int
      BY <2>1, <2>3, <2>4, <1>4
    <3> HIDE DEF a, r, d
    <3>2. a \div d = q
      BY <3>1, DivisionOnly
    <3> QED BY <3>2 DEF a, d
  <2> QED BY <2>2, <2>5
<1> QED BY <1>6, <1>7

(* build.encode_8in7's marker keeps the high bits of a group.              *)
LEMMA MarkerHolds ==
  ASSUME NEW c \in Seq(Byte), Len(c) <= B - 1
  PROVE  /\ Marker(c) \in 0..(2^(B - 1) - 1)
         /\ \A j \in 1..Len(c) : (Marker(c) \div 2^(B - 1 - j)) % 2 = High(c[j])
<1> DEFINE n == Len(c)
           p == [i \in 0..n |-> 2^(B - 1 - i)]
           bits == [j \in 1..n |-> High(c[j])]
           items == [j \in 1..n |-> High(c[j]) * 2^(B - 1 - j)]
<1>1. n \in Nat /\ n <= B - 1 /\ \A i \in 1..n : c[i] \in Byte
  BY LenProperties
<1> HIDE DEF n
<1>2. p \in [0..n -> Nat \ {0}]
  <2>1. \A i \in 0..n : B - 1 - i \in Nat
    BY <1>1, Widths
  <2>2. \A i \in 0..n : 2^(B - 1 - i) \in Nat \ {0}
    <3> TAKE i \in 0..n
    <3>1. 2^(B - 1 - i) \in Nat /\ 2^(B - 1 - i) >= 1
      BY <2>1, PowerPositive
    <3> QED BY <3>1
  <2> QED BY <2>2
<1>3. \A i \in 1..n : p[i - 1] = 2 * p[i]
  <2> TAKE i \in 1..n
  <2>1. i - 1 \in 0..n /\ i \in 0..n /\ B - 1 - i \in Nat /\ (B - 1 - i) + 1 = B - 1 - (i - 1)
    BY <1>1, Widths
  <2>2. 2^((B - 1 - i) + 1) = 2 * 2^(B - 1 - i)
    BY <2>1, PowerNext
  <2> QED BY <2>1, <2>2
<1>4. p[0] = 2^(B - 1) /\ p[0] < 2^B /\ 2^B \in Nat \ {0}
  <2>1. 0 \in 0..n /\ B - 1 - 0 = B - 1
    BY <1>1, Widths
  <2> QED BY <2>1, Widths
<1>5. bits \in [1..n -> {0, 1}]
  BY <1>1, ByteSplit
<1>6. \A i \in 1..n : items[i] = bits[i] * p[i]
  OBVIOUS
<1>7. items \in [1..n -> Int]
  <2>1. \A i \in 1..n : bits[i] * p[i] \in Int
    <3> HIDE DEF bits, p
    <3> TAKE i \in 1..n
    <3>1. bits[i] \in {0, 1} /\ p[i] \in Nat
      BY <1>2, <1>5
    <3> QED BY <3>1
  <2> QED BY <1>6, <2>1
<1> HIDE DEF items, bits, p
<1>8. PICK f \in [0..n -> 0..(2^B - 1)] :
         /\ f[0] = 0
         /\ \A i \in 1..n : f[i] = (f[i - 1] + items[i]) % 2^B
         /\ SumTo(n, 2^B, items) = f[n]
  BY <1>1, <1>4, <1>7, Summed
<1>9. /\ f[n] \in 0..(p[0] - 1)
      /\ \A j \in 1..n : (f[n] \div p[j]) % 2 = bits[j]
  <2> DEFINE m == 2^B
  <2>1. m \in Nat /\ p[0] <= m
    <3> DEFINE x == p[0]
    <3>1. 0 \in 0..n
      BY <1>1
    <3>2. x \in Nat /\ m \in Nat /\ x < m
      BY <1>2, <1>4, <3>1
    <3> HIDE DEF x, m
    <3>3. x <= m
      BY <3>2
    <3> QED BY <3>2, <3>3 DEF x
  <2>2. Halves(p, n)
    BY <1>2, <1>3 DEF Halves
  <2>3. f \in [0..n -> Int]
    BY <1>4
  <2>4. BitSums(f, n, p, bits, m)
    BY <2>3, <1>6, <1>8 DEF BitSums
  <2> HIDE DEF m
  <2>5. n \in Nat
    BY <1>1
  <2>6. /\ f[n] \in 0..(p[0] - 1)
        /\ \A j \in 1..n : (f[n] \div p[j]) % 2 = bits[j]
    BY <1>5, <2>1, <2>2, <2>4, <2>5, BitsRead, SMTT(30)
  <2> QED BY <2>6
<1>10. Marker(c) = f[n]
  BY <1>8 DEF Marker, items, n
<1>11. \A j \in 1..n : p[j] = 2^(B - 1 - j) /\ bits[j] = High(c[j])
  BY DEF p, bits
<1> QED BY <1>4, <1>9, <1>10, <1>11 DEF n

(* How many pieces of k there are in n.                                    *)
LEMMA Ceiling ==
  ASSUME NEW n \in Nat, NEW k \in Nat \ {0}
  PROVE  LET c == (n + k - 1) \div k
         IN  /\ c \in Nat /\ n <= k * c
             /\ \A i \in 1..c : k * (i - 1) < n /\ (i < c => k * i < n)
<1> DEFINE a == n + k - 1
           c == a \div k
           r == a % k
<1>1. a \in Nat /\ a = n + k - 1
  OBVIOUS
<1>2. a = k * c + r /\ c \in Nat /\ r \in 0..(k - 1)
  <2> HIDE DEF a
  <2>1. a \in Int
    BY <1>1
  <2> QED BY <1>1, <2>1, Division
<1> HIDE DEF a, c, r
<1>3. n <= k * c
  BY <1>1, <1>2
<1>4. ASSUME NEW i \in 1..c PROVE k * (i - 1) < n
  <2>1. k * i <= k * c
    BY <1>2
  <2>2. k * (i - 1) = k * i - k
    BY <1>2
  <2> QED BY <1>1, <1>2, <2>1, <2>2
<1>5. ASSUME NEW i \in 1..c, i < c PROVE k * i < n
  <2>1. i + 1 \in 1..c /\ (i + 1) - 1 = i
    BY <1>2, <1>5
  <2>2. k * ((i + 1) - 1) < n
    BY <2>1, <1>4
  <2> QED BY <2>1, <2>2
<1>6. c = (n + k - 1) \div k
  BY DEF a, c
<1> QED BY <1>2, <1>3, <1>4, <1>5, <1>6

(* Products keep order.                                                    *)
LEMMA Times ==
  ASSUME NEW k \in Nat, NEW i \in Nat \ {0}
  PROVE  k * (i - 1) \in Nat /\ k * i \in Nat /\ k * i = k * (i - 1) + k
<1>1. i - 1 \in Nat
  OBVIOUS
<1>2. k * (i - 1) \in Nat /\ k * i \in Nat
  BY <1>1
<1> QED BY <1>2

(* What piece i of s, in pieces of k, holds and how long it is.            *)
IsPiece(s, k, i) ==
  LET p == Piece(s, k, i)
  IN  /\ k * (i - 1) < Len(s)
      /\ Len(p) = IF k * i < Len(s) THEN k ELSE Len(s) - k * (i - 1)
      /\ Len(p) \in 1..k
      /\ i < PieceCount(s, k) => Len(p) = k
      /\ \A j \in 1..Len(p) : p[j] = s[k * (i - 1) + j]

(* The pieces of a sequence.                                               *)
LEMMA Pieces ==
  ASSUME NEW T, NEW s \in Seq(T), NEW k \in Nat \ {0}
  PROVE  /\ PieceCount(s, k) \in Nat
         /\ Len(s) <= k * PieceCount(s, k)
         /\ \A i \in 1..PieceCount(s, k) : Piece(s, k, i) \in Seq(T) /\ IsPiece(s, k, i)
<1> DEFINE n == Len(s)
           c == PieceCount(s, k)
<1>1. n \in Nat /\ \A j \in 1..n : s[j] \in T
  BY LenProperties
<1>2. /\ c \in Nat /\ n <= k * c
      /\ \A i \in 1..c : k * (i - 1) < n /\ (i < c => k * i < n)
  BY <1>1, Ceiling DEF PieceCount
<1> HIDE DEF n, c
<1>3. ASSUME NEW i \in 1..c
      PROVE  /\ k * (i - 1) < n
             /\ Piece(s, k, i) \in Seq(T)
             /\ Len(Piece(s, k, i)) = IF k * i < n THEN k ELSE n - k * (i - 1)
             /\ Len(Piece(s, k, i)) \in 1..k
             /\ i < c => Len(Piece(s, k, i)) = k
             /\ \A j \in 1..Len(Piece(s, k, i)) : Piece(s, k, i)[j] = s[k * (i - 1) + j]
  <2> DEFINE from == k * (i - 1)
             to == IF k * i < n THEN k * i ELSE n
             len == IF k * i < n THEN k ELSE n - from
  <2>1. k * i = from + k /\ from \in Nat /\ from < n
    <3>1. i \in Nat \ {0} /\ k \in Nat
      BY <1>2
    <3> QED BY <1>2, <3>1, Times
  <2>2. k * i \in Nat
    BY <1>2
  <2> HIDE DEF from
  <2>3. from + 1 \in Int /\ to \in Int /\ to - (from + 1) + 1 = len /\ len \in 1..k /\ to <= n
        /\ from + 1 <= to
    BY <2>1, <2>2, <1>1
  <2>4. \A j \in (from + 1)..to : s[j] \in T
    BY <1>1, <2>1, <2>3
  <2>5. Piece(s, k, i) = SubSeq(s, from + 1, to)
    BY DEF Piece, from, n
  <2> HIDE DEF to, len
  <2>6. /\ SubSeq(s, from + 1, to) \in Seq(T)
        /\ Len(SubSeq(s, from + 1, to)) = len
        /\ \A j \in 1..len : SubSeq(s, from + 1, to)[j] = s[from + 1 + j - 1]
    <3>1. /\ SubSeq(s, from + 1, to) \in Seq(T)
          /\ Len(SubSeq(s, from + 1, to)) = IF from + 1 <= to THEN to - (from + 1) + 1 ELSE 0
          /\ \A j \in 1..(to - (from + 1) + 1) : SubSeq(s, from + 1, to)[j] = s[from + 1 + j - 1]
      BY <2>3, <2>4, SubSeqProperties
    <3> QED BY <3>1, <2>3
  <2>7. \A j \in 1..len : from + 1 + j - 1 = from + j
    BY <2>1, <2>3
  <2>8. i < c => len = k
    BY <1>2 DEF len
  <2>9. \A j \in 1..len : SubSeq(s, from + 1, to)[j] = s[from + j]
    BY <2>6, <2>7
  <2>10. from < n /\ len = IF k * i < n THEN k ELSE n - from
    BY <2>1 DEF len
  <2>11. from = k * (i - 1)
    BY DEF from
  <2> HIDE DEF len, to
  <2> QED BY <2>3, <2>5, <2>6, <2>8, <2>9, <2>10, <2>11
<1> QED BY <1>2, <1>3 DEF n, c, IsPiece

Low == 0..(2^(B - 1) - 1)

(* A group of up to B - 1 bytes is its marker and their low parts.         *)
LEMMA GroupEncoded ==
  ASSUME NEW c \in Seq(Byte), Len(c) <= B - 1
  PROVE  /\ EncodeGroup(c) \in Seq(Low)
         /\ Len(EncodeGroup(c)) = Len(c) + 1
         /\ EncodeGroup(c)[1] = Marker(c)
         /\ \A j \in 1..Len(c) : EncodeGroup(c)[j + 1] = c[j] % 2^(B - 1)
<1> DEFINE n == Len(c)
           low == [j \in 1..n |-> c[j] % 2^(B - 1)]
           m == Marker(c)
<1>1. m \in Low
  BY MarkerHolds DEF Low
<1>2. n \in Nat /\ \A j \in 1..n : c[j] % 2^(B - 1) \in Low
  <2>1. n \in Nat /\ \A j \in 1..n : c[j] \in Byte
    BY LenProperties
  <2> QED BY <2>1, ByteSplit DEF Low
<1>3. EncodeGroup(c) = <<m>> \o low
  BY DEF EncodeGroup
<1> HIDE DEF m, n
<1>4. low \in Seq(Low) /\ Len(low) = n /\ \A j \in 1..n : low[j] = c[j] % 2^(B - 1)
  BY <1>2
<1> HIDE DEF low
<1>5. <<m>> \in Seq(Low) /\ Len(<<m>>) = 1 /\ <<m>>[1] = m
  BY <1>1
<1>6. /\ <<m>> \o low \in Seq(Low)
      /\ Len(<<m>> \o low) = 1 + n
      /\ \A i \in 1..(1 + n) : (<<m>> \o low)[i] = IF i <= 1 THEN <<m>>[i] ELSE low[i - 1]
  BY <1>4, <1>5, ConcatProperties
<1>7. 1 \in 1..(1 + n) /\ \A j \in 1..n : j + 1 \in 1..(1 + n) /\ ~(j + 1 <= 1) /\ (j + 1) - 1 = j
  BY <1>2
<1> QED BY <1>2, <1>3, <1>4, <1>5, <1>6, <1>7 DEF m, n

(* What build.encode_8in7 writes and where.                                *)
LEMMA Encoded ==
  ASSUME NEW data \in Seq(Byte)
  PROVE  /\ PieceCount(data, B - 1) \in Nat
         /\ Encode8in7(data) \in Seq(Low)
         /\ Len(Encode8in7(data)) = Len(data) + PieceCount(data, B - 1)
         /\ \A g \in 1..PieceCount(data, B - 1) :
              \A j \in 1..Len(Piece(data, B - 1, g)) :
                /\ Encode8in7(data)[B * (g - 1) + 1 + j] = data[(B - 1) * (g - 1) + j] % 2^(B - 1)
                /\ (Encode8in7(data)[B * (g - 1) + 1] \div 2^(B - 1 - j)) % 2
                     = High(data[(B - 1) * (g - 1) + j])
<1> DEFINE d == B - 1
           n == Len(data)
           N == PieceCount(data, d)
           piece(g) == Piece(data, d, g)
           ss == [g \in 1..N |-> EncodeGroup(piece(g))]
           E == Encode8in7(data)
<1>1. d \in Nat \ {0} /\ B = d + 1 /\ B \in Nat /\ n \in Nat
  BY Widths, LenProperties
<1>2. /\ N \in Nat /\ n <= d * N
      /\ \A g \in 1..N :
           /\ d * (g - 1) < n
           /\ piece(g) \in Seq(Byte)
           /\ Len(piece(g)) = IF d * g < n THEN d ELSE n - d * (g - 1)
           /\ Len(piece(g)) \in 1..d
           /\ g < N => Len(piece(g)) = d
           /\ \A j \in 1..Len(piece(g)) : piece(g)[j] = data[d * (g - 1) + j]
  <2> HIDE DEF d
  <2>1. d \in Nat \ {0}
    BY <1>1
  <2>2. PieceCount(data, d) \in Nat /\ Len(data) <= d * PieceCount(data, d)
    BY <2>1, Pieces
  <2>3. \A g \in 1..PieceCount(data, d) : Piece(data, d, g) \in Seq(Byte) /\ IsPiece(data, d, g)
    BY <2>1, Pieces
  <2> QED BY <2>2, <2>3 DEF IsPiece
<1> HIDE DEF n, N, piece
<1>3. \A g \in 1..N :
         /\ ss[g] \in Seq(Low) /\ Len(ss[g]) = Len(piece(g)) + 1
         /\ ss[g][1] = Marker(piece(g))
         /\ \A j \in 1..Len(piece(g)) : ss[g][j + 1] = piece(g)[j] % 2^(B - 1)
  <2> TAKE g \in 1..N
  <2>1. piece(g) \in Seq(Byte) /\ Len(piece(g)) <= B - 1
    BY <1>1, <1>2
  <2>2. ss[g] = EncodeGroup(piece(g))
    OBVIOUS
  <2> HIDE DEF ss
  <2> QED BY <2>1, <2>2, GroupEncoded
<1>4. ss \in [1..N -> Seq(Low)] /\ E = Concat(ss)
  BY <1>3 DEF Encode8in7, N, piece, d
<1> HIDE DEF ss, E
<1>5. Concat(ss) \in Seq(Low)
  BY <1>2, <1>4, Concatenated
<1>6. PICK ends : Laid(ss, N, ends)
  BY <1>2, <1>4, Concatenated
<1> DEFINE P == {i \in 0..N : (i < N => ends[i] = B * i) /\ (i = N => ends[i] = n + N)}
<1>7. 0 \in P
  <2>1. N = 0 => n = 0
    BY <1>1, <1>2
  <2>2. B * 0 = 0 /\ 0 \in 0..N
    BY <1>1, <1>2
  <2> QED BY <1>6, <1>1, <2>1, <2>2 DEF Laid
<1>8. ASSUME NEW i \in 1..N, i - 1 \in P PROVE i \in P
  <2>1. i \in Nat \ {0} /\ i - 1 < N /\ i \in 0..N /\ d \in Nat
    BY <1>1, <1>2
  <2>2. ends[i - 1] = B * (i - 1)
    BY <1>8, <2>1
  <2>3. B * i = B * (i - 1) + B /\ d * i = d * (i - 1) + d /\ B * (i - 1) = d * (i - 1) + (i - 1)
    BY <1>1, <2>1, Times
  <2>4. ends[i] = B * (i - 1) + (Len(piece(i)) + 1)
    BY <1>3, <1>6, <2>2 DEF Laid
  <2>5. i < N => ends[i] = B * i
    <3>1. i < N => Len(piece(i)) = d
      BY <1>2
    <3>2. B * (i - 1) \in Nat
      BY <1>1, <2>1
    <3> QED BY <1>1, <2>3, <2>4, <3>1, <3>2
  <2>6. ASSUME i = N PROVE ends[i] = n + N
    <3>1. Len(piece(i)) = n - d * (i - 1)
      BY <1>1, <1>2, <2>6
    <3>2. d * (i - 1) \in Nat
      BY <2>1, Times
    <3> QED BY <1>1, <1>2, <2>3, <2>4, <2>6, <3>1, <3>2
  <2> QED BY <2>1, <2>5, <2>6
<1>9. \A i \in 0..N : i \in P
  <2>1. 0..N \subseteq P
    <3> HIDE DEF P
    <3> QED BY <1>2, <1>7, <1>8, UpTo
  <2> QED BY <2>1
<1>10. Len(E) = n + N
  BY <1>2, <1>4, <1>6, <1>9 DEF Laid
<1>11. ASSUME NEW g \in 1..N, NEW j \in 1..Len(piece(g))
       PROVE  /\ E[B * (g - 1) + 1 + j] = data[d * (g - 1) + j] % 2^(B - 1)
              /\ (E[B * (g - 1) + 1] \div 2^(B - 1 - j)) % 2 = High(data[d * (g - 1) + j])
  <2>1. g - 1 \in 0..N /\ g - 1 < N
    <3>1. N \in Nat
      BY <1>2
    <3> QED BY <3>1
  <2>2. ends[g - 1] = B * (g - 1)
    BY <1>9, <2>1
  <2>3. Len(piece(g)) \in Nat /\ Len(piece(g)) >= 1 /\ Len(piece(g)) <= B - 1
    BY <1>1, <1>2
  <2>4. 1 \in 1..Len(ss[g]) /\ j + 1 \in 1..Len(ss[g])
    BY <1>3, <2>3
  <2>5. E[B * (g - 1) + 1] = Marker(piece(g)) /\ E[B * (g - 1) + (j + 1)] = piece(g)[j] % 2^(B - 1)
    BY <1>3, <1>4, <1>6, <2>2, <2>4 DEF Laid
  <2>6. piece(g)[j] = data[d * (g - 1) + j] /\ piece(g) \in Seq(Byte)
    BY <1>2
  <2>7. (Marker(piece(g)) \div 2^(B - 1 - j)) % 2 = High(piece(g)[j])
    BY <2>3, <2>6, MarkerHolds
  <2>8. B * (g - 1) + 1 + j = B * (g - 1) + (j + 1)
    <3>1. B * (g - 1) \in Int
      BY <1>1, <1>2
    <3> QED BY <3>1, <2>3
  <2> HIDE DEF d
  <2> QED BY <2>5, <2>6, <2>7, <2>8
<1> QED BY <1>2, <1>4, <1>5, <1>10, <1>11 DEF n, N, piece, E

(* Where byte i of an encoding of n bytes in c groups of up to b - 1 is.   *)
GroupOf(i, b) == ((i - 1) \div b) + 1
PlaceIn(i, b) == (i - 1) % b

At(i, b, g, j) ==
  /\ i \in Nat \ {0} /\ g \in Nat \ {0} /\ j \in 0..(b - 1)
  /\ i = b * (g - 1) + 1 + j

(* Byte i stands in one group, at one place.                               *)
LEMMA Position ==
  ASSUME NEW b \in Nat, b >= 2, NEW i \in Nat \ {0}
  PROVE  /\ At(i, b, GroupOf(i, b), PlaceIn(i, b))
         /\ i % b = 1 <=> PlaceIn(i, b) = 0
<1> DEFINE q == (i - 1) \div b
           r == (i - 1) % b
<1>1. i - 1 = b * q + r /\ q \in Nat /\ r \in 0..(b - 1)
  <2>1. i - 1 \in Int /\ i - 1 \in Nat /\ b \in Nat \ {0}
    OBVIOUS
  <2> QED BY <2>1, Division
<1>2. GroupOf(i, b) = q + 1 /\ PlaceIn(i, b) = r
  BY DEF GroupOf, PlaceIn
<1> HIDE DEF q, r
<1>3. i = b * q + (r + 1)
  BY <1>1
<1>4. CASE r = b - 1
  <2>1. i = b * (q + 1) + 0 /\ q + 1 \in Int /\ 0 \in 0..(b - 1) /\ i \in Int /\ b \in Nat \ {0}
    BY <1>1, <1>3, <1>4
  <2>2. i % b = 0
    BY <2>1, DivisionOnly
  <2> QED BY <1>1, <1>2, <1>3, <1>4, <2>2 DEF At
<1>5. CASE r # b - 1
  <2>1. r + 1 \in 0..(b - 1) /\ i \in Int /\ b \in Nat \ {0} /\ q \in Int
    BY <1>1, <1>5
  <2>2. i % b = r + 1
    BY <2>1, <1>3, DivisionOnly
  <2> QED BY <1>1, <1>2, <1>3, <2>2 DEF At
<1> QED BY <1>4, <1>5

(* A group and a place are of one byte.                                    *)
LEMMA PositionOnly ==
  ASSUME NEW b \in Nat, b >= 2, NEW g, NEW j, NEW i, At(i, b, g, j)
  PROVE  GroupOf(i, b) = g /\ PlaceIn(i, b) = j
<1> DEFINE a == i - 1
           q == g - 1
<1>1. a \in Int /\ b \in Nat \ {0} /\ q \in Int /\ a = b * q + j
  <2>1. b * q \in Int
    BY DEF At
  <2> HIDE DEF q
  <2> QED BY <2>1 DEF q, At
<1> HIDE DEF a, q
<1>2. a \div b = q /\ a % b = j
  <2>1. j \in 0..(b - 1)
    BY DEF At
  <2> QED BY <1>1, <2>1, DivisionOnly
<1> QED BY <1>2 DEF a, q, GroupOf, PlaceIn, At

(* From one byte to the next: on in the group, or to the next group.       *)
LEMMA NextPosition ==
  ASSUME NEW b \in Nat, b >= 2, NEW i \in Nat \ {0}, i # 1
  PROVE  /\ PlaceIn(i, b) # 0 => /\ GroupOf(i - 1, b) = GroupOf(i, b)
                                 /\ PlaceIn(i - 1, b) = PlaceIn(i, b) - 1
         /\ PlaceIn(i, b) = 0 => /\ GroupOf(i - 1, b) = GroupOf(i, b) - 1
                                 /\ GroupOf(i, b) > 1
                                 /\ PlaceIn(i - 1, b) = b - 1
<1> DEFINE g == GroupOf(i, b)
           j == PlaceIn(i, b)
<1>1. g \in Nat \ {0} /\ j \in 0..(b - 1) /\ i = b * (g - 1) + 1 + j
  BY Position DEF At
<1> HIDE DEF g, j
<1>2. i - 1 \in Nat \ {0}
  OBVIOUS
<1>3. ASSUME j # 0 PROVE GroupOf(i - 1, b) = g /\ PlaceIn(i - 1, b) = j - 1
  <2>1. j - 1 \in 0..(b - 1) /\ i - 1 = b * (g - 1) + 1 + (j - 1)
    BY <1>1, <1>3
  <2> DEFINE h == i - 1
             l == j - 1
  <2>2. h \in Nat \ {0} /\ l \in 0..(b - 1) /\ h = b * (g - 1) + 1 + l
    BY <1>2, <2>1
  <2> HIDE DEF h, l
  <2>3. At(h, b, g, l)
    BY <1>1, <2>2 DEF At
  <2>4. GroupOf(h, b) = g /\ PlaceIn(h, b) = l
    BY <2>3, PositionOnly
  <2> QED BY <2>4 DEF h, l
<1>4. ASSUME j = 0 PROVE GroupOf(i - 1, b) = g - 1 /\ g > 1 /\ PlaceIn(i - 1, b) = b - 1
  <2>1. g > 1
    BY <1>1, <1>4
  <2>2. g - 1 \in Nat \ {0} /\ b - 1 \in 0..(b - 1)
    BY <1>1, <2>1
  <2>3. i - 1 = b * ((g - 1) - 1) + 1 + (b - 1)
    <3>1. b * (g - 1) = b * ((g - 1) - 1) + b
      BY <2>2, Times
    <3>2. b * ((g - 1) - 1) \in Nat
      BY <2>2, Times
    <3> QED BY <1>1, <1>4, <3>1, <3>2
  <2> DEFINE h == i - 1
             l == b - 1
             f == g - 1
  <2>4. h \in Nat \ {0} /\ l \in 0..(b - 1) /\ f \in Nat \ {0} /\ h = b * (f - 1) + 1 + l
    BY <1>2, <2>2, <2>3
  <2> HIDE DEF h, l, f
  <2>5. At(h, b, f, l)
    BY <2>4 DEF At
  <2>6. GroupOf(h, b) = f /\ PlaceIn(h, b) = l
    BY <2>5, PositionOnly
  <2> QED BY <2>1, <2>6 DEF h, l, f
<1> QED BY <1>3, <1>4 DEF g, j

(* container.decode_syx undoes build.encode_8in7.                          *)
LEMMA Decoded ==
  ASSUME NEW data \in Seq(Byte)
  PROVE  Decode8in7(Encode8in7(data)) = data
<1> DEFINE d == B - 1
           k == 2^(B - 1)
           n == Len(data)
           N == PieceCount(data, d)
           E == Encode8in7(data)
           m == n + N
           piece(g) == Piece(data, d, g)
           out(i) == IF i % B = 1 THEN <<>>
                     ELSE LET j == (i - 1) % B
                              mark == E[i - j]
                          IN  <<E[i] + 2^(B - 1) * ((mark \div 2^(B - 1 - j)) % 2)>>
           ss == [i \in 1..m |-> out(i)]
           from(i) == d * (GroupOf(i, B) - 1) + PlaceIn(i, B)
<1>1. d \in Nat \ {0} /\ B = d + 1 /\ B \in Nat /\ B >= 2 /\ n \in Nat /\ k \in Nat \ {0}
  BY Widths, LenProperties
<1>2. /\ N \in Nat /\ n <= d * N
      /\ \A g \in 1..N :
           /\ d * (g - 1) < n
           /\ Len(piece(g)) = IF d * g < n THEN d ELSE n - d * (g - 1)
           /\ g < N => Len(piece(g)) = d
  <2> HIDE DEF d
  <2>1. d \in Nat \ {0}
    BY <1>1
  <2>2. PieceCount(data, d) \in Nat /\ Len(data) <= d * PieceCount(data, d)
    BY <2>1, Pieces
  <2>3. \A g \in 1..PieceCount(data, d) : IsPiece(data, d, g)
    BY <2>1, Pieces
  <2> QED BY <2>2, <2>3 DEF IsPiece
<1>3. /\ E \in Seq(Low) /\ Len(E) = m
      /\ \A g \in 1..N : \A j \in 1..Len(piece(g)) :
           /\ E[B * (g - 1) + 1 + j] = data[d * (g - 1) + j] % k
           /\ (E[B * (g - 1) + 1] \div 2^(B - 1 - j)) % 2 = High(data[d * (g - 1) + j])
  BY Encoded
<1> HIDE DEF d, n, N, E, piece
<1>4. m \in Nat /\ N \in Nat /\ n <= d * N /\ d * N \in Nat
  <2>1. N \in Nat /\ n <= d * N
    BY <1>2
  <2> QED BY <1>1, <2>1
<1>5. \A i \in 1..m : /\ GroupOf(i, B) \in 1..N /\ PlaceIn(i, B) \in 0..d
                      /\ i = B * (GroupOf(i, B) - 1) + 1 + PlaceIn(i, B)
                      /\ i % B = 1 <=> PlaceIn(i, B) = 0
                      /\ PlaceIn(i, B) <= Len(piece(GroupOf(i, B)))
                      /\ GroupOf(i, B) = N => PlaceIn(i, B) <= n - d * (N - 1)
  <2> TAKE i \in 1..m
  <2> DEFINE g == GroupOf(i, B)
             j == PlaceIn(i, B)
  <2>1. i \in Nat \ {0} /\ i <= n + N
    BY <1>4
  <2>2. /\ g \in Nat \ {0} /\ j \in 0..d /\ i = B * (g - 1) + 1 + j
        /\ i % B = 1 <=> j = 0
    BY <1>1, <2>1, Position DEF At
  <2> HIDE DEF g, j, m
  <2>3. B * (g - 1) = d * (g - 1) + (g - 1) /\ d * (g - 1) \in Nat /\ d * g = d * (g - 1) + d
    <3>1. d \in Nat
      BY <1>1
    <3>2. d * (g - 1) \in Nat /\ d * g = d * (g - 1) + d
      BY <3>1, <2>2, Times
    <3> QED BY <3>2, <1>1, <2>2
  <2>4. g <= N
    <3> SUFFICES ASSUME g > N PROVE FALSE
      BY <1>4, <2>2
    <3>1. d * (g - 1) >= d * N
      BY <1>1, <1>4, <2>2
    <3>2. i = d * (g - 1) + g + j
      BY <1>1, <2>2, <2>3
    <3> QED BY <1>1, <1>4, <2>1, <2>2, <2>3, <3>1, <3>2
  <2>5. g = N => j <= n - d * (N - 1)
    BY <1>1, <1>2, <2>1, <2>2, <2>3
  <2>6. j <= Len(piece(g))
    <3>1. g \in 1..N
      BY <1>2, <2>2, <2>4
    <3>2. CASE g < N
      BY <1>1, <1>2, <2>2, <3>1, <3>2
    <3>3. CASE g = N
      <4>1. ~(d * g < n)
        BY <1>1, <1>4, <3>3
      <4> QED BY <1>2, <2>5, <3>1, <3>3, <4>1
    <3> QED BY <1>4, <3>1, <3>2, <3>3
  <2>7. g \in 1..N
    BY <1>2, <2>2, <2>4
  <2> QED BY <2>2, <2>5, <2>6, <2>7 DEF g, j
<1>6. \A i \in 1..m : PlaceIn(i, B) # 0 => from(i) \in 1..n
  <2> SUFFICES ASSUME NEW i \in 1..m, PlaceIn(i, B) # 0 PROVE from(i) \in 1..n
    OBVIOUS
  <2> DEFINE g == GroupOf(i, B)
             j == PlaceIn(i, B)
  <2>1. g \in 1..N /\ j \in 1..d /\ j <= Len(piece(g)) /\ (g = N => j <= n - d * (N - 1))
    BY <1>5, <1>1
  <2> HIDE DEF g, j, m
  <2>2. g \in Nat \ {0} /\ d \in Nat
    BY <1>1, <1>2, <2>1
  <2>3. d * (g - 1) \in Nat /\ d * g \in Nat /\ d * g = d * (g - 1) + d
    BY <2>2, Times
  <2>4. d * (g - 1) + j <= n
    <3>1. CASE g = N
      BY <1>1, <2>1, <2>3, <3>1
    <3>2. CASE g # N
      <4>1. g + 1 \in 1..N /\ (g + 1) - 1 = g
        BY <1>2, <2>1, <3>2
      <4>2. d * ((g + 1) - 1) < n
        BY <1>2, <4>1
      <4> QED BY <1>1, <2>1, <2>3, <4>1, <4>2
    <3> QED BY <3>1, <3>2
  <2>5. d * (g - 1) + j \in 1..n
    BY <1>1, <2>1, <2>3, <2>4
  <2> QED BY <2>5 DEF g, j
<1>7. \A q \in 1..n : data[q] \in Byte
  BY LenProperties DEF n
<1>8. \A i \in 1..m : out(i) = IF PlaceIn(i, B) = 0 THEN <<>> ELSE <<data[from(i)]>>
  <2> TAKE i \in 1..m
  <2> DEFINE g == GroupOf(i, B)
             j == PlaceIn(i, B)
  <2>1. CASE j = 0
    BY <1>5, <2>1
  <2>2. CASE j # 0
    <3>1. /\ g \in 1..N /\ j \in 1..Len(piece(g)) /\ i = B * (g - 1) + 1 + j /\ i % B # 1
          /\ j \in 1..d
      BY <1>5, <1>1, <2>2
    <3>2. i - j = B * (g - 1) + 1
      <4>1. B * (g - 1) \in Int
        BY <1>1, <1>2, <3>1
      <4> HIDE DEF g, j
      <4> QED BY <3>1, <4>1
    <3>3. out(i) = <<E[i] + 2^(B - 1) * ((E[i - j] \div 2^(B - 1 - j)) % 2)>>
      BY <3>1 DEF PlaceIn
    <3> DEFINE b == data[d * (g - 1) + j]
    <3>4. E[i] = b % k /\ (E[i - j] \div 2^(B - 1 - j)) % 2 = High(b)
      BY <1>3, <3>1, <3>2
    <3>5. b \in Byte
      <4>1. from(i) \in 1..n /\ from(i) = d * (g - 1) + j
        BY <1>6, <2>2
      <4> QED BY <1>7, <4>1
    <3>6. b = (b % k) + k * High(b)
      BY <3>5, ByteSplit
    <3> QED BY <2>2, <3>3, <3>4, <3>6
  <2> QED BY <2>1, <2>2
<1> HIDE DEF out
<1>9. /\ ss \in [1..m -> Seq(Byte)]
      /\ \A i \in 1..m : /\ PlaceIn(i, B) = 0 => Len(ss[i]) = 0
                         /\ PlaceIn(i, B) # 0 => Len(ss[i]) = 1 /\ ss[i][1] = data[from(i)]
  <2>1. \A i \in 1..m : out(i) \in Seq(Byte)
    <3> TAKE i \in 1..m
    <3>1. CASE PlaceIn(i, B) = 0
      <4>1. out(i) = <<>>
        BY <1>8, <3>1
      <4> QED BY <4>1
    <3>2. CASE PlaceIn(i, B) # 0
      <4>1. data[from(i)] \in Byte /\ out(i) = <<data[from(i)]>>
        BY <1>6, <1>7, <1>8, <3>2
      <4> QED BY <4>1
    <3> QED BY <3>1, <3>2
  <2>2. \A i \in 1..m : ss[i] = out(i)
    OBVIOUS
  <2>3. ss \in [1..m -> Seq(Byte)]
    BY <2>1
  <2> HIDE DEF ss, from
  <2> QED BY <1>8, <2>2, <2>3
<1>10. Decode8in7(E) = Concat(ss)
  BY <1>3 DEF Decode8in7, out
<1> HIDE DEF ss
<1>11. Concat(ss) \in Seq(Byte)
  BY <1>4, <1>9, Concatenated
<1>12. PICK ends : Laid(ss, m, ends)
  BY <1>4, <1>9, Concatenated
<1> DEFINE P == {i \in 0..m : i # 0 => ends[i] = from(i)}
<1>13. 0 \in P
  BY <1>4
<1>14. ASSUME NEW i \in 1..m, i - 1 \in P PROVE i \in P
  <2> DEFINE g == GroupOf(i, B)
             j == PlaceIn(i, B)
  <2>1. ends[i] = ends[i - 1] + Len(ss[i]) /\ ends[i - 1] \in Nat
    BY <1>4, <1>12 DEF Laid
  <2>2. g \in 1..N /\ j \in 0..d /\ i = B * (g - 1) + 1 + j
    BY <1>5
  <2>3. Len(ss[i]) = IF j = 0 THEN 0 ELSE 1
    BY <1>9
  <2> HIDE DEF m, ss
  <2>4. ends[i] = d * (g - 1) + j
    <3>1. CASE i = 1
      <4>1. ends[i - 1] = 0
        BY <1>12, <3>1 DEF Laid
      <4>2. At(i, B, 1, 0)
        <5>1. B * (1 - 1) = 0
          BY <1>1
        <5> QED BY <1>1, <3>1, <5>1 DEF At
      <4>3. g = 1 /\ j = 0
        BY <1>1, <4>2, PositionOnly
      <4>4. d * (1 - 1) = 0
        BY <1>1
      <4> HIDE DEF g, j
      <4> QED BY <2>1, <2>3, <4>1, <4>3, <4>4
    <3>2. CASE i # 1
      <4>1. i \in Nat \ {0} /\ i - 1 # 0
        BY <1>4, <3>2
      <4>2. ends[i - 1] = d * (GroupOf(i - 1, B) - 1) + PlaceIn(i - 1, B)
        BY <1>14, <4>1
      <4>3. /\ j # 0 => GroupOf(i - 1, B) = g /\ PlaceIn(i - 1, B) = j - 1
            /\ j = 0 => GroupOf(i - 1, B) = g - 1 /\ g > 1 /\ PlaceIn(i - 1, B) = B - 1
        BY <1>1, <3>2, <4>1, NextPosition
      <4> HIDE DEF g, j
      <4>4. g \in Nat /\ d * (g - 1) \in Int
        BY <1>1, <1>4, <2>2
      <4>5. CASE j # 0
        BY <1>1, <2>1, <2>2, <2>3, <4>2, <4>3, <4>4, <4>5
      <4>6. CASE j = 0
        <5>1. g - 1 \in Nat \ {0} /\ d \in Nat
          BY <1>1, <4>3, <4>4, <4>6
        <5>2. d * (g - 1) = d * ((g - 1) - 1) + d
          BY <5>1, Times
        <5> QED BY <1>1, <2>1, <2>3, <4>2, <4>3, <4>6, <5>2
      <4> QED BY <4>5, <4>6
    <3> QED BY <3>1, <3>2
  <2> QED BY <2>4, <1>4
<1>15. \A i \in 1..m : ends[i] = from(i)
  <2>1. 0..m \subseteq P
    <3> HIDE DEF P, m
    <3> QED BY <1>4, <1>13, <1>14, UpTo
  <2> HIDE DEF from, m
  <2> QED BY <2>1, <1>4
<1>16. Len(Concat(ss)) = n
  <2>1. Len(Concat(ss)) = ends[m]
    BY <1>12 DEF Laid
  <2>2. CASE m = 0
    <3>1. n = 0
      BY <1>1, <1>4, <2>2
    <3> QED BY <1>12, <2>1, <2>2, <3>1 DEF Laid
  <2>3. CASE m # 0
    <3> DEFINE j == n - d * (N - 1)
    <3>1. N \in Nat \ {0}
      <4>1. CASE N = 0
        <5>1. d * N = 0
          BY <1>1, <4>1
        <5> QED BY <1>1, <1>4, <2>3, <4>1, <5>1
      <4> QED BY <1>4, <4>1
    <3>2. d * N = d * (N - 1) + d /\ d * (N - 1) \in Nat /\ B * (N - 1) = d * (N - 1) + (N - 1)
      <4>1. d \in Nat
        BY <1>1
      <4>2. d * N = d * (N - 1) + d /\ d * (N - 1) \in Nat
        BY <3>1, <4>1, Times
      <4> QED BY <4>2, <1>1, <3>1
    <3>3. d * (N - 1) < n
      <4>1. N \in 1..N
        BY <3>1
      <4> QED BY <1>2, <4>1
    <3>4. j \in 1..d
      BY <1>1, <1>4, <3>2, <3>3
    <3>5. m = B * (N - 1) + 1 + j
      BY <1>1, <3>1, <3>2, <3>4
    <3>6. At(m, B, N, j)
      BY <1>1, <1>4, <2>3, <3>1, <3>4, <3>5 DEF At
    <3>7. GroupOf(m, B) = N /\ PlaceIn(m, B) = j
      <4> HIDE DEF m, j
      <4> QED BY <1>1, <3>6, PositionOnly
    <3>8. ends[m] = d * (N - 1) + j
      <4> HIDE DEF j
      <4>1. m \in 1..m
        BY <1>4, <2>3
      <4> QED BY <1>15, <3>7, <4>1
    <3>9. d * (N - 1) + j = n
      BY <1>1, <3>2
    <3> QED BY <2>1, <3>8, <3>9
  <2> QED BY <2>2, <2>3
<1>17. ASSUME NEW q \in 1..n PROVE Concat(ss)[q] = data[q]
  <2> DEFINE g == GroupOf(q, d)
             j == PlaceIn(q, d) + 1
             i == q + g
  <2>1. g \in Nat \ {0} /\ j \in 1..d /\ q = d * (g - 1) + j /\ q \in Nat \ {0}
    <3>1. q \in Nat \ {0}
      BY <1>1
    <3>2. q - 1 = d * ((q - 1) \div d) + ((q - 1) % d) /\ (q - 1) \div d \in Nat /\ (q - 1) % d \in 0..(d - 1)
      <4>1. q - 1 \in Int /\ q - 1 \in Nat
        BY <3>1
      <4> QED BY <1>1, <4>1, Division
    <3>3. g = (q - 1) \div d + 1 /\ j = ((q - 1) % d) + 1
      BY DEF GroupOf, PlaceIn
    <3> DEFINE a == (q - 1) \div d
               r == (q - 1) % d
    <3>4. q - 1 = d * a + r /\ a \in Nat /\ r \in 0..(d - 1) /\ g = a + 1 /\ j = r + 1
      BY <3>2, <3>3
    <3> HIDE DEF a, r, g, j
    <3>5. g - 1 = a /\ d * a \in Nat
      BY <1>1, <3>4
    <3> QED BY <1>1, <3>1, <3>4, <3>5
  <2> HIDE DEF g, j, m
  <2>2. d * (g - 1) \in Nat /\ B * (g - 1) = d * (g - 1) + (g - 1)
    BY <1>1, <2>1
  <2>3. g <= N
    <3> SUFFICES ASSUME g > N PROVE FALSE
      BY <1>4, <2>1
    <3>1. d * (g - 1) >= d * N
      BY <1>1, <1>4, <2>1
    <3> QED BY <1>1, <1>4, <2>1, <2>2, <3>1
  <2>4. i \in 1..m
    BY <1>1, <1>4, <2>1, <2>3 DEF m
  <2>5. i = B * (g - 1) + 1 + j
    BY <1>1, <2>1, <2>2
  <2>6. At(i, B, g, j)
    BY <1>1, <2>1, <2>4, <2>5, <1>4 DEF At
  <2> HIDE DEF i
  <2>7. GroupOf(i, B) = g /\ PlaceIn(i, B) = j
    BY <1>1, <2>6, PositionOnly
  <2>8. from(i) = q /\ PlaceIn(i, B) # 0
    BY <1>1, <2>1, <2>7
  <2>9. ends[i] = q /\ Len(ss[i]) = 1 /\ ss[i][1] = data[q]
    BY <1>9, <1>15, <2>4, <2>8
  <2>10. ends[i] = ends[i - 1] + Len(ss[i]) /\ ends[i - 1] \in Nat
    <3>1. i - 1 \in 0..m
      BY <1>4, <2>4
    <3>2. ends \in [0..m -> Nat] /\ \A q1 \in 1..m : ends[q1] = ends[q1 - 1] + Len(ss[q1])
      BY <1>12 DEF Laid
    <3> HIDE DEF ss, m
    <3> QED BY <2>4, <3>1, <3>2
  <2>11. ends[i - 1] + 1 = q /\ 1 \in 1..Len(ss[i])
    BY <2>1, <2>9, <2>10
  <2>12. Concat(ss)[ends[i - 1] + 1] = ss[i][1]
    BY <1>12, <2>4, <2>11 DEF Laid
  <2> QED BY <2>9, <2>11, <2>12
<1>18. Concat(ss) = data
  <2>1. \A q \in 1..Len(Concat(ss)) : Concat(ss)[q] = data[q]
    BY <1>16, <1>17
  <2>2. Len(Concat(ss)) = Len(data)
    BY <1>16 DEF n
  <2> QED BY <1>11, <2>1, <2>2, SeqEqual
<1> QED BY <1>10, <1>18 DEF E

-----------------------------------------------------------------------------
(* Messages: build.encode_syx and container.decode_syx.                    *)

(* Bytes are words, and words are numbers.                                 *)
LEMMA ByteFacts ==
  /\ 0 \in Byte /\ 0 \in Word /\ Byte \subseteq Nat /\ Word \subseteq Nat
  /\ 2^B >= 4 /\ 2^(2 * B) >= 2^B
<1>1. B - 2 \in Nat /\ (B - 2) + 1 = B - 1
  BY BytesAssumption
<1>2. 2^(B - 2) \in Nat /\ 2^(B - 2) >= 1 /\ 2^(B - 1) = 2 * 2^(B - 2)
  BY <1>1, PowerPositive, PowerNext
<1> DEFINE h == 2^(B - 1)
           w == 2^B
<1>3. h \in Nat /\ h >= 2 /\ w = 2 * h /\ 2^(2 * B) = w * w
  BY <1>2, Widths
<1> HIDE DEF h, w
<1>4. w >= 4 /\ w * w >= w /\ w * w \in Nat
  BY <1>3
<1> QED BY <1>3, <1>4 DEF Byte, Word, w

(* Zeros are bytes.                                                        *)
LEMMA ZerosFacts ==
  ASSUME NEW n \in Nat
  PROVE  Zeros(n) \in Seq(Byte) /\ Len(Zeros(n)) = n /\ \A i \in 1..n : Zeros(n)[i] = 0
<1>1. \A i \in 1..n : 0 \in Byte
  BY ByteFacts
<1> QED BY <1>1 DEF Zeros

(* The last chunk is filled up with zeros.                                 *)
LEMMA ChunkFilled ==
  ASSUME NEW c \in Seq(Byte), Len(c) <= ChunkSize
  PROVE  LET x == c \o Zeros(ChunkSize - Len(c))
         IN  /\ x \in Seq(Byte) /\ Len(x) = ChunkSize
             /\ \A j \in 1..Len(c) : x[j] = c[j]
<1>1. ChunkSize - Len(c) \in Nat
  BY ContainerAssumption
<1> DEFINE z == Zeros(ChunkSize - Len(c))
<1>2. z \in Seq(Byte) /\ Len(z) = ChunkSize - Len(c)
  BY <1>1, ZerosFacts
<1> HIDE DEF z
<1>3. ChunkSize \in Nat
  BY ContainerAssumption
<1>4. c \o z \in Seq(Byte) /\ Len(c \o z) = ChunkSize /\ \A j \in 1..Len(c) : (c \o z)[j] = c[j]
  BY <1>1, <1>2, <1>3
<1> QED BY <1>4 DEF z

(* What a message of a chunk carries.                                      *)
LEMMA MessageRead ==
  ASSUME NEW c \in Seq(Byte), Len(c) <= ChunkSize, NEW i, NEW k
  PROVE  /\ Decode8in7(DataMessage(c, i, k).payload) = c \o Zeros(ChunkSize - Len(c))
         /\ DataMessage(c, i, k).payload \in Seq(Low)
         /\ DataMessage(c, i, k).counter = Base128(FirstCounter + i - 1)
         /\ DataMessage(c, i, k).check
              = PacketChecksum(DataMessage(c, i, k).counter, DataMessage(c, i, k).payload, k)
<1> DEFINE x == c \o Zeros(ChunkSize - Len(c))
           p == Encode8in7(x)
           u == Base128(FirstCounter + i - 1)
<1>1. x \in Seq(Byte)
  BY ChunkFilled
<1> HIDE DEF x
<1>2. p \in Seq(Low) /\ Decode8in7(p) = x
  BY <1>1, Encoded, Decoded
<1>3. DataMessage(c, i, k) = [counter |-> u, payload |-> p, check |-> PacketChecksum(u, p, k)]
  BY DEF DataMessage, x
<1> HIDE DEF p, u
<1>4. DataMessage(c, i, k).payload = p /\ DataMessage(c, i, k).counter = u
      /\ DataMessage(c, i, k).check = PacketChecksum(u, p, k)
  BY <1>3
<1> QED BY <1>2, <1>4 DEF x, u

(* The messages of a stream.                                               *)
LEMMA Messages ==
  ASSUME NEW s \in Seq(Byte), NEW fr
  PROVE  LET n == PieceCount(s, ChunkSize)
             f == EncodeSyx(s, fr)
         IN  /\ n \in Nat /\ Len(f.data) = n /\ DOMAIN f.data = 1..n
             /\ f.start = PatchFramingCount(fr.start, n)
             /\ f.end = PatchFramingCount(fr.end, n)
             /\ \A i \in 1..n :
                  /\ Piece(s, ChunkSize, i) \in Seq(Byte) /\ IsPiece(s, ChunkSize, i)
                  /\ f.data[i] = DataMessage(Piece(s, ChunkSize, i), i, fr.start.k)
<1> DEFINE n == PieceCount(s, ChunkSize)
           d == [i \in 1..n |-> DataMessage(Piece(s, ChunkSize, i), i, fr.start.k)]
           f == EncodeSyx(s, fr)
<1>1. ChunkSize \in Nat \ {0}
  BY ContainerAssumption
<1>2. n \in Nat /\ \A i \in 1..n : Piece(s, ChunkSize, i) \in Seq(Byte) /\ IsPiece(s, ChunkSize, i)
  BY <1>1, Pieces
<1>3. /\ f.data = d /\ f.start = PatchFramingCount(fr.start, n)
      /\ f.end = PatchFramingCount(fr.end, n)
  BY DEF EncodeSyx
<1> HIDE DEF f, n
<1>4. DOMAIN d = 1..n /\ Len(d) = n
  BY <1>2
<1>5. \A i \in 1..n : d[i] = DataMessage(Piece(s, ChunkSize, i), i, fr.start.k)
  OBVIOUS
<1> HIDE DEF d
<1> QED BY <1>2, <1>3, <1>4, <1>5 DEF f, n

(* A sequence read back with something after it.                           *)
Extends(t, s) ==
  /\ Len(s) <= Len(t)
  /\ \A q \in 1..Len(s) : t[q] = s[q]

(* container.decode_syx gives back what build.encode_syx was given, and    *)
(* the zeros it filled the last message up with.                           *)
LEMMA Carried ==
  ASSUME NEW s \in Seq(Byte), NEW fr
  PROVE  LET t == DecodeSyx(EncodeSyx(s, fr))
         IN  t \in Seq(Byte) /\ Extends(t, s)
<1> DEFINE k == ChunkSize
           n == PieceCount(s, k)
           f == EncodeSyx(s, fr)
           c(i) == Piece(s, k, i)
           out(i) == c(i) \o Zeros(k - Len(c(i)))
           ss == [i \in 1..n |-> out(i)]
<1>1. k \in Nat \ {0}
  BY ContainerAssumption
<1>2. /\ n \in Nat /\ Len(f.data) = n
      /\ \A i \in 1..n : /\ c(i) \in Seq(Byte) /\ IsPiece(s, k, i)
                         /\ f.data[i] = DataMessage(c(i), i, fr.start.k)
  BY Messages
<1>3. n \in Nat /\ Len(s) <= k * n
  BY <1>1, Pieces
<1> HIDE DEF f, k, n, c
<1>4. \A i \in 1..n : Len(c(i)) <= k
  BY <1>2 DEF IsPiece, c
<1>5. \A i \in 1..n : /\ Decode8in7(f.data[i].payload) = out(i)
                      /\ out(i) \in Seq(Byte) /\ Len(out(i)) = k
                      /\ \A j \in 1..Len(c(i)) : out(i)[j] = c(i)[j]
  <2> TAKE i \in 1..n
  <2>1. c(i) \in Seq(Byte) /\ Len(c(i)) <= ChunkSize /\ f.data[i] = DataMessage(c(i), i, fr.start.k)
    BY <1>2, <1>4 DEF k
  <2>2. Decode8in7(DataMessage(c(i), i, fr.start.k).payload) = out(i)
    BY <2>1, MessageRead DEF k
  <2>3. out(i) \in Seq(Byte) /\ Len(out(i)) = k /\ \A j \in 1..Len(c(i)) : out(i)[j] = c(i)[j]
    BY <2>1, ChunkFilled DEF k
  <2> QED BY <2>1, <2>2, <2>3
<1> HIDE DEF out
<1>6. DecodeSyx(f) = Concat(ss)
  <2>1. [i \in 1..n |-> Decode8in7(f.data[i].payload)] = ss
    BY <1>5
  <2> HIDE DEF ss
  <2> QED BY <1>2, <2>1 DEF DecodeSyx
<1>7. ss \in [1..n -> Seq(Byte)] /\ \A i \in 1..n : ss[i] = out(i) /\ Len(ss[i]) = k
  BY <1>5
<1> HIDE DEF ss
<1>8. Concat(ss) \in Seq(Byte)
  BY <1>2, <1>7, Concatenated
<1>9. PICK ends : Laid(ss, n, ends)
  BY <1>2, <1>7, Concatenated
<1> DEFINE P == {i \in 0..n : ends[i] = k * i}
<1>10. 0 \in P
  BY <1>1, <1>2, <1>9 DEF Laid
<1>11. ASSUME NEW i \in 1..n, i - 1 \in P PROVE i \in P
  <2>1. ends[i] = ends[i - 1] + k /\ ends[i - 1] = k * (i - 1)
    BY <1>7, <1>9, <1>11 DEF Laid
  <2>2. k * i = k * (i - 1) + k
    BY <1>1, <1>2, Times
  <2> QED BY <1>2, <2>1, <2>2
<1>12. \A i \in 0..n : ends[i] = k * i
  <2>1. 0..n \subseteq P
    <3> HIDE DEF P
    <3> QED BY <1>2, <1>10, <1>11, UpTo
  <2> QED BY <2>1
<1>13. Len(Concat(ss)) = k * n
  BY <1>2, <1>9, <1>12 DEF Laid
<1>14. ASSUME NEW q \in 1..Len(s) PROVE Concat(ss)[q] = s[q]
  <2> DEFINE g == GroupOf(q, k)
             j == PlaceIn(q, k) + 1
  <2>1. g \in Nat \ {0} /\ j \in 1..k /\ q = k * (g - 1) + j
    <3> DEFINE a == (q - 1) \div k
               r == (q - 1) % k
    <3>1. q - 1 = k * a + r /\ a \in Nat /\ r \in 0..(k - 1)
      <4>1. q - 1 \in Int /\ q - 1 \in Nat
        OBVIOUS
      <4> QED BY <1>1, <4>1, Division
    <3>2. g = a + 1 /\ j = r + 1
      BY DEF GroupOf, PlaceIn
    <3> HIDE DEF a, r, g, j
    <3>3. g - 1 = a /\ k * a \in Nat
      BY <1>1, <3>1, <3>2
    <3> QED BY <1>1, <3>1, <3>2, <3>3
  <2> HIDE DEF g, j
  <2>2. k * (g - 1) \in Nat /\ k * g = k * (g - 1) + k /\ k * g \in Nat
    BY <1>1, <2>1, Times
  <2>3. g <= n
    <3> SUFFICES ASSUME g - 1 >= n PROVE FALSE
      BY <1>2, <2>1
    <3>1. k * (g - 1) >= k * n
      BY <1>1, <1>2, <2>1
    <3> DEFINE x == k * (g - 1)
               y == k * n
    <3>2. x \in Nat /\ x >= y /\ q = x + j /\ j >= 1 /\ Len(s) <= y /\ y \in Int
      BY <1>1, <1>2, <1>3, <2>1, <2>2, <3>1
    <3>3. Len(s) \in Nat /\ q \in Nat /\ q <= Len(s) /\ j \in Nat
      BY <2>1, <1>1
    <3> HIDE DEF x, y
    <3> QED BY <3>2, <3>3
  <2>4. g \in 1..n
    BY <1>2, <2>1, <2>3
  <2>5. j \in 1..Len(c(g)) /\ c(g)[j] = s[q]
    <3>1. /\ Len(c(g)) = IF k * g < Len(s) THEN k ELSE Len(s) - k * (g - 1)
          /\ \A jj \in 1..Len(c(g)) : c(g)[jj] = s[k * (g - 1) + jj]
      BY <1>2, <2>4 DEF IsPiece, c
    <3>2. j \in 1..Len(c(g))
      BY <2>1, <2>2, <3>1
    <3> QED BY <2>1, <3>1, <3>2
  <2>6. out(g)[j] = s[q]
    BY <1>5, <2>4, <2>5
  <2>7. ends[g - 1] = k * (g - 1)
    BY <1>2, <1>12, <2>4
  <2>8. Concat(ss)[ends[g - 1] + j] = ss[g][j]
    BY <1>7, <1>9, <2>1, <2>4 DEF Laid
  <2> QED BY <1>7, <2>1, <2>4, <2>6, <2>7, <2>8
<1> QED BY <1>3, <1>6, <1>8, <1>13, <1>14 DEF Extends, f

-----------------------------------------------------------------------------
(* Words, and what is summed into them.                                    *)

(* Words.                                                                  *)

(* A word is written in two bytes, and read back.                          *)
LEMMA WordBytesFacts ==
  ASSUME NEW w \in Nat
  PROVE  /\ WordBytes(w) \in Seq(Nat) /\ Len(WordBytes(w)) = 2
         /\ WordAt(WordBytes(w), 1) = w
         /\ w \in Word => WordBytes(w) \in Seq(Byte)
<1> DEFINE m == 2^B
           h == w \div m
           l == w % m
<1>1. m \in Nat \ {0} /\ 2^(2 * B) = m * m
  BY Widths
<1>2. w = (m * h) + l /\ h \in Nat /\ l \in 0..(m - 1)
  <2>1. w \in Int
    OBVIOUS
  <2> HIDE DEF m
  <2> QED BY <1>1, <2>1, Division
<1>3. w \in Word => h \in 0..(m - 1)
  <2> SUFFICES ASSUME w < m * m, h >= m PROVE FALSE
    BY <1>1, <1>2, SMTT(30) DEF Word
  <2> HIDE DEF m, h, l
  <2>1. m * h >= m * m
    BY <1>1, <1>2
  <2> QED BY <1>1, <1>2, <2>1
<1>4. WordBytes(w) = <<h, l>> /\ Byte = 0..(m - 1)
  BY DEF WordBytes, Byte
<1>5. WordAt(<<h, l>>, 1) = h * m + l
  BY DEF WordAt
<1> HIDE DEF m, h, l
<1>6. l \in Nat /\ h * m = m * h
  BY <1>1, <1>2
<1>7. <<h, l>> \in Seq(Nat) /\ Len(<<h, l>>) = 2
  BY <1>2, <1>6
<1>8. w \in Word => <<h, l>> \in Seq(Byte)
  BY <1>2, <1>3, <1>4
<1> QED BY <1>2, <1>4, <1>5, <1>6, <1>7, <1>8

(* A word lies in a sequence as it lies in any other that has its bytes.   *)
LEMMA WordLies ==
  ASSUME NEW s, NEW i \in Nat, NEW w \in Nat,
         s[i + 1] = WordBytes(w)[1], s[i + 2] = WordBytes(w)[2]
  PROVE  WordAt(s, i + 1) = w
<1>1. WordAt(WordBytes(w), 1) = WordBytes(w)[1] * 2^B + WordBytes(w)[2]
  BY DEF WordAt
<1>2. WordAt(s, i + 1) = s[i + 1] * 2^B + s[i + 2]
  <2>1. (i + 1) + 1 = i + 2
    OBVIOUS
  <2> QED BY <2>1 DEF WordAt
<1> QED BY <1>1, <1>2, WordBytesFacts

(* What is read of two bytes is a word.                                    *)
LEMMA WordTyped ==
  ASSUME NEW s \in Seq(Nat), NEW i \in 1..(Len(s) - 1)
  PROVE  WordAt(s, i) \in Nat
<1>1. s[i] \in Nat /\ s[i + 1] \in Nat /\ 2^B \in Nat
  BY Widths
<1> DEFINE m == 2^B
<1> HIDE DEF m
<1>2. s[i] * m \in Nat
  BY <1>1 DEF m
<1> QED BY <1>1, <1>2, SMTT(30) DEF WordAt, m

(* A sum is a word.                                                        *)
LEMMA SumIsWord ==
  ASSUME NEW n \in Nat, NEW items \in [1..n -> Int]
  PROVE  SumTo(n, 2^(2 * B), items) \in Word
BY Widths, SumIsBounded DEF Word

(* An exclusive or is a word.                                              *)
LEMMA XorIsWord ==
  ASSUME NEW a, NEW b PROVE Xor(a, b) \in Word
<1> DEFINE Bit(n, i) == (n \div 2^(i - 1)) % 2
           items == [i \in 1..(2 * B) |-> IF Bit(a, i) # Bit(b, i) THEN 2^(i - 1) ELSE 0]
<1>1. 2 * B \in Nat
  BY Widths
<1>2. \A i \in 1..(2 * B) : 2^(i - 1) \in Int
  <2> TAKE i \in 1..(2 * B)
  <2>1. i - 1 \in Nat
    BY <1>1
  <2> QED BY <2>1, PowerPositive
<1>3. items \in [1..(2 * B) -> Int]
  BY <1>2
<1>4. Xor(a, b) = SumTo(2 * B, 2^(2 * B), items)
  BY DEF Xor
<1> HIDE DEF items
<1> QED BY <1>1, <1>3, <1>4, SumIsWord

(* A checksum is a word.                                                   *)
LEMMA ChecksumIsWord ==
  ASSUME NEW c \in Seq(Nat) PROVE ContentChecksum(c) \in Word
<1> DEFINE n == Len(c) \div 2
           items == [i \in 1..n |-> Xor(i, WordAt(c, 2 * i - 1))]
<1>1. n \in Nat
  OBVIOUS
<1>2. items \in [1..n -> Int]
  <2>1. \A i \in 1..n : Xor(i, WordAt(c, 2 * i - 1)) \in Word
    BY XorIsWord
  <2>2. Word \subseteq Int
    BY ByteFacts
  <2> QED BY <2>1, <2>2
<1>3. ContentChecksum(c) = SumTo(n, 2^(2 * B), items)
  BY DEF ContentChecksum
<1> HIDE DEF n, items
<1> QED BY <1>1, <1>2, <1>3, SumIsWord

(* A seal is two bytes.                                                    *)
LEMMA HmacBytes ==
  ASSUME NEW dev \in Nat, NEW data \in Seq(Nat)
  PROVE  Hmac(dev, data) \in Seq(Byte) /\ Len(Hmac(dev, data)) = TrailerLen
<1> DEFINE n == Len(data)
           items == [i \in 1..n |-> (i + dev) * (data[i] + 1)]
           w == SumTo(n, 2^(2 * B), items)
<1>1. n \in Nat
  OBVIOUS
<1>2. items \in [1..n -> Int]
  <2>1. \A i \in 1..n : (i + dev) \in Int /\ data[i] + 1 \in Int
    OBVIOUS
  <2> QED BY <2>1
<1>3. Hmac(dev, data) = WordBytes(w)
  BY DEF Hmac
<1> HIDE DEF n, items
<1>4. w \in Word
  BY <1>1, <1>2, SumIsWord
<1> HIDE DEF w
<1> QED BY <1>3, <1>4, WordBytesFacts, ByteFacts DEF TrailerLen

(* Sequences.                                                              *)

(* A part of a sequence.                                                   *)
LEMMA Cut ==
  ASSUME NEW T, NEW s \in Seq(T), NEW a \in Nat \ {0}, NEW b \in Nat, a <= b + 1, b <= Len(s)
  PROVE  /\ SubSeq(s, a, b) \in Seq(T) /\ Len(SubSeq(s, a, b)) = b - a + 1
         /\ \A q \in 1..(b - a + 1) : SubSeq(s, a, b)[q] = s[a - 1 + q]
<1>1. \A q \in 1..(b - a + 1) : a - 1 + q \in 1..Len(s) /\ q + a - 1 = a - 1 + q
  OBVIOUS
<1>2. Len(SubSeq(s, a, b)) = b - a + 1
  OBVIOUS
<1>3. \A q \in 1..(b - a + 1) : SubSeq(s, a, b)[q] = s[a - 1 + q]
  BY <1>1
<1>4. SubSeq(s, a, b) \in Seq(T)
  BY SubSeqProperties
<1> QED BY <1>2, <1>3, <1>4

(* s is a, then b.                                                         *)
IsJoin(s, a, b) ==
  /\ Len(s) = Len(a) + Len(b)
  /\ \A q \in 1..Len(a) : s[q] = a[q]
  /\ \A q \in 1..Len(b) : s[Len(a) + q] = b[q]

(* One sequence after another.                                             *)
LEMMA Appended ==
  ASSUME NEW T, NEW a \in Seq(T), NEW b \in Seq(T)
  PROVE  a \o b \in Seq(T) /\ IsJoin(a \o b, a, b)
BY DEF IsJoin

-----------------------------------------------------------------------------
(* Sealing, and the stream that a sealed container is sent in.             *)

(* Sealing changes the trailer alone, and what is sealed stays as it is.   *)
LEMMA Sealed ==
  ASSUME NEW c \in Seq(Byte), Len(c) >= TrailerLen, NEW dev \in Nat
  PROVE  LET s == Seal(c, dev)
         IN  /\ s \in Seq(Byte) /\ Len(s) = Len(c)
             /\ Seal(s, dev) = s
             /\ \A q \in 1..(Len(c) - TrailerLen) : s[q] = c[q]
<1> DEFINE b == Body(c)
           h == Hmac(dev, b)
           s == b \o h
<1>1. /\ b \in Seq(Byte) /\ Len(b) = Len(c) - 2
      /\ \A q \in 1..(Len(c) - 2) : b[q] = c[q]
  <2>1. /\ 1 \in Nat \ {0} /\ Len(c) - 2 \in Nat /\ Len(c) - 2 <= Len(c)
        /\ 1 <= Len(c) - 2 + 1
    BY DEF TrailerLen
  <2>2. b = SubSeq(c, 1, Len(c) - 2)
    BY DEF Body, TrailerLen
  <2>3. \A q \in 1..(Len(c) - 2) : 1 - 1 + q = q
    OBVIOUS
  <2> HIDE DEF b
  <2>4. b \in Seq(Byte) /\ Len(b) = Len(c) - 2 - 1 + 1
        /\ \A q \in 1..(Len(c) - 2 - 1 + 1) : b[q] = c[1 - 1 + q]
    <3> DEFINE n == Len(c) - 2
               g == SubSeq(c, 1, n)
    <3>1. n \in Nat /\ n <= Len(c) /\ 1 <= n + 1
      BY <2>1
    <3> HIDE DEF n
    <3>2. g \in Seq(Byte) /\ Len(g) = n - 1 + 1 /\ \A q \in 1..(n - 1 + 1) : g[q] = c[1 - 1 + q]
      BY <2>1, <3>1, Cut
    <3> QED BY <2>2, <3>2 DEF n
  <2> QED BY <2>1, <2>3, <2>4
<1> HIDE DEF b
<1>2. b \in Seq(Nat)
  BY <1>1, ByteFacts, SeqMonotonic
<1>3. h \in Seq(Byte) /\ Len(h) = 2
  BY <1>2, HmacBytes DEF TrailerLen
<1> HIDE DEF h
<1>4. s \in Seq(Byte) /\ Len(s) = Len(c) /\ \A q \in 1..(Len(c) - 2) : s[q] = c[q]
  <2>1. Len(c) \in Nat /\ Len(c) >= 2
    BY DEF TrailerLen
  <2>2. /\ s \in Seq(Byte) /\ Len(s) = Len(b) + Len(h)
        /\ \A q \in 1..Len(b) : s[q] = b[q]
    <3>1. b \in Seq(Byte) /\ h \in Seq(Byte)
      BY <1>1, <1>3
    <3>2. s \in Seq(Byte) /\ IsJoin(s, b, h)
      BY <3>1, Appended
    <3> HIDE DEF s
    <3> QED BY <3>2 DEF IsJoin
  <2> HIDE DEF s
  <2> QED BY <1>1, <1>3, <2>1, <2>2
<1>5. Body(s) = b
  <2>1. Body(s) = SubSeq(s, 1, Len(s) - 2)
    BY DEF Body, TrailerLen
  <2>2. SubSeq(s, 1, Len(s) - 2) \in Seq(Byte) /\ Len(SubSeq(s, 1, Len(s) - 2)) = Len(b)
        /\ \A q \in 1..Len(b) : SubSeq(s, 1, Len(s) - 2)[q] = b[q]
    BY <1>1, <1>3, <1>4 DEF TrailerLen
  <2> HIDE DEF s
  <2> DEFINE u == SubSeq(s, 1, Len(s) - 2)
  <2>3. u \in Seq(Byte) /\ Len(u) = Len(b) /\ \A q \in 1..Len(u) : u[q] = b[q]
    BY <2>2
  <2> HIDE DEF u
  <2>4. u = b
    BY <1>1, <2>3, SeqEqual
  <2> QED BY <2>1, <2>4 DEF u
<1>6. Seal(c, dev) = s /\ Seal(s, dev) = s
  BY <1>5 DEF Seal, b, h
<1> QED BY <1>4, <1>6 DEF TrailerLen

(* The stream of a container: its length and its checksum come first.      *)
LEMMA StreamRead ==
  ASSUME NEW s \in Seq(Byte), Fits(s)
  PROVE  LET st == Preamble(s) \o s
         IN  /\ st \in Seq(Byte) /\ Len(st) = 4 + Len(s)
             /\ WordAt(st, 1) = Len(s) /\ WordAt(st, 3) = ContentChecksum(s)
             /\ \A q \in 1..Len(s) : st[4 + q] = s[q]
<1> DEFINE a == WordBytes(Len(s))
           w == ContentChecksum(s)
           b == WordBytes(w)
           st == (a \o b) \o s
<1>1. s \in Seq(Nat)
  BY ByteFacts, SeqMonotonic
<1>2. w \in Word /\ w \in Nat
  BY <1>1, ChecksumIsWord, ByteFacts
<1> HIDE DEF w
<1>3. a \in Seq(Byte) /\ Len(a) = 2 /\ b \in Seq(Byte) /\ Len(b) = 2
  BY <1>2, WordBytesFacts, ByteFacts DEF Fits
<1>4. Preamble(s) \o s = st
  BY DEF Preamble, w
<1> HIDE DEF a, b
<1>5. /\ st \in Seq(Byte) /\ Len(st) = 4 + Len(s)
      /\ st[1] = a[1] /\ st[2] = a[2] /\ st[3] = b[1] /\ st[4] = b[2]
      /\ \A q \in 1..Len(s) : st[4 + q] = s[q]
  <2> DEFINE ab == a \o b
  <2>1. /\ ab \in Seq(Byte) /\ Len(ab) = 4
        /\ \A q \in 1..2 : ab[q] = a[q] /\ ab[2 + q] = b[q]
    <3>1. /\ ab \in Seq(Byte) /\ Len(ab) = Len(a) + Len(b)
          /\ \A q \in 1..Len(a) : ab[q] = a[q]
          /\ \A q \in 1..Len(b) : ab[Len(a) + q] = b[q]
      <4>1. a \in Seq(Byte) /\ b \in Seq(Byte)
        BY <1>3
      <4>2. ab \in Seq(Byte) /\ IsJoin(ab, a, b)
        BY <4>1, Appended
      <4> HIDE DEF ab
      <4> QED BY <4>2 DEF IsJoin
    <3> HIDE DEF ab
    <3> QED BY <1>3, <3>1
  <2>2. 1 \in 1..2 /\ 2 \in 1..2 /\ 2 + 1 = 3 /\ 2 + 2 = 4
    OBVIOUS
  <2>3. ab[1] = a[1] /\ ab[2] = a[2] /\ ab[3] = b[1] /\ ab[4] = b[2]
    BY <2>1, <2>2
  <2> HIDE DEF ab
  <2>4. /\ st \in Seq(Byte) /\ Len(st) = 4 + Len(s)
        /\ \A q \in 1..4 : st[q] = ab[q]
        /\ \A q \in 1..Len(s) : st[4 + q] = s[q]
    <3>1. st = ab \o s
      BY DEF st, ab
    <3>2. st \in Seq(Byte) /\ IsJoin(st, ab, s)
      <4> HIDE DEF st
      <4> QED BY <2>1, <3>1, Appended
    <3> HIDE DEF st
    <3> QED BY <2>1, <3>2 DEF IsJoin
  <2>5. 1 \in 1..4 /\ 2 \in 1..4 /\ 3 \in 1..4 /\ 4 \in 1..4
    OBVIOUS
  <2> QED BY <2>3, <2>4, <2>5
<1> HIDE DEF st
<1>6. WordAt(st, 0 + 1) = Len(s)
  <2>1. st[0 + 1] = WordBytes(Len(s))[1] /\ st[0 + 2] = WordBytes(Len(s))[2] /\ Len(s) \in Nat
    BY <1>5 DEF a
  <2> QED BY <2>1, WordLies
<1>7. WordAt(st, 2 + 1) = w
  <2>1. st[2 + 1] = WordBytes(w)[1] /\ st[2 + 2] = WordBytes(w)[2]
    BY <1>5 DEF b
  <2> QED BY <1>2, <2>1, WordLies
<1> QED BY <1>4, <1>5, <1>6, <1>7 DEF w

(* A stream that goes on after its container is read alike.                *)
LEMMA ExtendedRead ==
  ASSUME NEW st, NEW t \in Seq(Byte), Extends(t, st),
         NEW s \in Seq(Byte), Len(st) = 4 + Len(s), \A q \in 1..Len(s) : st[4 + q] = s[q]
  PROVE  /\ WordAt(t, 1) = WordAt(st, 1) /\ WordAt(t, 3) = WordAt(st, 3)
         /\ SubSeq(t, 5, 4 + Len(s)) = s
         /\ SubSeq(t, 5, Len(t)) \in Seq(Byte)
         /\ Extends(SubSeq(t, 5, Len(t)), s)
<1>1. t[1] = st[1] /\ t[2] = st[2] /\ t[3] = st[3] /\ t[4] = st[4]
      /\ 4 + Len(s) <= Len(t) /\ \A q \in 1..Len(s) : t[4 + q] = s[q]
  BY DEF Extends
<1>2. WordAt(t, 1) = WordAt(st, 1) /\ WordAt(t, 3) = WordAt(st, 3)
  BY <1>1 DEF WordAt
<1> DEFINE u == SubSeq(t, 5, 4 + Len(s))
           v == SubSeq(t, 5, Len(t))
<1>3. u \in Seq(Byte) /\ Len(u) = Len(s) /\ \A q \in 1..Len(u) : u[q] = s[q]
  BY <1>1
<1>4. v \in Seq(Byte) /\ Len(v) = Len(t) - 4 /\ \A q \in 1..Len(s) : v[q] = s[q]
  <2>1. 5 \in Nat \ {0} /\ Len(t) \in Nat /\ Len(s) \in Nat /\ 5 <= Len(t) + 1 /\ Len(t) <= Len(t)
    BY <1>1
  <2> HIDE DEF v
  <2>2. v \in Seq(Byte) /\ Len(v) = Len(t) - 5 + 1
        /\ \A q \in 1..(Len(t) - 5 + 1) : v[q] = t[5 - 1 + q]
    <3> DEFINE n == Len(t)
               g == SubSeq(t, 5, n)
    <3>1. n \in Nat /\ n <= Len(t) /\ 5 <= n + 1
      BY <2>1
    <3> HIDE DEF n
    <3>2. g \in Seq(Byte) /\ Len(g) = n - 5 + 1 /\ \A q \in 1..(n - 5 + 1) : g[q] = t[5 - 1 + q]
      BY <2>1, <3>1, Cut
    <3> QED BY <3>2 DEF n, v
  <2>3. \A q \in 1..Len(s) : q \in 1..(Len(t) - 5 + 1) /\ 5 - 1 + q = 4 + q
    BY <1>1, <2>1
  <2> QED BY <1>1, <2>1, <2>2, <2>3
<1> HIDE DEF u, v
<1>5. u = s
  BY <1>3, SeqEqual
<1> QED BY <1>1, <1>2, <1>4, <1>5 DEF u, v, Extends

-----------------------------------------------------------------------------
(* The container: sections laid out by build.build_container are read by   *)
(* container.sections.                                                     *)

(* Alignment.                                                              *)
LEMMA Aligned ==
  ASSUME NEW a \in Nat, NEW k \in Nat \ {0}
  PROVE  /\ PadTo(a, k) \in 0..(k - 1)
         /\ (a + PadTo(a, k)) % k = 0
         /\ a % k = 0 => PadTo(a, k) = 0
<1> DEFINE n == -a
           q == n \div k
           r == n % k
<1>0. n \in Int /\ n = -a
  OBVIOUS
<1>1. n = (k * q) + r /\ q \in Int /\ r \in 0..(k - 1)
  <2> HIDE DEF n
  <2> QED BY <1>0, Division
<1>2. PadTo(a, k) = r
  BY DEF PadTo
<1> HIDE DEF n, q, r
<1> DEFINE u == -q
           x == a + r
<1>3. x = k * u + 0 /\ u \in Int /\ x \in Int
  <2>1. k * u = -(k * q) /\ k * q \in Int
    BY <1>1
  <2> QED BY <1>0, <1>1, <2>1
<1> HIDE DEF u
<1>4. x % k = 0
  <2>1. 0 \in 0..(k - 1)
    OBVIOUS
  <2> HIDE DEF x
  <2> QED BY <1>3, <2>1, DivisionOnly
<1>5. ASSUME a % k = 0 PROVE r = 0
  <2> DEFINE b == a \div k
             z == a % k
  <2>1. a = (k * b) + z /\ b \in Int /\ z = 0 /\ a \in Int
    BY <1>5, Division
  <2> HIDE DEF b, z
  <2> DEFINE d == -b
  <2>2. n = k * d + 0 /\ d \in Int /\ 0 \in 0..(k - 1)
    <3>1. k * d = -(k * b) /\ k * b \in Int
      BY <2>1
    <3> QED BY <1>0, <2>1, <3>1
  <2> HIDE DEF d
  <2>3. n % k = 0
    BY <1>0, <2>2, DivisionOnly
  <2> QED BY <2>3 DEF r
<1> QED BY <1>1, <1>2, <1>4, <1>5

(* What stands in a container.                                             *)
Entry == [id : Nat, dest : Nat, data : Seq(Nat)]

EntryEnds(es, n, e) ==
  /\ e \in [0..n -> Nat]
  /\ e[0] = TableArea
  /\ \A i \in 1..n : e[i] = e[i - 1] + PadTo(e[i - 1], Align) + Len(es[i].data)

(* The table area is aligned.                                              *)
LEMMA AlignFacts == Align \in Nat \ {0} /\ TableArea \in Nat /\ PadTo(TableArea, Align) = 0
BY ContainerAssumption, Aligned

(* Ends is what its equation says.                                         *)
LEMMA EndsRecursion ==
  ASSUME NEW n \in Nat, NEW es \in [1..n -> Entry]
  PROVE  EntryEnds(es, n, Ends(es))
<1> DEFINE step == [i \in 1..n |-> [x \in Nat |-> x + PadTo(x, Align) + Len(es[i].data)]]
           Eq(h) == h = [i \in 0..n |-> IF i = 0 THEN TableArea
                                        ELSE LET pos == h[i - 1]
                                             IN  pos + PadTo(pos, Align) + Len(es[i].data)]
           g == CHOOSE h : Eq(h)
<1>1. \A i \in 1..n : Len(es[i].data) \in Nat
  BY DEF Entry
<1>2. \A x \in Nat : PadTo(x, Align) \in Nat
  <2> TAKE x \in Nat
  <2>1. Align \in Nat \ {0} /\ PadTo(x, Align) \in 0..(Align - 1)
    BY AlignFacts, Aligned
  <2> QED BY <2>1
<1>3. step \in [1..n -> [Nat -> Nat]] /\ TableArea \in Nat
  <2>1. \A i \in 1..n : \A x \in Nat : x + PadTo(x, Align) + Len(es[i].data) \in Nat
    <3> TAKE i \in 1..n
    <3> TAKE x \in Nat
    <3>1. PadTo(x, Align) \in Nat /\ Len(es[i].data) \in Nat
      BY <1>1, <1>2
    <3> QED BY <3>1
  <2> QED BY <2>1, AlignFacts
<1>4. PICK f : Iterates(f, n, Nat, TableArea, step)
  <2> HIDE DEF step
  <2> QED BY <1>3, Recursion
<1>5. \A i \in 1..n : i - 1 \in 0..n /\ i \in 0..n /\ i # 0
  OBVIOUS
<1>6. EntryEnds(es, n, f)
  BY <1>4, <1>5 DEF Iterates, EntryEnds
<1>7. Eq(f)
  <2>1. \A i \in 0..n : f[i] = IF i = 0 THEN TableArea
                               ELSE LET pos == f[i - 1]
                                    IN  pos + PadTo(pos, Align) + Len(es[i].data)
    BY <1>6 DEF EntryEnds
  <2>2. f = [i \in 0..n |-> f[i]]
    BY <1>6 DEF EntryEnds
  <2> QED BY <2>1, <2>2
<1>8. Eq(g)
  <2> HIDE DEF Eq
  <2> QED BY <1>7
<1>9. \A i \in 0..n : g[i] = f[i]
  <2> HIDE DEF g
  <2>1. g[0] = TableArea
    BY <1>8
  <2>2. \A i \in 1..n : g[i] = g[i - 1] + PadTo(g[i - 1], Align) + Len(es[i].data)
    BY <1>5, <1>8
  <2>3. \A i \in 1..n : g[i - 1] \in Nat => g[i] = step[i][g[i - 1]]
    BY <1>5, <2>2
  <2> HIDE DEF Eq, step
  <2>4. Follows(g, n, Nat, TableArea, step)
    BY <2>1, <2>3 DEF Follows
  <2>5. Agree(g, f, n)
    BY <1>4, <2>4, RecursionOnly
  <2> QED BY <2>5 DEF Agree
<1>10. g = f
  <2>1. DOMAIN g = 0..n /\ g = [i \in 0..n |-> g[i]]
    <3> HIDE DEF g
    <3> QED BY <1>8
  <2>2. f = [i \in 0..n |-> f[i]]
    BY <1>6 DEF EntryEnds
  <2> HIDE DEF g, Eq
  <2> QED BY <1>9, <2>1, <2>2
<1>11. Len(es) = n
  OBVIOUS
<1>12. Ends(es) = g
  BY <1>11 DEF Ends
<1> QED BY <1>6, <1>10, <1>12

(* x is u, of length n, and two more.                                      *)
Plus2(x, u, d, n) ==
  /\ Len(x) = n + 2
  /\ \A q \in 1..n : x[q] = u[q]
  /\ x[n + 1] = d[1] /\ x[n + 2] = d[2]

(* Two more after a sequence.                                              *)
LEMMA TwoMore ==
  ASSUME NEW T, NEW u \in Seq(T), NEW d \in Seq(T), Len(d) = 2, NEW n \in Nat, Len(u) = n
  PROVE  u \o d \in Seq(T) /\ Plus2(u \o d, u, d, n)
<1> DEFINE x == u \o d
<1>1. x \in Seq(T) /\ IsJoin(x, u, d)
  BY Appended
<1>2. 1 \in 1..2 /\ 2 \in 1..2
  OBVIOUS
<1> HIDE DEF x
<1>3. x \in Seq(T) /\ Plus2(x, u, d, n)
  BY <1>1, <1>2 DEF IsJoin, Plus2
<1> QED BY <1>3 DEF x

(* Four words in a row.                                                    *)
FourOf(x, a, b, c, d) ==
  /\ Len(x) = 8
  /\ x[1] = a[1] /\ x[2] = a[2] /\ x[3] = b[1] /\ x[4] = b[2]
  /\ x[5] = c[1] /\ x[6] = c[2] /\ x[7] = d[1] /\ x[8] = d[2]

(* Four words in a row are read back.                                      *)
LEMMA FourWords ==
  ASSUME NEW T, NEW a \in Seq(T), NEW b \in Seq(T), NEW c \in Seq(T), NEW d \in Seq(T),
         Len(a) = 2, Len(b) = 2, Len(c) = 2, Len(d) = 2
  PROVE  a \o b \o c \o d \in Seq(T) /\ FourOf(a \o b \o c \o d, a, b, c, d)
<1> DEFINE u == a \o b
           v == u \o c
           x == v \o d
<1>0. 2 \in Nat /\ 4 \in Nat /\ 6 \in Nat
  OBVIOUS
<1>1. u \in Seq(T) /\ Plus2(u, a, b, 2)
  BY <1>0, TwoMore
<1> HIDE DEF u
<1>2. Len(u) = 4 /\ u[1] = a[1] /\ u[2] = a[2] /\ u[3] = b[1] /\ u[4] = b[2]
  BY <1>1 DEF Plus2
<1>3. v \in Seq(T) /\ Plus2(v, u, c, 4)
  BY <1>0, <1>1, <1>2, TwoMore
<1> HIDE DEF v
<1>4. /\ Len(v) = 6 /\ v[1] = a[1] /\ v[2] = a[2] /\ v[3] = b[1] /\ v[4] = b[2]
      /\ v[5] = c[1] /\ v[6] = c[2]
  BY <1>2, <1>3 DEF Plus2
<1>5. x \in Seq(T) /\ Plus2(x, v, d, 6)
  BY <1>0, <1>3, <1>4, TwoMore
<1> HIDE DEF x
<1>6. /\ x \in Seq(T) /\ Len(x) = 8
      /\ x[1] = a[1] /\ x[2] = a[2] /\ x[3] = b[1] /\ x[4] = b[2]
      /\ x[5] = c[1] /\ x[6] = c[2] /\ x[7] = d[1] /\ x[8] = d[2]
  BY <1>4, <1>5 DEF Plus2
<1>7. x = a \o b \o c \o d
  BY DEF x, v, u
<1>8. x \in Seq(T) /\ FourOf(x, a, b, c, d)
  BY <1>6 DEF FourOf
<1> QED BY <1>7, <1>8

-----------------------------------------------------------------------------
(* build.build_container, part by part.                                    *)

StartOf(es, i) == Ends(es)[i] - Len(es[i].data)

TableEntry(es, i) ==
  WordBytes(es[i].id) \o WordBytes(StartOf(es, i))
    \o WordBytes(Len(es[i].data)) \o WordBytes(es[i].dest)

Table(h, es) == h \o WordBytes(Len(es)) \o Concat([i \in 1..Len(es) |-> TableEntry(es, i)])

Stored(es, i) ==
  es[i].data \o (IF i < Len(es) THEN Zeros(PadTo(Ends(es)[i], Align)) ELSE <<>>)

StoredAll(es) == Concat([i \in 1..Len(es) |-> Stored(es, i)])

Whole(h, es) == Table(h, es) \o Zeros(TableArea - Len(Table(h, es))) \o StoredAll(es)

(* A container is its parts, padding and an empty trailer.                 *)
LEMMA ContainerParts ==
  ASSUME NEW h, NEW es
  PROVE  BuildContainer(h, es)
           = Whole(h, es) \o Zeros(PadTo(Len(Whole(h, es)), Align)) \o Zeros(TrailerLen)
BY DEF BuildContainer, Whole, StoredAll, Stored, Table, TableEntry, StartOf

(* The words of an entry.                                                  *)
InTable(T, es, n) ==
  \A i \in 1..n :
    /\ WordBytes(es[i].id) \in Seq(T) /\ WordBytes(StartOf(es, i)) \in Seq(T)
    /\ WordBytes(Len(es[i].data)) \in Seq(T) /\ WordBytes(es[i].dest) \in Seq(T)

(* A table entry's words lie where container.sections looks for them.      *)
EntryRead(t, es, i) ==
  /\ WordAt(t, TableOff + EntrySz * (i - 1) + 1) = es[i].id
  /\ WordAt(t, TableOff + EntrySz * (i - 1) + 3) = StartOf(es, i)
  /\ WordAt(t, TableOff + EntrySz * (i - 1) + 5) = Len(es[i].data)
  /\ WordAt(t, TableOff + EntrySz * (i - 1) + 7) = es[i].dest

(* The next section is past the one before and its padding.                *)
LEMMA NextGap ==
  ASSUME NEW t \in Nat, NEW b0 \in Nat, NEW e0 \in Nat, NEW p0 \in Nat, NEW l \in Nat,
         NEW p \in Nat, t + b0 = e0 + p0
  PROVE  t + (b0 + (l + p)) = (e0 + p0 + l) + p
OBVIOUS

(* A number up to a sum of two is up to the one or past it.                *)
LEMMA Within ==
  ASSUME NEW t \in Nat, NEW b0 \in Nat, NEW l \in Nat, NEW p \in Nat, NEW bn \in Nat,
         b0 + (l + p) <= bn
  PROVE  t + b0 \in Nat /\ t + b0 >= t /\ (t + b0) + l <= t + bn
OBVIOUS

(* Where every section starts: right after what is stored before it.       *)
LEMMA Starts ==
  ASSUME NEW n \in Nat, NEW es \in [1..n -> Entry]
  PROVE  /\ Len(es) = n /\ \A i \in 1..n : StartOf(es, i) \in Nat
         /\ StoredAll(es) \in Seq(Nat)
         /\ \A i \in 1..n :
              /\ StartOf(es, i) >= TableArea
              /\ StartOf(es, i) + Len(es[i].data) <= TableArea + Len(StoredAll(es))
              /\ \A j \in 1..Len(es[i].data) :
                   StoredAll(es)[StartOf(es, i) - TableArea + j] = es[i].data[j]
<1> DEFINE e == Ends(es)
           pad(i) == IF i < n THEN Zeros(PadTo(e[i], Align)) ELSE <<>>
           ss == [i \in 1..n |-> es[i].data \o pad(i)]
<1>1. Len(es) = n
  OBVIOUS
<1>2. EntryEnds(es, n, e)
  BY EndsRecursion
<1> HIDE DEF e
<1>3. \A i \in 1..n : i - 1 \in 0..n /\ i \in 0..n /\ (i # 1 => i - 1 \in 1..n)
  OBVIOUS
<1>4. \A i \in 0..n : e[i] \in Nat /\ PadTo(e[i], Align) \in Nat
  <2> TAKE i \in 0..n
  <2>1. e[i] \in Nat
    BY <1>2 DEF EntryEnds
  <2>2. Align \in Nat \ {0} /\ PadTo(e[i], Align) \in 0..(Align - 1)
    BY <2>1, AlignFacts, Aligned
  <2> QED BY <2>1, <2>2
<1>5. \A i \in 1..n : es[i].data \in Seq(Nat)
  BY DEF Entry
<1>6. \A i \in 1..n : /\ pad(i) \in Seq(Nat)
                      /\ Len(pad(i)) = IF i < n THEN PadTo(e[i], Align) ELSE 0
  <2> TAKE i \in 1..n
  <2>1. CASE i < n
    <3>1. PadTo(e[i], Align) \in Nat
      BY <1>3, <1>4
    <3>2. Zeros(PadTo(e[i], Align)) \in Seq(Byte) /\ Len(Zeros(PadTo(e[i], Align))) = PadTo(e[i], Align)
      BY <3>1, ZerosFacts
    <3>3. Zeros(PadTo(e[i], Align)) \in Seq(Nat)
      BY <3>2, ByteFacts, SeqMonotonic
    <3> QED BY <2>1, <3>2, <3>3
  <2>2. CASE ~(i < n)
    BY <2>2
  <2> QED BY <2>1, <2>2
<1> HIDE DEF pad
<1>7. /\ ss \in [1..n -> Seq(Nat)]
      /\ \A i \in 1..n : /\ Len(ss[i]) = Len(es[i].data) + Len(pad(i))
                         /\ \A j \in 1..Len(es[i].data) : ss[i][j] = es[i].data[j]
  <2>1. \A i \in 1..n : /\ es[i].data \o pad(i) \in Seq(Nat)
                        /\ IsJoin(es[i].data \o pad(i), es[i].data, pad(i))
    BY <1>5, <1>6, Appended
  <2> QED BY <2>1 DEF IsJoin
<1>8. StoredAll(es) = Concat(ss)
  BY <1>1 DEF StoredAll, Stored, e, pad
<1> HIDE DEF ss
<1>9. Concat(ss) \in Seq(Nat)
  BY <1>7, Concatenated
<1>10. PICK b : Laid(ss, n, b)
  BY <1>7, Concatenated
<1> DEFINE P == {i \in 0..n : i < n => TableArea + b[i] = e[i] + PadTo(e[i], Align)}
<1>11. 0 \in P
  BY <1>2, <1>10, AlignFacts DEF Laid, EntryEnds
<1>12. ASSUME NEW i \in 1..n, i - 1 \in P PROVE i \in P
  <2>1. TableArea + b[i - 1] = e[i - 1] + PadTo(e[i - 1], Align)
    BY <1>12
  <2>2. e[i] = e[i - 1] + PadTo(e[i - 1], Align) + Len(es[i].data)
    BY <1>2 DEF EntryEnds
  <2>3. b[i] = b[i - 1] + Len(ss[i]) /\ b[i - 1] \in Nat
    BY <1>3, <1>10 DEF Laid
  <2>4. Len(ss[i]) = Len(es[i].data) + Len(pad(i)) /\ (i < n => Len(pad(i)) = PadTo(e[i], Align))
        /\ Len(es[i].data) \in Nat
    BY <1>5, <1>6, <1>7, LenProperties
  <2>5. e[i] \in Nat /\ e[i - 1] \in Nat /\ PadTo(e[i - 1], Align) \in Nat /\ PadTo(e[i], Align) \in Nat
        /\ TableArea \in Nat
    BY <1>3, <1>4, AlignFacts
  <2> QED
    <3> DEFINE pe == PadTo(e[i - 1], Align)
               pf == PadTo(e[i], Align)
               l == Len(es[i].data)
    <3>1. /\ TableArea + b[i - 1] = e[i - 1] + pe /\ e[i] = e[i - 1] + pe + l
          /\ b[i] = b[i - 1] + Len(ss[i]) /\ Len(ss[i]) = l + Len(pad(i))
          /\ (i < n => Len(pad(i)) = pf)
          /\ e[i] \in Nat /\ e[i - 1] \in Nat /\ pe \in Nat /\ pf \in Nat /\ l \in Nat
          /\ TableArea \in Nat /\ b[i - 1] \in Nat
      BY <2>1, <2>2, <2>3, <2>4, <2>5
    <3> HIDE DEF pe, l, pf
    <3>2. i < n => TableArea + b[i] = e[i] + pf
      <4> SUFFICES ASSUME i < n PROVE TableArea + b[i] = e[i] + pf
        OBVIOUS
      <4>1. b[i] = b[i - 1] + (l + pf)
        BY <3>1
      <4>2. /\ TableArea \in Nat /\ b[i - 1] \in Nat /\ e[i - 1] \in Nat /\ pe \in Nat
            /\ l \in Nat /\ pf \in Nat /\ TableArea + b[i - 1] = e[i - 1] + pe
        BY <3>1
      <4>3. TableArea + (b[i - 1] + (l + pf)) = (e[i - 1] + pe + l) + pf
        <5> DEFINE x == b[i - 1]
                   y == e[i - 1]
        <5>1. /\ TableArea \in Nat /\ x \in Nat /\ y \in Nat /\ pe \in Nat
              /\ l \in Nat /\ pf \in Nat /\ TableArea + x = y + pe
          BY <4>2
        <5> HIDE DEF x, y
        <5>2. TableArea + (x + (l + pf)) = (y + pe + l) + pf
          BY <5>1, NextGap
        <5> QED BY <5>2 DEF x, y
      <4>4. e[i] = e[i - 1] + pe + l
        BY <3>1
      <4> QED BY <4>1, <4>3, <4>4
    <3> QED BY <1>3, <3>2 DEF pf
<1>13. 0..n \subseteq P
  <2> HIDE DEF P
  <2> QED BY <1>11, <1>12, UpTo
<1>14. ASSUME NEW i \in 1..n
       PROVE  /\ StartOf(es, i) = TableArea + b[i - 1] /\ b[i - 1] \in Nat
              /\ b[i] <= b[n] /\ b[i] = b[i - 1] + Len(ss[i])
  <2>1. TableArea + b[i - 1] = e[i - 1] + PadTo(e[i - 1], Align)
    BY <1>3, <1>13
  <2>2. e[i] = e[i - 1] + PadTo(e[i - 1], Align) + Len(es[i].data) /\ Len(es[i].data) \in Nat
    BY <1>2, <1>5 DEF EntryEnds
  <2>3. b[i - 1] \in Nat /\ b[i] = b[i - 1] + Len(ss[i])
    BY <1>3, <1>10 DEF Laid
  <2>4. e[i - 1] \in Nat /\ PadTo(e[i - 1], Align) \in Nat /\ TableArea \in Nat
    BY <1>3, <1>4, AlignFacts
  <2>5. StartOf(es, i) = e[i] - Len(es[i].data)
    BY DEF StartOf, e
  <2>6. b[i] <= b[n]
    <3> DEFINE Q == {k \in 0..n : k >= i => b[i] <= b[k]}
    <3>1. 0 \in Q
      BY <1>10
    <3>2. ASSUME NEW k \in 1..n, k - 1 \in Q PROVE k \in Q
      <4>1. b[k] = b[k - 1] + Len(ss[k]) /\ b[k - 1] \in Nat /\ b[i] \in Nat /\ Len(ss[k]) \in Nat
        BY <1>3, <1>7, <1>10 DEF Laid
      <4> QED BY <3>2, <4>1
    <3>3. 0..n \subseteq Q
      <4> HIDE DEF Q
      <4> QED BY <3>1, <3>2, UpTo
    <3> QED BY <3>3
  <2> QED BY <2>1, <2>2, <2>3, <2>4, <2>5, <2>6, SMTT(30)
<1>15. Len(Concat(ss)) = b[n]
  BY <1>10 DEF Laid
<1>16. ASSUME NEW i \in 1..n
       PROVE  /\ StartOf(es, i) \in Nat /\ StartOf(es, i) >= TableArea
              /\ StartOf(es, i) + Len(es[i].data) <= TableArea + Len(Concat(ss))
  <2>1. Len(ss[i]) = Len(es[i].data) + Len(pad(i)) /\ Len(pad(i)) \in Nat /\ Len(es[i].data) \in Nat
    BY <1>5, <1>6, <1>7
  <2>2. b[i] \in Nat /\ b[n] \in Nat /\ TableArea \in Nat
    BY <1>10, AlignFacts DEF Laid
  <2>3. /\ StartOf(es, i) = TableArea + b[i - 1] /\ b[i - 1] \in Nat
        /\ b[i] <= b[n] /\ b[i] = b[i - 1] + Len(ss[i])
    BY <1>14
  <2> DEFINE l == Len(es[i].data)
             x == StartOf(es, i)
             y == Len(Concat(ss))
  <2>4. y = b[n] /\ l \in Nat /\ x = TableArea + b[i - 1] /\ Len(ss[i]) = l + Len(pad(i))
    BY <1>15, <2>1, <2>3
  <2>5. Len(pad(i)) \in Nat
    BY <2>1
  <2> HIDE DEF l, x, y
  <2>6. x \in Nat /\ x >= TableArea /\ x + l <= TableArea + y
    <3>1. b[i - 1] + (l + Len(pad(i))) <= b[n]
      BY <2>3, <2>4
    <3>2. /\ TableArea + b[i - 1] \in Nat /\ TableArea + b[i - 1] >= TableArea
          /\ (TableArea + b[i - 1]) + l <= TableArea + b[n]
      BY <2>2, <2>3, <2>4, <2>5, <3>1, Within
    <3> QED BY <2>4, <3>2
  <2> QED BY <2>6 DEF l, x, y
<1>17. ASSUME NEW i \in 1..n, NEW j \in 1..Len(es[i].data)
       PROVE  Concat(ss)[StartOf(es, i) - TableArea + j] = es[i].data[j]
  <2>1. StartOf(es, i) - TableArea = b[i - 1]
    BY <1>14, AlignFacts
  <2>2. ss[i][j] = es[i].data[j] /\ j \in 1..Len(ss[i])
    BY <1>5, <1>6, <1>7
  <2>3. Concat(ss)[b[i - 1] + j] = ss[i][j]
    BY <1>10, <2>2 DEF Laid
  <2> QED BY <2>1, <2>2, <2>3
<1> QED BY <1>1, <1>8, <1>9, <1>16, <1>17

(* Of the numbers of an entry.                                             *)
LEMMA EntryTyped ==
  ASSUME NEW n \in Nat, NEW es \in [1..n -> Entry], NEW i \in 1..n
  PROVE  /\ es[i].id \in Nat /\ es[i].dest \in Nat /\ es[i].data \in Seq(Nat)
         /\ Len(es[i].data) \in Nat /\ StartOf(es, i) \in Nat
<1>1. es[i].id \in Nat /\ es[i].dest \in Nat /\ es[i].data \in Seq(Nat)
  BY DEF Entry
<1>2. Len(es[i].data) \in Nat
  BY <1>1, LenProperties
<1>3. StartOf(es, i) \in Nat
  BY Starts
<1> QED BY <1>1, <1>2, <1>3

(* c is n sequences of eight.                                              *)
AtEights(c, ss, n) ==
  /\ Len(c) = 8 * n
  /\ \A i \in 1..n : \A k \in 1..8 : c[8 * (i - 1) + k] = ss[i][k]

(* Sequences of eight laid one after the other.                            *)
LEMMA Eights ==
  ASSUME NEW T, NEW n \in Nat, NEW ss \in [1..n -> Seq(T)], \A i \in 1..n : Len(ss[i]) = 8
  PROVE  Concat(ss) \in Seq(T) /\ AtEights(Concat(ss), ss, n)
<1>1. Concat(ss) \in Seq(T)
  BY Concatenated
<1>2. PICK b : Laid(ss, n, b)
  BY Concatenated
<1> DEFINE P == {i \in 0..n : b[i] = 8 * i}
<1>3. 0 \in P
  BY <1>2 DEF Laid
<1>4. ASSUME NEW i \in 1..n, i - 1 \in P PROVE i \in P
  <2>1. b[i] = b[i - 1] + 8 /\ b[i - 1] = 8 * (i - 1)
    BY <1>2, <1>4 DEF Laid
  <2> QED BY <2>1
<1>5. 0..n \subseteq P
  <2> HIDE DEF P
  <2> QED BY <1>3, <1>4, UpTo
<1>6. \A i \in 0..n : b[i] = 8 * i
  BY <1>5
<1>7. \A i \in 1..n : i - 1 \in 0..n
  OBVIOUS
<1>8. Len(Concat(ss)) = 8 * n
  BY <1>2, <1>6 DEF Laid
<1>9. ASSUME NEW i \in 1..n, NEW k \in 1..8 PROVE Concat(ss)[8 * (i - 1) + k] = ss[i][k]
  <2>1. b[i - 1] = 8 * (i - 1) /\ k \in 1..Len(ss[i])
    BY <1>6, <1>7
  <2> QED BY <1>2, <2>1 DEF Laid
<1> QED BY <1>1, <1>8, <1>9 DEF AtEights

EntryLies(t, es, i) ==
  \A k \in 1..8 : t[TableOff + EntrySz * (i - 1) + k] = TableEntry(es, i)[k]

(* The table holds every entry where it is looked for.                     *)
LEMMA TableLaid ==
  ASSUME NEW T, NEW n \in Nat, NEW es \in [1..n -> Entry],
         NEW h \in Seq(T), Len(h) = HeaderLen, WordBytes(n) \in Seq(T), InTable(T, es, n)
  PROVE  LET t == Table(h, es)
         IN  /\ t \in Seq(T) /\ Len(t) = TableOff + EntrySz * n
             /\ t[1] = h[1] /\ t[2] = h[2]
             /\ t[3] = WordBytes(n)[1] /\ t[4] = WordBytes(n)[2]
             /\ \A i \in 1..n : EntryLies(t, es, i)
<1> DEFINE ss == [i \in 1..n |-> TableEntry(es, i)]
           b == WordBytes(n)
           u == h \o b
           c == Concat(ss)
           t == u \o c
<1>1. \A i \in 1..n : TableEntry(es, i) \in Seq(T) /\ Len(TableEntry(es, i)) = 8
  <2> TAKE i \in 1..n
  <2>1. /\ es[i].id \in Nat /\ es[i].dest \in Nat /\ Len(es[i].data) \in Nat
        /\ StartOf(es, i) \in Nat
    BY EntryTyped
  <2>2. /\ Len(WordBytes(es[i].id)) = 2 /\ Len(WordBytes(StartOf(es, i))) = 2
        /\ Len(WordBytes(Len(es[i].data))) = 2 /\ Len(WordBytes(es[i].dest)) = 2
    BY <2>1, WordBytesFacts
  <2>3. /\ WordBytes(es[i].id) \in Seq(T) /\ WordBytes(StartOf(es, i)) \in Seq(T)
        /\ WordBytes(Len(es[i].data)) \in Seq(T) /\ WordBytes(es[i].dest) \in Seq(T)
    BY DEF InTable
  <2> DEFINE x == TableEntry(es, i)
  <2>4. x \in Seq(T) /\ FourOf(x, WordBytes(es[i].id), WordBytes(StartOf(es, i)),
                               WordBytes(Len(es[i].data)), WordBytes(es[i].dest))
    BY <2>2, <2>3, FourWords DEF TableEntry
  <2> HIDE DEF x
  <2>5. x \in Seq(T) /\ Len(x) = 8
    BY <2>4 DEF FourOf
  <2> QED BY <2>5 DEF x
<1>2. Len(es) = n
  OBVIOUS
<1>3. Table(h, es) = t
  BY <1>2 DEF Table
<1>4. ss \in [1..n -> Seq(T)] /\ \A i \in 1..n : Len(ss[i]) = 8 /\ ss[i] = TableEntry(es, i)
  BY <1>1
<1> HIDE DEF ss
<1>5. c \in Seq(T) /\ Len(c) = 8 * n /\ AtEights(c, ss, n)
  <2>1. \A i \in 1..n : Len(ss[i]) = 8
    BY <1>4
  <2>2. c \in Seq(T) /\ AtEights(c, ss, n)
    BY <1>4, <2>1, Eights
  <2> QED BY <2>2 DEF AtEights
<1> HIDE DEF c
<1>6. b \in Seq(T) /\ Len(b) = 2
  BY WordBytesFacts
<1> HIDE DEF b
<1>7. u \in Seq(T) /\ Plus2(u, h, b, 2)
  <2>1. 2 \in Nat /\ Len(h) = 2
    BY DEF HeaderLen
  <2> QED BY <1>6, <2>1, TwoMore
<1> HIDE DEF u
<1>8. /\ Len(u) = 4 /\ u[1] = h[1] /\ u[2] = h[2] /\ u[3] = b[1] /\ u[4] = b[2]
  BY <1>7 DEF Plus2
<1>9. t \in Seq(T) /\ IsJoin(t, u, c)
  BY <1>5, <1>7, Appended
<1> HIDE DEF t
<1>10. /\ Len(t) = 4 + 8 * n /\ t[1] = h[1] /\ t[2] = h[2] /\ t[3] = b[1] /\ t[4] = b[2]
  BY <1>5, <1>8, <1>9 DEF IsJoin
<1>11. ASSUME NEW i \in 1..n, NEW k \in 1..8
       PROVE  t[4 + 8 * (i - 1) + k] = TableEntry(es, i)[k]
  <2> DEFINE q == 8 * (i - 1) + k
  <2>1. q \in 1..Len(c) /\ 4 + q = 4 + 8 * (i - 1) + k
    BY <1>5
  <2>2. c[q] = TableEntry(es, i)[k]
    BY <1>4, <1>5 DEF AtEights
  <2> HIDE DEF q
  <2>3. t[4 + q] = c[q]
    BY <1>8, <1>9, <2>1 DEF IsJoin
  <2> QED BY <2>1, <2>2, <2>3
<1>12. TableOff = 4 /\ EntrySz = 8
  BY DEF TableOff, EntrySz, CountOff, HeaderLen
<1> QED BY <1>3, <1>9, <1>10, <1>11, <1>12 DEF EntryLies, b

(* An entry that lies in the table is read.                                *)
LEMMA EntryFound ==
  ASSUME NEW n \in Nat, NEW es \in [1..n -> Entry], NEW i \in 1..n, NEW t, EntryLies(t, es, i)
  PROVE  EntryRead(t, es, i)
<1> DEFINE o == TableOff + EntrySz * (i - 1)
           a == WordBytes(es[i].id)
           b == WordBytes(StartOf(es, i))
           c == WordBytes(Len(es[i].data))
           d == WordBytes(es[i].dest)
<1>1. /\ es[i].id \in Nat /\ es[i].dest \in Nat /\ Len(es[i].data) \in Nat
      /\ StartOf(es, i) \in Nat
  BY EntryTyped
<1>2. /\ a \in Seq(Nat) /\ Len(a) = 2 /\ b \in Seq(Nat) /\ Len(b) = 2
      /\ c \in Seq(Nat) /\ Len(c) = 2 /\ d \in Seq(Nat) /\ Len(d) = 2
  BY <1>1, WordBytesFacts
<1>3. o \in Nat
  BY DEF TableOff, EntrySz, CountOff, HeaderLen
<1> DEFINE x == TableEntry(es, i)
<1>4. x = a \o b \o c \o d
  BY DEF TableEntry
<1> HIDE DEF a, b, c, d, x
<1>5. /\ x[1] = a[1] /\ x[2] = a[2] /\ x[3] = b[1] /\ x[4] = b[2]
      /\ x[5] = c[1] /\ x[6] = c[2] /\ x[7] = d[1] /\ x[8] = d[2]
  <2>1. FourOf(x, a, b, c, d)
    BY <1>2, <1>4, FourWords
  <2> QED BY <2>1 DEF FourOf
<1>6. \A k \in 1..8 : t[o + k] = x[k]
  BY DEF EntryLies, x
<1> HIDE DEF o
<1>7. /\ t[o + 1] = a[1] /\ t[o + 2] = a[2]
      /\ t[(o + 2) + 1] = b[1] /\ t[(o + 2) + 2] = b[2]
      /\ t[(o + 4) + 1] = c[1] /\ t[(o + 4) + 2] = c[2]
      /\ t[(o + 6) + 1] = d[1] /\ t[(o + 6) + 2] = d[2]
  <2>1. /\ (o + 2) + 1 = o + 3 /\ (o + 2) + 2 = o + 4 /\ (o + 4) + 1 = o + 5
        /\ (o + 4) + 2 = o + 6 /\ (o + 6) + 1 = o + 7 /\ (o + 6) + 2 = o + 8
    BY <1>3
  <2>2. 1 \in 1..8 /\ 2 \in 1..8 /\ 3 \in 1..8 /\ 4 \in 1..8 /\ 5 \in 1..8 /\ 6 \in 1..8
        /\ 7 \in 1..8 /\ 8 \in 1..8
    OBVIOUS
  <2> QED BY <1>5, <1>6, <2>1, <2>2
<1>8. WordAt(t, o + 1) = es[i].id
  BY <1>1, <1>3, <1>7, WordLies DEF a
<1>9. WordAt(t, (o + 2) + 1) = StartOf(es, i)
  <2>1. o + 2 \in Nat
    BY <1>3
  <2> QED BY <1>1, <1>7, <2>1, WordLies DEF b
<1>10. WordAt(t, (o + 4) + 1) = Len(es[i].data)
  <2>1. o + 4 \in Nat
    BY <1>3
  <2> QED BY <1>1, <1>7, <2>1, WordLies DEF c
<1>11. WordAt(t, (o + 6) + 1) = es[i].dest
  <2>1. o + 6 \in Nat
    BY <1>3
  <2> QED BY <1>1, <1>7, <2>1, WordLies DEF d
<1>12. (o + 2) + 1 = o + 3 /\ (o + 4) + 1 = o + 5 /\ (o + 6) + 1 = o + 7
  BY <1>3
<1> QED BY <1>8, <1>9, <1>10, <1>11, <1>12 DEF EntryRead, o

(* The header, the count, the table and the sections lie in c where        *)
(* container.sections looks for them.                                      *)
LaidOut(c, h, es, n) ==
  /\ TableOff + EntrySz * n <= Len(c)
  /\ c[1] = h[1] /\ c[2] = h[2] /\ c[3] = WordBytes(n)[1] /\ c[4] = WordBytes(n)[2]
  /\ \A i \in 1..n :
       /\ EntryLies(c, es, i)
       /\ StartOf(es, i) + Len(es[i].data) <= Len(c)
       /\ \A j \in 1..Len(es[i].data) : c[StartOf(es, i) + j] = es[i].data[j]

(* A container without padding and trailer is laid out.                    *)
LEMMA WholeLaid ==
  ASSUME NEW T, Byte \subseteq T, NEW n \in Nat, NEW es \in [1..n -> Entry],
         NEW h \in Seq(T), Len(h) = HeaderLen, WordBytes(n) \in Seq(T), InTable(T, es, n),
         StoredAll(es) \in Seq(T), TableOff + EntrySz * n <= TableArea
  PROVE  LET w == Whole(h, es)
         IN  /\ w \in Seq(T) /\ Len(w) = TableArea + Len(StoredAll(es))
             /\ LaidOut(w, h, es, n)
<1> DEFINE t == Table(h, es)
           z == Zeros(TableArea - Len(t))
           b == StoredAll(es)
           u == t \o z
           w == u \o b
           m == TableOff + EntrySz * n
<1>1. /\ t \in Seq(T) /\ Len(t) = m
      /\ t[1] = h[1] /\ t[2] = h[2]
      /\ t[3] = WordBytes(n)[1] /\ t[4] = WordBytes(n)[2]
      /\ \A i \in 1..n : EntryLies(t, es, i)
  BY TableLaid
<1>2. TableArea \in Nat /\ m \in Nat /\ m >= 4 /\ TableArea - m \in Nat /\ m <= TableArea
  BY ContainerAssumption DEF TableOff, EntrySz, CountOff, HeaderLen
<1>3. z \in Seq(T) /\ Len(z) = TableArea - m
  <2>1. z \in Seq(Byte) /\ Len(z) = TableArea - m
    BY <1>1, <1>2, ZerosFacts
  <2> QED BY <2>1, SeqMonotonic
<1>4. Whole(h, es) = w
  BY DEF Whole
<1> HIDE DEF t, z, b
<1>5. u \in Seq(T) /\ IsJoin(u, t, z)
  BY <1>1, <1>3, Appended
<1>6. b \in Seq(T)
  BY DEF b
<1> HIDE DEF u, m
<1>7. w \in Seq(T) /\ IsJoin(w, u, b)
  BY <1>5, <1>6, Appended
<1> HIDE DEF w
<1>8. /\ Len(w) = TableArea + Len(b) /\ Len(u) = TableArea /\ Len(b) \in Nat
      /\ \A q \in 1..m : w[q] = t[q]
      /\ \A q \in 1..Len(b) : w[TableArea + q] = b[q]
  <2>1. Len(u) = TableArea /\ (\A q \in 1..m : u[q] = t[q]) /\ Len(b) \in Nat
    BY <1>1, <1>2, <1>3, <1>5, <1>6, SMTT(30) DEF IsJoin
  <2>2. /\ Len(w) = Len(u) + Len(b) /\ \A q \in 1..Len(u) : w[q] = u[q]
        /\ \A q \in 1..Len(b) : w[Len(u) + q] = b[q]
    BY <1>7 DEF IsJoin
  <2>3. \A q \in 1..m : q \in 1..Len(u)
    BY <1>1, <1>2, <2>1
  <2> QED BY <2>1, <2>2, <2>3
<1>9. w[1] = h[1] /\ w[2] = h[2] /\ w[3] = WordBytes(n)[1] /\ w[4] = WordBytes(n)[2]
  BY <1>1, <1>2, <1>8, SMTT(30)
<1>10. ASSUME NEW i \in 1..n PROVE EntryLies(w, es, i)
  <2> SUFFICES ASSUME NEW k \in 1..8
               PROVE  w[TableOff + EntrySz * (i - 1) + k] = TableEntry(es, i)[k]
    BY DEF EntryLies
  <2>1. TableOff + EntrySz * (i - 1) + k \in 1..m
    BY DEF m, TableOff, EntrySz, CountOff, HeaderLen
  <2>2. t[TableOff + EntrySz * (i - 1) + k] = TableEntry(es, i)[k]
    BY <1>1 DEF EntryLies
  <2> QED BY <1>8, <2>1, <2>2
<1>11. ASSUME NEW i \in 1..n
       PROVE  /\ StartOf(es, i) + Len(es[i].data) <= Len(w)
              /\ \A j \in 1..Len(es[i].data) : w[StartOf(es, i) + j] = es[i].data[j]
  <2>1. /\ StartOf(es, i) \in Nat /\ StartOf(es, i) >= TableArea
        /\ StartOf(es, i) + Len(es[i].data) <= TableArea + Len(b)
        /\ \A j \in 1..Len(es[i].data) : b[StartOf(es, i) - TableArea + j] = es[i].data[j]
    BY Starts DEF b
  <2>2. ASSUME NEW j \in 1..Len(es[i].data) PROVE w[StartOf(es, i) + j] = es[i].data[j]
    <3> DEFINE q == StartOf(es, i) - TableArea + j
    <3>1. Len(es[i].data) \in Nat /\ j \in Nat /\ j >= 1 /\ j <= Len(es[i].data)
      BY EntryTyped
    <3>2. q \in 1..Len(b) /\ TableArea + q = StartOf(es, i) + j
      BY <1>2, <1>8, <2>1, <3>1, SMTT(30)
    <3>3. b[q] = es[i].data[j]
      BY <2>1
    <3> HIDE DEF q
    <3> QED BY <1>8, <3>2, <3>3
  <2> QED BY <1>8, <2>1, <2>2
<1>12. m <= Len(w)
  BY <1>2, <1>8
<1> QED BY <1>4, <1>7, <1>8, <1>9, <1>10, <1>11, <1>12 DEF LaidOut, b, m

(* A layout stays one in a sequence that goes on after it.                 *)
LEMMA LaidOutLonger ==
  ASSUME NEW n \in Nat, NEW es \in [1..n -> Entry], NEW h, NEW w, LaidOut(w, h, es, n),
         NEW c, Extends(c, w), Len(w) \in Nat, Len(c) \in Nat
  PROVE  LaidOut(c, h, es, n)
<1>1. TableOff + EntrySz * n <= Len(w) /\ TableOff + EntrySz * n \in Nat
      /\ TableOff + EntrySz * n >= 4
  BY DEF LaidOut, TableOff, EntrySz, CountOff, HeaderLen
<1>2. Len(w) <= Len(c) /\ \A q \in 1..Len(w) : c[q] = w[q]
  BY DEF Extends
<1>3. c[1] = h[1] /\ c[2] = h[2] /\ c[3] = WordBytes(n)[1] /\ c[4] = WordBytes(n)[2]
  BY <1>1, <1>2 DEF LaidOut
<1>4. ASSUME NEW i \in 1..n PROVE EntryLies(c, es, i)
  <2> SUFFICES ASSUME NEW k \in 1..8
               PROVE  c[TableOff + EntrySz * (i - 1) + k] = TableEntry(es, i)[k]
    BY DEF EntryLies
  <2>1. TableOff + EntrySz * (i - 1) + k \in 1..Len(w)
    BY <1>1 DEF TableOff, EntrySz, CountOff, HeaderLen
  <2>2. w[TableOff + EntrySz * (i - 1) + k] = TableEntry(es, i)[k]
    BY DEF LaidOut, EntryLies
  <2> QED BY <1>2, <2>1, <2>2
<1>5. ASSUME NEW i \in 1..n
      PROVE  /\ StartOf(es, i) + Len(es[i].data) <= Len(c)
             /\ \A j \in 1..Len(es[i].data) : c[StartOf(es, i) + j] = es[i].data[j]
  <2>1. /\ StartOf(es, i) + Len(es[i].data) <= Len(w)
        /\ \A j \in 1..Len(es[i].data) : w[StartOf(es, i) + j] = es[i].data[j]
    BY DEF LaidOut
  <2>2. StartOf(es, i) \in Nat /\ Len(es[i].data) \in Nat
    BY EntryTyped
  <2>3. \A j \in 1..Len(es[i].data) : StartOf(es, i) + j \in 1..Len(w)
    BY <2>1, <2>2
  <2>4. StartOf(es, i) + Len(es[i].data) <= Len(c)
    BY <1>2, <2>1, <2>2
  <2> QED BY <1>2, <2>1, <2>3, <2>4
<1>6. TableOff + EntrySz * n <= Len(c)
  BY <1>1, <1>2
<1> QED BY <1>3, <1>4, <1>5, <1>6 DEF LaidOut

(* container.sections reads back what build.build_container was given.     *)
LEMMA SectionsRead ==
  ASSUME NEW n \in Nat, NEW es \in [1..n -> Entry], NEW h \in Seq(Nat), Len(h) = HeaderLen,
         NEW c \in Seq(Nat), LaidOut(c, h, es, n)
  PROVE  Sections(c) = es /\ SubSeq(c, 1, HeaderLen) = h
<1>1. WordAt(c, CountOff + 1) = n
  <2>1. CountOff = 2
    BY DEF CountOff, HeaderLen
  <2>2. c[2 + 1] = WordBytes(n)[1] /\ c[2 + 2] = WordBytes(n)[2] /\ 2 \in Nat
    BY DEF LaidOut
  <2> QED BY <2>1, <2>2, WordLies
<1> DEFINE pos(k) == TableOff + EntrySz * (k - 1) + 1
           off(k) == WordAt(c, pos(k) + 2)
           sec(k) == [id |-> WordAt(c, pos(k)), dest |-> WordAt(c, pos(k) + 6),
                      data |-> SubSeq(c, off(k) + 1, off(k) + WordAt(c, pos(k) + 4))]
<1>2. ASSUME NEW k \in 1..n PROVE sec(k) = es[k]
  <2>1. EntryRead(c, es, k)
    BY EntryFound DEF LaidOut
  <2>2. /\ pos(k) + 2 = TableOff + EntrySz * (k - 1) + 3
        /\ pos(k) + 4 = TableOff + EntrySz * (k - 1) + 5
        /\ pos(k) + 6 = TableOff + EntrySz * (k - 1) + 7
    BY DEF TableOff, EntrySz, CountOff, HeaderLen
  <2>3. /\ WordAt(c, pos(k)) = es[k].id /\ WordAt(c, pos(k) + 2) = StartOf(es, k)
        /\ WordAt(c, pos(k) + 4) = Len(es[k].data) /\ WordAt(c, pos(k) + 6) = es[k].dest
    BY <2>1, <2>2 DEF EntryRead
  <2> DEFINE s == StartOf(es, k)
             l == Len(es[k].data)
             d == SubSeq(c, s + 1, s + l)
  <2>4. /\ es[k].data \in Seq(Nat) /\ s \in Nat /\ l \in Nat /\ s + l <= Len(c)
        /\ \A j \in 1..l : c[s + j] = es[k].data[j]
    <3>1. es[k].data \in Seq(Nat) /\ s \in Nat /\ l \in Nat
      BY EntryTyped
    <3>2. s + l <= Len(c) /\ \A j \in 1..l : c[s + j] = es[k].data[j]
      BY DEF LaidOut
    <3> QED BY <3>1, <3>2
  <2> HIDE DEF s, l
  <2>5. d = es[k].data
    <3> DEFINE a == s + 1
               b == s + l
               g == SubSeq(c, a, b)
    <3>1. a \in Nat \ {0} /\ b \in Nat /\ a <= b + 1 /\ b <= Len(c) /\ b - a + 1 = l
      BY <2>4
    <3>2. a = s + 1
      OBVIOUS
    <3> HIDE DEF a, b
    <3>3. g \in Seq(Nat) /\ Len(g) = b - a + 1 /\ \A q \in 1..(b - a + 1) : g[q] = c[a - 1 + q]
      BY <3>1, Cut, SMTT(30)
    <3> HIDE DEF g
    <3>4. Len(g) = l /\ \A q \in 1..l : g[q] = c[s + q]
      <4>1. \A q \in 1..l : a - 1 + q = s + q
        BY <2>4, <3>2
      <4> QED BY <3>1, <3>3, <4>1
    <3>5. Len(g) = Len(es[k].data) /\ \A q \in 1..Len(g) : g[q] = es[k].data[q]
      BY <2>4, <3>4 DEF l
    <3>6. g = es[k].data
      BY <2>4, <3>3, <3>5, SeqEqual
    <3> QED BY <3>6 DEF g, a, b
  <2>6. es[k] = [id |-> es[k].id, dest |-> es[k].dest, data |-> es[k].data]
    BY DEF Entry
  <2> QED BY <2>3, <2>5, <2>6 DEF s, l
<1>3. Sections(c) = [k \in 1..n |-> sec(k)]
  BY <1>1 DEF Sections
<1> HIDE DEF sec
<1>4. Sections(c) = es
  <2>1. [k \in 1..n |-> sec(k)] = es
    BY <1>2
  <2> QED BY <1>3, <2>1
<1>5. SubSeq(c, 1, HeaderLen) = h
  <2> DEFINE g == SubSeq(c, 1, 2)
  <2>1. 1 \in Nat \ {0} /\ 2 \in Nat /\ 1 <= 2 + 1 /\ 2 <= Len(c)
    BY DEF LaidOut, TableOff, EntrySz, CountOff, HeaderLen
  <2>2. g \in Seq(Nat) /\ Len(g) = 2 - 1 + 1 /\ \A q \in 1..(2 - 1 + 1) : g[q] = c[1 - 1 + q]
    BY <2>1, Cut
  <2> HIDE DEF g
  <2>3. Len(g) = 2 /\ g[1] = c[1] /\ g[2] = c[2] /\ c[1] = h[1] /\ c[2] = h[2]
    BY <2>2, SMTT(30) DEF LaidOut
  <2>4. Len(g) = Len(h) /\ \A q \in 1..Len(g) : g[q] = h[q]
    BY <2>3 DEF HeaderLen
  <2>5. g = h
    BY <2>2, <2>4, SeqEqual
  <2> QED BY <2>5 DEF g, HeaderLen
<1> QED BY <1>4, <1>5

(* Multiples of an even number, and two more, are even.                    *)
LEMMA Even ==
  ASSUME NEW a \in Nat, NEW k \in Nat \ {0}, a % k = 0, k % 2 = 0
  PROVE  (a + 2) % 2 = 0
<1> DEFINE q == a \div k
           j == k \div 2
           r == a % k
           s == k % 2
<1>1. a = (k * q) + r /\ q \in Int /\ r = 0
  <2>1. a \in Int
    OBVIOUS
  <2> QED BY <2>1, Division
<1>2. k = (2 * j) + s /\ j \in Int /\ s = 0
  <2>1. k \in Int /\ 2 \in Nat \ {0}
    OBVIOUS
  <2> QED BY <2>1, Division
<1> HIDE DEF q, j, r, s
<1> DEFINE p == j * q
           x == a + 2
<1>3. p \in Int /\ a = 2 * p
  <2>1. k = 2 * j /\ a = k * q
    BY <1>1, <1>2
  <2> QED BY <1>1, <1>2, <2>1
<1> HIDE DEF p
<1> DEFINE m == p + 1
<1>4. x = 2 * m + 0 /\ m \in Int /\ x \in Int /\ 0 \in 0..(2 - 1) /\ 2 \in Nat \ {0}
  BY <1>3
<1> HIDE DEF x, m
<1>5. x % 2 = 0
  BY <1>4, DivisionOnly
<1> QED BY <1>5 DEF x

(* What is stored is bytes.                                                *)
LEMMA StoredTyped ==
  ASSUME NEW n \in Nat, NEW es \in [1..n -> Entry], \A i \in 1..n : es[i].data \in Seq(Byte)
  PROVE  StoredAll(es) \in Seq(Byte)
<1> DEFINE pad(i) == IF i < n THEN Zeros(PadTo(Ends(es)[i], Align)) ELSE <<>>
           ss == [i \in 1..n |-> es[i].data \o pad(i)]
<1>1. Len(es) = n
  OBVIOUS
<1>2. StoredAll(es) = Concat(ss)
  BY <1>1 DEF StoredAll, Stored
<1>3. \A i \in 1..n : pad(i) \in Seq(Byte)
  <2> TAKE i \in 1..n
  <2>1. CASE i < n
    <3>1. i \in 0..n
      OBVIOUS
    <3>2. Ends(es)[i] \in Nat
      BY <3>1, EndsRecursion DEF EntryEnds
    <3>3. Align \in Nat \ {0} /\ PadTo(Ends(es)[i], Align) \in 0..(Align - 1)
      BY <3>2, AlignFacts, Aligned
    <3>4. PadTo(Ends(es)[i], Align) \in Nat
      BY <3>3
    <3>5. Zeros(PadTo(Ends(es)[i], Align)) \in Seq(Byte)
      BY <3>4, ZerosFacts
    <3> QED BY <2>1, <3>5
  <2>2. CASE ~(i < n)
    BY <2>2
  <2> QED BY <2>1, <2>2
<1> HIDE DEF pad
<1>4. ss \in [1..n -> Seq(Byte)]
  <2>1. \A i \in 1..n : es[i].data \o pad(i) \in Seq(Byte)
    BY <1>3, Appended
  <2> QED BY <2>1
<1> HIDE DEF ss
<1> QED BY <1>2, <1>4, Concatenated

(* A container the tools can lay out.                                      *)
Layable(h, es, n) ==
  /\ h \in Seq(Byte) /\ Len(h) = HeaderLen
  /\ n \in Nat /\ es \in [1..n -> Entry]
  /\ TableOff + EntrySz * n <= TableArea

(* What build.build_container builds: a layout, padding and a trailer.     *)
LEMMA ContainerBuilt ==
  ASSUME NEW n, NEW es, NEW h, Layable(h, es, n)
  PROVE  LET c == BuildContainer(h, es)
             w == Whole(h, es)
         IN  /\ c \in Seq(Nat) /\ w \in Seq(Nat) /\ Len(w) <= Len(c) - TrailerLen
             /\ Len(c) % 2 = 0 /\ \A q \in 1..Len(w) : c[q] = w[q]
             /\ LaidOut(w, h, es, n)
             /\ \A i \in 1..n : Len(es[i].data) <= Len(c) /\ StartOf(es, i) <= Len(c)
             /\ n <= Len(c)
<1> DEFINE w == Whole(h, es)
           pw == PadTo(Len(w), Align)
           z == Zeros(pw)
           y == Zeros(TrailerLen)
           u == w \o z
           c == u \o y
<1>1. /\ n \in Nat /\ es \in [1..n -> Entry] /\ h \in Seq(Byte) /\ Len(h) = HeaderLen
      /\ TableOff + EntrySz * n <= TableArea
  BY DEF Layable
<1>2. /\ Nat \subseteq Nat /\ Byte \subseteq Nat /\ h \in Seq(Nat) /\ WordBytes(n) \in Seq(Nat)
      /\ InTable(Nat, es, n) /\ StoredAll(es) \in Seq(Nat)
  <2>1. h \in Seq(Nat)
    BY <1>1, ByteFacts, SeqMonotonic
  <2>2. InTable(Nat, es, n)
    <3> SUFFICES ASSUME NEW i \in 1..n
                 PROVE  /\ WordBytes(es[i].id) \in Seq(Nat) /\ WordBytes(StartOf(es, i)) \in Seq(Nat)
                        /\ WordBytes(Len(es[i].data)) \in Seq(Nat) /\ WordBytes(es[i].dest) \in Seq(Nat)
      BY DEF InTable
    <3>1. /\ es[i].id \in Nat /\ es[i].dest \in Nat /\ Len(es[i].data) \in Nat
          /\ StartOf(es, i) \in Nat
      BY <1>1, EntryTyped
    <3> QED BY <3>1, WordBytesFacts
  <2> QED BY <1>1, <2>1, <2>2, ByteFacts, WordBytesFacts, Starts
<1>3. w \in Seq(Nat) /\ Len(w) = TableArea + Len(StoredAll(es)) /\ LaidOut(w, h, es, n)
  BY <1>1, <1>2, WholeLaid
<1>4. BuildContainer(h, es) = c
  BY ContainerParts
<1> HIDE DEF w
<1>5. Len(w) \in Nat /\ Align \in Nat \ {0} /\ pw \in 0..(Align - 1) /\ pw \in Nat
      /\ (Len(w) + pw) % Align = 0
  <2>1. Len(w) \in Nat /\ Align \in Nat \ {0}
    BY <1>3, AlignFacts
  <2>2. pw \in 0..(Align - 1) /\ (Len(w) + pw) % Align = 0
    BY <2>1, Aligned
  <2> HIDE DEF pw
  <2> QED BY <2>1, <2>2
<1> HIDE DEF pw
<1>6. z \in Seq(Nat) /\ Len(z) = pw /\ y \in Seq(Nat) /\ Len(y) = 2
  <2>1. TrailerLen \in Nat /\ TrailerLen = 2
    BY DEF TrailerLen
  <2>2. z \in Seq(Byte) /\ Len(z) = pw /\ y \in Seq(Byte) /\ Len(y) = TrailerLen
    BY <1>5, <2>1, ZerosFacts
  <2> QED BY <2>1, <2>2, ByteFacts, SeqMonotonic
<1> HIDE DEF z, y
<1>7. u \in Seq(Nat) /\ IsJoin(u, w, z)
  BY <1>3, <1>6, Appended
<1> HIDE DEF u
<1>8. c \in Seq(Nat) /\ IsJoin(c, u, y)
  BY <1>6, <1>7, Appended
<1> HIDE DEF c
<1>9. Len(u) = Len(w) + pw /\ Len(c) = (Len(w) + pw) + 2 /\ \A q \in 1..Len(w) : c[q] = w[q]
  <2>1. Len(u) = Len(w) + pw /\ \A q \in 1..Len(w) : u[q] = w[q]
    BY <1>6, <1>7 DEF IsJoin
  <2>2. Len(c) = Len(u) + 2 /\ \A q \in 1..Len(u) : c[q] = u[q]
    BY <1>6, <1>8 DEF IsJoin
  <2>3. \A q \in 1..Len(w) : q \in 1..Len(u)
    BY <1>5, <2>1
  <2> QED BY <1>5, <2>1, <2>2, <2>3
<1>10. Len(c) % 2 = 0
  <2> DEFINE a == Len(w) + pw
  <2>1. a \in Nat /\ a % Align = 0 /\ Align % 2 = 0 /\ Align \in Nat \ {0}
    BY <1>5, ContainerAssumption
  <2> HIDE DEF a
  <2>2. (a + 2) % 2 = 0
    BY <2>1, Even
  <2> QED BY <1>9, <2>2 DEF a
<1>11. Len(w) <= Len(c) - TrailerLen
  BY <1>5, <1>9 DEF TrailerLen
<1>12. ASSUME NEW i \in 1..n PROVE Len(es[i].data) <= Len(c) /\ StartOf(es, i) <= Len(c)
  <2>1. Len(es[i].data) \in Nat /\ StartOf(es, i) \in Nat
    BY <1>1, EntryTyped
  <2>2. StartOf(es, i) + Len(es[i].data) <= Len(w)
    BY <1>3 DEF LaidOut
  <2> QED BY <1>5, <1>9, <2>1, <2>2
<1>13. n <= Len(c)
  <2>1. TableOff + EntrySz * n <= Len(w)
    BY <1>3 DEF LaidOut
  <2> QED BY <1>1, <1>5, <1>9, <2>1 DEF TableOff, EntrySz, CountOff, HeaderLen
<1> QED BY <1>3, <1>4, <1>8, <1>9, <1>10, <1>11, <1>12, <1>13 DEF w

(* A container that fits is made of bytes.                                 *)
LEMMA ContainerBytes ==
  ASSUME NEW n, NEW es, NEW h, Layable(h, es, n),
         \A i \in 1..n : es[i].id \in Word /\ es[i].dest \in Word /\ es[i].data \in Seq(Byte),
         Fits(BuildContainer(h, es))
  PROVE  BuildContainer(h, es) \in Seq(Byte)
<1> DEFINE w == Whole(h, es)
           pw == PadTo(Len(w), Align)
           z == Zeros(pw)
           y == Zeros(TrailerLen)
           u == w \o z
           c == u \o y
<1>1. /\ n \in Nat /\ es \in [1..n -> Entry] /\ h \in Seq(Byte) /\ Len(h) = HeaderLen
      /\ TableOff + EntrySz * n <= TableArea
  BY DEF Layable
<1>2. /\ Len(BuildContainer(h, es)) \in Word /\ n <= Len(BuildContainer(h, es))
      /\ \A i \in 1..n : /\ Len(es[i].data) <= Len(BuildContainer(h, es))
                         /\ StartOf(es, i) <= Len(BuildContainer(h, es))
  BY ContainerBuilt DEF Fits
<1>3. ASSUME NEW x \in Nat, x <= Len(BuildContainer(h, es)) PROVE WordBytes(x) \in Seq(Byte)
  <2>1. x \in Word
    BY <1>2, <1>3, Widths DEF Word
  <2> QED BY <2>1, WordBytesFacts
<1>4. InTable(Byte, es, n)
  <2> SUFFICES ASSUME NEW i \in 1..n
               PROVE  /\ WordBytes(es[i].id) \in Seq(Byte) /\ WordBytes(StartOf(es, i)) \in Seq(Byte)
                      /\ WordBytes(Len(es[i].data)) \in Seq(Byte) /\ WordBytes(es[i].dest) \in Seq(Byte)
    BY DEF InTable
  <2>1. Len(es[i].data) \in Nat /\ StartOf(es, i) \in Nat
    BY <1>1, EntryTyped
  <2>2. WordBytes(StartOf(es, i)) \in Seq(Byte) /\ WordBytes(Len(es[i].data)) \in Seq(Byte)
    BY <1>2, <1>3, <2>1
  <2>3. es[i].id \in Word /\ es[i].dest \in Word /\ es[i].id \in Nat /\ es[i].dest \in Nat
    BY ByteFacts
  <2> QED BY <2>2, <2>3, WordBytesFacts
<1>5. WordBytes(n) \in Seq(Byte) /\ StoredAll(es) \in Seq(Byte)
  BY <1>1, <1>2, <1>3, StoredTyped
<1>6. w \in Seq(Byte)
  <2>1. Byte \subseteq Byte
    OBVIOUS
  <2> QED BY <1>1, <1>4, <1>5, <2>1, WholeLaid
<1>7. BuildContainer(h, es) = c
  BY ContainerParts
<1> HIDE DEF w
<1>8. pw \in Nat
  <2>1. Len(w) \in Nat /\ Align \in Nat \ {0}
    BY <1>6, AlignFacts
  <2>2. pw \in 0..(Align - 1)
    BY <2>1, Aligned
  <2> HIDE DEF pw
  <2> QED BY <2>1, <2>2
<1> HIDE DEF pw
<1>9. z \in Seq(Byte) /\ y \in Seq(Byte)
  BY <1>8, ZerosFacts DEF TrailerLen
<1> HIDE DEF z, y
<1>10. u \in Seq(Byte)
  BY <1>6, <1>9, Appended
<1> HIDE DEF u
<1> QED BY <1>7, <1>9, <1>10, Appended

-----------------------------------------------------------------------------
(* A finished file: what is read from it, and what the bootstrap checks.   *)

(* What decode_syx finds in a finished file.                               *)
Carries(t, s) ==
  /\ t \in Seq(Byte) /\ WordAt(t, 1) = Len(s) /\ WordAt(t, 3) = ContentChecksum(s)
  /\ SubSeq(t, 5, 4 + Len(s)) = s
  /\ SubSeq(t, 5, Len(t)) \in Seq(Byte) /\ Extends(SubSeq(t, 5, Len(t)), s)

(* What is sealed, and sent, and received.                                 *)
LEMMA FinishedStream ==
  ASSUME NEW c \in Seq(Byte), Len(c) >= TrailerLen, Fits(c),
         NEW fr, fr.start.device \in Nat
  PROVE  LET s == Seal(c, fr.start.device)
         IN  /\ s \in Seq(Byte) /\ Len(s) = Len(c)
             /\ Seal(s, fr.start.device) = s
             /\ \A q \in 1..(Len(c) - TrailerLen) : s[q] = c[q]
             /\ Preamble(s) \o s \in Seq(Byte)
             /\ Finished(c, fr) = EncodeSyx(Preamble(s) \o s, fr)
             /\ Carries(DecodeSyx(Finished(c, fr)), s)
<1> DEFINE dev == fr.start.device
           s == Seal(c, dev)
           st == Preamble(s) \o s
           f == EncodeSyx(st, fr)
           t == DecodeSyx(f)
<1>1. /\ s \in Seq(Byte) /\ Len(s) = Len(c) /\ Seal(s, dev) = s
      /\ \A q \in 1..(Len(c) - TrailerLen) : s[q] = c[q]
  <2> HIDE DEF dev
  <2>1. dev \in Nat
    BY DEF dev
  <2> QED BY <2>1, Sealed
<1>2. Finished(c, fr) = f
  BY DEF Finished
<1> HIDE DEF s
<1>3. Fits(s)
  BY <1>1 DEF Fits
<1>4. /\ st \in Seq(Byte) /\ Len(st) = 4 + Len(s)
      /\ WordAt(st, 1) = Len(s) /\ WordAt(st, 3) = ContentChecksum(s)
      /\ \A q \in 1..Len(s) : st[4 + q] = s[q]
  BY <1>1, <1>3, StreamRead
<1> HIDE DEF st
<1>5. t \in Seq(Byte) /\ Extends(t, st)
  BY <1>4, Carried
<1> HIDE DEF t
<1>6. /\ WordAt(t, 1) = WordAt(st, 1) /\ WordAt(t, 3) = WordAt(st, 3)
      /\ SubSeq(t, 5, 4 + Len(s)) = s
      /\ SubSeq(t, 5, Len(t)) \in Seq(Byte) /\ Extends(SubSeq(t, 5, Len(t)), s)
  BY <1>1, <1>4, <1>5, ExtendedRead
<1>7. Carries(t, s)
  BY <1>4, <1>5, <1>6 DEF Carries
<1> QED BY <1>1, <1>2, <1>4, <1>7 DEF s, st, t

(* A file's sections are stored words and bytes.                           *)
Storable(h, es, n) ==
  /\ Layable(h, es, n)
  /\ \A i \in 1..n : es[i].id \in Word /\ es[i].dest \in Word /\ es[i].data \in Seq(Byte)
  /\ Fits(BuildContainer(h, es))

(* A finished file has the header and the sections it was built of.        *)
LEMMA FinishedSections ==
  ASSUME NEW n, NEW es, NEW h, Storable(h, es, n), NEW fr, fr.start.device \in Nat
  PROVE  LET c == BuildContainer(h, es)
             f == Finished(c, fr)
         IN  /\ c \in Seq(Byte) /\ Len(c) >= TrailerLen /\ Fits(c) /\ Len(c) % 2 = 0
             /\ Sections(ContainerOf(f)) = es
             /\ SubSeq(ContainerOf(f), 1, HeaderLen) = h
<1> DEFINE c == BuildContainer(h, es)
           w == Whole(h, es)
           s == Seal(c, fr.start.device)
           t == DecodeSyx(Finished(c, fr))
           v == SubSeq(t, 5, Len(t))
<1>1. Layable(h, es, n) /\ Fits(c)
  BY DEF Storable
<1>2. c \in Seq(Byte)
  BY <1>1, ContainerBytes DEF Storable
<1>3. /\ w \in Seq(Nat) /\ Len(w) <= Len(c) - TrailerLen
      /\ Len(c) % 2 = 0 /\ \A q \in 1..Len(w) : c[q] = w[q]
      /\ LaidOut(w, h, es, n)
  BY <1>1, ContainerBuilt
<1> HIDE DEF c, w
<1>4. Len(w) \in Nat /\ Len(c) \in Nat /\ Len(c) >= TrailerLen
  <2>1. Len(w) \in Nat /\ Len(c) \in Nat
    BY <1>2, <1>3, LenProperties
  <2>2. Len(w) <= Len(c) - TrailerLen
    BY <1>3
  <2>3. Len(c) >= 2
    BY <2>1, <2>2 DEF TrailerLen
  <2> QED BY <2>1, <2>3 DEF TrailerLen
<1>5. /\ s \in Seq(Byte) /\ Len(s) = Len(c)
      /\ \A q \in 1..(Len(c) - TrailerLen) : s[q] = c[q]
      /\ Carries(t, s)
  BY <1>1, <1>2, <1>4, FinishedStream
<1> HIDE DEF s, t
<1>6. v \in Seq(Byte) /\ Len(s) <= Len(v) /\ \A q \in 1..Len(s) : v[q] = s[q]
  BY <1>5 DEF Carries, Extends
<1> HIDE DEF v
<1>7. Extends(v, w) /\ v \in Seq(Nat) /\ Len(v) \in Nat
  <2>1. \A q \in 1..Len(w) : q \in 1..Len(s) /\ q \in 1..(Len(c) - TrailerLen)
    BY <1>3, <1>4, <1>5 DEF TrailerLen
  <2>2. v \in Seq(Nat) /\ Len(v) \in Nat
    <3>1. v \in Seq(Nat)
      BY <1>6, ByteFacts, SeqMonotonic
    <3> QED BY <3>1, LenProperties
  <2>3. Len(w) <= Len(v)
    BY <1>3, <1>4, <1>5, <1>6, <2>2 DEF TrailerLen
  <2> QED BY <1>3, <1>5, <1>6, <2>1, <2>2, <2>3 DEF Extends
<1>8. n \in Nat /\ es \in [1..n -> Entry] /\ h \in Seq(Nat) /\ Len(h) = HeaderLen
  BY <1>1, ByteFacts, SeqMonotonic DEF Layable
<1>9. LaidOut(v, h, es, n)
  BY <1>3, <1>4, <1>7, <1>8, LaidOutLonger
<1>10. Sections(v) = es /\ SubSeq(v, 1, HeaderLen) = h
  BY <1>7, <1>8, <1>9, SectionsRead
<1>11. ContainerOf(Finished(c, fr)) = v
  BY DEF ContainerOf, v, t
<1> QED BY <1>1, <1>2, <1>3, <1>4, <1>10, <1>11 DEF c

IsFraming(m) == m \in [device : Nat, k : Nat, count : Seq(Nat)]

(* Counters are numbers.                                                   *)
LEMMA Base128Typed ==
  ASSUME NEW n \in Nat PROVE Base128(n) \in Seq(Nat)
<1> DEFINE k == 2^(B - 1)
           kk == k * k
           a == n \div kk
           b == n \div k
           x == a % k
           y == b % k
           z == n % k
<1>1. k \in Nat \ {0} /\ kk \in Nat \ {0}
  <2>1. k \in Nat \ {0}
    BY Widths
  <2> HIDE DEF k
  <2> QED BY <2>1
<1>2. Base128(n) = <<x, y, z>>
  BY DEF Base128
<1> HIDE DEF k, kk
<1>3. a \in Nat /\ b \in Nat
  BY <1>1, Division
<1> HIDE DEF a, b
<1>4. x \in Nat /\ y \in Nat /\ z \in Nat
  <2>1. a \in Int /\ b \in Int /\ n \in Int
    BY <1>3
  <2>2. x \in 0..(k - 1) /\ y \in 0..(k - 1) /\ z \in 0..(k - 1)
    BY <1>1, <2>1, Division
  <2> HIDE DEF x, y, z
  <2> QED BY <1>1, <2>2
<1> HIDE DEF x, y, z
<1> QED BY <1>2, <1>4

(* Writing a count into a framing message changes nothing else.            *)
LEMMA Patching ==
  ASSUME NEW m, IsFraming(m), NEW n \in Nat
  PROVE  LET p == PatchFramingCount(m, n)
         IN  /\ IsFraming(p) /\ p.device = m.device /\ p.k = m.k /\ p.count = Base128(n)
             /\ \A l : PatchFramingCount(p, l) = PatchFramingCount(m, l)
<1> DEFINE p == PatchFramingCount(m, n)
           b == Base128(n)
<1>1. b \in Seq(Nat)
  BY Base128Typed
<1>2. p = [m EXCEPT !.count = b]
  BY DEF PatchFramingCount
<1> HIDE DEF b, p
<1>3. IsFraming(p) /\ p.device = m.device /\ p.k = m.k /\ p.count = b
  BY <1>1, <1>2 DEF IsFraming
<1>4. ASSUME NEW l PROVE PatchFramingCount(p, l) = PatchFramingCount(m, l)
  <2> DEFINE d == Base128(l)
  <2>1. PatchFramingCount(p, l) = [p EXCEPT !.count = d] /\ PatchFramingCount(m, l) = [m EXCEPT !.count = d]
    BY DEF PatchFramingCount
  <2> HIDE DEF d
  <2>2. [p EXCEPT !.count = d] = [m EXCEPT !.count = d]
    BY <1>2, <1>3 DEF IsFraming
  <2> QED BY <2>1, <2>2
<1> QED BY <1>3, <1>4 DEF p, b

FramedAs(fr) == IsFraming(fr.start) /\ IsFraming(fr.end)

(* The messages of a finished file.                                        *)
LEMMA FinishedMessages ==
  ASSUME NEW c \in Seq(Byte), Len(c) >= TrailerLen, Fits(c), NEW fr, FramedAs(fr)
  PROVE  LET f == Finished(c, fr)
         IN  /\ FramedAs(f) /\ f.start.device = fr.start.device /\ f.start.k = fr.start.k
             /\ f.start.count = Base128(Len(f.data)) /\ f.end.count = Base128(Len(f.data))
             /\ \A l : /\ PatchFramingCount(f.start, l) = PatchFramingCount(fr.start, l)
                       /\ PatchFramingCount(f.end, l) = PatchFramingCount(fr.end, l)
             /\ \A i \in DOMAIN f.data :
                  \E p \in Seq(Byte) : Len(p) <= ChunkSize
                                       /\ f.data[i] = DataMessage(p, i, fr.start.k)
<1> DEFINE s == Seal(c, fr.start.device)
           st == Preamble(s) \o s
           n == PieceCount(st, ChunkSize)
           f == Finished(c, fr)
<1>1. fr.start.device \in Nat /\ IsFraming(fr.start) /\ IsFraming(fr.end)
  BY DEF FramedAs, IsFraming
<1>2. st \in Seq(Byte) /\ f = EncodeSyx(st, fr)
  BY <1>1, FinishedStream
<1> HIDE DEF st, f
<1>3. /\ n \in Nat /\ Len(f.data) = n /\ DOMAIN f.data = 1..n
      /\ f.start = PatchFramingCount(fr.start, n)
      /\ f.end = PatchFramingCount(fr.end, n)
      /\ \A i \in 1..n :
           /\ Piece(st, ChunkSize, i) \in Seq(Byte) /\ IsPiece(st, ChunkSize, i)
           /\ f.data[i] = DataMessage(Piece(st, ChunkSize, i), i, fr.start.k)
  BY <1>2, Messages
<1> HIDE DEF n
<1>4. /\ IsFraming(f.start) /\ f.start.device = fr.start.device /\ f.start.k = fr.start.k
      /\ f.start.count = Base128(n)
      /\ \A l : PatchFramingCount(f.start, l) = PatchFramingCount(fr.start, l)
  BY <1>1, <1>3, Patching
<1>5. /\ IsFraming(f.end) /\ f.end.count = Base128(n)
      /\ \A l : PatchFramingCount(f.end, l) = PatchFramingCount(fr.end, l)
  BY <1>1, <1>3, Patching
<1>6. ASSUME NEW i \in 1..n
      PROVE  \E p \in Seq(Byte) : Len(p) <= ChunkSize /\ f.data[i] = DataMessage(p, i, fr.start.k)
  <2> DEFINE p == Piece(st, ChunkSize, i)
  <2>1. p \in Seq(Byte) /\ IsPiece(st, ChunkSize, i) /\ f.data[i] = DataMessage(p, i, fr.start.k)
    BY <1>3
  <2>2. Len(p) <= ChunkSize
    BY <2>1, ContainerAssumption DEF IsPiece
  <2> HIDE DEF p
  <2> QED BY <2>1, <2>2
<1> QED BY <1>3, <1>4, <1>5, <1>6 DEF f, FramedAs

(* container.verify_stream and authcode.verify hold of a finished file.    *)
LEMMA AuthenticFinished ==
  ASSUME NEW c \in Seq(Byte), Len(c) >= TrailerLen, Fits(c), Len(c) % 2 = 0,
         NEW fr, FramedAs(fr), file = Finished(c, fr)
  PROVE  Authentic
<1> DEFINE s == Seal(c, fr.start.device)
           t == DecodeSyx(file)
           u == SubSeq(t, 5, 4 + WordAt(t, 1))
<1>1. fr.start.device \in Nat
  BY DEF FramedAs, IsFraming
<1>2. s \in Seq(Byte) /\ Len(s) = Len(c) /\ Seal(s, fr.start.device) = s /\ Carries(t, s)
  BY <1>1, FinishedStream
<1>3. /\ file.start.device = fr.start.device /\ file.start.k = fr.start.k
      /\ file.start.count = Base128(Len(file.data)) /\ file.end.count = Base128(Len(file.data))
      /\ \A i \in DOMAIN file.data :
           \E p \in Seq(Byte) : Len(p) <= ChunkSize
                                /\ file.data[i] = DataMessage(p, i, fr.start.k)
  BY FinishedMessages
<1> HIDE DEF s, t
<1>4. u = s /\ WordAt(t, 1) = Len(s) /\ WordAt(t, 3) = ContentChecksum(s)
  BY <1>2 DEF Carries
<1> HIDE DEF u
<1>5. /\ Len(u) = WordAt(t, 1) /\ Len(u) % 2 = 0 /\ ContentChecksum(u) = WordAt(t, 3)
      /\ Seal(u, file.start.device) = u
  BY <1>2, <1>3, <1>4
<1>6. ASSUME NEW i \in DOMAIN file.data
      PROVE  LET m == file.data[i]
             IN  /\ m.counter = Base128(FirstCounter + i - 1)
                 /\ m.check = PacketChecksum(m.counter, m.payload, file.start.k)
                 /\ \A b \in Range(m.payload) : b < 2^(B - 1)
  <2>1. PICK p \in Seq(Byte) : Len(p) <= ChunkSize /\ file.data[i] = DataMessage(p, i, fr.start.k)
    BY <1>3
  <2> DEFINE m == DataMessage(p, i, fr.start.k)
  <2>2. /\ m.payload \in Seq(Low) /\ m.counter = Base128(FirstCounter + i - 1)
        /\ m.check = PacketChecksum(m.counter, m.payload, fr.start.k)
    BY <2>1, MessageRead
  <2> HIDE DEF m
  <2>3. \A b \in Range(m.payload) : b < 2^(B - 1)
    <3> DEFINE h == 2^(B - 1)
    <3>1. h \in Nat /\ Low = 0..(h - 1)
      BY Widths DEF Low
    <3> HIDE DEF h
    <3>2. \A j \in DOMAIN m.payload : m.payload[j] \in Low
      BY <2>2
    <3>3. \A b \in Range(m.payload) : b \in Low
      BY <3>2 DEF Range
    <3> QED BY <3>1, <3>3 DEF h
  <2> QED BY <1>3, <2>1, <2>2, <2>3 DEF m
<1>7. \A m \in {file.start, file.end} : m.count = Base128(Len(file.data))
  BY <1>3
<1> QED BY <1>5, <1>6, <1>7 DEF Authentic, u, t

(* Framing a file anew changes nothing but what it carries.                *)
LEMMA FinishedAgain ==
  ASSUME NEW c \in Seq(Byte), Len(c) >= TrailerLen, Fits(c), NEW fr, FramedAs(fr), NEW d
  PROVE  Finished(d, Finished(c, fr)) = Finished(d, fr)
<1> DEFINE f == Finished(c, fr)
<1>1. /\ f.start.device = fr.start.device /\ f.start.k = fr.start.k
      /\ \A l : /\ PatchFramingCount(f.start, l) = PatchFramingCount(fr.start, l)
                /\ PatchFramingCount(f.end, l) = PatchFramingCount(fr.end, l)
  BY FinishedMessages
<1> HIDE DEF f
<1> DEFINE s == Seal(d, fr.start.device)
           st == Preamble(s) \o s
<1>2. Finished(d, f) = EncodeSyx(st, f) /\ Finished(d, fr) = EncodeSyx(st, fr)
  BY <1>1 DEF Finished
<1> HIDE DEF st
<1>3. EncodeSyx(st, f) = EncodeSyx(st, fr)
  BY <1>1 DEF EncodeSyx
<1> QED BY <1>2, <1>3 DEF f

-----------------------------------------------------------------------------
(* The codec of the tools: what aplib packs, elz reads, and what elz reads *)
(* is bytes.                                                               *)

Reasons == {"", "eof", "gamma", "offset"}

(* Readers of a stream that ends at end.                                   *)
Readers(end) ==
  [p : 1..(end + 1), tag : 0..(2^(B + 1) - 1), v : Nat, bad : Reasons]

Unpackings(end) == [r : Readers(end), out : Seq(Byte), last : Nat, go : BOOLEAN]

(* A stream, and where its last byte is.                                   *)
IsStream(d, end) == d \in Seq(Byte) /\ end \in Nat /\ end <= Len(d)

(* The register holds a byte and the sentinel.                             *)
LEMMA Register ==
  /\ 2^(B + 1) = 2 * 2^B /\ 2^(B + 1) \in Nat \ {0} /\ 2^B \in Nat \ {0}
  /\ 2^B = 2 * 2^(B - 1) /\ 2^(B - 1) \in Nat \ {0}
  /\ Byte = 0..(2^B - 1)
<1>1. B \in Nat
  BY BytesAssumption
<1>2. 2^(B + 1) = 2 * 2^B /\ 2^B \in Nat \ {0} /\ 2^B = 2 * 2^(B - 1) /\ 2^(B - 1) \in Nat \ {0}
  BY <1>1, PowerNext, Widths
<1> DEFINE m == 2^B
<1>3. m \in Nat \ {0} /\ 2^(B + 1) = 2 * m
  BY <1>2
<1> HIDE DEF m
<1>4. 2 * m \in Nat \ {0}
  BY <1>3
<1> QED BY <1>2, <1>3, <1>4 DEF Byte

(* Bits.byte.                                                              *)
LEMMA ReadByteTyped ==
  ASSUME NEW d, NEW end, IsStream(d, end), NEW r \in Readers(end)
  PROVE  LET b == ReadByte(d, end, r)
         IN  b \in Readers(end) /\ b.tag = r.tag /\ (b.bad = "" => b.v \in Byte)
<1> DEFINE b == ReadByte(d, end, r)
<1> SUFFICES b \in Readers(end) /\ b.tag = r.tag /\ (b.bad = "" => b.v \in Byte)
  OBVIOUS
<1>1. r.p \in 1..(end + 1) /\ r.tag \in 0..(2^(B + 1) - 1) /\ r.v \in Nat /\ r.bad \in Reasons
      /\ r = [p |-> r.p, tag |-> r.tag, v |-> r.v, bad |-> r.bad]
  BY DEF Readers
<1>2. CASE r.bad # ""
  <2>1. b = r
    BY <1>2 DEF ReadByte
  <2> QED BY <1>2, <2>1
<1>3. CASE r.bad = "" /\ r.p > end
  <2>1. b = [r EXCEPT !.bad = "eof"]
    BY <1>3 DEF ReadByte
  <2>2. b = [p |-> r.p, tag |-> r.tag, v |-> r.v, bad |-> "eof"]
    BY <1>1, <2>1
  <2> HIDE DEF b
  <2> QED BY <1>1, <2>2 DEF Readers, Reasons
<1>4. CASE r.bad = "" /\ ~(r.p > end)
  <2>1. b = [r EXCEPT !.v = d[r.p], !.p = @ + 1]
    BY <1>4 DEF ReadByte
  <2>2. b = [p |-> r.p + 1, tag |-> r.tag, v |-> d[r.p], bad |-> r.bad]
    BY <1>1, <2>1
  <2> DEFINE p == r.p
  <2>3. p + 1 \in 1..(end + 1) /\ p \in 1..Len(d)
    <3>1. p \in 1..(end + 1) /\ ~(p > end) /\ end \in Nat /\ end <= Len(d) /\ Len(d) \in Nat
      BY <1>1, <1>4, LenProperties DEF IsStream
    <3> HIDE DEF p
    <3> QED BY <3>1
  <2>4. d[p] \in Byte /\ d[p] \in Nat
    <3>1. d \in Seq(Byte)
      BY DEF IsStream
    <3>2. d[p] \in Byte
      <4> HIDE DEF p
      <4> QED BY <2>3, <3>1, ElementOfSeq
    <3> QED BY <3>2, ByteFacts
  <2> HIDE DEF b
  <2> QED BY <1>1, <2>2, <2>3, <2>4 DEF Readers
<1> QED BY <1>2, <1>3, <1>4

(* Bits.bit.                                                               *)
LEMMA ReadBitTyped ==
  ASSUME NEW d, NEW end, IsStream(d, end), NEW r \in Readers(end)
  PROVE  LET b == ReadBit(d, end, r)
         IN  b \in Readers(end) /\ (b.bad = "" => b.v \in {0, 1})
<1> DEFINE b == ReadBit(d, end, r)
           c == ReadByte(d, end, r)
           m == 2^B
           h == 2^(B - 1)
           t == (2 * r.tag) % 2^(B + 1)
<1> SUFFICES b \in Readers(end) /\ (b.bad = "" => b.v \in {0, 1})
  OBVIOUS
<1>1. r.p \in 1..(end + 1) /\ r.tag \in 0..(2^(B + 1) - 1) /\ r.v \in Nat /\ r.bad \in Reasons
      /\ r = [p |-> r.p, tag |-> r.tag, v |-> r.v, bad |-> r.bad]
  BY DEF Readers
<1>2. c \in Readers(end) /\ (c.bad = "" => c.v \in Byte)
  BY ReadByteTyped
<1>3. /\ m \in Nat \ {0} /\ h \in Nat \ {0} /\ m = 2 * h /\ 2^(B + 1) = 2 * m
      /\ Byte = 0..(m - 1)
  BY Register
<1>4. t = (2 * r.tag) % (2 * m) /\ r.tag \in Nat
  BY <1>1, <1>3
<1> HIDE DEF c, m, h, t
<1>5. t \in 0..(2 * m - 1) /\ t \div m \in {0, 1}
  <2>1. t \in 0..(2 * m - 1)
    BY <1>3, <1>4
  <2>2. CASE t < m
    <3>1. t \in Int /\ t \in 0..(m - 1) /\ t = m * 0 + t
      BY <1>3, <2>1, <2>2
    <3>2. t \div m = 0
      BY <1>3, <3>1, DivisionOnly
    <3> QED BY <2>1, <3>2
  <2>3. CASE t >= m
    <3>1. t \in Int /\ t - m \in 0..(m - 1) /\ t = m * 1 + (t - m)
      BY <1>3, <2>1, <2>3
    <3>2. t \div m = 1
      BY <1>3, <3>1, DivisionOnly
    <3> QED BY <2>1, <3>2
  <2> QED BY <1>3, <2>1, <2>2, <2>3
<1>6. CASE r.bad # ""
  <2>1. b = r
    BY <1>6 DEF ReadBit
  <2> QED BY <1>6, <2>1
<1>7. CASE r.bad = "" /\ t % m # 0
  <2>1. b = [r EXCEPT !.tag = t, !.v = t \div m]
    BY <1>7 DEF ReadBit, t, m
  <2>2. b = [p |-> r.p, tag |-> t, v |-> t \div m, bad |-> r.bad]
    BY <1>1, <2>1
  <2>3. t \in 0..(2^(B + 1) - 1) /\ t \div m \in Nat
    BY <1>3, <1>5
  <2> HIDE DEF b
  <2> QED BY <1>1, <1>5, <2>2, <2>3 DEF Readers
<1>8. CASE r.bad = "" /\ t % m = 0 /\ c.bad # ""
  <2>1. b = c
    BY <1>8 DEF ReadBit, t, m, c
  <2> QED BY <1>2, <1>8, <2>1
<1>9. CASE r.bad = "" /\ t % m = 0 /\ c.bad = ""
  <2>1. b = [c EXCEPT !.tag = 2 * c.v + 1, !.v = c.v \div h]
    BY <1>9 DEF ReadBit, t, m, c, h
  <2>2. c = [p |-> c.p, tag |-> c.tag, v |-> c.v, bad |-> c.bad] /\ c.p \in 1..(end + 1)
    BY <1>2 DEF Readers
  <2>3. b = [p |-> c.p, tag |-> 2 * c.v + 1, v |-> c.v \div h, bad |-> c.bad]
    BY <2>1, <2>2
  <2>4. c.v \in 0..(2 * h - 1)
    BY <1>2, <1>3, <1>9
  <2>5. 2 * c.v + 1 \in 0..(2^(B + 1) - 1)
    BY <1>3, <2>4
  <2>6. c.v \div h \in {0, 1}
    <3> DEFINE x == c.v
    <3>1. x \in 0..(2 * h - 1)
      BY <2>4
    <3> HIDE DEF x
    <3>2. CASE x < h
      <4>1. x \in Int /\ x \in 0..(h - 1) /\ x = h * 0 + x
        BY <1>3, <3>1, <3>2
      <4>2. x \div h = 0
        BY <1>3, <4>1, DivisionOnly
      <4> QED BY <4>2 DEF x
    <3>3. CASE x >= h
      <4>1. x \in Int /\ x - h \in 0..(h - 1) /\ x = h * 1 + (x - h)
        BY <1>3, <3>1, <3>3
      <4>2. x \div h = 1
        BY <1>3, <4>1, DivisionOnly
      <4> QED BY <4>2 DEF x
    <3> QED BY <1>3, <3>1, <3>2, <3>3
  <2>7. "" \in Reasons /\ c.v \div h \in Nat
    BY <2>6 DEF Reasons
  <2> HIDE DEF b
  <2> QED BY <1>9, <2>2, <2>3, <2>5, <2>6, <2>7 DEF Readers
<1> QED BY <1>6, <1>7, <1>8, <1>9

(* Passes over a gamma.                                                    *)
Gammas(end) == [r : Readers(end), v : Nat, go : BOOLEAN]

(* A pass leaves a reader and a number.                                    *)
LEMMA GammaPassTyped ==
  ASSUME NEW d, NEW end, IsStream(d, end), NEW g \in Gammas(end)
  PROVE  GammaPass(d, end, g) \in Gammas(end)
<1> DEFINE a == ReadBit(d, end, g.r)
           s == ReadBit(d, end, a)
           v == 2 * g.v + a.v
           x == GammaPass(d, end, g)
<1>1. g.r \in Readers(end) /\ g.v \in Nat
  BY DEF Gammas
<1>2. a \in Readers(end) /\ s \in Readers(end)
  BY <1>1, ReadBitTyped
<1>3. x = CASE s.bad # "" -> [r |-> s, v |-> v, go |-> FALSE]
            [] s.bad = "" /\ s.v = 1 -> [r |-> s, v |-> v, go |-> FALSE]
            [] s.bad = "" /\ s.v # 1 /\ v > GammaMax ->
                 [r |-> [s EXCEPT !.bad = "gamma"], v |-> v, go |-> FALSE]
            [] OTHER -> [r |-> s, v |-> v, go |-> TRUE]
  BY DEF GammaPass
<1> HIDE DEF a, s, x
<1>4. a.v \in Nat
  BY <1>2 DEF Readers
<1>5. v \in Nat
  BY <1>1, <1>4
<1> HIDE DEF v
<1>6. [s EXCEPT !.bad = "gamma"] \in Readers(end)
  BY <1>2 DEF Readers, Reasons
<1>7. x \in {[r |-> s, v |-> v, go |-> FALSE], [r |-> s, v |-> v, go |-> TRUE],
             [r |-> [s EXCEPT !.bad = "gamma"], v |-> v, go |-> FALSE]}
  BY <1>3
<1>8. ASSUME NEW q \in Readers(end), NEW e \in BOOLEAN
      PROVE  [r |-> q, v |-> v, go |-> e] \in Gammas(end)
  BY <1>5 DEF Gammas
<1>9. x \in Gammas(end)
  BY <1>2, <1>6, <1>7, <1>8
<1> QED BY <1>9 DEF x

(* The loop of Bits.gamma.                                                 *)
GammaLoop(f, d, end, r) ==
  /\ f \in [0..GammaPasses -> Gammas(end)]
  /\ f[0] = [r |-> r, v |-> 1, go |-> r.bad = ""]
  /\ \A i \in 1..GammaPasses :
       f[i] = IF f[i - 1].go THEN GammaPass(d, end, f[i - 1]) ELSE f[i - 1]

(* What the loop runs through, and where it ends.                          *)
LEMMA GammaRead ==
  ASSUME NEW d, NEW end, IsStream(d, end), NEW r \in Readers(end)
  PROVE  \E f : /\ GammaLoop(f, d, end, r)
                /\ ReadGamma(d, end, r) = [f[GammaPasses].r EXCEPT !.v = f[GammaPasses].v]
<1> DEFINE n == GammaPasses
           S == Gammas(end)
           Once(x) == IF x.go THEN GammaPass(d, end, x) ELSE x
           step == [i \in 1..n |-> [x \in S |-> Once(x)]]
           x0 == [r |-> r, v |-> 1, go |-> r.bad = ""]
           Eq(h) == h = [i \in 0..n |-> IF i = 0 THEN x0
                                        ELSE LET g == h[i - 1] IN  IF g.go THEN GammaPass(d, end, g) ELSE g]
           h0 == CHOOSE h : Eq(h)
<1>1. n \in Nat
  BY Widths DEF GammaPasses
<1>2. x0 \in S
  BY DEF Gammas
<1>3. step \in [1..n -> [S -> S]]
  <2>1. \A x \in S : Once(x) \in S
    BY GammaPassTyped
  <2> HIDE DEF Once
  <2> QED BY <2>1
<1>4. PICK f : Iterates(f, n, S, x0, step)
  <2> HIDE DEF n, S, step, x0
  <2> QED BY <1>1, <1>2, <1>3, Recursion
<1>5. \A i \in 1..n : i - 1 \in 0..n /\ i \in 0..n /\ i # 0
  BY <1>1
<1>6. /\ f \in [0..n -> S] /\ f[0] = x0
      /\ \A i \in 1..n : f[i] = Once(f[i - 1])
  <2>1. f \in [0..n -> S] /\ f[0] = x0 /\ \A i \in 1..n : f[i] = step[i][f[i - 1]]
    BY <1>4 DEF Iterates
  <2>2. \A i \in 1..n : f[i - 1] \in S
    BY <2>1, <1>5
  <2> HIDE DEF S, x0, n, Once
  <2> QED BY <2>1, <2>2
<1>7. Eq(f)
  <2> HIDE DEF x0, S, n
  <2>1. \A i \in 0..n : f[i] = IF i = 0 THEN x0
                                 ELSE LET g == f[i - 1] IN  IF g.go THEN GammaPass(d, end, g) ELSE g
    <3> TAKE i \in 0..n
    <3>1. CASE i = 0
      BY <1>6, <3>1
    <3>2. CASE i # 0
      <4>1. i \in 1..n
        BY <1>1, <3>2
      <4> QED BY <1>6, <3>2, <4>1
    <3> QED BY <3>1, <3>2
  <2>2. f = [i \in 0..n |-> f[i]]
    BY <1>6
  <2> QED BY <2>1, <2>2
<1>8. Eq(h0)
  <2> HIDE DEF Eq
  <2> QED BY <1>7
<1>9. h0[n] = f[n]
  <2> HIDE DEF h0, x0, S, n
  <2>1. h0[0] = x0
    BY <1>1, <1>8
  <2>2. \A i \in 1..n : h0[i] = Once(h0[i - 1])
    <3> TAKE i \in 1..n
    <3>1. i \in 0..n /\ i # 0
      BY <1>5
    <3> QED BY <1>8, <3>1
  <2>3. \A i \in 1..n : h0[i - 1] \in S => h0[i] = step[i][h0[i - 1]]
    <3> HIDE DEF Once
    <3> QED BY <2>2
  <2> HIDE DEF Eq, step, Once
  <2>4. Follows(h0, n, S, x0, step)
    BY <2>1, <2>3 DEF Follows
  <2>5. Agree(h0, f, n)
    BY <1>1, <1>4, <2>4, RecursionOnly
  <2>6. n \in 0..n
    BY <1>1
  <2> QED BY <2>5, <2>6 DEF Agree
<1>10. ReadGamma(d, end, r) = [h0[n].r EXCEPT !.v = h0[n].v]
  BY DEF ReadGamma
<1> HIDE DEF h0, Eq, step
<1>11. GammaLoop(f, d, end, r)
  BY <1>6 DEF GammaLoop
<1>12. ReadGamma(d, end, r) = [f[n].r EXCEPT !.v = f[n].v]
  BY <1>9, <1>10
<1> HIDE DEF n
<1> QED BY <1>11, <1>12 DEF n

(* Bits.gamma.                                                             *)
LEMMA ReadGammaTyped ==
  ASSUME NEW d, NEW end, IsStream(d, end), NEW r \in Readers(end)
  PROVE  ReadGamma(d, end, r) \in Readers(end)
<1>1. PICK f : /\ GammaLoop(f, d, end, r)
               /\ ReadGamma(d, end, r) = [f[GammaPasses].r EXCEPT !.v = f[GammaPasses].v]
  BY GammaRead
<1> DEFINE g == f[GammaPasses]
<1>2. GammaPasses \in 0..GammaPasses
  BY Widths DEF GammaPasses
<1>3. g \in Gammas(end)
  BY <1>1, <1>2 DEF GammaLoop
<1> HIDE DEF g
<1>4. g.r \in Readers(end) /\ g.v \in Nat
  BY <1>3 DEF Gammas
<1>5. [g.r EXCEPT !.v = g.v] \in Readers(end)
  BY <1>4 DEF Readers
<1> QED BY <1>1, <1>5 DEF g

(* Where a match is read from, and how long it is.                         *)
LEMMA OffsetTyped ==
  ASSUME NEW d, NEW end, IsStream(d, end), NEW g \in Readers(end), NEW prev \in Nat
  PROVE  LET m == Offset(d, end, g, prev)
         IN  m.r \in Readers(end) /\ m.off \in Nat /\ m.end \in BOOLEAN
<1> DEFINE b == ReadByte(d, end, g)
           raw == (g.v * 2^B + b.v) % 2^(2 * B)
           off == (raw - Bias) % 2^(2 * B)
           e == b.bad = "" /\ raw = Bias
           m == Offset(d, end, g, prev)
<1> SUFFICES m.r \in Readers(end) /\ m.off \in Nat /\ m.end \in BOOLEAN
  OBVIOUS
<1>1. b \in Readers(end)
  BY ReadByteTyped
<1>2. m = IF g.bad = "" /\ g.v = Reuse
            THEN [r |-> g, off |-> prev, end |-> FALSE]
            ELSE [r |-> b, off |-> off, end |-> e]
  BY DEF Offset
<1>3. off \in Nat
  <2> DEFINE w == 2^B
             k == 2^(2 * B)
  <2>1. w \in Nat \ {0} /\ k \in Nat \ {0} /\ Bias = 3 * w - 1
    BY Widths DEF Bias
  <2>2. g.v \in Nat /\ b.v \in Nat
    BY <1>1 DEF Readers
  <2> HIDE DEF w, k, b
  <2> DEFINE x == g.v * w + b.v
             z == x % k
             y == z - Bias
  <2>3. x \in Int
    BY <2>1, <2>2
  <2> HIDE DEF x
  <2>4. z \in Int
    BY <2>1, <2>3, Division
  <2> HIDE DEF z
  <2>5. y \in Int
    BY <2>1, <2>4
  <2> HIDE DEF y
  <2>6. y % k \in Nat
    BY <2>1, <2>5, Division
  <2> QED BY <2>6 DEF y, z, x, w, k
<1> HIDE DEF b, off, m
<1>4. e \in BOOLEAN
  OBVIOUS
<1> HIDE DEF e
<1>5. CASE g.bad = "" /\ g.v = Reuse
  <2>1. m = [r |-> g, off |-> prev, end |-> FALSE]
    BY <1>2, <1>5
  <2> QED BY <2>1
<1>6. CASE ~(g.bad = "" /\ g.v = Reuse)
  <2>1. m = [r |-> b, off |-> off, end |-> e]
    BY <1>2, <1>6
  <2> QED BY <1>1, <1>3, <1>4, <2>1
<1> QED BY <1>5, <1>6

(* The length is a number, and the reader stays one.                       *)
LEMMA LengthTyped ==
  ASSUME NEW d, NEW end, IsStream(d, end), NEW h \in Readers(end)
  PROVE  LET n == Length(d, end, h) IN  n.r \in Readers(end) /\ n.n \in Nat
<1> DEFINE l == ReadBit(d, end, h)
           g == ReadGamma(d, end, l)
           n == Length(d, end, h)
<1> SUFFICES n.r \in Readers(end) /\ n.n \in Nat
  OBVIOUS
<1>1. l \in Readers(end)
  BY ReadBitTyped
<1>2. g \in Readers(end)
  BY <1>1, ReadGammaTyped
<1>3. n = IF l.bad = "" /\ h.v = 0 /\ l.v = 0
            THEN [r |-> g, n |-> g.v + 2] ELSE [r |-> l, n |-> 2 * h.v + l.v]
  BY DEF Length
<1>4. h.v \in Nat /\ l.v \in Nat /\ g.v \in Nat
  BY <1>1, <1>2 DEF Readers
<1> HIDE DEF l, g, n
<1>5. CASE l.bad = "" /\ h.v = 0 /\ l.v = 0
  <2>1. n = [r |-> g, n |-> g.v + 2]
    BY <1>3, <1>5
  <2>2. g.v + 2 \in Nat
    BY <1>4
  <2> QED BY <1>2, <2>1, <2>2
<1>6. CASE ~(l.bad = "" /\ h.v = 0 /\ l.v = 0)
  <2>1. n = [r |-> l, n |-> 2 * h.v + l.v]
    BY <1>3, <1>6
  <2>2. 2 * h.v + l.v \in Nat
    BY <1>4
  <2> QED BY <1>1, <2>1, <2>2
<1> QED BY <1>5, <1>6

(* A match within what came out is bytes.                                  *)
LEMMA CopiedTyped ==
  ASSUME NEW out \in Seq(Byte), NEW off \in Nat, off # 0, off <= Len(out), NEW n \in Nat
  PROVE  Copied(out, off, n) \in Seq(Byte)
<1> DEFINE c == [j \in 1..n |-> out[Len(out) - off + 1 + ((j - 1) % off)]]
<1>1. \A j \in 1..n : out[Len(out) - off + 1 + ((j - 1) % off)] \in Byte
  <2> TAKE j \in 1..n
  <2> DEFINE k == (j - 1) % off
  <2>1. k \in 0..(off - 1)
    <3>1. j - 1 \in Int /\ off \in Nat \ {0}
      OBVIOUS
    <3> QED BY <3>1, Division
  <2> HIDE DEF k
  <2>2. Len(out) \in Nat
    OBVIOUS
  <2>3. Len(out) - off + 1 + k \in 1..Len(out)
    BY <2>1, <2>2
  <2>4. out[Len(out) - off + 1 + k] \in Byte
    BY <2>3
  <2> QED BY <2>4 DEF k
<1>2. c \in Seq(Byte)
  BY <1>1
<1> HIDE DEF c
<1>3. out \o c \in Seq(Byte)
  BY <1>2
<1> QED BY <1>3 DEF Copied, c

(* One pass of the loop of elz.depack.                                     *)
LEMMA UnpackPassTyped ==
  ASSUME NEW d, NEW end, IsStream(d, end), NEW u \in Unpackings(end)
  PROVE  UnpackPass(d, end, u) \in Unpackings(end)
<1> DEFINE b == ReadBit(d, end, u.r)
<1>1. /\ u.r \in Readers(end) /\ u.out \in Seq(Byte) /\ u.last \in Nat /\ u.go \in BOOLEAN
      /\ u = [r |-> u.r, out |-> u.out, last |-> u.last, go |-> u.go]
  BY DEF Unpackings
<1>2. b \in Readers(end)
  BY <1>1, ReadBitTyped
<1>3. CASE b.bad # ""
  <2>1. UnpackPass(d, end, u) = [u EXCEPT !.r = b, !.go = FALSE]
    BY <1>3 DEF UnpackPass
  <2> HIDE DEF b
  <2> QED BY <1>1, <1>2, <2>1 DEF Unpackings
<1>4. CASE b.bad = "" /\ b.v = 1
  <2> DEFINE r == ReadByte(d, end, b)
  <2>1. UnpackPass(d, end, u) = UnpackLiteral(u, r)
    BY <1>4 DEF UnpackPass
  <2>2. r \in Readers(end) /\ (r.bad = "" => r.v \in Byte)
    BY <1>2, ReadByteTyped
  <2> HIDE DEF b, r
  <2>3. CASE r.bad # ""
    <3>1. UnpackLiteral(u, r) = [u EXCEPT !.r = r, !.go = FALSE]
      BY <2>3 DEF UnpackLiteral
    <3> QED BY <1>1, <2>1, <2>2, <3>1 DEF Unpackings
  <2>4. CASE r.bad = ""
    <3>1. UnpackLiteral(u, r) = [u EXCEPT !.r = r, !.out = Append(@, r.v)]
      BY <2>4 DEF UnpackLiteral
    <3>2. Append(u.out, r.v) \in Seq(Byte)
      <4>1. u.out \in Seq(Byte) /\ r.v \in Byte
        BY <1>1, <2>2, <2>4
      <4> QED BY <4>1, AppendProperties
    <3>3. UnpackLiteral(u, r) = [r |-> r, out |-> Append(u.out, r.v), last |-> u.last, go |-> u.go]
      BY <1>1, <3>1
    <3> DEFINE o == Append(u.out, r.v)
    <3> HIDE DEF o
    <3>4. [r |-> r, out |-> o, last |-> u.last, go |-> u.go] \in Unpackings(end)
      BY <1>1, <2>2, <3>2 DEF Unpackings, o
    <3> QED BY <2>1, <3>3, <3>4 DEF o
  <2> QED BY <2>3, <2>4
<1>5. CASE b.bad = "" /\ b.v # 1
  <2> DEFINE g == ReadGamma(d, end, b)
             m == Offset(d, end, g, u.last)
             n == Length(d, end, ReadBit(d, end, m.r))
  <2>1. UnpackPass(d, end, u) = UnpackFrom(d, end, u, m)
    BY <1>5 DEF UnpackPass
  <2>2. m.r \in Readers(end) /\ m.off \in Nat
    <3>1. g \in Readers(end)
      BY <1>2, ReadGammaTyped
    <3> HIDE DEF g, b
    <3> QED BY <1>1, <3>1, OffsetTyped
  <2> HIDE DEF m, g, b
  <2>3. n.r \in Readers(end) /\ n.n \in Nat
    <3>1. ReadBit(d, end, m.r) \in Readers(end)
      BY <2>2, ReadBitTyped
    <3> QED BY <3>1, LengthTyped
  <2>4. CASE m.end
    <3>1. UnpackFrom(d, end, u, m) = [u EXCEPT !.r = m.r, !.go = FALSE]
      BY <2>4 DEF UnpackFrom
    <3> QED BY <1>1, <2>1, <2>2, <3>1 DEF Unpackings
  <2>5. CASE ~m.end
    <3>1. UnpackFrom(d, end, u, m) = UnpackMatch(u, m.off, n)
      BY <2>5 DEF UnpackFrom
    <3> HIDE DEF n
    <3> DEFINE len == n.n + 1 + (IF m.off > Far THEN 1 ELSE 0)
               c == Copied(u.out, m.off, len)
    <3>2. CASE n.r.bad # ""
      <4>1. UnpackMatch(u, m.off, n) = [u EXCEPT !.r = n.r, !.go = FALSE]
        BY <3>2 DEF UnpackMatch
      <4> QED BY <1>1, <2>1, <2>3, <3>1, <4>1 DEF Unpackings
    <3>3. CASE n.r.bad = "" /\ (m.off = 0 \/ m.off > Len(u.out))
      <4> DEFINE x == [n.r EXCEPT !.bad = "offset"]
      <4>1. UnpackMatch(u, m.off, n) = [u EXCEPT !.r = x, !.go = FALSE]
        BY <3>3 DEF UnpackMatch
      <4>2. x \in Readers(end)
        BY <2>3 DEF Readers, Reasons
      <4> HIDE DEF x
      <4> QED BY <1>1, <2>1, <3>1, <4>1, <4>2 DEF Unpackings
    <3>4. CASE n.r.bad = "" /\ ~(m.off = 0 \/ m.off > Len(u.out))
      <4>1. UnpackMatch(u, m.off, n) = [u EXCEPT !.r = n.r, !.last = m.off, !.out = c]
        BY <3>4 DEF UnpackMatch
      <4>2. len \in Nat
        BY <2>3
      <4> HIDE DEF len
      <4>3. m.off # 0 /\ m.off <= Len(u.out)
        <5>1. Len(u.out) \in Nat
          BY <1>1, LenProperties
        <5> DEFINE o == m.off
                   k == Len(u.out)
        <5>2. ~(o = 0 \/ o > k) /\ o \in Nat /\ k \in Nat
          BY <2>2, <3>4, <5>1
        <5> HIDE DEF o, k
        <5>3. o # 0 /\ o <= k
          BY <5>2
        <5> QED BY <5>3 DEF o, k
      <4>4. c \in Seq(Byte)
        BY <1>1, <2>2, <4>2, <4>3, CopiedTyped
      <4> HIDE DEF c
      <4>5. UnpackMatch(u, m.off, n) = [r |-> n.r, out |-> c, last |-> m.off, go |-> u.go]
        BY <1>1, <4>1
      <4> QED BY <1>1, <2>1, <2>2, <2>3, <3>1, <4>4, <4>5 DEF Unpackings
    <3> QED BY <3>2, <3>3, <3>4
  <2> QED BY <2>4, <2>5
<1> QED BY <1>3, <1>4, <1>5

(* The loop of elz.depack.                                                 *)
UnpackLoop(f, d, end, p) ==
  /\ f \in [0..Passes(d) -> Unpackings(end)]
  /\ f[0] = AtStart(p)
  /\ \A i \in 1..Passes(d) :
       f[i] = IF f[i - 1].go THEN UnpackPass(d, end, f[i - 1]) ELSE f[i - 1]

(* What the loop runs through, and where it ends.                          *)
LEMMA Unpacked ==
  ASSUME NEW d, NEW end, IsStream(d, end), NEW p \in 1..(end + 1)
  PROVE  \E f : UnpackLoop(f, d, end, p) /\ Unpack(d, end, p) = f[Passes(d)]
<1> DEFINE n == Passes(d)
           S == Unpackings(end)
           Once(x) == IF x.go THEN UnpackPass(d, end, x) ELSE x
           step == [i \in 1..n |-> [x \in S |-> Once(x)]]
           x0 == AtStart(p)
           Eq(h) == h = [i \in 0..n |-> IF i = 0 THEN x0
                                        ELSE LET u == h[i - 1] IN  IF u.go THEN UnpackPass(d, end, u) ELSE u]
           h0 == CHOOSE h : Eq(h)
<1>1. n \in Nat
  <2>1. B \in Nat /\ Len(d) \in Nat
    BY Widths DEF IsStream
  <2> QED BY <2>1 DEF Passes
<1>2. x0 \in S
  <2>1. [p |-> p, tag |-> 0, v |-> 0, bad |-> ""] \in Readers(end)
    <3>1. 0 \in 0..(2^(B + 1) - 1)
      BY Register
    <3> QED BY <3>1 DEF Readers, Reasons
  <2>2. <<>> \in Seq(Byte)
    OBVIOUS
  <2> QED BY <2>1, <2>2 DEF Unpackings, AtStart, Reader
<1>3. step \in [1..n -> [S -> S]]
  <2>1. \A x \in S : Once(x) \in S
    BY UnpackPassTyped
  <2> HIDE DEF Once
  <2> QED BY <2>1
<1>4. PICK f : Iterates(f, n, S, x0, step)
  <2> HIDE DEF n, S, step, x0
  <2> QED BY <1>1, <1>2, <1>3, Recursion
<1>5. \A i \in 1..n : i - 1 \in 0..n /\ i \in 0..n /\ i # 0
  BY <1>1
<1>6. /\ f \in [0..n -> S] /\ f[0] = x0
      /\ \A i \in 1..n : f[i] = Once(f[i - 1])
  <2>1. f \in [0..n -> S] /\ f[0] = x0 /\ \A i \in 1..n : f[i] = step[i][f[i - 1]]
    BY <1>4 DEF Iterates
  <2>2. \A i \in 1..n : f[i - 1] \in S
    BY <2>1, <1>5
  <2> HIDE DEF S, x0, n, Once
  <2> QED BY <2>1, <2>2
<1>7. Eq(f)
  <2> HIDE DEF x0, S, n
  <2>1. \A i \in 0..n : f[i] = IF i = 0 THEN x0
                                 ELSE LET u == f[i - 1] IN  IF u.go THEN UnpackPass(d, end, u) ELSE u
    <3> TAKE i \in 0..n
    <3>1. CASE i = 0
      BY <1>6, <3>1
    <3>2. CASE i # 0
      <4>1. i \in 1..n
        BY <1>1, <3>2
      <4> QED BY <1>6, <3>2, <4>1
    <3> QED BY <3>1, <3>2
  <2>2. f = [i \in 0..n |-> f[i]]
    BY <1>6
  <2> QED BY <2>1, <2>2
<1>8. Eq(h0)
  <2> HIDE DEF Eq
  <2> QED BY <1>7
<1>9. h0[n] = f[n]
  <2> HIDE DEF h0, x0, S, n
  <2>1. h0[0] = x0
    BY <1>1, <1>8
  <2>2. \A i \in 1..n : h0[i] = Once(h0[i - 1])
    <3> TAKE i \in 1..n
    <3>1. i \in 0..n /\ i # 0
      BY <1>5
    <3> QED BY <1>8, <3>1
  <2>3. \A i \in 1..n : h0[i - 1] \in S => h0[i] = step[i][h0[i - 1]]
    <3> HIDE DEF Once
    <3> QED BY <2>2
  <2> HIDE DEF Eq, step, Once
  <2>4. Follows(h0, n, S, x0, step)
    BY <2>1, <2>3 DEF Follows
  <2>5. Agree(h0, f, n)
    BY <1>1, <1>4, <2>4, RecursionOnly
  <2>6. n \in 0..n
    BY <1>1
  <2> QED BY <2>5, <2>6 DEF Agree
<1>10. Unpack(d, end, p) = h0[n]
  BY DEF Unpack
<1> HIDE DEF h0, Eq, step
<1>11. UnpackLoop(f, d, end, p)
  BY <1>6 DEF UnpackLoop
<1> HIDE DEF n
<1> QED BY <1>9, <1>10, <1>11 DEF n

(* Whatever a header declares, what is read is bytes.                      *)
LEMMA DepackTyped ==
  ASSUME NEW data \in Seq(Byte), Classify(data).kind = "packed"
  PROVE  DepackSection(data).out \in Seq(Byte)
<1> DEFINE n == WordAt(data, 1)
           end == 4 + n
           u == Unpack(data, end, 5)
<1>1. Len(data) >= 4 /\ n + 4 <= Len(data)
  <2> DEFINE c1 == Len(data) >= 4 /\ n + 4 <= Len(data) /\ Sum(SubSeq(data, 5, 4 + n)) = WordAt(data, 3)
             c2 == Len(data) >= 4 /\ WordAt(data, 3) = 0
             v == SubSeq(data, 5, Len(data))
  <2>1. Classify(data) = IF c1 THEN [kind |-> "packed", data |-> data]
                         ELSE IF c2 THEN [kind |-> "raw", data |-> v]
                         ELSE [kind |-> "raw", data |-> data]
    BY DEF Classify
  <2>2. c1
    <3> HIDE DEF c1, c2, v
    <3> QED BY <2>1
  <2> QED BY <2>2
<1>2. n \in Nat
  <2>1. data \in Seq(Nat) /\ 1 \in 1..(Len(data) - 1)
    <3>1. data \in Seq(Nat)
      BY ByteFacts, SeqMonotonic
    <3>2. Len(data) \in Nat /\ Len(data) >= 4
      BY <1>1, LenProperties
    <3> QED BY <3>1, <3>2
  <2> QED BY <2>1, WordTyped
<1> HIDE DEF n
<1>3. IsStream(data, end) /\ 5 \in 1..(end + 1)
  BY <1>1, <1>2 DEF IsStream
<1>4. u \in Unpackings(end)
  <2>1. PICK f : UnpackLoop(f, data, end, 5) /\ Unpack(data, end, 5) = f[Passes(data)]
    <3> HIDE DEF end
    <3> QED BY <1>3, Unpacked
  <2>2. Passes(data) \in 0..Passes(data)
    <3>1. B \in Nat /\ Len(data) \in Nat
      BY Widths
    <3> QED BY <3>1 DEF Passes
  <2> HIDE DEF end
  <2> QED BY <2>1, <2>2 DEF UnpackLoop
<1>5. DepackSection(data) =
        CASE u.r.bad # "" -> Failed(u.r.bad)
          [] u.r.bad = "" /\ u.r.p # end + 1 -> Failed("length")
          [] OTHER -> [ok |-> TRUE, why |-> "", out |-> u.out, p |-> u.r.p]
  BY DEF DepackSection, n
<1> HIDE DEF u
<1>6. u.out \in Seq(Byte) /\ <<>> \in Seq(Byte)
  BY <1>4 DEF Unpackings
<1>7. /\ Failed(u.r.bad).out = <<>> /\ Failed("length").out = <<>>
      /\ [ok |-> TRUE, why |-> "", out |-> u.out, p |-> u.r.p].out = u.out
  BY DEF Failed
<1>8. DepackSection(data) \in {Failed(u.r.bad), Failed("length"), [ok |-> TRUE, why |-> "", out |-> u.out, p |-> u.r.p]}
  BY <1>5
<1> QED BY <1>6, <1>7, <1>8

-----------------------------------------------------------------------------
(* Events in tag bytes.                                                    *)

Events == [bit : {0, 1}, bytes : Seq(Byte)]

(* A tag byte holds the control bits of its group, highest first.          *)
LEMMA TagHolds ==
  ASSUME NEW c \in Seq(Events), Len(c) <= B
  PROVE  /\ Tag(c) \in Byte
         /\ \A j \in 1..Len(c) : (Tag(c) \div 2^(B - j)) % 2 = c[j].bit
<1> DEFINE n == Len(c)
           p == [i \in 0..n |-> 2^(B - i)]
           bits == [j \in 1..n |-> c[j].bit]
           items == [j \in 1..n |-> c[j].bit * 2^(B - j)]
<1>1. n \in Nat /\ n <= B /\ \A i \in 1..n : c[i] \in Events
  BY LenProperties
<1> HIDE DEF n
<1>2. p \in [0..n -> Nat \ {0}]
  <2>1. \A i \in 0..n : B - i \in Nat
    BY <1>1, Widths
  <2>2. \A i \in 0..n : 2^(B - i) \in Nat \ {0}
    <3> TAKE i \in 0..n
    <3>1. 2^(B - i) \in Nat /\ 2^(B - i) >= 1
      BY <2>1, PowerPositive
    <3> QED BY <3>1
  <2> QED BY <2>2
<1>3. \A i \in 1..n : p[i - 1] = 2 * p[i]
  <2> TAKE i \in 1..n
  <2>1. i - 1 \in 0..n /\ i \in 0..n /\ B - i \in Nat /\ (B - i) + 1 = B - (i - 1)
    BY <1>1, Widths
  <2>2. 2^((B - i) + 1) = 2 * 2^(B - i)
    BY <2>1, PowerNext
  <2> QED BY <2>1, <2>2
<1>4. p[0] = 2^B /\ 2^B \in Nat \ {0}
  <2>1. 0 \in 0..n /\ B - 0 = B
    BY <1>1, Widths
  <2> QED BY <2>1, Widths
<1>5. bits \in [1..n -> {0, 1}]
  BY <1>1 DEF Events
<1>6. \A i \in 1..n : items[i] = bits[i] * p[i]
  OBVIOUS
<1>7. items \in [1..n -> Int]
  <2>1. \A i \in 1..n : bits[i] * p[i] \in Int
    <3> HIDE DEF bits, p
    <3> TAKE i \in 1..n
    <3>1. bits[i] \in {0, 1} /\ p[i] \in Nat
      BY <1>2, <1>5
    <3> QED BY <3>1
  <2> QED BY <1>6, <2>1
<1> HIDE DEF items, bits, p
<1>8. PICK f \in [0..n -> 0..(2^B - 1)] :
         /\ f[0] = 0
         /\ \A i \in 1..n : f[i] = (f[i - 1] + items[i]) % 2^B
         /\ SumTo(n, 2^B, items) = f[n]
  BY <1>1, <1>4, <1>7, Summed
<1>9. /\ f[n] \in 0..(p[0] - 1)
      /\ \A j \in 1..n : (f[n] \div p[j]) % 2 = bits[j]
  <2> DEFINE m == 2^B
  <2>1. m \in Nat /\ p[0] <= m
    BY <1>4
  <2>2. Halves(p, n)
    BY <1>2, <1>3 DEF Halves
  <2>3. f \in [0..n -> Int]
    BY <1>4
  <2>4. BitSums(f, n, p, bits, m)
    BY <2>3, <1>6, <1>8 DEF BitSums
  <2> HIDE DEF m
  <2>5. n \in Nat
    BY <1>1
  <2>6. /\ f[n] \in 0..(p[0] - 1)
        /\ \A j \in 1..n : (f[n] \div p[j]) % 2 = bits[j]
    BY <1>5, <2>1, <2>2, <2>4, <2>5, BitsRead, SMTT(30)
  <2> QED BY <2>6
<1>10. Tag(c) = f[n]
  BY <1>8 DEF Tag, items, n
<1>11. \A j \in 1..n : p[j] = 2^(B - j) /\ bits[j] = c[j].bit
  BY DEF p, bits
<1> QED BY <1>4, <1>9, <1>10, <1>11 DEF n, Byte

(* A group is its tag byte and the bytes of its events, one after another. *)
GroupLies(c, e) ==
  /\ e \in [0..Len(c) -> Nat] /\ e[0] = 0
  /\ \A j \in 1..Len(c) : e[j] = e[j - 1] + Len(c[j].bytes)
  /\ AssembleGroup(c)[1] = Tag(c)
  /\ Len(AssembleGroup(c)) = 1 + e[Len(c)]
  /\ \A j \in 1..Len(c) : \A x \in 1..Len(c[j].bytes) :
       /\ AssembleGroup(c)[1 + e[j - 1] + x] = c[j].bytes[x]
       /\ 1 + e[j - 1] + x \in 1..Len(AssembleGroup(c))

(* A group is laid out in this way.                                        *)
LEMMA GroupAssembled ==
  ASSUME NEW c \in Seq(Events), Len(c) <= B
  PROVE  /\ AssembleGroup(c) \in Seq(Byte)
         /\ \E e : GroupLies(c, e)
<1> DEFINE n == Len(c)
           ss == [j \in 1..n |-> c[j].bytes]
           t == <<Tag(c)>>
           s == Concat(ss)
           a == t \o s
<1>1. n \in Nat /\ \A j \in 1..n : c[j] \in Events /\ ss[j] = c[j].bytes
  BY LenProperties
<1>2. ss \in [1..n -> Seq(Byte)]
  BY <1>1 DEF Events
<1>3. AssembleGroup(c) = a
  BY DEF AssembleGroup
<1>4. t \in Seq(Byte) /\ Len(t) = 1 /\ t[1] = Tag(c)
  BY TagHolds
<1> HIDE DEF n, t, ss
<1>5. s \in Seq(Byte)
  BY <1>1, <1>2, Concatenated
<1>6. PICK e : Laid(ss, n, e)
  BY <1>1, <1>2, Concatenated
<1> HIDE DEF s
<1>7. /\ a \in Seq(Byte) /\ Len(a) = 1 + Len(s) /\ a[1] = t[1]
      /\ \A q \in 1..Len(s) : a[1 + q] = s[q]
  <2>1. a \in Seq(Byte) /\ IsJoin(a, t, s)
    BY <1>4, <1>5, Appended
  <2> HIDE DEF a
  <2>2. Len(s) \in Nat
    BY <1>5, LenProperties
  <2> QED BY <1>4, <2>1, <2>2 DEF IsJoin
<1> HIDE DEF a
<1>8. /\ e \in [0..n -> Nat] /\ e[0] = 0
      /\ \A j \in 1..n : e[j] = e[j - 1] + Len(c[j].bytes)
      /\ Len(s) = e[n]
      /\ \A j \in 1..n : \A x \in 1..Len(c[j].bytes) : s[e[j - 1] + x] = c[j].bytes[x]
  BY <1>1, <1>6 DEF Laid, s
<1>9. \A j \in 0..n : e[j] <= e[n]
  <2> DEFINE P == {k \in 0..n : e[n - k] <= e[n]}
  <2>1. 0 \in P
    <3>1. n - 0 = n /\ n \in 0..n
      BY <1>1
    <3> QED BY <1>1, <1>8, <3>1
  <2>2. ASSUME NEW k \in 1..n, k - 1 \in P PROVE k \in P
    <3>1. n - k \in 0..n /\ n - (k - 1) \in 1..n /\ (n - (k - 1)) - 1 = n - k /\ n \in 0..n
          /\ n - (k - 1) \in 0..n
      BY <1>1
    <3>2. e[n - (k - 1)] = e[n - k] + Len(c[n - (k - 1)].bytes)
      BY <1>8, <3>1
    <3>3. Len(c[n - (k - 1)].bytes) \in Nat
      BY <1>1, <3>1 DEF Events
    <3>4. e[n - k] \in Nat /\ e[n] \in Nat /\ e[n - (k - 1)] \in Nat
      BY <1>8, <3>1
    <3>5. e[n - (k - 1)] <= e[n]
      BY <2>2
    <3>6. k \in 0..n
      OBVIOUS
    <3> QED BY <3>2, <3>3, <3>4, <3>5, <3>6
  <2>3. 0..n \subseteq P
    <3> HIDE DEF P
    <3> QED BY <1>1, <2>1, <2>2, UpTo
  <2> TAKE j \in 0..n
  <2>4. n - j \in 0..n /\ n - (n - j) = j
    BY <1>1
  <2> QED BY <2>3, <2>4
<1>10. ASSUME NEW j \in 1..n, NEW x \in 1..Len(c[j].bytes)
       PROVE  a[1 + e[j - 1] + x] = c[j].bytes[x] /\ 1 + e[j - 1] + x \in 1..Len(a)
  <2>1. j - 1 \in 0..n /\ j \in 0..n /\ n \in 0..n
    BY <1>1
  <2>2. e[j - 1] \in Nat /\ e[j] \in Nat /\ e[n] \in Nat /\ e[j] <= e[n]
    BY <1>8, <1>9, <2>1
  <2>3. Len(c[j].bytes) \in Nat /\ e[j] = e[j - 1] + Len(c[j].bytes)
    BY <1>1, <1>8 DEF Events
  <2>4. e[j - 1] + x \in 1..Len(s) /\ 1 + e[j - 1] + x = 1 + (e[j - 1] + x)
    <3> DEFINE o == e[j - 1]
               k == Len(c[j].bytes)
               y == e[n]
    <3>1. o \in Nat /\ k \in Nat /\ y \in Nat /\ o + k <= y /\ Len(s) = y
      BY <1>8, <2>2, <2>3
    <3> HIDE DEF o, k, y
    <3>2. x \in 1..k
      BY DEF k
    <3>3. o + x \in 1..y /\ 1 + o + x = 1 + (o + x)
      BY <3>1, <3>2
    <3> QED BY <3>1, <3>3 DEF o
  <2>5. a[1 + (e[j - 1] + x)] = s[e[j - 1] + x]
    BY <1>7, <2>4
  <2>6. s[e[j - 1] + x] = c[j].bytes[x]
    BY <1>8
  <2>7. Len(a) = 1 + e[n]
    BY <1>7, <1>8
  <2>8. 1 + (e[j - 1] + x) \in 1..Len(a)
    <3> DEFINE q == e[j - 1] + x
    <3>1. q \in 1..Len(s) /\ Len(s) \in Nat /\ Len(a) = 1 + Len(s)
      BY <1>7, <1>8, <2>2, <2>4
    <3> HIDE DEF q
    <3>2. 1 + q \in 1..Len(a)
      BY <3>1
    <3> QED BY <3>2 DEF q
  <2> QED BY <2>4, <2>5, <2>6, <2>8
<1>11. GroupLies(c, e)
  BY <1>3, <1>4, <1>7, <1>8, <1>10 DEF GroupLies, n
<1> QED BY <1>3, <1>7, <1>11

(* Where the events of ev are in body: event i ends at pos[i], and its     *)
(* control bit is in tag[i], which comes before the first of a group.      *)
Placed(ev, body, pos, tag) ==
  /\ pos \in [0..Len(ev) -> Nat] /\ pos[0] = 0 /\ pos[Len(ev)] = Len(body)
  /\ tag \in [1..Len(ev) -> Byte]
  /\ \A i \in 1..Len(ev) :
       /\ pos[i] <= Len(body)
       /\ (tag[i] \div 2^(B - 1 - PlaceIn(i, B))) % 2 = ev[i].bit
       /\ PlaceIn(i, B) = 0 => /\ pos[i] = pos[i - 1] + 1 + Len(ev[i].bytes)
                               /\ body[pos[i - 1] + 1] = tag[i]
       /\ PlaceIn(i, B) # 0 => /\ pos[i] = pos[i - 1] + Len(ev[i].bytes)
                               /\ tag[i] = tag[i - 1]
       /\ \A x \in 1..Len(ev[i].bytes) :
            body[(pos[i] - Len(ev[i].bytes)) + x] = ev[i].bytes[x]

(* All of the groups are.                                                  *)
LEMMA Assembled ==
  ASSUME NEW ev \in Seq(Events), ev # <<>>
  PROVE  /\ Assemble(ev) \in Seq(Byte)
         /\ \E pos, tag : Placed(ev, Assemble(ev), pos, tag)
<1> DEFINE n == Len(ev)
           N == PieceCount(ev, B)
           c(g) == Piece(ev, B, g)
           ss == [g \in 1..N |-> AssembleGroup(c(g))]
           bend == [g \in 1..N |-> CHOOSE e : GroupLies(c(g), e)]
           body == Assemble(ev)
<1>1. B \in Nat /\ B >= 2 /\ B \in Nat \ {0} /\ n \in Nat /\ n >= 1
  BY Widths, LenProperties, EmptySeq
<1>2. /\ N \in Nat /\ n <= B * N
      /\ \A g \in 1..N :
           /\ B * (g - 1) < n
           /\ c(g) \in Seq(Events)
           /\ Len(c(g)) = IF B * g < n THEN B ELSE n - B * (g - 1)
           /\ Len(c(g)) \in 1..B
           /\ g < N => Len(c(g)) = B
           /\ \A j \in 1..Len(c(g)) : c(g)[j] = ev[B * (g - 1) + j]
  <2>1. PieceCount(ev, B) \in Nat /\ Len(ev) <= B * PieceCount(ev, B)
    BY <1>1, Pieces
  <2>2. \A g \in 1..PieceCount(ev, B) : Piece(ev, B, g) \in Seq(Events) /\ IsPiece(ev, B, g)
    BY <1>1, Pieces
  <2> QED BY <2>1, <2>2 DEF IsPiece
<1> HIDE DEF n, N, c
<1>3. \A g \in 1..N : ss[g] = AssembleGroup(c(g)) /\ ss[g] \in Seq(Byte) /\ GroupLies(c(g), bend[g])
  <2> TAKE g \in 1..N
  <2>1. c(g) \in Seq(Events) /\ Len(c(g)) <= B
    BY <1>1, <1>2
  <2>2. AssembleGroup(c(g)) \in Seq(Byte) /\ \E e : GroupLies(c(g), e)
    BY <2>1, GroupAssembled
  <2>3. bend[g] = CHOOSE e : GroupLies(c(g), e)
    OBVIOUS
  <2>4. GroupLies(c(g), bend[g])
    BY <2>2, <2>3
  <2> QED BY <2>2, <2>4
<1>4. ss \in [1..N -> Seq(Byte)] /\ body = Concat(ss)
  BY <1>3 DEF Assemble, N, c
<1> HIDE DEF ss, body, bend
<1>5. body \in Seq(Byte)
  BY <1>2, <1>4, Concatenated
<1>6. PICK gend : Laid(ss, N, gend)
  BY <1>2, <1>4, Concatenated
<1> DEFINE G(i) == GroupOf(i, B)
           J(i) == PlaceIn(i, B)
<1>7. ASSUME NEW i \in 1..n
      PROVE  /\ G(i) \in 1..N /\ J(i) \in 0..(B - 1) /\ i = B * (G(i) - 1) + 1 + J(i)
             /\ J(i) + 1 \in 1..Len(c(G(i)))
             /\ c(G(i))[J(i) + 1] = ev[i]
  <2>1. i \in Nat \ {0} /\ i <= n
    BY <1>1
  <2>2. At(i, B, G(i), J(i))
    BY <1>1, <2>1, Position
  <2> HIDE DEF G, J
  <2> DEFINE g == G(i)
             j == J(i)
  <2>3. g \in Nat \ {0} /\ j \in 0..(B - 1) /\ i = B * (g - 1) + 1 + j
    BY <2>2 DEF At
  <2> HIDE DEF g, j
  <2>4. B * (g - 1) \in Nat /\ B * g \in Nat /\ B * g = B * (g - 1) + B
    BY <1>1, <2>3, Times
  <2>5. g <= N
    <3> SUFFICES ASSUME g >= N + 1 PROVE FALSE
      BY <1>2, <2>3
    <3>1. B * (g - 1) >= B * N
      BY <1>1, <1>2, <2>3
    <3>2. B * N \in Nat
      BY <1>1, <1>2
    <3> DEFINE x == B * N
               y == B * (g - 1)
    <3>3. y >= x /\ x \in Nat /\ n <= x /\ y \in Nat /\ i <= n /\ i = y + 1 + j /\ j \in Nat /\ n \in Nat
      BY <1>1, <1>2, <2>1, <2>3, <2>4, <3>1, <3>2
    <3> HIDE DEF x, y
    <3> QED BY <3>3
  <2>6. g \in 1..N
    BY <1>2, <2>3, <2>5
  <2>7. j + 1 \in 1..Len(c(g))
    <3>1. Len(c(g)) = IF B * g < n THEN B ELSE n - B * (g - 1)
      BY <1>2, <2>6
    <3> QED BY <1>1, <2>1, <2>3, <2>4, <3>1
  <2>8. c(g)[j + 1] = ev[B * (g - 1) + (j + 1)]
    BY <1>2, <2>6, <2>7
  <2>9. B * (g - 1) + (j + 1) = i
    BY <2>3, <2>4
  <2> QED BY <2>3, <2>6, <2>7, <2>8, <2>9 DEF g, j
<1> HIDE DEF G, J
<1> DEFINE pos == [i \in 0..n |-> IF i = 0 THEN 0 ELSE gend[G(i) - 1] + 1 + bend[G(i)][J(i) + 1]]
           tag == [i \in 1..n |-> Tag(c(G(i)))]
<1>8. ASSUME NEW g \in 1..N
      PROVE  /\ gend[g - 1] \in Nat /\ gend[g] \in Nat
             /\ gend[g] = gend[g - 1] + (1 + bend[g][Len(c(g))])
             /\ \A k \in 0..Len(c(g)) : bend[g][k] \in Nat
             /\ bend[g][0] = 0
             /\ \A j \in 1..Len(c(g)) : bend[g][j] = bend[g][j - 1] + Len(c(g)[j].bytes)
             /\ body[gend[g - 1] + 1] = Tag(c(g))
             /\ \A j \in 1..Len(c(g)) : \A x \in 1..Len(c(g)[j].bytes) :
                  body[gend[g - 1] + (1 + bend[g][j - 1] + x)] = c(g)[j].bytes[x]
  <2>1. g - 1 \in 0..N /\ g \in 0..N
    BY <1>2
  <2>2. gend[g - 1] \in Nat /\ gend[g] \in Nat /\ gend[g] = gend[g - 1] + Len(ss[g])
    BY <1>6, <2>1 DEF Laid
  <2>3. \A k \in 1..Len(ss[g]) : body[gend[g - 1] + k] = ss[g][k]
    BY <1>4, <1>6 DEF Laid
  <2>4. GroupLies(c(g), bend[g]) /\ ss[g] = AssembleGroup(c(g)) /\ ss[g] \in Seq(Byte)
    BY <1>3
  <2>5. Len(c(g)) \in Nat
    BY <1>2
  <2>6. /\ \A k \in 0..Len(c(g)) : bend[g][k] \in Nat
        /\ bend[g][0] = 0
        /\ \A j \in 1..Len(c(g)) : bend[g][j] = bend[g][j - 1] + Len(c(g)[j].bytes)
        /\ ss[g][1] = Tag(c(g))
        /\ Len(ss[g]) = 1 + bend[g][Len(c(g))]
    BY <2>4 DEF GroupLies
  <2>7. Len(ss[g]) >= 1 /\ Len(ss[g]) \in Nat
    BY <2>5, <2>6, SMTT(30)
  <2>8. body[gend[g - 1] + 1] = Tag(c(g))
    BY <2>3, <2>6, <2>7
  <2>9. ASSUME NEW j \in 1..Len(c(g)), NEW x \in 1..Len(c(g)[j].bytes)
        PROVE  body[gend[g - 1] + (1 + bend[g][j - 1] + x)] = c(g)[j].bytes[x]
    <3> DEFINE k == 1 + bend[g][j - 1] + x
    <3>1. ss[g][k] = c(g)[j].bytes[x] /\ k \in 1..Len(ss[g])
      BY <2>4 DEF GroupLies
    <3> HIDE DEF k
    <3>2. body[gend[g - 1] + k] = ss[g][k]
      BY <2>3, <3>1
    <3> QED BY <3>1, <3>2 DEF k
  <2> QED BY <2>2, <2>6, <2>8, <2>9
<1>9. ASSUME NEW i \in 1..n
      PROVE  /\ gend[G(i) - 1] \in Nat /\ bend[G(i)][J(i) + 1] \in Nat /\ bend[G(i)][J(i)] \in Nat
             /\ bend[G(i)][J(i) + 1] = bend[G(i)][J(i)] + Len(ev[i].bytes)
             /\ Len(ev[i].bytes) \in Nat
  <2>1. /\ G(i) \in 1..N /\ J(i) \in 0..(B - 1) /\ J(i) + 1 \in 1..Len(c(G(i)))
        /\ c(G(i))[J(i) + 1] = ev[i]
    BY <1>7
  <2>2. /\ J(i) + 1 \in 0..Len(c(G(i))) /\ J(i) \in 0..Len(c(G(i))) /\ (J(i) + 1) - 1 = J(i)
    <3>1. Len(c(G(i))) \in Nat
      BY <1>2, <2>1
    <3> QED BY <2>1, <3>1
  <2>3. bend[G(i)][J(i) + 1] = bend[G(i)][(J(i) + 1) - 1] + Len(c(G(i))[J(i) + 1].bytes)
    BY <1>8, <2>1
  <2>4. Len(ev[i].bytes) \in Nat
    <3>1. ev[i] \in Events
      BY DEF n
    <3> QED BY <3>1 DEF Events
  <2> QED BY <1>8, <2>1, <2>2, <2>3, <2>4
<1>10. pos \in [0..n -> Nat] /\ pos[0] = 0
  <2>1. \A i \in 0..n : (IF i = 0 THEN 0 ELSE gend[G(i) - 1] + 1 + bend[G(i)][J(i) + 1]) \in Nat
    <3> TAKE i \in 0..n
    <3>1. CASE i = 0
      BY <3>1
    <3>2. CASE i # 0
      <4>1. i \in 1..n
        BY <1>1, <3>2
      <4>2. gend[G(i) - 1] \in Nat /\ bend[G(i)][J(i) + 1] \in Nat
        BY <1>9, <4>1
      <4> QED BY <3>2, <4>2
    <3> QED BY <3>1, <3>2
  <2>2. 0 \in 0..n
    BY <1>1
  <2> QED BY <2>1, <2>2
<1>11. \A i \in 1..n : pos[i] = gend[G(i) - 1] + 1 + bend[G(i)][J(i) + 1] /\ tag[i] = Tag(c(G(i)))
  BY <1>1
<1>12. tag \in [1..n -> Byte]
  <2>1. \A i \in 1..n : Tag(c(G(i))) \in Byte
    <3> TAKE i \in 1..n
    <3>1. c(G(i)) \in Seq(Events) /\ Len(c(G(i))) <= B
      <4>1. G(i) \in 1..N
        BY <1>7
      <4>2. c(G(i)) \in Seq(Events) /\ Len(c(G(i))) \in 1..B
        BY <1>2, <4>1
      <4> QED BY <1>1, <4>2
    <3> QED BY <3>1, TagHolds
  <2> QED BY <2>1
<1> HIDE DEF pos, tag
<1>13. ASSUME NEW i \in 1..n
       PROVE  /\ J(i) = 0 => pos[i - 1] = gend[G(i) - 1]
              /\ J(i) # 0 => /\ pos[i - 1] = gend[G(i) - 1] + 1 + bend[G(i)][J(i)]
                             /\ tag[i] = tag[i - 1]
  <2>1. CASE i = 1
    <3>1. At(1, B, 1, 0)
      <4>1. B * (1 - 1) = 0 /\ 0 \in 0..(B - 1)
        BY <1>1
      <4> QED BY <4>1 DEF At
    <3>2. G(1) = 1 /\ J(1) = 0
      BY <1>1, <3>1, PositionOnly DEF G, J
    <3>3. gend[0] = 0
      BY <1>6 DEF Laid
    <3> QED BY <1>10, <2>1, <3>2, <3>3
  <2>2. CASE i # 1
    <3>1. i \in Nat \ {0} /\ i - 1 \in 1..n
      BY <1>1, <2>2
    <3>2. /\ J(i) # 0 => G(i - 1) = G(i) /\ J(i - 1) = J(i) - 1
          /\ J(i) = 0 => G(i - 1) = G(i) - 1 /\ G(i) > 1 /\ J(i - 1) = B - 1
      BY <1>1, <2>2, <3>1, NextPosition DEF G, J
    <3>3. /\ pos[i - 1] = gend[G(i - 1) - 1] + 1 + bend[G(i - 1)][J(i - 1) + 1]
          /\ tag[i - 1] = Tag(c(G(i - 1))) /\ tag[i] = Tag(c(G(i)))
      BY <1>11, <3>1
    <3>4. CASE J(i) # 0
      <4>1. (J(i) - 1) + 1 = J(i)
        BY <1>7
      <4> QED BY <3>2, <3>3, <3>4, <4>1
    <3>5. CASE J(i) = 0
      <4> DEFINE g == G(i) - 1
      <4>1. g \in 1..N /\ g < N
        <5> DEFINE y == G(i)
        <5>1. y \in 1..N /\ y > 1 /\ N \in Nat
          BY <1>2, <1>7, <3>2, <3>5
        <5> HIDE DEF y, G
        <5>2. y - 1 \in 1..N /\ y - 1 < N
          BY <5>1
        <5> QED BY <5>2 DEF y
      <4>2. Len(c(g)) = B /\ (B - 1) + 1 = B /\ B \in 0..B
        BY <1>1, <1>2, <4>1
      <4>3. gend[g] = gend[g - 1] + (1 + bend[g][B]) /\ gend[g - 1] \in Nat /\ bend[g][B] \in Nat
        BY <1>8, <4>1, <4>2
      <4>4. pos[i - 1] = gend[g - 1] + 1 + bend[g][B]
        BY <3>2, <3>3, <3>5, <4>2
      <4> HIDE DEF g
      <4>5. pos[i - 1] = gend[g]
        BY <4>3, <4>4
      <4> QED BY <3>5, <4>5 DEF g
    <3> QED BY <3>4, <3>5
  <2> QED BY <2>1, <2>2
<1>14. ASSUME NEW i \in 1..n
       PROVE  /\ J(i) = 0 => /\ pos[i] = pos[i - 1] + 1 + Len(ev[i].bytes)
                             /\ body[pos[i - 1] + 1] = tag[i]
              /\ J(i) # 0 => pos[i] = pos[i - 1] + Len(ev[i].bytes)
              /\ pos[i] = gend[G(i) - 1] + 1 + bend[G(i)][J(i)] + Len(ev[i].bytes)
  <2> DEFINE a == gend[G(i) - 1]
             b == bend[G(i)][J(i)]
             l == Len(ev[i].bytes)
  <2>1. a \in Nat /\ b \in Nat /\ l \in Nat /\ pos[i] = a + 1 + bend[G(i)][J(i) + 1]
        /\ bend[G(i)][J(i) + 1] = b + l
    BY <1>9, <1>11
  <2>2. J(i) = 0 => b = 0 /\ body[a + 1] = tag[i]
    BY <1>7, <1>8, <1>11
  <2>3. (J(i) = 0 => pos[i - 1] = a) /\ (J(i) # 0 => pos[i - 1] = a + 1 + b)
    BY <1>13
  <2> HIDE DEF a, b, l
  <2>4. pos[i] = a + 1 + b + l
    BY <2>1
  <2>5. CASE J(i) = 0
    BY <2>1, <2>2, <2>3, <2>4, <2>5 DEF a, b, l
  <2>6. CASE J(i) # 0
    BY <2>1, <2>3, <2>4, <2>6 DEF a, b, l
  <2> QED BY <2>5, <2>6
<1>15. pos[n] = Len(body)
  <2>1. n \in 1..n /\ n \in Nat
    BY <1>1
  <2>2. G(n) \in 1..N /\ J(n) \in 0..(B - 1) /\ n = B * (G(n) - 1) + 1 + J(n)
    BY <1>7, <2>1
  <2> DEFINE g == G(n)
  <2>3. B * (g - 1) \in Nat /\ B * g \in Nat /\ B * g = B * (g - 1) + B
    <3>1. g \in Nat \ {0}
      BY <1>2, <2>2
    <3> QED BY <1>1, <3>1, Times
  <2>4. g = N
    <3> SUFFICES ASSUME g < N PROVE FALSE
      BY <1>2, <2>2
    <3>1. g + 1 \in 1..N /\ (g + 1) - 1 = g
      <4>1. g \in 1..N /\ N \in Nat /\ g < N
        BY <1>2, <2>2
      <4> HIDE DEF g
      <4> QED BY <4>1
    <3>2. B * ((g + 1) - 1) < n
      BY <1>2, <3>1
    <3>3. B * g < n
      BY <3>1, <3>2
    <3> HIDE DEF g
    <3> QED BY <1>1, <2>2, <2>3, <3>3 DEF g
  <2>5. Len(c(N)) = J(n) + 1
    <3>1. Len(c(g)) = IF B * g < n THEN B ELSE n - B * (g - 1)
      BY <1>2, <2>2
    <3>2. ~(B * g < n)
      <4>1. B * N >= n /\ B * N \in Nat
        BY <1>1, <1>2
      <4>2. ~(B * N < n)
        <5> DEFINE x == B * N
        <5> HIDE DEF x
        <5>1. x >= n /\ x \in Nat /\ n \in Nat
          BY <1>1, <4>1 DEF x
        <5>2. ~(x < n)
          BY <5>1
        <5> QED BY <5>2 DEF x
      <4> QED BY <2>4, <4>2
    <3> HIDE DEF g
    <3>3. Len(c(g)) = J(n) + 1
      BY <2>1, <2>2, <2>3, <3>1, <3>2 DEF g
    <3> QED BY <2>4, <3>3
  <2>6. pos[n] = gend[N - 1] + 1 + bend[N][Len(c(N))]
    BY <1>11, <2>1, <2>4, <2>5
  <2>7. N \in 1..N /\ Len(c(N)) \in 0..Len(c(N))
    BY <1>2, <2>2, <2>4
  <2>8. gend[N] = gend[N - 1] + (1 + bend[N][Len(c(N))]) /\ gend[N - 1] \in Nat
        /\ bend[N][Len(c(N))] \in Nat
    BY <1>8, <2>7
  <2>9. Len(body) = gend[N]
    BY <1>4, <1>6 DEF Laid
  <2> QED BY <2>6, <2>8, <2>9, SMTT(30)
<1>16. \A i \in 0..n : pos[i] <= Len(body)
  <2> DEFINE P == {k \in 0..n : pos[n - k] <= Len(body)}
  <2>1. 0 \in P
    <3>1. n - 0 = n /\ n \in 0..n /\ 0 \in 0..n /\ Len(body) \in Nat
      BY <1>1, <1>5
    <3> QED BY <1>15, <3>1
  <2>2. ASSUME NEW k \in 1..n, k - 1 \in P PROVE k \in P
    <3> DEFINE i == n - (k - 1)
    <3>1. n - k \in 0..n /\ i \in 1..n /\ i - 1 = n - k /\ i \in 0..n /\ k \in 0..n
      BY <1>1
    <3>2. pos[i] <= Len(body)
      BY <2>2
    <3> HIDE DEF i
    <3> DEFINE l == Len(ev[i].bytes)
               q == Len(body)
    <3>3. pos[i - 1] \in Nat /\ pos[i] \in Nat /\ l \in Nat /\ q \in Nat
      <4>1. i - 1 \in 0..n
        BY <3>1
      <4>2. pos[i - 1] \in Nat /\ pos[i] \in Nat
        BY <1>10, <3>1, <4>1
      <4>3. l \in Nat
        BY <1>9, <3>1
      <4>4. q \in Nat
        BY <1>5, LenProperties
      <4> QED BY <4>2, <4>3, <4>4
    <3>4. pos[i] = pos[i - 1] + 1 + l \/ pos[i] = pos[i - 1] + l
      BY <1>14, <3>1
    <3>5. pos[i - 1] <= q
      <4>1. pos[i] <= q
        BY <3>2
      <4> HIDE DEF l, q
      <4> QED BY <3>3, <3>4, <4>1
    <3> QED BY <3>1, <3>5
  <2>3. 0..n \subseteq P
    <3> HIDE DEF P
    <3> QED BY <1>1, <2>1, <2>2, UpTo
  <2> TAKE i \in 0..n
  <2>4. n - i \in 0..n /\ n - (n - i) = i
    BY <1>1
  <2> QED BY <2>3, <2>4
<1>17. ASSUME NEW i \in 1..n
       PROVE  /\ (tag[i] \div 2^(B - 1 - J(i))) % 2 = ev[i].bit
              /\ \A x \in 1..Len(ev[i].bytes) : body[(pos[i] - Len(ev[i].bytes)) + x] = ev[i].bytes[x]
  <2> DEFINE g == G(i)
             j == J(i)
  <2>1. g \in 1..N /\ j \in 0..(B - 1) /\ j + 1 \in 1..Len(c(g)) /\ c(g)[j + 1] = ev[i]
    BY <1>7
  <2>2. c(g) \in Seq(Events) /\ Len(c(g)) <= B
    BY <1>1, <1>2, <2>1
  <2>3. B - 1 - j = B - (j + 1) /\ (j + 1) - 1 = j
    <3>1. B \in Int /\ j \in Int
      BY <1>1, <2>1
    <3> HIDE DEF j
    <3> QED BY <3>1
  <2>4. (Tag(c(g)) \div 2^(B - (j + 1))) % 2 = ev[i].bit
    BY <2>1, <2>2, TagHolds
  <2>5. tag[i] = Tag(c(g))
    BY <1>11
  <2>6. ASSUME NEW x \in 1..Len(ev[i].bytes)
        PROVE  body[(pos[i] - Len(ev[i].bytes)) + x] = ev[i].bytes[x]
    <3> DEFINE a == gend[g - 1]
               b == bend[g][j]
               l == Len(ev[i].bytes)
    <3>1. pos[i] = a + 1 + b + l /\ a \in Nat /\ b \in Nat /\ l \in Nat
      BY <1>9, <1>14
    <3>2. body[a + (1 + bend[g][(j + 1) - 1] + x)] = c(g)[j + 1].bytes[x]
      <4>1. x \in 1..Len(c(g)[j + 1].bytes)
        BY <2>1
      <4> QED BY <1>8, <2>1, <4>1
    <3>3. body[a + (1 + b + x)] = ev[i].bytes[x]
      BY <2>1, <2>3, <3>2
    <3> HIDE DEF a, b
    <3>4. (pos[i] - l) + x = a + (1 + b + x)
      <4> HIDE DEF l
      <4>1. x \in Int
        OBVIOUS
      <4> QED BY <3>1, <4>1
    <3> QED BY <3>3, <3>4
  <2> HIDE DEF g, j
  <2> QED BY <2>3, <2>4, <2>5, <2>6 DEF g, j
<1>18. Placed(ev, body, pos, tag)
  BY <1>10, <1>12, <1>13, <1>14, <1>15, <1>16, <1>17 DEF Placed, n, J
<1> QED BY <1>5, <1>18 DEF body

-----------------------------------------------------------------------------
(* The register.  Of tag byte t, after j more bits than the first: what is *)
(* left of it, then the sentinel, above j zeros.                           *)
Reg(t, j) == 2^j * (2 * (t % 2^(B - j)) + 1)

(* One more bit: the next of t, the highest first.                         *)
LEMMA Shifted ==
  ASSUME NEW a \in Nat \ {0}, NEW c \in Nat \ {0}, NEW t \in Nat
  PROVE  LET s == (2 * (a * (2 * (t % (4 * c)) + 1))) % (8 * (a * c))
         IN  /\ s = (2 * a) * (2 * (t % (2 * c)) + 1)
             /\ s \div (4 * (a * c)) = (t \div c) % 2
             /\ s % (4 * (a * c)) # 0
<1> DEFINE k1 == 2 * c
           k2 == 4 * c
           q == t \div k2
           r == t % k2
           h == r \div k1
           r2 == r % k1
           b == r2 \div c
           r1 == r2 % c
<1>1. k1 \in Nat \ {0} /\ k2 \in Nat \ {0}
  OBVIOUS
<1> HIDE DEF k1, k2
<1>2. t = (k2 * q) + r /\ q \in Int /\ r \in 0..(k2 - 1)
  BY <1>1, Division
<1> HIDE DEF q, r
<1>3. r \in Int /\ r = (k1 * h) + r2 /\ h \in Int /\ r2 \in 0..(k1 - 1)
  <2>1. r \in Int
    BY <1>1, <1>2
  <2> QED BY <1>1, <2>1, Division
<1> HIDE DEF h, r2
<1>4. r2 \in Int /\ r2 = (c * b) + r1 /\ b \in Int /\ r1 \in 0..(c - 1)
  <2>1. r2 \in Int
    BY <1>1, <1>3
  <2> QED BY <2>1, Division
<1> HIDE DEF b, r1
<1>5. b \in {0, 1}
  <2>1. c * b < 2 * c /\ c * b > -c
    BY <1>1, <1>3, <1>4 DEF k1
  <2>2. b < 2
    <3> SUFFICES ASSUME b >= 2 PROVE FALSE
      BY <1>4
    <3>1. c * b >= c * 2
      BY <1>4
    <3> QED BY <2>1, <3>1, <1>4
  <2>3. b > -1
    <3> SUFFICES ASSUME b <= -1 PROVE FALSE
      BY <1>4
    <3>1. c * b <= c * (-1)
      BY <1>4
    <3> QED BY <2>1, <3>1, <1>4
  <2> QED BY <1>4, <2>2, <2>3
<1>6. t % k1 = r2
  <2> DEFINE x == 2 * q + h
  <2>1. x \in Int /\ t = k1 * x + r2
    BY <1>1, <1>2, <1>3 DEF k1, k2
  <2> HIDE DEF x
  <2> QED BY <1>1, <1>3, <2>1, DivisionOnly
<1>7. (t \div c) % 2 = b
  <2> DEFINE x == 2 * q + h
             y == 2 * x + b
  <2>1. x \in Int /\ y \in Int /\ t = c * y + r1
    BY <1>1, <1>2, <1>3, <1>4 DEF k1, k2
  <2> HIDE DEF y
  <2>2. t \div c = y
    BY <1>4, <2>1, DivisionOnly
  <2>3. y = 2 * x + b /\ b \in 0..(2 - 1)
    BY <1>5 DEF y
  <2> HIDE DEF x
  <2>4. y % 2 = b
    BY <2>1, <2>3, DivisionOnly
  <2> QED BY <2>2, <2>4
<1> DEFINE m == a * c
           big == 8 * m
           mid == 4 * m
           low == 4 * (a * r1) + 2 * a
           s == (2 * a) * (2 * r2 + 1)
<1>8. m \in Nat \ {0} /\ a * r1 \in Nat /\ a * r1 <= m - a
  <2>1. m \in Nat \ {0}
    OBVIOUS
  <2>2. r1 \in Nat /\ r1 <= c - 1
    BY <1>4
  <2>3. a * r1 \in Nat /\ a * r1 <= a * (c - 1)
    BY <2>2
  <2>4. a * (c - 1) = m - a
    OBVIOUS
  <2> QED BY <2>1, <2>3, <2>4
<1>9. low \in Nat \ {0} /\ low < mid
  <2> DEFINE z == a * r1
  <2>1. z \in Nat /\ z <= m - a /\ m \in Nat /\ low = 4 * z + 2 * a
    BY <1>8
  <2> HIDE DEF z, m, low
  <2> QED BY <2>1
<1>10. s = mid * b + low
  BY <1>4
<1>11. s \in 0..(big - 1) /\ mid \in Nat \ {0} /\ big = 2 * mid
  <2>1. mid * b = 0 \/ mid * b = mid
    BY <1>5, <1>8
  <2>2. mid \in Nat \ {0} /\ big = 2 * mid
    BY <1>8
  <2> HIDE DEF mid, low, s, big
  <2> QED BY <1>9, <1>10, <2>1, <2>2
<1>12. 2 * (a * (2 * r + 1)) = big * h + s
  BY <1>2, <1>3, <1>4 DEF k1
<1>13. (2 * (a * (2 * r + 1))) % big = s
  <2> DEFINE x == 2 * (a * (2 * r + 1))
  <2>1. x \in Int /\ x = big * h + s /\ big \in Nat \ {0}
    BY <1>3, <1>8, <1>12
  <2> HIDE DEF x, big, s
  <2>2. x % big = s
    BY <1>3, <1>11, <2>1, DivisionOnly
  <2> QED BY <2>2 DEF x
<1>14. s \div mid = b /\ s % mid = low
  <2> HIDE DEF s, mid, low
  <2>1. s \in Int /\ low \in 0..(mid - 1)
    BY <1>9, <1>11
  <2> QED BY <1>4, <1>10, <1>11, <2>1, DivisionOnly
<1>15. r = t % (4 * c) /\ r2 = t % (2 * c)
  BY <1>6 DEF r, k1, k2
<1> HIDE DEF s, low
<1>16. (2 * (a * (2 * (t % (4 * c)) + 1))) % (8 * (a * c)) = s
  BY <1>13, <1>15
<1>17. s \div (4 * (a * c)) = (t \div c) % 2 /\ s % (4 * (a * c)) # 0
  BY <1>7, <1>9, <1>14
<1> QED BY <1>15, <1>16, <1>17 DEF s

(* The register over a whole tag byte: every shift brings the next bit, and*)
(* after the last one only the sentinel is left.                           *)
LEMMA Registered ==
  ASSUME NEW t \in Byte
  PROVE  /\ Reg(t, 0) = 2 * t + 1 /\ (t \div 2^(B - 1 - 0)) % 2 = t \div 2^(B - 1)
         /\ ((2 * Reg(t, B - 1)) % 2^(B + 1)) % 2^B = 0
         /\ \A j \in 0..(B - 2) :
              LET s == (2 * Reg(t, j)) % 2^(B + 1)
              IN  /\ s = Reg(t, j + 1) /\ s % 2^B # 0
                  /\ s \div 2^B = (t \div 2^(B - 1 - (j + 1))) % 2
<1> DEFINE m == 2^B
           l == 2^(B - 1)
<1>1. /\ B \in Nat /\ B >= 2 /\ m \in Nat \ {0} /\ l \in Nat \ {0} /\ m = 2 * l
      /\ 2^(B + 1) = 2 * m /\ t \in 0..(m - 1) /\ t \in Nat
  <2>1. Byte = 0..(m - 1)
    BY DEF Byte
  <2>2. t \in 0..(m - 1) /\ m \in Nat
    BY <2>1, Register
  <2> HIDE DEF m
  <2>3. t \in Nat
    BY <2>2
  <2> QED BY <2>2, <2>3, Widths, Register DEF m
<1>2. Reg(t, 0) = 2 * t + 1
  <2>1. B - 0 = B /\ 2^0 = 1
    BY <1>1
  <2>2. t % m = t
    <3> HIDE DEF m
    <3>1. t \in Int /\ t = m * 0 + t
      BY <1>1
    <3> QED BY <1>1, <3>1, DivisionOnly
  <2>3. Reg(t, 0) = 1 * (2 * t + 1)
    BY <2>1, <2>2 DEF Reg
  <2> QED BY <1>1, <2>3
<1>3. (t \div 2^(B - 1 - 0)) % 2 = t \div 2^(B - 1)
  <2> DEFINE x == t \div l
  <2>1. B - 1 - 0 = B - 1
    BY <1>1
  <2>2. x \in {0, 1}
    <3> HIDE DEF l, m
    <3>1. CASE t < l
      <4>1. t \in Int /\ t \in 0..(l - 1) /\ t = l * 0 + t
        BY <1>1, <3>1
      <4> QED BY <1>1, <4>1, DivisionOnly
    <3>2. CASE t >= l
      <4>1. t \in Int /\ t - l \in 0..(l - 1) /\ t = l * 1 + (t - l)
        BY <1>1, <3>2
      <4> QED BY <1>1, <4>1, DivisionOnly
    <3> QED BY <1>1, <3>1, <3>2
  <2> HIDE DEF x
  <2>3. x % 2 = x
    BY <2>2
  <2> QED BY <2>1, <2>3 DEF x
<1>4. ((2 * Reg(t, B - 1)) % 2^(B + 1)) % 2^B = 0
  <2> DEFINE x == t % 2
             y == l * (2 * x + 1)
  <2>1. B - (B - 1) = 1 /\ 2^1 = 2
    BY <1>1
  <2>2. Reg(t, B - 1) = y
    BY <2>1 DEF Reg
  <2>3. x \in {0, 1}
    BY <1>1
  <2> HIDE DEF x
  <2>4. 2 * y = (2 * m) * x + m
    BY <1>1, <2>3
  <2>5. (2 * y) % (2 * m) = m
    <3> DEFINE z == 2 * y
               k == 2 * m
    <3>1. z = k * x + m /\ k \in Nat \ {0} /\ m \in 0..(k - 1) /\ x \in Int
      <4> HIDE DEF y
      <4>1. z = k * x + m
        BY <2>4
      <4> HIDE DEF m, z
      <4> QED BY <1>1, <2>3, <4>1
    <3>2. z \in Int
      <4> HIDE DEF z, k, m
      <4> QED BY <1>1, <3>1
    <3> HIDE DEF z, k, m
    <3>3. z % k = m
      BY <3>1, <3>2, DivisionOnly
    <3> QED BY <3>3 DEF z, k
  <2>6. m % m = 0
    <3> HIDE DEF m
    <3>1. m \in Int /\ m = m * 1 + 0 /\ 0 \in 0..(m - 1)
      BY <1>1
    <3> QED BY <1>1, <3>1, DivisionOnly
  <2> HIDE DEF y
  <2> QED BY <1>1, <2>2, <2>5, <2>6
<1>5. ASSUME NEW j \in 0..(B - 2)
      PROVE  LET s == (2 * Reg(t, j)) % 2^(B + 1)
             IN  /\ s = Reg(t, j + 1) /\ s % 2^B # 0
                 /\ s \div 2^B = (t \div 2^(B - 1 - (j + 1))) % 2
  <2> DEFINE e == B - 2 - j
             a == 2^j
             c == 2^e
  <2>1. /\ j \in Nat /\ e \in Nat /\ B - j = (e + 1) + 1 /\ B - (j + 1) = e + 1
        /\ B - 1 - (j + 1) = e /\ B = j + ((e + 1) + 1) /\ e + 1 \in Nat /\ (e + 1) + 1 \in Nat
    BY <1>1
  <2> HIDE DEF e
  <2>2. a \in Nat \ {0} /\ c \in Nat \ {0}
    <3>1. 2^j \in Nat /\ 2^j >= 1 /\ 2^e \in Nat /\ 2^e >= 1
      BY <2>1, PowerPositive
    <3> QED BY <3>1
  <2>3. 2^(e + 1) = 2 * c /\ 2^((e + 1) + 1) = 2 * 2^(e + 1) /\ 2^(j + 1) = 2 * a
        /\ 2^(j + ((e + 1) + 1)) = a * 2^((e + 1) + 1)
    BY <2>1, PowerNext, PowerSum
  <2>4. 2^(B - j) = 4 * c /\ 2^(B - (j + 1)) = 2 * c
    <3> HIDE DEF c
    <3>1. 2 * (2 * c) = 4 * c
      BY <2>2
    <3> QED BY <2>1, <2>3, <3>1
  <2>5. 2^B = 4 * (a * c) /\ 2^(B + 1) = 8 * (a * c)
    <3> HIDE DEF a, c
    <3>1. a * (4 * c) = 4 * (a * c) /\ 2 * (4 * (a * c)) = 8 * (a * c)
      BY <2>2
    <3>2. 2^B = a * 2^(B - j)
      BY <2>1, <2>3
    <3>3. 2^B = 4 * (a * c)
      BY <2>4, <3>1, <3>2
    <3>4. 2^(B + 1) = 2 * 2^B
      BY <1>1
    <3> QED BY <3>1, <3>3, <3>4
  <2>6. Reg(t, j) = a * (2 * (t % (4 * c)) + 1) /\ Reg(t, j + 1) = (2 * a) * (2 * (t % (2 * c)) + 1)
    BY <2>3, <2>4 DEF Reg
  <2> DEFINE s == (2 * (a * (2 * (t % (4 * c)) + 1))) % (8 * (a * c))
  <2>7. /\ s = (2 * a) * (2 * (t % (2 * c)) + 1)
        /\ s \div (4 * (a * c)) = (t \div c) % 2
        /\ s % (4 * (a * c)) # 0
    <3>1. t \in Nat
      BY <1>1
    <3> HIDE DEF a, c
    <3> QED BY <2>2, <3>1, Shifted, Zenon
  <2>8. (2 * Reg(t, j)) % 2^(B + 1) = s
    BY <2>5, <2>6
  <2> HIDE DEF s
  <2>9. s = Reg(t, j + 1) /\ s % 2^B # 0 /\ s \div 2^B = (t \div 2^(B - 1 - (j + 1))) % 2
    BY <2>1, <2>5, <2>6, <2>7
  <2> QED BY <2>8, <2>9
<1> QED BY <1>2, <1>3, <1>4, <1>5

-----------------------------------------------------------------------------
(* A stream that carries events, and a reader that has read some of them.  *)

(* d carries ev from its byte 5 to its byte end.                           *)
CarriesEvents(d, end, ev, pos, tag) ==
  /\ IsStream(d, end)
  /\ ev \in Seq(Events)
  /\ pos \in [0..Len(ev) -> Nat] /\ pos[0] = 0 /\ end = 4 + pos[Len(ev)]
  /\ tag \in [1..Len(ev) -> Byte]
  /\ \A i \in 1..Len(ev) :
       /\ 4 + pos[i] <= end
       /\ (tag[i] \div 2^(B - 1 - PlaceIn(i, B))) % 2 = ev[i].bit
       /\ PlaceIn(i, B) = 0 => /\ pos[i] = pos[i - 1] + 1 + Len(ev[i].bytes)
                               /\ d[5 + pos[i - 1]] = tag[i]
       /\ PlaceIn(i, B) # 0 => /\ pos[i] = pos[i - 1] + Len(ev[i].bytes)
                               /\ tag[i] = tag[i - 1]
       /\ \A x \in 1..Len(ev[i].bytes) :
            d[4 + pos[i] - Len(ev[i].bytes) + x] = ev[i].bytes[x]

(* The bit of event i has been read, and not its bytes.                    *)
Ready(r, ev, pos, tag, i) ==
  /\ r.bad = "" /\ r.p = 5 + pos[i] - Len(ev[i].bytes)
  /\ r.tag = Reg(tag[i], PlaceIn(i, B))

(* The first i events have been read.                                      *)
Stands(r, pos, tag, i) ==
  /\ r.bad = "" /\ r.p = 5 + pos[i]
  /\ i = 0 => r.tag = 0
  /\ i # 0 => r.tag = Reg(tag[i], PlaceIn(i, B))

(* The next control bit, from the register or from the next tag byte.      *)
LEMMA BitIsRead ==
  ASSUME NEW d, NEW end, NEW ev, NEW pos, NEW tag, CarriesEvents(d, end, ev, pos, tag),
         NEW i \in 1..Len(ev), NEW r \in Readers(end), Stands(r, pos, tag, i - 1)
  PROVE  LET b == ReadBit(d, end, r)
         IN  b \in Readers(end) /\ b.v = ev[i].bit /\ Ready(b, ev, pos, tag, i)
<1> DEFINE b == ReadBit(d, end, r)
           c == ReadByte(d, end, r)
           j == PlaceIn(i, B)
           g == GroupOf(i, B)
           s == (2 * r.tag) % 2^(B + 1)
           t == tag[i]
           l == Len(ev[i].bytes)
           m == 2^B
           h == 2^(B - 1)
<1>1. /\ IsStream(d, end) /\ ev \in Seq(Events)
      /\ pos \in [0..Len(ev) -> Nat] /\ pos[0] = 0 /\ end = 4 + pos[Len(ev)]
      /\ tag \in [1..Len(ev) -> Byte] /\ Len(ev) \in Nat
      /\ 4 + pos[i] <= end
      /\ (t \div 2^(B - 1 - j)) % 2 = ev[i].bit
      /\ j = 0 => pos[i] = pos[i - 1] + 1 + l /\ d[5 + pos[i - 1]] = t
      /\ j # 0 => pos[i] = pos[i - 1] + l /\ t = tag[i - 1]
  <2>1. ev \in Seq(Events)
    BY DEF CarriesEvents
  <2> QED BY <2>1, LenProperties DEF CarriesEvents
<1>2. i \in Nat \ {0} /\ i - 1 \in 0..Len(ev) /\ i \in 0..Len(ev)
  BY <1>1
<1>3. B \in Nat /\ B >= 2
  BY Widths
<1>4. At(i, B, g, j)
  BY <1>2, <1>3, Position
<1>5. j \in 0..(B - 1)
  BY <1>4 DEF At
<1>6. t \in Byte /\ l \in Nat /\ pos[i] \in Nat /\ pos[i - 1] \in Nat
  <2>1. ev[i] \in Events
    BY <1>1, ElementOfSeq
  <2>2. ev[i].bytes \in Seq(Byte)
    BY <2>1 DEF Events
  <2> QED BY <1>1, <1>2, <2>2, LenProperties
<1>7. /\ r.bad = "" /\ r.p = 5 + pos[i - 1]
      /\ i - 1 = 0 => r.tag = 0
      /\ i - 1 # 0 => r.tag = Reg(tag[i - 1], PlaceIn(i - 1, B))
  BY DEF Stands
<1>8. b \in Readers(end) /\ c \in Readers(end)
  BY <1>1, ReadBitTyped, ReadByteTyped
<1>9. r = [p |-> r.p, tag |-> r.tag, v |-> r.v, bad |-> r.bad]
  BY DEF Readers
<1>10. CASE j # 0
  <2>1. i - 1 # 0
    <3> SUFFICES ASSUME i - 1 = 0 PROVE FALSE
      OBVIOUS
    <3>1. At(1, B, 1, 0)
      <4>1. B * (1 - 1) = 0 /\ 0 \in 0..(B - 1)
        BY <1>3
      <4> QED BY <4>1 DEF At
    <3>2. PlaceIn(1, B) = 0
      BY <1>3, <3>1, PositionOnly
    <3>3. i = 1
      BY <1>2
    <3> QED BY <1>10, <3>2, <3>3
  <2>2. i # 1
    BY <1>2, <2>1
  <2>3. PlaceIn(i - 1, B) = j - 1
    BY <1>2, <1>3, <1>10, <2>2, NextPosition
  <2>4. r.tag = Reg(t, j - 1)
    BY <1>1, <1>7, <1>10, <2>1, <2>3
  <2>5. j - 1 \in 0..(B - 2) /\ (j - 1) + 1 = j
    <3> HIDE DEF j
    <3> QED BY <1>3, <1>5, <1>10
  <2>6. s = Reg(t, j) /\ s % m # 0 /\ s \div m = (t \div 2^(B - 1 - j)) % 2
    <3> DEFINE k == j - 1
    <3>1. LET x == (2 * Reg(t, k)) % 2^(B + 1)
          IN  /\ x = Reg(t, k + 1) /\ x % 2^B # 0
              /\ x \div 2^B = (t \div 2^(B - 1 - (k + 1))) % 2
      <4> HIDE DEF k, t
      <4> QED BY <1>6, <2>5, Registered, Zenon DEF k
    <3>2. k + 1 = j
      BY <2>5
    <3> HIDE DEF k
    <3>3. s = (2 * Reg(t, k)) % 2^(B + 1)
      BY <2>4 DEF k
    <3> QED BY <3>1, <3>2, <3>3
  <2>7. b = [r EXCEPT !.tag = s, !.v = s \div m]
    BY <1>7, <2>6 DEF ReadBit
  <2> HIDE DEF s, m
  <2>8. b.p = r.p /\ b.tag = s /\ b.v = s \div m /\ b.bad = r.bad
    BY <1>9, <2>7
  <2> HIDE DEF b
  <2>9. r.p = 5 + pos[i] - l
    <3> DEFINE x == pos[i]
               y == pos[i - 1]
               p == r.p
    <3>1. x = y + l /\ p = 5 + y /\ x \in Nat /\ y \in Nat /\ l \in Nat
      BY <1>1, <1>6, <1>7, <1>10
    <3> HIDE DEF l, x, y, p
    <3>2. p = 5 + x - l
      BY <3>1
    <3> QED BY <3>2 DEF p, x
  <2>10. b \in Readers(end) /\ b.v = ev[i].bit /\ Ready(b, ev, pos, tag, i)
    BY <1>1, <1>7, <1>8, <2>6, <2>8, <2>9 DEF Ready
  <2> QED BY <2>10 DEF b
<1>11. CASE j = 0
  <2>1. s % m = 0
    <3>1. CASE i - 1 = 0
      <4>1. r.tag = 0
        BY <1>7, <3>1
      <4>2. 2 * 0 = 0
        OBVIOUS
      <4>3. 0 % 2^(B + 1) = 0 /\ 0 % m = 0
        <5> DEFINE k == 2^(B + 1)
        <5>1. k \in Nat \ {0} /\ m \in Nat \ {0}
          BY Register
        <5> HIDE DEF k, m
        <5>2. 0 = k * 0 + 0 /\ 0 \in 0..(k - 1) /\ 0 = m * 0 + 0 /\ 0 \in 0..(m - 1)
          BY <5>1
        <5>3. 0 % k = 0 /\ 0 % m = 0
          BY <5>1, <5>2, DivisionOnly
        <5> QED BY <5>3 DEF k, m
      <4> QED BY <4>1, <4>2, <4>3
    <3>2. CASE i - 1 # 0
      <4>1. i # 1 /\ i - 1 \in 1..Len(ev)
        BY <1>1, <1>2, <3>2
      <4>2. PlaceIn(i - 1, B) = B - 1
        BY <1>2, <1>3, <1>11, <4>1, NextPosition
      <4>3. r.tag = Reg(tag[i - 1], B - 1) /\ tag[i - 1] \in Byte
        BY <1>1, <1>7, <3>2, <4>1, <4>2
      <4>4. ((2 * Reg(tag[i - 1], B - 1)) % 2^(B + 1)) % 2^B = 0
        BY <4>3, Registered, Zenon
      <4> QED BY <4>3, <4>4
    <3> QED BY <3>1, <3>2
  <2>2. ~(r.p > end) /\ r.p = 5 + pos[i - 1] /\ d[r.p] = t
    <3>1. pos[i] = pos[i - 1] + 1 + l /\ d[5 + pos[i - 1]] = t
      BY <1>1, <1>11
    <3>2. end \in Nat /\ 4 + pos[i] <= end
      BY <1>1 DEF IsStream
    <3> DEFINE p == r.p
    <3>3. p = 5 + pos[i - 1]
      BY <1>7
    <3> HIDE DEF l, p
    <3>4. ~(p > end)
      BY <1>6, <3>1, <3>2, <3>3, SMTT(30)
    <3> QED BY <3>1, <3>3, <3>4 DEF p
  <2>3. c = [r EXCEPT !.v = d[r.p], !.p = @ + 1]
    BY <1>7, <2>2 DEF ReadByte
  <2>4. c.v = t /\ c.p = r.p + 1 /\ c.bad = "" /\ c = [p |-> c.p, tag |-> c.tag, v |-> c.v, bad |-> c.bad]
    BY <1>7, <1>9, <2>2, <2>3
  <2>5. b = [c EXCEPT !.tag = 2 * c.v + 1, !.v = c.v \div h]
    <3> HIDE DEF c
    <3> QED BY <1>7, <2>1, <2>4 DEF ReadBit, c
  <2> HIDE DEF c, h
  <2>6. b.p = c.p /\ b.tag = 2 * t + 1 /\ b.v = t \div h /\ b.bad = ""
    BY <2>4, <2>5
  <2>7. Reg(t, 0) = 2 * t + 1 /\ (t \div 2^(B - 1 - 0)) % 2 = t \div h
    BY <1>6, Registered, Zenon DEF h
  <2>8. c.p = 5 + pos[i] - l
    <3>1. pos[i] = pos[i - 1] + 1 + l
      BY <1>1, <1>11
    <3>2. c.p = (5 + pos[i - 1]) + 1
      BY <2>2, <2>4
    <3> HIDE DEF l
    <3> QED BY <1>6, <3>1, <3>2
  <2> HIDE DEF b
  <2>9. b \in Readers(end) /\ b.v = ev[i].bit /\ Ready(b, ev, pos, tag, i)
    BY <1>1, <1>8, <1>11, <2>6, <2>7, <2>8 DEF Ready
  <2> QED BY <2>9 DEF b
<1> QED BY <1>10, <1>11

(* An event without bytes is done with its bit.                            *)
LEMMA NoneIsRead ==
  ASSUME NEW d, NEW end, NEW ev, NEW pos, NEW tag, CarriesEvents(d, end, ev, pos, tag),
         NEW i \in 1..Len(ev), ev[i].bytes = <<>>, NEW r, Ready(r, ev, pos, tag, i)
  PROVE  Stands(r, pos, tag, i)
<1>1. pos[i] \in Nat /\ i # 0
  <2>1. Len(ev) \in Nat /\ pos \in [0..Len(ev) -> Nat]
    BY LenProperties DEF CarriesEvents
  <2>2. i \in 0..Len(ev) /\ i # 0
    BY <2>1
  <2> QED BY <2>1, <2>2
<1>2. Len(ev[i].bytes) = 0
  OBVIOUS
<1>3. 5 + pos[i] - 0 = 5 + pos[i]
  BY <1>1
<1> QED BY <1>1, <1>2, <1>3 DEF Ready, Stands

(* The byte of an event that brings one.                                   *)
LEMMA ByteIsRead ==
  ASSUME NEW d, NEW end, NEW ev, NEW pos, NEW tag, CarriesEvents(d, end, ev, pos, tag),
         NEW i \in 1..Len(ev), Len(ev[i].bytes) = 1,
         NEW r \in Readers(end), Ready(r, ev, pos, tag, i)
  PROVE  LET b == ReadByte(d, end, r)
         IN  b \in Readers(end) /\ b.v = ev[i].bytes[1] /\ Stands(b, pos, tag, i)
<1> DEFINE b == ReadByte(d, end, r)
           p == r.p
<1>1. /\ IsStream(d, end) /\ pos[i] \in Nat /\ i # 0 /\ 4 + pos[i] <= end /\ end \in Nat
      /\ d[4 + pos[i] - 1 + 1] = ev[i].bytes[1]
  <2>1. Len(ev) \in Nat /\ pos \in [0..Len(ev) -> Nat] /\ IsStream(d, end)
    BY LenProperties DEF CarriesEvents
  <2>2. i \in 0..Len(ev) /\ i # 0
    BY <2>1
  <2>3. 1 \in 1..Len(ev[i].bytes)
    OBVIOUS
  <2>4. d[4 + pos[i] - Len(ev[i].bytes) + 1] = ev[i].bytes[1]
    BY <2>3 DEF CarriesEvents
  <2>5. 4 + pos[i] <= end /\ end \in Nat
    BY DEF CarriesEvents, IsStream
  <2> QED BY <2>1, <2>2, <2>4, <2>5
<1>2. r.bad = "" /\ p = 5 + pos[i] - 1 /\ r.tag = Reg(tag[i], PlaceIn(i, B))
  BY DEF Ready
<1>3. r = [p |-> r.p, tag |-> r.tag, v |-> r.v, bad |-> r.bad]
  BY DEF Readers
<1>4. ~(p > end) /\ p = 4 + pos[i] - 1 + 1 /\ p + 1 = 5 + pos[i]
  <2> DEFINE x == pos[i]
  <2>1. x \in Nat /\ 4 + x <= end /\ end \in Nat /\ p = 5 + x - 1
    BY <1>1, <1>2
  <2> HIDE DEF p, x
  <2>2. ~(p > end) /\ p = 4 + x - 1 + 1 /\ p + 1 = 5 + x
    BY <2>1
  <2> QED BY <2>2 DEF x
<1>5. b = [r EXCEPT !.v = d[r.p], !.p = @ + 1]
  BY <1>2, <1>4 DEF ReadByte
<1>6. b.v = d[p] /\ b.p = p + 1 /\ b.tag = r.tag /\ b.bad = ""
  BY <1>2, <1>3, <1>5
<1>7. b \in Readers(end)
  BY <1>1, ReadByteTyped
<1> HIDE DEF b
<1>8. b \in Readers(end) /\ b.v = ev[i].bytes[1] /\ Stands(b, pos, tag, i)
  BY <1>1, <1>2, <1>4, <1>6, <1>7 DEF Stands
<1> QED BY <1>8 DEF b

-----------------------------------------------------------------------------
(* The events of a packed section.                                         *)

EndValue == 2^B + 2

(* Below its leading one, the value of the end marker has B bits.          *)
LEMMA EndTail == TailLen(EndValue) = B /\ EndValue \in Nat
<1> DEFINE V == EndValue
           Fit(n) == 2^n <= V /\ V < 2^(n + 1)
           m == 2^B
<1>1. /\ B \in Nat /\ m \in Nat \ {0} /\ m >= 4 /\ 2^(B + 1) = 2 * m /\ V = m + 2
      /\ V \in Nat
  <2>1. m >= 4 /\ m \in Nat \ {0} /\ 2^(B + 1) = 2 * m /\ B \in Nat
    BY ByteFacts, Register, Widths
  <2>2. V = m + 2
    BY DEF EndValue
  <2> HIDE DEF m, V
  <2>3. V \in Nat
    BY <2>1, <2>2
  <2> QED BY <2>1, <2>2, <2>3
<1>2. B \in 0..V
  <2> DEFINE P == {k \in 0..B : k <= 2^k}
  <2>1. 0 \in P
    <3>1. 2^0 = 1 /\ 0 \in 0..B
      BY <1>1
    <3> QED BY <3>1
  <2>2. ASSUME NEW k \in 1..B, k - 1 \in P PROVE k \in P
    <3> DEFINE x == 2^(k - 1)
    <3>1. k - 1 \in Nat /\ (k - 1) + 1 = k /\ k \in 0..B
      BY <1>1
    <3>2. x \in Nat /\ x >= 1 /\ 2^((k - 1) + 1) = 2 * x /\ k - 1 <= x
      BY <2>2, <3>1, PowerPositive, PowerNext
    <3>3. 2^k = 2 * x
      BY <3>1, <3>2
    <3> HIDE DEF x
    <3>4. k <= 2 * x
      BY <3>1, <3>2
    <3> QED BY <3>1, <3>3, <3>4
  <2>3. 0..B \subseteq P
    <3> HIDE DEF P
    <3> QED BY <1>1, <2>1, <2>2, UpTo
  <2>4. B <= m
    <3>1. B \in 0..B
      BY <1>1
    <3>2. B \in P
      BY <2>3, <3>1
    <3> QED BY <3>2
  <2> HIDE DEF m, V
  <2> QED BY <1>1, <2>4
<1>3. Fit(B)
  <2>1. 2^B = m
    OBVIOUS
  <2>2. m <= V /\ V < 2 * m
    <3> HIDE DEF m, V
    <3> QED BY <1>1
  <2> QED BY <1>1, <2>1, <2>2
<1>4. ASSUME NEW n \in 0..V, Fit(n) PROVE n = B
  <2>1. n \in Nat
    BY <1>1
  <2>2. CASE n > B
    <3> DEFINE e == n - (B + 1)
               x == 2^e
    <3>1. e \in Nat /\ n = (B + 1) + e /\ B + 1 \in Nat
      BY <1>1, <2>1, <2>2
    <3>2. x \in Nat /\ x >= 1 /\ 2^((B + 1) + e) = 2^(B + 1) * 2^e
      <4> HIDE DEF e
      <4> QED BY <3>1, PowerPositive, PowerSum
    <3>3. 2^n = (2 * m) * x
      <4> HIDE DEF e
      <4> QED BY <1>1, <3>1, <3>2
    <3>4. 2^n <= V
      BY <1>4
    <3> HIDE DEF x, m, V
    <3>5. (2 * m) * x >= 2 * m
      BY <1>1, <3>2
    <3> QED BY <1>1, <3>3, <3>4, <3>5
  <2>3. CASE n < B
    <3> DEFINE e == B - (n + 1)
               x == 2^e
               y == 2^(n + 1)
    <3>1. e \in Nat /\ B = (n + 1) + e /\ n + 1 \in Nat
      BY <1>1, <2>1, <2>3
    <3>2. x \in Nat /\ x >= 1 /\ y \in Nat /\ 2^((n + 1) + e) = 2^(n + 1) * 2^e
      <4> HIDE DEF e
      <4> QED BY <3>1, PowerPositive, PowerSum
    <3>3. m = y * x
      <4> HIDE DEF e
      <4> QED BY <3>1, <3>2
    <3>4. V < y
      BY <1>4
    <3> HIDE DEF x, y, m, V
    <3>5. y * x >= y
      BY <3>2
    <3> QED BY <1>1, <3>2, <3>3, <3>4, <3>5
  <2> QED BY <1>1, <2>1, <2>2, <2>3
<1>5. TailLen(V) = CHOOSE n \in 0..V : Fit(n)
  BY DEF TailLen
<1> HIDE DEF Fit
<1>6. TailLen(V) = B
  BY <1>2, <1>3, <1>4, <1>5
<1> QED BY <1>1, <1>6

(* A literal for every byte, then the end marker: a zero, the bits of its  *)
(* value, each before a stop bit, and a byte of ones.                      *)
IsPacked(ev, data) ==
  /\ ev \in Seq(Events) /\ Len(ev) = Len(data) + 1 + 2 * B
  /\ \A i \in 1..Len(data) : ev[i].bit = 1 /\ ev[i].bytes = <<data[i]>>
  /\ ev[Len(data) + 1].bit = 0 /\ ev[Len(data) + 1].bytes = <<>>
  /\ \A k \in 1..B :
       /\ ev[Len(data) + 2 * k].bit = (EndValue \div 2^(B - k)) % 2
       /\ ev[Len(data) + 2 * k].bytes = <<>>
       /\ ev[Len(data) + 1 + 2 * k].bit = IF k = B THEN 1 ELSE 0
       /\ ev[Len(data) + 1 + 2 * k].bytes = IF k = B THEN <<2^B - 1>> ELSE <<>>

(* The events of a packed section.                                         *)
LEMMA PackedEvents ==
  ASSUME NEW data \in Seq(Byte)
  PROVE  IsPacked(Literals(data) \o Terminator, data)
<1> DEFINE V == EndValue
           L == Len(data)
           t == [i \in 1..B |-> (V \div 2^(B - i)) % 2]
           g == [i \in 1..(2 * B) |->
                   IF i % 2 = 1 THEN t[(i + 1) \div 2] ELSE IF i = 2 * B THEN 1 ELSE 0]
           ones == <<2^B - 1>>
           ge == [i \in 1..(2 * B) |-> Event(g[i], IF i = 2 * B THEN ones ELSE <<>>)]
           zero == <<Event(0, <<>>)>>
           term == zero \o ge
           lits == [i \in 1..L |-> Literal(data[i])]
           ev == lits \o term
<1>1. B \in Nat /\ B >= 2 /\ 2 * B \in Nat /\ L \in Nat /\ V \in Nat
  BY Widths, EndTail, LenProperties
<1>2. \A i \in 1..B : t[i] \in {0, 1}
  <2> TAKE i \in 1..B
  <2> DEFINE k == 2^(B - i)
  <2>1. k \in Nat \ {0}
    <3>1. B - i \in Nat
      BY <1>1
    <3>2. 2^(B - i) \in Nat /\ 2^(B - i) >= 1
      BY <3>1, PowerPositive
    <3> QED BY <3>2
  <2> HIDE DEF k, V
  <2> DEFINE x == V \div k
  <2>2. x \in Int
    BY <1>1, <2>1, Division
  <2> HIDE DEF x
  <2>3. x % 2 \in {0, 1}
    BY <2>2
  <2> QED BY <2>3 DEF x, k
<1>3. Tail1(V) = t /\ Len(t) = B
  <2>1. Tail1(V) = t
    BY EndTail DEF Tail1
  <2> HIDE DEF V
  <2> QED BY <1>1, <2>1
<1>4. Gamma(V) = g /\ Len(g) = 2 * B
  <2> HIDE DEF t, V
  <2>1. Gamma(V) = [i \in 1..(2 * Len(t)) |->
                     IF i % 2 = 1 THEN t[(i + 1) \div 2] ELSE IF i = 2 * Len(t) THEN 1 ELSE 0]
    BY <1>3 DEF Gamma
  <2>2. Gamma(V) = g
    BY <1>3, <2>1
  <2> QED BY <1>1, <2>2
<1>5. GammaEvents(V, ones) = ge
  <2> HIDE DEF g, ones, V
  <2> QED BY <1>4 DEF GammaEvents
<1>6. Terminator = term
  BY <1>5 DEF Terminator, EndValue
<1>7. ASSUME NEW k \in 1..B
      PROVE  /\ 2 * k - 1 \in 1..(2 * B) /\ 2 * k \in 1..(2 * B)
             /\ g[2 * k - 1] = (V \div 2^(B - k)) % 2
             /\ g[2 * k] = IF k = B THEN 1 ELSE 0
             /\ (2 * k - 1) % 2 = 1 /\ (2 * k) % 2 = 0
             /\ 2 * k - 1 # 2 * B /\ (2 * k = 2 * B <=> k = B)
  <2>1. k \in Nat \ {0} /\ k <= B
    BY <1>1
  <2>2. 2 * k - 1 \in 1..(2 * B) /\ 2 * k \in 1..(2 * B)
    BY <1>1, <2>1
  <2>3. (2 * k - 1) % 2 = 1 /\ (2 * k) % 2 = 0 /\ ((2 * k - 1) + 1) \div 2 = k
    <3>1. 2 * k - 1 = 2 * (k - 1) + 1 /\ 2 * k = 2 * k + 0 /\ (2 * k - 1) + 1 = 2 * k
      BY <2>1
    <3>2. 0 \in 0..(2 - 1) /\ 1 \in 0..(2 - 1) /\ k - 1 \in Int /\ 2 * k - 1 \in Int /\ 2 * k \in Int
      BY <2>1
    <3>3. (2 * k - 1) % 2 = 1
      BY <3>1, <3>2, DivisionOnly
    <3>4. (2 * k) % 2 = 0 /\ (2 * k) \div 2 = k
      BY <2>1, <3>1, <3>2, DivisionOnly
    <3> QED BY <3>1, <3>3, <3>4
  <2>4. 2 * k - 1 # 2 * B /\ (2 * k = 2 * B <=> k = B)
    BY <1>1, <2>1
  <2>5. g[2 * k - 1] = t[k]
    <3> HIDE DEF t
    <3> QED BY <2>2, <2>3
  <2>6. g[2 * k] = IF k = B THEN 1 ELSE 0
    <3> HIDE DEF t
    <3> QED BY <2>2, <2>3, <2>4
  <2> QED BY <2>2, <2>3, <2>4, <2>5, <2>6
<1>8. \A i \in 1..(2 * B) : g[i] \in {0, 1}
  <2> TAKE i \in 1..(2 * B)
  <2>1. i % 2 = 1 => (i + 1) \div 2 \in 1..B
    BY <1>1
  <2> HIDE DEF t
  <2> QED BY <1>2, <2>1
<1> HIDE DEF g, t
<1>9. ones \in Seq(Byte) /\ <<>> \in Seq(Byte)
  <2>1. 2^B - 1 \in Byte
    <3> DEFINE m == 2^B
    <3>1. m \in Nat \ {0}
      BY Register
    <3> HIDE DEF m
    <3>2. m - 1 \in 0..(m - 1)
      BY <3>1
    <3> QED BY <3>2 DEF m, Byte
  <2> QED BY <2>1
<1>10. ge \in Seq(Events) /\ Len(ge) = 2 * B
  <2>1. \A i \in 1..(2 * B) : Event(g[i], IF i = 2 * B THEN ones ELSE <<>>) \in Events
    <3> HIDE DEF ones
    <3> QED BY <1>8, <1>9 DEF Event, Events
  <2> HIDE DEF ones
  <2> QED BY <1>1, <2>1
<1>11. zero \in Seq(Events) /\ Len(zero) = 1 /\ zero[1] = Event(0, <<>>)
  <2>1. Event(0, <<>>) \in Events
    BY <1>9 DEF Event, Events
  <2> QED BY <2>1
<1>12. lits \in Seq(Events) /\ Len(lits) = L /\ \A i \in 1..L : lits[i] = Literal(data[i])
  <2>1. \A i \in 1..L : Literal(data[i]) \in Events
    <3> TAKE i \in 1..L
    <3>1. data[i] \in Byte
      BY ElementOfSeq
    <3>2. <<data[i]>> \in Seq(Byte)
      BY <3>1
    <3> QED BY <3>2 DEF Literal, Event, Events
  <2> QED BY <1>1, <2>1
<1>13. \A i \in 1..(2 * B) : ge[i] = Event(g[i], IF i = 2 * B THEN ones ELSE <<>>)
  OBVIOUS
<1> HIDE DEF ge, zero, lits, L, V
<1>14. term \in Seq(Events) /\ Len(term) = 1 + 2 * B /\ term[1] = zero[1]
       /\ \A i \in 1..(2 * B) : term[1 + i] = ge[i]
  <2>1. term \in Seq(Events) /\ IsJoin(term, zero, ge)
    BY <1>10, <1>11, Appended
  <2> HIDE DEF term
  <2>2. 1 \in 1..1
    OBVIOUS
  <2> QED BY <1>10, <1>11, <2>1, <2>2 DEF IsJoin
<1> HIDE DEF term
<1>15. ev \in Seq(Events) /\ Len(ev) = L + (1 + 2 * B)
       /\ (\A i \in 1..L : ev[i] = lits[i])
       /\ \A i \in 1..(1 + 2 * B) : ev[L + i] = term[i]
  <2>1. ev \in Seq(Events) /\ IsJoin(ev, lits, term)
    BY <1>12, <1>14, Appended
  <2> HIDE DEF ev
  <2> QED BY <1>12, <1>14, <2>1 DEF IsJoin
<1> HIDE DEF ev
<1>16. \A i \in 1..L : ev[i].bit = 1 /\ ev[i].bytes = <<data[i]>>
  BY <1>12, <1>15 DEF Literal, Event
<1>17. ev[L + 1].bit = 0 /\ ev[L + 1].bytes = <<>>
  <2>1. 1 \in 1..(1 + 2 * B)
    BY <1>1
  <2>2. ev[L + 1] = Event(0, <<>>)
    BY <1>11, <1>14, <1>15, <2>1
  <2> QED BY <2>2 DEF Event
<1>18. ASSUME NEW k \in 1..B
       PROVE  /\ ev[L + 2 * k].bit = (V \div 2^(B - k)) % 2
              /\ ev[L + 2 * k].bytes = <<>>
              /\ ev[L + 1 + 2 * k].bit = IF k = B THEN 1 ELSE 0
              /\ ev[L + 1 + 2 * k].bytes = IF k = B THEN ones ELSE <<>>
  <2>1. /\ 2 * k - 1 \in 1..(2 * B) /\ 2 * k \in 1..(2 * B)
        /\ 1 + (2 * k - 1) = 2 * k /\ 1 + (2 * k - 1) \in 1..(1 + 2 * B)
        /\ 1 + 2 * k \in 1..(1 + 2 * B) /\ L + 1 + 2 * k = L + (1 + 2 * k)
    BY <1>1
  <2>2. ev[L + 2 * k] = ge[2 * k - 1]
    <3>1. term[1 + (2 * k - 1)] = ge[2 * k - 1]
      BY <1>14, <2>1
    <3>2. 2 * k \in 1..(1 + 2 * B)
      BY <2>1
    <3> QED BY <1>15, <2>1, <3>1, <3>2
  <2>3. ev[L + 1 + 2 * k] = ge[2 * k]
    <3>1. term[1 + 2 * k] = ge[2 * k]
      BY <1>14, <2>1
    <3> QED BY <1>15, <2>1, <3>1
  <2>4. ge[2 * k - 1] = Event(g[2 * k - 1], <<>>)
    BY <1>7, <1>13
  <2>5. ge[2 * k] = Event(g[2 * k], IF k = B THEN ones ELSE <<>>)
    BY <1>7, <1>13
  <2> HIDE DEF ones
  <2>6. \A x, y : Event(x, y).bit = x /\ Event(x, y).bytes = y
    BY DEF Event
  <2>7. ev[L + 2 * k].bit = g[2 * k - 1] /\ ev[L + 2 * k].bytes = <<>>
    BY <2>2, <2>4, <2>6
  <2>8. /\ ev[L + 1 + 2 * k].bit = g[2 * k]
        /\ ev[L + 1 + 2 * k].bytes = IF k = B THEN ones ELSE <<>>
    BY <2>3, <2>5, <2>6
  <2>9. g[2 * k - 1] = (V \div 2^(B - k)) % 2 /\ g[2 * k] = IF k = B THEN 1 ELSE 0
    BY <1>7
  <2> QED BY <2>7, <2>8, <2>9
<1>19. L + (1 + 2 * B) = L + 1 + 2 * B
  BY <1>1
<1>20. IsPacked(ev, data)
  BY <1>15, <1>16, <1>17, <1>18, <1>19 DEF IsPacked, L, V
<1>21. Literals(data) \o Terminator = ev
  BY <1>6 DEF ev, lits, L, Literals
<1> QED BY <1>20, <1>21

(* Reading the end marker's value, after the zero that announces it.       *)
LEMMA EndValueRead ==
  ASSUME NEW d, NEW end, NEW ev, NEW pos, NEW tag, CarriesEvents(d, end, ev, pos, tag),
         NEW data \in Seq(Byte), IsPacked(ev, data),
         NEW r \in Readers(end), Stands(r, pos, tag, Len(data) + 1)
  PROVE  LET g == ReadGamma(d, end, r)
         IN  g \in Readers(end) /\ g.v = EndValue /\ Ready(g, ev, pos, tag, Len(ev))
<1> DEFINE V == EndValue
           L == Len(data)
           n == Len(ev)
           q(k) == V \div 2^(B - k)
           Part(g, k) == /\ g \in Gammas(end) /\ g.go = TRUE /\ g.v = q(k)
                         /\ Stands(g.r, pos, tag, L + 1 + 2 * k)
<1>1. /\ B \in Nat /\ B >= 2 /\ L \in Nat /\ n = L + 1 + 2 * B /\ V \in Nat /\ IsStream(d, end)
      /\ ev \in Seq(Events)
  BY Widths, EndTail, LenProperties DEF IsPacked, CarriesEvents
<1>2. PICK f : /\ GammaLoop(f, d, end, r)
               /\ ReadGamma(d, end, r) = [f[GammaPasses].r EXCEPT !.v = f[GammaPasses].v]
  BY <1>1, GammaRead
<1>3. /\ f \in [0..(B + 2) -> Gammas(end)]
      /\ f[0] = [r |-> r, v |-> 1, go |-> r.bad = ""]
      /\ \A i \in 1..(B + 2) : f[i] = IF f[i - 1].go THEN GammaPass(d, end, f[i - 1]) ELSE f[i - 1]
  BY <1>2 DEF GammaLoop, GammaPasses
<1>4. /\ q(0) = 1 /\ q(B) = V
      /\ \A k \in 1..B : q(k) = 2 * q(k - 1) + ((V \div 2^(B - k)) % 2)
      /\ \A k \in 0..B : q(k) \in Nat /\ q(k) <= V
  <2>1. q(0) = 1
    <3> DEFINE m == 2^B
    <3>1. m \in Nat \ {0} /\ m >= 4 /\ B - 0 = B
      BY <1>1, Register, ByteFacts
    <3>2. V = m + 2
      BY DEF EndValue
    <3> HIDE DEF m, V
    <3>3. V \in Int /\ V = m * 1 + 2 /\ 2 \in 0..(m - 1)
      BY <3>1, <3>2
    <3>4. V \div m = 1
      BY <3>1, <3>3, DivisionOnly
    <3> QED BY <3>1, <3>4 DEF m
  <2>2. q(B) = V
    <3>1. B - B = 0 /\ 2^0 = 1
      BY <1>1
    <3> HIDE DEF V
    <3>2. V \div 1 = V
      BY <1>1
    <3> QED BY <3>1, <3>2
  <2>3. ASSUME NEW k \in 1..B PROVE q(k) = 2 * q(k - 1) + ((V \div 2^(B - k)) % 2)
    <3> DEFINE m == 2^(B - k)
               x == V \div m
               y == x \div 2
    <3>1. B - k \in Nat /\ (B - k) + 1 = B - (k - 1)
      BY <1>1
    <3>2. m \in Nat \ {0} /\ 2^(B - (k - 1)) = 2 * m
      <4>1. 2^(B - k) \in Nat /\ 2^(B - k) >= 1 /\ 2^((B - k) + 1) = 2 * 2^(B - k)
        BY <3>1, PowerPositive, PowerNext
      <4> QED BY <3>1, <4>1
    <3> HIDE DEF m, V
    <3>3. V = (m * x) + (V % m) /\ x \in Int /\ V % m \in 0..(m - 1)
      <4>1. V \in Int /\ m \in Nat \ {0}
        BY <1>1, <3>2
      <4> QED BY <4>1, Division
    <3> DEFINE z == V % m
    <3> HIDE DEF x, z
    <3>4. x = (2 * y) + (x % 2) /\ y \in Int /\ x % 2 \in 0..(2 - 1)
      <4>1. x \in Int /\ 2 \in Nat \ {0}
        BY <3>3
      <4> QED BY <4>1, Division
    <3> DEFINE b == x % 2
    <3> HIDE DEF y, b
    <3>5. V = (2 * m) * y + (m * b + z) /\ m * b + z \in 0..(2 * m - 1) /\ 2 * m \in Nat \ {0}
      <4>1. V = m * x + z /\ z \in 0..(m - 1)
        BY <3>3 DEF z
      <4>2. x = 2 * y + b /\ b \in {0, 1}
        BY <3>4 DEF b
      <4>3. V = m * (2 * y + b) + z
        BY <4>1, <4>2
      <4>4. m * (2 * y + b) = (2 * m) * y + m * b
        BY <3>2, <3>4, <4>2
      <4>5. m * b \in {0, m}
        BY <3>2, <4>2
      <4>6. (2 * m) * y \in Int
        BY <3>2, <3>4
      <4> DEFINE u == (2 * m) * y
                 w == m * b
      <4>7. V = u + w + z /\ u \in Int /\ w \in {0, m} /\ z \in 0..(m - 1) /\ m \in Nat \ {0}
        BY <3>2, <4>1, <4>3, <4>4, <4>5, <4>6
      <4> HIDE DEF u, w
      <4>8. V = u + (w + z) /\ w + z \in 0..(2 * m - 1) /\ 2 * m \in Nat \ {0}
        BY <4>7
      <4> QED BY <4>8 DEF u, w
    <3>6. V \div (2 * m) = y
      <4> DEFINE k2 == 2 * m
                 rest == m * b + z
      <4>1. k2 \in Nat \ {0} /\ rest \in 0..(k2 - 1) /\ V = k2 * y + rest /\ V \in Int
        BY <1>1, <3>5
      <4> HIDE DEF k2, rest
      <4>2. V \div k2 = y
        BY <3>4, <4>1, DivisionOnly
      <4> QED BY <4>2 DEF k2
    <3>7. x = 2 * y + (x % 2)
      BY <3>4
    <3>8. q(k - 1) = y
      BY <3>2, <3>6
    <3> QED BY <3>7, <3>8 DEF x, m
  <2>4. ASSUME NEW k \in 0..B PROVE q(k) \in Nat /\ q(k) <= V
    <3> DEFINE m == 2^(B - k)
               x == V \div m
    <3>1. m \in Nat \ {0}
      <4>1. B - k \in Nat
        BY <1>1
      <4>2. 2^(B - k) \in Nat /\ 2^(B - k) >= 1
        BY <4>1, PowerPositive
      <4> QED BY <4>2
    <3> HIDE DEF m, V
    <3>2. V = (m * x) + (V % m) /\ x \in Nat /\ V % m \in 0..(m - 1)
      <4>1. V \in Int /\ V \in Nat /\ m \in Nat \ {0}
        BY <1>1, <3>1
      <4> QED BY <4>1, Division
    <3> HIDE DEF x
    <3>3. m * x >= x /\ m * x \in Nat
      BY <3>1, <3>2
    <3>4. x <= V
      BY <1>1, <3>2, <3>3
    <3> QED BY <3>2, <3>4 DEF x, m
  <2> QED BY <2>1, <2>2, <2>3, <2>4
<1>5. V <= GammaMax
  <2> DEFINE m == 2^B
  <2>1. m \in Nat /\ m >= 4 /\ 2^(B + 1) = 2 * m
    BY Register, ByteFacts
  <2>2. V = m + 2 /\ GammaMax = 2 * m
    BY <2>1 DEF EndValue, GammaMax
  <2> HIDE DEF m, V
  <2> QED BY <2>1, <2>2
<1> HIDE DEF q
<1>6. ASSUME NEW g, NEW k \in 1..B, Part(g, k - 1)
      PROVE  LET a == ReadBit(d, end, g.r)
                 s == ReadBit(d, end, a)
             IN  /\ s \in Readers(end) /\ s.bad = "" /\ 2 * g.v + a.v = q(k)
                 /\ s.v = IF k = B THEN 1 ELSE 0
                 /\ Ready(s, ev, pos, tag, L + 1 + 2 * k)
                 /\ k # B => Stands(s, pos, tag, L + 1 + 2 * k)
  <2> DEFINE a == ReadBit(d, end, g.r)
             s == ReadBit(d, end, a)
             i == L + 2 * k
             j == L + 1 + 2 * k
  <2>1. i \in 1..n /\ j \in 1..n /\ i - 1 = L + 1 + 2 * (k - 1) /\ j - 1 = i
    BY <1>1
  <2>2. /\ ev[i].bit = (V \div 2^(B - k)) % 2 /\ ev[i].bytes = <<>>
        /\ ev[j].bit = IF k = B THEN 1 ELSE 0
        /\ ev[j].bytes = IF k = B THEN <<2^B - 1>> ELSE <<>>
    BY DEF IsPacked
  <2> HIDE DEF i, j, n, V
  <2>3. g.r \in Readers(end) /\ Stands(g.r, pos, tag, i - 1) /\ g.v = q(k - 1)
    <3>1. Stands(g.r, pos, tag, i - 1)
      BY <1>6, <2>1
    <3> QED BY <1>6, <3>1 DEF Gammas
  <2>4. a \in Readers(end) /\ a.v = ev[i].bit /\ Ready(a, ev, pos, tag, i)
    BY <2>1, <2>3, BitIsRead DEF n
  <2> HIDE DEF a
  <2>5. Stands(a, pos, tag, i)
    BY <2>1, <2>2, <2>4, NoneIsRead DEF n
  <2>6. s \in Readers(end) /\ s.v = ev[j].bit /\ Ready(s, ev, pos, tag, j)
    <3>1. Stands(a, pos, tag, j - 1)
      BY <2>1, <2>5
    <3> QED BY <2>1, <2>4, <3>1, BitIsRead DEF n
  <2> HIDE DEF s
  <2>7. s.bad = ""
    BY <2>6 DEF Ready
  <2>8. k # B => Stands(s, pos, tag, j)
    BY <2>1, <2>2, <2>6, NoneIsRead DEF n
  <2>9. 2 * g.v + a.v = q(k)
    <3>1. q(k) = 2 * q(k - 1) + ((V \div 2^(B - k)) % 2)
      BY <1>4
    <3>2. a.v = (V \div 2^(B - k)) % 2 /\ g.v = q(k - 1)
      BY <2>2, <2>3, <2>4
    <3> QED BY <3>1, <3>2
  <2> QED BY <2>2, <2>6, <2>7, <2>8, <2>9 DEF a, s, j
<1>7. ASSUME NEW k \in 1..(B - 1), Part(f[k - 1], k - 1) PROVE Part(f[k], k)
  <2> DEFINE g == f[k - 1]
             a == ReadBit(d, end, g.r)
             s == ReadBit(d, end, a)
             v == 2 * g.v + a.v
             x == [r |-> s, v |-> v, go |-> TRUE]
  <2>1. k \in 1..B /\ k # B /\ k - 1 \in 0..(B + 2) /\ k \in 1..(B + 2) /\ k \in 0..B
    BY <1>1
  <2>2. s \in Readers(end) /\ s.bad = "" /\ v = q(k) /\ s.v = 0 /\ Stands(s, pos, tag, L + 1 + 2 * k)
    <3> HIDE DEF g, Part
    <3>1. Part(g, k - 1)
      BY <1>7 DEF g
    <3> QED BY <1>6, <2>1, <3>1
  <2>3. ~(v > GammaMax)
    <3> DEFINE w == q(k)
    <3>1. w \in Nat /\ w <= V
      BY <1>4, <2>1
    <3>2. GammaMax \in Nat
      BY Register DEF GammaMax
    <3> HIDE DEF w, V, v
    <3>3. ~(w > GammaMax)
      BY <1>1, <1>5, <3>1, <3>2
    <3> QED BY <2>2, <3>3 DEF w
  <2>4. GammaPass(d, end, g) = x
    <3> HIDE DEF g
    <3>1. GammaPass(d, end, g) =
            CASE s.bad # "" -> [r |-> s, v |-> v, go |-> FALSE]
              [] s.bad = "" /\ s.v = 1 -> [r |-> s, v |-> v, go |-> FALSE]
              [] s.bad = "" /\ s.v # 1 /\ v > GammaMax ->
                   [r |-> [s EXCEPT !.bad = "gamma"], v |-> v, go |-> FALSE]
              [] OTHER -> x
      BY DEF GammaPass
    <3> HIDE DEF s, v, x
    <3>2. s.bad = "" /\ s.v # 1
      <4>1. s.bad = "" /\ s.v = 0
        BY <2>2, Zenon
      <4>2. 0 # 1
        OBVIOUS
      <4> QED BY <4>1, <4>2, Zenon
    <3> QED BY <2>3, <3>1, <3>2
  <2>5. f[k] = x
    BY <1>3, <1>7, <2>1, <2>4
  <2>6. f[k] \in Gammas(end)
    <3>1. k \in 0..(B + 2)
      BY <1>1, <2>1
    <3> QED BY <1>3, <3>1
  <2> HIDE DEF s, v
  <2>7. x.r = s /\ x.v = v /\ x.go = TRUE
    OBVIOUS
  <2> HIDE DEF x
  <2> QED BY <2>2, <2>5, <2>6, <2>7
<1>8. Part(f[B - 1], B - 1)
  <2> DEFINE P == {k \in 0..(B - 1) : Part(f[k], k)}
  <2>1. 0 \in P
    <3>1. r.bad = "" /\ 0 \in 0..(B + 2) /\ L + 1 + 2 * 0 = L + 1 /\ 0 \in 0..(B - 1)
      <4>1. r.bad = ""
        BY DEF Stands
      <4> HIDE DEF L
      <4>2. B \in Nat /\ B >= 2 /\ L \in Nat
        BY <1>1
      <4>3. 0 \in 0..(B + 2) /\ L + 1 + 2 * 0 = L + 1 /\ 0 \in 0..(B - 1)
        BY <4>2
      <4> QED BY <4>1, <4>3
    <3>2. f[0].r = r /\ f[0].v = 1 /\ f[0].go = TRUE /\ f[0] \in Gammas(end)
      <4>1. f[0] \in Gammas(end)
        BY <1>3, <3>1
      <4>2. f[0] = [r |-> r, v |-> 1, go |-> TRUE]
        BY <1>3, <3>1
      <4> QED BY <4>1, <4>2
    <3>3. Part(f[0], 0)
      BY <1>4, <3>1, <3>2
    <3> QED BY <3>1, <3>3
  <2>2. ASSUME NEW k \in 1..(B - 1), k - 1 \in P PROVE k \in P
    <3>1. k \in 0..(B - 1)
      BY <1>1
    <3> HIDE DEF Part
    <3> QED BY <1>7, <2>2, <3>1
  <2>3. B - 1 \in Nat /\ B - 1 \in 0..(B - 1)
    BY <1>1
  <2>4. 0..(B - 1) \subseteq P
    <3> HIDE DEF P
    <3> QED BY <2>1, <2>2, <2>3, UpTo
  <2> HIDE DEF Part
  <2> QED BY <2>3, <2>4
<1> DEFINE g == f[B - 1]
           a == ReadBit(d, end, g.r)
           s == ReadBit(d, end, a)
           v == 2 * g.v + a.v
           x == [r |-> s, v |-> v, go |-> FALSE]
<1>9. /\ s \in Readers(end) /\ s.bad = "" /\ v = V /\ s.v = 1 /\ Ready(s, ev, pos, tag, n)
  <2>1. B \in 1..B /\ L + 1 + 2 * B = n
    BY <1>1
  <2>2. Part(g, B - 1)
    BY <1>8
  <2> HIDE DEF g, Part
  <2> QED BY <1>4, <1>6, <2>1, <2>2
<1>10. GammaPass(d, end, g) = x
  <2> HIDE DEF g
  <2>1. GammaPass(d, end, g) =
          CASE s.bad # "" -> x
            [] s.bad = "" /\ s.v = 1 -> x
            [] s.bad = "" /\ s.v # 1 /\ v > GammaMax ->
                 [r |-> [s EXCEPT !.bad = "gamma"], v |-> v, go |-> FALSE]
            [] OTHER -> [r |-> s, v |-> v, go |-> TRUE]
    BY DEF GammaPass
  <2> HIDE DEF s, v, x
  <2> QED BY <1>9, <2>1
<1>11. f[B + 2] = x
  <2>1. /\ B \in 1..(B + 2) /\ B + 1 \in 1..(B + 2) /\ B + 2 \in 1..(B + 2)
        /\ (B + 1) - 1 = B /\ (B + 2) - 1 = B + 1
    BY <1>1
  <2>2. f[B - 1].go = TRUE
    BY <1>8
  <2>3. f[B] = x
    BY <1>3, <1>10, <2>1, <2>2
  <2> HIDE DEF s, v
  <2>4. x.go = FALSE
    OBVIOUS
  <2> HIDE DEF x
  <2>5. f[B + 1] = f[B]
    <3>1. f[B + 1] = IF f[(B + 1) - 1].go THEN GammaPass(d, end, f[(B + 1) - 1]) ELSE f[(B + 1) - 1]
      BY <1>3, <2>1
    <3> QED BY <2>1, <2>3, <2>4, <3>1
  <2>6. f[B + 2] = f[B + 1]
    <3>1. f[B + 2] = IF f[(B + 2) - 1].go THEN GammaPass(d, end, f[(B + 2) - 1]) ELSE f[(B + 2) - 1]
      BY <1>3, <2>1
    <3> QED BY <2>1, <2>3, <2>4, <2>5, <3>1
  <2> QED BY <2>3, <2>5, <2>6
<1> DEFINE y == [s EXCEPT !.v = v]
<1>12. ReadGamma(d, end, r) = y
  <2>1. ReadGamma(d, end, r) = [f[B + 2].r EXCEPT !.v = f[B + 2].v]
    BY <1>2 DEF GammaPasses
  <2> HIDE DEF s, v
  <2>2. f[B + 2].r = s /\ f[B + 2].v = v
    BY <1>11
  <2> QED BY <2>1, <2>2
<1> HIDE DEF s, v, x
<1>13. s = [p |-> s.p, tag |-> s.tag, v |-> s.v, bad |-> s.bad]
  BY <1>9 DEF Readers
<1>14. y.p = s.p /\ y.tag = s.tag /\ y.v = v /\ y.bad = s.bad
  BY <1>13
<1>15. y \in Readers(end)
  BY <1>1, <1>9 DEF Readers
<1> HIDE DEF y
<1>16. Ready(y, ev, pos, tag, n)
  BY <1>9, <1>14 DEF Ready
<1>17. y \in Readers(end) /\ y.v = EndValue /\ Ready(y, ev, pos, tag, Len(ev))
  BY <1>9, <1>14, <1>15, <1>16
<1> HIDE DEF V, L, n, q
<1> QED BY <1>12, <1>17

(* A pass of the loop over a literal.                                      *)
LEMMA LiteralPassed ==
  ASSUME NEW d, NEW end, NEW ev, NEW pos, NEW tag, CarriesEvents(d, end, ev, pos, tag),
         NEW data \in Seq(Byte), IsPacked(ev, data), NEW i \in 1..Len(data),
         NEW u \in Unpackings(end), u.go = TRUE, Stands(u.r, pos, tag, i - 1)
  PROVE  LET x == UnpackPass(d, end, u)
         IN  x.go = TRUE /\ x.out = Append(u.out, data[i]) /\ Stands(x.r, pos, tag, i)
<1> DEFINE b == ReadBit(d, end, u.r)
           r == ReadByte(d, end, b)
           x == UnpackPass(d, end, u)
<1>1. /\ u.r \in Readers(end)
      /\ u = [r |-> u.r, out |-> u.out, last |-> u.last, go |-> u.go]
  BY DEF Unpackings
<1>2. i \in 1..Len(ev) /\ ev[i].bit = 1 /\ ev[i].bytes = <<data[i]>>
  <2>1. Len(ev) = Len(data) + 1 + 2 * B /\ Len(data) \in Nat /\ B \in Nat
    BY Widths, LenProperties DEF IsPacked
  <2>2. i \in 1..Len(ev)
    BY <2>1
  <2> QED BY <2>2 DEF IsPacked
<1>3. b \in Readers(end) /\ b.v = 1 /\ Ready(b, ev, pos, tag, i)
  BY <1>1, <1>2, BitIsRead
<1>4. b.bad = ""
  BY <1>3 DEF Ready
<1>5. x = UnpackLiteral(u, r)
  BY <1>3, <1>4 DEF UnpackPass
<1> HIDE DEF b
<1>6. r.v = data[i] /\ Stands(r, pos, tag, i)
  <2>1. Len(ev[i].bytes) = 1 /\ ev[i].bytes[1] = data[i]
    BY <1>2
  <2>2. i \in 1..Len(ev)
    BY <1>2
  <2>3. LET y == ReadByte(d, end, b)
        IN  y \in Readers(end) /\ y.v = ev[i].bytes[1] /\ Stands(y, pos, tag, i)
    <3>1. b \in Readers(end) /\ Ready(b, ev, pos, tag, i) /\ Len(ev[i].bytes) = 1
      BY <1>3, <2>1
    <3> QED BY <2>2, <3>1, ByteIsRead
  <2> QED BY <2>1, <2>3
<1> HIDE DEF r
<1>7. r.bad = ""
  BY <1>6 DEF Stands
<1>8. x = [u EXCEPT !.r = r, !.out = Append(@, r.v)]
  BY <1>5, <1>7 DEF UnpackLiteral
<1>9. x.r = r /\ x.out = Append(u.out, r.v) /\ x.go = u.go
  BY <1>1, <1>8
<1> HIDE DEF x
<1>10. x.go = TRUE /\ x.out = Append(u.out, data[i]) /\ Stands(x.r, pos, tag, i)
  BY <1>6, <1>9
<1> QED BY <1>10 DEF x

(* The pass over the end marker is the last one, at the end of the stream. *)
LEMMA EndPassed ==
  ASSUME NEW d, NEW end, NEW ev, NEW pos, NEW tag, CarriesEvents(d, end, ev, pos, tag),
         NEW data \in Seq(Byte), IsPacked(ev, data),
         NEW u \in Unpackings(end), Stands(u.r, pos, tag, Len(data))
  PROVE  LET x == UnpackPass(d, end, u)
         IN  x.go = FALSE /\ x.out = u.out /\ x.r.bad = "" /\ x.r.p = end + 1
<1> DEFINE L == Len(data)
           n == Len(ev)
           b == ReadBit(d, end, u.r)
           g == ReadGamma(d, end, b)
           c == ReadByte(d, end, g)
           m == Offset(d, end, g, u.last)
           x == UnpackPass(d, end, u)
           w == 2^B
           ww == 2^(2 * B)
           raw == (g.v * w + c.v) % ww
<1>1. /\ u.r \in Readers(end)
      /\ u = [r |-> u.r, out |-> u.out, last |-> u.last, go |-> u.go]
  BY DEF Unpackings
<1>2. /\ L + 1 \in 1..n /\ (L + 1) - 1 = L /\ n \in 1..n /\ n \in Nat /\ n # 0
      /\ ev[L + 1].bit = 0 /\ ev[L + 1].bytes = <<>>
      /\ ev[n].bytes = <<w - 1>>
  <2>1. n = L + 1 + 2 * B /\ L \in Nat /\ B \in Nat /\ B >= 2
    BY Widths, LenProperties DEF IsPacked
  <2>2. ev[L + 1].bit = 0 /\ ev[L + 1].bytes = <<>>
    BY DEF IsPacked
  <2>3. ev[L + 1 + 2 * B].bytes = <<w - 1>>
    <3>1. B \in 1..B
      BY <2>1
    <3> QED BY <3>1 DEF IsPacked
  <2>4. L + 1 \in 1..n /\ (L + 1) - 1 = L /\ n \in 1..n /\ n \in Nat /\ n # 0
    <3> HIDE DEF L, n
    <3> QED BY <2>1
  <2> QED BY <2>1, <2>2, <2>3, <2>4
<1> HIDE DEF n, L
<1>3. b \in Readers(end) /\ b.v = 0 /\ Ready(b, ev, pos, tag, L + 1)
  <2>1. Stands(u.r, pos, tag, (L + 1) - 1)
    BY <1>2 DEF L
  <2> QED BY <1>1, <1>2, <2>1, BitIsRead DEF n
<1>4. b.bad = ""
  BY <1>3 DEF Ready
<1>5. x = UnpackFrom(d, end, u, m)
  <2>1. b.v # 1
    <3>1. b.v = 0
      BY <1>3, Zenon
    <3>2. 0 # 1
      OBVIOUS
    <3> QED BY <3>1, <3>2, Zenon
  <2>2. x = CASE b.bad # "" -> [u EXCEPT !.r = b, !.go = FALSE]
              [] b.bad = "" /\ b.v = 1 -> UnpackLiteral(u, ReadByte(d, end, b))
              [] OTHER -> UnpackFrom(d, end, u, m)
    BY DEF UnpackPass
  <2> HIDE DEF b, m, x
  <2> QED BY <1>4, <2>1, <2>2
<1> HIDE DEF b
<1>6. g \in Readers(end) /\ g.v = EndValue /\ Ready(g, ev, pos, tag, n)
  <2>1. Stands(b, pos, tag, L + 1)
    BY <1>2, <1>3, NoneIsRead DEF n
  <2> QED BY <1>3, <2>1, EndValueRead DEF L, n
<1> HIDE DEF g
<1>7. c.v = w - 1 /\ Stands(c, pos, tag, n)
  <2>1. Len(ev[n].bytes) = 1 /\ ev[n].bytes[1] = w - 1
    <3> HIDE DEF w
    <3> QED BY <1>2
  <2>2. n \in 1..Len(ev)
    BY <1>2 DEF n
  <2> HIDE DEF w
  <2>3. LET y == ReadByte(d, end, g)
        IN  y \in Readers(end) /\ y.v = ev[n].bytes[1] /\ Stands(y, pos, tag, n)
    <3>1. g \in Readers(end) /\ Ready(g, ev, pos, tag, n) /\ Len(ev[n].bytes) = 1
      BY <1>6, <2>1
    <3> QED BY <2>2, <3>1, ByteIsRead
  <2> QED BY <2>1, <2>3
<1> HIDE DEF c
<1>8. /\ w \in Nat \ {0} /\ w >= 4 /\ ww = w * w /\ EndValue = w + 2 /\ Bias = 3 * w - 1
      /\ Reuse = 2
  BY Widths, ByteFacts DEF EndValue, Bias, Reuse
<1> HIDE DEF w, ww
<1>9. raw = Bias
  <2> DEFINE y == g.v * w + c.v
  <2>1. y = (w + 2) * w + (w - 1)
    BY <1>6, <1>7, <1>8
  <2>2. (w + 2) * w + (w - 1) = w * w + (3 * w - 1)
    BY <1>8
  <2>3. y = ww * 1 + (3 * w - 1) /\ ww \in Nat
    <3> HIDE DEF y
    <3>1. w * w \in Nat
      BY <1>8
    <3> QED BY <1>8, <2>1, <2>2, <3>1
  <2>4. 3 * w - 1 \in 0..(ww - 1) /\ ww \in Nat \ {0}
    <3>1. w * w >= 4 * w /\ w * w \in Nat
      BY <1>8
    <3> DEFINE z == w * w
    <3> HIDE DEF z
    <3>2. z >= 4 * w /\ z \in Nat /\ ww = z
      BY <1>8, <3>1 DEF z
    <3> QED BY <1>8, <3>2
  <2> HIDE DEF y
  <2>5. y \in Int
    BY <1>8, <2>3
  <2>6. y % ww = 3 * w - 1
    BY <2>3, <2>4, <2>5, DivisionOnly
  <2> QED BY <1>8, <2>6 DEF y
<1>10. g.v # Reuse
  <2>1. g.v = w + 2 /\ Reuse = 2 /\ w \in Nat \ {0}
    BY <1>6, <1>8
  <2> DEFINE y == g.v
  <2>2. y = w + 2 /\ Reuse = 2 /\ w \in Nat \ {0}
    BY <2>1
  <2> HIDE DEF y
  <2>3. y # Reuse
    BY <2>2
  <2> QED BY <2>3 DEF y
<1>11. c.bad = "" /\ c.p = 5 + pos[n]
  BY <1>7 DEF Stands
<1>12. m.r = c /\ m.end = TRUE
  <2>1. m = IF g.bad = "" /\ g.v = Reuse
              THEN [r |-> g, off |-> u.last, end |-> FALSE]
              ELSE [r |-> c, off |-> (raw - Bias) % ww, end |-> c.bad = "" /\ raw = Bias]
    BY DEF Offset, c, w, ww
  <2> DEFINE o == (raw - Bias) % ww
  <2> HIDE DEF raw, o
  <2>2. m = [r |-> c, off |-> o, end |-> c.bad = "" /\ raw = Bias]
    BY <1>10, <2>1 DEF o
  <2> DEFINE e == c.bad = "" /\ raw = Bias
  <2> HIDE DEF e
  <2>3. m.r = c /\ m.end = e
    <3>1. m = [r |-> c, off |-> o, end |-> e]
      BY <2>2 DEF e
    <3> HIDE DEF m
    <3> QED BY <3>1
  <2>4. e = TRUE
    BY <1>9, <1>11 DEF e
  <2> QED BY <2>3, <2>4
<1> HIDE DEF m
<1>13. x = [u EXCEPT !.r = m.r, !.go = FALSE]
  BY <1>5, <1>12 DEF UnpackFrom
<1>14. x.r = c /\ x.go = FALSE /\ x.out = u.out
  BY <1>1, <1>12, <1>13
<1>15. 5 + pos[n] = end + 1
  <2>1. end = 4 + pos[n] /\ pos \in [0..n -> Nat]
    BY DEF CarriesEvents, n
  <2>2. pos[n] \in Nat
    BY <1>2, <2>1
  <2> DEFINE y == pos[n]
  <2> HIDE DEF y
  <2>3. y \in Nat /\ end = 4 + y
    BY <2>1, <2>2 DEF y
  <2>4. 5 + y = end + 1
    BY <2>3
  <2> QED BY <2>4 DEF y
<1> HIDE DEF x
<1>16. x.go = FALSE /\ x.out = u.out /\ x.r.bad = "" /\ x.r.p = end + 1
  BY <1>11, <1>14, <1>15
<1> QED BY <1>16 DEF x

(* What is packed is read back, up to the end of the stream.               *)
LEMMA PackedIsRead ==
  ASSUME NEW d, NEW end, NEW ev, NEW pos, NEW tag, CarriesEvents(d, end, ev, pos, tag),
         NEW data \in Seq(Byte), IsPacked(ev, data)
  PROVE  LET u == Unpack(d, end, 5)
         IN  u.out = data /\ u.r.bad = "" /\ u.r.p = end + 1
<1> DEFINE L == Len(data)
           n == Len(ev)
           N == Passes(d)
           u == Unpack(d, end, 5)
           Out(s, i) == Len(s) = i /\ \A j \in 1..i : s[j] = data[j]
           Part(x, i) == x.go = TRUE /\ Out(x.out, i) /\ Stands(x.r, pos, tag, i)
           Done(x) == x.go = FALSE /\ Out(x.out, L) /\ x.r.bad = "" /\ x.r.p = end + 1
<1>1. /\ IsStream(d, end) /\ d \in Seq(Byte) /\ end \in Nat /\ end <= Len(d) /\ Len(d) \in Nat
      /\ pos \in [0..n -> Nat] /\ pos[0] = 0 /\ end = 4 + pos[n]
      /\ L \in Nat /\ B \in Nat /\ B >= 2 /\ n = L + 1 + 2 * B /\ n \in Nat
  <2>1. IsStream(d, end) /\ pos \in [0..n -> Nat] /\ pos[0] = 0 /\ end = 4 + pos[n]
    BY DEF CarriesEvents
  <2>2. d \in Seq(Byte) /\ end \in Nat /\ end <= Len(d) /\ Len(d) \in Nat
    BY <2>1, LenProperties DEF IsStream
  <2>3. L \in Nat /\ B \in Nat /\ B >= 2 /\ n = L + 1 + 2 * B
    BY Widths, LenProperties DEF IsPacked
  <2>4. n \in Nat
    <3> HIDE DEF L, n
    <3> QED BY <2>3
  <2> QED BY <2>1, <2>2, <2>3, <2>4
<1>2. \A i \in 1..n : 4 + pos[i] <= end /\ pos[i - 1] \in Nat /\ pos[i] \in Nat
  <2> TAKE i \in 1..n
  <2>1. i - 1 \in 0..n /\ i \in 0..n
    <3> HIDE DEF n
    <3> QED BY <1>1
  <2>2. 4 + pos[i] <= end
    BY DEF CarriesEvents
  <2> QED BY <1>1, <2>1, <2>2
<1>3. \A i \in 0..L : pos[i] >= i
  <2> DEFINE P == {i \in 0..L : pos[i] >= i}
  <2>1. 0 \in P
    BY <1>1
  <2>2. ASSUME NEW i \in 1..L, i - 1 \in P PROVE i \in P
    <3>1. i \in 1..n /\ i \in 0..L
      <4> HIDE DEF L, n
      <4> QED BY <1>1
    <3>2. Len(ev[i].bytes) = 1
      <4>1. ev[i].bytes = <<data[i]>>
        BY DEF IsPacked
      <4> QED BY <4>1
    <3>3. pos[i] = pos[i - 1] + 1 + Len(ev[i].bytes) \/ pos[i] = pos[i - 1] + Len(ev[i].bytes)
      BY <3>1 DEF CarriesEvents
    <3>4. pos[i - 1] \in Nat /\ pos[i] \in Nat /\ pos[i - 1] >= i - 1
      BY <1>2, <2>2, <3>1
    <3> DEFINE x == pos[i]
               y == pos[i - 1]
    <3>5. (x = y + 1 + 1 \/ x = y + 1) /\ x \in Nat /\ y \in Nat /\ y >= i - 1
      BY <3>2, <3>3, <3>4
    <3> HIDE DEF x, y
    <3>6. x >= i
      BY <3>5
    <3> QED BY <3>1, <3>6 DEF x
  <2>3. 0..L \subseteq P
    <3> HIDE DEF P
    <3> QED BY <1>1, <2>1, <2>2, UpTo
  <2> QED BY <2>3
<1>4. N \in Nat /\ L + 1 <= N /\ 5 \in 1..(end + 1)
  <2>1. L <= Len(d)
    <3>1. CASE L = 0
      BY <1>1, <3>1
    <3>2. CASE L # 0
      <4>1. L \in 1..n /\ L \in 0..L
        <5> HIDE DEF L, n
        <5> QED BY <1>1, <3>2
      <4>2. pos[L] >= L /\ 4 + pos[L] <= end /\ pos[L] \in Nat
        BY <1>2, <1>3, <4>1
      <4> DEFINE x == pos[L]
                 y == Len(d)
      <4>3. x >= L /\ 4 + x <= end /\ x \in Nat /\ end <= y /\ y \in Nat /\ end \in Nat /\ L \in Nat
        BY <1>1, <4>2
      <4> HIDE DEF x, y, L
      <4>4. L <= y
        BY <4>3
      <4> QED BY <4>4 DEF y
    <3> QED BY <3>1, <3>2
  <2> DEFINE y == Len(d)
  <2>2. N = B * y + 1 /\ y \in Nat /\ L <= y
    BY <1>1, <2>1 DEF Passes
  <2> HIDE DEF y, N, L
  <2>3. B * y >= y /\ B * y \in Nat
    BY <1>1, <2>2
  <2>4. N \in Nat /\ L + 1 <= N
    BY <1>1, <2>2, <2>3, SMTT(30)
  <2>5. 5 \in 1..(end + 1)
    <3>1. n \in 0..n
      BY <1>1
    <3>2. pos[n] \in Nat
      BY <1>1, <3>1
    <3> DEFINE x == pos[n]
    <3>3. x \in Nat /\ end = 4 + x
      BY <1>1, <3>2
    <3> HIDE DEF x
    <3> QED BY <3>3
  <2> QED BY <2>4, <2>5
<1>5. PICK f : UnpackLoop(f, d, end, 5) /\ Unpack(d, end, 5) = f[Passes(d)]
  BY <1>1, <1>4, Unpacked
<1>6. /\ f \in [0..N -> Unpackings(end)] /\ f[0] = AtStart(5) /\ u = f[N]
      /\ \A i \in 1..N : f[i] = IF f[i - 1].go THEN UnpackPass(d, end, f[i - 1]) ELSE f[i - 1]
  BY <1>5 DEF UnpackLoop
<1> HIDE DEF u, N, Out
<1>7. Part(f[0], 0)
  <2>1. f[0].r = Reader(5) /\ f[0].out = <<>> /\ f[0].go = TRUE
    BY <1>6 DEF AtStart
  <2>2. Stands(Reader(5), pos, tag, 0)
    <3>1. 5 + pos[0] = 5
      BY <1>1
    <3> QED BY <3>1 DEF Reader, Stands
  <2>3. Out(<<>>, 0)
    BY DEF Out
  <2> QED BY <2>1, <2>2, <2>3
<1>8. ASSUME NEW i \in 1..L, Part(f[i - 1], i - 1) PROVE Part(f[i], i)
  <2> DEFINE x == f[i - 1]
             y == UnpackPass(d, end, x)
  <2>1. i \in 1..N /\ i - 1 \in 0..N /\ i - 1 \in Nat /\ (i - 1) + 1 = i
    <3> HIDE DEF L
    <3> QED BY <1>1, <1>4
  <2>2. x \in Unpackings(end) /\ x.go = TRUE /\ Stands(x.r, pos, tag, i - 1) /\ Out(x.out, i - 1)
    BY <1>6, <1>8, <2>1
  <2>3. f[i] = y
    BY <1>6, <2>1, <2>2
  <2> HIDE DEF x
  <2>4. LET z == UnpackPass(d, end, x)
        IN  z.go = TRUE /\ z.out = Append(x.out, data[i]) /\ Stands(z.r, pos, tag, i)
    BY <2>2, LiteralPassed DEF L
  <2>5. y.go = TRUE /\ y.out = Append(x.out, data[i]) /\ Stands(y.r, pos, tag, i)
    BY <2>4
  <2>6. x.out \in Seq(Byte)
    BY <2>2 DEF Unpackings
  <2> DEFINE o == x.out
             e == data[i]
  <2>7. Out(Append(o, e), i)
    <3>1. o \in Seq(Byte) /\ Len(o) = i - 1 /\ \A j \in 1..(i - 1) : o[j] = data[j]
      BY <2>2, <2>6 DEF Out
    <3>2. e \in Byte
      BY ElementOfSeq DEF L
    <3> DEFINE a == Append(o, e)
    <3>3. a \in Seq(Byte) /\ Len(a) = i /\ a[i] = e /\ \A j \in 1..(i - 1) : a[j] = o[j]
      <4> HIDE DEF o, e
      <4>1. Len(o) + 1 = i
        BY <2>1, <3>1
      <4> QED BY <3>1, <3>2, <4>1, AppendProperties
    <3> HIDE DEF a, o
    <3>4. \A j \in 1..i : a[j] = data[j]
      <4> TAKE j \in 1..i
      <4>1. CASE j = i
        BY <3>3, <4>1
      <4>2. CASE j # i
        <5>1. j \in 1..(i - 1)
          BY <2>1, <4>2
        <5> QED BY <3>1, <3>3, <5>1
      <4> QED BY <4>1, <4>2
    <3>5. Out(a, i)
      BY <3>3, <3>4 DEF Out
    <3> QED BY <3>5 DEF a
  <2> HIDE DEF y, o
  <2> QED BY <2>3, <2>5, <2>7 DEF o
<1>9. Part(f[L], L)
  <2> DEFINE P == {i \in 0..L : Part(f[i], i)}
  <2>1. 0 \in P
    <3>1. 0 \in 0..L
      BY <1>1
    <3> QED BY <1>7, <3>1
  <2>2. ASSUME NEW i \in 1..L, i - 1 \in P PROVE i \in P
    <3>1. i \in 0..L
      BY <1>1
    <3> HIDE DEF Part
    <3> QED BY <1>8, <2>2, <3>1
  <2>3. 0..L \subseteq P
    <3> HIDE DEF P
    <3> QED BY <1>1, <2>1, <2>2, UpTo
  <2>4. L \in 0..L
    BY <1>1
  <2> HIDE DEF Part
  <2> QED BY <2>3, <2>4
<1>10. Done(f[L + 1])
  <2> DEFINE x == f[L]
             y == UnpackPass(d, end, x)
  <2>1. L + 1 \in 1..N /\ (L + 1) - 1 = L /\ L \in 0..N
    <3> HIDE DEF L
    <3> QED BY <1>1, <1>4
  <2>2. x \in Unpackings(end) /\ x.go = TRUE /\ Stands(x.r, pos, tag, L) /\ Out(x.out, L)
    BY <1>6, <1>9, <2>1
  <2>3. f[L + 1] = y
    BY <1>6, <2>1, <2>2
  <2> HIDE DEF x
  <2>4. LET z == UnpackPass(d, end, x)
        IN  z.go = FALSE /\ z.out = x.out /\ z.r.bad = "" /\ z.r.p = end + 1
    BY <2>2, EndPassed DEF L
  <2>5. y.go = FALSE /\ y.out = x.out /\ y.r.bad = "" /\ y.r.p = end + 1
    BY <2>4
  <2> HIDE DEF y
  <2> QED BY <2>2, <2>3, <2>5
<1>11. Done(f[N])
  <2> DEFINE P == {k \in 0..(N - (L + 1)) : Done(f[(L + 1) + k])}
             K == N - (L + 1)
  <2>1. K \in Nat /\ (L + 1) + 0 = L + 1 /\ 0 \in 0..K /\ (L + 1) + K = N /\ K \in 0..K
    <3> HIDE DEF L
    <3> QED BY <1>1, <1>4
  <2>2. 0 \in P
    <3> HIDE DEF Done
    <3> QED BY <1>10, <2>1
  <2>3. ASSUME NEW k \in 1..K, k - 1 \in P PROVE k \in P
    <3> DEFINE i == (L + 1) + k
    <3>1. i \in 1..N /\ i - 1 = (L + 1) + (k - 1) /\ k \in 0..K
      <4> HIDE DEF L
      <4> QED BY <1>1, <1>4
    <3>2. Done(f[i - 1])
      <4> HIDE DEF Done
      <4>1. Done(f[(L + 1) + (k - 1)])
        BY <2>3
      <4> QED BY <3>1, <4>1
    <3> HIDE DEF i
    <3>3. f[i - 1].go = FALSE
      BY <3>2
    <3>4. f[i] = f[i - 1]
      BY <1>6, <3>1, <3>3
    <3> HIDE DEF Done
    <3>5. Done(f[i])
      BY <3>2, <3>4
    <3> QED BY <3>1, <3>5 DEF i
  <2>4. 0..K \subseteq P
    <3> HIDE DEF P, K
    <3> QED BY <2>1, <2>2, <2>3, UpTo
  <2> HIDE DEF Done
  <2> QED BY <2>1, <2>4
<1>12. u.out = data
  <2>1. N \in 0..N
    BY <1>4
  <2>2. u.out \in Seq(Byte)
    BY <1>6, <2>1 DEF Unpackings
  <2>3. Len(u.out) = Len(data) /\ \A j \in 1..Len(u.out) : u.out[j] = data[j]
    BY <1>6, <1>11 DEF Out
  <2> QED BY <2>2, <2>3, SeqEqual
<1>13. u.r.bad = "" /\ u.r.p = end + 1
  BY <1>6, <1>11
<1> QED BY <1>12, <1>13 DEF u

-----------------------------------------------------------------------------
(* A header and what follows it.                                           *)
LEMMA HeadedFacts ==
  ASSUME NEW n \in Nat, NEW w \in Word, NEW data \in Seq(Byte)
  PROVE  LET d == WordBytes(n) \o WordBytes(w) \o data
         IN  /\ d \in Seq(Nat) /\ Len(d) = 4 + Len(data)
             /\ n \in Word => d \in Seq(Byte)
             /\ WordAt(d, 1) = n /\ WordAt(d, 3) = w
             /\ \A q \in 1..Len(data) : d[4 + q] = data[q]
             /\ SubSeq(d, 5, 4 + Len(data)) = data
<1> DEFINE a == WordBytes(n)
           b == WordBytes(w)
           u == a \o b
           d == u \o data
<1>1. Len(data) \in Nat /\ w \in Nat /\ data \in Seq(Nat)
  BY LenProperties, ByteFacts, SeqMonotonic
<1>2. a \in Seq(Nat) /\ Len(a) = 2 /\ b \in Seq(Nat) /\ Len(b) = 2 /\ b \in Seq(Byte)
      /\ (n \in Word => a \in Seq(Byte))
  BY <1>1, WordBytesFacts
<1> HIDE DEF a, b
<1>4. u \in Seq(Nat) /\ Plus2(u, a, b, 2) /\ (n \in Word => u \in Seq(Byte))
  <2>1. 2 \in Nat
    OBVIOUS
  <2>2. u \in Seq(Nat) /\ Plus2(u, a, b, 2)
    BY <1>2, <2>1, TwoMore
  <2>3. n \in Word => u \in Seq(Byte)
    BY <1>2, Appended
  <2> QED BY <2>2, <2>3
<1> HIDE DEF u
<1>5. d \in Seq(Nat) /\ IsJoin(d, u, data) /\ (n \in Word => d \in Seq(Byte))
  <2>1. d \in Seq(Nat) /\ IsJoin(d, u, data)
    BY <1>1, <1>4, Appended
  <2>2. n \in Word => d \in Seq(Byte)
    BY <1>4, Appended
  <2> QED BY <2>1, <2>2
<1> HIDE DEF d
<1>6. Len(u) = 4 /\ u[1] = a[1] /\ u[2] = a[2] /\ u[3] = b[1] /\ u[4] = b[2]
  BY <1>4 DEF Plus2
<1>7. Len(d) = 4 + Len(data) /\ d[1] = a[1] /\ d[2] = a[2] /\ d[3] = b[1] /\ d[4] = b[2]
      /\ \A q \in 1..Len(data) : d[4 + q] = data[q]
  BY <1>1, <1>5, <1>6 DEF IsJoin
<1>8. WordAt(d, 0 + 1) = n
  <2>1. d[0 + 1] = WordBytes(n)[1] /\ d[0 + 2] = WordBytes(n)[2]
    BY <1>7 DEF a
  <2> QED BY <1>1, <2>1, WordLies
<1>9. WordAt(d, 2 + 1) = w
  <2>1. d[2 + 1] = WordBytes(w)[1] /\ d[2 + 2] = WordBytes(w)[2]
    BY <1>7 DEF b
  <2> QED BY <1>1, <2>1, WordLies
<1>10. SubSeq(d, 5, 4 + Len(data)) = data
  <2> DEFINE m == 4 + Len(data)
             v == SubSeq(d, 5, m)
  <2>1. m \in Nat /\ 5 <= m + 1 /\ m <= Len(d) /\ m = 4 + Len(data) /\ 5 \in Nat \ {0}
    BY <1>1, <1>7
  <2> HIDE DEF m
  <2>2. v \in Seq(Nat) /\ Len(v) = m - 5 + 1 /\ \A q \in 1..(m - 5 + 1) : v[q] = d[5 - 1 + q]
    BY <1>5, <2>1, Cut
  <2> HIDE DEF v
  <2>3. Len(v) = Len(data)
    BY <1>1, <2>1, <2>2
  <2>4. \A q \in 1..Len(data) : q \in 1..(m - 5 + 1) /\ 5 - 1 + q = 4 + q
    BY <1>1, <2>1
  <2>5. \A q \in 1..Len(v) : v[q] = data[q]
    BY <1>7, <2>2, <2>3, <2>4
  <2>6. v = data
    BY <1>1, <2>2, <2>3, <2>5, SeqEqual
  <2> QED BY <2>6 DEF v, m
<1>11. WordBytes(n) \o WordBytes(w) \o data = d
  BY DEF d, u, a, b
<1> QED BY <1>5, <1>7, <1>8, <1>9, <1>10, <1>11

(* What the codec does to data: what reads a packed section gives bytes,   *)
(* whatever it is given, and gives data back from what was packed of it, as*)
(* far as the length of that can be written down.                          *)
Keeps(data) ==
  /\ Classify(data).kind = "packed" => DepackSection(data).out \in Seq(Byte)
  /\ PackSection(data) \in Seq(Nat)
  /\ Len(PackSection(data)) \in Word =>
       /\ PackSection(data) \in Seq(Byte) /\ Classify(PackSection(data)).kind = "packed"
       /\ DepackSection(PackSection(data)).ok /\ DepackSection(PackSection(data)).out = data

KeepsAll == \A data \in Seq(Byte) : Keeps(data)

(* A stream with a header carries its events.                              *)
LEMMA FramedCarries ==
  ASSUME NEW ev \in Seq(Events), ev # <<>>, NEW d \in Seq(Byte),
         Len(d) = 4 + Len(Assemble(ev)),
         \A q \in 1..Len(Assemble(ev)) : d[4 + q] = Assemble(ev)[q]
  PROVE  \E pos, tag : CarriesEvents(d, 4 + Len(Assemble(ev)), ev, pos, tag)
<1> DEFINE body == Assemble(ev)
           l == Len(body)
           end == 4 + l
           n == Len(ev)
<1>1. body \in Seq(Byte) /\ \E pos, tag : Placed(ev, body, pos, tag)
  BY Assembled
<1>2. PICK pos, tag : Placed(ev, body, pos, tag)
  BY <1>1
<1>3. l \in Nat /\ n \in Nat
  BY <1>1, LenProperties
<1>4. \A q \in 1..l : d[4 + q] = body[q]
  OBVIOUS
<1> HIDE DEF body
<1>5. /\ pos \in [0..n -> Nat] /\ pos[0] = 0 /\ pos[n] = l
      /\ tag \in [1..n -> Byte]
      /\ \A i \in 1..n :
           /\ pos[i] <= l
           /\ (tag[i] \div 2^(B - 1 - PlaceIn(i, B))) % 2 = ev[i].bit
           /\ PlaceIn(i, B) = 0 => /\ pos[i] = pos[i - 1] + 1 + Len(ev[i].bytes)
                                   /\ body[pos[i - 1] + 1] = tag[i]
           /\ PlaceIn(i, B) # 0 => /\ pos[i] = pos[i - 1] + Len(ev[i].bytes)
                                   /\ tag[i] = tag[i - 1]
           /\ \A x \in 1..Len(ev[i].bytes) : body[(pos[i] - Len(ev[i].bytes)) + x] = ev[i].bytes[x]
  BY <1>2 DEF Placed
<1>6. IsStream(d, end)
  <2>1. end \in Nat /\ end <= Len(d)
    <3> DEFINE y == Len(d)
    <3>1. y = 4 + l
      BY DEF body
    <3> HIDE DEF y, l
    <3>2. end \in Nat /\ end <= y
      BY <1>3, <3>1
    <3> QED BY <3>2 DEF y
  <2> QED BY <2>1 DEF IsStream
<1>7. ASSUME NEW i \in 1..n
      PROVE  /\ 4 + pos[i] <= end
             /\ PlaceIn(i, B) = 0 => d[5 + pos[i - 1]] = tag[i]
             /\ \A x \in 1..Len(ev[i].bytes) : d[4 + pos[i] - Len(ev[i].bytes) + x] = ev[i].bytes[x]
  <2> DEFINE k == Len(ev[i].bytes)
             p == pos[i]
             o == pos[i - 1]
  <2>1. k \in Nat /\ p \in Nat /\ o \in Nat /\ p <= l
    <3>1. ev[i] \in Events
      BY ElementOfSeq
    <3>2. k \in Nat
      BY <3>1, LenProperties DEF Events
    <3>3. i \in 0..n /\ i - 1 \in 0..n
      BY <1>3
    <3>4. p \in Nat /\ o \in Nat /\ p <= l
      BY <1>5, <3>3
    <3> QED BY <3>2, <3>4
  <2>2. (PlaceIn(i, B) = 0 => p = o + 1 + k /\ body[o + 1] = tag[i])
        /\ (PlaceIn(i, B) # 0 => p = o + k)
    BY <1>5
  <2>3. \A x \in 1..k : body[(p - k) + x] = ev[i].bytes[x]
    BY <1>5
  <2> HIDE DEF k, p, o, l
  <2>4. 4 + p <= end
    BY <1>3, <2>1
  <2>5. PlaceIn(i, B) = 0 => d[5 + o] = tag[i]
    <3> SUFFICES ASSUME PlaceIn(i, B) = 0 PROVE d[5 + o] = tag[i]
      OBVIOUS
    <3>1. p = o + 1 + k /\ body[o + 1] = tag[i]
      BY <2>2
    <3>2. o + 1 \in 1..l /\ 4 + (o + 1) = 5 + o
      BY <1>3, <2>1, <3>1
    <3>3. d[4 + (o + 1)] = body[o + 1]
      BY <1>4, <3>2
    <3> QED BY <3>1, <3>2, <3>3
  <2>6. ASSUME NEW x \in 1..k PROVE d[4 + p - k + x] = ev[i].bytes[x]
    <3>1. p >= k
      BY <2>1, <2>2
    <3>2. (p - k) + x \in 1..l /\ 4 + ((p - k) + x) = 4 + p - k + x
      BY <1>3, <2>1, <3>1
    <3>3. d[4 + ((p - k) + x)] = body[(p - k) + x]
      BY <1>4, <3>2
    <3> QED BY <2>3, <3>2, <3>3
  <2> QED BY <2>4, <2>5, <2>6 DEF k, p, o
<1>8. end = 4 + pos[n]
  BY <1>5
<1>9. CarriesEvents(d, end, ev, pos, tag)
  BY <1>5, <1>6, <1>7, <1>8 DEF CarriesEvents, n
<1> QED BY <1>9 DEF end, l, body

(* aplib.pack_section and elz.depack_section: whatever a section holds,    *)
(* what is packed of it is read back as what it was.                       *)
THEOREM CodecKeeps == KeepsAll
<1> SUFFICES ASSUME NEW data \in Seq(Byte) PROVE Keeps(data)
  BY DEF KeepsAll
<1> DEFINE ev == Literals(data) \o Terminator
           body == Assemble(ev)
           l == Len(body)
           sum == Sum(body)
           s == PackSection(data)
<1>1. IsPacked(ev, data) /\ ev \in Seq(Events) /\ ev # <<>>
  <2>1. IsPacked(ev, data)
    BY PackedEvents
  <2> HIDE DEF ev
  <2>2. ev \in Seq(Events) /\ Len(ev) = Len(data) + 1 + 2 * B
    BY <2>1 DEF IsPacked
  <2>3. Len(ev) # 0
    <3> DEFINE x == Len(data)
               y == Len(ev)
    <3>1. y = x + 1 + 2 * B /\ x \in Nat /\ B \in Nat
      BY <2>2, Widths, LenProperties
    <3> HIDE DEF x, y
    <3>2. y # 0
      BY <3>1
    <3> QED BY <3>2 DEF y
  <2>4. ev # <<>>
    BY <2>3
  <2> QED BY <2>1, <2>2, <2>4
<1> HIDE DEF ev
<1>2. body \in Seq(Byte) /\ l \in Nat
  BY <1>1, Assembled, LenProperties
<1> HIDE DEF body
<1>3. sum \in Word
  <2>1. body \in [1..l -> Int]
    <3>1. \A i \in 1..l : body[i] \in Int
      <4> TAKE i \in 1..l
      <4>1. body[i] \in Byte
        BY <1>2, ElementOfSeq
      <4>2. \A x \in Byte : x \in Nat
        BY ByteFacts
      <4>3. body[i] \in Nat
        BY <4>1, <4>2
      <4> QED BY <4>3
    <3>2. body \in [1..l -> Byte]
      BY <1>2
    <3>3. body = [i \in 1..l |-> body[i]]
      BY <3>2
    <3> QED BY <3>1, <3>3
  <2>2. SumTo(l, 2^(2 * B), body) \in Word
    <3> HIDE DEF l
    <3> QED BY <1>2, <2>1, SumIsWord
  <2> QED BY <2>2 DEF Sum
<1>4. s = WordBytes(l) \o WordBytes(sum) \o body
  BY DEF PackSection, Framed, ev, body
<1> HIDE DEF s, sum
<1>5. /\ s \in Seq(Nat) /\ Len(s) = 4 + l
      /\ l \in Word => s \in Seq(Byte)
      /\ WordAt(s, 1) = l /\ WordAt(s, 3) = sum
      /\ \A q \in 1..l : s[4 + q] = body[q]
      /\ SubSeq(s, 5, 4 + l) = body
  <2>1. LET d == WordBytes(l) \o WordBytes(sum) \o body
        IN  /\ d \in Seq(Nat) /\ Len(d) = 4 + Len(body)
            /\ l \in Word => d \in Seq(Byte)
            /\ WordAt(d, 1) = l /\ WordAt(d, 3) = sum
            /\ \A q \in 1..Len(body) : d[4 + q] = body[q]
            /\ SubSeq(d, 5, 4 + Len(body)) = body
    <3> HIDE DEF l
    <3> QED BY <1>2, <1>3, HeadedFacts, Zenon
  <2> QED BY <1>4, <2>1
<1>6. ASSUME Len(s) \in Word
      PROVE  /\ s \in Seq(Byte) /\ Classify(s).kind = "packed"
             /\ DepackSection(s).ok /\ DepackSection(s).out = data
  <2>1. l \in Word
    <3> DEFINE k == 2^(2 * B)
    <3>1. k \in Nat /\ Word = 0..(k - 1)
      BY Widths DEF Word
    <3> HIDE DEF k, l
    <3>2. 4 + l \in 0..(k - 1)
      BY <1>5, <1>6, <3>1
    <3> QED BY <1>2, <3>1, <3>2
  <2>2. s \in Seq(Byte)
    BY <1>5, <2>1
  <2>3. Classify(s).kind = "packed"
    <3>1. Len(s) >= 4 /\ l + 4 <= Len(s) /\ 4 + l = l + 4
      <4> DEFINE y == Len(s)
      <4>1. y = 4 + l
        BY <1>5
      <4> HIDE DEF y, l
      <4>2. y >= 4 /\ l + 4 <= y /\ 4 + l = l + 4
        BY <1>2, <4>1
      <4> QED BY <4>2 DEF y
    <3>2. Sum(SubSeq(s, 5, 4 + l)) = WordAt(s, 3)
      BY <1>5 DEF sum
    <3>3. Classify(s) = [kind |-> "packed", data |-> s]
      <4> HIDE DEF l
      <4> QED BY <1>5, <3>1, <3>2 DEF Classify
    <3> QED BY <3>3
  <2> DEFINE end == 4 + l
             u == Unpack(s, end, 5)
  <2>4. PICK pos, tag : CarriesEvents(s, end, ev, pos, tag)
    BY <1>1, <1>5, <2>2, FramedCarries DEF body
  <2>5. u.out = data /\ u.r.bad = "" /\ u.r.p = end + 1
    <3> HIDE DEF end
    <3> QED BY <1>1, <2>4, PackedIsRead
  <2>6. DepackSection(s) =
          CASE u.r.bad # "" -> Failed(u.r.bad)
            [] u.r.bad = "" /\ u.r.p # end + 1 -> Failed("length")
            [] OTHER -> [ok |-> TRUE, why |-> "", out |-> u.out, p |-> u.r.p]
    BY <1>5 DEF DepackSection
  <2> HIDE DEF u, end
  <2>7. DepackSection(s) = [ok |-> TRUE, why |-> "", out |-> u.out, p |-> u.r.p]
    BY <2>5, <2>6
  <2>8. DepackSection(s).ok /\ DepackSection(s).out = data
    <3> DEFINE x == DepackSection(s)
               o == u.out
               p == u.r.p
    <3>1. x = [ok |-> TRUE, why |-> "", out |-> o, p |-> p]
      BY <2>7
    <3> HIDE DEF x, o, p
    <3>2. x.ok /\ x.out = o
      BY <3>1
    <3> QED BY <2>5, <3>2 DEF x, o
  <2> QED BY <2>2, <2>3, <2>8
<1>7. Classify(data).kind = "packed" => DepackSection(data).out \in Seq(Byte)
  BY DepackTyped
<1> QED BY <1>5, <1>6, <1>7 DEF Keeps, s

-----------------------------------------------------------------------------
(* Sections as they are stored.                                            *)

(* extract.classify gives bytes.                                           *)
LEMMA ClassifyTyped ==
  ASSUME NEW s \in Seq(Byte)
  PROVE  /\ Classify(s).kind \in {"packed", "raw"}
         /\ Classify(s).data \in Seq(Byte)
         /\ Classify(s).kind = "packed" => Classify(s).data = s
<1> DEFINE n == WordAt(s, 1)
           u == SubSeq(s, 5, Len(s))
           c1 == Len(s) >= 4 /\ n + 4 <= Len(s) /\ Sum(SubSeq(s, 5, 4 + n)) = WordAt(s, 3)
           c2 == Len(s) >= 4 /\ WordAt(s, 3) = 0
<1>1. Classify(s) = IF c1 THEN [kind |-> "packed", data |-> s]
                    ELSE IF c2 THEN [kind |-> "raw", data |-> u]
                    ELSE [kind |-> "raw", data |-> s]
  BY DEF Classify
<1>2. c2 => u \in Seq(Byte)
  <2> SUFFICES ASSUME Len(s) >= 4 PROVE u \in Seq(Byte)
    OBVIOUS
  <2>1. 5 \in Nat \ {0} /\ Len(s) \in Nat /\ 5 <= Len(s) + 1 /\ Len(s) <= Len(s)
    OBVIOUS
  <2> DEFINE m == Len(s)
             v == SubSeq(s, 5, m)
  <2>2. m \in Nat /\ 5 <= m + 1 /\ m <= Len(s)
    BY <2>1
  <2> HIDE DEF m
  <2>3. v \in Seq(Byte)
    BY <2>1, <2>2, Cut
  <2> QED BY <2>3 DEF m
<1> HIDE DEF c1, c2, u
<1> QED BY <1>1, <1>2

(* What is extracted is bytes.                                             *)
LEMMA ExtractedTyped ==
  ASSUME NEW s \in Seq(Byte) PROVE Extracted(s).out \in Seq(Byte)
<1>1. CASE Classify(s).kind = "packed"
  <2>1. Extracted(s) = DepackSection(s)
    BY <1>1, ClassifyTyped DEF Extracted
  <2>2. DepackSection(s).out \in Seq(Byte)
    BY <1>1, CodecKeeps DEF KeepsAll, Keeps
  <2> QED BY <2>1, <2>2
<1>2. CASE Classify(s).kind # "packed"
  <2> DEFINE u == Classify(s).data
             x == Extracted(s)
  <2>1. x.out = u
    BY <1>2 DEF Extracted
  <2>2. u \in Seq(Byte)
    BY ClassifyTyped
  <2> HIDE DEF u, x
  <2>3. x.out \in Seq(Byte)
    BY <2>1, <2>2
  <2> QED BY <2>3 DEF x
<1> QED BY <1>1, <1>2

(* Section 4 as it is stored: its length, no sum, the data.                *)
LEMMA HeaderedFacts ==
  ASSUME NEW data \in Seq(Byte)
  PROVE  LET d == StoreForSection(4, data)
         IN  /\ d \in Seq(Nat) /\ Len(d) = 4 + Len(data)
             /\ Len(data) \in Word => d \in Seq(Byte)
             /\ WordAt(d, 1) = Len(data) /\ WordAt(d, 3) = 0
             /\ SubSeq(d, 5, Len(d)) = data
<1>1. Len(data) \in Nat /\ 0 \in Word
  BY LenProperties, ByteFacts
<1>2. StoreForSection(4, data) = WordBytes(Len(data)) \o WordBytes(0) \o data
  BY DEF StoreForSection, Packed
<1> DEFINE l == Len(data)
           d == WordBytes(l) \o WordBytes(0) \o data
<1>3. /\ d \in Seq(Nat) /\ Len(d) = 4 + Len(data)
      /\ l \in Word => d \in Seq(Byte)
      /\ WordAt(d, 1) = l /\ WordAt(d, 3) = 0
      /\ SubSeq(d, 5, 4 + Len(data)) = data
  <2>1. l \in Nat
    BY <1>1
  <2>2. LET x == WordBytes(l) \o WordBytes(0) \o data
        IN  /\ x \in Seq(Nat) /\ Len(x) = 4 + Len(data)
            /\ l \in Word => x \in Seq(Byte)
            /\ WordAt(x, 1) = l /\ WordAt(x, 3) = 0
            /\ \A q \in 1..Len(data) : x[4 + q] = data[q]
            /\ SubSeq(x, 5, 4 + Len(data)) = data
    <3> HIDE DEF l
    <3> QED BY <1>1, <2>1, HeadedFacts, Zenon
  <2> QED BY <2>2
<1> HIDE DEF d
<1> QED BY <1>2, <1>3 DEF d, l

(* What is stored is numbers, and bytes if its length is a word.           *)
LEMMA StoreTyped ==
  ASSUME NEW id \in 2..5, NEW data \in Seq(Byte)
  PROVE  /\ StoreForSection(id, data) \in Seq(Nat)
         /\ Len(StoreForSection(id, data)) \in Word => StoreForSection(id, data) \in Seq(Byte)
<1>1. CASE id \in {2, 3}
  <2>1. StoreForSection(id, data) = PackSection(data)
    BY <1>1 DEF StoreForSection, Packed
  <2> QED BY <2>1, CodecKeeps DEF KeepsAll, Keeps
<1>2. CASE id = 4
  <2> DEFINE d == StoreForSection(4, data)
  <2>1. /\ d \in Seq(Nat) /\ Len(d) = 4 + Len(data)
        /\ (Len(data) \in Word => d \in Seq(Byte))
    BY HeaderedFacts
  <2> HIDE DEF d
  <2>2. Len(d) \in Word => Len(data) \in Word
    <3> DEFINE m == 2^(2 * B)
    <3>1. m \in Nat /\ Word = 0..(m - 1) /\ Len(data) \in Nat
      BY Widths, LenProperties DEF Word
    <3> HIDE DEF m
    <3> QED BY <2>1, <3>1
  <2> QED BY <1>2, <2>1, <2>2 DEF d
<1>3. CASE id = 5
  <2>1. StoreForSection(id, data) = data
    BY <1>3 DEF StoreForSection, Packed
  <2> QED BY <2>1, ByteFacts, SeqMonotonic
<1> QED BY <1>1, <1>2, <1>3

(* What is stored is read back, when classify can tell what it is.         *)
LEMMA StoreKept ==
  ASSUME NEW id \in 2..5, NEW data \in Seq(Byte), Plain(id, data),
         Len(StoreForSection(id, data)) \in Word
  PROVE  /\ Extracted(StoreForSection(id, data)).ok
         /\ Extracted(StoreForSection(id, data)).out = data
<1>1. CASE id \in {2, 3}
  <2> DEFINE d == PackSection(data)
  <2>1. StoreForSection(id, data) = d
    BY <1>1 DEF StoreForSection, Packed
  <2>2. d \in Seq(Byte) /\ Classify(d).kind = "packed" /\ DepackSection(d).ok /\ DepackSection(d).out = data
    BY <2>1, CodecKeeps DEF KeepsAll, Keeps
  <2> HIDE DEF d
  <2>3. Extracted(d) = DepackSection(d)
    BY <2>2, ClassifyTyped DEF Extracted
  <2> QED BY <2>1, <2>2, <2>3
<1>2. CASE id = 4
  <2> DEFINE d == StoreForSection(4, data)
  <2>1. /\ d \in Seq(Nat) /\ Len(d) = 4 + Len(data)
        /\ WordAt(d, 1) = Len(data) /\ WordAt(d, 3) = 0 /\ SubSeq(d, 5, Len(d)) = data
    BY HeaderedFacts
  <2>2. Sum(data) # 0
    BY <1>2 DEF Plain, Packed
  <2> HIDE DEF d
  <2>3. Classify(d) = [kind |-> "raw", data |-> data]
    <3> DEFINE n == WordAt(d, 1)
               u == SubSeq(d, 5, Len(d))
               c1 == Len(d) >= 4 /\ n + 4 <= Len(d) /\ Sum(SubSeq(d, 5, 4 + n)) = WordAt(d, 3)
               c2 == Len(d) >= 4 /\ WordAt(d, 3) = 0
    <3>1. Classify(d) = IF c1 THEN [kind |-> "packed", data |-> d]
                        ELSE IF c2 THEN [kind |-> "raw", data |-> u]
                        ELSE [kind |-> "raw", data |-> d]
      BY DEF Classify
    <3>2. Len(data) \in Nat /\ Len(d) >= 4
      BY <2>1, LenProperties
    <3>3. SubSeq(d, 5, 4 + n) = data
      BY <2>1
    <3>4. ~c1
      <4> HIDE DEF n
      <4>1. Sum(SubSeq(d, 5, 4 + n)) = Sum(data)
        BY <3>3
      <4> QED BY <2>1, <2>2, <4>1
    <3>5. c2 /\ u = data
      BY <2>1, <3>2
    <3> HIDE DEF c1, c2, u
    <3> QED BY <3>1, <3>4, <3>5
  <2>4. Extracted(d).ok /\ Extracted(d).out = data
    BY <2>3 DEF Extracted
  <2> QED BY <1>2, <2>4 DEF d
<1>3. CASE id = 5
  <2>1. StoreForSection(id, data) = data
    BY <1>3 DEF StoreForSection, Packed
  <2>2. Classify(data) = [kind |-> "raw", data |-> data]
    BY <1>3 DEF Plain, Packed
  <2> DEFINE d == StoreForSection(id, data)
             x == Extracted(d)
  <2>3. x.ok /\ x.out = data
    BY <2>1, <2>2 DEF Extracted
  <2> HIDE DEF x
  <2> QED BY <2>3 DEF x
<1> QED BY <1>1, <1>2, <1>3

-----------------------------------------------------------------------------
(* Files made of four sections.                                            *)

Ids == 2..5

Ordered(es) == es[1].id = 5 /\ es[2].id = 2 /\ es[3].id = 4 /\ es[4].id = 3

(* What is in a file: its header, its sections, and what it is framed like.*)
IsMade(f, h, es, fr) ==
  /\ Storable(h, es, 4) /\ Ordered(es) /\ FramedAs(fr)
  /\ f = Finished(BuildContainer(h, es), fr)

(* Each section has a place of its own.                                    *)
LEMMA Slots ==
  ASSUME NEW es, Ordered(es)
  PROVE  /\ \A i \in 1..4 : es[i].id \in Ids
         /\ \A i, j \in 1..4 : es[i].id = es[j].id => i = j
         /\ \A id \in Ids : \E i \in 1..4 : es[i].id = id
<1>1. \A i \in 1..4 : i = 1 \/ i = 2 \/ i = 3 \/ i = 4
  OBVIOUS
<1>2. 1 \in 1..4 /\ 2 \in 1..4 /\ 3 \in 1..4 /\ 4 \in 1..4
  OBVIOUS
<1>3. \A i \in 1..4 : es[i].id \in Ids
  BY <1>1 DEF Ordered, Ids
<1>4. \A i, j \in 1..4 : es[i].id = es[j].id => i = j
  <2> SUFFICES ASSUME NEW i \in 1..4, NEW j \in 1..4, es[i].id = es[j].id PROVE i = j
    OBVIOUS
  <2>1. CASE i = 1
    BY <1>1, <2>1 DEF Ordered
  <2>2. CASE i = 2
    BY <1>1, <2>2 DEF Ordered
  <2>3. CASE i = 3
    BY <1>1, <2>3 DEF Ordered
  <2>4. CASE i = 4
    BY <1>1, <2>4 DEF Ordered
  <2> QED BY <1>1, <2>1, <2>2, <2>3, <2>4
<1>5. \A id \in Ids : id = 5 \/ id = 2 \/ id = 4 \/ id = 3
  BY DEF Ids
<1>6. \A id \in Ids : \E i \in 1..4 : es[i].id = id
  BY <1>2, <1>5 DEF Ordered
<1> QED BY <1>3, <1>4, <1>6

(* What a made file is read as.                                            *)
LEMMA MadeFacts ==
  ASSUME NEW f, NEW h, NEW es, NEW fr, IsMade(f, h, es, fr)
  PROVE  LET c == BuildContainer(h, es)
         IN  /\ c \in Seq(Byte) /\ Len(c) >= TrailerLen /\ Fits(c) /\ Len(c) % 2 = 0
             /\ Sections(ContainerOf(f)) = es
             /\ SubSeq(ContainerOf(f), 1, HeaderLen) = h
             /\ es \in [1..4 -> Entry] /\ h \in Seq(Byte) /\ Len(h) = HeaderLen
             /\ \A i \in 1..4 : /\ es[i].id \in Ids /\ es[i].id \in Word /\ es[i].dest \in Word
                                /\ es[i].dest \in Nat /\ es[i].data \in Seq(Byte)
             /\ TableOff + EntrySz * 4 <= TableArea
             /\ FramedAs(f)
<1>1. Storable(h, es, 4) /\ Ordered(es) /\ FramedAs(fr) /\ f = Finished(BuildContainer(h, es), fr)
  BY DEF IsMade
<1>2. fr.start.device \in Nat
  BY <1>1 DEF FramedAs, IsFraming
<1> DEFINE c == BuildContainer(h, es)
<1>3. /\ c \in Seq(Byte) /\ Len(c) >= TrailerLen /\ Fits(c) /\ Len(c) % 2 = 0
      /\ Sections(ContainerOf(f)) = es
      /\ SubSeq(ContainerOf(f), 1, HeaderLen) = h
  BY <1>1, <1>2, FinishedSections
<1>4. /\ es \in [1..4 -> Entry] /\ h \in Seq(Byte) /\ Len(h) = HeaderLen
      /\ TableOff + EntrySz * 4 <= TableArea
      /\ \A i \in 1..4 : es[i].id \in Word /\ es[i].dest \in Word /\ es[i].data \in Seq(Byte)
  BY <1>1 DEF Storable, Layable
<1> HIDE DEF c
<1>5. FramedAs(f)
  BY <1>1, <1>3, FinishedMessages DEF c
<1>6. \A i \in 1..4 : es[i].id \in Ids
  BY <1>1, Slots
<1>7. \A i \in 1..4 : es[i].dest \in Nat
  BY <1>4 DEF Entry
<1> QED BY <1>3, <1>4, <1>5, <1>6, <1>7 DEF c

(* What is extracted from a file that was made.                            *)
LEMMA MadeRead ==
  ASSUME NEW f, NEW h, NEW es, NEW fr, IsMade(f, h, es, fr)
  PROVE  /\ DOMAIN Contents(f) = Ids /\ Images(f) \in [Ids -> Seq(Byte)]
         /\ \A i \in 1..4 : /\ Contents(f)[es[i].id] = Extracted(es[i].data)
                            /\ Images(f)[es[i].id] = Extracted(es[i].data).out
<1>1. /\ Sections(ContainerOf(f)) = es /\ es \in [1..4 -> Entry]
      /\ \A i \in 1..4 : es[i].data \in Seq(Byte)
  BY MadeFacts
<1>2. /\ \A i \in 1..4 : es[i].id \in Ids
      /\ \A i, j \in 1..4 : es[i].id = es[j].id => i = j
      /\ \A id \in Ids : \E i \in 1..4 : es[i].id = id
  BY Slots DEF IsMade
<1> DEFINE ids == {es[i].id : i \in DOMAIN es}
           place(id) == CHOOSE i \in DOMAIN es : es[i].id = id
           c == [id \in ids |-> Extracted(es[place(id)].data)]
<1>3. Contents(f) = c
  BY <1>1 DEF Contents
<1>4. DOMAIN es = 1..4 /\ ids = Ids
  <2>1. DOMAIN es = 1..4
    BY <1>1
  <2> QED BY <2>1, <1>2
<1>5. \A i \in 1..4 : place(es[i].id) = i
  BY <1>2, <1>4
<1> HIDE DEF place
<1>6. \A i \in 1..4 : c[es[i].id] = Extracted(es[i].data)
  BY <1>2, <1>4, <1>5
<1>7. DOMAIN c = Ids
  BY <1>4
<1> HIDE DEF c
<1>8. Images(f) = [id \in Ids |-> c[id].out]
  BY <1>3, <1>7 DEF Images
<1>9. \A i \in 1..4 : Images(f)[es[i].id] = Extracted(es[i].data).out
  BY <1>2, <1>6, <1>8
<1>10. \A id \in Ids : c[id].out \in Seq(Byte)
  <2> TAKE id \in Ids
  <2>1. PICK i \in 1..4 : es[i].id = id
    BY <1>2
  <2>2. es[i].data \in Seq(Byte) /\ c[id] = Extracted(es[i].data)
    BY <1>1, <1>6, <2>1
  <2> QED BY <2>2, ExtractedTyped
<1> QED BY <1>3, <1>6, <1>7, <1>8, <1>9, <1>10

-----------------------------------------------------------------------------
(* Sections read, replaced and stored again.                               *)
NewData(es, reps, i) ==
  IF es[i].id \in DOMAIN reps THEN reps[es[i].id] ELSE Extracted(es[i].data).out

NewEntries(es, reps) ==
  [i \in 1..4 |-> [id |-> es[i].id, dest |-> es[i].dest,
                   data |-> StoreForSection(es[i].id, NewData(es, reps, i))]]

(* A file whose sections are replaced is one that was made.                *)
LEMMA RepackedMade ==
  ASSUME NEW f, NEW h, NEW es, NEW fr, IsMade(f, h, es, fr),
         NEW reps, \A id \in DOMAIN reps : reps[id] \in Seq(Byte)
  PROVE  LET d == Repacked(f, reps)
             new == NewEntries(es, reps)
         IN  /\ d = BuildContainer(h, new)
             /\ \A i \in 1..4 : /\ NewData(es, reps, i) \in Seq(Byte)
                                /\ new[i].id = es[i].id
                                /\ new[i].data = StoreForSection(es[i].id, NewData(es, reps, i))
             /\ Fits(d) => /\ IsMade(Finished(d, f), h, new, f)
                           /\ \A i \in 1..4 : Len(new[i].data) \in Word
<1> DEFINE d == Repacked(f, reps)
           new == NewEntries(es, reps)
<1>1. /\ Sections(ContainerOf(f)) = es /\ SubSeq(ContainerOf(f), 1, HeaderLen) = h
      /\ es \in [1..4 -> Entry] /\ h \in Seq(Byte) /\ Len(h) = HeaderLen
      /\ TableOff + EntrySz * 4 <= TableArea /\ FramedAs(f)
      /\ \A i \in 1..4 : /\ es[i].id \in Ids /\ es[i].id \in Word /\ es[i].dest \in Word
                         /\ es[i].dest \in Nat /\ es[i].data \in Seq(Byte)
  BY MadeFacts
<1>2. d = BuildContainer(h, new)
  <2>1. Len(es) = 4
    BY <1>1
  <2>2. \A i \in 1..4 :
          (IF es[i].id \in DOMAIN reps THEN reps[es[i].id] ELSE Extracted(es[i].data).out)
            = NewData(es, reps, i)
    BY DEF NewData
  <2> QED BY <1>1, <2>1, <2>2 DEF Repacked, NewEntries, NewData
<1>3. \A i \in 1..4 : NewData(es, reps, i) \in Seq(Byte)
  BY <1>1, ExtractedTyped DEF NewData
<1>4. \A i \in 1..4 : /\ new[i].id = es[i].id /\ new[i].dest = es[i].dest
                      /\ new[i].data = StoreForSection(es[i].id, NewData(es, reps, i))
  BY DEF NewEntries
<1>5. \A i \in 1..4 : /\ new[i].data \in Seq(Nat)
                      /\ Len(new[i].data) \in Word => new[i].data \in Seq(Byte)
  <2> TAKE i \in 1..4
  <2> DEFINE id == es[i].id
             data == NewData(es, reps, i)
  <2>1. id \in 2..5 /\ data \in Seq(Byte) /\ new[i].data = StoreForSection(id, data)
    BY <1>1, <1>3, <1>4 DEF Ids
  <2> HIDE DEF id, data
  <2> QED BY <2>1, StoreTyped
<1>6. new \in [1..4 -> Entry]
  <2>1. \A i \in 1..4 : es[i].id \in Nat
    <3>1. Ids \subseteq Nat
      BY DEF Ids
    <3>2. \A i \in 1..4 : es[i].id \in Ids
      BY <1>1
    <3> QED BY <3>1, <3>2
  <2>2. \A i \in 1..4 : new[i] = [id |-> es[i].id, dest |-> es[i].dest, data |-> new[i].data]
    BY DEF NewEntries
  <2>3. \A i \in 1..4 : new[i] \in Entry
    <3> TAKE i \in 1..4
    <3> DEFINE u == new[i].data
               e == [id |-> es[i].id, dest |-> es[i].dest, data |-> u]
    <3>1. u \in Seq(Nat) /\ es[i].id \in Nat /\ es[i].dest \in Nat /\ new[i] = e
      BY <1>1, <1>5, <2>1, <2>2
    <3> HIDE DEF u, new
    <3>2. e \in Entry
      BY <3>1 DEF Entry
    <3> QED BY <3>1, <3>2
  <2>4. new = [i \in 1..4 |-> new[i]]
    BY DEF NewEntries
  <2> HIDE DEF new
  <2> QED BY <2>3, <2>4
<1> HIDE DEF new
<1>7. ASSUME Fits(d)
      PROVE  /\ IsMade(Finished(d, f), h, new, f)
             /\ \A i \in 1..4 : Len(new[i].data) \in Word
  <2>1. Layable(h, new, 4)
    BY <1>1, <1>6 DEF Layable
  <2>2. d \in Seq(Nat) /\ \A i \in 1..4 : Len(new[i].data) <= Len(d)
    BY <1>2, <2>1, ContainerBuilt
  <2>3. \A i \in 1..4 : Len(new[i].data) \in Word
    <3> DEFINE m == 2^(2 * B)
    <3>1. m \in Nat /\ Word = 0..(m - 1)
      BY Widths DEF Word
    <3>2. Len(d) \in Word
      BY <1>7 DEF Fits
    <3> HIDE DEF m, d
    <3> TAKE i \in 1..4
    <3>3. Len(new[i].data) \in Nat
      BY <1>5, LenProperties
    <3> QED BY <2>2, <3>1, <3>2, <3>3, SMTT(30)
  <2>4. \A i \in 1..4 : new[i].data \in Seq(Byte)
    BY <1>5, <2>3
  <2>5. Ordered(new)
    BY <1>4 DEF IsMade, Ordered
  <2>6. Storable(h, new, 4)
    BY <1>1, <1>2, <1>4, <1>7, <2>1, <2>4 DEF Storable
  <2> QED BY <1>1, <1>2, <2>3, <2>5, <2>6 DEF IsMade
<1> QED BY <1>2, <1>3, <1>4, <1>7 DEF new

-----------------------------------------------------------------------------
(* Any chain of downloads, extractions, patches and builds.                *)

(* Sections hold what is asked for, in the form it is stored in.           *)
Kept(es, a) ==
  \A i \in 1..4 : Plain(es[i].id, a[es[i].id]) =>
    Extracted(es[i].data).ok /\ Extracted(es[i].data).out = a[es[i].id]

AsStored(es, a) ==
  \A i \in 1..4 : Plain(es[i].id, a[es[i].id]) =>
    es[i].data = StoreForSection(es[i].id, a[es[i].id])

Officials == {Official(s) : s \in Stock}

Holds(f, a) ==
  \E h, es, fr : /\ IsMade(f, h, es, fr) /\ Kept(es, a)
                 /\ f \in Officials \/ AsStored(es, a)

(* The file in hand was made of four sections that hold what is asked for, *)
(* stored as the tools store it unless the file is an official one.        *)
CodecInv ==
  /\ Holds(file, asked)
  /\ asked \in [Ids -> Seq(Byte)]
  /\ dir = [marker |-> dir.marker, images |-> dir.images]
  /\ DOMAIN dir.images \subseteq Ids
  /\ dir.images \in [DOMAIN dir.images -> Seq(Byte)]

(* An official file is made of its sections, which hold what they should.  *)
LEMMA OfficialMade ==
  ASSUME NEW s \in Stock
  PROVE  /\ Contained(s) \in [Ids -> Seq(Byte)] /\ Holds(Official(s), Contained(s))
<1> DEFINE es == OfficialEntries(s)
           a == Contained(s)
           framing == [device |-> s.device, k |-> s.device, count |-> Base128(0)]
           fr == [start |-> framing, end |-> framing]
           c == BuildContainer(s.magic, es)
           u == StoreForSection(4, s.updater)
<1>1. /\ s.device \in Nat /\ s.magic \in Seq(Byte) /\ Len(s.magic) = HeaderLen
      /\ s.updater \in Seq(Byte) /\ s.meta \in Seq(Byte)
      /\ s.boot.stored \in Seq(Byte) /\ s.boot.holds \in Seq(Byte)
      /\ s.main.stored \in Seq(Byte) /\ s.main.holds \in Seq(Byte)
      /\ Extracted(s.boot.stored).ok /\ Extracted(s.boot.stored).out = s.boot.holds
      /\ Extracted(s.main.stored).ok /\ Extracted(s.main.stored).out = s.main.holds
      /\ Fits(c)
  BY FirmwareAssumption
<1>2. a[2] = s.boot.holds /\ a[3] = s.main.holds /\ a[4] = s.updater /\ a[5] = s.meta
  BY DEF Contained
<1>3. a \in [Ids -> Seq(Byte)]
  <2>1. DOMAIN a = Ids /\ a = [id \in Ids |-> a[id]]
    BY DEF Contained, Ids
  <2> HIDE DEF a
  <2>2. \A id \in Ids : a[id] \in Seq(Byte)
    <3>1. \A id \in Ids : id = 2 \/ id = 3 \/ id = 4 \/ id = 5
      BY DEF Ids
    <3> QED BY <1>1, <1>2, <3>1
  <2> QED BY <2>1, <2>2
<1> HIDE DEF a
<1>4. u \in Seq(Nat) /\ (Len(u) \in Word => u \in Seq(Byte)) /\ Len(u) \in Nat
  <2>1. u \in Seq(Nat) /\ (Len(u) \in Word => u \in Seq(Byte))
    BY <1>1, StoreTyped
  <2> QED BY <2>1, LenProperties
<1> HIDE DEF u
<1>5. /\ es[1] = [id |-> 5, dest |-> 0, data |-> s.meta]
      /\ es[2] = [id |-> 2, dest |-> 17, data |-> s.boot.stored]
      /\ es[3] = [id |-> 4, dest |-> 3, data |-> u]
      /\ es[4] = [id |-> 3, dest |-> 200, data |-> s.main.stored]
      /\ es = [i \in 1..4 |-> es[i]]
  BY DEF OfficialEntries, u
<1> HIDE DEF es
<1>6. Ordered(es)
  BY <1>5 DEF Ordered
<1>7. Layable(s.magic, es, 4)
  <2>1. s.meta \in Seq(Nat) /\ s.boot.stored \in Seq(Nat) /\ s.main.stored \in Seq(Nat)
    BY <1>1, ByteFacts, SeqMonotonic
  <2>2. es[1] \in Entry
    BY <1>5, <2>1 DEF Entry
  <2>3. es[2] \in Entry
    BY <1>5, <2>1 DEF Entry
  <2>4. es[3] \in Entry
    BY <1>4, <1>5 DEF Entry
  <2>5. es[4] \in Entry
    BY <1>5, <2>1 DEF Entry
  <2>6. es \in [1..4 -> Entry]
    <3>1. \A i \in 1..4 : i = 1 \/ i = 2 \/ i = 3 \/ i = 4
      OBVIOUS
    <3>2. \A i \in 1..4 : es[i] \in Entry
      BY <2>2, <2>3, <2>4, <2>5, <3>1
    <3> QED BY <1>5, <3>2
  <2>7. TableOff + EntrySz * 4 <= TableArea
    BY FirmwareAssumption, ContainerAssumption DEF TableOff, EntrySz, CountOff, HeaderLen
  <2> QED BY <1>1, <2>6, <2>7 DEF Layable
<1>8. Len(u) \in Word
  <2> DEFINE m == 2^(2 * B)
  <2>1. m \in Nat /\ Word = 0..(m - 1)
    BY Widths DEF Word
  <2>2. Len(c) \in Word
    BY <1>1 DEF Fits
  <2>3. Len(es[3].data) <= Len(c)
    BY <1>7, ContainerBuilt
  <2> HIDE DEF m, c
  <2>4. Len(u) <= Len(c)
    BY <1>5, <2>3
  <2> QED BY <1>4, <2>1, <2>2, <2>4
<1>9. Storable(s.magic, es, 4)
  <2>1. 0 \in Word /\ 2 \in Word /\ 3 \in Word /\ 4 \in Word /\ 5 \in Word /\ 17 \in Word /\ 200 \in Word
    <3> DEFINE m == 2^(2 * B)
    <3>1. m \in Nat /\ Word = 0..(m - 1) /\ 200 \in Word
      BY Widths, FirmwareAssumption DEF Word
    <3> HIDE DEF m
    <3> QED BY <3>1
  <2>2. \A i \in 1..4 : i = 1 \/ i = 2 \/ i = 3 \/ i = 4
    OBVIOUS
  <2>3. \A i \in 1..4 : es[i].id \in Word /\ es[i].dest \in Word
    BY <1>5, <2>1, <2>2
  <2>4. \A i \in 1..4 : es[i].data \in Seq(Byte)
    BY <1>1, <1>4, <1>5, <1>8, <2>2
  <2> QED BY <1>1, <1>7, <2>3, <2>4 DEF Storable
<1>10. FramedAs(fr)
  <2> DEFINE b == Base128(0)
  <2>1. b \in Seq(Nat)
    BY Base128Typed
  <2> HIDE DEF b
  <2>2. framing = [device |-> s.device, k |-> s.device, count |-> b]
    BY DEF b
  <2>3. IsFraming(framing)
    BY <1>1, <2>1, <2>2 DEF IsFraming
  <2> HIDE DEF framing
  <2>4. fr.start = framing /\ fr.end = framing
    OBVIOUS
  <2> QED BY <2>3, <2>4 DEF FramedAs
<1>11. Official(s) = Finished(c, fr)
  BY DEF Official, es
<1> HIDE DEF fr, c
<1>12. IsMade(Official(s), s.magic, es, fr)
  BY <1>6, <1>9, <1>10, <1>11 DEF IsMade, c
<1>13. Kept(es, a)
  <2> DEFINE P(i) == Plain(es[i].id, a[es[i].id]) =>
                       /\ Extracted(es[i].data).ok
                       /\ Extracted(es[i].data).out = a[es[i].id]
  <2>1. P(2) /\ P(4)
    BY <1>1, <1>2, <1>5
  <2>2. P(3)
    <3>1. es[3].id = 4 /\ a[4] = s.updater /\ es[3].data = u
      BY <1>2, <1>5
    <3>2. ASSUME Plain(4, s.updater)
          PROVE  Extracted(u).ok /\ Extracted(u).out = s.updater
      <4>1. 4 \in 2..5 /\ Len(StoreForSection(4, s.updater)) \in Word
        BY <1>8 DEF u
      <4> QED BY <1>1, <3>2, <4>1, StoreKept DEF u
    <3> QED BY <3>1, <3>2
  <2>3. P(1)
    <3>1. es[1].id = 5 /\ a[5] = s.meta /\ es[1].data = s.meta
      BY <1>2, <1>5
    <3>2. ASSUME Plain(5, s.meta)
          PROVE  Extracted(s.meta).ok /\ Extracted(s.meta).out = s.meta
      <4>1. StoreForSection(5, s.meta) = s.meta
        BY DEF StoreForSection, Packed
      <4>2. Len(s.meta) \in Word
        <5> DEFINE m == 2^(2 * B)
        <5>1. m \in Nat /\ Word = 0..(m - 1)
          BY Widths DEF Word
        <5>2. Len(c) \in Word /\ Len(s.meta) \in Nat
          BY <1>1, LenProperties DEF Fits
        <5>3. Len(es[1].data) <= Len(c)
          BY <1>7, ContainerBuilt DEF c
        <5> HIDE DEF m
        <5> QED BY <3>1, <5>1, <5>2, <5>3
      <4>3. 5 \in 2..5 /\ Len(StoreForSection(5, s.meta)) \in Word
        BY <4>1, <4>2
      <4> DEFINE v == StoreForSection(5, s.meta)
      <4>4. Extracted(v).ok /\ Extracted(v).out = s.meta
        BY <1>1, <3>2, <4>3, StoreKept
      <4>5. v = s.meta
        BY <4>1
      <4> HIDE DEF v
      <4> QED BY <4>4, <4>5
    <3> QED BY <3>1, <3>2
  <2> HIDE DEF P
  <2>4. \A i \in 1..4 : P(i)
    <3>1. \A i \in 1..4 : i = 1 \/ i = 2 \/ i = 3 \/ i = 4
      OBVIOUS
    <3> QED BY <2>1, <2>2, <2>3, <3>1
  <2> QED BY <2>4 DEF P, Kept
<1>14. Holds(Official(s), a)
  BY <1>12, <1>13 DEF Holds, Officials
<1> QED BY <1>3, <1>14 DEF a

(* An image patched is an image.                                           *)
LEMMA PatchedTyped ==
  ASSUME NEW image \in Seq(Byte), NEW edits \in Edits
  PROVE  Patched(image, edits) \in Seq(Byte)
<1>1. Len(image) \in Nat /\ \A i \in 1..Len(image) : image[i] \in Byte
  BY LenProperties
<1> DEFINE In(e, i) == i \in e.at .. (e.at + Len(e.old) - 1)
           New(i) == LET e == CHOOSE e \in edits : In(e, i) IN  e.new[i - e.at + 1]
           p == [i \in 1..Len(image) |-> IF \E e \in edits : In(e, i) THEN New(i) ELSE image[i]]
<1>2. Patched(image, edits) = p
  BY DEF Patched
<1>3. ASSUME NEW i \in 1..Len(image), \E e \in edits : In(e, i) PROVE New(i) \in Byte
  <2> DEFINE e == CHOOSE e \in edits : In(e, i)
  <2>1. e \in edits /\ In(e, i)
    BY <1>3
  <2> HIDE DEF e
  <2>2. /\ e.at \in Nat \ {0} /\ e.old \in Seq(Byte) /\ e.new \in Seq(Byte)
        /\ Len(e.new) = Len(e.old)
    BY <2>1, FirmwareAssumption
  <2>3. i - e.at + 1 \in 1..Len(e.new)
    <3> DEFINE l == Len(e.old)
               pos == e.at
    <3>1. l \in Nat /\ pos \in Nat \ {0} /\ i \in Nat /\ i \in pos .. (pos + l - 1)
      BY <1>1, <2>1, <2>2, LenProperties
    <3> HIDE DEF l, pos
    <3>2. i - pos + 1 \in 1..l
      BY <3>1
    <3> QED BY <2>2, <3>2 DEF l, pos
  <2>4. e.new[i - e.at + 1] \in Byte
    BY <2>2, <2>3
  <2> QED BY <2>4 DEF e
<1> HIDE DEF In, New
<1>4. p \in [1..Len(image) -> Byte]
  BY <1>1, <1>3
<1> HIDE DEF p
<1>5. p \in Seq(Byte)
  BY <1>1, <1>4
<1> QED BY <1>2, <1>5

(* What is built from sections holds what was asked for them.              *)
LEMMA BuiltHolds ==
  ASSUME NEW f, NEW h, NEW es, NEW fr, IsMade(f, h, es, fr),
         NEW reps, \A id \in DOMAIN reps : reps[id] \in Seq(Byte),
         NEW a \in [Ids -> Seq(Byte)],
         \A i \in 1..4 : Plain(es[i].id, a[es[i].id]) => NewData(es, reps, i) = a[es[i].id],
         Fits(Repacked(f, reps))
  PROVE  Holds(Finished(Repacked(f, reps), f), a)
<1> DEFINE d == Repacked(f, reps)
           new == NewEntries(es, reps)
<1>1. /\ \A i \in 1..4 : /\ NewData(es, reps, i) \in Seq(Byte) /\ new[i].id = es[i].id
                         /\ new[i].data = StoreForSection(es[i].id, NewData(es, reps, i))
      /\ IsMade(Finished(d, f), h, new, f)
      /\ \A i \in 1..4 : Len(new[i].data) \in Word
  BY RepackedMade
<1>2. \A i \in 1..4 : es[i].id \in 2..5
  BY Slots DEF IsMade, Ids
<1> HIDE DEF new, d
<1>3. AsStored(new, a)
  BY <1>1 DEF AsStored
<1>4. Kept(new, a)
  <2> SUFFICES ASSUME NEW i \in 1..4, Plain(new[i].id, a[new[i].id])
               PROVE  /\ Extracted(new[i].data).ok
                      /\ Extracted(new[i].data).out = a[new[i].id]
    BY DEF Kept
  <2> DEFINE id == es[i].id
             data == a[id]
             v == StoreForSection(id, data)
  <2>1. new[i].id = id /\ NewData(es, reps, i) = data /\ Plain(id, data)
    BY <1>1
  <2>2. new[i].data = v /\ Len(v) \in Word
    BY <1>1, <2>1
  <2>3. id \in 2..5 /\ data \in Seq(Byte)
    BY <1>2 DEF Ids
  <2> HIDE DEF id, data
  <2>4. Extracted(v).ok /\ Extracted(v).out = data
    BY <2>1, <2>2, <2>3, StoreKept
  <2> HIDE DEF v
  <2>5. a[new[i].id] = data
    BY <2>1 DEF data
  <2> QED BY <2>2, <2>4, <2>5
<1> QED BY <1>1, <1>3, <1>4 DEF Holds, d

(* Official files come first.                                              *)
LEMMA CodecInit == FileInit => CodecInv
<1> SUFFICES ASSUME FileInit PROVE CodecInv
  OBVIOUS
<1>1. PICK s \in Stock : file = Official(s) /\ asked = Contained(s)
  BY DEF FileInit
<1>2. asked \in [Ids -> Seq(Byte)] /\ Holds(file, asked)
  BY <1>1, OfficialMade
<1>3. dir = [marker |-> dir.marker, images |-> dir.images] /\ DOMAIN dir.images = {}
  BY DEF FileInit, Empty
<1>4. dir.images \in [DOMAIN dir.images -> Seq(Byte)]
  <2>1. <<>> \in [DOMAIN <<>> -> Seq(Byte)]
    OBVIOUS
  <2> QED BY <2>1 DEF FileInit, Empty
<1> QED BY <1>2, <1>3, <1>4 DEF CodecInv

(* No step breaks what files are made of.                                  *)
LEMMA CodecNext ==
  ASSUME CodecInv, [FileNext]_fileVars
  PROVE  CodecInv'
<1>1. PICK h, es, fr : /\ IsMade(file, h, es, fr) /\ Kept(es, asked)
                       /\ file \in Officials \/ AsStored(es, asked)
  BY DEF CodecInv, Holds
<1>2. /\ DOMAIN Contents(file) = Ids /\ Images(file) \in [Ids -> Seq(Byte)]
      /\ \A i \in 1..4 : Images(file)[es[i].id] = Extracted(es[i].data).out
  BY <1>1, MadeRead
<1>3. /\ \A i \in 1..4 : es[i].id \in Ids
      /\ Sections(ContainerOf(file)) = es
  BY <1>1, MadeFacts
<1>4. /\ asked \in [Ids -> Seq(Byte)] /\ Holds(file, asked)
      /\ dir = [marker |-> dir.marker, images |-> dir.images]
      /\ DOMAIN dir.images \subseteq Ids
      /\ dir.images \in [DOMAIN dir.images -> Seq(Byte)]
  BY DEF CodecInv
<1>5. ASSUME NEW s \in Stock, Download(s) PROVE CodecInv'
  <2>1. file' = Official(s) /\ asked' = Contained(s) /\ UNCHANGED dir
    BY <1>5 DEF Download
  <2>2. asked' \in [Ids -> Seq(Byte)] /\ Holds(file', asked')
    BY <2>1, OfficialMade
  <2> QED BY <1>4, <2>1, <2>2 DEF CodecInv
<1>6. CASE ExtractSections
  <2>1. dir' = [marker |-> file, images |-> Images(file)] /\ UNCHANGED <<file, asked>>
    BY <1>6 DEF ExtractSections
  <2> DEFINE im == Images(file)
  <2>2. dir'.images = im /\ dir'.marker = file
    BY <2>1
  <2>3. DOMAIN im = Ids /\ im \in [Ids -> Seq(Byte)]
    BY <1>2
  <2> HIDE DEF im
  <2>4. dir' = [marker |-> dir'.marker, images |-> dir'.images]
    BY <2>1, <2>2 DEF im
  <2> QED BY <1>4, <2>1, <2>2, <2>3, <2>4 DEF CodecInv
<1>7. ASSUME NEW k \in Cuts, ExtractCut(k) PROVE CodecInv'
  <2> DEFINE done == {es[i].id : i \in 1..k}
             im == [id \in done \cup DOMAIN dir.images |->
                      IF id \in done THEN Images(file)[id] ELSE dir.images[id]]
  <2>1. dir' = [dir EXCEPT !.images = im] /\ UNCHANGED <<file, asked>>
    BY <1>3, <1>7 DEF ExtractCut
  <2>2. done \subseteq Ids
    <3>1. k \in 0..4
      BY FirmwareAssumption
    <3>2. \A i \in 1..k : i \in 1..4
      BY <3>1
    <3> QED BY <1>3, <3>2
  <2> HIDE DEF done
  <2>3. DOMAIN im \subseteq Ids /\ im \in [DOMAIN im -> Seq(Byte)]
    BY <1>2, <1>4, <2>2
  <2> HIDE DEF im
  <2>4. dir' = [marker |-> dir.marker, images |-> im]
    BY <1>4, <2>1
  <2> QED BY <1>4, <2>1, <2>3, <2>4 DEF CodecInv
<1>8. ASSUME NEW id \in DOMAIN dir.images, NEW edits \in Edits, NEW declared \in 0..8,
             PatchImage(id, edits, declared)
      PROVE  CodecInv'
  <2> DEFINE image == Patched(dir.images[id], edits)
             im == [dir.images EXCEPT ![id] = image]
  <2>1. dir' = [dir EXCEPT !.images[id] = image] /\ UNCHANGED <<file, asked>>
    BY <1>8 DEF PatchImage
  <2>2. image \in Seq(Byte)
    BY <1>4, PatchedTyped
  <2> HIDE DEF image
  <2>3. DOMAIN im = DOMAIN dir.images /\ im \in [DOMAIN im -> Seq(Byte)]
    BY <1>4, <2>2
  <2>4. dir' = [marker |-> dir.marker, images |-> im]
    BY <1>4, <2>1
  <2> HIDE DEF im
  <2>5. dir'.images = im /\ dir' = [marker |-> dir'.marker, images |-> dir'.images]
    BY <2>4
  <2>6. DOMAIN im \subseteq Ids
    BY <1>4, <2>3
  <2>7. file' = file /\ asked' = asked
    BY <2>1
  <2> QED BY <1>4, <2>3, <2>5, <2>6, <2>7 DEF CodecInv
<1>9. CASE RoundTrip
  <2> DEFINE reps == dir.images
  <2>1. /\ DOMAIN asked \subseteq DOMAIN dir.images /\ Fits(Repacked(file, reps))
        /\ file' = Finished(Repacked(file, reps), file) /\ asked' = reps /\ UNCHANGED dir
    BY <1>9 DEF RoundTrip
  <2>2. /\ reps \in [Ids -> Seq(Byte)] /\ \A id \in DOMAIN reps : reps[id] \in Seq(Byte)
        /\ DOMAIN reps = Ids
    <3>1. DOMAIN reps = Ids
      BY <1>4, <2>1
    <3> QED BY <1>4, <3>1
  <2> HIDE DEF reps
  <2>3. \A i \in 1..4 : NewData(es, reps, i) = reps[es[i].id]
    BY <1>3, <2>2 DEF NewData
  <2>4. Holds(Finished(Repacked(file, reps), file), reps)
    BY <1>1, <2>1, <2>2, <2>3, BuiltHolds
  <2> QED BY <1>4, <2>1, <2>2, <2>4 DEF CodecInv
<1>11. ASSUME NEW edits \in Edits, BuildMachine(edits) PROVE CodecInv'
  <2> DEFINE image == Patched(Images(file)[3], edits)
             reps == [id \in {3} |-> image]
             a == [asked EXCEPT ![3] = image]
  <2>1. /\ Fits(Repacked(file, reps)) /\ file' = Finished(Repacked(file, reps), file)
        /\ asked' = a /\ UNCHANGED dir
    BY <1>11 DEF BuildMachine
  <2>2. image \in Seq(Byte)
    <3>1. Images(file)[3] \in Seq(Byte)
      BY <1>2 DEF Ids
    <3> QED BY <3>1, PatchedTyped
  <2> HIDE DEF image
  <2>3. a \in [Ids -> Seq(Byte)] /\ a[3] = image /\ \A id \in Ids : id # 3 => a[id] = asked[id]
    BY <1>4, <2>2 DEF Ids
  <2>4. DOMAIN reps = {3} /\ reps[3] = image
    OBVIOUS
  <2>5. \A id \in DOMAIN reps : reps[id] \in Seq(Byte)
    BY <2>2, <2>4
  <2> HIDE DEF reps, a
  <2>6. ASSUME NEW i \in 1..4, Plain(es[i].id, a[es[i].id])
        PROVE  NewData(es, reps, i) = a[es[i].id]
    <3>1. CASE es[i].id = 3
      BY <2>3, <2>4, <3>1 DEF NewData
    <3>2. CASE es[i].id # 3
      <4>1. a[es[i].id] = asked[es[i].id]
        BY <1>3, <2>3, <3>2
      <4>2. Extracted(es[i].data).out = asked[es[i].id]
        BY <1>1, <2>6, <4>1 DEF Kept
      <4> QED BY <2>4, <3>2, <4>1, <4>2 DEF NewData
    <3> QED BY <3>1, <3>2
  <2>7. Holds(Finished(Repacked(file, reps), file), a)
    BY <1>1, <2>1, <2>3, <2>5, <2>6, BuiltHolds
  <2> QED BY <1>4, <2>1, <2>3, <2>7 DEF CodecInv
<1>12. CASE UNCHANGED fileVars
  BY <1>4, <1>12 DEF fileVars, CodecInv
<1> QED
  BY <1>5, <1>6, <1>7, <1>8, <1>9, <1>11, <1>12 DEF FileNext

(* What is made is authentic,                                              *)
LEMMA CodecAuthentic == CodecInv => Authentic
<1> SUFFICES ASSUME CodecInv PROVE Authentic
  OBVIOUS
<1>1. PICK h, es, fr : IsMade(file, h, es, fr)
  BY DEF CodecInv, Holds
<1> DEFINE c == BuildContainer(h, es)
<1>2. c \in Seq(Byte) /\ Len(c) >= TrailerLen /\ Fits(c) /\ Len(c) % 2 = 0
  BY <1>1, MadeFacts
<1>3. FramedAs(fr) /\ file = Finished(c, fr)
  BY <1>1 DEF IsMade
<1> HIDE DEF c
<1> QED BY <1>2, <1>3, AuthenticFinished

(* holds what is asked for,                                                *)
LEMMA CodecKept == CodecInv => SectionsKept
<1> SUFFICES ASSUME CodecInv PROVE SectionsKept
  OBVIOUS
<1>1. PICK h, es, fr : IsMade(file, h, es, fr) /\ Kept(es, asked)
  BY DEF CodecInv, Holds
<1>2. DOMAIN asked = Ids
  BY DEF CodecInv
<1>3. /\ DOMAIN Contents(file) = Ids
      /\ \A i \in 1..4 : Contents(file)[es[i].id] = Extracted(es[i].data)
  BY <1>1, MadeRead
<1>4. \A id \in Ids : \E i \in 1..4 : es[i].id = id
  BY <1>1, Slots DEF IsMade
<1>5. ASSUME NEW id \in Ids, Plain(id, asked[id])
      PROVE  Contents(file)[id].ok /\ Contents(file)[id].out = asked[id]
  <2>1. PICK i \in 1..4 : es[i].id = id
    BY <1>4
  <2>2. Extracted(es[i].data).ok /\ Extracted(es[i].data).out = asked[id]
    BY <1>1, <1>5, <2>1 DEF Kept
  <2>3. Contents(file)[id] = Extracted(es[i].data)
    BY <1>3, <2>1
  <2> QED BY <2>2, <2>3
<1> QED BY <1>2, <1>3, <1>5 DEF SectionsKept

(* and is rebuilt as it is.                                                *)
LEMMA CodecStable == CodecInv => Stable
<1> SUFFICES ASSUME CodecInv, file \notin Officials,
                    \A id \in DOMAIN asked : Plain(id, asked[id])
             PROVE  Rebuild(file, <<>>) = file
  BY DEF Stable, Officials
<1>1. PICK h, es, fr : IsMade(file, h, es, fr) /\ Kept(es, asked) /\ AsStored(es, asked)
  BY DEF CodecInv, Holds
<1>2. DOMAIN asked = Ids
  BY DEF CodecInv
<1>3. /\ es \in [1..4 -> Entry] /\ \A i \in 1..4 : es[i].id \in Ids
  BY <1>1, MadeFacts
<1> DEFINE reps == <<>>
           new == NewEntries(es, reps)
           c == BuildContainer(h, es)
<1>4. DOMAIN reps = {}
  OBVIOUS
<1>5. /\ Repacked(file, reps) = BuildContainer(h, new)
      /\ \A i \in 1..4 : new[i].data = StoreForSection(es[i].id, NewData(es, reps, i))
  BY <1>1, <1>4, RepackedMade
<1>6. new = es
  <2>1. \A i \in 1..4 : NewData(es, reps, i) = asked[es[i].id]
    BY <1>1, <1>2, <1>3, <1>4 DEF NewData, Kept
  <2>2. \A i \in 1..4 : StoreForSection(es[i].id, NewData(es, reps, i)) = es[i].data
    BY <1>1, <1>2, <1>3, <2>1 DEF AsStored
  <2>3. \A i \in 1..4 : es[i] = [id |-> es[i].id, dest |-> es[i].dest, data |-> es[i].data]
    BY <1>3 DEF Entry
  <2>4. new = [i \in 1..4 |-> es[i]]
    BY <2>2, <2>3 DEF NewEntries
  <2> QED BY <1>3, <2>4
<1> HIDE DEF new
<1>7. Rebuild(file, reps) = Finished(c, file)
  BY <1>5, <1>6 DEF Rebuild
<1>8. /\ c \in Seq(Byte) /\ Len(c) >= TrailerLen /\ Fits(c)
      /\ FramedAs(fr) /\ file = Finished(c, fr)
  BY <1>1, MadeFacts DEF IsMade
<1> HIDE DEF c
<1>9. Finished(c, file) = file
  BY <1>8, FinishedAgain
<1> QED BY <1>7, <1>9

(* Every file there ever is was made of four sections that hold what is    *)
(* asked for.                                                              *)
THEOREM CodecInvariance == FileSpec => []CodecInv
<1>1. FileInit => CodecInv
  BY CodecInit
<1>2. CodecInv /\ [FileNext]_fileVars => CodecInv'
  BY CodecNext
<1> QED BY <1>1, <1>2, PTL DEF FileSpec

(* build.finish, authcode and the framing of build.encode_syx: whatever is *)
(* patched and rebuilt, in whatever order, the checks of the bootstrap and *)
(* of container.verify_stream hold of every file.                          *)
THEOREM FilesAuthentic == FileSpec => []Authentic
<1>1. CodecInv => Authentic
  BY CodecAuthentic
<1>2. FileSpec => []CodecInv
  BY CodecInvariance
<1> QED BY <1>1, <1>2, PTL

(* roundtrip's gate: every file there ever is holds in its sections what   *)
(* was asked for, as far as extract.classify can tell what they are: no    *)
(* chain of extractions, patches and builds loses or mixes up a byte.      *)
THEOREM ContentsKept == FileSpec => []SectionsKept
<1>1. CodecInv => SectionsKept
  BY CodecKept
<1>2. FileSpec => []CodecInv
  BY CodecInvariance
<1> QED BY <1>1, <1>2, PTL

(* build.rebuild without replacements: a file these tools built comes out  *)
(* byte for byte as it went in, framing and checksums included.            *)
THEOREM RebuiltAsIs == FileSpec => []Stable
<1>1. CodecInv => Stable
  BY CodecStable
<1>2. FileSpec => []CodecInv
  BY CodecInvariance
<1> QED BY <1>1, <1>2, PTL

-----------------------------------------------------------------------------
(* Whose bootstrap a file holds.                                           *)

(* Of the sections that are not to be patched: those the file in hand is   *)
(* meant to have are its device's own, and those of the directory are those*)
(* of the file its marker names.                                           *)
Fixed == {2, 4}

FileInv ==
  /\ dir = [marker |-> dir.marker, images |-> dir.images]
  /\ doubt \in [dir : BOOLEAN, file : BOOLEAN]
  /\ "device" \in DOMAIN file.start
  /\ Fixed \subseteq DOMAIN asked
  /\ doubt.file \/ Belong(asked, file.start.device)
  /\ doubt.dir \/ \A id \in Fixed \cap DOMAIN dir.images :
                   dir.images[id] = Images(dir.marker)[id]

(* A file made from another one is framed for the same device.             *)
LEMMA FramedAlike ==
  ASSUME NEW f, "device" \in DOMAIN f.start, NEW c
  PROVE  /\ "device" \in DOMAIN Finished(c, f).start
         /\ Finished(c, f).start.device = f.start.device
PROOF
<1>1. ASSUME NEW n
      PROVE  /\ "device" \in DOMAIN PatchFramingCount(f.start, n)
             /\ PatchFramingCount(f.start, n).device = f.start.device
  BY DEF PatchFramingCount
<1>2. \A stream : \E n : EncodeSyx(stream, f).start = PatchFramingCount(f.start, n)
  BY DEF EncodeSyx
<1>3. \E stream : Finished(c, f) = EncodeSyx(stream, f)
  BY DEF Finished
<1> QED
  BY <1>1, <1>2, <1>3

(* An official file is framed for its device.                              *)
LEMMA OfficialFraming ==
  ASSUME NEW s
  PROVE  /\ "device" \in DOMAIN Official(s).start
         /\ Official(s).start.device = s.device
PROOF
<1> DEFINE framing == [device |-> s.device, k |-> s.device, count |-> Base128(0)]
           f == [start |-> framing, end |-> framing]
<1>1. \E c : Official(s) = Finished(c, f)
  BY DEF Official
<1>2. "device" \in DOMAIN f.start /\ f.start.device = s.device
  OBVIOUS
<1> HIDE DEF f
<1> QED
  BY <1>1, <1>2, FramedAlike

(* What is asked for is what is read back.                                 *)
LEMMA ReadBack ==
  ASSUME SectionsKept, Fixed \subseteq DOMAIN asked, NEW d, Belong(asked, d)
  PROVE  Belong(Images(file), d)
PROOF
<1>1. PICK s \in Stock :
        /\ s.device = d
        /\ \A id \in Fixed : Plain(id, Contained(s)[id]) => asked[id] = Contained(s)[id]
  BY DEF Belong, Fixed
<1>2. ASSUME NEW id \in Fixed, Plain(id, Contained(s)[id])
      PROVE  Images(file)[id] = Contained(s)[id]
  <2>1. id \in DOMAIN asked /\ Plain(id, asked[id]) /\ asked[id] = Contained(s)[id]
    BY <1>1, <1>2
  <2>2. id \in DOMAIN Contents(file) /\ Contents(file)[id].out = asked[id]
    BY <2>1 DEF SectionsKept
  <2> QED
    BY <2>1, <2>2 DEF Images
<1> QED
  BY <1>1, <1>2 DEF Belong, Fixed

LEMMA FileInitInv == FileInit => FileInv
PROOF
<1> SUFFICES ASSUME FileInit PROVE FileInv
  OBVIOUS
<1>1. PICK s \in Stock : file = Official(s) /\ asked = Contained(s)
  BY DEF FileInit
<1>2. Fixed \subseteq DOMAIN asked
  BY <1>1 DEF Contained, Fixed
<1>3. Belong(asked, file.start.device)
  BY <1>1, OfficialFraming DEF Belong
<1>4. /\ dir = [marker |-> dir.marker, images |-> dir.images] /\ DOMAIN dir.images = {}
      /\ doubt \in [dir : BOOLEAN, file : BOOLEAN]
  BY DEF FileInit, Empty
<1> QED
  BY <1>1, <1>2, <1>3, <1>4, OfficialFraming DEF FileInv

(* No step but an extraction that is cut off, or the patch of a section 2  *)
(* or 4 that is not recognised, puts a section into the directory that is  *)
(* not its marker's, and none but a rebuild from such a directory asks for *)
(* a section that is not the device's.                                     *)
LEMMA FileNextInv ==
  ASSUME FileInv, SectionsKept, [FileNext]_fileVars
  PROVE  FileInv'
PROOF
<1> USE DEF FileInv
<1>1. ASSUME NEW s \in Stock, Download(s) PROVE FileInv'
  <2>1. /\ file' = Official(s) /\ asked' = Contained(s) /\ UNCHANGED dir
        /\ doubt' = [doubt EXCEPT !.file = FALSE]
    BY <1>1 DEF Download
  <2>2. Fixed \subseteq DOMAIN asked'
    BY <2>1 DEF Contained, Fixed
  <2>3. Belong(Contained(s), s.device)
    BY DEF Belong
  <2>4. doubt' \in [dir : BOOLEAN, file : BOOLEAN] /\ doubt'.dir = doubt.dir
    BY <2>1
  <2>5. Belong(asked', file'.start.device) /\ "device" \in DOMAIN file'.start
    BY <2>1, <2>3, OfficialFraming
  <2> QED
    BY <2>1, <2>2, <2>4, <2>5
<1>2. CASE ExtractSections
  <2>1. /\ dir' = [marker |-> file, images |-> Images(file)]
        /\ doubt' = [doubt EXCEPT !.dir = FALSE] /\ UNCHANGED <<file, asked>>
    BY <1>2 DEF ExtractSections
  <2>2. doubt' \in [dir : BOOLEAN, file : BOOLEAN] /\ doubt'.file = doubt.file
    BY <2>1
  <2>3. dir'.marker = file /\ dir'.images = Images(file)
    BY <2>1
  <2> QED
    BY <2>1, <2>2, <2>3
<1>3. ASSUME NEW k \in Cuts, ExtractCut(k) PROVE FileInv'
  <2>1. /\ \E images : dir' = [dir EXCEPT !.images = images]
        /\ doubt' = [doubt EXCEPT !.dir = TRUE] /\ UNCHANGED <<file, asked>>
    BY <1>3 DEF ExtractCut
  <2>2. /\ doubt' \in [dir : BOOLEAN, file : BOOLEAN]
        /\ doubt'.file = doubt.file /\ doubt'.dir
    BY <2>1
  <2>3. dir' = [marker |-> dir'.marker, images |-> dir'.images]
    BY <2>1
  <2> QED
    BY <2>1, <2>2, <2>3
<1>4. ASSUME NEW id \in DOMAIN dir.images, NEW edits \in Edits, NEW declared \in 0..8,
             PatchImage(id, edits, declared)
      PROVE  FileInv'
  <2> DEFINE missed == /\ id \in ForbiddenSections
                       /\ IdentifySection(dir.images[id]) \notin ForbiddenSections
  <2>1. /\ IdentifySection(dir.images[id]) \notin ForbiddenSections
        /\ doubt' = [doubt EXCEPT !.dir = @ \/ missed] /\ UNCHANGED <<file, asked>>
        /\ \E image : dir' = [dir EXCEPT !.images[id] = image]
    BY <1>4 DEF PatchImage, CheckSectionAllowed
  <2>2. PICK image : dir' = [dir EXCEPT !.images[id] = image]
    BY <2>1
  <2>3. /\ dir' = [marker |-> dir'.marker, images |-> dir'.images]
        /\ dir'.marker = dir.marker /\ dir'.images = [dir.images EXCEPT ![id] = image]
    BY <2>2
  <2>4. missed <=> id \in Fixed
    BY <2>1 DEF ForbiddenSections, Fixed
  <2> HIDE DEF missed
  <2>5. /\ doubt' \in [dir : BOOLEAN, file : BOOLEAN]
        /\ doubt'.file = doubt.file /\ doubt'.dir = (doubt.dir \/ id \in Fixed)
    BY <2>1, <2>4
  <2>6. DOMAIN dir'.images = DOMAIN dir.images
    BY <2>3
  <2>7. id \notin Fixed => \A i \in Fixed \cap DOMAIN dir.images : dir'.images[i] = dir.images[i]
    BY <2>3
  <2> QED
    BY <2>1, <2>3, <2>5, <2>6, <2>7
<1>5. CASE RoundTrip
  <2>1. /\ dir.marker = file /\ DOMAIN asked \subseteq DOMAIN dir.images
        /\ file' = Finished(Repacked(file, dir.images), file)
        /\ asked' = dir.images /\ UNCHANGED dir
        /\ doubt' = [doubt EXCEPT !.file = @ \/ doubt.dir]
    BY <1>5 DEF RoundTrip, Proven
  <2>2. /\ doubt' \in [dir : BOOLEAN, file : BOOLEAN]
        /\ doubt'.dir = doubt.dir /\ doubt'.file = (doubt.file \/ doubt.dir)
    BY <2>1
  <2>3. "device" \in DOMAIN file'.start /\ file'.start.device = file.start.device
    BY <2>1, FramedAlike
  <2>4. ~doubt.file /\ ~doubt.dir => Belong(asked', file.start.device)
    <3> SUFFICES ASSUME ~doubt.file, ~doubt.dir PROVE Belong(asked', file.start.device)
      OBVIOUS
    <3>1. Belong(Images(file), file.start.device)
      BY ReadBack
    <3>2. \A id \in Fixed : asked'[id] = Images(file)[id]
      BY <2>1
    <3> QED
      BY <3>1, <3>2 DEF Belong, Fixed
  <2> QED
    BY <2>1, <2>2, <2>3, <2>4
<1>6. ASSUME NEW edits \in Edits, BuildMachine(edits) PROVE FileInv'
  <2>1. /\ \E c : file' = Finished(c, file)
        /\ \E image : asked' = [asked EXCEPT ![3] = image]
        /\ UNCHANGED <<dir, doubt>>
    BY <1>6 DEF BuildMachine
  <2>2. "device" \in DOMAIN file'.start /\ file'.start.device = file.start.device
    BY <2>1, FramedAlike
  <2>3. Fixed \subseteq DOMAIN asked' /\ \A id \in Fixed : asked'[id] = asked[id]
    BY <2>1 DEF Fixed
  <2>4. Belong(asked, file.start.device) => Belong(asked', file.start.device)
    BY <2>3 DEF Belong, Fixed
  <2> QED
    BY <2>1, <2>2, <2>3, <2>4
<1>7. CASE UNCHANGED fileVars
  BY <1>7 DEF fileVars
<1> QED
  BY <1>1, <1>2, <1>3, <1>4, <1>5, <1>6, <1>7 DEF FileNext

(* roundtrip.check_provenance, patchimg.check_section_allowed and          *)
(* machinebuild: no chain of downloads, extractions, patches and builds    *)
(* ever brings a device another one's bootstrap or updater, or a changed   *)
(* one, unless through a directory in which an extraction was cut off or   *)
(* in which patchimg did not recognise the section 2 or 4 it was given.    *)
THEOREM OwnBootstraps == FileSpec => []OwnBootstrap
PROOF
<1>1. FileInv /\ SectionsKept => OwnBootstrap
  BY ReadBack DEF FileInv, OwnBootstrap
<1>2. FileInv /\ SectionsKept /\ [FileNext]_fileVars => FileInv'
  BY FileNextInv
<1>3. FileSpec => []SectionsKept
  BY ContentsKept
<1> QED
  BY <1>1, <1>2, <1>3, FileInitInv, PTL DEF FileSpec
=============================================================================
