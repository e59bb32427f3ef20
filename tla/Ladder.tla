------------------------------- MODULE Ladder -------------------------------
(* What stands between a firmware file and a panel on disk (emu/run.py,    *)
(* emu/extract.py, emu/checkpoint.py make): the extracted sections with    *)
(* the marker of their origin, and the boot ladder with its sidecar.       *)
(*                                                                         *)
(* Commands run one at a time; each may die at any of its steps, an        *)
(* interrupt or a full disk leaving the file it was writing cut off.       *)
EXTENDS Naturals

CONSTANTS
  Firmware,   \* contents of the .syx files used under one name
  MainOf,     \* [Firmware -> MAIN OS images]
  Point,      \* the rungs of LADDER, as numbers
  Default     \* the rung that need_snapshot asks for, boot400M

NONE == "none"
TORN == "torn"      \* a file that was cut off

Image == {MainOf[f] : f \in Firmware} \cup {TORN}

ASSUME LadderAssumption ==
  /\ MainOf \in [Firmware -> Image \ {TORN}]
  /\ Point \subseteq Nat /\ Default \in Point
  /\ NONE \notin Image /\ {NONE, TORN} \cap Firmware = {}

VARIABLES
  tested,    \* whether the name is the tested build's (config.is_tested)
  main,      \* section_3_MAIN_OS.bin
  marker,    \* .source-sha256: the firmware the sections came from
  rung,      \* [Point -> the build a rung was saved by]
  sidecar,   \* .ladder.json: the build the ladder was made by
  task,      \* the command that is running
  unsure,    \* history: the sections' origin was guessed, or is mixed
  cut        \* history: a make of another build was cut short since the last whole one

disk == <<main, marker, rung, sidecar>>
vars == <<tested, disk, task, unsure, cut>>

(* A cold boot is one of an image, with the storage models or without.     *)
Build == [img : Image, models : BOOLEAN]

(* A file that is not there, and a snapshot that restore refuses.          *)
Absent == [img |-> NONE, models |-> FALSE]
CutOff == [img |-> NONE, models |-> TRUE]

Idle == [does |-> "nothing"]

Goto(step) == task' = [task EXCEPT !.does = step]
Quit == task' = Idle
Pick == task' = [does |-> "pick", syx |-> task.syx]

-----------------------------------------------------------------------------
(* emu.extract, and need_sections when there is no MAIN image.             *)

NeedsSections == main = NONE

Start(step, f, accept, run) ==
  /\ task = Idle
  /\ task' = [does |-> step, syx |-> f, accept |-> accept, run |-> run]
  /\ UNCHANGED <<tested, disk, unsure, cut>>

Extract(f) == Start("extract", f, FALSE, FALSE)

Run(f, accept) == Start(IF NeedsSections THEN "extract" ELSE "match", f, accept, TRUE)

(* An earlier section is removed ...                                       *)
RemoveStale ==
  /\ task.does = "extract"
  /\ main' = NONE
  /\ Goto("write")
  /\ UNCHANGED <<tested, marker, rung, sidecar, unsure, cut>>

(* ... written anew ...                                                    *)
WriteSection ==
  /\ task.does = "write"
  /\ main' = MainOf[task.syx]
  /\ Goto("mark")
  /\ UNCHANGED <<tested, marker, rung, sidecar, unsure, cut>>

(* ... and after the last one their origin is recorded.                    *)
RecordSource ==
  /\ task.does = "mark"
  /\ marker' = task.syx
  /\ unsure' = FALSE
  /\ IF task.run THEN Goto("match") ELSE Quit
  /\ UNCHANGED <<tested, main, rung, sidecar, cut>>

(* Any marker will do.                                                     *)
MatchesBug == TRUE

Matches == marker = task.syx

(* need_matching_sections: a marker that differs is refused, and so is     *)
(* none at all, unless the build is the tested one or the user insists.    *)
NeedMatchingSections ==
  /\ task.does = "match"
  /\ \/ /\ marker # NONE /\ Matches
        /\ Goto("snapshot")
        /\ UNCHANGED <<marker, unsure>>
     \/ /\ marker # NONE /\ ~Matches
        /\ Quit
        /\ UNCHANGED <<marker, unsure>>
     \/ /\ marker = NONE /\ (tested \/ task.accept)
        /\ marker' = task.syx
        /\ unsure' = TRUE
        /\ Goto("snapshot")
     \/ /\ marker = NONE /\ ~(tested \/ task.accept)
        /\ Quit
        /\ UNCHANGED <<marker, unsure>>
  /\ UNCHANGED <<tested, main, rung, sidecar, cut>>

-----------------------------------------------------------------------------
(* The ladder.                                                             *)

Making(f, models, points, run) ==
  [does |-> "make", syx |-> f, build |-> [img |-> main, models |-> models],
   asked |-> points, todo |-> points, run |-> run]

(* The command line of emu.checkpoint: any points, any models.             *)
Make(f, models, points) ==
  /\ task = Idle
  /\ main # NONE
  /\ task' = Making(f, models, points, FALSE)
  /\ UNCHANGED <<tested, disk, unsure, cut>>

(* Only the models are compared, as before the sidecar had a hash.         *)
FreshBug == rung[Default] # Absent /\ sidecar.models

(* need_snapshot: the snapshot exists, and the sidecar can be read and     *)
(* names this run's models and image.                                      *)
Fresh == rung[Default] # Absent /\ sidecar = [img |-> main, models |-> TRUE]

NeedSnapshot ==
  /\ task.does = "snapshot"
  /\ IF Fresh THEN Pick ELSE task' = Making(task.syx, TRUE, Point, TRUE)
  /\ UNCHANGED <<tested, disk, unsure, cut>>

(* make's hook saves the rungs in passing, lowest first.                   *)
SaveRung ==
  /\ task.does = "make"
  /\ \E p \in task.todo :
       /\ \A q \in task.todo : p <= q
       /\ rung' = [rung EXCEPT ![p] = task.build]
       /\ task' = [task EXCEPT !.todo = @ \ {p}]
  /\ UNCHANGED <<tested, main, marker, sidecar, unsure, cut>>

Saved == task.todo # task.asked

(* The cold boot is over: at its limit, with every point passed, or before *)
(* that, when the guest faults.  The sidecar is written if any rung was,   *)
(* and need_snapshot goes on if boot400M exists.                           *)
EndMake ==
  /\ task.does = "make"
  /\ sidecar' = IF Saved THEN task.build ELSE sidecar
  /\ cut' = IF task.asked \ task.todo = Point THEN FALSE
            ELSE cut \/ sidecar # task.build
  /\ IF task.run /\ rung[Default] # Absent
       THEN Pick ELSE Quit
  /\ UNCHANGED <<tested, main, marker, rung, unsure>>

(* usable_rung: the newest rung that can be restored and whose intro is    *)
(* live and not parked, which the boot decides; or else boot400M.  The GUI *)
(* dies on a snapshot that cannot be restored.                             *)
UsableRung ==
  /\ task.does = "pick"
  /\ \E p \in Point :
       /\ p = Default \/ rung[p] \notin {Absent, CutOff}
       /\ IF rung[p] = CutOff
            THEN Quit
            ELSE task' = [does |-> "gui", syx |-> task.syx, from |-> rung[p]]
  /\ UNCHANGED <<tested, disk, unsure, cut>>

CloseGui ==
  /\ task.does = "gui"
  /\ Quit
  /\ UNCHANGED <<tested, disk, unsure, cut>>

-----------------------------------------------------------------------------
(* A command dies, and what it was writing is whole, missing or cut off.   *)

DieExtracting ==
  /\ task.does = "write"
  /\ main' = TORN
  /\ unsure' = TRUE
  /\ UNCHANGED <<marker, rung, sidecar, cut>>

DieMarking ==
  /\ task.does = "mark"
  /\ marker' \in {marker, TORN}
  /\ unsure' = (unsure \/ marker \notin {NONE, task.syx})
  /\ UNCHANGED <<main, rung, sidecar, cut>>

(* A sidecar that cannot be read counts as none.                           *)
DieMaking ==
  /\ task.does = "make"
  /\ \/ /\ \E p \in task.todo :
             /\ \A q \in task.todo : p <= q
             /\ rung' = [rung EXCEPT ![p] = CutOff]
        /\ cut' = (cut \/ sidecar \notin {Absent, task.build})
        /\ UNCHANGED sidecar
     \/ /\ cut' = (cut \/ (Saved /\ sidecar \notin {Absent, task.build}))
        /\ UNCHANGED <<rung, sidecar>>
     \/ /\ Saved
        /\ sidecar' = Absent
        /\ UNCHANGED <<rung, cut>>
  /\ UNCHANGED <<main, marker, unsure>>

DieElsewhere ==
  /\ task.does \notin {"nothing", "mark", "make"}
  /\ UNCHANGED <<disk, unsure, cut>>

Die ==
  /\ DieExtracting \/ DieMarking \/ DieMaking \/ DieElsewhere
  /\ Quit
  /\ UNCHANGED tested

(* A checkout that holds no sections, or sections from before the marker.  *)
Init ==
  /\ tested \in BOOLEAN
  /\ main \in {NONE} \cup (Image \ {TORN})
  /\ marker = NONE
  /\ rung = [p \in Point |-> Absent] /\ sidecar = Absent
  /\ task = Idle /\ unsure = FALSE /\ cut = FALSE

Next ==
  \/ \E f \in Firmware : Extract(f)
  \/ \E f \in Firmware, accept \in BOOLEAN : Run(f, accept)
  \/ \E f \in Firmware, models \in BOOLEAN, points \in (SUBSET Point) \ {{}} :
       Make(f, models, points)
  \/ RemoveStale \/ WriteSection \/ RecordSource \/ NeedMatchingSections
  \/ NeedSnapshot \/ SaveRung \/ EndMake
  \/ UsableRung \/ CloseGui
  \/ Die

Spec == Init /\ [][Next]_vars
-----------------------------------------------------------------------------
(* Properties.                                                             *)

Tasks ==
  {Idle}
  \cup [does : {"extract", "write", "mark", "match", "snapshot"},
        syx : Firmware, accept : BOOLEAN, run : BOOLEAN]
  \cup [does : {"make"}, syx : Firmware, build : Build,
        asked : SUBSET Point, todo : SUBSET Point, run : BOOLEAN]
  \cup [does : {"pick"}, syx : Firmware]
  \cup [does : {"gui"}, syx : Firmware, from : Build]

(* Every file and record keeps its shape: a make is of some image, a panel *)
(* is started on a snapshot that is there.                                 *)
TypeOK ==
  /\ tested \in BOOLEAN /\ unsure \in BOOLEAN /\ cut \in BOOLEAN
  /\ main \in Image \cup {NONE}
  /\ marker \in Firmware \cup {NONE, TORN}
  /\ rung \in [Point -> Build \cup {Absent, CutOff}]
  /\ sidecar \in Build \cup {Absent}
  /\ task \in Tasks

(* need_matching_sections: a firmware never runs on the sections of        *)
(* another, except where their origin was taken on the user's word or on   *)
(* the tested build's name, or an extraction died over another's marker.   *)
RightFirmware ==
  task.does = "gui" /\ ~unsure => main = MainOf[task.syx]

(* need_snapshot: a panel resumes a rung of this image with the storage    *)
(* models, whatever was made, cut short, torn or made again before, unless *)
(* a make of another build than the sidecar's was cut short or asked for   *)
(* fewer points since a whole one.                                         *)
NeverMixed ==
  task.does = "gui" /\ ~cut => task.from = [img |-> main, models |-> TRUE]
=============================================================================
