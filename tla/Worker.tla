------------------------------- MODULE Worker -------------------------------
(***************************************************************************)
(* The two threads of emu/gui.py: a worker (Emulator.run) that loads a     *)
(* machine, identifies it, runs it chunk by chunk and publishes pictures   *)
(* in `fb` and `version`; and the UI (App), which draws them from a timer, *)
(* pauses, replays and restarts, each restart building another Emulator.   *)
(* What a chunk executes is Timers, and its panel input PanelInput.        *)
(***************************************************************************)
EXTENDS Integers

CONSTANTS
    Emulators,   \* a bound: the emulators of one session are 1 .. Emulators
    Pictures,    \* what a frame may look like ...
    Dark,        \* ... and the one with no pixel lit
    Versions,    \* a bound: pictures a worker publishes
    Intro        \* whether the snapshot is of a running intro: a set of cases

Torn == "torn"  \* pixels of more than one picture
NeverShown == -1     \* App.shown after a restart

ASSUME WorkerAssumption ==
    /\ Emulators \in Nat \ {0} /\ Versions \in Nat /\ Intro \subseteq BOOLEAN
    /\ Dark \in Pictures /\ Torn \notin Pictures

Workers == 1 .. Emulators

VARIABLES
    at,        \* where each worker is; "none" before it is started
    stop,      \* stop_flag of each
               \* ... and of the emulator App.emu refers to, those of a
               \* replaced one being out of the UI's sight:
    pause,     \* the event of the PAUSE key and of a replay
    device,    \* the product was identified
    fb,        \* the picture the UI draws
    writing,   \* what the worker is doing to it
    version,   \* bumped after every change of fb
    latch,     \* _panel_latch, {} or the newest picture of the guest
    last,      \* _last_panel, {} or the last picture published
    live,      \* _panel_live: the OS has drawn something
    ours,      \* use_panel: the guest's framebuffer, not setPixel
    captured,  \* there are frames to replay
    cur,       \* App.emu
    ui,        \* where the UI thread is
    half,      \* what Screen.draw read of fb so far
    controls,  \* the emulator the control surface was built for, 0: none
    screen,    \* what the surface's panel shows
    shown,     \* App.shown: the version last drawn
    replay,    \* captured frames are played back
    passed,    \* history: the screen is of another time than `shown`
    late       \* history: a join has timed out

flags == <<stop, pause>>
machine == <<device, latch, last, live, ours>>
picture == <<fb, writing, version, captured>>
window == <<ui, half, controls, screen, shown, replay>>
workerVars == <<at, flags, machine, picture, cur, window, passed, late>>

Ended == {"failed", "halted", "stopped"}
Alive(w) == at[w] \notin Ended \cup {"none"}

Goes(w, here, there) == at[w] = here /\ at' = [at EXCEPT ![w] = there]
To(here, there) == Goes(cur, here, there)

-----------------------------------------------------------------------------
(* The worker's thread: loading the machine, which nothing interrupts, and *)
(* identifying it.  An unknown firmware has no control surface, and runs.  *)
Load ==
    /\ To("loading", "top")
    /\ \E known \in BOOLEAN, intro \in Intro :
          /\ device' = known
          /\ ours' = ~intro
    /\ UNCHANGED <<flags, latch, last, live, picture, cur, window, passed, late>>

LoadFails ==
    /\ To("loading", "failed")
    /\ UNCHANGED <<flags, machine, picture, cur, window, passed, late>>

(* The head of the loop looks at the stop flag first, then at the pause.   *)
Leave ==
    /\ stop[cur]
    /\ To("top", "stopped")
    /\ UNCHANGED <<flags, machine, picture, cur, window, passed, late>>

Chunk ==
    /\ ~stop[cur] /\ ~pause
    /\ To("top", "spinning")
    /\ UNCHANGED <<flags, machine, picture, cur, window, passed, late>>

(* A chunk of emulation, and the hooks the guest passes in it: a pixel of  *)
(* the intro, the handover at its end, a frame composed by the OS.         *)
Running == at[cur] = "spinning" /\ writing = "nothing"

Pixel ==
    /\ Running
    /\ version < Versions
    /\ writing' = "pixel"
    /\ \E p \in Pictures : fb' = p
    /\ \E again \in BOOLEAN : captured' = (captured \/ again)
    /\ UNCHANGED <<at, flags, machine, version, cur, window, passed, late>>

Handover ==
    /\ Running
    /\ ~ours
    /\ ours' = TRUE
    /\ UNCHANGED <<at, flags, device, latch, last, live, picture, cur, window, passed, late>>

Compose ==
    /\ Running
    /\ \E p \in Pictures : latch' = {p}
    /\ UNCHANGED <<at, flags, device, last, live, ours, picture, cur, window, passed, late>>

Spun ==
    /\ Running
    /\ To("spinning", "publishing")
    /\ UNCHANGED <<flags, machine, picture, cur, window, passed, late>>

Halt ==
    /\ Running
    /\ To("spinning", "halted")
    /\ UNCHANGED <<flags, machine, picture, cur, window, passed, late>>

(* _publish_panel: nothing to show, nothing new, or an empty buffer before *)
(* the OS has drawn for the first time.  (Without the hook that latches    *)
(* frames it would read the guest's framebuffer in its stead.)             *)
Publishes ==
    /\ ours /\ latch # {} /\ latch # last
    /\ (latch # {Dark} \/ live)

NothingNew ==
    /\ writing = "nothing"
    /\ (~Publishes \/ version = Versions)
    /\ To("publishing", "top")
    /\ UNCHANGED <<flags, machine, picture, cur, window, passed, late>>

(* fb is cleared and filled pixel by pixel, under the eyes of the UI.      *)
Clear ==
    /\ at[cur] = "publishing" /\ writing = "nothing"
    /\ Publishes /\ version < Versions
    /\ writing' = "clear"
    /\ live' = TRUE
    /\ last' = latch
    /\ fb' = Torn
    /\ UNCHANGED <<at, flags, device, latch, ours, version, captured, cur, window, passed, late>>

Fill ==
    /\ writing = "clear"
    /\ writing' = "frame"
    /\ fb' = CHOOSE p \in Pictures : last = {p}
    /\ captured' = TRUE
    /\ UNCHANGED <<at, flags, machine, version, cur, window, passed, late>>

(* The UI is between reading fb and noting its version.                    *)
Drawing == ui \in {"half drawn", "drawn"}

Bumped ==
    /\ version' = version + 1
    /\ writing' = "nothing"
    /\ passed' = (passed \/ Drawing)

Bump ==
    /\ (writing = "pixel" /\ UNCHANGED at) \/ (writing = "frame" /\ To("publishing", "top"))
    /\ Bumped
    /\ UNCHANGED <<flags, machine, fb, captured, cur, window, late>>

WorkerStep ==
    \/ Load \/ LoadFails
    \/ Leave \/ Chunk \/ Spun \/ Halt
    \/ NothingNew \/ Clear \/ Fill \/ Bump

(* A replaced worker goes on like any other, out of sight: where it is.    *)
Onward == {<<"loading", "top">>, <<"loading", "failed">>, <<"spinning", "halted">>,
           <<"spinning", "publishing">>, <<"publishing", "top">>}

Replaced(w) ==
    /\ w < cur
    /\ \/ \E step \in Onward : Goes(w, step[1], step[2])
       \/ stop[w] /\ Goes(w, "top", "stopped")
       \/ ~stop[w] /\ Goes(w, "top", "spinning")
    /\ UNCHANGED <<flags, machine, picture, cur, window, passed, late>>

Guest == Pixel \/ Handover \/ Compose

-----------------------------------------------------------------------------
(* App.tick, every 60 ms, or 10 ms in a replay: build the control surface  *)
(* once the product is known, draw a version not shown yet, note it.       *)
Ensure ==
    /\ ui = "idle" /\ ~replay
    /\ controls = 0 /\ device
    /\ controls' = cur
    /\ screen' = Dark
    /\ ui' = IF version # shown THEN "looking" ELSE "idle"
    /\ UNCHANGED <<at, flags, machine, picture, cur, half, shown, replay, passed, late>>

Look ==
    /\ \/ ui = "looking"
       \/ ui = "idle" /\ ~replay /\ controls # 0
    /\ version # shown
    /\ ui' = "half drawn"
    /\ half' = fb
    /\ passed' = FALSE
    /\ UNCHANGED <<at, flags, machine, picture, cur, controls, screen, shown, replay, late>>

Draw ==
    /\ ui = "half drawn"
    /\ screen' = IF half = fb THEN half ELSE Torn
    /\ half' = Dark
    /\ ui' = "drawn"
    /\ UNCHANGED <<at, flags, machine, picture, cur, controls, shown, replay, passed, late>>

Note ==
    /\ ui = "drawn"
    /\ shown' = version
    /\ ui' = "idle"
    /\ UNCHANGED <<at, flags, machine, picture, cur, half, controls, screen, replay, passed, late>>

(* A captured frame, which may be any picture published before.            *)
Play ==
    /\ ui = "idle" /\ replay /\ controls # 0
    /\ \E p \in Pictures : screen' = p
    /\ passed' = TRUE
    /\ UNCHANGED <<at, flags, machine, picture, cur, ui, half, controls, shown, replay, late>>

-----------------------------------------------------------------------------
(* The keys of the service bar, between two ticks.                         *)
Toggle ==
    /\ ui = "idle"
    /\ pause' = ~pause
    /\ UNCHANGED <<at, stop, machine, picture, cur, window, passed, late>>

StartReplay ==
    /\ ui = "idle" /\ ~replay /\ captured
    /\ replay' = TRUE
    /\ pause' = TRUE
    /\ UNCHANGED <<at, stop, machine, picture, cur, ui, half, controls, screen, shown,
                   passed, late>>

StopReplay ==
    /\ ui = "idle" /\ replay
    /\ replay' = FALSE
    /\ UNCHANGED <<at, flags, machine, picture, cur, ui, half, controls, screen, shown,
                   passed, late>>

(* restart and quit_all tell the worker to stop and wait three seconds.    *)
TellBug == UNCHANGED stop
Tell == stop' = [stop EXCEPT ![cur] = TRUE]

Ask(why) ==
    /\ ui = "idle"
    /\ ui' = why
    /\ Tell
    /\ pause' = FALSE
    /\ UNCHANGED <<at, machine, picture, cur, half, shown, replay, passed, late>>

Restart ==
    /\ cur < Emulators
    /\ Ask("restarting")
    /\ controls' = 0
    /\ screen' = Dark

QuitAll ==
    /\ Ask("quitting")
    /\ UNCHANGED <<controls, screen>>

JoinBug == UNCHANGED late
Join == ~Alive(cur) /\ UNCHANGED late
JoinTimesOut == Alive(cur) /\ late' = TRUE

(* The next emulator begins with nothing known, drawn or paused.           *)
Begin ==
    /\ pause' = FALSE /\ device' = FALSE /\ ours' = FALSE
    /\ fb' = Dark /\ writing' = "nothing" /\ version' = 0 /\ captured' = FALSE
    /\ latch' = {} /\ last' = {} /\ live' = FALSE

ForgetBug == UNCHANGED shown
Forget == shown' = NeverShown

StartWorker ==
    /\ ui = "restarting"
    /\ (Join \/ JoinTimesOut)
    /\ ui' = "idle"
    /\ Forget
    /\ replay' = FALSE
    /\ cur' = cur + 1
    /\ at' = [at EXCEPT ![cur + 1] = "loading"]
    /\ Begin
    /\ UNCHANGED <<stop, half, controls, screen, passed>>

Close ==
    /\ ui = "quitting"
    /\ (Join \/ JoinTimesOut)
    /\ ui' = "closed"
    /\ UNCHANGED <<at, flags, machine, picture, cur, half, controls, screen, shown, replay,
                   passed>>

UI == Ensure \/ Look \/ Draw \/ Note \/ Play
        \/ Toggle \/ StartReplay \/ StopReplay \/ Restart \/ QuitAll \/ StartWorker \/ Close

WorkerInit ==
    /\ at = [w \in Workers |-> IF w = 1 THEN "loading" ELSE "none"]
    /\ stop = [w \in Workers |-> FALSE]
    /\ pause = FALSE /\ device = FALSE /\ ours = FALSE
    /\ fb = Dark /\ writing = "nothing" /\ version = 0 /\ captured = FALSE
    /\ latch = {} /\ last = {} /\ live = FALSE
    /\ cur = 1 /\ ui = "idle" /\ half = Dark /\ controls = 0 /\ screen = Dark
    /\ shown = NeverShown /\ replay = FALSE /\ passed = FALSE /\ late = FALSE

WorkerNext == UI \/ WorkerStep \/ Guest \/ \E w \in Workers : Replaced(w)

(* A worker keeps going, and a chunk is a number of instructions: it ends  *)
(* whatever the guest draws in it.  Nobody owes a tick or a key.           *)
Fairness ==
    /\ WF_workerVars(WorkerStep) /\ SF_workerVars(Spun \/ Halt)
    /\ \A w \in Workers : WF_workerVars(Replaced(w))

WorkerSpec == WorkerInit /\ [][WorkerNext]_workerVars /\ Fairness
-----------------------------------------------------------------------------
(* Skipping "an unchanged panel": with nothing to draw, the screen shows   *)
(* what the worker published last.  It is not so if a picture was          *)
(* published between the drawing and the noting of its version, nor after  *)
(* a replay, whose last picture stays.                                     *)
Settled == ui = "idle" /\ controls = cur /\ ~replay /\ writing = "nothing"
ScreenCurrent == Settled /\ shown = version /\ ~passed => screen = fb

(* "Join before tearing down": one worker at a time inside the simulator,  *)
(* and none when the window is gone, unless a join has timed out.          *)
Joined ==
    ~late => \A w \in Workers : Alive(w) => w = cur /\ ui # "closed"

(* A worker the UI is done with ends, in the middle of a load, a chunk or  *)
(* a pause, also when the UI went on without waiting for it.               *)
Abandoned(w) == w < cur \/ (w = cur /\ ui \in {"restarting", "quitting", "closed"})
Retires == \A w \in Workers : Abandoned(w) ~> ~Alive(w)
=============================================================================
