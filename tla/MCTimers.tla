------------------------------ MODULE MCTimers ------------------------------
(* Values for TLC: the display timer and the wheel timer at one level and  *)
(* in a 2:1 ratio of periods, so that they collide at every second tick,   *)
(* and the lower-level DMA timer, whose sub-instruction period overruns.   *)
EXTENDS Timers

Pits2  == <<"pit3", "pit2">>
Dtims1 == <<"dtim3">>
All    == {"pit3", "pit2", "dtim3"}

TwoLevels == [c \in All |-> IF c = "dtim3" THEN 2 ELSE 3]
TwoRates  == [c \in All |-> CASE c = "pit3" -> {6} [] c = "pit2" -> {3}
                              [] OTHER -> {1, 5}]

(* Counted steps with frames built by the host, and block-bounded steps    *)
(* with the trampoline and a DMA timer nobody handles.                      *)
TwoBuilds == {[fast |-> FALSE, srtrap |-> FALSE, handlers |-> All],
              [fast |-> TRUE, srtrap |-> TRUE, handlers |-> {"pit3", "pit2"}]}

TaskMasks    == {0, 7}
OneCall      == {3}
=============================================================================
