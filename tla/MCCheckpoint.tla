---------------------------- MODULE MCCheckpoint ----------------------------
(* Values for TLC: one component of each kind, plus the timers; damage to  *)
(* each of them, one build manifest besides the wrong one.                 *)
EXTENDS Checkpoint

Queue  == {"uart_in", "edma_tx"}
Card   == {"esdhc"}
Timer  == {"timers"}
Builds == {"a", "b"}

OtherRate == {<<"timers", "config">>}
AnyDamage == {<<"uart_in", "schema">>, <<"edma_tx", "config">>,
              <<"timers", "schema">>, <<"esdhc", "schema">>} \cup OtherRate
=============================================================================
