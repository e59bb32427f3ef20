---------------------------- MODULE MCPanelInput ----------------------------
(* Two buttons on one channel, one of them a latching modifier, a button   *)
(* on another channel, one this product has no wire for, and one encoder.  *)
EXTENDS PanelInput, TLC

CONSTANTS func, trig, page, absent, knob

PacedOrNot   == {0, 2}
SomeButtons  == {func, trig, page, absent}
SomeLatching == {func}
SomeEncoders == {knob}
SomeWire     == func :> 0 @@ trig :> 0 @@ page :> 1 @@ absent :> 99
=============================================================================
