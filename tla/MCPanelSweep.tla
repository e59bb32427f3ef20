---------------------------- MODULE MCPanelSweep ----------------------------
(* Three groups of three buttons and three encoders.                         *)
EXTENDS PanelSweep
=============================================================================
