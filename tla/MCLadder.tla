------------------------------ MODULE MCLadder ------------------------------
(* Two firmwares of one name and a ladder of two rungs.                    *)
EXTENDS Ladder, TLC

CONSTANTS a, b

TwoFirmwares == {a, b}
OwnImage     == (a :> "mainA" @@ b :> "mainB")
TwoRungs     == {120, 400}
=============================================================================
