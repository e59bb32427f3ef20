------------------------------ MODULE MCEsdhc -------------------------------
(* Two sectors, one of them backed by an image; requests of one or two.    *)
EXTENDS Esdhc

CONSTANTS zero, a, stale

TwoValues == {zero, a}
OneSector == <<a>>
Uart      == {35}
=============================================================================
