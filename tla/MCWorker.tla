------------------------------ MODULE MCWorker ------------------------------
(* Values for TLC: a session of two emulators, one frame besides the dark  *)
(* one, snapshots of the intro and of what follows.                        *)
EXTENDS Worker

Frames == {"dark", "lit"}
=============================================================================
