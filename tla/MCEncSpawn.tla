----------------------------- MODULE MCEncSpawn -----------------------------
(* The application thread and two workers. *)
EXTENDS EncSpawn

CONSTANTS m, w1, w2, nobody

TwoWorkers == {w1, w2}
=============================================================================
