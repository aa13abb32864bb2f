--------------------------- MODULE MCGangScheduler ---------------------------
(* An instance of GangScheduler for TLC: a gang that can grow when it is ready. *)
EXTENDS GangScheduler

MCElastic == {<<1, 2>>}
=============================================================================
