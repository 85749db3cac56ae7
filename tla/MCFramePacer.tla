---------------------------- MODULE MCFramePacer ----------------------------
(* A cheap scene, one parked at the boundary of two cadences of a display  *)
(* of period 4 and one that needs the slowest there.                       *)
EXTENDS FramePacer

Scenes == {{1}, {4, 5}, {9}}
=============================================================================
