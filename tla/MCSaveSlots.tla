---------------------------- MODULE MCSaveSlots ----------------------------
(* Both programs, with two recovery slots in every condition.               *)
EXTENDS SaveSlots
=============================================================================
