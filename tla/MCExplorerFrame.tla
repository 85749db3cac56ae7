-------------------------- MODULE MCExplorerFrame --------------------------
(* The frame loop over two centers and chunks that are in every window. *)
EXTENDS ExplorerFrame

MCWindow == [c \in Centers |-> Keys]
MCFaces == [k \in Keys |-> Keys \ {k}]
MCDistance == [c \in Centers |-> [k \in Keys |-> 0]]
=============================================================================
