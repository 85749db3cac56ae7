-------------------------- MODULE MCDetailCadence --------------------------
(* A row of cells in one collider, too many solid cells for the budget,     *)
(* room for one region in the gate, and a bounded number of edits.          *)
EXTENDS DetailCadence

CONSTANT MaxEdits
VARIABLE edits    \* so many were attempted

MCSources == SUBSET Cells
MCRejected == {Cells}
MCColliders == {Cells}

Edit == edits < MaxEdits /\ edits' = edits + 1 /\ \E c \in Cells : edit(c)
Rest == UNCHANGED edits /\ (Frame \/ Behind)

MCInit == CadenceInit /\ edits = 0
MCNext == Edit \/ Rest
MCSpec == MCInit /\ [][MCNext]_<<vars, edits>>
            /\ WF_vars(~paused /\ step) /\ WF_vars(WorkerRuns /\ OthersStay)
=============================================================================
