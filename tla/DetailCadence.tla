--------------------------- MODULE DetailCadence ---------------------------
(***************************************************************************)
(* From an edit to solid ground: the wetland session edits its scene at    *)
(* once (apps/explorer/src/wetland.rs), collision is prepared behind it    *)
(* (AsyncDetail), and the cadence                                          *)
(* (crates/matterweave-physics/src/detail_cadence.rs) decides in which     *)
(* frame what was prepared becomes solid, never through a body.            *)
(*                                                                         *)
(* A source is its set of solid cells.  Left out: materials no body        *)
(* collides with, instances that come and go, the edit limit and the       *)
(* refusals that come before an edit changes anything (no cell aimed at,   *)
(* a full scene, a cell the player stands in).                             *)
(***************************************************************************)
EXTENDS AsyncDetail, Sequences, SequencesExt

CONSTANTS
    Cells,          \* integers, for the cells of one row
    Colliders,      \* which cells are prepared as one collider
    MAX_PENDING_ADDED,
    MeshFailures    \* the derived-mesh budget may refuse an edit

ASSUME CellsAssumption ==
    /\ Cells \subseteq Int /\ Sources = SUBSET Cells
    /\ Colliders \subseteq SUBSET Cells /\ UNION Colliders = Cells
    /\ MAX_PENDING_ADDED \in Nat /\ MeshFailures \in BOOLEAN

(* Two more addresses are held here, by what is published and staged.      *)
ASSUME SceneAddressesAssumption ==
    \A a, b, c, d, e, f \in Versions : Versions \ {a, b, c, d, e, f} # {}

VARIABLES
    journal,            \* per cell, Option: solid or not, what a save replays
    pending_edits,      \* per cell, Option: what it was before the burst
    published_version, added, structural, staged,
    live,               \* the solid cells bodies collide with
    bodies              \* the cells the boxes of dynamic bodies overlap

cadenceVars == <<published_version, added, structural, staged>>
sessionVars == <<journal, pending_edits>>
vars == <<detailVars, cadenceVars, sessionVars, live, bodies>>

Option1 == Option(BOOLEAN)
PendingEdits == [old: BOOLEAN, journal: Option1]

(* What the save holds makes the scene when replayed on the generated one,  *)
(* which has no solid cell here.                                           *)
Replayed == {c \in Cells : TRUE \in journal[c]}

Held == {scene.version} \cup HeldByQueue \cup published_version \cup {s.version : s \in staged}
NewScene(source) == [version |-> Fresh(Held), source |-> source]

CadenceInit ==
    /\ journal \in [Cells -> Option1]
    /\ Replayed \notin Rejected    \* a save that cannot be built is not loaded
    /\ scene = [version |-> CHOOSE v \in Versions : TRUE, source |-> Replayed]
    /\ SlotInit
    /\ pending_edits = [c \in Cells |-> {}]
    /\ published_version = {} /\ added = <<>> /\ structural = FALSE /\ staged = {}
    /\ live = Replayed
    /\ bodies \in SUBSET (Cells \ live)

-----------------------------------------------------------------------------
(* The gate *)

Box(cells) == {c \in Cells : \E a, b \in cells : a <= c /\ c <= b}

(* detail_structural_blocked: a collider that is not live as it is.         *)
StructuralBlocked(source) ==
    \E k \in Colliders :
        /\ Box(source \cap k) \cap bodies # {}
        /\ source \cap k # live \cap k

gate_blocked_added_only(gate, source) == ToSet(gate.added) \cap bodies # {}
gate_blocked(gate, source) ==
    IF gate.structural THEN StructuralBlocked(source) ELSE ToSet(gate.added) \cap bodies # {}

Gate == [added |-> added, structural |-> structural]
OpenGate == [added |-> <<>>, structural |-> FALSE]

(* One more edit; at the limit the gate turns conservative. *)
WithRegions(regions) ==
    IF Len(regions) > MAX_PENDING_ADDED - Len(added)
    THEN [Gate EXCEPT !.structural = TRUE]
    ELSE [Gate EXCEPT !.added = @ \o regions]

SetGate(gate) == added' = gate.added /\ structural' = gate.structural

(* publish_detail_scene and what follows every accepted publication.        *)
Publish(s) ==
    /\ live' = s.source
    /\ published_version' = {s.version}
    /\ SetGate(OpenGate) /\ staged' = {}
    /\ pending_edits' = [c \in Cells |-> {}]

Queued == UNCHANGED <<epoch, running, shutdown, paused>>

-----------------------------------------------------------------------------
(* The session *)

Written(c, s) == [journal EXCEPT ![c] = {(c \in s.source)}]

(* One entry per cell keeps what the cell was before the burst. *)
NotedAfresh(c) ==
    [pending_edits EXCEPT ![c] = {[old |-> c \in scene.source, journal |-> journal[c]]}]
Noted(c) ==
    IF pending_edits[c] # {} THEN pending_edits ELSE NotedAfresh(c)

Toggled(c) ==
    NewScene(IF c \in scene.source THEN scene.source \ {c} ELSE scene.source \cup {c})
Regions(c) == IF c \in scene.source THEN <<>> ELSE <<c>>

(* The mesh of the edited prototype is refused: the cell is put back.       *)
edit_meshless(c) ==
    /\ MeshFailures
    /\ scene' = NewScene(scene.source)
    /\ UNCHANGED <<slotVars, cadenceVars, sessionVars, live, bodies>>

(* edit, while the worker takes requests. *)
edit_queued(c) ==
    /\ available
    /\ scene' = Toggled(c)
    /\ enqueue_request(Toggled(c))
    /\ SetGate(WithRegions(Regions(c)))
    /\ pending_edits' = Noted(c)
    /\ journal' = Written(c, Toggled(c))
    /\ Queued
    /\ UNCHANGED <<result, published_version, staged, live, bodies>>

(* edit, built on the calling thread: refused and put back, held back by    *)
(* the gate, or solid at once.                                             *)
edit_refused(c) ==
    /\ ~available /\ Toggled(c).source \in Rejected
    /\ scene' = NewScene(scene.source)
    /\ UNCHANGED <<slotVars, cadenceVars, sessionVars, live, bodies>>

edit_here(c) ==
    LET gate == WithRegions(Regions(c))
        s == Toggled(c)
    IN  /\ ~available /\ s.source \notin Rejected
        /\ scene' = s
        /\ journal' = Written(c, s)
        /\ IF gate_blocked(gate, s.source)
           THEN /\ staged' = {s} /\ SetGate(gate) /\ pending_edits' = Noted(c)
                /\ UNCHANGED <<published_version, live>>
           ELSE Publish(s)
        /\ UNCHANGED <<slotVars, bodies>>

edit(c) == edit_meshless(c) \/ edit_queued(c) \/ edit_refused(c) \/ edit_here(c)

(* PendingEdit::rollback for the whole burst. *)
RolledBack ==
    {c \in Cells : IF pending_edits[c] = {} THEN c \in scene.source
                   ELSE \E p \in pending_edits[c] : p.old}
RolledBackJournalForgets == [c \in Cells |-> IF pending_edits[c] = {} THEN journal[c] ELSE {}]
RolledBackJournal ==
    [c \in Cells |-> IF pending_edits[c] = {} THEN journal[c]
                     ELSE UNION {p.journal : p \in pending_edits[c]}]

(* The current source failed: the burst is undone, and what is left queued  *)
(* again, or made solid here.                                              *)
Revert ==
    LET s == IF RolledBack = scene.source THEN scene ELSE NewScene(RolledBack)
    IN  /\ scene' = s
        /\ journal' = RolledBackJournal
        /\ IF available
           THEN /\ enqueue_request(s)
                /\ pending_edits' = [c \in Cells |-> {}]
                /\ SetGate(OpenGate) /\ staged' = {}
                /\ Queued
                /\ UNCHANGED <<published_version, live>>
           ELSE Publish(s) /\ Queued /\ UNCHANGED <<requested, pending, worker>>

(* step, once a frame.  A buffered result comes first, whether or not the   *)
(* worker still runs; without it the current source is built here, once.    *)
Through == {r \in Current(scene) :
               r.scene.source \in Rejected \/ ~gate_blocked(Gate, r.scene.source)}

step_polled ==
    \E r \in Through :
        /\ result' = {}
        /\ IF r.scene.source \in Rejected THEN Revert
           ELSE Publish(r.scene) /\ Queued
                /\ UNCHANGED <<scene, requested, pending, worker, journal>>
        /\ UNCHANGED bodies

step_staged ==
    /\ ~available /\ Through = {} /\ scene \in staged
    /\ ~gate_blocked(Gate, scene.source)
    /\ Publish(scene)
    /\ UNCHANGED <<scene, slotVars, journal, bodies>>

step_here ==
    /\ ~available /\ Through = {} /\ scene \notin staged
    /\ IF published_version = {scene.version}
       THEN staged' = {} /\ UNCHANGED <<scene, journal, pending_edits, published_version,
                                        added, structural, live, result, requested,
                                        pending, worker>> /\ Queued
       ELSE IF scene.source \in Rejected
       THEN Revert /\ UNCHANGED result
       ELSE IF gate_blocked(Gate, scene.source)
       THEN staged' = {scene} /\ UNCHANGED <<scene, slotVars, journal, pending_edits,
                                             published_version, added, structural, live>>
       ELSE Publish(scene) /\ UNCHANGED <<scene, slotVars, journal>>
    /\ UNCHANGED bodies

step == step_polled \/ step_staged \/ step_here

(* Physics keeps bodies out of what is solid; otherwise they go anywhere.   *)
Move ==
    /\ bodies' \in SUBSET (Cells \ live)
    /\ UNCHANGED <<detailVars, cadenceVars, sessionVars, live>>

OthersStay == UNCHANGED <<scene, cadenceVars, sessionVars, live, bodies>>

Frame == step \/ Move \/ ((pause \/ resume) /\ OthersStay)
Behind == DetailWorker /\ OthersStay
CadenceNext == (\E c \in Cells : edit(c)) \/ Frame \/ Behind

(* Frames follow one another unless the app is paused, and the thread is    *)
(* scheduled.                                                              *)
CadenceSpec == CadenceInit /\ [][CadenceNext]_vars
                 /\ WF_vars(~paused /\ step) /\ WF_vars(WorkerRuns /\ OthersStay)

-----------------------------------------------------------------------------
(* Properties *)

(* Every variable stays within its type and its limit. *)
CadenceTypeOK ==
    /\ SlotTypeOK
    /\ journal \in [Cells -> Option1]
    /\ pending_edits \in [Cells -> Option(PendingEdits)]
    /\ published_version \in Option(Versions)
    /\ added \in Seq(Cells) /\ Len(added) <= MAX_PENDING_ADDED
    /\ structural \in BOOLEAN
    /\ staged \in Option(Scenes)
    /\ live \in Sources /\ bodies \in SUBSET Cells

(* No publication places material through a body, whichever of the paths    *)
(* it takes and whatever edits and moves came in between.                   *)
NothingThroughABody == bodies \cap live = {}

(* What a save would replay is the scene the player sees, also after a      *)
(* burst was rolled back over confirmed removals.                          *)
JournalTellsScene == Replayed = scene.source

(* Undoing the unconfirmed edits always leads back to what bodies already   *)
(* collide with.                                                           *)
BurstLeadsBackToLive == RolledBack = live

(* As long as somebody knows of the scene's version (the worker was asked,  *)
(* or is gone so that frames build), the scene becomes solid once edits,    *)
(* bodies and pauses stop, or is put back to what is solid.                 *)
Announced ==
    \/ ~available
    \/ scene.version \in HeldByQueue \cup published_version \cup {s.version : s \in staged}
AnnouncedBecomesSolid ==
    \A v \in Versions :
        <>[](scene.version = v /\ Announced /\ bodies = {} /\ ~paused)
            => <>[](live = scene.source)
=============================================================================
