---------------------------- MODULE AsyncDetail ----------------------------
(***************************************************************************)
(* Background preparation of detail collision shapes                       *)
(* (crates/matterweave-physics/src/async_detail_collision.rs) for a scene  *)
(* its owner edits (crates/matterweave-detail/src/scene.rs).  One pending, *)
(* one running and one completed slot meet behind one mutex.               *)
(*                                                                         *)
(* A scene is its opaque version and its source.  Versions and epochs are  *)
(* addresses (Arc): a new one differs from every one still held, and one   *)
(* nobody holds may come again.  Preparation is a function of the source:  *)
(* it fails for the Rejected ones, which exceed a budget.  Left out:       *)
(* the diagnostic counters `discarded`, `generation` and `completed`.  An  *)
(* operator named after another one and a defect shows what the properties *)
(* would notice; no action uses it.                                        *)
(***************************************************************************)
EXTENDS Integers, FiniteSets

CONSTANTS
    Versions, Epochs,
    Sources,     \* what a scene can contain
    Rejected     \* the sources PreparedDetailCollision::build refuses

ASSUME RejectedAssumption == Rejected \subseteq Sources

(* There is always one more address than those still held: the scene, the  *)
(* request, the running job and the result; the epoch and the running job's. *)
ASSUME AddressesAssumption ==
    /\ Epochs # {} /\ \A a, b \in Epochs : Epochs \ {a, b} # {}
    /\ Versions # {}
    /\ \A a, b, c, d \in Versions : Versions \ {a, b, c, d} # {}

VARIABLES
    scene,      \* the authoritative scene
    epoch, requested, pending, running, result, shutdown, paused,
    worker      \* where the worker thread is

queueVars == <<epoch, requested, pending, running, result>>
slotVars == <<queueVars, shutdown, paused, worker>>
detailVars == <<scene, slotVars>>

Option(S) == {s \in SUBSET S : \A x, y \in s : x = y}
Scenes == [version: Versions, source: Sources]
Jobs == [scene: Scenes, epoch: Epochs]

(* The versions the queue keeps alive. *)
HeldByQueue == requested \cup {j.scene.version : j \in pending \cup running \cup result}

(* A new allocation: none of the addresses still held. *)
Fresh(held) == CHOOSE v \in Versions \ held : TRUE

-----------------------------------------------------------------------------
SlotInit ==
    /\ epoch = CHOOSE e \in Epochs : TRUE
    /\ requested = {} /\ pending = {} /\ running = {} /\ result = {}
    /\ paused = FALSE
    /\ \/ worker = "checking" /\ shutdown = FALSE
       \/ worker = "exited" /\ shutdown = TRUE     \* no thread was started

Wake == worker' = IF worker = "asleep" THEN "checking" ELSE worker

(* JoinHandle::is_finished turns true some time after a panic ("dying").   *)
available == worker # "exited"

(* Latest request wins, and what is under way for this version stays.       *)
enqueue_request_keeping_pending(s) ==
    LET already == \E j \in running \cup result : j.epoch = epoch /\ j.scene.version = s.version
    IN  /\ requested' = {s.version}
        /\ IF pending # {} \/ already
           THEN UNCHANGED <<pending, worker>>
           ELSE pending' = {[scene |-> s, epoch |-> epoch]} /\ Wake
enqueue_request(s) ==
    LET already == \E j \in running \cup result : j.epoch = epoch /\ j.scene.version = s.version
    IN  /\ requested' = {s.version}
        /\ IF \E j \in pending : j.scene.version = s.version THEN UNCHANGED <<pending, worker>>
           ELSE IF already THEN pending' = {} /\ UNCHANGED worker
           ELSE pending' = {[scene |-> s, epoch |-> epoch]} /\ Wake

(* request, for a scene that may be the one just edited. *)
request(s) ==
    /\ available /\ ~shutdown
    /\ enqueue_request(s)
    /\ UNCHANGED <<epoch, running, result, shutdown, paused>>

(* What poll may hand over for a scene. *)
Current(s) == {r \in result : /\ r.epoch = epoch
                              /\ r.scene.version = s.version
                              /\ requested = {s.version}}

(* poll_retaining, when the gate lets the result through.  (A cancelled     *)
(* result would be dropped here; cancel leaves none.)                      *)
poll(s) ==
    /\ Current(s) # {}
    /\ result' = {}
    /\ UNCHANGED <<epoch, requested, pending, running, shutdown, paused, worker>>

cancel ==
    /\ pending' = {} /\ result' = {} /\ requested' = {}
    /\ epoch' = CHOOSE e \in Epochs \ ({epoch} \cup {j.epoch : j \in running}) : TRUE
reset ==
    /\ ~shutdown
    /\ cancel
    /\ UNCHANGED <<running, shutdown, paused, worker>>

pause ==
    /\ ~paused /\ ~shutdown
    /\ paused' = TRUE
    /\ UNCHANGED <<queueVars, shutdown, worker>>

resume ==
    /\ paused /\ ~shutdown
    /\ paused' = FALSE
    /\ Wake
    /\ UNCHANGED <<queueVars, shutdown>>

(* Drop: the join that follows waits for the thread. *)
drop ==
    /\ ~shutdown
    /\ shutdown' = TRUE /\ pending' = {}
    /\ Wake
    /\ UNCHANGED <<epoch, requested, running, result, paused>>

-----------------------------------------------------------------------------
(* Worker *)

MustWait == ~shutdown /\ (paused \/ pending = {})

worker_wait ==
    /\ worker = "checking" /\ MustWait
    /\ worker' = "asleep"
    /\ UNCHANGED <<queueVars, shutdown, paused>>

worker_exit ==
    /\ worker = "checking" /\ shutdown
    /\ worker' = "exited"
    /\ UNCHANGED <<queueVars, shutdown, paused>>

begin_job ==
    /\ worker = "checking" /\ ~shutdown /\ ~MustWait
    /\ running' = pending /\ pending' = {}
    /\ worker' = "running"
    /\ UNCHANGED <<epoch, requested, result, shutdown, paused>>

(* A finished preparation, built or refused, is buffered while it is the    *)
(* one wanted.                                                             *)
Stale(job) == shutdown \/ epoch # job.epoch \/ requested # {job.scene.version}
finish_job ==
    /\ worker = "running"
    /\ \E job \in running : result' = IF Stale(job) THEN result ELSE {job}
    /\ running' = {}
    /\ worker' = "checking"
    /\ UNCHANGED <<epoch, requested, pending, shutdown, paused>>

(* A panic ends the thread with its job still marked running. *)
worker_panic ==
    /\ worker = "running"
    /\ worker' = "dying"
    /\ UNCHANGED <<queueVars, shutdown, paused>>

worker_gone ==
    /\ worker = "dying"
    /\ worker' = "exited"
    /\ UNCHANGED <<queueVars, shutdown, paused>>

WorkerRuns == worker_wait \/ worker_exit \/ begin_job \/ finish_job \/ worker_gone
DetailWorker == WorkerRuns \/ worker_panic

-----------------------------------------------------------------------------
(* An owner that edits, asks and polls in any order. *)

Change(source) ==
    /\ source # scene.source
    /\ scene' = [version |-> Fresh({scene.version} \cup HeldByQueue), source |-> source]
    /\ UNCHANGED slotVars

DetailInit ==
    /\ scene \in [version: {CHOOSE v \in Versions : TRUE}, source: Sources]
    /\ SlotInit

DetailNext ==
    \/ \E source \in Sources : Change(source)
    \/ request(scene) /\ UNCHANGED scene
    \/ poll(scene) /\ UNCHANGED scene
    \/ reset /\ UNCHANGED scene
    \/ pause /\ UNCHANGED scene
    \/ resume /\ UNCHANGED scene
    \/ drop /\ UNCHANGED scene
    \/ DetailWorker /\ UNCHANGED scene

(* The thread is scheduled; nothing obliges the owner to do anything, or a  *)
(* preparation to panic.                                                   *)
DetailSpec == DetailInit /\ [][DetailNext]_detailVars
                /\ WF_detailVars(WorkerRuns /\ UNCHANGED scene)

-----------------------------------------------------------------------------
(* Properties *)

(* Every variable stays within its type. *)
SlotTypeOK ==
    /\ scene \in Scenes
    /\ epoch \in Epochs
    /\ requested \in Option(Versions)
    /\ pending \in Option(Jobs) /\ running \in Option(Jobs) /\ result \in Option(Jobs)
    /\ shutdown \in BOOLEAN /\ paused \in BOOLEAN
    /\ worker \in {"checking", "asleep", "running", "dying", "exited"}

(* A version tells everything about a source: work tagged with the version  *)
(* of the scene was built from what the scene is now, although addresses    *)
(* are reused.                                                             *)
VersionsIdentify ==
    \A j \in pending \cup running \cup result :
        j.scene.version = scene.version => j.scene = scene

(* An unchanged scene is not prepared twice: the three slots never hold the *)
(* same version of one epoch, and what is pending is what is wanted.        *)
PreparedOnce ==
    /\ \A j \in pending : requested = {j.scene.version} /\ j.epoch = epoch
    /\ pending \cap running = {} /\ pending \cap result = {} /\ running \cap result = {}

(* The slots implement the promise, whatever the worker is doing meanwhile. *)
Serving == ~shutdown /\ worker \in {"checking", "asleep", "running"}
Owed == \E j \in pending \cup running : j.epoch = epoch /\ requested = {j.scene.version}

Promise == INSTANCE LatestPreparation WITH
    Ages <- Epochs, wanted <- requested, owed <- Serving /\ Owed,
    ready <- {<<r.scene.version, r.epoch>> : r \in result},
    age <- epoch, serving <- Serving

ImplementsPromise == Promise!Safety
=============================================================================
