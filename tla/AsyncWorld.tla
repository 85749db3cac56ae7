----------------------------- MODULE AsyncWorld -----------------------------
(***************************************************************************)
(* Background preparation for one authoritative world                      *)
(* (crates/matterweave-core/src/async_world.rs, with the World operations  *)
(* of lib.rs and streaming.rs it relies on).                               *)
(*                                                                         *)
(* A caller thread owns the world and edits it.  One worker thread         *)
(* prepares stream windows (around a center) and chunk meshes on           *)
(* snapshots.  Both meet in a queue behind one mutex: every action below   *)
(* is one critical section, so the steps between two critical sections     *)
(* interleave freely.                                                      *)
(*                                                                         *)
(* An Option is a set with at most one element.  A mesh is what it was     *)
(* built from (the chunk's material and revision) and its size in bytes.   *)
(* Left out: the seed (it changes only with the world, which the contract  *)
(* of reset puts behind a new generation), worlds that do not stream,      *)
(* nonfinite positions (refused without effect), and the diagnostic        *)
(* counter `discarded`.  An operator named after the one below it and a    *)
(* defect (EditedWithoutRevision, ...) is that operator with a plausible   *)
(* bug: no action uses it, it shows what the properties would notice.      *)
(***************************************************************************)
EXTENDS Integers, Sequences, FiniteSets, SequencesExt

CONSTANTS
    Centers,      \* window centers (chunk columns an eye can be in)
    Keys,         \* chunk keys
    Window,       \* [Centers -> SUBSET Keys]: the chunks of a window
    Faces,        \* [Keys -> SUBSET Keys]: face neighbours of a chunk
    Materials,    \* what an edit can make of a chunk
    Air,          \* the content of a chunk without solid cells
    MeshSizes,    \* possible sizes of a completed mesh
    MaxRevision,  \* stands for u64::MAX: the world refuses to move beyond it
    MaxGeneration,\* stands for u64::MAX: reset retires the worker there
    CompletedCap, \* stands for u64::MAX: `completed` saturates
    MAX_QUEUED_MESH_JOBS,
    MAX_MESH_RESULTS,
    MAX_MESH_RESULT_BYTES,
    STALE_STREAM_FALLBACK_AFTER

ASSUME ConstantsAssumption ==
    /\ Window \in [Centers -> SUBSET Keys]
    /\ Faces \in [Keys -> SUBSET Keys]
    /\ Air \notin Materials
    /\ MeshSizes \subseteq Nat
    /\ MaxRevision \in Nat
    /\ MaxGeneration \in Nat
    /\ CompletedCap \in Nat
    /\ MAX_QUEUED_MESH_JOBS \in Nat \ {0}
    /\ MAX_MESH_RESULTS \in Nat \ {0}
    /\ MAX_MESH_RESULT_BYTES \in Nat
    /\ STALE_STREAM_FALLBACK_AFTER \in Nat \ {0}

VARIABLES
    world,             \* the caller's authoritative world
    requested_center,  \* Option: center of the caller's latest request
    mesh_call,         \* Option: a request_mesh between its two critical sections
    uploaded,          \* per chunk, Option: the mesh the caller last took
    dropped,           \* the controller is being dropped
    stream,            \* Option: the pending window preparation
    stream_result,     \* Option: the staged window
    stream_active,     \* Option: identity of the preparation being executed
    stream_requested,  \* Option: identity of the latest request
    stale_streams,     \* consecutive edit-stale preparations ...
    stale_center,      \* ... and, as an Option, the destination they count for
    meshes,            \* queued mesh jobs
    active,            \* keys queued or executing
    mesh_results,      \* completed meshes
    mesh_result_bytes,
    prefer_mesh, inflight, shutdown, generation, paused, completed,
    worker,            \* where the worker thread is
    stream_job,        \* Option: the window preparation it executes ...
    mesh_job           \* ... or the mesh

callerVars == <<world, requested_center, mesh_call, uploaded, dropped>>
stallVars  == <<stale_streams, stale_center>>
streamVars == <<stream, stream_result, stream_active, stream_requested, stallVars>>
meshVars   == <<meshes, active, mesh_results, mesh_result_bytes>>
gateVars   == <<shutdown, generation, paused>>
jobVars    == <<stream_job, mesh_job>>
workerVars == <<prefer_mesh, inflight, completed, worker, jobVars>>
vars == <<callerVars, streamVars, meshVars, gateVars, workerVars>>

-----------------------------------------------------------------------------
(* Data *)

Option(S) == {s \in SUBSET S : \A x, y \in s : x = y}
Revisions == 0 .. MaxRevision
Generations == 0 .. MaxGeneration
Contents == Materials \cup {Air}

Worlds == [revision: Revisions, center: Option(Centers),
           content: [Keys -> Contents], chunk_revisions: [Keys -> Revisions]]

(* A window preparation, before and after the worker has moved its window. *)
StreamUnits == [world: Worlds, center: Centers,
                source_revision: Revisions, generation: Generations]
Identities == Centers \X Revisions \X Generations
Identity(u) == <<u.center, u.source_revision, u.generation>>

MeshJobs == [key: Keys, voxels: Contents, revision: Revisions,
             generation: Generations]
MeshCalls == [key: Keys, voxels: Contents, revision: Revisions]
Meshes == [voxels: Contents, revision: Revisions]
MeshResults == [key: Keys, mesh: Meshes, bytes: MeshSizes,
                generation: Generations]

-----------------------------------------------------------------------------
(* The authoritative world *)

Resident(w) == UNION {Window[c] : c \in w.center}

(* The version of a resident nonempty chunk; none for any other key. *)
chunk_revision(w, k) ==
    IF k \in Resident(w) /\ w.content[k] # Air THEN {w.chunk_revisions[k]} ELSE {}

(* An accepted edit of chunk k, which also dirties the neighbours whose     *)
(* shared face the cell touches.                                           *)
EditedWithoutRevision(w, k, m, touched) == [w EXCEPT !.content = [@ EXCEPT ![k] = m]]
EditedWithoutOwnChunk(w, k, m, touched) ==
    [w EXCEPT !.revision = @ + 1, !.content = [@ EXCEPT ![k] = m]]
Edited(w, k, m, touched) ==
    [w EXCEPT !.revision = @ + 1,
              !.content = [@ EXCEPT ![k] = m],
              !.chunk_revisions = [x \in Keys |->
                  IF x = k THEN IF m = Air THEN 0 ELSE w.revision + 1
                  ELSE IF x \in touched /\ chunk_revision(w, x) # {}
                       THEN w.revision + 1
                  ELSE w.chunk_revisions[x]]]

(* stream_around moves the window unless it is there or revisions ran out. *)
CanRewindow(w, c) == w.center # {c} /\ w.revision < MaxRevision
stream_around(w, c) ==
    LET new == Window[c]
        changed == (Resident(w) \ new) \cup (new \ Resident(w))
        dirty == changed \cup UNION {Faces[k] : k \in changed}
    IN  IF ~CanRewindow(w, c) THEN w
        ELSE [w EXCEPT !.revision = @ + 1,
                       !.center = {c},
                       !.chunk_revisions = [k \in Keys |->
                           IF k \notin new \/ w.content[k] = Air THEN 0
                           ELSE IF k \in dirty THEN w.revision + 1 ELSE w.chunk_revisions[k]]]

-----------------------------------------------------------------------------
Init ==
    /\ world \in [revision: {0}, center: {{}}, content: [Keys -> Contents],
                  chunk_revisions: {[k \in Keys |-> 0]}]
    /\ requested_center = {} /\ mesh_call = {} /\ dropped = FALSE
    /\ uploaded = [k \in Keys |-> {}]
    /\ stream = {} /\ stream_result = {}
    /\ stream_active = {} /\ stream_requested = {}
    /\ stale_streams = 0 /\ stale_center = {}
    /\ meshes = <<>> /\ active = {} /\ mesh_results = <<>>
    /\ mesh_result_bytes = 0
    /\ prefer_mesh = FALSE /\ inflight = 0 /\ completed = 0
    /\ stream_job = {} /\ mesh_job = {}
    /\ generation = 0 /\ paused = FALSE
    /\ \/ worker = "checking" /\ shutdown = FALSE
       \/ worker = "exited" /\ shutdown = TRUE      \* the thread did not start

(* wake.notify_all(): a worker waiting on the condition variable looks again. *)
WakeForgotten == UNCHANGED worker
Wake == worker' = IF worker = "asleep" THEN "checking" ELSE worker

clear_stall == stale_streams' = 0 /\ stale_center' = {}

note_rejected_stream(c, edit_stale) ==
    IF ~edit_stale THEN clear_stall
    ELSE /\ stale_streams' = IF stale_center = {c} THEN stale_streams + 1 ELSE 1
         /\ stale_center' = {c}

CallerIdle == mesh_call = {} /\ ~dropped

available == ~shutdown /\ worker # "exited"

-----------------------------------------------------------------------------
(* Caller: the world itself *)

(* World::set on a resident chunk. *)
Edit(k, m, touched) ==
    /\ CallerIdle
    /\ k \in Resident(world) /\ m # world.content[k] /\ world.revision < MaxRevision
    /\ touched \subseteq Faces[k]
    /\ world' = Edited(world, k, m, touched)
    /\ UNCHANGED <<requested_center, mesh_call, uploaded, dropped,
                   streamVars, meshVars, gateVars, workerVars>>

(* The synchronous path of a caller that does not wait for the worker. *)
StreamAround(c) ==
    /\ CallerIdle
    /\ CanRewindow(world, c)
    /\ world' = stream_around(world, c)
    /\ UNCHANGED <<requested_center, mesh_call, uploaded, dropped,
                   streamVars, meshVars, gateVars, workerVars>>

-----------------------------------------------------------------------------
(* Caller: stream windows *)

Superseded(id) == {u \in stream : Identity(u) # id}

request_stream(c) ==
    LET id == <<c, world.revision, generation>>
        pending == stream \ Superseded(id)
        known == stream_active = {id} \/ pending # {}
                   \/ \E u \in stream_result : Identity(u) = id
    IN
    /\ CallerIdle
    /\ requested_center' = {c}
    /\ \/ /\ world.center = {c}
          /\ stream' = {} /\ stream_result' = {} /\ stream_requested' = {}
          /\ clear_stall
          /\ UNCHANGED worker
       \/ /\ world.center # {c} /\ shutdown
          /\ UNCHANGED <<stream, stream_result, stream_requested, stallVars, worker>>
       \/ /\ world.center # {c} /\ ~shutdown
          /\ IF requested_center # {c} THEN clear_stall ELSE UNCHANGED stallVars
          /\ stream_requested' = {id}
          /\ IF known THEN stream' = pending /\ UNCHANGED worker
             ELSE /\ stream' = {[world |-> world, center |-> c, generation |-> generation,
                                 source_revision |-> world.revision]}
                  /\ Wake
          /\ UNCHANGED stream_result
    /\ UNCHANGED <<world, mesh_call, uploaded, dropped, stream_active, meshVars,
                   gateVars, prefer_mesh, inflight, completed, jobVars>>

(* The one place a staged window replaces the world. *)
acceptable_ignoring_edits(r) == r.generation = generation /\ requested_center = {r.center}
acceptable(r) ==
    /\ r.generation = generation
    /\ requested_center = {r.center}
    /\ r.source_revision = world.revision

poll_stream ==
    /\ CallerIdle
    /\ \E r \in stream_result :
         /\ stream_result' = {}
         /\ \/ /\ acceptable(r)
               /\ clear_stall
               /\ world' = r.world
            \/ /\ ~acceptable(r)
               /\ note_rejected_stream(r.center,
                     /\ r.generation = generation
                     /\ requested_center = {r.center}
                     /\ r.source_revision # world.revision)
               /\ UNCHANGED world
    /\ UNCHANGED <<requested_center, mesh_call, uploaded, dropped, stream,
                   stream_active, stream_requested, meshVars, gateVars, workerVars>>

StallReachedLate(c) ==
    /\ stale_streams > STALE_STREAM_FALLBACK_AFTER
    /\ stale_center = {c} /\ requested_center = {c}
StallReached(c) ==
    /\ stale_streams >= STALE_STREAM_FALLBACK_AFTER
    /\ stale_center = {c} /\ requested_center = {c}

sync_fallback_if_stalled(c) ==
    /\ CallerIdle
    /\ \/ /\ world.center = {c} /\ stale_center = {c}
          /\ clear_stall
          /\ UNCHANGED world
       \/ /\ world.center # {c} /\ StallReached(c) /\ CanRewindow(world, c)
          /\ world' = stream_around(world, c)
          /\ clear_stall
    /\ UNCHANGED <<requested_center, mesh_call, uploaded, dropped, stream, stream_result,
                   stream_active, stream_requested, meshVars, gateVars, workerVars>>

-----------------------------------------------------------------------------
(* Caller: meshes *)

accepts_mesh(k, revision) ==
    /\ ~shutdown
    /\ Len(meshes) < MAX_QUEUED_MESH_JOBS
    /\ k \notin active
    /\ \A r \in ToSet(mesh_results) : ~(r.key = k /\ r.mesh.revision = revision)

(* First critical section, with the halo copied after it: the world is      *)
(* borrowed, so key, revision and voxels belong together.                  *)
request_mesh(k) ==
    /\ CallerIdle
    /\ \E revision \in chunk_revision(world, k) :
         /\ accepts_mesh(k, revision)
         /\ mesh_call' = {[key |-> k, voxels |-> world.content[k], revision |-> revision]}
    /\ UNCHANGED <<world, requested_center, uploaded, dropped,
                   streamVars, meshVars, gateVars, workerVars>>

(* Second critical section. *)
push_mesh ==
    /\ \E call \in mesh_call :
         /\ active' = active \cup {call.key}
         /\ meshes' = Append(meshes, [key |-> call.key, voxels |-> call.voxels,
                                      revision |-> call.revision, generation |-> generation])
    /\ mesh_call' = {}
    /\ Wake
    /\ UNCHANGED <<world, requested_center, uploaded, dropped, streamVars, mesh_results,
                   mesh_result_bytes, gateVars, prefer_mesh, inflight, completed, jobVars>>

valid(r) == r.generation = generation /\ chunk_revision(world, r.key) = {r.mesh.revision}

(* Bytes still buffered once the first n results are taken. *)
BytesWithout(n) == mesh_result_bytes
    - FoldLeft(LAMBDA sum, r : sum + r.bytes, 0, SubSeq(mesh_results, 1, n))

(* Pops stale results up to and including the first valid one, which the    *)
(* caller uploads.                                                         *)
poll_mesh ==
    /\ CallerIdle /\ mesh_results # <<>>
    /\ \/ \E n \in DOMAIN mesh_results :
            /\ valid(mesh_results[n])
            /\ \A i \in 1 .. n - 1 : ~valid(mesh_results[i])
            /\ mesh_results' = SubSeq(mesh_results, n + 1, Len(mesh_results))
            /\ mesh_result_bytes' = BytesWithout(n)
            /\ uploaded' = [uploaded EXCEPT ![mesh_results[n].key] = {mesh_results[n].mesh}]
       \/ /\ \A n \in DOMAIN mesh_results : ~valid(mesh_results[n])
          /\ mesh_results' = <<>>
          /\ mesh_result_bytes' = BytesWithout(Len(mesh_results))
          /\ UNCHANGED uploaded
    /\ UNCHANGED <<world, requested_center, mesh_call, dropped, streamVars,
                   meshes, active, gateVars, workerVars>>

-----------------------------------------------------------------------------
(* Caller: control *)

Cancel ==
    /\ meshes' = <<>> /\ mesh_results' = <<>> /\ mesh_result_bytes' = 0 /\ active' = {}
    /\ stream' = {} /\ stream_result' = {} /\ stream_requested' = {}
    /\ clear_stall
    /\ requested_center' = {}
    /\ \/ /\ generation < MaxGeneration
          /\ generation' = generation + 1
          /\ UNCHANGED <<shutdown, worker>>
       \/ /\ generation = MaxGeneration
          /\ shutdown' = TRUE
          /\ Wake
          /\ UNCHANGED generation
    /\ UNCHANGED <<mesh_call, dropped, stream_active, paused,
                   prefer_mesh, inflight, completed, jobVars>>

reset == CallerIdle /\ Cancel /\ UNCHANGED <<world, uploaded>>

(* A world no window of which was published yet, loaded at any revision. *)
NewWorlds == [revision: Revisions, center: {{}}, content: [Keys -> Contents],
              chunk_revisions: {[k \in Keys |-> 0]}]

(* World replacement: another world, with whatever revisions it has, and    *)
(* the reset its contract asks for.  Nothing of the old world stays drawn.  *)
replace_world(w) ==
    /\ CallerIdle
    /\ Cancel
    /\ world' = w
    /\ uploaded' = [k \in Keys |-> {}]

pause ==
    /\ CallerIdle /\ ~paused
    /\ paused' = TRUE
    /\ UNCHANGED <<callerVars, streamVars, meshVars, shutdown, generation, workerVars>>

resume ==
    /\ CallerIdle /\ paused
    /\ paused' = FALSE
    /\ Wake
    /\ UNCHANGED <<callerVars, streamVars, meshVars, shutdown, generation,
                   prefer_mesh, inflight, completed, jobVars>>

(* Drop: the join that follows waits for worker = "exited". *)
drop ==
    /\ CallerIdle
    /\ dropped' = TRUE /\ shutdown' = TRUE
    /\ meshes' = <<>> /\ stream' = {}
    /\ Wake
    /\ UNCHANGED <<world, requested_center, mesh_call, uploaded, stream_result,
                   stream_active, stream_requested, stallVars, active, mesh_results,
                   mesh_result_bytes, generation, paused, prefer_mesh, inflight,
                   completed, jobVars>>

-----------------------------------------------------------------------------
(* Worker *)

MustWaitPausedFirst == paused \/ (~shutdown /\ stream = {} /\ meshes = <<>>)
MustWait == ~shutdown /\ (paused \/ (stream = {} /\ meshes = <<>>))

worker_wait ==
    /\ worker = "checking" /\ MustWait
    /\ worker' = "asleep"
    /\ UNCHANGED <<callerVars, streamVars, meshVars, gateVars,
                   prefer_mesh, inflight, completed, jobVars>>

worker_exit ==
    /\ worker = "checking" /\ shutdown
    /\ worker' = "exited"
    /\ UNCHANGED <<callerVars, streamVars, meshVars, gateVars,
                   prefer_mesh, inflight, completed, jobVars>>

(* Alternates between the two classes when both are ready. *)
take_job ==
    /\ worker = "checking" /\ ~shutdown /\ ~MustWait
    /\ \/ /\ meshes # <<>> /\ (prefer_mesh \/ stream = {})
          /\ prefer_mesh' = FALSE
          /\ mesh_job' = {Head(meshes)} /\ meshes' = Tail(meshes)
          /\ UNCHANGED <<stream, stream_active, stream_job>>
       \/ /\ meshes = <<>> \/ (~prefer_mesh /\ stream # {})
          /\ prefer_mesh' = TRUE
          /\ stream_job' = stream /\ stream' = {}
          /\ stream_active' = {Identity(u) : u \in stream}
          /\ UNCHANGED <<meshes, mesh_job>>
    /\ inflight' = 1
    /\ worker' = "running"
    /\ UNCHANGED <<callerVars, stream_result, stream_requested, stallVars,
                   active, mesh_results, mesh_result_bytes, gateVars, completed>>

(* The generation the unit was stamped with was cancelled meanwhile. *)
Cancelled(u) == shutdown \/ generation # u.generation

finish_stream ==
    /\ worker = "running"
    /\ \E u \in stream_job :
         \/ /\ Cancelled(u)
            /\ UNCHANGED <<stream_result, stallVars>>
         \/ /\ ~Cancelled(u)
            /\ stream_requested # {Identity(u)}
            /\ note_rejected_stream(u.center,
                  \E id \in stream_requested :
                     id[1] = u.center /\ id[3] = u.generation /\ id[2] # u.source_revision)
            /\ UNCHANGED stream_result
         \/ /\ ~Cancelled(u)
            /\ stream_requested = {Identity(u)}
            /\ stream_result' = {[u EXCEPT !.world = stream_around(@, u.center)]}
            /\ IF stream_result = {} THEN UNCHANGED stallVars
               ELSE \E old \in stream_result :
                      note_rejected_stream(old.center,
                         /\ old.center = u.center /\ old.generation = u.generation
                         /\ old.source_revision # u.source_revision)
    /\ stream_active' = {}
    /\ inflight' = 0 /\ stream_job' = {}
    /\ worker' = "counting"
    /\ UNCHANGED <<callerVars, stream, stream_requested, meshVars, gateVars,
                   prefer_mesh, completed, mesh_job>>

Full(bytes) == \/ Len(mesh_results) >= MAX_MESH_RESULTS
               \/ mesh_results # <<>> /\ mesh_result_bytes + bytes > MAX_MESH_RESULT_BYTES

(* The key becomes requestable again, unless a reset already freed it. *)
ReleasedAlways(u) == active \ {u.key}
ReleasedOnlyIfStored(u) == IF Cancelled(u) \/ Len(mesh_results) >= MAX_MESH_RESULTS
                           THEN active ELSE active \ {u.key}
Released(u) == IF generation = u.generation THEN active \ {u.key} ELSE active

finish_mesh ==
    /\ worker = "running"
    /\ \E u \in mesh_job, bytes \in MeshSizes :
         /\ active' = Released(u)
         /\ IF Cancelled(u) \/ Full(bytes)
            THEN UNCHANGED <<mesh_results, mesh_result_bytes>>
            ELSE /\ mesh_result_bytes' = mesh_result_bytes + bytes
                 /\ mesh_results' = Append(mesh_results,
                      [key |-> u.key, generation |-> u.generation, bytes |-> bytes,
                       mesh |-> [voxels |-> u.voxels, revision |-> u.revision]])
    /\ inflight' = 0 /\ mesh_job' = {}
    /\ worker' = "counting"
    /\ UNCHANGED <<callerVars, streamVars, meshes, gateVars, prefer_mesh, completed,
                   stream_job>>

(* The critical section after run_job: the executed unit is counted. *)
count_unit ==
    /\ worker = "counting"
    /\ completed' = IF completed < CompletedCap THEN completed + 1 ELSE completed
    /\ worker' = "checking"
    /\ UNCHANGED <<callerVars, streamVars, meshVars, gateVars, prefer_mesh, inflight, jobVars>>

(* An unexpected panic in a unit ends the thread outside the lock. *)
worker_panic ==
    /\ worker = "running"
    /\ worker' = "exited" /\ stream_job' = {} /\ mesh_job' = {}
    /\ UNCHANGED <<callerVars, streamVars, meshVars, gateVars, prefer_mesh, inflight, completed>>

-----------------------------------------------------------------------------
Caller ==
    \/ \E k \in Keys, m \in Contents, touched \in SUBSET Keys : Edit(k, m, touched)
    \/ \E c \in Centers : StreamAround(c) \/ request_stream(c) \/ sync_fallback_if_stalled(c)
    \/ poll_stream
    \/ \E k \in Keys : request_mesh(k)
    \/ push_mesh \/ poll_mesh
    \/ reset \/ pause \/ resume \/ drop
    \/ \E w \in NewWorlds : replace_world(w)

Worker == worker_wait \/ worker_exit \/ take_job \/ finish_stream \/ finish_mesh
            \/ count_unit \/ worker_panic

Next == Caller \/ Worker

Spec == Init /\ [][Next]_vars
-----------------------------------------------------------------------------
(* Properties *)

WorkerStates == {"checking", "asleep", "running", "counting", "exited"}

(* Every variable stays within its type. *)
TypeOK ==
    /\ world \in Worlds
    /\ requested_center \in Option(Centers)
    /\ mesh_call \in Option(MeshCalls)
    /\ uploaded \in [Keys -> Option(Meshes)]
    /\ dropped \in BOOLEAN
    /\ stream \in Option(StreamUnits)
    /\ stream_result \in Option(StreamUnits)
    /\ stream_active \in Option(Identities)
    /\ stream_requested \in Option(Identities)
    /\ stale_streams \in Nat
    /\ stale_center \in Option(Centers)
    /\ meshes \in Seq(MeshJobs)
    /\ active \in SUBSET Keys
    /\ mesh_results \in Seq(MeshResults)
    /\ prefer_mesh \in BOOLEAN /\ inflight \in {0, 1} /\ completed \in 0 .. CompletedCap
    /\ shutdown \in BOOLEAN /\ generation \in Generations /\ paused \in BOOLEAN
    /\ worker \in WorkerStates
    /\ stream_job \in Option(StreamUnits) /\ mesh_job \in Option(MeshJobs)

(* request_stream's promise: the one pending window is always the latest    *)
(* request's, so a superseded window can never run last.                    *)
PendingIsLatestRequest == \A u \in stream : stream_requested = {Identity(u)}

(* reset leaves nothing behind: whatever is queued or staged was made under *)
(* the current generation, and a retired or dropped controller has no       *)
(* pending work a worker could still pick up.                               *)
NothingOutlivesReset ==
    /\ \A u \in stream \cup stream_result : u.generation = generation
    /\ \A n \in DOMAIN meshes : meshes[n].generation = generation
    /\ \A n \in DOMAIN mesh_results : mesh_results[n].generation = generation
    /\ shutdown => stream = {} /\ meshes = <<>>

(* A preparation whose revision is still the world's was made from this very *)
(* world, and none is ahead of it: the revision comparison of poll_stream is *)
(* enough to keep every edit, across resets and world replacements.         *)
Current(u) == u.generation = generation /\ ~shutdown

SnapshotsAgree ==
    /\ \A u \in stream \cup stream_job \cup stream_result :
          Current(u) => u.source_revision <= world.revision
    /\ \A u \in stream \cup stream_job :
          Current(u) /\ u.source_revision = world.revision => u.world = world
    /\ \A u \in stream_result :
          Current(u) /\ u.source_revision = world.revision =>
              u.world = stream_around(world, u.center)

(* Publishing a window moves the window and nothing else: it never reverts  *)
(* an edit, and it publishes the window the caller asked for last.          *)
PublicationKeepsEdits ==
    [][poll_stream /\ world' # world =>
          /\ world'.content = world.content
          /\ world'.center = requested_center
          /\ world'.revision = world.revision + 1]_vars

(* What the caller drew for a chunk is what the chunk holds whenever the    *)
(* revisions agree, so comparing revisions is enough to decide an upload.   *)
DrawnMatchesRevision ==
    \A k \in Keys : \A m \in uploaded[k] :
        chunk_revision(world, k) = {m.revision} => m.voxels = world.content[k]

(* Duplicate suppression neither leaks a key nor forgets one: a key is      *)
(* active exactly while a job of this generation is queued or executing for *)
(* it, and then there is one such job.  (A panicked or shut down worker     *)
(* leaves its keys behind: nobody requests any more.)                       *)
ActiveKeysExact ==
    ~shutdown /\ worker # "exited" =>
        /\ active = {meshes[n].key : n \in DOMAIN meshes}
                      \cup {u.key : u \in {j \in mesh_job : j.generation = generation}}
        /\ \A m, n \in DOMAIN meshes : meshes[m].key = meshes[n].key => m = n
        /\ \A u \in mesh_job, n \in DOMAIN meshes :
              u.generation = generation => u.key # meshes[n].key
=============================================================================
