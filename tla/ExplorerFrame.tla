--------------------------- MODULE ExplorerFrame ---------------------------
(***************************************************************************)
(* The frame loop of the sandbox (apps/explorer/src/lib.rs: apply_platform,*)
(* simulate_frame, sync_render_meshes) driving AsyncWorld.  One frame is   *)
(* the sequence                                                            *)
(*   stream -> poll -> fallback -> edit -> retain -> upload -> request     *)
(* on the caller thread, with the worker free to run between any two of    *)
(* its steps; platform events arrive between frames.  What renders, moves  *)
(* or collides is external: an eye position is the center it lies in.      *)
(***************************************************************************)
EXTENDS AsyncWorld, Platform

CONSTANTS
    Home,             \* the center the Home action returns to
    Distance,         \* [Centers -> [Keys -> Nat]]: from an eye to a chunk
    MeshesPerFrame    \* requests accepted in a frame (4 in the code)

ASSUME FrameAssumption ==
    /\ Home \in Centers
    /\ Distance \in [Centers -> [Keys -> Nat]]
    /\ MeshesPerFrame \in Nat \ {0}

VARIABLES
    lifecycle,
    eye,       \* center the camera is in
    phase,     \* next step of the frame, "idle" between frames
    budget     \* requests this frame may still make

frameVars == <<lifecycle, eye, phase, budget>>
allVars == <<vars, frameVars>>

FrameInit ==
    /\ Init
    /\ lifecycle = InitialLifecycle
    /\ eye = Home
    /\ phase = "idle"
    /\ budget = MeshesPerFrame

Goto(p) == phase' = p /\ UNCHANGED <<lifecycle, eye, budget>>

(* apply_platform, in the callback between two frames. *)
apply_platform(event) ==
    /\ phase = "idle" /\ ~dropped
    /\ lifecycle' = apply(lifecycle, event)
    /\ CASE event \in {"WindowCreated", "Resumed"} /\ paused -> resume
         [] event \in {"Paused", "WindowDestroyed"} /\ ~paused -> pause
         [] OTHER -> UNCHANGED vars
    /\ UNCHANGED <<eye, phase, budget>>

(* The camera has moved; the latest destination is set before polling. *)
FrameStream(c) ==
    /\ phase = "idle" /\ ~dropped /\ work_allowed(lifecycle)
    /\ eye' = c
    /\ IF available
       THEN request_stream(c) /\ phase' = "poll"
       ELSE /\ world' = stream_around(world, c)
            /\ UNCHANGED <<requested_center, mesh_call, uploaded, dropped,
                           streamVars, meshVars, gateVars, workerVars>>
            /\ phase' = "edit"
    /\ budget' = MeshesPerFrame
    /\ UNCHANGED lifecycle

FramePoll ==
    /\ phase = "poll"
    /\ IF stream_result = {} THEN UNCHANGED vars ELSE poll_stream
    /\ Goto(IF \E r \in stream_result : acceptable(r) THEN "edit" ELSE "fallback")

FrameFallback ==
    /\ phase = "fallback"
    /\ \/ sync_fallback_if_stalled(eye)
       \/ ~(\/ world.center = {eye} /\ stale_center = {eye}
            \/ StallReached(eye) /\ CanRewindow(world, eye)) /\ UNCHANGED vars
    /\ Goto("edit")

(* Tools and physics may edit the world, once in a frame here. *)
FrameEdit ==
    /\ phase = "edit"
    /\ \/ UNCHANGED vars
       \/ \E k \in Keys, m \in Contents, touched \in SUBSET Keys : Edit(k, m, touched)
    /\ Goto("retain")

(* The Home action, wherever the camera is: reset, then a synchronous window *)
(* around home.  The physics world finds a place there for the camera, or,   *)
(* with home obstructed, the window goes back to where the camera stayed.    *)
FrameHomeReset ==
    /\ phase = "edit"
    /\ reset
    /\ Goto("home")

FrameHomeWindow ==
    /\ phase = "home"
    /\ IF CanRewindow(world, Home) THEN StreamAround(Home) ELSE UNCHANGED vars
    /\ \/ eye' = Home /\ phase' = "retain"
       \/ eye' = eye /\ phase' = "obstructed"
    /\ UNCHANGED <<lifecycle, budget>>

FrameHomeObstructed ==
    /\ phase = "obstructed"
    /\ IF CanRewindow(world, eye) THEN StreamAround(eye) ELSE UNCHANGED vars
    /\ Goto("retain")

(* renderer.retain_chunks drops what the world no longer holds. *)
FrameRetain ==
    /\ phase = "retain"
    /\ uploaded' = [k \in Keys |-> IF chunk_revision(world, k) = {} THEN {} ELSE uploaded[k]]
    /\ UNCHANGED <<world, requested_center, mesh_call, dropped,
                   streamVars, meshVars, gateVars, workerVars>>
    /\ Goto("upload")

NeedsMesh(k) == {m.revision : m \in uploaded[k]} # chunk_revision(world, k)

(* Upload completed meshes until there is none or the time is spent; with   *)
(* no worker, mesh everything here.                                        *)
FrameUpload ==
    /\ phase = "upload"
    /\ \/ /\ available /\ mesh_results # <<>>
          /\ poll_mesh
          /\ \E p \in {"upload", "request"} : Goto(p)
       \/ /\ available /\ mesh_results = <<>>
          /\ UNCHANGED vars
          /\ Goto("request")
       \/ /\ ~available
          /\ uploaded' = [k \in Keys |->
                {[voxels |-> world.content[k], revision |-> r] : r \in chunk_revision(world, k)}]
          /\ UNCHANGED <<world, requested_center, mesh_call, dropped,
                         streamVars, meshVars, gateVars, workerVars>>
          /\ Goto("idle")

(* Nearest first, the chunks whose drawn mesh is not the current one. *)
Wanted(k) == NeedsMesh(k) /\ \E r \in chunk_revision(world, k) : accepts_mesh(k, r)

FrameRequest ==
    /\ phase = "request" /\ mesh_call = {} /\ budget > 0
    /\ \E k \in Keys :
         /\ Wanted(k)
         /\ \A other \in Keys : Wanted(other) => Distance[eye][k] <= Distance[eye][other]
         /\ request_mesh(k)
    /\ budget' = budget - 1
    /\ UNCHANGED <<lifecycle, eye, phase>>

FramePush == phase = "request" /\ push_mesh /\ UNCHANGED frameVars

FrameEnd ==
    /\ phase = "request" /\ mesh_call = {}
    /\ budget = 0 \/ \A k \in Keys : ~Wanted(k)
    /\ UNCHANGED vars
    /\ Goto("idle")

FrameDrop == phase = "idle" /\ drop /\ UNCHANGED frameVars

Frame ==
    \/ \E c \in Centers : FrameStream(c)
    \/ FramePoll \/ FrameFallback \/ FrameEdit
    \/ FrameHomeReset \/ FrameHomeWindow \/ FrameHomeObstructed
    \/ FrameRetain \/ FrameUpload \/ FrameRequest \/ FramePush \/ FrameEnd

WorkerRuns == worker_wait \/ worker_exit \/ take_job \/ finish_stream \/ finish_mesh
                \/ count_unit

FrameNext ==
    \/ Frame
    \/ \E event \in PlatformEvents : apply_platform(event)
    \/ FrameDrop
    \/ Worker /\ UNCHANGED frameVars

(* The event loop draws while work is allowed, and the thread of the worker *)
(* is scheduled; nothing obliges the player to move, edit or quit, the      *)
(* platform to send an event, or a unit to panic.                          *)
Fairness == WF_allVars(Frame) /\ WF_allVars(WorkerRuns /\ UNCHANGED frameVars)

FrameSpec == FrameInit /\ [][FrameNext]_allVars /\ Fairness

-----------------------------------------------------------------------------
(* Properties *)

Phases == {"idle", "poll", "fallback", "edit", "home", "obstructed", "retain", "upload",
           "request"}

(* Types of the frame's own state. *)
FrameTypeOK ==
    /\ TypeOK
    /\ lifecycle \in Lifecycles
    /\ eye \in Centers
    /\ phase \in Phases
    /\ budget \in 0 .. MeshesPerFrame

(* Edits in every frame cannot keep a destination waiting: by the time the  *)
(* frame has polled and tried the fallback, no more preparations than the   *)
(* threshold were lost to edits, unless the world can no longer move.       *)
StallIsPaid ==
    phase \in {"edit", "home", "obstructed", "retain", "upload", "request", "idle"} =>
        \/ stale_streams <= STALE_STREAM_FALLBACK_AFTER
        \/ world.revision = MaxRevision

(* A camera that stays in one place gets the window around it, whatever     *)
(* was queued, staged or cancelled before, also when the worker dies or is  *)
(* retired, as long as frames run and revisions last.                      *)
WindowFollowsEye ==
    \A c \in Centers :
        <>[](eye = c /\ work_allowed(lifecycle) /\ ~dropped)
            => <>[](world.center = {c} \/ world.revision = MaxRevision)

(* A chunk that stays as it is gets drawn as it is: a dropped, refused or   *)
(* stale mesh is requested again.  (The run has one chunk, so that a chunk  *)
(* waiting for a nearer one is not among its cases.)                        *)
MeshesCatchUp ==
    \A k \in Keys, r \in Revisions :
        <>[](work_allowed(lifecycle) /\ ~dropped /\ chunk_revision(world, k) = {r})
            => <>[](\E m \in uploaded[k] : m.revision = r)

(* Dropping the controller never waits for ever: the worker leaves after    *)
(* at most the unit it executes, also when it is paused.                   *)
DropJoins == dropped ~> worker = "exited"
=============================================================================
