-------------------------- MODULE AsyncWorldProofs --------------------------
(* What holds of AsyncWorld for every value of its constants: first its     *)
(* types, windows and snapshots, then what a reset leaves, which keys are   *)
(* active and what is drawn; and of the frame loop over it (ExplorerFrame): *)
(* what the controller promises holds there too, and stalls are paid for.   *)
EXTENDS ExplorerFrame, TLAPS

-----------------------------------------------------------------------------
(* Options: sets with at most one element. *)

(* The empty Option is one over every set, as is the Option of a member.   *)
LEMMA OptionIntro ==
    ASSUME NEW S
    PROVE  /\ {} \in Option(S)
           /\ \A x \in S : {x} \in Option(S)
BY DEF Option

(* What an Option holds is a member, and no part of it is more than it.     *)
LEMMA OptionElim ==
    ASSUME NEW S, NEW s \in Option(S)
    PROVE  /\ \A x \in s : x \in S /\ s = {x}
           /\ \A t \in SUBSET s : t \in Option(S)
BY DEF Option

-----------------------------------------------------------------------------
(* The world operations stay among the worlds. *)

(* An edit below the last revision makes a world, one revision later.      *)
LEMMA EditedIsWorld ==
    ASSUME NEW w \in Worlds, NEW k \in Keys, NEW m \in Contents, NEW touched,
           w.revision < MaxRevision
    PROVE  /\ Edited(w, k, m, touched) \in Worlds
           /\ Edited(w, k, m, touched).revision = w.revision + 1
<1> DEFINE rev == w.revision + 1
           con == [w.content EXCEPT ![k] = m]
           chu == [x \in Keys |->
                     IF x = k THEN IF m = Air THEN 0 ELSE rev
                     ELSE IF x \in touched /\ chunk_revision(w, x) # {} THEN rev
                     ELSE w.chunk_revisions[x]]
<1>1. rev \in Revisions /\ 0 \in Revisions
  BY ConstantsAssumption DEF ConstantsAssumption, Worlds, Revisions
<1>2. con \in [Keys -> Contents]
  BY DEF Worlds
<1>3. chu \in [Keys -> Revisions]
  BY <1>1 DEF Worlds
<1>4. /\ Edited(w, k, m, touched) = [w EXCEPT !.revision = rev, !.content = con,
                                             !.chunk_revisions = chu]
      /\ w = [revision |-> w.revision, center |-> w.center, content |-> w.content,
              chunk_revisions |-> w.chunk_revisions]
      /\ w.center \in Option(Centers)
  BY Zenon DEF Edited, Worlds
<1> HIDE DEF rev, con, chu
<1>5. Edited(w, k, m, touched) \in Worlds
  BY <1>1, <1>2, <1>3, <1>4 DEF Worlds
<1> QED BY <1>4, <1>5 DEF rev

(* Moving the window keeps the content: one revision later, or nothing.    *)
LEMMA RewindowedIsWorld ==
    ASSUME NEW w \in Worlds, NEW c \in Centers
    PROVE  /\ stream_around(w, c) \in Worlds
           /\ stream_around(w, c).content = w.content
           /\ CanRewindow(w, c) =>
                /\ stream_around(w, c).revision = w.revision + 1
                /\ stream_around(w, c).center = {c}
           /\ ~CanRewindow(w, c) => stream_around(w, c) = w
<1>1. CASE CanRewindow(w, c)
  <2> DEFINE rev == w.revision + 1
             new == Window[c]
             changed == (Resident(w) \ new) \cup (new \ Resident(w))
             dirty == changed \cup UNION {Faces[k] : k \in changed}
             chu == [k \in Keys |-> IF k \notin new \/ w.content[k] = Air THEN 0
                                    ELSE IF k \in dirty THEN rev ELSE w.chunk_revisions[k]]
  <2>1. rev \in Revisions /\ 0 \in Revisions
    BY <1>1, ConstantsAssumption DEF ConstantsAssumption, Worlds, Revisions, CanRewindow
  <2> HIDE DEF new, dirty
  <2>2. chu \in [Keys -> Revisions]
    BY <2>1 DEF Worlds
  <2>3. stream_around(w, c) = [revision |-> rev, center |-> {c}, content |-> w.content,
                               chunk_revisions |-> chu]
    BY <1>1 DEF stream_around, Worlds, new, dirty
  <2>4. {c} \in Option(Centers)
    BY OptionIntro
  <2> HIDE DEF rev, chu
  <2>5. stream_around(w, c) \in Worlds
    BY <2>1, <2>2, <2>3, <2>4 DEF Worlds
  <2> QED BY <1>1, <2>3, <2>5 DEF rev
<1>2. CASE ~CanRewindow(w, c)
  BY <1>2 DEF stream_around
<1> QED BY <1>1, <1>2

-----------------------------------------------------------------------------
(* Type correctness *)

(* The types hold initially.                                               *)
LEMMA TypeInit == Init => TypeOK
<1> SUFFICES ASSUME Init PROVE TypeOK
  OBVIOUS
<1>1. \A S : {} \in Option(S)
  BY OptionIntro
<1>2. world \in Worlds
  <2>1. {0} \in SUBSET Revisions /\ {{}} \in SUBSET Option(Centers)
    BY <1>1, ConstantsAssumption DEF ConstantsAssumption, Revisions
  <2>2. [k \in Keys |-> 0] \in [Keys -> Revisions]
    BY <2>1
  <2> QED BY <2>1, <2>2 DEF Init, Worlds
<1>3. meshes \in Seq(MeshJobs) /\ mesh_results \in Seq(MeshResults)
  BY DEF Init
<1>4. uploaded \in [Keys -> Option(Meshes)]
  BY <1>1 DEF Init
<1>5. worker \in WorkerStates /\ shutdown \in BOOLEAN
  BY Zenon DEF Init, WorkerStates
<1>7. generation \in Generations /\ completed \in 0 .. CompletedCap
  BY ConstantsAssumption DEF ConstantsAssumption, Init, Generations
<1>6. /\ requested_center \in Option(Centers) /\ stale_center \in Option(Centers)
      /\ mesh_call \in Option(MeshCalls)
      /\ stream \in Option(StreamUnits) /\ stream_result \in Option(StreamUnits)
      /\ stream_active \in Option(Identities) /\ stream_requested \in Option(Identities)
      /\ stream_job \in Option(StreamUnits) /\ mesh_job \in Option(MeshJobs)
  BY <1>1 DEF Init
<1> QED
  BY <1>2, <1>3, <1>4, <1>5, <1>6, <1>7 DEF Init, TypeOK

(* What an edit or a synchronous rewindow leaves alone. *)
LEMMA TypeWorld ==
    ASSUME TypeOK, world' \in Worlds,
           UNCHANGED <<requested_center, mesh_call, uploaded, dropped,
                       streamVars, meshVars, gateVars, workerVars>>
    PROVE  TypeOK'
BY DEF TypeOK, streamVars, stallVars, meshVars, gateVars, workerVars, jobVars

(* World::set keeps the types.                                             *)
LEMMA TypeEdit ==
    ASSUME TypeOK, NEW k \in Keys, NEW m \in Contents, NEW touched, Edit(k, m, touched)
    PROVE  TypeOK'
<1>1. world' \in Worlds
  BY EditedIsWorld DEF TypeOK, Edit
<1> QED BY <1>1, TypeWorld DEF Edit

(* A synchronous rewindow keeps the types.                                 *)
LEMMA TypeStreamAround ==
    ASSUME TypeOK, NEW c \in Centers, StreamAround(c)
    PROVE  TypeOK'
<1>1. world' \in Worlds
  BY RewindowedIsWorld DEF TypeOK, StreamAround
<1> QED BY <1>1, TypeWorld DEF StreamAround

(* The stall count, however a step leaves it. *)
StallTypeOK == stale_streams \in Nat /\ stale_center \in Option(Centers)

(* Counting or clearing stalled preparations keeps the types.              *)
LEMMA TypeStall ==
    ASSUME StallTypeOK
    PROVE  /\ clear_stall => StallTypeOK'
           /\ UNCHANGED stallVars => StallTypeOK'
           /\ \A c \in Centers, stale \in BOOLEAN :
                 note_rejected_stream(c, stale) => StallTypeOK'
<1>1. {} \in Option(Centers) /\ \A c \in Centers : {c} \in Option(Centers)
  BY OptionIntro
<1>2. clear_stall => StallTypeOK'
  BY <1>1 DEF StallTypeOK, clear_stall
<1>3. UNCHANGED stallVars => StallTypeOK'
  BY DEF StallTypeOK, stallVars
<1>4. ASSUME NEW c \in Centers, NEW stale \in BOOLEAN, note_rejected_stream(c, stale)
      PROVE  StallTypeOK'
  <2>1. CASE stale
    BY <1>1, <1>4, <2>1 DEF StallTypeOK, note_rejected_stream
  <2>2. CASE ~stale
    BY <1>2, <1>4, <2>2 DEF note_rejected_stream
  <2> QED BY <2>1, <2>2
<1> QED BY <1>2, <1>3, <1>4

(* request_stream keeps the types.                                         *)
LEMMA TypeRequestStream ==
    ASSUME TypeOK, NEW c \in Centers, request_stream(c)
    PROVE  TypeOK'
<1> DEFINE id == <<c, world.revision, generation>>
           unit == [world |-> world, center |-> c, generation |-> generation,
                    source_revision |-> world.revision]
<1>1. id \in Identities /\ unit \in StreamUnits
  BY DEF TypeOK, Identities, StreamUnits, Worlds
<1> HIDE DEF id, unit
<1>2. /\ {c} \in Option(Centers) /\ {} \in Option(StreamUnits) /\ {} \in Option(Identities)
      /\ {id} \in Option(Identities) /\ {unit} \in Option(StreamUnits)
      /\ stream \ Superseded(id) \in Option(StreamUnits)
  BY <1>1, OptionIntro, OptionElim DEF TypeOK
<1>3. StallTypeOK'
  BY TypeStall DEF TypeOK, StallTypeOK, request_stream
<1>4. worker' \in WorkerStates
  BY DEF request_stream, TypeOK, Wake, WorkerStates
<1>5. /\ requested_center' \in Option(Centers)
      /\ stream' \in Option(StreamUnits) /\ stream_result' \in Option(StreamUnits)
      /\ stream_requested' \in Option(Identities)
  BY <1>2 DEF request_stream, TypeOK, id, unit
<1> QED
  BY <1>3, <1>4, <1>5 DEF request_stream, TypeOK, StallTypeOK, meshVars, gateVars, jobVars

(* poll_stream keeps the types.                                            *)
LEMMA TypePollStream ==
    ASSUME TypeOK, poll_stream
    PROVE  TypeOK'
<1> PICK r \in stream_result :
         /\ stream_result' = {}
         /\ \/ /\ acceptable(r)
               /\ clear_stall
               /\ world' = r.world
            \/ /\ ~acceptable(r)
               /\ note_rejected_stream(r.center,
                     /\ r.generation = generation
                     /\ requested_center = {r.center}
                     /\ r.source_revision # world.revision)
               /\ UNCHANGED world
  BY DEF poll_stream
<1>1. r \in StreamUnits /\ {} \in Option(StreamUnits)
  BY OptionElim, OptionIntro DEF TypeOK
<1>2. world' \in Worlds
  BY <1>1 DEF TypeOK, StreamUnits
<1>3. StallTypeOK'
  BY <1>1, TypeStall DEF TypeOK, StallTypeOK, StreamUnits
<1> QED
  BY <1>1, <1>2, <1>3
  DEF poll_stream, TypeOK, StallTypeOK, meshVars, gateVars, workerVars, jobVars

(* sync_fallback_if_stalled keeps the types.                               *)
LEMMA TypeFallback ==
    ASSUME TypeOK, NEW c \in Centers, sync_fallback_if_stalled(c)
    PROVE  TypeOK'
<1>1. world' \in Worlds
  BY RewindowedIsWorld DEF TypeOK, sync_fallback_if_stalled
<1>2. StallTypeOK'
  BY TypeStall DEF TypeOK, StallTypeOK, sync_fallback_if_stalled
<1> QED
  BY <1>1, <1>2
  DEF sync_fallback_if_stalled, TypeOK, StallTypeOK, meshVars, gateVars, workerVars, jobVars

(* The first critical section of request_mesh keeps the types.             *)
LEMMA TypeRequestMesh ==
    ASSUME TypeOK, NEW k \in Keys, request_mesh(k)
    PROVE  TypeOK'
<1>1. PICK revision \in chunk_revision(world, k) :
         mesh_call' = {[key |-> k, voxels |-> world.content[k], revision |-> revision]}
  BY DEF request_mesh
<1>2. revision \in Revisions /\ world.content[k] \in Contents
  BY <1>1 DEF chunk_revision, TypeOK, Worlds
<1>3. [key |-> k, voxels |-> world.content[k], revision |-> revision] \in MeshCalls
  BY <1>2 DEF MeshCalls
<1>4. mesh_call' \in Option(MeshCalls)
  BY <1>1, <1>3, OptionIntro
<1> QED
  BY <1>4 DEF request_mesh, TypeOK, streamVars, stallVars, meshVars, gateVars,
              workerVars, jobVars

(* The second critical section of request_mesh keeps the types.            *)
LEMMA TypePushMesh ==
    ASSUME TypeOK, push_mesh
    PROVE  TypeOK'
<1>1. PICK call \in mesh_call :
         /\ active' = active \cup {call.key}
         /\ meshes' = Append(meshes, [key |-> call.key, voxels |-> call.voxels,
                                      revision |-> call.revision, generation |-> generation])
  BY DEF push_mesh
<1>2. call \in MeshCalls
  BY OptionElim DEF TypeOK
<1>3. [key |-> call.key, voxels |-> call.voxels, revision |-> call.revision,
       generation |-> generation] \in MeshJobs
  BY <1>2 DEF MeshJobs, MeshCalls, TypeOK
<1>4. meshes' \in Seq(MeshJobs) /\ active' \in SUBSET Keys
  BY <1>1, <1>2, <1>3 DEF TypeOK, MeshCalls
<1>5. mesh_call' \in Option(MeshCalls)
  BY OptionIntro DEF push_mesh
<1>6. worker' \in WorkerStates
  BY DEF push_mesh, Wake, TypeOK, WorkerStates
<1> QED
  BY <1>4, <1>5, <1>6 DEF push_mesh, TypeOK, streamVars, stallVars, gateVars, jobVars

(* poll_mesh keeps the types.                                              *)
LEMMA TypePollMesh ==
    ASSUME TypeOK, poll_mesh
    PROVE  TypeOK'
<1>1. CASE \E n \in DOMAIN mesh_results :
              /\ mesh_results' = SubSeq(mesh_results, n + 1, Len(mesh_results))
              /\ uploaded' = [uploaded EXCEPT ![mesh_results[n].key] = {mesh_results[n].mesh}]
  <2> PICK n \in DOMAIN mesh_results :
              /\ mesh_results' = SubSeq(mesh_results, n + 1, Len(mesh_results))
              /\ uploaded' = [uploaded EXCEPT ![mesh_results[n].key] = {mesh_results[n].mesh}]
    BY <1>1
  <2>1. mesh_results' \in Seq(MeshResults)
    BY DEF TypeOK
  <2>2. mesh_results[n] \in MeshResults
    BY DEF TypeOK
  <2>3. {mesh_results[n].mesh} \in Option(Meshes)
    BY <2>2, OptionIntro DEF MeshResults
  <2>4. uploaded' \in [Keys -> Option(Meshes)]
    BY <2>3 DEF TypeOK
  <2> QED
    BY <2>1, <2>4 DEF poll_mesh, TypeOK, streamVars, stallVars, gateVars, workerVars, jobVars
<1>2. CASE mesh_results' = <<>> /\ UNCHANGED uploaded
  BY <1>2 DEF poll_mesh, TypeOK, streamVars, stallVars, gateVars, workerVars, jobVars
<1> QED BY <1>1, <1>2 DEF poll_mesh

(* What reset and world replacement share keeps the types.                 *)
LEMMA TypeCancel ==
    ASSUME TypeOK, Cancel, world' \in Worlds, uploaded' \in [Keys -> Option(Meshes)]
    PROVE  TypeOK'
<1>1. /\ {} \in Option(StreamUnits) /\ {} \in Option(Identities) /\ {} \in Option(Centers)
  BY OptionIntro
<1>2. StallTypeOK'
  BY TypeStall DEF TypeOK, StallTypeOK, Cancel
<1>3. generation' \in Generations /\ shutdown' \in BOOLEAN
  <2>1. CASE generation < MaxGeneration /\ generation' = generation + 1 /\ UNCHANGED shutdown
    BY <2>1, ConstantsAssumption DEF ConstantsAssumption, TypeOK, Generations
  <2>2. CASE shutdown' = TRUE /\ UNCHANGED generation
    BY <2>2 DEF TypeOK
  <2> QED BY <2>1, <2>2 DEF Cancel
<1>4. worker' \in WorkerStates
  BY DEF Cancel, TypeOK, Wake, WorkerStates
<1> QED
  BY <1>1, <1>2, <1>3, <1>4 DEF Cancel, TypeOK, StallTypeOK, jobVars

(* reset keeps the types.                                                  *)
LEMMA TypeReset == ASSUME TypeOK, reset PROVE TypeOK'
BY TypeCancel DEF reset, TypeOK

(* Replacing the world, with the reset its contract asks for, keeps them.  *)
LEMMA TypeReplace ==
    ASSUME TypeOK, NEW w \in Worlds, replace_world(w)
    PROVE  TypeOK'
<1>1. uploaded' \in [Keys -> Option(Meshes)]
  BY OptionIntro DEF replace_world
<1> QED BY <1>1, TypeCancel DEF replace_world

(* pause, resume and drop keep the types.                                  *)
LEMMA TypeGate == ASSUME TypeOK, pause \/ resume \/ drop PROVE TypeOK'
<1>1. CASE pause
  BY <1>1 DEF pause, TypeOK, callerVars, streamVars, stallVars, meshVars, workerVars, jobVars
<1>2. CASE resume
  BY <1>2 DEF resume, TypeOK, callerVars, streamVars, stallVars, meshVars, jobVars,
              Wake, WorkerStates
<1>3. CASE drop
  <2>1. {} \in Option(StreamUnits)
    BY OptionIntro
  <2> QED
    BY <1>3, <2>1 DEF drop, TypeOK, stallVars, jobVars, Wake, WorkerStates
<1> QED BY <1>1, <1>2, <1>3

(* Taking a job keeps the types.                                           *)
LEMMA TypeTakeJob == ASSUME TypeOK, take_job PROVE TypeOK'
<1>1. CASE /\ meshes # <<>> /\ prefer_mesh' = FALSE
           /\ mesh_job' = {Head(meshes)} /\ meshes' = Tail(meshes)
           /\ UNCHANGED <<stream, stream_active, stream_job>>
  <2>1. Head(meshes) \in MeshJobs /\ meshes' \in Seq(MeshJobs)
    BY <1>1 DEF TypeOK
  <2>2. mesh_job' \in Option(MeshJobs)
    BY <1>1, <2>1, OptionIntro
  <2> QED
    BY <1>1, <2>1, <2>2 DEF take_job, TypeOK, callerVars, stallVars, gateVars, WorkerStates
<1>2. CASE /\ prefer_mesh' = TRUE /\ stream_job' = stream /\ stream' = {}
           /\ stream_active' = {Identity(u) : u \in stream}
           /\ UNCHANGED <<meshes, mesh_job>>
  <2>1. {} \in Option(StreamUnits) /\ {} \in Option(Identities)
    BY OptionIntro
  <2>2. ASSUME NEW u \in stream PROVE stream_active' \in Option(Identities)
    <3>1. u \in StreamUnits /\ stream = {u}
      BY <2>2, OptionElim DEF TypeOK
    <3>2. Identity(u) \in Identities
      BY <3>1 DEF Identity, Identities, StreamUnits
    <3>3. stream_active' = {Identity(u)}
      BY <1>2, <3>1
    <3> QED BY <3>2, <3>3, OptionIntro
  <2>3. stream_active' \in Option(Identities)
    <3>1. CASE stream = {}
      BY <1>2, <2>1, <3>1
    <3>2. CASE stream # {}
      BY <2>2, <3>2
    <3> QED BY <3>1, <3>2
  <2> QED
    BY <1>2, <2>1, <2>3 DEF take_job, TypeOK, callerVars, stallVars, gateVars, WorkerStates
<1> QED BY <1>1, <1>2 DEF take_job

(* Staging or rejecting a window keeps the types.                          *)
LEMMA TypeFinishStream == ASSUME TypeOK, finish_stream PROVE TypeOK'
<1>1. PICK u \in stream_job :
         \/ UNCHANGED <<stream_result, stallVars>>
         \/ /\ UNCHANGED stream_result
            /\ \E stale \in BOOLEAN : note_rejected_stream(u.center, stale)
         \/ /\ stream_result' = {[u EXCEPT !.world = stream_around(@, u.center)]}
            /\ \/ UNCHANGED stallVars
               \/ \E old \in stream_result, stale \in BOOLEAN :
                     note_rejected_stream(old.center, stale)
  BY DEF finish_stream
<1>2. u \in StreamUnits /\ \A old \in stream_result : old \in StreamUnits
  BY OptionElim DEF TypeOK
<1>3. StallTypeOK'
  BY <1>1, <1>2, TypeStall DEF TypeOK, StallTypeOK, StreamUnits
<1>4. [u EXCEPT !.world = stream_around(@, u.center)] \in StreamUnits
  BY <1>2, RewindowedIsWorld DEF StreamUnits
<1>5. stream_result' \in Option(StreamUnits)
  <2>1. {[u EXCEPT !.world = stream_around(@, u.center)]} \in Option(StreamUnits)
    BY <1>4, OptionIntro
  <2>2. \/ UNCHANGED stream_result
        \/ stream_result' = {[u EXCEPT !.world = stream_around(@, u.center)]}
    BY <1>1
  <2> QED BY <2>1, <2>2 DEF TypeOK
<1>6. {} \in Option(StreamUnits) /\ {} \in Option(Identities)
  BY OptionIntro
<1> QED
  BY <1>3, <1>5, <1>6 DEF finish_stream, TypeOK, StallTypeOK, callerVars, meshVars, gateVars,
                          WorkerStates

(* Buffering or dropping a mesh keeps the types.                           *)
LEMMA TypeFinishMesh == ASSUME TypeOK, finish_mesh PROVE TypeOK'
<1>1. PICK u \in mesh_job, bytes \in MeshSizes :
         /\ active' = Released(u)
         /\ \/ UNCHANGED mesh_results
            \/ mesh_results' = Append(mesh_results,
                 [key |-> u.key, generation |-> u.generation, bytes |-> bytes,
                  mesh |-> [voxels |-> u.voxels, revision |-> u.revision]])
  BY DEF finish_mesh
<1>2. u \in MeshJobs
  BY OptionElim DEF TypeOK
<1>3. [key |-> u.key, generation |-> u.generation, bytes |-> bytes,
       mesh |-> [voxels |-> u.voxels, revision |-> u.revision]] \in MeshResults
  BY <1>2 DEF MeshJobs, MeshResults, Meshes
<1>4. active' \in SUBSET Keys
  BY <1>1 DEF TypeOK, Released
<1>6. mesh_results' \in Seq(MeshResults)
  <2>1. CASE UNCHANGED mesh_results
    BY <2>1 DEF TypeOK
  <2>2. CASE mesh_results' = Append(mesh_results,
                 [key |-> u.key, generation |-> u.generation, bytes |-> bytes,
                  mesh |-> [voxels |-> u.voxels, revision |-> u.revision]])
    BY <2>2, <1>3 DEF TypeOK
  <2> QED BY <1>1, <2>1, <2>2
<1>5. {} \in Option(MeshJobs)
  BY OptionIntro
<1> QED
  BY <1>4, <1>5, <1>6 DEF finish_mesh, TypeOK, callerVars, streamVars, stallVars, gateVars,
                    WorkerStates

(* The steps of the worker that move nothing but itself. *)
LEMMA TypeWorkerState ==
    ASSUME TypeOK, worker_wait \/ worker_exit \/ count_unit \/ worker_panic
    PROVE  TypeOK'
<1>1. {} \in Option(StreamUnits) /\ {} \in Option(MeshJobs)
  BY OptionIntro
<1>2. worker' \in WorkerStates
  BY DEF worker_wait, worker_exit, count_unit, worker_panic, WorkerStates
<1>3. completed' \in 0 .. CompletedCap
  BY ConstantsAssumption DEF ConstantsAssumption, worker_wait, worker_exit, count_unit,
                             worker_panic, TypeOK
<1> QED
  BY <1>1, <1>2, <1>3
  DEF worker_wait, worker_exit, count_unit, worker_panic, TypeOK, callerVars, streamVars,
      stallVars, meshVars, gateVars, jobVars

(* Every step keeps the types.                                             *)
LEMMA TypeStep == TypeOK /\ [Next]_vars => TypeOK'
<1> SUFFICES ASSUME TypeOK, [Next]_vars PROVE TypeOK'
  OBVIOUS
<1>1. ASSUME NEW k \in Keys, NEW m \in Contents, NEW touched \in SUBSET Keys,
             Edit(k, m, touched)
      PROVE  TypeOK'
  BY <1>1, TypeEdit
<1>2. ASSUME NEW c \in Centers,
             StreamAround(c) \/ request_stream(c) \/ sync_fallback_if_stalled(c)
      PROVE  TypeOK'
  BY <1>2, TypeStreamAround, TypeRequestStream, TypeFallback
<1>3. CASE poll_stream
  BY <1>3, TypePollStream
<1>4. ASSUME NEW k \in Keys, request_mesh(k) PROVE TypeOK'
  BY <1>4, TypeRequestMesh
<1>5. CASE push_mesh \/ poll_mesh
  BY <1>5, TypePushMesh, TypePollMesh
<1>6. CASE reset
  BY <1>6, TypeReset
<1>7. CASE pause \/ resume \/ drop
  BY <1>7, TypeGate
<1>8. ASSUME NEW w \in NewWorlds, replace_world(w) PROVE TypeOK'
  <2>1. w \in Worlds
    <3>1. {{}} \in SUBSET Option(Centers) /\ 0 \in Revisions
      BY OptionIntro, ConstantsAssumption DEF ConstantsAssumption, Revisions
    <3>2. [x \in Keys |-> 0] \in [Keys -> Revisions]
      BY <3>1
    <3> QED BY <3>1, <3>2 DEF NewWorlds, Worlds
  <2> QED BY <1>8, <2>1, TypeReplace
<1>9. CASE worker_wait \/ worker_exit \/ count_unit \/ worker_panic
  BY <1>9, TypeWorkerState
<1>10. CASE take_job
  BY <1>10, TypeTakeJob
<1>11. CASE finish_stream \/ finish_mesh
  BY <1>11, TypeFinishStream, TypeFinishMesh
<1>12. CASE UNCHANGED vars
  BY <1>12 DEF vars, TypeOK, callerVars, streamVars, stallVars, meshVars, gateVars,
               workerVars, jobVars
<1> QED
  BY <1>1, <1>2, <1>3, <1>4, <1>5, <1>6, <1>7, <1>8, <1>9, <1>10, <1>11, <1>12
  DEF Next, Caller, Worker

(* Every variable of AsyncWorld keeps its type. *)
THEOREM TypeCorrect == Spec => []TypeOK
<1>1. Init => TypeOK
  BY TypeInit
<1>2. TypeOK /\ [Next]_vars => TypeOK'
  BY TypeStep
<1> QED BY <1>1, <1>2, PTL DEF Spec

-----------------------------------------------------------------------------
(* Publication.  A staged window is published when its revision is the      *)
(* world's.  Revisions recur across worlds, so the argument needs the       *)
(* generation as well: no unit is stamped with a generation still to come,  *)
(* and a retired controller stages nothing.                                 *)

GenerationsBounded ==
    \A u \in stream \cup stream_job \cup stream_result : u.generation <= generation

RetiredStagesNothing == shutdown /\ ~dropped => stream_result = {}

PublicationInv ==
    /\ TypeOK
    /\ SnapshotsAgree
    /\ GenerationsBounded
    /\ RetiredStagesNothing

(* The inductive invariant holds initially.                                *)
LEMMA PublicationInit == Init => PublicationInv
BY TypeInit DEF Init, PublicationInv, SnapshotsAgree, GenerationsBounded, RetiredStagesNothing

(* Revisions and generations of worlds and units are natural numbers.      *)
LEMMA NumbersAreNat ==
    ASSUME TypeOK
    PROVE  /\ world.revision \in Nat /\ generation \in Nat
           /\ \A u \in stream \cup stream_job \cup stream_result :
                 u \in StreamUnits /\ u.source_revision \in Nat /\ u.generation \in Nat
<1>1. Revisions \subseteq Nat /\ Generations \subseteq Nat
  BY ConstantsAssumption DEF ConstantsAssumption, Revisions, Generations
<1>2. world.revision \in Revisions /\ generation \in Generations
  BY DEF TypeOK, Worlds
<1>3. \A u \in stream \cup stream_job \cup stream_result : u \in StreamUnits
  BY OptionElim DEF TypeOK
<1> QED BY <1>1, <1>2, <1>3 DEF StreamUnits

(* A step that moves the world forward, or not at all, and adds no unit to  *)
(* the three places, keeps the invariant when no moved unit stays current.  *)
LEMMA PublicationFrame ==
    ASSUME PublicationInv, TypeOK',
           stream' \subseteq stream, stream_job' \subseteq stream_job \cup stream,
           stream_result' \subseteq stream_result,
           generation' = generation, shutdown => shutdown',
           \/ world' = world
           \/ world' \in Worlds /\ world'.revision = world.revision + 1,
           shutdown' /\ ~dropped' => stream_result' = {}
    PROVE  PublicationInv'
<1>1. GenerationsBounded' /\ RetiredStagesNothing'
  BY DEF PublicationInv, GenerationsBounded, RetiredStagesNothing
<1>2. world.revision \in Nat /\ world'.revision \in Nat
      /\ \A u \in stream \cup stream_job \cup stream_result : u.source_revision \in Nat
  BY NumbersAreNat DEF PublicationInv, TypeOK, Worlds, Revisions
<1>3. CASE world' = world
  BY <1>1, <1>3 DEF PublicationInv, SnapshotsAgree, Current
<1>4. CASE world'.revision = world.revision + 1
  BY <1>1, <1>2, <1>4 DEF PublicationInv, SnapshotsAgree, Current
<1> QED BY <1>3, <1>4

(* A request snapshots the world as it is.                                 *)
LEMMA PublicationRequest ==
    ASSUME PublicationInv, TypeOK', NEW c \in Centers, request_stream(c)
    PROVE  PublicationInv'
<1>1. /\ UNCHANGED <<world, generation, shutdown, dropped, stream_job>>
      /\ stream_result' \subseteq stream_result
      /\ \A u \in stream' : u \in stream
            \/ /\ u.world = world /\ u.generation = generation
               /\ u.source_revision = world.revision
  BY DEF request_stream, gateVars, jobVars
<1>2. world.revision \in Nat /\ generation \in Nat
  BY NumbersAreNat DEF PublicationInv
<1>3. SnapshotsAgree'
  BY <1>1, <1>2 DEF PublicationInv, SnapshotsAgree, Current
<1>4. GenerationsBounded' /\ RetiredStagesNothing'
  BY <1>1, <1>2 DEF PublicationInv, GenerationsBounded, RetiredStagesNothing
<1> QED BY <1>3, <1>4 DEF PublicationInv

(* What poll_stream accepts is the current world with its window moved.     *)
LEMMA AcceptedIsCurrent ==
    ASSUME PublicationInv, ~dropped, NEW r \in stream_result, acceptable(r)
    PROVE  /\ r \in StreamUnits
           /\ r.world = stream_around(world, r.center)
<1>1. r \in StreamUnits
  BY NumbersAreNat DEF PublicationInv
<1>2. Current(r)
  BY DEF PublicationInv, RetiredStagesNothing, acceptable, Current
<1> QED
  BY <1>1, <1>2 DEF PublicationInv, SnapshotsAgree, acceptable

(* Polling publishes a world no other current unit claims to be.           *)
LEMMA PublicationPoll ==
    ASSUME PublicationInv, TypeOK', poll_stream
    PROVE  PublicationInv'
<1>1. /\ ~dropped /\ stream_result' = {}
      /\ UNCHANGED <<stream, stream_job, generation, shutdown, dropped>>
      /\ \E r \in stream_result : \/ acceptable(r) /\ world' = r.world
                                  \/ world' = world
  BY DEF poll_stream, CallerIdle, gateVars, workerVars, jobVars
<1>2. PICK r \in stream_result : \/ acceptable(r) /\ world' = r.world
                                 \/ world' = world
  BY <1>1
<1>3. \/ world' = world
      \/ world' \in Worlds /\ world'.revision = world.revision + 1
  <2>1. CASE acceptable(r) /\ world' = r.world
    <3>1. r \in StreamUnits /\ world' = stream_around(world, r.center)
      BY <1>1, <2>1, AcceptedIsCurrent
    <3>2. r.center \in Centers /\ world \in Worlds
      BY <3>1 DEF StreamUnits, PublicationInv, TypeOK
    <3> QED BY <3>1, <3>2, RewindowedIsWorld
  <2> QED BY <1>2, <2>1
<1> QED BY <1>1, <1>3, PublicationFrame

(* The synchronous fallback makes what is under way obsolete.              *)
LEMMA PublicationFallback ==
    ASSUME PublicationInv, TypeOK', NEW c \in Centers,
           StreamAround(c) \/ sync_fallback_if_stalled(c)
    PROVE  PublicationInv'
<1>1. /\ UNCHANGED <<stream, stream_job, stream_result, generation, shutdown, dropped>>
      /\ \/ world' = world
         \/ CanRewindow(world, c) /\ world' = stream_around(world, c)
  BY DEF StreamAround, sync_fallback_if_stalled, streamVars, gateVars, workerVars, jobVars
<1>2. world \in Worlds
  BY DEF PublicationInv, TypeOK
<1>3. \/ world' = world
      \/ world' \in Worlds /\ world'.revision = world.revision + 1
  BY <1>1, <1>2, RewindowedIsWorld
<1>4. shutdown' /\ ~dropped' => stream_result' = {}
  BY <1>1 DEF PublicationInv, RetiredStagesNothing
<1> QED BY <1>1, <1>3, <1>4, PublicationFrame

(* Edits and rewindows move the revision past every snapshot.              *)
LEMMA PublicationEdit ==
    ASSUME PublicationInv, TypeOK', NEW k \in Keys, NEW m \in Contents, NEW touched,
           Edit(k, m, touched)
    PROVE  PublicationInv'
<1>1. UNCHANGED <<stream, stream_job, stream_result, generation, shutdown, dropped>>
  BY DEF Edit, streamVars, gateVars, workerVars, jobVars
<1>2. world' \in Worlds /\ world'.revision = world.revision + 1
  BY EditedIsWorld DEF Edit, PublicationInv, TypeOK
<1>3. shutdown' /\ ~dropped' => stream_result' = {}
  BY <1>1 DEF PublicationInv, RetiredStagesNothing
<1> QED BY <1>1, <1>2, <1>3, PublicationFrame

(* A reset leaves no pending or staged unit, and the one being executed     *)
(* keeps a generation that has passed or finds the controller retired.      *)
LEMMA PublicationCancel ==
    ASSUME PublicationInv, TypeOK', Cancel
    PROVE  PublicationInv'
<1>1. stream' = {} /\ stream_result' = {} /\ UNCHANGED <<stream_job, dropped>>
  BY DEF Cancel, jobVars
<1>2. \/ generation' = generation + 1
      \/ shutdown' /\ generation' = generation
  BY DEF Cancel
<1>3. /\ generation \in Nat
      /\ \A u \in stream_job : u.generation \in Nat /\ u.generation <= generation
  BY NumbersAreNat DEF PublicationInv, GenerationsBounded
<1>4. \A u \in stream_job : ~Current(u)'
  BY <1>2, <1>3 DEF Current
<1>5. SnapshotsAgree'
  BY <1>1, <1>4 DEF SnapshotsAgree, Current
<1>6. GenerationsBounded' /\ RetiredStagesNothing'
  BY <1>1, <1>2, <1>3 DEF GenerationsBounded, RetiredStagesNothing
<1> QED BY <1>5, <1>6 DEF PublicationInv

(* The worker stages the snapshot with its window moved.                   *)
LEMMA PublicationFinish ==
    ASSUME PublicationInv, TypeOK', finish_stream
    PROVE  PublicationInv'
<1>1. UNCHANGED <<world, stream, generation, shutdown, dropped>> /\ stream_job' = {}
  BY DEF finish_stream, callerVars, gateVars
<1>2. CASE UNCHANGED stream_result
  BY <1>1, <1>2, PublicationFrame DEF PublicationInv, RetiredStagesNothing
<1>3. ASSUME NEW u \in stream_job, ~Cancelled(u),
             stream_result' = {[u EXCEPT !.world = stream_around(@, u.center)]}
      PROVE  PublicationInv'
  <2> DEFINE r == [u EXCEPT !.world = stream_around(@, u.center)]
  <2>1. /\ u \in StreamUnits /\ u.source_revision \in Nat /\ u.generation \in Nat
        /\ world.revision \in Nat /\ generation \in Nat
    BY NumbersAreNat DEF PublicationInv
  <2>2. /\ r.world = stream_around(u.world, u.center) /\ r.center = u.center
        /\ r.source_revision = u.source_revision /\ r.generation = u.generation
    BY <2>1 DEF StreamUnits
  <2>3. Current(u) /\ ~shutdown
    BY <1>3 DEF Cancelled, Current
  <2>4. u.source_revision <= world.revision
        /\ (u.source_revision = world.revision => u.world = world)
    BY <2>3 DEF PublicationInv, SnapshotsAgree
  <2>5. stream_result' = {r}
    BY <1>3
  <2> HIDE DEF r
  <2>6. SnapshotsAgree'
    BY <1>1, <2>2, <2>4, <2>5 DEF PublicationInv, SnapshotsAgree, Current
  <2>7. GenerationsBounded' /\ RetiredStagesNothing'
    BY <1>1, <2>1, <2>2, <2>3, <2>5
    DEF PublicationInv, GenerationsBounded, RetiredStagesNothing, Current
  <2> QED BY <2>6, <2>7 DEF PublicationInv
<1> QED BY <1>2, <1>3 DEF finish_stream

(* Every other step leaves the world and the staged window alone; it may    *)
(* hand the pending window to the worker or drop it.                        *)
LEMMA PublicationOther ==
    ASSUME PublicationInv, TypeOK',
           \/ \E k \in Keys : request_mesh(k)
           \/ push_mesh \/ poll_mesh \/ pause \/ resume \/ drop
           \/ worker_wait \/ worker_exit \/ take_job \/ finish_mesh \/ count_unit
           \/ worker_panic \/ UNCHANGED vars
    PROVE  PublicationInv'
<1>1. /\ stream' \subseteq stream /\ stream_job' \subseteq stream_job \cup stream
      /\ UNCHANGED <<world, stream_result, generation>>
      /\ shutdown => shutdown'
      /\ shutdown' /\ ~dropped' => shutdown /\ ~dropped
  <2>1. CASE \/ \E k \in Keys : request_mesh(k)
             \/ push_mesh \/ poll_mesh \/ pause \/ resume \/ drop
    BY <2>1 DEF request_mesh, push_mesh, poll_mesh, pause, resume, drop, callerVars,
                streamVars, gateVars, workerVars, jobVars
  <2>2. CASE \/ worker_wait \/ worker_exit \/ take_job \/ finish_mesh \/ count_unit
             \/ worker_panic \/ UNCHANGED vars
    BY <2>2 DEF worker_wait, worker_exit, take_job, finish_mesh, count_unit, worker_panic,
                vars, callerVars, streamVars, gateVars, workerVars, jobVars
  <2> QED BY <2>1, <2>2
<1>2. shutdown' /\ ~dropped' => stream_result' = {}
  BY <1>1 DEF PublicationInv, RetiredStagesNothing
<1> QED BY <1>1, <1>2, PublicationFrame

(* Every step keeps the inductive invariant.                               *)
LEMMA PublicationStep == PublicationInv /\ [Next]_vars => PublicationInv'
<1> SUFFICES ASSUME PublicationInv, [Next]_vars PROVE PublicationInv'
  OBVIOUS
<1>1. TypeOK'
  BY TypeStep DEF PublicationInv
<1>2. ASSUME NEW k \in Keys, NEW m \in Contents, NEW touched \in SUBSET Keys,
             Edit(k, m, touched)
      PROVE  PublicationInv'
  BY <1>1, <1>2, PublicationEdit
<1>3. ASSUME NEW c \in Centers,
             StreamAround(c) \/ request_stream(c) \/ sync_fallback_if_stalled(c)
      PROVE  PublicationInv'
  BY <1>1, <1>3, PublicationRequest, PublicationFallback
<1>4. CASE poll_stream
  BY <1>1, <1>4, PublicationPoll
<1>5. CASE reset \/ \E w \in NewWorlds : replace_world(w)
  BY <1>1, <1>5, PublicationCancel DEF reset, replace_world
<1>6. CASE finish_stream
  BY <1>1, <1>6, PublicationFinish
<1>7. CASE \/ \E k \in Keys : request_mesh(k)
           \/ push_mesh \/ poll_mesh \/ pause \/ resume \/ drop
           \/ worker_wait \/ worker_exit \/ take_job \/ finish_mesh \/ count_unit
           \/ worker_panic \/ UNCHANGED vars
  BY <1>1, <1>7, PublicationOther
<1> QED
  BY <1>2, <1>3, <1>4, <1>5, <1>6, <1>7 DEF Next, Caller, Worker

(* A preparation that still carries the world's revision and the current    *)
(* generation was made from this very world (run_job and poll_stream).      *)
THEOREM SnapshotsAgreeAlways == Spec => []SnapshotsAgree
<1>1. Init => PublicationInv
  BY PublicationInit
<1>2. PublicationInv /\ [Next]_vars => PublicationInv'
  BY PublicationStep
<1>3. PublicationInv => SnapshotsAgree
  BY DEF PublicationInv
<1> QED BY <1>1, <1>2, <1>3, PTL DEF Spec

(* A publication from a state of the invariant moves only the window.      *)
LEMMA PublicationMovesWindow ==
    ASSUME PublicationInv, poll_stream, world' # world
    PROVE  /\ world'.content = world.content
           /\ world'.center = requested_center
           /\ world'.revision = world.revision + 1
<1>1. ~dropped /\ \E r \in stream_result : acceptable(r) /\ world' = r.world
  BY DEF poll_stream, CallerIdle
<1>2. PICK r \in stream_result : acceptable(r) /\ world' = r.world
  BY <1>1
<1>3. r \in StreamUnits /\ world' = stream_around(world, r.center)
  BY <1>1, <1>2, AcceptedIsCurrent
<1>4. r.center \in Centers /\ world \in Worlds /\ requested_center = {r.center}
  BY <1>2, <1>3 DEF StreamUnits, PublicationInv, TypeOK, acceptable
<1> QED BY <1>3, <1>4, RewindowedIsWorld

(* Publishing a staged window never reverts an edit: poll_stream changes    *)
(* the window to the one requested last, and nothing else.                  *)
THEOREM EditsArePublished == Spec => PublicationKeepsEdits
<1>1. Init => PublicationInv
  BY PublicationInit
<1>2. PublicationInv /\ [Next]_vars => PublicationInv'
  BY PublicationStep
<1>3. PublicationInv /\ [Next]_vars =>
         [poll_stream /\ world' # world =>
            /\ world'.content = world.content
            /\ world'.center = requested_center
            /\ world'.revision = world.revision + 1]_vars
  BY PublicationMovesWindow
<1> QED BY <1>1, <1>2, <1>3, PTL DEF Spec, PublicationKeepsEdits


-----------------------------------------------------------------------------
(* The pending window is the one requested last.                            *)

(* Whatever a step does to the pending window, it is what was asked for.    *)
LEMMA PendingStep == PendingIsLatestRequest /\ [Next]_vars => PendingIsLatestRequest'
<1> SUFFICES ASSUME PendingIsLatestRequest, [Next]_vars PROVE PendingIsLatestRequest'
  OBVIOUS
<1>1. ASSUME NEW c \in Centers, request_stream(c) PROVE PendingIsLatestRequest'
  <2> DEFINE id == <<c, world.revision, generation>>
             fresh == [world |-> world, center |-> c, generation |-> generation,
                       source_revision |-> world.revision]
  <2>1. Identity(fresh) = id
    BY DEF Identity
  <2> HIDE DEF fresh
  <2>2. \/ stream' = {}
        \/ stream' = stream /\ stream_requested' = stream_requested
        \/ stream' = stream \ Superseded(id) /\ stream_requested' = {id}
        \/ stream' = {fresh} /\ stream_requested' = {id}
    BY <1>1 DEF request_stream, fresh
  <2>3. CASE stream' = {}
    BY <2>3 DEF PendingIsLatestRequest
  <2>4. CASE stream' = stream /\ stream_requested' = stream_requested
    BY <2>4 DEF PendingIsLatestRequest
  <2>5. CASE stream' = stream \ Superseded(id) /\ stream_requested' = {id}
    BY <2>5 DEF PendingIsLatestRequest, Superseded
  <2>6. CASE stream' = {fresh} /\ stream_requested' = {id}
    BY <2>1, <2>6 DEF PendingIsLatestRequest
  <2> QED BY <2>2, <2>3, <2>4, <2>5, <2>6
<1>2. CASE reset \/ \E w \in NewWorlds : replace_world(w)
  BY <1>2 DEF reset, replace_world, Cancel, PendingIsLatestRequest
<1>3. CASE \/ \E k \in Keys, m \in Contents, touched \in SUBSET Keys : Edit(k, m, touched)
           \/ \E c \in Centers : StreamAround(c) \/ sync_fallback_if_stalled(c)
           \/ poll_stream \/ \E k \in Keys : request_mesh(k)
           \/ push_mesh \/ poll_mesh \/ pause \/ resume \/ drop
  <2>1. stream' \subseteq stream /\ stream_requested' = stream_requested
    BY <1>3 DEF Edit, StreamAround, sync_fallback_if_stalled, poll_stream, request_mesh,
                push_mesh, poll_mesh, pause, resume, drop, streamVars
  <2> QED BY <2>1 DEF PendingIsLatestRequest
<1>4. CASE Worker \/ UNCHANGED vars
  <2>1. stream' \subseteq stream /\ stream_requested' = stream_requested
    BY <1>4 DEF Worker, worker_wait, worker_exit, take_job, finish_stream, finish_mesh,
                count_unit, worker_panic, vars, streamVars
  <2> QED BY <2>1 DEF PendingIsLatestRequest
<1> QED BY <1>1, <1>2, <1>3, <1>4 DEF Next, Caller

(* The one pending window is always the latest request's (request_stream).  *)
THEOREM PendingIsLatestAlways == Spec => []PendingIsLatestRequest
<1>1. Init => PendingIsLatestRequest
  BY DEF Init, PendingIsLatestRequest
<1> QED BY <1>1, PendingStep, PTL DEF Spec

-----------------------------------------------------------------------------
(* Nothing outlives a reset.  A request between its two critical sections   *)
(* needs an argument: nobody else ends the worker meanwhile.                *)

CallMeansOpen == mesh_call # {} => ~shutdown /\ ~dropped

ResetInv == TypeOK /\ NothingOutlivesReset /\ CallMeansOpen

(* What a queue holds after a step is what it held, or what was appended.   *)
LEMMA AppendElements ==
    ASSUME NEW S, NEW s \in Seq(S), NEW e \in S
    PROVE  /\ \A n \in DOMAIN Append(s, e) :
                 \/ n \in DOMAIN s /\ Append(s, e)[n] = s[n]
                 \/ n = Len(s) + 1 /\ Append(s, e)[n] = e
           /\ \A n \in DOMAIN s : n \in DOMAIN Append(s, e) /\ Append(s, e)[n] = s[n]
           /\ Len(s) + 1 \in DOMAIN Append(s, e)
           /\ Append(s, e)[Len(s) + 1] = e
           /\ Len(s) + 1 \notin DOMAIN s
OBVIOUS

(* The tail of a queue is the queue, moved up by one.                       *)
LEMMA TailElements ==
    ASSUME NEW S, NEW s \in Seq(S), s # <<>>
    PROVE  /\ Head(s) = s[1] /\ 1 \in DOMAIN s
           /\ \A n \in DOMAIN Tail(s) : n + 1 \in DOMAIN s /\ Tail(s)[n] = s[n + 1]
           /\ \A n \in DOMAIN s : n # 1 => n - 1 \in DOMAIN Tail(s)
OBVIOUS

(* Results that are left after a poll were there before.                    *)
LEMMA PolledElements ==
    ASSUME TypeOK, poll_mesh
    PROVE  \A n \in DOMAIN mesh_results' :
              \E i \in DOMAIN mesh_results : mesh_results'[n] = mesh_results[i]
<1>0. mesh_results \in Seq(MeshResults)
  BY DEF TypeOK
<1>1. CASE mesh_results' = <<>>
  BY <1>1
<1>2. ASSUME NEW n \in DOMAIN mesh_results,
             mesh_results' = SubSeq(mesh_results, n + 1, Len(mesh_results))
      PROVE  \A x \in DOMAIN mesh_results' :
                \E i \in DOMAIN mesh_results : mesh_results'[x] = mesh_results[i]
  <2>1. n \in 1 .. Len(mesh_results) /\ Len(mesh_results) \in Nat
    BY <1>0
  <2>2. \A x \in 1 .. Len(mesh_results) - n :
           SubSeq(mesh_results, n + 1, Len(mesh_results))[x] = mesh_results[n + x]
    BY <1>0, <2>1
  <2>3. DOMAIN mesh_results' = 1 .. Len(mesh_results) - n
    BY <1>0, <1>2, <2>1
  <2>4. \A x \in 1 .. Len(mesh_results) - n : n + x \in DOMAIN mesh_results
    BY <1>0, <2>1
  <2> QED BY <1>2, <2>2, <2>3, <2>4
<1> QED BY <1>1, <1>2 DEF poll_mesh

(* Everything queued or staged disappears in a cancellation.                *)
LEMMA ResetCancel == ASSUME TypeOK', Cancel, CallerIdle PROVE ResetInv'
<1>1. /\ meshes' = <<>> /\ mesh_results' = <<>> /\ stream' = {} /\ stream_result' = {}
      /\ mesh_call' = {}
  BY DEF Cancel, CallerIdle
<1> QED BY <1>1 DEF ResetInv, NothingOutlivesReset, CallMeansOpen

(* Every step leaves what is queued or staged under the current generation. *)
LEMMA ResetStep == ResetInv /\ [Next]_vars => ResetInv'
<1> SUFFICES ASSUME ResetInv, [Next]_vars PROVE ResetInv'
  OBVIOUS
<1>0. TypeOK /\ TypeOK'
  BY TypeStep DEF ResetInv
<1>1. ASSUME NEW c \in Centers, request_stream(c) PROVE ResetInv'
  <2>1. /\ UNCHANGED <<meshes, mesh_results, shutdown, generation, mesh_call, dropped>>
        /\ stream_result' \subseteq stream_result
        /\ \A u \in stream' : u \in stream \/ u.generation = generation
        /\ shutdown => stream' \subseteq stream
    BY <1>1 DEF request_stream, meshVars, gateVars
  <2> QED BY <1>0, <2>1 DEF ResetInv, NothingOutlivesReset, CallMeansOpen
<1>2. CASE reset \/ \E w \in NewWorlds : replace_world(w)
  BY <1>0, <1>2, ResetCancel DEF reset, replace_world
<1>3. CASE push_mesh
  <2>1. PICK call \in mesh_call :
           meshes' = Append(meshes, [key |-> call.key, voxels |-> call.voxels,
                                     revision |-> call.revision, generation |-> generation])
    BY <1>3 DEF push_mesh
  <2> DEFINE job == [key |-> call.key, voxels |-> call.voxels,
                     revision |-> call.revision, generation |-> generation]
  <2>2. meshes \in Seq(MeshJobs) /\ job \in MeshJobs /\ job.generation = generation
    BY <1>0, <2>1, OptionElim DEF TypeOK, MeshCalls, MeshJobs
  <2>3. /\ UNCHANGED <<stream, stream_result, mesh_results, shutdown, generation, dropped>>
        /\ mesh_call' = {} /\ ~shutdown
    BY <1>3, <2>1 DEF push_mesh, streamVars, gateVars, ResetInv, CallMeansOpen
  <2> HIDE DEF job
  <2>4. \A n \in DOMAIN meshes' : meshes'[n].generation = generation
    BY <2>1, <2>2, AppendElements DEF ResetInv, NothingOutlivesReset, job
  <2> QED BY <1>0, <2>3, <2>4 DEF ResetInv, NothingOutlivesReset, CallMeansOpen
<1>4. CASE poll_mesh
  <2>1. /\ UNCHANGED <<stream, stream_result, meshes, shutdown, generation, mesh_call, dropped>>
        /\ \A n \in DOMAIN mesh_results' :
              \E i \in DOMAIN mesh_results : mesh_results'[n] = mesh_results[i]
    BY <1>0, <1>4, PolledElements DEF poll_mesh, streamVars, gateVars
  <2> QED BY <1>0, <2>1 DEF ResetInv, NothingOutlivesReset, CallMeansOpen
<1>5. CASE take_job
  <2>1. /\ UNCHANGED <<stream_result, mesh_results, shutdown, generation, mesh_call, dropped>>
        /\ stream' = stream \/ stream' = {}
        /\ ~shutdown
        /\ meshes' = meshes \/ (meshes # <<>> /\ meshes' = Tail(meshes))
    BY <1>5, Zenon DEF take_job, callerVars, gateVars
  <2>2. \A n \in DOMAIN meshes' : \E i \in DOMAIN meshes : meshes'[n] = meshes[i]
    <3>1. CASE meshes # <<>> /\ meshes' = Tail(meshes)
      <4>1. meshes \in Seq(MeshJobs)
        BY <1>0 DEF TypeOK
      <4>2. \A n \in DOMAIN Tail(meshes) :
               n + 1 \in DOMAIN meshes /\ Tail(meshes)[n] = meshes[n + 1]
        BY <3>1, <4>1, TailElements
      <4> QED BY <3>1, <4>2
    <3> QED BY <2>1, <3>1
  <2> QED BY <1>0, <2>1, <2>2 DEF ResetInv, NothingOutlivesReset, CallMeansOpen
<1>6. CASE finish_stream
  <2>1. /\ UNCHANGED <<stream, meshes, mesh_results, shutdown, generation, mesh_call, dropped>>
        /\ \/ UNCHANGED stream_result
           \/ \E u \in stream_job : /\ ~Cancelled(u)
                                    /\ stream_result' = {[u EXCEPT !.world = stream_around(@, u.center)]}
    BY <1>6 DEF finish_stream, callerVars, meshVars, gateVars
  <2>2. \A r \in stream_result' : r \in stream_result \/ r.generation = generation
    <3>1. ASSUME NEW u \in stream_job, ~Cancelled(u)
          PROVE  [u EXCEPT !.world = stream_around(@, u.center)].generation = generation
      <4>1. u \in StreamUnits
        BY <1>0, OptionElim DEF TypeOK
      <4> QED BY <3>1, <4>1 DEF Cancelled, StreamUnits
    <3> QED BY <2>1, <3>1
  <2> QED BY <1>0, <2>1, <2>2 DEF ResetInv, NothingOutlivesReset, CallMeansOpen
<1>7. CASE finish_mesh
  <2>1. /\ UNCHANGED <<stream, stream_result, meshes, shutdown, generation, mesh_call, dropped>>
        /\ \/ UNCHANGED mesh_results
           \/ \E u \in mesh_job, bytes \in MeshSizes :
                /\ ~Cancelled(u)
                /\ mesh_results' = Append(mesh_results,
                      [key |-> u.key, generation |-> u.generation, bytes |-> bytes,
                       mesh |-> [voxels |-> u.voxels, revision |-> u.revision]])
    BY <1>7 DEF finish_mesh, callerVars, streamVars, gateVars
  <2>2. ASSUME NEW u \in mesh_job, NEW bytes \in MeshSizes, ~Cancelled(u),
               mesh_results' = Append(mesh_results,
                      [key |-> u.key, generation |-> u.generation, bytes |-> bytes,
                       mesh |-> [voxels |-> u.voxels, revision |-> u.revision]])
        PROVE  \A n \in DOMAIN mesh_results' : mesh_results'[n].generation = generation
    <3> DEFINE r == [key |-> u.key, generation |-> u.generation, bytes |-> bytes,
                     mesh |-> [voxels |-> u.voxels, revision |-> u.revision]]
    <3>1. mesh_results \in Seq(MeshResults) /\ r \in MeshResults /\ r.generation = generation
      BY <1>0, <2>2, OptionElim DEF TypeOK, MeshJobs, MeshResults, Meshes, Cancelled
    <3>2. mesh_results' = Append(mesh_results, r)
      BY <2>2
    <3> HIDE DEF r
    <3> QED BY <3>1, <3>2, AppendElements DEF ResetInv, NothingOutlivesReset
  <2>3. \A n \in DOMAIN mesh_results' : mesh_results'[n].generation = generation
    BY <2>1, <2>2 DEF ResetInv, NothingOutlivesReset
  <2> QED BY <1>0, <2>1, <2>3 DEF ResetInv, NothingOutlivesReset, CallMeansOpen
<1>8. CASE drop
  BY <1>0, <1>8 DEF drop, CallerIdle, ResetInv, NothingOutlivesReset, CallMeansOpen
<1>9. CASE \E k \in Keys : request_mesh(k)
  BY <1>0, <1>9 DEF request_mesh, accepts_mesh, CallerIdle, ResetInv, NothingOutlivesReset,
                    CallMeansOpen, streamVars, meshVars, gateVars
<1>10. CASE \/ \E k \in Keys, m \in Contents, touched \in SUBSET Keys : Edit(k, m, touched)
            \/ \E c \in Centers : StreamAround(c) \/ sync_fallback_if_stalled(c)
            \/ poll_stream \/ pause \/ resume
            \/ worker_wait \/ worker_exit \/ count_unit \/ worker_panic \/ UNCHANGED vars
  <2>1. /\ UNCHANGED <<stream, meshes, mesh_results, shutdown, generation, mesh_call, dropped>>
        /\ stream_result' \subseteq stream_result
    BY <1>10 DEF Edit, StreamAround, sync_fallback_if_stalled, poll_stream, pause, resume,
                 worker_wait, worker_exit, count_unit, worker_panic, vars, callerVars,
                 streamVars, meshVars, gateVars, workerVars
  <2> QED BY <1>0, <2>1 DEF ResetInv, NothingOutlivesReset, CallMeansOpen
<1> QED
  BY <1>1, <1>2, <1>3, <1>4, <1>5, <1>6, <1>7, <1>8, <1>9, <1>10 DEF Next, Caller, Worker

(* Nothing is queued, staged or initially there without the generation.     *)
LEMMA ResetInit == Init => ResetInv
BY TypeInit DEF Init, ResetInv, NothingOutlivesReset, CallMeansOpen

(* A reset leaves nothing behind (AsyncWorldController::reset): what is      *)
(* queued or staged carries the current generation, and a retired or        *)
(* dropped controller has no pending work.                                  *)
THEOREM NothingOutlivesResetAlways == Spec => []NothingOutlivesReset
<1>1. ResetInv => NothingOutlivesReset
  BY DEF ResetInv
<1> QED BY <1>1, ResetInit, ResetStep, PTL DEF Spec

-----------------------------------------------------------------------------
(* Active keys.  The thread holds one unit exactly while it runs, no unit   *)
(* carries a generation of the future, and the key of a request between     *)
(* its two critical sections is still free.                                 *)

Open == ~shutdown /\ worker # "exited"

JobsBounded == \A u \in mesh_job : u.generation <= generation

RunningHolds ==
    /\ worker # "running" => mesh_job = {} /\ stream_job = {}
    /\ mesh_job = {} \/ stream_job = {}

CallIsNew == Open => \A call \in mesh_call : call.key \notin active

KeysInv == ResetInv /\ JobsBounded /\ RunningHolds /\ ActiveKeysExact /\ CallIsNew

(* A caller leaves the thread alone or wakes it.                            *)
LEMMA CallerWakes == Caller => worker' = worker \/ (worker' = "checking" /\ worker = "asleep")
<1> SUFFICES ASSUME Caller PROVE worker' = worker \/ Wake
  BY DEF Wake
<1>1. CASE \/ \E k \in Keys, m \in Contents, touched \in SUBSET Keys : Edit(k, m, touched)
           \/ \E c \in Centers : StreamAround(c) \/ sync_fallback_if_stalled(c)
           \/ poll_stream \/ \E k \in Keys : request_mesh(k)
           \/ poll_mesh \/ pause
  BY <1>1 DEF Edit, StreamAround, sync_fallback_if_stalled, poll_stream, request_mesh,
              poll_mesh, pause, workerVars
<1>2. CASE \E c \in Centers : request_stream(c)
  BY <1>2 DEF request_stream
<1>3. CASE reset \/ \E w \in NewWorlds : replace_world(w)
  BY <1>3 DEF reset, replace_world, Cancel
<1>4. CASE push_mesh \/ resume \/ drop
  BY <1>4 DEF push_mesh, resume, drop
<1> QED BY <1>1, <1>2, <1>3, <1>4 DEF Caller

(* The thread and its unit, whatever it does.                               *)
LEMMA RunningStep == RunningHolds /\ [Next]_vars => RunningHolds'
<1> SUFFICES ASSUME RunningHolds, [Next]_vars PROVE RunningHolds'
  OBVIOUS
<1>1. CASE Caller
  <2>1. UNCHANGED <<mesh_job, stream_job>>
    <3>1. CASE \/ \E k \in Keys, m \in Contents, touched \in SUBSET Keys : Edit(k, m, touched)
               \/ \E c \in Centers : \/ StreamAround(c) \/ sync_fallback_if_stalled(c)
                                     \/ request_stream(c)
               \/ poll_stream \/ \E k \in Keys : request_mesh(k)
               \/ poll_mesh \/ pause \/ push_mesh \/ resume \/ drop
      BY <3>1 DEF Edit, StreamAround, sync_fallback_if_stalled, poll_stream, request_mesh,
                  poll_mesh, pause, request_stream, push_mesh, resume, drop, workerVars, jobVars
    <3>2. CASE reset \/ \E w \in NewWorlds : replace_world(w)
      BY <3>2 DEF reset, replace_world, Cancel, jobVars
    <3> QED BY <1>1, <3>1, <3>2 DEF Caller
  <2> QED BY <1>1, <2>1, CallerWakes DEF RunningHolds
<1>2. CASE take_job
  BY <1>2 DEF take_job, RunningHolds
<1>3. CASE finish_stream \/ finish_mesh
  BY <1>3 DEF finish_stream, finish_mesh, RunningHolds
<1>4. CASE worker_wait \/ worker_exit \/ count_unit \/ worker_panic \/ UNCHANGED vars
  BY <1>4 DEF worker_wait, worker_exit, count_unit, worker_panic, RunningHolds, vars,
              workerVars, jobVars
<1> QED BY <1>1, <1>2, <1>3, <1>4 DEF Next, Worker

(* A unit taken is of the current generation, which only grows.             *)
LEMMA BoundedStep == ResetInv /\ JobsBounded /\ [Next]_vars => JobsBounded'
<1> SUFFICES ASSUME ResetInv, JobsBounded, [Next]_vars PROVE JobsBounded'
  OBVIOUS
<1>0. /\ generation \in Nat
      /\ \A u \in mesh_job : u.generation \in Nat
      /\ \A n \in DOMAIN meshes : meshes[n].generation = generation
      /\ meshes \in Seq(MeshJobs)
  <2>1. Generations \subseteq Nat
    BY ConstantsAssumption DEF ConstantsAssumption, Generations
  <2>2. generation \in Generations /\ mesh_job \in Option(MeshJobs) /\ meshes \in Seq(MeshJobs)
    BY DEF ResetInv, TypeOK
  <2>3. \A u \in mesh_job : u \in MeshJobs
    BY <2>2, OptionElim
  <2> QED BY <2>1, <2>2, <2>3 DEF MeshJobs, ResetInv, NothingOutlivesReset
<1>1. CASE reset \/ \E w \in NewWorlds : replace_world(w)
  <2>1. /\ mesh_job' = mesh_job
        /\ generation' = generation + 1 \/ generation' = generation
    BY <1>1 DEF reset, replace_world, Cancel, jobVars
  <2> QED BY <1>0, <2>1 DEF JobsBounded
<1>2. CASE take_job
  <2>1. /\ generation' = generation
        /\ mesh_job' = mesh_job \/ (meshes # <<>> /\ mesh_job' = {Head(meshes)})
    BY <1>2, Zenon DEF take_job, gateVars
  <2>2. meshes # <<>> => Head(meshes).generation = generation
    BY <1>0, TailElements
  <2> QED BY <1>0, <2>1, <2>2 DEF JobsBounded
<1>3. CASE ~(take_job \/ reset \/ \E w \in NewWorlds : replace_world(w))
  <2>1. generation' = generation /\ mesh_job' \subseteq mesh_job
    <3>1. CASE \/ \E k \in Keys, m \in Contents, touched \in SUBSET Keys : Edit(k, m, touched)
               \/ \E c \in Centers : StreamAround(c) \/ sync_fallback_if_stalled(c)
               \/ poll_stream \/ \E k \in Keys : request_mesh(k)
               \/ poll_mesh \/ pause \/ UNCHANGED vars
      BY <3>1 DEF Edit, StreamAround, sync_fallback_if_stalled, poll_stream, request_mesh,
                  poll_mesh, pause, workerVars, jobVars, gateVars, vars
    <3>2. CASE \/ \E c \in Centers : request_stream(c)
               \/ push_mesh \/ resume \/ drop
      BY <3>2 DEF request_stream, push_mesh, resume, drop, jobVars, gateVars
    <3>3. CASE worker_wait \/ worker_exit \/ finish_stream \/ finish_mesh \/ count_unit
               \/ worker_panic
      BY <3>3 DEF worker_wait, worker_exit, finish_stream, finish_mesh, count_unit,
                  worker_panic, gateVars, jobVars
    <3> QED BY <1>3, <3>1, <3>2, <3>3 DEF Next, Caller, Worker
  <2> QED BY <1>0, <2>1 DEF JobsBounded
<1> QED BY <1>1, <1>2, <1>3

(* The parts about keys survive a step that leaves queue, keys and unit     *)
(* alone, or after which nobody requests any more.                          *)
LEMMA KeysFrame ==
    ASSUME ActiveKeysExact, CallIsNew,
           \/ ~Open'
           \/ /\ Open
              /\ UNCHANGED <<meshes, active, mesh_job, generation>>
              /\ mesh_call' \subseteq mesh_call
    PROVE  ActiveKeysExact' /\ CallIsNew'
BY DEF ActiveKeysExact, CallIsNew, Open

(* Once nobody requests any more it stays so.                               *)
LEMMA OpenBefore == [Next]_vars /\ Open' => Open
<1> SUFFICES ASSUME [Next]_vars, ~Open PROVE ~Open'
  OBVIOUS
<1>1. shutdown' = shutdown \/ shutdown'
  <2>1. CASE \/ \E k \in Keys, m \in Contents, touched \in SUBSET Keys : Edit(k, m, touched)
             \/ \E c \in Centers : StreamAround(c) \/ sync_fallback_if_stalled(c)
             \/ poll_stream \/ \E k \in Keys : request_mesh(k)
             \/ poll_mesh \/ pause \/ UNCHANGED vars
    BY <2>1, Zenon DEF Edit, StreamAround, sync_fallback_if_stalled, poll_stream, request_mesh,
                poll_mesh, pause, gateVars, vars
  <2>2. CASE \/ \E c \in Centers : request_stream(c)
             \/ push_mesh \/ resume \/ drop
    BY <2>2, Zenon DEF request_stream, push_mesh, resume, drop, gateVars
  <2>3. CASE reset \/ \E w \in NewWorlds : replace_world(w)
    BY <2>3, Zenon DEF reset, replace_world, Cancel
  <2>4. CASE Worker
    BY <2>4, Zenon DEF Worker, worker_wait, worker_exit, take_job, finish_stream, finish_mesh,
                count_unit, worker_panic, gateVars
  <2> QED BY <2>1, <2>2, <2>3, <2>4 DEF Next, Caller
<1>2. worker = "exited" => worker' = "exited"
  <2>1. CASE Caller
    BY <2>1, CallerWakes
  <2>2. CASE Worker \/ UNCHANGED vars
    BY <2>2 DEF Worker, worker_wait, worker_exit, take_job, finish_stream, finish_mesh,
                count_unit, worker_panic, vars, workerVars
  <2> QED BY <2>1, <2>2 DEF Next
<1> QED BY <1>1, <1>2, Zenon DEF Open

(* A queued job takes a free key.                                           *)
LEMMA KeysPush == ASSUME KeysInv, TypeOK', push_mesh, Open PROVE ActiveKeysExact' /\ CallIsNew'
<1>1. PICK call \in mesh_call :
         /\ active' = active \cup {call.key}
         /\ meshes' = Append(meshes, [key |-> call.key, voxels |-> call.voxels,
                                      revision |-> call.revision, generation |-> generation])
  BY DEF push_mesh
<1> DEFINE job == [key |-> call.key, voxels |-> call.voxels,
                   revision |-> call.revision, generation |-> generation]
<1>2. meshes \in Seq(MeshJobs) /\ job \in MeshJobs /\ job.key = call.key
  BY <1>1, OptionElim DEF KeysInv, ResetInv, TypeOK, MeshCalls, MeshJobs
<1>3. meshes' = Append(meshes, job) /\ call.key \notin active
  BY <1>1 DEF KeysInv, CallIsNew
<1>4. mesh_call' = {} /\ UNCHANGED <<mesh_job, generation, shutdown>>
  BY DEF push_mesh, gateVars, jobVars
<1> HIDE DEF job
<1>5. \A n \in DOMAIN meshes' : \/ n \in DOMAIN meshes /\ meshes'[n] = meshes[n]
                                \/ n = Len(meshes) + 1 /\ meshes'[n] = job
  BY <1>2, <1>3, AppendElements
<1>6. /\ \A n \in DOMAIN meshes : n \in DOMAIN meshes' /\ meshes'[n] = meshes[n]
      /\ Len(meshes) + 1 \in DOMAIN meshes' /\ meshes'[Len(meshes) + 1] = job
  BY <1>2, <1>3, AppendElements
<1>7. /\ active = {meshes[n].key : n \in DOMAIN meshes}
                    \cup {u.key : u \in {j \in mesh_job : j.generation = generation}}
      /\ \A m, n \in DOMAIN meshes : meshes[m].key = meshes[n].key => m = n
      /\ \A u \in mesh_job, n \in DOMAIN meshes :
            u.generation = generation => u.key # meshes[n].key
  BY DEF KeysInv, ActiveKeysExact, Open
<1>8. {meshes'[n].key : n \in DOMAIN meshes'}
         = {meshes[n].key : n \in DOMAIN meshes} \cup {call.key}
  BY <1>2, <1>5, <1>6
<1>9. \A n \in DOMAIN meshes : meshes[n].key # call.key
  BY <1>3, <1>7
<1>10. active' = {meshes'[n].key : n \in DOMAIN meshes'}
                    \cup {u.key : u \in {j \in mesh_job' : j.generation = generation'}}
  BY <1>1, <1>4, <1>7, <1>8
<1>11. \A m, n \in DOMAIN meshes' : meshes'[m].key = meshes'[n].key => m = n
  BY <1>2, <1>5, <1>7, <1>9
<1>12. \A u \in mesh_job', n \in DOMAIN meshes' :
          u.generation = generation' => u.key # meshes'[n].key
  <2>1. \A u \in mesh_job : u.generation = generation => u.key \in active
    BY <1>7
  <2> QED BY <1>2, <1>3, <1>4, <1>5, <1>7, <2>1
<1> QED BY <1>4, <1>10, <1>11, <1>12 DEF ActiveKeysExact, CallIsNew

(* A taken job moves from the queue to the thread.                          *)
LEMMA KeysTake == ASSUME KeysInv, take_job, Open PROVE ActiveKeysExact' /\ CallIsNew'
<1>1. /\ UNCHANGED <<active, generation, mesh_call>>
      /\ mesh_job = {}
  BY DEF take_job, callerVars, gateVars, KeysInv, RunningHolds
<1>2. CallIsNew'
  BY <1>1 DEF KeysInv, CallIsNew
<1>3. \/ UNCHANGED <<meshes, mesh_job>>
      \/ meshes # <<>> /\ mesh_job' = {Head(meshes)} /\ meshes' = Tail(meshes)
  BY Zenon DEF take_job
<1>4. CASE UNCHANGED <<meshes, mesh_job>>
  BY <1>1, <1>2, <1>4 DEF KeysInv, ActiveKeysExact, Open
<1>5. CASE meshes # <<>> /\ mesh_job' = {Head(meshes)} /\ meshes' = Tail(meshes)
  <2>1. meshes \in Seq(MeshJobs)
    BY DEF KeysInv, ResetInv, TypeOK
  <2>2. /\ Head(meshes) = meshes[1] /\ 1 \in DOMAIN meshes
        /\ \A n \in DOMAIN Tail(meshes) : n + 1 \in DOMAIN meshes /\ Tail(meshes)[n] = meshes[n + 1]
        /\ \A n \in DOMAIN meshes : n # 1 => n - 1 \in DOMAIN Tail(meshes)
        /\ DOMAIN meshes \subseteq Nat \ {0} /\ DOMAIN Tail(meshes) \subseteq Nat \ {0}
    BY <1>5, <2>1, TailElements
  <2>3. /\ active = {meshes[n].key : n \in DOMAIN meshes}
        /\ \A m, n \in DOMAIN meshes : meshes[m].key = meshes[n].key => m = n
    BY <1>1 DEF KeysInv, ActiveKeysExact, Open
  <2>4. meshes[1].generation = generation
    BY <2>2 DEF KeysInv, ResetInv, NothingOutlivesReset
  <2>5. {meshes[n].key : n \in DOMAIN meshes}
           = {Tail(meshes)[n].key : n \in DOMAIN Tail(meshes)} \cup {meshes[1].key}
    <3>1. ASSUME NEW n \in DOMAIN meshes, n # 1
          PROVE  n - 1 \in DOMAIN Tail(meshes) /\ Tail(meshes)[n - 1] = meshes[n]
      <4>1. n \in Nat /\ n - 1 \in DOMAIN Tail(meshes) /\ (n - 1) + 1 = n
        BY <2>2, <3>1
      <4> QED BY <2>2, <4>1
    <3> QED BY <2>2, <3>1
  <2>6. active' = {meshes'[n].key : n \in DOMAIN meshes'}
                     \cup {u.key : u \in {j \in mesh_job' : j.generation = generation'}}
    BY <1>1, <1>5, <2>2, <2>3, <2>4, <2>5
  <2>7. \A m, n \in DOMAIN meshes' : meshes'[m].key = meshes'[n].key => m = n
    BY <1>5, <2>2, <2>3
  <2>8. \A n \in DOMAIN meshes' : meshes'[n].key # meshes[1].key
    <3> SUFFICES ASSUME NEW n \in DOMAIN Tail(meshes), Tail(meshes)[n].key = meshes[1].key
                 PROVE  FALSE
      BY <1>5
    <3>1. n + 1 = 1 /\ n \in Nat \ {0}
      BY <2>2, <2>3
    <3> QED BY <3>1
  <2> QED BY <1>2, <1>5, <2>2, <2>6, <2>7, <2>8 DEF ActiveKeysExact
<1> QED BY <1>3, <1>4, <1>5

(* A finished mesh frees its key, if it is still the one of this generation.*)
LEMMA KeysFinish == ASSUME KeysInv, finish_mesh, Open PROVE ActiveKeysExact' /\ CallIsNew'
<1>1. PICK u \in mesh_job : active' = Released(u)
  BY DEF finish_mesh
<1>2. UNCHANGED <<meshes, generation, mesh_call>> /\ mesh_job' = {} /\ mesh_job = {u}
  BY OptionElim DEF finish_mesh, callerVars, gateVars, KeysInv, ResetInv, TypeOK
<1>3. /\ active = {meshes[n].key : n \in DOMAIN meshes}
                    \cup {j.key : j \in {x \in mesh_job : x.generation = generation}}
      /\ \A m, n \in DOMAIN meshes : meshes[m].key = meshes[n].key => m = n
      /\ \A j \in mesh_job, n \in DOMAIN meshes :
            j.generation = generation => j.key # meshes[n].key
  BY DEF KeysInv, ActiveKeysExact, Open
<1>4. active' = {meshes[n].key : n \in DOMAIN meshes}
  BY <1>1, <1>2, <1>3 DEF Released
<1>5. CallIsNew'
  BY <1>2, <1>3, <1>4 DEF KeysInv, CallIsNew, Open
<1> QED BY <1>2, <1>3, <1>4, <1>5 DEF ActiveKeysExact

(* A cancellation frees all keys; the unit of the thread is of a generation *)
(* that has passed.                                                         *)
LEMMA KeysCancel == ASSUME KeysInv, CallerIdle, Cancel PROVE ActiveKeysExact' /\ CallIsNew'
<1>1. /\ meshes' = <<>> /\ active' = {} /\ mesh_job' = mesh_job /\ mesh_call' = {}
      /\ generation' = generation + 1 \/ shutdown'
  BY DEF Cancel, CallerIdle, jobVars
<1>2. \A u \in mesh_job : u.generation \in Nat /\ u.generation <= generation
  <2>1. Generations \subseteq Nat
    BY ConstantsAssumption DEF ConstantsAssumption, Generations
  <2>2. \A u \in mesh_job : u \in MeshJobs
    BY OptionElim DEF KeysInv, ResetInv, TypeOK
  <2> QED BY <2>1, <2>2 DEF MeshJobs, KeysInv, JobsBounded
<1>3. generation \in Nat
  BY ConstantsAssumption DEF ConstantsAssumption, Generations, KeysInv, ResetInv, TypeOK
<1>4. CASE shutdown'
  BY <1>4 DEF ActiveKeysExact, CallIsNew, Open
<1>5. CASE generation' = generation + 1
  <2>1. \A u \in mesh_job' : u.generation # generation'
    BY <1>1, <1>2, <1>3, <1>5
  <2> QED BY <1>1, <2>1 DEF ActiveKeysExact, CallIsNew
<1> QED BY <1>1, <1>4, <1>5

(* Every step keeps the invariant of the keys.                              *)
LEMMA KeysStep == KeysInv /\ [Next]_vars => KeysInv'
<1> SUFFICES ASSUME KeysInv, [Next]_vars PROVE KeysInv'
  OBVIOUS
<1>0. ResetInv' /\ JobsBounded' /\ RunningHolds'
  BY ResetStep, BoundedStep, RunningStep DEF KeysInv
<1>1. CASE ~Open'
  BY <1>0, <1>1, KeysFrame DEF KeysInv
<1>2. CASE Open'
  <2>0. Open
    BY <1>2, OpenBefore
  <2>1. CASE push_mesh
    BY <1>0, <2>0, <2>1, KeysPush DEF KeysInv, ResetInv
  <2>2. CASE take_job
    BY <1>0, <2>0, <2>2, KeysTake DEF KeysInv
  <2>3. CASE finish_mesh
    BY <1>0, <2>0, <2>3, KeysFinish DEF KeysInv
  <2>4. CASE reset \/ \E w \in NewWorlds : replace_world(w)
    BY <1>0, <2>4, KeysCancel DEF KeysInv, reset, replace_world
  <2>5. CASE \E k \in Keys : request_mesh(k)
    <3>1. PICK k \in Keys : request_mesh(k)
      BY <2>5
    <3>2. /\ UNCHANGED <<meshes, active, mesh_job, generation>>
          /\ k \notin active /\ \A call \in mesh_call' : call.key = k
      BY <3>1 DEF request_mesh, accepts_mesh, meshVars, workerVars, jobVars, gateVars
    <3> QED BY <1>0, <2>0, <3>2 DEF KeysInv, ActiveKeysExact, CallIsNew, Open
  <2>6. CASE drop
    BY <1>2, <2>6 DEF drop, Open
  <2>7. CASE \/ \E k \in Keys, m \in Contents, touched \in SUBSET Keys : Edit(k, m, touched)
             \/ \E c \in Centers : \/ StreamAround(c) \/ sync_fallback_if_stalled(c)
                                   \/ request_stream(c)
             \/ poll_stream \/ poll_mesh \/ pause \/ resume
             \/ worker_wait \/ worker_exit \/ count_unit \/ UNCHANGED vars
    <3>1. UNCHANGED <<meshes, active, mesh_job, generation, mesh_call>>
      BY <2>7 DEF Edit, StreamAround, sync_fallback_if_stalled, request_stream, poll_stream,
                  poll_mesh, pause, resume, worker_wait, worker_exit, count_unit, vars,
                  callerVars, meshVars, gateVars, workerVars, jobVars
    <3> QED BY <1>0, <2>0, <3>1, KeysFrame DEF KeysInv
  <2>8. CASE finish_stream
    <3>1. UNCHANGED <<meshes, active, mesh_job, generation, mesh_call>>
      BY <2>8 DEF finish_stream, callerVars, meshVars, gateVars
    <3> QED BY <1>0, <2>0, <3>1, KeysFrame DEF KeysInv
  <2>9. CASE worker_panic
    BY <1>2, <2>9 DEF worker_panic, Open
  <2> QED
    BY <2>1, <2>2, <2>3, <2>4, <2>5, <2>6, <2>7, <2>8, <2>9 DEF Next, Caller, Worker
<1> QED BY <1>1, <1>2

(* A key is active exactly while a job of this generation is queued or      *)
(* executing for it (accepts_mesh, request_mesh, finish_mesh): none leaks   *)
(* and none is forgotten.                                                   *)
THEOREM ActiveKeysAlwaysExact == Spec => []ActiveKeysExact
<1>1. Init => KeysInv
  BY ResetInit DEF Init, KeysInv, JobsBounded, RunningHolds, ActiveKeysExact, CallIsNew
<1>2. KeysInv => ActiveKeysExact
  BY DEF KeysInv
<1> QED BY <1>1, <1>2, KeysStep, PTL DEF Spec

-----------------------------------------------------------------------------
(* Drawn meshes.  A mesh is faithful while the chunk it was built from is   *)
(* what its revision says; every place a current mesh can be is faithful,   *)
(* because the world only ever stamps a changed chunk with a new revision.  *)

Faithful(k, voxels, revision) ==
    /\ revision <= world.revision
    /\ chunk_revision(world, k) = {revision} => voxels = world.content[k]

RevisionsBounded == \A k \in Keys : world.chunk_revisions[k] <= world.revision

QueueFaithful ==
    /\ \A call \in mesh_call : Faithful(call.key, call.voxels, call.revision)
    /\ \A n \in DOMAIN meshes : Faithful(meshes[n].key, meshes[n].voxels, meshes[n].revision)
    /\ \A u \in mesh_job : Current(u) => Faithful(u.key, u.voxels, u.revision)

ResultsFaithful ==
    /\ \A n \in DOMAIN mesh_results :
          Faithful(mesh_results[n].key, mesh_results[n].mesh.voxels, mesh_results[n].mesh.revision)
    /\ \A k \in Keys : \A m \in uploaded[k] : Faithful(k, m.voxels, m.revision)

DrawnInv ==
    /\ KeysInv /\ PublicationInv
    /\ RevisionsBounded /\ QueueFaithful /\ ResultsFaithful

(* Wherever a world moves to by an edit or with its window, a chunk keeps   *)
(* its revision only with its content.                                      *)
Advances(old, new) ==
    /\ new.revision = old.revision + 1
    /\ \A k \in Keys :
          \/ chunk_revision(new, k) = {}
          \/ chunk_revision(new, k) = {new.revision}
          \/ chunk_revision(new, k) = chunk_revision(old, k) /\ new.content[k] = old.content[k]
    /\ \A k \in Keys : \/ new.chunk_revisions[k] \in {0, new.revision}
                       \/ new.chunk_revisions[k] = old.chunk_revisions[k]

(* An edit stamps its chunk and the neighbours it touches.                  *)
LEMMA EditAdvances ==
    ASSUME NEW w \in Worlds, NEW k \in Keys, NEW m \in Contents, NEW touched,
           w.revision < MaxRevision
    PROVE  Advances(w, Edited(w, k, m, touched))
<1> DEFINE new == Edited(w, k, m, touched)
           con == [w.content EXCEPT ![k] = m]
           chu == [x \in Keys |->
                     IF x = k THEN IF m = Air THEN 0 ELSE w.revision + 1
                     ELSE IF x \in touched /\ chunk_revision(w, x) # {} THEN w.revision + 1
                     ELSE w.chunk_revisions[x]]
<1>1. /\ new.revision = w.revision + 1 /\ new.content = con
      /\ new.chunk_revisions = chu /\ new.center = w.center
  BY DEF Edited, Worlds
<1>2. /\ con[k] = m /\ \A x \in Keys : x # k => con[x] = w.content[x]
  BY DEF Worlds
<1>3. \A x \in Keys : \/ chu[x] = 0 /\ x = k /\ m = Air
                      \/ chu[x] = w.revision + 1
                      \/ chu[x] = w.chunk_revisions[x] /\ x # k
  OBVIOUS
<1>4. Resident(new) = Resident(w)
  BY <1>1 DEF Resident
<1> HIDE DEF new, con, chu
<1>5. ASSUME NEW x \in Keys
      PROVE  \/ chunk_revision(new, x) = {}
             \/ chunk_revision(new, x) = {new.revision}
             \/ chunk_revision(new, x) = chunk_revision(w, x) /\ new.content[x] = w.content[x]
  <2>1. CASE x = k /\ m = Air
    BY <1>1, <1>2, <2>1 DEF chunk_revision
  <2>2. CASE chu[x] = w.revision + 1
    BY <1>1, <2>2 DEF chunk_revision
  <2>3. CASE chu[x] = w.chunk_revisions[x] /\ x # k
    BY <1>1, <1>2, <1>4, <2>3 DEF chunk_revision
  <2> QED BY <1>3, <2>1, <2>2, <2>3
<1> QED BY <1>1, <1>3, <1>5 DEF Advances, new

(* Moving the window stamps the chunks it brings and their neighbours.      *)
LEMMA WindowAdvances ==
    ASSUME NEW w \in Worlds, NEW c \in Centers, CanRewindow(w, c)
    PROVE  Advances(w, stream_around(w, c))
<1> DEFINE entered == Window[c]
           changed == (Resident(w) \ entered) \cup (entered \ Resident(w))
           dirty == changed \cup UNION {Faces[k] : k \in changed}
           chu == [k \in Keys |-> IF k \notin entered \/ w.content[k] = Air THEN 0
                                  ELSE IF k \in dirty THEN w.revision + 1 ELSE w.chunk_revisions[k]]
           new == stream_around(w, c)
<1>1. /\ new.revision = w.revision + 1 /\ new.content = w.content
      /\ new.chunk_revisions = chu /\ new.center = {c}
  <2> HIDE DEF dirty
  <2>1. new = [w EXCEPT !.revision = @ + 1, !.center = {c}, !.chunk_revisions = chu]
    BY DEF stream_around, dirty
  <2> HIDE DEF chu, new
  <2> QED BY <2>1 DEF Worlds
<1>2. Resident(new) = entered
  BY <1>1 DEF Resident
<1>3. \A k \in entered : k \notin dirty => k \in Resident(w)
  OBVIOUS
<1> HIDE DEF dirty
<1>4. \A k \in Keys : \/ chu[k] = 0 /\ (k \notin entered \/ w.content[k] = Air)
                      \/ chu[k] = w.revision + 1
                      \/ chu[k] = w.chunk_revisions[k] /\ k \in entered /\ k \notin dirty
  OBVIOUS
<1> HIDE DEF new, chu, entered
<1>5. ASSUME NEW k \in Keys
      PROVE  \/ chunk_revision(new, k) = {}
             \/ chunk_revision(new, k) = {new.revision}
             \/ chunk_revision(new, k) = chunk_revision(w, k) /\ new.content[k] = w.content[k]
  <2>1. CASE k \notin entered \/ w.content[k] = Air
    BY <1>1, <1>2, <2>1 DEF chunk_revision
  <2>2. CASE chu[k] = w.revision + 1
    BY <1>1, <2>2 DEF chunk_revision
  <2>3. CASE chu[k] = w.chunk_revisions[k] /\ k \in entered /\ k \notin dirty
    BY <1>1, <1>2, <1>3, <2>3 DEF chunk_revision
  <2> QED BY <1>4, <2>1, <2>2, <2>3
<1> QED BY <1>1, <1>4, <1>5 DEF Advances, new

(* What was faithful stays so when the world moves on.                      *)
LEMMA AdvanceKeepsFaithful ==
    ASSUME TypeOK, Advances(world, world'), NEW k \in Keys, NEW voxels, NEW revision \in Nat,
           Faithful(k, voxels, revision)
    PROVE  Faithful(k, voxels, revision)'
<1>1. world.revision \in Nat /\ world'.revision = world.revision + 1
  BY NumbersAreNat DEF Advances
<1>2. revision <= world.revision /\ revision # world'.revision
  BY <1>1 DEF Faithful
<1>3. \/ chunk_revision(world', k) = {}
      \/ chunk_revision(world', k) = {world'.revision}
      \/ chunk_revision(world', k) = chunk_revision(world, k) /\ world'.content[k] = world.content[k]
  BY DEF Advances
<1>4. chunk_revision(world', k) = {revision} =>
         chunk_revision(world', k) = chunk_revision(world, k) /\ world'.content[k] = world.content[k]
  BY <1>2, <1>3
<1> QED BY <1>1, <1>2, <1>4 DEF Faithful

(* Keys and revisions of what is faithful are keys and natural numbers.     *)
LEMMA MeshNumbers ==
    ASSUME TypeOK
    PROVE  /\ \A call \in mesh_call : call.key \in Keys /\ call.revision \in Nat
           /\ \A n \in DOMAIN meshes : meshes[n] \in MeshJobs
                 /\ meshes[n].key \in Keys /\ meshes[n].revision \in Nat
           /\ \A u \in mesh_job : u \in MeshJobs /\ u.key \in Keys /\ u.revision \in Nat
           /\ \A n \in DOMAIN mesh_results : mesh_results[n] \in MeshResults
                 /\ mesh_results[n].key \in Keys /\ mesh_results[n].mesh.revision \in Nat
           /\ \A k \in Keys : \A m \in uploaded[k] : m.revision \in Nat
           /\ \A k \in Keys : world.chunk_revisions[k] \in Nat
<1>1. Revisions \subseteq Nat
  BY ConstantsAssumption DEF ConstantsAssumption, Revisions
<1>2. \A call \in mesh_call : call \in MeshCalls
  BY OptionElim DEF TypeOK
<1>3. \A u \in mesh_job : u \in MeshJobs
  BY OptionElim DEF TypeOK
<1>4. \A n \in DOMAIN meshes : meshes[n] \in MeshJobs
  BY DEF TypeOK
<1>5. \A n \in DOMAIN mesh_results : mesh_results[n] \in MeshResults
  BY DEF TypeOK
<1>6. \A k \in Keys : \A m \in uploaded[k] : m \in Meshes
  BY OptionElim DEF TypeOK
<1>7. \A k \in Keys : world.chunk_revisions[k] \in Revisions
  BY DEF TypeOK, Worlds
<1> QED BY <1>1, <1>2, <1>3, <1>4, <1>5, <1>6, <1>7 DEF MeshCalls, MeshJobs, MeshResults, Meshes

(* The world moves on and the queues stay.                                  *)
LEMMA DrawnAdvance ==
    ASSUME DrawnInv, Advances(world, world'),
           UNCHANGED <<mesh_call, meshes, mesh_job, mesh_results, uploaded, generation, shutdown>>
    PROVE  RevisionsBounded' /\ QueueFaithful' /\ ResultsFaithful'
<1>0. TypeOK
  BY DEF DrawnInv, KeysInv, ResetInv
<1>1. world.revision \in Nat /\ world'.revision = world.revision + 1
  BY <1>0, NumbersAreNat DEF Advances
<1>2. RevisionsBounded'
  <2> SUFFICES ASSUME NEW k \in Keys PROVE world'.chunk_revisions[k] <= world'.revision
    BY DEF RevisionsBounded
  <2>1. world.chunk_revisions[k] \in Nat /\ world.chunk_revisions[k] <= world.revision
    BY <1>0, MeshNumbers DEF DrawnInv, RevisionsBounded
  <2>2. \/ world'.chunk_revisions[k] \in {0, world'.revision}
        \/ world'.chunk_revisions[k] = world.chunk_revisions[k]
    BY DEF Advances
  <2> QED BY <1>1, <2>1, <2>2
<1>3. \A k \in Keys : \A voxels, revision :
         revision \in Nat /\ Faithful(k, voxels, revision) => Faithful(k, voxels, revision)'
  BY <1>0, AdvanceKeepsFaithful
<1>4. QueueFaithful'
  <2>1. \A call \in mesh_call : Faithful(call.key, call.voxels, call.revision)'
    BY <1>0, <1>3, MeshNumbers DEF DrawnInv, QueueFaithful
  <2>2. \A n \in DOMAIN meshes :
           Faithful(meshes[n].key, meshes[n].voxels, meshes[n].revision)'
    BY <1>0, <1>3, MeshNumbers DEF DrawnInv, QueueFaithful
  <2>3. \A u \in mesh_job : Current(u) => Faithful(u.key, u.voxels, u.revision)'
    BY <1>0, <1>3, MeshNumbers DEF DrawnInv, QueueFaithful
  <2> QED BY <2>1, <2>2, <2>3 DEF QueueFaithful, Current
<1>5. ResultsFaithful'
  <2>1. \A n \in DOMAIN mesh_results :
           Faithful(mesh_results[n].key, mesh_results[n].mesh.voxels, mesh_results[n].mesh.revision)'
    BY <1>0, <1>3, MeshNumbers DEF DrawnInv, ResultsFaithful
  <2>2. \A k \in Keys : \A m \in uploaded[k] : Faithful(k, m.voxels, m.revision)'
    BY <1>0, <1>3, MeshNumbers DEF DrawnInv, ResultsFaithful
  <2> QED BY <2>1, <2>2 DEF ResultsFaithful
<1> QED BY <1>2, <1>4, <1>5

(* The steps that move the world on.                                        *)
LEMMA DrawnWorld ==
    ASSUME DrawnInv,
           \/ \E k \in Keys, m \in Contents, touched \in SUBSET Keys : Edit(k, m, touched)
           \/ \E c \in Centers : StreamAround(c) \/ sync_fallback_if_stalled(c)
           \/ poll_stream
    PROVE  RevisionsBounded' /\ QueueFaithful' /\ ResultsFaithful'
<1>0. world \in Worlds /\ PublicationInv
  BY DEF DrawnInv, PublicationInv, TypeOK
<1>1. UNCHANGED <<mesh_call, meshes, mesh_job, mesh_results, uploaded, generation, shutdown>>
  BY DEF Edit, StreamAround, sync_fallback_if_stalled, poll_stream, meshVars, gateVars,
         workerVars, jobVars
<1>2. world' = world \/ Advances(world, world')
  <2>1. CASE \E k \in Keys, m \in Contents, touched \in SUBSET Keys : Edit(k, m, touched)
    BY <1>0, <2>1, EditAdvances DEF Edit
  <2>2. CASE \E c \in Centers : StreamAround(c) \/ sync_fallback_if_stalled(c)
    <3>1. PICK c \in Centers : StreamAround(c) \/ sync_fallback_if_stalled(c)
      BY <2>2
    <3>2. world' = world \/ (CanRewindow(world, c) /\ world' = stream_around(world, c))
      BY <3>1 DEF StreamAround, sync_fallback_if_stalled
    <3> QED BY <1>0, <3>2, WindowAdvances
  <2>3. CASE poll_stream
    <3>1. ~dropped /\ \E r \in stream_result : world' = world \/ (acceptable(r) /\ world' = r.world)
      BY <2>3 DEF poll_stream, CallerIdle
    <3>2. PICK r \in stream_result : world' = world \/ (acceptable(r) /\ world' = r.world)
      BY <3>1
    <3>3. CASE acceptable(r) /\ world' = r.world
      <4>1. r \in StreamUnits /\ world' = stream_around(world, r.center)
        BY <1>0, <3>1, <3>3, AcceptedIsCurrent
      <4>2. r.center \in Centers
        BY <4>1 DEF StreamUnits
      <4>3. CASE CanRewindow(world, r.center)
        BY <1>0, <4>1, <4>2, <4>3, WindowAdvances
      <4>4. CASE ~CanRewindow(world, r.center)
        BY <1>0, <4>1, <4>2, <4>4, RewindowedIsWorld
      <4> QED BY <4>3, <4>4
    <3> QED BY <3>2, <3>3
  <2> QED BY <2>1, <2>2, <2>3
<1>3. CASE world' = world
  BY <1>1, <1>3 DEF DrawnInv, RevisionsBounded, QueueFaithful, ResultsFaithful, Faithful, Current
<1>4. CASE Advances(world, world')
  BY <1>1, <1>4, DrawnAdvance
<1> QED BY <1>2, <1>3, <1>4

(* A request copies the chunk as it is.                                     *)
LEMMA DrawnRequest ==
    ASSUME DrawnInv, NEW k \in Keys, request_mesh(k)
    PROVE  RevisionsBounded' /\ QueueFaithful' /\ ResultsFaithful'
<1>1. PICK revision \in chunk_revision(world, k) :
         mesh_call' = {[key |-> k, voxels |-> world.content[k], revision |-> revision]}
  BY DEF request_mesh
<1>2. UNCHANGED <<world, meshes, mesh_job, mesh_results, uploaded, generation, shutdown>>
  BY DEF request_mesh, meshVars, gateVars, workerVars, jobVars
<1>3. revision <= world.revision
  BY DEF chunk_revision, DrawnInv, RevisionsBounded
<1>4. \A call \in mesh_call' : Faithful(call.key, call.voxels, call.revision)
  BY <1>1, <1>3 DEF Faithful
<1> QED
  BY <1>2, <1>4 DEF DrawnInv, RevisionsBounded, QueueFaithful, ResultsFaithful, Faithful, Current

(* A request is queued as it was copied.                                    *)
LEMMA DrawnPush ==
    ASSUME DrawnInv, push_mesh
    PROVE  RevisionsBounded' /\ QueueFaithful' /\ ResultsFaithful'
<1>0. TypeOK
  BY DEF DrawnInv, KeysInv, ResetInv
<1>1. PICK call \in mesh_call :
         meshes' = Append(meshes, [key |-> call.key, voxels |-> call.voxels,
                                   revision |-> call.revision, generation |-> generation])
  BY DEF push_mesh
<1> DEFINE job == [key |-> call.key, voxels |-> call.voxels,
                   revision |-> call.revision, generation |-> generation]
<1>2. meshes \in Seq(MeshJobs) /\ job \in MeshJobs
  <2>1. call \in MeshCalls /\ generation \in Generations /\ meshes \in Seq(MeshJobs)
    BY <1>0, OptionElim DEF TypeOK
  <2> QED BY <2>1 DEF MeshCalls, MeshJobs
<1>3. meshes' = Append(meshes, job) /\ Faithful(job.key, job.voxels, job.revision)
  BY <1>1 DEF DrawnInv, QueueFaithful
<1>4. /\ UNCHANGED <<world, mesh_job, mesh_results, uploaded, generation, shutdown>>
      /\ mesh_call' = {}
  BY DEF push_mesh, gateVars, jobVars
<1> HIDE DEF job
<1>5. \A n \in DOMAIN meshes' : meshes'[n] = job \/ (n \in DOMAIN meshes /\ meshes'[n] = meshes[n])
  BY <1>2, <1>3, AppendElements
<1>6. \A n \in DOMAIN meshes' : Faithful(meshes'[n].key, meshes'[n].voxels, meshes'[n].revision)
  BY <1>3, <1>5 DEF DrawnInv, QueueFaithful
<1> QED
  BY <1>4, <1>6 DEF DrawnInv, RevisionsBounded, QueueFaithful, ResultsFaithful, Faithful, Current

(* What a poll uploads is valid, and what it leaves was there.              *)
LEMMA DrawnPoll ==
    ASSUME DrawnInv, poll_mesh
    PROVE  RevisionsBounded' /\ QueueFaithful' /\ ResultsFaithful'
<1>0. TypeOK
  BY DEF DrawnInv, KeysInv, ResetInv
<1>1. UNCHANGED <<world, mesh_call, meshes, mesh_job, generation, shutdown>>
  BY DEF poll_mesh, gateVars, workerVars, jobVars
<1>2. \A n \in DOMAIN mesh_results' :
         Faithful(mesh_results'[n].key, mesh_results'[n].mesh.voxels, mesh_results'[n].mesh.revision)
  BY <1>0, PolledElements DEF DrawnInv, ResultsFaithful
<1>3. \/ uploaded' = uploaded
      \/ \E n \in DOMAIN mesh_results :
            uploaded' = [uploaded EXCEPT ![mesh_results[n].key] = {mesh_results[n].mesh}]
  BY DEF poll_mesh
<1>4. \A k \in Keys : \A m \in uploaded'[k] : Faithful(k, m.voxels, m.revision)
  <2>1. CASE uploaded' = uploaded
    BY <2>1 DEF DrawnInv, ResultsFaithful
  <2>2. ASSUME NEW n \in DOMAIN mesh_results,
               uploaded' = [uploaded EXCEPT ![mesh_results[n].key] = {mesh_results[n].mesh}],
               NEW k \in Keys, NEW m \in uploaded'[k]
        PROVE  Faithful(k, m.voxels, m.revision)
    <3>1. uploaded \in [Keys -> Option(Meshes)]
      BY <1>0 DEF TypeOK
    <3>2. m \in uploaded[k] \/ (k = mesh_results[n].key /\ m = mesh_results[n].mesh)
      BY <2>2, <3>1
    <3> QED BY <3>2 DEF DrawnInv, ResultsFaithful
  <2> QED BY <1>3, <2>1, <2>2
<1> QED
  BY <1>1, <1>2, <1>4 DEF DrawnInv, RevisionsBounded, QueueFaithful, ResultsFaithful, Faithful, Current

(* The job moves from the queue to the thread.                              *)
LEMMA DrawnTake ==
    ASSUME DrawnInv, take_job
    PROVE  RevisionsBounded' /\ QueueFaithful' /\ ResultsFaithful'
<1>0. TypeOK
  BY DEF DrawnInv, KeysInv, ResetInv
<1>1. UNCHANGED <<world, mesh_call, mesh_results, uploaded, generation, shutdown>>
  BY DEF take_job, callerVars, gateVars
<1>2. \/ UNCHANGED <<meshes, mesh_job>>
      \/ meshes # <<>> /\ mesh_job' = {Head(meshes)} /\ meshes' = Tail(meshes)
  BY Zenon DEF take_job
<1>3. CASE UNCHANGED <<meshes, mesh_job>>
  BY <1>1, <1>3
  DEF DrawnInv, RevisionsBounded, QueueFaithful, ResultsFaithful, Faithful, Current
<1>4. CASE meshes # <<>> /\ mesh_job' = {Head(meshes)} /\ meshes' = Tail(meshes)
  <2>1. meshes \in Seq(MeshJobs)
    BY <1>0 DEF TypeOK
  <2>2. /\ Head(meshes) = meshes[1] /\ 1 \in DOMAIN meshes
        /\ \A n \in DOMAIN Tail(meshes) : n + 1 \in DOMAIN meshes /\ Tail(meshes)[n] = meshes[n + 1]
    BY <1>4, <2>1, TailElements
  <2>3. \A n \in DOMAIN meshes' : Faithful(meshes'[n].key, meshes'[n].voxels, meshes'[n].revision)
    BY <1>4, <2>2 DEF DrawnInv, QueueFaithful
  <2>4. \A u \in mesh_job' : Faithful(u.key, u.voxels, u.revision)
    BY <1>4, <2>2 DEF DrawnInv, QueueFaithful
  <2> QED BY <1>1, <2>3, <2>4
          DEF DrawnInv, RevisionsBounded, QueueFaithful, ResultsFaithful, Faithful, Current
<1> QED BY <1>2, <1>3, <1>4

(* A mesh that is buffered is of a current unit.                            *)
LEMMA DrawnFinish ==
    ASSUME DrawnInv, finish_mesh
    PROVE  RevisionsBounded' /\ QueueFaithful' /\ ResultsFaithful'
<1>0. TypeOK
  BY DEF DrawnInv, KeysInv, ResetInv
<1>1. UNCHANGED <<world, mesh_call, meshes, uploaded, generation, shutdown>> /\ mesh_job' = {}
  BY DEF finish_mesh, callerVars, gateVars
<1>2. \/ UNCHANGED mesh_results
      \/ \E u \in mesh_job, bytes \in MeshSizes :
            /\ ~Cancelled(u)
            /\ mesh_results' = Append(mesh_results,
                  [key |-> u.key, generation |-> u.generation, bytes |-> bytes,
                   mesh |-> [voxels |-> u.voxels, revision |-> u.revision]])
  BY DEF finish_mesh
<1>3. ASSUME NEW u \in mesh_job, NEW bytes \in MeshSizes, ~Cancelled(u),
             mesh_results' = Append(mesh_results,
                    [key |-> u.key, generation |-> u.generation, bytes |-> bytes,
                     mesh |-> [voxels |-> u.voxels, revision |-> u.revision]])
      PROVE  \A n \in DOMAIN mesh_results' :
         Faithful(mesh_results'[n].key, mesh_results'[n].mesh.voxels, mesh_results'[n].mesh.revision)
  <2> DEFINE r == [key |-> u.key, generation |-> u.generation, bytes |-> bytes,
                   mesh |-> [voxels |-> u.voxels, revision |-> u.revision]]
  <2>1. mesh_results \in Seq(MeshResults) /\ r \in MeshResults
    <3>1. u \in MeshJobs /\ mesh_results \in Seq(MeshResults)
      BY <1>0, OptionElim DEF TypeOK
    <3> QED BY <3>1 DEF MeshJobs, MeshResults, Meshes
  <2>2. mesh_results' = Append(mesh_results, r)
    BY <1>3
  <2>3. Faithful(r.key, r.mesh.voxels, r.mesh.revision)
    BY <1>3 DEF DrawnInv, QueueFaithful, Cancelled, Current
  <2> HIDE DEF r
  <2>4. \A n \in DOMAIN mesh_results' :
           mesh_results'[n] = r \/ (n \in DOMAIN mesh_results /\ mesh_results'[n] = mesh_results[n])
    BY <2>1, <2>2, AppendElements
  <2> QED BY <2>3, <2>4 DEF DrawnInv, ResultsFaithful
<1>4. \A n \in DOMAIN mesh_results' :
         Faithful(mesh_results'[n].key, mesh_results'[n].mesh.voxels, mesh_results'[n].mesh.revision)
  BY <1>2, <1>3 DEF DrawnInv, ResultsFaithful
<1> QED
  BY <1>1, <1>4 DEF DrawnInv, RevisionsBounded, QueueFaithful, ResultsFaithful, Faithful, Current

(* A cancellation leaves nothing but a unit that is not current any more,   *)
(* and what is drawn of a world that stays.                                 *)
LEMMA DrawnCancel ==
    ASSUME DrawnInv, CallerIdle, Cancel,
           \/ UNCHANGED <<world, uploaded>>
           \/ \E w \in NewWorlds : world' = w /\ uploaded' = [k \in Keys |-> {}]
    PROVE  RevisionsBounded' /\ QueueFaithful' /\ ResultsFaithful'
<1>1. /\ meshes' = <<>> /\ mesh_results' = <<>> /\ mesh_call' = {} /\ mesh_job' = mesh_job
      /\ generation' = generation + 1 \/ shutdown'
  BY DEF Cancel, CallerIdle, jobVars
<1>2. generation \in Nat /\ \A u \in mesh_job : u.generation \in Nat /\ u.generation <= generation
  <2>1. Generations \subseteq Nat
    BY ConstantsAssumption DEF ConstantsAssumption, Generations
  <2>2. \A u \in mesh_job : u \in MeshJobs
    BY OptionElim DEF DrawnInv, KeysInv, ResetInv, TypeOK
  <2>3. generation \in Generations /\ \A u \in mesh_job : u.generation <= generation
    BY DEF DrawnInv, KeysInv, ResetInv, TypeOK, JobsBounded
  <2> QED BY <2>1, <2>2, <2>3 DEF MeshJobs
<1>3. \A u \in mesh_job' : ~Current(u)'
  <2>1. CASE generation' = generation + 1
    BY <1>1, <1>2, <2>1 DEF Current
  <2>2. CASE shutdown'
    BY <2>2 DEF Current
  <2> QED BY <1>1, <2>1, <2>2
<1>4. QueueFaithful'
  BY <1>1, <1>3 DEF QueueFaithful
<1>5. CASE UNCHANGED <<world, uploaded>>
  BY <1>1, <1>4, <1>5 DEF DrawnInv, RevisionsBounded, ResultsFaithful, Faithful
<1>6. CASE \E w \in NewWorlds : world' = w /\ uploaded' = [k \in Keys |-> {}]
  <2>1. world'.revision \in Nat /\ world'.chunk_revisions = [k \in Keys |-> 0]
    BY <1>6, ConstantsAssumption DEF NewWorlds, ConstantsAssumption, Revisions
  <2>2. \A k \in Keys : uploaded'[k] = {}
    BY <1>6
  <2> QED BY <1>1, <1>4, <2>1, <2>2 DEF RevisionsBounded, ResultsFaithful
<1> QED BY <1>5, <1>6

(* Every step keeps every current mesh faithful.                            *)
LEMMA DrawnStep == DrawnInv /\ [Next]_vars => DrawnInv'
<1> SUFFICES ASSUME DrawnInv, [Next]_vars
             PROVE  RevisionsBounded' /\ QueueFaithful' /\ ResultsFaithful'
  BY KeysStep, PublicationStep DEF DrawnInv
<1>1. CASE \/ \E k \in Keys, m \in Contents, touched \in SUBSET Keys : Edit(k, m, touched)
           \/ \E c \in Centers : StreamAround(c) \/ sync_fallback_if_stalled(c)
           \/ poll_stream
  BY <1>1, DrawnWorld
<1>2. CASE \E k \in Keys : request_mesh(k)
  BY <1>2, DrawnRequest
<1>3. CASE push_mesh
  BY <1>3, DrawnPush
<1>4. CASE poll_mesh
  BY <1>4, DrawnPoll
<1>5. CASE take_job
  BY <1>5, DrawnTake
<1>6. CASE finish_mesh
  BY <1>6, DrawnFinish
<1>7. CASE reset \/ \E w \in NewWorlds : replace_world(w)
  BY <1>7, DrawnCancel DEF reset, replace_world
<1>8. CASE \/ \E c \in Centers : request_stream(c)
           \/ pause \/ resume \/ UNCHANGED vars
           \/ worker_wait \/ worker_exit \/ count_unit \/ finish_stream
  <2>1. UNCHANGED <<world, mesh_call, meshes, mesh_job, mesh_results, uploaded, generation, shutdown>>
    BY <1>8 DEF request_stream, pause, resume, worker_wait, worker_exit, count_unit,
                finish_stream, vars, callerVars, meshVars, gateVars, workerVars, jobVars
  <2> QED BY <2>1
          DEF DrawnInv, RevisionsBounded, QueueFaithful, ResultsFaithful, Faithful, Current
<1>9. CASE drop \/ worker_panic
  <2>1. /\ UNCHANGED <<world, mesh_call, mesh_results, uploaded>>
        /\ meshes' = meshes \/ meshes' = <<>>
        /\ \A u \in mesh_job' : u \in mesh_job /\ (Current(u)' => Current(u))
    BY <1>9 DEF drop, worker_panic, callerVars, meshVars, gateVars, workerVars, jobVars, Current
  <2> QED BY <2>1 DEF DrawnInv, RevisionsBounded, QueueFaithful, ResultsFaithful, Faithful
<1> QED
  BY <1>1, <1>2, <1>3, <1>4, <1>5, <1>6, <1>7, <1>8, <1>9 DEF Next, Caller, Worker

(* Nothing is drawn, queued or stamped at first.                            *)
LEMMA DrawnInit == Init => DrawnInv
<1> SUFFICES ASSUME Init PROVE DrawnInv
  OBVIOUS
<1>1. KeysInv /\ PublicationInv
  BY ResetInit, PublicationInit
  DEF Init, KeysInv, JobsBounded, RunningHolds, ActiveKeysExact, CallIsNew
<1>2. /\ world.revision = 0 /\ world.chunk_revisions = [k \in Keys |-> 0]
      /\ mesh_call = {} /\ meshes = <<>> /\ mesh_job = {} /\ mesh_results = <<>>
      /\ uploaded = [k \in Keys |-> {}]
  BY DEF Init
<1> QED BY <1>1, <1>2 DEF DrawnInv, RevisionsBounded, QueueFaithful, ResultsFaithful

(* What the caller drew for a chunk is what the chunk holds whenever the    *)
(* revisions agree (poll_mesh and the upload test of the frame).            *)
THEOREM DrawnAlwaysMatchesRevision == Spec => []DrawnMatchesRevision
<1>1. DrawnInv => DrawnMatchesRevision
  BY DEF DrawnInv, ResultsFaithful, Faithful, DrawnMatchesRevision
<1> QED BY <1>1, DrawnInit, DrawnStep, PTL DEF Spec

-----------------------------------------------------------------------------
(* The frame loop of the sandbox.  Each of its steps is a step of the       *)
(* controller, or draws what the world holds.                               *)

Draws ==
    /\ uploaded' \in [Keys -> Option(Meshes)]
    /\ \A k \in Keys : \A m \in uploaded'[k] :
          \/ m \in uploaded[k]
          \/ chunk_revision(world, k) = {m.revision} /\ m.voxels = world.content[k]
    /\ UNCHANGED <<world, requested_center, mesh_call, dropped,
                   streamVars, meshVars, gateVars, workerVars>>

CallsEndInFrame == phase # "request" => mesh_call = {}

(* renderer.retain_chunks, and the meshes a frame makes without a worker.   *)
LEMMA RetainDraws ==
    ASSUME TypeOK, FrameRetain \/ (FrameUpload /\ ~available)
    PROVE  Draws
<1>1. \A k \in Keys : {} \in Option(Meshes) /\ uploaded[k] \in Option(Meshes)
  BY OptionIntro DEF TypeOK
<1>2. CASE FrameRetain
  BY <1>1, <1>2 DEF FrameRetain, Draws
<1>3. CASE FrameUpload /\ ~available
  <2> DEFINE mesh(k, r) == [voxels |-> world.content[k], revision |-> r]
             made(k) == {mesh(k, r) : r \in chunk_revision(world, k)}
  <2>1. ASSUME NEW k \in Keys
        PROVE  /\ made(k) \in Option(Meshes)
               /\ \A m \in made(k) : chunk_revision(world, k) = {m.revision}
                                     /\ m.voxels = world.content[k]
    <3>1. world.content[k] \in Contents /\ world.chunk_revisions[k] \in Revisions
      BY DEF TypeOK, Worlds
    <3>2. mesh(k, world.chunk_revisions[k]) \in Meshes
      BY <3>1 DEF Meshes
    <3>3. CASE chunk_revision(world, k) = {}
      BY <1>1, <3>3
    <3>4. CASE chunk_revision(world, k) = {world.chunk_revisions[k]}
      <4>1. made(k) = {mesh(k, world.chunk_revisions[k])}
        BY <3>4
      <4>2. mesh(k, world.chunk_revisions[k]).revision = world.chunk_revisions[k]
            /\ mesh(k, world.chunk_revisions[k]).voxels = world.content[k]
        OBVIOUS
      <4> QED BY <3>2, <3>4, <4>1, <4>2, OptionIntro
    <3> QED BY <3>3, <3>4 DEF chunk_revision
  <2>2. /\ uploaded' = [k \in Keys |-> made(k)]
        /\ UNCHANGED <<world, requested_center, mesh_call, dropped,
                       streamVars, meshVars, gateVars, workerVars>>
    BY <1>3 DEF FrameUpload
  <2> HIDE DEF made
  <2> QED BY <2>1, <2>2 DEF Draws
<1> QED BY <1>2, <1>3

LEMMA FrameSteps ==
    ASSUME TypeOK, CallsEndInFrame, eye \in Centers, [FrameNext]_allVars
    PROVE  [Next]_vars \/ Draws
<1>1. ASSUME NEW c \in Centers, FrameStream(c) PROVE [Next]_vars
  <2>1. CASE available
    BY <1>1, <2>1 DEF FrameStream, Next, Caller
  <2>2. CASE ~available /\ CanRewindow(world, c)
    BY <1>1, <2>2 DEF FrameStream, CallsEndInFrame, StreamAround, CallerIdle, Next, Caller
  <2>3. CASE ~available /\ ~CanRewindow(world, c)
    BY <1>1, <2>3 DEF FrameStream, stream_around, vars, callerVars
  <2> QED BY <2>1, <2>2, <2>3
<1>2. CASE FramePoll
  BY <1>2 DEF FramePoll, Next, Caller
<1>3. CASE FrameFallback
  BY <1>3 DEF FrameFallback, Next, Caller
<1>4. CASE FrameEdit
  BY <1>4 DEF FrameEdit, Next, Caller
<1>5. CASE FrameHomeReset \/ FrameHomeWindow \/ FrameHomeObstructed
  BY <1>5, FrameAssumption
  DEF FrameHomeReset, FrameHomeWindow, FrameHomeObstructed, Next, Caller
<1>6. CASE FrameRetain \/ (FrameUpload /\ ~available)
  BY <1>6, RetainDraws
<1>7. CASE FrameUpload /\ available
  BY <1>7 DEF FrameUpload, Next, Caller
<1>8. CASE FrameRequest \/ FramePush \/ FrameEnd
  BY <1>8 DEF FrameRequest, FramePush, FrameEnd, Next, Caller
<1>9. ASSUME NEW event \in PlatformEvents, apply_platform(event) PROVE [Next]_vars
  <2>1. resume \/ pause \/ UNCHANGED vars
    BY <1>9 DEF apply_platform
  <2> QED BY <2>1 DEF Next, Caller
<1>10. CASE FrameDrop
  BY <1>10 DEF FrameDrop, Next, Caller
<1>11. CASE Worker \/ UNCHANGED allVars
  BY <1>11 DEF Next, allVars
<1> QED
  BY <1>1, <1>2, <1>3, <1>4, <1>5, <1>6, <1>7, <1>8, <1>9, <1>10, <1>11 DEF FrameNext, Frame

(* What is drawn is what the world holds, and the controller is untouched.  *)
LEMMA DrawsKeep ==
    ASSUME DrawnInv, PendingIsLatestRequest, Draws
    PROVE  DrawnInv' /\ PendingIsLatestRequest'
<1>1. /\ UNCHANGED <<world, requested_center, mesh_call, dropped, stream, stream_result,
                     stream_active, stream_requested, stale_streams, stale_center>>
      /\ UNCHANGED <<meshes, active, mesh_results, mesh_result_bytes, shutdown, generation,
                     paused, prefer_mesh, inflight, completed, worker, stream_job, mesh_job>>
  BY DEF Draws, streamVars, stallVars, meshVars, gateVars, workerVars, jobVars
<1>2. TypeOK'
  <2>1. TypeOK /\ uploaded' \in [Keys -> Option(Meshes)]
    BY DEF DrawnInv, PublicationInv, Draws
  <2> QED BY <1>1, <2>1 DEF TypeOK
<1>3. PendingIsLatestRequest'
  BY <1>1 DEF PendingIsLatestRequest
<1>4. PublicationInv'
  BY <1>1, <1>2 DEF DrawnInv, PublicationInv, SnapshotsAgree, GenerationsBounded,
                    RetiredStagesNothing, Current
<1>5. ResetInv' /\ JobsBounded' /\ RunningHolds'
  BY <1>1, <1>2 DEF DrawnInv, KeysInv, ResetInv, NothingOutlivesReset, CallMeansOpen,
                    JobsBounded, RunningHolds
<1>6. ActiveKeysExact' /\ CallIsNew'
  BY <1>1 DEF DrawnInv, KeysInv, ActiveKeysExact, CallIsNew, Open
<1>7. RevisionsBounded' /\ QueueFaithful'
  BY <1>1 DEF DrawnInv, RevisionsBounded, QueueFaithful, Faithful, Current
<1>8. ResultsFaithful'
  <2>1. \A n \in DOMAIN mesh_results' :
           Faithful(mesh_results[n].key, mesh_results[n].mesh.voxels, mesh_results[n].mesh.revision)'
    BY <1>1 DEF DrawnInv, ResultsFaithful, Faithful
  <2>2. ASSUME NEW k \in Keys, NEW m \in uploaded'[k] PROVE Faithful(k, m.voxels, m.revision)'
    <3>1. Faithful(k, m.voxels, m.revision)
      <4>1. CASE m \in uploaded[k]
        BY <4>1 DEF DrawnInv, ResultsFaithful
      <4>2. CASE chunk_revision(world, k) = {m.revision} /\ m.voxels = world.content[k]
        <5>1. m.revision = world.chunk_revisions[k]
          BY <4>2 DEF chunk_revision
        <5> QED BY <4>2, <5>1 DEF DrawnInv, RevisionsBounded, Faithful
      <4> QED BY <4>1, <4>2 DEF Draws
    <3> QED BY <1>1, <3>1 DEF Faithful
  <2> QED BY <2>1, <2>2 DEF ResultsFaithful
<1> QED BY <1>3, <1>4, <1>5, <1>6, <1>7, <1>8 DEF DrawnInv, KeysInv

-----------------------------------------------------------------------------
(* A stalled destination.  Once the fallback has had its turn, the worker   *)
(* can add one preparation to the count before the next: the one it is at,  *)
(* when that is no longer the requested one.  What is pending or staged is. *)

Doomed == \E u \in stream_job : ~Cancelled(u) /\ stream_requested # {Identity(u)}

Paid ==
    \/ world.revision = MaxRevision
    \/ stale_streams < STALE_STREAM_FALLBACK_AFTER
    \/ stale_streams = STALE_STREAM_FALLBACK_AFTER /\ ~Doomed

Polling == phase \in {"poll", "fallback"}

StallInv ==
    /\ stale_streams > 0 => stale_center = requested_center
    /\ \A id \in stream_requested : requested_center = {id[1]}
    /\ Polling => requested_center = {eye}
    /\ phase # "poll" => \A r \in stream_result : stream_requested = {Identity(r)}
    /\ ~Polling => Paid

FrameInv ==
    /\ DrawnInv /\ PendingIsLatestRequest
    /\ lifecycle \in Lifecycles /\ eye \in Centers
    /\ phase \in Phases /\ budget \in 0 .. MeshesPerFrame
    /\ CallsEndInFrame
    /\ StallInv

LEMMA FrameInitInv == FrameInit => FrameInv
<1> SUFFICES ASSUME FrameInit PROVE FrameInv
  OBVIOUS
<1>1. DrawnInv
  BY DrawnInit DEF FrameInit
<1>2. PendingIsLatestRequest /\ CallsEndInFrame /\ StallInv
  BY ConstantsAssumption
  DEF FrameInit, Init, PendingIsLatestRequest, CallsEndInFrame, StallInv, Paid, Polling,
      ConstantsAssumption
<1>3. InitialLifecycle \in Lifecycles /\ MeshesPerFrame \in 0 .. MeshesPerFrame
  BY FrameAssumption DEF InitialLifecycle, Lifecycles
<1> QED BY <1>1, <1>2, <1>3, FrameAssumption DEF FrameInit, FrameInv, Phases

(* A step that leaves the requested window, the staged one and the count    *)
(* alone.                                                                   *)
LEMMA StallFrame ==
    ASSUME StallInv, PendingIsLatestRequest,
           UNCHANGED <<requested_center, stream_result, stream_requested,
                       stale_streams, stale_center, generation>>,
           shutdown => shutdown',
           stream_job' \subseteq stream_job \/ stream_job' = stream,
           world.revision = MaxRevision => world'.revision = MaxRevision,
           \/ eye' = eye /\ phase' = phase
           \/ ~Polling /\ ~Polling'
    PROVE  StallInv'
<1>1. Doomed' => Doomed
  BY DEF Doomed, Cancelled, PendingIsLatestRequest
<1>2. Paid => Paid'
  BY <1>1 DEF Paid
<1> QED BY <1>2 DEF StallInv, Polling

(* The camera moves: the count goes on only for the same destination.       *)
LEMMA StallStream ==
    ASSUME StallInv, PendingIsLatestRequest, NEW c \in Centers, FrameStream(c)
    PROVE  StallInv'
<1>1. CASE ~available
  <2>1. /\ UNCHANGED <<requested_center, stream_result, stream_requested,
                       stale_streams, stale_center, generation, shutdown, stream_job>>
        /\ world' = stream_around(world, c)
        /\ phase = "idle" /\ phase' = "edit"
    BY <1>1 DEF FrameStream, streamVars, stallVars, gateVars, workerVars, jobVars
  <2>2. world.revision = MaxRevision => world' = world
    BY <2>1, ConstantsAssumption DEF stream_around, CanRewindow, ConstantsAssumption
  <2> QED BY <2>1, <2>2, StallFrame DEF Polling
<1>2. CASE available
  <2>1. request_stream(c) /\ phase' = "poll" /\ eye' = c /\ ~shutdown
    BY <1>2 DEF FrameStream, available
  <2>2. /\ requested_center' = {c}
        /\ \A id \in stream_requested' : id[1] = c
        /\ clear_stall \/ (requested_center = {c} /\ UNCHANGED stallVars)
    BY <2>1 DEF request_stream
  <2> QED BY <2>1, <2>2 DEF StallInv, Polling, clear_stall, stallVars
<1> QED BY <1>1, <1>2

(* Rejecting what is not edit-stale clears the count, and what is edit-     *)
(* stale was for the destination that is requested.                         *)
LEMMA RejectedCounts ==
    ASSUME stale_streams \in Nat, NEW c, NEW stale \in BOOLEAN,
           note_rejected_stream(c, stale), stale => requested_center = {c},
           requested_center' = requested_center
    PROVE  /\ stale_streams' \in Nat
           /\ stale_streams' <= stale_streams + 1
           /\ stale_streams' > 0 => stale_center' = requested_center'
           /\ ~stale => stale_streams' = 0
BY DEF note_rejected_stream, clear_stall

(* Polling accepts the staged window and clears the count, or rejects it.   *)
LEMMA StallPoll ==
    ASSUME StallInv, TypeOK, FramePoll
    PROVE  StallInv'
<1>1. /\ Polling /\ phase' \in {"edit", "fallback"} /\ eye' = eye
      /\ UNCHANGED <<requested_center, stream_requested>>
      /\ stream_result' = {}
  BY DEF FramePoll, Goto, poll_stream, vars, callerVars, streamVars, Polling
<1>2. stale_streams \in Nat /\ stream_result \in Option(StreamUnits)
      /\ STALE_STREAM_FALLBACK_AFTER \in Nat \ {0}
  BY ConstantsAssumption DEF TypeOK, ConstantsAssumption
<1>3. stale_streams' > 0 => stale_center' = requested_center'
  <2>1. CASE stream_result = {}
    BY <1>1, <2>1 DEF FramePoll, vars, streamVars, stallVars, StallInv
  <2>2. CASE stream_result # {}
    <3>1. PICK r \in stream_result :
             \/ clear_stall
             \/ note_rejected_stream(r.center,
                   /\ r.generation = generation
                   /\ requested_center = {r.center}
                   /\ r.source_revision # world.revision)
      BY <2>2 DEF FramePoll, poll_stream
    <3>2. PICK stale : stale = (/\ r.generation = generation
                                /\ requested_center = {r.center}
                                /\ r.source_revision # world.revision)
      OBVIOUS
    <3>3. stale \in BOOLEAN /\ (stale => requested_center = {r.center})
      BY <3>2
    <3>4. CASE clear_stall
      BY <3>4 DEF clear_stall
    <3>5. CASE note_rejected_stream(r.center, stale)
      BY <1>1, <1>2, <3>3, <3>5, RejectedCounts
    <3> QED BY <3>1, <3>2, <3>4, <3>5
  <2> QED BY <2>1, <2>2
<1>4. phase' = "edit" => stale_streams' = 0
  <2> SUFFICES ASSUME phase' = "edit" PROVE stale_streams' = 0
    OBVIOUS
  <2>1. PICK r \in stream_result : acceptable(r)
    BY DEF FramePoll, Goto
  <2>2. stream_result = {r}
    BY <1>2, <2>1, OptionElim
  <2>3. clear_stall
    BY <2>1, <2>2 DEF FramePoll, poll_stream
  <2> QED BY <2>3 DEF clear_stall
<1>5. ~Polling' => Paid'
  BY <1>1, <1>2, <1>4 DEF Polling, Paid
<1> QED BY <1>1, <1>3, <1>5 DEF StallInv, Polling

(* The fallback pays for a count that reached the threshold, as long as the *)
(* world can move.                                                          *)
LEMMA StallFallback ==
    ASSUME StallInv, TypeOK, FrameFallback
    PROVE  StallInv'
<1>1. /\ phase = "fallback" /\ phase' = "edit" /\ eye' = eye
      /\ UNCHANGED <<requested_center, stream_result, stream_requested>>
      /\ clear_stall \/ UNCHANGED stallVars
  BY DEF FrameFallback, Goto, sync_fallback_if_stalled, vars, callerVars, streamVars
<1>2. /\ stale_streams \in Nat /\ STALE_STREAM_FALLBACK_AFTER \in Nat \ {0}
      /\ world.revision \in Nat /\ world.revision <= MaxRevision /\ MaxRevision \in Nat
  BY ConstantsAssumption DEF TypeOK, ConstantsAssumption, Worlds, Revisions
<1>3. CASE clear_stall
  BY <1>1, <1>2, <1>3 DEF clear_stall, StallInv, Paid, Polling
<1>4. CASE ~clear_stall
  <2>1. /\ UNCHANGED vars
        /\ ~(world.center = {eye} /\ stale_center = {eye})
        /\ ~(StallReached(eye) /\ CanRewindow(world, eye))
    BY <1>4 DEF FrameFallback, sync_fallback_if_stalled
  <2>2. world.revision = MaxRevision \/ stale_streams < STALE_STREAM_FALLBACK_AFTER
    <3> SUFFICES ASSUME stale_streams >= STALE_STREAM_FALLBACK_AFTER
                 PROVE  world.revision = MaxRevision
      BY <1>2
    <3>1. requested_center = {eye} /\ stale_center = {eye}
      BY <1>1, <1>2 DEF StallInv, Polling
    <3>2. StallReached(eye) /\ world.center # {eye}
      BY <2>1, <3>1 DEF StallReached
    <3> QED BY <1>2, <2>1, <3>2 DEF CanRewindow
  <2>3. Paid'
    BY <2>1, <2>2 DEF Paid, vars, callerVars, streamVars, stallVars
  <2> QED BY <1>1, <2>1, <2>3 DEF StallInv, Polling, vars, streamVars, stallVars
<1> QED BY <1>3, <1>4

(* The worker finishes: what it stages is what is requested, and so was     *)
(* what it displaces since the last poll; only a doomed unit counts.        *)
LEMMA StallFinish ==
    ASSUME StallInv, TypeOK, finish_stream, UNCHANGED frameVars
    PROVE  StallInv'
<1>1. /\ stream_job' = {}
      /\ UNCHANGED <<world, requested_center, stream_requested, eye, phase>>
  BY DEF finish_stream, callerVars, frameVars
<1>2. /\ stale_streams \in Nat /\ STALE_STREAM_FALLBACK_AFTER \in Nat \ {0}
      /\ stream_job \in Option(StreamUnits) /\ stream_result \in Option(StreamUnits)
  BY ConstantsAssumption DEF TypeOK, ConstantsAssumption
<1>3. ~Doomed'
  BY <1>1 DEF Doomed
<1>4. PICK u \in stream_job :
         \/ /\ Cancelled(u)
            /\ UNCHANGED <<stream_result, stallVars>>
         \/ /\ ~Cancelled(u)
            /\ stream_requested # {Identity(u)}
            /\ note_rejected_stream(u.center,
                  \E id \in stream_requested :
                     id[1] = u.center /\ id[3] = u.generation /\ id[2] # u.source_revision)
            /\ UNCHANGED stream_result
         \/ /\ ~Cancelled(u)
            /\ stream_requested = {Identity(u)}
            /\ stream_result' = {[u EXCEPT !.world = stream_around(@, u.center)]}
            /\ IF stream_result = {} THEN UNCHANGED stallVars
               ELSE \E old \in stream_result :
                      note_rejected_stream(old.center,
                         /\ old.center = u.center /\ old.generation = u.generation
                         /\ old.source_revision # u.source_revision)
  BY DEF finish_stream
<1>5. u \in StreamUnits
  BY <1>2, OptionElim
<1>6. CASE UNCHANGED <<stream_result, stallVars>>
  BY <1>1, <1>3, <1>6 DEF StallInv, Paid, Polling, stallVars
<1>7. CASE /\ ~Cancelled(u)
           /\ stream_requested # {Identity(u)}
           /\ note_rejected_stream(u.center,
                 \E id \in stream_requested :
                    id[1] = u.center /\ id[3] = u.generation /\ id[2] # u.source_revision)
           /\ UNCHANGED stream_result
  <2>1. Doomed
    BY <1>7 DEF Doomed
  <2>2. PICK stale : stale = (\E id \in stream_requested :
                    id[1] = u.center /\ id[3] = u.generation /\ id[2] # u.source_revision)
    OBVIOUS
  <2>3. stale \in BOOLEAN /\ note_rejected_stream(u.center, stale)
    BY <1>7, <2>2
  <2>4. stale => requested_center = {u.center}
    BY <2>2 DEF StallInv
  <2>5. /\ stale_streams' \in Nat /\ stale_streams' <= stale_streams + 1
        /\ stale_streams' > 0 => stale_center' = requested_center'
    BY <1>1, <1>2, <2>3, <2>4, RejectedCounts
  <2>6. Paid => Paid'
    BY <1>1, <1>2, <1>3, <2>1, <2>5 DEF Paid
  <2> QED BY <1>1, <1>7, <2>5, <2>6 DEF StallInv, Polling
<1>8. CASE /\ stream_requested = {Identity(u)}
           /\ stream_result' = {[u EXCEPT !.world = stream_around(@, u.center)]}
           /\ IF stream_result = {} THEN UNCHANGED stallVars
              ELSE \E old \in stream_result :
                     note_rejected_stream(old.center,
                        /\ old.center = u.center /\ old.generation = u.generation
                        /\ old.source_revision # u.source_revision)
  <2>1. \A r \in stream_result' : stream_requested' = {Identity(r)}
    <3>1. Identity([u EXCEPT !.world = stream_around(@, u.center)]) = Identity(u)
      BY <1>5 DEF Identity, StreamUnits
    <3> QED BY <1>1, <1>8, <3>1
  <2>2. requested_center = {u.center}
    BY <1>8 DEF StallInv, Identity
  <2>3. CASE stream_result = {}
    BY <1>1, <1>3, <1>8, <2>1, <2>3 DEF StallInv, Paid, Polling, stallVars
  <2>4. CASE stream_result # {}
    <3>1. PICK old \in stream_result :
             note_rejected_stream(old.center,
                /\ old.center = u.center /\ old.generation = u.generation
                /\ old.source_revision # u.source_revision)
      BY <1>8, <2>4
    <3>2. PICK stale : stale = (/\ old.center = u.center /\ old.generation = u.generation
                                /\ old.source_revision # u.source_revision)
      OBVIOUS
    <3>3. stale \in BOOLEAN /\ note_rejected_stream(old.center, stale)
          /\ (stale => requested_center = {old.center})
      BY <2>2, <3>1, <3>2
    <3>4. /\ stale_streams' \in Nat
          /\ stale_streams' > 0 => stale_center' = requested_center'
          /\ ~stale => stale_streams' = 0
      BY <1>1, <1>2, <3>3, RejectedCounts
    <3>5. phase # "poll" => ~stale
      <4>1. phase # "poll" => Identity(old) = Identity(u)
        BY <1>8 DEF StallInv
      <4> QED BY <3>2, <4>1 DEF Identity
    <3>6. ~Polling => Paid'
      BY <1>2, <3>4, <3>5 DEF Paid, Polling
    <3> QED BY <1>1, <2>1, <3>4, <3>6 DEF StallInv, Polling
  <2> QED BY <2>3, <2>4
<1> QED BY <1>4, <1>6, <1>7, <1>8

LEMMA StallStep == ASSUME FrameInv, [FrameNext]_allVars PROVE StallInv'
<1>1. StallInv /\ PendingIsLatestRequest /\ TypeOK /\ CallsEndInFrame
  BY DEF FrameInv, DrawnInv, PublicationInv
<1>2. CASE \E c \in Centers : FrameStream(c)
  BY <1>1, <1>2, StallStream
<1>3. CASE FramePoll \/ FrameFallback
  BY <1>1, <1>3, StallPoll, StallFallback
<1>4. CASE FrameHomeReset
  BY <1>4, ConstantsAssumption
  DEF FrameHomeReset, reset, Cancel, clear_stall, Goto, StallInv, Paid, Polling,
      ConstantsAssumption
<1>5. CASE finish_stream /\ UNCHANGED frameVars
  BY <1>1, <1>5, StallFinish
<1>6. CASE FrameEdit \/ FrameHomeWindow \/ FrameHomeObstructed
  <2>1. ~Polling /\ ~Polling'
    BY <1>6 DEF FrameEdit, FrameHomeWindow, FrameHomeObstructed, Goto, Polling
  <2>2. \/ UNCHANGED vars
        \/ \E k \in Keys, m \in Contents, touched \in SUBSET Keys : Edit(k, m, touched)
        \/ \E c \in {Home, eye} : StreamAround(c)
    BY <1>6 DEF FrameEdit, FrameHomeWindow, FrameHomeObstructed
  <2>3. /\ UNCHANGED <<requested_center, stream_result, stream_requested,
                       stale_streams, stale_center, generation, shutdown, stream_job>>
        /\ world' = world \/ world.revision < MaxRevision
    BY <2>2 DEF Edit, StreamAround, CanRewindow, vars, callerVars, streamVars, stallVars,
                gateVars, workerVars, jobVars
  <2>4. world.revision = MaxRevision => world'.revision = MaxRevision
    BY <2>3, ConstantsAssumption DEF ConstantsAssumption
  <2> QED BY <1>1, <2>1, <2>3, <2>4, StallFrame
<1>7. CASE \/ FrameRetain \/ FrameUpload \/ FrameRequest \/ FramePush \/ FrameEnd
           \/ \E event \in PlatformEvents : apply_platform(event)
  <2>1. \/ eye' = eye /\ phase' = phase
        \/ ~Polling /\ ~Polling'
    BY <1>7 DEF FrameRetain, FrameUpload, FrameRequest, FramePush, FrameEnd, apply_platform,
                Goto, Polling, frameVars
  <2>2. UNCHANGED <<world, requested_center, stream_result, stream_requested,
                    stale_streams, stale_center, generation, shutdown, stream_job>>
    <3>1. CASE FrameRetain \/ FrameUpload
      BY <3>1 DEF FrameRetain, FrameUpload, poll_mesh, vars, callerVars, streamVars, stallVars,
                  gateVars, workerVars, jobVars
    <3>2. CASE FrameRequest \/ FramePush \/ FrameEnd
      BY <3>2 DEF FrameRequest, FramePush, FrameEnd, request_mesh, push_mesh, vars, callerVars,
                  streamVars, stallVars, gateVars, workerVars, jobVars
    <3>3. CASE \E event \in PlatformEvents : apply_platform(event)
      <4>1. resume \/ pause \/ UNCHANGED vars
        BY <3>3 DEF apply_platform
      <4> QED BY <4>1 DEF resume, pause, vars, callerVars, streamVars, stallVars, gateVars,
                          workerVars, jobVars
    <3> QED BY <1>7, <3>1, <3>2, <3>3
  <2> QED BY <1>1, <2>1, <2>2, StallFrame
<1>8. CASE \/ FrameDrop
           \/ /\ \/ worker_wait \/ worker_exit \/ take_job \/ finish_mesh \/ count_unit
                 \/ worker_panic
              /\ UNCHANGED frameVars
           \/ UNCHANGED allVars
  <2>1. eye' = eye /\ phase' = phase
    BY <1>8 DEF FrameDrop, frameVars, allVars
  <2>2. /\ UNCHANGED <<world, requested_center, stream_result, stream_requested,
                       stale_streams, stale_center, generation>>
        /\ shutdown => shutdown'
        /\ stream_job' \subseteq stream_job \/ stream_job' = stream
    BY <1>8 DEF FrameDrop, drop, worker_wait, worker_exit, take_job, finish_mesh, count_unit,
                worker_panic, allVars, vars, callerVars, streamVars, stallVars, gateVars,
                workerVars, jobVars
  <2> QED BY <1>1, <2>1, <2>2, StallFrame
<1> QED
  BY <1>2, <1>3, <1>4, <1>5, <1>6, <1>7, <1>8 DEF FrameNext, Frame, Worker

(* The frame's own variables.                                               *)
LEMMA FrameOwn ==
    ASSUME FrameInv, [FrameNext]_allVars
    PROVE  /\ lifecycle' \in Lifecycles /\ eye' \in Centers
           /\ phase' \in Phases /\ budget' \in 0 .. MeshesPerFrame
           /\ CallsEndInFrame'
<1>1. lifecycle' \in Lifecycles
  <2>1. CASE \E event \in PlatformEvents : apply_platform(event)
    BY <2>1 DEF FrameInv, apply_platform, apply, Lifecycles, PlatformEvents
  <2>2. CASE UNCHANGED lifecycle
    BY <2>2 DEF FrameInv
  <2> QED
    BY <2>1, <2>2
    DEF FrameNext, Frame, FrameStream, FramePoll, FrameFallback, FrameEdit, FrameHomeReset,
        FrameHomeWindow, FrameHomeObstructed, FrameRetain, FrameUpload, FrameRequest, FramePush,
        FrameEnd, FrameDrop, Goto, frameVars, allVars
<1>2. eye' \in Centers
  BY FrameAssumption
  DEF FrameInv, FrameNext, Frame, FrameStream, FramePoll, FrameFallback, FrameEdit,
      FrameHomeReset, FrameHomeWindow, FrameHomeObstructed, FrameRetain, FrameUpload,
      FrameRequest, FramePush, FrameEnd, FrameDrop, apply_platform, Goto, frameVars, allVars
<1>3. phase' \in Phases
  BY DEF FrameInv, Phases, FrameNext, Frame, FrameStream, FramePoll, FrameFallback, FrameEdit,
         FrameHomeReset, FrameHomeWindow, FrameHomeObstructed, FrameRetain, FrameUpload,
         FrameRequest, FramePush, FrameEnd, FrameDrop, apply_platform, Goto, frameVars, allVars
<1>4. budget' \in 0 .. MeshesPerFrame
  <2>1. CASE \E c \in Centers : FrameStream(c)
    BY <2>1, FrameAssumption DEF FrameStream
  <2>2. CASE FrameRequest
    BY <2>2, FrameAssumption DEF FrameRequest, FrameInv
  <2>3. CASE UNCHANGED budget
    BY <2>3 DEF FrameInv
  <2> QED
    BY <2>1, <2>2, <2>3
    DEF FrameNext, Frame, FramePoll, FrameFallback, FrameEdit, FrameHomeReset,
        FrameHomeWindow, FrameHomeObstructed,
        FrameRetain, FrameUpload, FramePush, FrameEnd, FrameDrop, apply_platform, Goto,
        frameVars, allVars
<1>5. CallsEndInFrame'
  <2>1. CASE \/ \E c \in Centers : FrameStream(c)
             \/ FramePoll \/ FrameFallback \/ FrameEdit \/ FrameHomeReset \/ FrameHomeWindow
             \/ FrameHomeObstructed \/ FrameRetain \/ FrameUpload
    <3>1. mesh_call' = mesh_call /\ phase # "request"
      BY <2>1
      DEF FrameStream, FramePoll, FrameFallback, FrameEdit, FrameHomeReset,
          FrameHomeWindow, FrameHomeObstructed,
          FrameRetain, FrameUpload, request_stream, poll_stream, sync_fallback_if_stalled, Edit,
          reset, Cancel, StreamAround, poll_mesh, vars, callerVars
    <3> QED BY <3>1 DEF FrameInv, CallsEndInFrame
  <2>2. CASE FrameRequest \/ FramePush
    BY <2>2 DEF FrameRequest, FramePush, frameVars, CallsEndInFrame
  <2>3. CASE FrameEnd
    BY <2>3 DEF FrameEnd, vars, callerVars, CallsEndInFrame
  <2>4. CASE \/ \E event \in PlatformEvents : apply_platform(event)
             \/ FrameDrop \/ (Worker /\ UNCHANGED frameVars) \/ UNCHANGED allVars
    <3>1. mesh_call' = mesh_call /\ phase' = phase
      <4>1. CASE \E event \in PlatformEvents : apply_platform(event)
        <5>1. /\ resume \/ pause \/ UNCHANGED vars
              /\ phase' = phase
          BY <4>1 DEF apply_platform
        <5> QED BY <5>1 DEF resume, pause, vars, callerVars
      <4>2. CASE FrameDrop \/ (Worker /\ UNCHANGED frameVars) \/ UNCHANGED allVars
        BY <4>2 DEF FrameDrop, drop, Worker, worker_wait, worker_exit, take_job, finish_stream,
                    finish_mesh, count_unit, worker_panic, vars, callerVars, frameVars, allVars
      <4> QED BY <2>4, <4>1, <4>2
    <3> QED BY <3>1 DEF FrameInv, CallsEndInFrame
  <2>5. CASE Frame
    BY <2>1, <2>2, <2>3, <2>5 DEF Frame
  <2> QED BY <2>4, <2>5 DEF FrameNext
<1> QED BY <1>1, <1>2, <1>3, <1>4, <1>5

LEMMA FrameStep == FrameInv /\ [FrameNext]_allVars => FrameInv'
<1> SUFFICES ASSUME FrameInv, [FrameNext]_allVars PROVE FrameInv'
  OBVIOUS
<1>1. [Next]_vars \/ Draws
  BY FrameSteps DEF FrameInv, DrawnInv, PublicationInv
<1>2. DrawnInv' /\ PendingIsLatestRequest'
  BY <1>1, DrawnStep, PendingStep, DrawsKeep DEF FrameInv
<1> QED BY <1>2, FrameOwn, StallStep DEF FrameInv

(* The frame loop keeps to its phases and its budget of requests.           *)
THEOREM FrameTypeCorrect == FrameSpec => []FrameTypeOK
<1>1. FrameInv => FrameTypeOK
  BY DEF FrameInv, DrawnInv, PublicationInv, FrameTypeOK
<1> QED BY <1>1, FrameInitInv, FrameStep, PTL DEF FrameSpec

(* However often the world is edited, and whatever the worker is at, no     *)
(* more preparations than the threshold are lost to edits before the frame  *)
(* moves the window itself (sync_fallback_if_stalled).                      *)
THEOREM StallAlwaysPaid == FrameSpec => []StallIsPaid
<1>1. FrameInv => StallIsPaid
  <2>1. FrameInv => stale_streams \in Nat /\ STALE_STREAM_FALLBACK_AFTER \in Nat
    BY ConstantsAssumption DEF FrameInv, DrawnInv, PublicationInv, TypeOK, ConstantsAssumption
  <2> QED BY <2>1 DEF FrameInv, StallInv, Paid, Polling, StallIsPaid
<1> QED BY <1>1, FrameInitInv, FrameStep, PTL DEF FrameSpec

(* The sandbox draws and uploads on its own as well, and still everything   *)
(* the controller promises holds: current snapshots, the latest request,    *)
(* nothing from before a reset, exact keys, and meshes that are the world's.*)
THEOREM FrameKeepsController ==
    FrameSpec => []( /\ SnapshotsAgree /\ PendingIsLatestRequest /\ NothingOutlivesReset
                     /\ ActiveKeysExact /\ DrawnMatchesRevision )
<1>1. FrameInv => /\ SnapshotsAgree /\ PendingIsLatestRequest /\ NothingOutlivesReset
                  /\ ActiveKeysExact /\ DrawnMatchesRevision
  BY DEF FrameInv, DrawnInv, KeysInv, ResetInv, PublicationInv, ResultsFaithful, Faithful,
         DrawnMatchesRevision
<1> QED BY <1>1, FrameInitInv, FrameStep, PTL DEF FrameSpec

(* Every step of the frame loop, callbacks of the platform and the end of   *)
(* the program included, is one call or step of the controller, or it       *)
(* changes what is drawn and nothing else, towards what the world holds     *)
(* (simulate_frame, sync_render_meshes and apply_platform of lib.rs).       *)
THEOREM FrameDrivesController == FrameSpec => Init /\ [][Next \/ Draws]_vars
<1>1. FrameInit => Init BY DEF FrameInit
<1>2. FrameInv /\ [FrameNext]_allVars => [Next \/ Draws]_vars
  BY FrameSteps DEF FrameInv, DrawnInv, PublicationInv
<1> QED BY <1>1, <1>2, FrameInitInv, FrameStep, PTL DEF FrameSpec

(* In the frame loop too, a window that is published moves the window to    *)
(* where the eye asked for it and keeps every edit of the frames between.   *)
THEOREM FrameEditsArePublished == FrameSpec => PublicationKeepsEdits
<1>1. FrameInv /\ [FrameNext]_allVars =>
         [poll_stream /\ world' # world =>
            /\ world'.content = world.content
            /\ world'.center = requested_center
            /\ world'.revision = world.revision + 1]_vars
  BY PublicationMovesWindow DEF FrameInv, DrawnInv
<1> QED BY <1>1, FrameInitInv, FrameStep, PTL DEF FrameSpec, PublicationKeepsEdits
=============================================================================
