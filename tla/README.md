# Matterweave: models of its concurrent and durable parts

Matterweave is a voxel engine in Rust (`crates/`) with two applications (`apps/explorer`,
`apps/monsters`). Its hard part is not one algorithm: one thread owns an authoritative world and
edits it at will, other threads prepare from snapshots what the world needs next (stream windows,
chunk meshes, collision shapes, light, landscape tiles), a real-time callback plays sounds it is sent
through a queue, and every result comes back late. Around that loop stand the platform, which
pauses, resumes and kills the program in any order, and the files it leaves behind. These
specifications model those parts: what happens when edits, requests, results, resets, pauses,
panics, failing devices, crashes and exits interleave.

Paths below are relative to the repository.

## 1. Inventory

| Component | State | Operations | Correct means |
|---|---|---|---|
| World preparation, `crates/matterweave-core/src/async_world.rs` | one mutex: pending/active/staged window, mesh FIFO, results and their bytes, active keys, stall count, generation, pause, shutdown | request/poll stream, fallback, request/poll mesh, reset, pause, resume, drop; worker: wait, take, finish, count | no edit lost, bounds kept, keys neither leaked nor forgotten, windows and meshes catch up, drop returns |
| Authoritative world, `lib.rs`, `streaming.rs` of the same crate | revision, window center, chunks, chunk revisions | `set`, `stream_around` | equal revisions mean equal contents |
| Sandbox frame loop, `apps/explorer/src/lib.rs`, `platform.rs` | lifecycle flags, camera, drawn meshes | `apply_platform`, `simulate_frame`, `sync_render_meshes`, Home | the frame's order is enough for progress |
| Detail collision preparation, `crates/matterweave-physics/src/async_detail_collision.rs` | pending, running, result slot, requested version, epoch | request, poll (gated), reset, pause, resume, drop | latest wins, prepared once, nothing from before a reset |
| Detail collision cadence, `detail_cadence.rs` there, gate in `detail_collision.rs` | added regions, structural latch, staged result, published version | `on_edit`, `step` | nothing solid through a body; what is announced becomes solid |
| Wetland session, `apps/explorer/src/wetland.rs` | scene, save journal, unconfirmed edits | edit, rollback, load | journal, scene and live collision agree again after a refusal |
| Indirect light preparation, `crates/matterweave-render/src/async_indirect.rs` | as detail collision, computed in slices | request, poll, reset, drop | as detail collision, although jobs are given up |
| Indirect light volume, `crates/matterweave-render/src/indirect.rs`, `indirect/dependency.rs` | source and proxy the values are for, cursor, running sum, values, done, records of what samples read | `update` with budgets, `set_mesh_proxy`, `replace_mesh_proxy` | what is published is what a computation from nothing gives |
| Wetland lighting, `apps/explorer/src/wetland_lighting.rs`, `WetlandDetail` of `wetland.rs`; in the renderer the geometry it holds and the light it retires | selection prepared, installed, to reinstall; proxy, packs, palette; what failed; what is published | a frame: prepare and install detail, upload bodies, rebuild, attach, advance, publish | what is lit is what is drawn; light comes back |
| Audio service and mixer, `crates/matterweave-audio` | PCM pool, handles, command queue; callback: voices, mask, counters; device | register, unregister, play, stop, suspend, resume, recover; render | no range rewritten while a voice reads it; stale handles are inert; the mixer ends where the application wants it |
| Audio adapter, `apps/explorer/src/audio_service.rs`, `experience.rs` | tracked voices, mute, retry, the device being opened | resume, suspend, sweep, switch, mute, cooldown | one resume is enough, and the background is silent |
| Save slots, `apps/explorer/src/wetland_state.rs`, `wetland.rs`, `crates/matterweave-core/src/persistence.rs` | main and recovery files, the running session | choose a slot, save, autosave, exit | a crash loses at most what was not reported as saved; no session replaces another |
| Landscape tile worker, `landscape_tiles.rs`, `mesh_cache.rs`, `landscape.rs` | two bounded channels, active keys, parked flag; cache with pins; residency | request, poll, park, drop; plan, upload, evict | a dropped tile can be asked for again; the ground is drawn |
| Frame pacing, `crates/matterweave-pacing` | sample history, divisor, stability | observe, set policy, set period, reset | no oscillation under constant load |
| Monsters, `crates/matterweave-monsters`, `apps/monsters/src/app.rs` | party, storage, items, badge; screen, battle, dirty, save file | capture, heal, swap, evolve, fight; buttons, keys, save, suspend, exit | nobody fights fainted, progress is saved or marked, no battle without an end |

Interaction. The frame loop calls the controllers on the caller thread and takes results by polling;
workers never call back. Each controller shares one mutex and one condition variable with its
worker, the tile worker also two channels. The cadence wraps the detail-collision controller; the
wetland session drives the cadence, the pacer and the save slots, and what the cadence refuses
decides whether a saved file can be restored. Its lighting follows what the renderer has accepted, and
the renderer retires light whenever its geometry changes. The audio adapter wraps the audio service, which
meets its callback at a lock-free queue and four atomics. The remaining components (the rest of
the renderer, ray hierarchy, generation, flora, tools, vendored code) are computations without concurrency of their
own. `PROJECT.json` lists every component with the reason where it is not modelled, and every hazard
at the line where it bites.

## 2. Modules

| Module | Models |
|---|---|
| `AsyncWorld` | `async_world.rs` with `World::set`, `invalidate_cell`, `chunk_revision`, `stream_around` |
| `AsyncWorldProofs` | theorems about its windows and snapshots, its meshes, resets and requests, alone and in the frame loop |
| `Platform` | the decisions of `platform.rs` as operators |
| `ExplorerFrame` | the frame loop over `AsyncWorld` and `Platform` |
| `LatestPreparation` | the abstract promise of a latest-wins preparation, from the module docs of the two controllers |
| `AsyncDetail` | `async_detail_collision.rs` over a scene with opaque versions |
| `DetailCadence` | `detail_cadence.rs` and the edits of `wetland.rs` over `AsyncDetail` |
| `DetailCadenceProofs` | theorems about both: the slot's promise, and cadence and journal over it |
| `AsyncIndirect`, `AsyncIndirectProofs` | `async_indirect.rs` |
| `LightVolume` | the volume of `indirect.rs` with its records, for any caller that goes by digests |
| `WetlandLight` | the wetland's frame around the volume: detail, bodies, proxy, publications, and what can fail |
| `LightProofs` | theorems about both, and that the wetland uses the volume as specified |
| `AudioService` | `service.rs`, `mixer.rs`, `pcm.rs`, `backend.rs` of the audio crate |
| `AudioAdapter` | the explorer's adapter and the platform events, over `AudioService` |
| `AudioProofs` | theorems about both |
| `SaveSlots`, `SaveSlotsProofs` | the recovery slots of both explorer programs, saving, crashes |
| `TileStream` | the tile worker, the mesh cache, residency, and the frame's use of them |
| `FramePacer` | the pacer in the loop it closes with the wetland application |
| `FrameProofs` | theorems about the two before |
| `Mossbound`, `MossboundProofs` | the game's rules, screens, battles and saves |
| `MC*` | values of the constants, and for `MCDetailCadence` a bound on edits |

How state corresponds to code:

* **One action is one critical section.** `request_mesh` looks at the queue, copies a halo without
  the lock and pushes in a second critical section: these are `request_mesh` and `push_mesh`, with
  `mesh_call` the request in between. The worker's `run` is `worker_wait`, `worker_exit`, `take_job`,
  then `finish_stream` or `finish_mesh`, then `count_unit`, the separate section that counts.
  One exception: `sync_fallback_if_stalled` locks twice but nothing another thread does in
  between changes what it does, so it is one action.
* **`Option<T>`** is a set with at most one element. **Contents** of a chunk are one material or
  air; a **mesh** is what it was built from and its size.
* **`u64` counters** that the code checks (`revision`, `generation`) or saturates (`completed`) have
  constants for `u64::MAX`, so exhaustion is reachable. In the code it takes 2^64 steps; the
  branches exist and are checked.
* **Waiting** is a state of the worker (`asleep`), and only an operation that notifies (`Wake`) ends
  it. A lost wake-up is then a worker that sleeps for ever, found by the liveness properties.
* **Addresses.** `SceneVersion`, the detail epoch and the light generation are `Arc` pointers: a new
  one differs from those still held, and an address nobody holds may be handed out again. `Fresh`
  chooses the first address that is not held, which makes reuse as early as it can be.
* **Panics.** A panic in a unit ends the thread outside the lock. `AsyncDetail` and `AsyncIndirect`
  keep the time between the panic and `JoinHandle::is_finished` (`dying`), in which requests are
  still accepted and never served.
* **Detail scenes** are sets of solid cells in one row; bodies are the cells their boxes overlap;
  physics moves them anywhere that is not solid. `Colliders` groups cells into colliders, whose box
  covers the gaps, as the structural gate sees them.
* **Light.** A ray is the sequence of cells it passes, a contribution the material it hits if that
  sees the sun, and the value of a face the sequence of its contributions, which the code adds up in
  that order: equal sequences are bit-identical sums. One action is one pass of the loop of `update`.
  `Fresh` of `LightVolume` is the reference: what a face is when it is computed from nothing.
* **The wetland's frame** is one thread; `at` says how far it has come, and an action is what one
  call does or how it fails. `resident` and `uploaded` are the geometry the renderer holds, which
  differs from what the session has prepared when an install or an upload is refused. `Footprint`
  gives the proxy of a drawn selection and of the bodies, or none if it cannot be built.
* **Audio.** Every public call of the service is one action. The callback is one action for each
  command it drains and one for each atomic it publishes, in the order of `mixer.rs`, because the
  control thread reads them one by one. A sequence number is kept as its distance `wait` from
  `commands_applied`. `Faults` is how often the device may refuse, time out or be lost.
* **A call of the adapter** makes several calls of the service with callbacks in between: what is
  left of it is `todo`, and the next platform event waits until it is empty.
* **Files.** A file is the session that wrote it, how far that session had come, whether `load` would
  accept it, and whether its bytes reached the disk. `disk` is what a reader finds, `durable` what a
  power loss cannot take back.
* **Tiles** are a place and the filter that says which of its cells are drawn; a mesh is known by
  its tile. The frame is one action for each step that another thread can interleave with.
* **Pacing** has no absolute clock: `now` and `due` are measured from the last present. Costs,
  overshoots of the event loop and refresh periods come from outside.
* **Mossbound** keeps what the last frame drew (`buttons`): a press finds a button of that frame,
  whatever the events since have changed. Chances, damage and evolution gates are free choices.
* An operator named after another and a defect (`WakeForgotten`, ...) is used by no action. It is
  that operator with a plausible bug, kept to show that a property notices it: put in the place of
  the original it makes the property listed in `PROJECT.json` fail.

`LatestPreparation` is what `AsyncDetail` and `AsyncIndirect` implement. The refinement mapping takes
`requested` to `wanted`, a job of the current epoch for it to `owed`, the result slot to `ready`, and
the life of the thread to `serving`. The slots, the superseded jobs, pausing, slicing and giving up
are invisible to the owner: that is the statement.

## 3. Runs

| Run | Question | Distinct states |
|---|---|---|
| `async_stream` | does any interleaving of edits, travel, evictions, resets, replaced worlds, pauses and panics lose an edit, draw a stale mesh as fresh, or leak a key? | 1 471 908 |
| `explorer_frame` | does the frame loop always catch up, and does quitting return? | 192 363 |
| `detail_cadence` | can a publication hit a body, can a rollback lose the journal, does what was announced become solid? | 546 252 |
| `async_indirect` | does the sliced worker implement the promise? | 2 091 |
| `wetland_light` | is what lights a frame computed for what is drawn, equal to a computation from nothing, and does it come back after edits and failures? | 1 056 460 |
| `audio_service` | is PCM ever rewritten while it is read, and does the mixer end suspended or not as wanted? | 735 149 |
| `audio_adapter` | does sound come back after one resume, and does nothing start in the background? | 958 034 |
| `save_slots` | is a session ever lost or replaced, and does the next start find the one saved last? | 762 043 |
| `tile_stream` | are keys leaked, is the ground drawn, are plans filled, does dropping return? | 73 778 |
| `frame_pacer` | does the cadence cover the cost, settle, and record only frames? | 180 109 |
| `mossbound` | can a fainted or absent monster fight, progress go unmarked, a battle hold the player? | 376 107 |

What each property says is written above it in its module.

Bounds, and why they suffice:

* `async_stream`: two centers, one whose window holds the chunk and one whose window is empty, are
  enough for travel, eviction and return; two materials tell an edit from its absence; three
  revisions give an edit before, during and after a preparation; the second generation is also the
  exhausted one; bounds of one with meshes of size one and two reach the count bound, the byte bound
  and the mesh over the byte bound on its own; a threshold of two lets a stall be counted and
  forgiven. `explorer_frame` has one request in a frame and a threshold of one, so that the fallback
  is reached within its four revisions. Home is pressed anywhere, and is free or obstructed.
  Both runs have one chunk: edits and evictions of neighbours are covered by `DrawnAlwaysMatchesRevision`
  alone, and `MeshesCatchUp` does not show that a chunk is drawn that waits behind nearer ones.
* `detail_cadence` has three cells, so that two can be grouped with a gap between them, and three edits: a burst of two
  and one more, or three refused in different orders; the gate has room for one region, so that it
  overflows. Three light keys in `async_indirect` let a source come back while another is pending.
* `wetland_light`: three faces with two samples, two that see each other along a row of cells and one
  that sees the sky, rays that reach a cell outside the box, blocks of one and two cells, room for the
  records of two faces, budgets for one traced sample or a few kept ones: updates end in the middle of
  a face, at a done face and before a trace. Two cameras, two versions of the scene, one deferred
  level, three positions of the bodies (one of them outside the box, two with one colour), and a
  selection that cannot be built together with a body. Three events between frames, an edit, its
  undoing and one more, and one failure: the theorems cover any number of both.
* `audio_service`: one voice and two clips of lengths one and two in a pool of two, so that a clip
  can only be loaded where another one was; a queue of two, so that it is full; two faults, so that
  recovery itself fails; two generations, so that handles wrap. `audio_adapter`: a queue of three,
  the least that `RoomAssumption` allows, two faults, four platform events.
* `save_slots`: a main file and two recovery files, two fresh sessions, four states, and two faults
  shared by failing steps, misread starts and power losses: a misread and a crash, or two crashes.
* `tile_stream`: two places, one near the other, one tile wholly inside a finer ring, channels of
  one and two, and a cache that holds one mesh of the two that arrive.
* `frame_pacer`: two displays, three scenes whose costs fit one cadence, lie at the boundary of two,
  or exceed all; a history of two with its median, so that a percentile moves with one sample;
  two frames of hysteresis; four events from outside.
* `mossbound`: a party of two and a storage of one, so that both are full; one charm, one tonic and
  one move point, so that all run out; a team of two; six deeds of all starts together.

Fairness. Worker threads are scheduled (`WF` of their steps), and frames run while work is allowed
(`WF` of the frame). Nothing obliges the player, the platform, a panic or a fault. In addition:

* `AsyncIndirect`: a slice that is the last one comes eventually (`SlicesEnd`, strong fairness, since
  slices alternate with the check between them): every slice advances the job by a positive budget.
* `DetailCadence` (its run's specification is in `MCDetailCadence`) assumes frames only while the app is not paused.
* `WetlandLight`: frames go on; events and failures are bounded (`MaxEdits`, `MaxFaults`), so
  `LightReturns` speaks of what happens after the last of them. The budgets leave room for one sample,
  as the constants of the code do.
* `AudioAdapter`: the callback, the adapter's steps, `pump_audio` (called every frame or tick) and the
  end of the retry's cooldown. A device whose callbacks stop is a fault and counted.
* `SaveSlots`: the autosave and the steps of a save; and strong fairness for the confirmation or the
  revert of a burst, which `detail_cadence` shows to come (`AnnouncedBecomesSolid`), while new edits
  may keep starting new bursts.
* `TileStream`: strong fairness for the upload of a tile, since the plan may change between frames.
* `FramePacer`: presents go on; what happens from outside is bounded by `MaxEvents`, so the
  properties speak of what happens after the last of it.
* `Mossbound` assumes no fairness. `NoSoftLock` says that the battle ends for a player who keeps
  pressing: that persistence is the antecedent of the property.

Deadlock is not checked: a dropped or retired controller, a player who leaves and a program that has
exited all stop.

One run is expected to fail, `audio_forgotten`: `voice_finished` drops the record of a voice after two
counted callbacks, and its comment says that the play was then applied before the mask it reads. The
callback counts itself before it publishes `commands_applied`; read in between, the voice that has just
started looks finished, and a sample switch leaves it sounding.

Other places where code and words differ, seen while modelling; each is what the module does:

* `AsyncStats::completed_units` "must not move while the worker is paused"; the unit is counted in a
  later critical section, so it can move with nothing in flight.
* `PlatformLifecycle::paused` says that jobs must be stopped with no window; `apply_platform`
  resumes the worker on `Resumed` without asking.
* `poll_stream` "returns whether `world` changed"; at the last revision it returns true for a window
  that was refused.
* An edit that the mesh budget refuses is put back without `on_edit`: the scene has a version nobody
  requests, and what was being prepared for the one before is dropped: until the next edit nothing
  becomes solid. `AnnouncedBecomesSolid` speaks of what was announced and does not cover this.
* `load_recovering_with` visits the main file first, although its documentation says newest first.
  The sandbox asks `Path::exists` whether a slot is free, which is also false when it cannot be told.
* A tile whose filter leaves no cells is counted as resident while the renderer keeps the mesh it
  had (`landscape_tiles.rs:766`, `landscape.rs:2259`).
* Mossbound: a save that is refused or unreadable counts as none, and the first save of a new game
  replaces it (`app.rs:151`; `state.rs:32` and `:280` promise the bytes stay). A refused move keeps
  the wild's strike. A won battle against a wild monster reports that it "was caught". A comment says
  that a charm is spent where the code gives it back.
* `replace_mesh_proxy` with an equal proxy in the middle of a face drops the faces without records and
  moves the cursor back to them, but keeps the running sum (`indirect.rs:902`, `dependency.rs:652`): such
  a face would start from another one's samples, although "a recomputed face is bit-identical to a
  fresh one". The wetland compares digests first (`wetland_lighting.rs:641`), and so does `attach`.
* `dirty_faces` is "zero exactly when" the volume is complete (`indirect.rs:982`); after an edit it can be
  zero while the scan has yet to skip the retained faces before its end.
* After a failed build "the source has not moved since" (`wetland_lighting.rs:487`); bodies may have moved,
  and the build is still not tried again before the next accepted install. `LightReturns` excepts it.
* With a queue shorter than the voices plus two, a stream paused with a full queue could never
  resume. The code has 64 for 8 voices; `RoomAssumption` states what it relies on.

## 4. Proofs

TLAPS checks the theorems below for every value of the constants that the modules' assumptions
allow. Each invariant is a conjunction of named parts; `Init` establishes it, one lemma per action
shows that it is kept, and the theorem combines them.

**`AsyncWorldProofs`**, any windows, keys, limits and number of resets. `TypeCorrect`;
`SnapshotsAgreeAlways`: a preparation whose revision is still the world's was made from this very
world, which is why a comparison of numbers suffices in `poll_stream`; `EditsArePublished`:
publishing never reverts an edit. The inductive invariant is `PublicationInv`: `TypeOK`,
`SnapshotsAgree`, `GenerationsBounded` (no unit carries a generation of the future: otherwise the
one a reset moves to could make a cancelled unit current) and `RetiredStagesNothing` (otherwise a
window could be published after a world replacement whose number it shares).

Over the same invariant, for meshes and requests: `NothingOutlivesResetAlways` and `PendingIsLatestAlways`
from `ResetInv`: what is queued or staged carries the current generation and is what was asked for
last. `ActiveKeysAlwaysExact` from `KeysInv`, which adds that no key is queued twice and that the
request between its two critical sections is not yet a key. `DrawnAlwaysMatchesRevision` from
`DrawnInv`: every mesh on its way (queued, executing, finished, drawn) with the revision of its chunk
was built from what chunk and neighbours hold, for any neighbourhoods. TLC has one chunk; the
theorem covers edits and evictions of neighbours.

The same module proves about `ExplorerFrame`, whose steps are those of the controller in the order
of the frame: `FrameDrivesController` says that each is one of them, or changes what is drawn and nothing else (`Draws`).
`FrameKeepsController` and `FrameEditsArePublished`: the results above hold in the frame loop. `StallAlwaysPaid`:
by the time the frame has polled and tried the fallback, no more preparations than the threshold were
lost to edits. Its invariant (`StallInv`) says what the rest of the frame leaves to the next: the count
is below the threshold, or it is at the threshold and the worker is not at a preparation that was
overtaken (`Doomed`), the only one that could still be counted before the next poll; and what is
requested and counted is the destination of the eye, so that the fallback pays for the right one.

**`AsyncIndirectProofs`**, and the first part of **`DetailCadenceProofs`**, any sources and any supply of addresses with one more
than can be held at a time (`GenerationsAssumption`, `AddressesAssumption`). What is held under the
current version was prepared from the scene as it is; nothing is prepared twice; and both controllers
implement `LatestPreparation` (`LightKeepsPromise`, `DetailKeepsPromise`). The invariants (`SlotInv`,
`DetailInv`) add that what the thread has taken is what the queue calls running, until it is given
up: without it a buffered result could be another job than the one that was owed. Every action maps
to one action of the promise or a stutter: a request to `Want`, `poll` to `Deliver`, `reset` to `Forget`,
dropping or dying to `Stop`, finishing a job to `Prepare` unless it is stale.

**`DetailCadenceProofs`**, second part, any row of cells, bodies, limit of regions and edits, for a scene whose
addresses suffice and whose gate covers what a source adds. `NeverThroughABody`, `SaveTellsScene`,
`BurstsLeadBack`, from `CadenceInv`: the invariant of the slot and that of the session (what is staged
or on its way differs from the live collision by no more than the regions the gate keeps, or the
structural latch is set). Putting a burst back needs no gate, because it leads to what is live.

**`LightProofs`**, any box, rays, worlds, proxies, blocks, budgets and cap on records. About the volume:
`KeptAlwaysExact`: a sample kept across edits is what tracing it again would give;
`PublishedAlwaysFresh`: complete light equals a computation from nothing. `VolInv` is the type,
`KeyTells` and `CallHasKey` (an update works for a key that describes the proxy), `Scanned` (slots before
the cursor are done), `SlotFresh` (a done slot holds its fresh value, another none), `RecordsExact`,
`DoneRecorded` (a done face with a value either has no records at all, and then every edit drops it, or
has one for every sample) and `PartialFresh` (the running sum is exact and recorded). The heart are
`RayAgrees`, `SampleAgrees` and `UncrossedAgrees`: two proxies that differ in no block a sample has read
give it the same rays, hits and contribution.

About the wetland, for any scenes, cameras, bodies and proxies besides: `WetlandUsesVolume`: every step
of its frame is a step of `LightVolume` or none, so that what is proved of the volume holds in it
(`WetlandKeptExact`, `WetlandPublishedFresh`); and `WetlandLitAsDrawn`, from `WetInv`. Its parts say that an
update runs only between `advance` and `publish` (`CallInUpdate`), that an install finds a prepared
selection (`Selected`), that the renderer holds what was installed last unless a reinstall is owed
(`Resident`), what the result of an install says of that (`InstallTells`), that bodies not yet uploaded
are marked so (`BodiesTold`), and that proxy and palette were built for the installed selection once
lighting has seen the install (`Built`), and for what is drawn while an update runs (`Matched`). Without them a rejected install followed by an accepted one could publish the proxy of the
selection in between.

**`FrameProofs`**, first part, any rates, costs, history and hysteresis. `CadenceCoversCost`: when the target was
decided from samples, the slowest accepted share of them fits it; `NoGapIsRecorded`: no interval
contains time the loop stood still. `PacerInv`: the pacer's type, `Good` (an armed pacer measures from
a present of this run of the loop) and `Waited`.

**`FrameProofs`**, second part, the tile stream for any plans, meshes, queues and budgets. From `TileInv`, whose three parts
need nothing of each other but types:

* `HeldInv` gives `AskedIsHeld`: the keys asked for are the tiles queued, generated, finished or just
  received, each once, and the bytes of the finished ones are known. It adds that a thread that has ended
  without its key (a panic) leaves nothing held that is not asked for.
* `GroundInv` gives `GroundStaysDrawn` and `ScreenIsAsCounted`. `GroundComes` follows the tile under the camera through
  the frame: while nothing finer covers it, it is drawn, or it is urgent and the first of what is
  built, and from the beginning of the uploads the first of what is left to upload, which the exemption from
  the frame's time then draws. Other uploads leave it, because a plan has one tile of each place.
* `CacheInv` gives `CacheKeepsBudget`. What `trim` leaves has a mesh that would go first (`OneIsFirst`, since the
  order is strict); that one stayed, so it and everything after it is within the budget.

`Bytes` is a fold and `Only` a recursive function. What they compute for every finite set and every sequence is
proved without an induction over operators: the function exists on what is small enough and agrees with every other one,
because there is no least place where it fails (`SumsUpToExist`, `SumsAgree`, `KeptExists`, `OnlyKeeps`).

**`SaveSlotsProofs`**, any number of slots, sessions, edits and faults. `SavesSurvive`: a save that was
reported is found by the next start and after a power loss; `NoSessionIsLost`: no file is replaced
except by a later state of its own session. `SavesInv`: renamed files are synced, the disk is never
behind what is durable, states grow with time, a running session owns its slot, a save under way is of
the running session, and what was reported is durable. `SavedComesBack`: as long as every file can be read, a start goes
on with the session saved last. `ReturnInv`, beside `SavesInv`, says why the choice of a slot finds it: no slot is
free below a used one (so a new session is above all others), the slot saved last is the main one or has no
restorable one above it while the main one is refused, on the disk and in what a power loss would leave,
and the same holds for the slot of the running session before its first save.

**`AudioProofs`**, any pool, clips, voices, queue length and number of faults, any lag of the callback.
`PoolStaysPartitioned`: every cell is in one range. `VoicesOwnTheirPcm`: what a voice reads is registered
or retired and unacknowledged. `NothingIsRejected`: the callback finds every command valid.
`MixerFollows`: once drained, the mixer is silent just when the service is suspended. The first needs that
a split or merged range covers the same cells (`HeldOnce`); the last is inductive with the types. The two between follow from `Foretold`: the
queue is read as a forecast. There is a course of the mixer through all queued commands (`Course`) in which it accepts
each one, after each of which every voice plays the registered range of its clip or one retired behind commands
still to come (`Owned`), and at whose end clips and voices are as the service believes (`Agrees`; a voice the service may
reuse is one that the published mask no longer shows). The adapter's steps are steps of the service, so `AdapterKeepsService` gives the same
for `AdapterSpec`, and without the bound `MaxAhead` the runs need. `NothingStartsInBackground` adds
`Calm`: while the application is away, what is left of a call of the adapter is stops, gains and the suspension itself.

**`MossboundProofs`**, any journey, roster, strikes and limits that `RosterAssumption` and `JourneyAssumption`
allow (an evolution does not shrink, a monster survives its capture, a strike hits). `FightersAreInParty`,
`EveryoneStandsAlways`, `ProgressIsSavedOrDirty`. Lemmas say what each rule does to a good game (`GoodGame`: all
owned stand, the party is not empty), and what can come of a turn (`Outcome`: only a lost battle leaves
fainted monsters, and only in the party; a refused turn differs by hit points of the party at most, so
`Progress` is the same). The invariant `MossInv` adds `Screened`: a battle in which another than the
first monster fights is on the screen, and nothing else than its buttons is; a menu row or a title button
that an earlier frame drew can only be pressed while the first fights, and the first is always there.

Least and greatest members of sets of naturals, for the `CHOOSE` in pacing, slots, light and audio, exist
by well-founded induction (`Least`, `Greatest`, in each module that needs them).

Only model-checked: every liveness property (`WindowFollowsEye`, `MeshesCatchUp`, `DropJoins`, `AnnouncedBecomesSolid`,
`KeyIsPrepared`, `LightReturns`, `OneResumeIsEnough`, `EverythingSaved`, `PlanIsFilled`, `DropEnds`,
`CadenceSettles`, `NoMissesInTheEnd`, `NoSoftLock`), because fairness and `ENABLED` are out of the prover's reach.
Every invariant and every other action property of the passing runs is also a theorem.

## 5. Not modelled

* `AsyncDetail` has no run of its own: its invariants and its promise are proved, and `detail_cadence`
  runs it without `reset`, a pause by itself and dropping: that nothing old comes back over a reset is
  shown by `DetailKeepsPromise` alone. That dropping a detail or light controller
  joins its thread is not checked; the same wake-up is checked for `AsyncWorld` (`DropJoins`).
* `AsyncWorld`: the seed (it changes only with the world, which the contract of `reset` puts behind
  a new generation), worlds that do not stream and nonfinite positions (refused without effect),
  the counter `discarded`.
* Terrain, overrides and their limit: a chunk comes back from eviction as it left, because edits are
  overrides and generation is deterministic.
* `DetailCadence`: materials without collision, instances added or removed, `reset` and
  `forget_publication` (no application calls them), the refusals before an edit changes anything.
* `LightVolume`: packing values for the GPU, floating-point geometry and rounding; digests that
  collide; a failing allocation of the tracker itself.
* `WetlandLight`: building a proxy from meshes (`Footprint` stands for it), a world that is not empty,
  the budgets of detail preparation, the renderer's buffers. A failed upload ends the program, as in
  the code.
* Audio: samples, gains and rates; which sound an event starts, distances and rate limits.
* `SaveSlots`: the second chain of recovery files for a sandbox world whose session is refused,
  errors of `stat`, names of temporary files, the format.
* `TileStream`: the limit of resident tiles and of requests in a frame, which no plan reaches; a
  renderer that fails.
* `FramePacer`: the uncapped policy, the anomaly counter, telemetry, redraws the system asks for.
* `Mossbound`: levels, experience, positions, occlusion, the smoke exercise, more than one move.
* Type invariants are stated in every module, and proved where there are proofs; the runs check
  properties that say more.
* Everything listed as `not_modelled` in `PROJECT.json`, with its reason: the renderer's
  resources except which geometry and light it holds, numeric generation, pure geometry, tools and vendored code.

## 6. Plan

1. A run of `AsyncWorld` with a neighbour, at the cost of the second material, and one of the frame loop
   with a chunk farther than another, whose 1.4 million states take too long for liveness now.
2. The water stream and the flora of the landscape, which share the cache of `TileStream`.
3. The physics world's body cache, and the renderer's buffers and retained sets.
4. Proofs about these; what is proved of `Bytes`, `Only` and `trim` carries over to the water stream.
