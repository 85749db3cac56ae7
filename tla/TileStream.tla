----------------------------- MODULE TileStream -----------------------------
(***************************************************************************)
(* The distance tiles of the landscape (apps/explorer/src/                 *)
(* landscape_tiles.rs): which tiles the renderer holds, the cache of their *)
(* meshes (mesh_cache.rs) and the thread that generates them.              *)
(*                                                                         *)
(* A frame gives the tiles around the camera, nearest first.  Their meshes *)
(* come from the cache, or from the worker some frames later; the tile     *)
(* under the camera does not wait.  The worker and the main thread meet at *)
(* two bounded channels and one lock.                                      *)
(*                                                                         *)
(* A tile is a place and the filter that says which of its cells are       *)
(* drawn; a mesh is known by its tile.  Left out: the limit of 1024 tiles  *)
(* in the renderer, which no plan comes near, the requests of a frame,     *)
(* which are as many as its uploads, and a renderer that fails.  An        *)
(* operator named after another one and a defect shows what the properties *)
(* would notice; no action uses it.                                        *)
(***************************************************************************)
EXTENDS Naturals, FiniteSetsExt, SequencesExt

CONSTANTS
    Plans,                 \* sequences of tiles; the first one is under the camera
    Empty,                 \* the tiles that mesh to nothing
    Size,                  \* bytes of a mesh
    MAX_TILE_UPLOADS,
    MAX_TILE_JOBS,
    MAX_TILE_RESULTS,
    MAX_TILE_RESULT_BYTES,
    TILE_CACHE_BYTES,
    TILE_HYSTERESIS_FRAMES,
    TILE_HYSTERESIS_HELD

Tiles == UNION {ToSet(p) : p \in Plans}

ASSUME PlansAssumption ==
    /\ Tiles \subseteq [key : Nat, filter : Nat]
    /\ \A p \in Plans : p \in Seq(Tiles) /\ Len(p) > 0 /\ p[1] \notin Empty
    /\ \A p \in Plans : \A i, j \in 1..Len(p) : p[i].key = p[j].key => i = j
ASSUME SizesAssumption ==
    /\ \A t \in Tiles : Size[t] \in 0..MAX_TILE_RESULT_BYTES
    /\ {MAX_TILE_UPLOADS, MAX_TILE_JOBS, MAX_TILE_RESULTS} \subseteq Nat \ {0}
    /\ {MAX_TILE_RESULT_BYTES, TILE_CACHE_BYTES, TILE_HYSTERESIS_FRAMES,
        TILE_HYSTERESIS_HELD} \subseteq Nat

VARIABLES
    jobs, results,             \* the two channels
    active, result_bytes,      \* WorkerState, under its lock
    shutdown, parked,          \* and what `paused` is there
    at, job,                   \* the worker: where it is, Option: its tile
    polled,                    \* Option: a result taken, not yet accounted for
    cache,                     \* the meshes, least recently used first
    pins,                      \* per mesh, the frames its pin still lasts
    resident,                  \* TileResidency: the tiles counted as uploaded
    drawn,                     \* the renderer: the meshes it holds
    renderer,                  \* there is one
    plan, uncovered, urgent,   \* the last frame's
    phase, build, todo         \* where the main thread is in it

shared == <<active, result_bytes, shutdown, parked>>
worker == <<at, job>>
screen == <<resident, drawn, renderer>>
frame == <<plan, uncovered, urgent, build>>
tileVars == <<jobs, results, shared, worker, polled, cache, pins, screen, frame, phase, todo>>

Option(S) == {s \in SUBSET S : \A x, y \in s : x = y}
Bytes(S) == MapThenSumSet(LAMBDA t : Size[t], S)
Keys(S) == {t.key : t \in S}

\* The worker starts, or its thread could not be started.
TileInit ==
    /\ jobs = << >> /\ results = << >> /\ active = {} /\ result_bytes = 0
    /\ parked = FALSE /\ job = {} /\ polled = {}
    /\ \/ shutdown = FALSE /\ at = "gate"
       \/ shutdown = TRUE /\ at = "exited"
    /\ cache = << >> /\ pins = [t \in Tiles |-> 0]
    /\ resident = {} /\ drawn = {} /\ renderer = FALSE
    /\ plan = << >> /\ uncovered = FALSE /\ urgent = FALSE
    /\ phase = "idle" /\ build = << >> /\ todo = << >>

-----------------------------------------------------------------------------
(* The cache *)

\* The elements of a sequence that are in a set, in their order (SelectSeq as a
\* function, so that something can be proved of it).
Only(s, S) ==
    LET upto[n \in 0..Len(s)] ==
            IF n = 0 THEN << >>
            ELSE IF s[n] \in S THEN Append(upto[n - 1], s[n]) ELSE upto[n - 1]
    IN upto[Len(s)]

\* The order in which `trim` takes meshes: those without a pin, least recently
\* used first, and then those whose pin ends first.
Sooner(c, i, j) ==
    LET t == c[i]
        u == c[j]
    IN \/ pins[t] < pins[u]
       \/ /\ pins[t] = pins[u]
          /\ IF pins[t] = 0 THEN i < j
             ELSE t.key < u.key \/ (t.key = u.key /\ t.filter < u.filter)

\* It takes a mesh if that one and those that come later are not within the
\* budget.
Later(c, i) == {c[j] : j \in {j \in DOMAIN c : ~Sooner(c, j, i)}}
trim(c) == {c[i] : i \in {i \in DOMAIN c : Bytes(Later(c, i)) > TILE_CACHE_BYTES}}

Inserted(t) == Append(Only(cache, Tiles \ {t}), t)
insert(t) ==
    LET out == trim(Inserted(t))
    IN /\ cache' = Only(Inserted(t), Tiles \ out)
       /\ pins' = [u \in Tiles |-> IF u \in out THEN 0 ELSE pins[u]]

get(t) == cache' = Inserted(t) /\ UNCHANGED pins

-----------------------------------------------------------------------------
(* The worker *)

\* `park_while_paused`: the flags are read under the lock, and waiting lets go
\* of it.
gate ==
    \/ /\ at \in {"gate", "gate2"} /\ parked /\ ~shutdown
       /\ at' = IF at = "gate" THEN "waiting" ELSE "waiting2"
       /\ UNCHANGED <<active, job>>
    \/ /\ at = "gate" /\ (~parked \/ shutdown)
       /\ at' = IF shutdown THEN "exited" ELSE "receiving"
       /\ UNCHANGED <<active, job>>
    \/ /\ at = "gate2" /\ ~parked /\ ~shutdown
       /\ at' = "generating"
       /\ UNCHANGED <<active, job>>
    \/ /\ at = "gate2" /\ shutdown
       /\ at' = "exited" /\ active' = active \ job /\ job' = {}

worker_gate ==
    /\ gate
    /\ UNCHANGED <<jobs, results, result_bytes, shutdown, parked, polled, cache, pins,
                   screen, frame, phase, todo>>

\* The main thread's end of the channel is closed only when it is gone; what is
\* queued is received even then.
worker_receive ==
    /\ at = "receiving"
    /\ \/ jobs # << >> /\ job' = {Head(jobs)} /\ jobs' = Tail(jobs) /\ at' = "gate2"
       \/ jobs = << >> /\ phase = "gone" /\ at' = "exited" /\ UNCHANGED <<job, jobs>>
    /\ UNCHANGED <<results, shared, polled, cache, pins, screen, frame, phase, todo>>

\* A finished mesh goes to the channel, or is dropped with its key.
Delivered(t) ==
    /\ ~shutdown
    /\ result_bytes + Size[t] <= MAX_TILE_RESULT_BYTES
    /\ Len(results) < MAX_TILE_RESULTS
DroppedKeyLeft(t) == active
Dropped(t) == active \ {t}

worker_finish ==
    /\ at = "generating"
    /\ at' = IF shutdown THEN "exited" ELSE "gate"
    /\ job' = {}
    /\ \E t \in job :
          IF Delivered(t)
            THEN /\ results' = Append(results, t)
                 /\ result_bytes' = result_bytes + Size[t]
                 /\ UNCHANGED active
            ELSE active' = Dropped(t) /\ UNCHANGED <<results, result_bytes>>
    /\ UNCHANGED <<jobs, shutdown, parked, polled, cache, pins, screen, frame, phase, todo>>

\* Generating panics: the thread ends and leaves its key behind.
worker_panic ==
    /\ at = "generating"
    /\ at' = "exited" /\ job' = {}
    /\ UNCHANGED <<jobs, results, shared, polled, cache, pins, screen, frame, phase, todo>>

-----------------------------------------------------------------------------
(* One frame: `sync` *)

\* `plan_into`: what the plan wants is built in its order, as far as the budget
\* goes; a tile it does not want is dropped, its mesh pinned.
sync_begin(p, open) ==
    LET wanted == Keys(ToSet(p))
        missing == Only(p, Tiles \ resident)
        evict == {t \in resident : t.key \notin wanted}
        pinned == {t \in evict :
                     Cardinality({u \in evict : u.key > t.key}) < TILE_HYSTERESIS_HELD}
    IN /\ phase = "idle" /\ renderer /\ ~parked
       /\ plan' = p /\ uncovered' = open
       /\ urgent' = (open /\ p[1] \notin resident)
       /\ build' = SubSeq(missing, 1, Min({MAX_TILE_UPLOADS, Len(missing)}))
       /\ resident' = resident \ evict
       /\ drawn' = {t \in drawn : t.key \in wanted}
       /\ pins' = [t \in Tiles |-> IF t \in pinned THEN TILE_HYSTERESIS_FRAMES + 1
                                     ELSE IF pins[t] > 0 THEN pins[t] - 1 ELSE 0]
       /\ phase' = "collect" /\ todo' = << >>
       /\ UNCHANGED <<jobs, results, shared, worker, polled, cache, renderer>>

\* `poll`: the result is received before the lock is taken.
poll_take ==
    /\ phase = "collect" /\ polled = {} /\ results # << >>
    /\ polled' = {Head(results)} /\ results' = Tail(results)
    /\ UNCHANGED <<jobs, shared, worker, cache, pins, screen, frame, phase, todo>>

poll_account ==
    /\ \E t \in polled :
          /\ active' = active \ {t} /\ result_bytes' = result_bytes - Size[t]
          /\ insert(t)
    /\ polled' = {}
    /\ UNCHANGED <<jobs, results, shutdown, parked, worker, screen, frame, phase, todo>>

collect_done ==
    /\ phase = "collect" /\ polled = {} /\ results = << >>
    /\ phase' = "request" /\ todo' = build
    /\ UNCHANGED <<jobs, results, shared, worker, polled, cache, pins, screen, frame>>

\* `request`: refused when the key is already asked for, the queue is full or
\* the worker is not there.
AcceptedAgain(t) == ~shutdown /\ at # "exited" /\ Len(jobs) < MAX_TILE_JOBS
Accepted(t) ==
    /\ ~shutdown /\ t \notin active
    /\ at # "exited" /\ Len(jobs) < MAX_TILE_JOBS

request ==
    /\ phase = "request" /\ todo # << >>
    /\ LET t == Head(todo)
       IN IF t \notin ToSet(cache) /\ Accepted(t)
            THEN jobs' = Append(jobs, t) /\ active' = active \cup {t}
            ELSE UNCHANGED <<jobs, active>>
    /\ todo' = Tail(todo)
    /\ UNCHANGED <<results, result_bytes, shutdown, parked, worker, polled, cache, pins,
                   screen, frame, phase>>

request_done ==
    /\ phase = "request" /\ todo = << >>
    /\ phase' = "upload" /\ todo' = build
    /\ UNCHANGED <<jobs, results, shared, worker, polled, cache, pins, screen, frame>>

-----------------------------------------------------------------------------
(* Uploading *)

available == ~shutdown /\ at # "exited"
CoveringLate(t) == urgent /\ t = plan[1] /\ ~available
Covering(t) == urgent /\ t = plan[1]

\* A mesh of nothing is not uploaded: the tile counts as resident without it.
\* `upload_terrain_tile` replaces what the renderer holds at that place.
Other(S, t) == {u \in S : u.key # t.key}
Replaced(t) == IF t \in Empty THEN drawn ELSE Other(drawn, t) \cup {t}

mark_uploaded(t) ==
    /\ drawn' = Replaced(t)
    /\ resident' = Other(resident, t) \cup {t}
    /\ UNCHANGED renderer

\* The tile that covers the camera is generated here and now, and so is every
\* tile when there is no worker; another one waits.
upload_tile(t) ==
    /\ phase = "upload" /\ todo # << >> /\ t = Head(todo)
    /\ IF t \in ToSet(cache) THEN get(t) /\ mark_uploaded(t)
       ELSE IF ~available \/ Covering(t) THEN insert(t) /\ mark_uploaded(t)
       ELSE UNCHANGED <<cache, pins, screen>>
    /\ todo' = Tail(todo)
    /\ UNCHANGED <<jobs, results, shared, worker, polled, frame, phase>>

\* The frame's MAX_TILE_MS are spent.
upload_break ==
    /\ phase = "upload" /\ todo # << >> /\ ~Covering(Head(todo))
    /\ todo' = << >>
    /\ UNCHANGED <<jobs, results, shared, worker, polled, cache, pins, screen, frame, phase>>

upload_done ==
    /\ phase = "upload" /\ todo = << >>
    /\ phase' = "idle" /\ build' = << >> /\ urgent' = FALSE
    /\ UNCHANGED <<jobs, results, shared, worker, polled, cache, pins, screen, plan,
                   uncovered, todo>>

-----------------------------------------------------------------------------
(* The platform, between frames *)

WokenNever == at
Woken == CASE at = "waiting" -> "gate" [] at = "waiting2" -> "gate2" [] OTHER -> at

\* `apply_platform`: Paused.
pause ==
    /\ phase = "idle" /\ ~parked /\ parked' = TRUE
    /\ UNCHANGED <<jobs, results, active, result_bytes, shutdown, worker, polled, cache,
                   pins, screen, frame, phase, todo>>

\* `suspended`: the renderer goes, and the worker is parked.
suspended ==
    /\ phase = "idle" /\ renderer
    /\ renderer' = FALSE /\ resident' = {} /\ drawn' = {} /\ uncovered' = FALSE
    /\ parked' = TRUE
    /\ UNCHANGED <<jobs, results, active, result_bytes, shutdown, worker, polled, cache,
                   pins, plan, urgent, build, phase, todo>>

\* Resumed, or WindowCreated with a new renderer.
resume ==
    /\ phase = "idle"
    /\ \/ parked /\ UNCHANGED renderer
       \/ ~renderer /\ renderer' = TRUE
    /\ parked' = FALSE /\ at' = Woken
    /\ UNCHANGED <<jobs, results, active, result_bytes, shutdown, job, polled, cache, pins,
                   resident, drawn, frame, phase, todo>>

\* Drop: the flag is set, the job channel closed, the worker woken and joined.
drop ==
    /\ phase = "idle"
    /\ phase' = "gone" /\ shutdown' = TRUE /\ at' = Woken
    /\ renderer' = FALSE /\ resident' = {} /\ drawn' = {} /\ uncovered' = FALSE
    /\ cache' = << >> /\ pins' = [t \in Tiles |-> 0] /\ plan' = << >>
    /\ UNCHANGED <<jobs, results, active, result_bytes, parked, job, polled, urgent, build,
                   todo>>

-----------------------------------------------------------------------------
Worker == worker_gate \/ worker_receive \/ worker_finish
Sync == \E p \in Plans, open \in BOOLEAN : sync_begin(p, open)
Collecting == poll_take \/ poll_account \/ collect_done
Requesting == request \/ request_done
Uploading == upload_done \/ \E t \in Tiles : upload_tile(t)
Platform == pause \/ suspended \/ resume \/ drop
Frame == Sync \/ Collecting \/ Requesting \/ Uploading
TileNext == Worker \/ worker_panic \/ Frame \/ upload_break \/ Platform

(* Frames follow each other and come to an end, the worker gets to run, and *)
(* a tile whose turn comes again and again is uploaded in the end: the      *)
(* frames do not all run out of time before it.                            *)
TileFairness ==
    /\ WF_tileVars(Worker) /\ WF_tileVars(Frame)
    /\ \A t \in Tiles : SF_tileVars(upload_tile(t))
TileSpec == TileInit /\ [][TileNext]_tileVars /\ TileFairness

-----------------------------------------------------------------------------
(* Properties *)

(* What is asked for and not collected is one tile per key, and is exactly  *)
(* what is queued, generated, finished or just received; so a tile that was *)
(* dropped can be asked for again, and none is generated twice.  The bytes  *)
(* of the finished ones are known and bounded.  (A thread that panicked     *)
(* leaves what it had; nothing is asked of it again.)                       *)
Finished == ToSet(results) \cup polled
Held == ToSet(jobs) \cup job \cup Finished
HeldOnce ==
    /\ Cardinality(ToSet(jobs)) = Len(jobs) /\ Cardinality(ToSet(results)) = Len(results)
    /\ ToSet(jobs) \cap (job \cup Finished) = {}
    /\ job \cap Finished = {} /\ ToSet(results) \cap polled = {}
ActiveIsHeld ==
    /\ result_bytes = Bytes(Finished) /\ result_bytes <= MAX_TILE_RESULT_BYTES
    /\ at # "exited" => active = Held /\ HeldOnce

(* After a frame, the ground under the camera is drawn as planned if the    *)
(* chunk that would cover it is not there, however late the worker is.      *)
GroundIsDrawn == phase = "idle" /\ uncovered => plan[1] \in drawn

(* A plan that stays is filled in the end, whatever was queued for other    *)
(* plans, dropped or evicted, and also without a worker: every tile counts  *)
(* as resident, and what counts is drawn with its filter, unless it meshes  *)
(* to nothing.                                                              *)
Filled == ToSet(plan) \subseteq resident /\ ToSet(plan) \ Empty \subseteq drawn
PlanIsFilled ==
    \A p \in Plans : <>[](plan = p /\ renderer /\ ~parked) => <>[]Filled

(* Dropping the stream ends, also when the worker was parked.              *)
DropEnds == phase = "gone" ~> at = "exited"
=============================================================================
