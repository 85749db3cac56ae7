--------------------------- MODULE AsyncIndirect ---------------------------
(***************************************************************************)
(* Background preparation of the indirect-light volume                     *)
(* (crates/matterweave-render/src/async_indirect.rs).  What is wanted is a *)
(* source key (replacement epoch, world revision, sun), which may come     *)
(* back: a sun that moves and returns.  The worker computes in slices      *)
(* without the lock and looks between two of them whether the job is still *)
(* wanted; a slice that was the last one is followed by a second critical  *)
(* section that buffers the result.                                        *)
(*                                                                         *)
(* Generations are addresses, as epochs are in AsyncDetail.  A failure to  *)
(* allocate the volume is a job that completes before its first check.     *)
(* Left out: the counters, the rejection of an invalid sun.  As in         *)
(* AsyncDetail, an operator named after another one and a defect is one no *)
(* action uses.                                                            *)
(***************************************************************************)
EXTENDS Integers, FiniteSets

CONSTANTS Keys, Generations

(* An allocation differs from the two that can be held at once. *)
ASSUME GenerationsAssumption ==
    /\ Generations # {}
    /\ \A a, b \in Generations : Generations \ {a, b} # {}

VARIABLES
    generation, requested, pending, running, result, shutdown,
    worker,     \* what the thread does
    job         \* the job it has taken, also when running was cleared

queueVars == <<generation, requested, pending, running, result>>
vars == <<queueVars, shutdown, worker, job>>

Option(S) == {s \in SUBSET S : \A x, y \in s : x = y}
Jobs == [key: Keys, generation: Generations]

Init ==
    /\ generation = CHOOSE g \in Generations : TRUE
    /\ requested = {} /\ pending = {} /\ running = {} /\ result = {} /\ job = {}
    /\ \/ worker = "looking" /\ shutdown = FALSE
       \/ worker = "exited" /\ shutdown = TRUE    \* no thread was started

WakeForgotten == UNCHANGED worker
Wake == worker' = IF worker = "asleep" THEN "looking" ELSE worker

available == worker # "exited"

Wanted(j) == j.generation = generation /\ requested = {j.key}

-----------------------------------------------------------------------------
(* Render owner *)

(* What is pending, running or buffered for this key is not done again.     *)
enqueue_request(key) ==
    LET this == [key |-> key, generation |-> generation]
    IN  /\ requested' = {key}
        /\ IF \E j \in pending : j.key = key THEN UNCHANGED <<pending, worker>>
           ELSE IF this \in running \cup result THEN pending' = {} /\ UNCHANGED worker
           ELSE pending' = {this} /\ Wake

request(key) ==
    /\ available /\ ~shutdown
    /\ enqueue_request(key)
    /\ UNCHANGED <<generation, running, result, shutdown, job>>

poll(key) ==
    /\ \E r \in result : Wanted(r) /\ r.key = key
    /\ result' = {}
    /\ UNCHANGED <<generation, requested, pending, running, shutdown, worker, job>>

(* A new allocation differs from all that are held. *)
reset ==
    /\ ~shutdown \/ worker = "exited"     \* not while drop joins
    /\ pending' = {} /\ result' = {} /\ requested' = {}
    /\ generation' = CHOOSE g \in Generations \
                        ({generation} \cup {j.generation : j \in running \cup job}) : TRUE
    /\ UNCHANGED <<running, shutdown, worker, job>>

(* Drop: the join that follows waits for the thread. *)
drop ==
    /\ ~shutdown
    /\ shutdown' = TRUE /\ pending' = {}
    /\ Wake
    /\ UNCHANGED <<generation, requested, running, result, job>>

Owner == (\E key \in Keys : request(key) \/ poll(key)) \/ reset \/ drop

-----------------------------------------------------------------------------
(* Worker *)

Stale(j) == shutdown \/ ~Wanted(j)
Retire == running' = {j \in running : ~Stale(j)}

(* The wait loop: retire, adopt, leave or sleep, in this order. *)
adopt_job ==
    /\ worker = "looking" /\ ~shutdown /\ pending # {}
    /\ {j \in running : ~Stale(j)} = {}
    /\ running' = pending /\ job' = pending /\ pending' = {}
    /\ worker' = "slicing"
    /\ UNCHANGED <<generation, requested, result, shutdown>>

worker_exit ==
    /\ worker = "looking" /\ shutdown
    /\ Retire
    /\ worker' = "exited"
    /\ UNCHANGED <<generation, requested, pending, result, shutdown, job>>

worker_wait ==
    /\ worker = "looking" /\ ~shutdown /\ pending = {}
    /\ Retire
    /\ worker' = "asleep"
    /\ UNCHANGED <<generation, requested, pending, result, shutdown, job>>

(* update: one bounded slice, which may be the last. *)
slice(last) ==
    /\ worker = "slicing"
    /\ worker' = IF last THEN "sliced last" ELSE "sliced"
    /\ UNCHANGED <<queueVars, shutdown, job>>

(* config.build, or an update, fails: no check comes before finish_job.     *)
fail ==
    /\ worker = "slicing"
    /\ worker' = "done"
    /\ UNCHANGED <<queueVars, shutdown, job>>

(* Between two slices the worker gives up what is no longer wanted. *)
between ==
    /\ worker \in {"sliced", "sliced last"}
    /\ Retire
    /\ IF running' # running
       THEN worker' = (IF shutdown THEN "exited" ELSE "looking") /\ job' = {}
       ELSE worker' = (IF worker = "sliced" THEN "slicing" ELSE "done") /\ UNCHANGED job
    /\ UNCHANGED <<generation, requested, pending, result, shutdown>>

BufferedAlways == job
Buffered == IF \E j \in job : Stale(j) THEN result ELSE job
finish_job ==
    /\ worker = "done"
    /\ result' = Buffered
    /\ running' = {} /\ job' = {}
    /\ worker' = "looking"
    /\ UNCHANGED <<generation, requested, pending, shutdown>>

(* A panic ends the thread with its job still marked running. *)
worker_panic ==
    /\ worker = "slicing"
    /\ worker' = "dying" /\ job' = {}
    /\ UNCHANGED <<queueVars, shutdown>>

worker_gone ==
    /\ worker = "dying"
    /\ worker' = "exited"
    /\ UNCHANGED <<queueVars, shutdown, job>>

WorkerRuns ==
    \/ adopt_job \/ worker_exit \/ worker_wait \/ between \/ finish_job \/ worker_gone
    \/ slice(FALSE) \/ slice(TRUE)

Next == Owner \/ WorkerRuns \/ fail \/ worker_panic

(* The thread is scheduled.  Every slice advances the job, so one that is   *)
(* not given up reaches its last slice.                                    *)
Spec == Init /\ [][Next]_vars /\ WF_vars(WorkerRuns)
SlicesEnd == SF_vars(slice(TRUE))

-----------------------------------------------------------------------------
(* Properties *)

(* Every variable stays within its type, and the thread holds a job exactly *)
(* while it works on one.                                                  *)
IndirectTypeOK ==
    /\ generation \in Generations /\ requested \in Option(Keys)
    /\ pending \in Option(Jobs) /\ running \in Option(Jobs) /\ result \in Option(Jobs)
    /\ job \in Option(Jobs) /\ shutdown \in BOOLEAN
    /\ worker \in {"looking", "asleep", "slicing", "sliced", "sliced last", "done",
                   "dying", "exited"}
    /\ job # {} <=> worker \in {"slicing", "sliced", "sliced last", "done"}

(* An unchanged source is not prepared twice, also when the key that runs   *)
(* is asked for again after another one.                                   *)
LightPreparedOnce ==
    /\ \A j \in pending : Wanted(j)
    /\ pending \cap running = {} /\ pending \cap result = {} /\ running \cap result = {}

(* The slots implement the promise of LatestPreparation, whatever the       *)
(* worker does meanwhile.                                                  *)
Serving == ~shutdown /\ available /\ worker # "dying"
Promise == INSTANCE LatestPreparation WITH
    Versions <- Keys, Ages <- Generations, wanted <- requested,
    owed <- Serving /\ \E j \in pending \cup running : Wanted(j),
    ready <- {<<r.key, r.generation>> : r \in result},
    age <- generation, serving <- Serving

KeepsPromise == Promise!Safety

(* The key that stays wanted gets prepared although others, and resets,     *)
(* came in between.                                                        *)
KeyIsPrepared == SlicesEnd => Promise!Progress
=============================================================================
