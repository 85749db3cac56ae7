------------------------ MODULE AsyncIndirectProofs ------------------------
(* What holds of AsyncIndirect for every set of keys and every supply of    *)
(* addresses: one preparation per source, and the promise that the slots,   *)
(* slices and retirements of the worker implement.                          *)
EXTENDS AsyncIndirect, TLAPS

(* What the thread has taken is what the queue calls running, until it is   *)
(* given up, and a thread that holds nothing has nothing running.           *)
RunningIsTaken ==
    /\ job # {} => running = job
    /\ worker \in {"looking", "asleep"} => running = {}

SlotInv == IndirectTypeOK /\ RunningIsTaken /\ LightPreparedOnce

-----------------------------------------------------------------------------
(* An Option holds one element or none. *)
LEMMA OptionCases ==
    ASSUME NEW S, NEW s \in Option(S)
    PROVE  /\ \A x \in s : x \in S /\ s = {x}
           /\ \A t \in SUBSET s : t \in Option(S)
BY DEF Option

(* The empty Option, and the Option of a member. *)
LEMMA OptionMade ==
    ASSUME NEW S
    PROVE  {} \in Option(S) /\ \A x \in S : {x} \in Option(S)
BY DEF Option

(* Emptying a slot, or forgetting the request, keeps its type. *)
LEMMA Emptied == {} \in Option(Jobs) /\ {} \in Option(Keys)
BY OptionMade

(* Every slot holds one job or none. *)
LEMMA SlotsHold ==
    ASSUME IndirectTypeOK
    PROVE  /\ \A j \in pending : j \in Jobs /\ pending = {j}
           /\ \A j \in running : j \in Jobs /\ running = {j}
           /\ \A j \in result : j \in Jobs /\ result = {j}
           /\ \A j \in job : j \in Jobs /\ job = {j}
<1>1. /\ pending \in Option(Jobs) /\ running \in Option(Jobs)
      /\ result \in Option(Jobs) /\ job \in Option(Jobs)
  BY DEF IndirectTypeOK
<1> QED BY <1>1, OptionCases

(* Giving up what is stale leaves the slot as it is or empties it. *)
LEMMA Retired ==
    ASSUME IndirectTypeOK, Retire
    PROVE  running' \in {running, {}}
BY SlotsHold DEF Retire

(* An owner's request keeps the slots in order, whichever slot serves it.   *)
LEMMA RequestKeeps ==
    ASSUME SlotInv, NEW key \in Keys, request(key)
    PROVE  SlotInv'
<1> DEFINE this == [key |-> key, generation |-> generation]
<1> USE DEF SlotInv
<1>1. this \in Jobs /\ requested' = {key} /\ requested' \in Option(Keys)
  BY OptionMade DEF request, enqueue_request, IndirectTypeOK, Jobs
<1>2. UNCHANGED <<generation, running, result, shutdown, job>>
  BY DEF request
<1>3. \/ worker' = worker
      \/ worker = "asleep" /\ worker' = "looking"
  BY Zenon DEF request, enqueue_request, Wake
<1>4. \A j \in pending : j \in Jobs /\ pending = {j}
  BY OptionCases DEF IndirectTypeOK
<1>5. pending' = {} \/ pending' = {this}
  <2>1. CASE \E j \in pending : j.key = key
    <3>1. PICK j \in pending : j.key = key
      BY <2>1
    <3>2. j = this
      BY <1>4, <3>1 DEF LightPreparedOnce, Wanted, Jobs
    <3> QED BY <2>1, <3>2, <1>4 DEF request, enqueue_request
  <2>2. CASE ~\E j \in pending : j.key = key
    BY <2>2 DEF request, enqueue_request
  <2> QED BY <2>1, <2>2
<1>6. pending' = {this} => this \notin running /\ this \notin result
  <2>1. CASE \E j \in pending : j.key = key
    BY <2>1, <1>4 DEF LightPreparedOnce, request, enqueue_request
  <2>2. CASE ~\E j \in pending : j.key = key
    BY <2>2 DEF request, enqueue_request
  <2> QED BY <2>1, <2>2
<1>7. IndirectTypeOK'
  <2>1. pending' \in Option(Jobs)
    BY <1>1, <1>5, OptionMade
  <2>2. generation' \in Generations /\ running' \in Option(Jobs) /\ result' \in Option(Jobs)
        /\ job' \in Option(Jobs) /\ shutdown' \in BOOLEAN
    BY <1>2 DEF IndirectTypeOK
  <2>3. /\ worker' \in {"looking", "asleep", "slicing", "sliced", "sliced last", "done",
                        "dying", "exited"}
        /\ job' # {} <=> worker' \in {"slicing", "sliced", "sliced last", "done"}
    <3>1. CASE worker' = worker
      BY <1>2, <3>1 DEF IndirectTypeOK
    <3>2. CASE worker = "asleep" /\ worker' = "looking"
      BY <1>2, <3>2 DEF IndirectTypeOK
    <3> QED BY <1>3, <3>1, <3>2
  <2> QED BY <1>1, <2>1, <2>2, <2>3 DEF IndirectTypeOK
<1>8. RunningIsTaken'
  BY <1>2, <1>3 DEF RunningIsTaken
<1>9. LightPreparedOnce'
  BY <1>1, <1>2, <1>5, <1>6 DEF LightPreparedOnce, Wanted
<1> QED BY <1>7, <1>8, <1>9

(* The address of a new allocation is none of those still held. *)
LEMMA ResetRenews ==
    ASSUME SlotInv, reset
    PROVE  generation' \in Generations /\ generation' # generation
<1> DEFINE held == {generation} \cup {j.generation : j \in running \cup job}
<1>1. \A j \in running \cup job : j \in Jobs /\ j.generation \in Generations
  BY SlotsHold DEF SlotInv, Jobs
<1>2. \A i, j \in running \cup job : i = j
  BY SlotsHold DEF SlotInv, RunningIsTaken
<1>3. \E b \in Generations : \A j \in running \cup job : j.generation = b
  <2>1. CASE running \cup job = {}
    BY <2>1, GenerationsAssumption DEF GenerationsAssumption
  <2>2. CASE running \cup job # {}
    <3>1. PICK i \in running \cup job : TRUE
      BY <2>2
    <3> QED BY <3>1, <1>1, <1>2
  <2> QED BY <2>1, <2>2
<1>4. PICK b \in Generations : held \subseteq {generation, b}
  BY <1>3
<1>5. Generations \ {generation, b} # {}
  BY <1>4, GenerationsAssumption DEF GenerationsAssumption, SlotInv, IndirectTypeOK
<1>6. generation' = CHOOSE g \in Generations \ held : TRUE
  BY DEF reset
<1>7. generation \in held
  OBVIOUS
<1>8. Generations \ held # {}
  BY <1>4, <1>5
<1> HIDE DEF held
<1> QED BY <1>6, <1>7, <1>8

(* The other operations of the owner. *)
LEMMA OwnerKeeps ==
    ASSUME SlotInv, Owner
    PROVE  SlotInv'
<1> USE DEF SlotInv
<1>1. ASSUME NEW key \in Keys, request(key) PROVE SlotInv'
  BY <1>1, RequestKeeps
<1>2. ASSUME NEW key \in Keys, poll(key) PROVE SlotInv'
  BY <1>2, OptionMade DEF poll, IndirectTypeOK, RunningIsTaken, LightPreparedOnce, Wanted
<1>3. CASE reset
  <2>1. generation' \in Generations
    BY <1>3, ResetRenews
  <2> QED BY <1>3, <2>1, OptionMade
           DEF reset, IndirectTypeOK, RunningIsTaken, LightPreparedOnce
<1>4. CASE drop
  <2>7. IndirectTypeOK'
    <3>1. /\ generation' \in Generations /\ requested' \in Option(Keys)
          /\ pending' \in Option(Jobs) /\ running' \in Option(Jobs)
          /\ result' \in Option(Jobs) /\ job' \in Option(Jobs) /\ shutdown' \in BOOLEAN
      BY <1>4, Emptied DEF drop, Wake, IndirectTypeOK
    <3>2. /\ worker' \in {"looking", "asleep", "slicing", "sliced", "sliced last", "done",
                          "dying", "exited"}
          /\ job' # {} <=> worker' \in {"slicing", "sliced", "sliced last", "done"}
      BY <1>4 DEF drop, Wake, IndirectTypeOK
    <3> QED BY <3>1, <3>2 DEF IndirectTypeOK
  <2>8. RunningIsTaken'
    BY <1>4, OptionMade DEF drop, Wake, IndirectTypeOK, RunningIsTaken
  <2>9. LightPreparedOnce'
    BY <1>4, OptionMade DEF drop, Wake, IndirectTypeOK, LightPreparedOnce, RunningIsTaken, Wanted
  <2> QED BY <2>7, <2>8, <2>9
<1> QED BY <1>1, <1>2, <1>3, <1>4 DEF Owner

(* The worker: adopting moves a job on, retiring and failing only take      *)
(* away, and finishing buffers what was running.                            *)
LEMMA WorkerKeeps ==
    ASSUME SlotInv, WorkerRuns \/ fail \/ worker_panic
    PROVE  SlotInv'
<1> USE DEF SlotInv
<1>1. CASE adopt_job
  BY <1>1, OptionMade
     DEF adopt_job, IndirectTypeOK, RunningIsTaken, LightPreparedOnce, Wanted
<1>2. CASE worker_exit \/ worker_wait
  <2>1. running' = {}
    BY <1>2, Retired DEF worker_exit, worker_wait, RunningIsTaken
  <2>7. IndirectTypeOK'
    <3>1. /\ generation' \in Generations /\ requested' \in Option(Keys)
          /\ pending' \in Option(Jobs) /\ running' \in Option(Jobs)
          /\ result' \in Option(Jobs) /\ job' \in Option(Jobs) /\ shutdown' \in BOOLEAN
      BY <1>2, <2>1, Emptied DEF worker_exit, worker_wait, IndirectTypeOK
    <3>2. /\ worker' \in {"looking", "asleep", "slicing", "sliced", "sliced last", "done",
                          "dying", "exited"}
          /\ job' # {} <=> worker' \in {"slicing", "sliced", "sliced last", "done"}
      BY <1>2, <2>1 DEF worker_exit, worker_wait, IndirectTypeOK
    <3> QED BY <3>1, <3>2 DEF IndirectTypeOK
  <2>8. RunningIsTaken'
    BY <1>2, <2>1, OptionMade DEF worker_exit, worker_wait, IndirectTypeOK, RunningIsTaken
  <2>9. LightPreparedOnce'
    BY <1>2, <2>1, OptionMade DEF worker_exit, worker_wait, IndirectTypeOK, LightPreparedOnce, RunningIsTaken, Wanted
  <2> QED BY <2>7, <2>8, <2>9
<1>3. CASE slice(TRUE) \/ slice(FALSE) \/ fail
  BY <1>3 DEF slice, fail, queueVars, IndirectTypeOK, RunningIsTaken, LightPreparedOnce, Wanted
<1>4. CASE between
  <2>1. running' \in {running, {}}
    BY <1>4, Retired DEF between
  <2>2. CASE running' # running
    <3>1. running' = {} /\ job' = {} /\ worker' \in {"looking", "exited"}
      BY <1>4, <2>1, <2>2 DEF between
    <3>7. IndirectTypeOK'
      <4>1. /\ generation' \in Generations /\ requested' \in Option(Keys)
            /\ pending' \in Option(Jobs) /\ running' \in Option(Jobs)
            /\ result' \in Option(Jobs) /\ job' \in Option(Jobs) /\ shutdown' \in BOOLEAN
        BY <1>4, <3>1, Emptied DEF between, IndirectTypeOK
      <4>2. /\ worker' \in {"looking", "asleep", "slicing", "sliced", "sliced last", "done",
                            "dying", "exited"}
            /\ job' # {} <=> worker' \in {"slicing", "sliced", "sliced last", "done"}
        BY <1>4, <3>1 DEF between, IndirectTypeOK
      <4> QED BY <4>1, <4>2 DEF IndirectTypeOK
    <3>8. RunningIsTaken'
      BY <1>4, <3>1, OptionMade DEF between, IndirectTypeOK, RunningIsTaken
    <3>9. LightPreparedOnce'
      BY <1>4, <3>1, OptionMade DEF between, IndirectTypeOK, LightPreparedOnce, RunningIsTaken, Wanted
    <3> QED BY <3>7, <3>8, <3>9
  <2>3. CASE running' = running
    BY <1>4, <2>3
       DEF between, IndirectTypeOK, RunningIsTaken, LightPreparedOnce, Wanted
  <2> QED BY <2>2, <2>3
<1>5. CASE finish_job
  <2>1. result' \in {result, running} /\ running = job
    BY <1>5 DEF finish_job, Buffered, IndirectTypeOK, RunningIsTaken
  <2> QED BY <1>5, <2>1, OptionMade
           DEF finish_job, IndirectTypeOK, RunningIsTaken, LightPreparedOnce, Wanted
<1>6. CASE worker_panic \/ worker_gone
  <2>7. IndirectTypeOK'
    <3>1. /\ generation' \in Generations /\ requested' \in Option(Keys)
          /\ pending' \in Option(Jobs) /\ running' \in Option(Jobs)
          /\ result' \in Option(Jobs) /\ job' \in Option(Jobs) /\ shutdown' \in BOOLEAN
      BY <1>6, Emptied DEF worker_panic, worker_gone, queueVars, IndirectTypeOK
    <3>2. /\ worker' \in {"looking", "asleep", "slicing", "sliced", "sliced last", "done",
                          "dying", "exited"}
          /\ job' # {} <=> worker' \in {"slicing", "sliced", "sliced last", "done"}
      BY <1>6 DEF worker_panic, worker_gone, queueVars, IndirectTypeOK
    <3> QED BY <3>1, <3>2 DEF IndirectTypeOK
  <2>8. RunningIsTaken'
    BY <1>6, OptionMade DEF worker_panic, worker_gone, queueVars, IndirectTypeOK, RunningIsTaken
  <2>9. LightPreparedOnce'
    BY <1>6, OptionMade DEF worker_panic, worker_gone, queueVars, IndirectTypeOK, LightPreparedOnce, RunningIsTaken, Wanted
  <2> QED BY <2>7, <2>8, <2>9
<1> QED BY <1>1, <1>2, <1>3, <1>4, <1>5, <1>6 DEF WorkerRuns

(* The slots are in order at the start. *)
LEMMA SlotInvInitially == Init => SlotInv
<1> SUFFICES ASSUME Init PROVE SlotInv
  OBVIOUS
<1>1. generation \in Generations
  BY GenerationsAssumption DEF GenerationsAssumption, Init
<1>2. /\ requested \in Option(Keys) /\ pending \in Option(Jobs) /\ running \in Option(Jobs)
      /\ result \in Option(Jobs) /\ job \in Option(Jobs) /\ shutdown \in BOOLEAN
  BY Emptied DEF Init
<1>3. /\ worker \in {"looking", "asleep", "slicing", "sliced", "sliced last", "done",
                     "dying", "exited"}
      /\ job # {} <=> worker \in {"slicing", "sliced", "sliced last", "done"}
  BY DEF Init
<1>4. IndirectTypeOK
  BY <1>1, <1>2, <1>3 DEF IndirectTypeOK
<1> QED BY <1>4 DEF Init, SlotInv, RunningIsTaken, LightPreparedOnce

(* Every step of the owner or of the thread keeps the slots in order.       *)
LEMMA SlotInvStep == SlotInv /\ [Next]_vars => SlotInv'
<1> SUFFICES ASSUME SlotInv, [Next]_vars PROVE SlotInv'
  OBVIOUS
<1>1. CASE UNCHANGED vars
  BY <1>1 DEF vars, queueVars, SlotInv, IndirectTypeOK, RunningIsTaken, LightPreparedOnce, Wanted
<1>2. CASE Next
  BY <1>2, OwnerKeeps, WorkerKeeps DEF Next
<1> QED BY <1>1, <1>2

(* The slots are in order throughout every execution.                       *)
LEMMA SlotInvAlways == Spec => []SlotInv
<1>1. Init => SlotInv
  BY SlotInvInitially
<1>2. SlotInv /\ [Next]_vars => SlotInv'
  BY SlotInvStep
<1> QED BY <1>1, <1>2, PTL DEF Spec

(* Every variable of the indirect-light controller keeps its type, and the  *)
(* thread holds a job exactly while it works on one.                        *)
THEOREM LightTypeCorrect == Spec => []IndirectTypeOK
BY SlotInvAlways, PTL DEF SlotInv

(* No source is prepared twice while its preparation is pending, running or *)
(* buffered, and what is pending is what was asked for last.                *)
THEOREM LightPreparedOnceAlways == Spec => []LightPreparedOnce
BY SlotInvAlways, PTL DEF SlotInv
-----------------------------------------------------------------------------
(* The promise. *)

(* The terms that stand for owed and ready in the promise. *)
Owed == Serving /\ \E j \in pending \cup running : Wanted(j)
Ready == {<<r.key, r.generation>> : r \in result}

(* What the promise is about stays as it is. *)
SameToTheOwner ==
    /\ UNCHANGED <<requested, generation, Ready>>
    /\ Owed' <=> Owed
    /\ Serving' <=> Serving

(* Two truth values that imply each other are equal. *)
LEMMA Equivalent == \A a, b \in BOOLEAN : (a <=> b) => a = b
OBVIOUS

(* The terms of the promise are truth values. *)
LEMMA TruthValues == /\ Owed \in BOOLEAN /\ Serving \in BOOLEAN
                     /\ Owed' \in BOOLEAN /\ Serving' \in BOOLEAN
BY DEF Owed, Serving

(* A step that the owner cannot tell is a stutter of the promise. *)
LEMMA Stutters == SameToTheOwner => UNCHANGED Promise!vars
<1> SUFFICES ASSUME SameToTheOwner PROVE UNCHANGED Promise!vars
  OBVIOUS
<1>1. Owed' = Owed /\ Serving' = Serving
  BY TruthValues, Equivalent DEF SameToTheOwner
<1> QED BY <1>1 DEF SameToTheOwner, Promise!vars, Owed, Ready

(* Asking for a source owes one preparation, unless it is buffered. *)
LEMMA RequestWants ==
    ASSUME SlotInv, NEW key \in Keys, request(key)
    PROVE  Promise!Want(key)
<1> DEFINE this == [key |-> key, generation |-> generation]
<1>1. /\ requested' = {key}
      /\ UNCHANGED <<generation, running, result, shutdown>>
  BY DEF request, enqueue_request
<1>2. Serving' <=> Serving
  BY DEF request, enqueue_request, Wake, Serving, available
<1>3. \A j \in Jobs : Wanted(j)' <=> j = this
  BY <1>1 DEF Wanted, Jobs
<1>4. \A j \in pending \cup running \cup result : j \in Jobs
  BY SlotsHold DEF SlotInv
<1>5. Ready # {<<key, generation>>} <=> this \notin result
  <2>1. CASE result = {}
    BY <2>1 DEF Ready
  <2>2. CASE result # {}
    <3>1. PICK r \in result : result = {r} /\ r \in Jobs
      BY <2>2, SlotsHold DEF SlotInv
    <3>2. Ready = {<<r.key, r.generation>>}
      BY <3>1 DEF Ready
    <3>3. CASE r.key = key /\ r.generation = generation
      BY <3>1, <3>2, <3>3 DEF Jobs
    <3>4. CASE ~(r.key = key /\ r.generation = generation)
      <4>1. this # r
        BY <3>4
      <4>2. this \notin result
        BY <3>1, <4>1
      <4>3. <<r.key, r.generation>> # <<key, generation>>
        BY <3>4
      <4>4. <<r.key, r.generation>> \in Ready
        BY <3>2
      <4>5. Ready # {<<key, generation>>}
        BY <4>3, <4>4
      <4> QED BY <4>2, <4>5
    <3> QED BY <3>3, <3>4
  <2> QED BY <2>1, <2>2
<1>6. this \in pending' \cup running <=> this \notin result
  <2>1. CASE \E j \in pending : j.key = key
    <3>1. PICK j \in pending : j.key = key
      BY <2>1
    <3>2. j = this
      BY <1>4, <3>1 DEF SlotInv, LightPreparedOnce, Wanted, Jobs
    <3> QED BY <2>1, <3>2 DEF request, enqueue_request, SlotInv, LightPreparedOnce
  <2>2. CASE ~\E j \in pending : j.key = key
    BY <2>2 DEF request, enqueue_request, SlotInv, LightPreparedOnce
  <2> QED BY <2>1, <2>2
<1>7. \A j \in pending' \cup running : j \in Jobs
  <2>1. \A j \in pending' : j \in pending \/ j = this
    BY DEF request, enqueue_request
  <2>2. this \in Jobs
    BY DEF SlotInv, IndirectTypeOK, Jobs
  <2> QED BY <1>4, <2>1, <2>2
<1>8. Owed' <=> Serving /\ Ready # {<<key, generation>>}
  <2>1. (\E j \in pending' \cup running' : Wanted(j)') <=> this \in pending' \cup running
    BY <1>1, <1>3, <1>7
  <2> QED BY <2>1, <1>2, <1>5, <1>6 DEF Owed
<1>9. Owed' = (Serving /\ Ready # {<<key, generation>>}) /\ Serving' = Serving
  BY <1>2, <1>8, TruthValues, Equivalent
<1> QED BY <1>1, <1>9 DEF Promise!Want, Owed, Ready

(* Taking what is buffered delivers it. *)
LEMMA PollDelivers ==
    ASSUME SlotInv, NEW key \in Keys, poll(key)
    PROVE  Promise!Deliver(key)
<1>1. PICK r \in result : Wanted(r) /\ r.key = key
  BY DEF poll
<1>2. result = {r}
  BY <1>1, SlotsHold DEF SlotInv
<1>3. requested = {key} /\ Ready = {<<key, generation>>}
  BY <1>1, <1>2 DEF Wanted, Ready
<1>4. Ready' = {}
  BY DEF poll, Ready
<1>5. (Owed' <=> Owed) /\ (Serving' <=> Serving)
  BY DEF poll, Owed, Serving, available, Wanted
<1>6. Owed' = Owed /\ Serving' = Serving
  BY <1>5, TruthValues, Equivalent
<1>7. UNCHANGED <<requested, generation>>
  BY DEF poll
<1> QED BY <1>3, <1>4, <1>6, <1>7 DEF Promise!Deliver, Owed, Ready
(* A reset forgets; a thread still busy with the old source owes nothing.   *)
LEMMA ResetForgets ==
    ASSUME SlotInv, SlotInv', reset
    PROVE  Promise!Forget
<1>1. requested' = {} /\ Ready' = {} /\ ~Owed'
  BY DEF reset, Ready, Owed, Wanted
<1>2. Serving' <=> Serving
  BY DEF reset, Serving, available
<1>3. Owed' = FALSE /\ Serving' = Serving
  BY <1>1, <1>2, TruthValues, Equivalent
<1>4. generation' \in Generations \ {generation}
  <2>1. generation' \in Generations
    BY DEF SlotInv, IndirectTypeOK
  <2>2. generation' # generation
    BY ResetRenews
  <2> QED BY <2>1, <2>2
<1> QED BY <1>1, <1>3, <1>4 DEF Promise!Forget, Owed, Ready

(* A step that ends the service stops it; afterwards nothing is owed.       *)
LEMMA Stopping ==
    ASSUME UNCHANGED <<requested, generation, Ready>>, ~Serving'
    PROVE  Promise!Stop \/ UNCHANGED Promise!vars
<1>1. CASE Serving
  <2>1. Owed' = FALSE /\ Serving' = FALSE
    BY TruthValues, Equivalent DEF Owed
  <2> QED BY <1>1, <2>1 DEF Promise!Stop, Owed, Ready
<1>2. CASE ~Serving
  <2>1. SameToTheOwner
    BY <1>2 DEF SameToTheOwner, Owed
  <2> QED BY <2>1, Stutters
<1> QED BY <1>1, <1>2

(* The result that is buffered is the preparation that was owed; one that   *)
(* is stale by then is dropped, which the owner cannot tell.                *)
LEMMA FinishPrepares ==
    ASSUME SlotInv, finish_job
    PROVE  Promise!Prepare \/ UNCHANGED Promise!vars
<1>1. /\ worker = "done" /\ worker' = "looking" /\ running' = {} /\ result' = Buffered
      /\ UNCHANGED <<generation, requested, pending, shutdown>>
  BY DEF finish_job
<1>2. PICK j \in job : job = {j} /\ running = {j} /\ j \in Jobs
  BY <1>1, SlotsHold DEF SlotInv, IndirectTypeOK, RunningIsTaken
<1>3. Serving' <=> Serving
  BY <1>1 DEF Serving, available
<1>4. \A i : Wanted(i)' <=> Wanted(i)
  BY <1>1 DEF Wanted
<1>5. CASE Stale(j)
  <2>1. Ready' = Ready
    BY <1>1, <1>2, <1>5 DEF Buffered, Ready
  <2>2. Owed' <=> Owed
    BY <1>1, <1>2, <1>3, <1>4, <1>5 DEF Owed, Stale, Serving
  <2> QED BY <1>1, <1>3, <2>1, <2>2, Stutters DEF SameToTheOwner
<1>6. CASE ~Stale(j)
  <2>1. Wanted(j) /\ Serving
    BY <1>1, <1>6 DEF Stale, Serving, available
  <2>2. result' = {j}
    BY <1>1, <1>2, <1>6 DEF Buffered
  <2>3. Ready' = requested \X {generation}
    <3>1. Ready' = {<<j.key, j.generation>>}
      BY <2>2 DEF Ready
    <3> QED BY <2>1, <3>1 DEF Wanted
  <2>4. Owed
    BY <1>2, <2>1 DEF Owed
  <2>5. ~Owed'
    <3>1. \A i \in pending : i = j
      <4> SUFFICES ASSUME NEW i \in pending PROVE i = j
        OBVIOUS
      <4>1. i \in Jobs /\ Wanted(i)
        BY SlotsHold DEF SlotInv, LightPreparedOnce
      <4> QED BY <4>1, <1>2, <2>1 DEF Wanted, Jobs
    <3>2. pending = {}
      BY <3>1, <1>2 DEF SlotInv, LightPreparedOnce
    <3> QED BY <1>1, <3>2 DEF Owed
  <2>6. Owed' = FALSE /\ Serving' = Serving
    BY <1>3, <2>5, TruthValues, Equivalent
  <2> QED BY <1>1, <2>1, <2>3, <2>4, <2>6 DEF Promise!Prepare, Owed, Ready
<1> QED BY <1>5, <1>6

(* Giving up between two slices takes away only what is not owed.           *)
LEMMA BetweenStutters ==
    ASSUME SlotInv, between
    PROVE  UNCHANGED Promise!vars
<1>1. /\ worker \in {"sliced", "sliced last"} /\ Retire
      /\ UNCHANGED <<generation, requested, pending, result, shutdown>>
  BY DEF between
<1>2. worker' = "exited" => shutdown
  BY DEF between
<1>3. worker' # "dying"
  BY DEF between
<1>4. Serving' <=> Serving
  BY <1>1, <1>2, <1>3 DEF Serving, available
<1>5. \A i : Wanted(i)' <=> Wanted(i)
  BY <1>1 DEF Wanted
<1>6. Serving => \A j \in running : j \in running' <=> Wanted(j)
  BY <1>1 DEF Retire, Stale, Serving
<1>7. running' \subseteq running
  BY <1>1 DEF Retire
<1>8. Owed' <=> Owed
  BY <1>1, <1>4, <1>5, <1>6, <1>7 DEF Owed
<1> QED BY <1>1, <1>4, <1>8, Stutters DEF SameToTheOwner, Ready

(* The rest of the thread's steps leave the promise alone or end it.        *)
LEMMA WorkerServes ==
    ASSUME SlotInv, WorkerRuns \/ fail \/ worker_panic
    PROVE  [Promise!Next]_(Promise!vars)
<1>1. CASE adopt_job
  <2>1. running = {}
    BY <1>1 DEF adopt_job, SlotInv, RunningIsTaken
  <2>2. Owed' <=> Owed
    BY <1>1, <2>1 DEF adopt_job, Owed, Serving, available, Wanted
  <2> QED BY <1>1, <2>2, Stutters DEF adopt_job, SameToTheOwner, Serving, available, Ready
<1>2. CASE worker_exit
  BY <1>2, Stopping DEF worker_exit, Serving, Ready, Promise!Next
<1>3. CASE worker_wait
  <2>1. running = {} /\ running' = {}
    BY <1>3, Retired DEF worker_wait, SlotInv, RunningIsTaken
  <2>2. Owed' <=> Owed
    BY <1>3, <2>1 DEF worker_wait, Owed, Serving, available, Wanted
  <2> QED BY <1>3, <2>2, Stutters DEF worker_wait, SameToTheOwner, Serving, available, Ready
<1>4. CASE slice(TRUE) \/ slice(FALSE) \/ fail
  <2>1. UNCHANGED <<generation, requested, pending, running, result, shutdown>>
    BY <1>4 DEF slice, fail, queueVars
  <2>2. worker = "slicing" /\ worker' \in {"sliced", "sliced last", "done"}
    BY <1>4 DEF slice, fail
  <2>3. Serving' <=> Serving
    BY <2>1, <2>2 DEF Serving, available
  <2>4. Owed' <=> Owed
    BY <2>1, <2>3 DEF Owed, Wanted
  <2> QED BY <2>1, <2>3, <2>4, Stutters DEF SameToTheOwner, Ready
<1>5. CASE between
  BY <1>5, BetweenStutters
<1>6. CASE finish_job
  BY <1>6, FinishPrepares DEF Promise!Next
<1>7. CASE worker_panic \/ worker_gone
  BY <1>7, Stopping DEF worker_panic, worker_gone, queueVars, Serving, available, Ready, Promise!Next
<1> QED BY <1>1, <1>2, <1>3, <1>4, <1>5, <1>6, <1>7 DEF WorkerRuns

(* Every step of the slots is one of the promise, or none that shows.       *)
LEMMA StepServes == SlotInv /\ SlotInv' /\ [Next]_vars => [Promise!Next]_(Promise!vars)
<1> SUFFICES ASSUME SlotInv, SlotInv', [Next]_vars PROVE [Promise!Next]_(Promise!vars)
  OBVIOUS
<1>1. ASSUME NEW key \in Keys, request(key) PROVE Promise!Next
  BY <1>1, RequestWants DEF Promise!Next
<1>2. ASSUME NEW key \in Keys, poll(key) PROVE Promise!Next
  BY <1>2, PollDelivers DEF Promise!Next
<1>3. CASE reset
  BY <1>3, ResetForgets DEF Promise!Next
<1>4. CASE drop
  BY <1>4, Stopping DEF drop, Serving, Ready, Promise!Next
<1>5. CASE WorkerRuns \/ fail \/ worker_panic
  BY <1>5, WorkerServes
<1>6. CASE UNCHANGED vars
  <2>1. SameToTheOwner
    BY <1>6 DEF vars, queueVars, SameToTheOwner, Owed, Serving, available, Wanted, Ready
  <2> QED BY <2>1, Stutters
<1> QED BY <1>1, <1>2, <1>3, <1>4, <1>5, <1>6 DEF Next, Owner

(* For any sources, and any supply of addresses, the controller of the      *)
(* indirect light implements the promise: only what was wanted last is      *)
(* delivered, prepared once, and a reset forgets everything.                *)
THEOREM LightKeepsPromise == Spec => KeepsPromise
<1>1. Init => Promise!Init
  <2> SUFFICES ASSUME Init PROVE Promise!Init
    OBVIOUS
  <2>1. generation \in Generations
    BY SlotInvInitially DEF SlotInv, IndirectTypeOK
  <2>2. requested = {} /\ Ready = {} /\ ~Owed
    BY DEF Init, Ready, Owed
  <2>3. Owed = FALSE
    BY <2>2, TruthValues, Equivalent
  <2> QED BY <2>1, <2>2, <2>3, TruthValues DEF Promise!Init, Owed, Ready
<1>2. SlotInv /\ SlotInv' /\ [Next]_vars => [Promise!Next]_(Promise!vars)
  BY StepServes
<1> QED BY <1>1, <1>2, SlotInvAlways, PTL DEF Spec, KeepsPromise, Promise!Safety
=============================================================================
