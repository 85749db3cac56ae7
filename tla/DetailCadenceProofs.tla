------------------------ MODULE DetailCadenceProofs ------------------------
(***************************************************************************)
(* First the slots of AsyncDetail: one preparation for one version, and    *)
(* the promise the slots implement, for any scenes and any supply of       *)
(* addresses that does not run out.                                        *)
(*                                                                         *)
(* Then the cadence over them: nothing becomes solid through a body, and   *)
(* scene, save and live collision agree again after every rollback, for    *)
(* any row of cells, any colliders, any budget and any limit of the gate.  *)
(***************************************************************************)
EXTENDS DetailCadence, TLAPS

SlotsTyped ==
    /\ epoch \in Epochs /\ requested \in Option(Versions)
    /\ pending \in Option(Jobs) /\ running \in Option(Jobs) /\ result \in Option(Jobs)
    /\ shutdown \in BOOLEAN /\ paused \in BOOLEAN
    /\ worker \in {"checking", "asleep", "running", "dying", "exited"}

(* Jobs of one version and epoch, whatever their source is said to be.     *)
Same(i, j) == i.scene.version = j.scene.version /\ i.epoch = j.epoch

OneForEach ==
    /\ \A j \in pending : requested = {j.scene.version} /\ j.epoch = epoch
    /\ \A i \in pending, j \in running \cup result : ~Same(i, j)
    /\ \A i \in running, j \in result : ~Same(i, j)

(* A thread that looks for work has none.                                  *)
NoneTaken == worker \in {"checking", "asleep"} => running = {}

SlotInv == SlotsTyped /\ OneForEach /\ NoneTaken

-----------------------------------------------------------------------------
LEMMA OptionCases ==
    ASSUME NEW S, NEW s \in Option(S)
    PROVE  /\ \A x \in s : x \in S /\ s = {x}
           /\ \A t \in SUBSET s : t \in Option(S)
BY DEF Option

LEMMA OptionMade ==
    ASSUME NEW S
    PROVE  {} \in Option(S) /\ \A x \in S : {x} \in Option(S)
BY DEF Option

LEMMA SlotsHold ==
    ASSUME SlotsTyped
    PROVE  /\ \A v \in requested : v \in Versions /\ requested = {v}
           /\ \A j \in pending : j \in Jobs /\ pending = {j}
           /\ \A j \in running : j \in Jobs /\ running = {j}
           /\ \A j \in result : j \in Jobs /\ result = {j}
<1>1. /\ pending \in Option(Jobs) /\ running \in Option(Jobs)
      /\ result \in Option(Jobs) /\ requested \in Option(Versions)
  BY DEF SlotsTyped
<1> QED BY <1>1, OptionCases

LEMMA JobsAre ==
    ASSUME NEW j \in Jobs
    PROVE  /\ j.scene \in Scenes /\ j.epoch \in Epochs
           /\ j.scene.version \in Versions /\ j.scene.source \in Sources
BY DEF Jobs, Scenes

LEMMA SlotsInitially == SlotInit => SlotInv
<1> SUFFICES ASSUME SlotInit PROVE SlotInv
  OBVIOUS
<1>1. epoch \in Epochs BY AddressesAssumption DEF SlotInit
<1>2. {} \in Option(Versions) /\ {} \in Option(Jobs) BY OptionMade
<1>3. SlotsTyped BY <1>1, <1>2 DEF SlotInit, SlotsTyped
<1> QED BY <1>3 DEF SlotInit, SlotInv, OneForEach, NoneTaken

(* Asking for a version keeps the slots in order, whichever slot serves it, *)
(* and whether or not the result is taken in the same breath.              *)
LEMMA EnqueueKeeps ==
    ASSUME SlotInv, NEW s \in Scenes, enqueue_request(s), result' \in {result, {}},
           UNCHANGED <<epoch, running, shutdown, paused>>
    PROVE  SlotInv'
<1> DEFINE this == [scene |-> s, epoch |-> epoch]
<1>1. /\ this \in Jobs /\ this.scene = s /\ this.epoch = epoch /\ s.version \in Versions
  BY DEF SlotInv, SlotsTyped, Jobs, Scenes
<1>2. requested' = {s.version} BY DEF enqueue_request
<1>3. worker' = worker \/ (worker = "asleep" /\ worker' = "checking")
  BY Zenon DEF enqueue_request, Wake
<1>4. \/ pending' = pending /\ \E j \in pending : j.scene.version = s.version
      \/ pending' = {}
      \/ /\ pending' = {this}
         /\ \A j \in running \cup result : ~(j.epoch = epoch /\ j.scene.version = s.version)
  BY DEF enqueue_request
<1> HIDE DEF this
<1>5. SlotsTyped'
  <2>1. pending' \in Option(Jobs)
    <3>1. pending \in Option(Jobs) BY DEF SlotInv, SlotsTyped
    <3>2. {} \in Option(Jobs) /\ {this} \in Option(Jobs) BY <1>1, OptionMade
    <3>3. pending' \in {pending, {}, {this}} BY <1>4
    <3> QED BY <3>1, <3>2, <3>3
  <2>2. result' \in Option(Jobs)
    <3>1. result \in Option(Jobs) /\ {} \in Option(Jobs)
      BY OptionMade DEF SlotInv, SlotsTyped
    <3> QED BY <3>1
  <2>3. requested' \in Option(Versions) BY <1>1, <1>2, OptionMade
  <2>4. worker' \in {"checking", "asleep", "running", "dying", "exited"}
    <3>1. worker \in {"checking", "asleep", "running", "dying", "exited"}
      BY DEF SlotInv, SlotsTyped
    <3> QED BY <1>3, <3>1
  <2> QED BY <2>1, <2>2, <2>3, <2>4 DEF SlotInv, SlotsTyped
<1>6. OneForEach'
  <2>1. \A i \in running, j \in result : ~Same(i, j) BY DEF SlotInv, OneForEach
  <2>2. CASE pending' = pending /\ \E j \in pending : j.scene.version = s.version
    <3>1. PICK j \in pending : j.scene.version = s.version BY <2>2
    <3>2. pending = {j} /\ requested' = {j.scene.version} /\ j.epoch = epoch
      BY <1>2, <3>1, SlotsHold DEF SlotInv, OneForEach
    <3> QED BY <2>1, <2>2, <3>2 DEF SlotInv, OneForEach, Same
  <2>3. CASE pending' = {}
    BY <2>1, <2>3 DEF OneForEach, Same
  <2>4. CASE /\ pending' = {this}
             /\ \A j \in running \cup result :
                   ~(j.epoch = epoch /\ j.scene.version = s.version)
    BY <1>1, <1>2, <2>1, <2>4 DEF OneForEach, Same
  <2> QED BY <1>4, <2>2, <2>3, <2>4
<1>7. NoneTaken' BY <1>3 DEF SlotInv, NoneTaken
<1> QED BY <1>5, <1>6, <1>7 DEF SlotInv

(* Taking the result.                                                      *)
LEMMA TakenKeeps ==
    ASSUME SlotInv, result' \in {result, {}},
           UNCHANGED <<epoch, requested, pending, running, shutdown, paused, worker>>
    PROVE  SlotInv'
<1>1. result' \in Option(Jobs) BY OptionMade DEF SlotInv, SlotsTyped
<1> QED BY <1>1 DEF SlotInv, SlotsTyped, OneForEach, NoneTaken, Same

(* The new epoch is not the one of before, nor that of the job under way.   *)
LEMMA ResetRenews ==
    ASSUME SlotInv, reset
    PROVE  epoch' \in Epochs /\ epoch' # epoch
<1> DEFINE held == {epoch} \cup {j.epoch : j \in running}
<1>1. \E b \in Epochs : held \subseteq {epoch, b}
  <2>1. CASE running = {}
    BY <2>1, AddressesAssumption
  <2>2. CASE running # {}
    <3>1. PICK j \in running : running = {j} /\ j \in Jobs
      BY <2>2, SlotsHold DEF SlotInv
    <3> QED BY <3>1, JobsAre
  <2> QED BY <2>1, <2>2
<1>2. PICK b \in Epochs : held \subseteq {epoch, b} BY <1>1
<1>3. epoch \in Epochs BY DEF SlotInv, SlotsTyped
<1>4. Epochs \ {epoch, b} # {} BY <1>3, AddressesAssumption
<1>5. Epochs \ held # {} BY <1>2, <1>4
<1>6. epoch' = CHOOSE e \in Epochs \ held : TRUE BY DEF reset, cancel
<1>7. epoch \in held OBVIOUS
<1> HIDE DEF held
<1> QED BY <1>5, <1>6, <1>7

(* The other operations of the owner.                                      *)
LEMMA OwnerKeeps ==
    ASSUME SlotInv, reset \/ pause \/ resume \/ drop
    PROVE  SlotInv'
<1>1. {} \in Option(Versions) /\ {} \in Option(Jobs) BY OptionMade
<1>2. CASE reset
  <2>1. epoch' \in Epochs BY <1>2, ResetRenews
  <2>2. /\ requested' = {} /\ pending' = {} /\ result' = {}
        /\ UNCHANGED <<running, shutdown, paused, worker>>
    BY <1>2 DEF reset, cancel
  <2> QED BY <1>1, <2>1, <2>2 DEF SlotInv, SlotsTyped, OneForEach, NoneTaken
<1>3. CASE pause
  BY <1>3 DEF pause, queueVars, SlotInv, SlotsTyped, OneForEach, NoneTaken, Same
<1>4. CASE resume \/ drop
  <2>1. worker' = worker \/ (worker = "asleep" /\ worker' = "checking")
    BY <1>4, Zenon DEF resume, drop, Wake
  <2>2. /\ UNCHANGED <<epoch, requested, running, result>>
        /\ pending' \in {pending, {}} /\ paused' \in {paused, FALSE}
        /\ shutdown' \in {shutdown, TRUE}
    BY <1>4 DEF resume, drop, queueVars
  <2>3. SlotsTyped'
    <3>1. worker' \in {"checking", "asleep", "running", "dying", "exited"}
      BY <2>1 DEF SlotInv, SlotsTyped
    <3>2. pending' \in Option(Jobs) BY <1>1, <2>2 DEF SlotInv, SlotsTyped
    <3> QED BY <2>2, <3>1, <3>2 DEF SlotInv, SlotsTyped
  <2>4. OneForEach' BY <2>2 DEF SlotInv, OneForEach, Same
  <2>5. NoneTaken' BY <2>1, <2>2 DEF SlotInv, NoneTaken
  <2> QED BY <2>3, <2>4, <2>5 DEF SlotInv
<1> QED BY <1>2, <1>3, <1>4

(* The thread: beginning moves a job on, finishing buffers or drops it.     *)
LEMMA WorkerKeeps ==
    ASSUME SlotInv, DetailWorker
    PROVE  SlotInv'
<1>1. {} \in Option(Jobs) BY OptionMade
<1>2. CASE begin_job
  <2>1. /\ running' = pending /\ pending' = {} /\ worker' = "running"
        /\ UNCHANGED <<epoch, requested, result, shutdown, paused>>
    BY <1>2 DEF begin_job
  <2> QED BY <1>1, <2>1 DEF SlotInv, SlotsTyped, OneForEach, NoneTaken, Same
<1>3. CASE finish_job
  <2>1. /\ running' = {} /\ worker' = "checking"
        /\ UNCHANGED <<epoch, requested, pending, shutdown, paused>>
    BY <1>3 DEF finish_job
  <2>2. result' \in {result, running}
    <3>1. PICK job \in running : result' = IF Stale(job) THEN result ELSE {job}
      BY <1>3 DEF finish_job
    <3> QED BY <3>1, SlotsHold DEF SlotInv
  <2> QED BY <1>1, <2>1, <2>2 DEF SlotInv, SlotsTyped, OneForEach, NoneTaken, Same
<1>4. CASE worker_wait \/ worker_exit \/ worker_gone \/ worker_panic
  <2>1. /\ UNCHANGED <<queueVars, shutdown, paused>>
        /\ worker' \in {"asleep", "exited", "dying"}
        /\ worker' = "asleep" => worker = "checking"
    BY <1>4 DEF worker_wait, worker_exit, worker_gone, worker_panic
  <2> QED BY <2>1 DEF queueVars, SlotInv, SlotsTyped, OneForEach, NoneTaken, Same
<1> QED BY <1>2, <1>3, <1>4 DEF DetailWorker, WorkerRuns

-----------------------------------------------------------------------------
(* The scene and what the queue knows of it. *)

DetailInv == scene \in Scenes /\ SlotInv /\ VersionsIdentify

(* Beside the request there are two versions at most in the slots.         *)
LEMMA FewAreHeld ==
    ASSUME SlotInv, NEW d \in Versions
    PROVE  \E a, b, c \in Versions : HeldByQueue \subseteq {a, b, c}
<1>1. \E a \in Versions : requested \cup {j.scene.version : j \in pending} \subseteq {a}
  <2>1. CASE requested = {}
    <3>1. pending = {} BY <2>1 DEF SlotInv, OneForEach
    <3> QED BY <2>1, <3>1
  <2>2. CASE requested # {}
    <3>1. PICK v \in requested : v \in Versions /\ requested = {v}
      BY <2>2, SlotsHold DEF SlotInv
    <3>2. \A j \in pending : j.scene.version = v BY <3>1 DEF SlotInv, OneForEach
    <3> QED BY <3>1, <3>2
  <2> QED BY <2>1, <2>2
<1>2. \E b \in Versions : {j.scene.version : j \in running} \subseteq {b}
  <2>1. \A i, j \in running : i = j /\ i \in Jobs BY SlotsHold DEF SlotInv
  <2> QED BY <2>1, JobsAre
<1>3. \E c \in Versions : {j.scene.version : j \in result} \subseteq {c}
  <2>1. \A i, j \in result : i = j /\ i \in Jobs BY SlotsHold DEF SlotInv
  <2> QED BY <2>1, JobsAre
<1>4. PICK a, b, c \in Versions :
          /\ requested \cup {j.scene.version : j \in pending} \subseteq {a}
          /\ {j.scene.version : j \in running} \subseteq {b}
          /\ {j.scene.version : j \in result} \subseteq {c}
  BY <1>1, <1>2, <1>3
<1>5. HeldByQueue \subseteq {a, b, c}
  BY <1>4 DEF HeldByQueue
<1> QED BY <1>5

LEMMA FreshIsNew ==
    ASSUME NEW held, Versions \ held # {}
    PROVE  Fresh(held) \in Versions /\ Fresh(held) \notin held
BY DEF Fresh

(* A job holds its version.                                                *)
LEMMA JobsHold == \A j \in pending \cup running \cup result : j.scene.version \in HeldByQueue
BY DEF HeldByQueue

LEMMA DetailStep == DetailInv /\ [DetailNext]_detailVars => DetailInv'
<1> SUFFICES ASSUME DetailInv, [DetailNext]_detailVars PROVE DetailInv'
  OBVIOUS
<1>1. ASSUME NEW source \in Sources, Change(source) PROVE DetailInv'
  <2> DEFINE held == {scene.version} \cup HeldByQueue
  <2>1. scene.version \in Versions BY DEF DetailInv, Scenes
  <2>2. PICK a, b, c \in Versions : HeldByQueue \subseteq {a, b, c}
    BY <2>1, FewAreHeld DEF DetailInv
  <2>3. Versions \ {scene.version, a, b, c} # {} BY <2>1, AddressesAssumption
  <2>4. Versions \ held # {} BY <2>2, <2>3
  <2>5. scene' = [version |-> Fresh(held), source |-> source] /\ UNCHANGED slotVars
    BY <1>1 DEF Change
  <2> HIDE DEF held
  <2>6. Fresh(held) \in Versions /\ Fresh(held) \notin held BY <2>4, FreshIsNew
  <2>7. scene' \in Scenes /\ scene'.version \notin held BY <2>5, <2>6 DEF Scenes
  <2>8. SlotInv' BY <2>5 DEF slotVars, queueVars, DetailInv, SlotInv, SlotsTyped, OneForEach, NoneTaken, Same
  <2>9. VersionsIdentify'
    BY <2>5, <2>7, JobsHold DEF held, slotVars, queueVars, VersionsIdentify
  <2> QED BY <2>7, <2>8, <2>9 DEF DetailInv
<1>2. CASE request(scene) /\ UNCHANGED scene
  <2>1. SlotInv' BY <1>2, EnqueueKeeps DEF DetailInv, request
  <2>2. /\ \A j \in pending' : j \in pending \/ j.scene = scene
        /\ UNCHANGED <<running, result>>
    BY <1>2 DEF request, enqueue_request
  <2> QED BY <1>2, <2>1, <2>2 DEF DetailInv, VersionsIdentify
<1>3. CASE (poll(scene) \/ reset \/ pause \/ resume \/ drop) /\ UNCHANGED scene
  <2>1. SlotInv' BY <1>3, OwnerKeeps, TakenKeeps DEF DetailInv, poll
  <2>2. /\ pending' \subseteq pending /\ running' = running /\ result' \subseteq result
    BY <1>3 DEF poll, reset, cancel, pause, resume, drop, queueVars
  <2> QED BY <1>3, <2>1, <2>2 DEF DetailInv, VersionsIdentify
<1>4. CASE DetailWorker /\ UNCHANGED scene
  <2>1. SlotInv' BY <1>4, WorkerKeeps DEF DetailInv
  <2>2. pending' \cup running' \cup result' \subseteq pending \cup running \cup result
    BY <1>4 DEF DetailWorker, WorkerRuns, begin_job, finish_job, worker_wait, worker_exit,
                worker_gone, worker_panic, queueVars
  <2> QED BY <1>4, <2>1, <2>2 DEF DetailInv, VersionsIdentify
<1>5. CASE UNCHANGED detailVars
  BY <1>5 DEF detailVars, slotVars, queueVars, DetailInv, SlotInv, SlotsTyped, OneForEach,
              NoneTaken, Same, VersionsIdentify
<1> QED BY <1>1, <1>2, <1>3, <1>4, <1>5 DEF DetailNext

LEMMA DetailInitially == DetailInit => DetailInv
<1> SUFFICES ASSUME DetailInit PROVE DetailInv
  OBVIOUS
<1>1. scene \in Scenes BY AddressesAssumption DEF DetailInit, Scenes
<1>2. VersionsIdentify BY DEF DetailInit, SlotInit, VersionsIdentify
<1> QED BY <1>1, <1>2, SlotsInitially DEF DetailInit, DetailInv

LEMMA DetailInvAlways == DetailSpec => []DetailInv
<1>1. DetailInit => DetailInv BY DetailInitially
<1>2. DetailInv /\ [DetailNext]_detailVars => DetailInv' BY DetailStep
<1> QED BY <1>1, <1>2, PTL DEF DetailSpec

(* Work tagged with the scene's version was built from the scene as it is. *)
THEOREM VersionsIdentifyAlways == DetailSpec => []VersionsIdentify
BY DetailInvAlways, PTL DEF DetailInv

(* No version of a scene is prepared twice while its preparation is        *)
(* pending, running or buffered.                                           *)
THEOREM PreparedOnceAlways == DetailSpec => []PreparedOnce
<1>1. DetailInv => PreparedOnce
  BY DEF DetailInv, SlotInv, OneForEach, PreparedOnce, Same
<1> QED BY <1>1, DetailInvAlways, PTL

-----------------------------------------------------------------------------
(* The promise. *)

(* What stands for owed and ready in the promise.                          *)
Debt == Serving /\ Owed
Ready == {<<r.scene.version, r.epoch>> : r \in result}

SameToTheOwner ==
    /\ UNCHANGED <<requested, epoch, Ready>>
    /\ Debt' <=> Debt
    /\ Serving' <=> Serving

LEMMA Equivalent == \A a, b \in BOOLEAN : (a <=> b) => a = b
OBVIOUS

LEMMA TruthValues == /\ Debt \in BOOLEAN /\ Serving \in BOOLEAN
                     /\ Debt' \in BOOLEAN /\ Serving' \in BOOLEAN
BY DEF Debt, Serving, Owed

(* A step that the owner cannot tell is a stutter of the promise.          *)
LEMMA Stutters == SameToTheOwner => UNCHANGED Promise!vars
<1> SUFFICES ASSUME SameToTheOwner PROVE UNCHANGED Promise!vars
  OBVIOUS
<1>1. Debt' = Debt /\ Serving' = Serving
  BY TruthValues, Equivalent DEF SameToTheOwner
<1> QED BY <1>1 DEF SameToTheOwner, Promise!vars, Debt, Ready

(* Asking owes one preparation, unless it is buffered: what is pending or   *)
(* under way is not buffered at the same time, nor prepared again.         *)
LEMMA RequestWants ==
    ASSUME SlotInv, NEW s \in Scenes, request(s)
    PROVE  Promise!Want(s.version)
<1> DEFINE this == [scene |-> s, epoch |-> epoch]
           For(j) == j.epoch = epoch /\ j.scene.version = s.version
<1>1. /\ requested' = {s.version}
      /\ UNCHANGED <<epoch, running, result, shutdown>>
  BY DEF request, enqueue_request
<1>2. Serving' <=> Serving
  BY Zenon DEF request, enqueue_request, Wake, Serving
<1>3. \/ pending' = pending /\ \E j \in pending : j.scene.version = s.version
      \/ /\ pending' = {} /\ \E j \in running \cup result : For(j)
         /\ ~\E j \in pending : j.scene.version = s.version
      \/ pending' = {this} /\ ~\E j \in running \cup result : For(j)
  BY DEF request, enqueue_request
<1>4. For(this) OBVIOUS
<1>5. \A i, j : For(i) /\ For(j) => Same(i, j) BY DEF Same
<1>6. (\E j \in pending' \cup running : For(j)) <=> ~\E j \in result : For(j)
  <2>1. CASE pending' = pending /\ \E j \in pending : j.scene.version = s.version
    <3>1. \E j \in pending : For(j) BY <2>1 DEF SlotInv, OneForEach
    <3> QED BY <2>1, <3>1, <1>5 DEF SlotInv, OneForEach
  <2>2. CASE pending' = {} /\ \E j \in running \cup result : For(j)
    BY <2>2, <1>5 DEF SlotInv, OneForEach
  <2>3. CASE pending' = {this} /\ ~\E j \in running \cup result : For(j)
    BY <2>3, <1>4
  <2> QED BY <1>3, <2>1, <2>2, <2>3
<1>7. Ready = {<<s.version, epoch>>} <=> \E j \in result : For(j)
  <2>1. CASE result = {}
    BY <2>1 DEF Ready
  <2>2. CASE result # {}
    <3>1. PICK r \in result : result = {r}
      BY <2>2, SlotsHold DEF SlotInv
    <3>2. Ready = {<<r.scene.version, r.epoch>>} BY <3>1 DEF Ready
    <3>3. Ready = {<<s.version, epoch>>} <=> For(r)
      <4>1. CASE For(r) BY <3>2, <4>1
      <4>2. CASE ~For(r)
        <5>1. <<r.scene.version, r.epoch>> # <<s.version, epoch>> BY <4>2
        <5> QED BY <3>2, <4>2, <5>1
      <4> QED BY <4>1, <4>2
    <3> QED BY <3>1, <3>3
  <2> QED BY <2>1, <2>2
<1>8. Owed' <=> \E j \in pending' \cup running : For(j)
  BY <1>1 DEF Owed
<1>9. Debt' <=> Serving /\ Ready # {<<s.version, epoch>>}
  BY <1>2, <1>6, <1>7, <1>8 DEF Debt
<1>10. Debt' = (Serving /\ Ready # {<<s.version, epoch>>}) /\ Serving' = Serving
  BY <1>2, <1>9, TruthValues, Equivalent
<1> QED BY <1>1, <1>10 DEF Promise!Want, Debt, Ready

(* Taking what is buffered delivers it.                                    *)
LEMMA PollDelivers ==
    ASSUME SlotInv, NEW s \in Scenes, poll(s)
    PROVE  Promise!Deliver(s.version)
<1>1. PICK r \in result : r.epoch = epoch /\ r.scene.version = s.version /\ requested = {s.version}
  BY DEF poll, Current
<1>2. result = {r} BY <1>1, SlotsHold DEF SlotInv
<1>3. Ready = {<<s.version, epoch>>} BY <1>1, <1>2 DEF Ready
<1>4. Ready' = {} BY DEF poll, Ready
<1>5. UNCHANGED <<requested, epoch, pending, running, shutdown, worker>> BY DEF poll
<1>6. (Debt' <=> Debt) /\ (Serving' <=> Serving) BY <1>5 DEF Debt, Serving, Owed
<1>7. Debt' = Debt /\ Serving' = Serving BY <1>6, TruthValues, Equivalent
<1> QED BY <1>1, <1>3, <1>4, <1>5, <1>7 DEF Promise!Deliver, Debt, Ready

(* A reset forgets; a thread still busy with the old scene owes nothing.    *)
LEMMA ResetForgets ==
    ASSUME SlotInv, reset
    PROVE  Promise!Forget
<1>1. requested' = {} /\ Ready' = {} /\ ~Debt'
  BY DEF reset, cancel, Ready, Debt, Owed
<1>2. Serving' <=> Serving BY DEF reset, Serving
<1>3. Debt' = FALSE /\ Serving' = Serving BY <1>1, <1>2, TruthValues, Equivalent
<1>4. epoch' \in Epochs \ {epoch} BY ResetRenews
<1> QED BY <1>1, <1>3, <1>4 DEF Promise!Forget, Debt, Ready

(* A step that ends the service stops it; afterwards nothing is owed.       *)
LEMMA Stopping ==
    ASSUME UNCHANGED <<requested, epoch, Ready>>, ~Serving'
    PROVE  Promise!Stop \/ UNCHANGED Promise!vars
<1>1. CASE Serving
  <2>1. Debt' = FALSE /\ Serving' = FALSE BY TruthValues, Equivalent DEF Debt
  <2> QED BY <1>1, <2>1 DEF Promise!Stop, Debt, Ready
<1>2. CASE ~Serving
  <2>1. SameToTheOwner BY <1>2 DEF SameToTheOwner, Debt
  <2> QED BY <2>1, Stutters
<1> QED BY <1>1, <1>2

(* The result that is buffered is the preparation that was owed; one that   *)
(* is stale by then is dropped, which the owner cannot tell.               *)
LEMMA FinishPrepares ==
    ASSUME SlotInv, finish_job
    PROVE  Promise!Prepare \/ UNCHANGED Promise!vars
<1>1. /\ worker = "running" /\ worker' = "checking" /\ running' = {}
      /\ UNCHANGED <<epoch, requested, pending, shutdown>>
  BY DEF finish_job
<1>2. PICK j \in running : result' = IF Stale(j) THEN result ELSE {j}
  BY DEF finish_job
<1>3. running = {j} /\ j \in Jobs BY SlotsHold DEF SlotInv
<1>4. Serving' <=> Serving BY <1>1 DEF Serving
<1>5. CASE Stale(j)
  <2>1. Ready' = Ready BY <1>2, <1>5 DEF Ready
  <2>2. Debt' <=> Debt
    BY <1>1, <1>3, <1>4, <1>5 DEF Debt, Owed, Stale, Serving
  <2> QED BY <1>1, <1>4, <2>1, <2>2, Stutters DEF SameToTheOwner
<1>6. CASE ~Stale(j)
  <2>1. Serving /\ j.epoch = epoch /\ requested = {j.scene.version}
    BY <1>1, <1>6 DEF Stale, Serving
  <2>2. Ready' = requested \X {epoch}
    <3>1. Ready' = {<<j.scene.version, j.epoch>>} BY <1>2, <1>6 DEF Ready
    <3> QED BY <2>1, <3>1
  <2>3. Debt BY <1>3, <2>1 DEF Debt, Owed
  <2>4. ~Debt'
    <3>1. pending = {}
      BY <1>3, <2>1 DEF SlotInv, OneForEach, Same
    <3> QED BY <1>1, <3>1 DEF Debt, Owed
  <2>5. Debt' = FALSE /\ Serving' = Serving BY <1>4, <2>4, TruthValues, Equivalent
  <2> QED BY <1>1, <2>1, <2>2, <2>3, <2>5 DEF Promise!Prepare, Debt, Ready
<1> QED BY <1>5, <1>6

(* The rest of the thread's steps leave the promise alone or end it.        *)
LEMMA WorkerServes ==
    ASSUME SlotInv, DetailWorker
    PROVE  [Promise!Next]_(Promise!vars)
<1>1. CASE begin_job
  <2>1. running = {} BY <1>1 DEF begin_job, SlotInv, NoneTaken
  <2>2. Owed' <=> Owed BY <1>1, <2>1 DEF begin_job, Owed
  <2> QED BY <1>1, <2>2, Stutters DEF begin_job, SameToTheOwner, Debt, Serving, Ready
<1>2. CASE finish_job
  BY <1>2, FinishPrepares DEF Promise!Next
<1>3. CASE worker_wait
  <2>1. Owed' <=> Owed BY <1>3 DEF worker_wait, queueVars, Owed
  <2> QED BY <1>3, <2>1, Stutters
           DEF worker_wait, queueVars, SameToTheOwner, Debt, Serving, Ready
<1>4. CASE worker_exit \/ worker_gone \/ worker_panic
  BY <1>4, Stopping
     DEF worker_exit, worker_gone, worker_panic, queueVars, Serving, Ready, Promise!Next
<1> QED BY <1>1, <1>2, <1>3, <1>4 DEF DetailWorker, WorkerRuns

LEMMA StepServes == DetailInv /\ [DetailNext]_detailVars => [Promise!Next]_(Promise!vars)
<1> SUFFICES ASSUME DetailInv, [DetailNext]_detailVars PROVE [Promise!Next]_(Promise!vars)
  OBVIOUS
<1> USE DEF DetailInv
<1>1. CASE request(scene)
  <2>1. scene.version \in Versions BY DEF Scenes
  <2> QED BY <1>1, <2>1, RequestWants DEF Promise!Next
<1>2. CASE poll(scene)
  <2>1. scene.version \in Versions BY DEF Scenes
  <2> QED BY <1>2, <2>1, PollDelivers DEF Promise!Next
<1>3. CASE reset
  BY <1>3, ResetForgets DEF Promise!Next
<1>4. CASE drop
  BY <1>4, Stopping DEF drop, Serving, Ready, Promise!Next
<1>5. CASE pause \/ resume
  <2>1. UNCHANGED <<queueVars, shutdown>> BY <1>5 DEF pause, resume
  <2>2. Serving' <=> Serving BY <1>5, <2>1, Zenon DEF pause, resume, Wake, Serving
  <2>3. Owed' <=> Owed BY <2>1 DEF queueVars, Owed
  <2> QED BY <2>1, <2>2, <2>3, Stutters DEF queueVars, SameToTheOwner, Debt, Ready
<1>6. CASE DetailWorker
  BY <1>6, WorkerServes
<1>7. CASE UNCHANGED slotVars
  <2>1. SameToTheOwner
    BY <1>7 DEF slotVars, queueVars, SameToTheOwner, Debt, Owed, Serving, Ready
  <2> QED BY <2>1, Stutters
<1> QED BY <1>1, <1>2, <1>3, <1>4, <1>5, <1>6, <1>7 DEF DetailNext, Change, detailVars

(* For any scenes and any supply of addresses the slots implement the      *)
(* promise: only what was wanted last is delivered, it is prepared once,   *)
(* and a reset forgets everything, also what is being prepared.            *)
THEOREM DetailKeepsPromise == DetailSpec => ImplementsPromise
<1>1. DetailInit => Promise!Init
  <2> SUFFICES ASSUME DetailInit PROVE Promise!Init
    OBVIOUS
  <2>1. epoch \in Epochs BY DetailInitially DEF DetailInv, SlotInv, SlotsTyped
  <2>2. requested = {} /\ Ready = {} /\ ~Debt
    BY DEF DetailInit, SlotInit, Ready, Debt, Owed
  <2>3. Debt = FALSE BY <2>2, TruthValues, Equivalent
  <2> QED BY <2>1, <2>2, <2>3, TruthValues DEF Promise!Init, Debt, Ready
<1>2. DetailInv /\ [DetailNext]_detailVars => [Promise!Next]_(Promise!vars)
  BY StepServes
<1> QED BY <1>1, <1>2, DetailInvAlways, PTL DEF DetailSpec, ImplementsPromise, Promise!Safety

-----------------------------------------------------------------------------
(* The cadence *)

SessionTyped ==
    /\ journal \in [Cells -> Option1]
    /\ pending_edits \in [Cells -> Option(PendingEdits)]
    /\ published_version \in Option(Versions) /\ staged \in Option(Scenes)
    /\ added \in Seq(Cells) /\ structural \in BOOLEAN
    /\ live \in SUBSET Cells

(* What an unconfirmed edit remembers of its cell and of the save agree.   *)
NotesAgree == \A c \in Cells : \A p \in pending_edits[c] : p.old <=> TRUE \in p.journal

(* What is not solid yet is known to the gate.                             *)
Covers(gate, source) == gate.structural \/ source \ live \subseteq ToSet(gate.added)

SessionInv ==
    /\ SessionTyped /\ NotesAgree /\ Covers(Gate, scene.source)
    /\ JournalTellsScene /\ BurstLeadsBackToLive /\ NothingThroughABody

CadenceInv == DetailInv /\ SessionInv

-----------------------------------------------------------------------------
(* The gate *)

LEMMA OneMore ==
    ASSUME NEW added1 \in Seq(Cells), NEW c \in Cells
    PROVE  /\ added1 \o <<>> \in Seq(Cells) /\ ToSet(added1) \subseteq ToSet(added1 \o <<>>)
           /\ added1 \o <<c>> \in Seq(Cells)
           /\ ToSet(added1) \cup {c} \subseteq ToSet(added1 \o <<c>>)
<1>1. /\ added1 \o <<>> \in Seq(Cells) /\ Len(added1 \o <<>>) = Len(added1)
      /\ \A i \in 1..Len(added1) : (added1 \o <<>>)[i] = added1[i]
  OBVIOUS
<1>2. /\ added1 \o <<c>> \in Seq(Cells) /\ Len(added1 \o <<c>>) = Len(added1) + 1
      /\ \A i \in 1..Len(added1) : (added1 \o <<c>>)[i] = added1[i]
      /\ (added1 \o <<c>>)[Len(added1) + 1] = c
  OBVIOUS
<1>3. \A q \in Seq(Cells) : DOMAIN q = 1..Len(q) /\ Len(q) \in Nat OBVIOUS
<1> QED BY <1>1, <1>2, <1>3 DEF ToSet

(* The gate of an edit knows what the edit adds.                           *)
LEMMA EditIsCovered ==
    ASSUME SessionTyped, Covers(Gate, scene.source), scene \in Scenes, NEW c \in Cells
    PROVE  LET gate == WithRegions(Regions(c))
           IN  /\ gate.added \in Seq(Cells) /\ gate.structural \in BOOLEAN
               /\ Covers(gate, Toggled(c).source)
<1> DEFINE regions == Regions(c)
           gate == WithRegions(regions)
<1>1. regions = <<>> \/ (regions = <<c>> /\ c \notin scene.source) BY DEF Regions
<1>2. added \in Seq(Cells) /\ structural \in BOOLEAN BY DEF SessionTyped
<1>3. \/ gate = [added |-> added, structural |-> TRUE]
      \/ gate = [added |-> added \o regions, structural |-> structural]
  BY DEF WithRegions, Gate
<1>4. /\ added \o regions \in Seq(Cells)
      /\ ToSet(added) \subseteq ToSet(added \o regions)
      /\ regions = <<c>> => c \in ToSet(added \o regions)
  BY <1>1, <1>2, OneMore
<1>5. Toggled(c).source \subseteq scene.source \cup (IF regions = <<>> THEN {} ELSE {c})
  BY DEF Toggled, NewScene, Regions
<1>6. structural \/ scene.source \ live \subseteq ToSet(added)
  BY DEF Covers, Gate
<1> HIDE DEF gate
<1> HIDE DEF regions
<1>7. gate.added \in Seq(Cells) /\ gate.structural \in BOOLEAN
  <2>1. CASE gate = [added |-> added, structural |-> TRUE] BY <1>2, <2>1
  <2>2. CASE gate = [added |-> added \o regions, structural |-> structural]
    BY <1>2, <1>4, <2>2
  <2> QED BY <1>3, <2>1, <2>2
<1>8. Covers(gate, Toggled(c).source)
  <2>1. CASE gate = [added |-> added, structural |-> TRUE] BY <2>1 DEF Covers
  <2>2. CASE gate = [added |-> added \o regions, structural |-> structural]
    BY <1>1, <1>4, <1>5, <1>6, <2>2 DEF Covers
  <2> QED BY <1>3, <2>1, <2>2
<1> QED BY <1>7, <1>8 DEF gate, regions

(* What an open gate lets through meets no body.                           *)
LEMMA GateHolds ==
    ASSUME NEW gate, NEW source \in SUBSET Cells, Covers(gate, source),
           ~gate_blocked(gate, source), bodies \cap live = {}
    PROVE  bodies \cap source = {}
<1> SUFFICES ASSUME NEW c \in source, c \in bodies, c \notin live PROVE FALSE
  OBVIOUS
<1>1. CASE gate.structural
  <2>1. PICK k \in Colliders : c \in k BY CellsAssumption DEF CellsAssumption
  <2>2. c \in Cells /\ c \in Int BY CellsAssumption DEF CellsAssumption
  <2>3. c \in Box(source \cap k) BY <2>1, <2>2 DEF Box
  <2>4. source \cap k # live \cap k BY <2>1
  <2> QED BY <1>1, <2>1, <2>3, <2>4 DEF gate_blocked, StructuralBlocked
<1>2. CASE ~gate.structural
  BY <1>2 DEF Covers, gate_blocked
<1> QED BY <1>1, <1>2

-----------------------------------------------------------------------------
(* New scenes *)

LEMMA NewSceneIs ==
    ASSUME CadenceInv, NEW source \in SUBSET Cells
    PROVE  /\ NewScene(source) \in Scenes /\ NewScene(source).source = source
           /\ NewScene(source).version \notin HeldByQueue
<1>1. scene.version \in Versions BY DEF CadenceInv, DetailInv, Scenes
<1>2. PICK a, b, c \in Versions : HeldByQueue \subseteq {a, b, c}
  BY <1>1, FewAreHeld DEF CadenceInv, DetailInv
<1>3. \E d \in Versions : published_version \subseteq {d}
  BY <1>1, OptionCases DEF CadenceInv, SessionInv, SessionTyped
<1>4. \E e \in Versions : {s.version : s \in staged} \subseteq {e}
  <2>1. \A s, t \in staged : s = t /\ s \in Scenes
    BY OptionCases DEF CadenceInv, SessionInv, SessionTyped
  <2>2. \A s \in Scenes : s.version \in Versions BY DEF Scenes
  <2> QED BY <1>1, <2>1, <2>2
<1>5. PICK d, e \in Versions : published_version \subseteq {d} /\ {s.version : s \in staged} \subseteq {e}
  BY <1>3, <1>4
<1>6. Versions \ {scene.version, a, b, c, d, e} # {}
  BY <1>1, SceneAddressesAssumption DEF SceneAddressesAssumption
<1>7. Versions \ Held # {} BY <1>2, <1>5, <1>6 DEF Held
<1>8. Fresh(Held) \in Versions /\ Fresh(Held) \notin Held BY <1>7, FreshIsNew
<1>9. HeldByQueue \subseteq Held BY DEF Held
<1>10. source \in Sources BY CellsAssumption DEF CellsAssumption
<1> QED BY <1>8, <1>9, <1>10 DEF NewScene, Scenes

(* A scene whose version the queue does not know, or the one it knows,     *)
(* asked for or not.                                                       *)
LEMMA SceneMoves ==
    ASSUME DetailInv, NEW s \in Scenes, scene' = s,
           s = scene \/ s.version \notin HeldByQueue,
           \/ enqueue_request(s) /\ UNCHANGED <<epoch, running, shutdown, paused>>
           \/ UNCHANGED <<epoch, running, shutdown, paused, requested, pending, worker>>,
           result' \in {result, {}}
    PROVE  DetailInv'
<1>1. SlotInv' BY EnqueueKeeps, TakenKeeps DEF DetailInv
<1>2. /\ \A j \in pending' : j \in pending \/ j.scene = s
      /\ running' = running /\ result' \subseteq result
  BY DEF enqueue_request
<1>3. VersionsIdentify'
  <2>1. ASSUME NEW j \in pending \cup running \cup result, j.scene.version = s.version
        PROVE  j.scene = s
    BY <2>1, JobsHold DEF DetailInv, VersionsIdentify
  <2> QED BY <1>2, <2>1 DEF VersionsIdentify
<1> QED BY <1>1, <1>3 DEF DetailInv

-----------------------------------------------------------------------------
(* The save and the notes of a burst *)

LEMMA ToggledIs ==
    ASSUME CadenceInv, NEW c \in Cells
    PROVE  /\ Toggled(c) \in Scenes /\ Toggled(c).version \notin HeldByQueue
           /\ Toggled(c).source \subseteq Cells
           /\ \A x \in Cells \ {c} : x \in Toggled(c).source <=> x \in scene.source
<1>1. scene.source \subseteq Cells
  BY CellsAssumption DEF CellsAssumption, CadenceInv, DetailInv, Scenes
<1> DEFINE source == IF c \in scene.source THEN scene.source \ {c} ELSE scene.source \cup {c}
<1>2. source \in SUBSET Cells /\ Toggled(c) = NewScene(source) BY <1>1 DEF Toggled
<1>3. \A x \in Cells \ {c} : x \in source <=> x \in scene.source OBVIOUS
<1> HIDE DEF source
<1> QED BY <1>2, <1>3, NewSceneIs

LEMMA WrittenIs ==
    ASSUME CadenceInv, NEW c \in Cells, NEW s, s.source \subseteq Cells,
           \A x \in Cells \ {c} : x \in s.source <=> x \in scene.source,
           journal' = Written(c, s)
    PROVE  journal' \in [Cells -> Option1] /\ Replayed' = s.source
<1>1. journal \in [Cells -> Option1] /\ Replayed = scene.source
  BY DEF CadenceInv, SessionInv, SessionTyped, JournalTellsScene
<1>2. {(c \in s.source)} \in Option1
  <2>1. (c \in s.source) \in BOOLEAN OBVIOUS
  <2> QED BY <2>1, OptionMade, Zenon DEF Option1
<1>3. journal' \in [Cells -> Option1] /\ journal'[c] = {(c \in s.source)}
      /\ \A x \in Cells \ {c} : journal'[x] = journal[x]
  BY <1>1, <1>2 DEF Written
<1>4. \A x \in Cells : TRUE \in journal'[x] <=> x \in s.source
  <2>1. \A x \in Cells \ {c} : TRUE \in journal[x] <=> x \in scene.source
    BY <1>1 DEF Replayed
  <2>2. TRUE \in {(c \in s.source)} <=> c \in s.source
    OBVIOUS
  <2> QED BY <1>3, <2>1, <2>2
<1> QED BY <1>3, <1>4 DEF Replayed

(* The first note of a burst remembers the cell as it was.                 *)
LEMMA NotedIs ==
    ASSUME CadenceInv, NEW c \in Cells, scene'.source \subseteq Cells,
           \A x \in Cells \ {c} : x \in scene'.source <=> x \in scene.source,
           pending_edits' = Noted(c)
    PROVE  /\ pending_edits' \in [Cells -> Option(PendingEdits)]
           /\ NotesAgree' /\ RolledBack' = RolledBack
<1> DEFINE note == [old |-> c \in scene.source, journal |-> journal[c]]
<1>1. /\ pending_edits \in [Cells -> Option(PendingEdits)] /\ NotesAgree
      /\ journal \in [Cells -> Option1] /\ Replayed = scene.source
  BY DEF CadenceInv, SessionInv, SessionTyped, JournalTellsScene
<1>2. CASE pending_edits[c] # {}
  <2>1. pending_edits' = pending_edits BY <1>2 DEF Noted
  <2> QED BY <1>1, <1>2, <2>1 DEF NotesAgree, RolledBack
<1>3. CASE pending_edits[c] = {}
  <2>1. pending_edits' = [pending_edits EXCEPT ![c] = {note}]
    BY <1>3 DEF Noted, NotedAfresh
  <2>2. note \in PendingEdits /\ (note.old <=> c \in scene.source) /\ note.journal = journal[c]
    <3>1. journal[c] \in Option1 /\ (c \in scene.source) \in BOOLEAN BY <1>1
    <3> QED BY <3>1, Zenon DEF PendingEdits
  <2>3. note.old <=> TRUE \in note.journal BY <1>1, <2>2 DEF Replayed
  <2> HIDE DEF note
  <2>4. {note} \in Option(PendingEdits) BY <2>2, OptionMade
  <2>5. /\ pending_edits' \in [Cells -> Option(PendingEdits)] /\ pending_edits'[c] = {note}
        /\ \A x \in Cells \ {c} : pending_edits'[x] = pending_edits[x]
    BY <1>1, <2>1, <2>4
  <2>6. NotesAgree' BY <1>1, <2>3, <2>5 DEF NotesAgree
  <2>7. RolledBack' = RolledBack BY <1>3, <2>2, <2>5 DEF RolledBack
  <2> QED BY <2>5, <2>6, <2>7
<1> QED BY <1>2, <1>3

(* Undoing a burst in the save undoes it in the scene.                     *)
LEMMA RolledBackIs ==
    ASSUME CadenceInv, journal' = RolledBackJournal
    PROVE  /\ journal' \in [Cells -> Option1] /\ Replayed' = RolledBack
           /\ RolledBack \subseteq Cells /\ RolledBack = live
<1>1. /\ pending_edits \in [Cells -> Option(PendingEdits)] /\ NotesAgree
      /\ journal \in [Cells -> Option1] /\ Replayed = scene.source /\ RolledBack = live
  BY DEF CadenceInv, SessionInv, SessionTyped, JournalTellsScene, BurstLeadsBackToLive
<1>2. ASSUME NEW c \in Cells
      PROVE  journal'[c] \in Option1 /\ (TRUE \in journal'[c] <=> c \in RolledBack)
  <2>1. CASE pending_edits[c] = {}
    <3>1. journal'[c] = journal[c] BY <2>1 DEF RolledBackJournal
    <3> QED BY <1>1, <2>1, <3>1 DEF Replayed, RolledBack
  <2>2. CASE pending_edits[c] # {}
    <3>1. PICK p \in pending_edits[c] : pending_edits[c] = {p} /\ p \in PendingEdits
      BY <1>1, <2>2, OptionCases
    <3>2. journal'[c] = p.journal BY <2>2, <3>1 DEF RolledBackJournal
    <3>3. p.journal \in Option1 /\ (p.old <=> TRUE \in p.journal)
      BY <1>1, <3>1 DEF PendingEdits, NotesAgree
    <3>4. c \in RolledBack <=> p.old BY <2>2, <3>1 DEF RolledBack
    <3> QED BY <3>2, <3>3, <3>4
  <2> QED BY <2>1, <2>2
<1>3. journal' = [c \in Cells |-> journal'[c]] BY DEF RolledBackJournal
<1>4. RolledBack \subseteq Cells BY DEF RolledBack
<1> QED BY <1>1, <1>2, <1>3, <1>4 DEF Replayed

(* Without notes there is nothing to undo.                                 *)
LEMMA NoNotes ==
    ASSUME pending_edits' = [c \in Cells |-> {}], scene'.source \subseteq Cells
    PROVE  /\ pending_edits' \in [Cells -> Option(PendingEdits)]
           /\ NotesAgree' /\ RolledBack' = scene'.source
<1>1. {} \in Option(PendingEdits) BY OptionMade
<1> QED BY <1>1 DEF NotesAgree, RolledBack

LEMMA EmptyGate ==
    ASSUME SetGate(OpenGate)
    PROVE  added' \in Seq(Cells) /\ structural' \in BOOLEAN /\ added' = <<>>
BY DEF SetGate, OpenGate

(* A publication that meets no body.                                       *)
LEMMA PublishKeeps ==
    ASSUME CadenceInv, NEW s \in Scenes, Publish(s), scene' = s, bodies' = bodies,
           bodies \cap s.source = {}, journal' \in [Cells -> Option1], Replayed' = s.source
    PROVE  SessionInv'
<1>1. s.version \in Versions /\ s.source \subseteq Cells
  BY CellsAssumption DEF CellsAssumption, Scenes
<1>2. /\ live' = s.source /\ published_version' = {s.version} /\ SetGate(OpenGate)
      /\ staged' = {} /\ pending_edits' = [c \in Cells |-> {}]
  BY DEF Publish
<1>3. /\ pending_edits' \in [Cells -> Option(PendingEdits)] /\ NotesAgree'
      /\ RolledBack' = live'
  BY <1>1, <1>2, NoNotes
<1>4. published_version' \in Option(Versions) /\ staged' \in Option(Scenes)
  BY <1>1, <1>2, OptionMade
<1>5. SessionTyped' BY <1>1, <1>2, <1>3, <1>4, EmptyGate DEF SessionTyped
<1>6. Covers(Gate, scene.source)' BY <1>2 DEF Covers
<1> QED BY <1>2, <1>3, <1>5, <1>6
        DEF SessionInv, JournalTellsScene, BurstLeadsBackToLive, NothingThroughABody

-----------------------------------------------------------------------------
(* The steps *)

(* Refused edits give the scene a new version and change nothing else.     *)
LEMMA RefusalKeeps ==
    ASSUME CadenceInv, NEW c \in Cells, edit_meshless(c) \/ edit_refused(c)
    PROVE  CadenceInv'
<1>1. /\ scene' = NewScene(scene.source)
      /\ UNCHANGED <<slotVars, cadenceVars, sessionVars, live, bodies>>
  BY DEF edit_meshless, edit_refused
<1>2. scene.source \in SUBSET Cells
  BY CellsAssumption DEF CellsAssumption, CadenceInv, DetailInv, Scenes
<1>3. /\ NewScene(scene.source) \in Scenes /\ NewScene(scene.source).source = scene.source
      /\ NewScene(scene.source).version \notin HeldByQueue
  BY <1>2, NewSceneIs
<1>4. DetailInv'
  BY <1>1, <1>3, SceneMoves DEF CadenceInv, slotVars, queueVars
<1>5. SessionInv'
  <2>1. UNCHANGED <<journal, pending_edits, published_version, added, structural, staged,
                    live, bodies>> /\ scene'.source = scene.source
    BY <1>1, <1>3 DEF cadenceVars, sessionVars
  <2> QED BY <2>1 DEF CadenceInv, SessionInv, SessionTyped, NotesAgree, Covers, Gate,
                      JournalTellsScene, Replayed, BurstLeadsBackToLive, RolledBack,
                      NothingThroughABody
<1> QED BY <1>4, <1>5 DEF CadenceInv

(* An edit that waits for its collision.                                   *)
LEMMA WaitingEdit ==
    ASSUME CadenceInv, NEW c \in Cells, scene' = Toggled(c),
           SetGate(WithRegions(Regions(c))), pending_edits' = Noted(c),
           journal' = Written(c, Toggled(c)), UNCHANGED <<published_version, live, bodies>>,
           staged' \in Option(Scenes)
    PROVE  SessionInv'
<1> DEFINE gate == WithRegions(Regions(c))
<1>1. /\ scene' \in Scenes /\ scene'.source \subseteq Cells
      /\ \A x \in Cells \ {c} : x \in scene'.source <=> x \in scene.source
  BY ToggledIs
<1>2. journal' \in [Cells -> Option1] /\ Replayed' = scene'.source
  BY <1>1, WrittenIs
<1>3. /\ pending_edits' \in [Cells -> Option(PendingEdits)]
      /\ NotesAgree' /\ RolledBack' = RolledBack
  BY <1>1, NotedIs
<1>4. /\ gate.added \in Seq(Cells) /\ gate.structural \in BOOLEAN
      /\ Covers(gate, scene'.source)
  BY EditIsCovered DEF CadenceInv, DetailInv, SessionInv
<1>5. added' = gate.added /\ structural' = gate.structural
  BY DEF SetGate
<1> HIDE DEF gate
<1>6. SessionTyped' BY <1>2, <1>3, <1>4, <1>5 DEF CadenceInv, SessionInv, SessionTyped
<1>7. Covers(Gate, scene.source)' BY <1>4, <1>5 DEF Covers, Gate
<1> QED BY <1>2, <1>3, <1>6, <1>7
        DEF CadenceInv, SessionInv, JournalTellsScene, BurstLeadsBackToLive, NothingThroughABody

LEMMA EditKeeps ==
    ASSUME CadenceInv, NEW c \in Cells, edit(c)
    PROVE  CadenceInv'
<1>1. CASE edit_meshless(c) \/ edit_refused(c)
  BY <1>1, RefusalKeeps
<1>2. CASE edit_queued(c)
  <2>1. SessionInv' BY <1>2, WaitingEdit DEF edit_queued, CadenceInv, SessionInv, SessionTyped
  <2>2. DetailInv' BY <1>2, ToggledIs, SceneMoves DEF edit_queued, Queued, CadenceInv
  <2> QED BY <2>1, <2>2 DEF CadenceInv
<1>3. CASE edit_here(c)
  <2> DEFINE gate == WithRegions(Regions(c))
             s == Toggled(c)
  <2>1. /\ scene' = s /\ journal' = Written(c, s) /\ UNCHANGED <<slotVars, bodies>>
        /\ \/ /\ gate_blocked(gate, s.source)
              /\ staged' = {s} /\ SetGate(gate) /\ pending_edits' = Noted(c)
              /\ UNCHANGED <<published_version, live>>
           \/ ~gate_blocked(gate, s.source) /\ Publish(s)
    BY <1>3 DEF edit_here
  <2>2. DetailInv' BY <2>1, ToggledIs, SceneMoves DEF CadenceInv, slotVars, queueVars
  <2>3. SessionInv'
    <3>1. s \in Scenes /\ {s} \in Option(Scenes) BY ToggledIs, OptionMade
    <3>2. CASE staged' = {s} /\ SetGate(gate) /\ pending_edits' = Noted(c)
               /\ UNCHANGED <<published_version, live>>
      BY <2>1, <3>1, <3>2, WaitingEdit
    <3>3. CASE ~gate_blocked(gate, s.source) /\ Publish(s)
      <4>1. Covers(gate, s.source) /\ s.source \subseteq Cells
        BY EditIsCovered, ToggledIs DEF CadenceInv, DetailInv, SessionInv
      <4>2. bodies \cap s.source = {}
        BY <3>3, <4>1, GateHolds DEF CadenceInv, SessionInv, NothingThroughABody
      <4>3. journal' \in [Cells -> Option1] /\ Replayed' = s.source
        BY <2>1, ToggledIs, WrittenIs
      <4> QED BY <2>1, <3>1, <3>3, <4>2, <4>3, PublishKeeps
    <3> QED BY <2>1, <3>2, <3>3
  <2> QED BY <2>2, <2>3 DEF CadenceInv
<1> QED BY <1>1, <1>2, <1>3 DEF edit

(* Undoing a burst leads back to what is solid, which meets no body: it    *)
(* needs no gate.                                                          *)
LEMMA RevertKeeps ==
    ASSUME CadenceInv, Revert, bodies' = bodies, result' \in {result, {}}
    PROVE  CadenceInv'
<1> DEFINE s == IF RolledBack = scene.source THEN scene ELSE NewScene(RolledBack)
<1>1. /\ scene' = s /\ journal' = RolledBackJournal
      /\ \/ /\ enqueue_request(s) /\ pending_edits' = [c \in Cells |-> {}]
            /\ SetGate(OpenGate) /\ staged' = {} /\ Queued
            /\ UNCHANGED <<published_version, live>>
         \/ Publish(s) /\ Queued /\ UNCHANGED <<requested, pending, worker>>
  BY DEF Revert
<1>2. /\ journal' \in [Cells -> Option1] /\ Replayed' = RolledBack
      /\ RolledBack \in SUBSET Cells /\ RolledBack = live
  BY <1>1, RolledBackIs
<1>3. /\ s \in Scenes /\ s.source = RolledBack
      /\ s = scene \/ s.version \notin HeldByQueue
  BY <1>2, NewSceneIs DEF CadenceInv, DetailInv
<1> HIDE DEF s
<1>4. DetailInv' BY <1>1, <1>3, SceneMoves DEF CadenceInv, Queued
<1>5. SessionInv'
  <2>1. CASE Publish(s)
    <3>1. bodies \cap s.source = {}
      BY <1>2, <1>3 DEF CadenceInv, SessionInv, NothingThroughABody
    <3> QED BY <1>1, <1>2, <1>3, <2>1, <3>1, PublishKeeps
  <2>2. CASE /\ pending_edits' = [c \in Cells |-> {}] /\ SetGate(OpenGate) /\ staged' = {}
             /\ UNCHANGED <<published_version, live>>
    <3>1. /\ pending_edits' \in [Cells -> Option(PendingEdits)] /\ NotesAgree'
          /\ RolledBack' = scene'.source
      BY <1>1, <1>2, <1>3, <2>2, NoNotes
    <3>2. SessionTyped'
      BY <1>2, <2>2, <3>1, EmptyGate, OptionMade DEF CadenceInv, SessionInv, SessionTyped
    <3>3. Covers(Gate, scene.source)' BY <1>1, <1>2, <1>3, <2>2 DEF Covers
    <3> QED BY <1>1, <1>2, <1>3, <2>2, <3>1, <3>2, <3>3
            DEF CadenceInv, SessionInv, JournalTellsScene, BurstLeadsBackToLive,
                NothingThroughABody
  <2> QED BY <1>1, <2>1, <2>2
<1> QED BY <1>4, <1>5 DEF CadenceInv

(* Making the scene solid as it is, through the gate.                      *)
LEMMA PublishSceneKeeps ==
    ASSUME CadenceInv, Publish(scene), ~gate_blocked(Gate, scene.source), bodies' = bodies,
           scene' = scene, journal' = journal, result' \in {result, {}},
           UNCHANGED <<epoch, running, shutdown, paused, requested, pending, worker>>
    PROVE  CadenceInv'
<1>1. scene \in Scenes /\ scene.source \subseteq Cells
  BY CellsAssumption DEF CellsAssumption, CadenceInv, DetailInv, Scenes
<1>2. bodies \cap scene.source = {}
  BY <1>1, GateHolds DEF CadenceInv, SessionInv, NothingThroughABody
<1>3. journal' \in [Cells -> Option1] /\ Replayed' = scene.source
  BY DEF CadenceInv, SessionInv, SessionTyped, JournalTellsScene, Replayed
<1>4. SessionInv' BY <1>1, <1>2, <1>3, PublishKeeps
<1>5. DetailInv' BY <1>1, SceneMoves DEF CadenceInv
<1> QED BY <1>4, <1>5 DEF CadenceInv

(* The session does not notice what the slots do.                          *)
LEMMA SessionStays ==
    ASSUME CadenceInv, DetailInv', scene' = scene, bodies' = bodies, live' = live,
           UNCHANGED <<journal, pending_edits, published_version, added, structural>>,
           staged' \in Option(Scenes)
    PROVE  CadenceInv'
BY DEF CadenceInv, SessionInv, SessionTyped, NotesAgree, Covers, Gate, JournalTellsScene,
       Replayed, BurstLeadsBackToLive, RolledBack, NothingThroughABody

LEMMA StepKeeps ==
    ASSUME CadenceInv, step
    PROVE  CadenceInv'
<1>1. CASE step_polled
  <2>1. PICK r \in Through :
            /\ result' = {}
            /\ IF r.scene.source \in Rejected THEN Revert
               ELSE Publish(r.scene) /\ Queued
                    /\ UNCHANGED <<scene, requested, pending, worker, journal>>
    BY <1>1 DEF step_polled
  <2>2. r.scene = scene
    BY DEF Through, Current, CadenceInv, DetailInv, VersionsIdentify
  <2>3. CASE r.scene.source \in Rejected
    BY <1>1, <2>1, <2>3, RevertKeeps DEF step_polled
  <2>4. CASE r.scene.source \notin Rejected
    <3>1. ~gate_blocked(Gate, scene.source) BY <2>2, <2>4 DEF Through
    <3> QED BY <1>1, <2>1, <2>2, <2>4, <3>1, PublishSceneKeeps DEF step_polled, Queued
  <2> QED BY <2>3, <2>4
<1>2. CASE step_staged
  BY <1>2, PublishSceneKeeps DEF step_staged, slotVars, queueVars
<1>3. CASE step_here
  <2>1. bodies' = bodies BY <1>3 DEF step_here
  <2>2. CASE published_version = {scene.version}
    <3>1. /\ staged' = {}
          /\ UNCHANGED <<scene, journal, pending_edits, published_version, added, structural,
                         live, result, requested, pending, worker>>
          /\ Queued
      BY <1>3, <2>2 DEF step_here
    <3>2. DetailInv' BY <3>1, TakenKeeps
          DEF Queued, CadenceInv, DetailInv, VersionsIdentify
    <3> QED BY <2>1, <3>1, <3>2, SessionStays, OptionMade
  <2>3. CASE published_version # {scene.version} /\ scene.source \in Rejected
    BY <1>3, <2>1, <2>3, RevertKeeps DEF step_here
  <2>4. CASE published_version # {scene.version} /\ scene.source \notin Rejected
    <3>1. CASE gate_blocked(Gate, scene.source)
      <4>1. staged' = {scene} /\ UNCHANGED <<scene, slotVars, journal, pending_edits,
                                             published_version, added, structural, live>>
        BY <1>3, <2>4, <3>1 DEF step_here
      <4>2. DetailInv' BY <4>1, TakenKeeps
            DEF slotVars, queueVars, CadenceInv, DetailInv, VersionsIdentify
      <4>3. staged' \in Option(Scenes) BY <4>1, OptionMade DEF CadenceInv, DetailInv
      <4> QED BY <2>1, <4>1, <4>2, <4>3, SessionStays
    <3>2. CASE ~gate_blocked(Gate, scene.source)
      BY <1>3, <2>4, <3>2, PublishSceneKeeps DEF step_here, slotVars, queueVars
    <3> QED BY <3>1, <3>2
  <2> QED BY <2>2, <2>3, <2>4
<1> QED BY <1>1, <1>2, <1>3 DEF step

(* Bodies move, the application pauses, the thread works.                  *)
LEMMA RestKeeps ==
    ASSUME CadenceInv, Move \/ ((pause \/ resume) /\ OthersStay) \/ Behind
    PROVE  CadenceInv'
<1>1. CASE Move
  <2>1. /\ bodies' \cap live = {}
        /\ UNCHANGED <<scene, epoch, requested, pending, running, result, shutdown, paused,
                       worker, journal, pending_edits, published_version, added, structural,
                       staged, live>>
    BY <1>1 DEF Move, detailVars, slotVars, queueVars, cadenceVars, sessionVars
  <2>2. DetailInv' BY <2>1, TakenKeeps DEF CadenceInv, DetailInv, VersionsIdentify
  <2> QED BY <2>1, <2>2
          DEF CadenceInv, SessionInv, SessionTyped, NotesAgree, Covers, Gate, JournalTellsScene,
              Replayed, BurstLeadsBackToLive, RolledBack, NothingThroughABody
<1>2. CASE (pause \/ resume \/ DetailWorker) /\ OthersStay
  <2>1. SlotInv' BY <1>2, OwnerKeeps, WorkerKeeps DEF CadenceInv, DetailInv
  <2>2. pending' \cup running' \cup result' \subseteq pending \cup running \cup result
    BY <1>2 DEF pause, resume, DetailWorker, WorkerRuns, begin_job, finish_job, worker_wait,
                worker_exit, worker_gone, worker_panic, queueVars
  <2>3. DetailInv' BY <1>2, <2>1, <2>2 DEF OthersStay, CadenceInv, DetailInv, VersionsIdentify
  <2>4. staged' \in Option(Scenes)
    BY <1>2 DEF OthersStay, cadenceVars, CadenceInv, SessionInv, SessionTyped
  <2> QED BY <1>2, <2>3, <2>4, SessionStays DEF OthersStay, cadenceVars, sessionVars
<1> QED BY <1>1, <1>2 DEF Behind

LEMMA CadenceStep == CadenceInv /\ [CadenceNext]_vars => CadenceInv'
<1> SUFFICES ASSUME CadenceInv, [CadenceNext]_vars PROVE CadenceInv'
  OBVIOUS
<1>1. CASE UNCHANGED vars
  <2>1. DetailInv' BY <1>1, TakenKeeps
        DEF vars, detailVars, slotVars, queueVars, CadenceInv, DetailInv, VersionsIdentify
  <2> QED BY <1>1, <2>1, SessionStays
          DEF vars, detailVars, cadenceVars, sessionVars, CadenceInv, SessionInv, SessionTyped
<1>2. CASE CadenceNext
  BY <1>2, EditKeeps, StepKeeps, RestKeeps DEF CadenceNext, Frame
<1> QED BY <1>1, <1>2

LEMMA CadenceInitially == CadenceInit => CadenceInv
<1> SUFFICES ASSUME CadenceInit PROVE CadenceInv
  OBVIOUS
<1>1. /\ Replayed \subseteq Cells /\ scene.source = Replayed /\ live = Replayed
      /\ scene \in Scenes
  <2>1. Replayed \in Sources BY CellsAssumption DEF CellsAssumption, Replayed
  <2>2. scene = [version |-> CHOOSE v \in Versions : TRUE, source |-> Replayed] /\ live = Replayed
    BY DEF CadenceInit
  <2>3. (CHOOSE v \in Versions : TRUE) \in Versions
    BY AddressesAssumption DEF AddressesAssumption
  <2>4. Replayed \subseteq Cells BY DEF Replayed
  <2> QED BY <2>1, <2>2, <2>3, <2>4 DEF Scenes
<1>2. DetailInv
  BY <1>1, SlotsInitially DEF CadenceInit, SlotInit, DetailInv, VersionsIdentify
<1>3. SessionTyped
  <2>1. {} \in Option(PendingEdits) /\ {} \in Option(Versions) /\ {} \in Option(Scenes)
    BY OptionMade
  <2>2. /\ journal \in [Cells -> Option1] /\ pending_edits = [c \in Cells |-> {}]
        /\ published_version = {} /\ staged = {} /\ added = <<>> /\ structural = FALSE
    BY DEF CadenceInit
  <2>3. pending_edits \in [Cells -> Option(PendingEdits)]
    BY <2>1, <2>2, Zenon
  <2>4. added \in Seq(Cells) /\ structural \in BOOLEAN
    <3>1. <<>> \in Seq(Cells) OBVIOUS
    <3>2. added = <<>> /\ structural = FALSE BY DEF CadenceInit
    <3> QED BY <3>1, <3>2, Zenon
  <2> QED BY <1>1, <2>1, <2>2, <2>3, <2>4 DEF SessionTyped
<1>4. NotesAgree /\ RolledBack = scene.source
  BY <1>1 DEF CadenceInit, NotesAgree, RolledBack
<1>5. Covers(Gate, scene.source) BY <1>1 DEF Covers
<1> QED BY <1>1, <1>2, <1>3, <1>4, <1>5
        DEF CadenceInit, CadenceInv, SessionInv, JournalTellsScene, BurstLeadsBackToLive,
            NothingThroughABody

LEMMA CadenceInvAlways == CadenceSpec => []CadenceInv
<1>1. CadenceInit => CadenceInv BY CadenceInitially
<1>2. CadenceInv /\ [CadenceNext]_vars => CadenceInv' BY CadenceStep
<1> QED BY <1>1, <1>2, PTL DEF CadenceSpec

-----------------------------------------------------------------------------
(* No publication places material through a body.                          *)
THEOREM NeverThroughABody == CadenceSpec => []NothingThroughABody
BY CadenceInvAlways, PTL DEF CadenceInv, SessionInv

(* A save replays to the scene the player sees, whatever was rolled back.  *)
THEOREM SaveTellsScene == CadenceSpec => []JournalTellsScene
BY CadenceInvAlways, PTL DEF CadenceInv, SessionInv

(* A refused burst can always be undone to what is solid.                  *)
THEOREM BurstsLeadBack == CadenceSpec => []BurstLeadsBackToLive
BY CadenceInvAlways, PTL DEF CadenceInv, SessionInv
=============================================================================
