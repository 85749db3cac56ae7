------------------------- MODULE LatestPreparation -------------------------
(***************************************************************************)
(* What a background preparation promises its owner, whatever threads and  *)
(* slots it uses (the module docs of async_detail_collision.rs and         *)
(* async_indirect.rs): only the version wanted last is ever delivered, a   *)
(* version is prepared at most once until it has been delivered, and       *)
(* forgetting (reset) takes back everything at once, also what is being    *)
(* prepared.  An age tells apart the sources before and after a reset: the *)
(* same version may then mean something else.                              *)
(***************************************************************************)
CONSTANTS Versions, Ages

VARIABLES
    wanted,   \* Option: the version wanted last
    owed,     \* a preparation of it is still to come
    ready,    \* Option: the version prepared, with the age it was made in
    age,
    serving   \* somebody prepares

vars == <<wanted, owed, ready, age, serving>>

Init ==
    /\ wanted = {} /\ owed = FALSE /\ ready = {}
    /\ age \in Ages /\ serving \in BOOLEAN

(* Wanting what is ready, or on its way, costs no second preparation. *)
Want(v) ==
    /\ wanted' = {v}
    /\ owed' = (serving /\ ready # {<<v, age>>})
    /\ UNCHANGED <<ready, age, serving>>

Prepare ==
    /\ serving /\ owed
    /\ ready' = wanted \X {age}
    /\ owed' = FALSE
    /\ UNCHANGED <<wanted, age, serving>>

Deliver(v) ==
    /\ wanted = {v} /\ ready = {<<v, age>>}
    /\ ready' = {}
    /\ UNCHANGED <<wanted, owed, age, serving>>

Forget ==
    /\ wanted' = {} /\ owed' = FALSE /\ ready' = {}
    /\ age' \in Ages \ {age}
    /\ UNCHANGED serving

Stop ==
    /\ serving /\ serving' = FALSE
    /\ owed' = FALSE
    /\ UNCHANGED <<wanted, ready, age>>

Next ==
    \/ \E v \in Versions : Want(v) \/ Deliver(v)
    \/ Prepare \/ Forget \/ Stop

Safety == Init /\ [][Next]_vars

(* A version that stays wanted does not stay owed: what weak fairness of    *)
(* Prepare for each version amounts to, since Prepare ends the debt.        *)
Progress == \A v \in Versions : []<>~(wanted = {v} /\ owed)

Spec == Safety /\ Progress
=============================================================================
