----------------------------- MODULE SaveSlots -----------------------------
(***************************************************************************)
(* The session a player comes back to: one main file and numbered recovery *)
(* files, saved through a temporary file and a rename, chosen from when    *)
(* the program starts, with crashes between any two steps.  It stands for  *)
(* both programs that work this way: the wetland                           *)
(* (apps/explorer/src/wetland.rs, wetland_state.rs) and the sandbox        *)
(* (apps/explorer/src/lib.rs, matterweave-core/src/persistence.rs).        *)
(*                                                                         *)
(* What a file holds is which session wrote it, how far that session had   *)
(* come, and whether it can be restored.  A file cannot be restored when   *)
(* it is torn, of another version, or holds a burst of edits whose         *)
(* collision is refused (DetailCadence).  Left out: the name of the        *)
(* temporary file, the sandbox's second chain of slots for a world whose   *)
(* session is refused, and directory entries that cannot be looked up.  An *)
(* operator named after another one and a defect shows what the properties *)
(* would notice; no action uses it.                                        *)
(***************************************************************************)
EXTENDS Naturals, FiniteSets, FiniteSetsExt

CONSTANTS
    MaxSlot,       \* recovery slots 1..MaxSlot; 128 for the wetland
    MaxStates,     \* bound: states all sessions go through
    MaxSessions,   \* bound: sessions that start fresh
    Faults         \* bound: failing steps of a save, misread starts, crashes

ASSUME SlotsAssumption == {MaxSlot, MaxStates, MaxSessions, Faults} \subseteq Nat

VARIABLES
    app,        \* "wetland" or "sandbox"
    disk,       \* per slot, Option: the file a reader finds
    durable,    \* per slot, Option: the file a power loss cannot take back
    session,    \* Option: the running session
    saving,     \* Option: the save its thread is in
    acked,      \* Option: the last save that was reported and is durable
    state,      \* the states all sessions went through
    sessions,   \* fresh sessions so far
    misread,    \* some start could not read a slot
    faults      \* left

vars == <<app, disk, durable, session, saving, acked, state, sessions, misread, faults>>

Slots == 0..MaxSlot     \* 0 is the main file
Option(S) == {s \in SUBSET S : \A x, y \in s : x = y}

\* Files that were there before have the number of their slot.
Sessions == 0..(MaxSlot + MaxSessions)
States == 0..MaxStates
Files == [id : Sessions, state : States, restorable : BOOLEAN, synced : BOOLEAN]

\* `burst`: edits whose collision is not confirmed yet, and what will become of it.
Running == [slot : Slots, id : Sessions, state : States, dirty : BOOLEAN,
            burst : {"none", "sound", "doomed"}]
Saving == [file : Files, step : {"written", "synced", "renamed"}, exit : BOOLEAN]
Acked == [slot : Slots, id : Sessions, state : States]

Found == {s \in Slots : disk[s] # {}}
Idle == saving = {}

\* Slots are taken in order, the main file first.
Init ==
    /\ app \in {"wetland", "sandbox"}
    /\ \E n \in 0..(MaxSlot + 1) : \E good \in SUBSET (0..(n - 1)) :
          disk = [s \in Slots |-> IF s < n
                    THEN {[id |-> s, state |-> 0, restorable |-> s \in good, synced |-> TRUE]}
                    ELSE {}]
    /\ durable = disk
    /\ session = {} /\ saving = {} /\ acked = {}
    /\ state = 0 /\ sessions = 0 /\ misread = FALSE /\ faults = Faults

-----------------------------------------------------------------------------
(* Starting *)

\* `load_recovering_with`: the slot to use, if any.
AbsentOrUnread(unread) == (Slots \ Found) \cup unread
Absent(unread) == (Slots \ Found) \ unread
Usable(unread) == {s \in Found \ unread : \A f \in disk[s] : f.restorable}

FirstOf(S) == IF S = {} THEN {} ELSE {Min(S)}
LastOf(S) == IF S = {} THEN {} ELSE {Max(S)}

wetland_slot_fresh_first(unread) ==
    IF 0 \in Absent(unread) \cup Usable(unread) THEN {0}
    ELSE IF Absent(unread) # {} THEN FirstOf(Absent(unread))
    ELSE LastOf(Usable(unread))
wetland_slot(unread) ==
    IF 0 \in Absent(unread) \cup Usable(unread) THEN {0}
    ELSE IF Usable(unread) # {} THEN LastOf(Usable(unread))
    ELSE FirstOf(Absent(unread))

\* `Explorer::new` scans up to the first slot that does not exist.
Scanned == {s \in Slots \ {0} : 1..s \subseteq Found}
sandbox_slot(unread) ==
    IF 0 \notin Found \/ 0 \in Usable(unread) THEN {0}
    ELSE IF Scanned \cap Usable(unread) # {} THEN LastOf(Scanned \cap Usable(unread))
    ELSE FirstOf(Slots \ ({0} \cup Found))

slot_for(unread) == IF app = "wetland" THEN wetland_slot(unread) ELSE sandbox_slot(unread)

(* The session that begins in a slot: the one found there, or a fresh one.  *)
Continued(s) ==
    {[slot |-> s, id |-> f.id, state |-> f.state, dirty |-> app = "sandbox",
      burst |-> "none"] : f \in disk[s]}
Fresh(s) ==
    {[slot |-> s, id |-> MaxSlot + sessions + 1, state |-> 0, dirty |-> app = "sandbox",
      burst |-> "none"]}

start ==
    /\ session = {}
    /\ \E unread \in SUBSET Slots :
          /\ unread # {} => faults > 0
          /\ faults' = IF unread = {} THEN faults ELSE faults - 1
          /\ misread' = (misread \/ unread # {})
          /\ \E s \in slot_for(unread) :
                IF s \in Usable(unread)
                THEN session' = Continued(s) /\ UNCHANGED sessions
                ELSE /\ sessions < MaxSessions /\ sessions' = sessions + 1
                     /\ session' = Fresh(s)
    /\ UNCHANGED <<app, disk, durable, saving, acked, state>>

-----------------------------------------------------------------------------
(* Editing.  What the cadence does with a burst is in DetailCadence.        *)

Advance(r, burst) ==
    session' = {[r EXCEPT !.state = state', !.dirty = TRUE, !.burst = burst]}
AdvanceSilently(r, burst) ==
    session' = {[r EXCEPT !.state = state', !.burst = burst]}

Others == <<app, disk, durable, saving, acked, sessions, misread, faults>>

edit ==
    /\ Idle /\ state < MaxStates
    /\ state' = state + 1
    /\ \E r \in session, burst \in {"none", "sound", "doomed"} :
          /\ app = "sandbox" => burst = "none"
          /\ burst = "doomed" => state' < MaxStates     \* room to put it back
          /\ Advance(r, burst)
    /\ UNCHANGED Others

\* sync_detail_collision: the burst is published, or put back as a whole.
confirm ==
    /\ Idle
    /\ \E r \in session :
          /\ r.burst = "sound"
          /\ session' = {[r EXCEPT !.burst = "none"]}
    /\ UNCHANGED <<Others, state>>

RevertedClean(r) == AdvanceSilently(r, "none")
Reverted(r) == Advance(r, "none")

revert ==
    /\ Idle /\ state < MaxStates
    /\ state' = state + 1
    /\ \E r \in session : r.burst = "doomed" /\ Reverted(r)
    /\ UNCHANGED Others

-----------------------------------------------------------------------------
(* Saving, on the session's own thread: nothing else happens meanwhile,     *)
(* except that the machine may stop.                                       *)

Written(r) ==
    [id |-> r.id, state |-> r.state, restorable |-> r.burst # "doomed", synced |-> FALSE]

save(exit) ==
    /\ Idle
    /\ \E r \in session :
          saving' = {[file |-> Written(r), step |-> "written", exit |-> exit]}
    /\ UNCHANGED <<app, disk, durable, session, acked, state, sessions, misread, faults>>

\* The application saves when it leaves, and leaves whether or not it could.
Leave(w, r) == IF w.exit THEN session' = {} ELSE session' = {r}

sync_all ==
    /\ \E w \in saving :
          /\ w.step = "written"
          /\ saving' = {[w EXCEPT !.step = "synced", !.file.synced = TRUE]}
    /\ UNCHANGED <<app, disk, durable, session, acked, state, sessions, misread, faults>>

RenameReadyUnsynced == {w \in saving : w.step \in {"written", "synced"}}
RenameReady == {w \in saving : w.step = "synced"}

rename ==
    /\ \E w \in RenameReady, r \in session :
          /\ disk' = [disk EXCEPT ![r.slot] = {w.file}]
          /\ saving' = {[w EXCEPT !.step = "renamed"]}
    /\ UNCHANGED <<app, durable, session, acked, state, sessions, misread, faults>>

\* The save is reported: the session has nothing left to save.
sync_directory ==
    /\ \E w \in saving, r \in session :
          /\ w.step = "renamed"
          /\ durable' = disk
          /\ acked' = {[slot |-> r.slot, id |-> r.id, state |-> w.file.state]}
          /\ Leave(w, [r EXCEPT !.dirty = FALSE])
    /\ saving' = {}
    /\ UNCHANGED <<app, disk, state, sessions, misread, faults>>

Fault == faults > 0 /\ faults' = faults - 1

\* Any step up to the rename: the temporary file is removed.
save_fails ==
    /\ Fault
    /\ \E w \in saving, r \in session : w.step # "renamed" /\ Leave(w, r)
    /\ saving' = {}
    /\ UNCHANGED <<app, disk, durable, acked, state, sessions, misread>>

\* The sandbox does not look at the outcome; the wetland reports a failure.
KeepsDirty == app = "wetland"

sync_directory_fails ==
    /\ Fault
    /\ \E w \in saving, r \in session :
          /\ w.step = "renamed"
          /\ Leave(w, [r EXCEPT !.dirty = r.dirty /\ KeepsDirty])
    /\ saving' = {}
    /\ UNCHANGED <<app, disk, durable, acked, state, sessions, misread>>

-----------------------------------------------------------------------------
(* The machine stops: a name leads to the file of before or after a rename  *)
(* that was not made durable, and a file that was not synced holds nothing. *)

Torn(f) == IF f.synced THEN f ELSE [f EXCEPT !.restorable = FALSE, !.state = 0]
crash ==
    /\ Fault
    /\ \E left \in {disk, durable} :
          disk' = [s \in Slots |-> {Torn(f) : f \in left[s]}]
    /\ durable' = disk'
    /\ session' = {} /\ saving' = {}
    /\ UNCHANGED <<app, acked, state, sessions, misread>>

StepOfSave == sync_all \/ rename \/ sync_directory \/ save_fails \/ sync_directory_fails
Save == \E exit \in BOOLEAN : save(exit)
Next == start \/ edit \/ confirm \/ revert \/ Save \/ StepOfSave \/ crash

(* There are frames between saves, so that a burst is settled in the end    *)
(* however often the player saves; a session with something to save does so *)
(* after 15 or 30 seconds; a save comes to its end.  Nothing is assumed of  *)
(* edits, starts and exits.                                                *)
autosave == (\E r \in session : r.dirty) /\ save(FALSE)
Fairness == SF_vars(confirm) /\ SF_vars(revert) /\ WF_vars(autosave) /\ WF_vars(StepOfSave)
Spec == Init /\ [][Next]_vars /\ Fairness

-----------------------------------------------------------------------------
(* Properties *)

(* Every variable stays within its type. *)
SavesTypeOK ==
    /\ app \in {"wetland", "sandbox"}
    /\ disk \in [Slots -> Option(Files)] /\ durable \in [Slots -> Option(Files)]
    /\ session \in Option(Running) /\ saving \in Option(Saving) /\ acked \in Option(Acked)
    /\ state \in States /\ sessions \in 0..MaxSessions
    /\ misread \in BOOLEAN /\ faults \in 0..Faults

(* A save that was reported survives: whatever happened since, a start and  *)
(* a power loss both find that session in its slot, as far as it had come.  *)
Holds(files, a) == \E f \in files : f.id = a.id /\ f.state >= a.state
AckedSurvives ==
    \A a \in acked : Holds(disk[a.slot], a) /\ Holds(durable[a.slot], a)

(* No file is ever lost or replaced except by a later state of the session  *)
(* it belongs to: one that could not be read or restored stays as it was,   *)
(* for whoever can read it.                                                *)
Continues(old, new) == \A f \in old : \E g \in new : g.id = f.id /\ g.state >= f.state
SessionsKept == [][\A s \in Slots : Continues(durable[s], durable'[s])]_durable

(* As long as every file can be read, whoever starts gets the session that  *)
(* was saved last, unless what replaced it in the meantime is refused.      *)
AckedComesBack ==
    [][session = {} /\ session' # {} /\ ~misread' =>
         \A a \in acked :
            (\A f \in disk[a.slot] : f.restorable)
               => \E r \in session' : r.id = a.id /\ r.state >= a.state]_session

(* A session that goes on is saved as it is, sooner or later, in a form     *)
(* that can be restored, also after edits that were put back and saves      *)
(* that failed.  (A fresh session has nothing to save before an edit.)      *)
Safe == \A r \in session : \/ r.state = 0
                             \/ \E f \in disk[r.slot] :
                                   f.restorable /\ f.id = r.id /\ f.state = r.state
EverythingSaved == []<>Safe
=============================================================================
