-------------------------- MODULE SaveSlotsProofs ---------------------------
(***************************************************************************)
(* Saves survive, for any number of slots, sessions, states and faults.    *)
(***************************************************************************)
EXTENDS SaveSlots, WellFoundedInduction, TLAPS

\* Sets of naturals have a least element, and bounded ones a greatest.
LEMMA Least ==
    ASSUME NEW T, T \subseteq Nat, T # {}
    PROVE  \E x \in T : \A y \in T : x <= y
<1>1. \E R : IsWellFoundedOn(R, Nat) /\ \A x, y \in Nat : <<y, x>> \in R <=> y < x
  <2>1. \A x, y \in Nat : <<y, x>> \in OpToRel(<, Nat) <=> y < x
    BY DEF OpToRel
  <2> QED BY <2>1, NatLessThanWellFounded
<1>2. PICK R : IsWellFoundedOn(R, Nat) /\ \A x, y \in Nat : <<y, x>> \in R <=> y < x
  BY <1>1
<1>3. PICK x \in T : \A y \in T : ~(<<y, x>> \in R)
  BY <1>2, WFMin
<1>4. ASSUME NEW y \in T PROVE x <= y
  <2>1. ~(y < x) BY <1>2, <1>3, Zenon
  <2> QED BY <2>1
<1> QED BY <1>4

LEMMA Greatest ==
    ASSUME NEW bound \in Nat, NEW T, T \subseteq 0..bound, T # {}
    PROVE  \E x \in T : \A y \in T : x >= y
<1> DEFINE U == {bound - y : y \in T}
<1>1. \A y \in T : y \in Int /\ bound - y \in Nat OBVIOUS
<1>2. U \subseteq Nat /\ U # {} BY <1>1
<1>3. PICK u \in U : \A v \in U : u <= v BY <1>2, Least
<1>4. PICK x \in T : u = bound - x OBVIOUS
<1>5. ASSUME NEW y \in T PROVE x >= y
  <2>1. bound - x <= bound - y BY <1>3, <1>4
  <2> QED BY <2>1, <1>1
<1> QED BY <1>5

(* What is on the disk is synced, and never behind what is durable.        *)
FilesSynced == \A s \in Slots : \A f \in disk[s] \cup durable[s] : f.synced
DiskIsLater == \A s \in Slots : Continues(durable[s], disk[s])

(* States are counted once for all sessions.                               *)
StatesGrow ==
    /\ \A s \in Slots : \A f \in disk[s] : f.state <= state
    /\ \A r \in session : r.state <= state

(* Nobody else's file is in the slot of the session that runs, nor a later *)
(* state of its own.                                                       *)
SlotIsOwned == \A r \in session : \A f \in disk[r.slot] : f.id = r.id /\ f.state <= r.state

(* A session waits while it is saved.                                      *)
SaveIsCurrent ==
    \A w \in saving :
        /\ session # {}
        /\ \A r \in session :
              /\ w.file.id = r.id /\ w.file.state = r.state
              /\ w.step # "written" => w.file.synced
              /\ w.step = "renamed" => disk[r.slot] = {w.file}

AckedIsDurable == \A a \in acked : Holds(durable[a.slot], a)

SavesInv ==
    /\ SavesTypeOK /\ FilesSynced /\ DiskIsLater /\ StatesGrow
    /\ SlotIsOwned /\ SaveIsCurrent /\ AckedIsDurable

-----------------------------------------------------------------------------
LEMMA SlotsAre == 0 \in Slots /\ Slots \subseteq Nat /\ MaxSlot \in Nat /\ Slots = 0..MaxSlot
BY SlotsAssumption DEF Slots

LEMMA FirstIs ==
    ASSUME NEW S \in SUBSET Slots, S # {}
    PROVE  FirstOf(S) = {Min(S)} /\ Min(S) \in S /\ \A y \in S : Min(S) <= y
<1>1. \E x \in S : \A y \in S : x <= y BY SlotsAre, Least
<1> QED BY <1>1 DEF FirstOf, Min

LEMMA LastIs ==
    ASSUME NEW S \in SUBSET Slots, S # {}
    PROVE  LastOf(S) = {Max(S)} /\ Max(S) \in S /\ \A y \in S : Max(S) >= y
<1>1. \E x \in S : \A y \in S : x >= y BY SlotsAre, Greatest
<1> QED BY <1>1 DEF LastOf, Max

(* A start takes over a file it could restore, or a slot without a file.   *)
LEMMA ChosenSlot ==
    ASSUME NEW unread \in SUBSET Slots, NEW s \in slot_for(unread)
    PROVE  s \in Slots /\ (s \in Usable(unread) \/ s \in Slots \ Found)
<1> USE SlotsAre
<1>1. /\ Usable(unread) \in SUBSET Slots /\ Absent(unread) \in SUBSET Slots
      /\ Absent(unread) \subseteq Slots \ Found
      /\ Slots \ ({0} \cup Found) \in SUBSET Slots
      /\ Scanned \cap Usable(unread) \in SUBSET Slots
  BY DEF Usable, Absent, Found, Scanned
<1>2. \A S \in SUBSET Slots : S = {} => FirstOf(S) = {} /\ LastOf(S) = {}
  BY DEF FirstOf, LastOf
<1>3. \A S \in SUBSET Slots : \A t \in FirstOf(S) : t \in S BY <1>2, FirstIs
<1>4. \A S \in SUBSET Slots : \A t \in LastOf(S) : t \in S BY <1>2, LastIs
<1>5. CASE app = "wetland"
  <2>1. s \in wetland_slot(unread) BY <1>5 DEF slot_for
  <2> QED BY <2>1, <1>1, <1>3, <1>4 DEF wetland_slot
<1>6. CASE app # "wetland"
  <2>1. s \in sandbox_slot(unread) BY <1>6 DEF slot_for
  <2> QED BY <2>1, <1>1, <1>3, <1>4 DEF sandbox_slot, Usable
<1> QED BY <1>5, <1>6

LEMMA ContinuesIsOrder ==
    ASSUME NEW A \in SUBSET Files, NEW B \in SUBSET Files, NEW C \in SUBSET Files
    PROVE  /\ Continues(A, A)
           /\ Continues(A, B) /\ Continues(B, C) => Continues(A, C)
<1>1. \A f \in Files : f.state \in Int BY SlotsAssumption DEF Files, States
<1> QED BY <1>1 DEF Continues

LEMMA HoldsStays ==
    ASSUME NEW a \in Acked, NEW A \in SUBSET Files, NEW B \in SUBSET Files,
           Holds(A, a), Continues(A, B)
    PROVE  Holds(B, a)
<1>1. \A f \in Files : f.state \in Int BY SlotsAssumption DEF Files, States
<1>2. a.state \in Int BY SlotsAssumption DEF Acked, States
<1> QED BY <1>1, <1>2 DEF Continues, Holds

LEMMA OptionOf ==
    ASSUME NEW S
    PROVE  {} \in Option(S) /\ \A x \in S : {x} \in Option(S)
BY DEF Option

LEMMA OptionHolds ==
    ASSUME NEW S, NEW o \in Option(S), NEW x \in o
    PROVE  x \in S /\ o = {x}
BY DEF Option

LEMMA StatesAre == States \subseteq Nat /\ \A n \in Nat : n <= MaxStates <=> n \in States
BY SlotsAssumption DEF States

(* What every step below relies on. *)
LEMMA Disks ==
    ASSUME SavesTypeOK
    PROVE  \A s \in Slots : /\ disk[s] \in SUBSET Files /\ durable[s] \in SUBSET Files
                            /\ \A f, g \in disk[s] : f = g
BY DEF SavesTypeOK, Option

LEMMA SavesInit == ASSUME Init PROVE SavesInv
<1> USE SlotsAssumption
<1>a. PICK n \in 0..(MaxSlot + 1) : \E good \in SUBSET (0..(n - 1)) :
          disk = [s \in Slots |-> IF s < n
                    THEN {[id |-> s, state |-> 0, restorable |-> s \in good, synced |-> TRUE]}
                    ELSE {}]
  BY DEF Init
<1>1. PICK good \in SUBSET (0..(n - 1)) :
          disk = [s \in Slots |-> IF s < n
                    THEN {[id |-> s, state |-> 0, restorable |-> s \in good, synced |-> TRUE]}
                    ELSE {}]
  BY <1>a
<1>2. \A s \in Slots :
          [id |-> s, state |-> 0, restorable |-> s \in good, synced |-> TRUE] \in Files
  BY DEF Files, Sessions, States, Slots
<1>3. disk \in [Slots -> Option(Files)]
  BY <1>1, <1>2, OptionOf
<1>4. SavesTypeOK
  <2>1. 0 \in States /\ 0 \in 0..MaxSessions /\ Faults \in 0..Faults BY DEF States
  <2>2. {} \in Option(Running) /\ {} \in Option(Saving) /\ {} \in Option(Acked) BY OptionOf
  <2> QED BY <1>3, <2>1, <2>2 DEF Init, SavesTypeOK
<1>5. \A s \in Slots : \A f \in disk[s] : f.synced /\ f.state = 0
  BY <1>1
<1>6. \A s \in Slots : durable[s] = disk[s]
  BY DEF Init
<1>7. DiskIsLater
  BY <1>4, <1>6, Disks, ContinuesIsOrder DEF DiskIsLater
<1> QED BY <1>4, <1>5, <1>6, <1>7
        DEF Init, SavesInv, FilesSynced, StatesGrow, SlotIsOwned, SaveIsCurrent, AckedIsDurable

(* The states of the files and of the session are numbers. *)
LEMMA Counted ==
    ASSUME SavesTypeOK
    PROVE  /\ state \in Nat
           /\ \A s \in Slots : \A f \in disk[s] : f.state \in Nat
           /\ \A r \in session : r.state \in Nat /\ r.slot \in Slots
           /\ \A w \in saving : w.file \in Files /\ w.file.state \in Nat
<1>1. \A f \in Files : f.state \in Nat BY StatesAre DEF Files
<1>2. \A r \in session : r \in Running BY OptionHolds DEF SavesTypeOK
<1>3. \A w \in saving : w \in Saving BY OptionHolds DEF SavesTypeOK
<1>4. \A r \in Running : r.state \in Nat /\ r.slot \in Slots BY StatesAre DEF Running
<1>5. \A w \in Saving : w.file \in Files BY DEF Saving
<1>6. state \in Nat BY StatesAre DEF SavesTypeOK
<1> QED BY <1>1, <1>2, <1>3, <1>4, <1>5, <1>6, Disks

(* A step that leaves the disk alone loses nothing.                        *)
LEMMA NothingMoves ==
    ASSUME SavesInv, UNCHANGED <<disk, durable>>
    PROVE  /\ FilesSynced' /\ DiskIsLater'
           /\ \A s \in Slots : Continues(durable[s], durable'[s])
<1>1. SavesTypeOK BY DEF SavesInv
<1> QED BY <1>1, Disks, ContinuesIsOrder DEF SavesInv, FilesSynced, DiskIsLater

LEMMA Starting ==
    ASSUME SavesInv, start
    PROVE  SavesInv' /\ \A s \in Slots : Continues(durable[s], durable'[s])
<1> USE SlotsAssumption
<1>1. SavesTypeOK /\ saving = {} /\ session = {}
  BY DEF SavesInv, SaveIsCurrent, start
<1>a. PICK unread \in SUBSET Slots :
          /\ unread # {} => faults > 0
          /\ faults' = IF unread = {} THEN faults ELSE faults - 1
          /\ misread' = (misread \/ unread # {})
          /\ \E s \in slot_for(unread) :
                IF s \in Usable(unread)
                THEN session' = Continued(s) /\ UNCHANGED sessions
                ELSE /\ sessions < MaxSessions /\ sessions' = sessions + 1
                     /\ session' = Fresh(s)
  BY DEF start
<1>2. PICK s \in slot_for(unread) :
          IF s \in Usable(unread)
          THEN session' = Continued(s) /\ UNCHANGED sessions
          ELSE /\ sessions < MaxSessions /\ sessions' = sessions + 1
               /\ session' = Fresh(s)
  BY <1>a
<1>3. UNCHANGED <<app, disk, durable, saving, acked, state>>
  BY DEF start
<1>4. s \in Slots /\ (s \in Usable(unread) \/ s \in Slots \ Found)
  BY ChosenSlot
<1>5. /\ session' \in Option(Running) /\ sessions' \in 0..MaxSessions
      /\ \A r \in session' :
            /\ r.state <= state /\ r.slot = s
            /\ \A f \in disk[s] : f.id = r.id /\ f.state <= r.state
  <2>1. CASE s \in Usable(unread)
    <3>1. disk[s] # {} BY <2>1 DEF Usable, Found
    <3>2. PICK f \in disk[s] : TRUE BY <3>1
    <3>3. disk[s] = {f} /\ f \in Files BY <1>1, <1>4, Disks
    <3>4. /\ f.state \in Nat /\ f.state <= state
      BY <1>1, <1>4, Counted DEF SavesInv, StatesGrow
    <3>5. session' = {[slot |-> s, id |-> f.id, state |-> f.state, dirty |-> app = "sandbox",
                       burst |-> "none"]}
      BY <1>2, <2>1, <3>3 DEF Continued
    <3>6. [slot |-> s, id |-> f.id, state |-> f.state, dirty |-> app = "sandbox",
           burst |-> "none"] \in Running
      BY <1>4, <3>3 DEF Running, Files
    <3> QED BY <1>1, <1>2, <2>1, <3>3, <3>4, <3>5, <3>6, OptionOf DEF SavesTypeOK
  <2>2. CASE s \notin Usable(unread)
    <3>1. disk[s] = {} BY <1>4, <2>2 DEF Found
    <3>2. session' = Fresh(s) /\ sessions < MaxSessions /\ sessions' = sessions + 1
      BY <1>2, <2>2
    <3>3. MaxSlot + sessions + 1 \in Sessions /\ sessions' \in 0..MaxSessions
      BY <1>1, <3>2 DEF SavesTypeOK, Sessions
    <3>4. 0 \in States /\ 0 <= state BY <1>1, Counted DEF States
    <3>5. [slot |-> s, id |-> MaxSlot + sessions + 1, state |-> 0, dirty |-> app = "sandbox",
           burst |-> "none"] \in Running
      BY <1>4, <3>3, <3>4 DEF Running
    <3> QED BY <3>1, <3>2, <3>3, <3>4, <3>5, OptionOf DEF Fresh
  <2> QED BY <2>1, <2>2
<1>6. misread' \in BOOLEAN /\ faults' \in 0..Faults
  BY <1>1, <1>a DEF SavesTypeOK
<1>7. SavesTypeOK' BY <1>1, <1>3, <1>5, <1>6 DEF SavesTypeOK
<1>8. /\ StatesGrow' /\ SlotIsOwned' /\ SaveIsCurrent' /\ AckedIsDurable'
  BY <1>1, <1>3, <1>5 DEF SavesInv, StatesGrow, SlotIsOwned, SaveIsCurrent, AckedIsDurable
<1> QED BY <1>3, <1>7, <1>8, NothingMoves DEF SavesInv

(* The session goes on to another state, or another condition of this one. *)
LEMMA Playing ==
    ASSUME SavesInv, edit \/ confirm \/ revert
    PROVE  SavesInv' /\ \A s \in Slots : Continues(durable[s], durable'[s])
<1> USE SlotsAssumption
<1>1. SavesTypeOK /\ saving = {} BY DEF SavesInv, edit, confirm, revert, Idle
<1>2. UNCHANGED Others BY DEF edit, confirm, revert
<1>3. PICK r \in session : \E dirty \in BOOLEAN, burst \in {"none", "sound", "doomed"} :
          \/ /\ session' = {[r EXCEPT !.state = state', !.dirty = dirty, !.burst = burst]}
             /\ state' = state + 1 /\ state < MaxStates
          \/ session' = {[r EXCEPT !.burst = burst]} /\ state' = state
  BY DEF edit, confirm, revert, Advance, Reverted
<1>4. r \in Running /\ r.state \in Nat /\ r.slot \in Slots /\ r.state <= state /\ state \in Nat
  BY <1>1, OptionHolds, Counted DEF SavesInv, SavesTypeOK, StatesGrow
<1>5. state' \in States /\ state <= state'
  BY <1>1, <1>3, <1>4, StatesAre DEF SavesTypeOK
<1>6. PICK q : /\ session' = {q} /\ q \in Running /\ q.slot = r.slot /\ q.id = r.id
               /\ (q.state = r.state \/ q.state = state') /\ q.state <= state'
  <2>1. PICK dirty \in BOOLEAN, burst \in {"none", "sound", "doomed"} :
          \/ session' = {[r EXCEPT !.state = state', !.dirty = dirty, !.burst = burst]}
          \/ session' = {[r EXCEPT !.burst = burst]}
    BY <1>3
  <2> DEFINE new == [r EXCEPT !.state = state', !.dirty = dirty, !.burst = burst]
             same == [r EXCEPT !.burst = burst]
  <2>2. new \in Running /\ new.slot = r.slot /\ new.id = r.id /\ new.state = state'
    BY <1>4, <1>5 DEF Running
  <2>3. same \in Running /\ same.slot = r.slot /\ same.id = r.id /\ same.state = r.state
    BY <1>4 DEF Running
  <2>4. r.state <= state' /\ state' <= state' BY <1>4, <1>5, StatesAre
  <2>5. CASE session' = {new} BY <2>2, <2>4, <2>5
  <2>6. CASE session' = {same} BY <2>3, <2>4, <2>6
  <2> QED BY <2>1, <2>5, <2>6
<1>7. \A f \in disk[r.slot] : f.id = r.id /\ f.state <= r.state /\ f.state <= state /\ f.state \in Nat
  BY <1>1, <1>4, Counted DEF SavesInv, SlotIsOwned, StatesGrow
<1>8. SavesTypeOK' BY <1>1, <1>2, <1>5, <1>6, OptionOf DEF SavesTypeOK, Others
<1>9. StatesGrow'
  <2>1. ASSUME NEW s \in Slots, NEW f \in disk[s] PROVE f.state <= state'
    BY <1>1, <1>4, <1>5, Counted, StatesAre DEF SavesInv, StatesGrow
  <2> QED BY <2>1, <1>2, <1>6 DEF StatesGrow, Others
<1>10. SlotIsOwned'
  BY <1>2, <1>4, <1>5, <1>6, <1>7, StatesAre DEF SlotIsOwned, Others
<1>11. SaveIsCurrent' /\ AckedIsDurable'
  BY <1>1, <1>2 DEF SavesInv, SaveIsCurrent, AckedIsDurable, Others
<1> QED BY <1>2, <1>8, <1>9, <1>10, <1>11, NothingMoves DEF SavesInv, Others

LEMMA Preparing ==
    ASSUME SavesInv, Save \/ sync_all
    PROVE  SavesInv' /\ \A s \in Slots : Continues(durable[s], durable'[s])
<1>1. SavesTypeOK BY DEF SavesInv
<1>2. UNCHANGED <<app, disk, durable, session, acked, state, sessions, misread, faults>>
  BY DEF Save, save, sync_all
<1>3. saving' \in Option(Saving) /\ SaveIsCurrent'
  <2>1. CASE Save
    <3>1. PICK exit \in BOOLEAN : save(exit) BY <2>1 DEF Save
    <3>2. PICK r \in session :
              saving' = {[file |-> Written(r), step |-> "written", exit |-> exit]}
      BY <3>1 DEF save
    <3>3. session = {r} /\ r \in Running BY <1>1, OptionHolds DEF SavesTypeOK
    <3>4. Written(r) \in Files /\ Written(r).id = r.id /\ Written(r).state = r.state
      BY <3>3 DEF Written, Files, Running
    <3>5. [file |-> Written(r), step |-> "written", exit |-> exit] \in Saving
      BY <3>4 DEF Saving
    <3> QED BY <1>2, <3>2, <3>3, <3>4, <3>5, OptionOf DEF SaveIsCurrent
  <2>2. CASE sync_all
    <3>1. PICK w \in saving : /\ w.step = "written"
                              /\ saving' = {[w EXCEPT !.step = "synced", !.file.synced = TRUE]}
      BY <2>2 DEF sync_all
    <3>2. w \in Saving BY <1>1, OptionHolds DEF SavesTypeOK
    <3> DEFINE v == [w EXCEPT !.step = "synced", !.file.synced = TRUE]
    <3>3. /\ v \in Saving /\ v.file.id = w.file.id /\ v.file.state = w.file.state
          /\ v.step = "synced" /\ v.file.synced
      BY <3>2 DEF Saving, Files
    <3>4. /\ session # {}
          /\ \A r \in session : w.file.id = r.id /\ w.file.state = r.state
      BY DEF SavesInv, SaveIsCurrent
    <3>5. saving' = {v} BY <3>1
    <3> HIDE DEF v
    <3> QED BY <1>2, <3>3, <3>4, <3>5, OptionOf DEF SaveIsCurrent
  <2> QED BY <2>1, <2>2
<1>4. SavesTypeOK' BY <1>1, <1>2, <1>3 DEF SavesTypeOK
<1>5. StatesGrow' /\ SlotIsOwned' /\ AckedIsDurable'
  BY <1>2 DEF SavesInv, StatesGrow, SlotIsOwned, AckedIsDurable
<1> QED BY <1>2, <1>3, <1>4, <1>5, NothingMoves DEF SavesInv

(* The rename puts the session's state in place of an earlier one of its   *)
(* own.                                                                    *)
LEMMA Renaming ==
    ASSUME SavesInv, rename
    PROVE  SavesInv' /\ \A s \in Slots : Continues(durable[s], durable'[s])
<1>1. SavesTypeOK BY DEF SavesInv
<1>2. PICK w \in saving, r \in session :
          /\ w.step = "synced"
          /\ disk' = [disk EXCEPT ![r.slot] = {w.file}]
          /\ saving' = {[w EXCEPT !.step = "renamed"]}
  BY DEF rename, RenameReady
<1>3. UNCHANGED <<app, durable, session, acked, state, sessions, misread, faults>>
  BY DEF rename
<1>4. /\ session = {r} /\ r \in Running /\ r.slot \in Slots /\ r.state \in Nat
      /\ w \in Saving /\ w.file \in Files /\ w.file.state \in Nat
  BY <1>1, OptionHolds, Counted DEF SavesTypeOK
<1>5. w.file.id = r.id /\ w.file.state = r.state /\ w.file.synced
  BY <1>2 DEF SavesInv, SaveIsCurrent
<1>6. /\ disk' \in [Slots -> Option(Files)] /\ disk'[r.slot] = {w.file}
      /\ \A s \in Slots \ {r.slot} : disk'[s] = disk[s]
  BY <1>1, <1>2, <1>4, OptionOf DEF SavesTypeOK
<1> DEFINE v == [w EXCEPT !.step = "renamed"]
<1>7. v \in Saving /\ v.file = w.file /\ v.step = "renamed" /\ saving' = {v}
  BY <1>2, <1>4 DEF Saving
<1> HIDE DEF v
<1>8. SavesTypeOK' BY <1>1, <1>3, <1>6, <1>7, OptionOf DEF SavesTypeOK
<1>9. FilesSynced' BY <1>3, <1>5, <1>6 DEF SavesInv, FilesSynced
<1>10. DiskIsLater'
  <2>1. Continues(disk[r.slot], {w.file})
    BY <1>4, <1>5 DEF SavesInv, SlotIsOwned, Continues
  <2>2. Continues(durable[r.slot], {w.file})
    <3>1. /\ durable[r.slot] \in SUBSET Files /\ disk[r.slot] \in SUBSET Files
          /\ {w.file} \in SUBSET Files
      BY <1>1, <1>4, Disks
    <3>2. Continues(durable[r.slot], disk[r.slot])
      BY <1>4 DEF SavesInv, DiskIsLater
    <3> QED BY <2>1, <3>1, <3>2, ContinuesIsOrder
  <2> QED BY <1>3, <1>6, <2>2 DEF SavesInv, DiskIsLater
<1>11. StatesGrow' /\ SlotIsOwned'
  BY <1>3, <1>4, <1>5, <1>6 DEF SavesInv, StatesGrow, SlotIsOwned
<1>12. SaveIsCurrent' BY <1>3, <1>4, <1>5, <1>6, <1>7 DEF SaveIsCurrent
<1>13. AckedIsDurable' BY <1>3 DEF SavesInv, AckedIsDurable
<1>14. \A s \in Slots : Continues(durable[s], durable'[s])
  BY <1>1, <1>3, Disks, ContinuesIsOrder
<1> QED BY <1>8, <1>9, <1>10, <1>11, <1>12, <1>13, <1>14 DEF SavesInv

(* A save that ends leaves the session as it was, except for what it says  *)
(* of itself, or ends it too.                                              *)
LEMMA Ending ==
    ASSUME SavesInv, sync_directory \/ save_fails \/ sync_directory_fails
    PROVE  /\ saving' = {} /\ saving' \in Option(Saving)
           /\ session' \in Option(Running)
           /\ \A q \in session' : \E r \in session :
                 q.slot = r.slot /\ q.id = r.id /\ q.state = r.state
<1>1. SavesTypeOK BY DEF SavesInv
<1>2. PICK r \in session : \E w \in saving, dirty \in BOOLEAN :
          Leave(w, r) \/ Leave(w, [r EXCEPT !.dirty = dirty])
  BY <1>1 DEF sync_directory, save_fails, sync_directory_fails
<1>3. r \in Running BY <1>1, OptionHolds DEF SavesTypeOK
<1>4. PICK dirty \in BOOLEAN :
          session' = {} \/ session' = {r} \/ session' = {[r EXCEPT !.dirty = dirty]}
  BY <1>2 DEF Leave
<1> DEFINE q == [r EXCEPT !.dirty = dirty]
<1>5. q \in Running /\ q.slot = r.slot /\ q.id = r.id /\ q.state = r.state
  BY <1>3 DEF Running
<1>6. session' = {} \/ session' = {r} \/ session' = {q} BY <1>4
<1> HIDE DEF q
<1>7. saving' = {} BY DEF sync_directory, save_fails, sync_directory_fails
<1>8. {} \in Option(Running) /\ {} \in Option(Saving) /\ {r} \in Option(Running)
      /\ {q} \in Option(Running)
  BY <1>3, <1>5, OptionOf
<1> QED BY <1>5, <1>6, <1>7, <1>8

LEMMA EndedSession ==
    ASSUME SavesInv, UNCHANGED <<disk, state>>,
           sync_directory \/ save_fails \/ sync_directory_fails
    PROVE  StatesGrow' /\ SlotIsOwned' /\ SaveIsCurrent'
BY Ending DEF SavesInv, StatesGrow, SlotIsOwned, SaveIsCurrent

LEMMA Saved ==
    ASSUME SavesInv, sync_directory
    PROVE  SavesInv' /\ \A s \in Slots : Continues(durable[s], durable'[s])
<1>1. SavesTypeOK BY DEF SavesInv
<1>2. PICK w \in saving, r \in session :
          /\ w.step = "renamed" /\ durable' = disk
          /\ acked' = {[slot |-> r.slot, id |-> r.id, state |-> w.file.state]}
  BY DEF sync_directory
<1>3. UNCHANGED <<app, disk, state, sessions, misread, faults>>
  BY DEF sync_directory
<1>4. r \in Running /\ w \in Saving /\ w.file \in Files
  BY <1>1, OptionHolds, Counted DEF SavesTypeOK
<1> DEFINE a == [slot |-> r.slot, id |-> r.id, state |-> w.file.state]
<1>5. a \in Acked /\ a.slot = r.slot /\ a.id = r.id /\ a.state = w.file.state /\ a.state \in Nat
  BY <1>4, StatesAre DEF Acked, Running, Files
<1>6. acked' = {a} BY <1>2
<1> HIDE DEF a
<1>7. disk[r.slot] = {w.file} /\ w.file.id = r.id
  BY <1>2 DEF SavesInv, SaveIsCurrent
<1>8. AckedIsDurable' BY <1>2, <1>5, <1>6, <1>7 DEF AckedIsDurable, Holds
<1>9. SavesTypeOK'
  BY <1>1, <1>2, <1>3, <1>5, <1>6, Ending, OptionOf DEF SavesTypeOK
<1>10. FilesSynced' BY <1>2, <1>3 DEF SavesInv, FilesSynced
<1>11. DiskIsLater' BY <1>1, <1>2, <1>3, Disks, ContinuesIsOrder DEF DiskIsLater
<1>12. \A s \in Slots : Continues(durable[s], durable'[s])
  BY <1>2 DEF SavesInv, DiskIsLater
<1> QED BY <1>3, <1>8, <1>9, <1>10, <1>11, <1>12, EndedSession DEF SavesInv

LEMMA Unsaved ==
    ASSUME SavesInv, save_fails \/ sync_directory_fails
    PROVE  SavesInv' /\ \A s \in Slots : Continues(durable[s], durable'[s])
<1>1. SavesTypeOK BY DEF SavesInv
<1>2. /\ UNCHANGED <<app, disk, durable, acked, state, sessions, misread>>
      /\ faults > 0 /\ faults' = faults - 1
  BY DEF save_fails, sync_directory_fails, Fault
<1>3. faults' \in 0..Faults BY <1>1, <1>2, SlotsAssumption DEF SavesTypeOK
<1>4. SavesTypeOK' BY <1>1, <1>2, <1>3, Ending DEF SavesTypeOK
<1>5. AckedIsDurable' BY <1>2 DEF SavesInv, AckedIsDurable
<1> QED BY <1>2, <1>4, <1>5, EndedSession, NothingMoves DEF SavesInv

(* Whatever the power loss leaves is whole, and no earlier than what was   *)
(* durable.                                                                *)
LEMMA Crashing ==
    ASSUME SavesInv, crash
    PROVE  SavesInv' /\ \A s \in Slots : Continues(durable[s], durable'[s])
<1>1. SavesTypeOK BY DEF SavesInv
<1>2. PICK left \in {disk, durable} : disk' = [s \in Slots |-> {Torn(f) : f \in left[s]}]
  BY DEF crash
<1>3. left \in [Slots -> Option(Files)] BY <1>1 DEF SavesTypeOK
<1>4. \A s \in Slots : \A f \in left[s] : Torn(f) = f
  BY DEF SavesInv, FilesSynced, Torn
<1>5. \A s \in Slots : {Torn(f) : f \in left[s]} = left[s] BY <1>4
<1>6. disk' = left
  <2>1. disk' = [s \in Slots |-> left[s]] BY <1>2, <1>5
  <2> QED BY <2>1, <1>3
<1>7. durable' = disk' /\ session' = {} /\ saving' = {} /\ faults > 0 /\ faults' = faults - 1
  BY DEF crash, Fault
<1>8. UNCHANGED <<app, acked, state, sessions, misread>> BY DEF crash
<1>9. faults' \in 0..Faults BY <1>1, <1>7, SlotsAssumption DEF SavesTypeOK
<1>10. SavesTypeOK'
  BY <1>1, <1>3, <1>6, <1>7, <1>8, <1>9, OptionOf DEF SavesTypeOK
<1>11. \A s \in Slots : /\ Continues(durable[s], left[s])
                         /\ Continues(left[s], left[s])
                         /\ durable[s] \in SUBSET Files /\ left[s] \in SUBSET Files
  BY <1>1, Disks, ContinuesIsOrder DEF SavesInv, DiskIsLater
<1>12. FilesSynced' /\ DiskIsLater'
  BY <1>6, <1>7, <1>11 DEF SavesInv, FilesSynced, DiskIsLater
<1>13. StatesGrow'
  <2>1. \A s \in Slots : \A f \in durable[s] : f.state <= state
    <3>1. SUFFICES ASSUME NEW s \in Slots, NEW f \in durable[s] PROVE f.state <= state
      OBVIOUS
    <3>2. PICK g \in disk[s] : g.state >= f.state
      BY DEF SavesInv, DiskIsLater, Continues
    <3>3. f.state \in Nat /\ g.state \in Nat /\ state \in Nat
      <4>1. durable[s] \in SUBSET Files /\ s \in Slots BY <1>1, Disks
      <4>2. f \in Files BY <4>1
      <4>3. f.state \in States BY <4>2 DEF Files
      <4> QED BY <1>1, <4>1, <4>3, Counted, StatesAre
    <3>4. g.state <= state BY DEF SavesInv, StatesGrow
    <3> QED BY <3>2, <3>3, <3>4
  <2> QED BY <1>6, <1>7, <1>8, <2>1 DEF SavesInv, StatesGrow
<1>14. SlotIsOwned' /\ SaveIsCurrent' BY <1>7 DEF SlotIsOwned, SaveIsCurrent
<1>15. AckedIsDurable'
  <2>1. SUFFICES ASSUME NEW a \in acked PROVE Holds(left[a.slot], a)
    BY <1>6, <1>7, <1>8 DEF AckedIsDurable
  <2>2. a \in Acked BY <1>1, OptionHolds DEF SavesTypeOK
  <2>3. a.slot \in Slots BY <2>2 DEF Acked
  <2>4. Holds(durable[a.slot], a) BY DEF SavesInv, AckedIsDurable
  <2> QED BY <1>11, <2>2, <2>3, <2>4, HoldsStays
<1> QED BY <1>6, <1>7, <1>10, <1>11, <1>12, <1>13, <1>14, <1>15 DEF SavesInv

-----------------------------------------------------------------------------
LEMMA SavesStep ==
    ASSUME SavesInv, [Next]_vars
    PROVE  SavesInv' /\ \A s \in Slots : Continues(durable[s], durable'[s])
<1>1. CASE UNCHANGED vars
  BY <1>1, NothingMoves
     DEF vars, SavesInv, SavesTypeOK, StatesGrow, SlotIsOwned, SaveIsCurrent, AckedIsDurable
<1>2. CASE Next
  BY <1>2, Starting, Playing, Preparing, Renaming, Saved, Unsaved, Crashing
     DEF Next, StepOfSave
<1> QED BY <1>1, <1>2

(* The invariant above, of every state the program can be in.              *)
THEOREM SavesInvariant == Spec => []SavesInv
<1>1. Init => SavesInv BY SavesInit
<1>2. SavesInv /\ [Next]_vars => SavesInv' BY SavesStep
<1> QED BY <1>1, <1>2, PTL DEF Spec

(* What was reported as saved is there for the next start and after a      *)
(* power loss.                                                             *)
THEOREM SavesSurvive == Spec => []AckedSurvives
<1>1. SavesInv => AckedSurvives
  <2>1. SUFFICES ASSUME SavesInv, NEW a \in acked
                 PROVE  Holds(disk[a.slot], a) /\ Holds(durable[a.slot], a)
    BY DEF AckedSurvives
  <2>2. a \in Acked BY <2>1, OptionHolds DEF SavesInv, SavesTypeOK
  <2>3. a.slot \in Slots BY <2>2 DEF Acked
  <2>4. Holds(durable[a.slot], a) BY <2>1 DEF SavesInv, AckedIsDurable
  <2>5. /\ durable[a.slot] \in SUBSET Files /\ disk[a.slot] \in SUBSET Files
        /\ Continues(durable[a.slot], disk[a.slot])
    BY <2>1, <2>3, Disks DEF SavesInv, DiskIsLater
  <2> QED BY <2>2, <2>4, <2>5, HoldsStays
<1> QED BY <1>1, SavesInvariant, PTL

(* No session is lost to another one, whatever fails and whenever the      *)
(* machine stops.                                                          *)
THEOREM NoSessionIsLost == Spec => SessionsKept
<1>1. SavesInv /\ [Next]_vars => [\A s \in Slots : Continues(durable[s], durable'[s])]_durable
  BY SavesStep
<1> QED BY <1>1, SavesInvariant, PTL DEF Spec, SessionsKept
-----------------------------------------------------------------------------
(* The session that was saved last is the one that comes back.  As long as *)
(* every start could read every file, the slots in use have no gap; the    *)
(* slot of the running session is the one a start would take, once its     *)
(* file can be restored; and so is the slot of the last save, on the disk  *)
(* and on what a power loss would leave of it.                             *)
Refused(files, s) == files[s] # {} /\ \A f \in files[s] : ~f.restorable
Restorable(files, s) == \E f \in files[s] : f.restorable

Gapless(files) == \A s \in Slots : files[s] # {} => \A t \in Slots : t < s => files[t] # {}

ComesFirst(files, s) ==
    s # 0 => Refused(files, 0) /\ \A t \in Slots : t > s => ~Restorable(files, t)

AckedComesFirst(files) ==
    \A a \in acked : Restorable(files, a.slot) => ComesFirst(files, a.slot)

SessionComesFirst ==
    \A r \in session :
        /\ ComesFirst(disk, r.slot)
        /\ \A t \in Slots : t < r.slot => disk[t] # {}
        /\ \A a \in acked : a.slot # r.slot => ~Restorable(disk, a.slot)

ReturnInv ==
    ~misread => /\ Gapless(disk) /\ Gapless(durable)
                /\ AckedComesFirst(disk) /\ AckedComesFirst(durable)
                /\ SessionComesFirst

LEMMA UsableIs ==
    ASSUME SavesTypeOK
    PROVE  /\ Absent({}) = {s \in Slots : disk[s] = {}} /\ Found = {s \in Slots : disk[s] # {}}
           /\ Usable({}) = {s \in Slots : Restorable(disk, s)}
           /\ \A s \in Slots : Refused(disk, s) <=> disk[s] # {} /\ ~Restorable(disk, s)
<1>1. \A s \in Slots : \A f, g \in disk[s] : f = g BY Disks
<1> QED BY <1>1 DEF Absent, Found, Usable, Restorable, Refused

(* Which slot a start takes when it can read every file: both programs     *)
(* take the same.                                                          *)
Takes(s) ==
    \/ s = 0 /\ ~Refused(disk, 0)
    \/ /\ Refused(disk, 0) /\ Restorable(disk, s)
       /\ \A t \in Slots : t > s => ~Restorable(disk, t)
    \/ /\ Refused(disk, 0) /\ disk[s] = {}
       /\ \A t \in Slots : (t < s => disk[t] # {}) /\ ~Restorable(disk, t)

LEMMA SlotTaken ==
    ASSUME SavesTypeOK, Gapless(disk), NEW s \in slot_for({})
    PROVE  s \in Slots /\ Takes(s)
<1> DEFINE A == Absent({})
           U == Usable({})
<1>1. /\ A = {t \in Slots : disk[t] = {}} /\ Found = {t \in Slots : disk[t] # {}}
      /\ U = {t \in Slots : Restorable(disk, t)}
      /\ \A t \in Slots : Refused(disk, t) <=> disk[t] # {} /\ ~Restorable(disk, t)
  BY UsableIs
<1>2. \A t \in Slots : Restorable(disk, t) => disk[t] # {} BY DEF Restorable
<1> HIDE DEF A, U
<1>3. s \in Slots BY ChosenSlot
<1>4. app \in {"wetland", "sandbox"} BY DEF SavesTypeOK
<1>5. 0 \in A \cup U <=> ~Refused(disk, 0) BY <1>1, SlotsAre
<1>6. \A t \in Slots : t \in Nat BY SlotsAre
<1>7. ASSUME Refused(disk, 0), U # {}, s \in LastOf(U) PROVE Takes(s)
  <2>1. s \in U /\ \A t \in U : s >= t BY <1>1, <1>7, LastIs
  <2>2. \A t \in Slots : t > s => t \notin U BY <1>3, <1>6, <2>1
  <2> QED BY <1>1, <1>7, <2>1, <2>2 DEF Takes
<1>8. ASSUME Refused(disk, 0), U = {}, s \in FirstOf(A) PROVE Takes(s)
  <2>1. A # {} BY <1>8 DEF FirstOf
  <2>2. s \in A /\ \A t \in A : s <= t BY <1>1, <1>8, <2>1, FirstIs
  <2>3. \A t \in Slots : t < s => t \notin A BY <1>3, <1>6, <2>2
  <2> QED BY <1>1, <1>8, <2>2, <2>3 DEF Takes
<1>9. CASE ~Refused(disk, 0)
  <2>1. 0 \notin Found \/ 0 \in U BY <1>1, <1>5, <1>9, SlotsAre
  <2>2. s = 0 BY <1>4, <1>5, <1>9, <2>1 DEF slot_for, wetland_slot, sandbox_slot, A, U
  <2> QED BY <1>3, <1>9, <2>2 DEF Takes
<1>10. CASE Refused(disk, 0) /\ app = "wetland"
  <2>1. s \in (IF U # {} THEN LastOf(U) ELSE FirstOf(A))
    BY <1>5, <1>10 DEF slot_for, wetland_slot, A, U
  <2> QED BY <1>3, <1>7, <1>8, <1>10, <2>1
<1>11. CASE Refused(disk, 0) /\ app = "sandbox"
  <2>1. 0 \in Found /\ 0 \notin U BY <1>1, <1>5, <1>11, SlotsAre
  <2>2. \A t \in Slots \ {0} : t \in Found => t \in Scanned
    <3>1. SUFFICES ASSUME NEW t \in Slots \ {0}, t \in Found, NEW u \in 1..t PROVE u \in Found
      BY DEF Scanned
    <3>2. u \in Slots /\ (u < t \/ u = t) BY SlotsAre
    <3> QED BY <1>1, <3>1, <3>2 DEF Gapless
  <2>3. Scanned \cap U = U
    <3>1. \A t \in U : t \in Slots \ {0} /\ t \in Found BY <1>1, <1>2, <2>1
    <3> QED BY <2>2, <3>1
  <2>4. Slots \ ({0} \cup Found) = A BY <1>1, <2>1
  <2>5. s \in (IF U # {} THEN LastOf(U) ELSE FirstOf(A))
    BY <1>11, <2>1, <2>3, <2>4 DEF slot_for, sandbox_slot, U
  <2> QED BY <1>3, <1>7, <1>8, <1>11, <2>5
<1> QED BY <1>3, <1>4, <1>9, <1>10, <1>11

(* It is a slot the session can hold, and the one of the last save if that *)
(* can be restored.                                                        *)
LEMMA TakenComesFirst ==
    ASSUME SavesTypeOK, Gapless(disk), NEW s \in slot_for({})
    PROVE  /\ ComesFirst(disk, s)
           /\ \A t \in Slots : t < s => disk[t] # {}
           /\ \A t \in Slots : Restorable(disk, t) /\ ComesFirst(disk, t) => t = s
<1>1. s \in Slots /\ Takes(s) BY SlotTaken
<1>2. /\ \A t \in Slots : t \in Nat
      /\ \A t \in Slots : Refused(disk, t) <=> disk[t] # {} /\ ~Restorable(disk, t)
      /\ \A t \in Slots : Restorable(disk, t) => disk[t] # {}
      /\ 0 \in Slots
  BY SlotsAre, UsableIs DEF Restorable
<1>3. ComesFirst(disk, s) BY <1>1, <1>2 DEF Takes, ComesFirst
<1>4. ASSUME NEW t \in Slots, t < s PROVE disk[t] # {}
  <2>1. CASE disk[s] # {} BY <1>1, <1>4, <2>1 DEF Gapless
  <2>2. CASE disk[s] = {}
    <3>1. s # 0 BY <1>1, <1>2, <1>4
    <3> QED BY <1>1, <1>2, <1>4, <2>2, <3>1 DEF Takes
  <2> QED BY <2>1, <2>2
<1>5. ASSUME NEW t \in Slots, Restorable(disk, t), ComesFirst(disk, t) PROVE t = s
  <2>1. CASE s = 0 /\ ~Refused(disk, 0) BY <1>5, <2>1 DEF ComesFirst
  <2>2. CASE /\ Refused(disk, 0) /\ Restorable(disk, s)
             /\ \A u \in Slots : u > s => ~Restorable(disk, u)
    <3>1. t # 0 /\ s # 0 BY <1>2, <1>5, <2>2
    <3>2. ~(t > s) /\ ~(s > t) BY <1>1, <1>5, <2>2, <3>1 DEF ComesFirst
    <3> QED BY <1>1, <1>2, <3>2
  <2>3. CASE \A u \in Slots : ~Restorable(disk, u) BY <1>5, <2>3
  <2> QED BY <1>1, <2>1, <2>2, <2>3 DEF Takes
<1> QED BY <1>3, <1>4, <1>5

LEMMA ReturnInitially == ASSUME Init PROVE ReturnInv
<1>1. PICK n \in 0..(MaxSlot + 1) : \E good \in SUBSET (0..(n - 1)) :
          disk = [s \in Slots |-> IF s < n
                    THEN {[id |-> s, state |-> 0, restorable |-> s \in good, synced |-> TRUE]}
                    ELSE {}]
  BY DEF Init
<1>2. \A s \in Slots : disk[s] # {} <=> s < n BY <1>1
<1>3. Gapless(disk)
  <2>1. \A s, t \in Slots : s < n /\ t < s => t < n BY SlotsAre
  <2> QED BY <1>2, <2>1 DEF Gapless
<1> QED BY <1>3 DEF Init, ReturnInv, AckedComesFirst, SessionComesFirst

(* Steps that leave the disk, what is durable and the last save as they    *)
(* were, and go on with the same session or none.                          *)
LEMMA ReturnStays ==
    ASSUME ReturnInv, UNCHANGED <<disk, durable, acked, misread>>,
           \A q \in session' : \E r \in session : q.slot = r.slot
    PROVE  ReturnInv'
BY DEF ReturnInv, Gapless, AckedComesFirst, SessionComesFirst, ComesFirst,
       Restorable, Refused

(* A start that could read every file, and every start before it too.      *)
LEMMA GoodStart ==
    ASSUME start, ~misread'
    PROVE  /\ ~misread /\ session = {}
           /\ \E s \in slot_for({}) :
                 IF s \in Usable({}) THEN session' = Continued(s) ELSE session' = Fresh(s)
<1>1. PICK unread \in SUBSET Slots :
          /\ misread' = (misread \/ unread # {})
          /\ \E s \in slot_for(unread) :
                IF s \in Usable(unread) THEN session' = Continued(s) ELSE session' = Fresh(s)
  BY DEF start
<1>2. unread = {} BY <1>1
<1> QED BY <1>1, <1>2 DEF start

LEMMA AckedSlots ==
    ASSUME SavesTypeOK
    PROVE  \A a \in acked : a \in Acked /\ a.slot \in Slots
<1>1. \A a \in acked : a \in Acked BY OptionHolds DEF SavesTypeOK
<1> QED BY <1>1 DEF Acked

LEMMA StartReturns ==
    ASSUME SavesInv, ReturnInv, start, ~misread', NEW a \in acked, Restorable(disk, a.slot)
    PROVE  \E r \in session' : r.id = a.id /\ r.state >= a.state
<1>1. SavesTypeOK BY DEF SavesInv
<1>2. ~misread /\ Gapless(disk) /\ ComesFirst(disk, a.slot)
  BY GoodStart DEF ReturnInv, AckedComesFirst
<1>3. PICK s \in slot_for({}) :
          IF s \in Usable({}) THEN session' = Continued(s) ELSE session' = Fresh(s)
  BY GoodStart
<1>4. a \in Acked /\ a.slot \in Slots BY <1>1, AckedSlots
<1>5. a.slot = s BY <1>1, <1>2, <1>4, TakenComesFirst
<1>6. session' = Continued(s) BY <1>1, <1>3, <1>4, <1>5, UsableIs
<1>7. Holds(disk[s], a)
  <2>1. /\ durable[s] \in SUBSET Files /\ disk[s] \in SUBSET Files
        /\ Continues(durable[s], disk[s])
    BY <1>1, <1>4, <1>5, Disks DEF SavesInv, DiskIsLater
  <2>2. Holds(durable[s], a) BY <1>5 DEF SavesInv, AckedIsDurable
  <2> QED BY <1>4, <2>1, <2>2, HoldsStays
<1>8. PICK f \in disk[s] : f.id = a.id /\ f.state >= a.state BY <1>7 DEF Holds
<1> DEFINE r == [slot |-> s, id |-> f.id, state |-> f.state, dirty |-> app = "sandbox",
                 burst |-> "none"]
<1>9. r \in session' BY <1>6 DEF Continued
<1>10. r.id = a.id /\ r.state >= a.state BY <1>8
<1> QED BY <1>9, <1>10

LEMMA StartKeepsFirst ==
    ASSUME SavesInv, ReturnInv, start
    PROVE  ReturnInv'
<1>1. CASE misread' BY <1>1 DEF ReturnInv
<1>2. CASE ~misread'
  <2>1. SavesTypeOK BY DEF SavesInv
  <2>2. UNCHANGED <<disk, durable, acked>> BY DEF start
  <2>3. /\ Gapless(disk) /\ Gapless(durable)
        /\ AckedComesFirst(disk) /\ AckedComesFirst(durable)
    BY <1>2, GoodStart DEF ReturnInv
  <2>4. PICK s \in slot_for({}) :
            IF s \in Usable({}) THEN session' = Continued(s) ELSE session' = Fresh(s)
    BY <1>2, GoodStart
  <2>5. \A r \in session' : r.slot = s BY <2>4 DEF Continued, Fresh
  <2>6. /\ ComesFirst(disk, s)
        /\ \A t \in Slots : t < s => disk[t] # {}
        /\ \A t \in Slots : Restorable(disk, t) /\ ComesFirst(disk, t) => t = s
    BY <2>1, <2>3, <2>4, TakenComesFirst
  <2>7. \A a \in acked : a.slot \in Slots BY <2>1, AckedSlots
  <2>8. \A a \in acked : a.slot # s => ~Restorable(disk, a.slot)
    BY <2>3, <2>6, <2>7 DEF AckedComesFirst
  <2>9. SessionComesFirst'
    BY <2>2, <2>5, <2>6, <2>8 DEF SessionComesFirst, ComesFirst, Refused, Restorable
  <2>10. /\ Gapless(disk)' /\ Gapless(durable)'
         /\ AckedComesFirst(disk)' /\ AckedComesFirst(durable)'
    BY <2>2, <2>3 DEF Gapless, AckedComesFirst, ComesFirst, Refused, Restorable
  <2> QED BY <2>9, <2>10 DEF ReturnInv
<1> QED BY <1>1, <1>2

(* Only the slot of the session changes, and the session holds it.         *)
LEMMA RenameKeepsFirst ==
    ASSUME SavesInv, ReturnInv, rename
    PROVE  ReturnInv'
<1>1. SavesTypeOK BY DEF SavesInv
<1>2. PICK w \in saving, r \in session : disk' = [disk EXCEPT ![r.slot] = {w.file}]
  BY DEF rename, RenameReady
<1>3. UNCHANGED <<durable, session, acked, misread>> BY DEF rename
<1>4. session = {r} /\ r.slot \in Slots
  BY <1>1, OptionHolds, Counted DEF SavesTypeOK
<1>5. /\ disk'[r.slot] = {w.file} /\ \A s \in Slots \ {r.slot} : disk'[s] = disk[s]
  BY <1>1, <1>2, <1>4 DEF SavesTypeOK
<1>6. CASE misread BY <1>3, <1>6 DEF ReturnInv
<1>7. CASE ~misread
  <2>1. /\ Gapless(disk) /\ Gapless(durable)
        /\ AckedComesFirst(disk) /\ AckedComesFirst(durable)
        /\ ComesFirst(disk, r.slot)
        /\ \A t \in Slots : t < r.slot => disk[t] # {}
        /\ \A a \in acked : a.slot # r.slot => ~Restorable(disk, a.slot)
    BY <1>7, <1>4 DEF ReturnInv, SessionComesFirst
  <2>2. \A t \in Slots : t \in Nat /\ 0 \in Slots BY SlotsAre
  <2>3. ComesFirst(disk', r.slot)
    BY <1>4, <1>5, <2>1, <2>2 DEF ComesFirst, Refused, Restorable
  <2>4. \A t \in Slots : t < r.slot => disk'[t] # {} BY <1>4, <1>5, <2>1, <2>2
  <2>5. \A a \in acked : a.slot \in Slots BY <1>1, AckedSlots
  <2>6. \A a \in acked : a.slot # r.slot => ~Restorable(disk', a.slot)
    BY <1>5, <2>1, <2>5 DEF Restorable
  <2>7. Gapless(disk')
    <3>1. SUFFICES ASSUME NEW s \in Slots, disk'[s] # {}, NEW t \in Slots, t < s
                   PROVE  disk'[t] # {}
      BY DEF Gapless
    <3>2. CASE s = r.slot BY <2>4, <3>1, <3>2
    <3>3. CASE s # r.slot BY <1>5, <2>1, <3>1, <3>3 DEF Gapless
    <3> QED BY <3>2, <3>3
  <2>8. AckedComesFirst(disk')
    BY <2>3, <2>6 DEF AckedComesFirst
  <2>9. SessionComesFirst'
    BY <1>3, <1>4, <2>3, <2>4, <2>6 DEF SessionComesFirst
  <2>10. /\ Gapless(disk)' /\ Gapless(durable)'
         /\ AckedComesFirst(disk)' /\ AckedComesFirst(durable)'
    BY <1>3, <2>1, <2>7, <2>8 DEF Gapless, AckedComesFirst, ComesFirst, Refused, Restorable
  <2> QED BY <2>9, <2>10 DEF ReturnInv
<1> QED BY <1>6, <1>7

(* The save that is reported is the one of the session that comes first.   *)
LEMMA SavedKeepsFirst ==
    ASSUME SavesInv, ReturnInv, sync_directory
    PROVE  ReturnInv'
<1>1. SavesTypeOK BY DEF SavesInv
<1>2. PICK w \in saving, r \in session :
          /\ durable' = disk
          /\ acked' = {[slot |-> r.slot, id |-> r.id, state |-> w.file.state]}
  BY DEF sync_directory
<1>3. UNCHANGED <<disk, misread>> BY DEF sync_directory
<1>4. session = {r} BY <1>1, OptionHolds DEF SavesTypeOK
<1>5. \A q \in session' : q.slot = r.slot BY <1>4, Ending
<1>6. \A a \in acked' : a.slot = r.slot BY <1>2
<1>7. CASE misread BY <1>3, <1>7 DEF ReturnInv
<1>8. CASE ~misread
  <2>1. /\ Gapless(disk) /\ ComesFirst(disk, r.slot)
        /\ \A t \in Slots : t < r.slot => disk[t] # {}
    BY <1>8, <1>4 DEF ReturnInv, SessionComesFirst
  <2>2. disk' = disk /\ durable' = disk BY <1>2, <1>3
  <2>3. Gapless(disk)' /\ Gapless(durable)' BY <2>1, <2>2 DEF Gapless
  <2>4. AckedComesFirst(disk)' /\ AckedComesFirst(durable)'
    BY <1>6, <2>1, <2>2 DEF AckedComesFirst, ComesFirst, Refused, Restorable
  <2>5. SessionComesFirst'
    BY <1>5, <1>6, <2>1, <2>2 DEF SessionComesFirst, ComesFirst, Refused, Restorable
  <2> QED BY <2>3, <2>4, <2>5 DEF ReturnInv
<1> QED BY <1>7, <1>8

LEMMA CrashKeepsFirst ==
    ASSUME SavesInv, ReturnInv, crash
    PROVE  ReturnInv'
<1>1. SavesTypeOK BY DEF SavesInv
<1>2. PICK left \in {disk, durable} : disk' = [s \in Slots |-> {Torn(f) : f \in left[s]}]
  BY DEF crash
<1>3. left \in [Slots -> Option(Files)] BY <1>1 DEF SavesTypeOK
<1>4. \A s \in Slots : {Torn(f) : f \in left[s]} = left[s]
  <2>1. \A s \in Slots : \A f \in left[s] : Torn(f) = f
    BY DEF SavesInv, FilesSynced, Torn
  <2> QED BY <2>1
<1>5. disk' = left
  <2>1. disk' = [s \in Slots |-> left[s]] BY <1>2, <1>4
  <2> QED BY <1>3, <2>1
<1>6. durable' = left /\ session' = {} /\ UNCHANGED <<acked, misread>>
  BY <1>5 DEF crash
<1>7. CASE misread BY <1>6, <1>7 DEF ReturnInv
<1>8. CASE ~misread
  <2>1. Gapless(left) /\ AckedComesFirst(left) BY <1>8 DEF ReturnInv
  <2>2. Gapless(disk)' /\ Gapless(durable)' BY <1>5, <1>6, <2>1 DEF Gapless
  <2>3. AckedComesFirst(disk)' /\ AckedComesFirst(durable)'
    BY <1>5, <1>6, <2>1 DEF AckedComesFirst, ComesFirst, Refused, Restorable
  <2>4. SessionComesFirst' BY <1>6 DEF SessionComesFirst
  <2> QED BY <2>2, <2>3, <2>4 DEF ReturnInv
<1> QED BY <1>7, <1>8

(* A running session keeps its slot.                                       *)
LEMMA SlotKept ==
    ASSUME SavesInv, edit \/ confirm \/ revert
    PROVE  \A q \in session' : \E r \in session : q.slot = r.slot
<1>1. PICK r \in session : \E dirty \in BOOLEAN, burst \in {"none", "sound", "doomed"} :
          \/ session' = {[r EXCEPT !.state = state', !.dirty = dirty, !.burst = burst]}
          \/ session' = {[r EXCEPT !.burst = burst]}
  BY DEF edit, confirm, revert, Advance, Reverted
<1>2. r \in Running BY OptionHolds DEF SavesInv, SavesTypeOK
<1> QED BY <1>1, <1>2 DEF Running

LEMMA ReturnStep ==
    ASSUME SavesInv, ReturnInv, [Next]_vars
    PROVE  ReturnInv'
<1>1. CASE UNCHANGED vars BY <1>1, ReturnStays DEF vars
<1>2. CASE start BY <1>2, StartKeepsFirst
<1>3. CASE edit \/ confirm \/ revert
  <2>1. UNCHANGED <<disk, durable, acked, misread>> BY <1>3 DEF edit, confirm, revert, Others
  <2> QED BY <1>3, <2>1, SlotKept, ReturnStays
<1>4. CASE Save \/ sync_all
  BY <1>4, ReturnStays DEF Save, save, sync_all
<1>5. CASE rename BY <1>5, RenameKeepsFirst
<1>6. CASE sync_directory BY <1>6, SavedKeepsFirst
<1>7. CASE save_fails \/ sync_directory_fails
  <2>1. UNCHANGED <<disk, durable, acked, misread>>
    BY <1>7 DEF save_fails, sync_directory_fails
  <2> QED BY <1>7, <2>1, Ending, ReturnStays
<1>8. CASE crash BY <1>8, CrashKeepsFirst
<1> QED BY <1>1, <1>2, <1>3, <1>4, <1>5, <1>6, <1>7, <1>8 DEF Next, StepOfSave

(* As long as every file can be read, the session that was saved last is   *)
(* the one that goes on: none that was forgotten comes back in its place,  *)
(* in either program, whatever saves failed and wherever the machine       *)
(* stopped.                                                                *)
THEOREM SavedComesBack == Spec => AckedComesBack
<1>1. Init => ReturnInv BY ReturnInitially
<1>2. SavesInv /\ ReturnInv /\ [Next]_vars => ReturnInv' BY ReturnStep
<1>3. SavesInv /\ ReturnInv /\ [Next]_vars
        => [session = {} /\ session' # {} /\ ~misread' =>
              \A a \in acked :
                 (\A f \in disk[a.slot] : f.restorable)
                   => \E r \in session' : r.id = a.id /\ r.state >= a.state]_session
  <2>1. SUFFICES ASSUME SavesInv, ReturnInv, [Next]_vars, session = {}, session' # {},
                        ~misread', NEW a \in acked, \A f \in disk[a.slot] : f.restorable
                 PROVE  \E r \in session' : r.id = a.id /\ r.state >= a.state
    OBVIOUS
  <2>2. start
    <3>1. Next BY <2>1 DEF vars
    <3>2. ~(edit \/ confirm \/ revert \/ rename \/ sync_directory \/ save_fails
             \/ sync_directory_fails \/ crash \/ Save \/ sync_all)
      BY <2>1 DEF edit, confirm, revert, rename, sync_directory, save_fails,
                  sync_directory_fails, crash, Save, save, sync_all
    <3> QED BY <3>1, <3>2 DEF Next, StepOfSave
  <2>3. Restorable(disk, a.slot)
    <3>1. a \in Acked /\ a.slot \in Slots BY <2>1, AckedSlots DEF SavesInv
    <3>2. durable[a.slot] # {} BY <2>1 DEF SavesInv, AckedIsDurable, Holds
    <3>3. disk[a.slot] # {} BY <3>1, <3>2, <2>1 DEF SavesInv, DiskIsLater, Continues
    <3> QED BY <2>1, <3>3 DEF Restorable
  <2> QED BY <2>1, <2>2, <2>3, StartReturns
<1> QED BY <1>1, <1>2, <1>3, SavesInvariant, PTL DEF Spec, AckedComesBack
=============================================================================
