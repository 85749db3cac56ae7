---------------------------- MODULE LightVolume ----------------------------
(***************************************************************************)
(* The indirect light of a box of cells                                    *)
(* (crates/matterweave-render/src/indirect.rs) and the record of what each *)
(* sample read (indirect/dependency.rs), which lets an edit of the proxy   *)
(* keep the samples it does not touch.                                     *)
(*                                                                         *)
(* A ray is the sequence of cells it passes.  The value of a face is the   *)
(* sequence of the contributions of its samples: the code adds them up in  *)
(* that order.  A contribution is the material hit, if the hit faces the   *)
(* sun and sees it, and 0 otherwise; the palette and the angle belong to   *)
(* the ray.  The digest of a proxy is the proxy.  Operators named after    *)
(* another one and a defect show what the properties notice; no action     *)
(* uses them.                                                              *)
(***************************************************************************)
EXTENDS Integers, Sequences, FiniteSets

CONSTANTS
    Cells,             \* of the coverage box: the index space of the records
    Around,            \* other cells that rays pass
    Materials,         \* but air, which is 0
    NumFaces,          \* face slots 1..NumFaces
    Own, Outward,      \* the cell of a face, and the one it looks into
    Samples,
    Gather,            \* Gather[s][i]: the ray of sample i of face s
    Sources, NoSource, \* worlds, with their sun; a sun that is refused
    World,             \* World[source][c]: the material of a cell
    Shadow,            \* Shadow[source][s][i][c]: the rays to the sun, at most one, from a hit on c
    Proxies,           \* box and materials
    Block,             \* the dependency block of a cell
    Capacity,          \* faces whose records fit under the cap
    RayBudget, WorkBudget

AllCells == Cells \cup Around
Faces == 1..NumFaces
SampleIds == 1..Samples
NoProxy == [box |-> {}, at |-> [c \in AllCells |-> 0]]
Meshes == Proxies \cup {NoProxy}

ASSUME VolumeAssumption ==
    /\ NumFaces \in Nat /\ Samples \in Nat \ {0}
    /\ {Capacity, RayBudget, WorkBudget} \subseteq Nat
    /\ Materials \subseteq Nat \ {0}
    /\ Own \in [Faces -> Cells] /\ Outward \in [Faces -> AllCells]
    /\ NoSource \notin Sources
    /\ Gather \in [Faces -> [SampleIds -> Seq(AllCells)]]
    /\ World \in [Sources -> [AllCells -> Materials \cup {0}]]
    /\ Shadow \in [Sources -> [Faces -> [SampleIds -> [AllCells -> SUBSET Seq(AllCells)]]]]
    /\ Proxies \subseteq [box : SUBSET AllCells, at : [AllCells -> Materials \cup {0}]]
    /\ \A p \in Proxies : p.box # {} /\ \A c \in AllCells \ p.box : p.at[c] = 0

VARIABLES
    source,       \* what the caller passes to update
    tracking,     \* retention is enabled
    mesh,
    key,          \* source and mesh the values are for
    cursor,
    sum,          \* contributions of the face at the cursor so far
    values,       \* per face, Option
    done,
    offsets,      \* per face: "NO_BITS", "UNTRACKED" or "tracked"
    records,      \* per face and sample, Option: the blocks read and the contribution
    call          \* Option: what is left of the budget of an update

volume == <<mesh, key, cursor, sum, values, done>>
tracker == <<tracking, offsets, records>>
vars == <<source, volume, tracker, call>>

NoKey == [source |-> NoSource, mesh |-> NoProxy]
KeyOf(src, m) == IF src = NoSource THEN NoKey ELSE [source |-> src, mesh |-> m]
Idle == call = {}

-----------------------------------------------------------------------------
(* What a sample is, computed from nothing.                                *)

scene_material(src, m, c) == IF World[src][c] # 0 THEN World[src][c] ELSE m.at[c]

\* The position of the first solid cell of a ray, if there is one.
FreeBefore(src, m, ray, k) == \A j \in 1..(k - 1) : scene_material(src, m, ray[j]) = 0
trace_scene(src, m, ray) ==
    {k \in 1..Len(ray) : scene_material(src, m, ray[k]) # 0 /\ FreeBefore(src, m, ray, k)}

\* The ways to the sun from what the ray hits, where the hit faces it.
ShadowRays(src, m, s, i) ==
    UNION {Shadow[src][s][i][Gather[s][i][k]] : k \in trace_scene(src, m, Gather[s][i])}
Contribution(src, m, s, i) ==
    IF \E ray \in ShadowRays(src, m, s, i) : trace_scene(src, m, ray) = {}
    THEN LET k == CHOOSE k \in trace_scene(src, m, Gather[s][i]) : TRUE
         IN scene_material(src, m, Gather[s][i][k])
    ELSE 0

Exposed(src, m, s) ==
    /\ scene_material(src, m, Own[s]) # 0
    /\ scene_material(src, m, Outward[s]) = 0

Fresh(src, m, s) ==
    IF Exposed(src, m, s) THEN {[i \in SampleIds |-> Contribution(src, m, s, i)]} ELSE {}

\* The proxy cells a ray reads: up to its hit, and no further than the box.
walk_segment(src, m, ray) ==
    {ray[k] : k \in {k \in 1..Len(ray) :
        (\E j \in k..Len(ray) : ray[j] \in m.box) /\ FreeBefore(src, m, ray, k)}}

\* ReadBy if the way to the sun were not recorded.
ReadByGatherOnly(src, m, s, i) ==
    {Own[s]} \cup (IF i = 1 THEN {Outward[s]} ELSE {}) \cup walk_segment(src, m, Gather[s][i])

ReadBy(src, m, s, i) ==
    {Own[s]} \cup (IF i = 1 THEN {Outward[s]} ELSE {})
    \cup walk_segment(src, m, Gather[s][i])
    \cup UNION {walk_segment(src, m, ray) : ray \in ShadowRays(src, m, s, i)}

Blocks(cells) == {Block[c] : c \in cells \cap Cells}
Record(src, m, s, i) ==
    [blocks |-> Blocks(ReadBy(src, m, s, i)), contribution |-> Contribution(src, m, s, i)]

-----------------------------------------------------------------------------
Init ==
    /\ source \in Sources /\ tracking = FALSE
    /\ mesh = NoProxy /\ key = NoKey /\ cursor = 1 /\ sum = << >>
    /\ values = [s \in Faces |-> {}] /\ done = {}
    /\ offsets = [s \in Faces |-> "NO_BITS"]
    /\ records = [s \in Faces |-> [i \in SampleIds |-> {}]]
    /\ call = {}

clear(k) ==
    /\ values' = [s \in Faces |-> {}] /\ done' = {}
    /\ cursor' = 1 /\ sum' = << >> /\ key' = k
    /\ offsets' = [s \in Faces |-> "NO_BITS"]
    /\ records' = [s \in Faces |-> [i \in SampleIds |-> {}]]

-----------------------------------------------------------------------------
(* The caller.                                                             *)

\* The world is edited or replaced, or the sun moves.
source_changes ==
    /\ Idle /\ source' \in (Sources \cup {NoSource}) \ {source}
    /\ UNCHANGED <<volume, tracker, call>>

set_mesh_proxy(m) == mesh' = m /\ clear(NoKey)

ChangedCells(m) == {c \in AllCells : mesh.at[c] # m.at[c]}
Crossed(changed, s, i) == \E r \in records[s][i] : r.blocks \cap Blocks(changed) # {}

\* Invalidated if a face without records were kept like one that read nothing that changed.
InvalidatedTrackedOnly(changed) ==
    {s \in Faces : \/ Own[s] \in changed \/ Outward[s] \in changed
                   \/ \E i \in SampleIds : Crossed(changed, s, i)}

Invalidated(changed) ==
    {s \in Faces : \/ Own[s] \in changed \/ Outward[s] \in changed
                   \/ offsets[s] = "UNTRACKED"
                   \/ \E i \in SampleIds : Crossed(changed, s, i)}

\* invalidate_edit, and what is left of the update it interrupts.
retain_samples(m, changed) ==
    /\ mesh' = m /\ key' = [key EXCEPT !.mesh = m]
    /\ done' = done \ Invalidated(changed)
    /\ values' = [s \in Faces |-> IF s \in Invalidated(changed) THEN {} ELSE values[s]]
    /\ records' = [s \in Faces |-> [i \in SampleIds |->
                     IF Crossed(changed, s, i) THEN {} ELSE records[s][i]]]
    /\ sum' = IF changed = {} THEN sum ELSE << >>
    /\ cursor' = IF Faces \subseteq done' THEN cursor
                 ELSE LET first_dirty == CHOOSE s \in Faces \ done' :
                                           \A t \in Faces \ done' : s <= t
                      IN IF first_dirty < cursor THEN first_dirty ELSE cursor
    /\ UNCHANGED offsets

Decidable(m) ==
    /\ tracking /\ key # NoKey
    /\ mesh.box = m.box /\ ChangedCells(m) \subseteq Cells

replace_mesh_proxy(m) ==
    /\ \/ ~Decidable(m) /\ set_mesh_proxy(m)
       \/ Decidable(m) /\ retain_samples(m, ChangedCells(m))
    /\ UNCHANGED <<source, tracking, call>>

\* A caller that asks for a change only if the digest differs.
attach == Idle /\ \E m \in Meshes \ {mesh} : replace_mesh_proxy(m)

\* The proxy is set or removed, retention turned on, or the volume made anew.
start_over ==
    /\ Idle /\ \E m \in Meshes : set_mesh_proxy(m)
    /\ tracking' \in BOOLEAN
    /\ UNCHANGED <<source, call>>

complete == key # NoKey /\ cursor = NumFaces + 1
valid_for(src) == complete /\ key = KeyOf(src, mesh)

update ==
    /\ Idle /\ ~valid_for(source)
    /\ LET k == KeyOf(source, mesh)
       IN IF k # key \/ k = NoKey THEN clear(k)
          ELSE UNCHANGED <<key, cursor, sum, values, done, offsets, records>>
    /\ call' = IF source = NoSource THEN {} ELSE {[work |-> WorkBudget, rays |-> RayBudget]}
    /\ UNCHANGED <<source, mesh, tracking>>

-----------------------------------------------------------------------------
(* The loop of update.                                                     *)

Scanning == cursor <= NumFaces /\ \E b \in call : b.work > 0
Spend(rays) == call' = {[work |-> b.work - 1, rays |-> b.rays - rays] : b \in call}
Here == Exposed(key.source, mesh, cursor)
Sample == Len(sum) + 1
Kept == records[cursor][Sample]

skip ==
    /\ Scanning /\ cursor \in done
    /\ cursor' = cursor + 1
    /\ UNCHANGED <<source, mesh, key, sum, values, done, tracker, call>>

enclosed ==
    /\ Scanning /\ cursor \notin done /\ ~Here
    /\ done' = done \cup {cursor} /\ cursor' = cursor + 1 /\ Spend(0)
    /\ records' = [records EXCEPT ![cursor] = [i \in SampleIds |-> {}]]
    /\ UNCHANGED <<source, mesh, key, sum, values, tracking, offsets>>

add(contribution) ==
    IF Sample = Samples
    THEN /\ values' = [values EXCEPT ![cursor] = {Append(sum, contribution)}]
         /\ done' = done \cup {cursor} /\ cursor' = cursor + 1 /\ sum' = << >>
    ELSE /\ sum' = Append(sum, contribution)
         /\ UNCHANGED <<values, done, cursor>>

replay ==
    /\ Scanning /\ cursor \notin done /\ Here
    /\ \E r \in Kept : add(r.contribution)
    /\ Spend(0)
    /\ UNCHANGED <<source, mesh, key, tracker>>

\* begin_sample gives a face its place at its first sample, if there is room and memory.
Room == Cardinality({s \in Faces : offsets[s] = "tracked"}) < Capacity
allocate ==
    IF ~tracking \/ offsets[cursor] # "NO_BITS" THEN UNCHANGED offsets
    ELSE \E o \in {"UNTRACKED"} \cup (IF Room THEN {"tracked"} ELSE {}) :
            offsets' = [offsets EXCEPT ![cursor] = o]

RaysUsed == IF ShadowRays(key.source, mesh, cursor, Sample) = {} THEN 1 ELSE 2

MayTrace == \E b \in call : b.rays >= 2
trace ==
    /\ Scanning /\ cursor \notin done /\ Here /\ Kept = {} /\ MayTrace
    /\ Spend(RaysUsed)
    /\ allocate
    /\ records' = IF offsets'[cursor] = "tracked"
                  THEN [records EXCEPT ![cursor][Sample] =
                          {Record(key.source, mesh, cursor, Sample)}]
                  ELSE records
    /\ add(Contribution(key.source, mesh, cursor, Sample))
    /\ UNCHANGED <<source, mesh, key, tracking>>

return ==
    /\ ~Idle
    /\ Scanning => cursor \notin done /\ Here /\ Kept = {} /\ ~MayTrace
    /\ call' = {}
    /\ UNCHANGED <<source, volume, tracker>>

Updating == update \/ skip \/ enclosed \/ replay \/ trace \/ return
Next == source_changes \/ attach \/ start_over \/ Updating
Spec == Init /\ [][Next]_vars

-----------------------------------------------------------------------------
(* Properties.                                                             *)

Option(S) == {{}} \cup {{x} : x \in S}
Values == [SampleIds -> Materials \cup {0}]
Records == [blocks : SUBSET Blocks(Cells), contribution : Materials \cup {0}]
Keys == {KeyOf(src, m) : src \in Sources \cup {NoSource}, m \in Meshes}
Budgets == Option([work : 0..WorkBudget, rays : 0..RayBudget])

VolumeTypeOK ==
    /\ source \in Sources \cup {NoSource} /\ tracking \in BOOLEAN
    /\ mesh \in Meshes /\ key \in Keys
    /\ cursor \in 1..(NumFaces + 1) /\ sum \in Seq(Materials \cup {0}) /\ Len(sum) < Samples
    /\ values \in [Faces -> Option(Values)] /\ done \in SUBSET Faces
    /\ offsets \in [Faces -> {"NO_BITS", "UNTRACKED", "tracked"}]
    /\ records \in [Faces -> [SampleIds -> Option(Records)]]
    /\ call \in Budgets

\* What the volume calls complete is, face by face, what the world, the sun and the proxy
\* of now give when everything is computed from the start: "a recomputed face is
\* bit-identical to a fresh one" (indirect.rs:1040), whatever edits kept, dropped and
\* interrupted (replace_mesh_proxy, invalidate_edit, retained_contribution).
PublishedIsFresh ==
    valid_for(source) => \A s \in Faces : values[s] = Fresh(source, mesh, s)

\* No sample that is kept was computed from other cells than the proxy of now has
\* (begin_sample, walk_segment, invalidate_samples): a replayed contribution is exact.
KeptIsExact ==
    \A s \in Faces : \A i \in SampleIds : \A r \in records[s][i] :
        r.contribution = Contribution(key.source, mesh, s, i)

=============================================================================
