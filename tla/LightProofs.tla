----------------------------- MODULE LightProofs -----------------------------
(* What holds of LightVolume for every box, scene, quadrature and budget,   *)
(* whoever calls it: its types, and that what edits keep is exact; and of   *)
(* WetlandLight: it calls the volume as LightVolume expects, and publishes  *)
(* the light of what the renderer draws.                                    *)
EXTENDS WetlandLight, WellFoundedInduction, TLAPS

\* A set of naturals has a least element.
LEMMA Least ==
    ASSUME NEW T, T \subseteq Nat, T # {}
    PROVE  \E x \in T : \A y \in T : x <= y
<1>1. \E R : IsWellFoundedOn(R, Nat) /\ \A x, y \in Nat : <<y, x>> \in R <=> y < x
  <2>1. \A x, y \in Nat : <<y, x>> \in OpToRel(<, Nat) <=> y < x
    BY DEF OpToRel
  <2> QED BY <2>1, NatLessThanWellFounded
<1>2. PICK R : IsWellFoundedOn(R, Nat) /\ \A x, y \in Nat : <<y, x>> \in R <=> y < x
  BY <1>1
<1>3. PICK x \in T : \A y \in T : ~(<<y, x>> \in R)
  BY <1>2, WFMin
<1>4. ASSUME NEW y \in T PROVE x <= y
  <2>1. ~(y < x) BY <1>2, <1>3, Zenon
  <2> QED BY <2>1
<1> QED BY <1>4

LEMMA ConstantsAre ==
    /\ NumFaces \in Nat /\ Samples \in Nat \ {0} /\ Faces \subseteq Nat /\ NoSource \notin Sources
    /\ \A s \in Faces : Own[s] \in Cells /\ Own[s] \in AllCells /\ Outward[s] \in AllCells
    /\ \A s \in Faces : \A i \in SampleIds : Gather[s][i] \in Seq(AllCells)
    /\ \A src \in Sources : \A c \in AllCells : World[src][c] \in Materials \cup {0}
    /\ \A src \in Sources : \A s \in Faces : \A i \in SampleIds : \A c \in AllCells :
         Shadow[src][s][i][c] \subseteq Seq(AllCells)
BY VolumeAssumption DEF Faces, AllCells

Shape == [box : SUBSET AllCells, at : [AllCells -> Materials \cup {0}]]

LEMMA MeshIs ==
    ASSUME NEW m \in Meshes
    PROVE  m \in Shape /\ \A c \in AllCells \ m.box : m.at[c] = 0
<1>1. CASE m \in Proxies BY <1>1, VolumeAssumption DEF Shape
<1>2. CASE m = NoProxy BY <1>2 DEF NoProxy, Shape
<1> QED BY <1>1, <1>2 DEF Meshes

-----------------------------------------------------------------------------
(* A proxy that differs only where a sample did not read gives it the same. *)

(* What a ray meets depends on the cells it reads alone.                    *)
LEMMA RayAgrees ==
    ASSUME NEW src \in Sources, NEW m \in Meshes, NEW n \in Meshes, m.box = n.box,
           NEW ray \in Seq(AllCells),
           \A c \in walk_segment(src, m, ray) : m.at[c] = n.at[c]
    PROVE  /\ trace_scene(src, n, ray) = trace_scene(src, m, ray)
           /\ walk_segment(src, n, ray) = walk_segment(src, m, ray)
           /\ \A k \in trace_scene(src, m, ray) :
                scene_material(src, n, ray[k]) = scene_material(src, m, ray[k])
<1>0. Len(ray) \in Nat /\ \A k \in 1..Len(ray) : ray[k] \in AllCells
  OBVIOUS
<1>1. ASSUME NEW k \in 1..Len(ray), FreeBefore(src, m, ray, k)
      PROVE  scene_material(src, n, ray[k]) = scene_material(src, m, ray[k])
  <2>1. CASE \E j \in k..Len(ray) : ray[j] \in m.box
    <3>1. ray[k] \in walk_segment(src, m, ray) BY <2>1, <1>1 DEF walk_segment
    <3> QED BY <3>1 DEF scene_material
  <2>2. CASE ~ \E j \in k..Len(ray) : ray[j] \in m.box
    <3>1. k \in k..Len(ray) BY <1>0
    <3>2. ray[k] \in AllCells \ m.box BY <3>1, <2>2, <1>0
    <3>3. m.at[ray[k]] = 0 /\ n.at[ray[k]] = 0 BY <3>2, MeshIs
    <3> QED BY <3>3 DEF scene_material
  <2> QED BY <2>1, <2>2
<1>2. ASSUME NEW k \in 1..Len(ray), FreeBefore(src, m, ray, k) PROVE FreeBefore(src, n, ray, k)
  <2> SUFFICES ASSUME NEW j \in 1..(k - 1) PROVE scene_material(src, n, ray[j]) = 0
    BY DEF FreeBefore
  <2>1. j \in 1..Len(ray) /\ 1..(j - 1) \subseteq 1..(k - 1) BY <1>0
  <2>2. FreeBefore(src, m, ray, j) BY <2>1, <1>2 DEF FreeBefore
  <2>3. scene_material(src, m, ray[j]) = 0 BY <1>2 DEF FreeBefore
  <2> QED BY <2>1, <2>2, <2>3, <1>1
<1>3. ASSUME NEW k \in 1..Len(ray), FreeBefore(src, n, ray, k) PROVE FreeBefore(src, m, ray, k)
  <2> DEFINE T == {j \in 1..(k - 1) : scene_material(src, m, ray[j]) # 0}
  <2> SUFFICES ASSUME T # {} PROVE FALSE BY DEF FreeBefore
  <2>1. T \subseteq Nat BY <1>0
  <2>2. PICK j \in T : \A i \in T : j <= i BY <2>1, Least
  <2>3. j \in 1..Len(ray) /\ \A i \in 1..(j - 1) : i \in 1..(k - 1) /\ ~(j <= i) BY <1>0
  <2>4. FreeBefore(src, m, ray, j) BY <2>2, <2>3 DEF FreeBefore
  <2>5. scene_material(src, n, ray[j]) # 0 BY <2>3, <2>4, <1>1
  <2> QED BY <2>5, <1>3 DEF FreeBefore
<1>4. \A k \in 1..Len(ray) : FreeBefore(src, n, ray, k) <=> FreeBefore(src, m, ray, k)
  BY <1>2, <1>3
<1>5. trace_scene(src, n, ray) = trace_scene(src, m, ray)
  BY <1>1, <1>4 DEF trace_scene
<1>6. walk_segment(src, n, ray) = walk_segment(src, m, ray)
  BY <1>4 DEF walk_segment
<1>7. \A k \in trace_scene(src, m, ray) :
        scene_material(src, n, ray[k]) = scene_material(src, m, ray[k])
  BY <1>1 DEF trace_scene
<1> QED BY <1>5, <1>6, <1>7

LEMMA ShadowRaysAre ==
    ASSUME NEW src \in Sources, NEW m \in Meshes, NEW s \in Faces, NEW i \in SampleIds
    PROVE  ShadowRays(src, m, s, i) \subseteq Seq(AllCells)
<1> SUFFICES ASSUME NEW k \in trace_scene(src, m, Gather[s][i])
             PROVE  Shadow[src][s][i][Gather[s][i][k]] \subseteq Seq(AllCells)
  BY DEF ShadowRays
<1>1. Gather[s][i] \in Seq(AllCells) /\ k \in 1..Len(Gather[s][i])
  BY ConstantsAre DEF trace_scene
<1>2. Gather[s][i][k] \in AllCells BY <1>1
<1> QED BY <1>2, ConstantsAre

LEMMA WalkIs ==
    ASSUME NEW src \in Sources, NEW m \in Meshes, NEW ray \in Seq(AllCells)
    PROVE  walk_segment(src, m, ray) \subseteq AllCells
BY DEF walk_segment

LEMMA ReadByIs ==
    ASSUME NEW src \in Sources, NEW m \in Meshes, NEW s \in Faces, NEW i \in SampleIds
    PROVE  ReadBy(src, m, s, i) \subseteq AllCells
<1>1. \A ray \in ShadowRays(src, m, s, i) : walk_segment(src, m, ray) \subseteq AllCells
  BY ShadowRaysAre, WalkIs
<1>2. walk_segment(src, m, Gather[s][i]) \subseteq AllCells BY ConstantsAre, WalkIs
<1>3. Own[s] \in AllCells /\ Outward[s] \in AllCells BY ConstantsAre
<1> QED BY <1>1, <1>2, <1>3 DEF ReadBy

LEMMA ContributionIs ==
    ASSUME NEW src \in Sources, NEW m \in Meshes, NEW s \in Faces, NEW i \in SampleIds
    PROVE  Contribution(src, m, s, i) \in Materials \cup {0}
<1> DEFINE ray == Gather[s][i]
           T == trace_scene(src, m, ray)
<1>1. CASE ~ \E r \in ShadowRays(src, m, s, i) : trace_scene(src, m, r) = {}
  BY <1>1 DEF Contribution
<1>2. CASE \E r \in ShadowRays(src, m, s, i) : trace_scene(src, m, r) = {}
  <2>1. \E k \in T : TRUE BY <1>2 DEF ShadowRays
  <2>2. PICK k \in T : k = CHOOSE j \in T : TRUE BY <2>1
  <2>3. ray \in Seq(AllCells) /\ k \in 1..Len(ray) BY ConstantsAre DEF trace_scene
  <2>4. ray[k] \in AllCells BY <2>3
  <2>5. scene_material(src, m, ray[k]) \in Materials \cup {0}
    BY <2>4, MeshIs, ConstantsAre DEF scene_material, Shape
  <2>6. Contribution(src, m, s, i) = scene_material(src, m, ray[k])
    BY <1>2, <2>2 DEF Contribution
  <2> QED BY <2>5, <2>6
<1> QED BY <1>1, <1>2

(* A sample that read none of the changed cells is the same sample.         *)
LEMMA SampleAgrees ==
    ASSUME NEW src \in Sources, NEW m \in Meshes, NEW n \in Meshes, m.box = n.box,
           NEW s \in Faces, NEW i \in SampleIds,
           \A c \in ReadBy(src, m, s, i) : m.at[c] = n.at[c]
    PROVE  /\ Contribution(src, n, s, i) = Contribution(src, m, s, i)
           /\ Record(src, n, s, i) = Record(src, m, s, i)
<1> DEFINE ray == Gather[s][i]
           T == trace_scene(src, m, ray)
           S == ShadowRays(src, m, s, i)
<1>1. ray \in Seq(AllCells) BY ConstantsAre
<1>2. \A c \in walk_segment(src, m, ray) : m.at[c] = n.at[c] BY DEF ReadBy
<1>3. /\ trace_scene(src, n, ray) = T
      /\ walk_segment(src, n, ray) = walk_segment(src, m, ray)
      /\ \A k \in T : scene_material(src, n, ray[k]) = scene_material(src, m, ray[k])
  BY <1>1, <1>2, RayAgrees
<1>4. ShadowRays(src, n, s, i) = S BY <1>3 DEF ShadowRays
<1>5. ASSUME NEW r \in S
      PROVE  /\ trace_scene(src, n, r) = trace_scene(src, m, r)
             /\ walk_segment(src, n, r) = walk_segment(src, m, r)
  <2>1. r \in Seq(AllCells) BY ShadowRaysAre
  <2>2. \A c \in walk_segment(src, m, r) : m.at[c] = n.at[c] BY DEF ReadBy
  <2> QED BY <2>1, <2>2, RayAgrees
<1>6. Contribution(src, n, s, i) = Contribution(src, m, s, i)
  <2>1. (\E r \in S : trace_scene(src, n, r) = {}) <=> (\E r \in S : trace_scene(src, m, r) = {})
    BY <1>5
  <2>2. CASE ~ \E r \in S : trace_scene(src, m, r) = {}
    BY <2>1, <2>2, <1>4 DEF Contribution
  <2>3. CASE \E r \in S : trace_scene(src, m, r) = {}
    <3>1. \E k \in T : TRUE BY <2>3 DEF ShadowRays
    <3>2. PICK k \in T : k = CHOOSE j \in T : TRUE BY <3>1
    <3>3. Contribution(src, m, s, i) = scene_material(src, m, ray[k])
      BY <2>3, <3>2 DEF Contribution
    <3>4. Contribution(src, n, s, i) = scene_material(src, n, ray[k])
      BY <2>3, <2>1, <3>2, <1>3, <1>4 DEF Contribution
    <3> QED BY <3>3, <3>4, <1>3
  <2> QED BY <2>2, <2>3
<1>7. UNION {walk_segment(src, n, r) : r \in S} = UNION {walk_segment(src, m, r) : r \in S}
  BY <1>5
<1>8. ReadBy(src, n, s, i) = ReadBy(src, m, s, i)
  BY <1>3, <1>4, <1>7 DEF ReadBy
<1> QED BY <1>6, <1>8 DEF Record
-----------------------------------------------------------------------------
(* The invariant: what is done, recorded or added up is what the scene of   *)
(* the key gives, and a face that is done with records has one per sample.  *)

KeyTells == key # NoKey => key.source \in Sources /\ key.mesh = mesh
CallHasKey == call # {} => key # NoKey
Scanned == \A s \in Faces : s < cursor => s \in done
SlotFresh(s) == values[s] = IF s \in done THEN Fresh(key.source, mesh, s) ELSE {}
RecordsExact ==
    \A s \in Faces : \A i \in SampleIds : \A r \in records[s][i] :
        r = Record(key.source, mesh, s, i)
Recorded(s, n) == offsets[s] = "UNTRACKED" \/ \A i \in 1..n : records[s][i] # {}
DoneRecorded == tracking => \A s \in done : values[s] # {} => Recorded(s, Samples)
PartialFresh ==
    sum # << >> =>
        /\ cursor \in Faces \ done /\ Here
        /\ \A j \in 1..Len(sum) : sum[j] = Contribution(key.source, mesh, cursor, j)
        /\ tracking => Recorded(cursor, Len(sum))

VolInv ==
    /\ VolumeTypeOK /\ KeyTells /\ CallHasKey /\ Scanned /\ \A s \in Faces : SlotFresh(s)
    /\ RecordsExact /\ DoneRecorded /\ PartialFresh

LEMMA KeyIs ==
    /\ NoKey \in Keys
    /\ \A src \in Sources, m \in Meshes :
         /\ KeyOf(src, m) = [source |-> src, mesh |-> m]
         /\ KeyOf(src, m) \in Keys /\ KeyOf(src, m) # NoKey
    /\ \A m \in Meshes : KeyOf(NoSource, m) = NoKey
<1>1. NoProxy \in Meshes BY DEF Meshes
<1>2. NoKey \in Keys BY <1>1 DEF Keys, KeyOf
<1>3. ASSUME NEW src \in Sources, NEW m \in Meshes
      PROVE  /\ KeyOf(src, m) = [source |-> src, mesh |-> m]
             /\ KeyOf(src, m) \in Keys /\ KeyOf(src, m) # NoKey
  <2>1. src # NoSource BY ConstantsAre
  <2>2. KeyOf(src, m) = [source |-> src, mesh |-> m] BY <2>1 DEF KeyOf
  <2>3. KeyOf(src, m) # NoKey BY <2>1, <2>2 DEF NoKey
  <2>4. KeyOf(src, m) \in Keys BY DEF Keys
  <2> QED BY <2>2, <2>3, <2>4
<1>4. \A m \in Meshes : KeyOf(NoSource, m) = NoKey BY DEF KeyOf
<1> QED BY <1>2, <1>3, <1>4

LEMMA EmptyIs == {} \in Option(Values) /\ {} \in Option(Records) /\ {} \in Budgets
BY DEF Option, Budgets

(* A cleared volume holds nothing that could be wrong.                      *)
LEMMA ClearKeeps ==
    ASSUME VolInv, NEW k \in Keys, clear(k),
           source' \in Sources \cup {NoSource}, tracking' \in BOOLEAN,
           mesh' \in Meshes, call' \in Budgets, call' # {} => k # NoKey,
           k # NoKey => k.source \in Sources /\ k.mesh = mesh'
    PROVE  VolInv'
<1>1. VolumeTypeOK'
  <2>1. cursor' \in 1..(NumFaces + 1) BY ConstantsAre DEF clear
  <2>2. sum' \in Seq(Materials \cup {0}) /\ Len(sum') < Samples BY ConstantsAre DEF clear
  <2>3. values' \in [Faces -> Option(Values)]
    <3>1. values' = [s \in Faces |-> {}] BY DEF clear
    <3> QED BY <3>1, EmptyIs
  <2>4. done' \in SUBSET Faces BY DEF clear
  <2>5. offsets' \in [Faces -> {"NO_BITS", "UNTRACKED", "tracked"}] BY DEF clear
  <2>6. records' \in [Faces -> [SampleIds -> Option(Records)]]
    <3>1. records' = [s \in Faces |-> [i \in SampleIds |-> {}]] BY DEF clear
    <3> QED BY <3>1, EmptyIs
  <2>7. key' \in Keys BY DEF clear
  <2> QED BY <2>1, <2>2, <2>3, <2>4, <2>5, <2>6, <2>7
       DEF VolumeTypeOK
<1>2. KeyTells' /\ CallHasKey' BY DEF KeyTells, CallHasKey, clear
<1>3. Scanned' BY ConstantsAre DEF Scanned, clear, Faces
<1>4. \A s \in Faces : SlotFresh(s)' BY DEF SlotFresh, clear
<1>5. RecordsExact' BY DEF RecordsExact, clear
<1>6. DoneRecorded' /\ PartialFresh' BY DEF DoneRecorded, PartialFresh, clear
<1> QED BY <1>1, <1>2, <1>3, <1>4, <1>5, <1>6 DEF VolInv

(* A record that names no block with a changed cell is still exact.         *)
LEMMA UncrossedAgrees ==
    ASSUME NEW src \in Sources, NEW m \in Meshes, NEW n \in Meshes, m.box = n.box,
           NEW s \in Faces, NEW i \in SampleIds, NEW changed \in SUBSET Cells,
           \A c \in AllCells \ changed : m.at[c] = n.at[c],
           Record(src, m, s, i).blocks \cap Blocks(changed) = {}
    PROVE  /\ Contribution(src, n, s, i) = Contribution(src, m, s, i)
           /\ Record(src, n, s, i) = Record(src, m, s, i)
<1>1. ReadBy(src, m, s, i) \subseteq AllCells BY ReadByIs
<1>2. ASSUME NEW c \in ReadBy(src, m, s, i), c \in changed PROVE FALSE
  <2>1. Block[c] \in Blocks(ReadBy(src, m, s, i)) BY <1>2 DEF Blocks
  <2>2. Block[c] \in Blocks(changed) BY <1>2 DEF Blocks
  <2> QED BY <2>1, <2>2 DEF Record
<1> QED BY <1>1, <1>2, SampleAgrees

LEMMA RetainKeeps ==
    ASSUME VolInv, NEW m \in Meshes, m # mesh, Decidable(m), Idle,
           retain_samples(m, ChangedCells(m)),
           UNCHANGED <<source, tracking, call>>
    PROVE  VolInv'
<1> DEFINE changed == ChangedCells(m)
           src == key.source
           Out == Invalidated(changed)
<1>0. /\ VolumeTypeOK /\ src \in Sources /\ key.mesh = mesh /\ tracking /\ mesh \in Meshes
      /\ key = [source |-> src, mesh |-> mesh]
  <2>1. /\ key # NoKey /\ key \in Keys /\ VolumeTypeOK /\ KeyTells /\ tracking /\ mesh \in Meshes
    BY DEF VolInv, VolumeTypeOK, Decidable
  <2>2. src \in Sources /\ key.mesh = mesh BY <2>1 DEF KeyTells
  <2>3. key = [source |-> src, mesh |-> mesh] BY <2>1, <2>2 DEF Keys, KeyOf, NoKey
  <2> QED BY <2>1, <2>2, <2>3
<1>1. /\ changed \subseteq Cells /\ mesh.box = m.box
      /\ \A c \in AllCells \ changed : mesh.at[c] = m.at[c]
  BY DEF Decidable, ChangedCells
<1>2. changed # {}
  <2> SUFFICES ASSUME changed = {} PROVE m = mesh OBVIOUS
  <2>1. m \in Shape /\ mesh \in Shape BY <1>0, MeshIs
  <2>2. \A c \in AllCells : mesh.at[c] = m.at[c] BY <1>1
  <2>3. mesh.at = m.at BY <2>1, <2>2 DEF Shape
  <2> QED BY <2>1, <2>3, <1>1 DEF Shape
<1>3. /\ mesh' = m /\ key' = [source |-> src, mesh |-> m] /\ done' = done \ Out /\ sum' = << >>
      /\ offsets' = offsets /\ tracking' = tracking
      /\ values' = [s \in Faces |-> IF s \in Out THEN {} ELSE values[s]]
      /\ records' = [s \in Faces |-> [i \in SampleIds |->
                       IF Crossed(changed, s, i) THEN {} ELSE records[s][i]]]
  BY <1>0, <1>2 DEF retain_samples
<1>4. cursor' \in 1..(NumFaces + 1) /\ \A s \in Faces : s < cursor' => s \in done'
  <2> DEFINE T == Faces \ done'
  <2>0. cursor \in 1..(NumFaces + 1) /\ Scanned BY DEF VolInv, VolumeTypeOK
  <2>1. CASE Faces \subseteq done' BY <2>0, <2>1 DEF retain_samples
  <2>2. CASE ~(Faces \subseteq done')
    <3>1. T \subseteq Nat /\ T # {} BY <2>2, ConstantsAre
    <3>2. \E s \in T : \A t \in T : s <= t BY <3>1, Least
    <3>3. PICK f \in T : /\ f = CHOOSE s \in T : \A t \in T : s <= t
                         /\ \A t \in T : f <= t
      BY <3>2
    <3>4. cursor' = IF f < cursor THEN f ELSE cursor
      BY <2>2, <3>3 DEF retain_samples
    <3>5. f \in 1..NumFaces BY DEF Faces
    <3>6. cursor' \in 1..(NumFaces + 1) /\ cursor' <= f
      BY <2>0, <3>4, <3>5, ConstantsAre
    <3>7. ASSUME NEW s \in Faces, s < cursor', s \notin done' PROVE FALSE
      <4>1. f <= s BY <3>3, <3>7
      <4> QED BY <4>1, <3>7, <3>6, <3>5, <2>0, ConstantsAre
    <3> QED BY <3>6, <3>7
  <2> QED BY <2>1, <2>2
<1>5. VolumeTypeOK'
  <2>1. key' \in Keys /\ mesh' \in Meshes
    <3>1. KeyOf(src, m) = [source |-> src, mesh |-> m] BY <1>0, KeyIs
    <3> QED BY <1>0, <1>3, <3>1, KeyIs
  <2>2. values' \in [Faces -> Option(Values)]
    BY <1>0, <1>3, EmptyIs DEF VolumeTypeOK
  <2>3. records' \in [Faces -> [SampleIds -> Option(Records)]]
    BY <1>0, <1>3, EmptyIs DEF VolumeTypeOK
  <2>4. sum' \in Seq(Materials \cup {0}) /\ Len(sum') < Samples /\ done' \in SUBSET Faces
    BY <1>0, <1>3, ConstantsAre DEF VolumeTypeOK
  <2> QED BY <1>0, <1>3, <1>4, <2>1, <2>2, <2>3, <2>4 DEF VolumeTypeOK
<1>6. KeyTells' /\ CallHasKey'
  BY <1>0, <1>3 DEF KeyTells, CallHasKey, Idle
<1>7. RecordsExact'
  <2> SUFFICES ASSUME NEW s \in Faces, NEW i \in SampleIds, NEW r \in records'[s][i]
               PROVE  r = Record(src, m, s, i)
    BY <1>3 DEF RecordsExact
  <2>1. r \in records[s][i] /\ ~Crossed(changed, s, i) BY <1>3
  <2>2. r = Record(src, mesh, s, i) BY <2>1 DEF VolInv, RecordsExact
  <2>3. Record(src, mesh, s, i).blocks \cap Blocks(changed) = {} BY <2>1, <2>2 DEF Crossed
  <2> QED BY <2>2, <2>3, <1>0, <1>1, UncrossedAgrees
<1>8. ASSUME NEW s \in Faces PROVE SlotFresh(s)'
  <2>1. CASE s \in Out BY <1>3, <2>1 DEF SlotFresh
  <2>2. CASE s \notin Out /\ s \notin done
    BY <1>3, <2>2 DEF SlotFresh, VolInv
  <2>3. CASE s \notin Out /\ s \in done
    <3>1. /\ Own[s] \notin changed /\ Outward[s] \notin changed /\ offsets[s] # "UNTRACKED"
          /\ \A i \in SampleIds : ~Crossed(changed, s, i)
      BY <2>3 DEF Invalidated
    <3>2. values[s] = Fresh(src, mesh, s) BY <2>3 DEF VolInv, SlotFresh
    <3>3. Exposed(src, m, s) <=> Exposed(src, mesh, s)
      BY <3>1, <1>1, ConstantsAre DEF Exposed, scene_material
    <3>4. ASSUME NEW i \in SampleIds, Exposed(src, mesh, s)
          PROVE  Contribution(src, m, s, i) = Contribution(src, mesh, s, i)
      <4>1. values[s] # {} BY <3>2, <3>4 DEF Fresh
      <4>2. records[s][i] # {}
        BY <4>1, <2>3, <3>1, <1>0 DEF VolInv, DoneRecorded, Recorded, SampleIds
      <4>3. PICK r \in records[s][i] : r = Record(src, mesh, s, i)
        BY <4>2 DEF VolInv, RecordsExact
      <4>4. Record(src, mesh, s, i).blocks \cap Blocks(changed) = {}
        BY <4>3, <3>1 DEF Crossed
      <4> QED BY <4>4, <1>0, <1>1, UncrossedAgrees
    <3>5. Fresh(src, m, s) = Fresh(src, mesh, s) BY <3>3, <3>4 DEF Fresh
    <3> QED BY <1>3, <2>3, <3>2, <3>5 DEF SlotFresh
  <2> QED BY <2>1, <2>2, <2>3
<1>9. DoneRecorded'
  <2> SUFFICES ASSUME NEW s \in done', values'[s] # {} PROVE Recorded(s, Samples)'
    BY DEF DoneRecorded
  <2>0. done \subseteq Faces BY <1>0 DEF VolumeTypeOK
  <2>1. s \in done /\ s \in Faces /\ s \notin Out BY <1>3, <2>0
  <2>2. values[s] # {} BY <1>3, <2>1
  <2>3. Recorded(s, Samples) BY <1>0, <2>1, <2>2 DEF VolInv, DoneRecorded
  <2>4. \A i \in SampleIds : ~Crossed(changed, s, i) BY <2>1 DEF Invalidated
  <2>5. records'[s] = [i \in SampleIds |-> records[s][i]] BY <1>3, <2>1, <2>4
  <2> QED BY <1>3, <2>3, <2>5 DEF Recorded, SampleIds
<1>10. Scanned' /\ PartialFresh' BY <1>3, <1>4 DEF Scanned, PartialFresh
<1> QED BY <1>5, <1>6, <1>7, <1>8, <1>9, <1>10 DEF VolInv

-----------------------------------------------------------------------------
(* The steps of an update.                                                  *)

LEMMA KeyInUse ==
    ASSUME VolInv, call # {}
    PROVE  key.source \in Sources /\ key.mesh = mesh /\ mesh \in Meshes
BY DEF VolInv, VolumeTypeOK, CallHasKey, KeyTells

LEMMA SpendKeeps ==
    ASSUME VolInv, NEW n \in Nat, \A b \in call : b.work > 0 /\ b.rays >= n, Spend(n)
    PROVE  call' \in Budgets /\ (call' # {} => call # {})
<1>1. call \in Budgets /\ WorkBudget \in Nat /\ RayBudget \in Nat
  BY VolumeAssumption DEF VolInv, VolumeTypeOK
<1>2. CASE call = {} BY <1>2, EmptyIs DEF Spend
<1>3. CASE call # {}
  <2>1. PICK b \in [work : 0..WorkBudget, rays : 0..RayBudget] : call = {b}
    BY <1>1, <1>3 DEF Budgets, Option
  <2>2. call' = {[work |-> b.work - 1, rays |-> b.rays - n]} BY <2>1 DEF Spend
  <2>3. b.work - 1 \in 0..WorkBudget /\ b.rays - n \in 0..RayBudget
    BY <1>1, <2>1
  <2> QED BY <2>1, <2>2, <2>3 DEF Budgets, Option
<1> QED BY <1>2, <1>3

(* A sample that is exact and, where it matters, recorded, carries its face *)
(* on or finishes it.                                                       *)
LEMMA AddKeeps ==
    ASSUME VolInv, Scanning, cursor \notin done, Here, KeyTells', CallHasKey',
           add(Contribution(key.source, mesh, cursor, Sample)),
           UNCHANGED <<source, mesh, key, tracking>>, call' \in Budgets,
           offsets' \in [Faces -> {"NO_BITS", "UNTRACKED", "tracked"}],
           records' \in [Faces -> [SampleIds -> Option(Records)]], RecordsExact',
           \A s \in Faces \ {cursor} : offsets'[s] = offsets[s] /\ records'[s] = records[s],
           NEW face, NEW n, face = cursor, n = Sample, tracking => Recorded(face, n)'
    PROVE  VolInv'
<1> DEFINE c == Contribution(key.source, mesh, cursor, Sample)
           f == [i \in SampleIds |-> Contribution(key.source, mesh, cursor, i)]
           longer == Append(sum, c)
<1>0. /\ VolumeTypeOK /\ cursor \in Faces /\ cursor \in Nat /\ done \subseteq Faces
      /\ sum \in Seq(Materials \cup {0}) /\ Len(sum) \in Nat /\ Len(sum) < Samples
      /\ values \in [Faces -> Option(Values)]
      /\ key.source \in Sources /\ mesh \in Meshes /\ Sample \in SampleIds
  <2>1. VolumeTypeOK /\ call # {} BY DEF VolInv, Scanning
  <2>2. cursor \in Faces /\ cursor \in Nat BY <2>1, ConstantsAre DEF Scanning, VolumeTypeOK, Faces
  <2>3. /\ sum \in Seq(Materials \cup {0}) /\ Len(sum) \in Nat /\ Len(sum) < Samples
        /\ done \subseteq Faces /\ values \in [Faces -> Option(Values)]
    BY <2>1 DEF VolumeTypeOK
  <2>4. Sample \in SampleIds BY <2>3, ConstantsAre DEF Sample, SampleIds
  <2> QED BY <2>1, <2>2, <2>3, <2>4, KeyInUse
<1>1. c \in Materials \cup {0} BY <1>0, ContributionIs
<1>2. /\ longer \in Seq(Materials \cup {0}) /\ Len(longer) = Sample
      /\ \A j \in 1..Sample : longer[j] = Contribution(key.source, mesh, cursor, j)
  <2>1. \A j \in 1..Len(sum) : sum[j] = Contribution(key.source, mesh, cursor, j)
    BY <1>0 DEF VolInv, PartialFresh
  <2> QED BY <2>1, <1>0, <1>1 DEF Sample
<1>3. CASE Sample = Samples
  <2>1. /\ values' = [values EXCEPT ![cursor] = {longer}] /\ sum' = << >>
        /\ done' = done \cup {cursor} /\ cursor' = cursor + 1
    BY <1>3 DEF add
  <2>2. longer = f /\ f \in Values
    <3>1. longer = [j \in 1..Samples |-> longer[j]] BY <1>2, <1>3
    <3>2. longer = f BY <3>1, <1>2, <1>3 DEF SampleIds
    <3>3. f \in Values BY <1>0, ContributionIs DEF Values
    <3> QED BY <3>2, <3>3
  <2>3. {longer} = Fresh(key.source, mesh, cursor)
    BY <2>2 DEF Fresh, Here
  <2>4. VolumeTypeOK'
    <3>1. {longer} \in Option(Values) BY <2>2 DEF Option
    <3>2. values' \in [Faces -> Option(Values)] BY <3>1, <2>1, <1>0
    <3>3. cursor' \in 1..(NumFaces + 1) BY <2>1, <1>0, ConstantsAre DEF Faces
    <3>4. sum' \in Seq(Materials \cup {0}) /\ Len(sum') < Samples BY <2>1, ConstantsAre
    <3> QED BY <1>0, <2>1, <3>2, <3>3, <3>4 DEF VolumeTypeOK
  <2>5. Scanned' BY <1>0, <2>1, ConstantsAre DEF VolInv, Scanned
  <2>6. ASSUME NEW s \in Faces PROVE SlotFresh(s)'
    <3>1. CASE s = cursor BY <3>1, <2>1, <2>3, <1>0 DEF SlotFresh
    <3>2. CASE s # cursor BY <3>2, <2>1, <1>0 DEF SlotFresh, VolInv
    <3> QED BY <3>1, <3>2
  <2>7. DoneRecorded'
    <3> SUFFICES ASSUME tracking, NEW s \in done', values'[s] # {} PROVE Recorded(s, Samples)'
      BY DEF DoneRecorded
    <3>1. CASE s = cursor BY <3>1, <1>3
    <3>2. CASE s # cursor
      <4>1. s \in done /\ s \in Faces /\ values[s] # {} BY <3>2, <2>1, <1>0
      <4> QED BY <4>1, <3>2 DEF VolInv, DoneRecorded, Recorded
    <3> QED BY <3>1, <3>2
  <2>8. PartialFresh' BY <2>1 DEF PartialFresh
  <2> QED BY <2>4, <2>5, <2>6, <2>7, <2>8 DEF VolInv
<1>4. CASE Sample # Samples
  <2>1. sum' = longer /\ UNCHANGED <<values, done, cursor>> BY <1>4 DEF add
  <2>2. VolumeTypeOK' 
    <3>1. sum' \in Seq(Materials \cup {0}) /\ Len(sum') < Samples
      BY <2>1, <1>2, <1>4, <1>0, ConstantsAre DEF Sample
    <3> QED BY <3>1, <2>1, <1>0 DEF VolumeTypeOK
  <2>3. Scanned' BY <2>1 DEF VolInv, Scanned
  <2>4. \A s \in Faces : SlotFresh(s)' BY <2>1 DEF VolInv, SlotFresh
  <2>5. DoneRecorded'
    <3> SUFFICES ASSUME tracking, NEW s \in done, values[s] # {} PROVE Recorded(s, Samples)'
      BY <2>1 DEF DoneRecorded
    <3>1. s \in Faces \ {cursor} BY <1>0
    <3> QED BY <3>1 DEF VolInv, DoneRecorded, Recorded
  <2>6. PartialFresh'
    <3>1. Here' <=> Here BY <2>1 DEF Here
    <3>2. (tracking => Recorded(cursor, Len(sum)))' BY <2>1, <1>2 DEF Recorded
    <3> QED BY <2>1, <1>2, <1>0, <3>1, <3>2 DEF PartialFresh, Recorded
  <2> QED BY <2>2, <2>3, <2>4, <2>5, <2>6 DEF VolInv
<1> QED BY <1>3, <1>4

LEMMA UpdateKeeps == ASSUME VolInv, update PROVE VolInv'
<1> DEFINE k == KeyOf(source, mesh)
<1>1. VolumeTypeOK /\ Idle /\ UNCHANGED <<source, mesh, tracking>>
  BY DEF VolInv, update
<1>2. call' \in Budgets /\ (call' # {} => source # NoSource)
  <2>1. WorkBudget \in Nat /\ RayBudget \in Nat BY VolumeAssumption
  <2>2. [work |-> WorkBudget, rays |-> RayBudget] \in [work : 0..WorkBudget, rays : 0..RayBudget]
    BY <2>1
  <2> QED BY <2>2, EmptyIs DEF update, Budgets, Option
<1>3. k \in Keys /\ (k # NoKey => k.source \in Sources /\ k.mesh = mesh)
      /\ (source # NoSource => k # NoKey)
  BY <1>1, KeyIs DEF VolumeTypeOK
<1>4. CASE k # key \/ k = NoKey
  <2>1. clear(k) BY <1>4 DEF update
  <2>2. /\ source' \in Sources \cup {NoSource} /\ tracking' \in BOOLEAN
        /\ mesh' \in Meshes /\ call' \in Budgets /\ (call' # {} => k # NoKey)
        /\ (k # NoKey => k.source \in Sources /\ k.mesh = mesh')
    BY <1>1, <1>2, <1>3 DEF VolumeTypeOK
  <2> QED BY <2>1, <2>2, <1>3, ClearKeeps
<1>5. CASE k = key /\ k # NoKey
  <2>1. UNCHANGED <<key, cursor, sum, values, done, offsets, records>> BY <1>5 DEF update
  <2>2. VolumeTypeOK' BY <1>1, <1>2, <2>1 DEF VolumeTypeOK
  <2>3. KeyTells' /\ CallHasKey' BY <1>1, <1>5, <2>1 DEF VolInv, KeyTells, CallHasKey
  <2>4. Scanned' /\ RecordsExact' /\ \A s \in Faces : SlotFresh(s)'
    BY <1>1, <2>1 DEF VolInv, Scanned, RecordsExact, SlotFresh
  <2>5. DoneRecorded' /\ PartialFresh'
    BY <1>1, <2>1 DEF VolInv, DoneRecorded, PartialFresh, Recorded, Here
  <2> QED BY <2>2, <2>3, <2>4, <2>5 DEF VolInv
<1> QED BY <1>4, <1>5

LEMMA SkipKeeps == ASSUME VolInv, skip PROVE VolInv'
<1>1. /\ VolumeTypeOK /\ cursor \in done /\ cursor' = cursor + 1 /\ cursor <= NumFaces /\ sum = << >>
      /\ UNCHANGED <<source, mesh, key, sum, values, done, tracking, offsets, records, call>>
  BY DEF VolInv, PartialFresh, skip, Scanning, tracker
<1>2. VolumeTypeOK' BY <1>1, ConstantsAre DEF VolumeTypeOK
<1>3. KeyTells' /\ CallHasKey' BY <1>1 DEF VolInv, KeyTells, CallHasKey
<1>4. Scanned' BY <1>1, ConstantsAre DEF VolInv, Scanned, VolumeTypeOK
<1>5. RecordsExact' /\ \A s \in Faces : SlotFresh(s)'
  BY <1>1 DEF VolInv, RecordsExact, SlotFresh
<1>6. DoneRecorded' /\ PartialFresh'
  BY <1>1 DEF VolInv, DoneRecorded, PartialFresh, Recorded
<1> QED BY <1>2, <1>3, <1>4, <1>5, <1>6 DEF VolInv

LEMMA EnclosedKeeps == ASSUME VolInv, enclosed PROVE VolInv'
<1> DEFINE none == [i \in SampleIds |-> {}]
<1>1. /\ VolumeTypeOK /\ cursor \in Faces \ done /\ cursor \in Nat /\ ~Here /\ sum = << >>
      /\ done' = done \cup {cursor} /\ cursor' = cursor + 1 /\ cursor <= NumFaces
      /\ records' = [records EXCEPT ![cursor] = none]
      /\ UNCHANGED <<source, mesh, key, sum, values, tracking, offsets>>
  <2>1. cursor \in Faces \ done /\ cursor \in Nat
    BY ConstantsAre DEF VolInv, VolumeTypeOK, enclosed, Scanning, Faces
  <2> QED BY <2>1 DEF VolInv, PartialFresh, enclosed, Scanning
<1>2. call' \in Budgets /\ (call' # {} => call # {})
  <2>1. \A b \in call : b.work > 0 /\ b.rays >= 0
    BY <1>1 DEF VolumeTypeOK, Budgets, Option, enclosed, Scanning
  <2> QED BY <2>1, SpendKeeps DEF enclosed
<1>3. VolumeTypeOK'
  <2>1. records' \in [Faces -> [SampleIds -> Option(Records)]]
    BY <1>1, EmptyIs DEF VolumeTypeOK
  <2>2. cursor' \in 1..(NumFaces + 1) BY <1>1, ConstantsAre
  <2> QED BY <1>1, <1>2, <2>1, <2>2 DEF VolumeTypeOK
<1>4. KeyTells' /\ CallHasKey' BY <1>1, <1>2 DEF VolInv, KeyTells, CallHasKey
<1>5. Scanned' BY <1>1, ConstantsAre DEF VolInv, Scanned
<1>6. ASSUME NEW s \in Faces PROVE SlotFresh(s)'
  <2>1. CASE s = cursor BY <2>1, <1>1 DEF VolInv, SlotFresh, Fresh, Here
  <2>2. CASE s # cursor BY <2>2, <1>1 DEF VolInv, SlotFresh
  <2> QED BY <2>1, <2>2
<1>7. RecordsExact' BY <1>1 DEF VolInv, RecordsExact, VolumeTypeOK
<1>8. DoneRecorded'
  <2> SUFFICES ASSUME tracking, NEW s \in done', values[s] # {} PROVE Recorded(s, Samples)'
    BY <1>1 DEF DoneRecorded
  <2>1. values[cursor] = {} BY <1>1 DEF VolInv, SlotFresh
  <2>2. s \in done /\ s \in Faces /\ s # cursor BY <1>1, <2>1 DEF VolumeTypeOK
  <2>3. records'[s] = records[s] BY <1>1, <2>2 DEF VolumeTypeOK
  <2> QED BY <2>2, <2>3, <1>1 DEF VolInv, DoneRecorded, Recorded
<1>9. PartialFresh' BY <1>1 DEF PartialFresh
<1> QED BY <1>3, <1>4, <1>5, <1>6, <1>7, <1>8, <1>9 DEF VolInv

(* The face of the cursor, when a sample is due.                            *)
LEMMA AtCursor ==
    ASSUME VolInv, Scanning, cursor \notin done, Here
    PROVE  /\ VolumeTypeOK /\ cursor \in Faces /\ Sample \in SampleIds /\ Len(sum) \in Nat
           /\ Sample = Len(sum) + 1
           /\ key.source \in Sources /\ mesh \in Meshes /\ key # NoKey
           /\ records[cursor] \in [SampleIds -> Option(Records)]
           /\ tracking => (sum = << >> \/ Recorded(cursor, Len(sum)))
<1>1. VolumeTypeOK /\ call # {} BY DEF VolInv, Scanning
<1>2. cursor \in Faces BY <1>1, ConstantsAre DEF Scanning, VolumeTypeOK, Faces
<1>3. Len(sum) \in Nat /\ Sample \in SampleIds
  BY <1>1, ConstantsAre DEF Sample, SampleIds, VolumeTypeOK
<1>4. key # NoKey BY <1>1 DEF VolInv, CallHasKey
<1>5. tracking => (sum = << >> \/ Recorded(cursor, Len(sum))) BY DEF VolInv, PartialFresh
<1>6. records[cursor] \in [SampleIds -> Option(Records)] BY <1>1, <1>2 DEF VolumeTypeOK
<1> QED BY <1>1, <1>2, <1>3, <1>4, <1>5, <1>6, KeyInUse DEF Sample

LEMMA ReplayKeeps == ASSUME VolInv, replay PROVE VolInv'
<1>1. Scanning /\ cursor \notin done /\ Here /\ Spend(0)
      /\ UNCHANGED <<source, mesh, key, tracking, offsets, records>>
  BY DEF replay, tracker
<1>2. VolumeTypeOK /\ cursor \in Faces /\ Sample \in SampleIds /\ Sample = Len(sum) + 1
      /\ Len(sum) \in Nat /\ key # NoKey
  BY <1>1, AtCursor
<1>3. PICK r \in Kept : add(r.contribution) BY DEF replay
<1>4. r = Record(key.source, mesh, cursor, Sample)
  BY <1>2, <1>3 DEF VolInv, RecordsExact, Kept
<1>5. add(Contribution(key.source, mesh, cursor, Sample)) BY <1>3, <1>4 DEF Record
<1>6. call' \in Budgets /\ (call' # {} => call # {})
  <2>1. \A b \in call : b.work > 0 /\ b.rays >= 0
    BY <1>1, <1>2 DEF VolumeTypeOK, Budgets, Option, Scanning
  <2> QED BY <1>1, <2>1, SpendKeeps
<1>7. KeyTells' /\ CallHasKey' /\ RecordsExact'
  BY <1>1, <1>2 DEF VolInv, KeyTells, CallHasKey, RecordsExact
<1>8. /\ offsets' \in [Faces -> {"NO_BITS", "UNTRACKED", "tracked"}]
      /\ records' \in [Faces -> [SampleIds -> Option(Records)]]
  BY <1>1, <1>2 DEF VolumeTypeOK
<1>9. ASSUME NEW face, NEW n, face = cursor, n = Sample, tracking PROVE Recorded(face, n)'
  <2>1. records[cursor][Sample] # {} BY <1>3 DEF Kept
  <2>2. sum = << >> \/ Recorded(cursor, Len(sum)) BY <1>1, <1>9, AtCursor
  <2>3. CASE sum = << >>
    <3>1. n = 1 BY <2>3, <1>9, <1>2
    <3> QED BY <3>1, <2>1, <1>9, <1>1, <1>2 DEF Recorded
  <2>4. CASE Recorded(cursor, Len(sum))
    BY <2>4, <2>1, <1>9, <1>1, <1>2 DEF Recorded
  <2> QED BY <2>2, <2>3, <2>4
<1> QED BY <1>1, <1>5, <1>6, <1>7, <1>8, <1>9, AddKeeps

LEMMA TraceKeeps == ASSUME VolInv, trace PROVE VolInv'
<1> DEFINE src == key.source
           rec == Record(src, mesh, cursor, Sample)
           State == {"NO_BITS", "UNTRACKED", "tracked"}
<1>1. /\ Scanning /\ cursor \notin done /\ Here /\ Kept = {} /\ MayTrace /\ Spend(RaysUsed)
      /\ allocate /\ add(Contribution(src, mesh, cursor, Sample))
      /\ records' = IF offsets'[cursor] = "tracked"
                    THEN [records EXCEPT ![cursor][Sample] = {rec}] ELSE records
      /\ UNCHANGED <<source, mesh, key, tracking>>
  BY DEF trace
<1>2. VolumeTypeOK /\ cursor \in Faces /\ Sample \in SampleIds /\ Sample = Len(sum) + 1
      /\ Len(sum) \in Nat /\ key # NoKey /\ src \in Sources /\ mesh \in Meshes
      /\ records[cursor] \in [SampleIds -> Option(Records)]
  BY <1>1, AtCursor
<1>3. call' \in Budgets /\ (call' # {} => call # {})
  <2>1. RaysUsed \in Nat /\ RaysUsed <= 2 BY DEF RaysUsed
  <2>2. \A b \in call : b.work > 0 /\ b.rays >= RaysUsed
    BY <1>1, <1>2, <2>1 DEF VolumeTypeOK, Budgets, Option, Scanning, MayTrace
  <2> QED BY <1>1, <2>1, <2>2, SpendKeeps
<1>4. /\ offsets' \in [Faces -> State] /\ \A s \in Faces \ {cursor} : offsets'[s] = offsets[s]
      /\ tracking => offsets'[cursor] # "NO_BITS"
  <2>0. offsets \in [Faces -> State] BY <1>2 DEF VolumeTypeOK
  <2>1. CASE ~tracking \/ offsets[cursor] # "NO_BITS"
    BY <1>1, <2>0, <2>1 DEF allocate
  <2>2. CASE ~(~tracking \/ offsets[cursor] # "NO_BITS")
    <3>1. PICK o \in {"UNTRACKED"} \cup (IF Room THEN {"tracked"} ELSE {}) :
            offsets' = [offsets EXCEPT ![cursor] = o]
      BY <1>1, <2>2 DEF allocate
    <3>2. o \in {"UNTRACKED", "tracked"} OBVIOUS
    <3> QED BY <3>1, <3>2, <2>0, <1>2
  <2> QED BY <2>1, <2>2
<1>5. rec \in Records
  <2>1. Blocks(ReadBy(src, mesh, cursor, Sample)) \subseteq Blocks(Cells) BY DEF Blocks
  <2>2. Contribution(src, mesh, cursor, Sample) \in Materials \cup {0} BY <1>2, ContributionIs
  <2> QED BY <2>1, <2>2 DEF Record, Records
<1>6. /\ records' \in [Faces -> [SampleIds -> Option(Records)]]
      /\ \A s \in Faces \ {cursor} : records'[s] = records[s]
      /\ \A i \in SampleIds \ {Sample} : records'[cursor][i] = records[cursor][i]
      /\ offsets'[cursor] = "tracked" => records'[cursor][Sample] = {rec}
      /\ offsets'[cursor] # "tracked" => records' = records
  <2>1. records \in [Faces -> [SampleIds -> Option(Records)]] BY <1>2 DEF VolumeTypeOK
  <2>2. {rec} \in Option(Records) BY <1>5 DEF Option
  <2> QED BY <1>1, <1>2, <2>1, <2>2
<1>7. RecordsExact'
  <2> SUFFICES ASSUME NEW s \in Faces, NEW i \in SampleIds, NEW r \in records'[s][i]
               PROVE  r = Record(src, mesh, s, i)
    BY <1>1 DEF RecordsExact
  <2>1. r \in records[s][i] \/ (s = cursor /\ i = Sample /\ r = rec) BY <1>6
  <2> QED BY <2>1 DEF VolInv, RecordsExact
<1>8. KeyTells' /\ CallHasKey' BY <1>1, <1>2 DEF VolInv, KeyTells, CallHasKey
<1>9. ASSUME NEW face, NEW n, face = cursor, n = Sample, tracking PROVE Recorded(face, n)'
  <2>1. CASE offsets'[cursor] = "UNTRACKED" BY <2>1, <1>9 DEF Recorded
  <2>2. CASE offsets'[cursor] = "tracked"
    <3>1. records'[cursor][Sample] # {} BY <2>2, <1>6
    <3>2. sum = << >> \/ Recorded(cursor, Len(sum)) BY <1>1, <1>9, AtCursor
    <3>3. offsets[cursor] # "UNTRACKED"
      BY <1>1, <1>2, <1>9, <2>2 DEF allocate, VolumeTypeOK
    <3>4. \A i \in 1..Len(sum) : i \in SampleIds \ {Sample}
      BY <1>2, ConstantsAre DEF SampleIds
    <3>5. \A i \in 1..Len(sum) : records[cursor][i] # {}
      BY <3>2, <3>3 DEF Recorded
    <3>6. \A i \in 1..Len(sum) : records'[cursor][i] # {} BY <3>4, <3>5, <1>6
    <3>7. \A i \in 1..n : i \in 1..Len(sum) \/ i = Sample BY <1>2, <1>9
    <3> QED BY <3>1, <3>6, <3>7, <1>9 DEF Recorded
  <2>3. offsets'[cursor] \in State BY <1>2, <1>4
  <2> QED BY <2>1, <2>2, <2>3, <1>4, <1>9
<1> HIDE DEF rec
<1> QED BY <1>1, <1>3, <1>4, <1>6, <1>7, <1>8, <1>9, AddKeeps

LEMMA ReturnKeeps == ASSUME VolInv, return PROVE VolInv'
<1>1. call' = {} /\ VolumeTypeOK
      /\ UNCHANGED <<source, mesh, key, cursor, sum, values, done, tracking, offsets, records>>
  BY DEF VolInv, return, volume, tracker
<1>2. VolumeTypeOK' BY <1>1, EmptyIs DEF VolumeTypeOK
<1> QED BY <1>1, <1>2 DEF VolInv, KeyTells, CallHasKey, Scanned, SlotFresh, RecordsExact,
                        DoneRecorded, Recorded, PartialFresh, Here

-----------------------------------------------------------------------------
(* The caller's steps.                                                      *)

LEMMA SourceKeeps == ASSUME VolInv, source_changes PROVE VolInv'
<1>1. source' \in Sources \cup {NoSource} /\ VolumeTypeOK
      /\ UNCHANGED <<mesh, key, cursor, sum, values, done, tracking, offsets, records, call>>
  BY DEF VolInv, source_changes, volume, tracker
<1>2. VolumeTypeOK' BY <1>1 DEF VolumeTypeOK
<1> QED BY <1>1, <1>2 DEF VolInv, KeyTells, CallHasKey, Scanned, SlotFresh, RecordsExact,
                        DoneRecorded, Recorded, PartialFresh, Here

LEMMA SetKeeps ==
    ASSUME VolInv, Idle, NEW m \in Meshes, set_mesh_proxy(m), tracking' \in BOOLEAN,
           UNCHANGED <<source, call>>
    PROVE  VolInv'
<1>1. mesh' = m /\ clear(NoKey) /\ VolumeTypeOK BY DEF VolInv, set_mesh_proxy
<1>2. NoKey \in Keys BY KeyIs
<1>3. source' \in Sources \cup {NoSource} /\ mesh' \in Meshes /\ call' \in Budgets /\ call' = {}
  BY <1>1 DEF VolumeTypeOK, Idle
<1> QED BY <1>1, <1>2, <1>3, ClearKeeps

LEMMA StartKeeps == ASSUME VolInv, start_over PROVE VolInv'
BY SetKeeps DEF start_over

LEMMA AttachKeeps == ASSUME VolInv, attach PROVE VolInv'
<1>1. PICK m \in Meshes \ {mesh} : replace_mesh_proxy(m) BY DEF attach
<1>2. Idle /\ UNCHANGED <<source, tracking, call>> BY <1>1 DEF attach, replace_mesh_proxy
<1>3. CASE set_mesh_proxy(m)
  <2>1. tracking' \in BOOLEAN BY <1>2 DEF VolInv, VolumeTypeOK
  <2> QED BY <1>1, <1>2, <1>3, <2>1, SetKeeps
<1>4. CASE Decidable(m) /\ retain_samples(m, ChangedCells(m))
  BY <1>1, <1>2, <1>4, RetainKeeps
<1> QED BY <1>1, <1>3, <1>4 DEF replace_mesh_proxy

LEMMA InitHolds == ASSUME Init PROVE VolInv
<1>1. NoProxy \in Meshes /\ NoKey \in Keys BY KeyIs DEF Meshes
<1>2. NumFaces \in Nat /\ Samples \in Nat \ {0} BY VolumeAssumption
<1>3. VolumeTypeOK
  <2>1. values \in [Faces -> Option(Values)]
    <3>1. values = [s \in Faces |-> {}] BY DEF Init
    <3> QED BY <3>1, EmptyIs
  <2>2. records \in [Faces -> [SampleIds -> Option(Records)]]
    <3>1. records = [s \in Faces |-> [i \in SampleIds |-> {}]] BY DEF Init
    <3> QED BY <3>1, EmptyIs
  <2>3. sum \in Seq(Materials \cup {0}) /\ Len(sum) < Samples BY <1>2 DEF Init
  <2>4. mesh \in Meshes /\ key \in Keys BY <1>1 DEF Init
  <2>5. source \in Sources \cup {NoSource} BY <1>2 DEF Init
  <2>6. tracking \in BOOLEAN BY DEF Init
  <2>7. cursor \in 1..(NumFaces + 1) /\ done \in SUBSET Faces /\ call \in Budgets
    BY <1>2, EmptyIs DEF Init
  <2>8. offsets \in [Faces -> {"NO_BITS", "UNTRACKED", "tracked"}] BY DEF Init
  <2> QED BY <2>1, <2>2, <2>3, <2>4, <2>5, <2>6, <2>7, <2>8 DEF VolumeTypeOK
<1>4. \A s \in Faces : SlotFresh(s) BY DEF Init, SlotFresh
<1>5. Scanned BY ConstantsAre DEF Init, Scanned, Faces
<1> QED BY <1>3, <1>4, <1>5
     DEF Init, VolInv, KeyTells, CallHasKey, RecordsExact, DoneRecorded, PartialFresh

LEMMA StepKeeps == ASSUME VolInv, [Next]_vars PROVE VolInv'
<1>1. ASSUME UNCHANGED vars PROVE VolInv'
  <2>1. UNCHANGED <<source, mesh, key, cursor, sum, values, done, tracking, offsets, records, call>>
    BY <1>1 DEF vars, volume, tracker
  <2>2. VolumeTypeOK' BY <2>1 DEF VolInv, VolumeTypeOK
  <2> QED BY <2>1, <2>2 DEF VolInv, KeyTells, CallHasKey, Scanned, SlotFresh, RecordsExact,
                            DoneRecorded, Recorded, PartialFresh, Here
<1> QED BY <1>1, SourceKeeps, AttachKeeps, StartKeeps, UpdateKeeps, SkipKeeps,
           EnclosedKeeps, ReplayKeeps, TraceKeeps, ReturnKeeps DEF Next, Updating

LEMMA VolumeInvariant == Spec => []VolInv
<1>1. Init => VolInv BY InitHolds
<1>2. VolInv /\ [Next]_vars => VolInv' BY StepKeeps
<1> QED BY <1>1, <1>2, PTL DEF Spec

-----------------------------------------------------------------------------
(* Every reachable state of the volume is well typed.                       *)
THEOREM VolumeTypeCorrect == Spec => []VolumeTypeOK
<1>1. VolInv => VolumeTypeOK BY DEF VolInv
<1> QED BY <1>1, VolumeInvariant, PTL

(* Whatever proxy edits kept, dropped and interrupted, every contribution   *)
(* that is kept for replay is what the scene of now gives                   *)
(* (invalidate_samples, begin_sample, walk_segment).                        *)
THEOREM KeptAlwaysExact == Spec => []KeptIsExact
<1>1. VolInv => KeptIsExact BY DEF VolInv, RecordsExact, KeptIsExact, Record
<1> QED BY <1>1, VolumeInvariant, PTL

(* A complete volume for the source of now is, face by face, what a         *)
(* computation from the start gives (valid_for, update, replace_mesh_proxy).*)
THEOREM PublishedAlwaysFresh == Spec => []PublishedIsFresh
<1>1. ASSUME VolInv, valid_for(source), NEW s \in Faces PROVE values[s] = Fresh(source, mesh, s)
  <2>1. VolumeTypeOK /\ key # NoKey /\ cursor = NumFaces + 1 /\ key = KeyOf(source, mesh)
    BY <1>1 DEF VolInv, valid_for, complete
  <2>2. source \in Sources BY <2>1, KeyIs DEF VolumeTypeOK
  <2>3. key.source = source BY <2>1, <2>2, KeyIs DEF VolumeTypeOK
  <2>4. s < cursor BY <2>1, ConstantsAre DEF Faces
  <2>5. s \in done BY <1>1, <2>4 DEF VolInv, Scanned
  <2> QED BY <1>1, <2>3, <2>5 DEF VolInv, SlotFresh
<1>2. VolInv => PublishedIsFresh BY <1>1 DEF PublishedIsFresh
<1> QED BY <1>2, VolumeInvariant, PTL

-----------------------------------------------------------------------------
(* The wetland's use of the volume.  What a frame accepted stays what the   *)
(* volume was built for until it is built again, or nothing is published.   *)

Typed ==
    /\ source \in Sources /\ camera \in Cameras /\ body \in Bodies
    /\ version \in SceneVersions /\ pool \in SceneVersions
    /\ instances \subseteq Placements /\ installed \subseteq Placements
    /\ install \in {"Unavailable", "Current", "Installed"}
CallInUpdate == call # {} => at = "updating"
Selected == (prepared # {} => instances # {}) /\ (at = "install" => prepared # {})

\* The renderer holds what was installed last, unless it is to be installed again.
Accepted(i) == [placed |-> i, version |-> pool]
Resident ==
    ~reinstall => /\ installed # {}
                  /\ \A i \in installed : Accepted(i) \in resident
InstallTells == at \in {"dynamic", "light"} /\ install # "Unavailable" => ~reinstall
BodiesTold ==
    /\ ~dynamic_dirty => uploaded = {body}
    /\ at \in {"light", "sun", "updating"} => ~dynamic_dirty

\* An install that the volume has not seen yet.
Unseen == at \in {"dynamic", "light", "exited"} /\ install = "Installed"
BuiltFor(b) ==
    \E i \in installed : mesh \in Footprint[Accepted(i)][b] /\ palette = {Color[b]}
Built ==
    ~build_failed /\ palette # {} /\ ~reinstall /\ ~Unseen =>
        \E b \in built_dynamic : BuiltFor(b)
OfWhatIsDrawn ==
    \E r \in resident, b \in uploaded : mesh \in Footprint[r][b] /\ palette = {Color[b]}
Matched == at \in {"sun", "updating"} => OfWhatIsDrawn

WetInv ==
    /\ Typed /\ CallInUpdate /\ Selected /\ Resident /\ InstallTells /\ BodiesTold
    /\ Built /\ Matched /\ LitAsDrawn

(* Steps that touch neither the volume nor what the renderer holds.         *)
LEMMA EventKeeps ==
    ASSUME WetInv, camera_moves \/ scene_edited \/ bodies_move \/ sun_moves
    PROVE  WetInv'
<1>1. at = "between" /\ source' \in Sources /\ camera' \in Cameras /\ body' \in Bodies
      /\ version' \in SceneVersions /\ (body' = body \/ dynamic_dirty')
      /\ (dynamic_dirty => dynamic_dirty')
      /\ UNCHANGED <<prepared, pool, instances, installed, reinstall, pending, resident, uploaded,
                     indirect, reflective, published_sun, reflection, reflection_stale, palette,
                     built_dynamic, build_failed, mesh, call, at, install>>
  BY DEF WetInv, Typed, camera_moves, scene_edited, bodies_move, sun_moves, Between, detail, geometry,
         lights, packs, builds, light_volume, volume, tracker
<1>2. Typed' /\ CallInUpdate' /\ Selected' /\ Resident' /\ InstallTells'
  BY <1>1 DEF WetInv, Typed, CallInUpdate, Selected, Resident, InstallTells, Accepted
<1>3. BodiesTold' BY <1>1 DEF WetInv, BodiesTold
<1>4. Built' BY <1>1 DEF WetInv, Built, BuiltFor, Unseen, Accepted
<1>5. Matched' /\ LitAsDrawn' BY <1>1 DEF WetInv, Matched, OfWhatIsDrawn, LitAsDrawn
<1> QED BY <1>2, <1>3, <1>4, <1>5 DEF WetInv

LEMMA ResumedKeeps == ASSUME WetInv, resumed PROVE WetInv'
<1>1. /\ at = "between" /\ reinstall' /\ dynamic_dirty' /\ indirect' = {} /\ reflective' = {}
      /\ UNCHANGED <<source, camera, version, body, prepared, pool, instances, installed, call, at,
                     install>>
  BY DEF resumed, Between, Retire, session, light_volume
<1>2. Typed' /\ CallInUpdate' /\ Selected' /\ Resident' /\ InstallTells' /\ BodiesTold'
  BY <1>1 DEF WetInv, Typed, CallInUpdate, Selected, Resident, InstallTells, BodiesTold
<1>3. Built' /\ Matched' /\ LitAsDrawn' BY <1>1 DEF Built, Matched, LitAsDrawn
<1> QED BY <1>2, <1>3 DEF WetInv

(* Selecting detail leaves what was accepted, unless it is to be installed  *)
(* again.                                                                   *)
LEMMA SelectKeeps == ASSUME WetInv, detail_update \/ detail_update_fails PROVE WetInv'
<1>1. /\ at = "between" /\ at' \in {"install", "dynamic"}
      /\ at' = "dynamic" => install' = "Unavailable" /\ UNCHANGED detail
      /\ at' = "install" => install' = install
      /\ UNCHANGED <<source, camera, version, body, dynamic_dirty, resident, uploaded, indirect,
                     reflective, palette, built_dynamic, build_failed, mesh, call>>
  BY DEF detail_update, detail_update_fails, session, geometry, lights, builds, light_volume, volume,
         Fault
<1>2. /\ installed' = installed /\ instances' \subseteq Placements /\ pool' \in SceneVersions
      /\ prepared' # {} => instances' # {}
      /\ at' = "install" => prepared' # {}
      /\ ~reinstall' => ~reinstall /\ pool' = pool
  <2>1. CASE prepare
    <3>1. PICK d \in 0..MaxDeferred, geometry_changed \in BOOLEAN :
            /\ pool # version => geometry_changed
            /\ instances' = {[camera |-> camera, deferred |-> d]}
            /\ reinstall' = (reinstall \/ geometry_changed)
      BY <2>1 DEF prepare
    <3>2. [camera |-> camera, deferred |-> d] \in Placements BY DEF WetInv, Typed, Placements
    <3>3. installed' = installed /\ prepared' # {} /\ pool' = version BY <2>1 DEF prepare
    <3> QED BY <3>1, <3>2, <3>3 DEF WetInv, Typed
  <2>2. CASE UNCHANGED detail /\ (at' = "install" => repeated)
    BY <2>2 DEF WetInv, Typed, Selected, detail, repeated
  <2> QED BY <2>1, <2>2, <1>1 DEF detail_update, detail_update_fails, detail
<1>3. Typed' /\ CallInUpdate' /\ Selected' /\ Resident' /\ InstallTells' /\ BodiesTold'
  BY <1>1, <1>2
     DEF WetInv, Typed, CallInUpdate, Selected, Resident, InstallTells, BodiesTold, Accepted
<1>4. Built' BY <1>1, <1>2 DEF WetInv, Built, BuiltFor, Unseen, Accepted
<1>5. Matched' /\ LitAsDrawn' BY <1>1 DEF WetInv, Matched, LitAsDrawn
<1> QED BY <1>3, <1>4, <1>5 DEF WetInv

LEMMA CurrentKeeps == ASSUME WetInv, install_current \/ install_rejected PROVE WetInv'
<1>1. /\ at = "install" /\ at' = "dynamic" /\ install' \in {"Current", "Unavailable"}
      /\ install' = "Current" => ~reinstall'
      /\ ~reinstall' => ~reinstall
      /\ UNCHANGED <<source, camera, version, body, dynamic_dirty, resident, uploaded, indirect,
                     reflective, palette, built_dynamic, build_failed, mesh, call,
                     prepared, pool, instances, installed>>
  <2>1. CASE install_current
    BY <2>1 DEF install_current, Installing, NothingToInstall, session, geometry, detail, lights,
                builds, light_volume, volume
  <2>2. CASE install_rejected
    <3>1. reinstall' = TRUE BY <2>2 DEF install_rejected, mark_install_failed
    <3> QED BY <3>1, <2>2 DEF install_rejected, Installing, session, geometry, detail, lights, builds,
                light_volume, volume
  <2> QED BY <2>1, <2>2
<1>2. Typed' /\ CallInUpdate' /\ Selected' /\ Resident' /\ InstallTells' /\ BodiesTold'
  BY <1>1 DEF WetInv, Typed, CallInUpdate, Selected, Resident, InstallTells, BodiesTold, Accepted
<1>3. Built' BY <1>1 DEF WetInv, Built, BuiltFor, Unseen, Accepted
<1>4. Matched' /\ LitAsDrawn' BY <1>1 DEF WetInv, Matched, LitAsDrawn
<1> QED BY <1>2, <1>3, <1>4 DEF WetInv

LEMMA InstallKeeps == ASSUME WetInv, install_accepted PROVE WetInv'
<1>1. /\ at = "install" /\ at' = "dynamic" /\ install' = "Installed" /\ ~reinstall'
      /\ installed' = instances /\ indirect' = {} /\ reflective' = {}
      /\ resident' = IF reinstall THEN {[placed |-> i, version |-> pool] : i \in instances}
                     ELSE {[r EXCEPT !.placed = i] : r \in resident, i \in instances}
      /\ UNCHANGED <<source, camera, version, body, dynamic_dirty, uploaded, call,
                     prepared, pool, instances>>
  BY DEF install_accepted, Installing, Retire, session, light_volume
<1>2. Typed' /\ CallInUpdate' /\ Selected' /\ InstallTells' /\ BodiesTold'
  BY <1>1 DEF WetInv, Typed, CallInUpdate, Selected, InstallTells, BodiesTold
<1>3. Resident'
  <2>1. instances # {} BY <1>1 DEF WetInv, Selected
  <2>2. ASSUME NEW i \in instances PROVE Accepted(i) \in resident'
    <3>1. CASE reinstall BY <3>1, <1>1 DEF Accepted
    <3>2. CASE ~reinstall
      <4>1. PICK j \in installed : Accepted(j) \in resident BY <3>2 DEF WetInv, Resident
      <4>2. [Accepted(j) EXCEPT !.placed = i] = Accepted(i) BY DEF Accepted
      <4> QED BY <3>2, <4>1, <4>2, <1>1
    <3> QED BY <3>1, <3>2
  <2> QED BY <2>1, <2>2, <1>1 DEF Resident, Accepted
<1>4. Built' /\ Matched' /\ LitAsDrawn' BY <1>1 DEF Built, Unseen, Matched, LitAsDrawn
<1> QED BY <1>2, <1>3, <1>4 DEF WetInv

LEMMA BodiesKeep == ASSUME WetInv, upload_dynamic \/ upload_dynamic_fails PROVE WetInv'
<1>1. /\ at = "dynamic" /\ at' \in {"light", "exited"}
      /\ at' = "light" => ~dynamic_dirty' /\ uploaded' \in {uploaded, {body}}
                          /\ (dynamic_dirty => uploaded' = {body})
      /\ at' = "exited" => UNCHANGED <<dynamic_dirty, uploaded>>
      /\ \/ indirect' = {} /\ reflective' = {}
         \/ UNCHANGED <<uploaded, indirect, reflective>>
      /\ UNCHANGED <<source, camera, version, body, resident, palette, built_dynamic, build_failed,
                     mesh, call, prepared, pool, instances, installed, reinstall, install>>
  BY DEF upload_dynamic, upload_dynamic_fails, Retire, session, detail, geometry, builds, light_volume,
         volume, Fault
<1>2. Typed' /\ CallInUpdate' /\ Selected' /\ Resident' /\ InstallTells' /\ BodiesTold'
  BY <1>1 DEF WetInv, Typed, CallInUpdate, Selected, Resident, InstallTells, BodiesTold, Accepted
<1>3. Built' BY <1>1 DEF WetInv, Built, BuiltFor, Unseen, Accepted
<1>4. Matched' /\ LitAsDrawn' BY <1>1 DEF WetInv, Matched, LitAsDrawn
<1> QED BY <1>2, <1>3, <1>4 DEF WetInv


LEMMA ProxyIs ==
    ASSUME WetInv, NEW m \in Proxy
    PROVE  m \in Meshes /\ \E i \in installed : m \in Footprint[Accepted(i)][body]
<1>1. PICK i \in installed : m \in Footprint[Accepted(i)][body] BY DEF Proxy, Accepted
<1>2. Accepted(i) \in Drawn BY DEF WetInv, Typed, Accepted, Drawn
<1>3. Footprint[Accepted(i)][body] \in Option(Proxies)
  BY <1>2, FootprintAssumption DEF WetInv, Typed
<1>4. m \in Proxies BY <1>1, <1>3 DEF Option
<1> QED BY <1>1, <1>4 DEF Meshes

(* Nothing is published, and what was built is not used again.              *)
LEMMA WithdrawKeeps == ASSUME WetInv, build_fails \/ attach_fails PROVE WetInv'
<1>1. /\ at = "light" /\ at' = "render" /\ build_failed' /\ indirect' = {} /\ reflective' = {}
      /\ UNCHANGED <<source, camera, version, body, dynamic_dirty, resident, uploaded, call,
                     prepared, pool, instances, installed, reinstall, install>>
  BY DEF build_fails, attach_fails, withdraw, Retire, session, detail, geometry, light_volume
<1>2. Typed' /\ CallInUpdate' /\ Selected' /\ Resident' /\ InstallTells' /\ BodiesTold'
  BY <1>1 DEF WetInv, Typed, CallInUpdate, Selected, Resident, InstallTells, BodiesTold, Accepted
<1>3. Built' /\ Matched' /\ LitAsDrawn' BY <1>1 DEF Built, Matched, LitAsDrawn
<1> QED BY <1>2, <1>3 DEF WetInv

LEMMA BuildKeeps == ASSUME WetInv, attach_built PROVE WetInv'
<1>1. PICK m \in Proxy : attach_to_volume(m) BY DEF attach_built
<1>2. /\ at = "light" /\ at' = "sun" /\ rebuild
      /\ palette' = {Color[body]} /\ built_dynamic' = {body}
      /\ UNCHANGED <<camera, version, body, dynamic_dirty, resident, uploaded,
                     prepared, pool, instances, installed, reinstall, install>>
  BY DEF attach_built, detail, geometry
<1>3. /\ mesh' = m /\ UNCHANGED <<source, call>>
      /\ \/ indirect' = {} /\ reflective' = {}
         \/ UNCHANGED <<indirect, reflective>>
  BY <1>1 DEF attach_to_volume, replace_mesh_proxy, set_mesh_proxy, retain_samples, withdraw, Retire,
              lights, light_volume, volume
<1>4. PICK i \in installed : m \in Footprint[Accepted(i)][body] BY ProxyIs
<1>5. Typed' /\ CallInUpdate' /\ Selected' /\ Resident' /\ InstallTells' /\ BodiesTold'
  BY <1>2, <1>3
     DEF WetInv, Typed, CallInUpdate, Selected, Resident, InstallTells, BodiesTold, Accepted
<1>6. Built' BY <1>2, <1>3, <1>4 DEF Built, BuiltFor, Accepted
<1>7. Matched'
  <2>1. ~reinstall BY <1>2 DEF WetInv, InstallTells, rebuild
  <2>2. Accepted(i) \in resident /\ body \in uploaded
    BY <2>1, <1>2 DEF WetInv, Resident, BodiesTold
  <2> QED BY <2>2, <1>2, <1>3, <1>4 DEF Matched, OfWhatIsDrawn
<1>8. LitAsDrawn' BY <1>2, <1>3 DEF WetInv, LitAsDrawn
<1> QED BY <1>5, <1>6, <1>7, <1>8 DEF WetInv

LEMMA KeepBuiltKeeps == ASSUME WetInv, keep_built \/ withhold PROVE WetInv'
<1>1. /\ at = "light" /\ at' \in {"sun", "render"}
      /\ at' = "sun" => ~rebuild /\ ~Withheld
      /\ at' = "render" => Withheld
      /\ UNCHANGED <<source, camera, version, body, dynamic_dirty, resident, uploaded, indirect,
                     reflective, palette, built_dynamic, build_failed, mesh, call,
                     prepared, pool, instances, installed, reinstall, install>>
  BY DEF keep_built, withhold, session, geometry, detail, lights, builds, light_volume, volume
<1>2. Typed' /\ CallInUpdate' /\ Selected' /\ Resident' /\ InstallTells' /\ BodiesTold'
  BY <1>1 DEF WetInv, Typed, CallInUpdate, Selected, Resident, InstallTells, BodiesTold, Accepted
<1>3. Built'
  <2>1. Unseen => build_failed BY <1>1 DEF Unseen, Withheld, rebuild
  <2> QED BY <2>1, <1>1 DEF WetInv, Built, BuiltFor, Unseen, Accepted
<1>4. Matched'
  <2> SUFFICES ASSUME at' = "sun" PROVE OfWhatIsDrawn
    BY <1>1 DEF Matched, OfWhatIsDrawn
  <2>1. /\ ~build_failed /\ palette # {} /\ built_dynamic = {body} /\ ~Unseen /\ ~reinstall
    BY <1>1 DEF rebuild, Withheld, Unseen, WetInv, InstallTells, Typed
  <2>2. PICK i \in installed : mesh \in Footprint[Accepted(i)][body] /\ palette = {Color[body]}
    BY <2>1 DEF WetInv, Built, BuiltFor
  <2>3. Accepted(i) \in resident /\ body \in uploaded
    BY <2>1, <1>1 DEF WetInv, Resident, BodiesTold
  <2> QED BY <2>2, <2>3 DEF OfWhatIsDrawn
<1>5. LitAsDrawn' BY <1>1 DEF WetInv, LitAsDrawn
<1> QED BY <1>2, <1>3, <1>4, <1>5 DEF WetInv


(* The volume advances: what it holds changes, what it is for does not.     *)
LEMMA AdvanceKeeps == ASSUME WetInv, advance PROVE WetInv'
<1>1. /\ at = "sun" /\ at' = "updating"
      /\ \/ indirect' = {} /\ reflective' = {}
         \/ UNCHANGED <<indirect, reflective>>
      /\ UNCHANGED <<source, mesh>>
      /\ UNCHANGED <<camera, version, body, dynamic_dirty, resident, uploaded,
                     palette, built_dynamic, build_failed,
                     prepared, pool, instances, installed, reinstall, install>>
  BY DEF advance, update, withdraw, Retire, geometry, detail, lights, builds, vars, volume
<1>2. Typed' /\ CallInUpdate' /\ Selected' /\ Resident' /\ InstallTells' /\ BodiesTold'
  BY <1>1 DEF WetInv, Typed, CallInUpdate, Selected, Resident, InstallTells, BodiesTold, Accepted
<1>3. Built' BY <1>1 DEF WetInv, Built, BuiltFor, Unseen, Accepted
<1>4. Matched' BY <1>1 DEF WetInv, Matched, OfWhatIsDrawn
<1>5. LitAsDrawn' BY <1>1 DEF WetInv, LitAsDrawn
<1> QED BY <1>2, <1>3, <1>4, <1>5 DEF WetInv

LEMMA UpdatingKeeps == ASSUME WetInv, updating PROVE WetInv'
<1>1. /\ at = "updating" /\ UNCHANGED wetland /\ UNCHANGED <<source, mesh>>
  BY DEF updating, skip, enclosed, replay, trace, return, volume
<1>2. UNCHANGED <<camera, version, body, dynamic_dirty, resident, uploaded, indirect, reflective,
                  palette, built_dynamic, build_failed, prepared, pool, instances, installed,
                  reinstall, at, install>>
  BY <1>1 DEF wetland, detail, geometry, lights, builds
<1>3. Typed' /\ CallInUpdate' /\ Selected' /\ Resident' /\ InstallTells' /\ BodiesTold'
  BY <1>1, <1>2
     DEF WetInv, Typed, CallInUpdate, Selected, Resident, InstallTells, BodiesTold, Accepted
<1>4. Built' BY <1>1, <1>2 DEF WetInv, Built, BuiltFor, Unseen, Accepted
<1>5. Matched' BY <1>1, <1>2 DEF WetInv, Matched, OfWhatIsDrawn
<1>6. LitAsDrawn' BY <1>2 DEF WetInv, LitAsDrawn
<1> QED BY <1>3, <1>4, <1>5, <1>6 DEF WetInv

LEMMA PublishKeeps == ASSUME WetInv, publish PROVE WetInv'
<1>1. /\ at = "updating" /\ at' = "render" /\ call = {}
      /\ indirect' \in {indirect, {[mesh |-> mesh, source |-> source, palette |-> palette]}}
      /\ reflective' \in {reflective, {mesh}}
      /\ UNCHANGED <<source, camera, version, body, dynamic_dirty, resident, uploaded, palette,
                     built_dynamic, build_failed, mesh, call, prepared, pool, instances, installed,
                     reinstall, install>>
  BY DEF publish, Idle, session, geometry, detail, builds, light_volume, volume
<1>2. Typed' /\ CallInUpdate' /\ Selected' /\ Resident' /\ InstallTells' /\ BodiesTold'
  BY <1>1 DEF WetInv, Typed, CallInUpdate, Selected, Resident, InstallTells, BodiesTold, Accepted
<1>3. Built' BY <1>1 DEF WetInv, Built, BuiltFor, Unseen, Accepted
<1>4. Matched' BY <1>1 DEF Matched
<1>5. LitAsDrawn'
  <2>1. PICK r \in resident, b \in uploaded : mesh \in Footprint[r][b] /\ palette = {Color[b]}
    BY <1>1 DEF WetInv, Matched, OfWhatIsDrawn
  <2>2. r \in resident' /\ b \in uploaded' BY <1>1
  <2>3. ASSUME NEW l \in indirect'
        PROVE  \E q \in resident', c \in uploaded' :
                 l.mesh \in Footprint[q][c] /\ l.palette = {Color[c]}
    <3>1. CASE l \in indirect BY <3>1, <1>1 DEF WetInv, LitAsDrawn
    <3>2. CASE l = [mesh |-> mesh, source |-> source, palette |-> palette]
      BY <3>2, <2>1, <2>2
    <3> QED BY <3>1, <3>2, <1>1
  <2>4. \A l \in reflective' : \E q \in resident', c \in uploaded' : l \in Footprint[q][c]
    BY <1>1, <2>1, <2>2 DEF WetInv, LitAsDrawn
  <2> QED BY <2>3, <2>4 DEF LitAsDrawn
<1> QED BY <1>2, <1>3, <1>4, <1>5 DEF WetInv

LEMMA RenderKeeps == ASSUME WetInv, publish_fails \/ render PROVE WetInv'
<1>1. /\ at \in {"updating", "render"} /\ at' \in {"render", "between"} /\ call = {}
      /\ indirect' \subseteq indirect /\ reflective' \subseteq reflective
      /\ install' \in {install, "Unavailable"}
      /\ UNCHANGED <<source, camera, version, body, dynamic_dirty, resident, uploaded, palette,
                     built_dynamic, build_failed, mesh, call, prepared, pool, instances, installed,
                     reinstall>>
  <2>1. CASE publish_fails
    BY <2>1 DEF publish_fails, Idle, withdraw, Retire, session, geometry, detail, builds, light_volume,
                volume
  <2>2. CASE render
    BY <2>2 DEF WetInv, CallInUpdate, render, session, geometry, detail, builds, light_volume, volume
  <2> QED BY <2>1, <2>2
<1>2. Typed' /\ CallInUpdate' /\ Selected' /\ Resident' /\ InstallTells' /\ BodiesTold'
  BY <1>1 DEF WetInv, Typed, CallInUpdate, Selected, Resident, InstallTells, BodiesTold, Accepted
<1>3. Built' BY <1>1 DEF WetInv, Built, BuiltFor, Unseen, Accepted
<1>4. Matched' /\ LitAsDrawn' BY <1>1 DEF WetInv, Matched, LitAsDrawn
<1> QED BY <1>2, <1>3, <1>4 DEF WetInv

LEMMA WetInitHolds == ASSUME WetlandInit PROVE WetInv
<1>1. Typed /\ CallInUpdate BY DEF WetlandInit, Init, Typed, CallInUpdate
<1>2. /\ Selected /\ Resident /\ InstallTells /\ BodiesTold /\ Built /\ Matched /\ LitAsDrawn
  BY DEF WetlandInit, Selected, Resident, InstallTells, BodiesTold, Built, Matched, LitAsDrawn
<1> QED BY <1>1, <1>2 DEF WetInv

LEMMA WetStepKeeps == ASSUME WetInv, [WetlandNext]_wvars PROVE WetInv'
<1>1. ASSUME UNCHANGED wvars PROVE WetInv'
  <2>1. UNCHANGED <<source, camera, version, body, dynamic_dirty, resident, uploaded, indirect,
                    reflective, palette, built_dynamic, build_failed, mesh, call, prepared, pool,
                    instances, installed, reinstall, at, install>>
    BY <1>1 DEF wvars, wetland, vars, volume, detail, geometry, lights, builds
  <2>2. Typed' /\ CallInUpdate' /\ Selected' /\ Resident' /\ InstallTells' /\ BodiesTold'
    BY <2>1 DEF WetInv, Typed, CallInUpdate, Selected, Resident, InstallTells, BodiesTold, Accepted
  <2>3. Built' /\ Matched' /\ LitAsDrawn'
    BY <2>1 DEF WetInv, Built, BuiltFor, Unseen, Accepted, Matched, OfWhatIsDrawn, LitAsDrawn
  <2> QED BY <2>2, <2>3 DEF WetInv
<1> QED BY <1>1, EventKeeps, ResumedKeeps, SelectKeeps, CurrentKeeps, InstallKeeps, BodiesKeep,
           WithdrawKeeps, BuildKeeps, KeepBuiltKeeps, AdvanceKeeps, UpdatingKeeps, PublishKeeps,
           RenderKeeps DEF WetlandNext, Event, Frame

LEMMA WetlandInvariant == WetlandSpec => []WetInv
<1>1. WetlandInit => WetInv BY WetInitHolds
<1>2. WetInv /\ [WetlandNext]_wvars => WetInv' BY WetStepKeeps
<1> QED BY <1>1, <1>2, PTL DEF WetlandSpec


(* What every other step does to the volume: nothing.                       *)
LEMMA OthersLeaveVolume ==
    ASSUME \/ camera_moves \/ scene_edited \/ bodies_move \/ resumed
           \/ detail_update \/ detail_update_fails
           \/ install_current \/ install_accepted \/ install_rejected
           \/ upload_dynamic \/ upload_dynamic_fails
           \/ withhold \/ build_fails \/ keep_built
           \/ publish \/ publish_fails \/ render
    PROVE  UNCHANGED vars
<1>1. UNCHANGED <<source, light_volume>>
  BY DEF camera_moves, scene_edited, bodies_move, resumed, detail_update, detail_update_fails,
         install_current, install_accepted, install_rejected, upload_dynamic, upload_dynamic_fails,
         withhold, build_fails, keep_built, publish, publish_fails, render, session
<1> QED BY <1>1 DEF vars, light_volume

LEMMA WetStepIsStep == ASSUME WetInv, [WetlandNext]_wvars PROVE [Next]_vars
<1>1. ASSUME UNCHANGED wvars PROVE UNCHANGED vars BY <1>1 DEF wvars
<1>2. ASSUME sun_moves PROVE source_changes
  BY <1>2 DEF WetInv, CallInUpdate, sun_moves, Between, source_changes, Idle, light_volume
<1>3. ASSUME attach_built PROVE attach \/ start_over \/ UNCHANGED vars
  <2>1. PICK m \in Proxy : attach_to_volume(m) BY <1>3 DEF attach_built
  <2>2. m \in Meshes BY ProxyIs
  <2>3. Idle BY <1>3 DEF WetInv, CallInUpdate, attach_built, Idle
  <2>4. CASE SamePalette /\ m = mesh
    BY <2>1, <2>4 DEF attach_to_volume, vars, light_volume
  <2>5. CASE SamePalette /\ m # mesh
    BY <2>1, <2>2, <2>3, <2>5 DEF attach_to_volume, attach
  <2>6. CASE ~SamePalette
    BY <2>1, <2>2, <2>3, <2>6 DEF attach_to_volume, start_over
  <2> QED BY <2>4, <2>5, <2>6
<1>4. ASSUME attach_fails PROVE start_over
  <2>1. NoProxy \in Meshes BY DEF Meshes
  <2>2. set_mesh_proxy(NoProxy) /\ tracking' = FALSE /\ UNCHANGED <<source, call>>
    BY <1>4 DEF attach_fails, session
  <2>3. Idle BY <1>4 DEF WetInv, CallInUpdate, attach_fails, Idle
  <2> QED BY <2>1, <2>2, <2>3 DEF start_over
<1>5. ASSUME advance PROVE update \/ UNCHANGED vars BY <1>5 DEF advance
<1>6. ASSUME updating PROVE skip \/ enclosed \/ replay \/ trace \/ return
  BY <1>6 DEF updating
<1> QED BY <1>1, <1>2, <1>3, <1>4, <1>5, <1>6, OthersLeaveVolume
       DEF WetlandNext, Event, Frame, Next, Updating

-----------------------------------------------------------------------------
(* The wetland calls its volume as LightVolume lets any caller do           *)
(* (WetlandLighting::attach, step), so all that holds of the volume holds   *)
(* in the wetland.                                                          *)
THEOREM WetlandUsesVolume == WetlandSpec => Spec
<1>1. WetlandInit => Init BY DEF WetlandInit
<1>2. WetInv /\ [WetlandNext]_wvars => [Next]_vars BY WetStepIsStep
<1> QED BY <1>1, <1>2, WetlandInvariant, PTL DEF WetlandSpec, Spec

(* In every frame the light was computed for the detail and the bodies the  *)
(* renderer holds, whatever was refused, retried or lost on the way         *)
(* (WetlandLighting::step, WetlandDetail::install_update).                  *)
THEOREM WetlandLitAsDrawn == WetlandSpec => []LitAsDrawn
<1>1. WetInv => LitAsDrawn BY DEF WetInv
<1> QED BY <1>1, WetlandInvariant, PTL

(* Kept contributions are exact in the wetland (attach, which replaces      *)
(* proxies in the middle of a face).                                        *)
THEOREM WetlandKeptExact == WetlandSpec => []KeptIsExact
BY WetlandUsesVolume, KeptAlwaysExact, PTL

(* What the wetland may publish is what a computation from the start gives  *)
(* (WetlandLighting::step, valid_for).                                      *)
THEOREM WetlandPublishedFresh == WetlandSpec => []PublishedIsFresh
BY WetlandUsesVolume, PublishedAlwaysFresh, PTL

=============================================================================
