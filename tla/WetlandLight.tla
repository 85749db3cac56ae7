---------------------------- MODULE WetlandLight ----------------------------
(***************************************************************************)
(* The light of the wetland (apps/explorer/src/wetland_lighting.rs): each  *)
(* frame selects and installs detail (wetland.rs, WetlandDetail), uploads  *)
(* the bodies, advances the volume of LightVolume for what was accepted,   *)
(* and publishes it to a renderer that retires light whenever its geometry *)
(* changes (matterweave-render/src/lib.rs, shadow.rs).                     *)
(*                                                                         *)
(* A source is a sun, the world being empty.  Detail is drawn from         *)
(* placements, which the camera and the levels still deferred decide, and  *)
(* meshes, which the version of the scene decides.  The frame is one       *)
(* thread: events come between frames.                                     *)
(***************************************************************************)
EXTENDS LightVolume

CONSTANTS
    Cameras, SceneVersions, MaxDeferred,
    Bodies,         \* what the merged mesh of the bodies looks like
    Color,          \* and its palette entry
    Footprint,      \* Option: the proxy of detail and bodies, if it can be built
    MaxEdits,       \* bounds: what happens between frames,
    MaxFaults       \* and steps that fail

Placements == [camera : Cameras, deferred : 0..MaxDeferred]
Drawn == [placed : Placements, version : SceneVersions]

ASSUME FootprintAssumption ==
    /\ {MaxDeferred, MaxEdits, MaxFaults} \subseteq Nat
    /\ Footprint \in [Drawn -> [Bodies -> Option(Proxies)]]

VARIABLES
    camera, version,                        \* of the session
    prepared, pool, instances, installed, reinstall, pending,   \* WetlandDetail
    body, dynamic_dirty,
    resident, uploaded, indirect, reflective,    \* the renderer
    palette,            \* Option: the volume exists, with this colour for bodies
    reflection, reflection_stale, built_dynamic, build_failed, published_sun,
    at, install, edits, faults

session == <<camera, version, body, source>>
detail == <<prepared, pool, instances, installed, reinstall, pending>>
geometry == <<resident, uploaded>>
lights == <<indirect, reflective, published_sun>>
packs == <<reflection, reflection_stale>>
builds == <<palette, built_dynamic, build_failed>>
light_volume == <<volume, tracker, call>>
wetland == <<camera, version, body, dynamic_dirty, detail, geometry, lights, packs, builds,
             at, install, edits, faults>>
wvars == <<vars, wetland>>

WetlandInit ==
    /\ Init
    /\ camera \in Cameras /\ version \in SceneVersions /\ body \in Bodies
    /\ prepared = {} /\ pool = version /\ instances = {} /\ installed = {}
    /\ reinstall = TRUE /\ pending = FALSE /\ dynamic_dirty = TRUE
    /\ resident = {} /\ uploaded = {} /\ indirect = {} /\ reflective = {}
    /\ palette = {} /\ reflection = {} /\ reflection_stale = FALSE
    /\ built_dynamic = {} /\ build_failed = FALSE /\ published_sun = {}
    /\ at = "between" /\ install = "Unavailable" /\ edits = 0 /\ faults = 0

Fault == faults < MaxFaults /\ faults' = faults + 1
Retire == indirect' = {} /\ reflective' = {}

-----------------------------------------------------------------------------
(* Between frames.                                                         *)

Between == at = "between" /\ edits < MaxEdits /\ edits' = edits + 1

camera_moves ==
    /\ Between /\ camera' \in Cameras \ {camera}
    /\ UNCHANGED <<version, body, source, dynamic_dirty, detail, geometry, lights, packs, builds,
                   light_volume, at, install, faults>>

scene_edited ==
    /\ Between /\ version' \in SceneVersions \ {version}
    /\ UNCHANGED <<camera, body, source, dynamic_dirty, detail, geometry, lights, packs, builds,
                   light_volume, at, install, faults>>

bodies_move ==
    /\ Between /\ body' \in Bodies \ {body} /\ dynamic_dirty' = TRUE
    /\ UNCHANGED <<camera, version, source, detail, geometry, lights, packs, builds,
                   light_volume, at, install, faults>>

sun_moves ==
    /\ Between /\ source' \in Sources \ {source}
    /\ UNCHANGED <<camera, version, body, dynamic_dirty, detail, geometry, lights, packs, builds,
                   light_volume, at, install, faults>>

\* The surface was lost: a new renderer holds nothing.
resumed ==
    /\ Between
    /\ resident' = {} /\ uploaded' = {} /\ Retire
    /\ reinstall' = TRUE /\ dynamic_dirty' = TRUE
    /\ UNCHANGED <<session, prepared, pool, instances, installed, pending, published_sun, packs,
                   builds, light_volume, at, install, faults>>

-----------------------------------------------------------------------------
(* Detail.                                                                 *)

repeated == prepared = {[camera |-> camera, version |-> version]}
deferred == {i.deferred : i \in instances}

\* A prepare realizes some of the levels it wants; it changed the meshes if the scene did.
prepare ==
    /\ ~repeated \/ pending
    /\ \E d \in 0..MaxDeferred, geometry_changed \in BOOLEAN :
          /\ pool # version => geometry_changed
          /\ instances' = {[camera |-> camera, deferred |-> d]}
          /\ pending' = (d > 0 /\ (~repeated \/ \E old \in deferred : d < old))
          /\ reinstall' = (reinstall \/ geometry_changed)
    /\ pool' = version
    /\ prepared' = {[camera |-> camera, version |-> version]}
    /\ UNCHANGED installed

detail_update ==
    /\ at = "between"
    /\ \/ prepare
       \/ repeated /\ ~pending /\ UNCHANGED detail
    /\ at' = "install"
    /\ UNCHANGED <<session, edits, dynamic_dirty, geometry, lights, packs, builds, light_volume,
                   install, faults>>

detail_update_fails ==
    /\ at = "between" /\ (~repeated \/ pending) /\ Fault
    /\ at' = "dynamic" /\ install' = "Unavailable"
    /\ UNCHANGED <<session, edits, dynamic_dirty, detail, geometry, lights, packs, builds,
                   light_volume>>

Installing == at = "install" /\ at' = "dynamic"
NothingToInstall == ~reinstall /\ instances = installed

install_current ==
    /\ Installing /\ NothingToInstall
    /\ install' = "Current"
    /\ UNCHANGED <<session, edits, dynamic_dirty, detail, geometry, lights, packs, builds,
                   light_volume, faults>>

\* replace_static_scene takes placements and meshes, update_static_instances placements only.
install_accepted ==
    /\ Installing /\ ~NothingToInstall
    /\ resident' = IF reinstall THEN {[placed |-> i, version |-> pool] : i \in instances}
                   ELSE {[r EXCEPT !.placed = i] : r \in resident, i \in instances}
    /\ Retire
    /\ reinstall' = FALSE /\ installed' = instances
    /\ install' = "Installed"
    /\ UNCHANGED <<session, edits, prepared, pool, instances, pending, dynamic_dirty, uploaded,
                   published_sun, packs, builds, light_volume, faults>>

mark_install_failed == reinstall' = TRUE
install_rejected ==
    /\ Installing /\ ~NothingToInstall /\ Fault
    /\ mark_install_failed
    /\ install' = "Unavailable"
    /\ UNCHANGED <<session, edits, prepared, pool, instances, installed, pending, dynamic_dirty,
                   geometry, lights, packs, builds, light_volume>>

-----------------------------------------------------------------------------
(* Bodies.                                                                 *)

upload_dynamic ==
    /\ at = "dynamic" /\ at' = "light"
    /\ dynamic_dirty' = FALSE
    /\ IF dynamic_dirty /\ uploaded # {body}
       THEN uploaded' = {body} /\ Retire
       ELSE UNCHANGED <<uploaded, indirect, reflective>>
    /\ UNCHANGED <<session, edits, detail, resident, published_sun, packs, builds, light_volume,
                   install, faults>>

\* The program ends.
upload_dynamic_fails ==
    /\ at = "dynamic" /\ dynamic_dirty /\ uploaded # {body} /\ Fault
    /\ at' = "exited" /\ Retire
    /\ UNCHANGED <<session, edits, dynamic_dirty, detail, geometry, published_sun, packs, builds,
                   light_volume, install>>

-----------------------------------------------------------------------------
(* WetlandLighting::step.                                                  *)

Proxy == UNION {Footprint[[placed |-> i, version |-> pool]][body] : i \in installed}

rebuild ==
    \/ install = "Installed"
    \/ /\ install = "Current" /\ ~build_failed
       /\ palette = {} \/ built_dynamic # {body} \/ reflection_stale
\* Withheld if an install that was refused were overlooked.
WithheldIfNotBuilt == ~rebuild /\ build_failed
\* Nothing is published from what the renderer has not accepted, or what could not be built.
Withheld == install = "Unavailable" \/ (~rebuild /\ build_failed)

withdraw == Retire /\ published_sun' = {}

withhold ==
    /\ at = "light" /\ Withheld
    /\ at' = "render"
    /\ UNCHANGED <<session, edits, dynamic_dirty, detail, geometry, lights, packs, builds,
                   light_volume, install, faults>>

build_fails ==
    /\ at = "light" /\ rebuild /\ Proxy = {}
    /\ build_failed' = TRUE /\ withdraw
    /\ at' = "render"
    /\ UNCHANGED <<session, edits, dynamic_dirty, detail, geometry, packs, palette, built_dynamic,
                   light_volume, install, faults>>

SamePalette == palette = {Color[body]}

\* A volume with another palette is another volume; its proxy is attached by digest.
attach_to_volume(m) ==
    IF SamePalette /\ m = mesh THEN UNCHANGED <<light_volume, source, lights>>
    ELSE /\ withdraw
         /\ IF SamePalette THEN replace_mesh_proxy(m)
            ELSE set_mesh_proxy(m) /\ tracking' = TRUE /\ UNCHANGED <<source, call>>

attach_built ==
    /\ at = "light" /\ rebuild
    /\ \E m \in Proxy : attach_to_volume(m) /\ reflection' = {m}
    /\ reflection_stale' = FALSE
    /\ palette' = {Color[body]} /\ built_dynamic' = {body} /\ build_failed' = FALSE
    /\ at' = "sun"
    /\ UNCHANGED <<camera, version, body, edits, dynamic_dirty, detail, geometry, install, faults>>

\* The volume or the pack could not be allocated: nothing of either is kept.
attach_fails ==
    /\ at = "light" /\ rebuild /\ Proxy # {} /\ Fault
    /\ ~SamePalette \/ Proxy # {mesh} \/ reflection_stale
    /\ palette' = {} /\ set_mesh_proxy(NoProxy) /\ tracking' = FALSE
    /\ reflection' = {} /\ reflection_stale' = FALSE
    /\ build_failed' = TRUE /\ withdraw
    /\ at' = "render"
    /\ UNCHANGED <<session, edits, dynamic_dirty, detail, geometry, built_dynamic, call, install>>

keep_built ==
    /\ at = "light" /\ ~rebuild /\ ~Withheld
    /\ at' = "sun"
    /\ UNCHANGED <<session, edits, dynamic_dirty, detail, geometry, lights, packs, builds,
                   light_volume, install, faults>>

\* Light of another sun is withdrawn, and the volume advanced if it is not valid.
advance ==
    /\ at = "sun"
    /\ IF indirect # {} /\ published_sun # {source} THEN withdraw ELSE UNCHANGED lights
    /\ IF valid_for(source) THEN UNCHANGED vars ELSE update
    /\ at' = "updating"
    /\ UNCHANGED <<edits, camera, version, body, dynamic_dirty, detail, geometry, packs, builds, install,
                   faults>>

updating ==
    /\ at = "updating"
    /\ skip \/ enclosed \/ replay \/ trace \/ return
    /\ UNCHANGED wetland

\* CanPublish if what was published were not asked of the renderer.
CanPublishByMemory == published_sun # {source} /\ valid_for(source)
CanPublish == indirect = {} /\ valid_for(source)
publish ==
    /\ at = "updating" /\ Idle
    /\ IF CanPublish
       THEN /\ indirect' = {[mesh |-> mesh, source |-> source, palette |-> palette]}
            /\ published_sun' = {source}
       ELSE UNCHANGED <<indirect, published_sun>>
    /\ IF reflective # {} THEN UNCHANGED <<reflective, reflection_stale>>
       ELSE IF reflection = {mesh} THEN reflective' = {mesh} /\ UNCHANGED reflection_stale
       ELSE reflection_stale' = TRUE /\ UNCHANGED reflective
    /\ at' = "render"
    /\ UNCHANGED <<session, edits, dynamic_dirty, detail, geometry, reflection, builds,
                   light_volume, install, faults>>

publish_fails ==
    /\ at = "updating" /\ Idle /\ Fault
    /\ CanPublish \/ (reflective = {} /\ reflection = {mesh})
    /\ withdraw
    /\ at' = "render"
    /\ UNCHANGED <<session, edits, dynamic_dirty, detail, geometry, packs, builds, light_volume,
                   install>>

\* The renderer looks at the sun itself.
render ==
    /\ at = "render" /\ at' = "between"
    /\ indirect' = {l \in indirect : l.source = source}
    /\ install' = "Unavailable"
    /\ UNCHANGED <<session, edits, dynamic_dirty, detail, geometry, reflective, published_sun,
                   packs, builds, light_volume, faults>>

Event == camera_moves \/ scene_edited \/ bodies_move \/ sun_moves \/ resumed
Frame == \/ detail_update \/ detail_update_fails
         \/ install_current \/ install_accepted \/ install_rejected
         \/ upload_dynamic \/ upload_dynamic_fails
         \/ withhold \/ build_fails \/ attach_built \/ attach_fails \/ keep_built
         \/ advance \/ updating \/ publish \/ publish_fails \/ render

WetlandNext == Event \/ Frame
WetlandSpec == WetlandInit /\ [][WetlandNext]_wvars /\ WF_wvars(Frame)

-----------------------------------------------------------------------------
(* Properties.                                                             *)

\* What lights a frame was computed for the detail and the bodies the renderer holds, which
\* are not those the session has prepared when an install or an upload was refused: "the
\* proxy must describe the selection the renderer accepted" (wetland_lighting.rs:26).
LitAsDrawn ==
    /\ \A l \in indirect : \E r \in resident, b \in uploaded :
          l.mesh \in Footprint[r][b] /\ l.palette = {Color[b]}
    /\ \A m \in reflective : \E r \in resident, b \in uploaded : m \in Footprint[r][b]

\* Light comes back: once nothing changes and nothing fails, both publications are live for
\* this sun, unless the last install or body could not be built or packed.
Lit == reflective # {} /\ \E l \in indirect : l.source = source
LightReturns == <>[]Lit \/ <>[](build_failed \/ at = "exited")
=============================================================================
