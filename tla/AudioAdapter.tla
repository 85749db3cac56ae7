---------------------------- MODULE AudioAdapter ----------------------------
(***************************************************************************)
(* The explorer's use of the audio service: the adapter that tracks the    *)
(* voices it started (apps/explorer/src/audio_service.rs) and the          *)
(* application that suspends and resumes it as the platform says           *)
(* (apps/explorer/src/experience.rs), over AudioService.                   *)
(*                                                                         *)
(* One call of the adapter makes several calls of the service, and         *)
(* callbacks run between them.  What is left of the call is `todo`; the    *)
(* next platform event or frame is handled when it is empty.               *)
(***************************************************************************)
EXTENDS AudioService

CONSTANT MaxEvents   \* bound: platform events, switches and toggles of mute

\* The queue has room for a stop of every voice, Suspend and Resume.
ASSUME RoomAssumption == MaxEvents \in Nat /\ Capacity >= Cardinality(Voices) + 2

VARIABLES
    resumed, focused, paused,  \* Experience: what the platform said
    muted,                     \* the adapter's mute
    away,                      \* the adapter is suspended
    retry,                     \* resume_retry_at: none, waiting or due
    opened,                    \* the device: none, opening (clips) or open
    records,                   \* the voices the adapter tracks
    todo,                      \* what is left of the call that is being made
    events                     \* platform events so far

service == <<control, queue, callback, drained, mixer, intent, device>>
platform == <<resumed, focused, paused>>
adapter == <<muted, away, retry, opened, records>>
avars == <<vars, platform, adapter, todo, events>>

\* `callbacks` counts the invocations completed since the play, up to the two
\* that `voice_finished` asks for; `silent` is the mute it was last sent.
Records == [voice : Voices, generation : Generations, retiring : BOOLEAN,
            silent : BOOLEAN, callbacks : 0..2]

AdapterInit ==
    /\ clip_mirror = [c \in Clips |->
                        [generation |-> 0, active |-> FALSE, range |-> NoRange]]
    /\ voice_mirror = [v \in Voices |->
                        [generation |-> 0, live |-> FALSE, clip |-> First(Clips), wait |-> 0]]
    /\ free_ranges = << [start |-> 0, samples |-> PoolSize] >>
    /\ pending_ranges = << >>
    /\ queue = << >> /\ callback = "idle" /\ drained = 0
    /\ slots = [c \in Clips |-> [generation |-> 0, active |-> FALSE]]
    /\ voices = [v \in Voices |->
                  [generation |-> 0, active |-> FALSE, clip |-> First(Clips), range |-> NoRange]]
    /\ rt_suspended = FALSE /\ live_mask = {} /\ rt_rejected = FALSE
    /\ stream = "none" /\ disconnected = FALSE /\ faults = Faults
    /\ running = FALSE /\ suspended = FALSE
    /\ recovery_pending = FALSE /\ resume_queued = FALSE
    /\ resumed = FALSE /\ focused = TRUE /\ paused = FALSE
    /\ muted = FALSE /\ away = FALSE /\ retry = "none" /\ opened = "none"
    /\ records = {} /\ todo = << >> /\ events = 0

\* `audio_active`.
audio_active == resumed /\ focused /\ ~paused

-----------------------------------------------------------------------------
\* What the platform and the frame ask for.  Each is a list of steps below.

Retired == {[r EXCEPT !.retiring = TRUE] : r \in records}

maintain == << "sweep", "stops", "gains" >>

\* stop_all, then suspend.
Silence ==
    /\ records' = Retired
    /\ todo' = << "stops", "suspend" >>
    /\ UNCHANGED <<muted, away, retry, opened>>

\* resume, if the application is active after the event.
ResumeIf(active) ==
    IF active
    THEN /\ away' = FALSE /\ retry' = "none"
         /\ todo' = (IF opened = "none" THEN << "open" >> ELSE << "attempt" >>) \o maintain
         /\ UNCHANGED <<muted, opened, records>>
    ELSE UNCHANGED <<adapter, todo>>

Event == /\ todo = << >> /\ events < MaxEvents /\ events' = events + 1
         /\ UNCHANGED service

winit_resumed ==
    /\ Event
    /\ resumed' = TRUE /\ paused' = FALSE /\ focused' = focused
    /\ ResumeIf(focused)

winit_suspended ==
    /\ Event
    /\ resumed' = FALSE /\ UNCHANGED <<focused, paused>>
    /\ Silence

on_focus_lost ==
    /\ Event
    /\ focused' = FALSE /\ UNCHANGED <<resumed, paused>>
    /\ Silence

on_focus_gained ==
    /\ Event
    /\ focused' = TRUE /\ UNCHANGED <<resumed, paused>>
    /\ ResumeIf(resumed /\ ~paused)

occluded ==
    /\ Event
    /\ ~paused
    /\ paused' = TRUE /\ UNCHANGED <<resumed, focused>>
    /\ Silence

revealed ==
    /\ Event
    /\ paused
    /\ paused' = FALSE /\ UNCHANGED <<resumed, focused>>
    /\ ResumeIf(resumed /\ focused)

\* A sample is left for another: its voices are retired, nothing is suspended.
switch_to ==
    /\ Event
    /\ records' = Retired
    /\ todo' = << "stops" >>
    /\ UNCHANGED <<platform, muted, away, retry, opened>>

\* sync_settings: the player toggled mute.
set_muted ==
    /\ Event
    /\ muted' = ~muted
    /\ todo' = << "gains" >>
    /\ UNCHANGED <<platform, away, retry, opened, records>>

PumpAlways ==
    /\ todo = << >>
    /\ todo' = << "poll" >>
    /\ UNCHANGED <<service, platform, adapter, events>>

\* A frame of an active application: the device, the voices, and what the
\* sample queued for this frame.
pump_audio ==
    /\ todo = << >>
    /\ audio_active /\ ~away
    /\ \E n \in 0..1 :
          todo' = << "poll" >> \o maintain \o (IF n = 0 THEN << >> ELSE << "sweep", "trigger" >>)
    /\ UNCHANGED <<service, platform, adapter, events>>

-----------------------------------------------------------------------------
\* The steps.

Doing(step) == todo # << >> /\ Head(todo) = step
Done == todo' = Tail(todo)
Mirror(r) == voice_mirror[r.voice]
Stale(r) == Mirror(r).generation # r.generation

\* open_device: a service whose output opens and starts, then its clips.  A
\* failure leaves no device, and nothing of the call is left to do.
open_device ==
    /\ Doing("open")
    /\ \/ /\ Fault /\ todo' = << >>
          /\ UNCHANGED <<intent, stream, opened, records>>
       \/ /\ OutputStarted
          /\ opened' = "opening" /\ records' = {}
          /\ todo' = << "register" >> \o Tail(todo)
          /\ UNCHANGED <<recovery_pending, faults>>
    /\ UNCHANGED <<control, queue, callback, drained, mixer, disconnected,
                   platform, muted, away, retry, events>>

register_clips ==
    /\ Doing("register")
    /\ \/ /\ Inactive # {}
          /\ \E n \in Lengths : register_clip(n)
          /\ UNCHANGED <<opened, todo>>
       \/ /\ Inactive = {}
          /\ opened' = "open"
          /\ todo' = << "attempt" >> \o Tail(todo)
          /\ UNCHANGED service
    /\ UNCHANGED <<platform, muted, away, retry, records, events>>

CannotQueueResume == ~running /\ ~MustRecreate /\ ~resume_queued /\ Vacant = 0

service_resume ==
    \/ resume
    \/ (running \/ CannotQueueResume) /\ UNCHANGED service

AttemptOnce == service_resume /\ retry' = "none"

\* attempt_resume: what the service is afterwards decides, not what it returned.
Attempt ==
    /\ service_resume
    /\ retry' = IF suspended' THEN "waiting" ELSE "none"

attempt_resume ==
    /\ Doing("attempt")
    /\ Attempt /\ Done
    /\ UNCHANGED <<platform, muted, away, opened, records, events>>

\* The poll of a frame retries a resume that is due and otherwise looks after
\* the device.
adapter_poll ==
    /\ Doing("poll") /\ Done
    /\ \/ retry = "due" /\ Attempt
       \/ retry = "none" /\ opened = "open" /\ poll_device /\ retry' = retry
       \/ /\ \/ retry = "waiting"
             \/ retry = "none" /\ (opened # "open" \/ ~(disconnected \/ recovery_pending))
          /\ UNCHANGED <<service, retry>>
    /\ UNCHANGED <<platform, muted, away, opened, records, events>>

cooldown_passes ==
    /\ retry = "waiting"
    /\ retry' = "due"
    /\ UNCHANGED <<service, platform, muted, away, opened, records, todo, events>>

\* adapter.suspend: the intent holds even if the service refuses.
adapter_suspend ==
    /\ Doing("suspend") /\ Done
    /\ away' = TRUE /\ retry' = "none"
    /\ \/ opened = "open" /\ suspend
       \/ /\ opened # "open" \/ suspended \/ Vacant < 2
          /\ UNCHANGED service
    /\ UNCHANGED <<platform, muted, opened, records, events>>

\* `voice_finished`: two callbacks since the play, and a service that does not
\* call the voice active.
is_voice_active(r) ==
    /\ ~Stale(r) /\ Mirror(r).live /\ Mirror(r).wait = 0
    /\ r.voice \in live_mask

voice_finished(r) == r.callbacks = 2 /\ ~is_voice_active(r)

sweep_finished ==
    /\ Doing("sweep") /\ Done
    /\ records' = {r \in records : ~voice_finished(r)}
    /\ UNCHANGED <<service, platform, muted, away, retry, opened, events>>

\* push_pending_stops: one retiring voice after the other, until the queue is
\* full.  A record leaves the table only when its stop is accepted or moot.
Retiring == {r \in records : r.retiring}

push_pending_stop ==
    /\ Doing("stops")
    /\ \E r \in Retiring :
          /\ \/ Stale(r) /\ UNCHANGED service
             \/ ~Stale(r) /\ stop_voice(r.voice)
          /\ records' = records \ {r}
    /\ UNCHANGED <<platform, muted, away, retry, opened, todo, events>>

StopsBlocked == \E r \in Retiring : ~Stale(r) /\ ~Finished(r.voice) /\ Vacant = 0

stops_pushed ==
    /\ Doing("stops") /\ Done
    /\ opened # "open" \/ Retiring = {} \/ StopsBlocked
    /\ UNCHANGED <<service, platform, adapter, events>>

\* push_pending_gains: likewise for the voices whose level is not the one that
\* mute asks for.  A voice the service calls finished leaves the table.
Detuned == {r \in records : ~r.retiring /\ r.silent # muted}

push_pending_gain ==
    /\ Doing("gains")
    /\ \E r \in Detuned :
          \/ /\ Stale(r) \/ Finished(r.voice)
             /\ records' = records \ {r} /\ UNCHANGED service
          \/ /\ ~Stale(r) /\ set_voice_gain(r.voice)
             /\ records' = (records \ {r}) \cup {[r EXCEPT !.silent = muted]}
    /\ UNCHANGED <<platform, muted, away, retry, opened, todo, events>>

GainsBlocked == \E r \in Detuned : ~Stale(r) /\ ~Finished(r.voice) /\ Vacant = 0

gains_pushed ==
    /\ Doing("gains") /\ Done
    /\ opened # "open" \/ Detuned = {} \/ GainsBlocked
    /\ UNCHANGED <<service, platform, adapter, events>>

\* start_event, after its sweep.  Dropped unless output runs, nothing is muted
\* and both the table and the service have room.
device_running == stream # "none" /\ ~disconnected /\ ~suspended

MayStart == opened = "open" /\ device_running /\ ~muted /\ Cardinality(records) < Cardinality(Voices)

trigger ==
    /\ Doing("trigger") /\ Done
    /\ \/ /\ MayStart
          /\ \E v \in Voices, c \in Clips :
                /\ play(v, c)
                /\ records' = records \cup
                     {[voice |-> v, generation |-> voice_mirror'[v].generation,
                       retiring |-> FALSE, silent |-> FALSE, callbacks |-> 0]}
       \/ /\ ~MayStart \/ Vacant = 0 \/ \A v \in Voices : ~Finished(v)
          /\ UNCHANGED <<service, records>>
    /\ UNCHANGED <<platform, muted, away, retry, opened, events>>

Step ==
    \/ open_device \/ register_clips \/ attempt_resume \/ adapter_poll
    \/ adapter_suspend \/ sweep_finished \/ push_pending_stop \/ stops_pushed
    \/ push_pending_gain \/ gains_pushed \/ trigger

-----------------------------------------------------------------------------
\* The callback counts for every record while it counts for the device.


Counted == {[r EXCEPT !.callbacks = IF @ = 2 THEN 2 ELSE @ + 1] : r \in records}

adapter_render ==
    /\ \/ /\ begin_callback \/ drain \/ mix \/ publish_applied
          /\ records' = records
       \/ count_callback /\ records' = Counted
    /\ UNCHANGED <<platform, muted, away, retry, opened, todo, events>>

Platform ==
    \/ winit_resumed \/ winit_suspended \/ on_focus_lost \/ on_focus_gained
    \/ occluded \/ revealed \/ switch_to \/ set_muted

Device ==
    /\ opened = "open"
    /\ stream_pauses \/ lose_device
    /\ UNCHANGED <<platform, adapter, todo, events>>

AdapterNext ==
    \/ Platform \/ pump_audio \/ Step \/ cooldown_passes \/ adapter_render \/ Device

\* Frames come for ever and calls return; callbacks come while a stream runs;
\* the clock goes on.  Nothing obliges the platform, the player or a fault.
AdapterSpec ==
    /\ AdapterInit /\ [][AdapterNext]_avars
    /\ WF_avars(pump_audio) /\ WF_avars(Step)
    /\ WF_avars(adapter_render) /\ WF_avars(cooldown_passes)

-----------------------------------------------------------------------------
\* Properties.

AdapterTypeOK ==
    /\ AudioTypeOK
    /\ {resumed, focused, paused, muted, away} \subseteq BOOLEAN
    /\ retry \in {"none", "waiting", "due"}
    /\ opened \in {"none", "opening", "open"}
    /\ records \subseteq Records
    /\ Cardinality(records) <= Cardinality(Voices)

\* "One lifecycle resume is enough": an application that is in front and has a
\* device comes to a running stream again without another event, whatever
\* opens and starts fail on the way and however full the queue is.
Playing == stream = "started" /\ running /\ ~suspended /\ ~disconnected
OneResumeIsEnough ==
    (audio_active /\ opened = "open") ~> (Playing \/ ~audio_active)

\* "A late poll can never restart output the app asked to pause": while the
\* adapter is suspended nothing starts a stream.
BackgroundStartsNothing ==
    [][away /\ away' => ~(stream # "started" /\ stream' = "started")]_avars

\* "Nothing from before the pause may sound on resume", and no sample leaves a
\* voice behind: a voice that sounds is one the adapter tracks, or its stop is
\* already on the way.
SoundsAreTracked ==
    \A v \in Voices : voices[v].active =>
        \/ \E r \in records : r.voice = v /\ r.generation = voices[v].generation
        \/ \E i \in DOMAIN queue : queue[i] =
              [op |-> "Stop", voice |-> v, generation |-> voices[v].generation]
=============================================================================
