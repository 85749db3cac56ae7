---------------------------- MODULE AudioService ----------------------------
(***************************************************************************)
(* The audio service of crates/matterweave-audio: the control thread       *)
(* (service.rs), the bounded command queue and the real-time mixer it      *)
(* feeds (mixer.rs), and the output stream between them (backend.rs).      *)
(*                                                                         *)
(* The control thread owns the handles and the PCM pool; the callback      *)
(* thread owns the voices.  They share the queue and a few atomics.  Every *)
(* public call of the service is one action; a callback is one action per  *)
(* command it drains and one per atomic it publishes.                      *)
(*                                                                         *)
(* Sequence numbers are kept as the distance from `commands_applied`: a    *)
(* `wait` of zero says that the number has been reached.                   *)
(***************************************************************************)
EXTENDS Integers, Sequences, FiniteSets

CONSTANTS
    Clips,          \* the clip slots, 1..MAX_CLIPS
    Voices,         \* the voice slots
    PoolSize,       \* samples in the PCM pool
    Lengths,        \* the lengths of the clips the application has
    Capacity,       \* of the command queue
    MaxGeneration,  \* u32::MAX: the generation after it is 1 again
    Faults,         \* how often the output device may fail
    MaxAhead        \* bound: commands pushed ahead of what is acknowledged

ASSUME AudioAssumption ==
    /\ Clips \subseteq Nat /\ IsFiniteSet(Clips) /\ Clips # {}
    /\ PoolSize \in Nat /\ Capacity \in Nat \ {0} /\ Faults \in Nat /\ MaxAhead \in Nat
    /\ IsFiniteSet(Voices) /\ Lengths \subseteq Nat \ {0}
    /\ MaxGeneration \in Nat \ {0}

VARIABLES
    clip_mirror,      \* control: generation, whether registered, range
    voice_mirror,     \* control: generation, believed live, clip, wait of its Play
    free_ranges,      \* sequence of ranges, searched from the front
    pending_ranges,   \* retired ranges with the wait of their Unload
    queue,            \* commands pushed and not yet popped
    callback,         \* where the render invocation is
    drained,          \* commands it popped and has not yet published
    slots,            \* mixer: generation and whether loaded
    voices,           \* mixer: what each voice slot plays
    rt_suspended,     \* mixer: renders silence and freezes its cursors
    live_mask,        \* atomic: the voices alive when it was last published
    rt_rejected,      \* whether the mixer ever refused a command
    stream,           \* the device: none, paused, pausing or started
    disconnected,     \* atomic: set by the error callback
    running, suspended, recovery_pending, resume_queued,
    faults            \* how many device faults are still to come

control == <<clip_mirror, voice_mirror, free_ranges, pending_ranges>>
mixer == <<slots, voices, rt_suspended, live_mask, rt_rejected>>
intent == <<running, suspended, recovery_pending, resume_queued>>
device == <<stream, disconnected, faults>>
vars == <<control, queue, callback, drained, mixer, intent, device>>

Ranges == [start : 0..PoolSize, samples : 0..PoolSize]
Cells(range) == range.start + 1 .. range.start + range.samples
Generations == 0..MaxGeneration
NoRange == [start |-> 0, samples |-> 0]

Commands ==
    [op : {"LoadClip", "UnloadClip"}, clip : Clips, generation : Generations]
    \cup [op : {"Play"}, voice : Voices, generation : Generations,
          clip : Clips, clip_generation : Generations, range : Ranges]
    \cup [op : {"Stop", "SetGain"}, voice : Voices, generation : Generations]
    \cup [op : {"Suspend", "Resume"}]

First(S) == CHOOSE i \in S : \A j \in S : i <= j

next_generation(g) == IF g = MaxGeneration THEN 1 ELSE g + 1

Init ==
    /\ clip_mirror = [c \in Clips |->
                        [generation |-> 0, active |-> FALSE, range |-> NoRange]]
    /\ voice_mirror = [v \in Voices |->
                        [generation |-> 0, live |-> FALSE, clip |-> First(Clips), wait |-> 0]]
    /\ free_ranges = << [start |-> 0, samples |-> PoolSize] >>
    /\ pending_ranges = << >>
    /\ queue = << >> /\ callback = "idle" /\ drained = 0
    /\ slots = [c \in Clips |-> [generation |-> 0, active |-> FALSE]]
    /\ voices = [v \in Voices |->
                  [generation |-> 0, active |-> FALSE, clip |-> First(Clips), range |-> NoRange]]
    /\ rt_suspended = FALSE /\ live_mask = {} /\ rt_rejected = FALSE
    /\ stream = "started" /\ disconnected = FALSE /\ faults = Faults
    /\ running = TRUE /\ suspended = FALSE
    /\ recovery_pending = FALSE /\ resume_queued = FALSE

-----------------------------------------------------------------------------
\* The queue.


Vacant == Capacity - Len(queue)
push(command) == queue' = Append(queue, command)

\* The wait of the command that is pushed now: everything the mixer has not
\* yet published, and the command itself.
Sequence == drained + Len(queue) + 1

-----------------------------------------------------------------------------
\* Clips and the pool.

\* How many retired ranges, a prefix, have been acknowledged.
Acknowledged ==
    LET Done(k) == \A i \in 1..k : pending_ranges[i].wait = 0
    IN  CHOOSE k \in 0..Len(pending_ranges) :
            Done(k) /\ (k < Len(pending_ranges) => ~Done(k + 1))

\* The free list after `reclaim_acknowledged_ranges`.
Reclaimed == free_ranges \o [i \in 1..Acknowledged |-> pending_ranges[i].range]

Fitting(n) == {i \in DOMAIN Reclaimed : Reclaimed[i].samples >= n}

Without(s, i) == SubSeq(s, 1, i - 1) \o SubSeq(s, i + 1, Len(s))

CutFromFront(i, n) ==
    LET r == Reclaimed[i]
    IN  IF r.samples = n THEN Without(Reclaimed, i)
        ELSE [Reclaimed EXCEPT ![i] = [start |-> r.start, samples |-> r.samples - n]]

\* What is left of the free list when n samples are cut from its i-th range.
Cut(i, n) ==
    LET r == Reclaimed[i]
    IN  IF r.samples = n THEN Without(Reclaimed, i)
        ELSE [Reclaimed EXCEPT ![i] =
                [start |-> r.start + n, samples |-> r.samples - n]]

Inactive == {c \in Clips : ~clip_mirror[c].active}

reclaim_acknowledged_ranges ==
    pending_ranges' = SubSeq(pending_ranges, Acknowledged + 1, Len(pending_ranges))

register_clip(n) ==
    /\ Inactive # {}
    /\ Vacant > 0
    /\ Fitting(n) # {}
    /\ LET c == First(Inactive)
           i == First(Fitting(n))
           g == next_generation(clip_mirror[c].generation)
       IN  /\ free_ranges' = Cut(i, n)
           /\ clip_mirror' = [clip_mirror EXCEPT ![c] =
                [generation |-> g, active |-> TRUE,
                 range |-> [start |-> Reclaimed[i].start, samples |-> n]]]
           /\ push([op |-> "LoadClip", clip |-> c, generation |-> g])
    /\ reclaim_acknowledged_ranges
    /\ UNCHANGED <<voice_mirror, callback, drained, mixer, intent, device>>

\* Refused, for lack of a range: what was acknowledged is reclaimed all the same.
register_refused(n) ==
    /\ Inactive # {}
    /\ Vacant > 0
    /\ Fitting(n) = {}
    /\ free_ranges' = Reclaimed
    /\ reclaim_acknowledged_ranges
    /\ UNCHANGED <<clip_mirror, voice_mirror, queue, callback, drained, mixer, intent, device>>

unregister_clip(c) ==
    /\ clip_mirror[c].active
    /\ Vacant > 0
    /\ push([op |-> "UnloadClip", clip |-> c, generation |-> clip_mirror[c].generation])
    /\ clip_mirror' = [clip_mirror EXCEPT ![c] =
            [generation |-> next_generation(@.generation), active |-> FALSE, range |-> NoRange]]
    /\ voice_mirror' = [v \in Voices |->
            IF voice_mirror[v].clip = c THEN [voice_mirror[v] EXCEPT !.live = FALSE]
            ELSE voice_mirror[v]]
    /\ pending_ranges' = Append(pending_ranges,
            [range |-> clip_mirror[c].range, wait |-> Sequence])
    /\ UNCHANGED <<free_ranges, callback, drained, mixer, intent, device>>

-----------------------------------------------------------------------------
\* Voices.

FinishedByMask(v) == ~voice_mirror[v].live \/ v \notin live_mask

\* `voice_definitely_finished`, and what makes a slot free for another play.
Finished(v) ==
    \/ ~voice_mirror[v].live
    \/ voice_mirror[v].wait = 0 /\ v \notin live_mask

\* The mask is read once for every slot while callbacks complete, so the
\* slot that is found need not be the first that is free.
play(v, c) ==
    /\ clip_mirror[c].active
    /\ Finished(v)
    /\ Vacant > 0
    /\ LET g == next_generation(voice_mirror[v].generation)
       IN  /\ push([op |-> "Play", voice |-> v, generation |-> g, clip |-> c,
                    clip_generation |-> clip_mirror[c].generation,
                    range |-> clip_mirror[c].range])
           /\ voice_mirror' = [voice_mirror EXCEPT ![v] =
                [generation |-> g, live |-> TRUE, clip |-> c, wait |-> Sequence]]
    /\ UNCHANGED <<clip_mirror, free_ranges, pending_ranges, callback, drained,
                   mixer, intent, device>>

\* A voice that has finished is only forgotten; otherwise the mixer is told.
stop_voice(v) ==
    /\ voice_mirror[v].generation # 0
    /\ IF Finished(v)
       THEN /\ voice_mirror' = [voice_mirror EXCEPT ![v].live = FALSE]
            /\ queue' = queue
       ELSE /\ Vacant > 0
            /\ push([op |-> "Stop", voice |-> v, generation |-> voice_mirror[v].generation])
            /\ voice_mirror' = voice_mirror
    /\ UNCHANGED <<clip_mirror, free_ranges, pending_ranges, callback, drained,
                   mixer, intent, device>>

set_voice_gain(v) ==
    /\ ~Finished(v)
    /\ Vacant > 0
    /\ push([op |-> "SetGain", voice |-> v, generation |-> voice_mirror[v].generation])
    /\ UNCHANGED <<control, callback, drained, mixer, intent, device>>

-----------------------------------------------------------------------------
\* The output stream.  A fault uses up one of `faults`; what a fault makes of
\* a call is a disjunct next to what the call does otherwise.

Fault == faults > 0 /\ faults' = faults - 1

\* Closing a stream joins its callbacks.
Joined == callback = "idle"

OutputLost ==
    /\ stream' = "none" /\ running' = FALSE /\ recovery_pending' = TRUE
    /\ UNCHANGED <<suspended, resume_queued>>

OutputStarted ==
    /\ stream' = "started" /\ running' = TRUE
    /\ suspended' = FALSE /\ resume_queued' = FALSE

\* `recreate_output` of a service that is not suspended: close, open, start.
recreate_started ==
    /\ ~suspended /\ Joined
    /\ disconnected' = FALSE
    /\ \/ Fault /\ OutputLost
       \/ OutputStarted /\ recovery_pending' = FALSE /\ faults' = faults

\* Of a suspended one: the replacement is opened and not started.
recreate_paused ==
    /\ suspended /\ Joined
    /\ disconnected' = FALSE
    /\ \/ Fault /\ OutputLost
       \/ /\ stream' = "paused" /\ running' = FALSE /\ recovery_pending' = FALSE
          /\ UNCHANGED <<suspended, resume_queued, faults>>

SuspendUncompensated ==
    /\ ~suspended
    /\ Vacant >= 2
    /\ push([op |-> "Suspend"])
    /\ \/ /\ running' = FALSE /\ suspended' = TRUE /\ resume_queued' = FALSE
          /\ stream' = IF stream = "none" THEN "none" ELSE "pausing"
          /\ UNCHANGED <<recovery_pending, disconnected, faults>>
       \/ stream # "none" /\ Fault /\ UNCHANGED <<intent, stream, disconnected>>
    /\ UNCHANGED <<control, callback, drained, mixer>>

suspend ==
    /\ ~suspended
    /\ Vacant >= 2
    /\ \/ /\ push([op |-> "Suspend"])
          /\ running' = FALSE /\ suspended' = TRUE /\ resume_queued' = FALSE
          /\ stream' = IF stream = "none" THEN "none" ELSE "pausing"
          /\ UNCHANGED <<recovery_pending, disconnected, faults>>
       \/ /\ stream # "none" /\ Fault
          /\ queue' = queue \o << [op |-> "Suspend"], [op |-> "Resume"] >>
          /\ UNCHANGED <<intent, stream, disconnected>>
    /\ UNCHANGED <<control, callback, drained, mixer>>

MustRecreate == recovery_pending \/ stream = "none"

\* Resume is queued once, however often starting fails after it.
QueueResume ==
    IF resume_queued THEN queue' = queue ELSE push([op |-> "Resume"])

\* The stream that is open is started; a start that fails closes it.
resume_paused ==
    /\ ~running /\ ~MustRecreate
    /\ resume_queued \/ Vacant > 0
    /\ QueueResume
    /\ \/ OutputStarted /\ UNCHANGED <<recovery_pending, faults>>
       \/ /\ Fault /\ Joined
          /\ stream' = "none" /\ running' = FALSE /\ recovery_pending' = TRUE
          /\ suspended' = suspended /\ resume_queued' = TRUE
    /\ UNCHANGED <<control, callback, drained, mixer, disconnected>>

\* The lost stream of a service that is not suspended is replaced and started.
resume_lost ==
    /\ ~running /\ MustRecreate /\ recreate_started
    /\ UNCHANGED <<control, queue, callback, drained, mixer>>

\* Of a suspended one it is replaced, then started as in `resume_paused`: the
\* three ways are a replacement that fails, a start that fails, and no fault.
resume_replaced ==
    /\ ~running /\ MustRecreate /\ suspended /\ Joined
    /\ disconnected' = FALSE
    /\ \/ Fault /\ OutputLost /\ queue' = queue
       \/ /\ ~resume_queued /\ Vacant = 0
          /\ stream' = "paused" /\ recovery_pending' = FALSE
          /\ UNCHANGED <<queue, running, suspended, resume_queued, faults>>
       \/ /\ resume_queued \/ Vacant > 0
          /\ QueueResume
          /\ \/ OutputStarted /\ recovery_pending' = FALSE /\ faults' = faults
             \/ /\ Fault /\ stream' = "none" /\ recovery_pending' = TRUE
                /\ resume_queued' = TRUE /\ UNCHANGED <<running, suspended>>
    /\ UNCHANGED <<control, callback, drained, mixer>>

resume == resume_paused \/ resume_lost \/ resume_replaced

\* Nothing to do, an error of the stream, or a recreation that is still owed.
poll_device ==
    /\ disconnected \/ recovery_pending
    /\ recreate_started \/ recreate_paused
    /\ UNCHANGED <<control, queue, callback, drained, mixer>>

\* The platform pauses a stream some time after it is asked to.
stream_pauses ==
    /\ stream = "pausing"
    /\ stream' = "paused"
    /\ UNCHANGED <<control, queue, callback, drained, mixer, intent, disconnected, faults>>

\* The error callback: the stream delivers no further callbacks.
lose_device ==
    /\ stream # "none" /\ ~disconnected /\ Fault
    /\ disconnected' = TRUE
    /\ UNCHANGED <<control, queue, callback, drained, mixer, intent, stream>>

-----------------------------------------------------------------------------
\* The callback: `MixerCore::render`.

begin_callback ==
    /\ callback = "idle"
    /\ stream \in {"started", "pausing"} /\ ~disconnected
    /\ callback' = "draining"
    /\ UNCHANGED <<control, queue, drained, mixer, intent, device>>

\* What a command does to the mixer: the slots, the voices and whether it is
\* refused.
Loaded(c, g) == slots[c].active /\ slots[c].generation = g

apply(command) ==
    CASE command.op = "LoadClip" ->
            /\ slots' = [slots EXCEPT ![command.clip] =
                            [generation |-> command.generation, active |-> TRUE]]
            /\ UNCHANGED <<voices, rt_suspended, rt_rejected>>
      [] command.op = "UnloadClip" ->
            LET ok == Loaded(command.clip, command.generation)
            IN  /\ slots' = IF ok THEN [slots EXCEPT ![command.clip].active = FALSE] ELSE slots
                /\ voices' = [v \in Voices |->
                     IF ok /\ voices[v].clip = command.clip
                     THEN [voices[v] EXCEPT !.active = FALSE] ELSE voices[v]]
                /\ rt_rejected' = (rt_rejected \/ ~ok)
                /\ rt_suspended' = rt_suspended
      [] command.op = "Play" ->
            LET ok == /\ Loaded(command.clip, command.clip_generation)
                      /\ ~voices[command.voice].active
            IN  /\ voices' = IF ok
                     THEN [voices EXCEPT ![command.voice] =
                             [generation |-> command.generation, active |-> TRUE,
                              clip |-> command.clip, range |-> command.range]]
                     ELSE voices
                /\ rt_rejected' = (rt_rejected \/ ~ok)
                /\ UNCHANGED <<slots, rt_suspended>>
      [] command.op = "Stop" ->
            LET ok == voices[command.voice].generation = command.generation
            IN  /\ voices' = IF ok THEN [voices EXCEPT ![command.voice].active = FALSE]
                             ELSE voices
                /\ rt_rejected' = (rt_rejected \/ ~ok)
                /\ UNCHANGED <<slots, rt_suspended>>
      [] command.op = "SetGain" ->
            /\ rt_rejected' = (rt_rejected
                               \/ voices[command.voice].generation # command.generation)
            /\ UNCHANGED <<slots, voices, rt_suspended>>
      [] OTHER ->
            /\ rt_suspended' = (command.op = "Suspend")
            /\ UNCHANGED <<slots, voices, rt_rejected>>

drain ==
    /\ callback = "draining" /\ queue # << >>
    /\ apply(Head(queue))
    /\ queue' = Tail(queue)
    /\ drained' = drained + 1
    /\ UNCHANGED <<control, callback, live_mask, intent, device>>

\* Mixing plays the active voices for the length of a buffer, in which any of
\* them may end, and publishes which are left.  A suspended mixer ends none.
mix ==
    /\ callback = "draining" /\ queue = << >>
    /\ \E ended \in SUBSET {v \in Voices : voices[v].active} :
          /\ rt_suspended => ended = {}
          /\ voices' = [v \in Voices |->
                          [voices[v] EXCEPT !.active = @ /\ v \notin ended]]
    /\ live_mask' = {v \in Voices : voices'[v].active}
    /\ callback' = "mixed"
    /\ UNCHANGED <<control, queue, drained, slots, rt_suspended, rt_rejected, intent, device>>

\* The count of callbacks is published before the commands they applied.
count_callback ==
    /\ callback = "mixed"
    /\ callback' = "counted"
    /\ UNCHANGED <<control, queue, drained, mixer, intent, device>>

ReachedByCallback(wait) == 0

Reached(wait) == IF wait > drained THEN wait - drained ELSE 0

publish_applied ==
    /\ callback = "counted"
    /\ callback' = "idle"
    /\ drained' = 0
    /\ voice_mirror' = [v \in Voices |-> [voice_mirror[v] EXCEPT !.wait = Reached(@)]]
    /\ pending_ranges' = [i \in DOMAIN pending_ranges |->
                            [pending_ranges[i] EXCEPT !.wait = Reached(@)]]
    /\ UNCHANGED <<clip_mirror, free_ranges, queue, mixer, intent, device>>

-----------------------------------------------------------------------------
Render == begin_callback \/ drain \/ mix \/ count_callback \/ publish_applied

Request ==
    \/ \E n \in Lengths : register_clip(n) \/ register_refused(n)
    \/ \E c \in Clips : unregister_clip(c)
    \/ \E v \in Voices, c \in Clips : play(v, c)
    \/ \E v \in Voices : stop_voice(v) \/ set_voice_gain(v)
    \/ suspend
    \/ resume
    \/ poll_device

\* The queue bounds what waits in it, but nothing bounds what one callback
\* pops while it is fed: MaxAhead does.
Call ==
    /\ Sequence <= MaxAhead
    /\ Request

Next == Call \/ Render \/ stream_pauses \/ lose_device

Spec == Init /\ [][Next]_vars

-----------------------------------------------------------------------------
\* Properties.

AudioTypeOK ==
    /\ clip_mirror \in [Clips -> [generation : Generations, active : BOOLEAN, range : Ranges]]
    /\ voice_mirror \in [Voices -> [generation : Generations, live : BOOLEAN,
                                    clip : Clips, wait : Nat]]
    /\ free_ranges \in Seq(Ranges)
    /\ pending_ranges \in Seq([range : Ranges, wait : Nat])
    /\ queue \in Seq(Commands) /\ Len(queue) <= Capacity
    /\ callback \in {"idle", "draining", "mixed", "counted"}
    /\ drained \in Nat
    /\ slots \in [Clips -> [generation : Generations, active : BOOLEAN]]
    /\ voices \in [Voices -> [generation : Generations, active : BOOLEAN,
                              clip : Clips, range : Ranges]]
    /\ live_mask \subseteq Voices
    /\ stream \in {"none", "paused", "pausing", "started"}
    /\ {rt_suspended, rt_rejected, disconnected, running, suspended,
        recovery_pending, resume_queued} \subseteq BOOLEAN
    /\ faults \in Nat

\* Every sample of the pool is in exactly one place: a free range, a retired
\* range, or a registered clip.  None leaks through refused registrations,
\* partial reclaims or splits, and none is handed out twice.
FreeAt(p) == {i \in DOMAIN free_ranges : p \in Cells(free_ranges[i])}
RetiredAt(p) == {i \in DOMAIN pending_ranges : p \in Cells(pending_ranges[i].range)}
RegisteredAt(p) == {c \in Clips : clip_mirror[c].active /\ p \in Cells(clip_mirror[c].range)}

PoolPartition ==
    \A p \in 1..PoolSize :
        Cardinality(FreeAt(p)) + Cardinality(RetiredAt(p)) + Cardinality(RegisteredAt(p)) = 1

\* The callback reads only PCM that nobody may rewrite: what an active voice
\* plays is the range of the registration it was started for, or a retired
\* range whose unload is not yet acknowledged.  Registration writes into free
\* ranges, so it never races with a callback.
VoicesReadOwnedPcm ==
    \A v \in Voices : voices[v].active =>
        \/ /\ clip_mirror[voices[v].clip].active
           /\ clip_mirror[voices[v].clip].generation = slots[voices[v].clip].generation
           /\ clip_mirror[voices[v].clip].range = voices[v].range
        \/ \E i \in DOMAIN pending_ranges :
              /\ pending_ranges[i].range = voices[v].range
              /\ pending_ranges[i].wait > drained

\* "Expected zero": however calls and callbacks interleave, the mixer finds
\* every command valid when its turn comes, although the control thread only
\* guesses from late atomics what the mixer's voices are.
RtRejectsNothing == ~rt_rejected

\* Whether the mixer will be silent once it has drained its queue.
SilentAfter ==
    LET Last == {i \in DOMAIN queue : queue[i].op \in {"Suspend", "Resume"}}
    IN  IF Last = {} THEN rt_suspended
        ELSE queue[CHOOSE i \in Last : \A j \in Last : j <= i].op = "Suspend"

\* Mixer and service agree on what they were told: through refused pauses,
\* lost streams, failed opens and failed starts, the mixer ends up silent
\* exactly when the service is suspended and has not asked for sound again.
MixerFollowsIntent == SilentAfter = (suspended /\ ~resume_queued)
=============================================================================
