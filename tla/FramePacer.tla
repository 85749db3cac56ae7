----------------------------- MODULE FramePacer -----------------------------
(***************************************************************************)
(* The frame pacer (crates/matterweave-pacing) in the loop it closes with  *)
(* the wetland application: what it recommends decides when the next frame *)
(* starts, and so the intervals it observes.                               *)
(*                                                                         *)
(* There is no absolute clock: now and due are measured from the last      *)
(* present.  The cost of a frame, and by how much the event loop wakes it  *)
(* too late, come from outside.                                            *)
(***************************************************************************)
EXTENDS Integers, Sequences, FiniteSets, Platform

CONSTANTS
    HISTORY_CAPACITY,      \* samples kept
    Percentile,            \* the cost that counts: 95 in the code
    MAX_DIVISOR,
    SETTLE_FRAMES,
    MENU_INTERVAL,         \* the menu's fixed cadence
    Periods,               \* what displays report
    Loads,                 \* sets of costs: what the frames of a scene cost
    Overshoots,            \* how late the event loop wakes the frame
    Gap,                   \* time that passes while the loop is stopped
    MaxEvents              \* bound: what happens to the loop from outside

Costs == UNION Loads

ASSUME PacingAssumption ==
    /\ {HISTORY_CAPACITY, MAX_DIVISOR, SETTLE_FRAMES, MENU_INTERVAL} \subseteq Nat \ {0}
    /\ Percentile \in 1..100
    /\ Periods \subseteq Nat \ {0} /\ Costs \subseteq Nat /\ Overshoots \subseteq Nat
    /\ Gap \in Nat /\ MaxEvents \in Nat

VARIABLES
    pacer,      \* the Pacer and its Config
    lifecycle,
    menu,
    display,    \* the refresh period the display reports
    load,       \* the costs of the scene shown
    now, due,   \* finish of the last attempt and next_frame, from the last present
    events

world == <<display, load>>
vars == <<pacer, lifecycle, menu, world, now, due, events>>

Larger(a, b) == IF a > b THEN a ELSE b

-----------------------------------------------------------------------------
(* The pacer.                                                              *)

Eighth(period) == Larger(period \div 8, 1)   \* default margin and tolerance

New(period, policy) ==
    [policy |-> policy, period |-> period, armed |-> FALSE, samples |-> << >>,
     divisor |-> 1, stable |-> 0]

reset(p) == New(p.period, p.policy)
set_policy(p, policy) == IF policy = p.policy THEN p ELSE New(p.period, policy)

decision(p) == IF p.policy = "Adaptive" THEN p.divisor * p.period ELSE MENU_INTERVAL

(* The nearest-rank percentile of the works; 0 when there are none. *)
Rank(n) == (Percentile * n + 99) \div 100
Ranked(series) ==
    {w \in {series[i] : i \in DOMAIN series} :
        /\ Cardinality({i \in DOMAIN series : series[i] < w}) < Rank(Len(series))
        /\ Cardinality({i \in DOMAIN series : series[i] <= w}) >= Rank(Len(series))}
p95_of(series) == IF Ranked(series) = {} THEN 0 ELSE CHOOSE w \in Ranked(series) : TRUE
work(samples) == [i \in DOMAIN samples |-> samples[i].work]
intervals(samples) == [i \in DOMAIN samples |-> samples[i].interval]
CostPaced(samples) == p95_of(intervals(samples))
Cost(samples) == p95_of(work(samples))

(* The fastest cadence that covers a cost, or the slowest there is. *)
Covers(d, cost, period) == d = MAX_DIVISOR \/ cost <= d * period
Desired(cost, period) ==
    CHOOSE d \in 1..MAX_DIVISOR :
        Covers(d, cost, period) /\ \A e \in 1..d - 1 : ~Covers(e, cost, period)

(* The guard of stepping down: the cost and a margin fit the next cadence. *)
FitsFaster(p, cost) == cost + Eighth(p.period) <= (p.divisor - 1) * p.period

SlowedByOne(p, desired) == [p EXCEPT !.divisor = @ + 1, !.stable = 0]
Slowed(p, desired) == [p EXCEPT !.divisor = desired, !.stable = 0]
SteppedDown(p, cost) ==
    IF ~FitsFaster(p, cost) THEN [p EXCEPT !.stable = 0]
    ELSE IF p.stable + 1 < SETTLE_FRAMES THEN [p EXCEPT !.stable = @ + 1]
    ELSE [p EXCEPT !.divisor = @ - 1, !.stable = 0]

update_adaptive(p) ==
    LET cost == Cost(p.samples)
        desired == Desired(cost, p.period)
    IN  CASE p.policy # "Adaptive" -> p
          [] p.policy = "Adaptive" /\ desired > p.divisor -> Slowed(p, desired)
          [] p.policy = "Adaptive" /\ desired < p.divisor -> SteppedDown(p, cost)
          [] p.policy = "Adaptive" /\ desired = p.divisor -> [p EXCEPT !.stable = 0]

push(samples, sample) ==
    LET kept == IF Len(samples) < HISTORY_CAPACITY THEN samples ELSE Tail(samples)
    IN  Append(kept, sample)

(* An interval of 0 is a clock anomaly: the sample is discarded. *)
observe(p, interval, cost) ==
    IF ~p.armed THEN [p EXCEPT !.armed = TRUE]
    ELSE IF interval <= 0 THEN p
    ELSE update_adaptive([p EXCEPT !.samples =
                              push(@, [interval |-> interval, work |-> cost])])

missed_deadlines(p) ==
    Cardinality({i \in DOMAIN p.samples :
                    p.samples[i].interval > decision(p) + Eighth(p.period)})

-----------------------------------------------------------------------------
(* The frame loop.                                                         *)

pacing_policy(m) == IF m THEN "Fixed" ELSE "Adaptive"

(* Only a change of more than one percent re-arms. *)
period_changed_materially(current, reported) ==
    Larger(current - reported, reported - current) * 100 > Larger(current, reported)
recheck_pacing(p) ==
    IF period_changed_materially(p.period, display) THEN New(display, pacing_policy(menu))
    ELSE p

(* next_frame is counted from where the frame began, not from where it ended. *)
NextFrameAfter(capture_start, finished, interval) == finished + interval
NextFrame(capture_start, finished, interval) == capture_start + interval

Started(late) == Larger(now, due) + late

(* One attempt; the recheck runs at most once a second: in any attempt, or none. *)
draw(cost, late, presented) ==
    LET finished == Started(late) + cost
        since    == IF presented THEN finished ELSE 0
    IN  /\ work_allowed(lifecycle)
        /\ \E checked \in {pacer, recheck_pacing(pacer)} :
              LET p == set_policy(checked, pacing_policy(menu))
              IN  pacer' = IF presented THEN observe(p, finished, cost) ELSE p
        /\ now' = finished - since
        /\ due' = NextFrame(Started(late), finished, decision(pacer')) - since
        /\ UNCHANGED <<lifecycle, menu, world>>

present == \E cost \in load, late \in Overshoots :
    draw(cost, late, TRUE) /\ UNCHANGED events

Happens == events < MaxEvents /\ events' = events + 1

(* The surface was lost or out of date; the next attempt presents. *)
retry == \E cost \in load, late \in Overshoots :
    now = 0 /\ Happens /\ draw(cost, late, FALSE)

FocusedAgainKept(p, l) == p
FocusedAgain(p, l) == IF l.focused THEN p ELSE reset(p)

(* With a new window a renderer is made, unless there still is one. *)
apply_platform(event) ==
    /\ Happens
    /\ lifecycle' = apply(lifecycle, event)
    /\ CASE event = "WindowCreated" ->
              /\ pacer' \in {reset(pacer), New(display, pacing_policy(menu))}
              /\ due' = now
         [] event = "Resumed" -> pacer' = reset(pacer) /\ due' = now
         [] event = "GainedFocus" ->
              pacer' = FocusedAgain(pacer, lifecycle) /\ UNCHANGED due
         [] OTHER -> UNCHANGED <<pacer, due>>
    /\ UNCHANGED <<menu, world, now>>

(* While no frame may run, time passes; next_frame stays where it was. *)
stopped ==
    /\ ~work_allowed(lifecycle) /\ now < Gap
    /\ now' = now + Gap
    /\ UNCHANGED <<pacer, lifecycle, menu, world, due, events>>

toggle_menu ==
    /\ Happens /\ menu' = ~menu
    /\ UNCHANGED <<pacer, lifecycle, world, now, due>>

(* The player looks elsewhere; the window moves to another display. *)
scene_changes ==
    /\ Happens /\ load' \in Loads \ {load} /\ display' \in Periods
    /\ UNCHANGED <<pacer, lifecycle, menu, now, due>>

Init ==
    /\ display \in Periods /\ load \in Loads
    /\ pacer = New(display, "Fixed")
    /\ lifecycle = InitialLifecycle /\ menu = TRUE
    /\ now = 0 /\ due = 0 /\ events = 0

Next ==
    \/ present \/ retry \/ stopped \/ toggle_menu \/ scene_changes
    \/ \E event \in PlatformEvents : apply_platform(event)

Spec == Init /\ [][Next]_vars /\ WF_vars(present)

-----------------------------------------------------------------------------
Samples == [interval : Nat, work : Nat]
Pacers ==
    [policy : {"Fixed", "Adaptive"}, period : Periods, armed : BOOLEAN,
     samples : Seq(Samples), divisor : 1..MAX_DIVISOR, stable : Nat]

PacerTypeOK ==
    /\ pacer \in Pacers
    /\ lifecycle \in Lifecycles /\ menu \in BOOLEAN
    /\ display \in Periods /\ load \in Loads
    /\ now \in Nat /\ due \in Int /\ events \in 0..MaxEvents

(* The cadence is never faster than the cost of the recorded frames allows *)
(* (Pacer::update_adaptive, "stepping to a slower cadence is immediate"),  *)
(* however stepping down, resets and changes of policy and display mix.    *)
Enough(p) ==
    p.policy = "Adaptive" /\ p.samples # << >>
        => Covers(p.divisor, Cost(p.samples), p.period)
KeptIsEnough == Enough(pacer)

(* No recorded interval contains time the loop stood still: whatever order *)
(* the platform's callbacks come in, one of those that start the loop      *)
(* again resets the pacer (WetlandApp::apply_platform).  An interval is    *)
(* the wait of the slowest cadence, at most one attempt that presented     *)
(* nothing, and the frame itself.                                          *)
Slowest(p) == IF p.policy = "Adaptive" THEN MAX_DIVISOR * p.period ELSE MENU_INTERVAL
Attempted(p, time) ==
    \E cost \in Costs, late \in Overshoots :
        time <= Slowest(p) + late + Larger(Slowest(p), cost)
IsFrame(p, sample) ==
    \E late \in Overshoots : Attempted(p, sample.interval - late - sample.work)
IntervalsAreFrames == \A i \in DOMAIN pacer.samples : IsFrame(pacer, pacer.samples[i])

(* When nothing happens any more the cadence stops changing, at one that   *)
(* covers the load and is not slower than the load with the margin asks    *)
(* for: no oscillation of a load parked at a boundary, no ratchet driven   *)
(* by the loop's own waits (wetland.rs: the pacer is given what the frame  *)
(* cost, never the interval it was paced to).                              *)
Adapting == work_allowed(lifecycle) /\ pacer.policy = "Adaptive" /\ ~menu
Suits ==
    /\ \E c \in load : Covers(pacer.divisor, c, pacer.period)
    /\ \/ pacer.divisor = 1
       \/ \E c \in load : c + Eighth(pacer.period) > (pacer.divisor - 1) * pacer.period
CadenceSettles ==
    /\ <>[](Adapting => Suits)
    /\ <>[][pacer'.divisor = pacer.divisor]_vars

(* With a steady load that some cadence covers, a loop that runs on ends   *)
(* up without missed deadlines: neither samples from before a change nor   *)
(* the wake-ups within the tolerance are counted for ever.                 *)
Steady == \A c \in load : load = {c} /\ c <= Slowest(pacer)
NoMissesInTheEnd ==
    <>[](work_allowed(lifecycle) /\ Steady => missed_deadlines(pacer) = 0)
=============================================================================
