---------------------------- MODULE FrameProofs -----------------------------
(***************************************************************************)
(* What a frame of the applications relies on: the invariants of the pacer *)
(* for every history, percentile, display, load and number of events, and  *)
(* those of the tile stream for every set of plans, meshes, queues and     *)
(* budgets.                                                                *)
(***************************************************************************)
EXTENDS FramePacer, TileStream, FiniteSetTheorems, SequenceTheorems,
        WellFoundedInduction, TLAPS

\* A set of naturals has a least element.
LEMMA Least ==
    ASSUME NEW T, T \subseteq Nat, T # {}
    PROVE  \E x \in T : \A y \in T : x <= y
<1>1. \E R : IsWellFoundedOn(R, Nat) /\ \A x, y \in Nat : <<y, x>> \in R <=> y < x
  <2>1. \A x, y \in Nat : <<y, x>> \in OpToRel(<, Nat) <=> y < x
    BY DEF OpToRel
  <2> QED BY <2>1, NatLessThanWellFounded
<1>2. PICK R : IsWellFoundedOn(R, Nat) /\ \A x, y \in Nat : <<y, x>> \in R <=> y < x
  BY <1>1
<1>3. PICK x \in T : \A y \in T : ~(<<y, x>> \in R)
  BY <1>2, WFMin
<1>4. ASSUME NEW y \in T PROVE x <= y
  <2>1. ~(y < x) BY <1>2, <1>3, Zenon
  <2> QED BY <2>1
<1> QED BY <1>4

-----------------------------------------------------------------------------
(* Lemmas about numbers and the cadences.                                  *)

LEMMA ConstantsAre ==
    /\ HISTORY_CAPACITY \in Nat \ {0} /\ MAX_DIVISOR \in Nat \ {0}
    /\ SETTLE_FRAMES \in Nat \ {0} /\ MENU_INTERVAL \in Nat \ {0}
    /\ Gap \in Nat /\ MaxEvents \in Nat
    /\ \A period \in Periods : period \in Nat \ {0}
    /\ \A cost \in Costs : cost \in Nat
    /\ \A late \in Overshoots : late \in Nat
BY PacingAssumption

LEMMA LargerIs ==
    ASSUME NEW a \in Int, NEW b \in Int
    PROVE  /\ Larger(a, b) \in Int
           /\ a <= Larger(a, b) /\ b <= Larger(a, b)
           /\ Larger(a, b) = a \/ Larger(a, b) = b
BY DEF Larger

LEMMA SlowerCoversMore ==
    ASSUME NEW a \in Nat, NEW b \in Nat, a <= b, NEW period \in Nat
    PROVE  a * period <= b * period /\ a * period \in Nat /\ b * period \in Nat
<1>1. PICK c \in Nat : b = a + c
  <2>1. b - a \in Nat /\ b = a + (b - a) OBVIOUS
  <2> QED BY <2>1
<1>2. b * period = a * period + c * period BY <1>1
<1>3. a * period \in Nat /\ b * period \in Nat /\ c * period \in Nat BY <1>1
<1> QED BY <1>2, <1>3

(* The search of update_adaptive ends at a cadence that covers the cost.   *)
LEMMA DesiredCovers ==
    ASSUME NEW cost \in Nat, NEW period \in Nat
    PROVE  /\ Desired(cost, period) \in 1..MAX_DIVISOR
           /\ Covers(Desired(cost, period), cost, period)
<1> DEFINE T == {d \in 1..MAX_DIVISOR : Covers(d, cost, period)}
<1>1. T \subseteq Nat /\ MAX_DIVISOR \in T BY ConstantsAre DEF Covers
<1>2. T # {} BY <1>1
<1>3. PICK d \in T : \A e \in T : d <= e BY <1>1, <1>2, Least
<1>4. \A e \in 1..d - 1 : ~Covers(e, cost, period)
  <2> SUFFICES ASSUME NEW e \in 1..d - 1, Covers(e, cost, period) PROVE FALSE OBVIOUS
  <2>1. d \in 1..MAX_DIVISOR OBVIOUS
  <2>2. e \in 1..MAX_DIVISOR /\ e < d BY <2>1, ConstantsAre
  <2>3. e \in T BY <2>2
  <2> QED BY <2>2, <2>3, <1>3, <2>1
<1>5. \E x \in 1..MAX_DIVISOR :
        Covers(x, cost, period) /\ \A e \in 1..x - 1 : ~Covers(e, cost, period)
  BY <1>4
<1> QED BY <1>5 DEF Desired

LEMMA CostIsNat ==
    ASSUME NEW samples \in Seq(Samples)
    PROVE  Cost(samples) \in Nat
<1>1. ASSUME NEW i \in DOMAIN samples PROVE samples[i].work \in Nat
  <2>1. samples[i] \in Samples OBVIOUS
  <2> QED BY <2>1 DEF Samples
<1>2. Ranked(work(samples)) \subseteq Nat BY <1>1 DEF Ranked, work
<1> QED BY <1>2 DEF Cost, p95_of

LEMMA PushAdds ==
    ASSUME NEW samples \in Seq(Samples), NEW s \in Samples
    PROVE  /\ push(samples, s) \in Seq(Samples)
           /\ \A i \in DOMAIN push(samples, s) :
                 push(samples, s)[i] = s
                 \/ \E j \in DOMAIN samples : push(samples, s)[i] = samples[j]
<1> DEFINE kept == IF Len(samples) < HISTORY_CAPACITY THEN samples ELSE Tail(samples)
<1>1. /\ kept \in Seq(Samples)
      /\ \A i \in DOMAIN kept : \E j \in DOMAIN samples : kept[i] = samples[j]
  <2>1. CASE Len(samples) < HISTORY_CAPACITY BY <2>1
  <2>2. CASE ~(Len(samples) < HISTORY_CAPACITY)
    <3>1. samples # << >> BY <2>2, ConstantsAre
    <3>2. kept = Tail(samples) BY <2>2
    <3> QED BY <3>1, <3>2
  <2> QED BY <2>1, <2>2
<1>2. push(samples, s) = Append(kept, s) BY DEF push
<1> HIDE DEF kept
<1> QED BY <1>1, <1>2

-----------------------------------------------------------------------------
(* What the operations of the pacer keep.                                  *)

Good(p) == p \in Pacers /\ Enough(p) /\ \A i \in DOMAIN p.samples : IsFrame(p, p.samples[i])

LEMMA NewIsGood ==
    ASSUME NEW period \in Periods, NEW policy \in {"Fixed", "Adaptive"}
    PROVE  /\ Good(New(period, policy)) /\ ~New(period, policy).armed
           /\ New(period, policy).samples = << >>
BY ConstantsAre DEF Good, New, Pacers, Enough

LEMMA DecisionIsBounded ==
    ASSUME NEW p \in Pacers
    PROVE  decision(p) \in Nat /\ Slowest(p) \in Nat /\ decision(p) <= Slowest(p)
<1>1. p.period \in Nat /\ p.divisor \in Nat /\ p.divisor <= MAX_DIVISOR
  BY ConstantsAre DEF Pacers
<1>2. /\ p.divisor * p.period <= MAX_DIVISOR * p.period
      /\ p.divisor * p.period \in Nat /\ MAX_DIVISOR * p.period \in Nat
  BY <1>1, SlowerCoversMore, ConstantsAre
<1> QED BY <1>2, ConstantsAre DEF decision, Slowest

LEMMA AdaptingIsEnough ==
    ASSUME NEW p \in Pacers
    PROVE  /\ update_adaptive(p) \in Pacers
           /\ update_adaptive(p).policy = p.policy
           /\ update_adaptive(p).period = p.period
           /\ update_adaptive(p).armed = p.armed
           /\ update_adaptive(p).samples = p.samples
           /\ Enough(update_adaptive(p))
<1> DEFINE cost == Cost(p.samples)
           desired == Desired(cost, p.period)
           q == update_adaptive(p)
<1>1. cost \in Nat /\ p.period \in Nat /\ p.divisor \in 1..MAX_DIVISOR /\ p.stable \in Nat
  BY CostIsNat, ConstantsAre DEF Pacers
<1>2. desired \in 1..MAX_DIVISOR /\ Covers(desired, cost, p.period)
  BY <1>1, DesiredCovers
<1> HIDE DEF cost, desired, q
<1>3. CASE p.policy # "Adaptive"
  <2>1. q = p BY <1>3 DEF update_adaptive, q
  <2> QED BY <2>1, <1>3 DEF Enough, cost, q
<1>4. CASE p.policy = "Adaptive" /\ desired > p.divisor
  <2>1. q = [p EXCEPT !.divisor = desired, !.stable = 0]
    BY <1>4, <1>1, <1>2 DEF update_adaptive, Slowed, q, cost, desired
  <2>2. /\ q \in Pacers /\ q.policy = p.policy /\ q.period = p.period /\ q.armed = p.armed
        /\ q.samples = p.samples /\ q.divisor = desired
    BY <2>1, <1>2 DEF Pacers
  <2> QED BY <2>2, <1>2 DEF Enough, cost, q
<1>5. CASE p.policy = "Adaptive" /\ desired = p.divisor
  <2>1. q = [p EXCEPT !.stable = 0]
    BY <1>5, <1>1, <1>2 DEF update_adaptive, q, cost, desired
  <2>2. /\ q \in Pacers /\ q.policy = p.policy /\ q.period = p.period /\ q.armed = p.armed
        /\ q.samples = p.samples /\ q.divisor = desired
    BY <2>1, <1>5 DEF Pacers
  <2> QED BY <2>2, <1>2 DEF Enough, cost, q
<1>6. CASE p.policy = "Adaptive" /\ desired < p.divisor
  <2>1. q = SteppedDown(p, cost)
    BY <1>6, <1>1, <1>2 DEF update_adaptive, q, cost, desired
  <2>2. Covers(p.divisor, cost, p.period)
    <3>1. cost <= desired * p.period BY <1>1, <1>2, <1>6 DEF Covers
    <3>2. desired * p.period <= p.divisor * p.period BY <1>1, <1>2, <1>6, SlowerCoversMore
    <3>3. desired * p.period \in Int /\ p.divisor * p.period \in Int BY <1>1, <1>2
    <3> QED BY <3>1, <3>2, <3>3, <1>1 DEF Covers
  <2>3. CASE FitsFaster(p, cost) /\ ~(p.stable + 1 < SETTLE_FRAMES)
    <3>1. q = [p EXCEPT !.divisor = @ - 1, !.stable = 0] BY <2>1, <2>3 DEF SteppedDown
    <3>2. p.divisor - 1 \in 1..MAX_DIVISOR BY <1>1, <1>2, <1>6, ConstantsAre
    <3>3. /\ q \in Pacers /\ q.policy = p.policy /\ q.period = p.period /\ q.armed = p.armed
          /\ q.samples = p.samples /\ q.divisor = p.divisor - 1
      BY <3>1, <3>2 DEF Pacers
    <3>4. Eighth(p.period) \in Nat BY <1>1 DEF Eighth, Larger
    <3>5. (p.divisor - 1) * p.period \in Nat BY <3>2, <1>1
    <3>6. cost <= (p.divisor - 1) * p.period BY <2>3, <3>4, <3>5, <1>1 DEF FitsFaster
    <3> QED BY <3>3, <3>6 DEF Enough, Covers, cost, q
  <2>4. CASE ~FitsFaster(p, cost)
    <3>1. q = [p EXCEPT !.stable = 0] BY <2>1, <2>4 DEF SteppedDown
    <3>2. /\ q \in Pacers /\ q.policy = p.policy /\ q.period = p.period /\ q.armed = p.armed
          /\ q.samples = p.samples /\ q.divisor = p.divisor
      BY <3>1 DEF Pacers
    <3> QED BY <3>2, <2>2 DEF Enough, cost, q
  <2>5. CASE FitsFaster(p, cost) /\ p.stable + 1 < SETTLE_FRAMES
    <3>1. q = [p EXCEPT !.stable = @ + 1] BY <2>1, <2>5 DEF SteppedDown
    <3>2. /\ q \in Pacers /\ q.policy = p.policy /\ q.period = p.period /\ q.armed = p.armed
          /\ q.samples = p.samples /\ q.divisor = p.divisor
      BY <3>1, <1>1 DEF Pacers
    <3> QED BY <3>2, <2>2 DEF Enough, cost, q
  <2> QED BY <2>3, <2>4, <2>5
<1> QED BY <1>1, <1>2, <1>3, <1>4, <1>5, <1>6 DEF q

(* Which intervals are frames depends on the policy and the period only.   *)
LEMMA SameBound ==
    ASSUME NEW p, NEW q, q.policy = p.policy, q.period = p.period, NEW s, IsFrame(p, s)
    PROVE  IsFrame(q, s)
BY DEF IsFrame, Attempted, Slowest

LEMMA ObserveIsGood ==
    ASSUME NEW p, Good(p), NEW interval \in Nat, NEW cost \in Costs,
           p.armed => IsFrame(p, [interval |-> interval, work |-> cost])
    PROVE  LET q == observe(p, interval, cost)
           IN  Good(q) /\ q.policy = p.policy /\ q.period = p.period
<1> DEFINE s == [interval |-> interval, work |-> cost]
           pushed == [p EXCEPT !.samples = push(@, s)]
           q == observe(p, interval, cost)
<1>1. p \in Pacers BY DEF Good
<1>2. CASE ~p.armed
  <2>1. q = [p EXCEPT !.armed = TRUE] BY <1>2 DEF observe
  <2>2. /\ q \in Pacers /\ q.policy = p.policy /\ q.period = p.period
        /\ q.samples = p.samples /\ q.divisor = p.divisor
    BY <2>1, <1>1 DEF Pacers
  <2> QED BY <2>2, SameBound DEF Good, Enough
<1>3. CASE p.armed /\ interval <= 0
  BY <1>3 DEF observe
<1>4. CASE p.armed /\ ~(interval <= 0)
  <2>1. q = update_adaptive(pushed) BY <1>4 DEF observe
  <2>2. s \in Samples BY ConstantsAre DEF Samples
  <2>3. p.samples \in Seq(Samples) BY <1>1 DEF Pacers
  <2>4. /\ pushed \in Pacers /\ pushed.policy = p.policy /\ pushed.period = p.period
        /\ pushed.samples = push(p.samples, s)
    BY <1>1, <2>2, <2>3, PushAdds DEF Pacers
  <2> HIDE DEF pushed, q, s
  <2>5. /\ q \in Pacers /\ q.policy = p.policy /\ q.period = p.period /\ Enough(q)
        /\ q.samples = push(p.samples, s)
    BY <2>1, <2>4, AdaptingIsEnough
  <2>6. ASSUME NEW i \in DOMAIN q.samples PROVE IsFrame(q, q.samples[i])
    <3>1. q.samples[i] = s \/ \E j \in DOMAIN p.samples : q.samples[i] = p.samples[j]
      BY <2>2, <2>3, <2>5, PushAdds
    <3>2. IsFrame(p, q.samples[i]) BY <3>1, <1>4 DEF Good, s
    <3> QED BY <3>2, <2>5, SameBound
  <2> QED BY <2>5, <2>6 DEF Good, q
<1> QED BY <1>2, <1>3, <1>4

-----------------------------------------------------------------------------
(* The inductive invariant: while frames may run, what has passed since    *)
(* the last present is at most one attempt that presented nothing.         *)

Waited ==
    pacer.armed /\ work_allowed(lifecycle) =>
        \/ now = 0 /\ due <= Slowest(pacer)
        \/ now > 0 /\ Attempted(pacer, Larger(now, due))

PacerInv == PacerTypeOK /\ Good(pacer) /\ Waited

(* Whatever the recheck and the menu decide, a pacer that has a reference  *)
(* is the one of the last frame.                                           *)
LEMMA DrawnWith ==
    ASSUME PacerInv, NEW checked \in {pacer, recheck_pacing(pacer)}
    PROVE  LET p == set_policy(checked, pacing_policy(menu))
           IN  Good(p) /\ (p.armed => p = pacer)
<1> DEFINE p == set_policy(checked, pacing_policy(menu))
<1>1. /\ Good(pacer) /\ pacer.period \in Periods /\ display \in Periods
      /\ pacing_policy(menu) \in {"Fixed", "Adaptive"}
  BY DEF PacerInv, PacerTypeOK, Pacers, pacing_policy
<1>2. \/ checked = pacer
      \/ checked = New(display, pacing_policy(menu))
  BY DEF recheck_pacing
<1>3. /\ Good(checked) /\ (checked.armed => checked = pacer)
      /\ checked.period \in Periods
  <2>1. New(display, pacing_policy(menu)).period = display BY DEF New
  <2> QED BY <1>1, <1>2, <2>1, NewIsGood
<1>4. p = checked \/ p = New(checked.period, pacing_policy(menu)) BY DEF set_policy
<1> QED BY <1>1, <1>3, <1>4, NewIsGood

LEMMA DrawKeeps ==
    ASSUME PacerInv, NEW cost \in Costs, NEW late \in Overshoots, NEW presented \in BOOLEAN,
           draw(cost, late, presented), ~presented => now = 0
    PROVE  Good(pacer') /\ now' \in Nat /\ due' \in Int /\ Waited'
<1> DEFINE start == Started(late)
           finished == start + cost
           wait == Larger(now, due)
<1>1. PICK checked \in {pacer, recheck_pacing(pacer)} :
        LET p == set_policy(checked, pacing_policy(menu))
        IN  pacer' = IF presented THEN observe(p, finished, cost) ELSE p
  BY DEF draw
<1> DEFINE p == set_policy(checked, pacing_policy(menu))
<1>2. Good(p) /\ (p.armed => p = pacer) BY DrawnWith
<1>3. /\ cost \in Nat /\ late \in Nat /\ now \in Nat /\ due \in Int
      /\ work_allowed(lifecycle) /\ lifecycle' = lifecycle
  BY ConstantsAre DEF PacerInv, PacerTypeOK, draw
<1>4. /\ wait \in Nat /\ now <= wait /\ due <= wait /\ (wait = now \/ wait = due)
      /\ start = wait + late /\ start \in Nat /\ finished \in Nat
  <2>1. wait \in Int /\ now <= wait /\ due <= wait /\ (wait = now \/ wait = due)
    BY <1>3 DEF Larger
  <2>2. start = wait + late BY DEF Started
  <2> HIDE DEF wait, start
  <2> QED BY <2>1, <2>2, <1>3
<1>5. Slowest(p) \in Nat BY <1>2, DecisionIsBounded DEF Good
<1>6. p.armed => Attempted(p, wait)
  <2> SUFFICES ASSUME p.armed PROVE Attempted(p, wait) OBVIOUS
  <2>1. CASE now = 0 /\ due <= Slowest(pacer)
    <3>1. wait <= Slowest(p) BY <2>1, <1>2, <1>4, <1>5
    <3>2. Larger(Slowest(p), cost) \in Int /\ Slowest(p) <= Larger(Slowest(p), cost)
      BY <1>5, <1>3, LargerIs
    <3>3. wait <= Slowest(p) + late + Larger(Slowest(p), cost)
      BY <3>1, <3>2, <1>3, <1>4, <1>5
    <3> QED BY <3>3 DEF Attempted
  <2> QED BY <2>1, <1>2, <1>3 DEF PacerInv, Waited
<1>7. CASE presented
  <2>1. pacer' = observe(p, finished, cost) BY <1>1, <1>7
  <2>2. p.armed => IsFrame(p, [interval |-> finished, work |-> cost])
    <3> DEFINE s == [interval |-> finished, work |-> cost]
    <3>1. s.interval - late - s.work = wait BY <1>3, <1>4
    <3> QED BY <3>1, <1>6 DEF IsFrame
  <2> HIDE DEF finished, p
  <2>3. Good(pacer') BY <2>1, <2>2, <1>2, <1>4, ObserveIsGood
  <2>4. decision(pacer') \in Nat /\ Slowest(pacer') \in Nat /\ decision(pacer') <= Slowest(pacer')
    BY <2>3, DecisionIsBounded DEF Good
  <2>5. now' = 0 /\ due' = decision(pacer') - cost
    <3>1. now' = finished - finished BY <1>7 DEF draw, finished, start
    <3>2. due' = (start + decision(pacer')) - finished
      BY <1>7 DEF draw, finished, start, NextFrame
    <3> QED BY <3>1, <3>2, <2>4, <1>3, <1>4 DEF finished
  <2>6. due' <= Slowest(pacer') /\ due' \in Int BY <2>4, <2>5, <1>3
  <2> QED BY <2>3, <2>5, <2>6 DEF Waited
<1>8. CASE ~presented
  <2>1. pacer' = p BY <1>1, <1>8
  <2> HIDE DEF finished, p
  <2>2. decision(p) \in Nat /\ decision(p) <= Slowest(p) BY <1>2, DecisionIsBounded DEF Good
  <2>3. now' = finished /\ due' = start + decision(p)
    <3>1. now' = finished - 0 BY <1>8 DEF draw, finished, start
    <3>2. due' = (start + decision(pacer')) - 0 BY <1>8 DEF draw, finished, start, NextFrame
    <3> QED BY <3>1, <3>2, <2>1, <2>2, <1>4
  <2>4. ASSUME p.armed
        PROVE  \/ now' = 0 /\ due' <= Slowest(p)
               \/ now' > 0 /\ Attempted(p, Larger(now', due'))
    <3>1. wait <= Slowest(p)
      <4>1. now = 0 BY <1>8
      <4>2. due <= Slowest(p) BY <4>1, <2>4, <1>2, <1>3 DEF PacerInv, Waited
      <4> QED BY <4>1, <4>2, <1>4, <1>5
    <3>2. CASE finished = 0
      <4>1. start = 0 BY <3>2, <1>3, <1>4 DEF finished
      <4> QED BY <4>1, <3>2, <2>2, <2>3
    <3>3. CASE finished # 0
      <4> DEFINE most == Larger(Slowest(p), cost)
                 next == Larger(finished, start + decision(p))
      <4>1. most \in Int /\ Slowest(p) <= most /\ cost <= most BY <1>3, <1>5, LargerIs
      <4>2. next = finished \/ next = start + decision(p) BY <1>4, <2>2, LargerIs
      <4>3. finished <= start + most /\ start + decision(p) <= start + most
        BY <4>1, <1>3, <1>4, <1>5, <2>2 DEF finished
      <4>4. next <= Slowest(p) + late + most
        <5> HIDE DEF most, next
        <5>1. start <= Slowest(p) + late BY <3>1, <1>3, <1>4, <1>5
        <5>2. finished \in Int /\ start + decision(p) \in Int BY <1>4, <2>2
        <5> QED BY <5>1, <5>2, <4>1, <4>2, <4>3, <1>3, <1>4, <1>5
      <4>5. Attempted(p, next) BY <4>4 DEF Attempted
      <4>6. now' > 0 BY <3>3, <2>3, <1>4
      <4> QED BY <4>5, <4>6, <2>3
    <3> QED BY <3>2, <3>3
  <2> QED BY <2>1, <2>2, <2>3, <2>4, <1>2, <1>4 DEF Waited
<1> QED BY <1>7, <1>8

-----------------------------------------------------------------------------
LEMMA PacerInit == Init => PacerInv
<1> SUFFICES ASSUME Init PROVE PacerInv OBVIOUS
<1>1. Good(pacer) /\ ~pacer.armed BY NewIsGood DEF Init
<1>2. PacerTypeOK
  BY <1>1, ConstantsAre DEF Init, PacerTypeOK, Good, InitialLifecycle, Lifecycles
<1> QED BY <1>1, <1>2 DEF PacerInv, Waited

(* A callback that lets a stopped loop run again resets the pacer.         *)
LEMMA RestartResets ==
    ASSUME PacerInv, NEW event \in PlatformEvents, apply_platform(event)
    PROVE  /\ Good(pacer') /\ due' \in Int
           /\ pacer'.armed => /\ pacer' = pacer /\ due' = due
                              /\ work_allowed(lifecycle') => work_allowed(lifecycle)
<1>1. /\ Good(pacer) /\ pacer.period \in Periods /\ display \in Periods
      /\ pacer.policy \in {"Fixed", "Adaptive"} /\ pacing_policy(menu) \in {"Fixed", "Adaptive"}
      /\ lifecycle \in Lifecycles /\ now \in Nat /\ due \in Int
  BY DEF PacerInv, PacerTypeOK, Pacers, pacing_policy
<1>2. Good(reset(pacer)) /\ ~reset(pacer).armed BY <1>1, NewIsGood DEF reset
<1>3. lifecycle' = apply(lifecycle, event) BY DEF apply_platform
<1>4. CASE event = "WindowCreated"
  <2>1. pacer' \in {reset(pacer), New(display, pacing_policy(menu))} /\ due' = now
    BY <1>4 DEF apply_platform
  <2> QED BY <2>1, <1>1, <1>2, NewIsGood
<1>5. CASE event = "Resumed"
  <2>1. pacer' = reset(pacer) /\ due' = now BY <1>5 DEF apply_platform
  <2> QED BY <2>1, <1>1, <1>2
<1>6. CASE event = "GainedFocus"
  <2>1. pacer' = FocusedAgain(pacer, lifecycle) /\ due' = due BY <1>6 DEF apply_platform
  <2>2. CASE lifecycle.focused
    <3>1. work_allowed(lifecycle') => work_allowed(lifecycle)
      BY <2>2, <1>1, <1>3, <1>6 DEF apply, work_allowed, Lifecycles
    <3> QED BY <2>1, <2>2, <3>1, <1>1 DEF FocusedAgain
  <2>3. CASE ~lifecycle.focused
    BY <2>1, <2>3, <1>1, <1>2 DEF FocusedAgain
  <2> QED BY <2>2, <2>3
<1>7. CASE event \notin {"WindowCreated", "Resumed", "GainedFocus"}
  <2>1. pacer' = pacer /\ due' = due BY <1>7 DEF apply_platform
  <2>2. work_allowed(lifecycle') => work_allowed(lifecycle)
    BY <1>1, <1>3, <1>7 DEF apply, work_allowed, Lifecycles
  <2> QED BY <2>1, <2>2, <1>1
<1> QED BY <1>4, <1>5, <1>6, <1>7

LEMMA LifecycleType ==
    ASSUME NEW l \in Lifecycles, NEW event PROVE apply(l, event) \in Lifecycles
BY DEF Lifecycles, apply

LEMMA PacerNext == PacerInv /\ [Next]_vars => PacerInv'
<1> SUFFICES ASSUME PacerInv, [Next]_vars PROVE PacerInv' OBVIOUS
<1>0. PacerTypeOK /\ Good(pacer) /\ Waited /\ Gap \in Nat /\ MaxEvents \in Nat
  BY ConstantsAre DEF PacerInv
<1>c. \A c \in load : c \in Costs BY <1>0 DEF PacerTypeOK, Costs
<1>1. CASE present
  <2>1. PICK cost \in load, late \in Overshoots : draw(cost, late, TRUE) /\ events' = events
    BY <1>1 DEF present
  <2>2. Good(pacer') /\ now' \in Nat /\ due' \in Int /\ Waited' BY <2>1, <1>c, DrawKeeps
  <2>3. UNCHANGED <<lifecycle, menu, display, load>> BY <2>1 DEF draw, world
  <2> QED BY <2>1, <2>2, <2>3, <1>0 DEF PacerInv, PacerTypeOK, Good
<1>2. CASE retry
  <2>1. PICK cost \in load, late \in Overshoots :
          now = 0 /\ Happens /\ draw(cost, late, FALSE)
    BY <1>2 DEF retry
  <2>2. Good(pacer') /\ now' \in Nat /\ due' \in Int /\ Waited' BY <2>1, <1>c, DrawKeeps
  <2>3. UNCHANGED <<lifecycle, menu, display, load>> BY <2>1 DEF draw, world
  <2>4. events' \in 0..MaxEvents BY <2>1, <1>0 DEF Happens, PacerTypeOK
  <2> QED BY <2>2, <2>3, <2>4, <1>0 DEF PacerInv, PacerTypeOK, Good
<1>3. CASE stopped
  <2>1. /\ ~work_allowed(lifecycle) /\ now' = now + Gap
        /\ UNCHANGED <<pacer, lifecycle, menu, display, load, due, events>>
    BY <1>3 DEF stopped, world
  <2>2. PacerTypeOK' BY <2>1, <1>0 DEF PacerTypeOK
  <2>3. Good(pacer') /\ Waited' BY <2>1, <1>0 DEF Waited
  <2> QED BY <2>2, <2>3 DEF PacerInv
<1>4. CASE toggle_menu
  <2>1. /\ menu' = ~menu /\ Happens
        /\ UNCHANGED <<pacer, lifecycle, display, load, now, due>>
    BY <1>4 DEF toggle_menu, world
  <2>2. PacerTypeOK' BY <2>1, <1>0 DEF PacerTypeOK, Happens
  <2>3. Good(pacer') /\ Waited' BY <2>1, <1>0 DEF Waited
  <2> QED BY <2>2, <2>3 DEF PacerInv
<1>5. CASE scene_changes
  <2>1. /\ load' \in Loads /\ display' \in Periods /\ Happens
        /\ UNCHANGED <<pacer, lifecycle, menu, now, due>>
    BY <1>5 DEF scene_changes
  <2>2. PacerTypeOK' BY <2>1, <1>0 DEF PacerTypeOK, Happens
  <2>3. Good(pacer') /\ Waited' BY <2>1, <1>0 DEF Waited
  <2> QED BY <2>2, <2>3 DEF PacerInv
<1>6. ASSUME NEW event \in PlatformEvents, apply_platform(event) PROVE PacerInv'
  <2>1. /\ Happens /\ lifecycle' = apply(lifecycle, event)
        /\ UNCHANGED <<menu, display, load, now>>
    BY <1>6 DEF apply_platform, world
  <2>2. /\ Good(pacer') /\ due' \in Int
        /\ pacer'.armed => /\ pacer' = pacer /\ due' = due
                           /\ work_allowed(lifecycle') => work_allowed(lifecycle)
    BY <1>6, RestartResets
  <2>3. PacerTypeOK' BY <2>1, <2>2, <1>0, LifecycleType DEF PacerTypeOK, Happens, Good
  <2>4. Waited' BY <2>1, <2>2, <1>0 DEF Waited
  <2> QED BY <2>2, <2>3, <2>4 DEF PacerInv
<1>7. CASE UNCHANGED vars
  BY <1>7, <1>0 DEF vars, world, PacerInv, PacerTypeOK, Waited
<1> QED BY <1>1, <1>2, <1>3, <1>4, <1>5, <1>6, <1>7 DEF Next

LEMMA PacerInvAlways == Spec => []PacerInv
BY PacerInit, PacerNext, PTL DEF Spec

(* Every variable of the pacing loop stays within its type: in particular  *)
(* the cadence between 1 and the slowest, and the clock never runs back.   *)
THEOREM PacerTypeCorrect == Spec => []PacerTypeOK
<1>1. PacerInv => PacerTypeOK BY DEF PacerInv
<1> QED BY <1>1, PacerInvAlways, PTL

(* Whatever loads, displays, callbacks and policies follow on each other,  *)
(* the cadence covers what the recorded frames cost, or is the slowest     *)
(* (Pacer::update_adaptive).                                               *)
THEOREM CadenceCoversCost == Spec => []KeptIsEnough
<1>1. PacerInv => KeptIsEnough BY DEF PacerInv, Good, KeptIsEnough
<1> QED BY <1>1, PacerInvAlways, PTL

(* No order of callbacks records time the loop stood still as a frame      *)
(* (WetlandApp::apply_platform): the lemma on restarts is the reason.      *)
THEOREM NoGapIsRecorded == Spec => []IntervalsAreFrames
<1>1. PacerInv => IntervalsAreFrames BY DEF PacerInv, Good, IntervalsAreFrames
<1> QED BY <1>1, PacerInvAlways, PTL

-----------------------------------------------------------------------------
(* The bytes of a set of meshes.  The sum is a fold, and what it computes  *)
(* for every set is found by looking at a smallest set on which it fails.  *)

\* One of a set, always the same.
One(S) == CHOOSE x \in S : TRUE

\* The sums over the subsets of S, each from one of its elements and the rest.
Sums(f, S) ==
    f = [s \in SUBSET S |-> IF s = {} THEN 0 ELSE Size[One(s)] + f[s \ {One(s)}]]

LEMMA BytesIs ==
    ASSUME NEW S
    PROVE  Bytes(S) = (CHOOSE f : Sums(f, S))[S]
BY DEF Bytes, MapThenSumSet, MapThenFoldSet, Sums, One

\* Of finite sets one is a smallest.
LEMMA Smallest ==
    ASSUME NEW B, B # {}, \A S \in B : IsFiniteSet(S)
    PROVE  \E S \in B : \A T \in B : Cardinality(S) <= Cardinality(T)
<1> DEFINE N == {Cardinality(S) : S \in B}
<1>1. N \subseteq Nat /\ N # {} BY FS_CardinalityType
<1>2. PICK n \in N : \A m \in N : n <= m BY <1>1, Least
<1> QED BY <1>2

LEMMA OneIs == \A S : S # {} => One(S) \in S
BY DEF One

LEMMA FewerRemain ==
    ASSUME NEW S, IsFiniteSet(S), NEW x \in S
    PROVE  /\ IsFiniteSet(S \ {x}) /\ Cardinality(S) \in Nat /\ Cardinality(S \ {x}) \in Nat
           /\ Cardinality(S \ {x}) = Cardinality(S) - 1
BY FS_RemoveElement, FS_CardinalityType

UpTo(S, n) == {s \in SUBSET S : Cardinality(s) <= n}
SumsUpTo(f, S, n) ==
    f = [s \in UpTo(S, n) |-> IF s = {} THEN 0 ELSE Size[One(s)] + f[s \ {One(s)}]]

LEMMA SumsUpToExist ==
    ASSUME NEW S, IsFiniteSet(S), NEW n \in Nat
    PROVE  \E f : SumsUpTo(f, S, n)
<1> DEFINE B == {k \in Nat : ~ \E f : SumsUpTo(f, S, k)}
<1>1. SUFFICES ASSUME B # {} PROVE FALSE OBVIOUS
<1>2. PICK k \in B : \A m \in B : k <= m BY <1>1, Least
<1>3. k \in Nat /\ ~ \E f : SumsUpTo(f, S, k) OBVIOUS
<1>4. \A s \in SUBSET S : IsFiniteSet(s) /\ Cardinality(s) \in Nat
  BY FS_Subset, FS_CardinalityType
<1>5. CASE k = 0
  <2> DEFINE f == [s \in UpTo(S, k) |-> 0]
  <2>1. \A s \in UpTo(S, k) : s = {} BY <1>4, <1>5, FS_EmptySet DEF UpTo
  <2>2. f = [s \in UpTo(S, k) |-> IF s = {} THEN 0 ELSE Size[One(s)] + f[s \ {One(s)}]]
    BY <2>1
  <2> QED BY <1>3, <2>2 DEF SumsUpTo
<1>6. CASE k # 0
  <2>1. k - 1 \in Nat /\ k - 1 \notin B BY <1>2, <1>3, <1>6
  <2>2. PICK g : SumsUpTo(g, S, k - 1) BY <2>1
  <2> DEFINE f == [s \in UpTo(S, k) |-> IF s = {} THEN 0 ELSE Size[One(s)] + g[s \ {One(s)}]]
  <2>3. ASSUME NEW s \in UpTo(S, k), s # {} PROVE f[s \ {One(s)}] = g[s \ {One(s)}]
    <3> DEFINE r == s \ {One(s)}
    <3>1. s \in SUBSET S /\ Cardinality(s) <= k BY DEF UpTo
    <3>2. Cardinality(r) = Cardinality(s) - 1 /\ Cardinality(s) \in Nat
      BY <1>4, <2>3, <3>1, OneIs, FewerRemain
    <3>3. r \in UpTo(S, k - 1) /\ r \in UpTo(S, k) BY <1>3, <3>1, <3>2 DEF UpTo
    <3> HIDE DEF r
    <3>4. g[r] = IF r = {} THEN 0 ELSE Size[One(r)] + g[r \ {One(r)}]
      BY <2>2, <3>3 DEF SumsUpTo
    <3>5. f[r] = IF r = {} THEN 0 ELSE Size[One(r)] + g[r \ {One(r)}] BY <3>3
    <3> QED BY <3>4, <3>5 DEF r
  <2>4. f = [s \in UpTo(S, k) |-> IF s = {} THEN 0 ELSE Size[One(s)] + f[s \ {One(s)}]]
    BY <2>3
  <2> QED BY <1>3, <2>4 DEF SumsUpTo
<1> QED BY <1>5, <1>6

LEMMA SumsExist ==
    ASSUME NEW S, IsFiniteSet(S)
    PROVE  \E f : Sums(f, S)
<1>1. Cardinality(S) \in Nat BY FS_CardinalityType
<1>2. UpTo(S, Cardinality(S)) = SUBSET S
  <2>1. \A s \in SUBSET S : Cardinality(s) <= Cardinality(S) BY FS_Subset
  <2> QED BY <2>1 DEF UpTo
<1>3. PICK f : SumsUpTo(f, S, Cardinality(S)) BY <1>1, SumsUpToExist
<1> QED BY <1>2, <1>3 DEF Sums, SumsUpTo

LEMMA SumsAgree ==
    ASSUME NEW S, IsFiniteSet(S), NEW T, NEW f, NEW g, Sums(f, S), Sums(g, T),
           NEW s \in SUBSET S, s \in SUBSET T
    PROVE  f[s] = g[s]
<1> DEFINE B == {r \in SUBSET S : r \subseteq T /\ f[r] # g[r]}
<1>1. SUFFICES ASSUME B # {} PROVE FALSE BY Zenon
<1>2. \A r \in B : IsFiniteSet(r) BY FS_Subset
<1>3. PICK r \in B : \A q \in B : Cardinality(r) <= Cardinality(q) BY <1>1, <1>2, Smallest
<1>4. f[r] = IF r = {} THEN 0 ELSE Size[One(r)] + f[r \ {One(r)}] BY DEF Sums
<1>5. g[r] = IF r = {} THEN 0 ELSE Size[One(r)] + g[r \ {One(r)}] BY DEF Sums
<1>6. CASE r = {} BY <1>4, <1>5, <1>6
<1>7. CASE r # {}
  <2> DEFINE q == r \ {One(r)}
  <2>1. One(r) \in r BY <1>7, OneIs
  <2>2. Cardinality(q) = Cardinality(r) - 1 /\ Cardinality(r) \in Nat
    BY <1>2, <2>1, FewerRemain
  <2>3. q \in SUBSET S /\ q \subseteq T OBVIOUS
  <2>4. ~(Cardinality(r) <= Cardinality(q)) BY <2>2
  <2>5. f[q] = g[q] BY <1>3, <2>3, <2>4
  <2> QED BY <1>4, <1>5, <1>7, <2>5
<1> QED BY <1>6, <1>7

\* What the sum over a finite set is.
LEMMA BytesEquation ==
    ASSUME NEW S, IsFiniteSet(S)
    PROVE  Bytes(S) = IF S = {} THEN 0 ELSE Size[One(S)] + Bytes(S \ {One(S)})
<1>1. PICK f : Sums(f, S) /\ Bytes(S) = f[S] BY SumsExist, BytesIs
<1>2. f[S] = IF S = {} THEN 0 ELSE Size[One(S)] + f[S \ {One(S)}] BY <1>1 DEF Sums
<1>3. CASE S = {} BY <1>1, <1>2, <1>3
<1>4. CASE S # {}
  <2> DEFINE R == S \ {One(S)}
  <2>1. IsFiniteSet(R) BY <1>4, OneIs, FewerRemain
  <2>2. PICK g : Sums(g, R) /\ Bytes(R) = g[R] BY <2>1, SumsExist, BytesIs
  <2>3. g[R] = f[R] BY <1>1, <2>1, <2>2, SumsAgree
  <2> QED BY <1>1, <1>2, <1>4, <2>2, <2>3
<1> QED BY <1>3, <1>4

LEMMA SizeIs == \A t \in Tiles : Size[t] \in Nat
BY SizesAssumption

LEMMA BytesType ==
    ASSUME NEW S \in SUBSET Tiles, IsFiniteSet(S)
    PROVE  Bytes(S) \in Nat
<1> DEFINE B == {T \in SUBSET S : Bytes(T) \notin Nat}
<1>1. SUFFICES ASSUME B # {} PROVE FALSE OBVIOUS
<1>2. \A T \in B : IsFiniteSet(T) BY FS_Subset
<1>3. PICK T \in B : \A U \in B : Cardinality(T) <= Cardinality(U) BY <1>1, <1>2, Smallest
<1>4. Bytes(T) = IF T = {} THEN 0 ELSE Size[One(T)] + Bytes(T \ {One(T)})
  BY <1>2, BytesEquation
<1>5. T # {} BY <1>4
<1>6. One(T) \in T BY <1>5, OneIs
<1>7. Cardinality(T \ {One(T)}) < Cardinality(T) /\ ~(Cardinality(T) <= Cardinality(T \ {One(T)}))
  BY <1>2, <1>6, FewerRemain
<1>8. Bytes(T \ {One(T)}) \in Nat BY <1>3, <1>7
<1>9. Size[One(T)] \in Nat BY <1>6, SizeIs
<1> QED BY <1>4, <1>5, <1>8, <1>9

LEMMA BytesWithout ==
    ASSUME NEW S \in SUBSET Tiles, IsFiniteSet(S), NEW t \in S
    PROVE  /\ Bytes(S) = Size[t] + Bytes(S \ {t})
           /\ Bytes(S) \in Nat /\ Bytes(S \ {t}) \in Nat /\ Size[t] \in Nat
<1> DEFINE B == {T \in SUBSET S : \E u \in T : Bytes(T) # Size[u] + Bytes(T \ {u})}
<1>0. /\ \A T \in SUBSET S : IsFiniteSet(T) /\ Bytes(T) \in Nat
      /\ \A u \in S : Size[u] \in Nat
  BY FS_Subset, BytesType, SizeIs
<1>1. SUFFICES ASSUME B # {} PROVE FALSE BY <1>0
<1>2. PICK T \in B : \A U \in B : Cardinality(T) <= Cardinality(U) BY <1>0, <1>1, Smallest
<1>3. PICK u \in T : Bytes(T) # Size[u] + Bytes(T \ {u}) OBVIOUS
<1> DEFINE o == One(T)
<1>4. o \in T /\ Bytes(T) = Size[o] + Bytes(T \ {o}) BY <1>0, OneIs, BytesEquation
<1>5. o # u BY <1>3, <1>4
<1>6. ASSUME NEW x \in T PROVE ~(Cardinality(T) <= Cardinality(T \ {x}))
  <2>1. IsFiniteSet(T) BY <1>0
  <2>2. Cardinality(T) \in Nat /\ Cardinality(T \ {x}) = Cardinality(T) - 1
    BY <2>1, FewerRemain
  <2> QED BY <2>2
<1>7. T \ {o} \notin B /\ T \ {u} \notin B BY <1>2, <1>4, <1>6
<1> HIDE DEF o
<1>8. Bytes(T \ {o}) = Size[u] + Bytes((T \ {o}) \ {u}) BY <1>5, <1>7
<1>9. Bytes(T \ {u}) = Size[o] + Bytes((T \ {u}) \ {o}) BY <1>4, <1>5, <1>7
<1>10. (T \ {o}) \ {u} = (T \ {u}) \ {o} OBVIOUS
<1>11. Bytes((T \ {u}) \ {o}) \in Nat /\ Size[u] \in Nat /\ Size[o] \in Nat BY <1>0, <1>4
<1> QED BY <1>3, <1>4, <1>8, <1>9, <1>10, <1>11

LEMMA BytesWith ==
    ASSUME NEW S \in SUBSET Tiles, IsFiniteSet(S), NEW t \in Tiles, t \notin S
    PROVE  Bytes(S \cup {t}) = Bytes(S) + Size[t] /\ Bytes(S) \in Nat
<1>1. S \cup {t} \in SUBSET Tiles /\ IsFiniteSet(S \cup {t}) /\ (S \cup {t}) \ {t} = S
  BY FS_AddElement
<1> QED BY <1>1, BytesWithout

LEMMA BytesGrow ==
    ASSUME NEW T \in SUBSET Tiles, IsFiniteSet(T), NEW S \in SUBSET T
    PROVE  Bytes(S) <= Bytes(T) /\ Bytes(S) \in Nat /\ Bytes(T) \in Nat
<1> DEFINE B == {U \in SUBSET T : S \subseteq U /\ ~(Bytes(S) <= Bytes(U))}
<1>0. \A U \in SUBSET T : IsFiniteSet(U) /\ Bytes(U) \in Nat BY FS_Subset, BytesType
<1>1. SUFFICES ASSUME B # {} PROVE FALSE BY <1>0
<1>2. PICK U \in B : \A V \in B : Cardinality(U) <= Cardinality(V) BY <1>0, <1>1, Smallest
<1>3. U # S BY <1>0
<1>4. PICK u \in U : u \notin S BY <1>3
<1>5. Bytes(U) = Size[u] + Bytes(U \ {u}) /\ Size[u] \in Nat BY <1>0, BytesWithout
<1>6. ~(Cardinality(U) <= Cardinality(U \ {u}))
  <2>1. IsFiniteSet(U) /\ u \in U BY <1>0
  <2>2. Cardinality(U) \in Nat /\ Cardinality(U \ {u}) = Cardinality(U) - 1
    BY <2>1, FewerRemain
  <2> QED BY <2>2
<1>7. U \ {u} \notin B /\ U \ {u} \in SUBSET T /\ S \subseteq U \ {u} BY <1>2, <1>4, <1>6
<1>8. Bytes(S) <= Bytes(U \ {u}) BY <1>7
<1> QED BY <1>0, <1>5, <1>7, <1>8

-----------------------------------------------------------------------------
(* Sequences of tiles.                                                     *)

\* No element is there twice.
IsOnce(s) == \A i, j \in DOMAIN s : s[i] = s[j] => i = j

LEMMA SetOfSequence ==
    ASSUME NEW s \in Seq(Tiles)
    PROVE  /\ Len(s) \in Nat /\ DOMAIN s = 1..Len(s) /\ \A i \in 1..Len(s) : s[i] \in Tiles
           /\ ToSet(s) \subseteq Tiles /\ IsFiniteSet(ToSet(s))
           /\ IsOnce(s) => Cardinality(ToSet(s)) = Len(s)
<1>0. Len(s) \in Nat /\ s \in [1..Len(s) -> Tiles] /\ DOMAIN s = 1..Len(s)
  BY LenProperties, Zenon
<1>1. /\ Len(s) \in Nat /\ s \in [1..Len(s) -> Tiles] /\ DOMAIN s = 1..Len(s)
      /\ \A i \in 1..Len(s) : s[i] \in Tiles
  BY <1>0
<1>2. IsFiniteSet(1..Len(s)) /\ Cardinality(1..Len(s)) = Len(s)
  <2> DEFINE n == Len(s)
  <2>1. n \in Nat BY <1>0
  <2> HIDE DEF n
  <2>2. /\ IsFiniteSet(1..n)
        /\ Cardinality(1..n) = IF 1 > n THEN 0 ELSE n - 1 + 1
    BY <2>1, FS_Interval
  <2>3. Cardinality(1..n) = n BY <2>1, <2>2
  <2> QED BY <2>2, <2>3 DEF n
<1>3. s \in Surjection(1..Len(s), ToSet(s)) BY <1>1 DEF Surjection, ToSet
<1>4. ToSet(s) \subseteq Tiles BY <1>1 DEF ToSet
<1>5. IsOnce(s) => s \in Injection(1..Len(s), ToSet(s))
  BY <1>1 DEF IsOnce, Injection, IsInjective, ToSet
<1> QED BY <1>1, <1>2, <1>3, <1>4, <1>5, FS_Surjection

LEMMA SetOfAppend ==
    ASSUME NEW s \in Seq(Tiles), NEW t \in Tiles
    PROVE  /\ Append(s, t) \in Seq(Tiles) /\ ToSet(Append(s, t)) = ToSet(s) \cup {t}
           /\ t \notin ToSet(s) /\ IsOnce(s) => IsOnce(Append(s, t))
<1>1. /\ Len(s) \in Nat /\ DOMAIN s = 1..Len(s) BY SetOfSequence
<1> DEFINE a == Append(s, t)
<1>2. /\ a \in Seq(Tiles) /\ Len(a) = Len(s) + 1 /\ a[Len(s) + 1] = t
      /\ \A i \in 1..Len(s) : a[i] = s[i]
  BY AppendProperties
<1>3. DOMAIN a = 1..(Len(s) + 1) BY <1>2, SetOfSequence
<1> HIDE DEF a
<1>4. ToSet(a) = ToSet(s) \cup {t} BY <1>1, <1>2, <1>3 DEF ToSet
<1>5. t \notin ToSet(s) /\ IsOnce(s) => IsOnce(a) BY <1>1, <1>2, <1>3 DEF ToSet, IsOnce
<1> QED BY <1>2, <1>4, <1>5 DEF a

LEMMA SetOfTail ==
    ASSUME NEW s \in Seq(Tiles), s # << >>
    PROVE  /\ Tail(s) \in Seq(Tiles) /\ Head(s) \in Tiles /\ Head(s) = s[1]
           /\ ToSet(s) = ToSet(Tail(s)) \cup {Head(s)}
           /\ IsOnce(s) => IsOnce(Tail(s)) /\ Head(s) \notin ToSet(Tail(s))
<1>1. /\ Len(s) \in Nat /\ DOMAIN s = 1..Len(s) BY SetOfSequence
<1>2. Len(s) > 0 BY <1>1, EmptySeq
<1> DEFINE r == Tail(s)
<1>3. /\ r \in Seq(Tiles) /\ Len(r) = Len(s) - 1 /\ \A i \in 1..Len(r) : r[i] = s[i + 1]
      /\ Head(s) \in Tiles
  BY HeadTailProperties
<1>4. DOMAIN r = 1..(Len(s) - 1) BY <1>3, SetOfSequence
<1>5. Head(s) = s[1] BY <1>1, <1>2
<1> HIDE DEF r
<1>6. ToSet(s) = ToSet(r) \cup {s[1]}
  <2>1. \A i \in 1..Len(s) : i # 1 => i - 1 \in 1..(Len(s) - 1) /\ s[i] = r[i - 1]
    BY <1>1, <1>3
  <2>2. \A i \in 1..(Len(s) - 1) : i + 1 \in 1..Len(s) /\ r[i] = s[i + 1] BY <1>1, <1>3
  <2>3. ToSet(s) = {s[i] : i \in 1..Len(s)} BY <1>1 DEF ToSet
  <2>4. ToSet(r) = {r[i] : i \in 1..(Len(s) - 1)} BY <1>4 DEF ToSet
  <2>5. ASSUME NEW i \in 1..Len(s) PROVE s[i] \in ToSet(r) \cup {s[1]} BY <2>1, <2>4
  <2>6. ASSUME NEW i \in 1..(Len(s) - 1) PROVE r[i] \in ToSet(s) BY <2>2, <2>3
  <2>7. s[1] \in ToSet(s) BY <1>1, <1>2, <2>3
  <2> QED BY <2>3, <2>4, <2>5, <2>6, <2>7
<1>7. IsOnce(s) => IsOnce(r)
  <2>1. \A i \in 1..(Len(s) - 1) : i + 1 \in 1..Len(s) /\ r[i] = s[i + 1] BY <1>1, <1>3
  <2> QED BY <1>1, <1>4, <2>1 DEF IsOnce
<1>8. IsOnce(s) => s[1] \notin ToSet(r)
  <2>1. \A i \in 1..(Len(s) - 1) : i + 1 \in 1..Len(s) /\ i + 1 # 1 /\ r[i] = s[i + 1]
    BY <1>1, <1>3
  <2>2. 1 \in 1..Len(s) BY <1>1, <1>2
  <2> QED BY <1>1, <1>4, <2>1, <2>2 DEF IsOnce, ToSet
<1> QED BY <1>3, <1>5, <1>6, <1>7, <1>8 DEF r

\* What Only computes for the beginnings of s of up to m elements.
Kept(f, s, S, m) ==
    f = [n \in 0..m |-> IF n = 0 THEN << >>
                        ELSE IF s[n] \in S THEN Append(f[n - 1], s[n]) ELSE f[n - 1]]

LEMMA OnlyIs ==
    ASSUME NEW s, NEW S
    PROVE  Only(s, S) = (CHOOSE f : Kept(f, s, S, Len(s)))[Len(s)]
BY DEF Only, Kept

LEMMA KeptExists ==
    ASSUME NEW s, NEW S, NEW m \in Nat
    PROVE  \E f : Kept(f, s, S, m)
<1> DEFINE B == {k \in Nat : ~ \E f : Kept(f, s, S, k)}
<1>1. SUFFICES ASSUME B # {} PROVE FALSE OBVIOUS
<1>2. PICK k \in B : \A i \in B : k <= i BY <1>1, Least
<1>3. k \in Nat /\ ~ \E f : Kept(f, s, S, k) OBVIOUS
<1>4. CASE k = 0
  <2> DEFINE f == [n \in 0..0 |-> << >>]
  <2>1. \A n \in 0..0 : n = 0 OBVIOUS
  <2>2. Kept(f, s, S, 0) BY <2>1 DEF Kept
  <2> QED BY <1>3, <1>4, <2>2
<1>5. CASE k # 0
  <2>1. k - 1 \in Nat /\ k - 1 \notin B BY <1>2, <1>3, <1>5
  <2>2. PICK g : Kept(g, s, S, k - 1) BY <2>1
  <2> DEFINE f == [n \in 0..k |-> IF n = 0 THEN << >>
                        ELSE IF s[n] \in S THEN Append(g[n - 1], s[n]) ELSE g[n - 1]]
  <2>3. \A n \in 0..(k - 1) : f[n] = g[n]
    <3>1. \A n \in 0..(k - 1) : n \in 0..k BY <1>3
    <3>2. \A n \in 0..(k - 1) :
             g[n] = IF n = 0 THEN << >>
                    ELSE IF s[n] \in S THEN Append(g[n - 1], s[n]) ELSE g[n - 1]
      BY <2>2 DEF Kept
    <3> QED BY <3>1, <3>2
  <2>4. \A n \in 0..k : n # 0 => f[n - 1] = g[n - 1]
    <3>1. \A n \in 0..k : n # 0 => n - 1 \in 0..(k - 1) BY <1>3
    <3> HIDE DEF f
    <3> QED BY <2>3, <3>1
  <2> HIDE DEF f
  <2>5. \A n \in 0..k : f[n] = IF n = 0 THEN << >>
                        ELSE IF s[n] \in S THEN Append(f[n - 1], s[n]) ELSE f[n - 1]
    BY <2>4 DEF f
  <2>6. f = [n \in 0..k |-> f[n]] BY DEF f
  <2>7. Kept(f, s, S, k) BY <2>5, <2>6 DEF Kept
  <2> QED BY <1>3, <2>7
<1> QED BY <1>4, <1>5

LEMMA OnlyKeeps ==
    ASSUME NEW s \in Seq(Tiles), NEW S
    PROVE  /\ Only(s, S) \in Seq(Tiles) /\ ToSet(Only(s, S)) = ToSet(s) \cap S
           /\ s # << >> /\ s[1] \in S => Only(s, S) # << >> /\ Only(s, S)[1] = s[1]
<1>1. /\ Len(s) \in Nat /\ DOMAIN s = 1..Len(s) /\ \A i \in 1..Len(s) : s[i] \in Tiles
  BY SetOfSequence
<1>2. PICK f : Kept(f, s, S, Len(s)) /\ Only(s, S) = f[Len(s)] BY <1>1, KeptExists, OnlyIs
<1>3. ASSUME NEW n \in 0..Len(s)
      PROVE  f[n] = IF n = 0 THEN << >>
                    ELSE IF s[n] \in S THEN Append(f[n - 1], s[n]) ELSE f[n - 1]
  BY <1>2 DEF Kept
<1> DEFINE RightTo(n) ==
      /\ f[n] \in Seq(Tiles) /\ ToSet(f[n]) = {s[i] : i \in 1..n} \cap S
      /\ n > 0 /\ s[1] \in S => f[n] # << >> /\ f[n][1] = s[1]
<1> DEFINE B == {n \in 0..Len(s) : ~RightTo(n)}
<1>4. ASSUME B # {} PROVE FALSE
  <2>1. B \subseteq Nat BY <1>1
  <2>2. PICK n \in B : \A i \in B : n <= i BY <1>4, <2>1, Least
  <2>3. n \in 0..Len(s) /\ ~RightTo(n) OBVIOUS
  <2>4. n # 0
    <3>1. f[0] = << >> BY <1>1, <1>3
    <3>2. << >> \in Seq(Tiles) /\ ToSet(<< >>) = {} BY DEF ToSet
    <3>3. {s[i] : i \in 1..0} = {} OBVIOUS
    <3>4. RightTo(0) BY <3>1, <3>2, <3>3
    <3> HIDE DEF RightTo
    <3> QED BY <2>3, <3>4
  <2>5. n - 1 \in 0..Len(s) /\ n - 1 \notin B /\ n \in 1..Len(s)
    <3>1. n - 1 \in 0..Len(s) /\ n \in 1..Len(s) /\ ~(n <= n - 1) BY <1>1, <2>3, <2>4
    <3> HIDE DEF B
    <3> QED BY <2>2, <3>1
  <2>6. RightTo(n - 1) BY <2>5
  <2> DEFINE g == f[n - 1]
  <2>7. {s[i] : i \in 1..n} = {s[i] : i \in 1..(n - 1)} \cup {s[n]}
    <3>1. 1..n = (1..(n - 1)) \cup {n} BY <2>5
    <3> QED BY <3>1
  <2>8. g \in Seq(Tiles) /\ ToSet(g) = {s[i] : i \in 1..(n - 1)} \cap S
        /\ (n - 1 > 0 /\ s[1] \in S => g # << >> /\ g[1] = s[1])
    BY <2>6
  <2>9. s[n] \in Tiles BY <1>1, <2>5
  <2> HIDE DEF g
  <2>10. CASE s[n] \in S
    <3>1. f[n] = Append(g, s[n]) BY <1>3, <2>3, <2>4, <2>10 DEF g
    <3>2. f[n] \in Seq(Tiles) /\ ToSet(f[n]) = ToSet(g) \cup {s[n]}
      BY <2>8, <2>9, <3>1, SetOfAppend
    <3>3. f[n] # << >> /\ (g # << >> => f[n][1] = g[1]) /\ (g = << >> => f[n][1] = s[n])
      <4>1. /\ f[n] # << >> /\ f[n][Len(g) + 1] = s[n] /\ \A i \in 1..Len(g) : f[n][i] = g[i]
        BY <2>8, <2>9, <3>1, AppendProperties
      <4>2. Len(g) \in Nat /\ (g # << >> => Len(g) > 0) /\ (g = << >> => Len(g) = 0)
        BY <2>8, SetOfSequence, EmptySeq
      <4> QED BY <4>1, <4>2
    <3>4. n > 0 /\ s[1] \in S => f[n][1] = s[1]
      <4>1. CASE n = 1
        <5>1. {s[i] : i \in 1..(n - 1)} = {} BY <4>1
        <5>2. g = << >>
          <6>1. ToSet(g) = {} BY <2>8, <5>1
          <6>2. DOMAIN g = {} BY <6>1 DEF ToSet
          <6> QED BY <2>8, <6>2, SetOfSequence, EmptySeq
        <5> QED BY <3>3, <4>1, <5>2
      <4>2. CASE n # 1 BY <2>5, <2>8, <3>3, <4>2
      <4> QED BY <4>1, <4>2
    <3>5. {s[i] : i \in 1..n} \cap S = ToSet(f[n]) BY <2>7, <2>8, <2>10, <3>2
    <3> QED BY <2>3, <3>2, <3>3, <3>4, <3>5
  <2>11. CASE s[n] \notin S
    <3>1. f[n] = g BY <1>3, <2>3, <2>4, <2>11 DEF g
    <3>2. {s[i] : i \in 1..n} \cap S = ToSet(f[n]) BY <2>7, <2>8, <2>11, <3>1
    <3>3. n = 1 => s[1] \notin S BY <2>11
    <3>4. n > 0 /\ s[1] \in S => f[n] # << >> /\ f[n][1] = s[1] BY <2>5, <2>8, <3>1, <3>3
    <3> QED BY <2>3, <2>8, <3>1, <3>2, <3>4
  <2> QED BY <2>10, <2>11
<1>5. RightTo(Len(s)) BY <1>1, <1>4
<1>6. ToSet(s) = {s[i] : i \in 1..Len(s)} BY <1>1 DEF ToSet
<1>7. s # << >> => Len(s) > 0 BY <1>1, EmptySeq
<1> QED BY <1>2, <1>5, <1>6, <1>7

-----------------------------------------------------------------------------
(* The channels and what is asked for.                                     *)

ChannelsOK ==
    /\ jobs \in Seq(Tiles) /\ results \in Seq(Tiles)
    /\ job \in Option(Tiles) /\ polled \in Option(Tiles)
    /\ at \in {"gate", "waiting", "receiving", "gate2", "waiting2", "generating", "exited"}
    /\ job # {} => at \in {"gate2", "waiting2", "generating"}
AskedOnce ==
    /\ IsOnce(jobs) /\ IsOnce(results)
    /\ ToSet(jobs) \cap (job \cup Finished) = {}
    /\ job \cap Finished = {} /\ ToSet(results) \cap polled = {}
    /\ Held \subseteq active /\ (at # "exited" => active = Held)
BytesKnown == result_bytes = Bytes(Finished) /\ result_bytes <= MAX_TILE_RESULT_BYTES
HeldInv == ChannelsOK /\ AskedOnce /\ BytesKnown

LEMMA OneOf ==
    ASSUME NEW S, NEW s \in Option(S)
    PROVE  s \subseteq S /\ IsFiniteSet(s) /\ \A x \in s : s = {x}
<1>1. s \subseteq S /\ \A x, y \in s : x = y BY DEF Option
<1>2. \A x \in s : s = {x} BY <1>1
<1>3. IsFiniteSet(s)
  <2>1. CASE s = {} BY <2>1, FS_EmptySet
  <2>2. CASE s # {}
    <3>1. PICK x \in s : s = {x} BY <1>2, <2>2
    <3>2. IsFiniteSet({x}) BY FS_Singleton
    <3> QED BY <3>1, <3>2
  <2> QED BY <2>1, <2>2
<1> QED BY <1>1, <1>2, <1>3

LEMMA OptionIs ==
    ASSUME NEW S
    PROVE  {} \in Option(S) /\ \A x \in S : {x} \in Option(S)
BY DEF Option

LEMMA NothingIn == << >> \in Seq(Tiles) /\ ToSet(<< >>) = {} /\ IsOnce(<< >>)
BY DEF ToSet, IsOnce

LEMMA FinishedIs ==
    ASSUME ChannelsOK
    PROVE  Finished \in SUBSET Tiles /\ IsFiniteSet(Finished)
<1>1. ToSet(results) \subseteq Tiles /\ IsFiniteSet(ToSet(results))
  BY SetOfSequence DEF ChannelsOK
<1>2. polled \subseteq Tiles /\ (polled = {} \/ \E x \in polled : polled = {x})
  BY OneOf DEF ChannelsOK
<1>3. CASE polled = {} BY <1>1, <1>3 DEF Finished
<1>4. CASE polled # {}
  <2>1. PICK x \in polled : polled = {x} BY <1>2, <1>4
  <2>2. IsFiniteSet(ToSet(results) \cup {x}) BY <1>1, FS_AddElement
  <2> QED BY <1>1, <1>2, <2>1, <2>2 DEF Finished
<1> QED BY <1>3, <1>4

LEMMA HeldInit == TileInit => HeldInv
<1>1. SUFFICES ASSUME TileInit PROVE HeldInv OBVIOUS
<1>2. ChannelsOK BY <1>1, NothingIn, OptionIs DEF TileInit, ChannelsOK
<1>3. Finished = {} /\ Held = {} BY <1>1, NothingIn DEF TileInit, Finished, Held
<1>4. AskedOnce BY <1>1, <1>3, NothingIn DEF TileInit, AskedOnce, Finished
<1>5. Bytes({}) = 0 BY FS_EmptySet, BytesEquation
<1>6. MAX_TILE_RESULT_BYTES \in Nat BY SizesAssumption
<1>7. BytesKnown BY <1>1, <1>3, <1>5, <1>6 DEF TileInit, BytesKnown
<1> QED BY <1>2, <1>4, <1>7 DEF HeldInv

\* The platform wakes the worker and takes nothing from it.
LEMMA HeldKept ==
    ASSUME HeldInv, UNCHANGED <<jobs, results, active, result_bytes, job, polled>>,
           at' = at \/ at' = Woken
    PROVE  HeldInv'
<1>1. /\ (at' = "exited") <=> (at = "exited")
      /\ at' \in {"gate", "waiting", "receiving", "gate2", "waiting2", "generating", "exited"}
      /\ at \in {"gate2", "waiting2", "generating"}
            => at' \in {"gate2", "waiting2", "generating"}
  <2>1. at \in {"gate", "waiting", "receiving", "gate2", "waiting2", "generating", "exited"}
    BY DEF HeldInv, ChannelsOK
  <2> QED BY <2>1 DEF Woken
<1>2. Finished' = Finished /\ Held' = Held BY DEF Finished, Held
<1>3. ChannelsOK' BY <1>1 DEF HeldInv, ChannelsOK
<1>4. AskedOnce' BY <1>1, <1>2 DEF HeldInv, AskedOnce
<1>5. BytesKnown' BY <1>2 DEF HeldInv, BytesKnown
<1> QED BY <1>3, <1>4, <1>5 DEF HeldInv

LEMMA GateHolds ==
    ASSUME HeldInv, worker_gate
    PROVE  HeldInv'
<1>1. Finished' = Finished BY DEF worker_gate, Finished
<1>2. UNCHANGED <<jobs, results, result_bytes, polled>> BY DEF worker_gate
<1>3. CASE UNCHANGED <<active, job>> /\ at' \in {"waiting", "exited", "receiving"} /\ at = "gate"
  <2>1. ChannelsOK' BY <1>2, <1>3 DEF HeldInv, ChannelsOK
  <2>2. AskedOnce' BY <1>1, <1>2, <1>3 DEF HeldInv, AskedOnce, Held
  <2> QED BY <1>1, <1>2, <2>1, <2>2 DEF HeldInv, BytesKnown
<1>4. CASE UNCHANGED <<active, job>> /\ at' \in {"waiting2", "generating"} /\ at = "gate2"
  <2>1. ChannelsOK' BY <1>2, <1>4 DEF HeldInv, ChannelsOK
  <2>2. AskedOnce' BY <1>1, <1>2, <1>4 DEF HeldInv, AskedOnce, Held
  <2> QED BY <1>1, <1>2, <2>1, <2>2 DEF HeldInv, BytesKnown
<1>5. CASE at' = "exited" /\ active' = active \ job /\ job' = {}
  <2>1. ChannelsOK' BY <1>2, <1>5, OptionIs DEF HeldInv, ChannelsOK
  <2>2. AskedOnce' BY <1>1, <1>2, <1>5 DEF HeldInv, AskedOnce, Held
  <2> QED BY <1>1, <1>2, <2>1, <2>2 DEF HeldInv, BytesKnown
<1> QED BY <1>3, <1>4, <1>5 DEF worker_gate, gate

LEMMA ReceiveHolds ==
    ASSUME HeldInv, worker_receive
    PROVE  HeldInv'
<1>1. Finished' = Finished /\ UNCHANGED <<results, active, result_bytes, polled>>
  BY DEF worker_receive, Finished, shared
<1>2. at = "receiving" /\ job = {} BY DEF worker_receive, HeldInv, ChannelsOK
<1>3. CASE jobs # << >> /\ job' = {Head(jobs)} /\ jobs' = Tail(jobs) /\ at' = "gate2"
  <2>1. jobs \in Seq(Tiles) /\ IsOnce(jobs) BY DEF HeldInv, ChannelsOK, AskedOnce
  <2>2. /\ Tail(jobs) \in Seq(Tiles) /\ Head(jobs) \in Tiles
        /\ ToSet(jobs) = ToSet(Tail(jobs)) \cup {Head(jobs)}
        /\ IsOnce(Tail(jobs)) /\ Head(jobs) \notin ToSet(Tail(jobs))
    BY <1>3, <2>1, SetOfTail
  <2>3. ChannelsOK' BY <1>1, <1>3, <2>2, OptionIs DEF HeldInv, ChannelsOK
  <2>4. AskedOnce' BY <1>1, <1>2, <1>3, <2>2 DEF HeldInv, AskedOnce, Held
  <2> QED BY <1>1, <2>3, <2>4 DEF HeldInv, BytesKnown
<1>4. CASE at' = "exited" /\ UNCHANGED <<job, jobs>>
  <2>1. ChannelsOK' BY <1>1, <1>2, <1>4 DEF HeldInv, ChannelsOK
  <2>2. AskedOnce' BY <1>1, <1>4 DEF HeldInv, AskedOnce, Held
  <2> QED BY <1>1, <2>1, <2>2 DEF HeldInv, BytesKnown
<1> QED BY <1>3, <1>4 DEF worker_receive

LEMMA FinishHolds ==
    ASSUME HeldInv, worker_finish
    PROVE  HeldInv'
<1>1. PICK t \in job :
          IF Delivered(t)
            THEN /\ results' = Append(results, t)
                 /\ result_bytes' = result_bytes + Size[t]
                 /\ UNCHANGED active
            ELSE active' = Dropped(t) /\ UNCHANGED <<results, result_bytes>>
  BY DEF worker_finish
<1>2. job' = {} /\ UNCHANGED <<jobs, polled>> /\ at' \in {"exited", "gate"}
      /\ at = "generating"
  BY DEF worker_finish
<1>3. job = {t} /\ t \in Tiles BY OneOf DEF HeldInv, ChannelsOK
<1>4. t \notin ToSet(jobs) /\ t \notin Finished /\ results \in Seq(Tiles) /\ IsOnce(results)
  BY <1>3 DEF HeldInv, AskedOnce, ChannelsOK
<1>5. CASE Delivered(t)
  <2>1. /\ results' = Append(results, t) /\ result_bytes' = result_bytes + Size[t]
        /\ UNCHANGED active /\ result_bytes' <= MAX_TILE_RESULT_BYTES
    BY <1>1, <1>5 DEF Delivered
  <2>2. /\ results' \in Seq(Tiles) /\ ToSet(results') = ToSet(results) \cup {t}
        /\ IsOnce(results')
    BY <1>3, <1>4, <2>1, SetOfAppend DEF Finished
  <2>3. ChannelsOK' BY <1>2, <2>2, OptionIs DEF HeldInv, ChannelsOK
  <2>4. Finished' = Finished \cup {t} BY <1>2, <2>2 DEF Finished
  <2>5. ToSet(results') \cap polled = {}
    BY <1>4, <2>2 DEF HeldInv, AskedOnce, Finished
  <2>6. AskedOnce'
    BY <1>2, <1>3, <1>4, <2>1, <2>2, <2>4, <2>5 DEF HeldInv, AskedOnce, Held
  <2>7. Finished \in SUBSET Tiles /\ IsFiniteSet(Finished) BY FinishedIs DEF HeldInv
  <2>8. Bytes(Finished') = Bytes(Finished) + Size[t] BY <1>3, <1>4, <2>4, <2>7, BytesWith
  <2>9. BytesKnown' BY <2>1, <2>8 DEF HeldInv, BytesKnown
  <2> QED BY <2>3, <2>6, <2>9 DEF HeldInv
<1>6. CASE ~Delivered(t)
  <2>1. active' = active \ {t} /\ UNCHANGED <<results, result_bytes>>
    BY <1>1, <1>6 DEF Dropped
  <2>2. ChannelsOK' BY <1>2, <2>1, OptionIs DEF HeldInv, ChannelsOK
  <2>3. Finished' = Finished BY <1>2, <2>1 DEF Finished
  <2>4. AskedOnce' BY <1>2, <1>3, <1>4, <2>1, <2>3 DEF HeldInv, AskedOnce, Held
  <2> QED BY <2>1, <2>2, <2>3, <2>4 DEF HeldInv, BytesKnown
<1> QED BY <1>5, <1>6

LEMMA PanicHolds ==
    ASSUME HeldInv, worker_panic
    PROVE  HeldInv'
<1>1. /\ at' = "exited" /\ job' = {} /\ Finished' = Finished
      /\ UNCHANGED <<jobs, results, active, result_bytes, polled>>
  BY DEF worker_panic, shared, Finished
<1>2. ChannelsOK' BY <1>1, OptionIs DEF HeldInv, ChannelsOK
<1>3. AskedOnce' BY <1>1 DEF HeldInv, AskedOnce, Held
<1> QED BY <1>1, <1>2, <1>3 DEF HeldInv, BytesKnown

LEMMA TakeHolds ==
    ASSUME HeldInv, poll_take
    PROVE  HeldInv'
<1>1. /\ polled = {} /\ results # << >> /\ polled' = {Head(results)}
      /\ results' = Tail(results) /\ UNCHANGED <<jobs, active, result_bytes, at, job>>
  BY DEF poll_take, shared, worker
<1>2. results \in Seq(Tiles) /\ IsOnce(results) BY DEF HeldInv, ChannelsOK, AskedOnce
<1>3. /\ Tail(results) \in Seq(Tiles) /\ Head(results) \in Tiles
      /\ ToSet(results) = ToSet(Tail(results)) \cup {Head(results)}
      /\ IsOnce(Tail(results)) /\ Head(results) \notin ToSet(Tail(results))
  BY <1>1, <1>2, SetOfTail
<1>4. Finished' = Finished BY <1>1, <1>3 DEF Finished
<1>5. ChannelsOK' BY <1>1, <1>3, OptionIs DEF HeldInv, ChannelsOK
<1>6. AskedOnce' BY <1>1, <1>3, <1>4 DEF HeldInv, AskedOnce, Held
<1> QED BY <1>1, <1>4, <1>5, <1>6 DEF HeldInv, BytesKnown

LEMMA AccountHolds ==
    ASSUME HeldInv, poll_account
    PROVE  HeldInv'
<1>1. PICK t \in polled : active' = active \ {t} /\ result_bytes' = result_bytes - Size[t]
  BY DEF poll_account
<1>2. polled' = {} /\ UNCHANGED <<jobs, results, at, job>> BY DEF poll_account, worker
<1>3. polled = {t} /\ t \in Tiles BY OneOf DEF HeldInv, ChannelsOK
<1>4. t \notin ToSet(jobs) /\ t \notin job /\ t \notin ToSet(results) /\ t \in Finished
  BY <1>3 DEF HeldInv, AskedOnce, Finished
<1>5. Finished' = Finished \ {t} BY <1>2, <1>3, <1>4 DEF Finished
<1>6. ChannelsOK' BY <1>2, OptionIs DEF HeldInv, ChannelsOK
<1>7. AskedOnce' BY <1>1, <1>2, <1>3, <1>4, <1>5 DEF HeldInv, AskedOnce, Held
<1>8. Finished \in SUBSET Tiles /\ IsFiniteSet(Finished) BY FinishedIs DEF HeldInv
<1>9. /\ Bytes(Finished) = Size[t] + Bytes(Finished')
      /\ Bytes(Finished) \in Nat /\ Bytes(Finished') \in Nat /\ Size[t] \in Nat
  BY <1>4, <1>5, <1>8, BytesWithout
<1>10. MAX_TILE_RESULT_BYTES \in Nat BY SizesAssumption
<1>11. result_bytes = Bytes(Finished) /\ result_bytes <= MAX_TILE_RESULT_BYTES
  BY DEF HeldInv, BytesKnown
<1>12. BytesKnown' BY <1>1, <1>9, <1>10, <1>11 DEF BytesKnown
<1> QED BY <1>6, <1>7, <1>12 DEF HeldInv

LEMMA RequestHolds ==
    ASSUME HeldInv, todo \in Seq(Tiles), request
    PROVE  HeldInv'
<1>1. UNCHANGED <<results, result_bytes, at, job, polled>> /\ todo # << >>
  BY DEF request, worker
<1>2. Finished' = Finished BY <1>1 DEF Finished
<1>3. CASE UNCHANGED <<jobs, active>> BY <1>1, <1>3, HeldKept
<1>4. CASE ~ UNCHANGED <<jobs, active>>
  <2> DEFINE t == Head(todo)
  <2>1. /\ jobs' = Append(jobs, t) /\ active' = active \cup {t}
        /\ t \notin active /\ at # "exited"
    BY <1>4 DEF request, Accepted
  <2>2. t \in Tiles BY <1>1, SetOfTail
  <2> HIDE DEF t
  <2>3. active = Held /\ t \notin Held BY <2>1 DEF HeldInv, AskedOnce
  <2>4. t \notin ToSet(jobs) /\ t \notin job /\ t \notin Finished BY <2>3 DEF Held
  <2>5. jobs \in Seq(Tiles) /\ IsOnce(jobs) BY DEF HeldInv, ChannelsOK, AskedOnce
  <2>6. /\ jobs' \in Seq(Tiles) /\ ToSet(jobs') = ToSet(jobs) \cup {t} /\ IsOnce(jobs')
    BY <2>1, <2>2, <2>4, <2>5, SetOfAppend
  <2>7. ChannelsOK' BY <1>1, <2>6 DEF HeldInv, ChannelsOK
  <2>8. AskedOnce' BY <1>1, <1>2, <2>1, <2>4, <2>6 DEF HeldInv, AskedOnce, Held
  <2> QED BY <1>1, <1>2, <2>7, <2>8 DEF HeldInv, BytesKnown
<1> QED BY <1>3, <1>4

-----------------------------------------------------------------------------
(* The cache.                                                              *)

CacheTyped == cache \in Seq(Tiles) /\ pins \in [Tiles -> Nat]
CacheWithinBudget == Bytes(ToSet(cache)) <= TILE_CACHE_BYTES
CacheInv == CacheTyped /\ CacheWithinBudget

LEMMA NoneFollows ==
    ASSUME CacheTyped, NEW c \in Seq(Tiles),
           NEW i \in 1..Len(c), NEW j \in 1..Len(c), NEW k \in 1..Len(c)
    PROVE  /\ ~Sooner(c, i, i)
           /\ Sooner(c, i, j) /\ Sooner(c, j, k) => Sooner(c, i, k)
<1>1. c[i] \in Tiles /\ c[j] \in Tiles /\ c[k] \in Tiles /\ i \in Nat /\ j \in Nat /\ k \in Nat
  BY SetOfSequence
<1>2. \A t \in Tiles : t.key \in Nat /\ t.filter \in Nat /\ pins[t] \in Nat
  BY PlansAssumption DEF CacheTyped
<1> DEFINE t == c[i]
           u == c[j]
           v == c[k]
<1>3. /\ t.key \in Nat /\ t.filter \in Nat /\ pins[t] \in Nat
      /\ u.key \in Nat /\ u.filter \in Nat /\ pins[u] \in Nat
      /\ v.key \in Nat /\ v.filter \in Nat /\ pins[v] \in Nat
  BY <1>1, <1>2
<1>4. ~Sooner(c, i, i) BY <1>1, <1>3 DEF Sooner
<1>5. Sooner(c, i, j) /\ Sooner(c, j, k) => Sooner(c, i, k)
  <2>1. Sooner(c, i, j) <=> \/ pins[t] < pins[u]
                            \/ pins[t] = pins[u] /\ pins[t] = 0 /\ i < j
                            \/ /\ pins[t] = pins[u] /\ pins[t] # 0
                               /\ t.key < u.key \/ (t.key = u.key /\ t.filter < u.filter)
    BY DEF Sooner
  <2>2. Sooner(c, j, k) <=> \/ pins[u] < pins[v]
                            \/ pins[u] = pins[v] /\ pins[u] = 0 /\ j < k
                            \/ /\ pins[u] = pins[v] /\ pins[u] # 0
                               /\ u.key < v.key \/ (u.key = v.key /\ u.filter < v.filter)
    BY DEF Sooner
  <2>3. Sooner(c, i, k) <=> \/ pins[t] < pins[v]
                            \/ pins[t] = pins[v] /\ pins[t] = 0 /\ i < k
                            \/ /\ pins[t] = pins[v] /\ pins[t] # 0
                               /\ t.key < v.key \/ (t.key = v.key /\ t.filter < v.filter)
    BY DEF Sooner
  <2> HIDE DEF t, u, v
  <2>4. CASE pins[t] < pins[u] \/ pins[u] < pins[v] BY <1>3, <2>1, <2>2, <2>3, <2>4
  <2>5. CASE pins[t] = pins[u] /\ pins[u] = pins[v] /\ pins[t] = 0
    BY <1>1, <1>3, <2>1, <2>2, <2>3, <2>5
  <2>6. CASE pins[t] = pins[u] /\ pins[u] = pins[v] /\ pins[t] # 0
    BY <1>3, <2>1, <2>2, <2>3, <2>6
  <2> QED BY <2>1, <2>2, <2>4, <2>5, <2>6
<1> QED BY <1>4, <1>5

\* Of indices of a sequence one has none of the others sooner than it.
LEMMA OneIsFirst ==
    ASSUME CacheTyped, NEW c \in Seq(Tiles), NEW J \in SUBSET (1..Len(c)), J # {}
    PROVE  \E i \in J : \A j \in J : ~Sooner(c, j, i)
<1> DEFINE Before(i) == {j \in J : Sooner(c, j, i)}
           B == {Before(i) : i \in J}
<1>1. IsFiniteSet(J)
  <2>1. IsFiniteSet(1..Len(c)) BY SetOfSequence, FS_Interval
  <2> QED BY <2>1, FS_Subset
<1>2. \A i \in J : IsFiniteSet(Before(i)) BY <1>1, FS_Subset
<1>3. B # {} /\ \A S \in B : IsFiniteSet(S) BY <1>2
<1>4. PICK i \in J : \A k \in J : Cardinality(Before(i)) <= Cardinality(Before(k))
  <2> HIDE DEF Before
  <2>1. \E S \in B : \A T \in B : Cardinality(S) <= Cardinality(T) BY <1>3, Smallest
  <2> QED BY <2>1
<1>5. ASSUME NEW j \in J, Sooner(c, j, i) PROVE FALSE
  <2>1. j \in Before(i) BY <1>5
  <2>2. j \notin Before(j) BY NoneFollows
  <2>3. Before(j) \subseteq Before(i)
    <3>1. ASSUME NEW k \in J, Sooner(c, k, j) PROVE Sooner(c, k, i)
      BY <1>5, <3>1, NoneFollows
    <3> QED BY <3>1
  <2>4. Before(j) # Before(i) BY <2>1, <2>2
  <2> HIDE DEF Before
  <2>5. /\ Cardinality(Before(j)) <= Cardinality(Before(i))
        /\ Cardinality(Before(i)) # Cardinality(Before(j))
        /\ Cardinality(Before(j)) \in Nat /\ Cardinality(Before(i)) \in Nat
    BY <1>2, <2>3, <2>4, FS_Subset, FS_CardinalityType
  <2>6. Cardinality(Before(i)) <= Cardinality(Before(j)) BY <1>4
  <2> QED BY <2>5, <2>6
<1> QED BY <1>5

(* What trim leaves is within the budget (mesh_cache.rs:102-128).          *)
LEMMA TrimLeavesBudget ==
    ASSUME CacheTyped, NEW c \in Seq(Tiles)
    PROVE  Bytes(ToSet(c) \cap (Tiles \ trim(c))) <= TILE_CACHE_BYTES
<1> DEFINE K == ToSet(c) \cap (Tiles \ trim(c))
           J == {i \in 1..Len(c) : c[i] \notin trim(c)}
<1>1. /\ DOMAIN c = 1..Len(c) /\ ToSet(c) \in SUBSET Tiles /\ IsFiniteSet(ToSet(c))
  BY SetOfSequence
<1>2. TILE_CACHE_BYTES \in Nat BY SizesAssumption
<1>3. \A t \in K : \E i \in J : t = c[i] BY <1>1 DEF ToSet
<1>4. CASE J = {}
  <2>1. K = {} BY <1>3, <1>4
  <2>2. Bytes({}) = 0 BY FS_EmptySet, BytesEquation
  <2> QED BY <1>2, <2>1, <2>2
<1>5. CASE J # {}
  <2>1. PICK i \in J : \A j \in J : ~Sooner(c, j, i)
    <3>1. J \in SUBSET (1..Len(c)) OBVIOUS
    <3> HIDE DEF J
    <3> QED BY <1>5, <3>1, OneIsFirst
  <2>2. Later(c, i) \in SUBSET ToSet(c) BY DEF Later, ToSet
  <2>3. K \subseteq Later(c, i) BY <1>1, <1>3, <2>1 DEF Later
  <2>4. ~(Bytes(Later(c, i)) > TILE_CACHE_BYTES) BY <1>1 DEF trim
  <2>5. Later(c, i) \in SUBSET Tiles /\ IsFiniteSet(Later(c, i)) BY <1>1, <2>2, FS_Subset
  <2> HIDE DEF K
  <2>6. /\ Bytes(K) <= Bytes(Later(c, i)) /\ Bytes(K) \in Nat
        /\ Bytes(Later(c, i)) \in Nat
    BY <2>3, <2>5, BytesGrow
  <2>7. Bytes(K) <= TILE_CACHE_BYTES BY <1>2, <2>4, <2>6
  <2> QED BY <2>7 DEF K
<1> QED BY <1>4, <1>5

LEMMA InsertedIs ==
    ASSUME CacheTyped, NEW t \in Tiles
    PROVE  /\ Inserted(t) \in Seq(Tiles)
           /\ ToSet(Inserted(t)) = ToSet(cache) \cup {t}
<1>1. cache \in Seq(Tiles) /\ ToSet(cache) \subseteq Tiles BY SetOfSequence DEF CacheTyped
<1>2. /\ Only(cache, Tiles \ {t}) \in Seq(Tiles)
      /\ ToSet(Only(cache, Tiles \ {t})) = ToSet(cache) \cap (Tiles \ {t})
  BY <1>1, OnlyKeeps
<1> DEFINE rest == Only(cache, Tiles \ {t})
<1>3. Inserted(t) = Append(rest, t) BY DEF Inserted
<1> HIDE DEF rest
<1>4. Append(rest, t) \in Seq(Tiles) /\ ToSet(Append(rest, t)) = ToSet(rest) \cup {t}
  BY <1>2, SetOfAppend DEF rest
<1>5. ToSet(rest) = ToSet(cache) \cap (Tiles \ {t}) BY <1>2 DEF rest
<1> QED BY <1>1, <1>3, <1>4, <1>5

LEMMA InsertHolds ==
    ASSUME CacheTyped, NEW t \in Tiles, insert(t)
    PROVE  CacheInv'
<1> DEFINE c == Inserted(t)
           out == trim(c)
<1>1. c \in Seq(Tiles) BY InsertedIs
<1>2. cache' = Only(c, Tiles \ out) BY DEF insert
<1>3. pins' = [u \in Tiles |-> IF u \in out THEN 0 ELSE pins[u]] BY DEF insert
<1>4. pins' \in [Tiles -> Nat] BY <1>3 DEF CacheTyped
<1>5. Bytes(ToSet(c) \cap (Tiles \ trim(c))) <= TILE_CACHE_BYTES BY <1>1, TrimLeavesBudget
<1> HIDE DEF c
<1>6. cache' \in Seq(Tiles) /\ ToSet(cache') = ToSet(c) \cap (Tiles \ trim(c))
  BY <1>1, <1>2, OnlyKeeps
<1> QED BY <1>4, <1>5, <1>6 DEF CacheInv, CacheTyped, CacheWithinBudget

LEMMA GetHolds ==
    ASSUME CacheInv, NEW t \in Tiles, t \in ToSet(cache), get(t)
    PROVE  CacheInv'
<1>1. cache' = Inserted(t) /\ pins' = pins BY DEF get
<1>2. cache' \in Seq(Tiles) /\ ToSet(cache') = ToSet(cache)
  BY <1>1, InsertedIs DEF CacheInv
<1> QED BY <1>1, <1>2 DEF CacheInv, CacheTyped, CacheWithinBudget

-----------------------------------------------------------------------------
(* The plan and the screen.                                                *)

OnePerPlace(S) == \A t, u \in S : t.key = u.key => t = u
ScreenAsCounted ==
    OnePerPlace(resident) /\ OnePerPlace(drawn) /\ resident \ Empty \subseteq drawn
ScreenOK == resident \subseteq Tiles /\ drawn \subseteq Tiles /\ ScreenAsCounted

Working == phase \in {"collect", "request", "upload"}
PlanOK ==
    /\ phase \in {"idle", "collect", "request", "upload", "gone"}
    /\ uncovered \in BOOLEAN /\ urgent \in BOOLEAN
    /\ Working \/ uncovered => plan \in Plans
    /\ build \in Seq(Tiles) /\ todo \in Seq(Tiles)
    /\ ToSet(build) \subseteq ToSet(plan) /\ ToSet(todo) \subseteq ToSet(plan)
    /\ urgent => uncovered /\ Working
    /\ ~Working => build = << >> /\ todo = << >>
Starts(s) == s # << >> /\ s[1] = plan[1]
GroundComes ==
    uncovered => \/ plan[1] \in drawn
                 \/ urgent /\ phase \in {"collect", "request"} /\ Starts(build)
                 \/ urgent /\ phase = "upload" /\ Starts(todo)
GroundInv == ScreenOK /\ PlanOK /\ GroundComes

LEMMA PlanIs ==
    ASSUME NEW p \in Plans
    PROVE  /\ p \in Seq(Tiles) /\ p # << >> /\ p[1] \in Tiles /\ p[1] \notin Empty
           /\ p[1] \in ToSet(p) /\ ToSet(p) \subseteq Tiles
           /\ OnePerPlace(ToSet(p))
<1>1. p \in Seq(Tiles) /\ Len(p) > 0 /\ p[1] \notin Empty BY PlansAssumption
<1>2. \A i, j \in 1..Len(p) : p[i].key = p[j].key => i = j BY PlansAssumption
<1>3. /\ Len(p) \in Nat /\ DOMAIN p = 1..Len(p) /\ \A i \in 1..Len(p) : p[i] \in Tiles
      /\ ToSet(p) \subseteq Tiles
  BY <1>1, SetOfSequence
<1>4. 1 \in 1..Len(p) BY <1>1, <1>3
<1>5. p # << >> BY <1>1, EmptySeq
<1> QED BY <1>1, <1>2, <1>3, <1>4, <1>5 DEF ToSet, OnePerPlace

LEMMA BuildIs ==
    ASSUME NEW m \in Seq(Tiles)
    PROVE  LET b == SubSeq(m, 1, Min({MAX_TILE_UPLOADS, Len(m)}))
           IN  /\ b \in Seq(Tiles) /\ ToSet(b) \subseteq ToSet(m)
               /\ m # << >> => b # << >> /\ b[1] = m[1]
<1>1. /\ Len(m) \in Nat /\ DOMAIN m = 1..Len(m) /\ \A i \in 1..Len(m) : m[i] \in Tiles
      /\ (m # << >> => Len(m) > 0)
  BY SetOfSequence, EmptySeq
<1>2. MAX_TILE_UPLOADS \in Nat /\ MAX_TILE_UPLOADS > 0 BY SizesAssumption
<1> DEFINE n == Min({MAX_TILE_UPLOADS, Len(m)})
           b == SubSeq(m, 1, n)
<1>3. n \in {MAX_TILE_UPLOADS, Len(m)} /\ n <= Len(m)
  <2>1. \E x \in {MAX_TILE_UPLOADS, Len(m)} : \A y \in {MAX_TILE_UPLOADS, Len(m)} : x <= y
    BY <1>1, <1>2, Least
  <2> QED BY <2>1 DEF Min
<1>4. n \in Nat /\ n <= Len(m) /\ (m # << >> => n > 0) BY <1>1, <1>2, <1>3
<1> HIDE DEF n
<1>5. \A i \in 1..n : i \in 1..Len(m) /\ m[i] \in Tiles BY <1>1, <1>4
<1>6. /\ b \in Seq(Tiles) /\ Len(b) = (IF 1 <= n THEN n - 1 + 1 ELSE 0)
      /\ \A i \in 1..(n - 1 + 1) : b[i] = m[1 + i - 1]
  BY <1>4, <1>5, SubSeqProperties
<1> HIDE DEF b
<1>7. Len(b) = n /\ \A i \in 1..n : b[i] = m[i]
  <2>1. Len(b) = n BY <1>4, <1>6
  <2>2. ASSUME NEW i \in 1..n PROVE b[i] = m[i]
    <3>1. i \in 1..(n - 1 + 1) /\ 1 + i - 1 = i BY <1>4
    <3> QED BY <1>6, <3>1
  <2> QED BY <2>1, <2>2
<1>8. DOMAIN b = 1..n BY <1>6, <1>7, SetOfSequence
<1>9. ToSet(b) \subseteq ToSet(m) BY <1>1, <1>5, <1>7, <1>8 DEF ToSet
<1>10. m # << >> => b # << >> /\ b[1] = m[1]
  <2>1. m # << >> => 1 \in 1..n BY <1>4
  <2>2. m # << >> => Len(b) # 0 BY <1>4, <1>7
  <2> QED BY <1>7, <2>1, <2>2, EmptySeq
<1> QED BY <1>6, <1>9, <1>10 DEF b, n

LEMMA GroundInit == TileInit => GroundInv /\ CacheInv
<1>1. SUFFICES ASSUME TileInit PROVE GroundInv /\ CacheInv OBVIOUS
<1>2. ScreenOK BY <1>1 DEF TileInit, ScreenOK, ScreenAsCounted, OnePerPlace
<1>3. PlanOK BY <1>1, NothingIn DEF TileInit, PlanOK, Working
<1>4. GroundComes BY <1>1 DEF TileInit, GroundComes
<1>5. CacheTyped BY <1>1, NothingIn DEF TileInit, CacheTyped
<1>6. Bytes({}) = 0 /\ TILE_CACHE_BYTES \in Nat
  BY FS_EmptySet, BytesEquation, SizesAssumption
<1>7. ToSet(cache) = {} BY <1>1, NothingIn DEF TileInit
<1>8. CacheWithinBudget BY <1>6, <1>7 DEF CacheWithinBudget
<1> QED BY <1>2, <1>3, <1>4, <1>5, <1>8 DEF GroundInv, CacheInv

LEMMA GroundKept ==
    ASSUME GroundInv, UNCHANGED <<resident, drawn, plan, uncovered, urgent, phase, build, todo>>
    PROVE  GroundInv'
<1>1. ScreenOK' BY DEF GroundInv, ScreenOK, ScreenAsCounted
<1>2. PlanOK' BY DEF GroundInv, PlanOK, Working
<1>3. GroundComes' BY DEF GroundInv, GroundComes, Starts
<1> QED BY <1>1, <1>2, <1>3 DEF GroundInv

LEMMA CacheKept ==
    ASSUME CacheInv, UNCHANGED <<cache, pins>>
    PROVE  CacheInv'
BY DEF CacheInv, CacheTyped, CacheWithinBudget

LEMMA BeginHolds ==
    ASSUME GroundInv, CacheInv, NEW p \in Plans, NEW open \in BOOLEAN, sync_begin(p, open)
    PROVE  GroundInv' /\ CacheInv'
<1> DEFINE wanted == Keys(ToSet(p))
           missing == Only(p, Tiles \ resident)
           evict == {t \in resident : t.key \notin wanted}
<1>1. /\ p \in Seq(Tiles) /\ p # << >> /\ p[1] \in Tiles /\ p[1] \notin Empty
      /\ p[1] \in ToSet(p)
  BY PlanIs
<1>2. p[1].key \in wanted BY <1>1 DEF Keys
<1>3. /\ missing \in Seq(Tiles) /\ ToSet(missing) \subseteq ToSet(p)
      /\ p[1] \notin resident => missing # << >> /\ missing[1] = p[1]
  BY <1>1, OnlyKeeps
<1>4. /\ plan' = p /\ uncovered' = open /\ urgent' = (open /\ p[1] \notin resident)
      /\ build' = SubSeq(missing, 1, Min({MAX_TILE_UPLOADS, Len(missing)}))
      /\ resident' = resident \ evict /\ drawn' = {t \in drawn : t.key \in wanted}
      /\ phase' = "collect" /\ todo' = << >> /\ cache' = cache
      /\ pins' \in [Tiles -> Nat]
  <2>1. \E P : pins' = [t \in Tiles |-> IF t \in P THEN TILE_HYSTERESIS_FRAMES + 1
                                          ELSE IF pins[t] > 0 THEN pins[t] - 1 ELSE 0]
    BY Zenon DEF sync_begin
  <2>2. TILE_HYSTERESIS_FRAMES \in Nat BY SizesAssumption
  <2>3. \A t \in Tiles : pins[t] \in Nat BY DEF CacheInv, CacheTyped
  <2>4. pins' \in [Tiles -> Nat] BY <2>1, <2>2, <2>3
  <2> QED BY <2>4 DEF sync_begin
<1> HIDE DEF missing
<1>5. /\ build' \in Seq(Tiles) /\ ToSet(build') \subseteq ToSet(p)
      /\ p[1] \notin resident => build' # << >> /\ build'[1] = p[1]
  BY <1>3, <1>4, BuildIs
<1>6. ScreenOK'
  <2>1. resident' \subseteq resident /\ drawn' \subseteq drawn BY <1>4
  <2>2. resident' \ Empty \subseteq drawn'
    <3>1. resident' = {t \in resident : t.key \in wanted} BY <1>4
    <3>2. resident \ Empty \subseteq drawn BY DEF GroundInv, ScreenOK, ScreenAsCounted
    <3> HIDE DEF wanted
    <3> QED BY <1>4, <3>1, <3>2
  <2> QED BY <2>1, <2>2 DEF GroundInv, ScreenOK, ScreenAsCounted, OnePerPlace
<1>7. PlanOK' BY <1>4, <1>5, NothingIn DEF PlanOK, Working
<1>8. GroundComes'
  <2>1. CASE p[1] \in resident
    <3>1. p[1] \in drawn BY <1>1, <2>1 DEF GroundInv, ScreenOK, ScreenAsCounted
    <3> QED BY <1>2, <1>4, <3>1 DEF GroundComes
  <2>2. CASE p[1] \notin resident
    BY <1>4, <1>5, <2>2 DEF GroundComes, Starts
  <2> QED BY <2>1, <2>2
<1>9. CacheInv' BY <1>4 DEF CacheInv, CacheTyped, CacheWithinBudget
<1> QED BY <1>6, <1>7, <1>8, <1>9 DEF GroundInv

LEMMA StagesHold ==
    ASSUME GroundInv, CacheInv, collect_done \/ request_done \/ request
    PROVE  GroundInv' /\ CacheInv'
<1>1. UNCHANGED <<cache, pins, resident, drawn, plan, uncovered, urgent, build>>
  BY DEF collect_done, request_done, request, screen, frame
<1>2. CacheInv' BY <1>1, CacheKept
<1>3. ScreenOK' BY <1>1 DEF GroundInv, ScreenOK, ScreenAsCounted
<1>4. CASE collect_done \/ request_done
  <2>1. /\ todo' = build
        /\ \/ phase = "collect" /\ phase' = "request"
           \/ phase = "request" /\ phase' = "upload"
    BY <1>4 DEF collect_done, request_done
  <2>2. PlanOK' BY <1>1, <2>1 DEF GroundInv, PlanOK, Working
  <2>3. GroundComes' BY <1>1, <2>1 DEF GroundInv, GroundComes, Starts
  <2> QED BY <1>2, <1>3, <2>2, <2>3 DEF GroundInv
<1>5. CASE request
  <2>1. phase = "request" /\ phase' = phase /\ todo # << >> /\ todo' = Tail(todo)
    BY <1>5 DEF request
  <2>2. Tail(todo) \in Seq(Tiles) /\ ToSet(Tail(todo)) \subseteq ToSet(todo)
    BY <2>1, SetOfTail DEF GroundInv, PlanOK
  <2>3. PlanOK' BY <1>1, <2>1, <2>2 DEF GroundInv, PlanOK, Working
  <2>4. GroundComes' BY <1>1, <2>1 DEF GroundInv, GroundComes, Starts
  <2> QED BY <1>2, <1>3, <2>3, <2>4 DEF GroundInv
<1> QED BY <1>4, <1>5

\* A tile replaces what is at its place and leaves the others.
LEMMA MarkHolds ==
    ASSUME ScreenOK, NEW t \in Tiles, mark_uploaded(t)
    PROVE  /\ ScreenOK'
           /\ t \notin Empty => t \in drawn'
           /\ \A u \in drawn : u.key # t.key => u \in drawn'
<1>1. drawn' = Replaced(t) /\ resident' = Other(resident, t) \cup {t} BY DEF mark_uploaded
<1>2. /\ resident \subseteq Tiles /\ drawn \subseteq Tiles
      /\ OnePerPlace(resident) /\ OnePerPlace(drawn) /\ resident \ Empty \subseteq drawn
  BY DEF ScreenOK, ScreenAsCounted
<1>3. resident' \subseteq Tiles /\ OnePerPlace(resident')
  BY <1>1, <1>2 DEF Other, OnePerPlace
<1>4. CASE t \in Empty
  <2>1. drawn' = drawn BY <1>1, <1>4 DEF Replaced
  <2>2. resident' \ Empty \subseteq drawn' BY <1>1, <1>2, <1>4, <2>1 DEF Other
  <2> QED BY <1>2, <1>3, <1>4, <2>1, <2>2 DEF ScreenOK, ScreenAsCounted
<1>5. CASE t \notin Empty
  <2>1. drawn' = Other(drawn, t) \cup {t} BY <1>1, <1>5 DEF Replaced
  <2>2. drawn' \subseteq Tiles /\ OnePerPlace(drawn') BY <1>2, <2>1 DEF Other, OnePerPlace
  <2>3. resident' \ Empty \subseteq drawn' BY <1>1, <1>2, <2>1 DEF Other
  <2>4. \A u \in drawn : u.key # t.key => u \in drawn' BY <2>1 DEF Other
  <2> QED BY <1>3, <2>1, <2>2, <2>3, <2>4 DEF ScreenOK, ScreenAsCounted
<1> QED BY <1>4, <1>5

LEMMA UploadHolds ==
    ASSUME GroundInv, CacheInv, NEW t \in Tiles, upload_tile(t)
    PROVE  GroundInv' /\ CacheInv'
<1>1. /\ phase = "upload" /\ phase' = phase /\ todo # << >> /\ t = Head(todo)
      /\ todo' = Tail(todo) /\ UNCHANGED <<plan, uncovered, urgent, build>>
  BY DEF upload_tile, frame
<1>2. ScreenOK /\ PlanOK /\ GroundComes BY DEF GroundInv
<1>3. todo \in Seq(Tiles) /\ ToSet(todo) \subseteq ToSet(plan) /\ plan \in Plans
  BY <1>1, <1>2 DEF PlanOK, Working
<1>4. /\ Tail(todo) \in Seq(Tiles) /\ ToSet(Tail(todo)) \subseteq ToSet(plan)
      /\ t \in ToSet(plan) /\ t = todo[1]
  BY <1>1, <1>3, SetOfTail
<1>5. PlanOK' BY <1>1, <1>2, <1>4 DEF PlanOK, Working
<1>6. \/ mark_uploaded(t)
      \/ UNCHANGED <<resident, drawn>> /\ ~Covering(t)
  BY DEF upload_tile, screen
<1>7. plan[1] \in ToSet(plan) /\ plan[1] \notin Empty /\ OnePerPlace(ToSet(plan))
  BY <1>3, PlanIs
<1>8. ScreenOK' /\ GroundComes'
  <2>1. CASE mark_uploaded(t)
    <3>1. /\ ScreenOK' /\ (t \notin Empty => t \in drawn')
          /\ \A u \in drawn : u.key # t.key => u \in drawn'
      BY <1>2, <2>1, MarkHolds
    <3>2. plan[1] \in drawn => plan[1] \in drawn'
      BY <1>4, <1>7, <3>1 DEF OnePerPlace
    <3>3. Starts(todo) => plan[1] \in drawn' BY <1>4, <1>7, <3>1 DEF Starts
    <3>4. GroundComes' BY <1>1, <1>2, <3>2, <3>3 DEF GroundComes
    <3> QED BY <3>1, <3>4
  <2>2. CASE UNCHANGED <<resident, drawn>> /\ ~Covering(t)
    <3>1. ScreenOK' BY <1>2, <2>2 DEF ScreenOK, ScreenAsCounted
    <3>2. ~(urgent /\ Starts(todo)) BY <1>4, <2>2 DEF Covering, Starts
    <3>3. GroundComes' BY <1>1, <1>2, <2>2, <3>2 DEF GroundComes
    <3> QED BY <3>1, <3>3
  <2> QED BY <1>6, <2>1, <2>2
<1>9. CacheInv'
  <2>1. \/ t \in ToSet(cache) /\ get(t)
        \/ insert(t)
        \/ UNCHANGED <<cache, pins>>
    BY DEF upload_tile
  <2>2. CASE t \in ToSet(cache) /\ get(t) BY <2>2, GetHolds
  <2>3. CASE insert(t) BY <2>3, InsertHolds DEF CacheInv
  <2>4. CASE UNCHANGED <<cache, pins>> BY <2>4, CacheKept
  <2> QED BY <2>1, <2>2, <2>3, <2>4
<1> QED BY <1>5, <1>8, <1>9 DEF GroundInv

LEMMA EndHolds ==
    ASSUME GroundInv, CacheInv, upload_break \/ upload_done
    PROVE  GroundInv' /\ CacheInv'
<1>1. UNCHANGED <<cache, pins, resident, drawn, plan, uncovered>> /\ phase = "upload"
  BY DEF upload_break, upload_done, screen, frame
<1>2. CacheInv' BY <1>1, CacheKept
<1>3. ScreenOK' BY <1>1 DEF GroundInv, ScreenOK, ScreenAsCounted
<1>4. CASE upload_break
  <2>1. /\ todo # << >> /\ ~Covering(Head(todo)) /\ todo' = << >>
        /\ UNCHANGED <<urgent, build, phase>>
    BY <1>4 DEF upload_break, frame
  <2>2. PlanOK' BY <1>1, <2>1, NothingIn DEF GroundInv, PlanOK, Working
  <2>3. Head(todo) = todo[1] BY <2>1, SetOfTail DEF GroundInv, PlanOK
  <2>4. ~(urgent /\ Starts(todo)) BY <2>1, <2>3 DEF Covering, Starts
  <2>5. GroundComes' BY <1>1, <2>1, <2>4 DEF GroundInv, GroundComes
  <2> QED BY <1>2, <1>3, <2>2, <2>5 DEF GroundInv
<1>5. CASE upload_done
  <2>1. /\ todo = << >> /\ todo' = todo /\ phase' = "idle" /\ build' = << >>
        /\ urgent' = FALSE
    BY <1>5 DEF upload_done
  <2>2. PlanOK' BY <1>1, <2>1, NothingIn DEF GroundInv, PlanOK, Working
  <2>3. GroundComes' BY <1>1, <2>1 DEF GroundInv, GroundComes, Starts
  <2> QED BY <1>2, <1>3, <2>2, <2>3 DEF GroundInv
<1> QED BY <1>4, <1>5

LEMMA PlatformHolds ==
    ASSUME GroundInv, CacheInv, pause \/ suspended \/ resume \/ drop
    PROVE  GroundInv' /\ CacheInv'
<1>1. phase = "idle" /\ UNCHANGED <<urgent, build, todo>>
  BY DEF pause, suspended, resume, drop, frame
<1>2. CASE pause \/ resume
  <2>1. UNCHANGED <<resident, drawn, plan, uncovered, urgent, phase, build, todo, cache, pins>>
    BY <1>2 DEF pause, resume, frame, screen
  <2>2. GroundInv' BY <2>1, GroundKept
  <2>3. CacheInv' BY <2>1, CacheKept
  <2> QED BY <2>2, <2>3
<1>3. CASE suspended \/ drop
  <2>1. /\ resident' = {} /\ drawn' = {} /\ uncovered' = FALSE /\ phase' \in {"idle", "gone"}
        /\ \/ UNCHANGED <<cache, pins>>
           \/ cache' = << >> /\ pins' = [t \in Tiles |-> 0]
    BY <1>1, <1>3 DEF suspended, drop
  <2>2. ScreenOK' BY <2>1 DEF ScreenOK, ScreenAsCounted, OnePerPlace
  <2>3. build = << >> /\ todo = << >> /\ urgent = FALSE
    BY <1>1 DEF GroundInv, PlanOK, Working
  <2>4. PlanOK' BY <1>1, <2>1, <2>3, NothingIn DEF PlanOK, Working
  <2>5. GroundComes' BY <2>1 DEF GroundComes
  <2>6. CASE UNCHANGED <<cache, pins>>
    BY <2>2, <2>4, <2>5, <2>6, CacheKept DEF GroundInv
  <2>7. CASE cache' = << >> /\ pins' = [t \in Tiles |-> 0]
    <3>0. pins' \in [Tiles -> Nat] BY <2>7
    <3>1. cache' \in Seq(Tiles) /\ ToSet(cache') = {} BY <2>7, NothingIn
    <3>2. Bytes({}) = 0 /\ TILE_CACHE_BYTES \in Nat
      BY FS_EmptySet, BytesEquation, SizesAssumption
    <3>3. CacheWithinBudget' BY <3>1, <3>2 DEF CacheWithinBudget
    <3> QED BY <2>2, <2>4, <2>5, <3>0, <3>1, <3>3 DEF GroundInv, CacheInv, CacheTyped
  <2> QED BY <2>1, <2>6, <2>7
<1> QED BY <1>2, <1>3

-----------------------------------------------------------------------------
TileInv == HeldInv /\ GroundInv /\ CacheInv

LEMMA TileStep == TileInv /\ [TileNext]_tileVars => TileInv'
<1>1. SUFFICES ASSUME HeldInv, GroundInv, CacheInv, [TileNext]_tileVars PROVE TileInv'
  BY DEF TileInv
<1>2. CASE worker_gate \/ worker_receive \/ worker_finish \/ worker_panic
  <2>1. HeldInv' BY <1>1, <1>2, GateHolds, ReceiveHolds, FinishHolds, PanicHolds
  <2>2. UNCHANGED <<resident, drawn, plan, uncovered, urgent, phase, build, todo, cache, pins>>
    BY <1>2 DEF worker_gate, worker_receive, worker_finish, worker_panic, screen, frame
  <2> QED BY <1>1, <2>1, <2>2, GroundKept, CacheKept DEF TileInv
<1>3. CASE poll_take
  <2>1. UNCHANGED <<resident, drawn, plan, uncovered, urgent, phase, build, todo, cache, pins>>
    BY <1>3 DEF poll_take, screen, frame
  <2> QED BY <1>1, <1>3, <2>1, TakeHolds, GroundKept, CacheKept DEF TileInv
<1>4. CASE poll_account
  <2>1. UNCHANGED <<resident, drawn, plan, uncovered, urgent, phase, build, todo>>
    BY <1>4 DEF poll_account, screen, frame
  <2>2. PICK t \in polled : insert(t) BY <1>4 DEF poll_account
  <2>3. t \in Tiles BY <1>1, OneOf DEF HeldInv, ChannelsOK
  <2>4. CacheInv' BY <1>1, <2>2, <2>3, InsertHolds DEF CacheInv
  <2> QED BY <1>1, <1>4, <2>1, <2>4, AccountHolds, GroundKept DEF TileInv
<1>5. CASE request
  <2>1. todo \in Seq(Tiles) BY <1>1 DEF GroundInv, PlanOK
  <2> QED BY <1>1, <1>5, <2>1, RequestHolds, StagesHold DEF TileInv
<1>6. CASE Sync \/ collect_done \/ request_done \/ upload_break \/ upload_done
           \/ \E t \in Tiles : upload_tile(t)
  <2>1. UNCHANGED <<jobs, results, active, result_bytes, job, polled, at>>
    BY <1>6 DEF Sync, sync_begin, collect_done, request_done, upload_break, upload_done,
       upload_tile, shared, worker
  <2>2. HeldInv' BY <1>1, <2>1, HeldKept
  <2>3. GroundInv' /\ CacheInv'
    BY <1>1, <1>6, BeginHolds, StagesHold, EndHolds, UploadHolds DEF Sync
  <2> QED BY <2>2, <2>3 DEF TileInv
<1>7. CASE pause \/ suspended \/ resume \/ drop
  <2>1. /\ UNCHANGED <<jobs, results, active, result_bytes, job, polled>>
        /\ at' = at \/ at' = Woken
    BY <1>7 DEF pause, suspended, resume, drop, worker
  <2> QED BY <1>1, <1>7, <2>1, HeldKept, PlatformHolds DEF TileInv
<1>8. CASE UNCHANGED tileVars
  <2>1. /\ UNCHANGED <<jobs, results, active, result_bytes, job, polled, at>>
        /\ UNCHANGED <<resident, drawn, plan, uncovered, urgent, phase, build, todo,
                       cache, pins>>
    BY <1>8 DEF tileVars, shared, worker, screen, frame
  <2> QED BY <1>1, <2>1, HeldKept, GroundKept, CacheKept DEF TileInv
<1> QED BY <1>1, <1>2, <1>3, <1>4, <1>5, <1>6, <1>7, <1>8
        DEF TileNext, Worker, Frame, Collecting, Requesting, Uploading, Platform

LEMMA TilesStay == TileSpec => []TileInv
<1>1. TileInit => TileInv BY HeldInit, GroundInit DEF TileInv
<1> QED BY <1>1, TileStep, PTL DEF TileSpec

(* What is asked for and not collected is exactly what is queued,          *)
(* generated, finished or just received, each tile once, and the bytes of  *)
(* the finished meshes are counted right and bounded, for every plan, mesh,*)
(* queue and budget (request, run_worker and poll of                       *)
(* landscape_tiles.rs).                                                    *)
THEOREM AskedIsHeld == TileSpec => []ActiveIsHeld
<1>1. TileInv => ActiveIsHeld
  <2>1. SUFFICES ASSUME TileInv PROVE ActiveIsHeld OBVIOUS
  <2>2. ChannelsOK /\ AskedOnce /\ BytesKnown BY <2>1 DEF TileInv, HeldInv
  <2>3. Cardinality(ToSet(jobs)) = Len(jobs) /\ Cardinality(ToSet(results)) = Len(results)
    BY <2>2, SetOfSequence DEF ChannelsOK, AskedOnce
  <2>4. HeldOnce BY <2>2, <2>3 DEF HeldOnce, AskedOnce
  <2> QED BY <2>2, <2>4 DEF ActiveIsHeld, AskedOnce, BytesKnown
<1> QED BY <1>1, TilesStay, PTL

(* After a frame the ground under the camera is drawn as planned when the  *)
(* chunk that would cover it is missing (sync of apps/explorer/src/        *)
(* landscape_tiles.rs).                                                    *)
THEOREM GroundStaysDrawn == TileSpec => []GroundIsDrawn
<1>1. TileInv => GroundIsDrawn
  BY DEF TileInv, GroundInv, PlanOK, Working, GroundComes, GroundIsDrawn
<1> QED BY <1>1, TilesStay, PTL

(* The meshes kept never exceed the cache's budget after an insert, pins or*)
(* none ("the cache can always return under its byte budget",              *)
(* mesh_cache.rs:102-104).                                                 *)
THEOREM CacheKeepsBudget == TileSpec => []CacheWithinBudget
<1>1. TileInv => CacheWithinBudget BY DEF TileInv, CacheInv
<1> QED BY <1>1, TilesStay, PTL

(* What counts as resident is drawn unless it meshes to nothing, and       *)
(* neither the count nor the renderer has two filters of one place         *)
(* (mark_uploaded and plan_into of landscape_tiles.rs).                    *)
THEOREM ScreenIsAsCounted == TileSpec => []ScreenAsCounted
<1>1. TileInv => ScreenAsCounted BY DEF TileInv, GroundInv, ScreenOK
<1> QED BY <1>1, TilesStay, PTL
=============================================================================
