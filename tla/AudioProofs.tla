----------------------------- MODULE AudioProofs -----------------------------
(* Theorems about the audio service and the adapter over it: PCM is neither *)
(* lost nor rewritten while it is read, the mixer refuses nothing and ends  *)
(* silent exactly as it was told, and nothing starts in the background.     *)
EXTENDS AudioAdapter, FiniteSetTheorems, SequenceTheorems, WellFoundedInduction, TLAPS

\* Sets of naturals have a least element, and bounded ones a greatest.
LEMMA Least ==
    ASSUME NEW T, T \subseteq Nat, T # {}
    PROVE  \E x \in T : \A y \in T : x <= y
<1>1. \E R : IsWellFoundedOn(R, Nat) /\ \A x, y \in Nat : <<y, x>> \in R <=> y < x
  <2>1. \A x, y \in Nat : <<y, x>> \in OpToRel(<, Nat) <=> y < x
    BY DEF OpToRel
  <2> QED BY <2>1, NatLessThanWellFounded
<1>2. PICK R : IsWellFoundedOn(R, Nat) /\ \A x, y \in Nat : <<y, x>> \in R <=> y < x
  BY <1>1
<1>3. PICK x \in T : \A y \in T : ~(<<y, x>> \in R)
  BY <1>2, WFMin
<1>4. ASSUME NEW y \in T PROVE x <= y
  <2>1. ~(y < x) BY <1>2, <1>3, Zenon
  <2> QED BY <2>1
<1> QED BY <1>4

LEMMA Greatest ==
    ASSUME NEW bound \in Nat, NEW T, T \subseteq 0..bound, T # {}
    PROVE  \E x \in T : \A y \in T : x >= y
<1> DEFINE U == {bound - y : y \in T}
<1>1. \A y \in T : y \in Int /\ bound - y \in Nat OBVIOUS
<1>2. U \subseteq Nat /\ U # {} BY <1>1
<1>3. PICK u \in U : \A v \in U : u <= v BY <1>2, Least
<1>4. PICK x \in T : u = bound - x OBVIOUS
<1>5. ASSUME NEW y \in T PROVE x >= y
  <2>1. bound - x <= bound - y BY <1>3, <1>4
  <2> QED BY <2>1, <1>1
<1> QED BY <1>5

-----------------------------------------------------------------------------
(* Types.                                                                   *)

Slots == [generation : Generations, active : BOOLEAN]
Sounding == [generation : Generations, active : BOOLEAN, clip : Clips, range : Ranges]
ClipEntries == [generation : Generations, active : BOOLEAN, range : Ranges]
VoiceEntries == [generation : Generations, live : BOOLEAN, clip : Clips, wait : Nat]
Owed == [range : Ranges, wait : Nat]

LEMMA FirstIs ==
    ASSUME NEW S, S \subseteq Nat, S # {}
    PROVE  First(S) \in S /\ \A j \in S : First(S) <= j
<1>1. \E i \in S : \A j \in S : i <= j BY Least
<1> QED BY <1>1 DEF First

LEMMA NextGeneration ==
    ASSUME NEW g \in Generations
    PROVE  next_generation(g) \in Generations
BY AudioAssumption DEF next_generation, Generations

LEMMA NoRangeIs == NoRange \in Ranges
BY AudioAssumption DEF NoRange, Ranges

\* Of the retired ranges a prefix is acknowledged.
LEMMA AcknowledgedIs ==
    ASSUME pending_ranges \in Seq(Owed)
    PROVE  /\ Acknowledged \in 0..Len(pending_ranges)
           /\ \A i \in 1..Acknowledged : pending_ranges[i].wait = 0
<1> DEFINE Done_(k) == \A i \in 1..k : pending_ranges[i].wait = 0
           L == Len(pending_ranges)
           T == {k \in 0..L : k < L => ~Done_(k + 1)}
<1>0. L \in Nat OBVIOUS
<1>1. T \subseteq Nat /\ L \in T BY <1>0
<1>2. PICK k \in T : \A j \in T : k <= j BY <1>1, Least
<1>3. Done_(k)
  <2>1. CASE k = 0 BY <2>1
  <2>2. CASE k # 0
    <3>1. k - 1 \in 0..L /\ k - 1 \notin T BY <1>2, <2>2, <1>0
    <3>2. Done_((k - 1) + 1) BY <3>1
    <3>3. (k - 1) + 1 = k BY <1>0
    <3> QED BY <3>2, <3>3
  <2> QED BY <2>1, <2>2
<1>4. \E j \in 0..L : Done_(j) /\ (j < L => ~Done_(j + 1))
  BY <1>2, <1>3
<1> QED BY <1>4 DEF Acknowledged

LEMMA ReclaimedIs ==
    ASSUME free_ranges \in Seq(Ranges), pending_ranges \in Seq(Owed)
    PROVE  /\ Reclaimed \in Seq(Ranges)
           /\ Len(Reclaimed) = Len(free_ranges) + Acknowledged
           /\ \A i \in 1..Len(free_ranges) : Reclaimed[i] = free_ranges[i]
           /\ \A i \in 1..Acknowledged :
                 Reclaimed[Len(free_ranges) + i] = pending_ranges[i].range
<1> DEFINE back == [i \in 1..Acknowledged |-> pending_ranges[i].range]
<1>1. Acknowledged \in 0..Len(pending_ranges) BY AcknowledgedIs
<1>2. \A i \in 1..Acknowledged : pending_ranges[i] \in Owed BY <1>1
<1>3. back \in Seq(Ranges) /\ Len(back) = Acknowledged
  BY <1>1, <1>2 DEF Owed
<1> QED BY <1>3, <1>1 DEF Reclaimed

LEMMA ReclaimIs ==
    ASSUME pending_ranges \in Seq(Owed), reclaim_acknowledged_ranges
    PROVE  /\ pending_ranges' \in Seq(Owed)
           /\ Len(pending_ranges') = Len(pending_ranges) - Acknowledged
           /\ \A i \in 1..Len(pending_ranges') :
                 pending_ranges'[i] = pending_ranges[Acknowledged + i]
BY AcknowledgedIs DEF reclaim_acknowledged_ranges

\* What becomes of a list from which the i-th range is cut.
LEMMA WithoutIs ==
    ASSUME NEW S, NEW s \in Seq(S), NEW i \in 1..Len(s)
    PROVE  /\ Without(s, i) \in Seq(S) /\ Len(Without(s, i)) = Len(s) - 1
           /\ \A j \in 1..Len(s) - 1 :
                 Without(s, i)[j] = IF j < i THEN s[j] ELSE s[j + 1]
<1> DEFINE a == SubSeq(s, 1, i - 1)
           b == SubSeq(s, i + 1, Len(s))
<1>0. Len(s) \in Nat /\ i \in 1..Len(s) BY LenProperties
<1>1. a \in Seq(S) /\ Len(a) = i - 1 /\ \A j \in 1..i - 1 : a[j] = s[j] BY <1>0
<1>2. b \in Seq(S) /\ Len(b) = Len(s) - i BY <1>0
<1>3. \A j \in 1..Len(s) - i : b[j] = s[i + j] BY <1>0, <1>2
<1> HIDE DEF a, b
<1>4. /\ a \o b \in Seq(S) /\ Len(a \o b) = Len(a) + Len(b)
      /\ \A j \in 1..Len(a) + Len(b) :
            (a \o b)[j] = IF j <= Len(a) THEN a[j] ELSE b[j - Len(a)]
  BY <1>1, <1>2, ConcatProperties
<1>6. Len(a) + Len(b) = Len(s) - 1 BY <1>0, <1>1, <1>2
<1>5. ASSUME NEW j \in 1..Len(s) - 1
      PROVE  (a \o b)[j] = IF j < i THEN s[j] ELSE s[j + 1]
  <2>0. (a \o b)[j] = IF j <= Len(a) THEN a[j] ELSE b[j - Len(a)] BY <1>4, <1>6
  <2>1. CASE j < i
    <3>1. j <= Len(a) /\ j \in 1..i - 1 BY <1>0, <1>1, <2>1
    <3>2. a[j] = s[j] BY <1>1, <3>1
    <3> QED BY <2>0, <2>1, <3>1, <3>2
  <2>2. CASE ~(j < i)
    <3>1. j - (i - 1) \in 1..Len(s) - i /\ ~(j <= Len(a)) BY <1>0, <1>1, <2>2
    <3>2. (a \o b)[j] = b[j - (i - 1)] BY <2>0, <1>1, <3>1
    <3>3. b[j - (i - 1)] = s[i + (j - (i - 1))] BY <3>1, <1>3
    <3>4. i + (j - (i - 1)) = j + 1 BY <1>0
    <3> QED BY <3>2, <3>3, <3>4, <2>2
  <2> QED BY <2>1, <2>2
<1> USE DEF a, b
<1> QED BY <1>4, <1>5, <1>6 DEF Without

\* A range that fits n samples, cut.
Shorter(r, n) == [start |-> r.start + n, samples |-> r.samples - n]
Inside(r) == r.start + r.samples <= PoolSize

LEMMA CutIs ==
    ASSUME Reclaimed \in Seq(Ranges), NEW n \in Lengths, Fitting(n) # {}, NEW i,
           i = First(Fitting(n)), Inside(Reclaimed[i])
    PROVE  /\ i \in 1..Len(Reclaimed) /\ Reclaimed[i] \in Ranges /\ Reclaimed[i].samples >= n
           /\ [start |-> Reclaimed[i].start, samples |-> n] \in Ranges
           /\ Shorter(Reclaimed[i], n) \in Ranges
           /\ Cut(i, n) \in Seq(Ranges)
<1>1. Fitting(n) \subseteq 1..Len(Reclaimed) BY DEF Fitting
<1>2. i \in Fitting(n) BY <1>1, FirstIs
<1>3. i \in 1..Len(Reclaimed) /\ Reclaimed[i].samples >= n BY <1>1, <1>2 DEF Fitting
<1>4. Reclaimed[i] \in Ranges BY <1>3
<1>5. n \in Nat \ {0} /\ PoolSize \in Nat BY AudioAssumption
<1>6. Shorter(Reclaimed[i], n) \in Ranges
  <2>1. Reclaimed[i].start \in 0..PoolSize /\ Reclaimed[i].samples \in 0..PoolSize
    BY <1>4 DEF Ranges
  <2>2. Reclaimed[i].start + n \in 0..PoolSize /\ Reclaimed[i].samples - n \in 0..PoolSize
    BY <2>1, <1>3, <1>5 DEF Inside
  <2> QED BY <2>2 DEF Ranges, Shorter
<1>7. [start |-> Reclaimed[i].start, samples |-> n] \in Ranges
  BY <1>3, <1>4, <1>5 DEF Ranges, Inside
<1>8. Without(Reclaimed, i) \in Seq(Ranges) BY <1>3, WithoutIs
<1>9. [Reclaimed EXCEPT ![i] = Shorter(Reclaimed[i], n)] \in Seq(Ranges) BY <1>3, <1>6
<1> QED BY <1>3, <1>4, <1>6, <1>7, <1>8, <1>9 DEF Cut, Shorter

LEMMA CommandsAre ==
    /\ \A c \in Clips, g \in Generations, o \in {"LoadClip", "UnloadClip"} :
          [op |-> o, clip |-> c, generation |-> g] \in Commands
    /\ \A v \in Voices, g, h \in Generations, c \in Clips, r \in Ranges :
          [op |-> "Play", voice |-> v, generation |-> g, clip |-> c,
           clip_generation |-> h, range |-> r] \in Commands
    /\ \A v \in Voices, g \in Generations, o \in {"Stop", "SetGain"} :
          [op |-> o, voice |-> v, generation |-> g] \in Commands
    /\ \A o \in {"Suspend", "Resume"} : [op |-> o] \in Commands
BY DEF Commands

LEMMA PushIs ==
    ASSUME queue \in Seq(Commands), NEW m \in Commands, push(m)
    PROVE  /\ queue' \in Seq(Commands) /\ Len(queue') = Len(queue) + 1
           /\ \A i \in 1..Len(queue) : queue'[i] = queue[i]
           /\ queue'[Len(queue) + 1] = m
BY DEF push

-----------------------------------------------------------------------------
(* The types, and that every range lies in the pool.                        *)

RangesInside ==
    /\ \A i \in DOMAIN free_ranges : Inside(free_ranges[i])
    /\ \A i \in DOMAIN pending_ranges : Inside(pending_ranges[i].range)
    /\ \A c \in Clips : Inside(clip_mirror[c].range)
ControlOK ==
    /\ clip_mirror \in [Clips -> ClipEntries] /\ voice_mirror \in [Voices -> VoiceEntries]
    /\ free_ranges \in Seq(Ranges) /\ pending_ranges \in Seq(Owed)
    /\ RangesInside
QueueOK == queue \in Seq(Commands) /\ Len(queue) <= Capacity /\ drained \in Nat
CallbackOK == callback \in {"idle", "draining", "mixed", "counted"}
MixerOK ==
    /\ slots \in [Clips -> Slots] /\ voices \in [Voices -> Sounding]
    /\ live_mask \subseteq Voices /\ rt_suspended \in BOOLEAN /\ rt_rejected \in BOOLEAN
DeviceOK ==
    /\ stream \in {"none", "paused", "pausing", "started"}
    /\ disconnected \in BOOLEAN /\ running \in BOOLEAN /\ suspended \in BOOLEAN
    /\ recovery_pending \in BOOLEAN /\ resume_queued \in BOOLEAN /\ faults \in Nat
Typed == ControlOK /\ QueueOK /\ CallbackOK /\ MixerOK /\ DeviceOK

LEMMA TypedIsTypeOK == Typed => AudioTypeOK
BY DEF Typed, ControlOK, QueueOK, CallbackOK, MixerOK, DeviceOK, AudioTypeOK, ClipEntries,
       VoiceEntries, Owed, Slots, Sounding

\* What no request and no callback of these kinds touches.
LEMMA ControlStays ==
    ASSUME ControlOK, UNCHANGED control
    PROVE  ControlOK'
BY DEF ControlOK, RangesInside, control, Inside

LEMMA MixerStays ==
    ASSUME MixerOK, UNCHANGED mixer
    PROVE  MixerOK'
BY DEF MixerOK, mixer

LEMMA DeviceStays ==
    ASSUME DeviceOK, UNCHANGED <<intent, device>>
    PROVE  DeviceOK'
BY DEF DeviceOK, intent, device

LEMMA QueueGrows ==
    ASSUME QueueOK, NEW m \in Commands, push(m), Vacant > 0, UNCHANGED drained
    PROVE  QueueOK'
BY PushIs, AudioAssumption DEF QueueOK, Vacant

LEMMA QueueStays ==
    ASSUME QueueOK, UNCHANGED <<queue, drained>>
    PROVE  QueueOK'
BY DEF QueueOK

LEMMA ReclaimedInside ==
    ASSUME ControlOK
    PROVE  /\ Reclaimed \in Seq(Ranges)
           /\ \A i \in DOMAIN Reclaimed : Inside(Reclaimed[i])
<1>1. Reclaimed \in Seq(Ranges) BY ReclaimedIs DEF ControlOK
<1>2. ASSUME NEW i \in DOMAIN Reclaimed PROVE Inside(Reclaimed[i])
  <2>0. i \in 1..Len(free_ranges) + Acknowledged BY <1>1, ReclaimedIs DEF ControlOK
  <2>1. CASE i \in 1..Len(free_ranges) BY <2>1, ReclaimedIs DEF ControlOK, RangesInside
  <2>2. CASE i \notin 1..Len(free_ranges)
    <3>1. i - Len(free_ranges) \in 1..Acknowledged BY <2>0, <2>2, AcknowledgedIs DEF ControlOK
    <3>2. Reclaimed[Len(free_ranges) + (i - Len(free_ranges))]
            = pending_ranges[i - Len(free_ranges)].range
      BY <3>1, ReclaimedIs DEF ControlOK
    <3>3. i - Len(free_ranges) \in DOMAIN pending_ranges
      BY <3>1, AcknowledgedIs DEF ControlOK
    <3>4. Len(free_ranges) + (i - Len(free_ranges)) = i BY <2>0 DEF ControlOK
    <3> QED BY <3>2, <3>3, <3>4 DEF ControlOK, RangesInside
  <2> QED BY <2>1, <2>2
<1> QED BY <1>1, <1>2

LEMMA ReclaimInside ==
    ASSUME ControlOK, reclaim_acknowledged_ranges
    PROVE  /\ pending_ranges' \in Seq(Owed)
           /\ \A i \in DOMAIN pending_ranges' : Inside(pending_ranges'[i].range)
<1>1. pending_ranges' \in Seq(Owed) BY ReclaimIs DEF ControlOK
<1>2. ASSUME NEW i \in DOMAIN pending_ranges' PROVE Inside(pending_ranges'[i].range)
  <2>1. i \in 1..Len(pending_ranges') /\ pending_ranges'[i] = pending_ranges[Acknowledged + i]
    BY <1>1, ReclaimIs DEF ControlOK
  <2>2. Acknowledged + i \in DOMAIN pending_ranges
    BY <2>1, ReclaimIs, AcknowledgedIs DEF ControlOK
  <2> QED BY <2>1, <2>2 DEF ControlOK, RangesInside
<1> QED BY <1>1, <1>2

LEMMA CutInside ==
    ASSUME ControlOK, NEW n \in Lengths, Fitting(n) # {}, NEW i, i = First(Fitting(n))
    PROVE  /\ i \in 1..Len(Reclaimed) /\ Reclaimed[i] \in Ranges /\ Reclaimed[i].samples >= n
           /\ [start |-> Reclaimed[i].start, samples |-> n] \in Ranges
           /\ Inside([start |-> Reclaimed[i].start, samples |-> n])
           /\ Cut(i, n) \in Seq(Ranges)
           /\ \A j \in DOMAIN Cut(i, n) : Inside(Cut(i, n)[j])
<1>1. Reclaimed \in Seq(Ranges) /\ \A j \in DOMAIN Reclaimed : Inside(Reclaimed[j])
  BY ReclaimedInside
<1>2. i \in DOMAIN Reclaimed
  <2>1. Fitting(n) \subseteq DOMAIN Reclaimed /\ DOMAIN Reclaimed \subseteq Nat
    BY <1>1 DEF Fitting
  <2> QED BY <2>1, FirstIs
<1>3. /\ i \in 1..Len(Reclaimed) /\ Reclaimed[i] \in Ranges /\ Reclaimed[i].samples >= n
      /\ [start |-> Reclaimed[i].start, samples |-> n] \in Ranges
      /\ Shorter(Reclaimed[i], n) \in Ranges
      /\ Cut(i, n) \in Seq(Ranges)
  BY <1>1, <1>2, CutIs
<1>4. n \in Nat \ {0} /\ PoolSize \in Nat BY AudioAssumption
<1>5. Inside([start |-> Reclaimed[i].start, samples |-> n]) /\ Inside(Shorter(Reclaimed[i], n))
  <2>1. /\ Reclaimed[i].start \in Nat /\ Reclaimed[i].samples \in Nat
        /\ Reclaimed[i].start + Reclaimed[i].samples <= PoolSize
    BY <1>1, <1>2, <1>3, <1>4 DEF Inside, Ranges
  <2>2. Reclaimed[i].start + n <= PoolSize BY <2>1, <1>3, <1>4
  <2>3. (Reclaimed[i].start + n) + (Reclaimed[i].samples - n) <= PoolSize BY <2>1, <1>4
  <2> QED BY <2>2, <2>3 DEF Inside, Shorter
<1>6. ASSUME NEW j \in DOMAIN Cut(i, n) PROVE Inside(Cut(i, n)[j])
  <2>1. CASE Reclaimed[i].samples = n
    <3>1. Cut(i, n) = Without(Reclaimed, i) BY <2>1 DEF Cut
    <3>2. j \in 1..Len(Reclaimed) - 1 BY <3>1, <1>1, <1>3, WithoutIs
    <3>3. Cut(i, n)[j] = IF j < i THEN Reclaimed[j] ELSE Reclaimed[j + 1]
      BY <3>1, <3>2, <1>1, <1>3, WithoutIs
    <3> QED BY <3>2, <3>3, <1>1
  <2>2. CASE Reclaimed[i].samples # n
    <3>1. Cut(i, n) = [Reclaimed EXCEPT ![i] = Shorter(Reclaimed[i], n)]
      BY <2>2 DEF Cut, Shorter
    <3> QED BY <3>1, <1>1, <1>3, <1>5
  <2> QED BY <2>1, <2>2
<1> QED BY <1>3, <1>5, <1>6

\* What both specifications start from: nothing registered, nothing played.
Silent ==
    /\ clip_mirror = [c \in Clips |->
                        [generation |-> 0, active |-> FALSE, range |-> NoRange]]
    /\ voice_mirror = [v \in Voices |->
                        [generation |-> 0, live |-> FALSE, clip |-> First(Clips), wait |-> 0]]
    /\ free_ranges = << [start |-> 0, samples |-> PoolSize] >>
    /\ pending_ranges = << >>
    /\ queue = << >> /\ callback = "idle" /\ drained = 0
    /\ slots = [c \in Clips |-> [generation |-> 0, active |-> FALSE]]
    /\ voices = [v \in Voices |->
                  [generation |-> 0, active |-> FALSE, clip |-> First(Clips), range |-> NoRange]]
    /\ rt_suspended = FALSE /\ live_mask = {} /\ rt_rejected = FALSE
    /\ stream \in {"none", "started"} /\ running \in BOOLEAN
    /\ disconnected = FALSE /\ faults = Faults
    /\ suspended = FALSE /\ recovery_pending = FALSE /\ resume_queued = FALSE

LEMMA StartsSilent ==
    /\ Init => Silent
    /\ AdapterInit => Silent
BY DEF Init, AdapterInit, Silent

LEMMA SilentTyped == Silent => Typed
<1> SUFFICES ASSUME Silent PROVE Typed OBVIOUS
<1>1. First(Clips) \in Clips /\ NoRange \in Ranges /\ 0 \in Generations /\ PoolSize \in Nat
  <2>1. Clips \subseteq Nat /\ Clips # {} BY AudioAssumption
  <2>2. First(Clips) \in Clips BY <2>1, FirstIs
  <2>3. 0 \in Generations /\ PoolSize \in Nat BY AudioAssumption DEF Generations
  <2> QED BY <2>2, <2>3, NoRangeIs
<1>2. [start |-> 0, samples |-> PoolSize] \in Ranges BY <1>1 DEF Ranges
<1>3. ControlOK
  BY <1>1, <1>2 DEF Silent, ControlOK, RangesInside, Inside, NoRange, ClipEntries, VoiceEntries
<1>4. QueueOK /\ CallbackOK BY AudioAssumption DEF Silent, QueueOK, CallbackOK
<1>5. MixerOK BY <1>1 DEF Silent, MixerOK, Slots, Sounding
<1>6. DeviceOK BY AudioAssumption DEF Silent, DeviceOK
<1> QED BY <1>3, <1>4, <1>5, <1>6 DEF Typed

LEMMA RegisterTyped ==
    ASSUME Typed, NEW n \in Lengths, register_clip(n) \/ register_refused(n)
    PROVE  Typed'
<1> USE DEF Typed
<1>1. MixerOK' /\ DeviceOK' /\ CallbackOK'
  BY MixerStays, DeviceStays DEF register_clip, register_refused, CallbackOK
<1>2. CASE register_refused(n)
  <2>1. ControlOK'
    BY <1>2, ReclaimedInside, ReclaimInside DEF register_refused, ControlOK, RangesInside, Inside
  <2> QED BY <1>1, <1>2, <2>1, QueueStays DEF register_refused
<1>3. CASE register_clip(n)
  <2> DEFINE c == First(Inactive)
             i == First(Fitting(n))
             g == next_generation(clip_mirror[c].generation)
             r == [start |-> Reclaimed[i].start, samples |-> n]
  <2>1. c \in Clips BY <1>3, FirstIs, AudioAssumption DEF register_clip, Inactive
  <2>2. g \in Generations BY <2>1, NextGeneration DEF ControlOK, ClipEntries
  <2>3. [op |-> "LoadClip", clip |-> c, generation |-> g] \in Commands
    BY <2>1, <2>2, CommandsAre
  <2>4. push([op |-> "LoadClip", clip |-> c, generation |-> g]) BY <1>3 DEF register_clip
  <2>5. QueueOK' BY <1>3, <2>3, <2>4, QueueGrows DEF register_clip
  <2>6. r \in Ranges /\ Inside(r) BY <1>3, CutInside DEF register_clip
  <2>7. /\ clip_mirror' = [clip_mirror EXCEPT ![c] =
                [generation |-> g, active |-> TRUE, range |-> r]]
        /\ free_ranges' = Cut(i, n) /\ voice_mirror' = voice_mirror
        /\ reclaim_acknowledged_ranges
    BY <1>3 DEF register_clip
  <2>8. /\ free_ranges' \in Seq(Ranges)
        /\ \A j \in DOMAIN free_ranges' : Inside(free_ranges'[j])
    BY <1>3, <2>7, CutInside DEF register_clip
  <2>9. ControlOK'
    <3> HIDE DEF g, r, i, c
    <3>1. /\ clip_mirror' \in [Clips -> ClipEntries]
          /\ \A d \in Clips : Inside(clip_mirror'[d].range)
      BY <2>1, <2>2, <2>6, <2>7 DEF ControlOK, RangesInside, ClipEntries
    <3> QED BY <2>7, <2>8, <3>1, ReclaimInside DEF ControlOK, RangesInside, Inside
  <2> QED BY <1>1, <2>5, <2>9
<1> QED BY <1>2, <1>3

LEMMA UnregisterTyped ==
    ASSUME Typed, NEW c \in Clips, unregister_clip(c)
    PROVE  Typed'
<1> USE DEF Typed
<1>1. MixerOK' /\ DeviceOK' /\ CallbackOK'
  BY MixerStays, DeviceStays DEF unregister_clip, CallbackOK
<1>2. clip_mirror[c] \in ClipEntries BY DEF ControlOK
<1>3. QueueOK' BY <1>2, CommandsAre, QueueGrows DEF unregister_clip, ClipEntries
<1>4. Sequence \in Nat BY DEF Sequence, QueueOK
<1>5. [range |-> clip_mirror[c].range, wait |-> Sequence] \in Owed
  BY <1>2, <1>4 DEF Owed, ClipEntries
<1>6. next_generation(clip_mirror[c].generation) \in Generations
  BY <1>2, NextGeneration DEF ClipEntries
<1>7. /\ clip_mirror' \in [Clips -> ClipEntries] /\ voice_mirror' \in [Voices -> VoiceEntries]
      /\ \A d \in Clips : Inside(clip_mirror'[d].range)
  <2> DEFINE e == [generation |-> next_generation(clip_mirror[c].generation),
                   active |-> FALSE, range |-> NoRange]
  <2>1. e \in ClipEntries BY <1>6, NoRangeIs DEF ClipEntries
  <2>2. Inside(NoRange) BY AudioAssumption DEF Inside, NoRange
  <2>3. e.range = NoRange OBVIOUS
  <2>4. clip_mirror' = [clip_mirror EXCEPT ![c] = e] BY DEF unregister_clip
  <2> HIDE DEF e
  <2>5. /\ clip_mirror' \in [Clips -> ClipEntries]
        /\ \A d \in Clips : clip_mirror'[d] = IF d = c THEN e ELSE clip_mirror[d]
    BY <2>1, <2>4 DEF ControlOK
  <2>6. \A d \in Clips : Inside(clip_mirror'[d].range)
    BY <2>2, <2>3, <2>5 DEF ControlOK, RangesInside
  <2>7. voice_mirror' \in [Voices -> VoiceEntries]
    BY DEF unregister_clip, ControlOK, VoiceEntries
  <2> QED BY <2>5, <2>6, <2>7
<1>8. /\ pending_ranges' \in Seq(Owed)
      /\ \A i \in DOMAIN pending_ranges' : Inside(pending_ranges'[i].range)
  <2>1. /\ pending_ranges' =
              Append(pending_ranges, [range |-> clip_mirror[c].range, wait |-> Sequence])
        /\ pending_ranges \in Seq(Owed) /\ Inside(clip_mirror[c].range)
    BY DEF unregister_clip, ControlOK, RangesInside
  <2>2. pending_ranges' \in Seq(Owed) BY <2>1, <1>5
  <2>3. ASSUME NEW i \in DOMAIN pending_ranges' PROVE Inside(pending_ranges'[i].range)
    <3>1. CASE i \in DOMAIN pending_ranges
      BY <3>1, <2>1 DEF ControlOK, RangesInside
    <3>2. CASE i = Len(pending_ranges) + 1 BY <3>2, <2>1
    <3> QED BY <3>1, <3>2, <2>1
  <2> QED BY <2>2, <2>3
<1>9. ControlOK'
  BY <1>7, <1>8 DEF unregister_clip, ControlOK, RangesInside, Inside
<1> QED BY <1>1, <1>3, <1>9

LEMMA VoicesTyped ==
    ASSUME Typed, NEW v \in Voices,
           (\E c \in Clips : play(v, c)) \/ stop_voice(v) \/ set_voice_gain(v)
    PROVE  Typed'
<1> USE DEF Typed
<1>1. MixerOK' /\ DeviceOK' /\ CallbackOK'
  BY MixerStays, DeviceStays DEF play, stop_voice, set_voice_gain, CallbackOK
<1>2. voice_mirror[v] \in VoiceEntries /\ Sequence \in Nat
  BY DEF ControlOK, Sequence, QueueOK
<1>3. next_generation(voice_mirror[v].generation) \in Generations
  BY <1>2, NextGeneration DEF VoiceEntries
<1>4. voice_mirror' \in [Voices -> VoiceEntries]
  <2>1. CASE \E c \in Clips : play(v, c)
    BY <2>1, <1>2, <1>3 DEF play, ControlOK, VoiceEntries
  <2>2. CASE stop_voice(v) BY <2>2 DEF stop_voice, ControlOK, VoiceEntries
  <2>3. CASE set_voice_gain(v) BY <2>3 DEF set_voice_gain, control, ControlOK
  <2> QED BY <2>1, <2>2, <2>3
<1>5. ControlOK'
  BY <1>4 DEF play, stop_voice, set_voice_gain, control, ControlOK, RangesInside, Inside
<1>6. QueueOK'
  <2>1. ASSUME NEW c \in Clips, play(v, c) PROVE QueueOK'
    <3>1. clip_mirror[c] \in ClipEntries BY DEF ControlOK
    <3> QED BY <2>1, <3>1, <1>3, CommandsAre, QueueGrows DEF play, ClipEntries
  <2>2. CASE stop_voice(v) /\ ~Finished(v)
    BY <2>2, <1>2, CommandsAre, QueueGrows DEF stop_voice, VoiceEntries
  <2>3. CASE stop_voice(v) /\ Finished(v) BY <2>3, QueueStays DEF stop_voice
  <2>4. CASE set_voice_gain(v)
    BY <2>4, <1>2, CommandsAre, QueueGrows DEF set_voice_gain, VoiceEntries
  <2> QED BY <2>1, <2>2, <2>3, <2>4
<1> QED BY <1>1, <1>5, <1>6

LEMMA SuspendTyped ==
    ASSUME Typed, suspend
    PROVE  Typed'
<1> USE DEF Typed
<1>1. MixerOK' /\ ControlOK' /\ CallbackOK' /\ drained' = drained
  BY MixerStays, ControlStays DEF suspend, CallbackOK
<1>2. DeviceOK'
  <2>1. faults' \in Nat BY DEF suspend, DeviceOK, Fault
  <2>2. stream' \in {"none", "paused", "pausing", "started"} BY DEF suspend, DeviceOK
  <2>3. disconnected' \in BOOLEAN /\ recovery_pending' \in BOOLEAN
    BY DEF suspend, DeviceOK, intent
  <2>4. running' \in BOOLEAN /\ suspended' \in BOOLEAN /\ resume_queued' \in BOOLEAN
    BY Zenon DEF suspend, DeviceOK, intent
  <2> QED BY <2>1, <2>2, <2>3, <2>4 DEF DeviceOK
<1>3. QueueOK'
  <2>1. CASE push([op |-> "Suspend"])
    BY <2>1, <1>1, CommandsAre, QueueGrows, AudioAssumption DEF suspend, Vacant, QueueOK
  <2>2. CASE queue' = queue \o << [op |-> "Suspend"], [op |-> "Resume"] >>
    <3>1. << [op |-> "Suspend"], [op |-> "Resume"] >> \in Seq(Commands) BY CommandsAre
    <3>2. queue' \in Seq(Commands) /\ Len(queue') = Len(queue) + 2
      BY <2>2, <3>1, ConcatProperties DEF QueueOK
    <3>3. Len(queue) + 2 <= Capacity BY AudioAssumption DEF suspend, Vacant, QueueOK
    <3> QED BY <3>2, <3>3, <1>1 DEF QueueOK
  <2> QED BY <2>1, <2>2 DEF suspend
<1> QED BY <1>1, <1>2, <1>3

LEMMA DeviceTyped ==
    ASSUME Typed, resume \/ poll_device \/ stream_pauses \/ lose_device
    PROVE  Typed'
<1> USE DEF Typed
<1>1. MixerOK' /\ ControlOK' /\ CallbackOK' /\ drained' = drained
  BY MixerStays, ControlStays
     DEF resume, resume_paused, resume_lost, resume_replaced, poll_device, stream_pauses,
         lose_device, CallbackOK
<1>2. DeviceOK'
  <2>1. faults' \in Nat
    BY DEF resume, resume_paused, resume_lost, resume_replaced, poll_device, stream_pauses,
           lose_device, recreate_started, recreate_paused, DeviceOK, Fault, OutputLost,
           OutputStarted
  <2>2. stream' \in {"none", "paused", "pausing", "started"}
    BY DEF resume, resume_paused, resume_lost, resume_replaced, poll_device, stream_pauses,
           lose_device, recreate_started, recreate_paused, DeviceOK, OutputLost, OutputStarted
  <2>3. disconnected' \in BOOLEAN
    BY Zenon DEF resume, resume_paused, resume_lost, resume_replaced, poll_device, stream_pauses,
           lose_device, recreate_started, recreate_paused, DeviceOK
  <2>4. running' \in BOOLEAN /\ suspended' \in BOOLEAN
    BY Zenon DEF resume, resume_paused, resume_lost, resume_replaced, poll_device, stream_pauses,
           lose_device, recreate_started, recreate_paused, DeviceOK, OutputLost, OutputStarted,
           intent
  <2>5. recovery_pending' \in BOOLEAN /\ resume_queued' \in BOOLEAN
    BY Zenon DEF resume, resume_paused, resume_lost, resume_replaced, poll_device, stream_pauses,
           lose_device, recreate_started, recreate_paused, DeviceOK, OutputLost, OutputStarted,
           intent
  <2> QED BY <2>1, <2>2, <2>3, <2>4, <2>5 DEF DeviceOK
<1>3. QueueOK'
  <2>1. CASE queue' = queue BY <2>1, <1>1, QueueStays
  <2>2. CASE queue' # queue
    <3>1. push([op |-> "Resume"]) /\ Vacant > 0
      BY <2>2 DEF resume, resume_paused, resume_lost, resume_replaced, poll_device, stream_pauses,
                  lose_device, QueueResume
    <3> QED BY <3>1, <1>1, CommandsAre, QueueGrows
  <2> QED BY <2>1, <2>2
<1> QED BY <1>1, <1>2, <1>3

LEMMA PublishIs ==
    ASSUME ControlOK, QueueOK, publish_applied
    PROVE  /\ pending_ranges' \in Seq(Owed) /\ Len(pending_ranges') = Len(pending_ranges)
           /\ \A i \in 1..Len(pending_ranges) :
                 /\ pending_ranges'[i].range = pending_ranges[i].range
                 /\ pending_ranges'[i].wait = Reached(pending_ranges[i].wait)
           /\ voice_mirror' \in [Voices -> VoiceEntries]
           /\ \A v \in Voices :
                 /\ voice_mirror'[v].generation = voice_mirror[v].generation
                 /\ voice_mirror'[v].live = voice_mirror[v].live
                 /\ voice_mirror'[v].clip = voice_mirror[v].clip
                 /\ voice_mirror'[v].wait = Reached(voice_mirror[v].wait)
<1>1. \A k \in Nat : Reached(k) \in Nat BY DEF Reached, QueueOK
<1>2. /\ pending_ranges' = [i \in 1..Len(pending_ranges) |->
              [pending_ranges[i] EXCEPT !.wait = Reached(@)]]
      /\ Len(pending_ranges) \in Nat
  BY DEF publish_applied, ControlOK
<1>3. ASSUME NEW i \in 1..Len(pending_ranges)
      PROVE  /\ pending_ranges'[i] \in Owed
             /\ pending_ranges'[i].range = pending_ranges[i].range
             /\ pending_ranges'[i].wait = Reached(pending_ranges[i].wait)
  <2>1. pending_ranges[i] \in Owed BY DEF ControlOK
  <2>2. pending_ranges'[i] = [pending_ranges[i] EXCEPT !.wait = Reached(pending_ranges[i].wait)]
    BY <1>2
  <2> QED BY <1>1, <2>1, <2>2 DEF Owed
<1>4. pending_ranges' \in Seq(Owed) /\ Len(pending_ranges') = Len(pending_ranges)
  BY <1>2, <1>3
<1>5. ASSUME NEW v \in Voices
      PROVE  /\ voice_mirror'[v] \in VoiceEntries
             /\ voice_mirror'[v].generation = voice_mirror[v].generation
             /\ voice_mirror'[v].live = voice_mirror[v].live
             /\ voice_mirror'[v].clip = voice_mirror[v].clip
             /\ voice_mirror'[v].wait = Reached(voice_mirror[v].wait)
  <2>1. voice_mirror[v] \in VoiceEntries BY DEF ControlOK
  <2>2. voice_mirror'[v] = [voice_mirror[v] EXCEPT !.wait = Reached(voice_mirror[v].wait)]
    BY DEF publish_applied
  <2> QED BY <1>1, <2>1, <2>2 DEF VoiceEntries
<1>6. voice_mirror' = [v \in Voices |-> voice_mirror'[v]] BY DEF publish_applied
<1> QED BY <1>3, <1>4, <1>5, <1>6

LEMMA CallbackTyped ==
    ASSUME Typed, Render
    PROVE  Typed'
<1> USE DEF Typed
<1>1. DeviceOK' /\ CallbackOK'
  BY DeviceStays
     DEF Render, begin_callback, drain, mix, count_callback, publish_applied, CallbackOK
<1>2. CASE begin_callback \/ count_callback
  BY <1>1, <1>2, ControlStays, QueueStays, MixerStays DEF begin_callback, count_callback
<1>3. CASE drain
  <2>1. ControlOK' BY <1>3, ControlStays DEF drain
  <2>2. QueueOK'
    <3>1. queue \in Seq(Commands) /\ queue # << >> /\ queue' = Tail(queue)
      BY <1>3 DEF drain, QueueOK
    <3>2. queue' \in Seq(Commands) /\ Len(queue') = Len(queue) - 1
      BY <3>1, HeadTailProperties
    <3>3. Len(queue') <= Capacity BY <3>1, <3>2, AudioAssumption DEF QueueOK
    <3>4. drained' \in Nat BY <1>3 DEF drain, QueueOK
    <3> QED BY <3>2, <3>3, <3>4 DEF QueueOK
  <2>3. Head(queue) \in Commands BY <1>3, HeadTailProperties DEF drain, QueueOK
  <2>4. MixerOK'
    <3> DEFINE m == Head(queue)
    <3>1. m \in Commands /\ apply(m) /\ live_mask' = live_mask BY <1>3, <2>3 DEF drain
    <3> HIDE DEF m
    <3>2. m.op \in {"LoadClip", "UnloadClip", "Play", "Stop", "SetGain", "Suspend", "Resume"}
      BY <3>1 DEF Commands
    <3>3. m.op = "LoadClip" => m.clip \in Clips /\ m.generation \in Generations
      BY <3>1 DEF Commands
    <3>4. m.op = "Play" => /\ m.clip \in Clips /\ m.generation \in Generations
                           /\ m.voice \in Voices /\ m.range \in Ranges
      BY <3>1 DEF Commands
    <3>5. slots' \in [Clips -> Slots]
      <4>1. slots \in [Clips -> Slots] BY DEF MixerOK
      <4>2. CASE m.op = "LoadClip"
        <5>1. slots' = [slots EXCEPT ![m.clip] = [generation |-> m.generation, active |-> TRUE]]
          BY <3>1, <4>2 DEF apply
        <5>2. [generation |-> m.generation, active |-> TRUE] \in Slots
          BY <3>3, <4>2 DEF Slots
        <5> QED BY <5>1, <5>2, <3>3, <4>1, <4>2
      <4>3. CASE m.op = "UnloadClip"
        <5>1. slots' = slots \/ slots' = [slots EXCEPT ![m.clip].active = FALSE]
          BY <3>1, <4>3 DEF apply
        <5> QED BY <5>1, <4>1 DEF Slots
      <4>4. CASE m.op \notin {"LoadClip", "UnloadClip"}
        <5>1. slots' = slots BY <3>1, <4>4 DEF apply
        <5> QED BY <5>1, <4>1
      <4> QED BY <4>2, <4>3, <4>4
    <3>6. voices' \in [Voices -> Sounding]
      <4>1. voices \in [Voices -> Sounding] BY DEF MixerOK
      <4>2. CASE m.op = "UnloadClip"
        <5>1. /\ voices' = [v \in Voices |-> voices'[v]]
              /\ \A v \in Voices : \/ voices'[v] = voices[v]
                                   \/ voices'[v] = [voices[v] EXCEPT !.active = FALSE]
          BY <3>1, <4>2 DEF apply
        <5>2. \A v \in Voices : voices'[v] \in Sounding BY <5>1, <4>1 DEF Sounding
        <5> QED BY <5>1, <5>2
      <4>3. CASE m.op = "Play"
        <5> DEFINE w == [generation |-> m.generation, active |-> TRUE,
                         clip |-> m.clip, range |-> m.range]
        <5>1. w \in Sounding BY <3>4, <4>3 DEF Sounding
        <5>2. voices' = voices \/ voices' = [voices EXCEPT ![m.voice] = w]
          BY <3>1, <4>3 DEF apply
        <5> HIDE DEF w
        <5> QED BY <5>1, <5>2, <3>4, <4>1, <4>3
      <4>4. CASE m.op = "Stop"
        <5>1. voices' = voices \/ voices' = [voices EXCEPT ![m.voice].active = FALSE]
          BY <3>1, <4>4 DEF apply
        <5>2. \A x \in Sounding : [x EXCEPT !.active = FALSE] \in Sounding BY DEF Sounding
        <5> QED BY <5>1, <5>2, <4>1
      <4>5. CASE m.op \notin {"UnloadClip", "Play", "Stop"}
        <5>1. voices' = voices BY <3>1, <4>5 DEF apply
        <5> QED BY <5>1, <4>1
      <4> QED BY <4>2, <4>3, <4>4, <4>5
    <3>7. rt_suspended' \in BOOLEAN BY <3>1, <3>2 DEF apply, MixerOK
    <3>8. rt_rejected' \in BOOLEAN BY <3>1, <3>2 DEF apply, MixerOK
    <3> QED BY <3>1, <3>5, <3>6, <3>7, <3>8 DEF MixerOK
  <2> QED BY <1>1, <2>1, <2>2, <2>4
<1>4. CASE mix
  <2>1. ControlOK' /\ QueueOK' BY <1>4, ControlStays, QueueStays DEF mix
  <2>2. voices' \in [Voices -> Sounding] BY <1>4 DEF mix, MixerOK, Sounding
  <2>3. MixerOK' BY <1>4, <2>2 DEF mix, MixerOK
  <2> QED BY <1>1, <2>1, <2>3
<1>5. CASE publish_applied
  <2>2. voice_mirror' \in [Voices -> VoiceEntries] BY <1>5, PublishIs
  <2>3. /\ pending_ranges' \in Seq(Owed) /\ Len(pending_ranges') = Len(pending_ranges)
        /\ \A i \in DOMAIN pending_ranges : pending_ranges'[i].range = pending_ranges[i].range
    <3>1. DOMAIN pending_ranges = 1..Len(pending_ranges) BY DEF ControlOK
    <3> QED BY <1>5, <3>1, PublishIs
  <2>4. ControlOK'
    BY <1>5, <2>2, <2>3 DEF publish_applied, ControlOK, RangesInside, Inside
  <2> QED BY <1>1, <1>5, <2>4, MixerStays DEF publish_applied, QueueOK
<1> QED BY <1>2, <1>3, <1>4, <1>5 DEF Render

\* The adapter opens the device of a service that has none.
Opens ==
    /\ \/ Fault /\ UNCHANGED <<intent, stream>>
       \/ OutputStarted /\ UNCHANGED <<recovery_pending, faults>>
    /\ UNCHANGED <<control, queue, callback, drained, mixer, disconnected>>

LEMMA OpensTyped ==
    ASSUME Typed, Opens
    PROVE  Typed'
<1>1. ControlOK' /\ QueueOK' /\ MixerOK' /\ CallbackOK'
  BY ControlStays, QueueStays, MixerStays DEF Opens, Typed, CallbackOK
<1>2. faults' \in Nat /\ stream' \in {"none", "paused", "pausing", "started"}
  BY DEF Opens, Typed, DeviceOK, Fault, OutputStarted
<1>3. disconnected' \in BOOLEAN /\ running' \in BOOLEAN /\ suspended' \in BOOLEAN
  BY Zenon DEF Opens, Typed, DeviceOK, OutputStarted, intent
<1>4. recovery_pending' \in BOOLEAN /\ resume_queued' \in BOOLEAN
  BY Zenon DEF Opens, Typed, DeviceOK, OutputStarted, intent
<1> QED BY <1>1, <1>2, <1>3, <1>4 DEF Typed, DeviceOK

\* Every step of either specification is one of these.
ServiceStep == Request \/ Render \/ stream_pauses \/ lose_device

LEMMA StepTyped ==
    ASSUME Typed, ServiceStep \/ Opens \/ UNCHANGED vars
    PROVE  Typed'
<1>1. CASE Request
  BY <1>1, RegisterTyped, UnregisterTyped, VoicesTyped, SuspendTyped, DeviceTyped DEF Request
<1>2. CASE Render BY <1>2, CallbackTyped
<1>3. CASE stream_pauses \/ lose_device BY <1>3, DeviceTyped
<1>4. CASE Opens BY <1>4, OpensTyped
<1>5. CASE UNCHANGED vars
  BY <1>5, ControlStays, QueueStays, MixerStays, DeviceStays DEF vars, Typed, CallbackOK
<1> QED BY <1>1, <1>2, <1>3, <1>4, <1>5 DEF ServiceStep

\* A step of the adapter makes at most one call of the service, or a callback
\* or the device takes a step.
LEMMA AdapterSteps ==
    ASSUME records \subseteq Records, [AdapterNext]_avars
    PROVE  ServiceStep \/ (open_device /\ Opens) \/ UNCHANGED vars
<1>1. CASE Platform \/ pump_audio \/ cooldown_passes
  BY <1>1 DEF Platform, winit_resumed, winit_suspended, on_focus_lost, on_focus_gained, occluded,
              revealed, switch_to, set_muted, Event, pump_audio, cooldown_passes, service, vars
<1>2. CASE adapter_render BY <1>2 DEF adapter_render, Render, ServiceStep
<1>3. CASE Device BY <1>3 DEF Device, ServiceStep
<1>4. CASE UNCHANGED avars BY <1>4 DEF avars
<1>5. CASE Step
  <2>1. CASE open_device BY <2>1 DEF open_device, Opens
  <2>2. CASE register_clips
    BY <2>2 DEF register_clips, ServiceStep, Request, service, vars
  <2>3. CASE attempt_resume \/ adapter_poll
    BY <2>3 DEF attempt_resume, adapter_poll, Attempt, service_resume, ServiceStep, Request,
                service, vars
  <2>4. CASE adapter_suspend
    BY <2>4 DEF adapter_suspend, ServiceStep, Request, service, vars
  <2>5. CASE sweep_finished \/ stops_pushed \/ gains_pushed
    BY <2>5 DEF sweep_finished, stops_pushed, gains_pushed, service, vars
  <2>6. CASE push_pending_stop
    <3>1. PICK r \in Retiring : UNCHANGED service \/ stop_voice(r.voice)
      BY <2>6 DEF push_pending_stop
    <3>2. r.voice \in Voices BY DEF Retiring, Records
    <3> QED BY <3>1, <3>2 DEF service, vars, ServiceStep, Request
  <2>7. CASE push_pending_gain
    <3>1. PICK r \in Detuned : UNCHANGED service \/ set_voice_gain(r.voice)
      BY <2>7 DEF push_pending_gain
    <3>2. r.voice \in Voices BY DEF Detuned, Records
    <3> QED BY <3>1, <3>2 DEF service, vars, ServiceStep, Request
  <2>8. CASE trigger
    BY <2>8 DEF trigger, ServiceStep, Request, service, vars
  <2> QED BY <1>5, <2>1, <2>2, <2>3, <2>4, <2>5, <2>6, <2>7, <2>8 DEF Step
<1> QED BY <1>1, <1>2, <1>3, <1>4, <1>5 DEF AdapterNext

-----------------------------------------------------------------------------
(* The adapter's own state.                                                 *)

Tracked ==
    /\ records \subseteq Records
    /\ IsFiniteSet(records) /\ Cardinality(records) <= Cardinality(Voices)
Followed ==
    /\ resumed \in BOOLEAN /\ focused \in BOOLEAN /\ paused \in BOOLEAN
    /\ muted \in BOOLEAN /\ away \in BOOLEAN
    /\ retry \in {"none", "waiting", "due"} /\ opened \in {"none", "opening", "open"}
AdapterTyped == Typed /\ Tracked /\ Followed

\* A table whose records are changed one by one holds no more of them.
LEMMA ImageIsNoLarger ==
    ASSUME NEW S, IsFiniteSet(S), NEW f, f \in [S -> {f[x] : x \in S}]
    PROVE  /\ IsFiniteSet({f[x] : x \in S})
           /\ Cardinality({f[x] : x \in S}) <= Cardinality(S)
<1>1. f \in Surjection(S, {f[x] : x \in S}) BY DEF Surjection
<1> QED BY <1>1, FS_Surjection

LEMMA FewerAreTracked ==
    ASSUME Tracked, NEW S, S \subseteq records
    PROVE  /\ S \subseteq Records /\ IsFiniteSet(S)
           /\ Cardinality(S) <= Cardinality(records)
           /\ Cardinality(S) <= Cardinality(Voices)
           /\ Cardinality(S) \in Nat /\ Cardinality(records) \in Nat
           /\ Cardinality(Voices) \in Nat
BY FS_Subset, FS_CardinalityType, RoomAssumption, AudioAssumption DEF Tracked

LEMMA RetiredTracked ==
    ASSUME Tracked, records' = Retired
    PROVE  Tracked'
<1> DEFINE f == [r \in records |-> [r EXCEPT !.retiring = TRUE]]
<1>1. Retired = {f[r] : r \in records} BY DEF Retired
<1>2. f \in [records -> {f[r] : r \in records}] OBVIOUS
<1>3. IsFiniteSet(Retired) /\ Cardinality(Retired) <= Cardinality(records)
  <2> HIDE DEF f
  <2> QED BY <1>1, <1>2, ImageIsNoLarger DEF Tracked
<1>4. Retired \subseteq Records BY DEF Tracked, Retired, Records
<1>5. Cardinality(Retired) \in Nat BY <1>3, FS_CardinalityType
<1> QED BY <1>3, <1>4, <1>5, FewerAreTracked DEF Tracked

LEMMA CountedTracked ==
    ASSUME Tracked, records' = Counted
    PROVE  Tracked'
<1> DEFINE f == [r \in records |-> [r EXCEPT !.callbacks = IF @ = 2 THEN 2 ELSE @ + 1]]
<1>1. Counted = {f[r] : r \in records} BY DEF Counted
<1>2. f \in [records -> {f[r] : r \in records}] OBVIOUS
<1>3. IsFiniteSet(Counted) /\ Cardinality(Counted) <= Cardinality(records)
  <2> HIDE DEF f
  <2> QED BY <1>1, <1>2, ImageIsNoLarger DEF Tracked
<1>4. Counted \subseteq Records BY DEF Tracked, Counted, Records
<1>5. Cardinality(Counted) \in Nat BY <1>3, FS_CardinalityType
<1> QED BY <1>3, <1>4, <1>5, FewerAreTracked DEF Tracked

LEMMA FewerTracked ==
    ASSUME Tracked, records' \subseteq records
    PROVE  Tracked'
BY FewerAreTracked DEF Tracked

\* One record more when there is room for it, or one in place of another.
LEMMA MoreTracked ==
    ASSUME Tracked, NEW S, S \subseteq records, NEW r \in Records,
           Cardinality(S) < Cardinality(Voices), records' = S \cup {r}
    PROVE  Tracked'
<1>1. /\ S \subseteq Records /\ IsFiniteSet(S)
      /\ Cardinality(S) \in Nat /\ Cardinality(Voices) \in Nat
  BY FewerAreTracked
<1>2. IsFiniteSet(records') /\ Cardinality(records') <= Cardinality(S) + 1
  BY <1>1, FS_AddElement
<1>3. Cardinality(records') \in Nat BY <1>2, FS_CardinalityType
<1> QED BY <1>1, <1>2, <1>3 DEF Tracked

LEMMA AdapterInitTyped == AdapterInit => AdapterTyped
<1> SUFFICES ASSUME AdapterInit PROVE AdapterTyped OBVIOUS
<1>1. Typed BY StartsSilent, SilentTyped
<1>2. Tracked
  BY FS_EmptySet, FS_CardinalityType, AudioAssumption DEF AdapterInit, Tracked
<1> QED BY <1>1, <1>2 DEF AdapterInit, AdapterTyped, Followed

LEMMA AdapterStepTyped ==
    ASSUME AdapterTyped, [AdapterNext]_avars
    PROVE  AdapterTyped'
<1>1. Typed' BY AdapterSteps, StepTyped DEF AdapterTyped, Tracked
<1>2. Followed'
  <2>1. resumed' \in BOOLEAN /\ focused' \in BOOLEAN /\ paused' \in BOOLEAN
    BY Zenon
       DEF AdapterTyped, Followed, AdapterNext, Platform, winit_resumed, winit_suspended,
           on_focus_lost, on_focus_gained, occluded, revealed, switch_to, set_muted, pump_audio,
           cooldown_passes, adapter_render, Device, Step, open_device, register_clips,
           attempt_resume, adapter_poll, adapter_suspend, sweep_finished, push_pending_stop,
           stops_pushed, push_pending_gain, gains_pushed, trigger, platform, avars
  <2>2. muted' \in BOOLEAN
    BY Zenon
       DEF AdapterTyped, Followed, AdapterNext, Platform, winit_resumed, winit_suspended,
           on_focus_lost, on_focus_gained, occluded, revealed, switch_to, set_muted, pump_audio,
           cooldown_passes, adapter_render, Device, Step, open_device, register_clips,
           attempt_resume, adapter_poll, adapter_suspend, sweep_finished, push_pending_stop,
           stops_pushed, push_pending_gain, gains_pushed, trigger, adapter, avars, Silence,
           ResumeIf
  <2>3. away' \in BOOLEAN
    BY Zenon
       DEF AdapterTyped, Followed, AdapterNext, Platform, winit_resumed, winit_suspended,
           on_focus_lost, on_focus_gained, occluded, revealed, switch_to, set_muted, pump_audio,
           cooldown_passes, adapter_render, Device, Step, open_device, register_clips,
           attempt_resume, adapter_poll, adapter_suspend, sweep_finished, push_pending_stop,
           stops_pushed, push_pending_gain, gains_pushed, trigger, adapter, avars, Silence,
           ResumeIf
  <2>4. retry' \in {"none", "waiting", "due"} /\ opened' \in {"none", "opening", "open"}
    BY DEF AdapterTyped, Followed, AdapterNext, Platform, winit_resumed, winit_suspended,
           on_focus_lost, on_focus_gained, occluded, revealed, switch_to, set_muted, pump_audio,
           cooldown_passes, adapter_render, Device, Step, open_device, register_clips,
           attempt_resume, adapter_poll, adapter_suspend, sweep_finished, push_pending_stop,
           stops_pushed, push_pending_gain, gains_pushed, trigger, adapter, avars, Silence,
           ResumeIf, Attempt
  <2> QED BY <2>1, <2>2, <2>3, <2>4 DEF Followed
<1>3. Tracked'
  <2> USE DEF AdapterTyped
  <2>1. CASE records' = Retired BY <2>1, RetiredTracked
  <2>2. CASE records' = Counted BY <2>2, CountedTracked
  <2>3. CASE records' \subseteq records BY <2>3, FewerTracked
  <2>4. CASE push_pending_gain
    <3>1. PICK r \in Detuned :
              \/ records' = records \ {r}
              \/ records' = (records \ {r}) \cup {[r EXCEPT !.silent = muted]}
      BY <2>4 DEF push_pending_gain
    <3>2. r \in records BY DEF Detuned
    <3>3. [r EXCEPT !.silent = muted] \in Records
      BY <3>2 DEF Tracked, Followed, Records
    <3>4. Cardinality(records \ {r}) < Cardinality(Voices)
      BY <3>2, FS_RemoveElement, FewerAreTracked DEF Tracked
    <3> QED BY <3>1, <3>3, <3>4, MoreTracked, FewerTracked
  <2>5. CASE trigger /\ records' # records
    <3>1. PICK v \in Voices, c \in Clips :
              /\ MayStart
              /\ records' = records \cup
                     {[voice |-> v, generation |-> voice_mirror'[v].generation,
                       retiring |-> FALSE, silent |-> FALSE, callbacks |-> 0]}
      BY <2>5 DEF trigger
    <3>2. voice_mirror'[v].generation \in Generations
      BY <1>1 DEF Typed, ControlOK, VoiceEntries
    <3>3. [voice |-> v, generation |-> voice_mirror'[v].generation,
           retiring |-> FALSE, silent |-> FALSE, callbacks |-> 0] \in Records
      BY <3>2 DEF Records
    <3> QED BY <3>1, <3>3, MoreTracked DEF MayStart
  <2> QED
    BY <2>1, <2>2, <2>3, <2>4, <2>5
       DEF AdapterNext, Platform, winit_resumed, winit_suspended,
           on_focus_lost, on_focus_gained, occluded, revealed, switch_to, set_muted, pump_audio,
           cooldown_passes, adapter_render, Device, Step, open_device, register_clips,
           attempt_resume, adapter_poll, adapter_suspend, sweep_finished, push_pending_stop,
           stops_pushed, gains_pushed, adapter, avars, Silence, ResumeIf
<1> QED BY <1>1, <1>2, <1>3 DEF AdapterTyped

\* Whatever the constants, calls, callbacks and faults: the service and the
\* callback stay within their types.
THEOREM AudioTypes == Spec => []AudioTypeOK
<1>1. Init => Typed BY StartsSilent, SilentTyped
<1>2. Typed /\ [Next]_vars => Typed' BY StepTyped DEF Next, Call, ServiceStep
<1> QED BY <1>1, <1>2, TypedIsTypeOK, PTL DEF Spec

\* So do they under the adapter, which never tracks more voices than there are
\* (apps/explorer/src/audio_service.rs, platform and step).
THEOREM AdapterTypes == AdapterSpec => []AdapterTypeOK
<1>1. AdapterInit => AdapterTyped BY AdapterInitTyped
<1>2. AdapterTyped /\ [AdapterNext]_avars => AdapterTyped' BY AdapterStepTyped
<1>3. AdapterTyped => AdapterTypeOK
  BY TypedIsTypeOK DEF AdapterTyped, Tracked, Followed, AdapterTypeOK
<1> QED BY <1>1, <1>2, <1>3, PTL DEF AdapterSpec

-----------------------------------------------------------------------------
(* The pool: each sample lies in one place.                                 *)

FreeIn(s, p) == {i \in DOMAIN s : p \in Cells(s[i])}
RetiredIn(q, p) == {i \in DOMAIN q : p \in Cells(q[i].range)}
RegisteredIn(m, p) == {c \in Clips : m[c].active /\ p \in Cells(m[c].range)}

\* Of the free list s, the retired ranges q and the clips m exactly one holds
\* the sample p, and it holds it once.
HeldOnce(s, q, m, p) ==
    \/ (\E i : FreeIn(s, p) = {i}) /\ RetiredIn(q, p) = {} /\ RegisteredIn(m, p) = {}
    \/ FreeIn(s, p) = {} /\ (\E i : RetiredIn(q, p) = {i}) /\ RegisteredIn(m, p) = {}
    \/ FreeIn(s, p) = {} /\ RetiredIn(q, p) = {} /\ \E c : RegisteredIn(m, p) = {c}

Pooled == \A p \in 1..PoolSize : HeldOnce(free_ranges, pending_ranges, clip_mirror, p)

LEMMA PooledIsPartition == Pooled => PoolPartition
<1> SUFFICES ASSUME Pooled, NEW p \in 1..PoolSize
             PROVE  Cardinality(FreeAt(p)) + Cardinality(RetiredAt(p))
                      + Cardinality(RegisteredAt(p)) = 1
  BY DEF PoolPartition
<1>1. HeldOnce(free_ranges, pending_ranges, clip_mirror, p) BY DEF Pooled
<1>2. /\ FreeAt(p) = FreeIn(free_ranges, p) /\ RetiredAt(p) = RetiredIn(pending_ranges, p)
      /\ RegisteredAt(p) = RegisteredIn(clip_mirror, p)
  BY DEF FreeAt, FreeIn, RetiredAt, RetiredIn, RegisteredAt, RegisteredIn
<1>3. \A S : (S = {} => Cardinality(S) = 0) /\ ((\E x : S = {x}) => Cardinality(S) = 1)
  BY FS_EmptySet, FS_Singleton
<1>4. \/ /\ Cardinality(FreeAt(p)) = 1 /\ Cardinality(RetiredAt(p)) = 0
         /\ Cardinality(RegisteredAt(p)) = 0
      \/ /\ Cardinality(FreeAt(p)) = 0 /\ Cardinality(RetiredAt(p)) = 1
         /\ Cardinality(RegisteredAt(p)) = 0
      \/ /\ Cardinality(FreeAt(p)) = 0 /\ Cardinality(RetiredAt(p)) = 0
         /\ Cardinality(RegisteredAt(p)) = 1
  BY <1>1, <1>2, <1>3, Zenon DEF HeldOnce
<1> QED BY <1>4

LEMMA SilentPooled ==
    ASSUME Silent
    PROVE  Pooled
<1> SUFFICES ASSUME NEW p \in 1..PoolSize
             PROVE  HeldOnce(free_ranges, pending_ranges, clip_mirror, p)
  BY DEF Pooled
<1>1. FreeIn(free_ranges, p) = {1}
  BY AudioAssumption DEF Silent, FreeIn, Cells
<1>2. RetiredIn(pending_ranges, p) = {} /\ RegisteredIn(clip_mirror, p) = {}
  BY DEF Silent, RetiredIn, RegisteredIn
<1> QED BY <1>1, <1>2 DEF HeldOnce

\* A prefix of the retired ranges comes to the end of the free list.
LEMMA ReclaimPooled ==
    ASSUME ControlOK, reclaim_acknowledged_ranges, NEW m, NEW p,
           HeldOnce(free_ranges, pending_ranges, m, p)
    PROVE  HeldOnce(Reclaimed, pending_ranges', m, p)
<1> DEFINE L == Len(free_ranges)
           A == Acknowledged
           q == pending_ranges'
<1>1. /\ free_ranges \in Seq(Ranges) /\ pending_ranges \in Seq(Owed)
      /\ A \in 0..Len(pending_ranges) /\ L \in Nat
  BY AcknowledgedIs DEF ControlOK
<1>2. /\ DOMAIN Reclaimed = 1..L + A
      /\ \A i \in 1..L : Reclaimed[i] = free_ranges[i]
      /\ \A i \in 1..A : Reclaimed[L + i] = pending_ranges[i].range
  BY <1>1, ReclaimedIs
<1>3. /\ DOMAIN q = 1..Len(pending_ranges) - A
      /\ \A i \in 1..Len(pending_ranges) - A : q[i] = pending_ranges[A + i]
  BY <1>1, ReclaimIs
<1> HIDE DEF L, A, q
<1>4. FreeIn(Reclaimed, p)
        = FreeIn(free_ranges, p) \cup {L + k : k \in {k \in RetiredIn(pending_ranges, p) : k <= A}}
  <2>1. ASSUME NEW i \in FreeIn(Reclaimed, p)
        PROVE  \/ i \in FreeIn(free_ranges, p)
               \/ \E k \in RetiredIn(pending_ranges, p) : k <= A /\ i = L + k
    <3>1. i \in 1..L + A /\ p \in Cells(Reclaimed[i]) BY <1>2 DEF FreeIn
    <3>2. CASE i <= L BY <3>1, <3>2, <1>1, <1>2 DEF FreeIn, L
    <3>3. CASE ~(i <= L)
      <4>1. i - L \in 1..A /\ L + (i - L) = i BY <3>1, <3>3, <1>1
      <4>2. Reclaimed[L + (i - L)] = pending_ranges[i - L].range BY <4>1, <1>2
      <4>3. i - L \in RetiredIn(pending_ranges, p)
        BY <4>1, <4>2, <3>1, <1>1 DEF RetiredIn
      <4> QED BY <4>1, <4>3
    <3> QED BY <3>2, <3>3
  <2>2. ASSUME NEW i \in FreeIn(free_ranges, p) PROVE i \in FreeIn(Reclaimed, p)
    BY <1>1, <1>2 DEF FreeIn, L
  <2>3. ASSUME NEW k \in RetiredIn(pending_ranges, p), k <= A PROVE L + k \in FreeIn(Reclaimed, p)
    <3>1. k \in 1..A BY <2>3, <1>1 DEF RetiredIn
    <3>2. L + k \in 1..L + A BY <3>1, <1>1
    <3> QED BY <3>1, <3>2, <1>2 DEF FreeIn, RetiredIn
  <2> QED BY <2>1, <2>2, <2>3
<1>5. RetiredIn(q, p) = {k - A : k \in {k \in RetiredIn(pending_ranges, p) : k > A}}
  <2>1. ASSUME NEW i \in RetiredIn(q, p)
        PROVE  A + i \in RetiredIn(pending_ranges, p) /\ A + i > A /\ i = (A + i) - A
    <3>1. i \in 1..Len(pending_ranges) - A /\ p \in Cells(q[i].range) BY <1>3 DEF RetiredIn
    <3>2. A + i \in 1..Len(pending_ranges) BY <3>1, <1>1
    <3> QED BY <3>1, <3>2, <1>1, <1>3 DEF RetiredIn
  <2>2. ASSUME NEW k \in RetiredIn(pending_ranges, p), k > A PROVE k - A \in RetiredIn(q, p)
    <3>1. k \in 1..Len(pending_ranges) BY <1>1 DEF RetiredIn
    <3>2. k - A \in 1..Len(pending_ranges) - A /\ A + (k - A) = k BY <3>1, <2>2, <1>1
    <3> QED BY <3>1, <3>2, <1>3 DEF RetiredIn
  <2> QED BY <2>1, <2>2
<1>6. \A k \in RetiredIn(pending_ranges, p) : k \in Int BY <1>1 DEF RetiredIn
<1>7. CASE RetiredIn(pending_ranges, p) = {}
  BY <1>4, <1>5, <1>7 DEF HeldOnce, q
<1>8. CASE RetiredIn(pending_ranges, p) # {}
  <2>1. PICK k : RetiredIn(pending_ranges, p) = {k} BY <1>8 DEF HeldOnce
  <2>2. FreeIn(free_ranges, p) = {} /\ RegisteredIn(m, p) = {} BY <1>8 DEF HeldOnce
  <2>3. CASE k <= A
    <3>1. FreeIn(Reclaimed, p) = {L + k} /\ RetiredIn(q, p) = {}
      BY <2>1, <2>2, <2>3, <1>4, <1>5, <1>6, <1>1
    <3> QED BY <3>1, <2>2 DEF HeldOnce, q
  <2>4. CASE ~(k <= A)
    <3>1. FreeIn(Reclaimed, p) = {} /\ RetiredIn(q, p) = {k - A}
      BY <2>1, <2>2, <2>4, <1>4, <1>5, <1>6, <1>1
    <3> QED BY <3>1, <2>2 DEF HeldOnce, q
  <2> QED BY <2>3, <2>4
<1> QED BY <1>7, <1>8

\* The front of a free range becomes the range of a clip that had none.
LEMMA CutPooled ==
    ASSUME ControlOK, NEW q, NEW p \in Nat, NEW n \in Lengths, Fitting(n) # {}, NEW i,
           i = First(Fitting(n)), NEW c \in Clips, ~clip_mirror[c].active, NEW m,
           m = [clip_mirror EXCEPT ![c] = m[c]], m[c].active,
           m[c].range = [start |-> Reclaimed[i].start, samples |-> n],
           HeldOnce(Reclaimed, q, clip_mirror, p)
    PROVE  HeldOnce(Cut(i, n), q, m, p)
<1> DEFINE R == Reclaimed
           F == Cut(i, n)
<1>1. R \in Seq(Ranges) /\ i \in 1..Len(R) /\ R[i] \in Ranges /\ R[i].samples >= n
  BY ReclaimedInside, CutInside
<1>2. n \in Nat \ {0} /\ PoolSize \in Nat BY AudioAssumption
<1>3. R[i].start \in Nat /\ R[i].samples \in Nat BY <1>1 DEF Ranges
<1> HIDE DEF R, F
<1>4. RegisteredIn(m, p) = RegisteredIn(clip_mirror, p)
                              \cup (IF p \in Cells(m[c].range) THEN {c} ELSE {})
  <2>1. clip_mirror \in [Clips -> ClipEntries] BY DEF ControlOK
  <2>2. \A d \in Clips \ {c} : m[d] = clip_mirror[d] BY <2>1
  <2> QED BY <2>2 DEF RegisteredIn
<1>a. p \in Cells(m[c].range) <=> R[i].start < p /\ p <= R[i].start + n
  <2>1. m[c].range.start = R[i].start /\ m[c].range.samples = n BY DEF R
  <2> QED BY <2>1, <1>2, <1>3 DEF Cells
<1>b. p \in Cells(Shorter(R[i], n)) <=> R[i].start + n < p /\ p <= R[i].start + R[i].samples
  <2>1. /\ Shorter(R[i], n).start = R[i].start + n
        /\ Shorter(R[i], n).samples = R[i].samples - n
    BY DEF Shorter
  <2> QED BY <2>1, <1>2, <1>3 DEF Cells
<1>5. p \in Cells(R[i]) <=> p \in Cells(m[c].range) \/ p \in Cells(Shorter(R[i], n))
  <2>1. p \in Cells(R[i]) <=> R[i].start < p /\ p <= R[i].start + R[i].samples
    BY <1>3 DEF Cells
  <2>2. \A x, y \in Nat : y >= n =>
           (x < p /\ p <= x + y <=> (x < p /\ p <= x + n) \/ (x + n < p /\ p <= x + y))
    BY <1>2
  <2>3. R[i].start < p /\ p <= R[i].start + R[i].samples
          <=> \/ R[i].start < p /\ p <= R[i].start + n
              \/ R[i].start + n < p /\ p <= R[i].start + R[i].samples
    BY <2>2, <1>1, <1>3
  <2> QED BY Zenon, <2>1, <2>3, <1>a, <1>b
<1>6. ~(p \in Cells(m[c].range) /\ p \in Cells(Shorter(R[i], n)))
  BY <1>a, <1>b, <1>2, <1>3
<1>7. /\ \A j \in FreeIn(R, p) : j \in 1..Len(R)
      /\ FreeIn(R, p) \in SUBSET (1..Len(R))
  BY <1>1 DEF FreeIn
<1>8. CASE R[i].samples = n
  <2>1. F = Without(R, i) BY <1>8 DEF Cut, F, R
  <2>2. /\ DOMAIN F = 1..Len(R) - 1
        /\ \A j \in 1..Len(R) - 1 : F[j] = IF j < i THEN R[j] ELSE R[j + 1]
    <3>1. /\ Without(R, i) \in Seq(Ranges) /\ Len(Without(R, i)) = Len(R) - 1
          /\ \A j \in 1..Len(R) - 1 :
                Without(R, i)[j] = IF j < i THEN R[j] ELSE R[j + 1]
      BY <1>1, WithoutIs
    <3> QED BY <2>1, <3>1, <1>1
  <2>3. Cells(Shorter(R[i], n)) = {} BY <1>8, <1>2, <1>3 DEF Shorter, Cells
  <2>4. ASSUME NEW j \in FreeIn(F, p)
        PROVE  IF j < i THEN j \in FreeIn(R, p) ELSE j + 1 \in FreeIn(R, p) /\ j + 1 # i
    <3>1. j \in 1..Len(R) - 1 /\ p \in Cells(F[j]) BY <2>2 DEF FreeIn
    <3>2. j \in 1..Len(R) /\ j + 1 \in 1..Len(R) BY <3>1, <1>1
    <3> QED BY <3>1, <3>2, <2>2, <1>1 DEF FreeIn
  <2>5. ASSUME NEW j \in FreeIn(R, p), j # i
        PROVE  IF j < i THEN j \in FreeIn(F, p) ELSE j - 1 \in FreeIn(F, p)
    <3>1. j \in 1..Len(R) /\ p \in Cells(R[j]) BY <1>7 DEF FreeIn
    <3>2. CASE j < i
      <4>1. j \in 1..Len(R) - 1 BY <3>1, <3>2, <1>1
      <4> QED BY <4>1, <3>1, <3>2, <2>2 DEF FreeIn
    <3>3. CASE ~(j < i)
      <4>1. j - 1 \in 1..Len(R) - 1 /\ ~(j - 1 < i) /\ (j - 1) + 1 = j
        BY <3>1, <3>3, <2>5, <1>1
      <4>2. F[j - 1] = R[j] BY <4>1, <2>2
      <4> QED BY <4>1, <4>2, <3>1, <3>3, <2>2 DEF FreeIn
    <3> QED BY <3>2, <3>3
  <2>6. CASE FreeIn(R, p) = {}
    <3>1. FreeIn(F, p) = {} BY <2>4, <2>6
    <3>2. p \notin Cells(m[c].range) BY <2>6, <1>1, <1>5 DEF FreeIn
    <3> QED BY <3>1, <3>2, <2>6, <1>4 DEF HeldOnce, F, R
  <2>7. CASE FreeIn(R, p) # {}
    <3>1. PICK j : FreeIn(R, p) = {j} BY <2>7 DEF HeldOnce, R
    <3>2. RetiredIn(q, p) = {} /\ RegisteredIn(clip_mirror, p) = {}
      BY <2>7 DEF HeldOnce, R
    <3>3. CASE j = i
      <4>1. p \in Cells(R[i]) BY <3>1, <3>3 DEF FreeIn
      <4>2. RegisteredIn(m, p) = {c} BY <4>1, <1>4, <1>5, <2>3, <3>2
      <4>3. FreeIn(F, p) = {}
        <5>1. ASSUME NEW x \in FreeIn(F, p) PROVE FALSE
          BY <2>4, <3>1, <3>3, <1>1
        <5> QED BY <5>1
      <4> QED BY <4>2, <4>3, <3>2 DEF HeldOnce, F
    <3>4. CASE j # i
      <4>1. p \notin Cells(R[i]) BY <3>1, <3>4, <1>1 DEF FreeIn
      <4>2. RegisteredIn(m, p) = {} BY <4>1, <1>4, <1>5, <3>2
      <4>3. j \in 1..Len(R) BY <3>1, <1>7
      <4>4. ASSUME NEW x \in FreeIn(F, p)
            PROVE  x = IF j < i THEN j ELSE j - 1
        <5>1. x \in 1..Len(R) - 1 BY <2>2 DEF FreeIn
        <5> QED BY <5>1, <2>4, <3>1, <4>3, <1>1
      <4>5. FreeIn(F, p) = {IF j < i THEN j ELSE j - 1} BY <4>4, <2>5, <3>1, <3>4
      <4> QED BY <4>2, <4>5, <3>2 DEF HeldOnce, F
    <3> QED BY <3>3, <3>4
  <2> QED BY <2>6, <2>7
<1>9. CASE R[i].samples # n
  <2>1. F = [R EXCEPT ![i] = Shorter(R[i], n)] BY <1>9 DEF Cut, F, R, Shorter
  <2>2. FreeIn(F, p) = (FreeIn(R, p) \ {i})
                          \cup (IF p \in Cells(Shorter(R[i], n)) THEN {i} ELSE {})
    BY <2>1, <1>1 DEF FreeIn
  <2>3. p \in Cells(R[i]) <=> i \in FreeIn(R, p) BY <1>1 DEF FreeIn
  <2>4. CASE p \in Cells(m[c].range)
    <3>1. FreeIn(R, p) = {i} /\ RetiredIn(q, p) = {} /\ RegisteredIn(clip_mirror, p) = {}
      BY <2>3, <2>4, <1>5 DEF HeldOnce, R
    <3>2. FreeIn(F, p) = {} /\ RegisteredIn(m, p) = {c} BY <3>1, <2>2, <2>4, <1>4, <1>6
    <3> QED BY <3>1, <3>2 DEF HeldOnce, F
  <2>5. CASE p \notin Cells(m[c].range)
    <3>1. FreeIn(F, p) = FreeIn(R, p) BY <2>2, <2>3, <2>5, <1>5
    <3>2. RegisteredIn(m, p) = RegisteredIn(clip_mirror, p) BY <2>5, <1>4
    <3> QED BY <3>1, <3>2 DEF HeldOnce, F, R
  <2> QED BY <2>4, <2>5
<1> QED BY <1>8, <1>9

LEMMA RegisterPooled ==
    ASSUME Typed, Pooled, NEW n \in Lengths, register_clip(n) \/ register_refused(n)
    PROVE  Pooled'
<1> SUFFICES ASSUME NEW p \in 1..PoolSize
             PROVE  HeldOnce(free_ranges', pending_ranges', clip_mirror', p)
  BY DEF Pooled
<1>1. HeldOnce(Reclaimed, pending_ranges', clip_mirror, p)
  BY ReclaimPooled DEF Pooled, Typed, register_clip, register_refused
<1>2. CASE register_refused(n) BY <1>1, <1>2 DEF register_refused
<1>3. CASE register_clip(n)
  <2> DEFINE c == First(Inactive)
             i == First(Fitting(n))
             m == clip_mirror'
             e == [generation |-> next_generation(clip_mirror[c].generation), active |-> TRUE,
                   range |-> [start |-> Reclaimed[i].start, samples |-> n]]
  <2>1. c \in Clips /\ ~clip_mirror[c].active
    BY <1>3, FirstIs, AudioAssumption DEF register_clip, Inactive
  <2>2. m = [clip_mirror EXCEPT ![c] = e] /\ free_ranges' = Cut(i, n) BY <1>3 DEF register_clip
  <2>3. e.active /\ e.range = [start |-> Reclaimed[i].start, samples |-> n] OBVIOUS
  <2>4. clip_mirror \in [Clips -> ClipEntries] /\ ControlOK BY DEF Typed, ControlOK
  <2>5. Fitting(n) # {} /\ i = First(Fitting(n)) BY <1>3 DEF register_clip
  <2> HIDE DEF c, i, m, e
  <2>6. m[c] = e /\ m = [clip_mirror EXCEPT ![c] = m[c]] BY <2>1, <2>2, <2>4
  <2>7. HeldOnce(Cut(i, n), pending_ranges', m, p)
    BY <1>1, <2>1, <2>3, <2>4, <2>5, <2>6, CutPooled
  <2> QED BY <2>2, <2>7 DEF m
<1> QED BY <1>2, <1>3

LEMMA UnregisterPooled ==
    ASSUME Typed, Pooled, NEW c \in Clips, unregister_clip(c)
    PROVE  Pooled'
<1> SUFFICES ASSUME NEW p \in 1..PoolSize
             PROVE  HeldOnce(free_ranges', pending_ranges', clip_mirror', p)
  BY DEF Pooled
<1> DEFINE L == Len(pending_ranges)
           r == clip_mirror[c].range
           o == [range |-> r, wait |-> Sequence]
<1>1. HeldOnce(free_ranges, pending_ranges, clip_mirror, p) BY DEF Pooled
<1>2. /\ pending_ranges \in Seq(Owed) /\ L \in Nat /\ clip_mirror[c].active
      /\ clip_mirror \in [Clips -> ClipEntries]
  BY DEF Typed, ControlOK, unregister_clip
<1>3. /\ free_ranges' = free_ranges /\ pending_ranges' = Append(pending_ranges, o)
      /\ \A d \in Clips : IF d = c THEN ~clip_mirror'[d].active
                          ELSE clip_mirror'[d] = clip_mirror[d]
  BY <1>2 DEF unregister_clip
<1>4. RegisteredIn(clip_mirror', p) = RegisteredIn(clip_mirror, p) \ {c}
  BY <1>3 DEF RegisteredIn
<1>5. c \in RegisteredIn(clip_mirror, p) <=> p \in Cells(r) BY <1>2 DEF RegisteredIn
<1>6. RetiredIn(pending_ranges', p)
        = RetiredIn(pending_ranges, p) \cup (IF p \in Cells(r) THEN {L + 1} ELSE {})
  <2>1. /\ DOMAIN pending_ranges' = 1..L + 1 /\ DOMAIN pending_ranges = 1..L
        /\ \A i \in 1..L : pending_ranges'[i] = pending_ranges[i]
        /\ pending_ranges'[L + 1].range = r
    BY <1>2, <1>3
  <2> HIDE DEF L, r
  <2> QED BY <2>1, <1>2 DEF RetiredIn
<1> HIDE DEF L, r, o
<1>7. CASE p \in Cells(r)
  <2>1. /\ FreeIn(free_ranges, p) = {} /\ RetiredIn(pending_ranges, p) = {}
        /\ RegisteredIn(clip_mirror, p) = {c}
    BY <1>1, <1>5, <1>7 DEF HeldOnce
  <2>2. RetiredIn(pending_ranges', p) = {L + 1} /\ RegisteredIn(clip_mirror', p) = {}
    BY <2>1, <1>4, <1>6, <1>7
  <2> QED BY <2>1, <2>2, <1>3 DEF HeldOnce
<1>8. CASE p \notin Cells(r)
  <2>1. /\ RetiredIn(pending_ranges', p) = RetiredIn(pending_ranges, p)
        /\ RegisteredIn(clip_mirror', p) = RegisteredIn(clip_mirror, p)
    BY <1>4, <1>5, <1>6, <1>8
  <2> QED BY <2>1, <1>1, <1>3 DEF HeldOnce
<1> QED BY <1>7, <1>8

LEMMA StepPooled ==
    ASSUME Typed, Pooled, ServiceStep \/ Opens \/ UNCHANGED vars
    PROVE  Pooled'
<1>1. CASE \E n \in Lengths : register_clip(n) \/ register_refused(n)
  BY <1>1, RegisterPooled
<1>2. CASE \E c \in Clips : unregister_clip(c) BY <1>2, UnregisterPooled
<1>3. CASE UNCHANGED <<free_ranges, pending_ranges, clip_mirror>> BY <1>3 DEF Pooled
<1>4. CASE publish_applied
  <2> SUFFICES ASSUME NEW p \in 1..PoolSize
               PROVE  HeldOnce(free_ranges', pending_ranges', clip_mirror', p)
    BY DEF Pooled
  <2>1. HeldOnce(free_ranges, pending_ranges, clip_mirror, p) BY DEF Pooled
  <2>2. RetiredIn(pending_ranges', p) = RetiredIn(pending_ranges, p)
    <3>1. /\ DOMAIN pending_ranges' = DOMAIN pending_ranges
          /\ \A i \in DOMAIN pending_ranges : pending_ranges'[i].range = pending_ranges[i].range
      <4>1. DOMAIN pending_ranges = 1..Len(pending_ranges) BY DEF Typed, ControlOK
      <4> QED BY <1>4, <4>1, PublishIs DEF Typed
    <3> QED BY <3>1 DEF RetiredIn
  <2>3. free_ranges' = free_ranges /\ clip_mirror' = clip_mirror BY <1>4 DEF publish_applied
  <2> QED BY <2>1, <2>2, <2>3 DEF HeldOnce
<1> QED
  BY <1>1, <1>2, <1>3, <1>4
     DEF ServiceStep, Opens, vars, Request, Render, play, stop_voice, set_voice_gain, suspend,
         resume, resume_paused, resume_lost, resume_replaced, poll_device, stream_pauses,
         lose_device, begin_callback, drain, mix, count_callback, control

-----------------------------------------------------------------------------
(* What the mixer will be.  The control thread pushes a command for a mixer *)
(* it knows only by late atomics; the invariant is that some course of the  *)
(* mixer through the whole queue accepts every command, reads nothing it    *)
(* does not own on the way, and ends where the control thread believes.     *)

\* The mixer at s and w accepts the command m and is at s2 and w2 after it.
Performs(m, s, w, s2, w2) ==
    \/ /\ m.op = "LoadClip" /\ w2 = w
       /\ s2 = [s EXCEPT ![m.clip] = [generation |-> m.generation, active |-> TRUE]]
    \/ /\ m.op = "UnloadClip" /\ s[m.clip].active /\ s[m.clip].generation = m.generation
       /\ s2 = [s EXCEPT ![m.clip].active = FALSE]
       /\ w2 = [v \in Voices |-> IF w[v].clip = m.clip THEN [w[v] EXCEPT !.active = FALSE]
                                 ELSE w[v]]
    \/ /\ m.op = "Play" /\ s[m.clip].active /\ s[m.clip].generation = m.clip_generation
       /\ ~w[m.voice].active /\ s2 = s
       /\ w2 = [w EXCEPT ![m.voice] = [generation |-> m.generation, active |-> TRUE,
                                       clip |-> m.clip, range |-> m.range]]
    \/ /\ m.op = "Stop" /\ w[m.voice].generation = m.generation /\ s2 = s
       /\ w2 = [w EXCEPT ![m.voice].active = FALSE]
    \/ /\ m.op = "SetGain" /\ w[m.voice].generation = m.generation /\ s2 = s /\ w2 = w
    \/ /\ m.op \in {"Suspend", "Resume"} /\ s2 = s /\ w2 = w

\* The course of the mixer through the commands q.
Course(q, s, w) ==
    /\ s \in [0..Len(q) -> [Clips -> Slots]] /\ w \in [0..Len(q) -> [Voices -> Sounding]]
    /\ \A i \in 1..Len(q) : Performs(q[i], s[i - 1], w[i - 1], s[i], w[i])

\* What is played after i more commands belongs to its clip, or is retired
\* and not acknowledged by then.
Owned(i, s, w) ==
    \A v \in Voices : w[v].active =>
        \/ /\ clip_mirror[w[v].clip].active
           /\ clip_mirror[w[v].clip].generation = s[w[v].clip].generation
           /\ clip_mirror[w[v].clip].range = w[v].range
        \/ \E k \in DOMAIN pending_ranges :
              pending_ranges[k].range = w[v].range /\ pending_ranges[k].wait > drained + i

\* The commands that the mask of live voices has seen.
Covered == IF callback \in {"mixed", "counted"} THEN drained ELSE 0

ClipsAgree(s) ==
    \A c \in Clips : /\ s[c].active <=> clip_mirror[c].active
                     /\ s[c].active => s[c].generation = clip_mirror[c].generation
VoiceAgrees(w, v) ==
    /\ w[v].generation = voice_mirror[v].generation /\ w[v].clip = voice_mirror[v].clip
    /\ w[v].active => /\ voice_mirror[v].live
                      /\ voice_mirror[v].wait <= Covered => v \in live_mask
Agrees(s, w) == ClipsAgree(s) /\ \A v \in Voices : VoiceAgrees(w, v)

Foretells(q, s, w) ==
    /\ Course(q, s, w) /\ s[0] = slots /\ w[0] = voices
    /\ \A i \in 0..Len(q) : Owned(i, s[i], w[i])
    /\ Agrees(s[Len(q)], w[Len(q)])

NothingAhead == \A k \in DOMAIN pending_ranges : pending_ranges[k].wait <= drained + Len(queue)
Foretold == NothingAhead /\ ~rt_rejected /\ \E s, w : Foretells(queue, s, w)

LEMMA SilentForetold ==
    ASSUME Silent, Typed
    PROVE  Foretold
<1> DEFINE s == [i \in 0..0 |-> slots]
           w == [i \in 0..0 |-> voices]
<1>1. queue = << >> /\ Len(queue) = 0 BY DEF Silent
<1>2. slots \in [Clips -> Slots] /\ voices \in [Voices -> Sounding] BY DEF Typed, MixerOK
<1>3. Course(queue, s, w) /\ s[0] = slots /\ w[0] = voices BY <1>1, <1>2 DEF Course
<1>4. Owned(0, slots, voices) /\ Agrees(slots, voices)
  BY DEF Silent, Owned, Agrees, ClipsAgree, VoiceAgrees
<1> HIDE DEF s, w
<1>5. \A i \in 0..Len(queue) : i = 0 BY <1>1
<1>6. Foretells(queue, s, w) BY <1>1, <1>3, <1>4, <1>5 DEF Foretells
<1>7. NothingAhead /\ ~rt_rejected BY DEF Silent, NothingAhead
<1> QED BY <1>6, <1>7 DEF Foretold

\* What a step of the course leaves of the types.
LEMMA PerformsTyped ==
    ASSUME NEW m \in Commands, NEW s \in [Clips -> Slots], NEW w \in [Voices -> Sounding],
           NEW s2, NEW w2, Performs(m, s, w, s2, w2)
    PROVE  s2 \in [Clips -> Slots] /\ w2 \in [Voices -> Sounding]
<1>1. CASE m.op = "LoadClip"
  <2>1. m.clip \in Clips /\ m.generation \in Generations BY <1>1 DEF Commands
  <2>2. [generation |-> m.generation, active |-> TRUE] \in Slots BY <2>1 DEF Slots
  <2> QED BY <1>1, <2>1, <2>2 DEF Performs
<1>2. CASE m.op = "UnloadClip"
  <2>1. s2 = [s EXCEPT ![m.clip].active = FALSE] BY <1>2 DEF Performs
  <2>2. w2 = [v \in Voices |-> IF w[v].clip = m.clip THEN [w[v] EXCEPT !.active = FALSE]
                               ELSE w[v]]
    BY <1>2 DEF Performs
  <2>3. s2 \in [Clips -> Slots] BY <2>1 DEF Slots
  <2>4. w2 \in [Voices -> Sounding] BY <2>2 DEF Sounding
  <2> QED BY <2>3, <2>4
<1>3. CASE m.op = "Play"
  <2>1. /\ m.clip \in Clips /\ m.generation \in Generations /\ m.voice \in Voices
        /\ m.range \in Ranges
    BY <1>3 DEF Commands
  <2>2. [generation |-> m.generation, active |-> TRUE, clip |-> m.clip, range |-> m.range]
          \in Sounding
    BY <2>1 DEF Sounding
  <2> QED BY <1>3, <2>1, <2>2 DEF Performs
<1>4. CASE m.op = "Stop"
  <2>1. s2 = s /\ w2 = [w EXCEPT ![m.voice].active = FALSE] BY <1>4 DEF Performs
  <2>2. \A x \in Sounding : [x EXCEPT !.active = FALSE] \in Sounding BY DEF Sounding
  <2> QED BY <2>1, <2>2
<1>5. CASE m.op \notin {"LoadClip", "UnloadClip", "Play", "Stop"} BY <1>5 DEF Performs
<1> QED BY <1>1, <1>2, <1>3, <1>4, <1>5

\* One command more at the end of a course.
Longer(q, f, last) == [i \in 0..Len(q) + 1 |-> IF i = Len(q) + 1 THEN last ELSE f[i]]

LEMMA CourseGrows ==
    ASSUME NEW q \in Seq(Commands), NEW s, NEW w, Course(q, s, w), NEW m \in Commands,
           NEW s2, NEW w2, Performs(m, s[Len(q)], w[Len(q)], s2, w2)
    PROVE  Course(Append(q, m), Longer(q, s, s2), Longer(q, w, w2))
<1> DEFINE n == Len(q)
           t == Longer(q, s, s2)
           x == Longer(q, w, w2)
           r == Append(q, m)
<1>1. /\ n \in Nat /\ Len(r) = n + 1 /\ r[n + 1] = m
      /\ \A i \in 1..n : r[i] = q[i]
  OBVIOUS
<1>2. /\ s \in [0..n -> [Clips -> Slots]] /\ w \in [0..n -> [Voices -> Sounding]]
      /\ \A i \in 1..n : Performs(q[i], s[i - 1], w[i - 1], s[i], w[i])
      /\ Performs(m, s[n], w[n], s2, w2)
  BY DEF Course
<1> HIDE DEF n, r
<1>3. s2 \in [Clips -> Slots] /\ w2 \in [Voices -> Sounding]
  <2>1. s[n] \in [Clips -> Slots] /\ w[n] \in [Voices -> Sounding] BY <1>1, <1>2
  <2> QED BY <2>1, <1>2, PerformsTyped
<1>4. /\ t \in [0..n + 1 -> [Clips -> Slots]] /\ x \in [0..n + 1 -> [Voices -> Sounding]]
      /\ t[n + 1] = s2 /\ x[n + 1] = w2
  BY <1>1, <1>2, <1>3 DEF Longer, n
<1>5. \A i \in 0..n : t[i] = s[i] /\ x[i] = w[i] BY <1>1 DEF Longer, n
<1> HIDE DEF t, x
<1>6. ASSUME NEW i \in 1..n + 1 PROVE Performs(r[i], t[i - 1], x[i - 1], t[i], x[i])
  <2>1. CASE i = n + 1
    <3>1. t[i - 1] = s[n] /\ x[i - 1] = w[n] BY <2>1, <1>1, <1>5
    <3>2. t[i] = s2 /\ x[i] = w2 /\ r[i] = m BY <2>1, <1>1, <1>4
    <3> QED BY <3>1, <3>2, <1>2
  <2>2. CASE i # n + 1
    <3>1. i \in 1..n /\ i - 1 \in 0..n /\ i \in 0..n BY <2>2, <1>1
    <3>2. t[i] = s[i] /\ x[i] = w[i] /\ t[i - 1] = s[i - 1] /\ x[i - 1] = w[i - 1] BY <3>1, <1>5
    <3>3. r[i] = q[i] BY <3>1, <1>1
    <3> QED BY <3>1, <3>2, <3>3, <1>2
  <2> QED BY <2>1, <2>2
<1>7. Course(r, t, x) BY <1>1, <1>4, <1>6 DEF Course
<1> QED BY <1>7 DEF n, r, t, x

\* A push after which the control thread again agrees with the end.
LEMMA PushForetold ==
    ASSUME Typed, NEW s, NEW w, Foretells(queue, s, w), UNCHANGED <<slots, voices>>,
           NEW n, n = Len(queue), NEW m \in Commands, push(m), NEW s2, NEW w2,
           Performs(m, s[n], w[n], s2, w2),
           \A i \in 0..n : Owned(i, s[i], w[i])',
           Owned(n + 1, s2, w2)', Agrees(s2, w2)'
    PROVE  (\E t, x : Foretells(queue, t, x))'
<1>1. queue \in Seq(Commands) /\ queue' = Append(queue, m) BY DEF Typed, QueueOK, push
<1>2. PICK t, x : t = Longer(queue, s, s2) /\ x = Longer(queue, w, w2) OBVIOUS
<1>3. Len(queue') = n + 1 /\ n \in Nat BY <1>1
<1>4. /\ \A i \in 0..n : t[i] = s[i] /\ x[i] = w[i]
      /\ t[n + 1] = s2 /\ x[n + 1] = w2
      /\ t[0] = slots /\ x[0] = voices
  BY <1>2, <1>3 DEF Longer, Foretells
<1>5. ASSUME NEW i \in 0..n + 1 PROVE Owned(i, t[i], x[i])'
  <2>1. CASE i = n + 1 BY <2>1, <1>4
  <2>2. CASE i # n + 1
    <3>1. i \in 0..n BY <2>2, <1>3
    <3> QED BY <3>1, <1>4
  <2> QED BY <2>1, <2>2
<1>6. Course(queue', t, x) BY <1>1, <1>2, CourseGrows DEF Foretells
<1>7. Agrees(t[n + 1], x[n + 1])' BY <1>4
<1>8. t[0] = slots' /\ x[0] = voices' BY <1>4
<1>9. Foretells(queue, t, x)' BY <1>3, <1>5, <1>6, <1>7, <1>8 DEF Foretells
<1> QED BY <1>9

LEMMA WaitsAre ==
    ASSUME Typed
    PROVE  /\ pending_ranges \in Seq(Owed) /\ drained \in Nat
           /\ DOMAIN pending_ranges = 1..Len(pending_ranges)
           /\ \A k \in DOMAIN pending_ranges : pending_ranges[k].wait \in Nat
<1>1. pending_ranges \in Seq(Owed) /\ drained \in Nat BY DEF Typed, ControlOK, QueueOK
<1>2. \A k \in DOMAIN pending_ranges : pending_ranges[k] \in Owed BY <1>1
<1> QED BY <1>1, <1>2 DEF Owed

\* A command after which the mixer plays and has loaded what it did before.
LEMMA NeutralForetells ==
    ASSUME Typed, NEW q \in Seq(Commands), NEW s, NEW w, Foretells(q, s, w),
           \A k \in DOMAIN pending_ranges : pending_ranges[k].wait <= drained + Len(q),
           NEW m \in Commands, Performs(m, s[Len(q)], w[Len(q)], s[Len(q)], w[Len(q)])
    PROVE  Foretells(Append(q, m), Longer(q, s, s[Len(q)]), Longer(q, w, w[Len(q)]))
<1> DEFINE n == Len(q)
           t == Longer(q, s, s[n])
           x == Longer(q, w, w[n])
<1>1. Course(Append(q, m), t, x) BY CourseGrows DEF Foretells
<1>2. Len(Append(q, m)) = n + 1 /\ n \in Nat OBVIOUS
<1>3. /\ \A i \in 0..n : t[i] = s[i] /\ x[i] = w[i]
      /\ t[n + 1] = s[n] /\ x[n + 1] = w[n]
      /\ t[0] = slots /\ x[0] = voices
  BY <1>2 DEF Longer, Foretells
<1> HIDE DEF t, x
<1>4. ASSUME NEW i \in 0..n + 1 PROVE Owned(i, t[i], x[i])
  <2>1. CASE i = n + 1
    <3>1. Owned(n, s[n], w[n]) BY <1>2 DEF Foretells
    <3>2. Owned(n + 1, s[n], w[n])
      <4>1. ~\E k \in DOMAIN pending_ranges : pending_ranges[k].wait > drained + n
        BY <1>2, WaitsAre
      <4> QED BY <3>1, <4>1 DEF Owned
    <3> QED BY <2>1, <1>3, <3>2
  <2>2. CASE i # n + 1
    <3>1. i \in 0..n BY <2>2, <1>2
    <3> QED BY <3>1, <1>3 DEF Foretells
  <2> QED BY <2>1, <2>2
<1>5. Agrees(t[n + 1], x[n + 1]) BY <1>3 DEF Foretells
<1>6. Foretells(Append(q, m), t, x) BY <1>1, <1>2, <1>3, <1>4, <1>5 DEF Foretells
<1> QED BY <1>6 DEF t, x

\* At the end of the queue no retired range is played any more.
LEMMA EndOwns ==
    ASSUME Typed, NothingAhead, NEW s, NEW w, Foretells(queue, s, w), NEW n, n = Len(queue)
    PROVE  /\ n \in Nat
           /\ \A i \in 0..n : s[i] \in [Clips -> Slots] /\ w[i] \in [Voices -> Sounding]
           /\ \A v \in Voices : w[n][v].active =>
                 /\ clip_mirror[w[n][v].clip].active
                 /\ clip_mirror[w[n][v].clip].generation = s[n][w[n][v].clip].generation
                 /\ clip_mirror[w[n][v].clip].range = w[n][v].range
<1>1. n \in Nat BY DEF Typed, QueueOK
<1>2. \A i \in 0..n : s[i] \in [Clips -> Slots] /\ w[i] \in [Voices -> Sounding]
  BY DEF Foretells, Course
<1>3. Owned(n, s[n], w[n]) BY <1>1 DEF Foretells
<1>4. ~\E k \in DOMAIN pending_ranges : pending_ranges[k].wait > drained + n
  BY <1>1, WaitsAre DEF NothingAhead
<1> QED BY <1>1, <1>2, <1>3, <1>4 DEF Owned

\* What is reclaimed is acknowledged, so it is played no more.
LEMMA ReclaimOwned ==
    ASSUME Typed, reclaim_acknowledged_ranges, UNCHANGED drained, NEW i \in Nat, NEW s, NEW w,
           Owned(i, s, w),
           \A v \in Voices : w[v].active /\ clip_mirror[w[v].clip].active =>
                clip_mirror'[w[v].clip] = clip_mirror[w[v].clip]
    PROVE  Owned(i, s, w)'
<1> SUFFICES ASSUME NEW v \in Voices, w[v].active,
                    NEW k \in DOMAIN pending_ranges,
                    pending_ranges[k].range = w[v].range, pending_ranges[k].wait > drained + i
             PROVE  \E j \in DOMAIN pending_ranges' :
                        pending_ranges'[j].range = w[v].range
                        /\ pending_ranges'[j].wait > drained' + i
  BY DEF Owned
<1>1. /\ pending_ranges \in Seq(Owed) /\ drained \in Nat
      /\ Acknowledged \in 0..Len(pending_ranges)
      /\ \A j \in 1..Acknowledged : pending_ranges[j].wait = 0
  BY AcknowledgedIs DEF Typed, ControlOK, QueueOK
<1>2. k \in 1..Len(pending_ranges) /\ ~(k \in 1..Acknowledged) BY <1>1
<1>3. /\ pending_ranges' \in Seq(Owed)
      /\ Len(pending_ranges') = Len(pending_ranges) - Acknowledged
      /\ \A j \in 1..Len(pending_ranges') :
                 pending_ranges'[j] = pending_ranges[Acknowledged + j]
  BY <1>1, ReclaimIs
<1>4. k - Acknowledged \in 1..Len(pending_ranges') /\ Acknowledged + (k - Acknowledged) = k
  BY <1>1, <1>2, <1>3
<1>5. k - Acknowledged \in DOMAIN pending_ranges' BY <1>3, <1>4
<1> QED BY <1>3, <1>4, <1>5

LEMMA ReclaimNothingAhead ==
    ASSUME Typed, NothingAhead, reclaim_acknowledged_ranges, UNCHANGED drained,
           Len(queue') \in Nat, Len(queue') >= Len(queue)
    PROVE  NothingAhead'
<1> SUFFICES ASSUME NEW j \in DOMAIN pending_ranges'
             PROVE  pending_ranges'[j].wait <= drained' + Len(queue')
  BY DEF NothingAhead
<1>1. /\ pending_ranges \in Seq(Owed) /\ drained \in Nat /\ Len(queue) \in Nat
      /\ Acknowledged \in 0..Len(pending_ranges)
  BY AcknowledgedIs DEF Typed, ControlOK, QueueOK
<1>2. /\ j \in 1..Len(pending_ranges) - Acknowledged
      /\ pending_ranges'[j] = pending_ranges[Acknowledged + j]
  <2>1. /\ pending_ranges' \in Seq(Owed)
        /\ Len(pending_ranges') = Len(pending_ranges) - Acknowledged
        /\ \A i \in 1..Len(pending_ranges') :
                 pending_ranges'[i] = pending_ranges[Acknowledged + i]
    BY <1>1, ReclaimIs
  <2>2. j \in 1..Len(pending_ranges') BY <2>1
  <2> QED BY <2>1, <2>2
<1>3. Acknowledged + j \in 1..Len(pending_ranges) BY <1>1, <1>2
<1>4. pending_ranges[Acknowledged + j] \in Owed BY <1>1, <1>3
<1>5. pending_ranges[Acknowledged + j].wait <= drained + Len(queue)
  BY <1>1, <1>3 DEF NothingAhead
<1>6. pending_ranges'[j].wait \in Nat /\ pending_ranges'[j].wait <= drained + Len(queue)
  BY <1>2, <1>4, <1>5 DEF Owed
<1>7. drained' \in Nat /\ Len(queue') \in Nat /\ drained + Len(queue) <= drained' + Len(queue')
  BY <1>1
<1> QED BY <1>1, <1>6, <1>7

LEMMA RegisterForetold ==
    ASSUME Typed, Foretold, NEW l \in Lengths, register_clip(l)
    PROVE  Foretold'
<1>1. PICK s, w : Foretells(queue, s, w) BY DEF Foretold
<1>2. PICK n : n = Len(queue) OBVIOUS
<1>3. PICK c, g : /\ c = First(Inactive) /\ g = next_generation(clip_mirror[c].generation)
  OBVIOUS
<1>4. PICK m : m = [op |-> "LoadClip", clip |-> c, generation |-> g] OBVIOUS
<1>5. /\ n \in Nat
      /\ \A i \in 0..n : s[i] \in [Clips -> Slots] /\ w[i] \in [Voices -> Sounding]
      /\ \A v \in Voices : w[n][v].active =>
            /\ clip_mirror[w[n][v].clip].active
            /\ clip_mirror[w[n][v].clip].generation = s[n][w[n][v].clip].generation
            /\ clip_mirror[w[n][v].clip].range = w[n][v].range
  BY <1>1, <1>2, EndOwns DEF Foretold
<1>6. c \in Clips /\ ~clip_mirror[c].active
  BY <1>3, FirstIs, AudioAssumption DEF register_clip, Inactive
<1>7. g \in Generations BY <1>3, <1>6, NextGeneration DEF Typed, ControlOK, ClipEntries
<1>8. m \in Commands BY <1>4, <1>6, <1>7, CommandsAre
<1>9. /\ push(m) /\ reclaim_acknowledged_ranges
      /\ UNCHANGED <<voice_mirror, callback, drained, slots, voices, live_mask, rt_rejected>>
  BY <1>3, <1>4 DEF register_clip, mixer
<1>10. /\ clip_mirror'[c].active /\ clip_mirror'[c].generation = g
       /\ \A d \in Clips : d # c => clip_mirror'[d] = clip_mirror[d]
  BY <1>3, <1>6 DEF register_clip, Typed, ControlOK
<1>11. PICK s2 : s2 = [s[n] EXCEPT ![c] = [generation |-> g, active |-> TRUE]] OBVIOUS
<1>12. s[n] \in [Clips -> Slots] /\ w[n] \in [Voices -> Sounding] BY <1>5
<1>13. /\ s2[c].active /\ s2[c].generation = g
       /\ \A d \in Clips : d # c => s2[d] = s[n][d]
  BY <1>6, <1>11, <1>12
<1>14. Performs(m, s[n], w[n], s2, w[n]) BY <1>4, <1>11 DEF Performs
<1>15. ASSUME NEW i \in 0..n PROVE Owned(i, s[i], w[i])'
  <2>1. Owned(i, s[i], w[i]) BY <1>1, <1>2 DEF Foretells
  <2>2. w[i] \in [Voices -> Sounding] /\ i \in Nat BY <1>5
  <2>3. \A v \in Voices : w[i][v].active /\ clip_mirror[w[i][v].clip].active =>
            clip_mirror'[w[i][v].clip] = clip_mirror[w[i][v].clip]
    BY <1>6, <1>10, <2>2 DEF Sounding
  <2> QED BY <1>9, <2>1, <2>2, <2>3, ReclaimOwned
<1>16. Owned(n + 1, s2, w[n])'
  <2> SUFFICES ASSUME NEW v \in Voices, w[n][v].active
               PROVE  /\ clip_mirror'[w[n][v].clip].active
                      /\ clip_mirror'[w[n][v].clip].generation = s2[w[n][v].clip].generation
                      /\ clip_mirror'[w[n][v].clip].range = w[n][v].range
    BY DEF Owned
  <2>1. w[n][v].clip \in Clips /\ w[n][v].clip # c BY <1>5, <1>6, <1>12 DEF Sounding
  <2> QED BY <1>5, <1>10, <1>13, <2>1
<1>17. Agrees(s[n], w[n]) BY <1>1, <1>2 DEF Foretells
<1>18. ClipsAgree(s2)' BY <1>10, <1>13, <1>17 DEF Agrees, ClipsAgree
<1>19. \A v \in Voices : VoiceAgrees(w[n], v)'
  BY <1>9, <1>17 DEF Agrees, VoiceAgrees, Covered
<1>20. Agrees(s2, w[n])' BY <1>18, <1>19 DEF Agrees
<1>21. (\E t, x : Foretells(queue, t, x))'
  BY <1>1, <1>2, <1>8, <1>9, <1>14, <1>15, <1>16, <1>20, PushForetold
<1>22. NothingAhead'
  BY <1>2, <1>5, <1>8, <1>9, PushIs, ReclaimNothingAhead DEF Foretold, Typed, QueueOK
<1> QED BY <1>9, <1>21, <1>22 DEF Foretold

LEMMA RefusedForetold ==
    ASSUME Typed, Foretold, NEW l \in Lengths, register_refused(l)
    PROVE  Foretold'
<1>1. PICK s, w : Foretells(queue, s, w) BY DEF Foretold
<1>2. /\ reclaim_acknowledged_ranges
      /\ UNCHANGED <<queue, clip_mirror, voice_mirror, callback, drained, slots, voices,
                     live_mask, rt_rejected>>
  BY DEF register_refused, mixer
<1>3. Len(queue) \in Nat BY DEF Typed, QueueOK
<1>4. \A i \in 0..Len(queue) : Owned(i, s[i], w[i])'
  <2> SUFFICES ASSUME NEW i \in 0..Len(queue) PROVE Owned(i, s[i], w[i])' OBVIOUS
  <2>1. Owned(i, s[i], w[i]) /\ i \in Nat BY <1>1, <1>3 DEF Foretells
  <2> QED BY <1>2, <2>1, ReclaimOwned
<1>5. Agrees(s[Len(queue)], w[Len(queue)])'
  BY <1>1, <1>2 DEF Foretells, Agrees, ClipsAgree, VoiceAgrees, Covered
<1>6. Foretells(queue, s, w)' BY <1>1, <1>2, <1>4, <1>5 DEF Foretells
<1>7. NothingAhead' BY <1>2, <1>3, ReclaimNothingAhead DEF Foretold
<1> QED BY <1>2, <1>6, <1>7 DEF Foretold

LEMMA UnregisterForetold ==
    ASSUME Typed, Foretold, NEW c \in Clips, unregister_clip(c)
    PROVE  Foretold'
<1>1. PICK s, w : Foretells(queue, s, w) BY DEF Foretold
<1>2. PICK n : n = Len(queue) OBVIOUS
<1>3. PICK g : g = clip_mirror[c].generation OBVIOUS
<1>4. PICK m : m = [op |-> "UnloadClip", clip |-> c, generation |-> g] OBVIOUS
<1>5. /\ n \in Nat
      /\ \A i \in 0..n : s[i] \in [Clips -> Slots] /\ w[i] \in [Voices -> Sounding]
      /\ \A v \in Voices : w[n][v].active =>
            /\ clip_mirror[w[n][v].clip].active
            /\ clip_mirror[w[n][v].clip].generation = s[n][w[n][v].clip].generation
            /\ clip_mirror[w[n][v].clip].range = w[n][v].range
  BY <1>1, <1>2, EndOwns DEF Foretold
<1>6. g \in Generations /\ clip_mirror[c].active
  BY <1>3 DEF Typed, ControlOK, ClipEntries, unregister_clip
<1>7. m \in Commands BY <1>4, <1>6, CommandsAre
<1>8. push(m) /\ UNCHANGED <<callback, drained, slots, voices, live_mask, rt_rejected>>
  BY <1>3, <1>4 DEF unregister_clip, mixer
<1>9. /\ ~clip_mirror'[c].active
      /\ \A d \in Clips : d # c => clip_mirror'[d] = clip_mirror[d]
  BY DEF unregister_clip, Typed, ControlOK
<1>10. \A v \in Voices : /\ voice_mirror'[v].generation = voice_mirror[v].generation
                         /\ voice_mirror'[v].clip = voice_mirror[v].clip
                         /\ voice_mirror'[v].wait = voice_mirror[v].wait
                         /\ voice_mirror[v].clip # c =>
                                voice_mirror'[v].live = voice_mirror[v].live
  BY DEF unregister_clip, Typed, ControlOK, VoiceEntries
<1>11. PICK o : o = [range |-> clip_mirror[c].range, wait |-> Sequence] OBVIOUS
<1>12. /\ pending_ranges' = Append(pending_ranges, o)
       /\ o.range = clip_mirror[c].range /\ o.wait = drained + n + 1
  BY <1>2, <1>11 DEF unregister_clip, Sequence
<1>13. /\ DOMAIN pending_ranges' = DOMAIN pending_ranges \cup {Len(pending_ranges) + 1}
       /\ \A k \in DOMAIN pending_ranges : pending_ranges'[k] = pending_ranges[k]
       /\ pending_ranges'[Len(pending_ranges) + 1] = o
  BY <1>12, WaitsAre
<1>14. PICK s2, w2 : /\ s2 = [s[n] EXCEPT ![c].active = FALSE]
                     /\ w2 = [v \in Voices |-> IF w[n][v].clip = c
                                THEN [w[n][v] EXCEPT !.active = FALSE] ELSE w[n][v]]
  OBVIOUS
<1>15. s[n] \in [Clips -> Slots] /\ w[n] \in [Voices -> Sounding] BY <1>5
<1>16. /\ ~s2[c].active /\ \A d \in Clips : d # c => s2[d] = s[n][d]
       /\ \A v \in Voices : IF w[n][v].clip = c
             THEN /\ ~w2[v].active /\ w2[v].generation = w[n][v].generation /\ w2[v].clip = c
             ELSE w2[v] = w[n][v]
  BY <1>14, <1>15 DEF Slots, Sounding
<1>17. Agrees(s[n], w[n]) BY <1>1, <1>2 DEF Foretells
<1>18. Performs(m, s[n], w[n], s2, w2)
  <2>1. s[n][c].active /\ s[n][c].generation = g BY <1>3, <1>6, <1>17 DEF Agrees, ClipsAgree
  <2>2. m.op = "UnloadClip" /\ m.clip = c /\ m.generation = g BY <1>4
  <2> QED BY <1>14, <2>1, <2>2 DEF Performs
<1>19. ASSUME NEW i \in 0..n PROVE Owned(i, s[i], w[i])'
  <2> SUFFICES ASSUME NEW v \in Voices, w[i][v].active
               PROVE  \/ /\ clip_mirror'[w[i][v].clip].active
                         /\ clip_mirror'[w[i][v].clip].generation
                                = s[i][w[i][v].clip].generation
                         /\ clip_mirror'[w[i][v].clip].range = w[i][v].range
                      \/ \E k \in DOMAIN pending_ranges' :
                            /\ pending_ranges'[k].range = w[i][v].range
                            /\ pending_ranges'[k].wait > drained' + i
    BY DEF Owned
  <2>1. Owned(i, s[i], w[i]) BY <1>1, <1>2 DEF Foretells
  <2>2. w[i][v].clip \in Clips BY <1>5 DEF Sounding
  <2>3. CASE \E k \in DOMAIN pending_ranges :
                pending_ranges[k].range = w[i][v].range /\ pending_ranges[k].wait > drained + i
    BY <2>3, <1>8, <1>13
  <2>4. CASE /\ clip_mirror[w[i][v].clip].active
             /\ clip_mirror[w[i][v].clip].generation = s[i][w[i][v].clip].generation
             /\ clip_mirror[w[i][v].clip].range = w[i][v].range
    <3>1. CASE w[i][v].clip = c
      <4>1. o.range = w[i][v].range /\ o.wait > drained + i
        BY <2>4, <3>1, <1>5, <1>12, WaitsAre
      <4> QED BY <4>1, <1>8, <1>13
    <3>2. CASE w[i][v].clip # c BY <2>2, <2>4, <3>2, <1>9
    <3> QED BY <3>1, <3>2
  <2> QED BY <2>1, <2>3, <2>4 DEF Owned
<1>20. Owned(n + 1, s2, w2)'
  <2> SUFFICES ASSUME NEW v \in Voices, w2[v].active
               PROVE  /\ clip_mirror'[w2[v].clip].active
                      /\ clip_mirror'[w2[v].clip].generation = s2[w2[v].clip].generation
                      /\ clip_mirror'[w2[v].clip].range = w2[v].range
    BY DEF Owned
  <2>1. w2[v] = w[n][v] /\ w[n][v].clip # c BY <1>16
  <2>2. w[n][v].clip \in Clips BY <1>15 DEF Sounding
  <2> QED BY <1>5, <1>9, <1>16, <2>1, <2>2
<1>21. ClipsAgree(s2)' BY <1>9, <1>16, <1>17 DEF Agrees, ClipsAgree
<1>22. \A v \in Voices : VoiceAgrees(w2, v)'
  BY <1>8, <1>10, <1>16, <1>17 DEF Agrees, VoiceAgrees, Covered
<1>23. Agrees(s2, w2)' BY <1>21, <1>22 DEF Agrees
<1>24. (\E t, x : Foretells(queue, t, x))'
  BY <1>1, <1>2, <1>7, <1>8, <1>18, <1>19, <1>20, <1>23, PushForetold
<1>25. NothingAhead'
  <2>1. Len(queue') = n + 1 BY <1>2, <1>7, <1>8, PushIs DEF Typed, QueueOK
  <2> SUFFICES ASSUME NEW k \in DOMAIN pending_ranges'
               PROVE  pending_ranges'[k].wait <= drained' + Len(queue')
    BY DEF NothingAhead
  <2>2. CASE k \in DOMAIN pending_ranges
    <3>1. pending_ranges[k].wait <= drained + n BY <2>2, <1>2 DEF Foretold, NothingAhead
    <3> QED BY <2>1, <2>2, <3>1, <1>5, <1>8, <1>13, WaitsAre
  <2>3. CASE k = Len(pending_ranges) + 1
    BY <2>1, <2>3, <1>5, <1>8, <1>12, <1>13, WaitsAre
  <2> QED BY <2>2, <2>3, <1>13
<1> QED BY <1>8, <1>24, <1>25 DEF Foretold

\* A voice that the service calls finished plays nothing once the queue is done.
LEMMA FinishedIsSilent ==
    ASSUME Typed, NEW s, NEW w, Agrees(s, w), NEW v \in Voices, Finished(v)
    PROVE  ~w[v].active
<1>1. voice_mirror[v].wait \in Nat /\ drained \in Nat
  BY DEF Typed, ControlOK, VoiceEntries, QueueOK
<1> QED BY <1>1 DEF Agrees, VoiceAgrees, Finished, Covered

LEMMA PlayForetold ==
    ASSUME Typed, Foretold, NEW v \in Voices, NEW c \in Clips, play(v, c)
    PROVE  Foretold'
<1>1. PICK s, w : Foretells(queue, s, w) BY DEF Foretold
<1>2. PICK n : n = Len(queue) OBVIOUS
<1>3. PICK g, h, r : /\ g = next_generation(voice_mirror[v].generation)
                     /\ h = clip_mirror[c].generation /\ r = clip_mirror[c].range
  OBVIOUS
<1>4. PICK m : m = [op |-> "Play", voice |-> v, generation |-> g, clip |-> c,
                    clip_generation |-> h, range |-> r]
  OBVIOUS
<1>5. /\ n \in Nat
      /\ \A i \in 0..n : s[i] \in [Clips -> Slots] /\ w[i] \in [Voices -> Sounding]
      /\ \A u \in Voices : w[n][u].active =>
            /\ clip_mirror[w[n][u].clip].active
            /\ clip_mirror[w[n][u].clip].generation = s[n][w[n][u].clip].generation
            /\ clip_mirror[w[n][u].clip].range = w[n][u].range
  BY <1>1, <1>2, EndOwns DEF Foretold
<1>6. h \in Generations /\ r \in Ranges /\ clip_mirror[c].active
  BY <1>3 DEF Typed, ControlOK, ClipEntries, play
<1>7. g \in Generations BY <1>3, NextGeneration DEF Typed, ControlOK, VoiceEntries
<1>8. m \in Commands BY <1>4, <1>6, <1>7, CommandsAre
<1>9. /\ push(m)
      /\ UNCHANGED <<clip_mirror, pending_ranges, callback, drained, slots, voices, live_mask,
                     rt_rejected>>
  BY <1>3, <1>4 DEF play, mixer
<1>10. /\ voice_mirror'[v].generation = g /\ voice_mirror'[v].clip = c
       /\ voice_mirror'[v].live /\ voice_mirror'[v].wait = drained + n + 1
       /\ \A u \in Voices : u # v => voice_mirror'[u] = voice_mirror[u]
  BY <1>2, <1>3 DEF play, Typed, ControlOK, Sequence
<1>11. PICK e : e = [generation |-> g, active |-> TRUE, clip |-> c, range |-> r] OBVIOUS
<1>12. PICK w2 : w2 = [w[n] EXCEPT ![v] = e] OBVIOUS
<1>13. s[n] \in [Clips -> Slots] /\ w[n] \in [Voices -> Sounding] BY <1>5
<1>14. w2[v] = e /\ \A u \in Voices : u # v => w2[u] = w[n][u] BY <1>12, <1>13
<1>15. Agrees(s[n], w[n]) BY <1>1, <1>2 DEF Foretells
<1>16. s[n][c].active /\ s[n][c].generation = h
  BY <1>3, <1>6, <1>15 DEF Agrees, ClipsAgree
<1>17. Performs(m, s[n], w[n], s[n], w2)
  <2>1. ~w[n][v].active BY <1>15, FinishedIsSilent DEF play
  <2>2. /\ m.op = "Play" /\ m.clip = c /\ m.clip_generation = h /\ m.voice = v
        /\ e = [generation |-> m.generation, active |-> TRUE, clip |-> m.clip,
                range |-> m.range]
    BY <1>4, <1>11
  <2> QED BY <1>12, <1>16, <2>1, <2>2 DEF Performs
<1>18. ASSUME NEW i \in 0..n PROVE Owned(i, s[i], w[i])'
  <2>1. Owned(i, s[i], w[i]) BY <1>1, <1>2 DEF Foretells
  <2> QED BY <1>9, <2>1 DEF Owned
<1>19. Owned(n + 1, s[n], w2)'
  <2> SUFFICES ASSUME NEW u \in Voices, w2[u].active
               PROVE  /\ clip_mirror[w2[u].clip].active
                      /\ clip_mirror[w2[u].clip].generation = s[n][w2[u].clip].generation
                      /\ clip_mirror[w2[u].clip].range = w2[u].range
    BY <1>9 DEF Owned
  <2>1. CASE u = v
    <3>1. w2[u].clip = c /\ w2[u].range = r BY <2>1, <1>11, <1>14
    <3> QED BY <3>1, <1>3, <1>6, <1>16
  <2>2. CASE u # v BY <2>2, <1>5, <1>14
  <2> QED BY <2>1, <2>2
<1>20. ClipsAgree(s[n])' BY <1>9, <1>15 DEF Agrees, ClipsAgree
<1>21. ASSUME NEW u \in Voices PROVE VoiceAgrees(w2, u)'
  <2>1. CASE u = v
    <3>1. w2[u].generation = g /\ w2[u].clip = c BY <2>1, <1>11, <1>14
    <3>2. ~(voice_mirror'[u].wait <= Covered')
      BY <2>1, <1>5, <1>9, <1>10, WaitsAre DEF Covered
    <3> QED BY <2>1, <3>1, <3>2, <1>10 DEF VoiceAgrees
  <2>2. CASE u # v
    BY <2>2, <1>9, <1>10, <1>14, <1>15 DEF Agrees, VoiceAgrees, Covered
  <2> QED BY <2>1, <2>2
<1>22. Agrees(s[n], w2)' BY <1>20, <1>21 DEF Agrees
<1>23. (\E t, x : Foretells(queue, t, x))'
  BY <1>1, <1>2, <1>8, <1>9, <1>17, <1>18, <1>19, <1>22, PushForetold
<1>24. NothingAhead'
  <2>1. Len(queue') = n + 1 BY <1>2, <1>8, <1>9, PushIs DEF Typed, QueueOK
  <2> QED BY <1>2, <1>5, <1>9, <2>1, WaitsAre DEF Foretold, NothingAhead
<1> QED BY <1>9, <1>23, <1>24 DEF Foretold

LEMMA StopForetold ==
    ASSUME Typed, Foretold, NEW v \in Voices, stop_voice(v)
    PROVE  Foretold'
<1>1. PICK s, w : Foretells(queue, s, w) BY DEF Foretold
<1>2. PICK n : n = Len(queue) OBVIOUS
<1>3. /\ n \in Nat
      /\ \A i \in 0..n : s[i] \in [Clips -> Slots] /\ w[i] \in [Voices -> Sounding]
      /\ \A u \in Voices : w[n][u].active =>
            /\ clip_mirror[w[n][u].clip].active
            /\ clip_mirror[w[n][u].clip].generation = s[n][w[n][u].clip].generation
            /\ clip_mirror[w[n][u].clip].range = w[n][u].range
  BY <1>1, <1>2, EndOwns DEF Foretold
<1>4. UNCHANGED <<clip_mirror, pending_ranges, callback, drained, slots, voices, live_mask,
                  rt_rejected>>
  BY DEF stop_voice, mixer
<1>5. ASSUME NEW i \in 0..n PROVE Owned(i, s[i], w[i])'
  <2>1. Owned(i, s[i], w[i]) BY <1>1, <1>2 DEF Foretells
  <2> QED BY <1>4, <2>1 DEF Owned
<1>6. Agrees(s[n], w[n]) BY <1>1, <1>2 DEF Foretells
<1>7. ClipsAgree(s[n])' BY <1>4, <1>6 DEF Agrees, ClipsAgree
<1>8. CASE Finished(v)
  <2>1. queue' = queue /\ voice_mirror' = [voice_mirror EXCEPT ![v].live = FALSE]
    BY <1>8 DEF stop_voice
  <2>2. ~w[n][v].active BY <1>6, <1>8, FinishedIsSilent
  <2>3. \A u \in Voices : /\ voice_mirror'[u].generation = voice_mirror[u].generation
                          /\ voice_mirror'[u].clip = voice_mirror[u].clip
                          /\ u # v => voice_mirror'[u] = voice_mirror[u]
    BY <2>1 DEF Typed, ControlOK, VoiceEntries
  <2>4. \A u \in Voices : VoiceAgrees(w[n], u)'
    BY <2>2, <2>3, <1>4, <1>6 DEF Agrees, VoiceAgrees, Covered
  <2>5. Agrees(s[n], w[n])' BY <1>7, <2>4 DEF Agrees
  <2>6. Foretells(queue, s, w)' BY <1>1, <1>2, <1>4, <1>5, <2>1, <2>5 DEF Foretells
  <2>7. NothingAhead' BY <1>4, <2>1 DEF Foretold, NothingAhead
  <2> QED BY <1>4, <2>6, <2>7 DEF Foretold
<1>9. CASE ~Finished(v)
  <2>1. PICK g : g = voice_mirror[v].generation OBVIOUS
  <2>2. PICK m : m = [op |-> "Stop", voice |-> v, generation |-> g] OBVIOUS
  <2>3. push(m) /\ voice_mirror' = voice_mirror BY <1>9, <2>1, <2>2 DEF stop_voice
  <2>4. g \in Generations BY <2>1 DEF Typed, ControlOK, VoiceEntries
  <2>5. m \in Commands BY <2>2, <2>4, CommandsAre
  <2>6. PICK w2 : w2 = [w[n] EXCEPT ![v].active = FALSE] OBVIOUS
  <2>7. w[n] \in [Voices -> Sounding] BY <1>3
  <2>8. \A u \in Voices : /\ w2[u].generation = w[n][u].generation /\ w2[u].clip = w[n][u].clip
                          /\ w2[u].active => w2[u] = w[n][u]
    BY <2>6, <2>7 DEF Sounding
  <2>9. Performs(m, s[n], w[n], s[n], w2)
    BY <1>6, <2>1, <2>2, <2>6 DEF Performs, Agrees, VoiceAgrees
  <2>10. Owned(n + 1, s[n], w2)' BY <1>3, <1>4, <2>8 DEF Owned
  <2>11. \A u \in Voices : VoiceAgrees(w2, u)'
    BY <1>4, <1>6, <2>3, <2>8 DEF Agrees, VoiceAgrees, Covered
  <2>12. Agrees(s[n], w2)' BY <1>7, <2>11 DEF Agrees
  <2>13. (\E t, x : Foretells(queue, t, x))'
    BY <1>1, <1>2, <1>4, <1>5, <2>3, <2>5, <2>9, <2>10, <2>12, PushForetold
  <2>14. NothingAhead'
    <3>1. Len(queue') = n + 1 BY <1>2, <2>3, <2>5, PushIs DEF Typed, QueueOK
    <3> QED BY <1>2, <1>3, <1>4, <3>1, WaitsAre DEF Foretold, NothingAhead
  <2> QED BY <1>4, <2>13, <2>14 DEF Foretold
<1> QED BY <1>8, <1>9

\* Commands that change neither clips nor voices, one or more at once.
NeutralCommand(m) ==
    \/ m.op \in {"Suspend", "Resume"}
    \/ m.op = "SetGain" /\ m.generation = voice_mirror[m.voice].generation

LEMMA NeutralIsForetold ==
    ASSUME Typed, NEW q \in Seq(Commands), \E s, w : Foretells(q, s, w),
           \A k \in DOMAIN pending_ranges : pending_ranges[k].wait <= drained + Len(q),
           NEW m \in Commands, NeutralCommand(m)
    PROVE  \E s, w : Foretells(Append(q, m), s, w)
<1>1. PICK s, w : Foretells(q, s, w) OBVIOUS
<1>2. PICK n : n = Len(q) OBVIOUS
<1>3. Performs(m, s[n], w[n], s[n], w[n])
  <2>1. CASE m.op \in {"Suspend", "Resume"} BY <2>1 DEF Performs
  <2>2. CASE m.op = "SetGain" /\ m.generation = voice_mirror[m.voice].generation
    <3>1. m.voice \in Voices BY <2>2 DEF Commands
    <3> QED BY <2>2, <3>1, <1>1, <1>2 DEF Performs, Foretells, Agrees, VoiceAgrees
  <2> QED BY <2>1, <2>2 DEF NeutralCommand
<1>4. Foretells(Append(q, m), Longer(q, s, s[n]), Longer(q, w, w[n]))
  BY <1>1, <1>2, <1>3, NeutralForetells
<1> QED BY <1>4

LEMMA LongerForetold ==
    ASSUME Typed, Foretold, NEW q \in Seq(Commands), queue' = q, Len(q) >= Len(queue),
           UNCHANGED <<control, callback, drained, slots, voices, live_mask, rt_rejected>>,
           \E s, w : Foretells(q, s, w)
    PROVE  Foretold'
<1>1. PICK t, x : Foretells(q, t, x) OBVIOUS
<1>2. \A i \in 0..Len(q) : Owned(i, t[i], x[i])' BY <1>1 DEF Foretells, Owned, control
<1>3. Agrees(t[Len(q)], x[Len(q)])'
  BY <1>1 DEF Foretells, Agrees, ClipsAgree, VoiceAgrees, Covered, control
<1>4. Foretells(queue, t, x)' BY <1>1, <1>2, <1>3 DEF Foretells
<1>5. NothingAhead'
  <2>1. Len(q) \in Nat /\ Len(queue) \in Nat BY DEF Typed, QueueOK
  <2> QED BY <2>1, WaitsAre DEF Foretold, NothingAhead, control
<1> QED BY <1>4, <1>5 DEF Foretold

LEMMA OneMoreForetold ==
    ASSUME Typed, Foretold, NEW m \in Commands, NeutralCommand(m), push(m),
           UNCHANGED <<control, callback, drained, slots, voices, live_mask, rt_rejected>>
    PROVE  Foretold'
<1>1. PICK q : q = Append(queue, m) OBVIOUS
<1>2. queue \in Seq(Commands) /\ q \in Seq(Commands) /\ Len(q) = Len(queue) + 1
      /\ Len(queue) \in Nat
  BY <1>1 DEF Typed, QueueOK
<1>3. \E s, w : Foretells(q, s, w)
  BY <1>1, <1>2, NeutralIsForetold DEF Foretold, NothingAhead
<1>4. queue' = q BY <1>1 DEF push
<1> QED BY <1>2, <1>3, <1>4, LongerForetold

LEMMA GainForetold ==
    ASSUME Typed, Foretold, NEW v \in Voices, set_voice_gain(v)
    PROVE  Foretold'
<1>1. PICK m : m = [op |-> "SetGain", voice |-> v, generation |-> voice_mirror[v].generation]
  OBVIOUS
<1>2. m \in Commands
  BY <1>1, CommandsAre DEF Typed, ControlOK, VoiceEntries
<1>3. push(m) /\ NeutralCommand(m) BY <1>1 DEF set_voice_gain, NeutralCommand
<1> QED BY <1>2, <1>3, OneMoreForetold DEF set_voice_gain, mixer

\* Nothing that the forecast speaks of changes.
LEMMA StillForetold ==
    ASSUME Foretold, Covered' = Covered,
           UNCHANGED <<control, queue, drained, slots, voices, live_mask, rt_rejected>>
    PROVE  Foretold'
<1>1. PICK s, w : Foretells(queue, s, w) BY DEF Foretold
<1>2. \A i \in 0..Len(queue) : Owned(i, s[i], w[i])' BY <1>1 DEF Foretells, Owned, control
<1>3. Agrees(s[Len(queue)], w[Len(queue)])'
  BY <1>1 DEF Foretells, Agrees, ClipsAgree, VoiceAgrees, control
<1>4. Foretells(queue, s, w)' BY <1>1, <1>2, <1>3 DEF Foretells
<1> QED BY <1>4 DEF Foretold, NothingAhead, control

LEMMA DeviceForetold ==
    ASSUME Typed, Foretold, suspend \/ resume \/ poll_device \/ stream_pauses \/ lose_device \/ Opens
    PROVE  Foretold'
<1>1. UNCHANGED <<control, callback, drained, slots, voices, live_mask, rt_rejected>>
  BY DEF suspend, resume, resume_paused, resume_lost, resume_replaced, poll_device, stream_pauses,
         lose_device, Opens, mixer
<1>2. PICK m, o : m = [op |-> "Suspend"] /\ o = [op |-> "Resume"] OBVIOUS
<1>3. m \in Commands /\ o \in Commands BY <1>2, CommandsAre
<1>4. NeutralCommand(m) /\ NeutralCommand(o) BY <1>2 DEF NeutralCommand
<1>5. CASE queue' = queue BY <1>1, <1>5, StillForetold DEF Covered
<1>6. CASE push(m) \/ push(o) BY <1>1, <1>3, <1>4, <1>6, OneMoreForetold
<1>7. CASE queue' = queue \o <<m, o>>
  <2>1. PICK p : p = Append(queue, m) OBVIOUS
  <2>2. PICK q : q = Append(p, o) OBVIOUS
  <2>3. queue \in Seq(Commands) /\ Len(queue) \in Nat BY DEF Typed, QueueOK
  <2>4. p \in Seq(Commands) /\ Len(p) = Len(queue) + 1 BY <1>3, <2>1, <2>3
  <2>5. q \in Seq(Commands) /\ Len(q) = Len(queue) + 2 BY <1>3, <2>2, <2>3, <2>4
  <2>6. \E s, w : Foretells(p, s, w)
    BY <1>3, <1>4, <2>1, <2>3, NeutralIsForetold DEF Foretold, NothingAhead
  <2>7. \A k \in DOMAIN pending_ranges : pending_ranges[k].wait <= drained + Len(p)
    BY <2>3, <2>4, WaitsAre DEF Foretold, NothingAhead
  <2>8. \E s, w : Foretells(q, s, w)
    BY <1>3, <1>4, <2>2, <2>4, <2>6, <2>7, NeutralIsForetold
  <2>9. queue' = q BY <1>3, <1>7, <2>1, <2>2, <2>3
  <2> QED BY <1>1, <2>3, <2>5, <2>8, <2>9, LongerForetold
<1>8. queue' = queue \/ push(m) \/ push(o) \/ queue' = queue \o <<m, o>>
  BY <1>2 DEF suspend, resume, resume_paused, resume_lost, resume_replaced, poll_device,
              stream_pauses, lose_device, Opens, QueueResume
<1> QED BY <1>5, <1>6, <1>7, <1>8

\* The mixer applies the command at the head: what the course says comes true.
LEMMA ApplyPerforms ==
    ASSUME NEW m \in Commands, NEW s2, NEW w2, Performs(m, slots, voices, s2, w2), apply(m),
           ~rt_rejected
    PROVE  slots' = s2 /\ voices' = w2 /\ ~rt_rejected'
<1>1. m.op \in {"LoadClip", "UnloadClip", "Play", "Stop", "SetGain", "Suspend", "Resume"}
  BY DEF Commands
<1>2. CASE m.op = "LoadClip" BY <1>2 DEF Performs, apply
<1>3. CASE m.op = "UnloadClip"
  <2>1. Loaded(m.clip, m.generation) BY <1>3 DEF Performs, Loaded
  <2>2. slots' = s2 /\ voices' = w2 BY <1>3, <2>1 DEF Performs, apply
  <2>3. ~rt_rejected' BY <1>3, <2>1, Zenon DEF apply
  <2> QED BY <2>2, <2>3
<1>4. CASE m.op = "Play"
  <2>1. Loaded(m.clip, m.clip_generation) /\ ~voices[m.voice].active
    BY <1>4 DEF Performs, Loaded
  <2>2. slots' = s2 /\ voices' = w2 BY <1>4, <2>1 DEF Performs, apply
  <2>3. ~rt_rejected' BY <1>4, <2>1, Zenon DEF apply
  <2> QED BY <2>2, <2>3
<1>5. CASE m.op = "Stop"
  <2>1. voices[m.voice].generation = m.generation BY <1>5 DEF Performs
  <2>2. slots' = s2 /\ voices' = w2 BY <1>5, <2>1 DEF Performs, apply
  <2>3. ~rt_rejected' BY <1>5, <2>1, Zenon DEF apply
  <2> QED BY <2>2, <2>3
<1>6. CASE m.op = "SetGain"
  <2>1. voices[m.voice].generation = m.generation BY <1>6 DEF Performs
  <2>2. slots' = s2 /\ voices' = w2 BY <1>6, <2>1 DEF Performs, apply
  <2>3. ~rt_rejected' BY <1>6, <2>1, Zenon DEF apply
  <2> QED BY <2>2, <2>3
<1>7. CASE m.op \in {"Suspend", "Resume"} BY <1>7 DEF Performs, apply
<1> QED BY <1>1, <1>2, <1>3, <1>4, <1>5, <1>6, <1>7

LEMMA DrainForetold ==
    ASSUME Typed, Foretold, drain
    PROVE  Foretold'
<1>1. PICK s, w : Foretells(queue, s, w) BY DEF Foretold
<1>2. PICK n : n = Len(queue) OBVIOUS
<1>3. /\ queue \in Seq(Commands) /\ queue # << >> /\ queue' = Tail(queue)
      /\ drained' = drained + 1 /\ drained \in Nat
      /\ UNCHANGED <<control, callback, live_mask>> /\ callback = "draining"
  BY DEF drain, Typed, QueueOK
<1>4. /\ queue' \in Seq(Commands) /\ Len(queue') = n - 1 /\ n \in Nat \ {0}
      /\ Head(queue) = queue[1] /\ Head(queue) \in Commands
      /\ \A i \in 1..n - 1 : queue'[i] = queue[i + 1]
  BY <1>2, <1>3, HeadTailProperties
<1>5. /\ s \in [0..n -> [Clips -> Slots]] /\ w \in [0..n -> [Voices -> Sounding]]
      /\ \A i \in 1..n : Performs(queue[i], s[i - 1], w[i - 1], s[i], w[i])
      /\ s[0] = slots /\ w[0] = voices
      /\ \A i \in 0..n : Owned(i, s[i], w[i])
      /\ Agrees(s[n], w[n])
  BY <1>1, <1>2 DEF Foretells, Course
<1>6. slots' = s[1] /\ voices' = w[1] /\ ~rt_rejected'
  <2>1. Performs(queue[1], s[1 - 1], w[1 - 1], s[1], w[1]) BY <1>4, <1>5
  <2>2. Performs(Head(queue), slots, voices, s[1], w[1]) BY <2>1, <1>4, <1>5
  <2>3. apply(Head(queue)) BY DEF drain
  <2> QED BY <1>4, <2>2, <2>3, ApplyPerforms DEF Foretold
<1>7. PICK t, x : /\ t = [i \in 0..n - 1 |-> s[i + 1]]
                  /\ x = [i \in 0..n - 1 |-> w[i + 1]]
  OBVIOUS
<1>8. \A i \in 0..n - 1 : i + 1 \in 0..n /\ t[i] = s[i + 1] /\ x[i] = w[i + 1]
  BY <1>4, <1>7
<1>9. Course(queue', t, x)
  <2>1. t \in [0..n - 1 -> [Clips -> Slots]] /\ x \in [0..n - 1 -> [Voices -> Sounding]]
    BY <1>5, <1>7, <1>8
  <2>2. ASSUME NEW i \in 1..n - 1 PROVE Performs(queue'[i], t[i - 1], x[i - 1], t[i], x[i])
    <3>1. i + 1 \in 1..n /\ i \in 0..n - 1 /\ i - 1 \in 0..n - 1 BY <1>4
    <3>2. Performs(queue[i + 1], s[(i + 1) - 1], w[(i + 1) - 1], s[i + 1], w[i + 1])
      BY <1>5, <3>1
    <3>3. (i + 1) - 1 = i /\ (i - 1) + 1 = i OBVIOUS
    <3>4. t[i - 1] = s[i] /\ x[i - 1] = w[i] BY <1>8, <3>1, <3>3
    <3>5. t[i] = s[i + 1] /\ x[i] = w[i + 1] BY <1>8, <3>1
    <3>6. queue'[i] = queue[i + 1] BY <1>4
    <3> QED BY <3>2, <3>3, <3>4, <3>5, <3>6
  <2> QED BY <2>1, <2>2, <1>4 DEF Course
<1>10. ASSUME NEW i \in 0..n - 1 PROVE Owned(i, t[i], x[i])'
  <2>1. Owned(i + 1, t[i], x[i]) BY <1>5, <1>8
  <2>2. drained' + i = drained + (i + 1) BY <1>3, <1>4
  <2> QED BY <1>3, <2>1, <2>2 DEF Owned, control
<1>11. Agrees(t[n - 1], x[n - 1])'
  <2>1. n - 1 \in 0..n - 1 /\ (n - 1) + 1 = n BY <1>4
  <2>2. t[n - 1] = s[n] /\ x[n - 1] = w[n] BY <1>8, <2>1
  <2>3. Agrees(t[n - 1], x[n - 1]) BY <1>5, <2>2
  <2> QED BY <1>3, <2>3 DEF Agrees, ClipsAgree, VoiceAgrees, Covered, control
<1>12. t[0] = slots' /\ x[0] = voices'
  <2>1. 0 \in 0..n - 1 /\ 0 + 1 = 1 BY <1>4
  <2> QED BY <1>6, <1>8, <2>1
<1>13. Foretells(queue, t, x)' BY <1>4, <1>9, <1>10, <1>11, <1>12 DEF Foretells
<1>14. NothingAhead'
  <2>1. drained' + Len(queue') = drained + n BY <1>3, <1>4
  <2> QED BY <1>2, <1>3, <2>1 DEF Foretold, NothingAhead, control
<1> QED BY <1>6, <1>13, <1>14 DEF Foretold

LEMMA MixForetold ==
    ASSUME Typed, Foretold, mix
    PROVE  Foretold'
<1>1. PICK s, w : Foretells(queue, s, w) BY DEF Foretold
<1>2. /\ queue = << >> /\ Len(queue) = 0 /\ callback = "draining" /\ callback' = "mixed"
      /\ UNCHANGED <<control, queue, drained, slots, rt_rejected>>
      /\ live_mask' = {v \in Voices : voices'[v].active}
  BY DEF mix
<1>3. voices \in [Voices -> Sounding] /\ slots \in [Clips -> Slots] BY DEF Typed, MixerOK
<1>4. /\ voices' \in [Voices -> Sounding]
      /\ \A v \in Voices : /\ voices'[v].generation = voices[v].generation
                           /\ voices'[v].clip = voices[v].clip
                           /\ voices'[v].range = voices[v].range
                           /\ voices'[v].active => voices[v].active
  <2>1. PICK ended \in SUBSET Voices :
            voices' = [v \in Voices |-> [voices[v] EXCEPT !.active = @ /\ v \notin ended]]
    BY DEF mix
  <2>2. ASSUME NEW v \in Voices
        PROVE  /\ voices'[v] \in Sounding
               /\ voices'[v].generation = voices[v].generation
               /\ voices'[v].clip = voices[v].clip
               /\ voices'[v].range = voices[v].range
               /\ voices'[v].active => voices[v].active
    <3>1. voices[v] \in Sounding BY <1>3
    <3>2. voices'[v] = [voices[v] EXCEPT !.active = voices[v].active /\ v \notin ended] BY <2>1
    <3>3. (voices[v].active /\ v \notin ended) \in BOOLEAN OBVIOUS
    <3> QED BY <3>1, <3>2, <3>3 DEF Sounding
  <2>3. DOMAIN voices' = Voices /\ voices' = [v \in Voices |-> voices'[v]] BY <2>1
  <2> QED BY <2>2, <2>3
<1>5. Owned(0, slots, voices) /\ Agrees(slots, voices) BY <1>1, <1>2 DEF Foretells
<1>6. PICK t, x : t = slots' /\ x = voices' OBVIOUS
<1>7. PICK tt, xx : tt = [i \in 0..0 |-> t] /\ xx = [i \in 0..0 |-> x] OBVIOUS
<1>8. Course(queue', tt, xx) /\ tt[0] = slots' /\ xx[0] = voices'
  BY <1>2, <1>3, <1>4, <1>6, <1>7 DEF Course
<1>9. Owned(0, t, x)' BY <1>2, <1>4, <1>5, <1>6 DEF Owned, control
<1>10. ClipsAgree(t)' BY <1>2, <1>5, <1>6 DEF Agrees, ClipsAgree, control
<1>11. \A v \in Voices : VoiceAgrees(x, v)'
  BY <1>2, <1>4, <1>5, <1>6 DEF Agrees, VoiceAgrees, control
<1>12. \A i \in 0..0 : Owned(i, tt[i], xx[i])' BY <1>7, <1>9
<1>13. Agrees(tt[0], xx[0])' BY <1>7, <1>10, <1>11 DEF Agrees
<1>14. Foretells(queue, tt, xx)' BY <1>2, <1>8, <1>12, <1>13 DEF Foretells
<1>15. NothingAhead' BY <1>2 DEF Foretold, NothingAhead, control
<1> QED BY <1>2, <1>14, <1>15 DEF Foretold

LEMMA PublishForetold ==
    ASSUME Typed, Foretold, publish_applied
    PROVE  Foretold'
<1>1. PICK s, w : Foretells(queue, s, w) BY DEF Foretold
<1>2. PICK n : n = Len(queue) OBVIOUS
<1>3. /\ callback = "counted" /\ callback' = "idle" /\ drained' = 0 /\ drained \in Nat
      /\ UNCHANGED <<clip_mirror, queue, slots, voices, live_mask, rt_rejected>>
      /\ n \in Nat
  BY <1>2 DEF publish_applied, mixer, Typed, QueueOK
<1>4. /\ DOMAIN pending_ranges' = DOMAIN pending_ranges
      /\ \A k \in DOMAIN pending_ranges :
            /\ pending_ranges'[k].range = pending_ranges[k].range
            /\ pending_ranges'[k].wait = Reached(pending_ranges[k].wait)
            /\ pending_ranges[k].wait \in Nat
  <2>1. DOMAIN pending_ranges' = 1..Len(pending_ranges)
    BY PublishIs DEF Typed
  <2> QED BY <2>1, PublishIs, WaitsAre DEF Typed
<1>5. \A v \in Voices :
         /\ voice_mirror'[v].generation = voice_mirror[v].generation
         /\ voice_mirror'[v].live = voice_mirror[v].live
         /\ voice_mirror'[v].clip = voice_mirror[v].clip
         /\ voice_mirror'[v].wait = Reached(voice_mirror[v].wait)
         /\ voice_mirror[v].wait \in Nat
  BY PublishIs DEF Typed, ControlOK, VoiceEntries
<1>6. ASSUME NEW i \in 0..n PROVE Owned(i, s[i], w[i])'
  <2>1. Owned(i, s[i], w[i]) BY <1>1, <1>2 DEF Foretells
  <2>2. \A k \in DOMAIN pending_ranges :
            pending_ranges[k].wait > drained + i => pending_ranges'[k].wait > drained' + i
    BY <1>3, <1>4 DEF Reached
  <2> QED BY <1>3, <1>4, <2>1, <2>2 DEF Owned
<1>7. Agrees(s[n], w[n]) BY <1>1, <1>2 DEF Foretells
<1>8. ClipsAgree(s[n])' BY <1>3, <1>7 DEF Agrees, ClipsAgree
<1>9. ASSUME NEW v \in Voices PROVE VoiceAgrees(w[n], v)'
  <2>1. voice_mirror'[v].wait <= Covered' => voice_mirror[v].wait <= Covered
    BY <1>3, <1>5 DEF Covered, Reached
  <2> QED BY <1>3, <1>5, <1>7, <2>1 DEF Agrees, VoiceAgrees
<1>10. Agrees(s[n], w[n])' BY <1>8, <1>9 DEF Agrees
<1>11. Foretells(queue, s, w)' BY <1>1, <1>2, <1>3, <1>6, <1>10 DEF Foretells
<1>12. NothingAhead'
  <2>1. ASSUME NEW k \in DOMAIN pending_ranges
        PROVE  pending_ranges'[k].wait <= drained' + Len(queue')
    <3>1. pending_ranges[k].wait <= drained + n BY <1>2 DEF Foretold, NothingAhead
    <3> QED BY <1>2, <1>3, <1>4, <3>1 DEF Reached
  <2> QED BY <2>1, <1>4 DEF NothingAhead
<1> QED BY <1>3, <1>11, <1>12 DEF Foretold

LEMMA StepForetold ==
    ASSUME Typed, Foretold, ServiceStep \/ Opens \/ UNCHANGED vars
    PROVE  Foretold'
<1>1. CASE \E l \in Lengths : register_clip(l) \/ register_refused(l)
  BY <1>1, RegisterForetold, RefusedForetold
<1>2. CASE \E c \in Clips : unregister_clip(c) BY <1>2, UnregisterForetold
<1>3. CASE \E v \in Voices, c \in Clips : play(v, c) BY <1>3, PlayForetold
<1>4. CASE \E v \in Voices : stop_voice(v) \/ set_voice_gain(v)
  BY <1>4, StopForetold, GainForetold
<1>5. CASE suspend \/ resume \/ poll_device \/ stream_pauses \/ lose_device \/ Opens
  BY <1>5, DeviceForetold
<1>6. CASE begin_callback \/ count_callback
  BY <1>6, StillForetold DEF begin_callback, count_callback, Covered, mixer
<1>7. CASE drain BY <1>7, DrainForetold
<1>8. CASE mix BY <1>8, MixForetold
<1>9. CASE publish_applied BY <1>9, PublishForetold
<1>10. CASE UNCHANGED vars BY <1>10, StillForetold DEF vars, mixer, Covered
<1> QED BY <1>1, <1>2, <1>3, <1>4, <1>5, <1>6, <1>7, <1>8, <1>9, <1>10
        DEF ServiceStep, Request, Render

LEMMA ForetoldIsSafe ==
    ASSUME Typed, Foretold
    PROVE  VoicesReadOwnedPcm /\ RtRejectsNothing
<1>1. PICK s, w : Foretells(queue, s, w) BY DEF Foretold
<1>2. 0 \in 0..Len(queue) BY DEF Typed, QueueOK
<1>3. Owned(0, slots, voices) BY <1>1, <1>2 DEF Foretells
<1>4. drained + 0 = drained BY WaitsAre
<1>5. VoicesReadOwnedPcm BY <1>3, <1>4 DEF VoicesReadOwnedPcm, Owned
<1> QED BY <1>5 DEF Foretold, RtRejectsNothing

-----------------------------------------------------------------------------
(* Suspend and Resume: the last of them in the queue is what the mixer will *)
(* have been told.                                                          *)

Telling == {"Suspend", "Resume"}
Told(q) == {i \in DOMAIN q : q[i].op \in Telling}
Settled(q, now) ==
    IF Told(q) = {} THEN now
    ELSE q[CHOOSE i \in Told(q) : \A j \in Told(q) : j <= i].op = "Suspend"

\* The last of them, wherever it is.
LEMMA SettledIs ==
    ASSUME NEW q \in Seq(Commands), NEW now, NEW i \in Told(q), \A j \in Told(q) : j <= i
    PROVE  Settled(q, now) = (q[i].op = "Suspend")
<1>1. \A j \in Told(q) : j \in Int BY DEF Told
<1>2. PICK k : k = CHOOSE l \in Told(q) : \A j \in Told(q) : j <= l OBVIOUS
<1>3. k \in Told(q) /\ \A j \in Told(q) : j <= k BY <1>2
<1>4. k = i BY <1>1, <1>3
<1> QED BY <1>2, <1>4 DEF Settled

LEMMA LastTold ==
    ASSUME NEW q \in Seq(Commands), Told(q) # {}
    PROVE  \E i \in Told(q) : \A j \in Told(q) : j <= i
<1>1. Told(q) \subseteq 0..Len(q) /\ Len(q) \in Nat BY DEF Told
<1>2. PICK i \in Told(q) : \A j \in Told(q) : i >= j BY <1>1, Greatest
<1> QED BY <1>1, <1>2

LEMMA SettledAppend ==
    ASSUME NEW q \in Seq(Commands), NEW now, NEW m \in Commands
    PROVE  /\ m.op \in Telling => Settled(Append(q, m), now) = (m.op = "Suspend")
           /\ m.op \notin Telling => Settled(Append(q, m), now) = Settled(q, now)
<1> DEFINE n == Len(q)
           r == Append(q, m)
<1>1. /\ n \in Nat /\ r \in Seq(Commands) /\ DOMAIN r = 1..n + 1 /\ r[n + 1] = m
      /\ DOMAIN q = 1..n /\ \A i \in 1..n : r[i] = q[i]
  OBVIOUS
<1> HIDE DEF n, r
<1>2. Told(r) = Told(q) \cup (IF m.op \in Telling THEN {n + 1} ELSE {}) BY <1>1 DEF Told
<1>3. \A i \in Told(q) : i \in 1..n BY <1>1 DEF Told
<1>4. CASE m.op \in Telling
  <2>1. n + 1 \in Told(r) /\ \A j \in Told(r) : j <= n + 1 BY <1>1, <1>2, <1>3, <1>4
  <2>2. Settled(r, now) = (r[n + 1].op = "Suspend") BY <1>1, <2>1, SettledIs
  <2>3. Settled(r, now) = (m.op = "Suspend") BY <1>1, <2>2
  <2> QED BY <1>4, <2>3 DEF r
<1>5. CASE m.op \notin Telling
  <2>1. Told(r) = Told(q) BY <1>2, <1>5
  <2>2. CASE Told(q) = {} BY <1>5, <2>1, <2>2 DEF Settled, r
  <2>3. CASE Told(q) # {}
    <3>1. PICK i \in Told(q) : \A j \in Told(q) : j <= i BY <2>3, LastTold
    <3>2. Settled(q, now) = (q[i].op = "Suspend") BY <3>1, SettledIs
    <3>3. Settled(r, now) = (r[i].op = "Suspend") BY <1>1, <2>1, <3>1, SettledIs
    <3> QED BY <1>1, <1>3, <1>5, <3>2, <3>3 DEF r
  <2> QED BY <2>2, <2>3
<1> QED BY <1>4, <1>5

LEMMA SettledTail ==
    ASSUME NEW q \in Seq(Commands), q # << >>, NEW now, NEW next,
           Head(q).op \in Telling => next = (Head(q).op = "Suspend"),
           Head(q).op \notin Telling => next = now
    PROVE  Settled(Tail(q), next) = Settled(q, now)
<1> DEFINE n == Len(q)
           r == Tail(q)
<1>1. /\ n \in Nat \ {0} /\ r \in Seq(Commands) /\ DOMAIN r = 1..n - 1 /\ DOMAIN q = 1..n
      /\ \A i \in 1..n - 1 : r[i] = q[i + 1]
      /\ Head(q) = q[1]
  <2>1. r \in Seq(Commands) /\ Len(r) = n - 1 /\ \A i \in 1..Len(r) : r[i] = q[i + 1]
    BY HeadTailProperties
  <2> QED BY <2>1
<1> HIDE DEF n, r
<1>2. \A i \in Told(r) : i \in 1..n - 1 /\ i + 1 \in Told(q)
  <2> SUFFICES ASSUME NEW i \in Told(r) PROVE i \in 1..n - 1 /\ i + 1 \in Told(q) OBVIOUS
  <2>1. i \in 1..n - 1 /\ r[i].op \in Telling BY <1>1 DEF Told
  <2>2. i + 1 \in 1..n /\ r[i] = q[i + 1] BY <1>1, <2>1
  <2> QED BY <1>1, <2>1, <2>2 DEF Told
<1>3. \A i \in Told(q) : i \in 1..n /\ (i # 1 => i - 1 \in Told(r))
  <2> SUFFICES ASSUME NEW i \in Told(q) PROVE i \in 1..n /\ (i # 1 => i - 1 \in Told(r))
    OBVIOUS
  <2>1. i \in 1..n /\ q[i].op \in Telling BY <1>1 DEF Told
  <2>2. CASE i # 1
    <3>1. i - 1 \in 1..n - 1 /\ (i - 1) + 1 = i BY <1>1, <2>1, <2>2
    <3>2. r[i - 1] = q[i] BY <1>1, <3>1
    <3> QED BY <1>1, <2>1, <3>1, <3>2 DEF Told
  <2> QED BY <2>1, <2>2
<1>4. CASE Told(r) # {}
  <2>1. PICK i \in Told(r) : \A j \in Told(r) : j <= i BY <1>1, <1>4, LastTold
  <2>2. i + 1 \in Told(q) /\ i \in 1..n - 1 BY <1>2
  <2>3. ASSUME NEW j \in Told(q) PROVE j <= i + 1
    <3>1. j \in 1..n /\ (j # 1 => j - 1 \in Told(r)) BY <1>3
    <3>2. CASE j = 1 BY <2>2, <3>2
    <3>3. CASE j # 1
      <4>1. j - 1 <= i BY <2>1, <3>1, <3>3
      <4> QED BY <2>2, <3>1, <4>1
    <3> QED BY <3>2, <3>3
  <2>4. Settled(q, now) = (q[i + 1].op = "Suspend") BY <2>2, <2>3, SettledIs
  <2>5. Settled(r, next) = (r[i].op = "Suspend") BY <1>1, <2>1, SettledIs
  <2> QED BY <1>1, <2>2, <2>4, <2>5 DEF r
<1>5. CASE Told(r) = {}
  <2>1. Settled(r, next) = next BY <1>5 DEF Settled
  <2>2. \A i \in Told(q) : i = 1 BY <1>3, <1>5
  <2>3. CASE 1 \in Told(q)
    <3>1. Settled(q, now) = (q[1].op = "Suspend") BY <2>2, <2>3, SettledIs
    <3>2. q[1].op \in Telling BY <2>3 DEF Told
    <3> QED BY <1>1, <2>1, <3>1, <3>2 DEF r
  <2>4. CASE 1 \notin Told(q)
    <3>1. Told(q) = {} BY <2>2, <2>4
    <3>2. q[1].op \notin Telling BY <1>1, <2>4 DEF Told
    <3>3. Settled(q, now) = now BY <3>1 DEF Settled
    <3> QED BY <1>1, <2>1, <3>2, <3>3 DEF r
  <2> QED BY <2>3, <2>4
<1> QED BY <1>4, <1>5

LEMMA FollowsIs ==
    /\ MixerFollowsIntent <=> (Settled(queue, rt_suspended) = (suspended /\ ~resume_queued))
    /\ MixerFollowsIntent' <=> (Settled(queue', rt_suspended') = (suspended' /\ ~resume_queued'))
BY DEF MixerFollowsIntent, SilentAfter, Settled, Told, Telling

LEMMA SilentFollows ==
    ASSUME Silent
    PROVE  MixerFollowsIntent
<1>1. Told(queue) = {} BY DEF Silent, Told
<1>2. Settled(queue, rt_suspended) = rt_suspended BY <1>1 DEF Settled
<1> QED BY <1>2, FollowsIs DEF Silent

\* A push of Suspend or Resume settles what is told, another push does not.
LEMMA PushFollows ==
    ASSUME Typed, MixerFollowsIntent, UNCHANGED rt_suspended, NEW m \in Commands, push(m),
           \/ m.op = "Suspend" /\ suspended' = TRUE /\ resume_queued' = FALSE
           \/ m.op = "Resume" /\ ~(suspended' /\ ~resume_queued')
           \/ m.op \notin Telling /\ UNCHANGED <<suspended, resume_queued>>
    PROVE  MixerFollowsIntent'
<1>1. queue \in Seq(Commands) BY DEF Typed, QueueOK
<1>2. PICK q, now : q = queue' /\ now = rt_suspended' OBVIOUS
<1>3. q = Append(queue, m) /\ now = rt_suspended BY <1>2 DEF push
<1>4. /\ m.op \in Telling => Settled(q, now) = (m.op = "Suspend")
      /\ m.op \notin Telling => Settled(q, now) = Settled(queue, now)
  BY <1>1, <1>3, SettledAppend
<1>5. Settled(queue, now) = (suspended /\ ~resume_queued) BY <1>3, FollowsIs
<1>6. Settled(q, now) = (suspended' /\ ~resume_queued')
  <2>1. CASE m.op = "Suspend" BY <2>1, <1>4 DEF Telling
  <2>2. CASE m.op = "Resume" BY <2>2, <1>4 DEF Telling
  <2>3. CASE m.op \notin Telling BY <2>3, <1>4, <1>5 DEF Telling
  <2> QED BY <2>1, <2>2, <2>3 DEF Telling
<1> QED BY <1>2, <1>6, FollowsIs

\* The request that is pushed, if any, is what the intent becomes; without one
\* the intent keeps what the mixer was told.
LEMMA DeviceFollows ==
    ASSUME Typed, MixerFollowsIntent,
           \/ suspend \/ resume \/ poll_device \/ stream_pauses \/ lose_device
           \/ Opens /\ ~suspended
    PROVE  MixerFollowsIntent'
<1>1. /\ UNCHANGED rt_suspended /\ queue \in Seq(Commands)
      /\ suspended \in BOOLEAN /\ resume_queued \in BOOLEAN
  BY DEF suspend, resume, resume_paused, resume_lost, resume_replaced, poll_device, stream_pauses,
         lose_device, Opens, mixer, Typed, QueueOK, DeviceOK
<1>2. PICK m, o : m = [op |-> "Suspend"] /\ o = [op |-> "Resume"] OBVIOUS
<1>3. m \in Commands /\ o \in Commands BY <1>2, CommandsAre
<1>4. CASE suspend
  <2>1. CASE push(m) /\ suspended' = TRUE /\ resume_queued' = FALSE
    BY <1>1, <1>2, <1>3, <2>1, PushFollows
  <2>2. CASE queue' = queue \o <<m, o>> /\ UNCHANGED <<suspended, resume_queued>>
    <3>1. PICK p, q, now : p = Append(queue, m) /\ q = Append(p, o) /\ now = rt_suspended
      OBVIOUS
    <3>2. p \in Seq(Commands) /\ queue' = q BY <1>1, <1>3, <2>2, <3>1
    <3>3. Settled(q, now) = FALSE
      <4>1. o.op \in Telling /\ o.op # "Suspend" BY <1>2 DEF Telling
      <4> QED BY <1>3, <3>1, <3>2, <4>1, SettledAppend
    <3>4. ~(suspended' /\ ~resume_queued') BY <1>4, <2>2 DEF suspend
    <3> QED BY <1>1, <3>1, <3>2, <3>3, <3>4, FollowsIs
  <2> QED BY <1>2, <1>4, <2>1, <2>2 DEF suspend, intent
<1>5. CASE push(o) /\ ~(suspended' /\ ~resume_queued')
  BY <1>1, <1>2, <1>3, <1>5, PushFollows
<1>6. CASE queue' = queue /\ (suspended' /\ ~resume_queued') = (suspended /\ ~resume_queued)
  BY <1>1, <1>6, FollowsIs
<1>7. CASE resume
  <2>1. CASE resume_paused
    BY <1>1, <1>2, <1>5, <1>6, <2>1 DEF resume_paused, QueueResume, OutputStarted
  <2>2. CASE resume_lost
    BY <1>1, <1>6, <2>2 DEF resume_lost, recreate_started, OutputStarted, OutputLost
  <2>3. CASE resume_replaced
    <3>1. CASE UNCHANGED <<queue, suspended, resume_queued>> BY <1>6, <3>1
    <3>2. CASE QueueResume /\ ~(suspended' /\ ~resume_queued')
      BY <1>1, <1>2, <1>5, <1>6, <3>2 DEF QueueResume
    <3> QED BY <2>3, <3>1, <3>2 DEF resume_replaced, OutputStarted, OutputLost
  <2> QED BY <1>7, <2>1, <2>2, <2>3 DEF resume
<1>8. CASE poll_device
  BY <1>1, <1>6, <1>8
     DEF poll_device, recreate_started, recreate_paused, OutputStarted, OutputLost
<1>9. CASE stream_pauses \/ lose_device
  BY <1>6, <1>9 DEF stream_pauses, lose_device, intent
<1>10. CASE Opens /\ ~suspended BY <1>1, <1>6, <1>10 DEF Opens, OutputStarted, intent
<1> QED BY <1>4, <1>7, <1>8, <1>9, <1>10

LEMMA StepFollows ==
    ASSUME Typed, MixerFollowsIntent,
           ServiceStep \/ (Opens /\ ~suspended) \/ UNCHANGED vars
    PROVE  MixerFollowsIntent'
<1>1. CASE suspend \/ resume \/ poll_device \/ stream_pauses \/ lose_device \/ (Opens /\ ~suspended)
  BY <1>1, DeviceFollows
<1>2. CASE UNCHANGED <<queue, rt_suspended, suspended, resume_queued>>
  BY <1>2, FollowsIs
<1>3. ASSUME NEW m \in Commands, m.op \notin Telling, push(m),
             UNCHANGED <<rt_suspended, suspended, resume_queued>>
      PROVE  MixerFollowsIntent'
  BY <1>3, PushFollows
<1>4. CASE \E l \in Lengths : register_clip(l)
  <2>1. PICK l \in Lengths : register_clip(l) BY <1>4
  <2>2. First(Inactive) \in Clips
    BY <2>1, FirstIs, AudioAssumption DEF register_clip, Inactive
  <2>3. PICK g : g = next_generation(clip_mirror[First(Inactive)].generation) OBVIOUS
  <2>4. g \in Generations BY <2>2, <2>3, NextGeneration DEF Typed, ControlOK, ClipEntries
  <2>5. PICK m : m = [op |-> "LoadClip", clip |-> First(Inactive), generation |-> g] OBVIOUS
  <2>6. m \in Commands /\ m.op \notin Telling BY <2>2, <2>4, <2>5, CommandsAre DEF Telling
  <2> QED BY <1>3, <2>1, <2>3, <2>5, <2>6 DEF register_clip, mixer, intent
<1>5. ASSUME NEW c \in Clips, unregister_clip(c) PROVE MixerFollowsIntent'
  <2>1. PICK m : m = [op |-> "UnloadClip", clip |-> c, generation |-> clip_mirror[c].generation]
    OBVIOUS
  <2>2. m \in Commands /\ m.op \notin Telling
    BY <2>1, CommandsAre DEF Telling, Typed, ControlOK, ClipEntries
  <2> QED BY <1>3, <1>5, <2>1, <2>2 DEF unregister_clip, mixer, intent
<1>6. ASSUME NEW v \in Voices, NEW c \in Clips, play(v, c) PROVE MixerFollowsIntent'
  <2>1. PICK g : g = next_generation(voice_mirror[v].generation) OBVIOUS
  <2>2. PICK m : m = [op |-> "Play", voice |-> v, generation |-> g, clip |-> c,
                      clip_generation |-> clip_mirror[c].generation,
                      range |-> clip_mirror[c].range]
    OBVIOUS
  <2>3. g \in Generations BY <2>1, NextGeneration DEF Typed, ControlOK, VoiceEntries
  <2>4. clip_mirror[c].generation \in Generations /\ clip_mirror[c].range \in Ranges
    BY DEF Typed, ControlOK, ClipEntries
  <2>5. m \in Commands /\ m.op \notin Telling BY <2>2, <2>3, <2>4, CommandsAre DEF Telling
  <2> QED BY <1>3, <1>6, <2>1, <2>2, <2>5 DEF play, mixer, intent
<1>7. ASSUME NEW v \in Voices, stop_voice(v) \/ set_voice_gain(v) PROVE MixerFollowsIntent'
  <2>1. PICK m, o :
            /\ m = [op |-> "Stop", voice |-> v, generation |-> voice_mirror[v].generation]
            /\ o = [op |-> "SetGain", voice |-> v, generation |-> voice_mirror[v].generation]
    OBVIOUS
  <2>2. voice_mirror[v].generation \in Generations BY DEF Typed, ControlOK, VoiceEntries
  <2>3. /\ m \in Commands /\ m.op \notin Telling
        /\ o \in Commands /\ o.op \notin Telling
    BY <2>1, <2>2, CommandsAre DEF Telling
  <2> QED BY <1>2, <1>3, <1>7, <2>1, <2>3 DEF stop_voice, set_voice_gain, mixer, intent
<1>8. CASE drain
  <2>1. /\ queue \in Seq(Commands) /\ queue # << >> /\ queue' = Tail(queue)
        /\ apply(Head(queue)) /\ UNCHANGED intent
    BY <1>8 DEF drain, Typed, QueueOK
  <2>2. Head(queue) \in Commands BY <2>1, HeadTailProperties
  <2>3. Head(queue).op \in {"LoadClip", "UnloadClip", "Play", "Stop", "SetGain", "Suspend", "Resume"}
    BY <2>2 DEF Commands
  <2>4. /\ Head(queue).op \in Telling => rt_suspended' = (Head(queue).op = "Suspend")
        /\ Head(queue).op \notin Telling => rt_suspended' = rt_suspended
    BY <2>1, <2>3 DEF apply, Telling
  <2>5. PICK q, next : q = queue' /\ next = rt_suspended' OBVIOUS
  <2>6. Settled(q, next) = Settled(queue, rt_suspended)
    BY <2>1, <2>4, <2>5, SettledTail
  <2> QED BY <2>1, <2>5, <2>6, FollowsIs DEF intent
<1> QED
  BY <1>1, <1>2, <1>4, <1>5, <1>6, <1>7, <1>8
     DEF ServiceStep, Request, Render, register_refused, begin_callback, mix, count_callback,
         publish_applied, vars, mixer, intent

-----------------------------------------------------------------------------
(* What is left of a call of the adapter.  While it is away, or is about to *)
(* be, only stops, gains and the suspension itself are.                     *)

QuietSteps == {"stops", "gains", "suspend"}
BusySteps == {"register", "attempt", "poll", "sweep", "stops", "gains", "trigger"}

Calm ==
    /\ away => retry = "none"
    /\ opened # "open" => ~suspended
    /\ \/ todo \in Seq(QuietSteps)
       \/ ~away /\ todo \in Seq(BusySteps)
       \/ /\ ~away /\ opened = "none"
          /\ todo # << >> /\ Head(todo) = "open" /\ Tail(todo) \in Seq(BusySteps)

LEMMA CalmHead ==
    ASSUME Calm, todo # << >>
    PROVE  /\ \/ Head(todo) \in QuietSteps /\ Tail(todo) \in Seq(QuietSteps)
              \/ ~away /\ Head(todo) \in BusySteps /\ Tail(todo) \in Seq(BusySteps)
              \/ /\ ~away /\ opened = "none" /\ Head(todo) = "open"
                 /\ Tail(todo) \in Seq(BusySteps)
           /\ Head(todo) = "open" => ~away /\ opened = "none" /\ Tail(todo) \in Seq(BusySteps)
           /\ Head(todo) = "suspend" => Tail(todo) \in Seq(QuietSteps)
           /\ Head(todo) \in BusySteps \ QuietSteps => ~away /\ Tail(todo) \in Seq(BusySteps)
           /\ Tail(todo) \in Seq(QuietSteps) \/ (~away /\ Tail(todo) \in Seq(BusySteps))
<1>1. CASE todo \in Seq(QuietSteps)
  <2>1. Head(todo) \in QuietSteps /\ Tail(todo) \in Seq(QuietSteps) BY <1>1, HeadTailProperties
  <2> QED BY <2>1 DEF QuietSteps, BusySteps
<1>2. CASE ~away /\ todo \in Seq(BusySteps)
  <2>1. Head(todo) \in BusySteps /\ Tail(todo) \in Seq(BusySteps) BY <1>2, HeadTailProperties
  <2> QED BY <1>2, <2>1 DEF QuietSteps, BusySteps
<1>3. CASE /\ ~away /\ opened = "none" /\ Head(todo) = "open" /\ Tail(todo) \in Seq(BusySteps)
  BY <1>3 DEF QuietSteps, BusySteps
<1> QED BY <1>1, <1>2, <1>3 DEF Calm

LEMMA AdapterInitCalm == AdapterInit => Calm
BY DEF AdapterInit, Calm

LEMMA InFront ==
    ASSUME NEW S, NEW s \in Seq(S), NEW x
    PROVE  /\ << x >> \o s # << >>
           /\ Head(<< x >> \o s) = x
           /\ Tail(<< x >> \o s) = s
<1> DEFINE q == << x >> \o s
<1>1. << x >> \in Seq(S \cup {x}) /\ s \in Seq(S \cup {x}) BY SeqMonotonic
<1>2. /\ q \in Seq(S \cup {x}) /\ Len(q) = 1 + Len(s) /\ Len(s) \in Nat
      /\ q[1] = x /\ \A i \in 1..Len(s) : q[i + 1] = s[i]
  <2>1. Len(<< x >>) = 1 /\ << x >>[1] = x OBVIOUS
  <2>2. q \in Seq(S \cup {x}) /\ Len(q) = 1 + Len(s) /\ Len(s) \in Nat
    BY <1>1, <2>1, ConcatProperties, LenProperties
  <2>3. \A i \in 1..(1 + Len(s)) : q[i] = IF i <= 1 THEN << x >>[i] ELSE s[i - 1]
    BY <1>1, <2>1, ConcatProperties
  <2> QED BY <2>1, <2>2, <2>3
<1> HIDE DEF q
<1>3. q # << >> BY <1>2
<1>4. Head(q) = x BY <1>2, <1>3, HeadTailProperties
<1>5. /\ Tail(q) \in Seq(S \cup {x}) /\ Len(Tail(q)) = Len(s)
      /\ \A i \in 1..Len(s) : Tail(q)[i] = s[i]
  BY <1>2, <1>3, HeadTailProperties
<1>6. Tail(q) = s BY <1>1, <1>5, SeqEqual
<1> QED BY <1>3, <1>4, <1>6 DEF q

\* Only a resume puts an open or an attempt ahead of the maintenance.
LEMMA ResumeCalm ==
    ASSUME Calm, NEW active, ResumeIf(active), todo = << >>, UNCHANGED suspended
    PROVE  Calm'
<1>1. CASE active
  <2>1. maintain \in Seq(BusySteps) BY DEF maintain, BusySteps
  <2>2. CASE opened = "none"
    <3>1. PICK q : q = << "open" >> \o maintain OBVIOUS
    <3>2. todo' = q BY <1>1, <2>2, <3>1 DEF ResumeIf
    <3>3. Head(q) = "open" /\ q # << >> /\ Tail(q) = maintain BY <2>1, <3>1, InFront
    <3> QED BY <1>1, <2>1, <2>2, <3>2, <3>3 DEF ResumeIf, Calm
  <2>3. CASE opened # "none"
    <3>1. << "attempt" >> \in Seq(BusySteps) BY DEF BusySteps
    <3>2. todo' \in Seq(BusySteps)
      BY <1>1, <2>1, <2>3, <3>1, ConcatProperties DEF ResumeIf
    <3> QED BY <1>1, <3>2 DEF ResumeIf, Calm
  <2> QED BY <2>2, <2>3
<1>2. CASE ~active BY <1>2 DEF ResumeIf, Calm, adapter
<1> QED BY <1>1, <1>2

LEMMA PlatformCalm ==
    ASSUME Calm, Platform
    PROVE  Calm'
<1>1. UNCHANGED suspended /\ todo = << >>
  BY DEF Platform, winit_resumed, winit_suspended, on_focus_lost, on_focus_gained, occluded,
         revealed, switch_to, set_muted, Event, service, intent
<1>2. CASE \E active : ResumeIf(active) BY <1>1, <1>2, ResumeCalm
<1>3. CASE /\ todo' \in {<< "stops", "suspend" >>, << "stops" >>, << "gains" >>}
           /\ UNCHANGED <<away, retry, opened>>
  <2>1. /\ << "stops", "suspend" >> \in Seq(QuietSteps)
        /\ << "stops" >> \in Seq(QuietSteps)
        /\ << "gains" >> \in Seq(QuietSteps)
    BY DEF QuietSteps
  <2>2. todo' \in Seq(QuietSteps) BY <1>3, <2>1
  <2> QED BY <1>1, <1>3, <2>2 DEF Calm
<1> QED
  BY <1>2, <1>3
     DEF Platform, winit_resumed, winit_suspended, on_focus_lost, on_focus_gained, occluded,
         revealed, switch_to, set_muted, Silence

LEMMA PumpCalm ==
    ASSUME Calm, pump_audio
    PROVE  Calm'
<1>1. /\ << "poll" >> \in Seq(BusySteps) /\ maintain \in Seq(BusySteps)
      /\ << >> \in Seq(BusySteps) /\ << "sweep", "trigger" >> \in Seq(BusySteps)
  BY DEF BusySteps, maintain
<1>2. << "poll" >> \o maintain \in Seq(BusySteps) BY <1>1, ConcatProperties
<1>3. PICK more \in Seq(BusySteps) : todo' = << "poll" >> \o maintain \o more
  BY <1>1 DEF pump_audio
<1>4. todo' \in Seq(BusySteps) BY <1>2, <1>3, ConcatProperties
<1> QED BY <1>4 DEF pump_audio, Calm, adapter, service, intent

LEMMA StepCalm ==
    ASSUME Calm, AdapterTyped, Step
    PROVE  Calm'
<1>1. CASE open_device
  <2>1. ~away /\ opened = "none" /\ Tail(todo) \in Seq(BusySteps) /\ away' = away /\ retry' = retry
    BY <1>1, CalmHead DEF open_device, Doing
  <2>2. CASE todo' = << >> /\ UNCHANGED <<intent, opened>>
    <3>1. todo' \in Seq(QuietSteps) BY <2>2
    <3> QED BY <2>1, <2>2, <3>1 DEF Calm, intent
  <2>3. CASE todo' = << "register" >> \o Tail(todo) /\ OutputStarted
    <3>1. << "register" >> \in Seq(BusySteps) BY DEF BusySteps
    <3>2. todo' \in Seq(BusySteps) BY <2>1, <2>3, <3>1, ConcatProperties
    <3> QED BY <2>1, <2>3, <3>2 DEF Calm, OutputStarted
  <2> QED BY <1>1, <2>2, <2>3 DEF open_device
<1>2. CASE register_clips
  <2>1. ~away /\ todo # << >> /\ Head(todo) = "register" /\ Tail(todo) \in Seq(BusySteps)
    BY <1>2, CalmHead DEF register_clips, Doing, BusySteps, QuietSteps
  <2>2. CASE UNCHANGED <<opened, todo, suspended, away, retry>> BY <2>2 DEF Calm
  <2>3. CASE todo' = << "attempt" >> \o Tail(todo) /\ opened' = "open" /\ UNCHANGED <<away, retry>>
    <3>1. << "attempt" >> \in Seq(BusySteps) BY DEF BusySteps
    <3>2. todo' \in Seq(BusySteps) BY <2>1, <2>3, <3>1, ConcatProperties
    <3> QED BY <2>1, <2>3, <3>2 DEF Calm
  <2> QED BY <1>2, <2>2, <2>3 DEF register_clips, register_clip, intent
<1>3. CASE attempt_resume \/ adapter_poll
  <2>1. ~away /\ Tail(todo) \in Seq(BusySteps) /\ todo' = Tail(todo) /\ UNCHANGED <<away, opened>>
    BY <1>3, CalmHead DEF attempt_resume, adapter_poll, Doing, Done, BusySteps, QuietSteps
  <2>2. suspended' => suspended
    <3>1. resume \/ poll_device \/ UNCHANGED service
      BY <1>3 DEF attempt_resume, adapter_poll, Attempt, service_resume
    <3> QED BY <3>1 DEF resume, resume_paused, resume_lost, resume_replaced, poll_device,
                        recreate_started, recreate_paused, OutputStarted, OutputLost, service,
                        intent
  <2> QED BY <2>1, <2>2 DEF Calm
<1>4. CASE adapter_suspend
  <2>1. Tail(todo) \in Seq(QuietSteps) /\ todo' = Tail(todo) /\ opened' = opened
    BY <1>4, CalmHead DEF adapter_suspend, Doing, Done
  <2>2. retry' = "none" BY <1>4 DEF adapter_suspend
  <2>3. opened' # "open" => ~suspended' BY <1>4, <2>1 DEF adapter_suspend, Calm, service, intent
  <2> QED BY <2>1, <2>2, <2>3 DEF Calm
<1>5. CASE sweep_finished \/ stops_pushed \/ gains_pushed \/ trigger
  <2>1. /\ todo' = Tail(todo) /\ todo # << >>
        /\ UNCHANGED <<away, retry, opened, suspended>>
    BY <1>5 DEF sweep_finished, stops_pushed, gains_pushed, trigger, Doing, Done, play, service,
                adapter, intent
  <2>2. Tail(todo) \in Seq(QuietSteps) \/ (~away /\ Tail(todo) \in Seq(BusySteps))
    BY <2>1, CalmHead
  <2>3. todo' \in Seq(QuietSteps) \/ (~away' /\ todo' \in Seq(BusySteps)) BY <2>1, <2>2
  <2> QED BY <2>1, <2>3 DEF Calm
<1>6. CASE push_pending_stop \/ push_pending_gain
  <2>1. UNCHANGED <<todo, away, retry, opened, suspended>>
    BY <1>6 DEF push_pending_stop, push_pending_gain, stop_voice, set_voice_gain, service, intent
  <2> QED BY <2>1 DEF Calm
<1> QED BY <1>1, <1>2, <1>3, <1>4, <1>5, <1>6 DEF Step

LEMMA NextCalm ==
    ASSUME Calm, AdapterTyped, [AdapterNext]_avars
    PROVE  Calm'
<1>1. CASE Platform BY <1>1, PlatformCalm
<1>2. CASE pump_audio BY <1>2, PumpCalm
<1>3. CASE Step BY <1>3, StepCalm
<1>4. CASE cooldown_passes BY <1>4 DEF cooldown_passes, Calm, service, intent
<1>5. CASE adapter_render
  BY <1>5 DEF adapter_render, begin_callback, drain, mix, count_callback, publish_applied, intent,
              Calm
<1>6. CASE Device BY <1>6 DEF Device, stream_pauses, lose_device, intent, adapter, Calm
<1>7. CASE UNCHANGED avars BY <1>7 DEF avars, vars, intent, adapter, Calm
<1> QED BY <1>1, <1>2, <1>3, <1>4, <1>5, <1>6, <1>7 DEF AdapterNext

\* Only an open, an attempt and a poll start the stream.
LEMMA StartsInFront ==
    ASSUME Calm, [AdapterNext]_avars, away, stream # "started"
    PROVE  stream' # "started"
<1>1. ~open_device /\ ~attempt_resume /\ ~adapter_poll
  BY CalmHead DEF open_device, attempt_resume, adapter_poll, Doing, BusySteps, QuietSteps
<1>2. CASE Platform \/ pump_audio \/ cooldown_passes
  BY <1>2 DEF Platform, winit_resumed, winit_suspended, on_focus_lost, on_focus_gained, occluded,
              revealed, switch_to, set_muted, Event, pump_audio, cooldown_passes, service, device
<1>3. CASE adapter_render \/ Device
  BY <1>3 DEF adapter_render, begin_callback, drain, mix, count_callback, publish_applied, Device,
              stream_pauses, lose_device, device
<1>4. CASE UNCHANGED avars BY <1>4 DEF avars, vars, device
<1>5. CASE Step
  BY <1>1, <1>5
     DEF Step, register_clips, register_clip, adapter_suspend, suspend, sweep_finished,
         push_pending_stop, stop_voice, stops_pushed, push_pending_gain, set_voice_gain,
         gains_pushed, trigger, play, service, device
<1> QED BY <1>2, <1>3, <1>4, <1>5 DEF AdapterNext

\* The adapter opens a device only for a service that is not suspended.
LEMMA OpensUnsuspended ==
    ASSUME Calm, AdapterTyped, [AdapterNext]_avars
    PROVE  ServiceStep \/ (Opens /\ ~suspended) \/ UNCHANGED vars
<1>1. ServiceStep \/ (open_device /\ Opens) \/ UNCHANGED vars
  BY AdapterSteps DEF AdapterTyped, Tracked
<1>2. open_device => ~suspended
  BY CalmHead DEF open_device, Doing, Calm
<1> QED BY <1>1, <1>2

-----------------------------------------------------------------------------
(* The service under any calls.                                            *)

LEMMA NextSteps ==
    ASSUME [Next]_vars
    PROVE  ServiceStep \/ UNCHANGED vars
BY DEF Next, Call, ServiceStep

\* Every cell of the pool is in one range: free, retired or registered, whatever
\* clips are registered and unregistered while the callback lags behind.
THEOREM PoolStaysPartitioned == Spec => []PoolPartition
<1>1. Init => Typed /\ Pooled BY StartsSilent, SilentTyped, SilentPooled
<1>2. Typed /\ Pooled /\ [Next]_vars => (Typed /\ Pooled)' BY NextSteps, StepTyped, StepPooled
<1> QED BY <1>1, <1>2, PooledIsPartition, PTL DEF Spec

\* No voice reads samples of another clip than the one it plays: a range is
\* written again only once the callback has let go of it.
THEOREM VoicesOwnTheirPcm == Spec => []VoicesReadOwnedPcm
<1>1. Init => Typed /\ Foretold BY StartsSilent, SilentTyped, SilentForetold
<1>2. Typed /\ Foretold /\ [Next]_vars => (Typed /\ Foretold)'
  BY NextSteps, StepTyped, StepForetold
<1> QED BY <1>1, <1>2, ForetoldIsSafe, PTL DEF Spec

\* What the control thread accepted, the callback accepts too.
THEOREM NothingIsRejected == Spec => []RtRejectsNothing
<1>1. Init => Typed /\ Foretold BY StartsSilent, SilentTyped, SilentForetold
<1>2. Typed /\ Foretold /\ [Next]_vars => (Typed /\ Foretold)'
  BY NextSteps, StepTyped, StepForetold
<1> QED BY <1>1, <1>2, ForetoldIsSafe, PTL DEF Spec

\* A mixer that has drained its queue is suspended just when the control thread
\* means it to be, through every recovery of a lost device.
THEOREM MixerFollows == Spec => []MixerFollowsIntent
<1>1. Init => Typed /\ MixerFollowsIntent BY StartsSilent, SilentTyped, SilentFollows
<1>2. Typed /\ MixerFollowsIntent /\ [Next]_vars => (Typed /\ MixerFollowsIntent)'
  BY NextSteps, StepTyped, StepFollows
<1> QED BY <1>1, <1>2, PTL DEF Spec

-----------------------------------------------------------------------------
(* The service under the adapter, which opens the device while the service  *)
(* runs and whose calls nothing bounds.                                    *)

AdapterInv == AdapterTyped /\ Pooled /\ Foretold /\ MixerFollowsIntent /\ Calm

LEMMA AdapterInitInv == AdapterInit => AdapterInv
BY AdapterInitTyped, StartsSilent, SilentTyped, SilentPooled, SilentForetold, SilentFollows,
   AdapterInitCalm DEF AdapterInv

LEMMA AdapterNextInv ==
    ASSUME AdapterInv, [AdapterNext]_avars
    PROVE  AdapterInv'
<1>1. Typed /\ Pooled /\ Foretold /\ MixerFollowsIntent /\ Calm /\ AdapterTyped
  BY DEF AdapterInv, AdapterTyped
<1>2. ServiceStep \/ (Opens /\ ~suspended) \/ UNCHANGED vars BY <1>1, OpensUnsuspended
<1> QED
  BY <1>1, <1>2, AdapterStepTyped, StepPooled, StepForetold, StepFollows, NextCalm DEF AdapterInv

\* The service keeps its promises to the adapter as well: over suspensions,
\* failed opens, retried resumes and queues that are full.
THEOREM AdapterKeepsService ==
    AdapterSpec => []( /\ PoolPartition /\ VoicesReadOwnedPcm
                       /\ RtRejectsNothing /\ MixerFollowsIntent )
<1>1. AdapterInv => /\ PoolPartition /\ VoicesReadOwnedPcm
                    /\ RtRejectsNothing /\ MixerFollowsIntent
  BY PooledIsPartition, ForetoldIsSafe DEF AdapterInv, AdapterTyped
<1> QED BY <1>1, AdapterInitInv, AdapterNextInv, PTL DEF AdapterSpec

\* While the adapter is suspended no step starts the stream: no poll, retry or
\* step left of an earlier call reaches the device.
THEOREM NothingStartsInBackground == AdapterSpec => BackgroundStartsNothing
<1>1. AdapterInv /\ [AdapterNext]_avars =>
        [away /\ away' => ~(stream # "started" /\ stream' = "started")]_avars
  BY StartsInFront DEF AdapterInv
<1> QED BY <1>1, AdapterInitInv, AdapterNextInv, PTL DEF AdapterSpec, BackgroundStartsNothing
=============================================================================
