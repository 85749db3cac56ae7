-------------------------- MODULE MossboundProofs --------------------------
(***************************************************************************)
(* What holds of Mossbound for any journey, roster and strength of strikes:*)
(* nobody is left fainted, whoever fights is in the party, and progress is *)
(* on the disk or about to be.                                             *)
(***************************************************************************)
EXTENDS Mossbound, SequenceTheorems, TLAPS

-----------------------------------------------------------------------------
(* Numbers.                                                                *)

LEMMA SmallerIs ==
    ASSUME NEW a \in Nat, NEW b \in Nat
    PROVE  /\ Smaller(a, b) \in Nat /\ Smaller(a, b) <= a /\ Smaller(a, b) <= b
           /\ a > 0 /\ b > 0 => Smaller(a, b) > 0
BY DEF Smaller

LEMMA LessIs ==
    ASSUME NEW a \in Nat, NEW b \in Nat
    PROVE  Less(a, b) \in Nat
BY DEF Less

LEMMA QuotientIs ==
    ASSUME NEW n \in Nat, NEW d \in Nat \ {0}
    PROVE  /\ n \div d \in Nat
           /\ n >= d => n \div d > 0
OBVIOUS

\* A share of hit points stays a share, and no living monster is rounded away.
LEMMA ShareIs ==
    ASSUME NEW hp \in Nat, NEW old \in Nat, NEW to \in Nat, old > 1, to >= old
    PROVE  /\ (2 * hp * to + old) \div (2 * old) \in Nat
           /\ hp > 0 => (2 * hp * to + old) \div (2 * old) > 0
<1>1. PICK p, n, d : p = hp * to /\ n = 2 * hp * to + old /\ d = 2 * old OBVIOUS
<1>2. p \in Nat /\ n = 2 * p + old BY <1>1
<1>3. hp > 0 => p >= to
  <2>1. hp > 0 => p = (hp - 1) * to + to /\ (hp - 1) * to >= 0 BY <1>1
  <2> QED BY <1>2, <2>1
<1>4. d = 2 * old BY <1>1
<1>5. n \in Nat /\ d \in Nat \ {0} /\ (hp > 0 => n >= d) BY <1>2, <1>3, <1>4
<1>6. n \div d \in Nat /\ (hp > 0 => n \div d > 0) BY <1>5, QuotientIs
<1> QED BY <1>1, <1>6

LEMMA HalfIs ==
    ASSUME NEW n \in Nat, n > 1
    PROVE  n \div 2 \in Nat /\ n \div 2 > 0
OBVIOUS

-----------------------------------------------------------------------------
(* Teams: sequences of monsters that all stand.                            *)

Standing(q) == \A i \in DOMAIN q : q[i].hp > 0

LEMMA WildIs ==
    ASSUME NEW s \in Species
    PROVE  wild(s) \in Monsters /\ wild(s).hp > 0 /\ wild(s).hp = MaxHp[s]
BY RosterAssumption, JourneyAssumption DEF wild, Monsters

LEMMA MonsterIs ==
    ASSUME NEW m \in Monsters
    PROVE  /\ m.species \in Species /\ m.hp \in Nat /\ m.pp \in 0..PP_PER_MOVE
           /\ \A h \in Nat : /\ [m EXCEPT !.hp = h] \in Monsters
                             /\ [m EXCEPT !.hp = h].hp = h
BY DEF Monsters

LEMMA TeamSet ==
    ASSUME NEW q \in Seq(Monsters), NEW i \in DOMAIN q, NEW m \in Monsters
    PROVE  /\ [q EXCEPT ![i] = m] \in Seq(Monsters)
           /\ DOMAIN [q EXCEPT ![i] = m] = DOMAIN q
           /\ [q EXCEPT ![i] = m] # << >>
           /\ \A j \in DOMAIN q : j # i => [q EXCEPT ![i] = m][j] = q[j]
           /\ [q EXCEPT ![i] = m][i] = m
           /\ m.hp > 0 /\ Standing(q) => Standing([q EXCEPT ![i] = m])
<1>1. i \in 1..Len(q) /\ DOMAIN q = 1..Len(q) BY LenProperties
<1>2. /\ [q EXCEPT ![i] = m] \in Seq(Monsters)
      /\ Len([q EXCEPT ![i] = m]) = Len(q)
      /\ \A j \in 1..Len(q) : [q EXCEPT ![i] = m][j] = IF j = i THEN m ELSE q[j]
  BY <1>1, ExceptSeq
<1>3. DOMAIN [q EXCEPT ![i] = m] = DOMAIN q OBVIOUS
<1>4. [q EXCEPT ![i] = m] # << >> BY <1>1, <1>2
<1> QED BY <1>1, <1>2, <1>3, <1>4 DEF Standing

LEMMA TeamAppend ==
    ASSUME NEW q \in Seq(Monsters), NEW m \in Monsters
    PROVE  /\ Append(q, m) \in Seq(Monsters) /\ Append(q, m) # << >>
           /\ DOMAIN q \subseteq DOMAIN Append(q, m)
           /\ m.hp > 0 /\ Standing(q) => Standing(Append(q, m))
<1>1. /\ Append(q, m) \in Seq(Monsters) /\ Len(Append(q, m)) = Len(q) + 1
      /\ \A j \in 1..Len(q) : Append(q, m)[j] = q[j]
      /\ Append(q, m)[Len(q) + 1] = m
  BY AppendProperties
<1>2. Len(q) \in Nat /\ DOMAIN q = 1..Len(q) /\ DOMAIN Append(q, m) = 1..(Len(q) + 1)
  BY <1>1, LenProperties
<1> QED BY <1>1, <1>2 DEF Standing

LEMMA TeamRemove ==
    ASSUME NEW q \in Seq(Monsters), NEW i \in DOMAIN q
    PROVE  /\ RemoveAt(q, i) \in Seq(Monsters)
           /\ Len(RemoveAt(q, i)) = Len(q) - 1
           /\ Standing(q) => Standing(RemoveAt(q, i))
<1>1. Len(q) \in Nat /\ i \in 1..Len(q) BY LenProperties
<1>2. PICK a, b : a = SubSeq(q, 1, i - 1) /\ b = SubSeq(q, i + 1, Len(q)) OBVIOUS
<1>3. /\ a \in Seq(Monsters) /\ Len(a) = i - 1
      /\ \A j \in 1..(i - 1) : a[j] = q[j]
  <2>1. /\ SubSeq(q, 1, i - 1) \in Seq(Monsters)
        /\ Len(SubSeq(q, 1, i - 1)) = i - 1
        /\ \A j \in 1..(i - 1) : SubSeq(q, 1, i - 1)[j] = q[j]
    BY <1>1
  <2> QED BY <1>2, <2>1
<1>4. /\ b \in Seq(Monsters) /\ Len(b) = Len(q) - i
      /\ \A j \in 1..(Len(q) - i) : b[j] = q[i + j]
  <2>1. /\ SubSeq(q, i + 1, Len(q)) \in Seq(Monsters)
        /\ Len(SubSeq(q, i + 1, Len(q))) = Len(q) - i
        /\ \A j \in 1..(Len(q) - i) : SubSeq(q, i + 1, Len(q))[j] = q[i + j]
    BY <1>1
  <2> QED BY <1>2, <2>1
<1>5. /\ a \o b \in Seq(Monsters) /\ Len(a \o b) = Len(a) + Len(b)
      /\ \A j \in 1..(Len(a) + Len(b)) :
            (a \o b)[j] = IF j <= Len(a) THEN a[j] ELSE b[j - Len(a)]
  BY <1>3, <1>4, ConcatProperties
<1>6. RemoveAt(q, i) = a \o b BY <1>2 DEF RemoveAt
<1>7. ASSUME Standing(q), NEW j \in DOMAIN (a \o b) PROVE (a \o b)[j].hp > 0
  <2>1. j \in 1..(Len(q) - 1) BY <1>1, <1>3, <1>4, <1>5, LenProperties
  <2>0. (a \o b)[j] = IF j <= Len(a) THEN a[j] ELSE b[j - Len(a)]
    <3>1. j \in 1..(Len(a) + Len(b)) BY <1>1, <1>3, <1>4, <2>1
    <3> QED BY <1>5, <3>1
  <2>2. CASE j <= i - 1
    <3>1. j \in 1..(i - 1) /\ j <= Len(a) BY <1>1, <1>3, <2>1, <2>2
    <3>2. (a \o b)[j] = a[j] BY <2>0, <3>1
    <3>3. a[j] = q[j] BY <1>3, <3>1
    <3>4. j \in DOMAIN q BY <1>1, <2>1, LenProperties
    <3> QED BY <1>7, <3>2, <3>3, <3>4 DEF Standing
  <2>3. CASE j > i - 1
    <3>1. j - (i - 1) \in 1..(Len(q) - i) BY <1>1, <2>1, <2>3
    <3>2. ~(j <= Len(a)) /\ j - Len(a) = j - (i - 1) BY <1>1, <1>3, <2>1, <2>3
    <3>3. (a \o b)[j] = b[j - (i - 1)] BY <2>0, <3>2
    <3>4. b[j - (i - 1)] = q[i + (j - (i - 1))] BY <1>4, <3>1
    <3>5. i + (j - (i - 1)) = j + 1 /\ j + 1 \in 1..Len(q) BY <1>1, <2>1
    <3>6. (a \o b)[j] = q[j + 1] BY <3>3, <3>4, <3>5
    <3>7. j + 1 \in DOMAIN q BY <3>5, LenProperties
    <3> QED BY <1>7, <3>6, <3>7 DEF Standing
  <2> QED BY <1>1, <2>1, <2>2, <2>3
<1>8. Len(a \o b) = Len(q) - 1 BY <1>1, <1>3, <1>4, <1>5
<1>9. Standing(q) => Standing(a \o b) BY <1>7 DEF Standing
<1> QED BY <1>5, <1>6, <1>8, <1>9

-----------------------------------------------------------------------------
(* Games: everyone owned stands, and the party has a first member.  In a    *)
(* lost battle those in the party may have fainted.                         *)

Owned(g) == g \in Games /\ g.party # << >> /\ Standing(g.storage)
GoodGame(g) == Owned(g) /\ Standing(g.party)

LEMMA GameIs ==
    ASSUME NEW g \in Games
    PROVE  /\ g.party \in Seq(Monsters) /\ g.storage \in Seq(Monsters)
           /\ g.charms \in 0..MAX_SUPPLY /\ g.tonics \in 0..MAX_SUPPLY
           /\ g.defeated \in SUBSET Trainers /\ g.badge \in BOOLEAN
           /\ \A i \in DOMAIN g.party : g.party[i] \in Monsters
           /\ \A i \in DOMAIN g.storage : g.storage[i] \in Monsters
<1>1. /\ g.party \in Seq(Monsters) /\ g.storage \in Seq(Monsters)
      /\ g.charms \in 0..MAX_SUPPLY /\ g.tonics \in 0..MAX_SUPPLY
      /\ g.defeated \in SUBSET Trainers
  BY DEF Games
<1>2. g.badge \in BOOLEAN BY Zenon DEF Games
<1>3. \A q \in Seq(Monsters) : \A i \in DOMAIN q : q[i] \in Monsters
  BY ElementOfSeq, LenProperties
<1> QED BY <1>1, <1>2, <1>3

\* A game with another party, storage and supplies.
With(g, p, s, c, t) == [g EXCEPT !.party = p, !.storage = s, !.charms = c, !.tonics = t]

LEMMA WithIs ==
    ASSUME NEW g \in Games, NEW p \in Seq(Monsters), NEW s \in Seq(Monsters),
           NEW c \in 0..MAX_SUPPLY, NEW t \in 0..MAX_SUPPLY
    PROVE  /\ With(g, p, s, c, t) \in Games
           /\ With(g, p, s, c, t).party = p /\ With(g, p, s, c, t).storage = s
BY DEF Games, With

LEMMA GameChanged ==
    ASSUME NEW g \in Games, NEW p \in Seq(Monsters), NEW s \in Seq(Monsters),
           NEW c \in 0..MAX_SUPPLY, NEW t \in 0..MAX_SUPPLY, p # << >>, Standing(s)
    PROVE  /\ Owned(With(g, p, s, c, t)) /\ With(g, p, s, c, t).party = p
           /\ Standing(p) => GoodGame(With(g, p, s, c, t))
<1>1. /\ With(g, p, s, c, t) \in Games /\ With(g, p, s, c, t).party = p
      /\ With(g, p, s, c, t).storage = s
  BY WithIs
<1> QED BY <1>1 DEF Owned, GoodGame

LEMMA NewGameIs == ASSUME NEW s \in STARTERS PROVE GoodGame(new_game(s))
<1>1. wild(s) \in Monsters /\ wild(s).hp > 0 BY WildIs, RosterAssumption
<1>2. /\ <<wild(s)>> \in Seq(Monsters) /\ <<wild(s)>> # << >> /\ Standing(<<wild(s)>>)
      /\ << >> \in Seq(Monsters) /\ Standing(<< >>)
  BY <1>1 DEF Standing
<1>3. FirstCharms \in 0..MAX_SUPPLY /\ FirstTonics \in 0..MAX_SUPPLY
  BY JourneyAssumption
<1>4. new_game(s) \in Games
  <2> DEFINE q == <<wild(s)>>
             none == << >>
  <2>1. q \in Seq(Monsters) /\ none \in Seq(Monsters) BY <1>2
  <2> HIDE DEF q, none
  <2>2. [party |-> q, storage |-> none, charms |-> FirstCharms, tonics |-> FirstTonics,
         defeated |-> {}, badge |-> FALSE] \in Games
    BY <1>3, <2>1 DEF Games
  <2> QED BY <2>2 DEF new_game, q, none
<1>5. new_game(s).party = <<wild(s)>> /\ new_game(s).storage = << >> BY DEF new_game
<1> QED BY <1>2, <1>4, <1>5 DEF GoodGame, Owned

LEMMA SuppliesFit ==
    ASSUME NEW n \in 0..MAX_SUPPLY, NEW more \in Nat
    PROVE  Smaller(n + more, MAX_SUPPLY) \in 0..MAX_SUPPLY
<1>1. n + more \in Nat /\ MAX_SUPPLY \in Nat BY JourneyAssumption
<1> QED BY <1>1 DEF Smaller

LEMMA RestockIs ==
    ASSUME NEW g, GoodGame(g), NEW c \in Nat, NEW t \in Nat
    PROVE  GoodGame(restock(g, c, t))
<1>1. g \in Games BY DEF GoodGame, Owned
<1>2. PICK a, b : a = Smaller(g.charms + c, MAX_SUPPLY) /\ b = Smaller(g.tonics + t, MAX_SUPPLY)
  OBVIOUS
<1>3. a \in 0..MAX_SUPPLY /\ b \in 0..MAX_SUPPLY BY <1>1, <1>2, GameIs, SuppliesFit
<1>4. restock(g, c, t) = [g EXCEPT !.charms = a, !.tonics = b] BY <1>2 DEF restock
<1>5. [g EXCEPT !.charms = a, !.tonics = b] = With(g, g.party, g.storage, a, b)
  BY <1>1 DEF Games, With
<1>6. /\ g.party \in Seq(Monsters) /\ g.storage \in Seq(Monsters) /\ g.party # << >>
      /\ Standing(g.party) /\ Standing(g.storage)
  BY <1>1, GameIs DEF GoodGame, Owned
<1>7. GoodGame(With(g, g.party, g.storage, a, b)) BY <1>1, <1>3, <1>6, GameChanged
<1> QED BY <1>4, <1>5, <1>7

LEMMA CaptureIs ==
    ASSUME NEW g, GoodGame(g), NEW m \in Monsters, NEW h \in capture(g, m)
    PROVE  GoodGame(h)
<1>1. /\ g \in Games /\ g.party # << >> /\ Standing(g.party) /\ Standing(g.storage)
      /\ g.party \in Seq(Monsters) /\ g.storage \in Seq(Monsters)
  BY GameIs DEF GoodGame, Owned
<1>2. PICK caught : caught = [m EXCEPT !.hp = MaxHp[m.species] \div 2] OBVIOUS
<1>3. caught \in Monsters /\ caught.hp > 0
  <2>1. m.species \in Species BY MonsterIs
  <2>2. MaxHp[m.species] \in Nat /\ MaxHp[m.species] > 1 BY <2>1, RosterAssumption
  <2>3. MaxHp[m.species] \div 2 \in Nat /\ MaxHp[m.species] \div 2 > 0 BY <2>2, HalfIs
  <2> QED BY <1>2, <2>3, MonsterIs
<1>4. g.charms # 0 /\ g.charms - 1 \in 0..MAX_SUPPLY /\ g.tonics \in 0..MAX_SUPPLY
  <2>1. g.charms # 0 BY DEF capture
  <2> QED BY <1>1, <2>1, GameIs, JourneyAssumption
<1>5. ASSUME NEW p \in Seq(Monsters), NEW s \in Seq(Monsters), p # << >>,
             Standing(p), Standing(s),
             h = With(g, p, s, g.charms - 1, g.tonics)
      PROVE  GoodGame(h)
  <2>1. GoodGame(With(g, p, s, g.charms - 1, g.tonics)) BY <1>1, <1>4, <1>5, GameChanged
  <2> QED BY <1>5, <2>1
<1>6. \/ h = [[g EXCEPT !.charms = @ - 1] EXCEPT !.party = Append(@, caught)]
      \/ h = [[g EXCEPT !.charms = @ - 1] EXCEPT !.storage = Append(@, caught)]
  BY <1>2 DEF capture
<1>7. CASE h = [[g EXCEPT !.charms = @ - 1] EXCEPT !.party = Append(@, caught)]
  <2>1. h = With(g, Append(g.party, caught), g.storage, g.charms - 1, g.tonics)
    BY <1>1, <1>7 DEF Games, With
  <2>2. /\ Append(g.party, caught) \in Seq(Monsters) /\ Append(g.party, caught) # << >>
        /\ Standing(Append(g.party, caught))
    BY <1>1, <1>3, TeamAppend
  <2> QED BY <1>1, <1>5, <2>1, <2>2
<1>8. CASE h = [[g EXCEPT !.charms = @ - 1] EXCEPT !.storage = Append(@, caught)]
  <2>1. h = With(g, g.party, Append(g.storage, caught), g.charms - 1, g.tonics)
    BY <1>1, <1>8 DEF Games, With
  <2>2. Append(g.storage, caught) \in Seq(Monsters) /\ Standing(Append(g.storage, caught))
    BY <1>1, <1>3, TeamAppend
  <2> QED BY <1>1, <1>5, <2>1, <2>2
<1> QED BY <1>6, <1>7, <1>8

\* The parts of a good game, for the steps that change some of them.
LEMMA GoodIs ==
    ASSUME NEW g, GoodGame(g)
    PROVE  /\ g \in Games /\ g.party \in Seq(Monsters) /\ g.storage \in Seq(Monsters)
           /\ g.party # << >> /\ Standing(g.party) /\ Standing(g.storage)
           /\ g.charms \in 0..MAX_SUPPLY /\ g.tonics \in 0..MAX_SUPPLY
           /\ \A i \in DOMAIN g.party : g.party[i] \in Monsters
           /\ \A i \in DOMAIN g.storage : g.storage[i] \in Monsters
<1>1. g \in Games /\ g.party # << >> /\ Standing(g.party) /\ Standing(g.storage)
  BY DEF GoodGame, Owned
<1> QED BY <1>1, GameIs

LEMMA HealIs ==
    ASSUME NEW g, GoodGame(g), NEW i, NEW h \in heal_member(g, i)
    PROVE  GoodGame(h) /\ DOMAIN h.party = DOMAIN g.party
<1>1. PICK full : full = MaxHp[g.party[i].species] OBVIOUS
<1>2. /\ i \in DOMAIN g.party /\ g.tonics > 0 /\ g.party[i].hp < full
      /\ h = [g EXCEPT !.party[i].hp = Smaller(@ + Tonic, full), !.tonics = @ - 1]
  BY <1>1 DEF heal_member
<1>3. g.party[i] \in Monsters /\ g.party[i].hp > 0 BY <1>2, GoodIs DEF Standing
<1>4. full \in Nat /\ full > 1 BY <1>1, <1>3, MonsterIs, RosterAssumption
<1>5. PICK hp, m, q : /\ hp = Smaller(g.party[i].hp + Tonic, full)
                      /\ m = [g.party[i] EXCEPT !.hp = hp]
                      /\ q = [g.party EXCEPT ![i] = m]
  OBVIOUS
<1>6. hp \in Nat /\ hp > 0
  <2>1. g.party[i].hp \in Nat /\ Tonic \in Nat BY <1>3, MonsterIs, JourneyAssumption
  <2>2. g.party[i].hp + Tonic \in Nat /\ g.party[i].hp + Tonic > 0 BY <1>3, <2>1
  <2> QED BY <1>4, <1>5, <2>2, SmallerIs
<1>7. m \in Monsters /\ m.hp > 0 BY <1>3, <1>5, <1>6, MonsterIs
<1>8. q \in Seq(Monsters) /\ q # << >> /\ DOMAIN q = DOMAIN g.party /\ Standing(q)
  BY <1>2, <1>5, <1>7, GoodIs, TeamSet
<1>9. h = With(g, q, g.storage, g.charms, g.tonics - 1)
  <2>1. g \in Games BY GoodIs
  <2>2. h = [g EXCEPT !.party = [g.party EXCEPT ![i] = [g.party[i] EXCEPT !.hp = hp]],
                      !.tonics = g.tonics - 1]
    BY <1>2, <1>5
  <2>3. h = [g EXCEPT !.party = q, !.tonics = g.tonics - 1] BY <1>5, <2>2
  <2> QED BY <2>1, <2>3 DEF Games, With
<1>10. g.tonics - 1 \in 0..MAX_SUPPLY BY <1>2, GoodIs, JourneyAssumption
<1>11. /\ g \in Games /\ g.storage \in Seq(Monsters) /\ Standing(g.storage)
       /\ g.charms \in 0..MAX_SUPPLY
  BY GoodIs
<1>12. /\ GoodGame(With(g, q, g.storage, g.charms, g.tonics - 1))
       /\ With(g, q, g.storage, g.charms, g.tonics - 1).party = q
  BY <1>8, <1>10, <1>11, GameChanged
<1> QED BY <1>8, <1>9, <1>12

LEMMA HavenIs ==
    ASSUME NEW g, Owned(g)
    PROVE  GoodGame(haven_heal(g)) /\ DOMAIN haven_heal(g).party = DOMAIN g.party
<1>1. /\ g \in Games /\ g.party \in Seq(Monsters) /\ g.storage \in Seq(Monsters)
      /\ g.party # << >> /\ Standing(g.storage)
      /\ g.charms \in 0..MAX_SUPPLY /\ g.tonics \in 0..MAX_SUPPLY
  BY GameIs DEF Owned
<1>2. PICK q : q = [i \in DOMAIN g.party |-> wild(g.party[i].species)] OBVIOUS
<1>3. \A i \in DOMAIN g.party : q[i] \in Monsters /\ q[i].hp > 0
  <2> SUFFICES ASSUME NEW i \in DOMAIN g.party PROVE q[i] \in Monsters /\ q[i].hp > 0 OBVIOUS
  <2>1. g.party[i].species \in Species BY <1>1, GameIs, MonsterIs
  <2>2. q[i] = wild(g.party[i].species) BY <1>2
  <2> QED BY <2>1, <2>2, WildIs
<1>4. Len(g.party) \in Nat /\ DOMAIN g.party = 1..Len(g.party) BY <1>1, LenProperties
<1>5. DOMAIN q = DOMAIN g.party BY <1>2
<1>6. q \in [1..Len(g.party) -> Monsters] BY <1>2, <1>3, <1>4
<1>7. q \in Seq(Monsters) BY <1>4, <1>6, IsASeq
<1>8. q # << >>
  <2>1. Len(g.party) # 0 BY <1>1, EmptySeq
  <2>2. 1 \in DOMAIN q BY <1>4, <1>5, <2>1
  <2> QED BY <2>2
<1>9. Standing(q) BY <1>3, <1>5 DEF Standing
<1>10. haven_heal(g) = With(g, q, g.storage, g.charms, g.tonics)
  BY <1>1, <1>2 DEF haven_heal, With, Games
<1> QED BY <1>1, <1>5, <1>7, <1>8, <1>9, <1>10, GameChanged

LEMMA SwapIs ==
    ASSUME NEW g, GoodGame(g), NEW i, NEW h \in swap_storage(g, i)
    PROVE  GoodGame(h)
<1>1. /\ i \in DOMAIN g.party /\ Len(g.party) # 1
      /\ h = [g EXCEPT !.party = RemoveAt(@, i), !.storage = Append(@, g.party[i])]
  BY DEF swap_storage
<1>2. g.party[i] \in Monsters /\ g.party[i].hp > 0 BY <1>1, GoodIs DEF Standing
<1>3. PICK q, s : q = RemoveAt(g.party, i) /\ s = Append(g.storage, g.party[i]) OBVIOUS
<1>4. q \in Seq(Monsters) /\ Len(q) = Len(g.party) - 1 /\ Standing(q)
  BY <1>1, <1>3, GoodIs, TeamRemove
<1>5. q # << >>
  <2>1. Len(q) # 0 BY <1>1, <1>4
  <2> QED BY <2>1
<1>6. s \in Seq(Monsters) /\ Standing(s) BY <1>2, <1>3, GoodIs, TeamAppend
<1>7. h = With(g, q, s, g.charms, g.tonics)
  <2>1. g \in Games BY GoodIs
  <2> QED BY <1>1, <1>3, <2>1 DEF Games, With
<1> QED BY <1>4, <1>5, <1>6, <1>7, GoodIs, GameChanged

LEMMA WithdrawIs ==
    ASSUME NEW g, GoodGame(g), NEW i, NEW h \in withdraw(g, i)
    PROVE  GoodGame(h)
<1>1. /\ i \in DOMAIN g.storage
      /\ h = [g EXCEPT !.storage = RemoveAt(@, i), !.party = Append(@, g.storage[i])]
  BY DEF withdraw
<1>2. g.storage[i] \in Monsters /\ g.storage[i].hp > 0 BY <1>1, GoodIs DEF Standing
<1>3. PICK q, s : q = Append(g.party, g.storage[i]) /\ s = RemoveAt(g.storage, i) OBVIOUS
<1>4. s \in Seq(Monsters) /\ Standing(s) BY <1>1, <1>3, GoodIs, TeamRemove
<1>5. q \in Seq(Monsters) /\ q # << >> /\ Standing(q) BY <1>2, <1>3, GoodIs, TeamAppend
<1>6. h = With(g, q, s, g.charms, g.tonics)
  <2>1. g \in Games BY GoodIs
  <2> QED BY <1>1, <1>3, <2>1 DEF Games, With
<1> QED BY <1>4, <1>5, <1>6, GoodIs, GameChanged

\* An evolved monster stands if it stood, and so does the rest of the party.
LEMMA GrantIs ==
    ASSUME NEW g, GoodGame(g), NEW i \in DOMAIN g.party, NEW h \in grant_xp(g, i)
    PROVE  GoodGame(h) /\ DOMAIN h.party = DOMAIN g.party
<1>1. PICK m : m = g.party[i] OBVIOUS
<1>2. m \in Monsters /\ m.hp > 0 BY <1>1, GoodIs DEF Standing
<1>3. m.species \in Species /\ m.hp \in Nat BY <1>2, MonsterIs
<1>4. ASSUME NEW to \in Evolves[m.species],
             h = [g EXCEPT !.party[i] = [m EXCEPT !.species = to,
                    !.hp = (2 * @ * MaxHp[to] + MaxHp[m.species]) \div (2 * MaxHp[m.species])]]
      PROVE  GoodGame(h) /\ DOMAIN h.party = DOMAIN g.party
  <2>1. PICK hp, e, q :
          /\ hp = (2 * m.hp * MaxHp[to] + MaxHp[m.species]) \div (2 * MaxHp[m.species])
          /\ e = [m EXCEPT !.species = to, !.hp = hp]
          /\ q = [g.party EXCEPT ![i] = e]
    OBVIOUS
  <2>2. to \in Species /\ MaxHp[m.species] \in Nat /\ MaxHp[to] \in Nat
        /\ MaxHp[m.species] > 1 /\ MaxHp[to] >= MaxHp[m.species]
    BY <1>3, <1>4, RosterAssumption
  <2>3. hp \in Nat /\ hp > 0 BY <1>2, <1>3, <2>1, <2>2, ShareIs
  <2>4. e \in Monsters /\ e.hp > 0 BY <1>2, <2>1, <2>2, <2>3 DEF Monsters
  <2>5. q \in Seq(Monsters) /\ q # << >> /\ DOMAIN q = DOMAIN g.party /\ Standing(q)
    BY <2>1, <2>4, GoodIs, TeamSet
  <2>6. h = With(g, q, g.storage, g.charms, g.tonics)
    <3>1. g \in Games BY GoodIs
    <3>2. h = [g EXCEPT !.party[i] = e]
      <4>1. e = [m EXCEPT !.species = to,
                 !.hp = (2 * @ * MaxHp[to] + MaxHp[m.species]) \div (2 * MaxHp[m.species])]
        BY <2>1
      <4> QED BY <1>4, <4>1
    <3>3. h = [g EXCEPT !.party = q] BY <2>1, <3>1, <3>2 DEF Games
    <3> QED BY <3>1, <3>3 DEF Games, With
  <2> QED BY <2>5, <2>6, GoodIs, GameChanged
<1>5. h = g \/ \E to \in Evolves[m.species] :
          h = [g EXCEPT !.party[i] = [m EXCEPT !.species = to,
                 !.hp = (2 * @ * MaxHp[to] + MaxHp[m.species]) \div (2 * MaxHp[m.species])]]
  BY <1>1 DEF grant_xp
<1> QED BY <1>4, <1>5

LEMMA RewardedIs ==
    ASSUME NEW g, GoodGame(g), NEW t \in Trainers
    PROVE  GoodGame(Rewarded(g, t))
<1>1. PICK d : d = [g EXCEPT !.defeated = @ \cup {t}] OBVIOUS
<1>2. GoodGame(d)
  <2>1. g \in Games /\ g.defeated \in SUBSET Trainers BY GoodIs, GameIs
  <2>2. d \in Games BY <1>1, <2>1 DEF Games
  <2>3. d.party = g.party /\ d.storage = g.storage BY <1>1, <2>1 DEF Games
  <2> QED BY <2>2, <2>3 DEF GoodGame, Owned
<1>3. PICK paid : paid = IF t \in g.defeated THEN g ELSE restock(d, Reward[t][1], Reward[t][2])
  OBVIOUS
<1>4. GoodGame(paid)
  <2>1. Reward[t][1] \in Nat /\ Reward[t][2] \in Nat BY RosterAssumption
  <2> QED BY <1>2, <1>3, <2>1, RestockIs
<1>5. Rewarded(g, t) = [paid EXCEPT !.badge = @ \/ t = GYM_LEADER]
  BY <1>1, <1>3 DEF Rewarded
<1>6. [paid EXCEPT !.badge = @ \/ t = GYM_LEADER] \in Games
  <2>1. paid \in Games /\ paid.badge \in BOOLEAN BY <1>4, GoodIs, GameIs
  <2>2. (paid.badge \/ t = GYM_LEADER) \in BOOLEAN OBVIOUS
  <2>3. PICK b : b = (paid.badge \/ t = GYM_LEADER) OBVIOUS
  <2>4. b \in BOOLEAN BY <2>2, <2>3, Zenon
  <2>5. [paid EXCEPT !.badge = b] \in Games BY <2>1, <2>4, Zenon DEF Games
  <2> QED BY <2>3, <2>5, Zenon
<1>7. /\ [paid EXCEPT !.badge = @ \/ t = GYM_LEADER].party = paid.party
      /\ [paid EXCEPT !.badge = @ \/ t = GYM_LEADER].storage = paid.storage
  <2>1. paid \in Games BY <1>4, GoodIs
  <2> QED BY <2>1 DEF Games
<1> QED BY <1>4, <1>5, <1>6, <1>7 DEF GoodGame, Owned

-----------------------------------------------------------------------------
(* Turns.  One that can go on is Ready; what can come of it is an Outcome:  *)
(* only a lost battle leaves fainted monsters behind, and only in the party.*)

Turn(g, b, k) == [game |-> g, battle |-> b, ok |-> k]
IsTurn(t) == t = Turn(t.game, t.battle, t.ok) /\ t.game \in Games /\ t.battle \in Battles

Ready(t) ==
    /\ IsTurn(t) /\ GoodGame(t.game) /\ t.ok = TRUE
    /\ t.battle.phase = "PlayerChoice" /\ t.battle.wild.hp > 0
    /\ t.battle.active \in DOMAIN t.game.party

Outcome(t) ==
    /\ IsTurn(t) /\ Owned(t.game)
    /\ t.battle.phase # "Lost" => Standing(t.game.party)
    /\ t.battle.phase = "PlayerChoice" => t.battle.wild.hp > 0
    /\ t.battle.phase \in {"PlayerChoice", "Won"} => t.battle.active \in DOMAIN t.game.party

\* Games that differ in the hit points of the party at most.
Same(g, h) ==
    /\ h = With(g, h.party, g.storage, g.charms, g.tonics)
    /\ DOMAIN h.party = DOMAIN g.party
    /\ \A i \in DOMAIN g.party : /\ h.party[i].species = g.party[i].species
                                 /\ h.party[i].pp = g.party[i].pp

LEMMA BattleIs ==
    ASSUME NEW b \in Battles
    PROVE  /\ b.wild \in Monsters /\ b.phase \in Phases /\ b.queue \in Seq(Species)
           /\ b.trainer \in Option(Trainers) /\ b.active \in Nat \ {0}
           /\ \A p \in Phases : /\ [b EXCEPT !.phase = p] \in Battles
                                /\ [b EXCEPT !.phase = p].phase = p
                                /\ [b EXCEPT !.phase = p].wild = b.wild
                                /\ [b EXCEPT !.phase = p].active = b.active
           /\ \A m \in Monsters : /\ [b EXCEPT !.wild = m] \in Battles
                                  /\ [b EXCEPT !.wild = m].wild = m
                                  /\ [b EXCEPT !.wild = m].phase = b.phase
                                  /\ [b EXCEPT !.wild = m].active = b.active
           /\ \A n \in Nat \ {0} : /\ [b EXCEPT !.active = n] \in Battles
                                   /\ [b EXCEPT !.active = n].active = n
                                   /\ [b EXCEPT !.active = n].phase = b.phase
                                   /\ [b EXCEPT !.active = n].wild = b.wild
BY DEF Battles

LEMMA TurnIs ==
    ASSUME NEW g \in Games, NEW b \in Battles
    PROVE  /\ Turn(g, b, TRUE).game = g /\ Turn(g, b, TRUE).battle = b
           /\ Turn(g, b, TRUE).ok = TRUE /\ IsTurn(Turn(g, b, TRUE))
BY DEF Turn, IsTurn

LEMMA StrikeIs ==
    ASSUME NEW t, Ready(t), NEW i \in DOMAIN t.game.party, NEW u \in wild_strike(t, i)
    PROVE  /\ Outcome(u) /\ u.ok = TRUE /\ Same(t.game, u.game)
           /\ u.battle.phase \in {"PlayerChoice", "Lost"}
           /\ u.battle.active = t.battle.active
           /\ u.battle.phase = "PlayerChoice" => Ready(u)
<1> DEFINE g == t.game
           b == t.battle
<1>1. /\ t = Turn(g, b, t.ok) /\ g \in Games /\ b \in Battles /\ GoodGame(g) /\ t.ok = TRUE
      /\ b.phase = "PlayerChoice" /\ b.wild.hp > 0 /\ b.active \in DOMAIN g.party
  BY DEF Ready, IsTurn
<1>2. PICK d \in Damages :
        u = [t EXCEPT !.game.party[i].hp = Less(t.game.party[i].hp, d),
                      !.battle.phase = IF Less(t.game.party[i].hp, d) = 0 THEN "Lost" ELSE @]
  <2>1. t.battle.wild.hp # 0 BY <1>1
  <2>2. u \in {[t EXCEPT !.game.party[i].hp = Less(t.game.party[i].hp, d),
                  !.battle.phase = IF Less(t.game.party[i].hp, d) = 0 THEN "Lost" ELSE @]
                 : d \in Damages}
    BY <2>1, Zenon DEF wild_strike
  <2> QED BY <2>2
<1>3. g.party[i] \in Monsters BY <1>1, GoodIs
<1>4. PICK hp : hp = Less(g.party[i].hp, d) OBVIOUS
<1>5. PICK p : p = IF hp = 0 THEN "Lost" ELSE "PlayerChoice" OBVIOUS
<1>6. PICK m : m = [g.party[i] EXCEPT !.hp = hp] OBVIOUS
<1>7. PICK q : q = [g.party EXCEPT ![i] = m] OBVIOUS
<1>8. u = Turn([g EXCEPT !.party = q], [b EXCEPT !.phase = p], TRUE)
  <2>1. u = [t EXCEPT !.game.party[i].hp = hp, !.battle.phase = p]
    BY <1>1, <1>2, <1>4, <1>5
  <2>2. [t EXCEPT !.game.party[i].hp = hp, !.battle.phase = p]
          = [t EXCEPT !.game = [g EXCEPT !.party = q], !.battle = [b EXCEPT !.phase = p]]
    BY <1>1, <1>6, <1>7
  <2> QED BY <1>1, <2>1, <2>2 DEF Turn
<1>9. [g EXCEPT !.party = q] = With(g, q, g.storage, g.charms, g.tonics)
  BY <1>1 DEF Games, With
<1>10. hp \in Nat
  <2>1. g.party[i].hp \in Nat /\ d \in Nat BY <1>2, <1>3, MonsterIs, RosterAssumption
  <2> QED BY <1>4, <2>1, LessIs
<1>11. m \in Monsters /\ m.hp = hp /\ m.species = g.party[i].species /\ m.pp = g.party[i].pp
  BY <1>3, <1>6, <1>10 DEF Monsters
<1>12. /\ q \in Seq(Monsters) /\ q # << >> /\ DOMAIN q = DOMAIN g.party
       /\ hp > 0 => Standing(q)
       /\ q[i] = m /\ \A j \in DOMAIN g.party : j # i => q[j] = g.party[j]
  BY <1>1, <1>7, <1>11, GoodIs, TeamSet
<1>13. /\ g.storage \in Seq(Monsters) /\ Standing(g.storage)
       /\ g.charms \in 0..MAX_SUPPLY /\ g.tonics \in 0..MAX_SUPPLY
  BY <1>1, GoodIs
<1>14. PICK h : h = With(g, q, g.storage, g.charms, g.tonics) OBVIOUS
<1>15. Owned(h) /\ h.party = q /\ (hp > 0 => GoodGame(h))
  BY <1>1, <1>12, <1>13, <1>14, GameChanged
<1>16. PICK c : c = [b EXCEPT !.phase = p] OBVIOUS
<1>17. c \in Battles /\ c.phase = p /\ c.wild = b.wild /\ c.active = b.active
  <2>1. p \in Phases BY <1>5 DEF Phases
  <2> QED BY <1>1, <1>16, <2>1, BattleIs
<1>18. u = Turn(h, c, TRUE) BY <1>8, <1>9, <1>14, <1>16
<1>19. u.game = h /\ u.battle = c /\ u.ok = TRUE /\ IsTurn(u)
  <2>1. h \in Games BY <1>15 DEF Owned
  <2> QED BY <1>17, <1>18, <2>1 DEF Turn, IsTurn
<1>20. Same(g, h)
  <2>1. \A j \in DOMAIN g.party : q[j].species = g.party[j].species /\ q[j].pp = g.party[j].pp
    BY <1>11, <1>12
  <2> QED BY <1>12, <1>14, <1>15, <2>1 DEF Same
<1>21. p # "Lost" => hp > 0 BY <1>5, <1>10
<1>22. c.active \in DOMAIN h.party BY <1>1, <1>12, <1>15, <1>17
<1>23. Outcome(u)
  <2>1. p # "Lost" => Standing(h.party) BY <1>15, <1>21 DEF GoodGame
  <2> QED BY <1>1, <1>15, <1>17, <1>19, <1>22, <2>1 DEF Outcome
<1>24. p = "PlayerChoice" => Ready(u)
  <2>1. p = "PlayerChoice" => GoodGame(h) BY <1>15, <1>21
  <2> QED BY <1>1, <1>17, <1>19, <1>22, <2>1 DEF Ready
<1> QED BY <1>5, <1>17, <1>19, <1>20, <1>23, <1>24

LEMMA AttackIs ==
    ASSUME NEW t, Ready(t), NEW u \in player_attack(t, t.battle.active)
    PROVE  /\ Outcome(u)
           /\ u.battle.phase \in {"PlayerChoice", "Won"}
           /\ u.battle.active = t.battle.active
           /\ \/ u.ok = FALSE /\ u.game = t.game /\ u.battle.phase = "PlayerChoice"
              \/ u.ok = TRUE /\ (u.battle.phase = "PlayerChoice" => Ready(u))
<1> DEFINE g == t.game
           b == t.battle
           i == t.battle.active
<1>1. /\ t = Turn(g, b, t.ok) /\ g \in Games /\ b \in Battles /\ GoodGame(g) /\ t.ok = TRUE
      /\ b.phase = "PlayerChoice" /\ b.wild.hp > 0 /\ i \in DOMAIN g.party
  BY DEF Ready, IsTurn
<1>2. g.party[i] \in Monsters /\ g.party[i].hp > 0 BY <1>1, GoodIs DEF Standing
<1>3. CASE g.party[i].pp = 0
  <2>1. u = [t EXCEPT !.ok = FALSE] BY <1>3 DEF player_attack
  <2>2. u = Turn(g, b, FALSE) BY <1>1, <2>1 DEF Turn
  <2>3. u.game = g /\ u.battle = b /\ u.ok = FALSE /\ IsTurn(u)
    BY <1>1, <2>2 DEF Turn, IsTurn
  <2> QED BY <1>1, <2>3 DEF Outcome, GoodGame
<1>4. CASE g.party[i].pp # 0
  <2>1. PICK d, h :
          /\ d \in Damages \cup {0}
          /\ h = [t EXCEPT !.battle.wild.hp = Less(@, d), !.game.party[i].pp = @ - 1]
          /\ u \in IF h.battle.wild.hp = 0
                   THEN {[h EXCEPT !.game = x, !.battle.phase = "Won"] : x \in grant_xp(h.game, i)}
                   ELSE {h}
    BY <1>4, Zenon DEF player_attack
  <2>2. PICK hp : hp = Less(b.wild.hp, d) OBVIOUS
  <2>3. PICK w : w = [b.wild EXCEPT !.hp = hp] OBVIOUS
  <2>4. PICK m : m = [g.party[i] EXCEPT !.pp = g.party[i].pp - 1] OBVIOUS
  <2>5. PICK q : q = [g.party EXCEPT ![i] = m] OBVIOUS
  <2>6. h = Turn([g EXCEPT !.party = q], [b EXCEPT !.wild = w], TRUE)
    <3>1. h = [t EXCEPT !.battle = [b EXCEPT !.wild = w], !.game = [g EXCEPT !.party = q]]
      BY <1>1, <2>1, <2>2, <2>3, <2>4, <2>5
    <3> QED BY <1>1, <3>1 DEF Turn
  <2>7. [g EXCEPT !.party = q] = With(g, q, g.storage, g.charms, g.tonics)
    BY <1>1 DEF Games, With
  <2>8. hp \in Nat /\ w \in Monsters /\ w.hp = hp
    <3>1. b.wild \in Monsters BY <1>1, BattleIs
    <3>2. d \in Damages \cup {0} BY <2>1, Zenon
    <3>3. b.wild.hp \in Nat /\ d \in Nat BY <3>1, <3>2, MonsterIs, RosterAssumption
    <3>4. hp \in Nat BY <2>2, <3>3, LessIs
    <3> QED BY <2>3, <3>1, <3>4, MonsterIs
  <2>9. m \in Monsters /\ m.hp > 0
    <3>1. g.party[i].pp - 1 \in 0..PP_PER_MOVE BY <1>2, <1>4, MonsterIs, JourneyAssumption
    <3> QED BY <1>2, <2>4, <3>1 DEF Monsters
  <2>10. q \in Seq(Monsters) /\ q # << >> /\ DOMAIN q = DOMAIN g.party /\ Standing(q)
    BY <1>1, <2>5, <2>9, GoodIs, TeamSet
  <2>11. PICK x : x = With(g, q, g.storage, g.charms, g.tonics) OBVIOUS
  <2>12. GoodGame(x) /\ x.party = q
    <3>1. /\ g.storage \in Seq(Monsters) /\ Standing(g.storage)
          /\ g.charms \in 0..MAX_SUPPLY /\ g.tonics \in 0..MAX_SUPPLY
      BY <1>1, GoodIs
    <3> QED BY <1>1, <2>10, <2>11, <3>1, GameChanged
  <2>13. PICK c : c = [b EXCEPT !.wild = w] OBVIOUS
  <2>14. c \in Battles /\ c.phase = "PlayerChoice" /\ c.wild = w /\ c.active = i
    BY <1>1, <2>8, <2>13, BattleIs
  <2>15. h = Turn(x, c, TRUE) BY <2>6, <2>7, <2>11, <2>13
  <2>16. x \in Games BY <2>12, GoodIs
  <2>17. h.game = x /\ h.battle = c /\ h.ok = TRUE /\ IsTurn(h)
    BY <2>14, <2>15, <2>16 DEF Turn, IsTurn
  <2>18. i \in DOMAIN x.party BY <1>1, <2>10, <2>12
  <2>19. CASE h.battle.wild.hp # 0
    <3>1. u = h BY <2>1, <2>19
    <3>2. Ready(u) BY <2>8, <2>12, <2>14, <2>17, <2>18, <2>19, <3>1 DEF Ready
    <3>3. Outcome(u)
      BY <2>8, <2>12, <2>14, <2>17, <2>18, <2>19, <3>1 DEF Outcome, GoodGame
    <3> QED BY <2>14, <2>17, <3>1, <3>2, <3>3
  <2>20. CASE h.battle.wild.hp = 0
    <3>1. PICK y \in grant_xp(x, i) : u = [h EXCEPT !.game = y, !.battle.phase = "Won"]
      BY <2>1, <2>17, <2>20
    <3>2. GoodGame(y) /\ DOMAIN y.party = DOMAIN x.party BY <2>12, <2>18, <3>1, GrantIs
    <3>3. PICK e : e = [c EXCEPT !.phase = "Won"] OBVIOUS
    <3>4. e \in Battles /\ e.phase = "Won" /\ e.active = i
      BY <2>14, <3>3, BattleIs DEF Phases
    <3>5. u = Turn(y, e, TRUE) BY <2>15, <3>1, <3>3 DEF Turn
    <3>6. y \in Games BY <3>2, GoodIs
    <3>7. u.game = y /\ u.battle = e /\ u.ok = TRUE /\ IsTurn(u)
      BY <3>4, <3>5, <3>6 DEF Turn, IsTurn
    <3>8. Outcome(u) BY <2>18, <3>2, <3>4, <3>7 DEF Outcome, GoodGame
    <3> QED BY <3>4, <3>7, <3>8
  <2> QED BY <2>19, <2>20
<1> QED BY <1>3, <1>4

\* A turn that is refused has taken hit points at most.
Refusal(t, u) == u.ok = FALSE /\ Same(t.game, u.game) /\ u.battle.phase = "PlayerChoice"

LEMMA SameIs == ASSUME NEW g \in Games PROVE Same(g, g)
BY DEF Games, Same, With

LEMMA FightIs ==
    ASSUME NEW t, Ready(t), NEW u \in Fight(t)
    PROVE  Outcome(u) /\ (u.ok = TRUE \/ Refusal(t, u))
<1> DEFINE i == t.battle.active
<1>1. t.game \in Games /\ i \in DOMAIN t.game.party BY DEF Ready, IsTurn
<1>2. \/ \E s \in player_attack(t, i) :
            u \in IF Choosing(s) THEN wild_strike(s, i) ELSE {s}
      \/ \E s \in wild_strike(t, i) :
            u \in IF Choosing(s) THEN player_attack(s, i) ELSE {s}
  BY Zenon DEF Fight
<1>3. ASSUME NEW s \in player_attack(t, i), u \in IF Choosing(s) THEN wild_strike(s, i) ELSE {s}
      PROVE  Outcome(u) /\ (u.ok = TRUE \/ Refusal(t, u))
  <2>1. /\ Outcome(s) /\ s.battle.active = i
        /\ \/ s.ok = FALSE /\ s.game = t.game /\ s.battle.phase = "PlayerChoice"
           \/ s.ok = TRUE /\ (s.battle.phase = "PlayerChoice" => Ready(s))
    BY AttackIs
  <2>2. CASE Choosing(s)
    <3>1. Ready(s) BY <2>1, <2>2 DEF Choosing
    <3>2. i \in DOMAIN s.game.party BY <2>1, <3>1 DEF Ready
    <3>3. u \in wild_strike(s, i) BY <1>3, <2>2
    <3> QED BY <3>1, <3>2, <3>3, StrikeIs
  <2>3. CASE ~Choosing(s)
    <3>1. u = s BY <1>3, <2>3
    <3> QED BY <1>1, <2>1, <3>1, SameIs DEF Refusal
  <2> QED BY <2>2, <2>3
<1>4. ASSUME NEW s \in wild_strike(t, i), u \in IF Choosing(s) THEN player_attack(s, i) ELSE {s}
      PROVE  Outcome(u) /\ (u.ok = TRUE \/ Refusal(t, u))
  <2>1. /\ Outcome(s) /\ s.ok = TRUE /\ Same(t.game, s.game) /\ s.battle.active = i
        /\ s.battle.phase = "PlayerChoice" => Ready(s)
    BY <1>1, StrikeIs
  <2>2. CASE Choosing(s)
    <3>1. Ready(s) BY <2>1, <2>2 DEF Choosing
    <3>2. u \in player_attack(s, s.battle.active) BY <1>4, <2>1, <2>2
    <3>3. /\ Outcome(u)
          /\ \/ u.ok = FALSE /\ u.game = s.game /\ u.battle.phase = "PlayerChoice"
             \/ u.ok = TRUE
      BY <3>1, <3>2, AttackIs
    <3> QED BY <2>1, <3>3 DEF Refusal
  <2>3. CASE ~Choosing(s)
    <3>1. u = s BY <1>4, <2>3
    <3> QED BY <2>1, <3>1
  <2> QED BY <2>2, <2>3
<1> QED BY <1>2, <1>3, <1>4

\* A good game and another phase: the rules that end a battle.
LEMMA EndedIs ==
    ASSUME NEW t, Ready(t), NEW h, GoodGame(h), NEW p \in Phases \ {"PlayerChoice", "Won"},
           NEW u, u = [t EXCEPT !.game = h, !.battle.phase = p]
    PROVE  Outcome(u) /\ u.ok = TRUE
<1>1. t = Turn(t.game, t.battle, t.ok) /\ t.battle \in Battles /\ t.ok = TRUE
  BY DEF Ready, IsTurn
<1>2. PICK c : c = [t.battle EXCEPT !.phase = p] OBVIOUS
<1>3. c \in Battles /\ c.phase = p BY <1>1, <1>2, BattleIs
<1>4. u = Turn(h, c, TRUE)
  <2>1. DOMAIN t = {"game", "battle", "ok"} BY <1>1 DEF Turn
  <2>2. u = [t EXCEPT !.game = h, !.battle = c] BY <1>2, <2>1
  <2> QED BY <1>1, <2>1, <2>2 DEF Turn
<1>5. h \in Games BY GoodIs
<1>6. u.game = h /\ u.battle = c /\ u.ok = TRUE /\ IsTurn(u)
  <2>1. /\ Turn(h, c, TRUE).game = h /\ Turn(h, c, TRUE).battle = c
        /\ Turn(h, c, TRUE).ok = TRUE /\ IsTurn(Turn(h, c, TRUE))
    BY <1>3, <1>5, TurnIs, Zenon
  <2> QED BY <1>4, <2>1, Zenon
<1> QED BY <1>3, <1>6 DEF Outcome, GoodGame

LEMMA StruckIs ==
    ASSUME NEW t, Ready(t), NEW u \in wild_strike(t, t.battle.active)
    PROVE  Outcome(u) /\ u.ok = TRUE
<1>1. t.battle.active \in DOMAIN t.game.party BY DEF Ready
<1> QED BY <1>1, StrikeIs

LEMMA EscapeIs ==
    ASSUME NEW t, Ready(t), NEW u \in Escape(t)
    PROVE  Outcome(u) /\ u.ok = TRUE
<1>1. CASE u \in wild_strike(t, t.battle.active) BY <1>1, StruckIs
<1>2. CASE u = [t EXCEPT !.battle.phase = "Fled"]
  <2>1. GoodGame(t.game) /\ t = Turn(t.game, t.battle, t.ok) BY DEF Ready, IsTurn
  <2>2. u = [t EXCEPT !.game = t.game, !.battle.phase = "Fled"] BY <1>2, <2>1 DEF Turn
  <2>3. "Fled" \in Phases \ {"PlayerChoice", "Won"} BY DEF Phases
  <2> QED BY <2>1, <2>2, <2>3, EndedIs
<1> QED BY <1>1, <1>2 DEF Escape

LEMMA CapturedIs ==
    ASSUME NEW t, Ready(t), NEW u \in Capture(t)
    PROVE  Outcome(u) /\ u.ok = TRUE
<1>1. CASE u \in wild_strike(t, t.battle.active) BY <1>1, StruckIs
<1>2. ASSUME NEW g \in capture(t.game, t.battle.wild),
             u = [t EXCEPT !.game = g, !.battle.phase = "Captured"]
      PROVE  Outcome(u) /\ u.ok = TRUE
  <2>1. GoodGame(t.game) /\ t.battle.wild \in Monsters BY BattleIs DEF Ready, IsTurn
  <2>2. GoodGame(g) BY <1>2, <2>1, CaptureIs
  <2>3. "Captured" \in Phases \ {"PlayerChoice", "Won"} BY DEF Phases
  <2> QED BY <1>2, <2>2, <2>3, EndedIs
<1> QED BY <1>1, <1>2 DEF Capture

LEMMA HealedIs ==
    ASSUME NEW t, Ready(t), NEW u \in Heal(t, t.battle.active)
    PROVE  Outcome(u) /\ u.ok = TRUE
<1>1. CASE u \in wild_strike(t, t.battle.active) BY <1>1, StruckIs
<1>2. ASSUME NEW h \in heal_member(t.game, t.battle.active), u = [t EXCEPT !.game = h]
      PROVE  Outcome(u) /\ u.ok = TRUE
  <2>1. /\ t = Turn(t.game, t.battle, t.ok) /\ t.battle \in Battles /\ t.ok = TRUE
        /\ GoodGame(t.game) /\ t.battle.phase = "PlayerChoice" /\ t.battle.wild.hp > 0
        /\ t.battle.active \in DOMAIN t.game.party
    BY DEF Ready, IsTurn
  <2>2. GoodGame(h) /\ DOMAIN h.party = DOMAIN t.game.party BY <1>2, <2>1, HealIs
  <2>3. u = Turn(h, t.battle, TRUE) BY <1>2, <2>1 DEF Turn
  <2>4. h \in Games BY <2>2, GoodIs
  <2>5. u.game = h /\ u.battle = t.battle /\ u.ok = TRUE /\ IsTurn(u)
    BY <2>1, <2>3, <2>4 DEF Turn, IsTurn
  <2> QED BY <2>1, <2>2, <2>5 DEF Outcome, GoodGame
<1> QED BY <1>1, <1>2 DEF Heal

LEMMA NextMemberIs ==
    ASSUME NEW g \in Games, NEW a \in Nat \ {0}, NEW i \in next_healthy_member(g, a)
    PROVE  i \in DOMAIN g.party
<1>1. g.party \in Seq(Monsters) BY GameIs
<1>2. PICK n : n = Len(g.party) OBVIOUS
<1>3. n \in Nat /\ DOMAIN g.party = 1..n BY <1>1, <1>2, LenProperties
<1>4. PICK o \in 1..n : i = ((a - 1 + o) % n) + 1
  BY <1>2 DEF next_healthy_member
<1>5. (a - 1 + o) \in Nat /\ n \in Nat \ {0} BY <1>3, <1>4
<1>6. (a - 1 + o) % n \in 0..(n - 1) BY <1>5
<1> QED BY <1>3, <1>4, <1>6

LEMMA SwitchIs ==
    ASSUME NEW t, Ready(t), NEW i \in next_healthy_member(t.game, t.battle.active),
           NEW u \in Switch(t, i)
    PROVE  Outcome(u) /\ u.ok = TRUE
<1>1. t.game \in Games /\ t.battle.active \in Nat \ {0} BY BattleIs DEF Ready, IsTurn
<1>2. i \in DOMAIN t.game.party BY <1>1, NextMemberIs
<1>3. PICK s \in wild_strike(t, i) :
        u = [s EXCEPT !.battle.active = Smaller(i, Len(s.game.party))]
  BY DEF Switch
<1>4. Outcome(s) /\ s.ok = TRUE BY <1>2, <1>3, StrikeIs
<1>5. /\ s = Turn(s.game, s.battle, s.ok) /\ s.game \in Games /\ s.battle \in Battles
      /\ Owned(s.game)
  BY <1>4 DEF Outcome, IsTurn
<1>6. PICK n : n = Smaller(i, Len(s.game.party)) OBVIOUS
<1>7. n \in DOMAIN s.game.party /\ n \in Nat \ {0}
  <2>1. t.game.party \in Seq(Monsters) /\ s.game.party \in Seq(Monsters)
        /\ s.game.party # << >>
    BY <1>1, <1>5, GameIs DEF Owned
  <2>2. i \in Nat /\ i > 0 BY <1>2, <2>1, LenProperties
  <2>3. Len(s.game.party) \in Nat /\ Len(s.game.party) > 0
        /\ DOMAIN s.game.party = 1..Len(s.game.party)
    BY <2>1, LenProperties, EmptySeq
  <2>4. n \in Nat /\ n <= Len(s.game.party) /\ n > 0 BY <1>6, <2>2, <2>3, SmallerIs
  <2> QED BY <2>3, <2>4
<1>8. PICK c : c = [s.battle EXCEPT !.active = n] OBVIOUS
<1>9. c \in Battles /\ c.active = n /\ c.phase = s.battle.phase /\ c.wild = s.battle.wild
  BY <1>5, <1>7, <1>8, BattleIs
<1>10. u = Turn(s.game, c, TRUE) BY <1>3, <1>4, <1>5, <1>6, <1>8 DEF Turn
<1>11. u.game = s.game /\ u.battle = c /\ u.ok = TRUE /\ IsTurn(u)
  BY <1>5, <1>9, <1>10 DEF Turn, IsTurn
<1> QED BY <1>4, <1>7, <1>9, <1>11 DEF Outcome

BattleLabels == {"BattleMove", "BattleCapture", "BattleHeal", "BattleEscape", "BattleSwitch"}

LEMMA ResolveIs ==
    ASSUME NEW t, Ready(t), NEW action \in BattleLabels, NEW u \in resolve(t, action)
    PROVE  Outcome(u) /\ (u.ok = TRUE \/ Refusal(t, u))
<1>1. CASE action = "BattleMove"
  <2>1. u \in Fight(t) BY <1>1 DEF resolve
  <2> QED BY <2>1, FightIs
<1>2. CASE action = "BattleCapture"
  <2>1. u \in Capture(t) BY <1>2 DEF resolve
  <2> QED BY <2>1, CapturedIs
<1>3. CASE action = "BattleHeal"
  <2>1. u \in Heal(t, t.battle.active) BY <1>3 DEF resolve
  <2> QED BY <2>1, HealedIs
<1>4. CASE action = "BattleEscape"
  <2>1. u \in Escape(t) BY <1>4 DEF resolve
  <2> QED BY <2>1, EscapeIs
<1>5. CASE action = "BattleSwitch"
  <2>1. PICK i \in next_healthy_member(t.game, t.battle.active) : u \in Switch(t, i)
    BY <1>5 DEF resolve
  <2> QED BY <2>1, SwitchIs
<1> QED BY <1>1, <1>2, <1>3, <1>4, <1>5 DEF BattleLabels

-----------------------------------------------------------------------------
(* The screens.  A press finds what the last frame drew, so what protects  *)
(* a battle in which another monster than the first fights is that nothing *)
(* else than battle buttons can be on the screen: Screened.                *)

BattleButtons == {<<a>> : a \in BattleLabels}
Plain == \A a \in BattleLabels : <<a>> \notin buttons

Healthy == \A s \in Written : GoodGame(s.game)
Fighting == \A b \in battle : b.phase = "PlayerChoice" /\ b.wild.hp > 0
Fielded == \A s \in save, b \in battle : b.active \in DOMAIN s.game.party
Screened ==
    /\ buttons = BattleButtons \/ Plain
    /\ buttons = BattleButtons => battle = {} \/ screen = "Battle"
    /\ \A b \in battle : b.active # 1 => screen = "Battle" /\ buttons = BattleButtons

MossInv ==
    /\ MossTypeOK /\ Healthy /\ Fighting /\ Fielded /\ Screened /\ SavedOrDirty

\* Where another thing than a turn of a battle happens.
Outside == screen # "Battle" \/ Plain

LEMMA OutsideIs ==
    ASSUME MossInv, Outside
    PROVE  /\ \A b \in battle : b.active = 1
           /\ buttons = BattleButtons => battle = {}
<1>1. Plain => buttons # BattleButtons BY DEF Plain, BattleButtons, BattleLabels
<1> QED BY <1>1 DEF MossInv, Screened, Outside

LEMMA FirstIsThere ==
    ASSUME NEW g, GoodGame(g) PROVE 1 \in DOMAIN g.party
<1>1. g.party \in Seq(Monsters) /\ g.party # << >> BY GoodIs
<1>2. Len(g.party) \in Nat /\ Len(g.party) # 0 /\ DOMAIN g.party = 1..Len(g.party)
  BY <1>1, LenProperties, EmptySeq
<1> QED BY <1>2

\* Screens change, and nothing else that matters.
LEMMA IdleStep ==
    ASSUME MossInv, Outside, save' = save, battle' = battle, disk' = disk, buttons' = buttons,
           screen' \in Screens, screen' # "Battle", dirty' = dirty \/ dirty' = TRUE
    PROVE  MossInv'
<1>1. OneOf(save, Saves)' /\ OneOf(disk \ {Refused}, Saves)' /\ OneOf(battle, Battles)'
  BY DEF MossInv, MossTypeOK, OneOf
<1>2. dirty' \in BOOLEAN BY Zenon DEF MossInv, MossTypeOK
<1>3. MossTypeOK' BY <1>1, <1>2, Zenon DEF MossTypeOK
<1>4. (Healthy /\ Fighting /\ Fielded)' BY DEF MossInv, Healthy, Written, Fighting, Fielded
<1>5. Screened'
  <2>1. (buttons = BattleButtons \/ Plain)'
    BY DEF MossInv, Screened, Plain, BattleButtons, BattleLabels
  <2>2. BattleButtons' = BattleButtons BY DEF BattleButtons, BattleLabels
  <2> QED BY <2>1, <2>2, OutsideIs DEF Screened
<1>6. SavedOrDirty'
  <2>1. CASE dirty' = TRUE BY <2>1, Zenon DEF SavedOrDirty
  <2>2. CASE dirty' = dirty BY <2>2, Zenon DEF MossInv, SavedOrDirty, Progress
  <2> QED BY <2>1, <2>2, Zenon
<1> QED BY <1>3, <1>4, <1>5, <1>6 DEF MossInv

\* Another good game, and it is marked.
LEMMA ChangeStep ==
    ASSUME MossInv, Outside, battle' = battle, disk' = disk, buttons' = buttons,
           screen' = screen \/ screen' = "Dialogue", dirty' = TRUE,
           NEW s \in Saves, GoodGame(s.game), save' = {s}
    PROVE  MossInv'
<1>1. OneOf(save, Saves)' /\ OneOf(disk \ {Refused}, Saves)' /\ OneOf(battle, Battles)'
      /\ screen' \in Screens
  BY DEF MossInv, MossTypeOK, OneOf, Screens
<1>2. MossTypeOK' BY <1>1, Zenon DEF MossTypeOK
<1>3. Healthy' BY DEF MossInv, Healthy, Written
<1>4. Fighting' BY DEF MossInv, Fighting
<1>5. Fielded' BY OutsideIs, FirstIsThere DEF Fielded
<1>6. Screened'
  <2>1. (buttons = BattleButtons \/ Plain)'
    BY DEF MossInv, Screened, Plain, BattleButtons, BattleLabels
  <2>2. BattleButtons' = BattleButtons BY DEF BattleButtons, BattleLabels
  <2> QED BY <2>1, <2>2, OutsideIs DEF Screened
<1>7. SavedOrDirty' BY Zenon DEF SavedOrDirty
<1> QED BY <1>2, <1>3, <1>4, <1>5, <1>6, <1>7 DEF MossInv

\* A battle begins.
Fresh(b) == b \in Battles /\ b.phase = "PlayerChoice" /\ b.wild.hp > 0 /\ b.active = 1

LEMMA BeginStep ==
    ASSUME MossInv, save' = save, disk' = disk, dirty' = dirty, screen' = "Battle",
           (buttons' = buttons) \/ (buttons' = BattleButtons),
           NEW b, Fresh(b), battle' = {b}
    PROVE  MossInv'
<1>1. OneOf(save, Saves)' /\ OneOf(disk \ {Refused}, Saves)' /\ OneOf(battle, Battles)'
      /\ screen' \in Screens
  BY DEF MossInv, MossTypeOK, OneOf, Screens, Fresh
<1>2. dirty' \in BOOLEAN BY Zenon DEF MossInv, MossTypeOK
<1>3. MossTypeOK' BY <1>1, <1>2, Zenon DEF MossTypeOK
<1>4. Healthy' BY DEF MossInv, Healthy, Written
<1>5. Fighting' BY DEF Fighting, Fresh
<1>6. Fielded'
  <2>1. \A s \in save : 1 \in DOMAIN s.game.party
    BY FirstIsThere DEF MossInv, Healthy, Written
  <2> QED BY <2>1 DEF Fielded, Fresh
<1>7. Screened'
  <2>1. (buttons = BattleButtons \/ Plain)'
    BY DEF MossInv, Screened, Plain, BattleButtons, BattleLabels
  <2> QED BY <2>1 DEF Screened, Fresh
<1>8. SavedOrDirty' BY Zenon DEF MossInv, SavedOrDirty, Progress
<1> QED BY <1>3, <1>4, <1>5, <1>6, <1>7, <1>8 DEF MossInv

-----------------------------------------------------------------------------
(* The turn of a battle, from the button to what finish_or_continue_battle *)
(* leaves.                                                                 *)

LEMMA SaveIs ==
    ASSUME NEW g \in Games, NEW p \in Places
    PROVE  /\ [game |-> g, place |-> p] \in Saves
           /\ [game |-> g, place |-> p].game = g /\ [game |-> g, place |-> p].place = p
BY DEF Saves

LEMMA SaveGameIs ==
    ASSUME NEW s \in Saves, NEW g \in Games
    PROVE  /\ [s EXCEPT !.game = g] \in Saves /\ [s EXCEPT !.game = g].game = g
           /\ s.game \in Games /\ s.place \in Places
BY DEF Saves

LEMMA ProgressIs ==
    ASSUME NEW s \in Saves, NEW h \in Games, Same(s.game, h)
    PROVE  Progress([s EXCEPT !.game = h]) = Progress(s)
<1>1. PICK g : g = s.game OBVIOUS
<1>2. /\ g \in Games /\ g.party \in Seq(Monsters) /\ h.party \in Seq(Monsters)
  BY <1>1, SaveGameIs, GameIs
<1>3. /\ h = With(g, h.party, g.storage, g.charms, g.tonics)
      /\ DOMAIN h.party = DOMAIN g.party
      /\ \A i \in DOMAIN g.party : h.party[i].species = g.party[i].species
                                   /\ h.party[i].pp = g.party[i].pp
  BY <1>1 DEF Same
<1>4. PICK x : x = [s EXCEPT !.game = h] OBVIOUS
<1>5. PICK p, q : /\ p = [i \in DOMAIN g.party |->
                            [species |-> g.party[i].species, pp |-> g.party[i].pp]]
                  /\ q = [i \in DOMAIN g.storage |->
                            [species |-> g.storage[i].species, pp |-> g.storage[i].pp]]
  OBVIOUS
<1>6. [i \in DOMAIN h.party |-> [species |-> h.party[i].species, pp |-> h.party[i].pp]] = p
  BY <1>3, <1>5
<1>7. h.storage = g.storage
  <2>1. PICK r : r = h.party OBVIOUS
  <2>2. h = With(g, r, g.storage, g.charms, g.tonics) BY <1>3, <2>1
  <2> QED BY <1>2, <2>2 DEF With, Games
<1>8. Progress(s) = [s EXCEPT !.game = [g EXCEPT !.party = p, !.storage = q]]
  BY <1>1, <1>5 DEF Progress
<1>9. Progress(x) = [x EXCEPT !.game = [h EXCEPT !.party = p, !.storage = q]]
  <2>1. x.game = h BY <1>4, SaveGameIs
  <2> QED BY <1>5, <1>6, <1>7, <2>1 DEF Progress
<1>10. [h EXCEPT !.party = p, !.storage = q] = [g EXCEPT !.party = p, !.storage = q]
  <2>1. PICK r : r = h.party OBVIOUS
  <2>2. h = [g EXCEPT !.party = r, !.storage = g.storage, !.charms = g.charms,
                      !.tonics = g.tonics]
    BY <1>3, <2>1 DEF With
  <2> QED BY <1>2, <2>2 DEF Games
<1>11. [x EXCEPT !.game = [g EXCEPT !.party = p, !.storage = q]]
         = [s EXCEPT !.game = [g EXCEPT !.party = p, !.storage = q]]
  BY <1>4 DEF Saves
<1> QED BY <1>4, <1>8, <1>9, <1>10, <1>11

\* A battle that goes on, or is over.
GoesOn(x) ==
    /\ screen' = screen
    /\ \E c \in Battles : /\ battle' = {c} /\ c.phase = "PlayerChoice" /\ c.wild.hp > 0
                          /\ c.active \in DOMAIN x.game.party
IsOver == screen' \in Screens /\ battle' = {}

LEMMA TurnStep ==
    ASSUME MossInv, screen = "Battle", disk' = disk, buttons' = buttons,
           NEW x \in Saves, GoodGame(x.game), save' = {x},
           GoesOn(x) \/ IsOver, buttons = BattleButtons,
           dirty' = TRUE \/ (dirty' = dirty /\ \E s \in save : Progress(x) = Progress(s))
    PROVE  MossInv'
<1>1. OneOf(save, Saves)' /\ OneOf(disk \ {Refused}, Saves)' /\ OneOf(battle, Battles)'
      /\ screen' \in Screens
  BY DEF MossInv, MossTypeOK, OneOf, Screens, GoesOn, IsOver
<1>2. dirty' \in BOOLEAN BY Zenon DEF MossInv, MossTypeOK
<1>3. MossTypeOK' BY <1>1, <1>2, Zenon DEF MossTypeOK
<1>4. Healthy' BY DEF MossInv, Healthy, Written
<1>5. Fighting' BY DEF Fighting, GoesOn, IsOver
<1>6. Fielded' BY DEF Fielded, GoesOn, IsOver
<1>7. Screened'
  <2>1. BattleButtons' = BattleButtons BY DEF BattleButtons, BattleLabels
  <2> QED BY <2>1 DEF Screened, GoesOn, IsOver
<1>8. SavedOrDirty'
  <2>1. CASE dirty' = TRUE BY <2>1, Zenon DEF SavedOrDirty
  <2>2. ASSUME dirty' = dirty, NEW s \in save, Progress(x) = Progress(s) PROVE SavedOrDirty'
    <3>1. dirty \/ \E d \in disk \ {Refused} : Progress(d) = Progress(s)
      BY Zenon DEF MossInv, SavedOrDirty
    <3>2. CASE dirty BY <2>2, <3>2, Zenon DEF SavedOrDirty
    <3>3. ASSUME NEW d \in disk \ {Refused}, Progress(d) = Progress(s) PROVE SavedOrDirty'
      <4>1. d \in disk' \ {Refused} /\ Progress(d) = Progress(x) BY <2>2, <3>3
      <4>2. \A y \in save' : y = x OBVIOUS
      <4>3. \A y : Progress(y)' = Progress(y) BY DEF Progress
      <4>4. \A y \in save' : \E e \in disk' \ {Refused} : Progress(e) = Progress(y)
        BY <4>1, <4>2
      <4> QED BY <4>4, Zenon DEF SavedOrDirty, Progress
    <3> QED BY <3>1, <3>2, <3>3
  <2> QED BY <2>1, <2>2
<1> QED BY <1>3, <1>4, <1>5, <1>6, <1>7, <1>8 DEF MossInv

LEMMA OverIs ==
    ASSUME NEW t, GoodGame(t.game), NEW place \in Places, NEW scr \in Screens, Over(t, place, scr)
    PROVE  /\ \E x \in Saves : GoodGame(x.game) /\ save' = {x} /\ (GoesOn(x) \/ IsOver)
           /\ buttons' = buttons /\ disk' = disk
<1>1. PICK x : x = [game |-> t.game, place |-> place] OBVIOUS
<1>2. x \in Saves /\ x.game = t.game BY <1>1, GoodIs, SaveIs
<1>3. save' = {x} /\ IsOver /\ buttons' = buttons /\ disk' = disk
  BY <1>1 DEF Over, Show, IsOver
<1> QED BY <1>2, <1>3

LEMMA FinishIs ==
    ASSUME NEW t, Outcome(t), NEW place \in Places, finish_or_continue_battle(t, place)
    PROVE  /\ \E x \in Saves : GoodGame(x.game) /\ save' = {x} /\ (GoesOn(x) \/ IsOver)
           /\ buttons' = buttons /\ disk' = disk
<1> DEFINE b == t.battle
<1>1. /\ IsTurn(t) /\ Owned(t.game) /\ t.game \in Games /\ b \in Battles
      /\ b.phase # "Lost" => GoodGame(t.game)
  BY DEF Outcome, IsTurn, GoodGame
<1>2. b.phase \in Phases /\ b.queue \in Seq(Species) /\ b.trainer \in Option(Trainers)
  BY <1>1, BattleIs
<1>3. PICK x : x = [game |-> t.game, place |-> place] OBVIOUS
<1>4. x \in Saves /\ x.game = t.game BY <1>1, <1>3, SaveIs
<1>5. \A n \in {"Ending", "Dialogue", "Overworld"} : n \in Screens BY DEF Screens
<1>6. CASE b.phase = "PlayerChoice"
  <2>1. save' = {x} /\ battle' = {b} /\ screen' = screen /\ buttons' = buttons /\ disk' = disk
    BY <1>3, <1>6 DEF finish_or_continue_battle, Show
  <2>2. b.wild.hp > 0 /\ b.active \in DOMAIN t.game.party BY <1>6 DEF Outcome
  <2>3. GoesOn(x) BY <1>1, <1>4, <1>6, <2>1, <2>2 DEF GoesOn
  <2> QED BY <1>1, <1>4, <1>6, <2>1, <2>3
<1>7. CASE b.phase = "Won" /\ b.queue # << >>
  <2>1. PICK w, rest : w = wild(Head(b.queue)) /\ rest = Tail(b.queue) OBVIOUS
  <2>2. PICK c : c = [b EXCEPT !.wild = w, !.queue = rest, !.phase = "PlayerChoice"] OBVIOUS
  <2>3. save' = {x} /\ battle' = {c} /\ screen' = screen /\ buttons' = buttons /\ disk' = disk
    BY <1>3, <1>7, <2>1, <2>2 DEF finish_or_continue_battle, Show
  <2>4. w \in Monsters /\ w.hp > 0 /\ rest \in Seq(Species)
    <3>1. Head(b.queue) \in Species BY <1>2, <1>7
    <3>2. Tail(b.queue) \in Seq(Species) BY <1>2, <1>7
    <3> QED BY <2>1, <3>1, <3>2, WildIs
  <2>5. c \in Battles /\ c.phase = "PlayerChoice" /\ c.wild = w /\ c.active = b.active
    BY <1>1, <2>2, <2>4 DEF Battles, Phases
  <2>6. b.active \in DOMAIN t.game.party BY <1>7 DEF Outcome
  <2>7. GoesOn(x) BY <1>4, <2>3, <2>4, <2>5, <2>6 DEF GoesOn
  <2> QED BY <1>1, <1>4, <1>7, <2>3, <2>7
<1>8. CASE b.phase = "Won" /\ b.queue = << >> /\ b.trainer # {}
  <2>1. PICK l \in b.trainer :
          Over([t EXCEPT !.game = Rewarded(t.game, l)], place,
               IF l = GYM_LEADER THEN "Ending" ELSE "Dialogue")
    BY <1>8 DEF finish_or_continue_battle
  <2>2. l \in Trainers BY <1>2, <2>1 DEF Option
  <2>3. GoodGame(Rewarded(t.game, l)) BY <1>1, <1>8, <2>2, RewardedIs
  <2>4. [t EXCEPT !.game = Rewarded(t.game, l)].game = Rewarded(t.game, l)
    BY <1>1 DEF IsTurn, Turn
  <2>5. PICK r : r = [t EXCEPT !.game = Rewarded(t.game, l)] OBVIOUS
  <2>6. PICK scr : scr = IF l = GYM_LEADER THEN "Ending" ELSE "Dialogue" OBVIOUS
  <2>7. GoodGame(r.game) /\ scr \in Screens /\ Over(r, place, scr)
    BY <1>5, <2>1, <2>3, <2>4, <2>5, <2>6
  <2> QED BY <2>7, OverIs
<1>9. CASE b.phase = "Won" /\ b.queue = << >> /\ b.trainer = {}
  <2>1. Over(t, place, "Overworld") BY <1>9 DEF finish_or_continue_battle
  <2> QED BY <1>1, <1>5, <1>9, <2>1, OverIs
<1>10. CASE b.phase = "Captured"
  <2>1. Over(t, place, "Overworld") BY <1>10 DEF finish_or_continue_battle
  <2> QED BY <1>1, <1>5, <1>10, <2>1, OverIs
<1>11. CASE b.phase = "Fled"
  <2>1. Over(t, place, "Dialogue") BY <1>11 DEF finish_or_continue_battle
  <2> QED BY <1>1, <1>5, <1>11, <2>1, OverIs
<1>12. CASE b.phase = "Lost"
  <2>1. Over([t EXCEPT !.game = haven_heal(t.game)], Home, "Dialogue")
    BY <1>12 DEF finish_or_continue_battle
  <2>2. GoodGame(haven_heal(t.game)) BY <1>1, HavenIs
  <2>3. [t EXCEPT !.game = haven_heal(t.game)].game = haven_heal(t.game)
    BY <1>1 DEF IsTurn, Turn
  <2>4. PICK r : r = [t EXCEPT !.game = haven_heal(t.game)] OBVIOUS
  <2>5. GoodGame(r.game) /\ Over(r, Home, "Dialogue") BY <2>1, <2>2, <2>3, <2>4
  <2>6. Home \in Places BY JourneyAssumption
  <2> QED BY <1>5, <2>5, <2>6, OverIs
<1> QED BY <1>2, <1>6, <1>7, <1>8, <1>9, <1>10, <1>11, <1>12 DEF Phases

LEMMA OnlyIs ==
    ASSUME MossInv, NEW s \in save
    PROVE  s \in Saves /\ GoodGame(s.game) /\ save = {s} /\ s.game \in Games /\ s.place \in Places
<1>1. s \in Saves /\ save = {s} BY DEF MossInv, MossTypeOK, OneOf
<1>2. GoodGame(s.game) BY DEF MossInv, Healthy, Written
<1> QED BY <1>1, <1>2 DEF Saves

LEMMA BattleStep ==
    ASSUME MossInv, NEW action \in BattleLabels, BattleButton(action)
    PROVE  MossInv'
<1>1. PICK s \in save, b \in battle :
        \E t \in resolve([game |-> s.game, battle |-> b, ok |-> TRUE], action) :
            IF t.ok THEN finish_or_continue_battle(t, s.place) /\ dirty' = TRUE
            ELSE /\ save' = {[s EXCEPT !.game = t.game]} /\ battle' = {t.battle}
                 /\ Show(screen) /\ UNCHANGED dirty
  BY Zenon DEF BattleButton, battle_action
<1>2. <<action>> \in buttons BY DEF BattleButton, Offered
<1>3. buttons = BattleButtons /\ screen = "Battle"
  BY <1>1, <1>2 DEF MossInv, Screened, Plain
<1>4. s \in Saves /\ GoodGame(s.game) /\ save = {s} /\ s.game \in Games /\ s.place \in Places
  BY <1>1, OnlyIs
<1>5. /\ b \in Battles /\ b.phase = "PlayerChoice" /\ b.wild.hp > 0
      /\ b.active \in DOMAIN s.game.party
  BY <1>1 DEF MossInv, MossTypeOK, OneOf, Fighting, Fielded
<1>6. PICK r : r = Turn(s.game, b, TRUE) OBVIOUS
<1>7. r.game = s.game /\ r.battle = b /\ r.ok = TRUE /\ IsTurn(r)
  BY <1>4, <1>5, <1>6, TurnIs
<1>8. Ready(r) BY <1>4, <1>5, <1>7 DEF Ready
<1>9. PICK t \in resolve(r, action) :
        IF t.ok THEN finish_or_continue_battle(t, s.place) /\ dirty' = TRUE
        ELSE /\ save' = {[s EXCEPT !.game = t.game]} /\ battle' = {t.battle}
             /\ Show(screen) /\ UNCHANGED dirty
  BY <1>1, <1>6, Zenon DEF Turn
<1>10. Outcome(t) /\ (t.ok = TRUE \/ Refusal(r, t)) BY <1>8, <1>9, ResolveIs
<1>11. CASE t.ok = TRUE
  <2>1. finish_or_continue_battle(t, s.place) /\ dirty' = TRUE BY <1>9, <1>11, Zenon
  <2>2. /\ \E x \in Saves : GoodGame(x.game) /\ save' = {x} /\ (GoesOn(x) \/ IsOver)
        /\ buttons' = buttons /\ disk' = disk
    BY <1>4, <1>10, <2>1, FinishIs
  <2>3. PICK x \in Saves : GoodGame(x.game) /\ save' = {x} /\ (GoesOn(x) \/ IsOver) BY <2>2
  <2> QED BY <1>3, <2>1, <2>2, <2>3, TurnStep
<1>12. CASE Refusal(r, t)
  <2>1. t.ok = FALSE /\ Same(s.game, t.game) /\ t.battle.phase = "PlayerChoice"
    BY <1>7, <1>12 DEF Refusal
  <2>2. /\ save' = {[s EXCEPT !.game = t.game]} /\ battle' = {t.battle}
        /\ Show(screen) /\ dirty' = dirty
    BY <1>9, <2>1, Zenon
  <2>3. /\ GoodGame(t.game) /\ t.game \in Games /\ t.battle \in Battles
        /\ t.battle.wild.hp > 0 /\ t.battle.active \in DOMAIN t.game.party
    BY <1>10, <2>1 DEF Outcome, IsTurn, GoodGame
  <2>4. PICK x : x = [s EXCEPT !.game = t.game] OBVIOUS
  <2>5. x \in Saves /\ x.game = t.game BY <1>4, <2>3, <2>4, SaveGameIs
  <2>6. Progress(x) = Progress(s) BY <1>4, <2>1, <2>3, <2>4, ProgressIs
  <2>7. screen' = screen /\ buttons' = buttons /\ disk' = disk BY <2>2 DEF Show
  <2>8. GoesOn(x) BY <2>1, <2>2, <2>3, <2>5, <2>7 DEF GoesOn
  <2>9. save' = {x} /\ GoodGame(x.game) BY <2>2, <2>3, <2>4, <2>5
  <2> QED BY <1>1, <1>3, <2>2, <2>5, <2>6, <2>7, <2>8, <2>9, TurnStep
<1> QED BY <1>10, <1>11, <1>12

-----------------------------------------------------------------------------
(* Buttons and keys outside battles.                                       *)

LEMMA OtherButton ==
    ASSUME MossInv, NEW label, Offered(label), label \notin BattleButtons
    PROVE  Outside
BY DEF MossInv, Screened, Offered, Outside

LEMMA LabelsDiffer ==
    /\ \A l \in {"NewGame", "Continue", "Talk", "Confirm", "MenuOpen", "MenuClose"} :
          <<l>> \notin BattleButtons
    /\ \A l \in {"PickStarter", "MenuHeal", "MenuSwap", "MenuWithdraw"} : \A x :
          <<l, x>> \notin BattleButtons
BY DEF BattleButtons, BattleLabels

LEMMA HavenStep == ASSUME MossInv, Outside, NEW s \in save, haven PROVE MossInv'
<1>1. s \in Saves /\ GoodGame(s.game) /\ save = {s} BY OnlyIs
<1>2. PICK x : x = [s EXCEPT !.game = haven_heal(s.game)] OBVIOUS
<1>3. save' = {x} /\ battle' = battle /\ disk' = disk /\ buttons' = buttons
      /\ screen' = "Dialogue"
  BY <1>1, <1>2 DEF haven, Show
<1>4. dirty' = TRUE BY Zenon DEF haven
<1>5. GoodGame(haven_heal(s.game)) BY <1>1, HavenIs DEF GoodGame
<1>6. x \in Saves /\ x.game = haven_heal(s.game) BY <1>1, <1>2, <1>5, GoodIs, SaveGameIs
<1> QED BY <1>3, <1>4, <1>5, <1>6, ChangeStep

LEMMA ShopStep == ASSUME MossInv, Outside, NEW s \in save, shop PROVE MossInv'
<1>1. s \in Saves /\ GoodGame(s.game) /\ save = {s} BY OnlyIs
<1>2. PICK x : x = [s EXCEPT !.game = restock(s.game, 5, 2)] OBVIOUS
<1>3. save' = {x} /\ battle' = battle /\ disk' = disk /\ buttons' = buttons
      /\ screen' = "Dialogue"
  BY <1>1, <1>2 DEF shop, Show
<1>4. dirty' = TRUE BY Zenon DEF shop
<1>5. GoodGame(restock(s.game, 5, 2)) BY <1>1, RestockIs
<1>6. x \in Saves /\ x.game = restock(s.game, 5, 2) BY <1>1, <1>2, <1>5, GoodIs, SaveGameIs
<1> QED BY <1>3, <1>4, <1>5, <1>6, ChangeStep

LEMMA FreshIs ==
    ASSUME NEW team \in Seq(Species), team # << >>, NEW trainer \in Option(Trainers),
           start_battle(team, trainer)
    PROVE  \E b : Fresh(b) /\ battle' = {b}
<1>1. PICK b : b = [wild |-> wild(Head(team)), phase |-> "PlayerChoice", queue |-> Tail(team),
                    trainer |-> trainer, active |-> 1]
  OBVIOUS
<1>2. Head(team) \in Species /\ Tail(team) \in Seq(Species) OBVIOUS
<1>3. PICK w, rest : w = wild(Head(team)) /\ rest = Tail(team) OBVIOUS
<1>4. w \in Monsters /\ w.hp > 0 /\ rest \in Seq(Species) BY <1>2, <1>3, WildIs
<1>5. b = [wild |-> w, phase |-> "PlayerChoice", queue |-> rest, trainer |-> trainer,
           active |-> 1]
  BY <1>1, <1>3
<1>6. Fresh(b) BY <1>4, <1>5 DEF Fresh, Battles, Phases
<1>7. battle' = {b} BY <1>1 DEF start_battle
<1> QED BY <1>6, <1>7

LEMMA ChallengeStep ==
    ASSUME MossInv, screen = "Overworld", NEW g, NEW t \in Trainers, challenge(g, t)
    PROVE  MossInv'
<1>1. CASE Declines(g, t)
  <2>1. /\ save' = save /\ battle' = battle /\ disk' = disk /\ buttons' = buttons
        /\ screen' = "Dialogue"
    BY <1>1 DEF challenge, Show, Stay
  <2>2. dirty' = dirty BY <1>1, Zenon DEF challenge, Stay
  <2> QED BY <2>1, <2>2, IdleStep DEF Outside, Screens
<1>2. CASE ~Declines(g, t)
  <2>1. /\ save' = save /\ disk' = disk /\ buttons' = buttons /\ screen' = "Battle"
        /\ start_battle(Team[t], {t})
    BY <1>2 DEF challenge, Show
  <2>2. dirty' = dirty BY <1>2, Zenon DEF challenge
  <2>3. Team[t] \in Seq(Species) /\ Team[t] # << >> BY RosterAssumption
  <2>4. {t} \in Option(Trainers) BY DEF Option
  <2>5. PICK b : Fresh(b) /\ battle' = {b} BY <2>1, <2>3, <2>4, FreshIs
  <2> QED BY <2>1, <2>2, <2>5, BeginStep
<1> QED BY <1>1, <1>2

LEMMA InteractStep == ASSUME MossInv, interact PROVE MossInv'
<1>1. screen = "Overworld" BY DEF interact
<1>2. PICK s \in save : \/ haven \/ shop \/ \E t \in Trainers : challenge(s.game, t)
  BY DEF interact
<1>3. Outside BY <1>1 DEF Outside
<1>4. CASE haven BY <1>3, <1>4, HavenStep
<1>5. CASE shop BY <1>3, <1>5, ShopStep
<1>6. CASE \E t \in Trainers : challenge(s.game, t) BY <1>1, <1>6, ChallengeStep
<1> QED BY <1>2, <1>4, <1>5, <1>6

LEMMA ConfirmStep == ASSUME MossInv, confirm PROVE MossInv'
<1>1. /\ save' = save /\ battle' = battle /\ disk' = disk /\ buttons' = buttons
      /\ screen' = "Overworld" /\ screen # "Battle"
  BY DEF confirm, Show, Stay
<1>2. dirty' = dirty BY Zenon DEF confirm, Stay
<1> QED BY <1>1, <1>2, IdleStep DEF Outside, Screens

LEMMA MenuStep == ASSUME MossInv, open_menu \/ close_menu PROVE MossInv'
<1>1. /\ save' = save /\ battle' = battle /\ disk' = disk /\ buttons' = buttons
      /\ screen' \in {"Menu", "Overworld"} /\ screen # "Battle"
  BY DEF open_menu, close_menu, Show, Stay
<1>2. dirty' = dirty \/ dirty' = TRUE BY Zenon DEF open_menu, close_menu, Stay
<1> QED BY <1>1, <1>2, IdleStep DEF Outside, Screens

LEMMA TitleStep == ASSUME MossInv, NewGame \/ Continue PROVE MossInv'
<1>1. /\ save' = save /\ battle' = battle /\ disk' = disk /\ buttons' = buttons
      /\ screen' \in {"StarterPick", "Overworld"}
  BY DEF NewGame, Continue, Show, Stay
<1>2. dirty' = dirty \/ dirty' = TRUE BY Zenon DEF NewGame, Continue, Stay
<1>3. Outside BY OtherButton, LabelsDiffer DEF NewGame, Continue
<1> QED BY <1>1, <1>2, <1>3, IdleStep DEF Screens

LEMMA PickStep == ASSUME MossInv, NEW p \in STARTERS, PickStarter(p) PROVE MossInv'
<1>1. GoodGame(new_game(p)) /\ Home \in Places BY NewGameIs, JourneyAssumption
<1>2. PICK x : x = [game |-> new_game(p), place |-> Home] OBVIOUS
<1>3. x \in Saves /\ x.game = new_game(p) BY <1>1, <1>2, GoodIs, SaveIs
<1>4. /\ save' = {x} /\ battle' = battle /\ disk' = disk /\ buttons' = buttons
      /\ screen' = "Dialogue"
  BY <1>2 DEF PickStarter, Show
<1>5. dirty' = TRUE BY Zenon DEF PickStarter
<1>6. Outside BY OtherButton, LabelsDiffer DEF PickStarter
<1> QED BY <1>1, <1>3, <1>4, <1>5, <1>6, ChangeStep

\* What a row of the menu does to a good game.
LEMMA RowStep ==
    ASSUME MossInv, Outside, NEW s \in save, NEW g, GoodGame(g),
           save' = {[s EXCEPT !.game = g]}, dirty' = TRUE, Show(screen), battle' = battle
    PROVE  MossInv'
<1>1. s \in Saves BY OnlyIs
<1>2. PICK x : x = [s EXCEPT !.game = g] OBVIOUS
<1>3. x \in Saves /\ x.game = g BY <1>1, <1>2, GoodIs, SaveGameIs
<1>4. screen' = screen /\ buttons' = buttons /\ disk' = disk BY DEF Show
<1> QED BY <1>2, <1>3, <1>4, ChangeStep

LEMMA MenuRowStep ==
    ASSUME MossInv, NEW i, MenuHeal(i) \/ MenuSwap(i) \/ MenuWithdraw(i)
    PROVE  MossInv'
<1>1. Outside BY OtherButton, LabelsDiffer DEF MenuHeal, MenuSwap, MenuWithdraw
<1>2. PICK s \in save :
        \E g \in heal_member(s.game, i) \cup swap_storage(s.game, i) \cup withdraw(s.game, i) :
            /\ save' = {[s EXCEPT !.game = g]} /\ dirty' = TRUE
            /\ Show(screen) /\ battle' = battle
  <2>1. CASE MenuHeal(i) BY <2>1, Zenon DEF MenuHeal, menu_action
  <2>2. CASE MenuSwap(i) BY <2>2, Zenon DEF MenuSwap, menu_action
  <2>3. CASE MenuWithdraw(i) BY <2>3, Zenon DEF MenuWithdraw, menu_action
  <2> QED BY <2>1, <2>2, <2>3, Zenon
<1>3. PICK g \in heal_member(s.game, i) \cup swap_storage(s.game, i) \cup withdraw(s.game, i) :
        /\ save' = {[s EXCEPT !.game = g]} /\ dirty' = TRUE
        /\ Show(screen) /\ battle' = battle
  BY <1>2, Zenon
<1>4. GoodGame(s.game) BY <1>2, OnlyIs
<1>5. GoodGame(g) BY <1>3, <1>4, HealIs, SwapIs, WithdrawIs
<1> QED BY <1>1, <1>3, <1>5, RowStep

-----------------------------------------------------------------------------
(* Frames, saves, and the life of the program.                             *)

LEMMA ButtonsOfIs ==
    ASSUME NEW saved
    PROVE  /\ ButtonsOf("Battle", saved) = BattleButtons
           /\ \A scr \in Screens \ {"Battle"} : \A a \in BattleLabels :
                 <<a>> \notin ButtonsOf(scr, saved)
<1>1. ButtonsOf("Battle", saved) = BattleButtons
  BY DEF ButtonsOf, BattleButtons, BattleLabels
<1>2. ASSUME NEW scr \in Screens \ {"Battle"}, NEW a \in BattleLabels
      PROVE  <<a>> \notin ButtonsOf(scr, saved)
  <2>1. CASE scr = "Title" BY <1>2, <2>1 DEF ButtonsOf, BattleLabels
  <2>2. CASE scr = "StarterPick" BY <1>2, <2>2 DEF ButtonsOf, BattleLabels
  <2>3. CASE scr = "Overworld" BY <1>2, <2>3 DEF ButtonsOf, BattleLabels
  <2>4. CASE scr \in {"Dialogue", "Ending"} BY <1>2, <2>4 DEF ButtonsOf, BattleLabels
  <2>5. CASE scr = "Menu" BY <1>2, <2>5 DEF ButtonsOf, BattleLabels
  <2> QED BY <1>2, <2>1, <2>2, <2>3, <2>4, <2>5 DEF Screens
<1> QED BY <1>1, <1>2

\* What a frame, a suspension or a start leaves between game, disk and mark.
Kept ==
    \/ dirty' = TRUE /\ disk' = disk
    \/ /\ dirty' = FALSE /\ save' \subseteq disk' \ {Refused}
       /\ disk' = disk \/ disk' = save \/ disk' = save'
    \/ save' = save /\ disk' = disk /\ dirty' = dirty

LEMMA KeptIs ==
    ASSUME MossInv, OneOf(save, Saves)', \A s \in save' : GoodGame(s.game), Kept
    PROVE  OneOf(disk \ {Refused}, Saves)' /\ dirty' \in BOOLEAN /\ Healthy' /\ SavedOrDirty'
<1>1. CASE dirty' = TRUE /\ disk' = disk
  <2>1. OneOf(disk \ {Refused}, Saves)' BY <1>1 DEF MossInv, MossTypeOK, OneOf
  <2>2. Healthy' BY <1>1 DEF MossInv, Healthy, Written
  <2>3. dirty' \in BOOLEAN /\ SavedOrDirty' BY <1>1, Zenon DEF SavedOrDirty
  <2> QED BY <2>1, <2>2, <2>3
<1>2. CASE /\ dirty' = FALSE /\ save' \subseteq disk' \ {Refused}
           /\ disk' = disk \/ disk' = save \/ disk' = save'
  <2>1. OneOf(disk \ {Refused}, Saves)' BY <1>2 DEF MossInv, MossTypeOK, OneOf
  <2>2. Healthy' BY <1>2 DEF MossInv, Healthy, Written
  <2>3. dirty' \in BOOLEAN BY <1>2, Zenon
  <2>4. SavedOrDirty' BY <1>2, Zenon DEF SavedOrDirty
  <2> QED BY <2>1, <2>2, <2>3, <2>4
<1>3. CASE save' = save /\ disk' = disk /\ dirty' = dirty
  <2>1. OneOf(disk \ {Refused}, Saves)' BY <1>3 DEF MossInv, MossTypeOK, OneOf
  <2>2. Healthy' BY <1>3 DEF MossInv, Healthy, Written
  <2>3. dirty' \in BOOLEAN BY <1>3, Zenon DEF MossInv, MossTypeOK
  <2>4. SavedOrDirty' BY <1>3, Zenon DEF MossInv, SavedOrDirty, Progress
  <2> QED BY <2>1, <2>2, <2>3, <2>4
<1> QED BY <1>1, <1>2, <1>3, Zenon DEF Kept

LEMMA NotRefused == ASSUME OneOf(save, Saves)' PROVE Refused \notin save'
BY RefusedAssumption DEF OneOf

LEMMA SaveIfIs ==
    ASSUME MossInv, OneOf(save, Saves)', NEW unsaved \in BOOLEAN, save_if(unsaved, save'),
           unsaved = TRUE \/ (save' = save /\ unsaved = dirty)
    PROVE  Kept
<1>1. CASE unsaved = TRUE
  <2>1. save_now(save') BY <1>1, Zenon DEF save_if
  <2>2. CASE disk' = save' /\ dirty' = FALSE
    <3>1. save' \subseteq disk' \ {Refused} BY <2>2, NotRefused
    <3> QED BY <2>2, <3>1, Zenon DEF Kept
  <2>3. CASE dirty' = TRUE /\ disk' = disk BY <2>3, Zenon DEF Kept
  <2> QED BY <2>1, <2>2, <2>3, Zenon DEF save_now
<1>2. CASE unsaved = FALSE
  <2>1. dirty' = FALSE /\ disk' = disk BY <1>2, Zenon DEF save_if
  <2>2. save' = save /\ dirty = FALSE BY <1>2, Zenon
  <2> QED BY <2>1, <2>2, Zenon DEF Kept
<1> QED BY <1>1, <1>2, Zenon

\* A frame that stays on its screen.
LEMMA FrameStep ==
    ASSUME MossInv, battle' = battle, screen' = screen, buttons' = ButtonsOf(screen, save'),
           OneOf(save, Saves)', \A s \in save' : \E r \in save : s.game = r.game, Kept
    PROVE  MossInv'
<1>1. \A r \in save : GoodGame(r.game) BY DEF MossInv, Healthy, Written
<1>2. \A s \in save' : GoodGame(s.game) BY <1>1
<1>3. OneOf(disk \ {Refused}, Saves)' /\ dirty' \in BOOLEAN /\ Healthy' /\ SavedOrDirty'
  BY <1>2, KeptIs
<1>4. screen' \in Screens /\ OneOf(battle, Battles)' BY DEF MossInv, MossTypeOK, OneOf
<1>5. MossTypeOK' BY <1>3, <1>4, Zenon DEF MossTypeOK
<1>6. Fighting' BY DEF MossInv, Fighting
<1>7. Fielded' BY DEF MossInv, Fielded
<1>8. Screened'
  <2>1. screen \in Screens BY DEF MossInv, MossTypeOK
  <2>2. \A b \in battle : b.active # 1 => screen = "Battle" BY DEF MossInv, Screened
  <2>3. BattleButtons' = BattleButtons BY DEF BattleButtons, BattleLabels
  <2>4. CASE screen = "Battle"
    <3>1. buttons' = BattleButtons BY <2>4, ButtonsOfIs
    <3> QED BY <2>2, <2>3, <2>4, <3>1 DEF Screened
  <2>5. CASE screen # "Battle"
    <3>1. \A a \in BattleLabels : <<a>> \notin buttons' BY <2>1, <2>5, ButtonsOfIs
    <3>2. Plain' /\ buttons' # BattleButtons
      BY <3>1 DEF Plain, BattleButtons, BattleLabels
    <3> QED BY <2>2, <2>3, <2>5, <3>2 DEF Screened
  <2> QED BY <2>4, <2>5
<1> QED BY <1>3, <1>5, <1>6, <1>7, <1>8, Zenon DEF MossInv

LEMMA DrawStep == ASSUME MossInv, draw PROVE MossInv'
<1>1. save' = save /\ screen' = screen /\ battle' = battle /\ buttons' = ButtonsOf(screen, save)
  BY DEF draw, Present
<1>2. OneOf(save, Saves)' BY <1>1 DEF MossInv, MossTypeOK, OneOf
<1>3. dirty \in BOOLEAN BY Zenon DEF MossInv, MossTypeOK
<1>4. Kept
  <2>1. CASE screen = "Overworld"
    <3>1. save_if(dirty, save) BY <2>1, Zenon DEF draw, Present
    <3>2. save_if(dirty, save') BY <1>1, <3>1, Zenon
    <3> QED BY <1>1, <1>2, <1>3, <3>2, SaveIfIs, Zenon
  <2>2. CASE screen # "Overworld"
    <3>1. dirty' = dirty /\ disk' = disk BY <2>2, Zenon DEF draw, Present
    <3> QED BY <1>1, <3>1, Zenon DEF Kept
  <2> QED BY <2>1, <2>2
<1> QED BY <1>1, <1>2, <1>4, FrameStep

LEMMA WalkStep == ASSUME MossInv, walk_on PROVE MossInv'
<1>1. PICK s \in save : \E p \in Exits[s.place] :
        screen = "Overworld" /\ Present({[s EXCEPT !.place = p]}, screen, battle, TRUE)
  BY Zenon DEF walk_on
<1>2. s \in Saves /\ s.place \in Places BY <1>1, OnlyIs
<1>3. PICK p \in Exits[s.place] :
        screen = "Overworld" /\ Present({[s EXCEPT !.place = p]}, screen, battle, TRUE)
  BY <1>1, Zenon
<1>4. p \in Places BY <1>2, <1>3, JourneyAssumption
<1>5. PICK x : x = [s EXCEPT !.place = p] OBVIOUS
<1>6. x \in Saves /\ x.game = s.game BY <1>2, <1>4, <1>5 DEF Saves
<1>7. save' = {x} /\ screen' = screen /\ battle' = battle /\ buttons' = ButtonsOf(screen, save')
  BY <1>3, <1>5 DEF Present
<1>8. OneOf(save, Saves)' BY <1>6, <1>7 DEF OneOf
<1>9. Kept
  <2>1. save_if(TRUE, {x}) BY <1>3, <1>5, Zenon DEF Present
  <2>2. save_if(TRUE, save') BY <1>7, <2>1, Zenon
  <2>3. TRUE \in BOOLEAN OBVIOUS
  <2> QED BY <1>8, <2>2, <2>3, SaveIfIs, Zenon
<1> QED BY <1>1, <1>6, <1>7, <1>8, <1>9, FrameStep

LEMMA EncounterStep == ASSUME MossInv, encounter PROVE MossInv'
<1>1. PICK s \in save : \E m \in roll_wild(s) :
        /\ start_battle(<<m>>, {})
        /\ Present(save, "Battle", battle', dirty)
  BY Zenon DEF encounter
<1>2. PICK m \in roll_wild(s) : start_battle(<<m>>, {}) /\ Present(save, "Battle", battle', dirty)
  BY <1>1, Zenon
<1>3. s.place \in Places BY <1>1, OnlyIs
<1>4. m \in Species BY <1>2, <1>3, JourneyAssumption DEF roll_wild
<1>5. <<m>> \in Seq(Species) /\ <<m>> # << >> BY <1>4
<1>6. {} \in Option(Trainers) BY DEF Option
<1>7. PICK b : Fresh(b) /\ battle' = {b} BY <1>2, <1>5, <1>6, FreshIs
<1>8. save' = save /\ screen' = "Battle" /\ disk' = disk /\ buttons' = ButtonsOf("Battle", save)
  BY <1>2 DEF Present
<1>9. dirty' = dirty BY <1>2, Zenon DEF Present
<1>10. buttons' = BattleButtons BY <1>8, ButtonsOfIs
<1> QED BY <1>7, <1>8, <1>9, <1>10, BeginStep

LEMMA SuspendStep == ASSUME MossInv, suspended PROVE MossInv'
<1>1. save' = save /\ screen' = screen /\ battle' = battle /\ buttons' = buttons
  BY DEF suspended
<1>2. OneOf(save, Saves)' /\ OneOf(battle, Battles)' /\ screen' \in Screens
  BY <1>1 DEF MossInv, MossTypeOK, OneOf
<1>3. dirty \in BOOLEAN BY Zenon DEF MossInv, MossTypeOK
<1>4. Kept
  <2>1. save_if(dirty, save) BY Zenon DEF suspended
  <2>2. save_if(dirty, save') BY <1>1, <2>1, Zenon
  <2> QED BY <1>1, <1>2, <1>3, <2>2, SaveIfIs, Zenon
<1>5. \A s \in save' : GoodGame(s.game) BY <1>1 DEF MossInv, Healthy, Written
<1>6. OneOf(disk \ {Refused}, Saves)' /\ dirty' \in BOOLEAN /\ Healthy' /\ SavedOrDirty'
  BY <1>2, <1>4, <1>5, KeptIs
<1>7. MossTypeOK' BY <1>2, <1>6, Zenon DEF MossTypeOK
<1>8. Fighting' /\ Fielded' BY <1>1 DEF MossInv, Fighting, Fielded
<1>9. Screened' BY <1>1 DEF MossInv, Screened, Plain, BattleButtons, BattleLabels
<1> QED BY <1>6, <1>7, <1>8, <1>9, Zenon DEF MossInv

\* The program starts again, from what is on the disk.
LEMMA StartStep ==
    ASSUME MossInv, NEW found, new(found), disk' = found, found = disk \/ found = save
    PROVE  MossInv'
<1>1. /\ save' \in {{}, found \ {Refused}} /\ screen' = "Title" /\ buttons' = {} /\ battle' = {}
  BY DEF new
<1>2. dirty' = FALSE BY Zenon DEF new
<1>3. OneOf(save, Saves)' BY <1>1 DEF MossInv, MossTypeOK, OneOf
<1>4. save' \subseteq disk' \ {Refused} BY <1>1
<1>5. Kept
  <2>1. disk' = disk \/ disk' = save OBVIOUS
  <2> QED BY <1>2, <1>4, <2>1, Zenon DEF Kept
<1>6. \A s \in save' : GoodGame(s.game) BY <1>1 DEF MossInv, Healthy, Written
<1>7. OneOf(disk \ {Refused}, Saves)' /\ dirty' \in BOOLEAN /\ Healthy' /\ SavedOrDirty'
  BY <1>3, <1>5, <1>6, KeptIs
<1>8. screen' \in Screens /\ OneOf(battle, Battles)' BY <1>1 DEF Screens, OneOf
<1>9. MossTypeOK' BY <1>3, <1>7, <1>8, Zenon DEF MossTypeOK
<1>10. Fighting' /\ Fielded' BY <1>1 DEF Fighting, Fielded
<1>11. Screened' BY <1>1 DEF Screened, Plain
<1> QED BY <1>7, <1>9, <1>10, <1>11, Zenon DEF MossInv

-----------------------------------------------------------------------------
(* The theorems.                                                           *)

LEMMA InitMoss == Init => MossInv
<1> SUFFICES ASSUME Init PROVE MossInv OBVIOUS
<1>1. disk \subseteq {Refused} /\ save = {} /\ screen = "Title" /\ buttons = {} /\ battle = {}
  BY DEF Init
<1>2. dirty \in BOOLEAN BY Zenon DEF Init
<1>3. OneOf(save, Saves) /\ OneOf(disk \ {Refused}, Saves) /\ OneOf(battle, Battles)
      /\ screen \in Screens
  BY <1>1 DEF OneOf, Screens
<1>4. MossTypeOK BY <1>2, <1>3, Zenon DEF MossTypeOK
<1>5. Healthy /\ Fighting /\ Fielded BY <1>1 DEF Healthy, Written, Fighting, Fielded
<1>6. Screened BY <1>1 DEF Screened, Plain
<1>7. SavedOrDirty BY <1>1, Zenon DEF SavedOrDirty
<1> QED BY <1>4, <1>5, <1>6, <1>7, Zenon DEF MossInv

LEMMA ButtonsMoss == ASSUME MossInv, Buttons PROVE MossInv'
<1>1. CASE NewGame \/ Continue BY <1>1, TitleStep
<1>2. CASE \E s \in STARTERS : PickStarter(s) BY <1>2, PickStep
<1>3. CASE Talk
  <2>1. interact BY <1>3 DEF Talk
  <2> QED BY <2>1, InteractStep
<1>4. CASE Confirm
  <2>1. confirm BY <1>4 DEF Confirm
  <2> QED BY <2>1, ConfirmStep
<1>5. CASE MenuOpen \/ MenuClose
  <2>1. open_menu \/ close_menu BY <1>5 DEF MenuOpen, MenuClose
  <2> QED BY <2>1, MenuStep
<1>6. CASE \E i : MenuHeal(i) \/ MenuSwap(i) \/ MenuWithdraw(i) BY <1>6, MenuRowStep
<1>7. CASE \E a \in BattleLabels : BattleButton(a) BY <1>7, BattleStep
<1> QED BY <1>1, <1>2, <1>3, <1>4, <1>5, <1>6, <1>7, Zenon DEF Buttons, BattleLabels

LEMMA NextMoss == MossInv /\ [Next]_vars => MossInv'
<1> SUFFICES ASSUME MossInv, [Next]_vars PROVE MossInv' OBVIOUS
<1>1. CASE Buttons BY <1>1, ButtonsMoss
<1>2. CASE key_confirm
  <2>1. interact \/ confirm BY <1>2 DEF key_confirm
  <2> QED BY <2>1, InteractStep, ConfirmStep
<1>3. CASE key_menu
  <2>1. open_menu \/ close_menu BY <1>3 DEF key_menu
  <2> QED BY <2>1, MenuStep
<1>4. CASE draw BY <1>4, DrawStep
<1>5. CASE walk_on BY <1>5, WalkStep
<1>6. CASE encounter BY <1>6, EncounterStep
<1>7. CASE suspended BY <1>7, SuspendStep
<1>8. CASE crash
  <2>1. new(disk) /\ disk' = disk BY <1>8 DEF crash
  <2> QED BY <2>1, StartStep
<1>9. CASE quit
  <2>1. new(save) /\ disk' = save BY <1>9 DEF quit
  <2> QED BY <2>1, StartStep
<1>10. CASE UNCHANGED vars
  <2>1. save' = save /\ screen' = screen /\ battle' = battle /\ buttons' = buttons
        /\ disk' = disk
    BY <1>10 DEF vars
  <2>2. dirty' = dirty BY <1>10, Zenon DEF vars
  <2>3. OneOf(save, Saves)' /\ OneOf(battle, Battles)' /\ screen' \in Screens
        /\ \A s \in save' : GoodGame(s.game)
    BY <2>1 DEF MossInv, MossTypeOK, OneOf, Healthy, Written
  <2>4. Kept BY <2>1, <2>2, Zenon DEF Kept
  <2>5. OneOf(disk \ {Refused}, Saves)' /\ dirty' \in BOOLEAN /\ Healthy' /\ SavedOrDirty'
    BY <2>3, <2>4, KeptIs
  <2>6. MossTypeOK' BY <2>3, <2>5, Zenon DEF MossTypeOK
  <2>7. Fighting' /\ Fielded' BY <2>1 DEF MossInv, Fighting, Fielded
  <2>8. Screened' BY <2>1 DEF MossInv, Screened, Plain, BattleButtons, BattleLabels
  <2> QED BY <2>5, <2>6, <2>7, <2>8, Zenon DEF MossInv
<1> QED
  BY <1>1, <1>2, <1>3, <1>4, <1>5, <1>6, <1>7, <1>8, <1>9, <1>10, Zenon DEF Next

LEMMA MossAlways == Spec => []MossInv
BY InitMoss, NextMoss, PTL DEF Spec

\* A save, a battle and what load accepts are well formed in any journey: no supply leaves
\* its range, no monster has more moves than a fresh one (model.rs, battle.rs, app.rs).
THEOREM MossboundTypes == Spec => []MossTypeOK
<1>1. MossInv => MossTypeOK BY DEF MossInv
<1> QED BY <1>1, MossAlways, PTL

\* The rules never index the party with a member that is not there, whatever buttons of an
\* earlier screen are pressed while a battle goes on (app.rs, menu_action and battle_action).
THEOREM FightersAreInParty == Spec => []ActiveIsInParty
<1>1. MossInv => ActiveIsInParty
  <2> SUFFICES ASSUME MossInv, NEW s \in save
               PROVE  /\ s.game.party # << >>
                      /\ \A b \in battle : b.active \in DOMAIN s.game.party
    BY DEF ActiveIsInParty
  <2>1. s.game.party # << >> BY OnlyIs, GoodIs
  <2>2. \A b \in battle : b.active \in DOMAIN s.game.party BY DEF MossInv, Fielded
  <2> QED BY <2>1, <2>2
<1> QED BY <1>1, MossAlways, PTL

\* Between turns and in every save nobody is fainted, for any strikes, stocks and
\* evolutions: what is lost is healed by the haven before it is written (app.rs,
\* finish_or_continue_battle).
THEOREM EveryoneStandsAlways == Spec => []EveryoneStands
<1>1. MossInv => EveryoneStands
  <2> SUFFICES ASSUME MossInv PROVE EveryoneStands OBVIOUS
  <2>1. ASSUME NEW s \in Written, NEW m \in ToSet(s.game.party) \cup ToSet(s.game.storage)
        PROVE  m.hp > 0
    <3>1. Standing(s.game.party) /\ Standing(s.game.storage)
      BY <2>1, GoodIs DEF MossInv, Healthy
    <3> QED BY <2>1, <3>1 DEF ToSet, Standing
  <2>2. \A b \in battle : b.phase = "PlayerChoice" /\ b.wild.hp > 0 BY DEF MossInv, Fighting
  <2> QED BY <2>1, <2>2 DEF EveryoneStands
<1> QED BY <1>1, MossAlways, PTL

\* What the player owns and has achieved is on the disk or will be written: no failed
\* write, refused move or crash loses the mark (app.rs, save_now).
THEOREM ProgressIsSavedOrDirty == Spec => []SavedOrDirty
<1>1. MossInv => SavedOrDirty BY Zenon DEF MossInv
<1> QED BY <1>1, MossAlways, PTL
=============================================================================
