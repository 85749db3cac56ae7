----------------------------- MODULE Mossbound -----------------------------
(***************************************************************************)
(* The game Mossbound: its rules (crates/matterweave-monsters), its        *)
(* screens, battles and saves (apps/monsters/src/app.rs), from one start   *)
(* of the program to the next.                                             *)
(*                                                                         *)
(* The screen a player sees is the one of the last frame: a press finds a  *)
(* button that was drawn then, whatever the events since have changed.     *)
(* Names, positions, levels and experience, the log and the sounds are     *)
(* left out; a monster has one move, and whether a win opens the gate of   *)
(* an evolution is free.  An occluded window draws no frames, as one whose *)
(* frame has not come yet.                                                 *)
(***************************************************************************)
EXTENDS Naturals, Sequences, SequencesExt

CONSTANTS
    Places, Home, Exits,            \* Exits[p]: the places next to p
    Npcs,                           \* Npcs[p]: "haven", "shop" or a trainer
    Wild, Sanctuary,                \* Wild[p], Sanctuary[p]: what lives at p, after the badge
    Trainers, Team, Reward,         \* Team[t]: species in order, Reward[t]: charms, tonics
    GYM_TRAINERS, GYM_LEADER, PostGym,
    Species, STARTERS,
    MaxHp, Speed, Evolves,          \* Evolves[s]: no species or one
    Damages,                        \* what a strike can take, at least 1
    MAX_PARTY, MAX_STORAGE, PP_PER_MOVE,
    Tonic,                          \* what a tonic restores
    FirstCharms, FirstTonics,
    MAX_SUPPLY,                     \* stands for u32::MAX
    ROWS,                           \* stored monsters the menu shows
    Refused,                        \* a file that load does not accept
    MaxDeeds                      \* bound: deeds of all starts together

\* What the tables of the roster, the moves and the journey give: an evolution does not
\* shrink, a monster survives its capture, a strike hits, a trainer has a team.
ASSUME RosterAssumption ==
    /\ STARTERS \subseteq Species
    /\ MaxHp \in [Species -> Nat] /\ Evolves \in [Species -> SUBSET Species]
    /\ \A s \in Species : MaxHp[s] > 1 /\ \A to \in Evolves[s] : MaxHp[to] >= MaxHp[s]
    /\ Damages \subseteq Nat \ {0}
    /\ Team \in [Trainers -> Seq(Species)] /\ \A t \in Trainers : Team[t] # <<>>
    /\ Reward \in [Trainers -> Nat \X Nat]

ASSUME JourneyAssumption ==
    /\ Home \in Places /\ Exits \in [Places -> SUBSET Places]
    /\ Wild \in [Places -> SUBSET Species] /\ Sanctuary \in [Places -> SUBSET Species]
    /\ PP_PER_MOVE \in Nat /\ Tonic \in Nat /\ MAX_SUPPLY \in Nat
    /\ FirstCharms \in 0..MAX_SUPPLY /\ FirstTonics \in 0..MAX_SUPPLY

VARIABLES
    save,       \* Option: the game and its place
    screen,
    buttons,    \* what the last frame drew
    battle,     \* Option
    deeds,    \* changes of the game outside battles, and battles, so far
    dirty,
    disk        \* Option: the save file

vars == <<save, screen, buttons, battle, deeds, dirty, disk>>

Option(S) == {{}} \cup {{x} : x \in S}
Smaller(a, b) == IF a < b THEN a ELSE b
Less(a, b) == IF a < b THEN 0 ELSE a - b

Monsters == [species : Species, hp : Nat, pp : 0..PP_PER_MOVE]
Games == [party : Seq(Monsters), storage : Seq(Monsters), charms : 0..MAX_SUPPLY,
          tonics : 0..MAX_SUPPLY, defeated : SUBSET Trainers, badge : BOOLEAN]
Saves == [game : Games, place : Places]
ASSUME RefusedAssumption == Refused \notin Saves

Phases == {"PlayerChoice", "Won", "Lost", "Captured", "Fled"}
Battles == [wild : Monsters, phase : Phases, queue : Seq(Species),
            trainer : Option(Trainers), active : Nat \ {0}]
Screens == {"Title", "StarterPick", "Overworld", "Dialogue", "Battle", "Menu", "Ending"}

-----------------------------------------------------------------------------
(* The rules.  An operation that can be refused gives no game then.        *)

wild(s) == [species |-> s, hp |-> MaxHp[s], pp |-> PP_PER_MOVE]

new_game(starter) ==
    [party |-> <<wild(starter)>>, storage |-> <<>>, charms |-> FirstCharms,
     tonics |-> FirstTonics, defeated |-> {}, badge |-> FALSE]

restock(g, charms, tonics) ==
    [g EXCEPT !.charms = Smaller(@ + charms, MAX_SUPPLY),
              !.tonics = Smaller(@ + tonics, MAX_SUPPLY)]

capture(g, m) ==
    LET caught == [m EXCEPT !.hp = MaxHp[m.species] \div 2]
        spent  == [g EXCEPT !.charms = @ - 1]
    IN  IF g.charms = 0 THEN {}
        ELSE IF Len(g.party) < MAX_PARTY THEN {[spent EXCEPT !.party = Append(@, caught)]}
        ELSE IF Len(g.storage) < MAX_STORAGE THEN {[spent EXCEPT !.storage = Append(@, caught)]}
        ELSE {}

heal_member(g, i) ==
    LET full == MaxHp[g.party[i].species]
    IN  IF i \in DOMAIN g.party /\ g.tonics > 0 /\ g.party[i].hp < full
        THEN {[g EXCEPT !.party[i].hp = Smaller(@ + Tonic, full), !.tonics = @ - 1]}
        ELSE {}

haven_heal(g) == [g EXCEPT !.party = [i \in DOMAIN @ |-> wild(@[i].species)]]

swap_storage(g, i) ==
    IF i \in DOMAIN g.party /\ Len(g.party) # 1 /\ Len(g.storage) < MAX_STORAGE
    THEN {[g EXCEPT !.party = RemoveAt(@, i), !.storage = Append(@, g.party[i])]}
    ELSE {}

withdraw(g, i) ==
    IF i \in DOMAIN g.storage /\ Len(g.party) < MAX_PARTY
    THEN {[g EXCEPT !.storage = RemoveAt(@, i), !.party = Append(@, g.storage[i])]}
    ELSE {}

\* A win may open the gate of an evolution; the share of the hit points is kept, rounded.
grant_xp(g, i) ==
    LET m == g.party[i]
        evolved(to) == [m EXCEPT !.species = to,
            !.hp = (2 * @ * MaxHp[to] + MaxHp[m.species]) \div (2 * MaxHp[m.species])]
    IN  {g} \cup {[g EXCEPT !.party[i] = evolved(to)] : to \in Evolves[m.species]}

-----------------------------------------------------------------------------
(* A turn of a battle: what can come of it, `ok` unless it was refused.    *)

Turns == [game : Games, battle : Battles, ok : BOOLEAN]

wild_strike(t, i) ==
    LET struck(d) == Less(t.game.party[i].hp, d)
    IN  IF t.battle.wild.hp = 0 \/ i \notin DOMAIN t.game.party THEN {t}
        ELSE {[t EXCEPT !.game.party[i].hp = struck(d),
                        !.battle.phase = IF struck(d) = 0 THEN "Lost" ELSE @] : d \in Damages}

\* A move of status takes nothing; one without points is refused.
player_attack(t, i) ==
    LET hit(d) == [t EXCEPT !.battle.wild.hp = Less(@, d), !.game.party[i].pp = @ - 1]
        won(h) == {[h EXCEPT !.game = g, !.battle.phase = "Won"] : g \in grant_xp(h.game, i)}
        after(h) == IF h.battle.wild.hp = 0 THEN won(h) ELSE {h}
    IN  IF t.game.party[i].pp = 0 THEN {[t EXCEPT !.ok = FALSE]}
        ELSE UNION {after(hit(d)) : d \in Damages \cup {0}}

Choosing(t) == t.ok /\ t.battle.phase = "PlayerChoice"

Escape(t) == {[t EXCEPT !.battle.phase = "Fled"]} \cup wild_strike(t, t.battle.active)

Capture(t) ==
    {[t EXCEPT !.game = g, !.battle.phase = "Captured"] : g \in capture(t.game, t.battle.wild)}
        \cup wild_strike(t, t.battle.active)

HealWithoutStrike(t, i) ==
    LET healed == heal_member(t.game, i)
    IN  IF healed = {} THEN {t} ELSE {[t EXCEPT !.game = g] : g \in healed}

Heal(t, i) ==
    LET healed == heal_member(t.game, i)
    IN  IF healed = {} THEN wild_strike(t, t.battle.active)
        ELSE {[t EXCEPT !.game = g] : g \in healed}

Switch(t, i) ==
    {[s EXCEPT !.battle.active = Smaller(i, Len(s.game.party))] : s \in wild_strike(t, i)}

FightAfterDefeat(t) ==
    LET i == t.battle.active
    IN  IF Speed[t.game.party[i].species] >= Speed[t.battle.wild.species]
        THEN UNION {IF Choosing(s) THEN wild_strike(s, i) ELSE {s} : s \in player_attack(t, i)}
        ELSE UNION {player_attack(s, i) : s \in wild_strike(t, i)}

Fight(t) ==
    LET i == t.battle.active
    IN  IF Speed[t.game.party[i].species] >= Speed[t.battle.wild.species]
        THEN UNION {IF Choosing(s) THEN wild_strike(s, i) ELSE {s} : s \in player_attack(t, i)}
        ELSE UNION {IF Choosing(s) THEN player_attack(s, i) ELSE {s} : s \in wild_strike(t, i)}

next_healthy_member(g, active) ==
    LET count == Len(g.party)
        after(offset) == ((active - 1 + offset) % count) + 1
        healthy == {o \in 1..count : after(o) # active /\ g.party[after(o)].hp > 0}
    IN  {after(o) : o \in {o \in healthy : \A p \in healthy : o <= p}}

resolve(t, action) ==
    CASE action = "BattleMove"    -> Fight(t)
      [] action = "BattleCapture" -> Capture(t)
      [] action = "BattleHeal"    -> Heal(t, t.battle.active)
      [] action = "BattleEscape"  -> Escape(t)
      [] action = "BattleSwitch"  ->
            UNION {Switch(t, i) : i \in next_healthy_member(t.game, t.battle.active)}

-----------------------------------------------------------------------------
(* The screens.                                                            *)

ButtonsOf(scr, saved) ==
    LET rows(label, n) == {<<label, i>> : i \in 1..n}
        menu(g) == rows("MenuHeal", Len(g.party)) \cup rows("MenuSwap", Len(g.party))
                     \cup rows("MenuWithdraw", Smaller(Len(g.storage), ROWS))
                     \cup {<<"MenuClose">>, <<"Talk">>}
    IN  CASE scr = "Title" -> {<<"NewGame">>} \cup {<<"Continue">> : s \in saved}
          [] scr = "StarterPick" -> {<<"PickStarter", s>> : s \in STARTERS}
          [] scr = "Overworld" -> {<<"MenuOpen">>, <<"Talk">>}
          [] scr \in {"Dialogue", "Ending"} -> {<<"MenuOpen">>, <<"Confirm">>}
          [] scr = "Menu" -> UNION {menu(s.game) : s \in saved}
          [] scr = "Battle" -> {<<a>> : a \in
                {"BattleMove", "BattleCapture", "BattleHeal", "BattleEscape", "BattleSwitch"}}

Show(scr) == screen' = scr /\ UNCHANGED <<buttons, disk>>
deed == deeds < MaxDeeds /\ deeds' = deeds + 1
Stay == UNCHANGED <<save, battle, deeds, dirty>>

start_battle(team, trainer) ==
    /\ deed
    /\ battle' = {[wild |-> wild(Head(team)), phase |-> "PlayerChoice", queue |-> Tail(team),
                   trainer |-> trainer, active |-> 1]}

\* Whom the player stands next to is free.
haven == /\ save' = {[s EXCEPT !.game = haven_heal(@)] : s \in save} /\ dirty' = TRUE
         /\ Show("Dialogue") /\ deed /\ UNCHANGED battle

shop == /\ save' = {[s EXCEPT !.game = restock(@, 5, 2)] : s \in save} /\ dirty' = TRUE
        /\ Show("Dialogue") /\ deed /\ UNCHANGED battle

Declines(g, t) ==
    \/ t \in g.defeated
    \/ t = GYM_LEADER /\ ~(GYM_TRAINERS \subseteq g.defeated)
    \/ t \in PostGym /\ ~g.badge

challenge(g, t) ==
    IF Declines(g, t) THEN Show("Dialogue") /\ Stay
    ELSE Show("Battle") /\ start_battle(Team[t], {t}) /\ UNCHANGED <<save, dirty>>

interact ==
    /\ screen = "Overworld"
    /\ \E s \in save :
        \/ "haven" \in Npcs[s.place] /\ haven
        \/ "shop" \in Npcs[s.place] /\ shop
        \/ \E t \in Npcs[s.place] \cap Trainers : challenge(s.game, t)

\* What a battle leaves of the game, its place, the battle and the screen.
Rewarded(g, t) ==
    LET paid == IF t \in g.defeated THEN g
                ELSE restock([g EXCEPT !.defeated = @ \cup {t}], Reward[t][1], Reward[t][2])
    IN  [paid EXCEPT !.badge = @ \/ t = GYM_LEADER]

Over(t, place, scr) == save' = {[game |-> t.game, place |-> place]} /\ battle' = {} /\ Show(scr)

finish_or_continue_battle(t, place) ==
    LET b == t.battle IN
    CASE b.phase = "PlayerChoice" ->
            save' = {[game |-> t.game, place |-> place]} /\ battle' = {b} /\ Show(screen)
      [] b.phase = "Won" /\ b.queue # <<>> ->
            /\ save' = {[game |-> t.game, place |-> place]} /\ Show(screen)
            /\ battle' = {[b EXCEPT !.wild = wild(Head(b.queue)), !.queue = Tail(@),
                                    !.phase = "PlayerChoice"]}
      [] b.phase = "Won" /\ b.queue = <<>> /\ b.trainer # {} ->
            \E l \in b.trainer :
                Over([t EXCEPT !.game = Rewarded(@, l)], place,
                     IF l = GYM_LEADER THEN "Ending" ELSE "Dialogue")
      [] b.phase = "Won" /\ b.queue = <<>> /\ b.trainer = {} -> Over(t, place, "Overworld")
      [] b.phase = "Captured" -> Over(t, place, "Overworld")
      [] b.phase = "Fled" -> Over(t, place, "Dialogue")
      [] b.phase = "Lost" -> Over([t EXCEPT !.game = haven_heal(@)], Home, "Dialogue")

\* A refused action keeps what it did before the refusal, and does not mark it.
battle_action(action) ==
    /\ UNCHANGED deeds
    /\ \E s \in save, b \in battle :
        /\ b.trainer = {} \/ action \notin {"BattleCapture", "BattleEscape"}
        /\ \E t \in resolve([game |-> s.game, battle |-> b, ok |-> TRUE], action) :
            IF t.ok THEN finish_or_continue_battle(t, s.place) /\ dirty' = TRUE
            ELSE /\ save' = {[s EXCEPT !.game = t.game]} /\ battle' = {t.battle}
                 /\ Show(screen) /\ UNCHANGED dirty

menu_action(s, changed) ==
    \E g \in changed :
        /\ save' = {[s EXCEPT !.game = g]} /\ dirty' = TRUE
        /\ Show(screen) /\ deed /\ UNCHANGED battle

Offered(label) == label \in buttons

NewGame == Offered(<<"NewGame">>) /\ Show("StarterPick") /\ Stay
Continue ==
    /\ Offered(<<"Continue">>) /\ Show("Overworld")
    /\ dirty' = TRUE /\ UNCHANGED <<save, battle, deeds>>
PickStarter(s) ==
    /\ Offered(<<"PickStarter", s>>)
    /\ save' = {[game |-> new_game(s), place |-> Home]} /\ dirty' = TRUE
    /\ Show("Dialogue") /\ deed /\ UNCHANGED battle
Talk == Offered(<<"Talk">>) /\ interact
confirm == screen \in {"Dialogue", "Ending"} /\ Show("Overworld") /\ Stay
open_menu == screen = "Overworld" /\ Show("Menu") /\ Stay
close_menu ==
    /\ screen = "Menu" /\ Show("Overworld")
    /\ dirty' = TRUE /\ UNCHANGED <<save, battle, deeds>>
Confirm == Offered(<<"Confirm">>) /\ confirm
MenuOpen == Offered(<<"MenuOpen">>) /\ open_menu
MenuClose == Offered(<<"MenuClose">>) /\ close_menu
MenuHeal(i) ==
    Offered(<<"MenuHeal", i>>) /\ \E s \in save : menu_action(s, heal_member(s.game, i))
MenuSwap(i) ==
    Offered(<<"MenuSwap", i>>) /\ \E s \in save : menu_action(s, swap_storage(s.game, i))
MenuWithdraw(i) ==
    Offered(<<"MenuWithdraw", i>>) /\ \E s \in save : menu_action(s, withdraw(s.game, i))
BattleButton(action) == Offered(<<action>>) /\ battle_action(action)

\* Space and Enter, and Escape.
key_confirm == interact \/ confirm
key_menu == open_menu \/ close_menu

-----------------------------------------------------------------------------
(* Frames, saves, and the life of the program.                             *)

save_now_forgets(saved) == dirty' = FALSE /\ disk' \in {saved, disk}

\* What is unsaved stays dirty, and the next frame on the overworld tries again.
save_now(saved) ==
    \/ saved # {} /\ disk' = saved /\ dirty' = FALSE
    \/ dirty' = TRUE /\ UNCHANGED disk

save_if(unsaved, saved) ==
    IF unsaved THEN save_now(saved) ELSE dirty' = FALSE /\ UNCHANGED disk

PresentKeepsButtons(saved, scr, fight, unsaved) ==
    /\ save' = saved /\ screen' = scr /\ battle' = fight
    /\ buttons' = buttons \cup ButtonsOf(scr, saved)
    /\ IF scr = "Overworld" THEN save_if(unsaved, saved)
       ELSE dirty' = unsaved /\ UNCHANGED disk

Present(saved, scr, fight, unsaved) ==
    /\ save' = saved /\ screen' = scr /\ battle' = fight
    /\ buttons' = ButtonsOf(scr, saved)
    /\ IF scr = "Overworld" THEN save_if(unsaved, saved)
       ELSE dirty' = unsaved /\ UNCHANGED disk

draw == Present(save, screen, battle, dirty) /\ UNCHANGED deeds

\* A step onto an exit: the next place is installed.
walk_on ==
    /\ screen = "Overworld" /\ deed
    /\ \E s \in save : \E p \in Exits[s.place] :
        Present({[s EXCEPT !.place = p]}, screen, battle, TRUE)

\* A step into the grass: the frame that meets a monster does not save.
roll_wild(s) == Wild[s.place] \cup (IF s.game.badge THEN Sanctuary[s.place] ELSE {})
encounter ==
    /\ screen = "Overworld"
    /\ \E s \in save : \E m \in roll_wild(s) :
        /\ start_battle(<<m>>, {})
        /\ Present(save, "Battle", battle', dirty)

suspended ==
    /\ save_if(dirty, save)
    /\ UNCHANGED <<save, screen, buttons, battle, deeds>>

\* MonsterApp::new: what load refuses or cannot read counts as no save.
new(found) ==
    /\ save' \in {{}, found \ {Refused}}
    /\ screen' = "Title" /\ buttons' = {} /\ battle' = {}
    /\ dirty' = FALSE /\ UNCHANGED deeds

crash == new(disk) /\ UNCHANGED disk

\* CloseRequested saves, and exiting tries once more; when both fail it is as a crash.
quit == dirty /\ new(save) /\ disk' = save

Init ==
    /\ disk \in {{}, {Refused}}
    /\ save = {} /\ screen = "Title" /\ buttons = {} /\ battle = {} /\ deeds = 0
    /\ dirty = FALSE

Buttons ==
    \/ NewGame \/ Continue \/ (\E s \in STARTERS : PickStarter(s))
    \/ Talk \/ Confirm \/ MenuOpen \/ MenuClose
    \/ \E i \in 1..MAX_PARTY : MenuHeal(i) \/ MenuSwap(i)
    \/ \E i \in 1..ROWS : MenuWithdraw(i)
    \/ \E a \in {"BattleMove", "BattleCapture", "BattleHeal", "BattleEscape", "BattleSwitch"} :
        BattleButton(a)

Next == \/ Buttons \/ key_confirm \/ key_menu
        \/ draw \/ walk_on \/ encounter
        \/ suspended \/ crash \/ quit

Spec == Init /\ [][Next]_vars

-----------------------------------------------------------------------------
Written == save \cup (disk \ {Refused})

OneOf(o, S) == o \subseteq S /\ \A x, y \in o : x = y

MossTypeOK ==
    /\ OneOf(save, Saves) /\ OneOf(disk \ {Refused}, Saves)
    /\ screen \in Screens /\ OneOf(battle, Battles)
    /\ dirty \in BOOLEAN

(* The rules index the party with the member that fights, and with the     *)
(* first: it is there in every battle, also when buttons of an earlier     *)
(* screen are pressed once a battle has begun.                             *)
ActiveIsInParty ==
    \A s \in save :
        /\ s.game.party # <<>>
        /\ \A b \in battle : b.active \in DOMAIN s.game.party

(* Between turns, and in every save, every monster can fight: a defeat is  *)
(* always answered by the haven, so nobody starts a battle fainted.        *)
EveryoneStands ==
    /\ \A s \in Written :
        \A m \in ToSet(s.game.party) \cup ToSet(s.game.storage) : m.hp > 0
    /\ \A b \in battle : b.phase = "PlayerChoice" /\ b.wild.hp > 0

(* What the player owns and has achieved is on the disk, or marked to be   *)
(* written, whatever failed or was interrupted; hit points alone may       *)
(* differ, by a strike before a refused move.                              *)
Progress(s) ==
    LET kept(m) == [species |-> m.species, pp |-> m.pp]
        all(q) == [i \in DOMAIN q |-> kept(q[i])]
    IN  [s EXCEPT !.game.party = all(@), !.game.storage = all(@)]
SavedOrDirty == dirty \/ \A s \in save : \E d \in disk \ {Refused} : Progress(d) = Progress(s)

(* Ordinary play never locks: without charms, tonics and moves, a player   *)
(* who keeps pressing TONIC leaves every battle.                           *)
Persistent == /\ SF_vars(draw) /\ SF_vars(BattleButton("BattleHeal"))
NoSoftLock == Persistent => []<>(screen # "Battle")
=============================================================================
