--------------------------------- MODULE Combat ---------------------------------
(***************************************************************************)
(* A fight in one map: characters attack monsters, monsters hunt characters, *)
(* shoot and strike, both die and come back (service/CombatService.cpp,      *)
(* map/MapInstance.cpp, domain/Monster.cpp, domain/behavior, the life and    *)
(* experience of domain/Player.cpp and stat/CharacterStat.cpp, drops).       *)
(*                                                                          *)
(* Packet handlers, FinalizePlayer and MapInstance::Update run whole under   *)
(* Gameplay::gate: each is a step.  A monster keeps a raw pointer to whoever *)
(* hit it last, a drop one to its owner; a pointer is a character together   *)
(* with which of its logins made the Player, so that a pointer to a deleted  *)
(* Player is not one to the next Player of the same character.               *)
(*                                                                          *)
(* Neither positions nor times are held: who is near whom, hit by what or at *)
(* the edge of a platform, and whether a cooldown or the second without       *)
(* contact damage is over, is chosen anew in every step.  The map itself      *)
(* stays (Maps).                                                             *)
(***************************************************************************)
EXTENDS Integers, Sequences, FiniteSets, FiniteSetsExt, SequencesExt

CONSTANTS
  Character,
  Monster,        \* the spawn points of the map, one monster each
  Ranged, Boss,   \* the monsters with a projectile; with CorruptedGuardianBehavior
  MaxHp, MaxMp,   \* of a character
  MonsterHp,
  Damage,         \* what a hit on a monster can take
  AreaDamage, TouchDamage,  \* what one by a boss, and any other, takes
  Skill, Basic,   \* what a character attacks with, the basic attack among it
  Cost,           \* SkillDef::mp_cost
  MaxTargets,     \* SkillDef::hit.max_targets
  NeedExp,        \* LevelManager's table; 0 at the last level
  MonsterExp,
  FirstExp,       \* the experience the characters start from, at level 1
  LevelUpAp,      \* m_levelUp_ap
  MaxKills, MaxLogins, MaxShots,  \* bounds
  Null

LastLevel == Len(NeedExp)

\* What is stored of a character, the Player that it is while it plays, and a monster.
Stat ==
  [hp : 0 .. MaxHp, mp : 0 .. MaxMp, level : 1 .. LastLevel, exp : Nat, ap : Nat, spent : Nat]

Player ==
  [hp : 0 .. MaxHp, mp : 0 .. MaxMp, level : 1 .. LastLevel, exp : Nat, ap : Nat, spent : Nat,
   dead : BOOLEAN, here : BOOLEAN]

Pointers == Character \X Nat

SpawnedMonster ==
  [hp : 0 .. MonsterHp, alive : BOOLEAN, deadRequest : BOOLEAN,
   state : {"Idle", "Patrol", "Chase", "RangeAttack", "Die"},
   target : Pointers \cup {Null}, targetId : Character \cup {Null},
   phase : {"Idle", "Chase", "Telegraph", "Recovery"}, due : BOOLEAN]

ASSUME CombatAssumption ==
  /\ Null \notin Character \cup Pointers \cup Player
  /\ IsFiniteSet(Monster)
  /\ Ranged \subseteq Monster /\ Boss \subseteq Monster
  /\ MaxHp \in Nat \ {0} /\ MaxMp \in Nat /\ MonsterHp \in Nat \ {0}
  /\ Damage \subseteq Nat \ {0} /\ AreaDamage \in Nat \ {0} /\ TouchDamage \in Nat \ {0}
  /\ Basic \in Skill /\ Cost \in [Skill -> Nat] /\ MaxTargets \in Nat
  /\ NeedExp \in Seq(Nat) /\ LastLevel > 0
  /\ \A l \in 1 .. LastLevel : NeedExp[l] = 0 <=> l = LastLevel
  /\ MonsterExp \in [Monster -> Nat \ {0}]
  /\ FirstExp \in [Character -> Nat]
  /\ \A c \in Character : NeedExp[1] > 0 => FirstExp[c] < NeedExp[1]
  /\ LevelUpAp \in Nat /\ MaxKills \in Nat /\ MaxLogins \in Nat /\ MaxShots \in Nat

VARIABLES
  player,   \* the Player of a character, or Null
  saved,    \* while it does not play: what its last session has stored
  logins,   \* how often it has logged in
  monster,  \* m_monsterList
  shots,    \* the projectiles in flight
  drops,    \* m_dropItems: [id, owner]
  nextDrop, \* m_dropId
  loot      \* how many drops have been picked up

vars == <<player, saved, logins, monster, shots, drops, nextDrop, loot>>

NewStat == [hp |-> MaxHp, mp |-> MaxMp, level |-> 1, exp |-> 0, ap |-> 0, spent |-> 0]

NewMonster ==
  [hp |-> MonsterHp, alive |-> TRUE, deadRequest |-> FALSE, state |-> "Idle",
   target |-> Null, targetId |-> Null, phase |-> "Idle", due |-> FALSE]

Init ==
  /\ player = [c \in Character |-> Null]
  /\ saved = [c \in Character |-> [NewStat EXCEPT !.exp = FirstExp[c]]]
  /\ logins = [c \in Character |-> 0]
  /\ monster = [k \in Monster |-> [NewMonster EXCEPT !.state = IF k \in Boss THEN "Idle"
                                                               ELSE "Patrol"]]
  /\ shots = 0
  /\ drops = {} /\ nextDrop = 1
  /\ loot = 0

Pointer(c) == <<c, logins[c]>>

\* m_playerList.
Here == {c \in Character : player[c] # Null /\ player[c].here}
Alive(p) == ~p.dead

-------------------------------------------------------------------------------
(* Experience.                                                               *)

\* Mutant: what is left over is lost with the level.
LevelUpFromZero(s) ==
  IF NeedExp[s.level] > 0 /\ s.exp >= NeedExp[s.level]
  THEN [s EXCEPT !.exp = 0, !.level = @ + 1, !.ap = @ + LevelUpAp, !.hp = MaxHp, !.mp = MaxMp]
  ELSE s

LevelUp(s) ==
  IF NeedExp[s.level] > 0 /\ s.exp >= NeedExp[s.level]
  THEN [s EXCEPT !.exp = @ - NeedExp[s.level], !.level = @ + 1, !.ap = @ + LevelUpAp,
                 !.hp = MaxHp, !.mp = MaxMp]
  ELSE s

\* Mutant: one level at a time.
AddExpOnce(s, n) == LevelUp([s EXCEPT !.exp = @ + n])

\* AddExp: levels while there is enough for one, and a next one.
AddExp(s, n) ==
  FoldLeft(LAMBDA t, l : LevelUp(t), [s EXCEPT !.exp = @ + n], NeedExp)

\* ReduceExp(10.0): a tenth of what the level needs, or what there is.
ReduceExp(s) == [s EXCEPT !.exp = @ - Min({NeedExp[s.level] \div 10, @})]

DeadLocked(p) ==
  IF p.dead THEN p ELSE ReduceExp([p EXCEPT !.dead = TRUE, !.hp = 0])

OnDamaged(p, damage) ==
  IF p.dead \/ damage = 0 THEN p
  ELSE IF p.hp <= damage THEN DeadLocked(p) ELSE [p EXCEPT !.hp = @ - damage]

-------------------------------------------------------------------------------
(* Coming and going.                                                         *)

\* The Player of a session that begins: in no map yet, and alive.
Loaded(s) ==
  [hp |-> s.hp, mp |-> s.mp, level |-> s.level, exp |-> s.exp, ap |-> s.ap,
   spent |-> s.spent, dead |-> FALSE, here |-> FALSE]

\* What a session stores of it.
Stored(p) ==
  [hp |-> p.hp, mp |-> p.mp, level |-> p.level, exp |-> p.exp, ap |-> p.ap, spent |-> p.spent]

Login(c) ==
  /\ player[c] = Null /\ MapThenSumSet(LAMBDA d : logins[d], Character) < MaxLogins
  /\ player' = [player EXCEPT ![c] = Loaded(saved[c])]
  /\ saved' = [saved EXCEPT ![c] = Null]
  /\ logins' = [logins EXCEPT ![c] = @ + 1]
  /\ UNCHANGED <<monster, shots, drops, nextDrop, loot>>

OnEnter(c) ==
  /\ player[c] # Null /\ ~player[c].here
  /\ player' = [player EXCEPT ![c].here = TRUE]
  /\ UNCHANGED <<saved, logins, monster, shots, drops, nextDrop, loot>>

\* Mutant: a monster forgets who has left when it next moves.
ClearTargetLater(m, c) == m

ClearTarget(m, c) ==
  IF m.targetId # c THEN m
  ELSE [m EXCEPT !.target = Null, !.targetId = Null,
                 !.state = IF m.alive THEN "Patrol" ELSE @]

OnLeave(c) == monster' = [k \in Monster |-> IF c \in Here THEN ClearTarget(monster[k], c)
                                            ELSE monster[k]]

\* MoveByPortal to another map: for those alive.
Portal(c) ==
  /\ c \in Here /\ Alive(player[c])
  /\ OnLeave(c)
  /\ player' = [player EXCEPT ![c].here = FALSE]
  /\ UNCHANGED <<saved, logins, shots, drops, nextDrop, loot>>

\* FinalizePlayer: that the character is dead is not saved.
FinalizePlayer(c) ==
  /\ player[c] # Null
  /\ OnLeave(c)
  /\ saved' = [saved EXCEPT ![c] = Stored(player[c])]
  /\ player' = [player EXCEPT ![c] = Null]
  /\ UNCHANGED <<logins, shots, drops, nextDrop, loot>>

RevivePlayer(c) ==
  /\ c \in Here /\ player[c].dead
  /\ player' = [player EXCEPT ![c].dead = FALSE, ![c].hp = MaxHp]
  /\ UNCHANGED <<saved, logins, monster, shots, drops, nextDrop, loot>>

-------------------------------------------------------------------------------
(* Attacks on monsters.                                                      *)

CanUseSkill(c, s) == Alive(player[c]) /\ player[c].mp >= Cost[s]

UseSkill(p, s) == [p EXCEPT !.mp = @ - Cost[s]]

\* Any monsters that live, at most MaxTargets of them.
ComputeHitMonsters ==
  {hit \in SUBSET {k \in Monster : monster[k].alive} : Cardinality(hit) <= MaxTargets}

\* Mutant: the monster is dead and asks for no respawn.
DeadForGood(m) ==
  [m EXCEPT !.hp = 0, !.alive = FALSE, !.state = "Die"]

\* Monster::Dead.
Dead(m) ==
  [m EXCEPT !.hp = 0, !.alive = FALSE, !.deadRequest = TRUE, !.state = "Die"]

\* Monster::OnDamaged; nobody hits a dead one.
Hit(m, c, damage) ==
  LET chasing == [m EXCEPT !.target = Pointer(c), !.targetId = c,
                           !.state = IF @ = "RangeAttack" THEN @ ELSE "Chase"]
  IN  IF m.hp <= damage THEN Dead(chasing) ELSE [chasing EXCEPT !.hp = @ - damage]

\* What the attacker gets for a set of monsters.
Reward(killed) == MapThenSumSet(LAMBDA k : MonsterExp[k], killed)

\* Every level the killer gains by one monster is settled before the next.
Rewarded(p, killed) ==
  FoldSet(LAMBDA k, q : AddExp(q, MonsterExp[k]), p, killed)

\* SpawnDropItem, for as many items as DropManager::SetDropItem comes up with.
SpawnDropItem(c, n) ==
  /\ drops' = drops \cup {[id |-> d, owner |-> Pointer(c)] : d \in nextDrop .. nextDrop + n - 1}
  /\ nextDrop' = nextDrop + n

\* UseSkill and ResolveSkillHit, which are all an attack changes.
ResolveSkillHit(c, s) ==
  /\ \E hit \in ComputeHitMonsters : \E damage \in [hit -> Damage] :
       LET killed == {k \in hit : monster[k].hp <= damage[k]} IN
       /\ nextDrop + Cardinality(killed) <= MaxKills + 1
       /\ monster' = [k \in Monster |-> IF k \in hit THEN Hit(monster[k], c, damage[k])
                                        ELSE monster[k]]
       /\ player' = [player EXCEPT ![c] = Rewarded(UseSkill(@, s), killed)]
       /\ SpawnDropItem(c, Cardinality(killed))
  /\ UNCHANGED <<saved, logins, shots, loot>>

HandleSkillAttack(c, s) ==
  /\ c \in Here /\ s # Basic /\ CanUseSkill(c, s)
  /\ ResolveSkillHit(c, s)

\* The skill of the weapon, which needs neither a job nor to be learned.  Unlike
\* HandleSkillAttack it does not ask whether there is a map: for a Player that is
\* in none the handler goes through a null pointer, and what becomes of the
\* process then is not modelled.
HandleBasicAttack(c) ==
  /\ c \in Here /\ CanUseSkill(c, Basic)
  /\ ResolveSkillHit(c, Basic)

-------------------------------------------------------------------------------
(* What else a player does.                                                  *)

\* AddHP and AddMP; nothing asks whether the player is alive.
UseItem(c) ==
  /\ player[c] # Null
  /\ \E hp \in {player[c].hp, MaxHp}, mp \in {player[c].mp, MaxMp} :
       player' = [player EXCEPT ![c].hp = hp, ![c].mp = mp]
  /\ UNCHANGED <<saved, logins, monster, shots, drops, nextDrop, loot>>

Up(p) == [p EXCEPT !.ap = @ - 1, !.spent = @ + 1]

\* HandleStatUp: without a point to spend nothing changes.
UpStat(c) ==
  /\ player[c] # Null
  /\ player[c].ap > 0
  /\ player' = [player EXCEPT ![c] = Up(@)]
  /\ UNCHANGED <<saved, logins, monster, shots, drops, nextDrop, loot>>

\* Whether a pointer still points to a Player.
Points(x) == player[x[1]] # Null /\ logins[x[1]] = x[2]

\* Mutant: the drop is not erased before the inventory is asked.
PickupDropItemAndLeaveIt(c, d) ==
  /\ c \in Here
  /\ Points(d.owner) => d.owner[1] = c
  /\ loot < MaxKills
  /\ loot' = loot + 1
  /\ UNCHANGED <<player, saved, logins, monster, shots, drops, nextDrop>>

\* PickupDropItem, where the item fits; where it does not the drop is put
\* back.  The owner of a drop whose Player is gone may be read as anyone.
PickupDropItem(c, d) ==
  /\ c \in Here
  /\ Points(d.owner) => d.owner[1] = c
  /\ drops' = drops \ {d}
  /\ loot' = loot + 1
  /\ UNCHANGED <<player, saved, logins, monster, shots, nextDrop>>

-------------------------------------------------------------------------------
(* The map thread: MapInstance::Update, with one physics step.               *)

\* SpawnMonster.
Reset(m) == IF ~m.alive /\ m.deadRequest /\ m.due THEN NewMonster ELSE m

\* What UpdateChase and the behaviour ask of a target.
Valid(m) == m.target # Null /\ Points(m.target) /\ Alive(player[m.target[1]])
            /\ player[m.target[1]].here

Lost(m) == [m EXCEPT !.target = Null, !.targetId = Null, !.state = "Patrol"]

\* What is left to chance in an update of a monster: whether it may shoot and
\* its target is in range, or its timer has run out, and, for one that walks,
\* whether it comes to the edge of its platform, where it turns round and gives
\* the hunt up.
Luck == {"waits", "acts", "turns"}

\* TryRangedAttack.
Shoots(k, m, luck) == k \in Ranged /\ Valid(m) /\ luck = "acts"

UpdateChase(k, m, luck) ==
  CASE ~Valid(m) -> Lost(m)
    [] Shoots(k, m, luck) -> [m EXCEPT !.state = "RangeAttack"]
    [] Valid(m) /\ luck = "turns" -> Lost(m)
    [] OTHER -> m

\* CorruptedGuardianBehavior::Update.
UpdateBoss(k, m, luck) ==
  IF ~Valid(m) THEN [m EXCEPT !.phase = "Idle", !.state = "Idle"]
  ELSE CASE m.phase = "Idle" -> [m EXCEPT !.phase = "Chase", !.state = "Chase"]
         [] m.phase = "Chase" /\ luck = "acts" ->
              [m EXCEPT !.phase = "Telegraph", !.state = "RangeAttack"]
         [] m.phase = "Chase" /\ luck # "acts" -> UpdateChase(k, m, luck)
         [] m.phase = "Telegraph" /\ luck = "acts" -> [m EXCEPT !.phase = "Recovery"]
         [] m.phase = "Recovery" /\ luck = "acts" ->
              [m EXCEPT !.phase = "Chase", !.state = "Chase"]
         [] OTHER -> m

\* Monster::Update.
Updated(k, m, luck) ==
  IF ~m.alive THEN m
  ELSE IF k \in Boss THEN UpdateBoss(k, m, luck)
  ELSE IF m.state \in {"Chase", "RangeAttack"} THEN UpdateChase(k, m, luck)
  ELSE m

\* The projectiles that are left after ProjectileManager's Add and Update.
Flying(n) == 0 .. Min({MaxShots, n})

\* ApplyMonsterActions: the area attack of a boss, once.
Struck(strikes) == IF strikes THEN {AreaDamage} ELSE {}

\* ProcessRangedDamage and ProcessContactDamage: a player is hit by any number
\* of the projectiles, or of the monsters that live.  Neither of the two loops
\* looks again at what its first hit has changed, but each ends with the player.
Shot(flying) == {n * TouchDamage : n \in 1 .. flying}
Touched(living) == {n * TouchDamage : n \in 1 .. living}

\* What one step can do to a player: whoever is hit by the first of the three
\* is left alone by the others.
Hurts(strikes, flying, living) ==
  {0} \cup Struck(strikes) \cup Shot(flying) \cup Touched(living)

\* Update does nothing in a map that is empty.
Update ==
  /\ Here # {}
  /\ LET spawned == [k \in Monster |-> Reset(monster[k])]
         hunting == {k \in Monster : spawned[k].alive /\ Valid(spawned[k])}
         living == Cardinality({k \in Monster : spawned[k].alive})
     IN
     \E luck \in [hunting -> Luck] :
       LET moved == [k \in Monster |-> IF k \in hunting THEN Updated(k, spawned[k], luck[k])
                                       ELSE Updated(k, spawned[k], "waits")]
           shooters == {k \in hunting \ Boss : Shoots(k, spawned[k], luck[k])}
           strikes == \E k \in Boss : spawned[k].phase = "Telegraph" /\ moved[k].phase = "Recovery"
       IN  /\ monster' = moved
           /\ \E flying \in Flying(shots + Cardinality(shooters)) :
                /\ shots' = flying
                /\ \E hurt \in [{c \in Here : Alive(player[c])} -> Hurts(strikes, flying, living)] :
                     player' = [c \in Character |->
                       IF c \in DOMAIN hurt THEN OnDamaged(player[c], hurt[c]) ELSE player[c]]
  /\ UNCHANGED <<saved, logins, drops, nextDrop, loot>>

RespawnDelayEnds(k) ==
  /\ ~monster[k].alive /\ ~monster[k].due
  /\ monster' = [monster EXCEPT ![k].due = TRUE]
  /\ UNCHANGED <<player, saved, logins, shots, drops, nextDrop, loot>>

-------------------------------------------------------------------------------
Next ==
  \/ \E c \in Character :
       \/ Login(c) \/ OnEnter(c) \/ Portal(c) \/ FinalizePlayer(c) \/ RevivePlayer(c)
       \/ \E s \in Skill : HandleSkillAttack(c, s)
       \/ HandleBasicAttack(c)
       \/ UseItem(c) \/ UpStat(c)
       \/ \E d \in drops : PickupDropItem(c, d)
  \/ Update
  \/ \E k \in Monster : RespawnDelayEnds(k)

\* The map thread ticks as long as the server runs, and so does the clock.  All
\* that is needed of the first is a tick when a monster is due.
Respawns == (\E k \in Monster : monster[k].due) /\ Update

Spec ==
  /\ Init /\ [][Next]_vars
  /\ WF_vars(Respawns) /\ \A k \in Monster : WF_vars(RespawnDelayEnds(k))

-------------------------------------------------------------------------------
(* Properties.                                                               *)

TypeOK ==
  /\ player \in [Character -> Player \cup {Null}]
  /\ saved \in [Character -> Stat \cup {Null}]
  /\ logins \in [Character -> Nat]
  /\ monster \in [Monster -> SpawnedMonster]
  /\ shots \in 0 .. MaxShots
  /\ drops \subseteq [id : Nat, owner : Pointers] /\ nextDrop \in Nat /\ loot \in Nat

\* Whoever a monster hunts is a Player that exists and is in the map's list,
\* the one whose id it holds: dead or alive, between any two steps, and after
\* the monster's own death.  A monster without a behaviour that is hunting has
\* someone to hunt, and one that has someone is hunting.  (The types come with it.)
TargetsArePresent ==
  /\ TypeOK
  /\ \A k \in Monster :
       LET m == monster[k] IN
       /\ m.target = Null <=> m.targetId = Null
       /\ m.target # Null => m.target[1] = m.targetId /\ m.targetId \in Here /\ Points(m.target)
       /\ k \notin Boss /\ m.alive => (m.state \in {"Chase", "RangeAttack"} <=> m.target # Null)

\* All the experience a character has needed for where it is.
NeedsBelow == [l \in 1 .. LastLevel |-> MapThenSumSet(LAMBDA x : NeedExp[x], 1 .. l - 1)]
Earned(s) == s.exp + NeedsBelow[s.level]

\* The monsters that a step of a character kills.
KilledBy(c) ==
  {k \in Monster : monster[k].alive /\ ~monster'[k].alive /\ monster'[k].targetId = c}

\* What the death of a player costs: a tenth, once.
Penalty(p) == Min({NeedExp[p.level] \div 10, p.exp})

\* While a character plays its experience changes by the monsters it kills,
\* each of them once, and by its own deaths, each of them once however many
\* hits the step has, and by nothing else; who is dead kills nothing and pays
\* nothing.  (Server_gravity_movement_implementation_guide.md:1267.)
ExpIsAccounted ==
  [][\A c \in Character : player[c] # Null /\ player'[c] # Null =>
       /\ player[c].dead => KilledBy(c) = {}
       /\ Earned(player'[c]) = Earned(player[c]) + Reward(KilledBy(c))
            - (IF ~player[c].dead /\ player'[c].dead THEN Penalty(player[c]) ELSE 0)]_vars

\* Through level-ups by one monster or several, deaths and logins a character
\* has less experience than its next level needs, and the stat points it has
\* had are those of its levels.
LevelFitsExp ==
  \A c \in Character :
    LET s == IF player[c] = Null THEN saved[c] ELSE player[c] IN
    /\ NeedExp[s.level] > 0 => s.exp < NeedExp[s.level]
    /\ s.ap >= 0 /\ s.ap + s.spent = LevelUpAp * (s.level - 1)

\* Every item that has dropped lies in the map or is in one inventory.
DropsAreAccounted ==
  nextDrop - 1 = Cardinality(drops) + loot

\* A monster that has died is back after its delay, as long as there is someone
\* in the map.
MonsterReturns ==
  \A k \in Monster : ~monster[k].alive ~> (monster[k].alive \/ Here = {})
================================================================================
