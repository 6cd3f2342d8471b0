SPECIFICATION Spec

CONSTANTS
  ann = ann
  bea = bea
  archer = archer
  guardian = guardian
  strike = strike
  swing = swing
  Character = {ann, bea}
  Monster = {archer, guardian}
  Ranged = {archer}
  Boss = {guardian}
  MaxHp = 1
  MaxMp = 0
  MonsterHp = 2
  Damage = {1}
  AreaDamage = 2
  TouchDamage = 1
  Skill = {strike, swing}
  Basic = swing
  Cost <- Costs
  MaxTargets = 2
  NeedExp <- Table
  MonsterExp <- Worth
  FirstExp <- Exps
  LevelUpAp = 1
  MaxKills = 1
  MaxLogins = 2
  MaxShots = 1
  Null = Null

INVARIANT TargetsArePresent
INVARIANT LevelFitsExp
INVARIANT DropsAreAccounted
PROPERTY ExpIsAccounted
PROPERTY MonsterReturns
CHECK_DEADLOCK FALSE
