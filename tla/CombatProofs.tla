----------------------------- MODULE CombatProofs -----------------------------
(***************************************************************************)
(* Proofs about Combat for any table of experience, monsters and characters: *)
(* what a monster hunts is there, and experience, stat points and drops are  *)
(* accounted for.                                                            *)
(***************************************************************************)
EXTENDS Combat, FoldTheorems

\* Who does not play has something stored.
SavedInv == \A c \in Character : player[c] = Null => saved[c] \in Stat

\* A character has not enough for its next level.
Fits(s) == NeedExp[s.level] > 0 => s.exp < NeedExp[s.level]

\* The points of the levels it has are there or spent.
Pointed(s) == s.ap + s.spent = LevelUpAp * (s.level - 1)

\* The items have different numbers, those below nextDrop.
DropInv ==
  /\ IsFiniteSet(drops) /\ \A d \in drops : d.id < nextDrop
  /\ DropsAreAccounted

\* The types, and that who does not play has something stored.
TypeInv == TypeOK /\ SavedInv

\* The invariant: what a monster hunts is there, and levels and drops are accounted for.
IInv == TypeInv /\ TargetsArePresent /\ LevelFitsExp /\ DropInv
-------------------------------------------------------------------------------
(* Experience.                                                               *)

\* The table of levels.
LEMMA Table ==
  /\ LastLevel \in Nat \ {0} /\ DOMAIN NeedExp = 1 .. LastLevel
  /\ NeedExp \in [1 .. LastLevel -> Nat]
  /\ \A l \in 1 .. LastLevel : NeedExp[l] > 0 => l < LastLevel
<1>1. LastLevel \in Nat \ {0} /\ DOMAIN NeedExp = 1 .. LastLevel
  BY CombatAssumption DEF LastLevel
<1>2. NeedExp \in [1 .. LastLevel -> Nat]
  BY CombatAssumption, <1>1
<1>3. \A l \in 1 .. LastLevel : NeedExp[l] > 0 => l < LastLevel
  BY CombatAssumption, <1>1
<1> QED
  BY <1>1, <1>2, <1>3

\* What all levels below one need grows by what that one needs.
LEMMA NeedsGrow ==
  ASSUME NEW l \in 1 .. LastLevel
  PROVE  /\ NeedsBelow[l] \in Nat
         /\ l < LastLevel => NeedsBelow[l + 1] = NeedsBelow[l] + NeedExp[l]
<1>1. \A n \in 1 .. LastLevel : NeedsBelow[n] = SumOf(NeedExp, 1 .. n - 1)
  BY DEF NeedsBelow, SumOf
<1>2. \A n \in 1 .. LastLevel : 1 .. n - 1 \in SUBSET (1 .. LastLevel) /\ IsFiniteSet(1 .. n - 1)
  <2>1. LastLevel \in Nat
    BY Table
  <2>2. \A n \in 1 .. LastLevel : 1 .. n - 1 \in SUBSET (1 .. LastLevel)
    BY <2>1
  <2>3. \A n \in 1 .. LastLevel : IsFiniteSet(1 .. n - 1)
    BY <2>1, FS_Interval
  <2> QED
    BY <2>2, <2>3
<1>3. NeedsBelow[l] \in Nat
  <2>1. SumOf(NeedExp, 1 .. l - 1) \in Nat
    <3>1. 1 .. l - 1 \in SUBSET (1 .. LastLevel) /\ IsFiniteSet(1 .. l - 1)
      BY <1>2
    <3> QED
      BY <3>1, Table, SumFacts
  <2> QED
    BY <1>1, <2>1
<1>4. ASSUME l < LastLevel PROVE NeedsBelow[l + 1] = NeedsBelow[l] + NeedExp[l]
  <2>1. l + 1 \in 1 .. LastLevel /\ (l + 1) - 1 = l
    BY <1>4, Table
  <2>2. l \in 1 .. l /\ (1 .. l) \ {l} = 1 .. l - 1
    OBVIOUS
  <2>3. 1 .. l \in SUBSET (1 .. LastLevel) /\ IsFiniteSet(1 .. l)
    BY <1>2, <2>1
  <2>4. SumOf(NeedExp, 1 .. l) = NeedExp[l] + SumOf(NeedExp, 1 .. l - 1)
    BY <2>2, <2>3, Table, SumFacts
  <2>5. NeedsBelow[l + 1] = SumOf(NeedExp, 1 .. l)
    BY <1>1, <2>1
  <2>6. NeedExp[l] \in Nat
    BY Table
  <2> QED
    BY <1>1, <1>3, <2>4, <2>5, <2>6
<1> QED
  BY <1>3, <1>4

\* What a level up, if there is one, changes and what it keeps.
LEMMA LevelUpFacts ==
  ASSUME NEW p \in Player
  PROVE  /\ LevelUp(p) \in Player
         /\ LevelUp(p).dead = p.dead /\ LevelUp(p).here = p.here
         /\ Earned(LevelUp(p)) = Earned(p)
         /\ Pointed(p) => Pointed(LevelUp(p))
         /\ Fits(p) => LevelUp(p) = p
         /\ ~Fits(p) => LevelUp(p).level = p.level + 1
<1>1. /\ p.level \in 1 .. LastLevel /\ p.exp \in Nat /\ NeedExp[p.level] \in Nat
      /\ p.ap \in Nat /\ p.spent \in Nat
      /\ MaxHp \in 0 .. MaxHp /\ MaxMp \in 0 .. MaxMp /\ LevelUpAp \in Nat
  BY Table, CombatAssumption DEF Player
<1>2. CASE Fits(p)
  <2>1. LevelUp(p) = p
    BY <1>1, <1>2 DEF Fits, LevelUp
  <2> QED
    BY <1>2, <2>1
<1>3. CASE ~Fits(p)
  <2> DEFINE q == LevelUp(p)
  <2>1. NeedExp[p.level] > 0 /\ p.exp >= NeedExp[p.level] /\ p.level < LastLevel
    BY <1>1, <1>3, Table DEF Fits
  <2>2. q = [p EXCEPT !.exp = p.exp - NeedExp[p.level], !.level = p.level + 1,
                      !.ap = p.ap + LevelUpAp, !.hp = MaxHp, !.mp = MaxMp]
    BY <2>1 DEF LevelUp
  <2>3. p.level + 1 \in 1 .. LastLevel /\ p.exp - NeedExp[p.level] \in Nat
        /\ p.ap + LevelUpAp \in Nat
    <3>1. \A l, m \in Nat : l < m => l + 1 \in 1 .. m
      OBVIOUS
    <3>2. p.level \in Nat /\ LastLevel \in Nat
      BY <1>1, Table
    <3>3. p.level + 1 \in 1 .. LastLevel
      BY <2>1, <3>1, <3>2
    <3>4. p.exp - NeedExp[p.level] \in Nat /\ p.ap + LevelUpAp \in Nat
      BY <1>1, <2>1
    <3> QED
      BY <3>3, <3>4
  <2>4. q \in Player
    BY <1>1, <2>2, <2>3 DEF Player
  <2>5. /\ q.exp = p.exp - NeedExp[p.level] /\ q.level = p.level + 1
        /\ q.ap = p.ap + LevelUpAp /\ q.spent = p.spent
        /\ q.dead = p.dead /\ q.here = p.here
    BY <2>2 DEF Player
  <2> HIDE DEF q
  <2>6. Earned(q) = Earned(p)
    <3>1. NeedsBelow[p.level + 1] = NeedsBelow[p.level] + NeedExp[p.level]
          /\ NeedsBelow[p.level] \in Nat
      BY <1>1, <2>1, NeedsGrow
    <3>2. Earned(q) = (p.exp - NeedExp[p.level]) + (NeedsBelow[p.level] + NeedExp[p.level])
      BY <2>5, <3>1 DEF Earned
    <3> QED
      BY <1>1, <3>1, <3>2 DEF Earned
  <2>7. ASSUME Pointed(p) PROVE Pointed(q)
    <3>1. p.ap + p.spent = LevelUpAp * (p.level - 1)
      BY <2>7 DEF Pointed
    <3>2. LevelUpAp * ((p.level + 1) - 1) = LevelUpAp * (p.level - 1) + LevelUpAp
      BY <1>1
    <3>3. (p.ap + LevelUpAp) + p.spent = LevelUpAp * ((p.level + 1) - 1)
      BY <1>1, <3>1, <3>2
    <3> QED
      BY <2>5, <3>3 DEF Pointed
  <2> QED
    BY <1>3, <2>4, <2>5, <2>6, <2>7 DEF q
<1> QED
  BY <1>2, <1>3

\* AddExp, one level up after another.
LEMMA AddExpFold ==
  ASSUME NEW p \in Player, NEW n \in Nat
  PROVE  \E F : /\ F \in [0 .. LastLevel -> Player] /\ F[0] = [p EXCEPT !.exp = p.exp + n]
                /\ \A k \in 1 .. LastLevel : F[k] = LevelUp(F[k - 1])
                /\ AddExp(p, n) = F[LastLevel]
<1> DEFINE g == [x \in Player \X Nat |-> LevelUp(x[1])]
           base == [p EXCEPT !.exp = p.exp + n]
           D == SUBSET DOMAIN NeedExp
           Eq(e) == e = [T \in D |->
             IF T = {} THEN base ELSE LET x == Max(T) IN LevelUp(e[T \ {x}])]
<1>1. base \in Player
  <2>1. p.exp + n \in Nat
    BY DEF Player
  <2> QED
    BY <2>1 DEF Player
<1>2. g \in [Player \X Nat -> Player]
  <2>1. \A x \in Player \X Nat : LevelUp(x[1]) \in Player
    BY LevelUpFacts
  <2> QED
    BY <2>1
<1>3. NeedExp \in Seq(Nat)
  BY CombatAssumption
<1> HIDE DEF base
<1>4. PICK h : IsFoldLeft(h, NeedExp, Player, base, g)
  <2> HIDE DEF g
  <2> QED
    BY <1>1, <1>2, <1>3, FoldLeftExists
<1>5. \A T \in D : T # {} => Max(T) = Greatest(T) /\ Greatest(T) \in T
  <2>1. IsFiniteSet(DOMAIN NeedExp) /\ DOMAIN NeedExp \subseteq Int
    BY Table, FS_Interval
  <2> QED
    BY <2>1, GreatestExists DEF Max, Greatest
<1>6. Eq(h)
  <2> DEFINE e == [T \in D |->
               IF T = {} THEN base ELSE LET x == Max(T) IN LevelUp(h[T \ {x}])]
  <2>1. ASSUME NEW T \in D PROVE h[T] = e[T]
    <3>1. CASE T = {}
      BY <1>4, <3>1 DEF IsFoldLeft
    <3>2. CASE T # {}
      <4>1. h[T \ {Max(T)}] \in Player /\ NeedExp[Max(T)] \in Nat
        BY <1>4, <1>5, <3>2, Table DEF IsFoldLeft
      <4>2. h[T] = g[<<h[T \ {Max(T)}], NeedExp[Max(T)]>>]
        BY <1>4, <1>5, <3>2 DEF IsFoldLeft
      <4> QED
        BY <3>2, <4>1, <4>2
    <3> QED
      BY <3>1, <3>2
  <2>2. h = [T \in D |-> h[T]] /\ e = [T \in D |-> e[T]]
    BY <1>4 DEF IsFoldLeft
  <2>3. h = e
    <3> HIDE DEF e
    <3> QED
      BY <2>1, <2>2
  <2> QED
    BY <2>3
<1>7. AddExp(p, n) = (CHOOSE e : Eq(e))[DOMAIN NeedExp]
  BY DEF AddExp, FoldLeft, MapThenFoldSet, base
<1>8. PICK e : Eq(e) /\ AddExp(p, n) = e[DOMAIN NeedExp]
  <2> HIDE DEF Eq
  <2> QED
    BY <1>6, <1>7
<1>9. e[{}] = base
  BY <1>8
<1>10. ASSUME NEW T \in D, T # {}, e[T \ {Greatest(T)}] \in Player
       PROVE  e[T] = g[<<e[T \ {Greatest(T)}], NeedExp[Greatest(T)]>>]
  <2>1. e[T] = LevelUp(e[T \ {Greatest(T)}])
    BY <1>5, <1>8, <1>10
  <2>2. NeedExp[Greatest(T)] \in Nat
    BY <1>5, <1>10, Table
  <2> QED
    BY <1>10, <2>1, <2>2
<1>11. PICK F : IsChain(F, NeedExp, Player, base, g, e[DOMAIN NeedExp])
  <2> HIDE DEF g, Eq
  <2>1. FoldsLeft(e, NeedExp, Player, base, g)
    BY <1>9, <1>10 DEF FoldsLeft
  <2> QED
    BY <1>1, <1>2, <1>3, <2>1, FoldLeftChain
<1>12. LastLevel = Len(NeedExp)
  BY DEF LastLevel
<1>13. ASSUME NEW k \in 1 .. LastLevel PROVE F[k] = LevelUp(F[k - 1])
  <2>1. F[k - 1] \in Player /\ NeedExp[k] \in Nat
    BY <1>11, <1>12, Table DEF IsChain
  <2>2. F[k] = g[<<F[k - 1], NeedExp[k]>>]
    BY <1>11, <1>12 DEF IsChain
  <2> QED
    BY <2>1, <2>2
<1>14. F \in [0 .. LastLevel -> Player] /\ F[0] = base /\ F[LastLevel] = AddExp(p, n)
  BY <1>8, <1>11, <1>12 DEF IsChain
<1> QED
  BY <1>13, <1>14 DEF base

\* However much is added: the levels it is enough for are all gained, none is lost, and
\* what is left over stays.
LEMMA AddExpFacts ==
  ASSUME NEW p \in Player, NEW n \in Nat
  PROVE  /\ AddExp(p, n) \in Player
         /\ AddExp(p, n).dead = p.dead /\ AddExp(p, n).here = p.here
         /\ Earned(AddExp(p, n)) = Earned(p) + n
         /\ Fits(AddExp(p, n))
         /\ Pointed(p) => Pointed(AddExp(p, n))
<1>1. PICK F : /\ F \in [0 .. LastLevel -> Player] /\ F[0] = [p EXCEPT !.exp = p.exp + n]
               /\ \A k \in 1 .. LastLevel : F[k] = LevelUp(F[k - 1])
               /\ AddExp(p, n) = F[LastLevel]
  BY AddExpFold
<1> DEFINE Kept(q) == /\ q.dead = p.dead /\ q.here = p.here /\ Earned(q) = Earned(p) + n
                      /\ Pointed(p) => Pointed(q)
           N == {k \in Nat : k <= LastLevel =>
                               Kept(F[k]) /\ (Fits(F[k]) \/ F[k].level > k)}
<1>2. 0 \in N
  <2>1. /\ F[0].exp = p.exp + n /\ F[0].level = p.level /\ F[0].ap = p.ap /\ F[0].spent = p.spent
        /\ F[0].dead = p.dead /\ F[0].here = p.here
    BY <1>1 DEF Player
  <2>2. p.exp \in Nat /\ p.level \in 1 .. LastLevel /\ NeedsBelow[p.level] \in Nat
    BY NeedsGrow DEF Player
  <2>3. Earned(F[0]) = Earned(p) + n
    BY <2>1, <2>2 DEF Earned
  <2>4. F[0].level > 0
    BY <2>1, <2>2, Table
  <2> QED
    BY <2>1, <2>3, <2>4 DEF Pointed
<1>3. ASSUME NEW k \in N PROVE k + 1 \in N
  <2> SUFFICES ASSUME k + 1 <= LastLevel
               PROVE  Kept(F[k + 1]) /\ (Fits(F[k + 1]) \/ F[k + 1].level > k + 1)
    OBVIOUS
  <2>1. k \in Nat /\ k + 1 \in 1 .. LastLevel /\ k \in 0 .. LastLevel /\ (k + 1) - 1 = k
    BY Table
  <2>2. F[k] \in Player /\ F[k + 1] = LevelUp(F[k])
    BY <1>1, <2>1
  <2>3. Kept(F[k]) /\ (Fits(F[k]) \/ F[k].level > k)
    BY <2>1
  <2>4. Kept(F[k + 1])
    BY <2>2, <2>3, LevelUpFacts
  <2>5. CASE Fits(F[k])
    BY <2>2, <2>4, <2>5, LevelUpFacts
  <2>6. CASE ~Fits(F[k])
    <3>1. F[k + 1].level = F[k].level + 1 /\ F[k].level > k /\ F[k].level \in Nat
      <4>1. F[k].level \in 1 .. LastLevel
        BY <2>2 DEF Player
      <4>2. F[k].level \in Nat
        BY <4>1, Table
      <4> QED
        BY <2>2, <2>3, <2>6, <4>2, LevelUpFacts
    <3>2. F[k + 1].level > k + 1
      BY <2>1, <3>1
    <3> QED
      BY <2>4, <3>2
  <2> QED
    BY <2>5, <2>6
<1>4. N = Nat
  <2>1. N \in SUBSET Nat
    OBVIOUS
  <2> HIDE DEF N
  <2> QED
    BY <1>2, <1>3, <2>1, NatSetInduction
<1>5. LastLevel \in Nat /\ LastLevel \in 0 .. LastLevel
  BY Table
<1>6. Kept(F[LastLevel]) /\ (Fits(F[LastLevel]) \/ F[LastLevel].level > LastLevel)
  <2>1. LastLevel \in N
    BY <1>4, <1>5
  <2> QED
    BY <1>5, <2>1
<1>7. F[LastLevel] \in Player
  BY <1>1, <1>5
<1>8. ~(F[LastLevel].level > LastLevel)
  BY <1>5, <1>7 DEF Player
<1> QED
  BY <1>1, <1>6, <1>7, <1>8

\* What one monster is worth to a Player.
Gain == [x \in Monster \X Player |-> AddExp(x[2], MonsterExp[x[1]])]

\* A monster is worth something to every Player.
LEMMA GainType ==
  /\ Gain \in [Monster \X Player -> Player]
  /\ \A k \in Monster, q \in Player : Gain[<<k, q>>] = AddExp(q, MonsterExp[k])
<1>1. \A k \in Monster : MonsterExp[k] \in Nat
  BY CombatAssumption
<1>2. \A x \in Monster \X Player : AddExp(x[2], MonsterExp[x[1]]) \in Player
  BY <1>1, AddExpFacts
<1> QED
  BY <1>2 DEF Gain

\* Rewarded settles the monsters one by one.
LEMMA RewardedFold ==
  ASSUME NEW p \in Player, NEW killed \in SUBSET Monster
  PROVE  \E e : FoldsSet(e, killed, Player, p, Gain) /\ Rewarded(p, killed) = e[killed]
<1> DEFINE D == SUBSET killed
           Eq(e) == e = [s \in D |->
             IF s = {} THEN p
             ELSE LET x == CHOOSE x \in s : TRUE IN AddExp(e[s \ {x}], MonsterExp[x])]
           pick == [T \in D |-> Chosen(T)]
           g == [x \in killed \X Player |-> Gain[x]]
<1>1. \A T \in D : T # {} => pick[T] \in T
  BY DEF Chosen
<1>2. g \in [killed \X Player -> Player]
  <2>1. \A x \in killed \X Player : x \in Monster \X Player
    OBVIOUS
  <2> QED
    BY <2>1, GainType
<1>3. IsFiniteSet(killed)
  BY CombatAssumption, FS_Subset
<1>4. PICK h : IsFold(h, killed, Player, p, g, pick)
  <2> HIDE DEF g, pick
  <2> QED
    BY <1>1, <1>2, <1>3, FoldExists
<1>5. Eq(h)
  <2> DEFINE e == [s \in D |->
               IF s = {} THEN p
               ELSE LET x == CHOOSE x \in s : TRUE IN AddExp(h[s \ {x}], MonsterExp[x])]
  <2>1. ASSUME NEW T \in D PROVE h[T] = e[T]
    <3>1. CASE T = {}
      BY <1>4, <3>1 DEF IsFold
    <3>2. CASE T # {}
      <4>1. pick[T] = Chosen(T) /\ Chosen(T) \in killed /\ Chosen(T) \in Monster
        BY <1>1, <3>2
      <4>2. h[T \ {Chosen(T)}] \in Player
        BY <1>4 DEF IsFold
      <4>3. h[T] = g[<<Chosen(T), h[T \ {Chosen(T)}]>>]
        BY <1>4, <3>2, <4>1 DEF IsFold
      <4>4. h[T] = AddExp(h[T \ {Chosen(T)}], MonsterExp[Chosen(T)])
        <5>1. <<Chosen(T), h[T \ {Chosen(T)}]>> \in killed \X Player
          BY <4>1, <4>2
        <5> QED
          BY <4>1, <4>2, <4>3, <5>1, GainType
      <4>5. e[T] = AddExp(h[T \ {Chosen(T)}], MonsterExp[Chosen(T)])
        BY <3>2 DEF Chosen
      <4> QED
        BY <4>4, <4>5
    <3> QED
      BY <3>1, <3>2
  <2>2. h = [T \in D |-> h[T]] /\ e = [T \in D |-> e[T]]
    BY <1>4 DEF IsFold
  <2>3. h = e
    <3> HIDE DEF e
    <3> QED
      BY <2>1, <2>2
  <2> QED
    BY <2>3
<1>6. Rewarded(p, killed) = (CHOOSE e : Eq(e))[killed]
  BY DEF Rewarded, FoldSet, MapThenFoldSet
<1>7. PICK e : Eq(e) /\ Rewarded(p, killed) = e[killed]
  <2> HIDE DEF Eq
  <2> QED
    BY <1>5, <1>6
<1>8. e[{}] = p
  BY <1>7
<1>9. ASSUME NEW T \in D, T # {}, e[T \ {Chosen(T)}] \in Player
      PROVE  e[T] = Gain[<<Chosen(T), e[T \ {Chosen(T)}]>>]
  <2>1. Chosen(T) \in Monster
    BY <1>1, <1>9
  <2>2. e[T] = AddExp(e[T \ {Chosen(T)}], MonsterExp[Chosen(T)])
    BY <1>7, <1>9 DEF Chosen
  <2> QED
    BY <1>9, <2>1, <2>2, GainType
<1>10. FoldsSet(e, killed, Player, p, Gain)
  <2> HIDE DEF Eq
  <2> QED
    BY <1>8, <1>9 DEF FoldsSet
<1> QED
  BY <1>7, <1>10

\* Who kills several monsters gets what each of them is worth, whatever the order.
LEMMA RewardedFacts ==
  ASSUME NEW p \in Player, NEW killed \in SUBSET Monster
  PROVE  /\ Rewarded(p, killed) \in Player
         /\ Rewarded(p, killed).dead = p.dead /\ Rewarded(p, killed).here = p.here
         /\ Earned(Rewarded(p, killed)) = Earned(p) + Reward(killed)
         /\ Fits(p) => Fits(Rewarded(p, killed))
         /\ Pointed(p) => Pointed(Rewarded(p, killed))
<1> DEFINE Is(T, q) == /\ q \in Player /\ q.dead = p.dead /\ q.here = p.here
                       /\ Earned(q) = Earned(p) + SumOf(MonsterExp, T)
                       /\ Fits(p) => Fits(q)
                       /\ Pointed(p) => Pointed(q)
           Good == {x \in (SUBSET killed) \X Player : Is(x[1], x[2])}
<1>1. PICK e : FoldsSet(e, killed, Player, p, Gain) /\ Rewarded(p, killed) = e[killed]
  BY RewardedFold
<1>2. IsFiniteSet(killed) /\ \A T \in SUBSET killed : IsFiniteSet(T) /\ T \in SUBSET Monster
  BY CombatAssumption, FS_Subset
<1>3. MonsterExp \in [Monster -> Nat]
  BY CombatAssumption
<1>4. ASSUME NEW q \in Player PROVE Earned(q) \in Nat
  <2>1. q.level \in 1 .. LastLevel /\ q.exp \in Nat
    BY DEF Player
  <2>2. NeedsBelow[q.level] \in Nat
    BY <2>1, NeedsGrow
  <2> QED
    BY <2>1, <2>2 DEF Earned
<1>5. Is({}, p)
  <2>1. SumOf(MonsterExp, {}) = 0
    BY <1>2, <1>3, SumFacts
  <2>2. Earned(p) \in Nat
    BY <1>4
  <2>3. Earned(p) = Earned(p) + SumOf(MonsterExp, {})
    BY <2>1, <2>2
  <2> QED
    BY <2>3
<1>6. ASSUME NEW T \in SUBSET killed, NEW k \in killed \ T, NEW q \in Player, Is(T, q)
      PROVE  Is(T \cup {k}, Gain[<<k, q>>])
  <2> DEFINE r == Gain[<<k, q>>]
  <2>1. r = AddExp(q, MonsterExp[k]) /\ MonsterExp[k] \in Nat
    BY <1>3, GainType
  <2>2. /\ r \in Player /\ r.dead = q.dead /\ r.here = q.here /\ Fits(r)
        /\ Earned(r) = Earned(q) + MonsterExp[k] /\ (Pointed(q) => Pointed(r))
    <3>1. LET a == AddExp(q, MonsterExp[k]) IN
          /\ a \in Player /\ a.dead = q.dead /\ a.here = q.here /\ Fits(a)
          /\ Earned(a) = Earned(q) + MonsterExp[k] /\ (Pointed(q) => Pointed(a))
      BY <2>1, AddExpFacts
    <3> HIDE DEF r
    <3> QED
      BY <2>1, <3>1
  <2>3. SumOf(MonsterExp, T \cup {k}) = MonsterExp[k] + SumOf(MonsterExp, T)
        /\ SumOf(MonsterExp, T) \in Nat
    <3>1. T \cup {k} \in SUBSET Monster /\ IsFiniteSet(T \cup {k}) /\ (T \cup {k}) \ {k} = T
      BY <1>2
    <3>2. SumOf(MonsterExp, T \cup {k}) = MonsterExp[k] + SumOf(MonsterExp, (T \cup {k}) \ {k})
      BY <1>3, <3>1, SumFacts
    <3>3. SumOf(MonsterExp, T) \in Nat
      BY <1>2, <1>3, SumFacts
    <3> QED
      BY <3>1, <3>2, <3>3
  <2>4. Earned(p) \in Nat
    BY <1>4
  <2> HIDE DEF r
  <2>5. Earned(r) = Earned(p) + SumOf(MonsterExp, T \cup {k})
    <3>1. Earned(r) = (Earned(p) + SumOf(MonsterExp, T)) + MonsterExp[k]
      BY <1>6, <2>2
    <3> QED
      BY <2>1, <2>3, <2>4, <3>1
  <2>6. Is(T \cup {k}, r)
    BY <1>6, <2>2, <2>5
  <2> QED
    BY <2>6 DEF r
<1> HIDE DEF Is
<1>7. IsKept(Good, killed, Player, p, Gain)
  <2>1. ASSUME NEW T \in SUBSET killed, NEW k \in killed \ T, NEW q \in Player, <<T, q>> \in Good
        PROVE  <<T \cup {k}, Gain[<<k, q>>]>> \in Good
    <3>1. Is(T \cup {k}, Gain[<<k, q>>])
      BY <1>6, <2>1
    <3>2. T \cup {k} \in SUBSET killed /\ Gain[<<k, q>>] \in Player
      BY GainType
    <3> QED
      BY <3>1, <3>2
  <2>2. <<{}, p>> \in Good
    BY <1>5
  <2> QED
    BY <2>1, <2>2 DEF IsKept
<1>8. \A T \in SUBSET killed : <<T, e[T]>> \in Good
  <2> HIDE DEF Good
  <2> QED
    BY <1>1, <1>2, <1>7, FoldSetInduction
<1>9. Is(killed, Rewarded(p, killed))
  BY <1>1, <1>8
<1>10. Reward(killed) = SumOf(MonsterExp, killed)
  BY DEF Reward, SumOf
<1> QED
  BY <1>9, <1>10 DEF Is
-------------------------------------------------------------------------------
(* The steps of players and monsters.                                        *)

\* The less of two numbers.
LEMMA MinFacts ==
  ASSUME NEW a \in Nat, NEW b \in Nat
  PROVE  Min({a, b}) \in Nat /\ Min({a, b}) <= a /\ Min({a, b}) <= b
<1>1. \E x \in {a, b} : \A y \in {a, b} : x <= y
  <2>1. a <= a /\ b <= b /\ (a <= b \/ b <= a)
    OBVIOUS
  <2> QED
    BY <2>1
<1>2. Min({a, b}) \in {a, b} /\ \A y \in {a, b} : Min({a, b}) <= y
  BY <1>1 DEF Min
<1> QED
  BY <1>2

\* What a hit does to a player: who dies by it pays once, who is dead pays nothing.
LEMMA OnDamagedFacts ==
  ASSUME NEW p \in Player, NEW damage \in Nat
  PROVE  LET q == OnDamaged(p, damage) IN
         /\ q \in Player /\ q.here = p.here
         /\ Earned(q) = Earned(p) - (IF ~p.dead /\ q.dead THEN Penalty(p) ELSE 0)
         /\ Fits(p) => Fits(q)
         /\ Pointed(p) => Pointed(q)
<1> DEFINE q == OnDamaged(p, damage)
<1>1. /\ p.level \in 1 .. LastLevel /\ p.exp \in Nat /\ p.hp \in 0 .. MaxHp
      /\ NeedExp[p.level] \in Nat /\ NeedsBelow[p.level] \in Nat /\ MaxHp \in Nat
      /\ Earned(p) \in Int
  <2>1. p.level \in 1 .. LastLevel /\ p.exp \in Nat /\ p.hp \in 0 .. MaxHp
    BY DEF Player
  <2>2. NeedExp[p.level] \in Nat /\ NeedsBelow[p.level] \in Nat /\ MaxHp \in Nat
    BY <2>1, Table, NeedsGrow, CombatAssumption
  <2> QED
    BY <2>1, <2>2 DEF Earned
<1>2. CASE p.dead \/ damage = 0
  <2>1. q = p
    BY <1>2 DEF OnDamaged
  <2> QED
    BY <1>1, <2>1
<1>3. CASE ~p.dead /\ damage # 0 /\ ~(p.hp <= damage)
  <2>1. q = [p EXCEPT !.hp = p.hp - damage]
    BY <1>3 DEF OnDamaged
  <2>2. p.hp - damage \in 0 .. MaxHp
    BY <1>1, <1>3
  <2>3. q \in Player
    BY <2>1, <2>2 DEF Player
  <2>4. /\ q.level = p.level /\ q.exp = p.exp /\ q.ap = p.ap /\ q.spent = p.spent
        /\ q.dead = p.dead /\ q.here = p.here
    BY <2>1 DEF Player
  <2> HIDE DEF q
  <2>5. Earned(q) = Earned(p) /\ ~(~p.dead /\ q.dead)
    BY <1>3, <2>4 DEF Earned
  <2> QED
    BY <1>1, <2>3, <2>4, <2>5 DEF Fits, Pointed, q
<1>4. CASE ~p.dead /\ damage # 0 /\ p.hp <= damage
  <2> DEFINE loss == Min({NeedExp[p.level] \div 10, p.exp})
             d == [p EXCEPT !.dead = TRUE, !.hp = 0]
  <2>1. q = ReduceExp(d)
    BY <1>4 DEF OnDamaged, DeadLocked
  <2>2. /\ d \in Player /\ d.dead = TRUE /\ d.here = p.here /\ d.exp = p.exp
        /\ d.level = p.level /\ d.ap = p.ap /\ d.spent = p.spent
    <3>1. 0 \in 0 .. MaxHp
      BY <1>1
    <3>2. d \in Player
      BY <3>1 DEF Player
    <3>3. /\ d.dead = TRUE /\ d.here = p.here /\ d.exp = p.exp
          /\ d.level = p.level /\ d.ap = p.ap /\ d.spent = p.spent
      BY DEF Player
    <3> QED
      BY <3>2, <3>3
  <2> HIDE DEF d
  <2>3. q = [d EXCEPT !.exp = p.exp - loss]
    BY <2>1, <2>2 DEF ReduceExp
  <2>4. loss \in Nat /\ loss <= p.exp
    <3>1. NeedExp[p.level] \div 10 \in Nat
      BY <1>1
    <3> QED
      BY <1>1, <3>1, MinFacts
  <2>5. loss = Penalty(p)
    BY DEF Penalty
  <2> HIDE DEF loss
  <2>6. p.exp - loss \in Nat
    BY <1>1, <2>4
  <2>7. q \in Player
    BY <2>2, <2>3, <2>6 DEF Player
  <2>8. /\ q.level = p.level /\ q.exp = p.exp - loss /\ q.ap = p.ap /\ q.spent = p.spent
        /\ q.dead = TRUE /\ q.here = p.here
    BY <2>2, <2>3 DEF Player
  <2> HIDE DEF q
  <2>9. Earned(q) = Earned(p) - Penalty(p)
    <3>1. (p.exp - loss) + NeedsBelow[p.level] = (p.exp + NeedsBelow[p.level]) - loss
      BY <1>1, <2>4
    <3> QED
      BY <2>5, <2>8, <3>1 DEF Earned
  <2>10. Fits(p) => Fits(q)
    BY <1>1, <2>4, <2>8 DEF Fits
  <2>11. Pointed(p) => Pointed(q)
    BY <2>8 DEF Pointed
  <2> QED
    BY <1>4, <2>7, <2>8, <2>9, <2>10, <2>11 DEF q
<1> QED
  BY <1>2, <1>3, <1>4

\* Whom a monster aims at is here, and it knows its id; one without a behaviour hunts
\* if it has somebody to hunt.
Aim(k, m, here, login) ==
  /\ m.target = Null <=> m.targetId = Null
  /\ m.target # Null => /\ m.target[1] = m.targetId /\ m.targetId \in here
                        /\ login[m.targetId] = m.target[2]
  /\ k \notin Boss /\ m.alive => (m.state \in {"Chase", "RangeAttack"} <=> m.target # Null)

\* That is the property about the targets.
LEMMA AimIs ==
  ASSUME TypeOK
  PROVE  TargetsArePresent <=> \A k \in Monster : Aim(k, monster[k], Here, logins)
<1>1. \A k \in Monster : monster[k] \in SpawnedMonster
  BY DEF TypeOK
<1>2. \A c \in Here : player[c] # Null
  BY DEF Here
<1> QED
  BY <1>2 DEF TargetsArePresent, Aim, Points

\* The same, of the next state.
LEMMA AimNext ==
  ASSUME TypeOK', \A k \in Monster : Aim(k, monster'[k], Here', logins')
  PROVE  TargetsArePresent'
<1>1. \A c \in Here' : player'[c] # Null
  BY DEF Here
<1> QED
  BY <1>1 DEF TargetsArePresent, Aim, Points

\* A monster that is hit aims at who has hit it.
LEMMA HitFacts ==
  ASSUME NEW m \in SpawnedMonster, m.alive, NEW c \in Character, NEW damage \in Damage,
         logins[c] \in Nat
  PROVE  /\ Hit(m, c, damage) \in SpawnedMonster
         /\ Hit(m, c, damage).target = Pointer(c) /\ Hit(m, c, damage).targetId = c
         /\ Hit(m, c, damage).alive <=> ~(m.hp <= damage)
         /\ Hit(m, c, damage).alive => Hit(m, c, damage).state \in {"Chase", "RangeAttack"}
         /\ Pointer(c) # Null /\ c # Null
<1> DEFINE state == IF m.state = "RangeAttack" THEN m.state ELSE "Chase"
           chasing == [m EXCEPT !.target = Pointer(c), !.targetId = c, !.state = state]
<1>1. damage \in Nat \ {0} /\ MonsterHp \in Nat /\ m.hp \in 0 .. MonsterHp
  BY CombatAssumption DEF SpawnedMonster
<1>2. Pointer(c) \in Pointers /\ Pointer(c) # Null /\ c # Null
  BY CombatAssumption DEF Pointer, Pointers
<1>3. state \in {"Chase", "RangeAttack"}
  OBVIOUS
<1>4. Hit(m, c, damage) = IF m.hp <= damage THEN Dead(chasing)
                          ELSE [chasing EXCEPT !.hp = chasing.hp - damage]
  BY DEF Hit
<1> HIDE DEF state
<1>5. /\ chasing \in SpawnedMonster /\ chasing.target = Pointer(c) /\ chasing.targetId = c
      /\ chasing.alive = m.alive /\ chasing.state = state /\ chasing.hp = m.hp
  BY <1>2, <1>3 DEF SpawnedMonster
<1> HIDE DEF chasing
<1>6. CASE m.hp <= damage
  <2>1. Hit(m, c, damage) = [chasing EXCEPT !.hp = 0, !.alive = FALSE, !.deadRequest = TRUE,
                                            !.state = "Die"]
    BY <1>4, <1>6 DEF Dead
  <2>2. 0 \in 0 .. MonsterHp
    BY <1>1
  <2> QED
    BY <1>2, <1>5, <1>6, <2>1, <2>2 DEF SpawnedMonster
<1>7. CASE ~(m.hp <= damage)
  <2>1. Hit(m, c, damage) = [chasing EXCEPT !.hp = m.hp - damage]
    BY <1>4, <1>5, <1>7
  <2>2. m.hp - damage \in 0 .. MonsterHp
    BY <1>1, <1>7
  <2> QED
    BY <1>2, <1>3, <1>5, <1>7, <2>1, <2>2 DEF SpawnedMonster
<1> QED
  BY <1>6, <1>7

\* A monster that forgets whom it hunts.
LEMMA LostFacts ==
  ASSUME NEW m \in SpawnedMonster, NEW k, NEW here, NEW login
  PROVE  Lost(m) \in SpawnedMonster /\ Aim(k, Lost(m), here, login) /\ Lost(m).alive = m.alive
<1>1. Lost(m) = [m EXCEPT !.target = Null, !.targetId = Null, !.state = "Patrol"]
  BY DEF Lost
<1>2. /\ Lost(m) \in SpawnedMonster /\ Lost(m).target = Null /\ Lost(m).targetId = Null
      /\ Lost(m).state = "Patrol" /\ Lost(m).alive = m.alive
  BY <1>1 DEF SpawnedMonster
<1> QED
  BY <1>2 DEF Aim

\* A monster that someone leaves.
LEMMA ClearTargetFacts ==
  ASSUME NEW m \in SpawnedMonster, NEW k, NEW here, NEW login, Aim(k, m, here, login),
         NEW c \in Character
  PROVE  /\ ClearTarget(m, c) \in SpawnedMonster /\ ClearTarget(m, c).alive = m.alive
         /\ Aim(k, ClearTarget(m, c), here \ {c}, login)
<1>1. CASE m.targetId # c
  <2>1. ClearTarget(m, c) = m
    BY <1>1 DEF ClearTarget
  <2> QED
    BY <1>1, <2>1 DEF Aim
<1>2. CASE m.targetId = c
  <2> DEFINE r == ClearTarget(m, c)
             state == IF m.alive THEN "Patrol" ELSE m.state
  <2>1. r = [m EXCEPT !.target = Null, !.targetId = Null, !.state = state]
    BY <1>2 DEF ClearTarget
  <2>2. state \in {"Idle", "Patrol", "Chase", "RangeAttack", "Die"}
    BY DEF SpawnedMonster
  <2>3. m.alive => state = "Patrol"
    OBVIOUS
  <2> HIDE DEF state
  <2>4. /\ r \in SpawnedMonster /\ r.target = Null /\ r.targetId = Null
        /\ r.state = state /\ r.alive = m.alive
    BY <2>1, <2>2 DEF SpawnedMonster
  <2> HIDE DEF r
  <2>5. Aim(k, r, here \ {c}, login)
    BY <2>3, <2>4 DEF Aim
  <2> QED
    BY <2>4, <2>5 DEF r
<1> QED
  BY <1>1, <1>2

\* A monster that is spawned again, or not yet.
LEMMA ResetFacts ==
  ASSUME NEW m \in SpawnedMonster, NEW k, NEW here, NEW login, Aim(k, m, here, login)
  PROVE  /\ Reset(m) \in SpawnedMonster /\ Aim(k, Reset(m), here, login)
         /\ m.alive => Reset(m).alive
<1>1. CASE Reset(m) = m
  BY <1>1
<1>2. CASE Reset(m) # m
  <2>1. Reset(m) = NewMonster
    BY <1>2 DEF Reset
  <2>2. NewMonster \in SpawnedMonster
    <3>1. MonsterHp \in 0 .. MonsterHp
      BY CombatAssumption
    <3> QED
      BY <3>1 DEF NewMonster, SpawnedMonster
  <2>3. Aim(k, NewMonster, here, login) /\ NewMonster.alive
    BY DEF Aim, NewMonster
  <2> QED
    BY <2>1, <2>2, <2>3
<1> QED
  BY <1>1, <1>2

\* What the hunt does to a monster that lives.
LEMMA UpdateChaseFacts ==
  ASSUME NEW m \in SpawnedMonster, NEW k, NEW here, NEW login, Aim(k, m, here, login),
         NEW luck, k \in Boss \/ m.state \in {"Chase", "RangeAttack"}
  PROVE  /\ UpdateChase(k, m, luck) \in SpawnedMonster
         /\ UpdateChase(k, m, luck).alive = m.alive
         /\ Aim(k, UpdateChase(k, m, luck), here, login)
<1> DEFINE r == UpdateChase(k, m, luck)
<1>1. r = Lost(m) \/ r = m \/ (Valid(m) /\ r = [m EXCEPT !.state = "RangeAttack"])
  BY DEF UpdateChase, Shoots
<1>2. CASE r = Lost(m)
  BY <1>2, LostFacts
<1>3. CASE r = m
  BY <1>3
<1>4. CASE Valid(m) /\ r = [m EXCEPT !.state = "RangeAttack"]
  <2>1. m.target # Null
    BY <1>4 DEF Valid
  <2>2. /\ r \in SpawnedMonster /\ r.target = m.target /\ r.targetId = m.targetId
        /\ r.alive = m.alive /\ r.state = "RangeAttack"
    BY <1>4 DEF SpawnedMonster
  <2> HIDE DEF r
  <2>3. Aim(k, r, here, login)
    BY <2>1, <2>2 DEF Aim
  <2> QED
    BY <2>2, <2>3 DEF r
<1> QED
  BY <1>1, <1>2, <1>3, <1>4

\* What an update does to a monster.
LEMMA UpdatedFacts ==
  ASSUME NEW m \in SpawnedMonster, NEW k, NEW here, NEW login, Aim(k, m, here, login), NEW luck
  PROVE  /\ Updated(k, m, luck) \in SpawnedMonster /\ Updated(k, m, luck).alive = m.alive
         /\ Aim(k, Updated(k, m, luck), here, login)
<1> DEFINE r == Updated(k, m, luck)
<1>1. CASE ~m.alive
  BY <1>1 DEF Updated
<1>2. CASE m.alive /\ k \notin Boss
  <2>1. CASE m.state \in {"Chase", "RangeAttack"}
    <3>1. r = UpdateChase(k, m, luck)
      BY <1>2, <2>1 DEF Updated
    <3> QED
      BY <2>1, <3>1, UpdateChaseFacts
  <2>2. CASE m.state \notin {"Chase", "RangeAttack"}
    BY <1>2, <2>2 DEF Updated
  <2> QED
    BY <2>1, <2>2
<1>3. CASE m.alive /\ k \in Boss
  <2>1. r = UpdateBoss(k, m, luck)
    BY <1>3 DEF Updated
  <2>2. CASE r = UpdateChase(k, m, luck)
    BY <1>3, <2>2, UpdateChaseFacts
  <2>3. CASE r # UpdateChase(k, m, luck)
    <3>1. \/ r = [m EXCEPT !.phase = "Idle", !.state = "Idle"]
          \/ r = [m EXCEPT !.phase = "Chase", !.state = "Chase"]
          \/ r = [m EXCEPT !.phase = "Telegraph", !.state = "RangeAttack"]
          \/ r = [m EXCEPT !.phase = "Recovery"]
          \/ r = m
      <4> HIDE DEF r
      <4> QED
        BY <2>1, <2>3 DEF UpdateBoss
    <3> HIDE DEF r
    <3>2. /\ r \in SpawnedMonster /\ r.target = m.target /\ r.targetId = m.targetId
          /\ r.alive = m.alive
      BY <3>1 DEF SpawnedMonster
    <3>3. Aim(k, r, here, login)
      BY <1>3, <3>2 DEF Aim
    <3> QED
      BY <3>2, <3>3 DEF r
  <2> QED
    BY <2>2, <2>3
<1> QED
  BY <1>1, <1>2, <1>3

\* An attack of c hits some monsters and kills some of these.
Attacked(c, hit, killed) ==
  /\ hit \in SUBSET Monster /\ killed \in SUBSET hit /\ IsFiniteSet(killed)
  /\ monster' \in [Monster -> SpawnedMonster]
  /\ \A k \in hit :
       /\ monster[k].alive /\ (monster'[k].alive <=> k \notin killed)
       /\ monster'[k].target = Pointer(c) /\ monster'[k].targetId = c
       /\ monster'[k].alive => monster'[k].state \in {"Chase", "RangeAttack"}
  /\ \A k \in Monster \ hit : monster'[k] = monster[k]
  /\ player' \in [Character -> Player \cup {Null}]
  /\ \A d \in Character \ {c} : player'[d] = player[d]
  /\ player[c] \in Player /\ player'[c] \in Player
  /\ player'[c].here = player[c].here /\ ~player[c].dead /\ ~player'[c].dead
  /\ Earned(player'[c]) = Earned(player[c]) + Reward(killed)
  /\ Fits(player[c]) => Fits(player'[c])
  /\ Pointed(player[c]) => Pointed(player'[c])
  /\ SpawnDropItem(c, Cardinality(killed))
  /\ saved' = saved /\ logins' = logins /\ shots' = shots /\ loot' = loot

\* What an attack does to the monsters, the attacker and the drops.
LEMMA AttackFacts ==
  ASSUME TypeOK, NEW c \in Here, NEW s \in Skill, CanUseSkill(c, s), ResolveSkillHit(c, s)
  PROVE  \E hit, killed : Attacked(c, hit, killed)
<1>1. c \in Character /\ player[c] \in Player /\ logins[c] \in Nat
      /\ ~player[c].dead /\ player[c].mp >= Cost[s] /\ Cost[s] \in Nat
  BY CombatAssumption DEF TypeOK, Here, CanUseSkill, Alive
<1>0. PICK hit \in ComputeHitMonsters : \E damage \in [hit -> Damage] :
        LET killed == {k \in hit : monster[k].hp <= damage[k]} IN
        /\ monster' = [k \in Monster |-> IF k \in hit THEN Hit(monster[k], c, damage[k])
                                         ELSE monster[k]]
        /\ player' = [player EXCEPT ![c] = Rewarded(UseSkill(player[c], s), killed)]
        /\ SpawnDropItem(c, Cardinality(killed))
  BY DEF ResolveSkillHit
<1>2. PICK damage \in [hit -> Damage] :
        LET killed == {k \in hit : monster[k].hp <= damage[k]} IN
        /\ monster' = [k \in Monster |-> IF k \in hit THEN Hit(monster[k], c, damage[k])
                                         ELSE monster[k]]
        /\ player' = [player EXCEPT ![c] = Rewarded(UseSkill(player[c], s), killed)]
        /\ SpawnDropItem(c, Cardinality(killed))
  BY <1>0
<1> DEFINE killed == {k \in hit : monster[k].hp <= damage[k]}
           p == UseSkill(player[c], s)
           q == Rewarded(p, killed)
<1>3. hit \in SUBSET Monster /\ (\A k \in hit : monster[k].alive)
      /\ killed \in SUBSET hit /\ killed \in SUBSET Monster
  BY DEF ComputeHitMonsters
<1>4. IsFiniteSet(killed)
  BY <1>3, CombatAssumption, FS_Subset
<1>5. ASSUME NEW k \in hit
      PROVE  /\ monster'[k] \in SpawnedMonster
             /\ monster'[k].alive <=> k \notin killed
             /\ monster'[k].target = Pointer(c) /\ monster'[k].targetId = c
             /\ monster'[k].alive => monster'[k].state \in {"Chase", "RangeAttack"}
  <2>1. k \in Monster /\ monster[k] \in SpawnedMonster /\ monster[k].alive /\ damage[k] \in Damage
    BY <1>3 DEF TypeOK
  <2>2. monster'[k] = Hit(monster[k], c, damage[k])
    BY <1>2, <2>1
  <2>3. k \notin killed <=> ~(monster[k].hp <= damage[k])
    OBVIOUS
  <2> HIDE DEF killed
  <2> QED
    BY <1>1, <2>1, <2>2, <2>3, HitFacts
<1>6. \A k \in Monster \ hit : monster'[k] = monster[k] /\ monster[k] \in SpawnedMonster
  BY <1>2 DEF TypeOK
<1>7. monster' \in [Monster -> SpawnedMonster]
  <2>1. \A k \in Monster : monster'[k] \in SpawnedMonster
    BY <1>5, <1>6
  <2>2. monster' = [k \in Monster |-> monster'[k]]
    BY <1>2
  <2> QED
    BY <2>1, <2>2
<1>8. /\ p \in Player /\ p.dead = player[c].dead /\ p.here = player[c].here
      /\ p.level = player[c].level /\ p.exp = player[c].exp
      /\ p.ap = player[c].ap /\ p.spent = player[c].spent
  <2>1. p = [player[c] EXCEPT !.mp = player[c].mp - Cost[s]]
    BY DEF UseSkill
  <2>2. player[c].mp \in 0 .. MaxMp /\ MaxMp \in Nat
    BY <1>1, CombatAssumption DEF Player
  <2>3. player[c].mp - Cost[s] \in 0 .. MaxMp
    BY <1>1, <2>2
  <2> QED
    BY <1>1, <2>1, <2>3 DEF Player
<1>9. player' = [player EXCEPT ![c] = q]
  BY <1>2
<1> HIDE DEF p, killed
<1>10. /\ q \in Player /\ q.dead = p.dead /\ q.here = p.here
       /\ Earned(q) = Earned(p) + Reward(killed)
       /\ (Fits(p) => Fits(q)) /\ (Pointed(p) => Pointed(q))
  BY <1>3, <1>8, RewardedFacts
<1> HIDE DEF q
<1>11. Earned(p) = Earned(player[c]) /\ (Fits(p) <=> Fits(player[c]))
       /\ (Pointed(p) <=> Pointed(player[c]))
  BY <1>8 DEF Earned, Fits, Pointed
<1>12. player' \in [Character -> Player \cup {Null}] /\ player'[c] = q
       /\ \A d \in Character \ {c} : player'[d] = player[d]
  BY <1>1, <1>9, <1>10 DEF TypeOK
<1>13. SpawnDropItem(c, Cardinality(killed))
       /\ saved' = saved /\ logins' = logins /\ shots' = shots /\ loot' = loot
  BY <1>2 DEF ResolveSkillHit, killed
<1>14. Attacked(c, hit, killed)
  BY <1>1, <1>3, <1>4, <1>5, <1>6, <1>7, <1>8, <1>10, <1>11, <1>12, <1>13 DEF Attacked
<1> QED
  BY <1>14

\* The product of two natural numbers.
LEMMA Product == \A a, b \in Nat : a * b \in Nat
OBVIOUS

\* What the map thread does to the monsters and the players.
LEMMA UpdateFacts ==
  ASSUME TypeOK, \A k \in Monster : Aim(k, monster[k], Here, logins), Update
  PROVE  /\ monster' \in [Monster -> SpawnedMonster]
         /\ \A k \in Monster : /\ Aim(k, monster'[k], Here, logins)
                               /\ monster[k].alive => monster'[k].alive
         /\ shots' \in 0 .. MaxShots
         /\ player' = [c \in Character |-> player'[c]]
         /\ \A c \in Character :
              \/ player'[c] = player[c]
              \/ player[c] # Null /\ \E n \in Nat : player'[c] = OnDamaged(player[c], n)
         /\ saved' = saved /\ logins' = logins /\ drops' = drops /\ nextDrop' = nextDrop
         /\ loot' = loot
<1> DEFINE spawned == [k \in Monster |-> Reset(monster[k])]
           hunting == {k \in Monster : spawned[k].alive /\ Valid(spawned[k])}
           living == Cardinality({k \in Monster : spawned[k].alive})
           Moved(luck) == [k \in Monster |-> IF k \in hunting THEN Updated(k, spawned[k], luck[k])
                                             ELSE Updated(k, spawned[k], "waits")]
           Shooters(luck) == {k \in hunting \ Boss : Shoots(k, spawned[k], luck[k])}
           Strikes(luck) ==
             \E k \in Boss : spawned[k].phase = "Telegraph" /\ Moved(luck)[k].phase = "Recovery"
           Targets == {c \in Here : Alive(player[c])}
<1>1. PICK luck \in [hunting -> Luck] :
        /\ monster' = Moved(luck)
        /\ \E flying \in Flying(shots + Cardinality(Shooters(luck))) :
             /\ shots' = flying
             /\ \E hurt \in [Targets -> Hurts(Strikes(luck), flying, living)] :
                  player' = [c \in Character |->
                    IF c \in DOMAIN hurt THEN OnDamaged(player[c], hurt[c]) ELSE player[c]]
  BY Zenon DEF Update
<1>2. ASSUME NEW k \in Monster
      PROVE  /\ spawned[k] \in SpawnedMonster /\ Aim(k, spawned[k], Here, logins)
             /\ monster[k].alive => spawned[k].alive
  BY ResetFacts DEF TypeOK
<1>3. \A k \in Monster : monster'[k] = Updated(k, spawned[k], luck[k])
                         \/ monster'[k] = Updated(k, spawned[k], "waits")
  <2> HIDE DEF spawned, hunting
  <2> QED
    BY <1>1
<1>4. monster' = [k \in Monster |-> monster'[k]]
  <2> HIDE DEF spawned, hunting
  <2> QED
    BY <1>1
<1>5. PICK flying \in Flying(shots + Cardinality(Shooters(luck))) :
        /\ shots' = flying
        /\ \E hurt \in [Targets -> Hurts(Strikes(luck), flying, living)] :
             player' = [c \in Character |->
               IF c \in DOMAIN hurt THEN OnDamaged(player[c], hurt[c]) ELSE player[c]]
  BY <1>1
<1>6. PICK hurt \in [Targets -> Hurts(Strikes(luck), flying, living)] :
        player' = [c \in Character |->
          IF c \in DOMAIN hurt THEN OnDamaged(player[c], hurt[c]) ELSE player[c]]
  BY <1>5
<1>7. Cardinality(Shooters(luck)) \in Nat /\ living \in Nat
  <2>1. Shooters(luck) \in SUBSET Monster /\ {k \in Monster : spawned[k].alive} \in SUBSET Monster
    OBVIOUS
  <2>2. IsFiniteSet(Shooters(luck)) /\ IsFiniteSet({k \in Monster : spawned[k].alive})
    <3> HIDE DEF spawned, Shooters
    <3> QED
      BY <2>1, CombatAssumption, FS_Subset
  <2> HIDE DEF spawned, Shooters
  <2> QED
    BY <2>2, FS_CardinalityType
<1> HIDE DEF spawned, hunting, living, Moved, Shooters, Strikes
<1>8. ASSUME NEW k \in Monster
      PROVE  /\ monster'[k] \in SpawnedMonster /\ Aim(k, monster'[k], Here, logins)
             /\ monster[k].alive => monster'[k].alive
  BY <1>2, <1>3, UpdatedFacts
<1>9. monster' \in [Monster -> SpawnedMonster]
  BY <1>4, <1>8
<1>10. flying \in 0 .. MaxShots /\ flying \in Nat
  <2> DEFINE n == shots + Cardinality(Shooters(luck))
  <2>1. n \in Nat /\ MaxShots \in Nat
    BY <1>7, CombatAssumption DEF TypeOK
  <2>2. flying \in 0 .. Min({MaxShots, n})
    BY <1>5 DEF Flying
  <2> HIDE DEF n
  <2>3. Min({MaxShots, n}) \in Nat /\ Min({MaxShots, n}) <= MaxShots
    BY <2>1, MinFacts
  <2> QED
    BY <2>1, <2>2, <2>3
<1>11. Hurts(Strikes(luck), flying, living) \subseteq Nat
  <2>1. AreaDamage \in Nat /\ TouchDamage \in Nat
    BY CombatAssumption
  <2>2. \A m \in Nat : \A n \in 1 .. m : n * TouchDamage \in Nat
    BY <2>1, Product
  <2>3. Shot(flying) \subseteq Nat /\ Touched(living) \subseteq Nat
    BY <1>7, <1>10, <2>2 DEF Shot, Touched
  <2>4. Struck(Strikes(luck)) \subseteq Nat
    BY <2>1 DEF Struck
  <2> QED
    BY <2>3, <2>4 DEF Hurts
<1>12. ASSUME NEW c \in Character
       PROVE  \/ player'[c] = player[c]
              \/ player[c] # Null /\ \E n \in Nat : player'[c] = OnDamaged(player[c], n)
  <2>1. CASE c \in DOMAIN hurt
    <3>1. c \in Targets /\ hurt[c] \in Nat
      BY <1>6, <1>11, <2>1
    <3>2. player[c] # Null
      BY <3>1 DEF Here
    <3>3. player'[c] = OnDamaged(player[c], hurt[c])
      BY <1>6, <2>1
    <3> QED
      BY <3>1, <3>2, <3>3
  <2>2. CASE c \notin DOMAIN hurt
    BY <1>6, <2>2
  <2> QED
    BY <2>1, <2>2
<1>13. player' = [c \in Character |-> player'[c]]
  BY <1>6
<1>14. saved' = saved /\ logins' = logins /\ drops' = drops /\ nextDrop' = nextDrop /\ loot' = loot
  BY DEF Update
<1> QED
  BY <1>5, <1>8, <1>9, <1>10, <1>12, <1>13, <1>14
-------------------------------------------------------------------------------
(* The types.                                                                *)

\* A step in which a player leaves the map.
LEMMA LeaveFacts ==
  ASSUME TypeOK, \A k \in Monster : Aim(k, monster[k], Here, logins),
         NEW c \in Character, OnLeave(c)
  PROVE  /\ monster' \in [Monster -> SpawnedMonster]
         /\ \A k \in Monster : /\ monster'[k].alive = monster[k].alive
                               /\ Aim(k, monster'[k], Here \ {c}, logins)
<1>1. monster' = [k \in Monster |-> IF c \in Here THEN ClearTarget(monster[k], c)
                                    ELSE monster[k]]
  BY DEF OnLeave
<1>2. ASSUME NEW k \in Monster
      PROVE  /\ monster'[k] \in SpawnedMonster /\ monster'[k].alive = monster[k].alive
             /\ Aim(k, monster'[k], Here \ {c}, logins)
  <2>1. monster[k] \in SpawnedMonster /\ Aim(k, monster[k], Here, logins)
    BY DEF TypeOK
  <2>2. CASE c \in Here
    <3>1. monster'[k] = ClearTarget(monster[k], c)
      BY <1>1, <2>2
    <3> QED
      BY <2>1, <3>1, ClearTargetFacts
  <2>3. CASE c \notin Here
    <3>1. monster'[k] = monster[k] /\ Here \ {c} = Here
      BY <1>1, <2>3
    <3> QED
      BY <2>1, <3>1
  <2> QED
    BY <2>2, <2>3
<1> QED
  BY <1>1, <1>2

\* The Player of a session, and what it leaves behind.
LEMMA SessionFacts ==
  /\ \A s \in Stat : Loaded(s) \in Player
  /\ \A p \in Player : Stored(p) \in Stat
BY DEF Stat, Player, Loaded, Stored

\* Of a player and one that differs in hit points, place and life.
LEMMA PlayerSteps ==
  ASSUME NEW p \in Player
  PROVE  /\ [p EXCEPT !.here = TRUE] \in Player /\ [p EXCEPT !.here = FALSE] \in Player
         /\ [p EXCEPT !.dead = FALSE, !.hp = MaxHp] \in Player
         /\ \A hp \in {p.hp, MaxHp}, mp \in {p.mp, MaxMp} :
              [p EXCEPT !.hp = hp, !.mp = mp] \in Player
         /\ p.ap > 0 => Up(p) \in Player
<1>1. MaxHp \in 0 .. MaxHp /\ MaxMp \in 0 .. MaxMp
  BY CombatAssumption
<1>2. p.ap > 0 => p.ap - 1 \in Nat /\ p.spent + 1 \in Nat
  BY DEF Player
<1>3. p.ap > 0 => Up(p) \in Player
  BY <1>2 DEF Player, Up
<1>4. /\ [p EXCEPT !.here = TRUE] \in Player /\ [p EXCEPT !.here = FALSE] \in Player
      /\ [p EXCEPT !.dead = FALSE, !.hp = MaxHp] \in Player
  BY <1>1 DEF Player
<1>5. ASSUME NEW hp \in {p.hp, MaxHp}, NEW mp \in {p.mp, MaxMp}
      PROVE  [p EXCEPT !.hp = hp, !.mp = mp] \in Player
  <2>1. hp \in 0 .. MaxHp /\ mp \in 0 .. MaxMp
    BY <1>1 DEF Player
  <2> QED
    BY <2>1 DEF Player
<1> QED
  BY <1>3, <1>4, <1>5

\* The types hold at the start.
LEMMA TypeInit == Init => TypeInv
<1> SUFFICES ASSUME Init PROVE TypeInv
  OBVIOUS
<1>1. /\ MaxHp \in 0 .. MaxHp /\ MaxMp \in 0 .. MaxMp /\ MonsterHp \in 0 .. MonsterHp
      /\ 1 \in 1 .. LastLevel /\ 0 \in 0 .. MaxShots
  BY CombatAssumption, Table
<1>2. saved \in [Character -> Stat]
  <2>1. NewStat \in Stat
    BY <1>1 DEF NewStat, Stat
  <2>2. \A c \in Character : FirstExp[c] \in Nat
    BY CombatAssumption
  <2>3. \A c \in Character : [NewStat EXCEPT !.exp = FirstExp[c]] \in Stat
    BY <2>1, <2>2 DEF Stat
  <2> QED
    BY <2>3 DEF Init
<1>3. monster \in [Monster -> SpawnedMonster]
  <2>1. NewMonster \in SpawnedMonster
    BY <1>1 DEF NewMonster, SpawnedMonster
  <2>2. \A k \in Monster : [NewMonster EXCEPT !.state = IF k \in Boss THEN "Idle" ELSE "Patrol"]
                             \in SpawnedMonster
    BY <2>1 DEF SpawnedMonster
  <2> QED
    BY <2>2 DEF Init
<1>4. player \in [Character -> Player \cup {Null}] /\ logins \in [Character -> Nat]
      /\ drops = {} /\ nextDrop = 1 /\ loot = 0 /\ shots = 0
  BY DEF Init
<1>5. TypeOK
  BY <1>1, <1>2, <1>3, <1>4 DEF TypeOK
<1>6. SavedInv
  BY <1>2 DEF SavedInv
<1> QED
  BY <1>5, <1>6 DEF TypeInv

\* Of a step that changes one player, and neither what is stored nor the logins.
LEMMA PlayerChanged ==
  ASSUME TypeInv, NEW c \in Character, player[c] # Null, NEW q \in Player,
         player' = [player EXCEPT ![c] = q], saved' = saved
  PROVE  player' \in [Character -> Player \cup {Null}] /\ SavedInv' /\ player'[c] = q
         /\ \A d \in Character \ {c} : player'[d] = player[d]
<1>1. player' \in [Character -> Player \cup {Null}] /\ player'[c] = q /\ q # Null
      /\ \A d \in Character \ {c} : player'[d] = player[d]
  BY CombatAssumption DEF TypeInv, TypeOK
<1>2. SavedInv'
  BY <1>1 DEF TypeInv, SavedInv
<1> QED
  BY <1>1, <1>2

\* Every step preserves the types.
LEMMA TypeStep ==
  ASSUME TypeInv, TargetsArePresent, [Next]_vars
  PROVE  TypeInv'
<1> USE DEF TypeInv
<1>0. TypeOK /\ SavedInv /\ \A k \in Monster : Aim(k, monster[k], Here, logins)
  BY AimIs
<1>1. ASSUME NEW c \in Character, Login(c) PROVE TypeInv'
  <2>1. saved[c] \in Stat /\ player[c] = Null
    BY <1>1 DEF Login, SavedInv
  <2>2. Loaded(saved[c]) \in Player /\ Loaded(saved[c]) # Null
    BY <2>1, SessionFacts, CombatAssumption
  <2>3. player' \in [Character -> Player \cup {Null}] /\ saved' \in [Character -> Stat \cup {Null}]
        /\ logins' \in [Character -> Nat]
    BY <1>1, <2>2 DEF Login, TypeOK
  <2>4. SavedInv'
    BY <1>1, <2>2 DEF Login, TypeOK, SavedInv
  <2> QED
    BY <1>1, <2>3, <2>4 DEF Login, TypeOK
<1>2. ASSUME NEW c \in Character, OnEnter(c) PROVE TypeInv'
  <2>1. player[c] \in Player /\ player[c] # Null
    BY <1>2 DEF OnEnter, TypeOK
  <2>2. player' = [player EXCEPT ![c] = [player[c] EXCEPT !.here = TRUE]] /\ saved' = saved
    BY <1>2 DEF OnEnter
  <2>3. [player[c] EXCEPT !.here = TRUE] \in Player
    BY <2>1, PlayerSteps
  <2>4. player' \in [Character -> Player \cup {Null}] /\ SavedInv'
    BY <2>1, <2>2, <2>3, PlayerChanged
  <2> QED
    BY <1>2, <2>4 DEF OnEnter, TypeOK
<1>3. ASSUME NEW c \in Character, Portal(c) PROVE TypeInv'
  <2>1. player[c] \in Player /\ player[c] # Null
    BY <1>3 DEF Portal, Here, TypeOK
  <2>2. player' = [player EXCEPT ![c] = [player[c] EXCEPT !.here = FALSE]] /\ saved' = saved
    BY <1>3 DEF Portal
  <2>3. [player[c] EXCEPT !.here = FALSE] \in Player
    BY <2>1, PlayerSteps
  <2>4. player' \in [Character -> Player \cup {Null}] /\ SavedInv'
    BY <2>1, <2>2, <2>3, PlayerChanged
  <2>5. monster' \in [Monster -> SpawnedMonster]
    BY <1>0, <1>3, LeaveFacts DEF Portal
  <2> QED
    BY <1>3, <2>4, <2>5 DEF Portal, TypeOK
<1>4. ASSUME NEW c \in Character, FinalizePlayer(c) PROVE TypeInv'
  <2>1. player[c] \in Player
    BY <1>4 DEF FinalizePlayer, TypeOK
  <2>2. Stored(player[c]) \in Stat
    BY <2>1, SessionFacts
  <2>3. player' \in [Character -> Player \cup {Null}] /\ saved' \in [Character -> Stat \cup {Null}]
    BY <1>4, <2>2 DEF FinalizePlayer, TypeOK
  <2>4. SavedInv'
    BY <1>4, <2>2 DEF FinalizePlayer, TypeOK, SavedInv
  <2>5. monster' \in [Monster -> SpawnedMonster]
    BY <1>0, <1>4, LeaveFacts DEF FinalizePlayer
  <2> QED
    BY <1>4, <2>3, <2>4, <2>5 DEF FinalizePlayer, TypeOK
<1>5. ASSUME NEW c \in Character, RevivePlayer(c) PROVE TypeInv'
  <2>1. player[c] \in Player /\ player[c] # Null
    BY <1>5 DEF RevivePlayer, Here, TypeOK
  <2>2. player' = [player EXCEPT ![c] = [player[c] EXCEPT !.dead = FALSE, !.hp = MaxHp]]
        /\ saved' = saved
    BY <1>5, <2>1 DEF RevivePlayer, TypeOK
  <2>3. [player[c] EXCEPT !.dead = FALSE, !.hp = MaxHp] \in Player
    BY <2>1, PlayerSteps
  <2>4. player' \in [Character -> Player \cup {Null}] /\ SavedInv'
    BY <2>1, <2>2, <2>3, PlayerChanged
  <2> QED
    BY <1>5, <2>4 DEF RevivePlayer, TypeOK
<1>6. ASSUME NEW c \in Here, NEW s \in Skill, CanUseSkill(c, s), ResolveSkillHit(c, s)
      PROVE  TypeInv'
  <2>1. PICK hit, killed : Attacked(c, hit, killed)
    BY <1>0, <1>6, AttackFacts
  <2>2. /\ monster' \in [Monster -> SpawnedMonster]
        /\ player' \in [Character -> Player \cup {Null}]
        /\ \A d \in Character \ {c} : player'[d] = player[d]
        /\ player'[c] \in Player
        /\ IsFiniteSet(killed) /\ SpawnDropItem(c, Cardinality(killed))
        /\ saved' = saved /\ logins' = logins /\ shots' = shots /\ loot' = loot
    BY <2>1 DEF Attacked
  <2>3. SavedInv'
    BY <1>0, <2>2, CombatAssumption DEF SavedInv
  <2>4. drops' \subseteq [id : Nat, owner : Pointers] /\ nextDrop' \in Nat
    <3>1. Cardinality(killed) \in Nat /\ nextDrop \in Nat
      BY <1>0, <2>2, FS_CardinalityType DEF TypeOK
    <3>2. Pointer(c) \in Pointers
      BY <1>0 DEF TypeOK, Here, Pointer, Pointers
    <3>3. \A d \in nextDrop .. nextDrop + Cardinality(killed) - 1 : d \in Nat
      BY <3>1
    <3>4. {[id |-> d, owner |-> Pointer(c)] :
             d \in nextDrop .. nextDrop + Cardinality(killed) - 1}
            \subseteq [id : Nat, owner : Pointers]
      BY <3>2, <3>3
    <3>5. nextDrop + Cardinality(killed) \in Nat
      BY <3>1
    <3> QED
      BY <1>0, <2>2, <3>4, <3>5 DEF SpawnDropItem, TypeOK
  <2> QED
    BY <1>0, <2>2, <2>3, <2>4 DEF TypeOK
<1>7. ASSUME NEW c \in Character, NEW s \in Skill, HandleSkillAttack(c, s) PROVE TypeInv'
  BY <1>6, <1>7 DEF HandleSkillAttack
<1>8. ASSUME NEW c \in Character, HandleBasicAttack(c) PROVE TypeInv'
  BY <1>6, <1>8, CombatAssumption DEF HandleBasicAttack
<1>9. ASSUME NEW c \in Character, UseItem(c) PROVE TypeInv'
  <2>1. player[c] \in Player /\ player[c] # Null
    BY <1>9 DEF UseItem, TypeOK
  <2>2. PICK hp \in {player[c].hp, MaxHp}, mp \in {player[c].mp, MaxMp} :
          player' = [player EXCEPT ![c].hp = hp, ![c].mp = mp]
    BY <1>9 DEF UseItem
  <2>3. player' = [player EXCEPT ![c] = [player[c] EXCEPT !.hp = hp, !.mp = mp]]
        /\ saved' = saved
    BY <1>9, <2>1, <2>2 DEF UseItem, TypeOK
  <2>4. [player[c] EXCEPT !.hp = hp, !.mp = mp] \in Player
    BY <2>1, PlayerSteps
  <2>5. player' \in [Character -> Player \cup {Null}] /\ SavedInv'
    BY <2>1, <2>3, <2>4, PlayerChanged
  <2> QED
    BY <1>9, <2>5 DEF UseItem, TypeOK
<1>10. ASSUME NEW c \in Character, UpStat(c) PROVE TypeInv'
  <2>1. player[c] \in Player /\ player[c] # Null /\ player[c].ap > 0
    BY <1>10 DEF UpStat, TypeOK
  <2>2. player' = [player EXCEPT ![c] = Up(player[c])] /\ saved' = saved
    BY <1>10 DEF UpStat
  <2>3. Up(player[c]) \in Player
    BY <2>1, PlayerSteps
  <2>4. player' \in [Character -> Player \cup {Null}] /\ SavedInv'
    BY <2>1, <2>2, <2>3, PlayerChanged
  <2> QED
    BY <1>10, <2>4 DEF UpStat, TypeOK
<1>11. ASSUME NEW c \in Character, NEW d \in drops, PickupDropItem(c, d) PROVE TypeInv'
  BY <1>11 DEF PickupDropItem, TypeOK, SavedInv
<1>12. ASSUME Update PROVE TypeInv'
  <2>1. /\ monster' \in [Monster -> SpawnedMonster] /\ shots' \in 0 .. MaxShots
        /\ player' = [c \in Character |-> player'[c]]
        /\ \A c \in Character :
             \/ player'[c] = player[c]
             \/ player[c] # Null /\ \E n \in Nat : player'[c] = OnDamaged(player[c], n)
        /\ saved' = saved /\ logins' = logins /\ drops' = drops /\ nextDrop' = nextDrop
        /\ loot' = loot
    BY <1>0, <1>12, UpdateFacts
  <2>2. ASSUME NEW c \in Character
        PROVE  player'[c] \in Player \cup {Null} /\ (player'[c] = Null => player[c] = Null)
    <3>1. player[c] \in Player \cup {Null}
      BY DEF TypeOK
    <3>2. ASSUME NEW n \in Nat, player[c] # Null PROVE OnDamaged(player[c], n) \in Player
      BY <3>1, <3>2, OnDamagedFacts
    <3> QED
      BY <2>1, <3>1, <3>2, CombatAssumption
  <2>3. player' \in [Character -> Player \cup {Null}] /\ SavedInv'
    BY <2>1, <2>2 DEF SavedInv
  <2> QED
    BY <2>1, <2>3 DEF TypeOK
<1>13. ASSUME NEW k \in Monster, RespawnDelayEnds(k) PROVE TypeInv'
  <2>1. monster' = [monster EXCEPT ![k] = [monster[k] EXCEPT !.due = TRUE]]
    BY <1>13 DEF RespawnDelayEnds
  <2>2. [monster[k] EXCEPT !.due = TRUE] \in SpawnedMonster
    BY DEF TypeOK, SpawnedMonster
  <2>3. monster' \in [Monster -> SpawnedMonster]
    BY <2>1, <2>2 DEF TypeOK
  <2> QED
    BY <1>13, <2>3 DEF RespawnDelayEnds, TypeOK, SavedInv
<1>14. CASE UNCHANGED vars
  BY <1>14 DEF vars, TypeOK, SavedInv
<1> QED
  BY <1>1, <1>2, <1>3, <1>4, <1>5, <1>7, <1>8, <1>9, <1>10, <1>11, <1>12, <1>13, <1>14 DEF Next
-------------------------------------------------------------------------------
(* Whom the monsters hunt.                                                   *)

\* A monster aims at whom it has aimed at as long as nobody leaves.
LEMMA AimMoves ==
  ASSUME NEW k, NEW m, NEW here, NEW login, Aim(k, m, here, login),
         NEW next, here \subseteq next, NEW after, \A c \in here : after[c] = login[c]
  PROVE  Aim(k, m, next, after)
BY DEF Aim

\* A step that moves no monster and takes nobody away.
LEMMA AimStays ==
  ASSUME TypeInv', \A k \in Monster : Aim(k, monster[k], Here, logins),
         monster' = monster, logins' = logins, Here \subseteq Here'
  PROVE  TargetsArePresent'
<1>1. \A k \in Monster : Aim(k, monster'[k], Here', logins')
  BY AimMoves
<1> QED
  BY <1>1, AimNext DEF TypeInv

\* Who stays in the list: all but at most the one whose Player changes.
LEMMA HereAfter ==
  ASSUME NEW c \in Character, \A d \in Character \ {c} : player'[d] = player[d]
  PROVE  /\ Here \ {c} \subseteq Here'
         /\ player'[c] # Null /\ player'[c].here => Here \subseteq Here'
BY DEF Here

\* Nobody leaves when the Player of one changes into another that is where it was.
LEMMA HereKept ==
  ASSUME TypeOK, NEW c \in Character, player[c] # Null, NEW q \in Player,
         q.here = player[c].here, player' = [player EXCEPT ![c] = q]
  PROVE  Here \subseteq Here'
<1>1. player'[c] = q /\ q # Null /\ \A d \in Character \ {c} : player'[d] = player[d]
  BY CombatAssumption DEF TypeOK
<1> QED
  BY <1>1 DEF Here

\* Every step leaves the monsters with targets that are there.
LEMMA AimStep ==
  ASSUME TypeInv, TypeInv', TargetsArePresent, [Next]_vars
  PROVE  TargetsArePresent'
<1>0. TypeOK /\ TypeOK' /\ SavedInv /\ \A k \in Monster : Aim(k, monster[k], Here, logins)
  BY AimIs DEF TypeInv
<1>1. ASSUME NEW c \in Character, Login(c) PROVE TargetsArePresent'
  <2>1. Here \subseteq Here' /\ \A d \in Here : logins'[d] = logins[d]
    BY <1>0, <1>1 DEF Login, Here, TypeOK
  <2>2. monster' = monster
    BY <1>1 DEF Login
  <2>3. \A k \in Monster : Aim(k, monster'[k], Here', logins')
    BY <1>0, <2>1, <2>2, AimMoves
  <2> QED
    BY <1>0, <2>3, AimNext
<1>2. ASSUME NEW c \in Character, OnEnter(c) PROVE TargetsArePresent'
  <2>1. Here \subseteq Here'
    BY <1>0, <1>2 DEF OnEnter, Here, TypeOK
  <2> QED
    BY <1>0, <1>2, <2>1, AimStays DEF OnEnter
<1>3. ASSUME NEW c \in Character, Portal(c) PROVE TargetsArePresent'
  <2>1. Here \ {c} \subseteq Here' /\ logins' = logins
    BY <1>0, <1>3 DEF Portal, Here, TypeOK
  <2>2. \A k \in Monster : Aim(k, monster'[k], Here \ {c}, logins)
    BY <1>0, <1>3, LeaveFacts DEF Portal
  <2>3. \A k \in Monster : Aim(k, monster'[k], Here', logins')
    BY <2>1, <2>2, AimMoves
  <2> QED
    BY <1>0, <2>3, AimNext
<1>4. ASSUME NEW c \in Character, FinalizePlayer(c) PROVE TargetsArePresent'
  <2>1. Here \ {c} \subseteq Here' /\ logins' = logins
    BY <1>0, <1>4 DEF FinalizePlayer, Here, TypeOK
  <2>2. \A k \in Monster : Aim(k, monster'[k], Here \ {c}, logins)
    BY <1>0, <1>4, LeaveFacts DEF FinalizePlayer
  <2>3. \A k \in Monster : Aim(k, monster'[k], Here', logins')
    BY <2>1, <2>2, AimMoves
  <2> QED
    BY <1>0, <2>3, AimNext
<1>5. ASSUME NEW c \in Character, RevivePlayer(c) PROVE TargetsArePresent'
  <2>1. Here \subseteq Here'
    <3>1. player[c] \in Player /\ player[c] # Null
      BY <1>0, <1>5 DEF RevivePlayer, Here, TypeOK
    <3>2. player' = [player EXCEPT ![c] = [player[c] EXCEPT !.dead = FALSE, !.hp = MaxHp]]
      BY <1>0, <1>5, <3>1 DEF RevivePlayer, TypeOK
    <3>3. [player[c] EXCEPT !.dead = FALSE, !.hp = MaxHp] \in Player
          /\ [player[c] EXCEPT !.dead = FALSE, !.hp = MaxHp].here = player[c].here
      BY <3>1, PlayerSteps DEF Player
    <3> QED
      BY <1>0, <3>1, <3>2, <3>3, HereKept
  <2> QED
    BY <1>0, <1>5, <2>1, AimStays DEF RevivePlayer
<1>6. ASSUME NEW c \in Here, NEW s \in Skill, CanUseSkill(c, s), ResolveSkillHit(c, s)
      PROVE  TargetsArePresent'
  <2>0. PICK hit, killed : Attacked(c, hit, killed)
    BY <1>0, <1>6, AttackFacts
  <2>1. /\ \A k \in hit :
             /\ monster'[k].target = Pointer(c) /\ monster'[k].targetId = c
             /\ monster'[k].alive => monster'[k].state \in {"Chase", "RangeAttack"}
        /\ \A k \in Monster \ hit : monster'[k] = monster[k]
        /\ \A d \in Character \ {c} : player'[d] = player[d]
        /\ player'[c] \in Player /\ player'[c].here = player[c].here
        /\ logins' = logins
    BY <2>0 DEF Attacked
  <2>2. c \in Character /\ player[c].here /\ player'[c] # Null
    BY <2>1, CombatAssumption DEF Here
  <2>3. Here \subseteq Here'
    BY <2>1, <2>2, HereAfter
  <2>4. ASSUME NEW k \in hit PROVE Aim(k, monster'[k], Here', logins')
    <3>1. Pointer(c) # Null /\ c # Null /\ Pointer(c) = <<c, logins[c]>>
      <4>1. logins[c] \in Nat
        BY <1>0, <2>2 DEF TypeOK
      <4> QED
        BY <2>2, <4>1, CombatAssumption DEF Pointer, Pointers
    <3>2. Pointer(c)[1] = c /\ Pointer(c)[2] = logins[c]
      BY <3>1
    <3> QED
      BY <2>1, <2>3, <3>1, <3>2 DEF Aim
  <2>5. ASSUME NEW k \in Monster \ hit PROVE Aim(k, monster'[k], Here', logins')
    BY <1>0, <2>1, <2>3, AimMoves
  <2> QED
    BY <1>0, <2>4, <2>5, AimNext
<1>7. ASSUME NEW c \in Character, NEW s \in Skill, HandleSkillAttack(c, s)
      PROVE  TargetsArePresent'
  BY <1>6, <1>7 DEF HandleSkillAttack
<1>8. ASSUME NEW c \in Character, HandleBasicAttack(c) PROVE TargetsArePresent'
  BY <1>6, <1>8, CombatAssumption DEF HandleBasicAttack
<1>9. ASSUME NEW c \in Character, UseItem(c) PROVE TargetsArePresent'
  <2>1. Here \subseteq Here'
    <3>1. player[c] \in Player /\ player[c] # Null
      BY <1>0, <1>9 DEF UseItem, TypeOK
    <3>2. PICK hp \in {player[c].hp, MaxHp}, mp \in {player[c].mp, MaxMp} :
            player' = [player EXCEPT ![c].hp = hp, ![c].mp = mp]
      BY <1>9 DEF UseItem
    <3> DEFINE q == [player[c] EXCEPT !.hp = hp, !.mp = mp]
    <3>3. player' = [player EXCEPT ![c] = q]
      BY <1>0, <3>1, <3>2 DEF TypeOK
    <3>4. q \in Player /\ q.here = player[c].here
      BY <3>1, PlayerSteps DEF Player
    <3> HIDE DEF q
    <3> QED
      BY <1>0, <3>1, <3>3, <3>4, HereKept
  <2> QED
    BY <1>0, <1>9, <2>1, AimStays DEF UseItem
<1>10. ASSUME NEW c \in Character, UpStat(c) PROVE TargetsArePresent'
  <2>1. Here \subseteq Here'
    <3>1. player[c] \in Player /\ player[c] # Null /\ player[c].ap > 0
      BY <1>0, <1>10 DEF UpStat, TypeOK
    <3>2. player' = [player EXCEPT ![c] = Up(player[c])]
      BY <1>0, <1>10, <3>1 DEF UpStat, TypeOK
    <3>3. Up(player[c]) \in Player
          /\ Up(player[c]).here = player[c].here
      BY <3>1, PlayerSteps DEF Player, Up
    <3> QED
      BY <1>0, <3>1, <3>2, <3>3, HereKept
  <2> QED
    BY <1>0, <1>10, <2>1, AimStays DEF UpStat
<1>11. ASSUME NEW c \in Character, NEW d \in drops, PickupDropItem(c, d)
       PROVE  TargetsArePresent'
  <2>1. Here \subseteq Here'
    BY <1>11 DEF PickupDropItem, Here
  <2> QED
    BY <1>0, <1>11, <2>1, AimStays DEF PickupDropItem
<1>12. ASSUME Update PROVE TargetsArePresent'
  <2>1. /\ \A k \in Monster : Aim(k, monster'[k], Here, logins)
        /\ \A c \in Character :
             \/ player'[c] = player[c]
             \/ player[c] # Null /\ \E n \in Nat : player'[c] = OnDamaged(player[c], n)
        /\ logins' = logins
    BY <1>0, <1>12, UpdateFacts
  <2>2. ASSUME NEW c \in Here PROVE player'[c] # Null /\ player'[c].here
    <3>1. player[c] \in Player /\ player[c].here /\ player[c] # Null /\ c \in Character
      BY <1>0 DEF TypeOK, Here
    <3>2. ASSUME NEW n \in Nat
          PROVE  OnDamaged(player[c], n).here = player[c].here
                 /\ OnDamaged(player[c], n) \in Player
      BY <3>1, OnDamagedFacts
    <3> QED
      BY <2>1, <3>1, <3>2, CombatAssumption
  <2>3. Here \subseteq Here'
    BY <2>2 DEF Here
  <2>4. \A k \in Monster : Aim(k, monster'[k], Here', logins')
    BY <2>1, <2>3, AimMoves
  <2> QED
    BY <1>0, <2>4, AimNext
<1>13. ASSUME NEW k \in Monster, RespawnDelayEnds(k) PROVE TargetsArePresent'
  <2>1. Here' = Here /\ logins' = logins
    BY <1>13 DEF RespawnDelayEnds, Here
  <2>2. ASSUME NEW j \in Monster PROVE Aim(j, monster'[j], Here', logins')
    <3>1. monster[j] \in SpawnedMonster /\ Aim(j, monster[j], Here, logins)
      BY <1>0 DEF TypeOK
    <3>2. monster'[j] = monster[j] \/ monster'[j] = [monster[j] EXCEPT !.due = TRUE]
      BY <1>0, <1>13 DEF RespawnDelayEnds, TypeOK
    <3>3. /\ monster'[j].target = monster[j].target /\ monster'[j].targetId = monster[j].targetId
          /\ monster'[j].alive = monster[j].alive /\ monster'[j].state = monster[j].state
      BY <3>1, <3>2 DEF SpawnedMonster
    <3> QED
      BY <2>1, <3>1, <3>3 DEF Aim
  <2> QED
    BY <1>0, <2>2, AimNext
<1>14. CASE UNCHANGED vars
  <2>1. Here' = Here
    BY <1>14 DEF vars, Here
  <2> QED
    BY <1>0, <1>14, <2>1, AimStays DEF vars
<1> QED
  BY <1>1, <1>2, <1>3, <1>4, <1>5, <1>7, <1>8, <1>9, <1>10, <1>11, <1>12, <1>13, <1>14 DEF Next

\* No monster hunts anyone at the start.
LEMMA AimInit == Init => TargetsArePresent
<1> SUFFICES ASSUME Init PROVE TargetsArePresent
  OBVIOUS
<1>1. TypeOK
  BY TypeInit DEF TypeInv
<1>2. ASSUME NEW k \in Monster PROVE Aim(k, monster[k], Here, logins)
  <2> DEFINE state == IF k \in Boss THEN "Idle" ELSE "Patrol"
  <2>1. monster[k] = [NewMonster EXCEPT !.state = state]
    BY DEF Init
  <2>2. state \in {"Idle", "Patrol"}
    OBVIOUS
  <2> HIDE DEF state
  <2>3. monster[k].target = Null /\ monster[k].targetId = Null /\ monster[k].state = state
    BY <2>1 DEF NewMonster
  <2> QED
    BY <2>2, <2>3 DEF Aim
<1> QED
  BY <1>1, <1>2, AimIs
-------------------------------------------------------------------------------
(* The drops.                                                                *)

\* New drops.
Fresh(next, n, owner) == {[id |-> d, owner |-> owner] : d \in next .. next + n - 1}

\* New drops are as many as there are numbers for them, and none of them is an old one.
LEMMA SpawnFacts ==
  ASSUME NEW old, IsFiniteSet(old), NEW next \in Nat,
         \A d \in old : d.id \in Nat /\ d.id < next,
         NEW n \in Nat, NEW owner
  PROVE  LET new == Fresh(next, n, owner) IN
         /\ IsFiniteSet(old \cup new)
         /\ Cardinality(old \cup new) = Cardinality(old) + n
         /\ \A d \in old \cup new : d.id \in Nat /\ d.id < next + n
<1> DEFINE I == next .. next + n - 1
           new == {[id |-> d, owner |-> owner] : d \in I}
           f == [d \in I |-> [id |-> d, owner |-> owner]]
<1>1. IsFiniteSet(I) /\ Cardinality(I) = n
  <2>1. next + n - 1 \in Int /\ (next > next + n - 1 => n = 0)
        /\ (next + n - 1) - next + 1 = n
    OBVIOUS
  <2> QED
    BY <2>1, FS_Interval
<1>2. f \in Bijection(I, new)
  <2>1. f \in [I -> new] /\ \A t \in new : \E d \in I : f[d] = t
    OBVIOUS
  <2>2. \A d, e \in DOMAIN f : f[d] = f[e] => d = e
    <3>1. \A d \in I : f[d].id = d
      OBVIOUS
    <3> HIDE DEF I
    <3> QED
      BY <3>1
  <2> HIDE DEF f, new, I
  <2> QED
    BY <2>1, <2>2 DEF Bijection, Injection, Surjection, IsInjective
<1>3. IsFiniteSet(new) /\ Cardinality(new) = n
  <2>1. ExistsBijection(I, new)
    BY <1>2 DEF ExistsBijection
  <2> HIDE DEF I, new
  <2> QED
    BY <1>1, <2>1, FS_Bijection
<1>4. \A d \in I : d \in Nat /\ d >= next /\ d < next + n
  OBVIOUS
<1>5. \A d \in new : d.id \in Nat /\ d.id >= next /\ d.id < next + n
  <2> HIDE DEF I
  <2> QED
    BY <1>4
<1> HIDE DEF I, new
<1>6. old \cap new = {}
  <2>1. \A d \in old : ~(d.id >= next /\ d.id \in Nat /\ d.id < next)
    OBVIOUS
  <2> QED
    BY <1>5, <2>1
<1>7. IsFiniteSet(old \cup new)
      /\ Cardinality(old \cup new) = Cardinality(old) + Cardinality(new) - Cardinality(old \cap new)
  BY <1>3, FS_Union
<1>8. Cardinality(old \cap new) = 0 /\ Cardinality(old) \in Nat
  BY <1>6, FS_EmptySet, FS_CardinalityType
<1>9. Cardinality(old \cup new) = Cardinality(old) + n
  BY <1>3, <1>7, <1>8
<1>10. \A d \in old \cup new : d.id \in Nat /\ d.id < next + n
  BY <1>5
<1> QED
  BY <1>7, <1>9, <1>10 DEF new, I, Fresh

\* Every step leaves the drops accounted for.
LEMMA DropStep ==
  ASSUME TypeInv, DropInv, TargetsArePresent, [Next]_vars
  PROVE  DropInv'
<1>0. TypeOK /\ \A k \in Monster : Aim(k, monster[k], Here, logins)
  BY AimIs DEF TypeInv
<1>1. ASSUME UNCHANGED <<drops, nextDrop, loot>> PROVE DropInv'
  BY <1>1 DEF DropInv, DropsAreAccounted
<1>2. ASSUME NEW c \in Here, NEW s \in Skill, CanUseSkill(c, s), ResolveSkillHit(c, s)
      PROVE  DropInv'
  <2>1. PICK hit, killed : Attacked(c, hit, killed)
    BY <1>0, <1>2, AttackFacts
  <2> DEFINE n == Cardinality(killed)
             new == Fresh(nextDrop, n, Pointer(c))
  <2>2. drops' = drops \cup new /\ nextDrop' = nextDrop + n /\ loot' = loot /\ IsFiniteSet(killed)
    BY <2>1 DEF Attacked, SpawnDropItem, Fresh
  <2>3. n \in Nat /\ nextDrop \in Nat /\ loot \in Nat
    BY <1>0, <2>2, FS_CardinalityType DEF TypeOK
  <2>4. IsFiniteSet(drops) /\ \A d \in drops : d.id \in Nat /\ d.id < nextDrop
    BY <1>0 DEF TypeOK, DropInv
  <2> HIDE DEF n
  <2>5. /\ IsFiniteSet(drops \cup new) /\ Cardinality(drops \cup new) = Cardinality(drops) + n
        /\ \A d \in drops \cup new : d.id < nextDrop + n
    BY <2>3, <2>4, SpawnFacts
  <2> HIDE DEF new
  <2>6. Cardinality(drops) \in Nat /\ nextDrop - 1 = Cardinality(drops) + loot
    BY <2>4, FS_CardinalityType DEF DropInv, DropsAreAccounted
  <2>7. nextDrop' - 1 = Cardinality(drops') + loot'
    BY <2>2, <2>3, <2>5, <2>6
  <2> QED
    BY <2>2, <2>5, <2>7 DEF DropInv, DropsAreAccounted
<1>3. ASSUME NEW c \in Character, NEW d \in drops, PickupDropItem(c, d) PROVE DropInv'
  <2>1. drops' = drops \ {d} /\ loot' = loot + 1 /\ nextDrop' = nextDrop
    BY <1>3 DEF PickupDropItem
  <2>2. IsFiniteSet(drops) /\ loot \in Nat /\ nextDrop \in Nat
        /\ nextDrop - 1 = Cardinality(drops) + loot
    BY <1>0 DEF TypeOK, DropInv, DropsAreAccounted
  <2>3. IsFiniteSet(drops \ {d}) /\ Cardinality(drops \ {d}) = Cardinality(drops) - 1
        /\ Cardinality(drops) \in Nat
    BY <2>2, FS_RemoveElement, FS_CardinalityType
  <2>4. nextDrop' - 1 = Cardinality(drops') + loot'
    BY <2>1, <2>2, <2>3
  <2>5. \A e \in drops' : e.id < nextDrop'
    BY <2>1 DEF DropInv
  <2> QED
    BY <2>1, <2>3, <2>4, <2>5 DEF DropInv, DropsAreAccounted
<1>4. ASSUME NEW c \in Character, Login(c) PROVE DropInv'
  BY <1>1, <1>4 DEF Login
<1>5. ASSUME NEW c \in Character, OnEnter(c) PROVE DropInv'
  BY <1>1, <1>5 DEF OnEnter
<1>6. ASSUME NEW c \in Character, Portal(c) PROVE DropInv'
  BY <1>1, <1>6 DEF Portal
<1>7. ASSUME NEW c \in Character, FinalizePlayer(c) PROVE DropInv'
  BY <1>1, <1>7 DEF FinalizePlayer
<1>8. ASSUME NEW c \in Character, RevivePlayer(c) PROVE DropInv'
  BY <1>1, <1>8 DEF RevivePlayer
<1>9. ASSUME NEW c \in Character, NEW s \in Skill, HandleSkillAttack(c, s) PROVE DropInv'
  BY <1>2, <1>9 DEF HandleSkillAttack
<1>10. ASSUME NEW c \in Character, HandleBasicAttack(c) PROVE DropInv'
  BY <1>2, <1>10, CombatAssumption DEF HandleBasicAttack
<1>11. ASSUME NEW c \in Character, UseItem(c) PROVE DropInv'
  BY <1>1, <1>11 DEF UseItem
<1>12. ASSUME NEW c \in Character, UpStat(c) PROVE DropInv'
  BY <1>1, <1>12 DEF UpStat
<1>13. ASSUME Update PROVE DropInv'
  BY <1>1, <1>13 DEF Update
<1>14. ASSUME NEW k \in Monster, RespawnDelayEnds(k) PROVE DropInv'
  BY <1>1, <1>14 DEF RespawnDelayEnds
<1>15. CASE UNCHANGED vars
  BY <1>1, <1>15 DEF vars
<1> QED
  BY <1>3, <1>4, <1>5, <1>6, <1>7, <1>8, <1>9, <1>10, <1>11, <1>12, <1>13, <1>14, <1>15 DEF Next

\* Nothing has dropped at the start.
LEMMA DropInit == Init => DropInv
<1> SUFFICES ASSUME Init PROVE DropInv
  OBVIOUS
<1>1. drops = {} /\ nextDrop = 1 /\ loot = 0
  BY DEF Init
<1>2. IsFiniteSet({}) /\ Cardinality({}) = 0
  BY FS_EmptySet
<1> QED
  BY <1>1, <1>2 DEF DropInv, DropsAreAccounted
-------------------------------------------------------------------------------
(* Levels.                                                                   *)

\* What a character is: its Player, or what is stored of it.
Standing(c) == IF player[c] = Null THEN saved[c] ELSE player[c]

\* The experience and the points are those of the level.
Good(s) == Fits(s) /\ Pointed(s)

\* Of what has the same level, experience and points.
LEMMA GoodSame ==
  ASSUME NEW s, NEW t, t.level = s.level, t.exp = s.exp, t.ap = s.ap, t.spent = s.spent
  PROVE  Good(s) => Good(t)
BY DEF Good, Fits, Pointed

\* The property about levels is that of every character.
LEMMA LevelsAre ==
  ASSUME TypeInv
  PROVE  LevelFitsExp <=> \A c \in Character : Good(Standing(c))
<1>1. ASSUME NEW c \in Character PROVE Standing(c).ap \in Nat
  <2>1. Standing(c) \in Stat \/ Standing(c) \in Player
    BY DEF Standing, TypeInv, TypeOK, SavedInv
  <2> QED
    BY <2>1 DEF Stat, Player
<1>2. LevelFitsExp <=> \A c \in Character : Good(Standing(c)) /\ Standing(c).ap >= 0
  BY DEF LevelFitsExp, Good, Standing, Fits, Pointed
<1> QED
  BY <1>1, <1>2

\* The same, of the next state.
LEMMA LevelsNext ==
  ASSUME TypeInv', \A c \in Character : Good(Standing(c)')
  PROVE  LevelFitsExp'
<1>1. ASSUME NEW c \in Character PROVE Standing(c)'.ap >= 0
  <2>1. Standing(c)' \in Stat \/ Standing(c)' \in Player
    BY DEF Standing, TypeInv, TypeOK, SavedInv
  <2>2. Standing(c)'.ap \in Nat
    BY <2>1 DEF Stat, Player
  <2> QED
    BY <2>2
<1> QED
  BY <1>1 DEF LevelFitsExp, Good, Standing, Fits, Pointed

\* A step in which nobody's level, experience or points change, but for one character.
LEMMA LevelsChange ==
  ASSUME TypeInv, TypeInv', LevelFitsExp, NEW c \in Character,
         \A d \in Character \ {c} : player'[d] = player[d] /\ saved'[d] = saved[d],
         Good(Standing(c)) => Good(Standing(c)')
  PROVE  LevelFitsExp'
<1>1. \A d \in Character \ {c} : Standing(d)' = Standing(d)
  BY DEF Standing
<1>2. \A d \in Character : Good(Standing(d))
  BY LevelsAre
<1>3. \A d \in Character : Good(Standing(d)')
  BY <1>1, <1>2
<1> QED
  BY <1>3, LevelsNext

\* A step in which nobody's does.
LEMMA LevelsStay ==
  ASSUME TypeInv', LevelFitsExp, player' = player, saved' = saved
  PROVE  LevelFitsExp'
BY DEF LevelFitsExp

\* A step of a Player that neither gains experience nor spends a point.
LEMMA LevelsKept ==
  ASSUME TypeInv, TypeInv', LevelFitsExp, NEW c \in Character, player[c] # Null,
         NEW q \in Player, player' = [player EXCEPT ![c] = q], saved' = saved,
         Good(player[c]) => Good(q)
  PROVE  LevelFitsExp'
<1>1. player'[c] = q /\ q # Null /\ \A d \in Character \ {c} : player'[d] = player[d]
  BY CombatAssumption DEF TypeInv, TypeOK
<1>2. Standing(c) = player[c] /\ Standing(c)' = q
  BY <1>1 DEF Standing
<1> QED
  BY <1>1, <1>2, LevelsChange

\* Every step leaves the levels as the experience demands.
LEMMA LevelStep ==
  ASSUME TypeInv, TypeInv', TargetsArePresent, LevelFitsExp, [Next]_vars
  PROVE  LevelFitsExp'
<1>0. TypeOK /\ SavedInv /\ \A k \in Monster : Aim(k, monster[k], Here, logins)
  BY AimIs DEF TypeInv
<1>1. ASSUME NEW c \in Character, Login(c) PROVE LevelFitsExp'
  <2>1. saved[c] \in Stat /\ player[c] = Null
    BY <1>0, <1>1 DEF Login, SavedInv
  <2>2. Loaded(saved[c]) # Null
    BY <2>1, SessionFacts, CombatAssumption
  <2>3. player'[c] = Loaded(saved[c])
        /\ \A d \in Character \ {c} : player'[d] = player[d] /\ saved'[d] = saved[d]
    BY <1>0, <1>1 DEF Login, TypeOK
  <2>4. Standing(c) = saved[c] /\ Standing(c)' = Loaded(saved[c])
    BY <2>1, <2>2, <2>3 DEF Standing
  <2>5. Good(saved[c]) => Good(Loaded(saved[c]))
    BY GoodSame DEF Loaded
  <2> QED
    BY <2>3, <2>4, <2>5, LevelsChange
<1>2. ASSUME NEW c \in Character, OnEnter(c) PROVE LevelFitsExp'
  <2>1. player[c] \in Player /\ player[c] # Null
    BY <1>0, <1>2 DEF OnEnter, TypeOK
  <2> DEFINE q == [player[c] EXCEPT !.here = TRUE]
  <2>2. player' = [player EXCEPT ![c] = q] /\ saved' = saved
    BY <1>2 DEF OnEnter
  <2>3. q \in Player /\ q.level = player[c].level /\ q.exp = player[c].exp
        /\ q.ap = player[c].ap /\ q.spent = player[c].spent
    BY <2>1, PlayerSteps DEF Player
  <2> HIDE DEF q
  <2> QED
    BY <2>1, <2>2, <2>3, GoodSame, LevelsKept
<1>3. ASSUME NEW c \in Character, Portal(c) PROVE LevelFitsExp'
  <2>1. player[c] \in Player /\ player[c] # Null
    BY <1>0, <1>3 DEF Portal, Here, TypeOK
  <2> DEFINE q == [player[c] EXCEPT !.here = FALSE]
  <2>2. player' = [player EXCEPT ![c] = q] /\ saved' = saved
    BY <1>3 DEF Portal
  <2>3. q \in Player /\ q.level = player[c].level /\ q.exp = player[c].exp
        /\ q.ap = player[c].ap /\ q.spent = player[c].spent
    BY <2>1, PlayerSteps DEF Player
  <2> HIDE DEF q
  <2> QED
    BY <2>1, <2>2, <2>3, GoodSame, LevelsKept
<1>4. ASSUME NEW c \in Character, FinalizePlayer(c) PROVE LevelFitsExp'
  <2>1. player[c] \in Player /\ player[c] # Null
    BY <1>0, <1>4 DEF FinalizePlayer, TypeOK
  <2>2. player'[c] = Null /\ saved'[c] = Stored(player[c])
        /\ \A d \in Character \ {c} : player'[d] = player[d] /\ saved'[d] = saved[d]
    BY <1>0, <1>4 DEF FinalizePlayer, TypeOK
  <2>3. Standing(c) = player[c] /\ Standing(c)' = Stored(player[c])
    BY <2>1, <2>2 DEF Standing
  <2>4. Good(player[c]) => Good(Stored(player[c]))
    BY GoodSame DEF Stored
  <2> QED
    BY <2>2, <2>3, <2>4, LevelsChange
<1>5. ASSUME NEW c \in Character, RevivePlayer(c) PROVE LevelFitsExp'
  <2>1. player[c] \in Player /\ player[c] # Null
    BY <1>0, <1>5 DEF RevivePlayer, Here, TypeOK
  <2> DEFINE q == [player[c] EXCEPT !.dead = FALSE, !.hp = MaxHp]
  <2>2. player' = [player EXCEPT ![c] = q] /\ saved' = saved
    BY <1>0, <1>5, <2>1 DEF RevivePlayer, TypeOK
  <2>3. q \in Player /\ q.level = player[c].level /\ q.exp = player[c].exp
        /\ q.ap = player[c].ap /\ q.spent = player[c].spent
    BY <2>1, PlayerSteps DEF Player
  <2> HIDE DEF q
  <2> QED
    BY <2>1, <2>2, <2>3, GoodSame, LevelsKept
<1>6. ASSUME NEW c \in Here, NEW s \in Skill, CanUseSkill(c, s), ResolveSkillHit(c, s)
      PROVE  LevelFitsExp'
  <2>1. PICK hit, killed : Attacked(c, hit, killed)
    BY <1>0, <1>6, AttackFacts
  <2>2. /\ \A d \in Character \ {c} : player'[d] = player[d]
        /\ player'[c] \in Player /\ saved' = saved
        /\ Good(player[c]) => Good(player'[c])
    BY <2>1 DEF Attacked, Good
  <2>3. c \in Character /\ player[c] # Null /\ player'[c] # Null
    BY <2>2, CombatAssumption DEF Here
  <2>4. Standing(c) = player[c] /\ Standing(c)' = player'[c]
    BY <2>3 DEF Standing
  <2> QED
    BY <2>2, <2>3, <2>4, LevelsChange
<1>7. ASSUME NEW c \in Character, NEW s \in Skill, HandleSkillAttack(c, s) PROVE LevelFitsExp'
  BY <1>6, <1>7 DEF HandleSkillAttack
<1>8. ASSUME NEW c \in Character, HandleBasicAttack(c) PROVE LevelFitsExp'
  BY <1>6, <1>8, CombatAssumption DEF HandleBasicAttack
<1>9. ASSUME NEW c \in Character, UseItem(c) PROVE LevelFitsExp'
  <2>1. player[c] \in Player /\ player[c] # Null
    BY <1>0, <1>9 DEF UseItem, TypeOK
  <2>2. PICK hp \in {player[c].hp, MaxHp}, mp \in {player[c].mp, MaxMp} :
          player' = [player EXCEPT ![c].hp = hp, ![c].mp = mp]
    BY <1>9 DEF UseItem
  <2> DEFINE q == [player[c] EXCEPT !.hp = hp, !.mp = mp]
  <2>3. player' = [player EXCEPT ![c] = q] /\ saved' = saved
    BY <1>0, <1>9, <2>1, <2>2 DEF UseItem, TypeOK
  <2>4. q \in Player /\ q.level = player[c].level /\ q.exp = player[c].exp
        /\ q.ap = player[c].ap /\ q.spent = player[c].spent
    BY <2>1, PlayerSteps DEF Player
  <2> HIDE DEF q
  <2> QED
    BY <2>1, <2>3, <2>4, GoodSame, LevelsKept
<1>10. ASSUME NEW c \in Character, UpStat(c) PROVE LevelFitsExp'
  <2>1. player[c] \in Player /\ player[c] # Null /\ player[c].ap > 0
    BY <1>0, <1>10 DEF UpStat, TypeOK
  <2> DEFINE q == Up(player[c])
  <2>2. player' = [player EXCEPT ![c] = q] /\ saved' = saved
    BY <1>10 DEF UpStat
  <2>3. q \in Player
    BY <2>1, PlayerSteps
  <2>4. q.level = player[c].level /\ q.exp = player[c].exp
        /\ q.ap = player[c].ap - 1 /\ q.spent = player[c].spent + 1
        /\ player[c].ap \in Nat /\ player[c].spent \in Nat
    BY <2>1 DEF Player, Up
  <2> HIDE DEF q
  <2>5. q.ap + q.spent = player[c].ap + player[c].spent
    BY <2>4
  <2>6. Good(player[c]) => Good(q)
    BY <2>4, <2>5 DEF Good, Fits, Pointed
  <2> QED
    BY <2>1, <2>2, <2>3, <2>6, LevelsKept
<1>11. ASSUME NEW c \in Character, NEW d \in drops, PickupDropItem(c, d) PROVE LevelFitsExp'
  BY <1>11, LevelsStay DEF PickupDropItem
<1>12. ASSUME Update PROVE LevelFitsExp'
  <2>1. /\ \A c \in Character :
             \/ player'[c] = player[c]
             \/ player[c] # Null /\ \E n \in Nat : player'[c] = OnDamaged(player[c], n)
        /\ saved' = saved
    BY <1>0, <1>12, UpdateFacts
  <2>2. ASSUME NEW c \in Character PROVE Good(Standing(c)')
    <3>1. Good(Standing(c))
      BY LevelsAre
    <3>2. CASE player'[c] = player[c]
      BY <2>1, <3>1, <3>2 DEF Standing
    <3>3. ASSUME player[c] # Null, NEW n \in Nat, player'[c] = OnDamaged(player[c], n)
          PROVE  Good(Standing(c)')
      <4>1. player[c] \in Player /\ Standing(c) = player[c]
        BY <1>0, <3>3 DEF TypeOK, Standing
      <4>2. /\ OnDamaged(player[c], n) \in Player
            /\ Good(player[c]) => Good(OnDamaged(player[c], n))
        BY <4>1, OnDamagedFacts DEF Good
      <4>3. Standing(c)' = OnDamaged(player[c], n)
        BY <3>3, <4>2, CombatAssumption DEF Standing
      <4> QED
        BY <3>1, <4>1, <4>2, <4>3
    <3> QED
      BY <2>1, <3>2, <3>3
  <2> QED
    BY <2>2, LevelsNext
<1>13. ASSUME NEW k \in Monster, RespawnDelayEnds(k) PROVE LevelFitsExp'
  BY <1>13, LevelsStay DEF RespawnDelayEnds
<1>14. CASE UNCHANGED vars
  BY <1>14, LevelsStay DEF vars
<1> QED
  BY <1>1, <1>2, <1>3, <1>4, <1>5, <1>7, <1>8, <1>9, <1>10, <1>11, <1>12, <1>13, <1>14 DEF Next

\* Everybody starts at the first level with less than it takes to leave it.
LEMMA LevelInit == Init => LevelFitsExp
<1> SUFFICES ASSUME Init PROVE LevelFitsExp
  OBVIOUS
<1>1. TypeInv
  BY TypeInit
<1>2. ASSUME NEW c \in Character PROVE Good(Standing(c))
  <2>1. player[c] = Null /\ saved[c] = [NewStat EXCEPT !.exp = FirstExp[c]]
    BY DEF Init
  <2>2. Standing(c) = [NewStat EXCEPT !.exp = FirstExp[c]]
    BY <2>1 DEF Standing
  <2>3. Standing(c).level = 1 /\ Standing(c).exp = FirstExp[c]
        /\ Standing(c).ap = 0 /\ Standing(c).spent = 0
    BY <2>2 DEF NewStat
  <2>4. LevelUpAp * (1 - 1) = 0
    BY CombatAssumption
  <2> QED
    BY <2>3, <2>4, CombatAssumption DEF Good, Fits, Pointed
<1> QED
  BY <1>1, <1>2, LevelsAre
-------------------------------------------------------------------------------
(* The theorems.                                                             *)

\* It holds at the start, and every step preserves it.
LEMMA Inductive ==
  /\ Init => IInv
  /\ IInv /\ [Next]_vars => IInv'
<1>1. Init => IInv
  BY TypeInit, AimInit, LevelInit, DropInit DEF IInv
<1>2. ASSUME IInv, [Next]_vars PROVE IInv'
  <2>1. TypeInv'
    BY <1>2, TypeStep DEF IInv
  <2>2. TargetsArePresent' /\ LevelFitsExp' /\ DropInv'
    BY <1>2, <2>1, AimStep, LevelStep, DropStep DEF IInv
  <2> QED
    BY <2>1, <2>2 DEF IInv
<1> QED
  BY <1>1, <1>2

\* Whoever a monster hunts is a Player that exists and is in the map's list: what
\* UpdateChase and the behaviours dereference without asking.
THEOREM MonstersHuntThePresent == Spec => []TargetsArePresent
<1>1. IInv => TargetsArePresent
  BY DEF IInv
<1> QED
  BY <1>1, Inductive, PTL DEF Spec

\* However much AddExp is given at once, and whatever deaths and logins come between: no
\* character has the experience for a level it has not got, nor points of one.
THEOREM LevelsFitExperience == Spec => []LevelFitsExp
<1>1. IInv => LevelFitsExp
  BY DEF IInv
<1> QED
  BY <1>1, Inductive, PTL DEF Spec

\* Every item that SpawnDropItem has put in the map lies there or has been picked up once.
THEOREM DropsAreExact == Spec => []DropsAreAccounted
<1>1. IInv => DropsAreAccounted
  BY DEF IInv, DropInv
<1> QED
  BY <1>1, Inductive, PTL DEF Spec

\* Nothing is a reward for nothing.
LEMMA NoReward == Reward({}) = 0
<1>1. {} \in SUBSET Monster /\ IsFiniteSet({}) /\ MonsterExp \in [Monster -> Nat]
  BY CombatAssumption, FS_EmptySet
<1>2. SumOf(MonsterExp, {}) = 0
  BY <1>1, SumFacts
<1> QED
  BY <1>2 DEF Reward, SumOf

\* The experience of a Player is a number.
LEMMA EarnedType == \A p \in Player : Earned(p) \in Int
<1>1. ASSUME NEW p \in Player PROVE Earned(p) \in Int
  <2>1. p.level \in 1 .. LastLevel /\ p.exp \in Nat
    BY DEF Player
  <2>2. NeedsBelow[p.level] \in Nat
    BY <2>1, NeedsGrow
  <2> QED
    BY <2>1, <2>2 DEF Earned
<1> QED
  BY <1>1

\* So is what a death costs.
LEMMA PenaltyType == \A p \in Player : Penalty(p) \in Int
<1>1. ASSUME NEW p \in Player PROVE Penalty(p) \in Int
  <2>1. p.level \in 1 .. LastLevel /\ p.exp \in Nat
    BY DEF Player
  <2>2. NeedExp[p.level] \div 10 \in Nat
    BY <2>1, Table
  <2> QED
    BY <2>1, <2>2, MinFacts DEF Penalty
<1> QED
  BY <1>1

\* The account of one character in one step.
Account(c) ==
  /\ player[c].dead => KilledBy(c) = {}
  /\ Earned(player'[c]) = Earned(player[c]) + Reward(KilledBy(c))
       - (IF ~player[c].dead /\ player'[c].dead THEN Penalty(player[c]) ELSE 0)

\* A step that neither kills a monster nor changes the experience of a character that lives.
LEMMA Quiet ==
  ASSUME \A k \in Monster : monster[k].alive => monster'[k].alive,
         NEW c \in Character, player[c] \in Player,
         player'[c].level = player[c].level, player'[c].exp = player[c].exp,
         player'[c].dead => player[c].dead
  PROVE  Account(c)
<1>1. KilledBy(c) = {} /\ Reward(KilledBy(c)) = 0
  BY NoReward DEF KilledBy
<1>2. Earned(player'[c]) = Earned(player[c]) /\ Earned(player[c]) \in Int
  BY EarnedType DEF Earned
<1> QED
  BY <1>1, <1>2 DEF Account

\* The account of every character that plays, in every step.
LEMMA AccountStep ==
  ASSUME IInv, [Next]_vars, NEW c \in Character, player[c] # Null, player'[c] # Null
  PROVE  Account(c)
<1>0. /\ TypeOK /\ \A k \in Monster : Aim(k, monster[k], Here, logins)
      /\ player[c] \in Player
  BY AimIs DEF IInv, TypeInv, TypeOK
<1>1. ASSUME player'[c] = player[c], \A k \in Monster : monster[k].alive => monster'[k].alive
      PROVE  Account(c)
  BY <1>0, <1>1, Quiet
<1>2. ASSUME NEW d \in Character, Login(d) PROVE Account(c)
  BY <1>0, <1>1, <1>2 DEF Login, TypeOK
<1>3. ASSUME NEW d \in Character, OnEnter(d) PROVE Account(c)
  <2>1. monster' = monster /\ player' = [player EXCEPT ![d].here = TRUE]
    BY <1>3 DEF OnEnter
  <2>2. player'[c].level = player[c].level /\ player'[c].exp = player[c].exp
        /\ player'[c].dead = player[c].dead
    BY <1>0, <2>1 DEF TypeOK, Player
  <2> QED
    BY <1>0, <2>1, <2>2, Quiet
<1>4. ASSUME NEW d \in Character, Portal(d) PROVE Account(c)
  <2>1. player' = [player EXCEPT ![d].here = FALSE]
        /\ \A k \in Monster : monster'[k].alive = monster[k].alive
    BY <1>0, <1>4, LeaveFacts DEF Portal
  <2>2. player'[c].level = player[c].level /\ player'[c].exp = player[c].exp
        /\ player'[c].dead = player[c].dead
    BY <1>0, <2>1 DEF TypeOK, Player
  <2> QED
    BY <1>0, <2>1, <2>2, Quiet
<1>5. ASSUME NEW d \in Character, FinalizePlayer(d) PROVE Account(c)
  <2>1. player' = [player EXCEPT ![d] = Null]
        /\ \A k \in Monster : monster'[k].alive = monster[k].alive
    BY <1>0, <1>5, LeaveFacts DEF FinalizePlayer
  <2>2. player'[c] = player[c]
    BY <1>0, <2>1 DEF TypeOK
  <2> QED
    BY <1>1, <2>1, <2>2
<1>6. ASSUME NEW d \in Character, RevivePlayer(d) PROVE Account(c)
  <2>1. monster' = monster
        /\ player' = [player EXCEPT ![d].dead = FALSE, ![d].hp = MaxHp]
    BY <1>6 DEF RevivePlayer
  <2>2. player'[c].level = player[c].level /\ player'[c].exp = player[c].exp
        /\ (player'[c].dead => player[c].dead)
    <3>1. CASE c = d
      <4>1. player'[c] = [player[c] EXCEPT !.dead = FALSE, !.hp = MaxHp]
        BY <1>0, <2>1, <3>1 DEF TypeOK
      <4> QED
        BY <1>0, <4>1 DEF Player
    <3>2. CASE c # d
      BY <1>0, <2>1, <3>2 DEF TypeOK
    <3> QED
      BY <3>1, <3>2
  <2> QED
    BY <1>0, <2>1, <2>2, Quiet
<1>7. ASSUME NEW d \in Here, NEW s \in Skill, CanUseSkill(d, s), ResolveSkillHit(d, s)
      PROVE  Account(c)
  <2>1. PICK hit, killed : Attacked(d, hit, killed)
    BY <1>0, <1>7, AttackFacts
  <2>2. CASE c = d
    <3>1. KilledBy(c) = killed
      <4>1. ASSUME NEW k \in killed PROVE k \in KilledBy(c)
        BY <2>1, <2>2, <4>1 DEF Attacked, KilledBy
      <4>2. ASSUME NEW k \in KilledBy(c) PROVE k \in killed
        BY <2>1, <4>2 DEF Attacked, KilledBy
      <4> QED
        BY <4>1, <4>2
    <3>2. ~player[c].dead /\ ~player'[c].dead
          /\ Earned(player'[c]) = Earned(player[c]) + Reward(killed)
          /\ player'[c] \in Player
      BY <2>1, <2>2 DEF Attacked
    <3>3. Earned(player'[c]) \in Int
      BY <3>2, EarnedType
    <3>4. Reward(killed) \in Int
      <4>1. killed \in SUBSET Monster /\ IsFiniteSet(killed) /\ MonsterExp \in [Monster -> Nat]
        BY <2>1, CombatAssumption DEF Attacked
      <4>2. SumOf(MonsterExp, killed) \in Nat
        BY <4>1, SumFacts
      <4> QED
        BY <4>2 DEF Reward, SumOf
    <3>5. Earned(player[c]) \in Int
      BY <1>0, EarnedType
    <3> QED
      BY <3>1, <3>2, <3>3, <3>4, <3>5 DEF Account
  <2>3. CASE c # d
    <3>1. KilledBy(c) = {} /\ player'[c] = player[c]
      BY <2>1, <2>3 DEF Attacked, KilledBy
    <3>2. Earned(player[c]) \in Int
      BY <1>0, EarnedType
    <3> QED
      BY <3>1, <3>2, NoReward DEF Account
  <2> QED
    BY <2>2, <2>3
<1>8. ASSUME NEW d \in Character, NEW s \in Skill, HandleSkillAttack(d, s) PROVE Account(c)
  BY <1>7, <1>8 DEF HandleSkillAttack
<1>9. ASSUME NEW d \in Character, HandleBasicAttack(d) PROVE Account(c)
  BY <1>7, <1>9, CombatAssumption DEF HandleBasicAttack
<1>10. ASSUME NEW d \in Character, UseItem(d) PROVE Account(c)
  <2>1. PICK hp \in {player[d].hp, MaxHp}, mp \in {player[d].mp, MaxMp} :
          player' = [player EXCEPT ![d].hp = hp, ![d].mp = mp]
    BY <1>10 DEF UseItem
  <2>2. player'[c].level = player[c].level /\ player'[c].exp = player[c].exp
        /\ player'[c].dead = player[c].dead
    <3>1. CASE c = d
      <4>1. player'[c] = [player[c] EXCEPT !.hp = hp, !.mp = mp]
        BY <1>0, <2>1, <3>1 DEF TypeOK
      <4> QED
        BY <1>0, <4>1 DEF Player
    <3>2. CASE c # d
      BY <1>0, <2>1, <3>2 DEF TypeOK
    <3> QED
      BY <3>1, <3>2
  <2> QED
    BY <1>0, <1>10, <2>2, Quiet DEF UseItem
<1>11. ASSUME NEW d \in Character, UpStat(d) PROVE Account(c)
  <2>1. player'[c].level = player[c].level /\ player'[c].exp = player[c].exp
        /\ player'[c].dead = player[c].dead
    BY <1>0, <1>11 DEF UpStat, Up, TypeOK, Player
  <2> QED
    BY <1>0, <1>11, <2>1, Quiet DEF UpStat
<1>12. ASSUME NEW d \in Character, NEW x \in drops, PickupDropItem(d, x) PROVE Account(c)
  BY <1>1, <1>12 DEF PickupDropItem
<1>13. ASSUME Update PROVE Account(c)
  <2>1. /\ \A k \in Monster : monster[k].alive => monster'[k].alive
        /\ player'[c] = player[c] \/ \E n \in Nat : player'[c] = OnDamaged(player[c], n)
    BY <1>0, <1>13, UpdateFacts
  <2>2. ASSUME NEW n \in Nat, player'[c] = OnDamaged(player[c], n) PROVE Account(c)
    <3> DEFINE loss == IF ~player[c].dead /\ player'[c].dead THEN Penalty(player[c]) ELSE 0
    <3>1. Earned(player'[c]) = Earned(player[c]) - loss
      BY <1>0, <2>2, OnDamagedFacts
    <3>2. KilledBy(c) = {} /\ Reward(KilledBy(c)) = 0
      BY <2>1, NoReward DEF KilledBy
    <3>4. player[c].dead => KilledBy(c) = {}
      BY <3>2
    <3> QED
      <4>0. loss \in Int
        BY <1>0, PenaltyType
      <4>1. Earned(player'[c]) = Earned(player[c]) + Reward(KilledBy(c)) - loss
        <5>1. Earned(player[c]) \in Int
          BY <1>0, EarnedType
        <5> HIDE DEF loss
        <5> QED
          BY <3>1, <3>2, <4>0, <5>1
      <4> QED
        BY <3>4, <4>1 DEF Account
  <2> QED
    BY <1>1, <2>1, <2>2
<1>14. ASSUME NEW k \in Monster, RespawnDelayEnds(k) PROVE Account(c)
  <2>1. player' = player
    BY <1>14 DEF RespawnDelayEnds
  <2>2. \A j \in Monster : monster'[j].alive = monster[j].alive
    BY <1>0, <1>14 DEF RespawnDelayEnds, TypeOK, SpawnedMonster
  <2> QED
    BY <1>1, <2>1, <2>2
<1>15. CASE UNCHANGED vars
  BY <1>1, <1>15 DEF vars
<1> QED
  BY <1>2, <1>3, <1>4, <1>5, <1>6, <1>8, <1>9, <1>10, <1>11, <1>12, <1>13, <1>14, <1>15 DEF Next

\* ResolveSkillHit pays for each monster that dies in the step once, and to who killed it;
\* DeadLocked takes a tenth once, however many hits the step has.
THEOREM ExperienceIsExact == Spec => ExpIsAccounted
<1>1. IInv /\ [Next]_vars =>
        [\A c \in Character : player[c] # Null /\ player'[c] # Null =>
           /\ player[c].dead => KilledBy(c) = {}
           /\ Earned(player'[c]) = Earned(player[c]) + Reward(KilledBy(c))
                - (IF ~player[c].dead /\ player'[c].dead THEN Penalty(player[c]) ELSE 0)]_vars
  BY AccountStep DEF Account
<1> QED
  BY <1>1, Inductive, PTL DEF Spec, ExpIsAccounted
===============================================================================
