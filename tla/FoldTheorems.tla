----------------------------- MODULE FoldTheorems -----------------------------
(***************************************************************************)
(* Induction without operators as parameters, over numbers and over finite   *)
(* sets, and the function that a fold of the community modules chooses: it   *)
(* exists, so that it is the one that its definition describes.              *)
(***************************************************************************)
EXTENDS Integers, Sequences, FiniteSets, FiniteSetsExt, FiniteSetTheorems, WellFoundedInduction,
        TLAPS

\* A set of numbers with 0 and with every successor is all of them.
LEMMA NatSetInduction ==
  ASSUME NEW S \in SUBSET Nat, 0 \in S, \A n \in S : n + 1 \in S
  PROVE  S = Nat
<1> DEFINE R == OpToRel(<, Nat)
           T == Nat \ S
<1>1. SUFFICES ASSUME T # {} PROVE FALSE
  OBVIOUS
<1>2. IsWellFoundedOn(R, Nat)
  BY NatLessThanWellFounded
<1>3. T \subseteq Nat
  OBVIOUS
<1> HIDE DEF R, T
<1>4. PICK x \in T : \A y \in T : ~ (<<y, x>> \in R)
  BY <1>1, <1>2, <1>3, WFMin
<1>5. x \in Nat /\ x # 0 /\ x \notin S
  BY <1>4 DEF T
<1>6. x - 1 \in Nat /\ x = (x - 1) + 1 /\ x - 1 < x
  BY <1>5
<1>7. <<x - 1, x>> \in R
  BY <1>5, <1>6 DEF R, OpToRel
<1>8. x - 1 \notin T
  BY <1>4, <1>7
<1>9. x - 1 \in S
  BY <1>6, <1>8 DEF T
<1> QED
  BY <1>5, <1>6, <1>9

\* A family of subsets of a finite set with the empty one, and with every set that
\* has one element more than one of them, is all of them.
LEMMA FiniteSetInduction ==
  ASSUME NEW S, IsFiniteSet(S), NEW Good,
         {} \in Good,
         \A T \in SUBSET S : \A x \in S \ T : T \in Good => T \cup {x} \in Good
  PROVE  \A T \in SUBSET S : T \in Good
<1> DEFINE N == {n \in Nat : \A T \in SUBSET S : Cardinality(T) = n => T \in Good}
<1>1. \A T \in SUBSET S : IsFiniteSet(T) /\ Cardinality(T) \in Nat
  BY FS_Subset, FS_CardinalityType
<1>2. 0 \in N
  BY <1>1, FS_EmptySet
<1>3. ASSUME NEW n \in N PROVE n + 1 \in N
  <2> SUFFICES ASSUME NEW T \in SUBSET S, Cardinality(T) = n + 1 PROVE T \in Good
    OBVIOUS
  <2>1. T # {}
    <3>1. n \in Nat /\ Cardinality(T) = n + 1
      OBVIOUS
    <3>2. Cardinality({}) = 0
      BY FS_EmptySet
    <3> HIDE DEF N
    <3> QED
      BY <3>1, <3>2
  <2>2. PICK x \in T : TRUE
    BY <2>1
  <2>3. Cardinality(T \ {x}) = n
    BY <1>1, <2>2, FS_RemoveElement
  <2>4. T \ {x} \in Good
    BY <2>3
  <2>5. (T \ {x}) \cup {x} = T
    BY <2>2
  <2> QED
    BY <2>2, <2>4, <2>5
<1>4. N = Nat
  <2> HIDE DEF N
  <2>1. N \in SUBSET Nat
    BY DEF N
  <2> QED
    BY <1>2, <1>3, <2>1, NatSetInduction
<1> QED
  BY <1>1, <1>4

\* A function folds each subset of S: base for the empty one, and else g of an element
\* of it and what the others fold to.
IsFold(h, S, A, base, g, pick) ==
  /\ h \in [SUBSET S -> A]
  /\ \A T \in SUBSET S :
       h[T] = IF T = {} THEN base ELSE g[<<pick[T], h[T \ {pick[T]}]>>]

\* For a choice of an element of each set and a function of that element and what
\* the rest comes to, there is a function that folds every subset of a finite set.
LEMMA FoldExists ==
  ASSUME NEW S, IsFiniteSet(S), NEW A, NEW base \in A, NEW g \in [S \X A -> A],
         NEW pick, \A T \in SUBSET S : T # {} => pick[T] \in T
  PROVE  \E h : IsFold(h, S, A, base, g, pick)
<1> DEFINE D(n) == {T \in SUBSET S : Cardinality(T) <= n}
           Folds(h, n) == \A T \in D(n) :
             h[T] = IF T = {} THEN base ELSE g[<<pick[T], h[T \ {pick[T]}]>>]
           N == {n \in Nat : \E h \in [D(n) -> A] : Folds(h, n)}
<1>1. \A T \in SUBSET S : IsFiniteSet(T) /\ Cardinality(T) \in Nat
  BY FS_Subset, FS_CardinalityType
<1>2. 0 \in N
  <2>1. \A T \in D(0) : T = {}
    BY <1>1, FS_EmptySet
  <2>2. [T \in D(0) |-> base] \in [D(0) -> A] /\ Folds([T \in D(0) |-> base], 0)
    BY <2>1
  <2> QED
    BY <2>2
<1>3. ASSUME NEW n \in N PROVE n + 1 \in N
  <2>1. PICK h \in [D(n) -> A] : Folds(h, n)
    OBVIOUS
  <2>2. n \in Nat /\ n + 1 \in Nat
    OBVIOUS
  <2>3. ASSUME NEW T \in D(n + 1), T # {}
        PROVE  /\ pick[T] \in T /\ pick[T] \in S /\ T \ {pick[T]} \in D(n)
               /\ T \ {pick[T]} \in D(n + 1)
    <3>1. pick[T] \in T /\ T \in SUBSET S
      BY <2>3
    <3>2. Cardinality(T \ {pick[T]}) = Cardinality(T) - 1
      BY <1>1, <3>1, FS_RemoveElement
    <3> QED
      BY <1>1, <2>2, <2>3, <3>1, <3>2
  <2>4. D(n) \subseteq D(n + 1)
    BY <1>1, <2>2
  <2> DEFINE e == [T \in D(n + 1) |->
                     IF T = {} THEN base ELSE g[<<pick[T], h[T \ {pick[T]}]>>]]
  <2>5. e \in [D(n + 1) -> A]
    <3> SUFFICES ASSUME NEW T \in D(n + 1), T # {}
                 PROVE  g[<<pick[T], h[T \ {pick[T]}]>>] \in A
      OBVIOUS
    <3> HIDE DEF D
    <3> QED
      BY <2>1, <2>3
  <2>6. \A T \in D(n) : e[T] = h[T]
    BY <2>1, <2>4
  <2>7. Folds(e, n + 1)
    <3> SUFFICES ASSUME NEW T \in D(n + 1), T # {}
                 PROVE  e[T] = g[<<pick[T], e[T \ {pick[T]}]>>]
      OBVIOUS
    <3> HIDE DEF D
    <3> QED
      BY <2>3, <2>6
  <2> HIDE DEF D, Folds, e
  <2> QED
    BY <2>2, <2>5, <2>7
<1>4. N = Nat
  <2> HIDE DEF N
  <2>1. N \in SUBSET Nat
    BY DEF N
  <2> QED
    BY <1>2, <1>3, <2>1, NatSetInduction
<1>5. Cardinality(S) \in Nat
  BY FS_CardinalityType
<1>6. PICK h \in [D(Cardinality(S)) -> A] : Folds(h, Cardinality(S))
  BY <1>4, <1>5
<1>7. D(Cardinality(S)) = SUBSET S
  BY FS_Subset
<1> QED
  BY <1>6, <1>7 DEF IsFold

\* The greatest number of a set, as the folds over sequences choose it.
Greatest(T) == CHOOSE x \in T : \A y \in T : x >= y

\* A finite set of integers has a greatest one.
LEMMA GreatestExists ==
  ASSUME NEW S, IsFiniteSet(S), S \subseteq Int
  PROVE  \A T \in SUBSET S : T # {} => Greatest(T) \in T /\ \A y \in T : Greatest(T) >= y
<1> DEFINE Good == {T \in SUBSET S : T # {} => \E x \in T : \A y \in T : x >= y}
<1>1. {} \in Good
  OBVIOUS
<1>2. ASSUME NEW T \in SUBSET S, NEW z \in S \ T, T \in Good
      PROVE  T \cup {z} \in Good
  <2>1. CASE T = {}
    <3>1. \A y \in T \cup {z} : z >= y
      BY <2>1
    <3> QED
      BY <3>1
  <2>2. CASE T # {}
    <3>1. PICK x \in T : \A y \in T : x >= y
      BY <1>2, <2>2
    <3>2. CASE x >= z
      BY <3>1, <3>2
    <3>3. CASE ~ (x >= z)
      <4>1. \A y \in T \cup {z} : z >= y
        BY <3>1, <3>3
      <4> QED
        BY <4>1
    <3> QED
      BY <3>2, <3>3
  <2> QED
    BY <2>1, <2>2
<1>3. \A T \in SUBSET S : T \in Good
  <2> HIDE DEF Good
  <2> QED
    BY <1>1, <1>2, FiniteSetInduction
<1> QED
  BY <1>3 DEF Greatest

\* The greatest of the first k numbers is k.
LEMMA GreatestOfFirst ==
  ASSUME NEW k \in Nat \ {0}
  PROVE  Greatest(1 .. k) = k /\ (1 .. k) \ {k} = 1 .. (k - 1) /\ 1 .. k # {}
<1>1. k \in 1 .. k /\ \A y \in 1 .. k : k >= y
  OBVIOUS
<1>2. \A x \in 1 .. k : (\A y \in 1 .. k : x >= y) => x = k
  BY <1>1
<1>3. Greatest(1 .. k) = k
  BY <1>1, <1>2 DEF Greatest
<1>4. (1 .. k) \ {k} = 1 .. (k - 1)
  OBVIOUS
<1> QED
  BY <1>1, <1>3, <1>4

\* A function folds each part of a sequence from the left.
IsFoldLeft(h, seq, A, base, g) ==
  /\ h \in [SUBSET DOMAIN seq -> A]
  /\ \A T \in SUBSET DOMAIN seq :
       h[T] = IF T = {} THEN base
              ELSE g[<<h[T \ {Greatest(T)}], seq[Greatest(T)]>>]

\* There is such a function, too.
LEMMA FoldLeftExists ==
  ASSUME NEW B, NEW seq \in Seq(B), NEW A, NEW base \in A, NEW g \in [A \X B -> A]
  PROVE  \E h : IsFoldLeft(h, seq, A, base, g)
<1> DEFINE S == DOMAIN seq
           pick == [T \in SUBSET S |-> Greatest(T)]
           f == [x \in S \X A |-> g[<<x[2], seq[x[1]]>>]]
<1>1. IsFiniteSet(S) /\ S \subseteq Int
  BY FS_Interval
<1>2. \A T \in SUBSET S : T # {} => pick[T] \in T
  BY <1>1, GreatestExists
<1>3. f \in [S \X A -> A]
  OBVIOUS
<1>4. PICK h : IsFold(h, S, A, base, f, pick)
  <2> HIDE DEF S, pick, f
  <2> QED
    BY <1>1, <1>2, <1>3, FoldExists
<1>5. ASSUME NEW T \in SUBSET S
      PROVE  h[T] = IF T = {} THEN base ELSE g[<<h[T \ {Greatest(T)}], seq[Greatest(T)]>>]
  <2>1. CASE T = {}
    BY <1>4, <2>1 DEF IsFold
  <2>2. CASE T # {}
    <3>1. pick[T] = Greatest(T) /\ Greatest(T) \in S /\ T \ {pick[T]} \in SUBSET S
      BY <1>2, <2>2
    <3>2. h[T \ {pick[T]}] \in A
      BY <1>4, <3>1 DEF IsFold
    <3>3. h[T] = f[<<pick[T], h[T \ {pick[T]}]>>]
      BY <1>4, <2>2 DEF IsFold
    <3>4. f[<<pick[T], h[T \ {pick[T]}]>>] = g[<<h[T \ {pick[T]}], seq[pick[T]]>>]
      BY <3>1, <3>2
    <3> QED
      BY <2>2, <3>1, <3>3, <3>4
  <2> QED
    BY <2>1, <2>2
<1> QED
  BY <1>4, <1>5 DEF IsFold, IsFoldLeft

\* What each part of a sequence from its beginning folds to, and r all of it.
IsChain(F, seq, A, base, g, r) ==
  /\ F \in [0 .. Len(seq) -> A]
  /\ F[0] = base
  /\ \A k \in 1 .. Len(seq) : F[k] = g[<<F[k - 1], seq[k]>>]
  /\ F[Len(seq)] = r

\* A function does for each part of a sequence what g does where it is given what g
\* expects.
FoldsLeft(e, seq, A, base, g) ==
  /\ e[{}] = base
  /\ \A T \in SUBSET DOMAIN seq :
       T # {} /\ e[T \ {Greatest(T)}] \in A =>
         e[T] = g[<<e[T \ {Greatest(T)}], seq[Greatest(T)]>>]

\* What a fold from the left chooses goes through the sequence element by element.
LEMMA FoldLeftChain ==
  ASSUME NEW B, NEW seq \in Seq(B), NEW A, NEW base \in A, NEW g \in [A \X B -> A],
         NEW e, FoldsLeft(e, seq, A, base, g)
  PROVE  \E F : IsChain(F, seq, A, base, g, e[DOMAIN seq])
<1> DEFINE N == {k \in Nat : k <= Len(seq) => e[1 .. k] \in A}
           F == [k \in 0 .. Len(seq) |-> e[1 .. k]]
<1>1. ASSUME NEW k \in 1 .. Len(seq), e[1 .. k - 1] \in A
      PROVE  e[1 .. k] = g[<<e[1 .. k - 1], seq[k]>>]
  <2>1. k \in Nat \ {0} /\ 1 .. k \in SUBSET DOMAIN seq
    OBVIOUS
  <2>2. Greatest(1 .. k) = k /\ (1 .. k) \ {k} = 1 .. k - 1 /\ 1 .. k # {}
    BY <2>1, GreatestOfFirst
  <2> QED
    BY <1>1, <2>1, <2>2 DEF FoldsLeft
<1>2. 1 .. 0 = {} /\ DOMAIN seq = 1 .. Len(seq) /\ Len(seq) \in Nat
  OBVIOUS
<1>3. e[1 .. 0] = base
  BY <1>2, Zenon DEF FoldsLeft
<1>4. 0 \in N
  BY <1>3
<1>5. ASSUME NEW k \in N PROVE k + 1 \in N
  <2>1. CASE k + 1 <= Len(seq)
    <3>1. k + 1 \in 1 .. Len(seq) /\ (k + 1) - 1 = k /\ seq[k + 1] \in B /\ e[1 .. k] \in A
      BY <2>1
    <3>2. e[1 .. k + 1] = g[<<e[1 .. k], seq[k + 1]>>]
      BY <1>1, <3>1
    <3>3. e[1 .. k + 1] \in A
      BY <3>1, <3>2
    <3> QED
      BY <3>3
  <2> QED
    BY <2>1
<1>6. N = Nat
  <2>1. N \in SUBSET Nat
    OBVIOUS
  <2> HIDE DEF N
  <2> QED
    BY <1>4, <1>5, <2>1, NatSetInduction
<1>7. \A k \in 0 .. Len(seq) : e[1 .. k] \in A
  BY <1>2, <1>6
<1>8. F \in [0 .. Len(seq) -> A]
  BY <1>7
<1>9. F[0] = base /\ F[Len(seq)] = e[DOMAIN seq]
  BY <1>2, <1>3
<1>10. ASSUME NEW k \in 1 .. Len(seq)
       PROVE  F[k] = g[<<F[k - 1], seq[k]>>]
  <2>1. k \in 0 .. Len(seq) /\ k - 1 \in 0 .. Len(seq)
    OBVIOUS
  <2> QED
    BY <1>1, <1>7, <2>1
<1> QED
  <2> HIDE DEF F
  <2> QED
    BY <1>8, <1>9, <1>10 DEF IsChain

\* The element that the folds over sets take out of one.
Chosen(T) == CHOOSE x \in T : TRUE

\* A function does for each subset of S what g does where it is given what g expects.
FoldsSet(e, S, A, base, g) ==
  /\ e[{}] = base
  /\ \A T \in SUBSET S :
       T # {} /\ e[T \ {Chosen(T)}] \in A => e[T] = g[<<Chosen(T), e[T \ {Chosen(T)}]>>]

\* A relation between sets and values that g keeps with one element more.
IsKept(Good, S, A, base, g) ==
  /\ \A T \in SUBSET S : \A a : <<T, a>> \in Good => a \in A
  /\ <<{}, base>> \in Good
  /\ \A T \in SUBSET S : \A x \in S \ T : \A a \in A :
       <<T, a>> \in Good => <<T \cup {x}, g[<<x, a>>]>> \in Good

\* What holds of base, and of what g makes of it with one element after the other,
\* holds of what the set folds to.
LEMMA FoldSetInduction ==
  ASSUME NEW S, IsFiniteSet(S), NEW A, NEW base, NEW g, NEW e, FoldsSet(e, S, A, base, g),
         NEW Good, IsKept(Good, S, A, base, g)
  PROVE  \A T \in SUBSET S : <<T, e[T]>> \in Good
<1> DEFINE N == {n \in Nat : \A T \in SUBSET S : Cardinality(T) = n => <<T, e[T]>> \in Good}
<1>1. \A T \in SUBSET S : IsFiniteSet(T) /\ Cardinality(T) \in Nat
  BY FS_Subset, FS_CardinalityType
<1>2. 0 \in N
  <2>1. \A T \in SUBSET S : Cardinality(T) = 0 => T = {}
    BY <1>1, FS_EmptySet
  <2>2. e[{}] = base
    BY DEF FoldsSet
  <2> QED
    BY <2>1, <2>2 DEF IsKept
<1>3. ASSUME NEW n \in N PROVE n + 1 \in N
  <2> SUFFICES ASSUME NEW T \in SUBSET S, Cardinality(T) = n + 1 PROVE <<T, e[T]>> \in Good
    OBVIOUS
  <2> DEFINE x == Chosen(T)
             U == T \ {x}
  <2>1. T # {}
    <3>1. n \in Nat /\ Cardinality(T) = n + 1
      OBVIOUS
    <3>2. Cardinality({}) = 0
      BY FS_EmptySet
    <3>3. n + 1 # 0
      BY <3>1
    <3> QED
      BY <3>1, <3>2, <3>3, Zenon
  <2>2. x \in T
    BY <2>1 DEF Chosen
  <2>3. Cardinality(U) = n /\ U \in SUBSET S /\ x \in S \ U /\ U \cup {x} = T
    <3>1. Cardinality(U) = Cardinality(T) - 1
      BY <1>1, <2>2, FS_RemoveElement
    <3>2. (n + 1) - 1 = n
      OBVIOUS
    <3> QED
      BY <2>2, <3>1, <3>2
  <2>4. <<U, e[U]>> \in Good
    BY <2>3
  <2>5. e[U] \in A
    BY <2>3, <2>4 DEF IsKept
  <2>6. e[T] = g[<<x, e[U]>>]
    BY <2>1, <2>5 DEF FoldsSet
  <2> HIDE DEF x, U
  <2> QED
    BY <2>3, <2>4, <2>5, <2>6 DEF IsKept
<1>4. N = Nat
  <2>1. N \in SUBSET Nat
    OBVIOUS
  <2> HIDE DEF N
  <2> QED
    BY <1>2, <1>3, <2>1, NatSetInduction
<1> QED
  BY <1>1, <1>4

\* The sum of what a function has for the elements of a set.
SumOf(f, S) == MapThenSumSet(LAMBDA x : f[x], S)

\* A function has the sum for each subset of S.
IsSum(e, f, S) ==
  /\ e \in [SUBSET S -> Nat]
  /\ \A T \in SUBSET S : e[T] = IF T = {} THEN 0 ELSE f[Chosen(T)] + e[T \ {Chosen(T)}]

\* The sum is such a function's.
LEMMA SumFold ==
  ASSUME NEW D, NEW f \in [D -> Nat], NEW S \in SUBSET D, IsFiniteSet(S)
  PROVE  \E e : IsSum(e, f, S) /\ SumOf(f, S) = e[S]
<1> DEFINE Eq(e) == e = [s \in SUBSET S |->
                      IF s = {} THEN 0
                      ELSE LET x == CHOOSE x \in s : TRUE IN f[x] + e[s \ {x}]]
           pick == [T \in SUBSET S |-> Chosen(T)]
           g == [x \in S \X Nat |-> f[x[1]] + x[2]]
<1>1. \A T \in SUBSET S : T # {} => pick[T] \in T
  BY DEF Chosen
<1>2. g \in [S \X Nat -> Nat]
  <2>1. \A x \in S \X Nat : f[x[1]] + x[2] \in Nat
    OBVIOUS
  <2> QED
    BY <2>1
<1>3. PICK h : IsFold(h, S, Nat, 0, g, pick)
  <2> HIDE DEF g, pick
  <2> QED
    BY <1>1, <1>2, FoldExists
<1>4. \A e : IsSum(e, f, S) => Eq(e)
  <2> SUFFICES ASSUME NEW e, IsSum(e, f, S) PROVE Eq(e)
    OBVIOUS
  <2> DEFINE r == [s \in SUBSET S |->
                      IF s = {} THEN 0
                      ELSE LET x == CHOOSE x \in s : TRUE IN f[x] + e[s \ {x}]]
  <2>1. \A T \in SUBSET S : e[T] = r[T]
    BY DEF IsSum, Chosen
  <2>2. e = [T \in SUBSET S |-> e[T]] /\ r = [T \in SUBSET S |-> r[T]]
    BY DEF IsSum
  <2>3. e = r
    <3> HIDE DEF r
    <3> QED
      BY <2>1, <2>2
  <2> QED
    BY <2>3
<1>5. IsSum(h, f, S)
  <2>1. ASSUME NEW T \in SUBSET S
        PROVE  h[T] = IF T = {} THEN 0 ELSE f[Chosen(T)] + h[T \ {Chosen(T)}]
    <3>1. CASE T = {}
      BY <1>3, <3>1 DEF IsFold
    <3>2. CASE T # {}
      <4>1. pick[T] = Chosen(T) /\ Chosen(T) \in S
        BY <1>1, <3>2
      <4>2. h[T \ {Chosen(T)}] \in Nat
        BY <1>3 DEF IsFold
      <4>3. h[T] = g[<<Chosen(T), h[T \ {Chosen(T)}]>>]
        BY <1>3, <3>2, <4>1 DEF IsFold
      <4> QED
        BY <3>2, <4>1, <4>2, <4>3
    <3> QED
      BY <3>1, <3>2
  <2> QED
    BY <1>3, <2>1 DEF IsFold, IsSum
<1>6. SumOf(f, S) = (CHOOSE e : Eq(e))[S]
  BY DEF SumOf, MapThenSumSet, MapThenFoldSet
<1>7. PICK e : Eq(e) /\ SumOf(f, S) = e[S]
  <2> HIDE DEF Eq
  <2> QED
    BY <1>4, <1>5, <1>6
<1>8. e[{}] = 0 /\ \A T \in SUBSET S : T # {} => e[T] = f[Chosen(T)] + e[T \ {Chosen(T)}]
  BY <1>7 DEF Chosen
<1>9. FoldsSet(e, S, Nat, 0, g)
  <2>1. ASSUME NEW T \in SUBSET S, T # {}, e[T \ {Chosen(T)}] \in Nat
        PROVE  e[T] = g[<<Chosen(T), e[T \ {Chosen(T)}]>>]
    <3>1. Chosen(T) \in S
      BY <1>1, <2>1
    <3> QED
      BY <1>8, <2>1, <3>1
  <2> HIDE DEF g, Eq
  <2> QED
    BY <1>8, <2>1 DEF FoldsSet
<1>10. \A T \in SUBSET S : e[T] \in Nat
  <2> DEFINE Good == (SUBSET S) \X Nat
  <2>1. IsKept(Good, S, Nat, 0, g)
    <3>1. ASSUME NEW T \in SUBSET S, NEW x \in S \ T, NEW a \in Nat
          PROVE  <<T \cup {x}, g[<<x, a>>]>> \in Good
      <4>1. <<x, a>> \in S \X Nat /\ T \cup {x} \in SUBSET S
        OBVIOUS
      <4>2. g[<<x, a>>] \in Nat
        BY <1>2, <4>1
      <4> HIDE DEF g
      <4> QED
        BY <4>1, <4>2
    <3> HIDE DEF g
    <3> QED
      BY <3>1 DEF IsKept
  <2> HIDE DEF g, Eq
  <2>2. \A T \in SUBSET S : <<T, e[T]>> \in Good
    <3> HIDE DEF Good
    <3> QED
      BY <1>9, <2>1, FoldSetInduction
  <2> QED
    BY <2>2
<1>11. IsSum(e, f, S)
  <2>1. e = [T \in SUBSET S |-> e[T]]
    BY <1>7
  <2> HIDE DEF Eq
  <2> QED
    BY <1>8, <1>10, <2>1 DEF IsSum
<1> QED
  <2> HIDE DEF Eq
  <2> QED
    BY <1>7, <1>11

\* The sums over the subsets of a set are those over the subsets of a smaller one.
LEMMA SumUnique ==
  ASSUME NEW S, IsFiniteSet(S), NEW R \in SUBSET S, NEW f, NEW e, NEW h,
         IsSum(e, f, S), IsSum(h, f, R)
  PROVE  e[R] = h[R]
<1> DEFINE N == {n \in Nat : \A T \in SUBSET R : Cardinality(T) = n => e[T] = h[T]}
<1>1. \A T \in SUBSET R : IsFiniteSet(T) /\ Cardinality(T) \in Nat
  BY FS_Subset, FS_CardinalityType
<1>2. 0 \in N
  BY <1>1, FS_EmptySet DEF IsSum
<1>3. ASSUME NEW n \in N PROVE n + 1 \in N
  <2> SUFFICES ASSUME NEW T \in SUBSET R, Cardinality(T) = n + 1 PROVE e[T] = h[T]
    OBVIOUS
  <2> DEFINE x == Chosen(T)
  <2>1. CASE T = {}
    BY <2>1 DEF IsSum
  <2>2. CASE T # {}
    <3>1. x \in T
      BY <2>2 DEF Chosen
    <3>2. Cardinality(T \ {x}) = n /\ T \ {x} \in SUBSET R
      <4>1. Cardinality(T \ {x}) = Cardinality(T) - 1
        BY <1>1, <3>1, FS_RemoveElement
      <4> QED
        BY <4>1
    <3>3. e[T \ {x}] = h[T \ {x}]
      BY <3>2
    <3> QED
      BY <2>2, <3>3 DEF IsSum
  <2> QED
    BY <2>1, <2>2
<1>4. N = Nat
  <2>1. N \in SUBSET Nat
    OBVIOUS
  <2> HIDE DEF N
  <2> QED
    BY <1>2, <1>3, <2>1, NatSetInduction
<1> QED
  BY <1>1, <1>4

\* It does not matter which element of a set a sum takes out first.
LEMMA SumStep ==
  ASSUME NEW D, NEW f \in [D -> Nat], NEW S \in SUBSET D, IsFiniteSet(S), NEW e, IsSum(e, f, S)
  PROVE  \A T \in SUBSET S : \A x \in T : e[T] = f[x] + e[T \ {x}]
<1> DEFINE N == {n \in Nat : \A T \in SUBSET S : Cardinality(T) = n =>
                               \A x \in T : e[T] = f[x] + e[T \ {x}]}
<1>1. \A T \in SUBSET S : IsFiniteSet(T) /\ Cardinality(T) \in Nat
  BY FS_Subset, FS_CardinalityType
<1>2. 0 \in N
  BY <1>1, FS_EmptySet
<1>3. ASSUME NEW n \in N PROVE n + 1 \in N
  <2> SUFFICES ASSUME NEW T \in SUBSET S, Cardinality(T) = n + 1, NEW x \in T
               PROVE  e[T] = f[x] + e[T \ {x}]
    OBVIOUS
  <2> DEFINE y == Chosen(T)
  <2>1. y \in T /\ e[T] = f[y] + e[T \ {y}]
    BY DEF IsSum, Chosen
  <2>2. CASE y = x
    BY <2>1, <2>2
  <2>3. CASE y # x
    <3> DEFINE U == T \ {x}
               V == T \ {y}
               W == U \ {y}
    <3>0. Cardinality(U) = Cardinality(T) - 1 /\ Cardinality(V) = Cardinality(T) - 1
      BY <1>1, <2>1, FS_RemoveElement
    <3>1. /\ U \in SUBSET S /\ V \in SUBSET S /\ W \in SUBSET S /\ V \ {x} = W
          /\ y \in U /\ x \in V
      BY <2>1, <2>3
    <3>2. Cardinality(U) = n /\ Cardinality(V) = n
      BY <3>0
    <3>3. e[U] = f[y] + e[W]
      BY <3>1, <3>2
    <3>4. e[V] = f[x] + e[W]
      <4>1. e[V] = f[x] + e[V \ {x}]
        BY <3>1, <3>2
      <4> QED
        BY <3>1, <4>1
    <3>5. f[x] \in Nat /\ f[y] \in Nat /\ e[W] \in Nat
      BY <2>1, <3>1 DEF IsSum
    <3>6. e[T] = f[y] + (f[x] + e[W]) /\ f[x] + e[U] = f[x] + (f[y] + e[W])
      BY <2>1, <3>3, <3>4
    <3> QED
      BY <3>5, <3>6
  <2> QED
    BY <2>2, <2>3
<1>4. N = Nat
  <2>1. N \in SUBSET Nat
    OBVIOUS
  <2> HIDE DEF N
  <2> QED
    BY <1>2, <1>3, <2>1, NatSetInduction
<1> QED
  BY <1>1, <1>4

\* What a sum is: nothing for nothing, a number, and with one element more, more by
\* what the function has for it.
LEMMA SumFacts ==
  ASSUME NEW D, NEW f \in [D -> Nat], NEW S \in SUBSET D, IsFiniteSet(S)
  PROVE  /\ SumOf(f, S) \in Nat
         /\ S = {} => SumOf(f, S) = 0
         /\ \A x \in S : SumOf(f, S) = f[x] + SumOf(f, S \ {x})
<1>1. PICK e : IsSum(e, f, S) /\ SumOf(f, S) = e[S]
  BY SumFold
<1>2. SumOf(f, S) \in Nat /\ (S = {} => SumOf(f, S) = 0)
  BY <1>1 DEF IsSum
<1>3. ASSUME NEW x \in S PROVE SumOf(f, S) = f[x] + SumOf(f, S \ {x})
  <2> DEFINE R == S \ {x}
  <2>1. R \in SUBSET D /\ IsFiniteSet(R) /\ R \in SUBSET S
    BY FS_Subset
  <2> HIDE DEF R
  <2>2. PICK h : IsSum(h, f, R) /\ SumOf(f, R) = h[R]
    BY <2>1, SumFold
  <2>3. e[R] = h[R]
    BY <1>1, <2>1, <2>2, SumUnique
  <2>4. e[S] = f[x] + e[S \ {x}]
    BY <1>1, SumStep
  <2> QED
    BY <1>1, <2>2, <2>3, <2>4 DEF R
<1> QED
  BY <1>2, <1>3

-------------------------------------------------------------------------------
(* Sums over parts of a set.                                                 *)

\* Two functions that agree on a set have the same sum over it.
LEMMA SumSame ==
  ASSUME NEW C, NEW f \in [C -> Nat], NEW D, NEW h \in [D -> Nat],
         NEW S \in SUBSET C, S \in SUBSET D, IsFiniteSet(S),
         \A x \in S : f[x] = h[x]
  PROVE  SumOf(f, S) = SumOf(h, S)
<1> DEFINE Good == {T \in SUBSET S : SumOf(f, T) = SumOf(h, T)}
<1>1. \A T \in SUBSET S : IsFiniteSet(T)
  BY FS_Subset
<1>2. {} \in Good
  <2>1. SumOf(f, {}) = 0 /\ SumOf(h, {}) = 0
    BY <1>1, SumFacts
  <2> QED
    BY <2>1
<1>3. ASSUME NEW T \in SUBSET S, NEW x \in S \ T, T \in Good
      PROVE  T \cup {x} \in Good
  <2> DEFINE U == T \cup {x}
  <2>1. U \in SUBSET C /\ U \in SUBSET D /\ U \in SUBSET S /\ IsFiniteSet(U) /\ x \in U
        /\ U \ {x} = T
    BY <1>1
  <2> HIDE DEF U
  <2>2. SumOf(f, U) = f[x] + SumOf(f, U \ {x}) /\ SumOf(h, U) = h[x] + SumOf(h, U \ {x})
    BY <2>1, SumFacts
  <2>3. SumOf(f, U) = SumOf(h, U)
    BY <1>3, <2>1, <2>2
  <2>4. U \in Good
    BY <2>1, <2>3
  <2> QED
    BY <2>4 DEF U
<1>4. \A T \in SUBSET S : T \in Good
  <2> HIDE DEF Good
  <2> QED
    BY <1>2, <1>3, FiniteSetInduction
<1> QED
  BY <1>4

\* Where two functions differ in one element of a set, so do their sums.
LEMMA SumBut ==
  ASSUME NEW C, NEW f \in [C -> Nat], NEW D, NEW h \in [D -> Nat],
         NEW S \in SUBSET C, S \in SUBSET D, IsFiniteSet(S), NEW x \in S,
         \A y \in S \ {x} : f[y] = h[y]
  PROVE  SumOf(h, S) + f[x] = SumOf(f, S) + h[x]
<1> DEFINE R == S \ {x}
<1>1. R \in SUBSET C /\ R \in SUBSET D /\ IsFiniteSet(R)
  BY FS_Subset
<1>2. SumOf(f, S) = f[x] + SumOf(f, R) /\ SumOf(h, S) = h[x] + SumOf(h, R)
  BY SumFacts
<1>3. \A y \in R : f[y] = h[y]
  OBVIOUS
<1> HIDE DEF R
<1>4. SumOf(f, R) = SumOf(h, R)
  BY <1>1, <1>3, SumSame
<1>5. SumOf(f, R) \in Nat /\ f[x] \in Nat /\ h[x] \in Nat
  BY <1>1, SumFacts
<1> QED
  BY <1>2, <1>4, <1>5

\* The sum of zeros is zero.
LEMMA SumZero ==
  ASSUME NEW D, NEW f \in [D -> Nat], IsFiniteSet(D), \A x \in D : f[x] = 0
  PROVE  SumOf(f, D) = 0
<1> DEFINE Good == {T \in SUBSET D : SumOf(f, T) = 0}
<1>1. \A T \in SUBSET D : IsFiniteSet(T)
  BY FS_Subset
<1>2. {} \in Good
  BY <1>1, SumFacts
<1>3. ASSUME NEW T \in SUBSET D, NEW x \in D \ T, T \in Good
      PROVE  T \cup {x} \in Good
  <2> DEFINE U == T \cup {x}
  <2>1. U \in SUBSET D /\ IsFiniteSet(U) /\ x \in U /\ U \ {x} = T
    BY <1>1
  <2> HIDE DEF U
  <2>2. SumOf(f, U) = f[x] + SumOf(f, U \ {x})
    BY <2>1, SumFacts
  <2>3. f[x] = 0 /\ SumOf(f, U \ {x}) = 0
    BY <1>3, <2>1
  <2>5. SumOf(f, U) = 0
    <3> HIDE DEF Good
    <3> QED
      BY <2>2, <2>3
  <2>4. U \in Good
    BY <2>1, <2>5
  <2> QED
    BY <2>4 DEF U
<1>4. \A T \in SUBSET D : T \in Good
  <2> HIDE DEF Good
  <2> QED
    BY <1>2, <1>3, FiniteSetInduction
<1> QED
  BY <1>4
===============================================================================
