------------------------------ MODULE FiniteSums -----------------------------
(* Sums of a function over a finite set, as the library folds them.           *)
(*                                                                            *)
(* A property of all subsets of a finite set is the set of the subsets that   *)
(* have it, so the well-founded order of subsets gives induction, and with it *)
(* that the library's recursion has a solution (an approximation for each     *)
(* subset) and only one.                                                      *)
EXTENDS Integers, Functions, FiniteSetTheorems, TLAPS

\* SumFunctionOnSet takes the members of a set in this order.
First(s) == CHOOSE x \in s : TRUE

\* The recursion by which the library defines it.
IsSum(g, f, I) ==
  g = [s \in SUBSET I |-> IF s = {} THEN 0 ELSE f[First(s)] + g[s \ {First(s)}]]

\* Induction over the subsets of a finite set.
LEMMA SubsetInduction ==
  ASSUME NEW I, IsFiniteSet(I), NEW F,
         \A A \in SUBSET I : (\A B \in SUBSET A : B # A => B \in F) => A \in F
  PROVE  \A A \in SUBSET I : A \in F
<1> DEFINE T == {A \in SUBSET I : A \notin F}
<1>1. IsWellFoundedOn(StrictSubsetOrdering(I), SUBSET I)
  BY FS_StrictSubsetOrderingWellFounded, FS_FiniteSubsetsOfFinite
<1> SUFFICES ASSUME T # {} PROVE FALSE
  OBVIOUS
<1>2. PICK A \in T : \A B \in T : ~(<<B, A>> \in StrictSubsetOrdering(I))
  <2> DEFINE R == StrictSubsetOrdering(I)
             All == SUBSET I
  <2>1. IsWellFoundedOn(R, All) /\ T \subseteq All
    BY <1>1
  <2> HIDE DEF T, R, All
  <2>2. \E A \in T : \A B \in T : ~(<<B, A>> \in R)
    BY <2>1, WFMin
  <2> QED BY <2>2 DEF R
<1>3. \A B \in SUBSET A : B # A => B \in F
  <2> SUFFICES ASSUME NEW B \in SUBSET A, B # A, B \notin F PROVE FALSE
    OBVIOUS
  <2>1. B \in T /\ <<B, A>> \in StrictSubsetOrdering(I)
    BY DEF StrictSubsetOrdering
  <2> QED BY <1>2, <2>1
<1> QED BY <1>2, <1>3

\* The recursion by which the library folds a set I: last[s] is the member of s
\* it takes last, step what taking a member makes of the value before.
IsFold(g, I, start, last, step) ==
  g = [s \in SUBSET I |-> IF s = {} THEN start
                          ELSE step[<<last[s], g[s \ {last[s]}]>>]]

LEMMA FoldIsUnique ==
  ASSUME NEW I, IsFiniteSet(I), NEW start, NEW last, NEW step, NEW g, NEW h,
         \A s \in SUBSET I : s # {} => last[s] \in s,
         IsFold(g, I, start, last, step), IsFold(h, I, start, last, step)
  PROVE  g = h
<1> DEFINE F == {A \in SUBSET I : g[A] = h[A]}
<1>1. ASSUME NEW A \in SUBSET I, \A B \in SUBSET A : B # A => B \in F
      PROVE  A \in F
  <2>1. CASE A = {}
    BY <2>1 DEF IsFold
  <2>2. CASE A # {}
    <3>1. A \ {last[A]} \in SUBSET A /\ A \ {last[A]} # A
      BY <2>2
    <3>2. g[A \ {last[A]}] = h[A \ {last[A]}]
      BY <1>1, <3>1
    <3> QED BY <2>2, <3>2 DEF IsFold
  <2> QED BY <2>1, <2>2
<1>2. \A A \in SUBSET I : A \in F
  <2> HIDE DEF F
  <2> QED BY <1>1, SubsetInduction
<1>3. \A A \in SUBSET I : g[A] = h[A]
  BY <1>2
<1> QED BY <1>3 DEF IsFold

LEMMA FoldRestricts ==
  ASSUME NEW I, NEW J \in SUBSET I, NEW start, NEW last, NEW step, NEW g,
         IsFold(g, I, start, last, step)
  PROVE  IsFold([s \in SUBSET J |-> g[s]], J, start, last, step)
<1> DEFINE r == [s \in SUBSET J |-> g[s]]
<1>1. \A s \in SUBSET J :
        r[s] = IF s = {} THEN start ELSE step[<<last[s], r[s \ {last[s]}]>>]
  BY DEF IsFold
<1> QED BY <1>1 DEF IsFold

LEMMA FoldExists ==
  ASSUME NEW I, IsFiniteSet(I), NEW start, NEW last, NEW step,
         \A s \in SUBSET I : s # {} => last[s] \in s
  PROVE  \E g : IsFold(g, I, start, last, step)
<1> DEFINE F == {A \in SUBSET I : \E g : IsFold(g, A, start, last, step)}
           V(s) == (CHOOSE g : IsFold(g, s, start, last, step))[s]
<1>1. ASSUME NEW A \in SUBSET I, \A B \in SUBSET A : B # A => B \in F
      PROVE  A \in F
  <2> DEFINE g == [s \in SUBSET A |->
                     IF s = {} THEN start ELSE step[<<last[s], V(s \ {last[s]})>>]]
  <2>1. ASSUME NEW s \in SUBSET A, s # A PROVE V(s) = g[s]
    <3> DEFINE h == CHOOSE x : IsFold(x, s, start, last, step)
    <3>1. IsFold(h, s, start, last, step)
      BY <1>1, <2>1
    <3> HIDE DEF h
    <3>2. CASE s = {}
      BY <3>1, <3>2 DEF IsFold, h
    <3>3. CASE s # {}
      <4> DEFINE t == s \ {last[s]}
                 k == CHOOSE x : IsFold(x, t, start, last, step)
                 r == [u \in SUBSET t |-> h[u]]
      <4>1. t \in SUBSET s /\ t \in SUBSET A /\ t # A /\ IsFiniteSet(t) /\ t \in SUBSET I
        BY <2>1, FS_Subset
      <4>2. IsFold(r, t, start, last, step)
        <5>1. t \in SUBSET s
          BY <4>1
        <5> HIDE DEF t
        <5> QED BY <3>1, <5>1, FoldRestricts
      <4>3. IsFold(k, t, start, last, step)
        BY <4>2
      <4>4. k = r
        <5>1. \A u \in SUBSET t : u # {} => last[u] \in u
          BY <4>1
        <5> HIDE DEF t, k, r
        <5> QED BY <4>1, <4>2, <4>3, <5>1, FoldIsUnique
      <4>5. V(t) = h[t]
        BY <4>4
      <4>6. V(s) = h[s] /\ h[s] = step[<<last[s], h[t]>>]
        BY <3>1, <3>3 DEF IsFold, h
      <4> QED BY <2>1, <3>3, <4>5, <4>6
    <3> QED BY <3>2, <3>3
  <2>2. \A s \in SUBSET A : s # {} =>
          s \ {last[s]} \in SUBSET A /\ s \ {last[s]} # A
    OBVIOUS
  <2>3. \A s \in SUBSET A :
          g[s] = IF s = {} THEN start ELSE step[<<last[s], g[s \ {last[s]}]>>]
    <3> TAKE s \in SUBSET A
    <3>1. CASE s = {}
      BY <3>1
    <3>2. CASE s # {}
      <4>1. V(s \ {last[s]}) = g[s \ {last[s]}]
        BY <2>1, <2>2, <3>2
      <4>2. g[s] = step[<<last[s], V(s \ {last[s]})>>]
        BY <3>2
      <4> HIDE DEF g
      <4> QED BY <3>2, <4>1, <4>2
    <3> QED BY <3>1, <3>2
  <2>4. IsFold(g, A, start, last, step)
    <3>1. g = [s \in SUBSET A |-> g[s]]
      OBVIOUS
    <3> HIDE DEF g
    <3> QED BY <2>3, <3>1 DEF IsFold
  <2> QED BY <2>4
<1>2. \A A \in SUBSET I : A \in F
  <2> HIDE DEF F
  <2> QED BY <1>1, SubsetInduction
<1> QED BY <1>2

\* What every step keeps, the fold has.
LEMMA FoldType ==
  ASSUME NEW I, IsFiniteSet(I), NEW S, NEW start \in S, NEW last, NEW step, NEW g,
         \A s \in SUBSET I : s # {} => last[s] \in s,
         \A i \in I : \A v \in S : step[<<i, v>>] \in S,
         IsFold(g, I, start, last, step)
  PROVE  \A A \in SUBSET I : g[A] \in S
<1> DEFINE F == {A \in SUBSET I : g[A] \in S}
<1>1. ASSUME NEW A \in SUBSET I, \A B \in SUBSET A : B # A => B \in F
      PROVE  A \in F
  <2>1. CASE A = {}
    BY <2>1 DEF IsFold
  <2>2. CASE A # {}
    <3>1. A \ {last[A]} \in SUBSET A /\ A \ {last[A]} # A /\ last[A] \in I
      BY <2>2
    <3>2. g[A \ {last[A]}] \in S
      BY <1>1, <3>1
    <3>3. g[A] = step[<<last[A], g[A \ {last[A]}]>>]
      BY <2>2 DEF IsFold
    <3>4. g[A] \in S
      BY <3>1, <3>2, <3>3
    <3> QED BY <3>4
  <2> QED BY <2>1, <2>2
<1>2. \A A \in SUBSET I : A \in F
  <2> HIDE DEF F
  <2> QED BY <1>1, SubsetInduction
<1> QED BY <1>2

------------------------------------------------------------------------------
LEMMA FirstIsMember == ASSUME NEW s, s # {} PROVE First(s) \in s
BY DEF First

LEMMA SumIsUnique ==
  ASSUME NEW I, IsFiniteSet(I), NEW f, NEW g, NEW h, IsSum(g, f, I), IsSum(h, f, I)
  PROVE  g = h
<1> DEFINE F == {A \in SUBSET I : g[A] = h[A]}
<1>1. ASSUME NEW A \in SUBSET I, \A B \in SUBSET A : B # A => B \in F
      PROVE  A \in F
  <2>1. CASE A = {}
    BY <2>1 DEF IsSum
  <2>2. CASE A # {}
    <3>1. A \ {First(A)} \in SUBSET A /\ A \ {First(A)} # A
      BY <2>2, FirstIsMember
    <3>2. g[A \ {First(A)}] = h[A \ {First(A)}]
      BY <1>1, <3>1
    <3> QED BY <2>2, <3>2 DEF IsSum
  <2> QED BY <2>1, <2>2
<1>2. \A A \in SUBSET I : A \in F
  <2> HIDE DEF F
  <2> QED BY <1>1, SubsetInduction
<1>3. \A A \in SUBSET I : g[A] = h[A]
  BY <1>2
<1> QED BY <1>3 DEF IsSum

LEMMA SumRestricts ==
  ASSUME NEW I, NEW J \in SUBSET I, NEW f, NEW g, IsSum(g, f, I)
  PROVE  IsSum([s \in SUBSET J |-> g[s]], f, J)
<1> DEFINE r == [s \in SUBSET J |-> g[s]]
<1>1. \A s \in SUBSET J :
        r[s] = IF s = {} THEN 0 ELSE f[First(s)] + r[s \ {First(s)}]
  BY DEF IsSum
<1> QED BY <1>1 DEF IsSum

LEMMA SumExists ==
  ASSUME NEW I, IsFiniteSet(I), NEW f, \A s \in I : f[s] \in Int
  PROVE  \E g : IsSum(g, f, I)
<1> DEFINE last == [s \in SUBSET I |-> First(s)]
           step == [p \in I \X Int |-> f[p[1]] + p[2]]
<1>1. \A s \in SUBSET I : s # {} => last[s] \in s
  BY FirstIsMember
<1>2. \A i \in I : \A v \in Int : step[<<i, v>>] = f[i] + v /\ step[<<i, v>>] \in Int
  OBVIOUS
<1>3. PICK g : IsFold(g, I, 0, last, step)
  <2> HIDE DEF last, step
  <2> QED BY <1>1, FoldExists
<1>4. \A A \in SUBSET I : g[A] \in Int
  <2>1. 0 \in Int
    OBVIOUS
  <2> HIDE DEF last, step
  <2> QED BY <1>1, <1>2, <1>3, <2>1, FoldType
<1>5. ASSUME NEW s \in SUBSET I
      PROVE  g[s] = IF s = {} THEN 0 ELSE f[First(s)] + g[s \ {First(s)}]
  <2>1. CASE s = {}
    BY <1>3, <2>1 DEF IsFold
  <2>2. CASE s # {}
    <3>1. First(s) \in I /\ last[s] = First(s) /\ g[s \ {First(s)}] \in Int
      BY <1>4, <2>2, FirstIsMember
    <3> HIDE DEF step, last
    <3>2. g[s] = step[<<First(s), g[s \ {First(s)}]>>]
      BY <1>3, <2>2, <3>1 DEF IsFold
    <3> QED BY <1>2, <2>2, <3>1, <3>2
  <2> QED BY <2>1, <2>2
<1>6. g = [s \in SUBSET I |-> g[s]]
  <2> HIDE DEF step, last
  <2> QED BY <1>3 DEF IsFold
<1>7. IsSum(g, f, I)
  <2> HIDE DEF step, last
  <2> QED BY <1>5, <1>6 DEF IsSum
<1> QED BY <1>7

LEMMA SumIsChosen ==
  ASSUME NEW f, NEW I
  PROVE  SumFunctionOnSet(f, I) = (CHOOSE g : IsSum(g, f, I))[I]
BY DEF SumFunctionOnSet, FoldFunctionOnSet, MapThenFoldSet, IsSum, First

LEMMA SumStep ==
  ASSUME NEW f, NEW A, IsFiniteSet(A), \A s \in A : f[s] \in Int
  PROVE  /\ A = {} => SumFunctionOnSet(f, A) = 0
         /\ A # {} => SumFunctionOnSet(f, A)
                      = f[First(A)] + SumFunctionOnSet(f, A \ {First(A)})
<1> DEFINE g == CHOOSE x : IsSum(x, f, A)
<1>1. IsSum(g, f, A)
  BY SumExists
<1>2. SumFunctionOnSet(f, A) = g[A]
  BY SumIsChosen
<1> HIDE DEF g
<1>3. A = {} => g[A] = 0
  BY <1>1 DEF IsSum
<1>4. ASSUME A # {}
      PROVE  g[A] = f[First(A)] + SumFunctionOnSet(f, A \ {First(A)})
  <2> DEFINE B == A \ {First(A)}
             h == CHOOSE x : IsSum(x, f, B)
             r == [s \in SUBSET B |-> g[s]]
  <2>1. g[A] = f[First(A)] + g[B]
    BY <1>1, <1>4 DEF IsSum
  <2>2. B \in SUBSET A /\ IsFiniteSet(B)
    BY FS_Subset
  <2>3. SumFunctionOnSet(f, B) = h[B]
    BY SumIsChosen
  <2> HIDE DEF B
  <2>4. IsSum(r, f, B)
    BY ONLY <1>1, <2>2, SumRestricts
  <2>5. IsSum(h, f, B)
    BY <2>4
  <2>6. h = r
    <3> HIDE DEF h, r
    <3> QED BY <2>2, <2>4, <2>5, SumIsUnique
  <2>7. h[B] = g[B]
    BY <2>6
  <2> HIDE DEF h, r
  <2> QED BY <2>1, <2>3, <2>7 DEF B
<1> QED BY <1>2, <1>3, <1>4

LEMMA SumType ==
  ASSUME NEW I, IsFiniteSet(I), NEW f, \A s \in I : f[s] \in Int
  PROVE  \A A \in SUBSET I : SumFunctionOnSet(f, A) \in Int
<1> DEFINE F == {A \in SUBSET I : SumFunctionOnSet(f, A) \in Int}
<1>1. ASSUME NEW A \in SUBSET I, \A B \in SUBSET A : B # A => B \in F
      PROVE  A \in F
  <2>1. IsFiniteSet(A)
    BY FS_Subset
  <2>2. CASE A = {}
    <3>1. SumFunctionOnSet(f, A) = 0
      BY <2>1, <2>2, SumStep
    <3> QED BY <3>1
  <2>3. CASE A # {}
    <3>1. First(A) \in A /\ A \ {First(A)} \in SUBSET A /\ A \ {First(A)} # A
      BY <2>3, FirstIsMember
    <3>2. SumFunctionOnSet(f, A \ {First(A)}) \in Int /\ f[First(A)] \in Int
      BY <1>1, <3>1
    <3>3. SumFunctionOnSet(f, A)
          = f[First(A)] + SumFunctionOnSet(f, A \ {First(A)})
      BY <2>1, <2>3, SumStep
    <3> QED BY <3>2, <3>3
  <2> QED BY <2>2, <2>3
<1>2. \A A \in SUBSET I : A \in F
  <2> HIDE DEF F
  <2> QED BY <1>1, SubsetInduction
<1> QED BY <1>2

\* The order in which the library takes the members does not matter.
LEMMA SumWithout ==
  ASSUME NEW I, IsFiniteSet(I), NEW f, \A s \in I : f[s] \in Int
  PROVE  \A A \in SUBSET I : \A x \in A :
           SumFunctionOnSet(f, A) = f[x] + SumFunctionOnSet(f, A \ {x})
<1> DEFINE F == {A \in SUBSET I : \A x \in A :
                   SumFunctionOnSet(f, A) = f[x] + SumFunctionOnSet(f, A \ {x})}
<1>1. ASSUME NEW A \in SUBSET I, \A B \in SUBSET A : B # A => B \in F
      PROVE  A \in F
  <2> SUFFICES ASSUME NEW x \in A
               PROVE  SumFunctionOnSet(f, A) = f[x] + SumFunctionOnSet(f, A \ {x})
    OBVIOUS
  <2> DEFINE c == First(A)
             both == (A \ {c}) \ {x}
  <2>1. c \in A /\ IsFiniteSet(A) /\ IsFiniteSet(A \ {x})
    BY FirstIsMember, FS_Subset
  <2>2. SumFunctionOnSet(f, A) = f[c] + SumFunctionOnSet(f, A \ {c})
    BY <2>1, SumStep
  <2> HIDE DEF c
  <2>3. CASE x = c
    BY <2>2, <2>3
  <2>4. CASE x # c
    <3>1. /\ A \ {c} \in SUBSET A /\ A \ {c} # A /\ x \in A \ {c}
          /\ A \ {x} \in SUBSET A /\ A \ {x} # A /\ c \in A \ {x}
      BY <2>1, <2>4
    <3>2. SumFunctionOnSet(f, A \ {c}) = f[x] + SumFunctionOnSet(f, both)
      BY <1>1, <3>1
    <3>3. (A \ {x}) \ {c} = both
      OBVIOUS
    <3>4. SumFunctionOnSet(f, A \ {x}) = f[c] + SumFunctionOnSet(f, both)
      BY <1>1, <3>1, <3>3
    <3>5. both \in SUBSET I /\ f[x] \in Int /\ f[c] \in Int
      BY <2>1
    <3>6. SumFunctionOnSet(f, both) \in Int
      BY <3>5, SumType
    <3> HIDE DEF both
    <3> QED BY <2>2, <3>2, <3>4, <3>5, <3>6
  <2> QED BY <2>3, <2>4
<1>2. \A A \in SUBSET I : A \in F
  <2> HIDE DEF F
  <2> QED BY <1>1, SubsetInduction
<1> QED BY <1>2

\* What holds of each member holds of the sums.
LEMMA SumsCompare ==
  ASSUME NEW I, IsFiniteSet(I), NEW f, NEW g, NEW p \in Int, NEW q \in Int,
         \A s \in I : f[s] \in Int /\ g[s] \in Int /\ p * f[s] <= q * g[s]
  PROVE  p * SumFunctionOnSet(f, I) <= q * SumFunctionOnSet(g, I)
<1> DEFINE F == {A \in SUBSET I :
                   p * SumFunctionOnSet(f, A) <= q * SumFunctionOnSet(g, A)}
<1>1. ASSUME NEW A \in SUBSET I, \A B \in SUBSET A : B # A => B \in F
      PROVE  A \in F
  <2>1. IsFiniteSet(A)
    BY FS_Subset
  <2>2. CASE A = {}
    <3>1. SumFunctionOnSet(f, A) = 0 /\ SumFunctionOnSet(g, A) = 0
      BY <2>1, <2>2, SumStep
    <3> QED BY <3>1
  <2>3. CASE A # {}
    <3> DEFINE c == First(A)
               B == A \ {c}
    <3>1. c \in A /\ B \in SUBSET A /\ B # A /\ B \in SUBSET I /\ c \in I
      BY <2>3, FirstIsMember
    <3>2. /\ SumFunctionOnSet(f, A) = f[c] + SumFunctionOnSet(f, B)
          /\ SumFunctionOnSet(g, A) = g[c] + SumFunctionOnSet(g, B)
      BY <2>1, <2>3, SumStep
    <3>3. p * SumFunctionOnSet(f, B) <= q * SumFunctionOnSet(g, B)
      BY <1>1, <3>1
    <3>4. SumFunctionOnSet(f, B) \in Int /\ SumFunctionOnSet(g, B) \in Int
      BY <3>1, SumType
    <3> HIDE DEF c, B
    <3>5. f[c] \in Int /\ g[c] \in Int /\ p * f[c] <= q * g[c]
      BY <3>1
    <3>6. p * SumFunctionOnSet(f, A) <= q * SumFunctionOnSet(g, A)
      <4> DEFINE a == f[c]  b == g[c]
                 u == SumFunctionOnSet(f, B)  v == SumFunctionOnSet(g, B)
      <4>1. a \in Int /\ b \in Int /\ u \in Int /\ v \in Int
            /\ p * a <= q * b /\ p * u <= q * v
        BY <3>3, <3>4, <3>5
      <4> HIDE DEF a, b, u, v
      <4>2. p * (a + u) = p * a + p * u /\ q * (b + v) = q * b + q * v
        BY <4>1
      <4>3. p * a \in Int /\ p * u \in Int /\ q * b \in Int /\ q * v \in Int
        BY <4>1
      <4>4. p * (a + u) <= q * (b + v)
        BY <4>1, <4>2, <4>3
      <4> QED BY <3>2, <4>4 DEF a, b, u, v
    <3> QED BY <3>6
  <2> QED BY <2>2, <2>3
<1>2. \A A \in SUBSET I : A \in F
  <2> HIDE DEF F
  <2> QED BY <1>1, SubsetInduction
<1> QED BY <1>2

LEMMA SumOfConstant ==
  ASSUME NEW I, IsFiniteSet(I), NEW f, NEW k \in Int, \A s \in I : f[s] = k
  PROVE  SumFunctionOnSet(f, I) = Cardinality(I) * k
<1> DEFINE F == {A \in SUBSET I : SumFunctionOnSet(f, A) = Cardinality(A) * k}
<1>1. ASSUME NEW A \in SUBSET I, \A B \in SUBSET A : B # A => B \in F
      PROVE  A \in F
  <2>1. IsFiniteSet(A)
    BY FS_Subset
  <2>2. CASE A = {}
    <3>1. SumFunctionOnSet(f, A) = 0 /\ Cardinality(A) = 0
      BY <2>1, <2>2, SumStep, FS_EmptySet
    <3> QED BY <3>1
  <2>3. CASE A # {}
    <3> DEFINE c == First(A)
               B == A \ {c}
    <3>1. c \in A /\ B \in SUBSET A /\ B # A
      BY <2>3, FirstIsMember
    <3>2. SumFunctionOnSet(f, A) = f[c] + SumFunctionOnSet(f, B) /\ f[c] = k
      BY <2>1, <2>3, <3>1, SumStep
    <3>3. SumFunctionOnSet(f, B) = Cardinality(B) * k
      BY <1>1, <3>1
    <3>4. Cardinality(B) = Cardinality(A) - 1 /\ Cardinality(A) \in Nat
      BY <2>1, <3>1, FS_RemoveElement, FS_CardinalityType
    <3> HIDE DEF c, B
    <3>5. k + (Cardinality(A) - 1) * k = Cardinality(A) * k
      BY <3>4
    <3> QED BY <3>2, <3>3, <3>4, <3>5
  <2> QED BY <2>2, <2>3
<1>2. \A A \in SUBSET I : A \in F
  <2> HIDE DEF F
  <2> QED BY <1>1, SubsetInduction
<1> QED BY <1>2

LEMMA SumBoundsMembers ==
  ASSUME NEW I, IsFiniteSet(I), NEW f, \A s \in I : f[s] \in Nat
  PROVE  /\ SumFunctionOnSet(f, I) \in Nat
         /\ \A s \in I : f[s] <= SumFunctionOnSet(f, I)
<1>1. ASSUME NEW J \in SUBSET I PROVE SumFunctionOnSet(f, J) \in Nat
  <2> DEFINE zero == [s \in J |-> 0]
             u == SumFunctionOnSet(f, J)
  <2>1. IsFiniteSet(J) /\ \A s \in J : zero[s] = 0
    BY FS_Subset
  <2>2. \A s \in J : zero[s] \in Int /\ f[s] \in Int /\ 1 * zero[s] <= 1 * f[s]
    OBVIOUS
  <2>3. u \in Int
    BY <2>1, <2>2, SumType
  <2> HIDE DEF zero
  <2>4. 1 * SumFunctionOnSet(zero, J) <= 1 * u
    BY <2>1, <2>2, SumsCompare
  <2>5. SumFunctionOnSet(zero, J) = Cardinality(J) * 0 /\ Cardinality(J) \in Nat
    <3>1. 0 \in Int
      OBVIOUS
    <3> QED BY <2>1, <3>1, SumOfConstant, FS_CardinalityType
  <2> HIDE DEF u
  <2>6. u \in Nat
    BY <2>3, <2>4, <2>5
  <2> QED BY <2>6 DEF u
<1>2. ASSUME NEW s \in I PROVE f[s] <= SumFunctionOnSet(f, I)
  <2>1. I \in SUBSET I /\ I \ {s} \in SUBSET I
    OBVIOUS
  <2>2. SumFunctionOnSet(f, I) = f[s] + SumFunctionOnSet(f, I \ {s})
    BY <2>1, SumWithout
  <2>3. SumFunctionOnSet(f, I \ {s}) \in Nat
    BY <1>1, <2>1
  <2> QED BY <2>2, <2>3
<1> QED BY <1>1, <1>2

LEMMA SumsAgree ==
  ASSUME NEW I, IsFiniteSet(I), NEW f, NEW g,
         \A s \in I : f[s] \in Int /\ f[s] = g[s]
  PROVE  SumFunctionOnSet(f, I) = SumFunctionOnSet(g, I)
<1>1. \A s \in I : f[s] \in Int /\ g[s] \in Int
                   /\ 1 * f[s] <= 1 * g[s] /\ 1 * g[s] <= 1 * f[s]
  OBVIOUS
<1> DEFINE u == SumFunctionOnSet(f, I)  v == SumFunctionOnSet(g, I)
<1>2. u \in Int /\ v \in Int
  BY <1>1, SumType
<1>3. 1 * u <= 1 * v
  BY <1>1, SumsCompare
<1>4. 1 * v <= 1 * u
  BY <1>1, SumsCompare
<1> HIDE DEF u, v
<1>5. u = v
  BY <1>2, <1>3, <1>4
<1> QED BY <1>5 DEF u, v

\* One value changes.
LEMMA SumOfUpdate ==
  ASSUME NEW I, IsFiniteSet(I), NEW f, NEW g, NEW x \in I,
         \A s \in I : f[s] \in Int /\ g[s] \in Int,
         \A s \in I \ {x} : f[s] = g[s]
  PROVE  /\ SumFunctionOnSet(f, I) \in Int
         /\ SumFunctionOnSet(g, I) = SumFunctionOnSet(f, I) + (g[x] - f[x])
<1> DEFINE J == I \ {x}
<1>1. IsFiniteSet(J) /\ I \in SUBSET I /\ J \in SUBSET I
  BY FS_Subset
<1> HIDE DEF J
<1>2. SumFunctionOnSet(f, J) = SumFunctionOnSet(g, J)
  BY <1>1, SumsAgree DEF J
<1>3. SumFunctionOnSet(f, I) = f[x] + SumFunctionOnSet(f, J)
  BY <1>1, SumWithout DEF J
<1>4. SumFunctionOnSet(g, I) = g[x] + SumFunctionOnSet(g, J)
  BY <1>1, SumWithout DEF J
<1>5. SumFunctionOnSet(f, J) \in Int
  BY <1>1, SumType
<1> QED BY <1>2, <1>3, <1>4, <1>5

LEMMA SumOfMore ==
  ASSUME NEW I, IsFiniteSet(I), NEW f \in [I -> Int], NEW x \in I
  PROVE  SumFunctionOnSet([f EXCEPT ![x] = @ + 1], I) = SumFunctionOnSet(f, I) + 1
<1> DEFINE g == [f EXCEPT ![x] = @ + 1]
<1>1. /\ \A s \in I : f[s] \in Int /\ g[s] \in Int
      /\ \A s \in I \ {x} : f[s] = g[s]
      /\ g[x] = f[x] + 1
  OBVIOUS
<1> HIDE DEF g
<1>2. /\ SumFunctionOnSet(f, I) \in Int
      /\ SumFunctionOnSet(g, I) = SumFunctionOnSet(f, I) + (g[x] - f[x])
  BY <1>1, SumOfUpdate
<1>3. g[x] - f[x] = 1
  BY <1>1
<1>4. SumFunctionOnSet(g, I) = SumFunctionOnSet(f, I) + 1
  BY <1>2, <1>3
<1> QED BY <1>4 DEF g

LEMMA SumOfOneMore ==
  ASSUME NEW I, IsFiniteSet(I), NEW x, x \notin I, NEW f, NEW g,
         \A s \in I : f[s] \in Int /\ g[s] = f[s], g[x] \in Int
  PROVE  /\ SumFunctionOnSet(f, I) \in Int
         /\ SumFunctionOnSet(g, I \cup {x}) = SumFunctionOnSet(f, I) + g[x]
<1> DEFINE J == I \cup {x}
<1>1. IsFiniteSet(J) /\ x \in J /\ J \ {x} = I /\ \A s \in J : g[s] \in Int
  BY FS_AddElement
<1>2. SumFunctionOnSet(f, I) \in Int
  BY SumType
<1>3. SumFunctionOnSet(g, I) = SumFunctionOnSet(f, I)
  BY SumsAgree
<1> HIDE DEF J
<1>4. SumFunctionOnSet(g, J) = g[x] + SumFunctionOnSet(g, I)
  BY <1>1, SumWithout
<1> QED BY <1>2, <1>3, <1>4 DEF J

\* Members that add nothing may be left out.
LEMMA SumOfPart ==
  ASSUME NEW I, IsFiniteSet(I), NEW K \in SUBSET I, NEW f, NEW g,
         \A s \in I : f[s] \in Int,
         \A s \in K : g[s] = f[s], \A s \in I \ K : f[s] = 0
  PROVE  SumFunctionOnSet(g, K) = SumFunctionOnSet(f, I)
<1> DEFINE F == {A \in SUBSET I :
                   SumFunctionOnSet(g, A \cap K) = SumFunctionOnSet(f, A)}
<1>1. ASSUME NEW A \in SUBSET I, \A B \in SUBSET A : B # A => B \in F
      PROVE  A \in F
  <2>1. IsFiniteSet(A) /\ IsFiniteSet(A \cap K)
    BY FS_Subset
  <2>2. CASE A = {}
    <3>1. A \cap K = {}
      BY <2>2
    <3> QED BY <2>1, <2>2, <3>1, SumStep
  <2>3. CASE A # {}
    <3> DEFINE c == First(A)
               B == A \ {c}
    <3>1. c \in A /\ B \in SUBSET A /\ B # A /\ B \in SUBSET I /\ c \in I
      BY <2>3, FirstIsMember
    <3>2. SumFunctionOnSet(f, A) = f[c] + SumFunctionOnSet(f, B)
      BY <2>1, <2>3, SumStep
    <3>3. SumFunctionOnSet(g, B \cap K) = SumFunctionOnSet(f, B)
      BY <1>1, <3>1
    <3>4. SumFunctionOnSet(f, B) \in Int
      BY <3>1, SumType
    <3>5. B \cap K = (A \cap K) \ {c}
      OBVIOUS
    <3> HIDE DEF c, B
    <3>6. CASE c \in K
      <4>1. \A s \in K : g[s] \in Int
        OBVIOUS
      <4>2. c \in A \cap K /\ A \cap K \in SUBSET K /\ IsFiniteSet(K)
        BY <3>1, <3>6, FS_Subset
      <4>3. SumFunctionOnSet(g, A \cap K)
            = g[c] + SumFunctionOnSet(g, (A \cap K) \ {c})
        BY <4>1, <4>2, SumWithout
      <4> QED BY <3>2, <3>3, <3>5, <3>6, <4>3
    <3>7. CASE c \notin K
      <4>1. f[c] = 0 /\ (A \cap K) \ {c} = A \cap K
        BY <3>1, <3>7
      <4> DEFINE u == SumFunctionOnSet(f, B)
      <4>2. u \in Int
        BY <3>4
      <4> HIDE DEF u
      <4>3. 0 + u = u
        BY <4>2
      <4>4. SumFunctionOnSet(f, A) = u /\ SumFunctionOnSet(g, A \cap K) = u
        BY <3>2, <3>3, <3>5, <4>1, <4>3 DEF u
      <4> QED BY <4>4
    <3> QED BY <3>6, <3>7
  <2> QED BY <2>2, <2>3
<1>2. \A A \in SUBSET I : A \in F
  <2> HIDE DEF F
  <2> QED BY <1>1, SubsetInduction
<1>3. I \in F /\ I \cap K = K
  BY <1>2
<1> QED BY <1>3

\* Sums are linear.
IsMix(h, I, a, f, b, g) ==
  \A s \in I : f[s] \in Int /\ g[s] \in Int /\ h[s] = a * f[s] + b * g[s]

LEMMA SumOfBoth ==
  ASSUME NEW I, IsFiniteSet(I), NEW f, NEW g, NEW h, NEW a \in Int, NEW b \in Int,
         IsMix(h, I, a, f, b, g)
  PROVE  /\ SumFunctionOnSet(f, I) \in Int /\ SumFunctionOnSet(g, I) \in Int
         /\ SumFunctionOnSet(h, I)
            = a * SumFunctionOnSet(f, I) + b * SumFunctionOnSet(g, I)
<1> DEFINE F == {A \in SUBSET I : SumFunctionOnSet(h, A)
                   = a * SumFunctionOnSet(f, A) + b * SumFunctionOnSet(g, A)}
<1>1. \A s \in I : f[s] \in Int /\ g[s] \in Int /\ h[s] \in Int
  BY DEF IsMix
<1>2. ASSUME NEW A \in SUBSET I, \A B \in SUBSET A : B # A => B \in F
      PROVE  A \in F
  <2>1. IsFiniteSet(A)
    BY FS_Subset
  <2>2. CASE A = {}
    <3>1. /\ SumFunctionOnSet(f, A) = 0 /\ SumFunctionOnSet(g, A) = 0
          /\ SumFunctionOnSet(h, A) = 0
      BY <1>1, <2>1, <2>2, SumStep
    <3> QED BY <3>1
  <2>3. CASE A # {}
    <3> DEFINE c == First(A)
               B == A \ {c}
               u == SumFunctionOnSet(f, B)
               v == SumFunctionOnSet(g, B)
    <3>1. c \in A /\ B \in SUBSET A /\ B # A /\ B \in SUBSET I /\ c \in I
      BY <2>3, FirstIsMember
    <3>2. /\ SumFunctionOnSet(f, A) = f[c] + u
          /\ SumFunctionOnSet(g, A) = g[c] + v
          /\ SumFunctionOnSet(h, A) = h[c] + SumFunctionOnSet(h, B)
      BY <1>1, <2>1, <2>3, SumStep
    <3>3. SumFunctionOnSet(h, B) = a * u + b * v
      BY <1>2, <3>1
    <3>4. u \in Int /\ v \in Int
      BY <1>1, <3>1, SumType
    <3>5. f[c] \in Int /\ g[c] \in Int /\ h[c] = a * f[c] + b * g[c]
      BY <3>1 DEF IsMix
    <3> HIDE DEF c, B, u, v
    <3>6. a * f[c] + b * g[c] + (a * u + b * v) = a * (f[c] + u) + b * (g[c] + v)
      BY <3>4, <3>5
    <3> QED BY <3>2, <3>3, <3>5, <3>6
  <2> QED BY <2>2, <2>3
<1>3. \A A \in SUBSET I : A \in F
  <2> HIDE DEF F
  <2> QED BY <1>2, SubsetInduction
<1>4. I \in F
  BY <1>3
<1> QED BY <1>1, <1>4, SumType

LEMMA SumOfAffine ==
  ASSUME NEW I, IsFiniteSet(I), NEW f, NEW g, NEW a \in Int, NEW b \in Int,
         \A s \in I : f[s] \in Int /\ g[s] = a * f[s] + b
  PROVE  /\ SumFunctionOnSet(f, I) \in Int
         /\ SumFunctionOnSet(g, I) = a * SumFunctionOnSet(f, I) + Cardinality(I) * b
<1> DEFINE one == [s \in I |-> 1]
<1>1. \A s \in I : /\ one[s] = 1 /\ one[s] \in Int
                   /\ f[s] \in Int /\ g[s] = a * f[s] + b * one[s]
  OBVIOUS
<1> HIDE DEF one
<1>2. /\ SumFunctionOnSet(f, I) \in Int
      /\ SumFunctionOnSet(g, I)
         = a * SumFunctionOnSet(f, I) + b * SumFunctionOnSet(one, I)
  <2>1. IsMix(g, I, a, f, b, one)
    BY <1>1 DEF IsMix
  <2> QED BY <2>1, SumOfBoth
<1>3. SumFunctionOnSet(one, I) = Cardinality(I) * 1 /\ Cardinality(I) \in Nat
  <2>1. 1 \in Int
    OBVIOUS
  <2> QED BY <1>1, <2>1, SumOfConstant, FS_CardinalityType
<1> QED BY <1>2, <1>3
==============================================================================
