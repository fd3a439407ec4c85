-------------------------- MODULE ScoutCadenceProofs -------------------------
(* The planner keeps its types, hands out its budget and no more, never       *)
(* inverts two sources, overserves none and, when neither floors nor caps     *)
(* interfere, keeps every source within a scan of its share: for every set of *)
(* sources, every share and every valid policy.                               *)
EXTENDS ScoutCadence, FiniteSums

------------------------------------------------------------------------------
(* The weights.                                                               *)

LEMMA TimesIsMonotonic ==
  ASSUME NEW a \in Nat, NEW b \in Nat, NEW n \in Nat, a > b, n >= 1
  PROVE  a * n > b * n
<1>1. a >= b + 1
  OBVIOUS
<1>2. PICK d \in Nat : a = b + 1 + d
  <2>1. a - b - 1 \in Nat /\ a = b + 1 + (a - b - 1)
    BY <1>1
  <2> QED BY <2>1
<1>3. a * n = b * n + n + d * n
  BY <1>2
<1>4. d * n \in Nat /\ b * n \in Nat
  BY <1>2
<1> QED BY <1>3, <1>4

\* What one call works with: a finite set of candidates, numbers for weights.
LEMMA Weights ==
  ASSUME TypeOK
  PROVE  /\ IsFiniteSet(sources) /\ Cardinality(sources) \in Nat
         /\ policy.budget \in Nat /\ policy.floor \in Nat /\ policy.cap \in Nat
         /\ policy.budget >= 1
         /\ TotalWeight \in Nat
         /\ \A s \in sources : Weight(s) \in Nat
         /\ \A s, t \in sources : share[s] > share[t] => Weight(s) > Weight(t)
<1>1. IsFiniteSet(sources) /\ Cardinality(sources) \in Nat
  BY SourcesAreNumbers, FS_Subset, FS_CardinalityType DEF TypeOK
<1>2. policy \in [budget : Nat, floor : Nat, cap : Nat] /\ policy.budget >= 1
  BY PoliciesAreValid DEF TypeOK, ValidPolicy
<1>3. TotalShare \in Nat /\ \A s \in sources : share[s] <= TotalShare
  <2>1. DOMAIN share = sources /\ \A s \in sources : share[s] \in Nat
    BY SharesAreNat DEF TypeOK
  <2>2. TotalShare = SumFunctionOnSet(share, sources)
    BY <2>1 DEF TotalShare, SumFunction
  <2> QED BY <1>1, <2>1, <2>2, SumBoundsMembers
<1>4. \A s \in sources : share[s] \in Nat
  BY SharesAreNat DEF TypeOK
<1>5. TotalWeight \in Nat /\ \A s \in sources : Weight(s) \in Nat
  BY <1>1, <1>3, <1>4 DEF TotalWeight, Weight
<1>6. ASSUME NEW s \in sources, NEW t \in sources, share[s] > share[t]
      PROVE  Weight(s) > Weight(t)
  <2>1. share[s] \in Nat /\ share[t] \in Nat /\ share[s] <= TotalShare
    BY <1>3, <1>4
  <2>2. TotalShare > 0
    BY <2>1, <1>3, <1>6
  <2> QED BY <2>2, <1>6 DEF Weight
<1> QED BY <1>1, <1>2, <1>5, <1>6

LEMMA TypeInductive ==
  ASSUME TypeOK, [Next]_vars
  PROVE  TypeOK'
<1> USE DEF TypeOK, Statuses, inputs
<1>1. CASE NoSources
  BY <1>1 DEF NoSources
<1>2. CASE BudgetTooSmall
  BY <1>2 DEF BudgetTooSmall
<1>3. CASE ReserveFloor
  <2>1. Cardinality(sources) * policy.floor \in Nat
    BY Weights
  <2>2. Cardinality(sources) * policy.floor <= policy.budget
    BY <1>3 DEF ReserveFloor, FloorsFit
  <2>3. remaining' \in Nat
    BY <1>3, <2>1, <2>2, Weights DEF ReserveFloor
  <2>4. allocations' \in [sources' -> Nat]
    BY <1>3, Weights DEF ReserveFloor
  <2> QED BY <1>3, <2>3, <2>4 DEF ReserveFloor
<1>4. ASSUME NEW s \in sources, Grant(s) PROVE TypeOK'
  BY <1>4 DEF Grant
<1>5. CASE Finish
  BY <1>5 DEF Finish
<1>6. CASE UNCHANGED vars
  BY <1>6 DEF vars
<1> QED BY <1>1, <1>2, <1>3, <1>4, <1>5, <1>6 DEF Next

\* Every variable keeps its type; the budget is never overdrawn.
THEOREM TypeCorrect == Spec => []TypeOK
<1>1. Init => TypeOK
  BY DEF Init, TypeOK, Statuses
<1>2. TypeOK /\ [Next]_vars => TypeOK'
  BY TypeInductive
<1> QED BY <1>1, <1>2, PTL DEF Spec

\* The only step that can invert two sources is a grant to the lighter one,
\* and then the heavier one, being as far from its cap, would have outbid it.
LEMMA GrantKeepsOrder ==
  ASSUME TypeOK, NoInversion, NEW t \in sources, Grant(t)
  PROVE  NoInversion'
<1> USE DEF TypeOK
<1> SUFFICES ASSUME NEW a \in sources, NEW b \in sources, share[a] > share[b]
             PROVE  allocations'[a] >= allocations'[b]
  BY DEF NoInversion, Grant, inputs
<1>1. allocations[a] \in Nat /\ allocations[b] \in Nat
  OBVIOUS
<1>2. allocations[a] >= allocations[b]
  BY DEF NoInversion
<1>3. CASE t # b
  BY <1>1, <1>2, <1>3 DEF Grant
<1>4. CASE t = b /\ allocations[a] > allocations[b]
  BY <1>1, <1>4 DEF Grant
<1>5. CASE t = b /\ allocations[a] = allocations[b]
  <2> DEFINE spent == allocations[b] * TotalWeight
  <2>1. a \in Eligible
    BY <1>5 DEF Grant, Eligible
  <2>2. Distance(a) <= Distance(b)
    <3>1. NotOutbid(b, a)
      BY <2>1, <1>5 DEF Grant
    <3>2. Distance(a) \in Int /\ Distance(b) \in Int
      BY <1>1, Weights DEF Distance
    <3> QED BY <3>1, <3>2 DEF NotOutbid
  <2>3. Weight(a) * policy.budget > Weight(b) * policy.budget
    BY Weights, TimesIsMonotonic
  <2>4. spent \in Int /\ Weight(a) * policy.budget \in Int
                      /\ Weight(b) * policy.budget \in Int
    BY <1>1, Weights
  <2>5. /\ Distance(a) = Weight(a) * policy.budget - spent
        /\ Distance(b) = Weight(b) * policy.budget - spent
    BY <1>5 DEF Distance
  <2> HIDE DEF spent
  <2>6. FALSE
    BY <2>2, <2>3, <2>4, <2>5
  <2> QED BY <2>6
<1> QED BY <1>1, <1>2, <1>3, <1>4, <1>5

\* More attention never means fewer scans.
THEOREM SharesKeepTheirOrder == Spec => []NoInversion
<1>1. Init => NoInversion
  BY DEF Init, NoInversion
<1>2. TypeOK /\ NoInversion /\ [Next]_vars => NoInversion'
  <2> SUFFICES ASSUME TypeOK, NoInversion, [Next]_vars PROVE NoInversion'
    OBVIOUS
  <2>1. ASSUME NEW s \in sources, Grant(s) PROVE NoInversion'
    BY <2>1, GrantKeepsOrder
  <2>2. CASE ReserveFloor
    <3>1. \A s, t \in sources : allocations'[s] >= allocations'[t]
      BY <2>2, Weights DEF ReserveFloor
    <3> QED BY <2>2, <3>1 DEF ReserveFloor, inputs, NoInversion
  <2>3. CASE NoSources \/ BudgetTooSmall \/ Finish \/ UNCHANGED vars
    BY <2>3 DEF NoSources, BudgetTooSmall, Finish, vars, inputs, NoInversion
  <2> QED BY <2>1, <2>2, <2>3 DEF Next
<1>3. Spec => []TypeOK
  BY TypeCorrect
<1> QED BY <1>1, <1>2, <1>3, PTL DEF Spec

------------------------------------------------------------------------------
(* The budget.                                                                *)

WeightOf == [s \in sources |-> Weight(s)]
Given == SumFunctionOnSet(allocations, sources)

LEMMA TotalsAgree ==
  ASSUME TypeOK
  PROVE  /\ SumFunctionOnSet(WeightOf, sources) = TotalWeight
         /\ TotalScans(allocations) = Given /\ Given \in Nat
         /\ sources # {} => TotalWeight >= 1
<1>1. IsFiniteSet(sources) /\ TotalWeight \in Nat /\ Cardinality(sources) \in Nat
  BY Weights
<1>2. SumFunctionOnSet(WeightOf, sources) = TotalWeight
  <2>1. CASE TotalShare > 0
    <3>1. /\ \A s \in sources : WeightOf[s] \in Int /\ WeightOf[s] = share[s]
          /\ DOMAIN share = sources
      BY <2>1, Weights DEF TypeOK, WeightOf, Weight
    <3>2. SumFunctionOnSet(WeightOf, sources) = SumFunctionOnSet(share, sources)
      BY <1>1, <3>1, SumsAgree
    <3> QED BY <2>1, <3>1, <3>2 DEF TotalWeight, TotalShare, SumFunction
  <2>2. CASE ~(TotalShare > 0)
    <3>1. \A s \in sources : WeightOf[s] = 1
      BY <2>2 DEF WeightOf, Weight
    <3>2. SumFunctionOnSet(WeightOf, sources) = Cardinality(sources) * 1
      <4>1. 1 \in Int
        OBVIOUS
      <4> QED BY <1>1, <3>1, <4>1, SumOfConstant
    <3> QED BY <1>1, <2>2, <3>2 DEF TotalWeight
  <2> QED BY <2>1, <2>2
<1>3. TotalScans(allocations) = Given
  <2>1. DOMAIN allocations = sources
    BY DEF TypeOK
  <2> QED BY <2>1 DEF TotalScans, SumFunction, Given
<1>4. Given \in Nat
  <2>1. \A s \in sources : allocations[s] \in Nat
    BY DEF TypeOK
  <2> QED BY <1>1, <2>1, SumBoundsMembers DEF Given
<1>5. ASSUME sources # {} PROVE TotalWeight >= 1
  <2>1. CASE TotalShare > 0
    BY <1>1, <2>1 DEF TotalWeight
  <2>2. CASE ~(TotalShare > 0)
    <3>1. Cardinality(sources) # 0
      BY <1>1, <1>5, FS_EmptySet
    <3> QED BY <1>1, <2>2, <3>1 DEF TotalWeight
  <2> QED BY <2>1, <2>2
<1> QED BY <1>2, <1>3, <1>4, <1>5

LEMMA DistanceIsInt ==
  ASSUME TypeOK
  PROVE  \A s \in sources :
           /\ Distance(s) \in Int /\ Weight(s) \in Nat /\ WeightOf[s] = Weight(s)
           /\ allocations[s] \in Nat /\ allocations[s] * TotalWeight \in Nat
           /\ Weight(s) * policy.budget \in Nat
           /\ Distance(s) = Weight(s) * policy.budget - allocations[s] * TotalWeight
<1> SUFFICES ASSUME NEW s \in sources
             PROVE  /\ Distance(s) \in Int /\ Weight(s) \in Nat
                    /\ WeightOf[s] = Weight(s)
                    /\ allocations[s] \in Nat /\ allocations[s] * TotalWeight \in Nat
                    /\ Weight(s) * policy.budget \in Nat
                    /\ Distance(s) = Weight(s) * policy.budget
                                     - allocations[s] * TotalWeight
  OBVIOUS
<1>1. Weight(s) \in Nat /\ policy.budget \in Nat /\ TotalWeight \in Nat
      /\ allocations[s] \in Nat
  BY Weights DEF TypeOK
<1>2. Weight(s) * policy.budget \in Nat /\ allocations[s] * TotalWeight \in Nat
  BY <1>1
<1> QED BY <1>1, <1>2 DEF Distance, WeightOf

\* While scans of the budget are left, some source is short of its target: the
\* distances add up to what is left.
LEMMA SomeoneIsShort ==
  ASSUME TypeOK, sources # {}, Given + remaining = policy.budget, remaining > 0
  PROVE  \E s \in sources : Distance(s) > 0
<1> SUFFICES ASSUME \A s \in sources : Distance(s) <= 0 PROVE FALSE
  BY DistanceIsInt
<1> DEFINE b == policy.budget  w == TotalWeight  g == Given
           weights == SumFunctionOnSet(WeightOf, sources)
<1>1. /\ IsFiniteSet(sources) /\ b \in Int /\ w \in Int /\ w >= 1
      /\ g \in Nat /\ weights = w /\ b >= 1
  BY Weights, TotalsAgree
<1>2. \A s \in sources : /\ WeightOf[s] \in Int /\ allocations[s] \in Int
                         /\ b * WeightOf[s] <= w * allocations[s]
  <2> TAKE s \in sources
  <2> DEFINE x == WeightOf[s]  a == allocations[s]
  <2>1. x \in Int /\ a \in Int /\ x * b - a * w <= 0
    BY DistanceIsInt
  <2> HIDE DEF x, a, b, w
  <2>2. x * b \in Int /\ a * w \in Int /\ x * b = b * x /\ a * w = w * a
    BY <1>1, <2>1
  <2>3. b * x <= w * a
    BY <2>1, <2>2
  <2> QED BY <2>1, <2>3 DEF x, a
<1>3. b * weights <= w * g
  <2> HIDE DEF b, w
  <2> QED BY <1>1, <1>2, SumsCompare DEF g, Given
<1>4. b = g + remaining /\ remaining \in Nat /\ remaining >= 1
  BY DEF TypeOK
<1> HIDE DEF b, w, g, weights
<1>5. b * w = w * g + w * remaining
  BY <1>1, <1>4
<1>6. w * remaining >= 1
  <2>1. PICK d \in Nat : w = d + 1
    <3>1. w - 1 \in Nat /\ w = (w - 1) + 1
      BY <1>1
    <3> QED BY <3>1
  <2>2. (d + 1) * remaining = d * remaining + remaining /\ d * remaining \in Nat
    BY <1>4
  <2> QED BY <1>4, <2>1, <2>2
<1>7. w * g \in Int /\ w * remaining \in Int
  BY <1>1, <1>4
<1> QED BY <1>1, <1>3, <1>5, <1>6, <1>7

\* With the whole budget given, none is short unless another has too much.
LEMMA NoneIsShortAlone ==
  ASSUME TypeOK, sources # {}, Given = policy.budget,
         \A t \in sources : Distance(t) >= 0
  PROVE  \A s \in sources : Distance(s) <= 0
<1> SUFFICES ASSUME NEW s \in sources, Distance(s) > 0 PROVE FALSE
  BY DistanceIsInt
<1> DEFINE b == policy.budget  w == TotalWeight
           rest == sources \ {s}
           x == WeightOf[s]  a == allocations[s]
           u == SumFunctionOnSet(allocations, rest)
           v == SumFunctionOnSet(WeightOf, rest)
<1>1. /\ IsFiniteSet(sources) /\ IsFiniteSet(rest) /\ b \in Int /\ w \in Int
      /\ rest \in SUBSET sources /\ sources \in SUBSET sources
  BY Weights, FS_Subset
<1>2. \A t \in sources : /\ WeightOf[t] \in Int /\ allocations[t] \in Int
                         /\ w * allocations[t] <= b * WeightOf[t]
  <2> TAKE t \in sources
  <2> DEFINE y == WeightOf[t]  c == allocations[t]
  <2>1. y \in Int /\ c \in Int /\ y * b - c * w >= 0
    BY DistanceIsInt
  <2> HIDE DEF y, c, b, w
  <2>2. y * b \in Int /\ c * w \in Int /\ y * b = b * y /\ c * w = w * c
    BY <1>1, <2>1
  <2>3. w * c <= b * y
    BY <2>1, <2>2
  <2> QED BY <2>1, <2>3 DEF y, c
<1>3. w * a < b * x /\ x \in Int /\ a \in Int
  <2>1. x \in Int /\ a \in Int /\ x * b - a * w > 0
    BY DistanceIsInt
  <2> HIDE DEF x, a, b, w
  <2>2. x * b \in Int /\ a * w \in Int /\ x * b = b * x /\ a * w = w * a
    BY <1>1, <2>1
  <2> QED BY <2>1, <2>2
<1>4. u \in Int /\ v \in Int
  BY <1>1, <1>2, SumType
<1>5. w * u <= b * v
  <2> HIDE DEF b, w, rest
  <2> QED BY <1>1, <1>2, SumsCompare
<1>6. b = a + u
  <2>1. Given = a + u
    BY <1>1, <1>2, SumWithout DEF Given
  <2> QED BY <2>1
<1>7. w = x + v
  <2>1. SumFunctionOnSet(WeightOf, sources) = x + v
    BY <1>1, <1>2, SumWithout
  <2> QED BY <2>1, TotalsAgree
<1> HIDE DEF b, w, a, x, u, v
<1>8. w * a + w * u < b * x + b * v
  <2>1. w * a \in Int /\ w * u \in Int /\ b * x \in Int /\ b * v \in Int
    BY <1>1, <1>3, <1>4
  <2> QED BY <1>3, <1>5, <2>1
<1>9. w * b = w * a + w * u /\ b * w = b * x + b * v /\ w * b = b * w
  BY <1>1, <1>3, <1>4, <1>6, <1>7
<1> QED BY <1>1, <1>8, <1>9

------------------------------------------------------------------------------
(* The plan.                                                                  *)

Planned == status \in {"planning", "READY"}

BudgetInv ==
  /\ ~Planned => allocations = [s \in sources |-> 0]
  /\ Planned =>
       /\ sources # {}
       /\ \A s \in sources : policy.floor <= allocations[s] /\ allocations[s] <= policy.cap
       /\ Given + remaining = policy.budget
  /\ status = "READY" => remaining = 0 \/ Eligible = {}

\* Who was given more than its floor was furthest from its target when it got
\* its last scan, so no one who can still be given one is a scan further off.
Balanced ==
  \A t \in sources : allocations[t] > policy.floor =>
    \A s \in Eligible : Distance(s) <= Distance(t) + TotalWeight

PlanInv == TypeOK /\ BudgetInv /\ Balanced /\ NoOverserving

\* A source with at most its floor says nothing.
LEMMA FloorIsFair ==
  ASSUME \A s \in sources : ~(allocations[s] > policy.floor)
  PROVE  Balanced /\ NoOverserving
BY DEF Balanced, NoOverserving

LEMMA PlanInvInit == Init => PlanInv
<1> SUFFICES ASSUME Init PROVE PlanInv
  OBVIOUS
<1>1. TypeOK
  BY DEF Init, TypeOK, Statuses
<1>2. BudgetInv
  BY DEF Init, BudgetInv, Planned
<1>3. \A s \in sources : ~(allocations[s] > policy.floor)
  BY <1>1, Weights DEF Init
<1> QED BY <1>1, <1>2, <1>3, FloorIsFair DEF PlanInv

LEMMA ReserveFloorKeepsPlan ==
  ASSUME PlanInv, ReserveFloor PROVE PlanInv'
<1> DEFINE floors == [s \in sources |-> policy.floor]
           n == Cardinality(sources)
<1>1. /\ TypeOK' /\ sources # {} /\ status' = "planning" /\ allocations' = floors
      /\ remaining' = policy.budget - n * policy.floor
      /\ UNCHANGED <<sources, policy, share>>
  BY TypeInductive DEF PlanInv, ReserveFloor, Next, inputs
<1>2. IsFiniteSet(sources) /\ n \in Nat /\ policy.floor \in Nat /\ policy.cap \in Nat
      /\ policy.budget \in Nat /\ policy.floor <= policy.cap
  <2>1. ValidPolicy(policy)
    BY PoliciesAreValid DEF PlanInv, TypeOK
  <2> QED BY <2>1, Weights DEF PlanInv, ValidPolicy
<1>3. SumFunctionOnSet(floors, sources) = n * policy.floor
  <2> DEFINE k == policy.floor
  <2>1. k \in Int /\ \A s \in sources : floors[s] = k
    BY <1>2
  <2> HIDE DEF floors, k
  <2>2. SumFunctionOnSet(floors, sources) = Cardinality(sources) * k
    BY <1>2, <2>1, SumOfConstant
  <2> QED BY <2>2 DEF k
<1>4. Given' + remaining' = policy.budget
  <2>1. Given' = n * policy.floor /\ n * policy.floor \in Nat
    BY <1>1, <1>2, <1>3 DEF Given
  <2> HIDE DEF n
  <2> QED BY <1>1, <1>2, <2>1
<1>5. BudgetInv'
  BY <1>1, <1>2, <1>4 DEF BudgetInv, Planned
<1>6. \A s \in sources' : ~(allocations'[s] > policy'.floor)
  BY <1>1, <1>2
<1>7. Balanced' /\ NoOverserving'
  BY <1>6 DEF Balanced, NoOverserving
<1> QED BY <1>1, <1>5, <1>7 DEF PlanInv

LEMMA GrantKeepsPlan ==
  ASSUME PlanInv, NEW u \in sources, Grant(u) PROVE PlanInv'
<1>1. /\ TypeOK /\ TypeOK' /\ status = "planning" /\ remaining > 0 /\ u \in Eligible
      /\ \A t \in Eligible : NotOutbid(u, t)
      /\ allocations' = [allocations EXCEPT ![u] = @ + 1]
      /\ remaining' = remaining - 1
      /\ UNCHANGED <<sources, policy, share, status>>
  BY TypeInductive DEF PlanInv, Grant, Next, inputs
<1>2. /\ sources # {} /\ Given + remaining = policy.budget
      /\ \A s \in sources : policy.floor <= allocations[s]
                            /\ allocations[s] <= policy.cap
  BY <1>1 DEF PlanInv, BudgetInv, Planned
<1>3. /\ policy.floor \in Nat /\ policy.cap \in Nat /\ policy.budget \in Nat
      /\ TotalWeight \in Nat /\ Given \in Nat /\ remaining \in Nat
      /\ IsFiniteSet(sources) /\ allocations \in [sources -> Nat]
  BY <1>1, Weights, TotalsAgree DEF TypeOK
<1>4. /\ TotalWeight' = TotalWeight /\ \A s \in sources : Weight(s)' = Weight(s)
  BY <1>1 DEF TotalWeight, Weight, TotalShare
<1>5. /\ allocations'[u] = allocations[u] + 1
      /\ \A s \in sources : s # u => allocations'[s] = allocations[s]
  BY <1>1, <1>3
<1>6. Given' = Given + 1
  <2>1. allocations \in [sources -> Int]
    BY <1>3
  <2> QED BY <1>1, <1>3, <2>1, SumOfMore DEF Given
<1>7. BudgetInv'
  <2>1. Given' + remaining' = policy.budget
    BY <1>1, <1>2, <1>3, <1>6
  <2>2. \A s \in sources : policy.floor <= allocations'[s]
                           /\ allocations'[s] <= policy.cap
    BY <1>1, <1>2, <1>3, <1>5 DEF Eligible
  <2> QED BY <1>1, <1>2, <2>1, <2>2 DEF BudgetInv, Planned
<1>8. \A s \in Eligible : Distance(s) <= Distance(u)
  <2> SUFFICES ASSUME NEW s \in Eligible PROVE Distance(s) <= Distance(u)
    OBVIOUS
  <2>1. Distance(s) \in Int /\ Distance(u) \in Int
    BY <1>1, DistanceIsInt DEF Eligible
  <2>2. NotOutbid(u, s)
    BY <1>1
  <2> QED BY <2>1, <2>2 DEF NotOutbid
<1>9. /\ Distance(u)' = Distance(u) - TotalWeight
      /\ \A s \in sources : s # u => Distance(s)' = Distance(s)
  <2>1. Distance(u)' = Weight(u) * policy.budget - (allocations[u] + 1) * TotalWeight
    BY <1>1, <1>4, <1>5 DEF Distance
  <2>2. (allocations[u] + 1) * TotalWeight = allocations[u] * TotalWeight + TotalWeight
    BY <1>3
  <2>3. /\ Distance(u) = Weight(u) * policy.budget - allocations[u] * TotalWeight
        /\ Weight(u) * policy.budget \in Nat /\ allocations[u] * TotalWeight \in Nat
    BY <1>1, DistanceIsInt
  <2>4. Distance(u)' = Distance(u) - TotalWeight
    BY <1>3, <2>1, <2>2, <2>3
  <2>5. \A s \in sources : s # u => Distance(s)' = Distance(s)
    BY <1>1, <1>4, <1>5 DEF Distance
  <2> QED BY <2>4, <2>5
<1>10. Eligible' \subseteq Eligible
  BY <1>1, <1>3, <1>5 DEF Eligible
<1>11. Balanced'
  <2> SUFFICES ASSUME NEW t \in sources, allocations'[t] > policy.floor,
                      NEW s \in Eligible'
               PROVE  Distance(s)' <= Distance(t)' + TotalWeight
    BY <1>1, <1>4 DEF Balanced
  <2>1. s \in Eligible /\ s \in sources
    BY <1>10 DEF Eligible
  <2>2. Distance(s) \in Int /\ Distance(t) \in Int /\ Distance(u) \in Int
    BY <1>1, <2>1, DistanceIsInt
  <2>3. Distance(s)' \in Int /\ Distance(s)' <= Distance(s)
    BY <1>3, <1>9, <2>1, <2>2
  <2>4. CASE t = u
    BY <1>3, <1>8, <1>9, <2>1, <2>2, <2>3, <2>4
  <2>5. CASE t # u
    <3>1. Distance(s) <= Distance(t) + TotalWeight /\ Distance(t)' = Distance(t)
      BY <1>5, <1>9, <2>1, <2>5 DEF PlanInv, Balanced
    <3> QED BY <1>3, <2>2, <2>3, <3>1
  <2> QED BY <2>4, <2>5
<1>12. NoOverserving'
  <2> SUFFICES ASSUME \A s \in sources : allocations'[s] < policy.cap,
                      NEW s \in sources, allocations'[s] > policy.floor
               PROVE  (allocations'[s] - 1) * TotalWeight < Weight(s) * policy.budget
    BY <1>1, <1>4 DEF NoOverserving
  <2>1. \A t \in sources : allocations[t] < policy.cap
    BY <1>1, <1>3, <1>5
  <2>2. CASE s # u
    BY <1>5, <2>1, <2>2 DEF PlanInv, NoOverserving
  <2>3. CASE s = u
    <3>1. PICK short \in sources : Distance(short) > 0
      BY <1>1, <1>2, SomeoneIsShort
    <3>2. Distance(short) <= Distance(u)
      BY <1>8, <2>1 DEF Eligible
    <3>3. /\ Distance(short) \in Int /\ Weight(u) * policy.budget \in Nat
          /\ allocations[u] * TotalWeight \in Nat
          /\ Distance(u) = Weight(u) * policy.budget - allocations[u] * TotalWeight
      BY <1>1, DistanceIsInt
    <3>4. allocations[u] * TotalWeight < Weight(u) * policy.budget
      BY <3>1, <3>2, <3>3
    <3>5. allocations'[u] - 1 = allocations[u]
      BY <1>3, <1>5
    <3> QED BY <2>3, <3>4, <3>5
  <2> QED BY <2>2, <2>3
<1> QED BY <1>1, <1>7, <1>11, <1>12 DEF PlanInv

LEMMA PlanInvStep == PlanInv /\ [Next]_vars => PlanInv'
<1> SUFFICES ASSUME PlanInv, [Next]_vars PROVE PlanInv'
  OBVIOUS
<1>1. TypeOK'
  BY TypeInductive DEF PlanInv
<1>2. CASE ReserveFloor
  BY <1>2, ReserveFloorKeepsPlan
<1>3. ASSUME NEW s \in sources, Grant(s) PROVE PlanInv'
  BY <1>3, GrantKeepsPlan
<1>4. CASE NoSources \/ BudgetTooSmall \/ Finish \/ UNCHANGED vars
  <2>1. UNCHANGED <<sources, policy, share, allocations, remaining>>
    BY <1>4 DEF NoSources, BudgetTooSmall, Finish, vars, inputs
  <2>2. Balanced' /\ NoOverserving'
    BY <2>1 DEF PlanInv, Balanced, NoOverserving, Eligible, Distance, Weight,
                TotalWeight, TotalShare
  <2>3. Given' = Given /\ Eligible' = Eligible
    BY <2>1 DEF Given, Eligible
  <2>4. BudgetInv'
    <3>1. CASE NoSources \/ BudgetTooSmall
      BY <2>1, <3>1 DEF PlanInv, BudgetInv, Planned, NoSources, BudgetTooSmall
    <3>2. CASE Finish
      BY <2>1, <2>3, <3>2 DEF PlanInv, BudgetInv, Planned, Finish
    <3>3. CASE UNCHANGED vars
      BY <2>1, <2>3, <3>3 DEF PlanInv, BudgetInv, Planned, vars
    <3> QED BY <1>4, <3>1, <3>2, <3>3
  <2> QED BY <1>1, <2>2, <2>4 DEF PlanInv
<1> QED BY <1>2, <1>3, <1>4 DEF Next

\* A READY answer is a plan within floor, cap and budget, and it leaves scans
\* unallocated only when every source is at its cap.
THEOREM PlansAreReady == Spec => []PlanIsReady
<1>1. PlanInv => PlanIsReady
  <2> SUFFICES ASSUME PlanInv, status = "READY"
               PROVE  allocations \in ReadyPlans(policy, sources)
    BY DEF PlanIsReady
  <2>1. /\ TypeOK /\ allocations \in [sources -> Nat] /\ remaining \in Nat
        /\ \A s \in sources : policy.floor <= allocations[s]
                              /\ allocations[s] <= policy.cap
        /\ Given + remaining = policy.budget /\ (remaining = 0 \/ Eligible = {})
    BY DEF PlanInv, BudgetInv, Planned, TypeOK
  <2>2. /\ policy.floor \in Nat /\ policy.cap \in Nat /\ policy.budget \in Nat
        /\ TotalScans(allocations) = Given /\ Given \in Nat
    BY <2>1, Weights, TotalsAgree
  <2>3. allocations \in [sources -> policy.floor .. policy.cap]
    BY <2>1, <2>2
  <2>4. Given <= policy.budget
    BY <2>1, <2>2
  <2>5. Given = policy.budget \/ \A s \in sources : allocations[s] = policy.cap
    <3>1. CASE remaining = 0
      BY <2>1, <2>2, <3>1
    <3>2. CASE Eligible = {}
      BY <2>1, <2>2, <3>2 DEF Eligible
    <3> QED BY <2>1, <3>1, <3>2
  <2> QED BY <2>2, <2>3, <2>4, <2>5 DEF ReadyPlans
<1> QED BY <1>1, PlanInvInit, PlanInvStep, PTL DEF Spec

\* While none is capped, no source gets a scan beyond its rounded up target,
\* but for its floor.
THEOREM NoneIsOverserved == Spec => []NoOverserving
<1>1. PlanInv => NoOverserving
  BY DEF PlanInv
<1> QED BY <1>1, PlanInvInit, PlanInvStep, PTL DEF Spec

\* Without floor and caps in the way every source ends within a scan of its
\* proportional target.
THEOREM QuotaIsKept == Spec => []KeepsQuota
<1>1. PlanInv => KeepsQuota
  <2> SUFFICES ASSUME PlanInv, status = "READY", policy.floor = 0,
                      policy.cap > policy.budget, NEW s \in sources
               PROVE  /\ - TotalWeight < allocations[s] * TotalWeight
                                         - Weight(s) * policy.budget
                      /\ allocations[s] * TotalWeight - Weight(s) * policy.budget
                           < TotalWeight
    BY DEF KeepsQuota
  <2>1. /\ TypeOK /\ sources # {} /\ remaining \in Nat
        /\ Given + remaining = policy.budget /\ (remaining = 0 \/ Eligible = {})
    BY DEF PlanInv, BudgetInv, Planned, TypeOK
  <2>2. /\ IsFiniteSet(sources) /\ Given \in Nat /\ TotalWeight \in Nat
        /\ TotalWeight >= 1 /\ policy.cap \in Nat /\ policy.budget \in Nat
    BY <2>1, Weights, TotalsAgree
  <2>3. \A t \in sources : allocations[t] \in Nat /\ allocations[t] < policy.cap
    <3>1. \A t \in sources : allocations[t] \in Nat
      BY <2>1 DEF TypeOK
    <3>2. \A t \in sources : allocations[t] <= Given
      BY <2>2, <3>1, SumBoundsMembers DEF Given
    <3> QED BY <2>1, <2>2, <3>1, <3>2
  <2>4. Eligible = sources /\ Given = policy.budget
    <3>1. Eligible = sources
      BY <2>3 DEF Eligible
    <3> QED BY <2>1, <2>2, <3>1
  <2> DEFINE a == allocations[s] * TotalWeight
             x == Weight(s) * policy.budget
  <2>5. a \in Nat /\ x \in Nat /\ Distance(s) = x - a
    BY <2>1, DistanceIsInt
  <2>6. a - x < TotalWeight
    <3>1. CASE allocations[s] = 0
      BY <2>2, <2>5, <3>1
    <3>2. CASE allocations[s] > 0
      <4>1. (allocations[s] - 1) * TotalWeight < x
        BY <2>3, <3>2 DEF PlanInv, NoOverserving
      <4>2. (allocations[s] - 1) * TotalWeight = a - TotalWeight
        BY <2>2, <2>3
      <4> HIDE DEF a, x
      <4> QED BY <2>2, <2>5, <4>1, <4>2
    <3> QED BY <2>3, <3>1, <3>2
  <2>7. x - a < TotalWeight
    <3> SUFFICES ASSUME Distance(s) >= TotalWeight PROVE FALSE
      <4> HIDE DEF a, x
      <4> QED BY <2>2, <2>5
    <3>1. ASSUME NEW t \in sources PROVE Distance(t) >= 0
      <4>1. /\ Distance(t) \in Int /\ Distance(s) \in Int
            /\ Weight(t) * policy.budget \in Nat
            /\ Distance(t) = Weight(t) * policy.budget - allocations[t] * TotalWeight
        BY <2>1, DistanceIsInt
      <4>2. CASE allocations[t] = 0
        BY <2>2, <4>1, <4>2
      <4>3. CASE allocations[t] > 0
        <5>1. Distance(s) <= Distance(t) + TotalWeight
          BY <2>4, <4>3 DEF PlanInv, Balanced
        <5> QED BY <2>2, <4>1, <5>1
      <4> QED BY <2>3, <4>2, <4>3
    <3>2. Distance(s) <= 0
      BY <2>1, <2>4, <3>1, NoneIsShortAlone
    <3> HIDE DEF a, x
    <3> QED BY <2>2, <2>5, <3>2
  <2> HIDE DEF a, x
  <2>8. - TotalWeight < a - x /\ a - x < TotalWeight
    BY <2>2, <2>5, <2>6, <2>7
  <2> QED BY <2>8 DEF a, x
<1> QED BY <1>1, PlanInvInit, PlanInvStep, PTL DEF Spec
==============================================================================
