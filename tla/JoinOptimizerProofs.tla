------------------------ MODULE JoinOptimizerProofs ------------------------
(***************************************************************************)
(* The plans in the PlanCache of lab 4 and the orders order_joins returns, *)
(* for queries over any number of joins and whatever the tables cost.      *)
(*                                                                         *)
(* That a plan covers its subset comes down to which join is tried next:   *)
(* First chooses from todo, and there is a first join in it, because a     *)
(* search is of equalities, which differ in a table or a field.            *)
(* That a query is ordered completely comes down to its joins: a set of    *)
(* joins that hangs together has one without which it still does.          *)
(***************************************************************************)
EXTENDS JoinOptimizer, Integers, FiniteSetTheorems, SequenceTheorems, WellFoundedInduction, TLAPS

\* What holds of a plan for js: an unset one is empty.
PlanOf(order, js) ==
    /\ order \in Seq(Join)
    /\ order # <<>> => Covers(order, js) /\ NoCrossProduct(order)

\* Where a search may be: it is of equalities, its subsets are not empty, and the best plan
\* so far is one of the subset under consideration.
SearchInv ==
    /\ joins \in Queries
    /\ phase = "search" => \A j \in Range(joins) : j.op = "EQ"
    /\ s # {} => phase = "search"
    /\ subsets \subseteq (SUBSET Range(joins)) \ {{}}
    /\ s \subseteq Range(joins) /\ todo \subseteq s
    /\ DOMAIN pc \subseteq (SUBSET Range(joins)) \ {{}}
    /\ \A js \in DOMAIN pc : PlanOf(pc[js].plan, js)
    /\ PlanOf(best_card.plan, s)
    /\ s = {} => best_card.plan = <<>>

-----------------------------------------------------------------------------
(* The order of the joins.                                                 *)

LEMMA Smallest ==
    ASSUME NEW S \in SUBSET Nat, S # {}
    PROVE  \E x \in S : \A y \in S : x <= y
  <1>1. PICK x \in S : \A y \in S : ~(<<y, x>> \in OpToRel(<, Nat))
    BY NatLessThanWellFounded, WFMin
  <1>2. \A y \in S : ~(y < x)
    BY <1>1 DEF OpToRel
  <1> QED BY <1>2

LEMMA JoinFields ==
    ASSUME NEW j \in Join
    PROVE  j.left \in Nat /\ j.right \in Nat /\ j.left_field \in Nat /\ j.right_field \in Nat
  BY JoinAssumption DEF Join

LEMMA LeastOf ==
    ASSUME NEW js, js # {}, NEW f \in [js -> Nat]
    PROVE  \E j \in js : \A k \in js : f[j] <= f[k]
  <1> DEFINE S == {f[j] : j \in js}
  <1>1. PICK x \in S : \A y \in S : x <= y
    <2>1. S \in SUBSET Nat /\ S # {}
      OBVIOUS
    <2> HIDE DEF S
    <2> QED BY <2>1, Smallest
  <1>2. PICK j \in js : x = f[j]
    OBVIOUS
  <1>3. \A k \in js : f[k] \in S
    OBVIOUS
  <1> HIDE DEF S
  <1> QED BY <1>1, <1>2, <1>3

LEMMA BeforeFacts ==
    ASSUME NEW j \in Join, NEW k \in Join
    PROVE  /\ j.left < k.left => Before(j, k)
           /\ j.left = k.left /\ j.right < k.right => Before(j, k)
           /\ j.left = k.left /\ j.right = k.right /\ j.left_field < k.left_field => Before(j, k)
           /\ j.left = k.left /\ j.right = k.right /\ j.left_field = k.left_field
              /\ j.right_field < k.right_field => Before(j, k)
  <1>1. /\ Key(j)[1] = j.left /\ Key(j)[2] = j.right
        /\ Key(j)[3] = j.left_field /\ Key(j)[4] = j.right_field
    BY DEF Key
  <1>2. /\ Key(k)[1] = k.left /\ Key(k)[2] = k.right
        /\ Key(k)[3] = k.left_field /\ Key(k)[4] = k.right_field
    BY DEF Key
  <1>3. /\ \A m \in 1..1 - 1 : FALSE
        /\ \A m \in 1..2 - 1 : m = 1
        /\ \A m \in 1..3 - 1 : m = 1 \/ m = 2
        /\ \A m \in 1..4 - 1 : m = 1 \/ m = 2 \/ m = 3
    OBVIOUS
  <1>4. 1 \in 1..4 /\ 2 \in 1..4 /\ 3 \in 1..4 /\ 4 \in 1..4
    OBVIOUS
  <1>5. CASE j.left < k.left
    <2>1. Before(j, k)
      BY <1>1, <1>2, <1>3, <1>4, <1>5 DEF Before
    <2> QED BY <2>1
  <1>6. j.left = k.left /\ j.right < k.right => Before(j, k)
    BY <1>1, <1>2, <1>3, <1>4 DEF Before
  <1>7. j.left = k.left /\ j.right = k.right /\ j.left_field < k.left_field => Before(j, k)
    BY <1>1, <1>2, <1>3, <1>4 DEF Before
  <1>8. j.left = k.left /\ j.right = k.right /\ j.left_field = k.left_field
        /\ j.right_field < k.right_field => Before(j, k)
    BY <1>1, <1>2, <1>3, <1>4 DEF Before
  <1> QED BY <1>5, <1>6, <1>7, <1>8

\* Among equalities there is one before all others.
LEMMA FirstFact ==
    ASSUME NEW js \in SUBSET Join, js # {}, \A j \in js : j.op = "EQ"
    PROVE  First(js) \in js
  <1>1. \A j \in js : /\ j.left \in Nat /\ j.right \in Nat
                      /\ j.left_field \in Nat /\ j.right_field \in Nat
    BY JoinFields
  <1>2. PICK a \in js : \A k \in js : a.left <= k.left
    <2> DEFINE f == [j \in js |-> j.left]
    <2>1. f \in [js -> Nat]
      BY <1>1
    <2>2. PICK a \in js : \A k \in js : f[a] <= f[k]
      <3> HIDE DEF f
      <3> QED BY <2>1, LeastOf
    <2> QED BY <2>2
  <1> DEFINE J1 == {j \in js : j.left = a.left}
  <1>3. PICK b \in J1 : \A k \in J1 : b.right <= k.right
    <2> DEFINE f == [j \in J1 |-> j.right]
    <2>1. f \in [J1 -> Nat] /\ J1 # {}
      BY <1>1, <1>2
    <2>2. PICK b \in J1 : \A k \in J1 : f[b] <= f[k]
      <3> HIDE DEF f, J1
      <3> QED BY <2>1, LeastOf
    <2> QED BY <2>2
  <1> DEFINE J2 == {j \in J1 : j.right = b.right}
  <1>4. PICK c \in J2 : \A k \in J2 : c.left_field <= k.left_field
    <2> DEFINE f == [j \in J2 |-> j.left_field]
    <2>1. f \in [J2 -> Nat] /\ J2 # {}
      BY <1>1, <1>3
    <2>2. PICK c \in J2 : \A k \in J2 : f[c] <= f[k]
      <3> HIDE DEF f, J2
      <3> QED BY <2>1, LeastOf
    <2> QED BY <2>2
  <1> DEFINE J3 == {j \in J2 : j.left_field = c.left_field}
  <1>5. PICK d \in J3 : \A k \in J3 : d.right_field <= k.right_field
    <2> DEFINE f == [j \in J3 |-> j.right_field]
    <2>1. f \in [J3 -> Nat] /\ J3 # {}
      BY <1>1, <1>4
    <2>2. PICK d \in J3 : \A k \in J3 : f[d] <= f[k]
      <3> HIDE DEF f, J3
      <3> QED BY <2>1, LeastOf
    <2> QED BY <2>2
  <1>6. /\ d \in js /\ d.left = a.left /\ d.right = b.right /\ d.left_field = c.left_field
        /\ a \in js /\ b \in js /\ c \in js
    OBVIOUS
  <1>7. ASSUME NEW k \in js, k # d PROVE Before(d, k)
    <2>0. d \in Join /\ k \in Join
      BY <1>6
    <2>1. CASE k.left # a.left
      <3>1. d.left < k.left
        BY <2>1, <1>1, <1>2, <1>6
      <3> QED BY <3>1, <2>0, BeforeFacts
    <2>2. CASE k.left = a.left /\ k.right # b.right
      <3>1. d.right < k.right
        BY <2>2, <1>1, <1>3, <1>6
      <3> QED BY <3>1, <2>0, <2>2, <1>6, BeforeFacts
    <2>3. CASE k.left = a.left /\ k.right = b.right /\ k.left_field # c.left_field
      <3>1. d.left_field < k.left_field
        BY <2>3, <1>1, <1>4, <1>6
      <3> QED BY <3>1, <2>0, <2>3, <1>6, BeforeFacts
    <2>4. CASE k.left = a.left /\ k.right = b.right /\ k.left_field = c.left_field
      <3>1. d.right_field <= k.right_field
        BY <2>4, <1>5
      <3>2. d.right_field # k.right_field
        BY <2>4, <2>0, <1>6, <1>7 DEF Join
      <3>3. d.right_field < k.right_field
        BY <3>1, <3>2, <1>1, <1>6
      <3> QED BY <3>3, <2>0, <2>4, <1>6, BeforeFacts
    <2> QED BY <2>1, <2>2, <2>3, <2>4
  <1> HIDE DEF J1, J2, J3
  <1> QED BY <1>6, <1>7 DEF First

-----------------------------------------------------------------------------
(* Plans that grow by one join.                                            *)

LEMMA QueryIsFinite ==
    ASSUME joins \in Queries, NEW js \in SUBSET Range(joins)
    PROVE  IsFiniteSet(js) /\ js \in SUBSET Join
  <1>1. joins \in Seq(Join)
    BY JoinAssumption
  <1>2. IsFiniteSet(1..Len(joins))
    BY <1>1, FS_Interval
  <1>3. joins \in Surjection(1..Len(joins), Range(joins))
    BY <1>1 DEF Surjection, Range
  <1>4. IsFiniteSet(Range(joins))
    BY <1>2, <1>3, FS_Surjection
  <1>5. Range(joins) \in SUBSET Join
    BY <1>1 DEF Range
  <1> QED BY <1>4, <1>5, FS_Subset

LEMMA SwappedIsJoin ==
    ASSUME NEW j \in Join
    PROVE  /\ swap_inner_outer(j) \in Join
           /\ Tables(swap_inner_outer(j)) = Tables(j)
  <1>1. /\ j.left \in Table /\ j.right \in Table /\ j.left_field \in Nat /\ j.right_field \in Nat
        /\ j.op \in {"EQ", "NE", "LT", "LE", "GT", "GE"}
    BY DEF Join
  <1>2. /\ swap_inner_outer(j).left = j.right /\ swap_inner_outer(j).right = j.left
    BY DEF swap_inner_outer
  <1>3. swap_inner_outer(j) \in Join
    BY <1>1 DEF Join, swap_inner_outer
  <1> QED BY <1>2, <1>3 DEF Tables

\* A plan for js without j, and then j in either direction, is a plan for js.
LEMMA ExtendedPlan ==
    ASSUME NEW js \in SUBSET Join, IsFiniteSet(js), NEW j \in js,
           NEW last \in {j, swap_inner_outer(j)},
           NEW order \in Seq(Join),
           js = {j} => order = <<>>,
           js # {j} => /\ Covers(order, js \ {j}) /\ NoCrossProduct(order)
                       /\ does_join(order, j.left) \/ does_join(order, j.right)
    PROVE  PlanOf(Append(order, last), js)
  <1> DEFINE longer == Append(order, last)
  <1>1. j \in Join /\ last \in Join /\ Tables(last) = Tables(j)
    BY SwappedIsJoin
  <1>2. /\ longer \in Seq(Join) /\ Len(longer) = Len(order) + 1
        /\ \A k \in 1..Len(order) : longer[k] = order[k]
        /\ longer[Len(order) + 1] = last
        /\ DOMAIN longer = 1..Len(order) + 1 /\ DOMAIN order = 1..Len(order)
        /\ Len(order) \in Nat
    BY <1>1
  <1>3. Cardinality(js \ {j}) = Cardinality(js) - 1 /\ Cardinality(js) \in Nat
    BY FS_RemoveElement, FS_CardinalityType
  <1>4. Covers(longer, js)
    <2>1. Len(longer) = Cardinality(js)
      <3>1. CASE js = {j}
        <4>1. Cardinality(js) = 1
          BY <3>1, FS_Singleton
        <4>2. Len(order) = 0
          BY <3>1
        <4> QED BY <4>1, <4>2, <1>2
      <3>2. CASE js # {j}
        BY <3>2, <1>2, <1>3 DEF Covers
      <3> QED BY <3>1, <3>2
    <2>2. ASSUME NEW i \in js
          PROVE  \E k \in DOMAIN longer : longer[k] \in {i, swap_inner_outer(i)}
      <3>1. CASE i = j
        BY <3>1, <1>2
      <3>2. CASE i # j
        <4>1. PICK k \in DOMAIN order : order[k] \in {i, swap_inner_outer(i)}
          BY <3>2 DEF Covers
        <4>2. k \in DOMAIN longer /\ longer[k] = order[k]
          BY <1>2
        <4> QED BY <4>1, <4>2
      <3> QED BY <3>1, <3>2
    <2> HIDE DEF longer
    <2> QED BY <2>1, <2>2 DEF Covers
  <1>5. NoCrossProduct(longer)
    <2> SUFFICES ASSUME NEW k \in 2..Len(longer)
                 PROVE  \E i \in 1..k - 1 : Tables(longer[i]) \cap Tables(longer[k]) # {}
      BY DEF NoCrossProduct
    <2>1. CASE k <= Len(order)
      <3>1. k \in 2..Len(order) /\ NoCrossProduct(order)
        <4>1. Len(order) # 0
          BY <2>1, <1>2
        <4>2. order # <<>>
          BY <4>1
        <4> QED BY <2>1, <4>2, <1>2
      <3>2. PICK i \in 1..k - 1 : Tables(order[i]) \cap Tables(order[k]) # {}
        BY <3>1 DEF NoCrossProduct
      <3>3. longer[i] = order[i] /\ longer[k] = order[k]
        BY <3>1, <1>2
      <3> QED BY <3>2, <3>3
    <2>2. CASE k > Len(order)
      <3>1. k = Len(order) + 1 /\ longer[k] = last /\ Len(order) # 0
        BY <2>2, <1>2
      <3>2. js # {j}
        BY <3>1
      <3>3. PICK e \in Range(order) : j.left \in {e.left, e.right} \/ j.right \in {e.left, e.right}
        BY <3>2 DEF does_join
      <3>4. PICK i \in 1..Len(order) : order[i] = e
        BY <3>3, <1>2 DEF Range
      <3>5. Tables(order[i]) \cap Tables(j) # {}
        BY <3>3, <3>4 DEF Tables
      <3>6. i \in 1..k - 1 /\ longer[i] = order[i]
        BY <3>1, <3>4, <1>2
      <3> HIDE DEF longer
      <3> QED BY <3>5, <3>6, <3>1, <1>1
    <2>3. k \in Int /\ Len(order) \in Int
      BY <1>2
    <2> HIDE DEF longer
    <2> QED BY <2>1, <2>2, <2>3
  <1> QED BY <1>2, <1>4, <1>5 DEF PlanOf

\* What compute_cost_and_card_of_subplan returns is a plan for s.
LEMMA CostCardIsPlan ==
    ASSUME SearchInv, todo # {}, ~CrossProduct(First(todo))
    PROVE  First(todo) \in s /\ PlanOf(CostCard(First(todo)).plan, s)
  <1> DEFINE j == First(todo)
             plan == get_order(s \ {j})
  <1>1. s \in SUBSET Join /\ IsFiniteSet(s) /\ todo \in SUBSET Join
    BY QueryIsFinite DEF SearchInv
  <1>2. j \in s
    <2>1. \A k \in todo : k.op = "EQ"
      BY DEF SearchInv
    <2> QED BY <2>1, <1>1, FirstFact DEF SearchInv
  <1>3. PlanOf(plan, s \ {j})
    <2>1. CASE s \ {j} \in DOMAIN pc
      BY <2>1 DEF get_order, SearchInv
    <2>2. CASE s \ {j} \notin DOMAIN pc
      BY <2>2 DEF get_order, PlanOf
    <2> QED BY <2>1, <2>2
  <1>4. s = {j} => plan = <<>>
    <2>1. {} \notin DOMAIN pc
      BY DEF SearchInv
    <2> QED BY <2>1 DEF get_order
  <1>5. s # {j} => does_join(plan, j.left) \/ does_join(plan, j.right)
    BY DEF CrossProduct
  <1>6. s # {j} => Covers(plan, s \ {j}) /\ NoCrossProduct(plan)
    <2>1. ~does_join(<<>>, j.left) /\ ~does_join(<<>>, j.right)
      BY DEF does_join, Range
    <2> QED BY <2>1, <1>3, <1>5 DEF PlanOf
  <1>7. CostCard(j).plan \in {Append(plan, j), Append(plan, swap_inner_outer(j))}
    BY DEF CostCard, Extended
  <1>8. plan \in Seq(Join)
    BY <1>3 DEF PlanOf
  <1> HIDE DEF j, plan
  <1>9. \A last \in {j, swap_inner_outer(j)} : PlanOf(Append(plan, last), s)
    BY <1>1, <1>2, <1>4, <1>5, <1>6, <1>8, ExtendedPlan
  <1>10. PlanOf(CostCard(j).plan, s)
    BY <1>7, <1>9
  <1> QED BY <1>2, <1>10 DEF j

-----------------------------------------------------------------------------
(* The steps.                                                              *)

LEMMA SearchInit == JoinInit => SearchInv
  BY DEF JoinInit, SearchInv, NoCard, PlanOf

LEMMA ReturnsStep ==
    ASSUME SearchInv, NEW order, Returns(order), s = {}
    PROVE  SearchInv'
  BY DEF SearchInv, PlanOf, Covers, NoCrossProduct, Returns, arguments, search

LEMMA SearchStep == SearchInv /\ [JoinNext]_vars => SearchInv'
  <1> SUFFICES ASSUME SearchInv, [JoinNext]_vars PROVE SearchInv'
    OBVIOUS
  <1>1. CASE UNCHANGED vars
    BY <1>1 DEF SearchInv, PlanOf, Covers, NoCrossProduct, vars
  <1>2. ASSUME phase = "start" PROVE s = {}
    BY <1>2 DEF SearchInv
  <1>3. CASE OrderNothing
    BY <1>2, <1>3, ReturnsStep DEF OrderNothing
  <1>4. CASE OrderBigTable
    BY <1>2, <1>4, ReturnsStep DEF OrderBigTable
  <1>5. CASE OrderNonEquality
    BY <1>2, <1>5, ReturnsStep DEF OrderNonEquality, MovesToEnd
  <1>6. CASE EndSearch
    BY <1>6, ReturnsStep DEF EndSearch
  <1>7. CASE StartSearch
    BY <1>7 DEF StartSearch, SearchInv, PlanOf, arguments
  <1>8. CASE NextSubset
    <2>1. PICK js \in subsets : s' = js /\ todo' = js /\ subsets' = subsets \ {js}
      BY <1>8 DEF NextSubset
    <2>2. s = {} /\ phase = "search" /\ best_card.plan = <<>>
      BY <1>8 DEF NextSubset, SearchInv
    <2>3. UNCHANGED <<joins, best_card, pc, phase>>
      BY <1>8 DEF NextSubset, arguments
    <2>4. PlanOf(best_card'.plan, s')
      <3>1. best_card'.plan = <<>>
        BY <2>2, <2>3
      <3> QED BY <3>1 DEF PlanOf
    <2>5. js \in (SUBSET Range(joins)) \ {{}}
      BY <2>1 DEF SearchInv
    <2> QED BY <2>1, <2>2, <2>3, <2>4, <2>5 DEF SearchInv
  <1>9. CASE SkipCrossProduct
    BY <1>9 DEF SkipCrossProduct, SearchInv, arguments
  <1>10. CASE ReplaceBest
    <2>1. best_card' = CostCard(First(todo)) /\ todo' = todo \ {First(todo)}
          /\ UNCHANGED <<joins, subsets, s, pc, phase>>
      BY <1>10 DEF ReplaceBest, arguments
    <2>2. First(todo) \in s /\ PlanOf(CostCard(First(todo)).plan, s)
      BY <1>10, CostCardIsPlan DEF ReplaceBest
    <2>3. PlanOf(best_card'.plan, s)
      BY <2>1, <2>2
    <2> QED BY <2>1, <2>2, <2>3 DEF SearchInv
  <1>11. CASE LeaveUnset
    <2>1. best_card'.plan = <<>>
      BY <1>11 DEF LeaveUnset
    <2>2. todo' = todo \ {First(todo)} /\ UNCHANGED <<joins, subsets, s, pc, phase>>
      BY <1>11 DEF LeaveUnset, arguments
    <2>3. PlanOf(best_card'.plan, s)
      BY <2>1 DEF PlanOf
    <2> QED BY <2>1, <2>2, <2>3 DEF SearchInv
  <1>12. CASE AddPlan
    <2>1. /\ s # {} /\ todo = {} /\ s' = {} /\ best_card' = NoCard
          /\ UNCHANGED <<joins, subsets, todo, phase>>
      BY <1>12 DEF AddPlan, arguments
    <2>2. \A js \in DOMAIN pc' : js \in (SUBSET Range(joins)) \ {{}} /\ PlanOf(pc'[js].plan, js)
      <3>1. CASE found_plan
        <4>1. pc' = [js \in DOMAIN pc \cup {s} |-> IF js = s THEN best_card ELSE pc[js]]
          BY <3>1, <1>12 DEF AddPlan
        <4> QED BY <4>1, <2>1 DEF SearchInv
      <3>2. CASE ~found_plan
        BY <3>2, <1>12 DEF AddPlan, SearchInv
      <3> QED BY <3>1, <3>2
    <2>3. best_card'.plan = <<>>
      BY <2>1 DEF NoCard
    <2>4. PlanOf(best_card'.plan, s')
      BY <2>3 DEF PlanOf
    <2> QED BY <2>1, <2>2, <2>3, <2>4 DEF SearchInv
  <1> QED BY <1>1, <1>3, <1>4, <1>5, <1>6, <1>7, <1>8, <1>9, <1>10, <1>11, <1>12 DEF JoinNext

\* order_joins searches equalities only, and its best plan is one for the subset at hand.
THEOREM SearchInvariant == JoinSpec => []SearchInv
  BY SearchInit, SearchStep, PTL DEF JoinSpec

\* Every plan put into the PlanCache joins what it is a plan for, each join once and without
\* a cross product.
THEOREM PlansHaveNoCrossProduct == JoinSpec => []CachedPlansHaveNoCrossProduct
  <1>1. SearchInv => CachedPlansHaveNoCrossProduct
    BY DEF SearchInv, PlanOf, CachedPlansHaveNoCrossProduct
  <1> QED BY <1>1, SearchInvariant, PTL
-----------------------------------------------------------------------------
(* Joins that hang together can be taken away one by one.                  *)

Meet(j, k) == Tables(j) \cap Tables(k) # {}

\* Connected, of any set of joins.
Linked(js) ==
    \A ks \in (SUBSET js) \ {{}, js} : \E j \in ks, k \in js \ ks : Meet(j, k)

LEMMA LinkedOne ==
    ASSUME NEW j
    PROVE  Linked({j})
  <1>1. (SUBSET {j}) \ {{}, {j}} = {}
    OBVIOUS
  <1> QED BY <1>1 DEF Linked

LEMMA LinkedGrows ==
    ASSUME NEW ks, Linked(ks), NEW j \in ks, NEW k, k \notin ks, Meet(j, k)
    PROVE  Linked(ks \cup {k})
  <1> DEFINE all == ks \cup {k}
  <1> SUFFICES ASSUME NEW ms \in (SUBSET all) \ {{}, all}
               PROVE  \E a \in ms, b \in all \ ms : Meet(a, b)
    BY DEF Linked
  <1>1. Meet(k, j)
    BY DEF Meet
  <1>2. CASE ms \cap ks = {}
    <2>1. k \in ms /\ j \in all \ ms
      BY <1>2
    <2> QED BY <2>1, <1>1
  <1>3. CASE ms \cap ks = ks
    <2>1. j \in ms /\ k \in all \ ms
      BY <1>3
    <2> QED BY <2>1
  <1>4. CASE ms \cap ks \notin {{}, ks}
    <2>1. PICK a \in ms \cap ks, b \in ks \ (ms \cap ks) : Meet(a, b)
      BY <1>4 DEF Linked
    <2> QED BY <2>1
  <1> QED BY <1>2, <1>3, <1>4

\* A largest linked part of the joins lacks one of them.
LEMMA LinkedShrinks ==
    ASSUME NEW js, IsFiniteSet(js), Linked(js), NEW first \in js, js # {first}
    PROVE  \E j \in js : Linked(js \ {j})
  <1> DEFINE Parts == {ks \in (SUBSET js) \ {{}, js} : Linked(ks)}
             Rest == {Cardinality(js) - Cardinality(ks) : ks \in Parts}
  <1>1. \A ks \in SUBSET js : /\ IsFiniteSet(ks) /\ Cardinality(ks) \in Nat
                              /\ Cardinality(ks) <= Cardinality(js)
    BY FS_Subset, FS_CardinalityType
  <1>2. {first} \in Parts
    BY LinkedOne
  <1>3. PICK n \in Rest : \A m \in Rest : n <= m
    <2>1. Rest \in SUBSET Nat
      BY <1>1
    <2>2. Rest # {}
      BY <1>2
    <2> HIDE DEF Rest
    <2> QED BY <2>1, <2>2, Smallest
  <1>4. PICK ks \in Parts : n = Cardinality(js) - Cardinality(ks)
    OBVIOUS
  <1>5. PICK j \in ks, k \in js \ ks : Meet(j, k)
    BY <1>4 DEF Linked
  <1>6. Linked(ks \cup {k})
    BY <1>4, <1>5, LinkedGrows
  <1>7. ks \cup {k} = js
    <2> SUFFICES ASSUME ks \cup {k} # js PROVE FALSE
      OBVIOUS
    <2>1. ks \cup {k} \in Parts
      BY <1>4, <1>5, <1>6
    <2>2. Cardinality(ks \cup {k}) = Cardinality(ks) + 1
      BY <1>1, <1>4, <1>5, FS_AddElement
    <2>3. n <= Cardinality(js) - Cardinality(ks \cup {k})
      BY <1>3, <2>1
    <2>4. Cardinality(js) \in Nat /\ Cardinality(ks) \in Nat
      BY <1>1, <1>4
    <2> QED BY <1>4, <2>2, <2>3, <2>4
  <1>8. js \ {k} = ks
    BY <1>5, <1>7
  <1> QED BY <1>4, <1>5, <1>8

-----------------------------------------------------------------------------
(* What is ordered by rule: joins at some positions, in their order.       *)

LEMMA QueryPositions ==
    ASSUME joins \in Queries
    PROVE  /\ joins \in Seq(Join) /\ DOMAIN joins = 1..Len(joins) /\ Len(joins) \in Nat
           /\ IsFiniteSet(DOMAIN joins) /\ Cardinality(DOMAIN joins) = Len(joins)
  <1>1. joins \in Seq(Join) /\ DOMAIN joins = 1..Len(joins) /\ Len(joins) \in Nat
    BY JoinAssumption
  <1>2. 1 \in Int /\ Len(joins) \in Int /\ (IF 1 > Len(joins) THEN 0 ELSE Len(joins) - 1 + 1) = Len(joins)
    BY <1>1
  <1>3. IsFiniteSet(1..Len(joins)) /\ Cardinality(1..Len(joins)) = Len(joins)
    BY <1>2, FS_Interval
  <1> QED BY <1>1, <1>3

LEMMA InOrderFact ==
    ASSUME joins \in Queries, NEW positions \in SUBSET DOMAIN joins,
           NEW order \in InOrder(positions)
    PROVE  /\ order \in Seq(Join) /\ Len(order) = Cardinality(positions)
           /\ \A k \in DOMAIN order : \E p \in positions : order[k] = joins[p]
           /\ \A p \in positions : \E k \in DOMAIN order : order[k] = joins[p]
  <1>1. /\ joins \in Seq(Join) /\ DOMAIN joins = 1..Len(joins) /\ Len(joins) \in Nat
        /\ IsFiniteSet(DOMAIN joins) /\ Cardinality(DOMAIN joins) = Len(joins)
    BY QueryPositions
  <1>2. IsFiniteSet(positions) /\ Cardinality(positions) \in Nat
    BY <1>1, FS_Subset, FS_CardinalityType
  <1> DEFINE n == Cardinality(positions)
  <1>3. PICK o \in [1..n -> positions] : /\ \A k, l \in DOMAIN o : k < l => o[k] < o[l]
                                         /\ order = [k \in DOMAIN o |-> joins[o[k]]]
    BY DEF InOrder
  <1>4. o \in Injection(1..n, positions)
    <2>1. \A k \in 1..n : o[k] \in Nat
      BY <1>1
    <2>2. ASSUME NEW k \in 1..n, NEW l \in 1..n, o[k] = o[l] PROVE k = l
      <3>1. ~(k < l) /\ ~(l < k)
        BY <1>3, <2>1, <2>2
      <3> QED BY <3>1, <1>2
    <2> QED BY <1>3, <2>2 DEF Injection, IsInjective
  <1>5. Cardinality(1..n) = n
    BY <1>2, FS_Interval
  <1>6. o \in Surjection(1..n, positions)
    BY <1>2, <1>4, <1>5, FS_Injection
  <1>7. \A k \in 1..n : joins[o[k]] \in Join
    BY <1>1
  <1>8. order \in [1..n -> Join] /\ DOMAIN order = 1..n
    BY <1>3, <1>7
  <1>9. order \in Seq(Join) /\ Len(order) = n
    BY <1>2, <1>8
  <1>10. \A p \in positions : \E k \in 1..n : o[k] = p
    BY <1>6 DEF Surjection
  <1> HIDE DEF n
  <1>11. \A k \in 1..n : order[k] = joins[o[k]]
    BY <1>3
  <1> QED BY <1>8, <1>9, <1>10, <1>11 DEF n

LEMMA QueryLength ==
    ASSUME joins \in Queries, KeysDistinct
    PROVE  Cardinality(Range(joins)) = Len(joins)
  <1>1. /\ joins \in Seq(Join) /\ DOMAIN joins = 1..Len(joins) /\ Len(joins) \in Nat
        /\ IsFiniteSet(DOMAIN joins) /\ Cardinality(DOMAIN joins) = Len(joins)
    BY QueryPositions
  <1>2. joins \in Surjection(1..Len(joins), Range(joins))
    BY <1>1 DEF Surjection, Range
  <1>3. joins \in Injection(1..Len(joins), Range(joins))
    BY <1>1 DEF Injection, IsInjective, Range, KeysDistinct
  <1> QED BY <1>1, <1>2, <1>3, FS_Surjection

LEMMA CoversQuery ==
    ASSUME joins \in Queries, KeysDistinct, NEW order \in Seq(Join), Len(order) = Len(joins),
           \A p \in DOMAIN joins : \E k \in DOMAIN order :
              order[k] \in {joins[p], swap_inner_outer(joins[p])}
    PROVE  Covers(order, Range(joins))
  BY QueryLength DEF Covers, Range

Turned(order) ==
    [k \in DOMAIN order |-> IF order[k].right = BigTable THEN order[k]
                            ELSE swap_inner_outer(order[k])]

LEMMA TurnedFact ==
    ASSUME NEW order \in Seq(Join)
    PROVE  /\ Turned(order) \in Seq(Join) /\ Len(Turned(order)) = Len(order)
           /\ DOMAIN Turned(order) = DOMAIN order
           /\ \A k \in DOMAIN order : /\ Turned(order)[k] \in {order[k], swap_inner_outer(order[k])}
                                      /\ OnBigTable(order[k]) => Turned(order)[k].right = BigTable
  <1>1. DOMAIN order = 1..Len(order) /\ Len(order) \in Nat
    OBVIOUS
  <1>2. \A k \in 1..Len(order) : order[k] \in Join /\ swap_inner_outer(order[k]) \in Join
    BY SwappedIsJoin
  <1>3. Turned(order) \in [1..Len(order) -> Join]
    BY <1>1, <1>2 DEF Turned
  <1>4. Turned(order) \in Seq(Join) /\ Len(Turned(order)) = Len(order)
    BY <1>1, <1>3
  <1>5. ASSUME NEW k \in DOMAIN order
        PROVE  /\ Turned(order)[k] \in {order[k], swap_inner_outer(order[k])}
               /\ OnBigTable(order[k]) => Turned(order)[k].right = BigTable
    BY DEF Turned, OnBigTable, swap_inner_outer
  <1> QED BY <1>3, <1>4, <1>5, <1>1

\* Queries on big_table: all of their joins, those with big_table last and turned.
LEMMA BigTableOrder ==
    ASSUME joins \in Queries,
           NEW others \in InOrder(DOMAIN joins \ BigTablePositions),
           NEW big \in InOrder(BigTablePositions)
    PROVE  LET order == others \o Turned(big)
           IN  /\ order \in Seq(Join)
               /\ KeysDistinct => Covers(order, Range(joins))
               /\ \A k \in DOMAIN order : OnBigTable(order[k]) =>
                     \A l \in k..Len(order) : order[l].right = BigTable
  <1> DEFINE order == others \o Turned(big)
             m == Len(others)
             n == Len(big)
  <1>1. /\ joins \in Seq(Join) /\ DOMAIN joins = 1..Len(joins) /\ Len(joins) \in Nat
        /\ IsFiniteSet(DOMAIN joins) /\ Cardinality(DOMAIN joins) = Len(joins)
    BY QueryPositions
  <1>2. BigTablePositions \in SUBSET DOMAIN joins
    BY DEF BigTablePositions
  <1>3. /\ others \in Seq(Join) /\ m = Cardinality(DOMAIN joins \ BigTablePositions)
        /\ \A k \in DOMAIN others : \E p \in DOMAIN joins \ BigTablePositions : others[k] = joins[p]
        /\ \A p \in DOMAIN joins \ BigTablePositions : \E k \in DOMAIN others : others[k] = joins[p]
    BY InOrderFact
  <1>4. /\ big \in Seq(Join) /\ n = Cardinality(BigTablePositions)
        /\ \A k \in DOMAIN big : \E p \in BigTablePositions : big[k] = joins[p]
        /\ \A p \in BigTablePositions : \E k \in DOMAIN big : big[k] = joins[p]
    BY <1>2, InOrderFact
  <1>5. /\ Turned(big) \in Seq(Join) /\ Len(Turned(big)) = n
        /\ \A k \in DOMAIN big : /\ Turned(big)[k] \in {big[k], swap_inner_outer(big[k])}
                                 /\ OnBigTable(big[k]) => Turned(big)[k].right = BigTable
    BY <1>4, TurnedFact
  <1>6. /\ order \in Seq(Join) /\ Len(order) = m + n
        /\ \A i \in 1..m + n : order[i] = IF i <= m THEN others[i] ELSE Turned(big)[i - m]
    <2>1. others \in Seq(Join) /\ Turned(big) \in Seq(Join) /\ Len(Turned(big)) = Len(big)
      BY <1>3, <1>5
    <2>2. /\ order \in Seq(Join) /\ Len(order) = Len(others) + Len(Turned(big))
          /\ \A i \in 1..Len(others) + Len(Turned(big)) :
                order[i] = IF i <= Len(others) THEN others[i] ELSE Turned(big)[i - Len(others)]
      BY <2>1, ConcatProperties, Zenon
    <2> QED BY <2>1, <2>2
  <1>7. /\ m \in Nat /\ n \in Nat /\ DOMAIN others = 1..m /\ DOMAIN big = 1..n
        /\ DOMAIN order = 1..m + n
    BY <1>3, <1>4, <1>6
  <1> HIDE DEF order, m, n
  <1>8. m + n = Len(joins)
    <2>1. DOMAIN joins \cap BigTablePositions = BigTablePositions
      BY <1>2
    <2>2. m = Len(joins) - n
      BY <2>1, <1>1, <1>3, <1>4, FS_Difference
    <2> QED BY <2>2, <1>1, <1>7
  <1>9. ASSUME NEW p \in DOMAIN joins
        PROVE  \E k \in DOMAIN order : order[k] \in {joins[p], swap_inner_outer(joins[p])}
    <2>1. CASE p \in BigTablePositions
      <3>1. PICK k \in 1..n : big[k] = joins[p]
        BY <2>1, <1>4, <1>7
      <3>2. PICK i \in 1..m + n : ~(i <= m) /\ i - m = k /\ i = m + k
        BY <1>7
      <3>3. order[i] = Turned(big)[k]
        BY <3>2, <1>6
      <3> QED BY <3>1, <3>2, <3>3, <1>5, <1>7
    <2>2. CASE p \notin BigTablePositions
      <3>1. PICK k \in 1..m : others[k] = joins[p]
        BY <2>2, <1>3, <1>7
      <3>2. k \in 1..m + n /\ k <= m
        BY <1>7
      <3> QED BY <3>1, <3>2, <1>6, <1>7
    <2> QED BY <2>1, <2>2
  <1>10. ASSUME NEW k \in DOMAIN order, OnBigTable(order[k]), NEW l \in k..Len(order)
         PROVE  order[l].right = BigTable
    <2>1. ~(k <= m)
      <3> SUFFICES ASSUME k <= m PROVE FALSE
        OBVIOUS
      <3>1. k \in 1..m /\ order[k] = others[k]
        BY <1>6, <1>7
      <3>2. PICK p \in DOMAIN joins \ BigTablePositions : others[k] = joins[p]
        BY <3>1, <1>3, <1>7
      <3> QED BY <3>1, <3>2, <1>10 DEF BigTablePositions
    <2>2. l \in 1..m + n /\ ~(l <= m) /\ l - m \in 1..n
      BY <2>1, <1>6, <1>7
    <2>3. order[l] = Turned(big)[l - m]
      BY <2>2, <1>6
    <2>4. PICK p \in BigTablePositions : big[l - m] = joins[p]
      BY <2>2, <1>4, <1>7
    <2>5. OnBigTable(big[l - m])
      BY <2>4 DEF BigTablePositions
    <2> QED BY <2>2, <2>3, <2>5, <1>5, <1>7
  <1>11. KeysDistinct => Covers(order, Range(joins))
    BY <1>6, <1>8, <1>9, CoversQuery
  <1> QED BY <1>6, <1>10, <1>11 DEF order

\* Queries with a join of table "a" that is no equality: all of their joins, if no two of
\* them have the same tables and fields.
LEMMA MovedToEnd ==
    ASSUME joins \in Queries, NEW k \in DOMAIN joins,
           NEW others \in InOrder({l \in DOMAIN joins : Key(joins[l]) # Key(joins[k])})
    PROVE  LET order == Append(others, joins[k])
           IN  /\ order \in Seq(Join)
               /\ KeysDistinct => Covers(order, Range(joins))
               /\ \A i \in DOMAIN order : \E p \in DOMAIN joins : order[i] = joins[p]
  <1> DEFINE order == Append(others, joins[k])
             rest == {l \in DOMAIN joins : Key(joins[l]) # Key(joins[k])}
             m == Len(others)
  <1>1. /\ joins \in Seq(Join) /\ DOMAIN joins = 1..Len(joins) /\ Len(joins) \in Nat
        /\ IsFiniteSet(DOMAIN joins) /\ Cardinality(DOMAIN joins) = Len(joins)
    BY QueryPositions
  <1>2. /\ others \in Seq(Join) /\ m = Cardinality(rest)
        /\ \A i \in DOMAIN others : \E p \in rest : others[i] = joins[p]
        /\ \A p \in rest : \E i \in DOMAIN others : others[i] = joins[p]
    <2>1. rest \in SUBSET DOMAIN joins
      OBVIOUS
    <2> HIDE DEF rest
    <2>2. others \in InOrder(rest)
      BY DEF rest
    <2> QED BY <2>1, <2>2, InOrderFact
  <1>3. joins[k] \in Join
    BY <1>1
  <1>4. /\ order \in Seq(Join) /\ Len(order) = m + 1 /\ DOMAIN order = 1..m + 1
        /\ order[m + 1] = joins[k] /\ \A i \in 1..m : order[i] = others[i]
        /\ m \in Nat /\ DOMAIN others = 1..m
    <2> HIDE DEF rest
    <2> QED BY <1>2, <1>3
  <1> HIDE DEF order, m
  <1>5. ASSUME NEW i \in DOMAIN order
        PROVE  \E p \in DOMAIN joins : order[i] = joins[p]
    <2>1. CASE i = m + 1
      BY <2>1, <1>4
    <2>2. CASE i # m + 1
      <3>1. i \in 1..m
        BY <2>2, <1>4
      <3> QED BY <3>1, <1>2, <1>4
    <2> QED BY <2>1, <2>2
  <1>6. ASSUME KeysDistinct PROVE Covers(order, Range(joins))
    <2>1. rest = DOMAIN joins \ {k}
      BY <1>6 DEF KeysDistinct
    <2>3. Cardinality(DOMAIN joins \ {k}) = Len(joins) - 1
      BY <1>1, FS_RemoveElement
    <2>4. Len(order) = Len(joins)
      <3>1. m = Len(joins) - 1
        BY <2>1, <2>3, <1>2 DEF m
      <3>2. Len(order) = m + 1
        BY <1>4
      <3> QED BY <3>1, <3>2, <1>1
    <2>5. ASSUME NEW p \in DOMAIN joins PROVE \E i \in DOMAIN order : order[i] = joins[p]
      <3>1. CASE p = k
        BY <3>1, <1>4
      <3>2. CASE p # k
        <4>1. PICK i \in 1..m : others[i] = joins[p]
          BY <3>2, <2>1, <1>2, <1>4
        <4> QED BY <4>1, <1>4
      <3> QED BY <3>1, <3>2
    <2> QED BY <1>4, <1>6, <2>4, <2>5, CoversQuery
  <1> QED BY <1>4, <1>5, <1>6 DEF order

-----------------------------------------------------------------------------
(* Types.                                                                  *)

Inputs == [cost : Nat, card : Nat, pkey : BOOLEAN]

\* Between two subsets nothing is left over, and before the search nothing is there at all.
StartInv ==
    /\ phase = "start" => s = {} /\ subsets = {} /\ pc = <<>> /\ ~unset
    /\ phase = "search" => \A j \in Range(joins) : ~OnBigTable(j)
    /\ s = {} => todo = {} /\ ~found_plan

LEMMA MinMaxFact ==
    ASSUME NEW a \in Nat, NEW b \in Nat
    PROVE  Min({a, b}) \in {a, b} /\ Max({a, b}) \in {a, b}
  <1>1. \E x \in {a, b} : \A y \in {a, b} : x =< y
    <2>1. CASE a =< b
      BY <2>1
    <2>2. CASE b =< a
      BY <2>2
    <2> QED BY <2>1, <2>2
  <1>2. \E x \in {a, b} : \A y \in {a, b} : x >= y
    <2>1. CASE a >= b
      BY <2>1
    <2>2. CASE b >= a
      BY <2>2
    <2> QED BY <2>1, <2>2
  <1> QED BY <1>1, <1>2 DEF Min, Max

LEMMA EstimateTypes ==
    ASSUME NEW j \in Join, NEW outer \in Inputs, NEW inner \in Inputs
    PROVE  /\ estimate_join_cost(outer, inner) \in Nat
           /\ estimate_join_cardinality(j, outer, inner) \in Nat
  <1>1. /\ outer.cost \in Nat /\ outer.card \in Nat /\ outer.pkey \in BOOLEAN
        /\ inner.cost \in Nat /\ inner.card \in Nat /\ inner.pkey \in BOOLEAN
    BY DEF Inputs
  <1>2. outer.card * inner.cost \in Nat /\ outer.card * inner.card \in Nat
    BY <1>1
  <1>3. estimate_join_cost(outer, inner) \in Nat
    BY <1>1, <1>2 DEF estimate_join_cost
  <1>4. Min({outer.card, inner.card}) \in Nat /\ Max({outer.card, inner.card}) \in Nat
    BY <1>1, MinMaxFact
  <1>5. T1T2Card \in Nat /\ T2T1Card \in Nat
    BY JoinAssumption
  <1>6. estimate_join_cardinality(j, outer, inner)
            \in {T1T2Card, T2T1Card, inner.card, outer.card,
                 Min({outer.card, inner.card}), Max({outer.card, inner.card})}
    BY <1>1 DEF estimate_join_cardinality
  <1> QED BY <1>1, <1>3, <1>4, <1>5, <1>6

LEMMA BaseType ==
    ASSUME JoinTypeOK, NEW table \in Table, NEW field
    PROVE  Base(table, field) \in Inputs
  <1>1. stats \in [Table -> [cost : Nat, card : Nat]]
    BY JoinAssumption DEF JoinTypeOK
  <1>2. stats[table].cost \in Nat /\ stats[table].card \in Nat
    BY <1>1
  <1> QED BY <1>2 DEF Base, Inputs

LEMMA InputTypes ==
    ASSUME JoinTypeOK, NEW j \in Join, ~CrossProduct(j)
    PROVE  LeftInput(j) \in Inputs /\ RightInput(j) \in Inputs
  <1> DEFINE plan == get_order(s \ {j})
  <1>1. j.left \in Table /\ j.right \in Table
    BY DEF Join
  <1>2. /\ Base(j.left, j.left_field) \in Inputs
        /\ Base(j.right, j.right_field) \in Inputs
    BY <1>1, BaseType
  <1>3. ASSUME does_join(plan, j.left) \/ does_join(plan, j.right)
        PROVE  Cached(s \ {j}) \in Inputs
    <2>1. ~does_join(<<>>, j.left) /\ ~does_join(<<>>, j.right)
      BY DEF does_join, Range
    <2>2. s \ {j} \in DOMAIN pc
      BY <1>3, <2>1 DEF get_order
    <2>3. pc[s \ {j}] \in CostCards
      BY <2>2 DEF JoinTypeOK
    <2>4. has_Pkey(pc[s \ {j}].plan) \in BOOLEAN
      BY DEF has_Pkey
    <2> QED BY <2>3, <2>4 DEF Cached, Inputs, CostCards
  <1>4. s = {j} \/ does_join(plan, j.left) \/ does_join(plan, j.right)
    BY DEF CrossProduct
  <1> HIDE DEF plan
  <1>5. LeftInput(j) \in Inputs
    BY <1>2, <1>3 DEF LeftInput, plan
  <1>6. RightInput(j) \in Inputs
    BY <1>2, <1>3, <1>4 DEF RightInput, plan
  <1> QED BY <1>5, <1>6

LEMMA CostCardType ==
    ASSUME SearchInv, JoinTypeOK, todo # {}, ~CrossProduct(First(todo))
    PROVE  CostCard(First(todo)) \in CostCards
  <1> DEFINE j == First(todo)
             plan == get_order(s \ {j})
             as_is == Extended(plan, j, LeftInput(j), RightInput(j))
             swapped == Extended(plan, swap_inner_outer(j), RightInput(j), LeftInput(j))
  <1>1. j \in s /\ s \in SUBSET Join
    BY CostCardIsPlan, QueryIsFinite DEF SearchInv
  <1>2. j \in Join /\ swap_inner_outer(j) \in Join
    BY <1>1, SwappedIsJoin
  <1>3. LeftInput(j) \in Inputs /\ RightInput(j) \in Inputs
    BY <1>2, InputTypes
  <1>4. plan \in Seq(Join)
    BY DEF get_order, JoinTypeOK, CostCards
  <1> HIDE DEF j
  <1>5. as_is \in CostCards /\ swapped \in CostCards
    <2>1. Append(plan, j) \in Seq(Join) /\ Append(plan, swap_inner_outer(j)) \in Seq(Join)
      BY <1>2, <1>4
    <2> HIDE DEF plan
    <2> QED BY <2>1, <1>2, <1>3, EstimateTypes DEF Extended, CostCards
  <1>6. CostCard(j) \in {as_is, swapped}
    BY DEF CostCard
  <1> QED BY <1>5, <1>6 DEF j

LEMMA NoCardType == NoCard \in CostCards
  BY JoinAssumption DEF NoCard, CostCards

LEMMA TypeInit == JoinInit => JoinTypeOK /\ StartInv
  <1> SUFFICES ASSUME JoinInit PROVE JoinTypeOK /\ StartInv
    OBVIOUS
  <1>1. /\ joins \in Queries /\ stats \in Statistics /\ subsets = {} /\ s = {} /\ todo = {}
        /\ found_plan = FALSE /\ unset = FALSE /\ best_card = NoCard
        /\ pc = <<>> /\ result = <<>> /\ phase = "start"
    BY DEF JoinInit
  <1>2. DOMAIN pc = {} /\ result \in Seq(Join)
    BY <1>1
  <1>3. best_card \in CostCards
    BY <1>1, NoCardType
  <1>4. JoinTypeOK
    BY <1>1, <1>2, <1>3 DEF JoinTypeOK
  <1>5. StartInv
    BY <1>1 DEF StartInv
  <1> QED BY <1>4, <1>5

LEMMA ReturnsType ==
    ASSUME JoinTypeOK, StartInv, NEW order \in Seq(Join), Returns(order), s = {}
    PROVE  JoinTypeOK' /\ StartInv'
  <1>1. result' = order /\ phase' = "done" /\ UNCHANGED <<arguments, search>>
    BY DEF Returns
  <1> QED BY <1>1 DEF JoinTypeOK, StartInv, arguments, search

LEMMA TypeStep == SearchInv /\ JoinTypeOK /\ StartInv /\ [JoinNext]_vars => JoinTypeOK' /\ StartInv'
  <1> SUFFICES ASSUME SearchInv, JoinTypeOK, StartInv, [JoinNext]_vars
               PROVE  JoinTypeOK' /\ StartInv'
    OBVIOUS
  <1>0. joins \in Queries /\ joins \in Seq(Join) /\ (phase = "start" => s = {})
    BY QueryPositions DEF SearchInv
  <1>1. CASE UNCHANGED vars
    BY <1>1 DEF JoinTypeOK, StartInv, OnBigTable, vars
  <1>2. CASE OrderNothing
    BY <1>2, <1>0, ReturnsType DEF OrderNothing
  <1>3. CASE OrderBigTable
    <2>1. PICK others \in InOrder(DOMAIN joins \ BigTablePositions), big \in InOrder(BigTablePositions) :
             Returns(others \o Turned(big))
      BY <1>3 DEF OrderBigTable, Turned
    <2>2. others \o Turned(big) \in Seq(Join)
      BY <1>0, BigTableOrder
    <2> QED BY <2>1, <2>2, <1>0, <1>3, ReturnsType DEF OrderBigTable
  <1>4. CASE OrderNonEquality
    <2>1. CASE Returns(joins)
      BY <2>1, <1>0, <1>4, ReturnsType DEF OrderNonEquality
    <2>2. ASSUME NEW k \in APositions, MovesToEnd(k) PROVE JoinTypeOK' /\ StartInv'
      <3>1. k \in DOMAIN joins
        BY DEF APositions
      <3>2. PICK others \in InOrder({l \in DOMAIN joins : Key(joins[l]) # Key(joins[k])}) :
               Returns(Append(others, joins[k]))
        BY <2>2 DEF MovesToEnd
      <3>3. Append(others, joins[k]) \in Seq(Join)
        BY <3>1, <1>0, MovedToEnd
      <3> QED BY <3>2, <3>3, <1>0, <1>4, ReturnsType DEF OrderNonEquality
    <2> QED BY <2>1, <2>2, <1>4 DEF OrderNonEquality
  <1>5. CASE EndSearch
    <2>1. get_order(Range(joins)) \in Seq(Join)
      BY DEF get_order, JoinTypeOK, CostCards
    <2> QED BY <2>1, <1>5, ReturnsType DEF EndSearch
  <1>6. CASE StartSearch
    <2>1. /\ s = {} /\ todo = {} /\ pc = <<>> /\ subsets' = (SUBSET Range(joins)) \ {{}}
          /\ phase' = "search" /\ \A j \in Range(joins) : ~OnBigTable(j)
          /\ UNCHANGED <<joins, stats, s, todo, found_plan, best_card, pc, unset, result>>
      BY <1>6 DEF StartSearch, StartInv, arguments
    <2>2. JoinTypeOK'
      BY <2>1 DEF JoinTypeOK
    <2>3. StartInv'
      BY <2>1 DEF StartInv, OnBigTable
    <2> QED BY <2>2, <2>3
  <1>7. CASE NextSubset
    <2>1. PICK js \in subsets : s' = js /\ todo' = js /\ subsets' = subsets \ {js}
      BY <1>7 DEF NextSubset
    <2>2. /\ phase = "search" /\ s = {}
          /\ UNCHANGED <<joins, stats, found_plan, best_card, pc, unset, result, phase>>
      BY <1>7 DEF NextSubset, arguments
    <2>3. js # {}
      BY DEF SearchInv
    <2>4. JoinTypeOK'
      BY <2>1, <2>2 DEF JoinTypeOK
    <2>5. StartInv'
      BY <2>1, <2>2, <2>3 DEF StartInv, OnBigTable
    <2> QED BY <2>4, <2>5
  <1>8. CASE SkipCrossProduct
    <2>1. /\ todo # {} /\ todo' = todo \ {First(todo)}
          /\ UNCHANGED <<joins, stats, subsets, s, found_plan, best_card, pc, unset, result, phase>>
      BY <1>8 DEF SkipCrossProduct, arguments
    <2> QED BY <2>1 DEF JoinTypeOK, StartInv, OnBigTable
  <1>9. CASE ReplaceBest
    <2>1. /\ todo # {} /\ todo' = todo \ {First(todo)} /\ found_plan' = TRUE
          /\ best_card' = CostCard(First(todo))
          /\ UNCHANGED <<joins, stats, subsets, s, pc, unset, result, phase>>
      BY <1>9 DEF ReplaceBest, arguments
    <2>2. best_card' \in CostCards
      BY <2>1, <1>9, CostCardType DEF ReplaceBest
    <2>3. s # {}
      BY <2>1 DEF JoinTypeOK
    <2>4. JoinTypeOK'
      BY <2>1, <2>2 DEF JoinTypeOK
    <2>5. StartInv'
      BY <2>1, <2>3 DEF StartInv, SearchInv, OnBigTable
    <2> QED BY <2>4, <2>5
  <1>10. CASE LeaveUnset
    <2>1. PICK c \in Unset : best_card' = [cost |-> c, card |-> 0, plan |-> <<>>]
      BY <1>10 DEF LeaveUnset
    <2>2. /\ todo # {} /\ todo' = todo \ {First(todo)} /\ found_plan' = TRUE /\ unset' = TRUE
          /\ UNCHANGED <<joins, stats, subsets, s, pc, result, phase>>
      BY <1>10 DEF LeaveUnset, arguments
    <2>3. best_card' \in CostCards
      BY <2>1, JoinAssumption DEF CostCards
    <2>4. s # {}
      BY <2>2 DEF JoinTypeOK
    <2>5. JoinTypeOK'
      BY <2>2, <2>3 DEF JoinTypeOK
    <2>6. StartInv'
      BY <2>2, <2>4 DEF StartInv, SearchInv, OnBigTable
    <2> QED BY <2>5, <2>6
  <1>11. CASE AddPlan
    <2>1. /\ s # {} /\ todo = {} /\ s' = {} /\ found_plan' = FALSE /\ best_card' = NoCard
          /\ UNCHANGED <<joins, stats, subsets, todo, unset, result, phase>>
      BY <1>11 DEF AddPlan, arguments
    <2>2. /\ DOMAIN pc' \in {DOMAIN pc, DOMAIN pc \cup {s}}
          /\ \A js \in DOMAIN pc' : pc'[js] \in CostCards
      BY <1>11 DEF AddPlan, JoinTypeOK
    <2>3. {} \notin subsets
      BY DEF SearchInv
    <2>4. JoinTypeOK'
      BY <2>1, <2>2, <2>3, NoCardType DEF JoinTypeOK
    <2>5. StartInv'
      BY <2>1 DEF StartInv, SearchInv, OnBigTable
    <2> QED BY <2>4, <2>5
  <1> QED BY <1>1, <1>2, <1>3, <1>4, <1>5, <1>6, <1>7, <1>8, <1>9, <1>10, <1>11 DEF JoinNext

LEMMA TypeInvariant == JoinSpec => [](SearchInv /\ JoinTypeOK /\ StartInv)
  BY SearchInit, SearchStep, TypeInit, TypeStep, PTL DEF JoinSpec

\* order_joins keeps to the joins of the query, takes a subset from those it has not yet
\* considered, and caches no plan of one that is still to come.
THEOREM JoinTypes == JoinSpec => []JoinTypeOK
  BY TypeInvariant, PTL

-----------------------------------------------------------------------------
(* Joins with big_table.                                                   *)

\* Only joins of js, in one of their directions.
Made(order, js) == \A k \in DOMAIN order : \E j \in js : order[k] \in {j, swap_inner_outer(j)}

MadeInv ==
    /\ \A js \in DOMAIN pc : Made(pc[js].plan, js)
    /\ Made(best_card.plan, s)
    /\ BigTableLast

LEMMA MadeNothing == \A js : Made(<<>>, js)
  BY DEF Made

LEMMA CostCardMade ==
    ASSUME SearchInv, JoinTypeOK, MadeInv, todo # {}, ~CrossProduct(First(todo))
    PROVE  Made(CostCard(First(todo)).plan, s)
  <1> DEFINE j == First(todo)
             plan == get_order(s \ {j})
  <1>1. j \in s
    BY CostCardIsPlan
  <1>2. plan \in Seq(Join) /\ Made(plan, s \ {j})
    BY MadeNothing DEF get_order, JoinTypeOK, CostCards, MadeInv
  <1>3. CostCard(j).plan \in {Append(plan, j), Append(plan, swap_inner_outer(j))}
    BY DEF CostCard, Extended
  <1>4. s \in SUBSET Join
    BY QueryIsFinite DEF SearchInv
  <1>5. j \in Join /\ swap_inner_outer(j) \in Join
    BY <1>1, <1>4, SwappedIsJoin
  <1> HIDE DEF j, plan
  <1>6. ASSUME NEW last \in {j, swap_inner_outer(j)} PROVE Made(Append(plan, last), s)
    <2> DEFINE longer == Append(plan, last)
    <2>1. /\ DOMAIN longer = 1..Len(plan) + 1 /\ DOMAIN plan = 1..Len(plan) /\ Len(plan) \in Nat
          /\ longer[Len(plan) + 1] = last /\ \A k \in 1..Len(plan) : longer[k] = plan[k]
      BY <1>2, <1>5
    <2> HIDE DEF longer
    <2> SUFFICES ASSUME NEW k \in DOMAIN longer
                 PROVE  \E i \in s : longer[k] \in {i, swap_inner_outer(i)}
      BY DEF Made, longer
    <2>2. CASE k = Len(plan) + 1
      BY <2>1, <2>2, <1>1
    <2>3. CASE k # Len(plan) + 1
      <3>1. k \in DOMAIN plan /\ longer[k] = plan[k]
        BY <2>1, <2>3
      <3>2. PICK i \in s \ {j} : plan[k] \in {i, swap_inner_outer(i)}
        BY <3>1, <1>2 DEF Made
      <3> QED BY <3>1, <3>2
    <2> QED BY <2>2, <2>3
  <1>7. Made(CostCard(j).plan, s)
    BY <1>3, <1>6
  <1> QED BY <1>7 DEF j

\* What is returned is ordered if it is when it is returned.
LEMMA ReturnsMade ==
    ASSUME MadeInv, NEW order, Returns(order),
           \A k \in DOMAIN order : OnBigTable(order[k]) =>
              \A l \in k..Len(order) : order[l].right = BigTable
    PROVE  MadeInv'
  <1>1. result' = order /\ UNCHANGED <<pc, best_card, s>>
    BY DEF Returns, search
  <1> QED BY <1>1 DEF MadeInv, Made, swap_inner_outer, BigTableLast, OnBigTable

LEMMA MadeInit == JoinInit => MadeInv
  <1> SUFFICES ASSUME JoinInit PROVE MadeInv
    OBVIOUS
  <1>1. pc = <<>> /\ best_card.plan = <<>> /\ phase = "start"
    BY DEF JoinInit, NoCard
  <1> QED BY <1>1, MadeNothing DEF MadeInv, BigTableLast

LEMMA MadeStep ==
    SearchInv /\ JoinTypeOK /\ StartInv /\ MadeInv /\ [JoinNext]_vars => MadeInv'
  <1> SUFFICES ASSUME SearchInv, JoinTypeOK, StartInv, MadeInv, [JoinNext]_vars
               PROVE  MadeInv'
    OBVIOUS
  <1>0. joins \in Queries /\ joins \in Seq(Join)
    BY QueryPositions DEF SearchInv
  <1>1. CASE UNCHANGED vars
    BY <1>1 DEF MadeInv, Made, swap_inner_outer, BigTableLast, OnBigTable, vars
  <1>2. CASE OrderNothing
    <2>1. DOMAIN <<>> = {}
      OBVIOUS
    <2> QED BY <2>1, <1>2, ReturnsMade DEF OrderNothing
  <1>3. CASE OrderBigTable
    <2>1. PICK others \in InOrder(DOMAIN joins \ BigTablePositions), big \in InOrder(BigTablePositions) :
             Returns(others \o Turned(big))
      BY <1>3 DEF OrderBigTable, Turned
    <2> DEFINE order == others \o Turned(big)
    <2>2. \A k \in DOMAIN order : OnBigTable(order[k]) =>
              \A l \in k..Len(order) : order[l].right = BigTable
      BY <1>0, BigTableOrder
    <2>3. Returns(order)
      BY <2>1
    <2> HIDE DEF order
    <2> QED BY <2>2, <2>3, ReturnsMade
  <1>4. CASE OrderNonEquality
    <2>0. \A p \in DOMAIN joins : ~OnBigTable(joins[p])
      BY <1>4 DEF OrderNonEquality, BigTablePositions
    <2>1. CASE Returns(joins)
      BY <2>0, <2>1, ReturnsMade
    <2>2. ASSUME NEW k \in APositions, MovesToEnd(k) PROVE MadeInv'
      <3>1. k \in DOMAIN joins
        BY DEF APositions
      <3>2. PICK others \in InOrder({l \in DOMAIN joins : Key(joins[l]) # Key(joins[k])}) :
               Returns(Append(others, joins[k]))
        BY <2>2 DEF MovesToEnd
      <3> DEFINE order == Append(others, joins[k])
      <3>3. \A i \in DOMAIN order : \E p \in DOMAIN joins : order[i] = joins[p]
        BY <3>1, <1>0, MovedToEnd
      <3>4. Returns(order)
        BY <3>2
      <3> HIDE DEF order
      <3>5. \A i \in DOMAIN order : ~OnBigTable(order[i])
        BY <3>3, <2>0
      <3> QED BY <3>4, <3>5, ReturnsMade
    <2> QED BY <2>1, <2>2, <1>4 DEF OrderNonEquality
  <1>5. CASE EndSearch
    <2> DEFINE order == get_order(Range(joins))
    <2>1. Made(order, Range(joins))
      BY MadeNothing DEF get_order, MadeInv
    <2>2. \A j \in Range(joins) : ~OnBigTable(j) /\ ~OnBigTable(swap_inner_outer(j))
      BY <1>5 DEF EndSearch, StartInv, OnBigTable, swap_inner_outer
    <2>3. Returns(order)
      BY <1>5 DEF EndSearch
    <2> HIDE DEF order
    <2>4. \A k \in DOMAIN order : ~OnBigTable(order[k])
      BY <2>1, <2>2 DEF Made
    <2> QED BY <2>3, <2>4, ReturnsMade
  <1>6. CASE StartSearch
    <2>1. phase' = "search" /\ UNCHANGED <<s, best_card, pc>>
      BY <1>6 DEF StartSearch
    <2> QED BY <2>1 DEF MadeInv, Made, swap_inner_outer, BigTableLast
  <1>7. CASE NextSubset
    <2>1. phase = "search" /\ s = {} /\ UNCHANGED <<best_card, pc, phase>>
      BY <1>7 DEF NextSubset
    <2>2. best_card'.plan = <<>>
      BY <2>1 DEF SearchInv
    <2> QED BY <2>1, <2>2, MadeNothing DEF MadeInv, Made, swap_inner_outer, BigTableLast
  <1>8. CASE SkipCrossProduct
    BY <1>8 DEF SkipCrossProduct, MadeInv, Made, swap_inner_outer, BigTableLast, OnBigTable
  <1>9. CASE ReplaceBest
    <2>1. /\ todo # {} /\ best_card' = CostCard(First(todo))
          /\ UNCHANGED <<s, pc, result, phase>>
      BY <1>9 DEF ReplaceBest
    <2>2. Made(best_card'.plan, s)
      BY <2>1, <1>9, CostCardMade DEF ReplaceBest
    <2> QED BY <2>1, <2>2 DEF MadeInv, Made, swap_inner_outer, BigTableLast, OnBigTable
  <1>10. CASE LeaveUnset
    <2>1. best_card'.plan = <<>> /\ UNCHANGED <<s, pc, result, phase>>
      BY <1>10 DEF LeaveUnset
    <2> QED BY <2>1, MadeNothing DEF MadeInv, Made, swap_inner_outer, BigTableLast, OnBigTable
  <1>11. CASE AddPlan
    <2>1. best_card'.plan = <<>> /\ UNCHANGED <<result, phase>>
      BY <1>11 DEF AddPlan, NoCard
    <2>2. \A js \in DOMAIN pc' : Made(pc'[js].plan, js)
      BY <1>11 DEF AddPlan, MadeInv
    <2>3. Made(best_card'.plan, s')
      BY <2>1, MadeNothing
    <2> QED BY <2>1, <2>2, <2>3 DEF MadeInv, Made, swap_inner_outer, BigTableLast, OnBigTable
  <1> QED BY <1>1, <1>2, <1>3, <1>4, <1>5, <1>6, <1>7, <1>8, <1>9, <1>10, <1>11 DEF JoinNext

\* Whatever the query, a join with big_table is followed by such joins alone, and has
\* big_table on its right: those of a query on big_table are moved to the end and turned,
\* and no other way of ordering meets big_table.
THEOREM BigTableComesLast == JoinSpec => []BigTableLast
  <1>1. MadeInv => BigTableLast
    BY DEF MadeInv
  <1> QED BY <1>1, MadeInit, MadeStep, TypeInvariant, PTL DEF JoinSpec

-----------------------------------------------------------------------------
(* Queries are ordered completely.                                         *)

\* Of the subset under consideration: one way to make its last join is enough.
FoundInv ==
    ~unset => /\ found_plan => best_card.plan # <<>>
              /\ \A j \in s \ todo : CrossProduct(j) \/ found_plan

\* Of the subsets considered: they are no larger than those to come, and have a plan if
\* their joins hang together.
SeenInv ==
    phase = "search" =>
        /\ \A js \in subsets, ks \in (SUBSET Range(joins)) \ subsets :
              Cardinality(ks) <= Cardinality(js)
        /\ ~unset => \A js \in (SUBSET Range(joins)) \ ({{}, s} \cup subsets) :
              Linked(js) => get_order(js) # <<>>

OrderInv == FoundInv /\ SeenInv /\ OrderedUnlessUnset

\* A subset that hangs together has a join that can be its last.
LEMMA LastJoin ==
    ASSUME SearchInv, JoinTypeOK, SeenInv, ~unset, s # {}, Linked(s)
    PROVE  \E j \in s : ~CrossProduct(j)
  <1>1. IsFiniteSet(s) /\ s \in SUBSET Join /\ phase = "search" /\ s \subseteq Range(joins)
    BY QueryIsFinite DEF SearchInv
  <1>2. PICK first \in s : TRUE
    OBVIOUS
  <1>3. CASE s = {first}
    BY <1>3 DEF CrossProduct
  <1>4. CASE s # {first}
    <2>1. PICK j \in s : Linked(s \ {j})
      BY <1>1, <1>4, LinkedShrinks
    <2> DEFINE plan == get_order(s \ {j})
    <2>2. s \ {j} # {} /\ s \ {j} # s
      <3>1. CASE j = first
        BY <3>1, <1>4
      <3>2. CASE j # first
        BY <3>2
      <3> QED BY <3>1, <3>2
    <2>3. s \ {j} \notin subsets
      <3> SUFFICES ASSUME s \ {j} \in subsets PROVE FALSE
        OBVIOUS
      <3>1. Cardinality(s) <= Cardinality(s \ {j})
        BY <1>1 DEF SeenInv, JoinTypeOK
      <3>2. Cardinality(s \ {j}) = Cardinality(s) - 1 /\ Cardinality(s) \in Nat
        BY <1>1, FS_RemoveElement, FS_CardinalityType
      <3> QED BY <3>1, <3>2
    <2>4. s \ {j} \in (SUBSET Range(joins)) \ ({{}, s} \cup subsets)
      BY <1>1, <2>2, <2>3
    <2>5. plan # <<>>
      BY <1>1, <2>1, <2>4 DEF SeenInv
    <2>6. plan \in Seq(Join) /\ Covers(plan, s \ {j})
      BY <2>5 DEF get_order, SearchInv, PlanOf
    <2>7. PICK i \in {j}, k \in s \ {j} : Meet(i, k)
      <3>1. {j} \in (SUBSET s) \ {{}, s}
        BY <2>2
      <3> QED BY <3>1 DEF Linked
    <2>8. PICK n \in DOMAIN plan : plan[n] \in {k, swap_inner_outer(k)}
      BY <2>6, <2>7 DEF Covers
    <2>9. plan[n] \in Range(plan) /\ Tables(plan[n]) = Tables(k)
      <3>1. k \in Join
        BY <1>1, <2>7
      <3> HIDE DEF plan
      <3> QED BY <3>1, <2>8, SwappedIsJoin DEF Range
    <2> HIDE DEF plan
    <2>10. does_join(plan, j.left) \/ does_join(plan, j.right)
      BY <2>7, <2>9 DEF does_join, Meet, Tables
    <2> QED BY <2>10 DEF CrossProduct, plan
  <1> QED BY <1>3, <1>4

LEMMA ReturnsOrder ==
    ASSUME SearchInv, StartInv, OrderInv, NEW order, Returns(order), s = {},
           KeysDistinct /\ Connected /\ ~unset => Covers(order, Range(joins))
    PROVE  OrderInv'
  <1>1. /\ result' = order /\ phase' = "done"
        /\ UNCHANGED <<joins, s, todo, found_plan, best_card, unset>>
    BY DEF Returns, arguments, search
  <1>2. FoundInv'
    BY <1>1 DEF FoundInv, OrderInv, StartInv
  <1>3. SeenInv'
    BY <1>1 DEF SeenInv
  <1>4. OrderedUnlessUnset'
    BY <1>1 DEF OrderedUnlessUnset, KeysDistinct, Key, Connected, Tables, Covers, swap_inner_outer
  <1> QED BY <1>2, <1>3, <1>4 DEF OrderInv

LEMMA OrderInit == JoinInit => OrderInv
  BY DEF JoinInit, OrderInv, FoundInv, SeenInv, OrderedUnlessUnset

LEMMA SearchedOrder ==
    ASSUME SearchInv, JoinTypeOK, OrderInv, phase = "search", s = {}, subsets = {},
           Connected, ~unset
    PROVE  Covers(get_order(Range(joins)), Range(joins))
  <1>1. CASE Range(joins) = {}
    <2>1. {} \notin DOMAIN pc
      BY DEF SearchInv
    <2>2. get_order(Range(joins)) = <<>>
      BY <1>1, <2>1 DEF get_order
    <2> QED BY <1>1, <2>2, FS_EmptySet DEF Covers
  <1>2. CASE Range(joins) # {}
    <2>1. Linked(Range(joins))
      BY DEF Connected, Linked, Meet
    <2>2. Range(joins) \in (SUBSET Range(joins)) \ ({{}, s} \cup subsets)
      BY <1>2
    <2>3. get_order(Range(joins)) # <<>>
      BY <2>1, <2>2 DEF OrderInv, SeenInv
    <2> QED BY <2>3 DEF get_order, SearchInv, PlanOf
  <1> QED BY <1>1, <1>2

\* A step of the search that leaves the cache and the subsets as they are.
LEMMA SeenStays ==
    ASSUME SeenInv, UNCHANGED <<joins, subsets, s, pc, phase>>, unset => unset'
    PROVE  SeenInv'
  BY DEF SeenInv, Linked, Meet, Tables, get_order

LEMMA OrderStep ==
    SearchInv /\ JoinTypeOK /\ StartInv /\ OrderInv /\ [JoinNext]_vars => OrderInv'
  <1> SUFFICES ASSUME SearchInv, JoinTypeOK, StartInv, OrderInv, [JoinNext]_vars
               PROVE  OrderInv'
    OBVIOUS
  <1>0. /\ joins \in Queries /\ joins \in Seq(Join) /\ (phase = "start" => s = {})
        /\ FoundInv /\ SeenInv
    BY QueryPositions DEF SearchInv, OrderInv
  <1>1. CASE UNCHANGED vars
    <2>1. SeenInv'
      BY <1>0, <1>1, SeenStays DEF vars
    <2>2. FoundInv'
      BY <1>0, <1>1 DEF FoundInv, CrossProduct, get_order, does_join, vars
    <2>3. OrderedUnlessUnset'
      BY <1>1 DEF OrderInv, OrderedUnlessUnset, KeysDistinct, Key, Connected, Tables, Covers,
                  swap_inner_outer, vars
    <2> QED BY <2>1, <2>2, <2>3 DEF OrderInv
  <1>2. CASE OrderNothing
    <2>1. Returns(<<>>) /\ Range(joins) = {}
      BY <1>2 DEF OrderNothing, Range
    <2>2. Covers(<<>>, Range(joins))
      BY <2>1, FS_EmptySet DEF Covers
    <2> QED BY <2>1, <2>2, <1>0, <1>2, ReturnsOrder DEF OrderNothing
  <1>3. CASE OrderBigTable
    <2>1. PICK others \in InOrder(DOMAIN joins \ BigTablePositions), big \in InOrder(BigTablePositions) :
             Returns(others \o Turned(big))
      BY <1>3 DEF OrderBigTable, Turned
    <2>2. KeysDistinct => Covers(others \o Turned(big), Range(joins))
      BY <1>0, BigTableOrder
    <2>3. s = {}
      BY <1>0, <1>3 DEF OrderBigTable
    <2> QED BY <2>1, <2>2, <2>3, ReturnsOrder
  <1>4. CASE OrderNonEquality
    <2>0. s = {}
      BY <1>0, <1>4 DEF OrderNonEquality
    <2>1. CASE Returns(joins)
      <3>1. KeysDistinct => Covers(joins, Range(joins))
        BY <1>0, CoversQuery
      <3> QED BY <2>0, <2>1, <3>1, ReturnsOrder
    <2>2. ASSUME NEW k \in APositions, MovesToEnd(k) PROVE OrderInv'
      <3>1. k \in DOMAIN joins
        BY DEF APositions
      <3>2. PICK others \in InOrder({l \in DOMAIN joins : Key(joins[l]) # Key(joins[k])}) :
               Returns(Append(others, joins[k]))
        BY <2>2 DEF MovesToEnd
      <3>3. KeysDistinct => Covers(Append(others, joins[k]), Range(joins))
        BY <3>1, <1>0, MovedToEnd
      <3> QED BY <3>2, <3>3, <2>0, ReturnsOrder
    <2> QED BY <2>1, <2>2, <1>4 DEF OrderNonEquality
  <1>5. CASE EndSearch
    <2>1. phase = "search" /\ s = {} /\ subsets = {} /\ Returns(get_order(Range(joins)))
      BY <1>5 DEF EndSearch
    <2>2. Connected /\ ~unset => Covers(get_order(Range(joins)), Range(joins))
      BY <2>1, SearchedOrder
    <2> QED BY <2>1, <2>2, ReturnsOrder
  <1>6. CASE StartSearch
    <2>1. /\ s = {} /\ todo = {} /\ subsets' = (SUBSET Range(joins)) \ {{}} /\ phase' = "search"
          /\ UNCHANGED <<joins, s, todo, found_plan, best_card, pc, unset>> /\ ~found_plan
      BY <1>6 DEF StartSearch, StartInv, arguments
    <2>2. SeenInv'
      <3>1. \A js \in SUBSET Range(joins) : Cardinality({}) <= Cardinality(js)
        BY <1>0, QueryIsFinite, FS_EmptySet, FS_CardinalityType
      <3> QED BY <2>1, <3>1 DEF SeenInv
    <2>3. FoundInv'
      BY <2>1 DEF FoundInv
    <2> QED BY <2>1, <2>2, <2>3 DEF OrderInv, OrderedUnlessUnset
  <1>7. CASE NextSubset
    <2>1. PICK js \in subsets : /\ \A ks \in subsets : Cardinality(js) <= Cardinality(ks)
                                /\ s' = js /\ todo' = js /\ subsets' = subsets \ {js}
      BY <1>7 DEF NextSubset
    <2>2. /\ phase = "search" /\ s = {} /\ ~found_plan
          /\ UNCHANGED <<joins, found_plan, best_card, pc, unset, phase>>
      BY <1>7 DEF NextSubset, StartInv, arguments
    <2>3. FoundInv'
      BY <2>1, <2>2 DEF FoundInv
    <2>4. SeenInv'
      <3>1. \A ms \in subsets', ks \in (SUBSET Range(joins)) \ subsets' :
               Cardinality(ks) <= Cardinality(ms)
        BY <1>0, <2>1, <2>2 DEF SeenInv
      <3>2. ASSUME ~unset, NEW ms \in (SUBSET Range(joins)) \ ({{}, s'} \cup subsets'), Linked(ms)
            PROVE  get_order(ms) # <<>>
        <4>1. ms \in (SUBSET Range(joins)) \ ({{}, s} \cup subsets)
          BY <2>1, <2>2
        <4> QED BY <3>2, <4>1, <1>0, <2>2 DEF SeenInv
      <3> QED BY <3>1, <3>2, <2>2 DEF SeenInv, Linked, Meet, Tables, get_order
    <2> QED BY <2>2, <2>3, <2>4 DEF OrderInv, OrderedUnlessUnset
  <1>8. ASSUME todo # {} PROVE phase = "search" /\ s # {}
    BY <1>8 DEF JoinTypeOK, SearchInv
  <1>9. CASE SkipCrossProduct
    <2>1. /\ todo # {} /\ todo' = todo \ {First(todo)} /\ CrossProduct(First(todo))
          /\ UNCHANGED <<joins, subsets, s, found_plan, best_card, pc, unset, phase>>
      BY <1>9 DEF SkipCrossProduct, arguments
    <2>2. SeenInv'
      BY <1>0, <2>1, SeenStays
    <2>3. \A j \in s \ todo' : j \in s \ todo \/ j = First(todo)
      BY <2>1
    <2>4. ~unset => \A j \in s \ todo' : CrossProduct(j) \/ found_plan
      BY <1>0, <2>1, <2>3 DEF FoundInv
    <2>5. FoundInv'
      BY <1>0, <2>1, <2>4 DEF FoundInv, CrossProduct, get_order, does_join
    <2> QED BY <1>8, <2>1, <2>2, <2>5 DEF OrderInv, OrderedUnlessUnset
  <1>10. CASE ReplaceBest
    <2>1. /\ todo # {} /\ ~CrossProduct(First(todo)) /\ best_card' = CostCard(First(todo))
          /\ found_plan' = TRUE /\ UNCHANGED <<joins, subsets, s, pc, unset, phase>>
      BY <1>10 DEF ReplaceBest, arguments
    <2>2. SeenInv'
      BY <1>0, <2>1, SeenStays
    <2>3. best_card'.plan # <<>>
      <3> DEFINE j == First(todo)
                 plan == get_order(s \ {j})
      <3>1. plan \in Seq(Join)
        BY DEF get_order, JoinTypeOK, CostCards
      <3>2. j \in Join
        <4>1. j \in s
          BY <2>1, CostCardIsPlan
        <4> QED BY <4>1, <1>0, QueryIsFinite DEF SearchInv
      <3>3. best_card'.plan \in {Append(plan, j), Append(plan, swap_inner_outer(j))}
        BY <2>1 DEF CostCard, Extended
      <3> HIDE DEF plan, j
      <3>4. swap_inner_outer(j) \in Join
        BY <3>2, SwappedIsJoin
      <3>5. ASSUME NEW last \in Join PROVE Append(plan, last) # <<>>
        <4>1. Len(Append(plan, last)) = Len(plan) + 1 /\ Len(plan) \in Nat
          BY <3>1
        <4> QED BY <4>1
      <3> QED BY <3>2, <3>3, <3>4, <3>5
    <2>4. FoundInv'
      BY <2>1, <2>3 DEF FoundInv
    <2> QED BY <1>8, <2>1, <2>2, <2>4 DEF OrderInv, OrderedUnlessUnset
  <1>11. CASE LeaveUnset
    <2>1. /\ todo # {} /\ unset' = TRUE /\ UNCHANGED <<joins, subsets, s, pc, phase>>
      BY <1>11 DEF LeaveUnset, arguments
    <2>2. SeenInv'
      BY <1>0, <2>1, SeenStays
    <2>3. FoundInv'
      BY <2>1 DEF FoundInv
    <2> QED BY <1>8, <2>1, <2>2, <2>3 DEF OrderInv, OrderedUnlessUnset
  <1>12. CASE AddPlan
    <2>1. /\ s # {} /\ todo = {} /\ s' = {} /\ todo' = {} /\ found_plan' = FALSE
          /\ UNCHANGED <<joins, subsets, unset, phase>> /\ phase = "search"
      BY <1>12 DEF AddPlan, SearchInv, arguments
    <2>2. FoundInv'
      BY <2>1 DEF FoundInv
    <2>3. ASSUME NEW js, js # s PROVE get_order(js)' = get_order(js)
      BY <1>12, <2>3 DEF AddPlan, get_order
    <2>4. ASSUME NEW js, js = s, ~unset, Linked(js) PROVE get_order(js)' # <<>>
      <3>0. Linked(s)
        BY <2>4
      <3>1. PICK j \in s : ~CrossProduct(j)
        BY <1>0, <2>1, <2>4, <3>0, LastJoin
      <3>2. found_plan /\ best_card.plan # <<>>
        BY <1>0, <2>1, <2>4, <3>1 DEF FoundInv
      <3>3. js \in DOMAIN pc' /\ pc'[js] = best_card
        BY <1>12, <2>4, <3>2 DEF AddPlan
      <3> QED BY <3>2, <3>3 DEF get_order
    <2>5. ASSUME ~unset, NEW js \in (SUBSET Range(joins)) \ ({{}} \cup subsets), Linked(js)
          PROVE  get_order(js)' # <<>>
      <3>1. CASE js = s
        BY <3>1, <2>4, <2>5
      <3>2. CASE js # s
        BY <3>2, <2>1, <2>3, <2>5, <1>0 DEF SeenInv
      <3> QED BY <3>1, <3>2
    <2>6. \A js : Linked(js)' <=> Linked(js)
      BY DEF Linked, Meet, Tables
    <2>7. SeenInv'
      BY <1>0, <2>1, <2>5, <2>6 DEF SeenInv
    <2> QED BY <2>1, <2>2, <2>7 DEF OrderInv, OrderedUnlessUnset
  <1> QED BY <1>1, <1>2, <1>3, <1>4, <1>5, <1>6, <1>7, <1>9, <1>10, <1>11, <1>12 DEF JoinNext

\* A query whose joins differ in their tables and fields and hang together is ordered
\* completely, by rule or by search, unless compute_cost_and_card_of_subplan left a CostCard
\* unset: subsets come in the order of their sizes, so that one which hangs together finds
\* the plan of a smaller one to put its last join after.
THEOREM QueriesAreOrdered == JoinSpec => []OrderedUnlessUnset
  <1>1. OrderInv => OrderedUnlessUnset
    BY DEF OrderInv
  <1> QED BY <1>1, OrderInit, OrderStep, TypeInvariant, PTL DEF JoinSpec

-----------------------------------------------------------------------------
(* What plans cost.                                                        *)

\* What was done after each of the joins of order.
RunOf(run, order) ==
    run = [k \in 0..Len(order) |-> IF k = 0 THEN NothingDone
                                   ELSE Execute(run[k - 1], order[k])]

\* The cost, the cardinality and the tables the search takes a plan to have.
CostOf(card) ==
    card.plan # <<>> =>
        \E run : /\ RunOf(run, card.plan)
                 /\ run[Len(card.plan)].cost = card.cost
                 /\ run[Len(card.plan)].card = card.card
                 /\ run[Len(card.plan)].pkey = has_Pkey(card.plan)
                 /\ \A t : t \in run[Len(card.plan)].tables <=> does_join(card.plan, t)

Cards == {best_card} \cup {pc[js] : js \in DOMAIN pc}

CostInv == OneDirection => \A card \in Cards : CostOf(card)

LEMMA RunGrows ==
    ASSUME NEW order \in Seq(Join), NEW j \in Join, NEW run, RunOf(run, order)
    PROVE  \E longer : /\ RunOf(longer, Append(order, j))
                       /\ longer[Len(order) + 1] = Execute(run[Len(order)], j)
  <1> DEFINE n == Len(order)
             longer == [k \in 0..n + 1 |-> IF k <= n THEN run[k] ELSE Execute(run[n], j)]
  <1>1. /\ n \in Nat /\ Len(Append(order, j)) = n + 1 /\ Append(order, j)[n + 1] = j
        /\ \A k \in 1..n : Append(order, j)[k] = order[k]
    OBVIOUS
  <1>2. \A k \in 0..n : run[k] = IF k = 0 THEN NothingDone ELSE Execute(run[k - 1], order[k])
    BY DEF RunOf
  <1> DEFINE body == [k \in 0..n + 1 |-> IF k = 0 THEN NothingDone
                                          ELSE Execute(longer[k - 1], Append(order, j)[k])]
  <1>3. ASSUME NEW k \in 0..n + 1 PROVE longer[k] = body[k]
    <2>1. CASE k = 0
      BY <2>1, <1>1, <1>2
    <2>2. CASE k \in 1..n
      <3>1. longer[k] = run[k] /\ longer[k - 1] = run[k - 1]
        BY <2>2, <1>1
      <3>2. run[k] = Execute(run[k - 1], order[k])
        BY <2>2, <1>1, <1>2
      <3>3. body[k] = Execute(longer[k - 1], Append(order, j)[k])
        BY <2>2, <1>1
      <3>4. Append(order, j)[k] = order[k]
        BY <2>2, <1>1
      <3> QED BY <3>1, <3>2, <3>3, <3>4
    <2>3. CASE k = n + 1
      <3>1. longer[k] = Execute(run[n], j) /\ longer[k - 1] = run[n]
        BY <2>3, <1>1
      <3>2. body[k] = Execute(longer[k - 1], Append(order, j)[k])
        BY <2>3, <1>1
      <3>3. Append(order, j)[k] = j
        BY <2>3, <1>1
      <3> QED BY <3>1, <3>2, <3>3
    <2> QED BY <2>1, <2>2, <2>3, <1>1
  <1>4. longer = body
    <2>1. longer = [k \in 0..n + 1 |-> longer[k]] /\ body = [k \in 0..n + 1 |-> body[k]]
      OBVIOUS
    <2> HIDE DEF longer, body
    <2> QED BY <2>1, <1>3
  <1>5. RunOf(longer, Append(order, j))
    <2>1. body = [k \in 0..Len(Append(order, j)) |->
                     IF k = 0 THEN NothingDone ELSE Execute(longer[k - 1], Append(order, j)[k])]
      BY <1>1
    <2> HIDE DEF longer, body
    <2> QED BY <1>4, <2>1 DEF RunOf
  <1>6. longer[n + 1] = Execute(run[n], j)
    BY <1>1
  <1> HIDE DEF longer
  <1> QED BY <1>5, <1>6

LEMMA RunOfNothing ==
    \E run : RunOf(run, <<>>) /\ run[0] = NothingDone
  <1> DEFINE run == [k \in 0..0 |-> NothingDone]
  <1>1. Len(<<>>) = 0
    OBVIOUS
  <1>2. RunOf(run, <<>>) /\ run[0] = NothingDone
    BY <1>1 DEF RunOf
  <1> HIDE DEF run
  <1> QED BY <1>2

\* There is one run of a plan, and Executed is its end.
LEMMA RunsAreEqual ==
    ASSUME NEW order \in Seq(Join), NEW a, RunOf(a, order), NEW b, RunOf(b, order)
    PROVE  a[Len(order)] = b[Len(order)]
  <1> DEFINE n == Len(order)
             Apart == {k \in 0..n : a[k] # b[k]}
  <1>1. n \in Nat
    OBVIOUS
  <1>2. \A k \in 0..n : a[k] = IF k = 0 THEN NothingDone ELSE Execute(a[k - 1], order[k])
    BY DEF RunOf
  <1>3. \A k \in 0..n : b[k] = IF k = 0 THEN NothingDone ELSE Execute(b[k - 1], order[k])
    BY DEF RunOf
  <1>4. Apart = {}
    <2> SUFFICES ASSUME Apart # {} PROVE FALSE
      OBVIOUS
    <2>1. Apart \in SUBSET Nat
      BY <1>1
    <2>2. PICK k \in Apart : \A l \in Apart : k <= l
      <3> HIDE DEF Apart
      <3> QED BY <2>1, Smallest
    <2>3. CASE k = 0
      BY <2>3, <1>1, <1>2, <1>3
    <2>4. CASE k # 0
      <3>1. k \in 0..n /\ k - 1 \in 0..n /\ ~(k <= k - 1)
        BY <2>4, <1>1
      <3>2. a[k - 1] = b[k - 1]
        BY <2>2, <3>1
      <3>3. a[k] = Execute(a[k - 1], order[k]) /\ b[k] = Execute(b[k - 1], order[k])
        BY <2>4, <3>1, <1>2, <1>3
      <3> QED BY <3>2, <3>3
    <2> QED BY <2>3, <2>4
  <1> QED BY <1>1, <1>4

LEMMA RunIsExecuted ==
    ASSUME NEW order \in Seq(Join), NEW run, RunOf(run, order)
    PROVE  Executed(order) = run[Len(order)]
  <1> DEFINE chosen == CHOOSE f : f = [k \in 0..Len(order) |->
                          IF k = 0 THEN NothingDone ELSE Execute(f[k - 1], order[k])]
  <1>1. RunOf(chosen, order)
    BY DEF RunOf
  <1>2. Executed(order) = chosen[Len(order)]
    BY DEF Executed
  <1> HIDE DEF chosen
  <1> QED BY <1>1, <1>2, RunsAreEqual

\* Inputs the estimates do not tell apart.
SameInput(a, b) == a.cost = b.cost /\ a.card = b.card /\ a.pkey = b.pkey

LEMMA EstimateSame ==
    ASSUME NEW j, NEW a, NEW b, NEW c, NEW d, SameInput(a, b), SameInput(c, d)
    PROVE  estimate_join_cardinality(j, a, c) = estimate_join_cardinality(j, b, d)
  BY DEF SameInput, estimate_join_cardinality

LEMMA SwappedTwice ==
    ASSUME NEW j \in Join
    PROVE  swap_inner_outer(swap_inner_outer(j)) = j
  BY DEF Join, swap_inner_outer

LEMMA AppendedFields ==
    ASSUME NEW order \in Seq(Join), NEW j \in Join
    PROVE  /\ has_Pkey(Append(order, j)) <=> has_Pkey(order) \/ 0 \in {j.left_field, j.right_field}
           /\ \A t : does_join(Append(order, j), t) <=> does_join(order, t) \/ t \in Tables(j)
  <1>1. Range(Append(order, j)) = Range(order) \cup {j}
    <2> DEFINE longer == Append(order, j)
    <2>1. /\ DOMAIN longer = 1..Len(order) + 1 /\ DOMAIN order = 1..Len(order) /\ Len(order) \in Nat
          /\ longer[Len(order) + 1] = j /\ \A k \in 1..Len(order) : longer[k] = order[k]
      OBVIOUS
    <2> HIDE DEF longer
    <2>2. ASSUME NEW k \in DOMAIN longer PROVE longer[k] \in Range(order) \cup {j}
      BY <2>1 DEF Range
    <2>3. ASSUME NEW k \in DOMAIN order PROVE order[k] \in Range(longer)
      <3>1. k \in DOMAIN longer /\ longer[k] = order[k]
        BY <2>1
      <3> QED BY <3>1 DEF Range
    <2>4. j \in Range(longer)
      <3>1. Len(order) + 1 \in DOMAIN longer
        BY <2>1
      <3> QED BY <3>1, <2>1 DEF Range
    <2> QED BY <2>2, <2>3, <2>4 DEF Range, longer
  <1> QED BY <1>1 DEF has_Pkey, does_join, Tables

\* One join more, in either direction, costs what the search takes it to cost: its inputs
\* are the plan before it and a table, or two tables.
LEMMA ExecuteLast ==
    ASSUME SearchInv, JoinTypeOK, OneDirection, NEW j \in s, ~CrossProduct(j),
           NEW last \in {j, swap_inner_outer(j)}, NEW done,
           \A t : t \in done.tables <=> does_join(get_order(s \ {j}), t),
           s # {j} => SameInput(done, Cached(s \ {j})),
           s = {j} => done.tables = {}
    PROVE  LET outer == IF last = j THEN LeftInput(j) ELSE RightInput(j)
               inner == IF last = j THEN RightInput(j) ELSE LeftInput(j)
           IN  /\ Execute(done, last).cost = estimate_join_cost(outer, inner)
               /\ Execute(done, last).card = estimate_join_cardinality(last, outer, inner)
               /\ Execute(done, last).pkey = (done.pkey \/ 0 \in {last.left_field, last.right_field})
               /\ Execute(done, last).tables = done.tables \cup Tables(last)
  <1> DEFINE o == Original(last)
             joined == IF o.left \in done.tables THEN o.left ELSE o.right
             Input(table, field) ==
                IF done.tables # {} /\ table = joined THEN done ELSE Base(table, field)
             outer == IF last = j THEN LeftInput(j) ELSE RightInput(j)
             inner == IF last = j THEN RightInput(j) ELSE LeftInput(j)
             a == Input(last.left, last.left_field)
             b == Input(last.right, last.right_field)
  <1>1. j \in Join /\ j \in Range(joins) /\ j.left # j.right
    BY QueryIsFinite, JoinAssumption DEF SearchInv
  <1>2. o = j
    <2>1. CASE last = j
      BY <2>1, <1>1 DEF Original
    <2>2. CASE last = swap_inner_outer(j)
      <3>1. last \notin Range(joins)
        BY <2>2, <1>1 DEF OneDirection
      <3> QED BY <3>1, <2>2, <1>1, SwappedTwice DEF Original
    <2> QED BY <2>1, <2>2
  <1>3. SameInput(Input(j.left, j.left_field), LeftInput(j))
    <2>1. CASE s = {j}
      BY <2>1 DEF SameInput, LeftInput
    <2>2. CASE s # {j} /\ does_join(get_order(s \ {j}), j.left)
      BY <2>2, <1>2 DEF SameInput, LeftInput
    <2>3. CASE s # {j} /\ ~does_join(get_order(s \ {j}), j.left)
      BY <2>3, <1>1, <1>2 DEF SameInput, LeftInput
    <2> QED BY <2>1, <2>2, <2>3
  <1>4. SameInput(Input(j.right, j.right_field), RightInput(j))
    <2>1. CASE s = {j}
      BY <2>1 DEF SameInput, RightInput
    <2>2. CASE s # {j} /\ does_join(get_order(s \ {j}), j.left)
      BY <2>2, <1>1, <1>2 DEF SameInput, RightInput
    <2>3. CASE s # {j} /\ ~does_join(get_order(s \ {j}), j.left)
      <3>1. does_join(get_order(s \ {j}), j.right)
        BY <2>3 DEF CrossProduct
      <3> QED BY <2>3, <3>1, <1>2 DEF SameInput, RightInput
    <2> QED BY <2>1, <2>2, <2>3
  <1>5. SameInput(a, outer) /\ SameInput(b, inner)
    <2>1. CASE last = j
      BY <2>1, <1>3, <1>4
    <2>2. CASE last # j
      <3>1. /\ last.left = j.right /\ last.left_field = j.right_field
            /\ last.right = j.left /\ last.right_field = j.left_field
        BY <2>2 DEF swap_inner_outer
      <3> QED BY <2>2, <3>1, <1>3, <1>4
    <2> QED BY <2>1, <2>2
  <1>6. Execute(done, last) =
           [tables |-> done.tables \cup Tables(last),
            cost |-> a.cost + a.card * b.cost + a.card * b.card,
            card |-> estimate_join_cardinality(last, a, b),
            pkey |-> done.pkey \/ 0 \in {last.left_field, last.right_field}]
    BY DEF Execute
  <1> HIDE DEF a, b, outer, inner, Input
  <1>7. a.cost + a.card * b.cost + a.card * b.card = estimate_join_cost(outer, inner)
    BY <1>5 DEF SameInput, estimate_join_cost
  <1>8. estimate_join_cardinality(last, a, b) = estimate_join_cardinality(last, outer, inner)
    BY <1>5, EstimateSame
  <1>9. /\ Execute(done, last).cost = estimate_join_cost(outer, inner)
        /\ Execute(done, last).card = estimate_join_cardinality(last, outer, inner)
        /\ Execute(done, last).pkey = (done.pkey \/ 0 \in {last.left_field, last.right_field})
        /\ Execute(done, last).tables = done.tables \cup Tables(last)
    BY <1>6, <1>7, <1>8
  <1> QED BY <1>9 DEF outer, inner

LEMMA CostCardCost ==
    ASSUME SearchInv, JoinTypeOK, CostInv, OneDirection,
           todo # {}, ~CrossProduct(First(todo))
    PROVE  CostOf(CostCard(First(todo)))
  <1> DEFINE j == First(todo)
             plan == get_order(s \ {j})
             n == Len(plan)
  <1>1. j \in s /\ ~CrossProduct(j)
    BY CostCardIsPlan
  <1>2. j \in Join /\ plan \in Seq(Join)
    <2>1. s \in SUBSET Join
      BY QueryIsFinite DEF SearchInv
    <2>2. plan \in Seq(Join)
      BY DEF get_order, JoinTypeOK, CostCards
    <2> QED BY <1>1, <2>1, <2>2
  <1> HIDE DEF j
  <1>3. PICK run : /\ RunOf(run, plan)
                   /\ run[n].pkey = has_Pkey(plan)
                   /\ \A t : t \in run[n].tables <=> does_join(plan, t)
                   /\ s # {j} => SameInput(run[n], Cached(s \ {j}))
                   /\ s = {j} => run[n].tables = {}
    <2>0. ~has_Pkey(<<>>) /\ \A t : ~does_join(<<>>, t)
      BY DEF has_Pkey, does_join, Range
    <2>1. CASE s = {j}
      <3>1. plan = <<>> /\ n = 0
        <4>1. {} \notin DOMAIN pc
          BY DEF SearchInv
        <4>2. plan = <<>>
          BY <2>1, <4>1 DEF get_order
        <4> QED BY <4>2
      <3>2. PICK run : RunOf(run, <<>>) /\ run[0] = NothingDone
        BY RunOfNothing
      <3>3. run[0].tables = {} /\ run[0].pkey = FALSE
        BY <3>2 DEF NothingDone
      <3> HIDE DEF plan, n
      <3>4. /\ RunOf(run, plan) /\ run[n].pkey = has_Pkey(plan)
            /\ \A t : t \in run[n].tables <=> does_join(plan, t)
            /\ run[n].tables = {}
        <4>1. RunOf(run, plan) /\ run[n].tables = {} /\ run[n].pkey = FALSE
          BY <3>1, <3>2, <3>3
        <4>2. has_Pkey(plan) = FALSE
          BY <2>0, <3>1 DEF has_Pkey
        <4> QED BY <2>0, <3>1, <4>1, <4>2
      <3> QED BY <2>1, <3>4 DEF plan, n
    <2>2. CASE s # {j}
      <3>1. plan # <<>>
        BY <2>0, <2>2, <1>1 DEF CrossProduct
      <3>2. s \ {j} \in DOMAIN pc /\ plan = pc[s \ {j}].plan
        BY <3>1 DEF get_order
      <3>3. CostOf(pc[s \ {j}])
        BY <3>2 DEF CostInv, Cards
      <3>4. PICK run : /\ RunOf(run, plan)
                       /\ run[n].cost = pc[s \ {j}].cost /\ run[n].card = pc[s \ {j}].card
                       /\ run[n].pkey = has_Pkey(plan)
                       /\ \A t : t \in run[n].tables <=> does_join(plan, t)
        <4> HIDE DEF plan
        <4> QED BY <3>1, <3>2, <3>3 DEF CostOf
      <3>5. SameInput(run[n], Cached(s \ {j}))
        <4> HIDE DEF plan, n
        <4> QED BY <3>2, <3>4 DEF SameInput, Cached
      <3> HIDE DEF plan, n
      <3> QED BY <2>2, <3>4, <3>5
    <2> QED BY <2>1, <2>2
  <1>4. ASSUME NEW last \in {j, swap_inner_outer(j)}, NEW card,
               card = IF last = j THEN Extended(plan, last, LeftInput(j), RightInput(j))
                      ELSE Extended(plan, last, RightInput(j), LeftInput(j))
        PROVE  CostOf(card)
    <2> DEFINE outer == IF last = j THEN LeftInput(j) ELSE RightInput(j)
               inner == IF last = j THEN RightInput(j) ELSE LeftInput(j)
               order == Append(plan, last)
    <2>1. last \in Join
      BY <1>2, SwappedIsJoin
    <2>2. /\ card.plan = order /\ card.cost = estimate_join_cost(outer, inner)
          /\ card.card = estimate_join_cardinality(last, outer, inner)
      BY <1>4 DEF Extended
    <2>3. /\ Execute(run[n], last).cost = estimate_join_cost(outer, inner)
          /\ Execute(run[n], last).card = estimate_join_cardinality(last, outer, inner)
          /\ Execute(run[n], last).pkey = (run[n].pkey \/ 0 \in {last.left_field, last.right_field})
          /\ Execute(run[n], last).tables = run[n].tables \cup Tables(last)
      <3> HIDE DEF n
      <3> QED BY <1>1, <1>3, ExecuteLast
    <2>4. PICK longer : RunOf(longer, order) /\ longer[n + 1] = Execute(run[n], last)
      <3> HIDE DEF plan
      <3> QED BY <1>2, <1>3, <2>1, RunGrows
    <2>5. Len(order) = n + 1
      BY <1>2, <2>1
    <2>6. /\ has_Pkey(order) <=> has_Pkey(plan) \/ 0 \in {last.left_field, last.right_field}
          /\ \A t : does_join(order, t) <=> does_join(plan, t) \/ t \in Tables(last)
      BY <1>2, <2>1, AppendedFields
    <2> HIDE DEF n, plan, order, outer, inner
    <2>7. longer[n + 1].cost = card.cost /\ longer[n + 1].card = card.card
      BY <2>2, <2>3, <2>4
    <2>8. longer[n + 1].pkey = has_Pkey(order)
      <3>1. has_Pkey(order) \in BOOLEAN /\ has_Pkey(plan) \in BOOLEAN
        BY DEF has_Pkey
      <3>2. longer[n + 1].pkey = (has_Pkey(plan) \/ 0 \in {last.left_field, last.right_field})
        BY <2>3, <2>4, <1>3
      <3> QED BY <3>1, <3>2, <2>6
    <2>9. \A t : t \in longer[n + 1].tables <=> does_join(order, t)
      BY <2>3, <2>4, <2>6, <1>3
    <2> QED BY <2>2, <2>4, <2>5, <2>7, <2>8, <2>9 DEF CostOf
  <1>5. j.left # j.right /\ swap_inner_outer(j) # j
    <2>1. j \in Range(joins)
      BY <1>1 DEF SearchInv
    <2>2. j.left # j.right
      BY <2>1, JoinAssumption DEF SearchInv
    <2> QED BY <2>2 DEF swap_inner_outer
  <1>6. CostCard(j) \in {Extended(plan, j, LeftInput(j), RightInput(j)),
                         Extended(plan, swap_inner_outer(j), RightInput(j), LeftInput(j))}
    BY DEF CostCard
  <1> HIDE DEF plan, n
  <1>7. CostOf(CostCard(j))
    BY <1>4, <1>5, <1>6
  <1> QED BY <1>7 DEF j

LEMMA ExecuteStays ==
    ASSUME UNCHANGED <<joins, stats>>, NEW done, NEW j
    PROVE  Execute(done, j)' = Execute(done, j)
  BY DEF Execute, Original, swap_inner_outer, Base, Tables, estimate_join_cardinality

LEMMA CostOfStays ==
    ASSUME UNCHANGED <<joins, stats>>, NEW card, CostOf(card)
    PROVE  CostOf(card)'
  <1>1. \A run, order : RunOf(run, order)' <=> RunOf(run, order)
    BY ExecuteStays DEF RunOf, NothingDone
  <1> QED BY <1>1 DEF CostOf, has_Pkey, does_join

LEMMA NoCardCost == \A card : card.plan = <<>> => CostOf(card)
  BY DEF CostOf

LEMMA CostInit == JoinInit => CostInv
  <1> SUFFICES ASSUME JoinInit PROVE CostInv
    OBVIOUS
  <1>1. pc = <<>> /\ best_card.plan = <<>>
    BY DEF JoinInit, NoCard
  <1>2. Cards = {best_card}
    BY <1>1 DEF Cards
  <1> QED BY <1>1, <1>2, NoCardCost DEF CostInv

\* The cards after a step are cards there were, one with no plan, and the CostCard found.
LEMMA CostsStay ==
    ASSUME SearchInv, JoinTypeOK, CostInv, UNCHANGED <<joins, stats>>,
           \A card \in Cards' :
              \/ card \in Cards
              \/ card.plan = <<>>
              \/ /\ card = CostCard(First(todo))
                 /\ todo # {} /\ ~CrossProduct(First(todo))
    PROVE  CostInv'
  <1> SUFFICES ASSUME OneDirection', NEW card \in Cards' PROVE CostOf(card)'
    BY DEF CostInv
  <1>1. OneDirection
    BY DEF OneDirection, swap_inner_outer
  <1>2. CostOf(card)
    <2>1. CASE card \in Cards
      BY <1>1, <2>1 DEF CostInv
    <2>2. CASE card.plan = <<>>
      BY <2>2, NoCardCost
    <2>3. CASE card = CostCard(First(todo)) /\ todo # {} /\ ~CrossProduct(First(todo))
      <3>1. CostOf(CostCard(First(todo)))
        BY <1>1, <2>3, CostCardCost
      <3> QED BY <2>3, <3>1
    <2> QED BY <2>1, <2>2, <2>3
  <1> QED BY <1>2, CostOfStays

LEMMA CostStep ==
    SearchInv /\ JoinTypeOK /\ StartInv /\ CostInv /\ [JoinNext]_vars => CostInv'
  <1> SUFFICES ASSUME SearchInv, JoinTypeOK, StartInv, CostInv, [JoinNext]_vars
               PROVE  CostInv'
    OBVIOUS
  <1>1. ASSUME UNCHANGED <<joins, stats, best_card, pc>> PROVE CostInv'
    <2>1. Cards' = Cards
      BY <1>1 DEF Cards
    <2> QED BY <1>1, <2>1, CostsStay
  <1>2. ASSUME NEW order, Returns(order) PROVE CostInv'
    BY <1>1, <1>2 DEF Returns, arguments, search
  <1>3. CASE UNCHANGED vars
    BY <1>1, <1>3 DEF vars
  <1>4. CASE OrderNothing \/ OrderBigTable \/ OrderNonEquality \/ EndSearch
    BY <1>2, <1>4 DEF OrderNothing, OrderBigTable, OrderNonEquality, MovesToEnd, EndSearch
  <1>5. CASE StartSearch \/ NextSubset \/ SkipCrossProduct
    BY <1>1, <1>5 DEF StartSearch, NextSubset, SkipCrossProduct, arguments
  <1>6. CASE ReplaceBest
    <2>1. /\ todo # {} /\ ~CrossProduct(First(todo)) /\ best_card' = CostCard(First(todo))
          /\ UNCHANGED <<joins, stats, pc>>
      BY <1>6 DEF ReplaceBest, arguments
    <2>2. \A card \in Cards' : card \in Cards \/ card = CostCard(First(todo))
      BY <2>1 DEF Cards
    <2> QED BY <2>1, <2>2, CostsStay
  <1>7. CASE LeaveUnset
    <2>1. best_card'.plan = <<>> /\ UNCHANGED <<joins, stats, pc>>
      BY <1>7 DEF LeaveUnset, arguments
    <2>2. \A card \in Cards' : card \in Cards \/ card.plan = <<>>
      BY <2>1 DEF Cards
    <2> QED BY <2>1, <2>2, CostsStay
  <1>8. CASE AddPlan
    <2>1. best_card'.plan = <<>> /\ UNCHANGED <<joins, stats>>
      BY <1>8 DEF AddPlan, arguments, NoCard
    <2>2. \A js \in DOMAIN pc' : pc'[js] \in Cards
      BY <1>8 DEF AddPlan, Cards
    <2>3. \A card \in Cards' : card \in Cards \/ card.plan = <<>>
      BY <2>1, <2>2 DEF Cards
    <2> QED BY <2>1, <2>3, CostsStay
  <1> QED BY <1>3, <1>4, <1>5, <1>6, <1>7, <1>8 DEF JoinNext

\* The PlanCache holds, beside each plan, what its joins cost and return one after the other:
\* the inputs of a join are exchanged with its tables, and an unset cost enters no plan.
THEOREM PlansCostWhatTheySay == JoinSpec => []CachedCostsAreEstimates
  <1>1. ASSUME JoinTypeOK, CostInv PROVE CachedCostsAreEstimates
    <2> SUFFICES ASSUME OneDirection, NEW js \in DOMAIN pc, pc[js].plan # <<>>
                 PROVE  /\ pc[js].cost = Executed(pc[js].plan).cost
                        /\ pc[js].card = Executed(pc[js].plan).card
      BY DEF CachedCostsAreEstimates
    <2>1. CostOf(pc[js]) /\ pc[js].plan \in Seq(Join)
      BY <1>1 DEF CostInv, Cards, JoinTypeOK, CostCards
    <2>2. PICK run : /\ RunOf(run, pc[js].plan)
                     /\ run[Len(pc[js].plan)].cost = pc[js].cost
                     /\ run[Len(pc[js].plan)].card = pc[js].card
      BY <2>1 DEF CostOf
    <2>3. Executed(pc[js].plan) = run[Len(pc[js].plan)]
      BY <2>1, <2>2, RunIsExecuted
    <2> QED BY <2>2, <2>3
  <1> QED BY <1>1, CostInit, CostStep, TypeInvariant, PTL DEF JoinSpec

=============================================================================
