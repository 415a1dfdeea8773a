--------------------------- MODULE JoinOptimizer ---------------------------
(***************************************************************************)
(* JoinOptimizer::order_joins of lab 4, with its PlanCache.  Queries on    *)
(* big_table and queries with a join that is no equality are ordered by    *)
(* rule; the others by cost, over subsets of the joins of growing size.    *)
(*                                                                         *)
(* Tables are numbers, in the order of their names, by which std::set      *)
(* orders joins.  Costs and cardinalities are numbers a query does not     *)
(* overflow; those of a base table stand for TableStats and the selectivity*)
(* of its filter.  A CostCard that compute_cost_and_card_of_subplan leaves *)
(* unset has an empty plan, and any cost.  Its cardinality is not read: a  *)
(* plan that is empty is not extended.                                     *)
(***************************************************************************)
EXTENDS Naturals, FiniteSets, SequencesExt

CONSTANTS Table,
          Queries,    \* the lists of joins order_joins is asked to order
          BigTable, A, T1, T2,    \* the tables whose names the code knows
          T1T2Card, T2T1Card,     \* and the cardinalities it knows for two of them
          Statistics, \* for each table, what a scan costs and how many rows its filter leaves
          DBL_MAX,    \* above the cost of any plan
          Unset       \* the costs an unset CostCard may have

Join == [left : Table, right : Table, left_field : Nat, right_field : Nat,
         op : {"EQ", "NE", "LT", "LE", "GT", "GE"}]

ASSUME JoinAssumption ==
    /\ Table \subseteq Nat
    /\ Queries \subseteq Seq(Join)
    /\ \A q \in Queries : \A j \in Range(q) : j.left # j.right
    /\ T1T2Card \in Nat /\ T2T1Card \in Nat
    /\ Statistics \subseteq [Table -> [cost : Nat, card : Nat]]
    /\ DBL_MAX \in Nat /\ Unset \subseteq Nat

VARIABLES
    joins,
    stats,
    subsets,          \* not considered yet
    s,                \* the subset under consideration; empty between two
    todo,             \* its joins that are still to be tried as the last one
    found_plan,
    best_card,
    pc,               \* the PlanCache
    unset,            \* history: a CostCard was left unset
    result,
    phase

vars == <<joins, stats, subsets, s, todo, found_plan, best_card, pc, unset, result, phase>>
arguments == <<joins, stats>>
search == <<subsets, s, todo, found_plan, best_card, pc, unset>>

swap_inner_outer(j) ==
    [left |-> j.right, right |-> j.left,
     left_field |-> j.right_field, right_field |-> j.left_field, op |-> j.op]

\* LogicalJoinNode's operators == and < look at tables and fields, not at op.
Key(j) == <<j.left, j.right, j.left_field, j.right_field>>

Before(j, k) ==
    \E n \in 1..4 : Key(j)[n] < Key(k)[n] /\ \A m \in 1..n - 1 : Key(j)[m] = Key(k)[m]

First(js) == CHOOSE j \in js : \A k \in js \ {j} : Before(j, k)

OnBigTable(j) == j.left = BigTable \/ j.right = BigTable

\* The joins at these positions of the query, in their order.
InOrder(positions) ==
    {[k \in DOMAIN order |-> joins[order[k]]] :
        order \in {o \in [1..Cardinality(positions) -> positions] :
                     \A k, l \in DOMAIN o : k < l => o[k] < o[l]}}

-----------------------------------------------------------------------------
(* Estimates.                                                              *)

\* Only equalities are ordered by cost.
estimate_join_cost(outer, inner) ==
    outer.cost + outer.card * inner.cost + outer.card * inner.card

estimate_join_cardinality(j, outer, inner) ==
    IF j.left = T1 /\ j.right = T2 THEN T1T2Card
    ELSE IF j.left = T2 /\ j.right = T1 THEN T2T1Card
    ELSE CASE outer.pkey /\ ~inner.pkey -> inner.card
           [] ~outer.pkey /\ inner.pkey -> outer.card
           [] outer.pkey /\ inner.pkey -> Min({outer.card, inner.card})
           [] OTHER -> Max({outer.card, inner.card})

\* Variant with a fault: any table is taken to be joined.
does_joinFaulty(joinlist, table) == joinlist # <<>>

does_join(joinlist, table) == \E j \in Range(joinlist) : table \in {j.left, j.right}

has_Pkey(joinlist) == \E j \in Range(joinlist) : 0 \in {j.left_field, j.right_field}

get_order(js) == IF js \in DOMAIN pc THEN pc[js].plan ELSE <<>>

Base(table, field) == [cost |-> stats[table].cost, card |-> stats[table].card, pkey |-> field = 0]

Cached(js) == [cost |-> pc[js].cost, card |-> pc[js].card, pkey |-> has_Pkey(pc[js].plan)]

\* The inputs of j on its left and on its right, after the other joins of s.
LeftInput(j) ==
    IF s = {j} \/ ~does_join(get_order(s \ {j}), j.left) THEN Base(j.left, j.left_field)
    ELSE Cached(s \ {j})

RightInput(j) ==
    IF s # {j} /\ ~does_join(get_order(s \ {j}), j.left) THEN Cached(s \ {j})
    ELSE Base(j.right, j.right_field)

\* s without j has no plan, or one with neither of j's tables.
CrossProduct(j) ==
    /\ s # {j}
    /\ ~does_join(get_order(s \ {j}), j.left)
    /\ ~does_join(get_order(s \ {j}), j.right)

\* The CostCard of a plan followed by j.
Extended(plan, j, outer, inner) ==
    [cost |-> estimate_join_cost(outer, inner),
     card |-> estimate_join_cardinality(j, outer, inner),
     plan |-> Append(plan, j)]

\* Variant with a fault: the join is swapped and its inputs are not.
CostCardFaulty(j) ==
    LET plan == get_order(s \ {j})
        as_is == Extended(plan, j, LeftInput(j), RightInput(j))
        swapped == Extended(plan, swap_inner_outer(j), LeftInput(j), RightInput(j))
    IN  IF as_is.cost < swapped.cost THEN as_is ELSE swapped

\* j as the last join of s, in the cheaper of the two ways round.
CostCard(j) ==
    LET plan == get_order(s \ {j})
        as_is == Extended(plan, j, LeftInput(j), RightInput(j))
        swapped == Extended(plan, swap_inner_outer(j), RightInput(j), LeftInput(j))
    IN  IF as_is.cost < swapped.cost THEN as_is ELSE swapped

NoCard == [cost |-> DBL_MAX, card |-> 0, plan |-> <<>>]

-----------------------------------------------------------------------------
JoinInit ==
    /\ joins \in Queries
    /\ stats \in Statistics
    /\ subsets = {}
    /\ s = {} /\ todo = {}
    /\ found_plan = FALSE /\ best_card = NoCard
    /\ pc = <<>>
    /\ unset = FALSE
    /\ result = <<>>
    /\ phase = "start"

Returns(order) ==
    /\ result' = order
    /\ phase' = "done"
    /\ UNCHANGED <<arguments, search>>

OrderNothing ==
    /\ phase = "start" /\ joins = <<>>
    /\ Returns(<<>>)

BigTablePositions == {k \in DOMAIN joins : OnBigTable(joins[k])}

\* Variant with a fault: joins are not turned round.
OrderBigTableFaulty ==
    /\ phase = "start"
    /\ BigTablePositions # {}
    /\ \E others \in InOrder(DOMAIN joins \ BigTablePositions), big \in InOrder(BigTablePositions) :
        Returns(others \o big)

\* The joins with big_table come last, with big_table on their right.
OrderBigTable ==
    /\ phase = "start"
    /\ BigTablePositions # {}
    /\ \E others \in InOrder(DOMAIN joins \ BigTablePositions), big \in InOrder(BigTablePositions) :
        Returns(others \o [k \in DOMAIN big |-> IF big[k].right = BigTable THEN big[k]
                                                ELSE swap_inner_outer(big[k])])

\* Joins with table "a" that are no equalities.
APositions == {k \in DOMAIN joins : A \in {joins[k].left, joins[k].right} /\ joins[k].op # "EQ"}

\* The join at k comes last, and those that operator== takes for it are dropped.
MovesToEnd(k) ==
    \E others \in InOrder({l \in DOMAIN joins : Key(joins[l]) # Key(joins[k])}) :
        Returns(Append(others, joins[k]))

\* Variant with a fault: without such a join nothing is returned.
OrderNonEqualityFaulty ==
    /\ phase = "start"
    /\ BigTablePositions = {}
    /\ \E k \in APositions : (\A l \in APositions : k <= l) /\ MovesToEnd(k)

\* The first such join with table "a" comes last, and the others keep their order.
OrderNonEquality ==
    /\ phase = "start"
    /\ BigTablePositions = {}
    /\ \E j \in Range(joins) : j.op # "EQ"
    /\ \/ APositions = {} /\ Returns(joins)
       \/ \E k \in APositions : (\A l \in APositions : k <= l) /\ MovesToEnd(k)

StartSearch ==
    /\ phase = "start" /\ joins # <<>>
    /\ \A j \in Range(joins) : j.op = "EQ" /\ ~OnBigTable(j)
    /\ subsets' = (SUBSET Range(joins)) \ {{}}
    /\ phase' = "search"
    /\ UNCHANGED <<arguments, s, todo, found_plan, best_card, pc, unset, result>>

\* Variant with a fault: a subset is considered again.
NextSubsetFaulty ==
    /\ phase = "search" /\ s = {}
    /\ \E js \in subsets :
        /\ \A ks \in subsets : Cardinality(js) <= Cardinality(ks)
        /\ s' = js /\ todo' = js
    /\ UNCHANGED <<arguments, subsets, found_plan, best_card, pc, unset, result, phase>>

\* Subsets of one size come in any order: a plan is made from those of smaller sizes.
NextSubset ==
    /\ phase = "search" /\ s = {}
    /\ \E js \in subsets :
        /\ \A ks \in subsets : Cardinality(js) <= Cardinality(ks)
        /\ s' = js /\ todo' = js
        /\ subsets' = subsets \ {js}
    /\ UNCHANGED <<arguments, found_plan, best_card, pc, unset, result, phase>>

\* compute_cost_and_card_of_subplan for the next join of s: no plan, ...
SkipCrossProduct ==
    /\ todo # {}
    /\ CrossProduct(First(todo))
    /\ todo' = todo \ {First(todo)}
    /\ UNCHANGED <<arguments, subsets, s, found_plan, best_card, pc, unset, result, phase>>

\* ... a cheaper one, ...
ReplaceBest ==
    LET j == First(todo)
    IN  /\ todo # {}
        /\ ~CrossProduct(j)
        /\ CostCard(j).cost < best_card.cost
        /\ best_card' = CostCard(j) /\ found_plan' = TRUE
        /\ todo' = todo \ {j}
        /\ UNCHANGED <<arguments, subsets, s, pc, unset, result, phase>>

\* ... or no cheaper one, which returns true all the same, with nothing in cc.
LeaveUnset ==
    LET j == First(todo)
    IN  /\ todo # {}
        /\ ~CrossProduct(j)
        /\ CostCard(j).cost >= best_card.cost
        /\ \E c \in Unset : best_card' = [cost |-> c, card |-> 0, plan |-> <<>>]
        /\ found_plan' = TRUE /\ unset' = TRUE
        /\ todo' = todo \ {j}
        /\ UNCHANGED <<arguments, subsets, s, pc, result, phase>>

\* All joins of s are tried; best_card and found_plan end with them.
AddPlan ==
    /\ s # {} /\ todo = {}
    /\ pc' = IF found_plan
             THEN [js \in DOMAIN pc \cup {s} |-> IF js = s THEN best_card ELSE pc[js]]
             ELSE pc
    /\ s' = {} /\ found_plan' = FALSE /\ best_card' = NoCard
    /\ UNCHANGED <<arguments, subsets, todo, unset, result, phase>>

\* Variant with a fault: the search stops before the last subset.
EndSearchFaulty ==
    /\ phase = "search" /\ s = {}
    /\ Cardinality(subsets) <= 1
    /\ Returns(get_order(Range(joins)))

EndSearch ==
    /\ phase = "search" /\ s = {} /\ subsets = {}
    /\ Returns(get_order(Range(joins)))

JoinNext ==
    \/ OrderNothing \/ OrderBigTable \/ OrderNonEquality \/ StartSearch
    \/ NextSubset \/ SkipCrossProduct \/ ReplaceBest \/ LeaveUnset \/ AddPlan
    \/ EndSearch

JoinSpec == JoinInit /\ [][JoinNext]_vars

\* One thread runs to its end.
JoinFairSpec == JoinSpec /\ WF_vars(JoinNext)

-----------------------------------------------------------------------------
CostCards == [cost : Nat, card : Nat, plan : Seq(Join)]

JoinTypeOK ==
    /\ joins \in Queries /\ stats \in Statistics
    /\ subsets \subseteq SUBSET Range(joins)
    /\ s \subseteq Range(joins) /\ todo \subseteq s
    /\ subsets \cap (DOMAIN pc \cup {s}) = {}
    /\ found_plan \in BOOLEAN /\ unset \in BOOLEAN
    /\ best_card \in CostCards
    /\ DOMAIN pc \subseteq SUBSET Range(joins) /\ \A js \in DOMAIN pc : pc[js] \in CostCards
    /\ result \in Seq(Join)
    /\ phase \in {"start", "search", "done"}

Tables(j) == {j.left, j.right}

\* Every join once, in one of its two directions.
Covers(order, js) ==
    /\ Len(order) = Cardinality(js)
    /\ \A j \in js : \E k \in DOMAIN order : order[k] \in {j, swap_inner_outer(j)}

NoCrossProduct(order) ==
    \A k \in 2..Len(order) : \E i \in 1..k - 1 : Tables(order[i]) \cap Tables(order[k]) # {}

\* A plan in the cache joins what it is a plan for, each join once and without a cross
\* product: from the second on, a join has a table in common with one before it, though the
\* search takes the joins of a subset away in any order and asks the cache for the rest.
\* (lab4 README.md:132 asks for more, that adjacent joins share a field; the order of a chain
\* that starts in its middle does not.)
CachedPlansHaveNoCrossProduct ==
    \A js \in DOMAIN pc :
        pc[js].plan # <<>> => Covers(pc[js].plan, js) /\ NoCrossProduct(pc[js].plan)

\* The join of the query an element of a plan stands for.
Original(j) == IF j \in Range(joins) THEN j ELSE swap_inner_outer(j)

\* What a plan costs, from its first join to its last: the input that was joined already
\* is the one on the left of the join as the query has it, or else the one on its right.
Execute(done, j) ==
    LET o == Original(j)
        joined == IF o.left \in done.tables THEN o.left ELSE o.right
        Input(table, field) ==
            IF done.tables # {} /\ table = joined THEN done ELSE Base(table, field)
        outer == Input(j.left, j.left_field)
        inner == Input(j.right, j.right_field)
    IN  [tables |-> done.tables \cup Tables(j),
         cost |-> outer.cost + outer.card * inner.cost + outer.card * inner.card,
         card |-> estimate_join_cardinality(j, outer, inner),
         pkey |-> done.pkey \/ 0 \in {j.left_field, j.right_field}]

NothingDone == [tables |-> {}, cost |-> 0, card |-> 0, pkey |-> FALSE]

Executed(order) ==
    LET run[k \in 0..Len(order)] ==
            IF k = 0 THEN NothingDone ELSE Execute(run[k - 1], order[k])
    IN  run[Len(order)]

\* No join is in the query in both of its directions: Original can tell what it stands for.
OneDirection == \A j \in Range(joins) : swap_inner_outer(j) \notin Range(joins)

\* The cost and the cardinality in the cache are those of the plan beside them, whatever an
\* unset CostCard held before.
CachedCostsAreEstimates ==
    OneDirection => \A js \in DOMAIN pc : pc[js].plan # <<>> =>
        /\ pc[js].cost = Executed(pc[js].plan).cost
        /\ pc[js].card = Executed(pc[js].plan).card

\* The joins hang together, so that no cross product is needed.
Connected ==
    \A js \in (SUBSET Range(joins)) \ {{}, Range(joins)} :
        \E j \in js, k \in Range(joins) \ js : Tables(j) \cap Tables(k) # {}

KeysDistinct == \A i, k \in DOMAIN joins : Key(joins[i]) = Key(joins[k]) => i = k

\* A query whose joins differ in more than op is ordered completely by each of the three
\* ways, unless it needs a cross product or a CostCard was left unset.
OrderedUnlessUnset ==
    phase = "done" /\ KeysDistinct /\ Connected /\ ~unset => Covers(result, Range(joins))

\* Joins with big_table are the last ones, and have it as their inner table.
BigTableLast ==
    phase = "done" =>
        \A k \in DOMAIN result : OnBigTable(result[k]) =>
            \A l \in k..Len(result) : result[l].right = BigTable

\* order_joins returns.
OrderReturned == <>(phase = "done")

\* "EXPECT_EQ(result.size(), nodes.size())" (optimizer_test.cc:485), of any query whose
\* joins differ and hang together.
EveryJoinOrdered ==
    phase = "done" /\ KeysDistinct /\ Connected => Len(result) = Len(joins)
=============================================================================
