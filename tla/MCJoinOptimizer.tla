-------------------------- MODULE MCJoinOptimizer --------------------------
(***************************************************************************)
(* Queries of each kind: by cost, a chain in two ways, a star and a        *)
(* triangle, and two joins that do not hang together; the query of         *)
(* OrderJoinsTest (dept 1, emp 2, hobbies 3, hobby 4); t1 and t2 with a    *)
(* third; one with big_table; two with joins that are no equalities; one   *)
(* with a join in both directions; no join at all.                         *)
(***************************************************************************)
EXTENDS JoinOptimizer

J(left, left_field, op, right, right_field) ==
    [left |-> left, right |-> right, left_field |-> left_field, right_field |-> right_field,
     op |-> op]

EmpDept == <<J(3, 1, "EQ", 4, 0), J(2, 1, "EQ", 1, 0), J(2, 2, "EQ", 3, 0)>>

AllQueries ==
    {EmpDept,
     <<J(1, 1, "EQ", 2, 1), J(2, 0, "EQ", 3, 1)>>,
     <<J(3, 1, "EQ", 2, 0), J(1, 0, "EQ", 3, 0), J(4, 1, "EQ", 3, 1)>>,
     <<J(1, 1, "EQ", 2, 1), J(2, 1, "EQ", 3, 1), J(1, 0, "EQ", 3, 0)>>,
     <<J(1, 1, "EQ", 2, 1), J(3, 1, "EQ", 4, 0)>>,
     <<J(5, 1, "EQ", 1, 0), J(1, 1, "EQ", 2, 0), J(2, 1, "LT", 5, 0)>>,
     <<J(6, 1, "EQ", 7, 1), J(7, 1, "EQ", 3, 0)>>,
     <<J(0, 1, "LT", 1, 0), J(1, 1, "EQ", 2, 0), J(2, 1, "EQ", 3, 0)>>,
     <<J(1, 1, "LE", 2, 0), J(2, 1, "EQ", 3, 0)>>,
     <<J(1, 1, "EQ", 2, 1), J(2, 1, "EQ", 3, 0), J(2, 1, "EQ", 1, 1)>>,
     <<>>}

\* Small, large and filtered to nothing; those of some tables are fixed.
Small == [cost |-> 1, card |-> 2]
Large == [cost |-> 4, card |-> 5]
Filtered == [cost |-> 3, card |-> 0]

AllStatistics ==
    {st \in [Table -> {Small, Large, Filtered}] :
        st[0] = Small /\ st[5] = Large /\ st[6] = Small /\ st[7] = Large}

TestQuery == {EmpDept}
=============================================================================
