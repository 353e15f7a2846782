---------------------------- MODULE MCTableViews ----------------------------
(* Instances of TableViews for TLC. *)
EXTENDS TableViews

CONSTANTS t1, t2, o1, o2, o3

\* Two orders of one table, orders of two tables, and an id two tables share.
OneTable == {<<t1, o1>>, <<t1, o2>>}
DistinctIds == {<<t1, o1>>, <<t1, o2>>, <<t2, o3>>}
SharedId == {<<t1, o1>>, <<t2, o1>>}

Symmetry == Permutations({o1, o2})
=============================================================================
