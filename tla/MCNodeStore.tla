---------------------------- MODULE MCNodeStore -----------------------------
(* Two Moms.  In MCInitChildren m1 manages its natural vnode v1, v3 and v4, *)
(* and m2 its natural vnode v2 and v4 (a vnode with two Moms).  In          *)
(* MCSharedChildren m1 manages v1 and v3, and m2 manages v2 and v3.         *)
EXTENDS NodeStore

MCInitChildren == [m \in Moms |-> IF m = "m1" THEN <<"v1", "v3", "v4">> ELSE <<"v2", "v4">>]
MCInitList == <<"v1", "v2", "v3", "v4">>

MCSharedChildren == [m \in Moms |-> IF m = "m1" THEN <<"v1", "v3">> ELSE <<"v2", "v3">>]
MCSharedList == <<"v1", "v2", "v3">>
(* Execution queue q1 is in partition p1; a vnode may be put in p2.    *)
MCQPartition == [q \in Queues |-> IF q = "q1" THEN "p1" ELSE NoPart]
====
