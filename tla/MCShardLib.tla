----------------------------- MODULE MCShardLib -----------------------------
(* Three shards allocating IDs, and a client routing them. *)
EXTENDS ShardLib

\* svr_index of the three allocating shards
MCShards == 0..2

\* every ID the shards can issue, and 102 (past half the scaled int range)
MCObjIds == {1, 3, 5, 102}
=============================================================================
