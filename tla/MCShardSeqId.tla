---------------------------- MODULE MCShardSeqId ----------------------------
(* Three shards allocating sequence IDs. *)
EXTENDS ShardSeqId

\* svr_index of the three allocating shards
MCShards == 0..2
==============================================================================
