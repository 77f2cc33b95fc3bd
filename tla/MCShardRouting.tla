---------------------------- MODULE MCShardRouting ----------------------------
(* A client of the shard library routing a handful of object IDs. *)
EXTENDS ShardRouting

\* parsed object IDs: small ones, and 102 (at or above half the scaled int range)
MCObjIds == (0..7) \cup {102}
==============================================================================
