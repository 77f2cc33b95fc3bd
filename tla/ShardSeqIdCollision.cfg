\* Three shards, max_num_of_servers = 3, max_seq_id = 9 (10 IDs, as with the
\* default 9999999 limit: 10^7 is not a multiple of 3).
CONSTANTS
    MaxServers = 3
    MaxSeqId = 9
    Shards <- MCShards
SPECIFICATION Spec
INVARIANT
    NoCrossShardCollision
