\* Servers: max_num_of_servers 3, max_seq_id 5 (6 IDs, a multiple of the
\* shard count).  Client: 3 configured servers, max_allowed_servers 2 or 3,
\* every subset of servers down, the IDs the shards issue and 102, an 8-bit
\* C int (TLC integers are 32-bit, so the int width is scaled down).
CONSTANTS
    MaxServers = 3
    MaxSeqId = 5
    Shards <- MCShards
    MaxServerChoices = {2, 3}
    InstanceCounts = {3}
    ObjIds <- MCObjIds
    NoId = NoId
    IntBits = 8
SPECIFICATION Spec
INVARIANTS
    TypeOK
    SeqIdInRange
    RouteMatchesReference
    RoutedToOwner
PROPERTY
    ImplementsAbstractAllocator
