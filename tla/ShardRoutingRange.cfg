\* spec.md section 8: pbs_shard_init(10, [s0..s2], 3), then route ID 107; and an
\* ID above the (8-bit scaled) INT_MAX.
CONSTANTS
    MaxServerChoices = {10}
    InstanceCounts = {3}
    ObjIds = {107, 200}
    NoId = NoId
    IntBits = 8
SPECIFICATION Spec
INVARIANT
    RouteInRange
