---------------------------- MODULE ShardSeqIdAbs ----------------------------
(***************************************************************************)
(* What the sequence-ID allocator of the shard library promises (spec.md   *)
(* section 4.4): every server shard k owns the residue class of k modulo   *)
(* the configured maximum number of servers, starts at k, and walks its    *)
(* class upwards in steps, coming back to its smallest member after the    *)
(* largest one that does not exceed the maximum sequence ID.               *)
(***************************************************************************)
EXTENDS Integers, FiniteSets

CONSTANTS
    MaxServers,   \* max_num_of_servers, stored by pbs_shard_init
    MaxSeqId,     \* max_seq_id passed by the server
    Shards        \* the svr_index values of the shards that allocate IDs

ASSUME MaxServers \in Nat \ {0}
ASSUME MaxSeqId \in Nat
ASSUME Shards \subseteq 0..(MaxServers - 1)

VARIABLE curr     \* curr[k]: the last ID shard k handed out, -1 before any

\* The IDs reserved for shard k.
Class(k) == {i \in 0..MaxSeqId : i % MaxServers = k}

Least(S) == CHOOSE x \in S : \A y \in S : x <= y

\* The member of k's class that comes after c in cyclic order.
NextInClass(k, c) ==
    LET later == {i \in Class(k) : i > c}
    IN  IF c = -1 THEN k
        ELSE IF later = {} THEN Least(Class(k)) ELSE Least(later)

Init == curr = [k \in Shards |-> -1]

Allocate(k) == curr' = [curr EXCEPT ![k] = NextInClass(k, curr[k])]

Next == \E k \in Shards : Allocate(k)

Spec == Init /\ [][Next]_curr
==============================================================================
