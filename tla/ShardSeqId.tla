----------------------------- MODULE ShardSeqId -----------------------------
(***************************************************************************)
(* pbs_shard_get_next_seqid() of src/src/lib/Libshard/shard_functions.c,   *)
(* called repeatedly by every server shard with the ID it handed out last. *)
(* The library state it reads, max_num_of_servers, is the constant         *)
(* MaxServers (set once by pbs_shard_init).                                *)
(***************************************************************************)
EXTENDS Integers, FiniteSets

CONSTANTS
    MaxServers,   \* max_num_of_servers
    MaxSeqId,     \* max_seq_id argument
    Shards        \* svr_index of each allocating shard

ASSUME MaxServers \in Nat \ {0}
ASSUME MaxSeqId \in Nat
ASSUME Shards \subseteq 0..(MaxServers - 1)

VARIABLES
    curr,         \* curr[k]: the shard's current sequence ID (-1: none yet)
    issued        \* issued[k]: every ID shard k has been handed (history)

vars == <<curr, issued>>

(***************************************************************************)
(* C integer division of two long long values truncates towards zero; the  *)
(* ceil() the code applies to the already integral quotient changes        *)
(* nothing, so the "ceiling" is in fact the truncated quotient.            *)
(***************************************************************************)
CDiv(a, b) == IF a >= 0 THEN a \div b ELSE -((-a) \div b)

(***************************************************************************)
(* Faulty variants of PbsShardGetNextSeqid, each a plausible slip in the   *)
(* C code; every property below is broken by one of them.                  *)
(***************************************************************************)
NextSeqidWrapByMax(currId, maxId, svrIndex) ==
    LET normalized == CDiv(currId, MaxServers) * MaxServers + svrIndex
                          + MaxServers
    IN  IF currId = -1 THEN svrIndex
        ELSE IF normalized > maxId THEN normalized - maxId
        ELSE normalized

NextSeqidLateWrap(currId, maxId, svrIndex) ==
    LET normalized == CDiv(currId, MaxServers) * MaxServers + svrIndex
                          + MaxServers
    IN  IF currId = -1 THEN svrIndex
        ELSE IF normalized > maxId + 1 THEN normalized - (maxId + 1)
        ELSE normalized

NextSeqidNoBootstrap(currId, maxId, svrIndex) ==
    LET normalized == CDiv(currId, MaxServers) * MaxServers + svrIndex
                          + MaxServers
    IN  IF currId = -1 THEN currId
        ELSE IF normalized > maxId THEN normalized - (maxId + 1)
        ELSE normalized

\* pbs_shard_get_next_seqid(curr_seq_id, max_seq_id, svr_index)
PbsShardGetNextSeqid(currId, maxId, svrIndex) ==
    LET normalized == CDiv(currId, MaxServers) * MaxServers + svrIndex
                          + MaxServers
    IN  IF currId = -1 THEN svrIndex
        ELSE IF normalized > maxId THEN normalized - (maxId + 1)
        ELSE normalized

Init ==
    /\ curr = [k \in Shards |-> -1]
    /\ issued = [k \in Shards |-> {}]

\* Shard k asks for its next sequence ID and records it as its current one.
GetNextSeqid(k) ==
    LET id == PbsShardGetNextSeqid(curr[k], MaxSeqId, k)
    IN  /\ curr' = [curr EXCEPT ![k] = id]
        /\ issued' = [issued EXCEPT ![k] = @ \cup {id}]

Next == \E k \in Shards : GetNextSeqid(k)

Spec == Init /\ [][Next]_vars

-----------------------------------------------------------------------------
TypeOK ==
    /\ curr \in [Shards -> Int]
    /\ \A k \in Shards : issued[k] \subseteq Nat

(***************************************************************************)
(* Every ID pbs_shard_get_next_seqid hands out, including the one it       *)
(* produces when it wraps past max_seq_id, lies in 0..max_seq_id (the      *)
(* header's promise that the ID stays within the server's limit).          *)
(***************************************************************************)
SeqIdInRange == \A k \in Shards : issued[k] \subseteq 0..MaxSeqId

(***************************************************************************)
(* No ID is ever handed to two different shards: the wrap-around of        *)
(* pbs_shard_get_next_seqid keeps every shard on IDs no other shard uses   *)
(* (spec.md 4.4, "collision-free across shards").                          *)
(***************************************************************************)
NoCrossShardCollision ==
    \A k1, k2 \in Shards : k1 # k2 => issued[k1] \cap issued[k2] = {}

(***************************************************************************)
(* The sequence each shard walks is exactly the cyclic walk through its    *)
(* own residue class that ShardSeqIdAbs describes: the detailed            *)
(* arithmetic of pbs_shard_get_next_seqid implements the abstract          *)
(* allocator under the identity mapping of curr.                           *)
(***************************************************************************)
Abs == INSTANCE ShardSeqIdAbs
ImplementsAbstractAllocator == Abs!Spec
==============================================================================
