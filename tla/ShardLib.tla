------------------------------ MODULE ShardLib ------------------------------
(***************************************************************************)
(* Both users of src/src/lib/Libshard/shard_functions.c together.  Every   *)
(* server shard allocates sequence IDs with pbs_shard_get_next_seqid in    *)
(* its own process, whose max_num_of_servers is MaxServers (ShardSeqId);   *)
(* a client, with library statics of its own, is initialised and routes    *)
(* objects by ID while servers go down and come back (ShardRouting).  The  *)
(* two only meet in the IDs: an object carries the ID its shard gave it.   *)
(***************************************************************************)
EXTENDS Integers

CONSTANTS
    MaxServers, MaxSeqId, Shards,                       \* the servers
    MaxServerChoices, InstanceCounts, ObjIds, NoId, IntBits  \* the client

VARIABLES
    curr, issued,                                       \* the servers
    maxServers, numServers, haveServers, seeded, inactive, call  \* the client

allocVars == <<curr, issued>>
clientVars == <<maxServers, numServers, haveServers, seeded, inactive, call>>
vars == <<allocVars, clientVars>>

Alloc == INSTANCE ShardSeqId
Client == INSTANCE ShardRouting

Init == Alloc!Init /\ Client!Init

\* The processes share no memory: each step is a step of one of them.
Next ==
    \/ Alloc!Next /\ UNCHANGED clientVars
    \/ Client!Next /\ UNCHANGED allocVars

Spec == Init /\ [][Next]_vars

-----------------------------------------------------------------------------
TypeOK == Alloc!TypeOK /\ Client!TypeOK

SeqIdInRange == Alloc!SeqIdInRange
RouteMatchesReference == Client!RouteMatchesReference
ImplementsAbstractAllocator == Alloc!ImplementsAbstractAllocator

(***************************************************************************)
(* An object whose ID shard k allocated is routed back to server k while k *)
(* is up, whenever the client's library was initialised with the same      *)
(* max_num_of_servers as the servers': the residue the allocator keeps an  *)
(* ID in, through every wrap past max_seq_id, is the start index the       *)
(* router computes from it (spec.md 4.4: routing takes the ID modulo       *)
(* max_servers, and the allocator keeps each shard in the slots reserved   *)
(* for it).                                                                *)
(***************************************************************************)
RoutedToOwner ==
    \A k \in Shards :
        (/\ call.id \in issued[k]
         /\ call.max = MaxServers
         /\ k \notin call.inactive)
        => call.result = k
=============================================================================
