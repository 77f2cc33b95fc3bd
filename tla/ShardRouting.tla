---------------------------- MODULE ShardRouting ----------------------------
(***************************************************************************)
(* The server-selection half of src/src/lib/Libshard/shard_functions.c: a  *)
(* client initialises the library once (pbs_shard_init) and then routes    *)
(* objects to servers (pbs_shard_get_server_byindex) while servers go down *)
(* and come back; the caller passes the indices it currently knows to be   *)
(* inactive.                                                               *)
(***************************************************************************)
EXTENDS Integers, FiniteSets

CONSTANTS
    MaxServerChoices,  \* values the admin may give as max_allowed_servers
    InstanceCounts,    \* numbers of configured instances the client may pass
    ObjIds,            \* object IDs (already parsed as numbers) clients route
    NoId,              \* obj_id == NULL: let the library pick at random
    IntBits            \* width of the C int that holds the parsed ID

ASSUME MaxServerChoices \subseteq Nat /\ InstanceCounts \subseteq Nat
ASSUME ObjIds \subseteq Nat /\ NoId \notin Nat
ASSUME IntBits \in Nat \ {0}

VARIABLES
    maxServers,    \* static max_num_of_servers
    numServers,    \* static configured_num_servers
    haveServers,   \* static configured_servers != NULL
    seeded,        \* static 'seeded' of pbs_shard_get_server_byindex
    inactive,      \* the caller's list of inactive server indices (a set)
    call           \* the last routing call: its input, the library's
                   \* max_num_of_servers then, and its result

vars == <<maxServers, numServers, haveServers, seeded, inactive, call>>

NoCall == [id |-> NoId, max |-> 0, start |-> -1, n |-> 0, inactive |-> {}, result |-> -1]

(***************************************************************************)
(* C conversions: strtoull's result stored into an int keeps the low       *)
(* IntBits bits as a two's-complement value; % truncates towards zero.     *)
(* ToNarrowCInt is a faulty variant: the ID kept one bit narrower.         *)
(***************************************************************************)
ToNarrowCInt(u) ==
    LET low == u % (2 ^ (IntBits - 1))
    IN  IF low >= 2 ^ (IntBits - 2) THEN low - 2 ^ (IntBits - 1) ELSE low

ToCInt(u) ==
    LET low == u % (2 ^ IntBits)
    IN  IF low >= 2 ^ (IntBits - 1) THEN low - 2 ^ IntBits ELSE low

CRem(a, b) == IF a >= 0 THEN a % b ELSE -((-a) % b)

(***************************************************************************)
(* A faulty variant, a plausible slip in the C code: the give-up test one  *)
(* step early.                                                             *)
(***************************************************************************)
RECURSIVE ProbeGivesUpEarly(_, _, _, _)
ProbeGivesUpEarly(srvInd, counter, n, down) ==
    IF counter >= n - 1 THEN -1
    ELSE IF srvInd \in down
         THEN ProbeGivesUpEarly(CRem(srvInd + 1, n), counter + 1, n, down)
    ELSE srvInd

(***************************************************************************)
(* The check_again loop: from srvInd, step to (srvInd + 1) % n past every  *)
(* index found in the inactive list, giving up (-1) after n steps.  The    *)
(* inner for loop scans at most n entries of a -1 terminated list of       *)
(* distinct indices, so "found in the list" is set membership.             *)
(***************************************************************************)
RECURSIVE Probe(_, _, _, _)
Probe(srvInd, counter, n, down) ==
    IF counter >= n THEN -1
    ELSE IF srvInd \in down THEN Probe(CRem(srvInd + 1, n), counter + 1, n, down)
    ELSE srvInd

\* The start index: the parsed ID modulo max_num_of_servers, or rand() % n.
\* (-1 when the library is not initialised: the call returns before it).
StartIndex(id, r) ==
    IF maxServers = 0 \/ ~haveServers THEN -1
    ELSE IF id = NoId THEN r ELSE CRem(ToCInt(id), maxServers)

\* pbs_shard_get_server_byindex(obj_type, obj_id, inactive_servers)
GetServerByIndex(id, r, down) ==
    IF maxServers = 0 \/ ~haveServers THEN -1
    ELSE Probe(StartIndex(id, r), 0, numServers, down)

Init ==
    /\ maxServers = 0
    /\ numServers = 0
    /\ haveServers = FALSE
    /\ seeded = FALSE
    /\ inactive = {}
    /\ call = NoCall

\* pbs_shard_init with a non-NULL instance array (a NULL one returns -1 and
\* changes nothing, a stuttering step).
PbsShardInit(max, n) ==
    /\ maxServers' = max
    /\ numServers' = n
    /\ haveServers' = TRUE
    /\ inactive' = {}
    /\ UNCHANGED <<seeded, call>>

\* Routing an object with an ID: deterministic start ID % max_num_of_servers.
RouteById(id) ==
    /\ call' = [id |-> id, max |-> maxServers, start |-> StartIndex(id, 0), n |-> numServers,
                inactive |-> inactive,
                result |-> GetServerByIndex(id, 0, inactive)]
    /\ UNCHANGED <<maxServers, numServers, haveServers, seeded, inactive>>

\* Routing without an ID: rand() % configured_num_servers, seeding once.
\* With no configured instance the modulo divides by zero: the guard keeps
\* the model to calls the process survives.
RouteRandom ==
    /\ haveServers /\ maxServers # 0 /\ numServers > 0
    /\ \E r \in 0..(numServers - 1) :
          call' = [id |-> NoId, max |-> maxServers, start |-> r, n |-> numServers, inactive |-> inactive,
                   result |-> GetServerByIndex(NoId, r, inactive)]
    /\ seeded' = TRUE
    /\ UNCHANGED <<maxServers, numServers, haveServers, inactive>>

\* The caller learns that a configured server is down, or up again.
ServerDown(i) ==
    /\ i \in 0..(numServers - 1) \ inactive
    /\ inactive' = inactive \cup {i}
    /\ UNCHANGED <<maxServers, numServers, haveServers, seeded, call>>

ServerUp(i) ==
    /\ i \in inactive
    /\ inactive' = inactive \ {i}
    /\ UNCHANGED <<maxServers, numServers, haveServers, seeded, call>>

Next ==
    \/ \E max \in MaxServerChoices, n \in InstanceCounts : PbsShardInit(max, n)
    \/ \E id \in ObjIds : RouteById(id)
    \/ RouteRandom
    \/ \E i \in 0..(numServers - 1) : ServerDown(i) \/ ServerUp(i)

Spec == Init /\ [][Next]_vars

-----------------------------------------------------------------------------
TypeOK ==
    /\ maxServers \in Nat /\ numServers \in Nat
    /\ haveServers \in BOOLEAN /\ seeded \in BOOLEAN
    /\ inactive \subseteq 0..(numServers - 1)
    /\ call.start \in Int
    /\ call.result \in {-1} \cup Nat

(***************************************************************************)
(* Reference routing: the first index, in cyclic order from the start      *)
(* index, of a configured server the caller does not list as inactive;     *)
(* -1 when every configured server is inactive.                            *)
(***************************************************************************)
RefRoute(start, n, down) ==
    LET dist(i) == (i - start + n) % n
        up == (0..(n - 1)) \ down
    IN  IF up = {} THEN -1
        ELSE CHOOSE i \in up : \A j \in up : dist(i) <= dist(j)

(***************************************************************************)
(* Every answer of pbs_shard_get_server_byindex after initialisation is    *)
(* the reference answer for its start index: an active configured server  *)
(* whenever one exists, the first one at or after the start, and -1 only   *)
(* when all are inactive.                                                  *)
(***************************************************************************)
RouteMatchesReference ==
    call.start \in 0..(call.n - 1) =>
        call.result = RefRoute(call.start, call.n, call.inactive)

(***************************************************************************)
(* The index returned is -1 or the index of one of the configured server   *)
(* instances (the header: "returns one of the index value of               *)
(* server_instance array").                                                *)
(***************************************************************************)
RouteInRange == call.result \in {-1} \cup 0..(call.n - 1)
==============================================================================
