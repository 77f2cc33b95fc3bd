------------------------------ MODULE NodeResc ------------------------------
(***************************************************************************)
(* Changes to a vnode's resources_available, as the server applies them    *)
(* in node_np_action (src/src/server/node_func.c): ncpus resizes the list  *)
(* of subnodes (mod_node_ncpus, create_subnode, delete_a_subnode), and one *)
(* consumable resource R may be made indirect ("@vnode") or direct again   *)
(* (fix_indirectness, run first to validate and then to commit).  The      *)
(* TARGET flag that marks a resource other vnodes point at is set or       *)
(* cleared by set_clear_target and re-established by the deferred work     *)
(* task indirect_target_check.  The Mom's pcpus replace a default ncpus   *)
(* (node_pcpu_action).  Jobs occupy and free subnodes meanwhile.           *)
(***************************************************************************)
EXTENDS Integers, Sequences, FiniteSets

CONSTANTS
    Nodes,       \* the vnodes of pbsndlist
    Ghost,       \* a vnode name no vnode has (a target not yet recovered)
    NcpusVals,   \* per vnode, the ncpus values requests set and pcpus values
                 \* its Mom reports
    Direct,      \* value of R that is not an indirect reference
    None,        \* no R entry in resources_assigned
    NoMod        \* the request does not modify this resource

ASSUME Ghost \notin Nodes /\ \A n \in Nodes : NcpusVals[n] \subseteq Nat

Targets == Nodes \cup {Ghost}          \* values "@name" of an indirect R

VARIABLES
    srvState,  \* server attribute state: "init" while recovering, then "running"
    subn,      \* subn[n][i]: subnode i of n has jobs (psn->jobs != NULL)
    nsnfree,   \* nd_nsnfree
    ncpus,     \* resources_available.ncpus as stored on the vnode
    ncpusDeflt,\* ncpus is unset or ATR_VFLAG_DEFLT: the Mom's pcpus may replace it
    avail,     \* resources_available.R: Direct or a target name
    target,    \* ATR_VFLAG_TARGET on resources_available.R
    assn,      \* resources_assigned.R: None, Direct, or the mirrored "@name"
    pending    \* an indirect_target_check work task is queued (WORK_Immed)

vars == <<srvState, subn, nsnfree, ncpus, ncpusDeflt, avail, target, assn, pending>>

Busy(s) == \E i \in DOMAIN s : s[i]
FreeCount(s) == Cardinality({i \in DOMAIN s : ~s[i]})

-----------------------------------------------------------------------------
(* mod_node_ncpus: at least one subnode; ncpus 0 means one.                *)
NcpusToNsnNoClamp(np) == np

NcpusToNsn(np) == IF np = 0 THEN 1 ELSE np

(* The while loop: delete_a_subnode drops the tail subnode (jobs or not);  *)
(* create_subnode appends a subnode without jobs.                          *)
NewSubnodes(s, np) ==
    IF np <= Len(s) THEN SubSeq(s, 1, np)
    ELSE s \o [i \in 1..(np - Len(s)) |-> FALSE]

(* nd_nsnfree after the loop: create_subnode adds one per new subnode,     *)
(* delete_a_subnode takes one per dropped subnode that had no job.         *)
NsnfreeAfterAnyDrop(s, np, free) ==
    IF np <= Len(s) THEN free - (Len(s) - np) ELSE free + (np - Len(s))

NsnfreeAfter(s, np, free) ==
    IF np <= Len(s) THEN free - FreeCount([i \in (np + 1)..Len(s) |-> s[i]])
    ELSE free + (np - Len(s))

-----------------------------------------------------------------------------
(* fix_indirectness(presc, pnode, 0) for the new value r of R on node n,   *)
(* after the subnodes have been resized to s.                              *)
FixIndirectnessCheck(n, r, s) ==
    IF r \in Targets THEN
        IF Busy(s) THEN "OBJBUSY"
        ELSE IF target[n] THEN "INDIRECTHOP"
        ELSE IF r = Ghost THEN IF srvState = "init" THEN "NONE" ELSE "UNKNODE"
        ELSE IF r = n THEN "INDIRECTHOP"
        ELSE IF avail[r] \in Targets THEN "INDIRECTHOP"
        ELSE "NONE"
    ELSE IF avail[n] \in Targets /\ Busy(s) THEN "OBJBUSY"
    ELSE "NONE"

(* The side effect of that check: a consumable R pointing at a known       *)
(* vnode gets an entry in resources_assigned (add_resource_entry).         *)
AssnAfterCheckNoAdd(n, r) == assn[n]

AssnAfterCheck(n, r) ==
    IF r \in Nodes /\ assn[n] = None THEN Direct ELSE assn[n]

(* fix_indirectness(presc, pnode, 1): the commit pass.  Setting: mark the  *)
(* target (set_clear_target fails for an unknown vnode and a check task is *)
(* queued instead) and mirror the value into resources_assigned.           *)
(* Unsetting an old indirect: clear the old target's flag, make R and its  *)
(* resources_assigned entry direct, and queue the check task.              *)
SetIndirectNoTarget(n, r, a) ==
    /\ target' = target
    /\ assn' = [assn EXCEPT ![n] = IF a # None THEN r ELSE a]
    /\ pending' = (pending \/ r = Ghost)

SetIndirect(n, r, a) ==
    /\ target' = IF r \in Nodes THEN [target EXCEPT ![r] = TRUE] ELSE target
    /\ assn' = [assn EXCEPT ![n] = IF a # None THEN r ELSE a]
    /\ pending' = (pending \/ r = Ghost)

UnsetIndirectNoCheck(n, r, a) ==
    /\ target' = IF avail[n] \in Nodes THEN [target EXCEPT ![avail[n]] = FALSE] ELSE target
    /\ assn' = [assn EXCEPT ![n] = IF a # None THEN Direct ELSE a]
    /\ pending' = pending

UnsetIndirect(n, r, a) ==
    /\ target' = IF avail[n] \in Nodes THEN [target EXCEPT ![avail[n]] = FALSE] ELSE target
    /\ assn' = [assn EXCEPT ![n] = IF a # None THEN Direct ELSE a]
    /\ pending' = TRUE

FixIndirectnessCommit(n, r, a) ==
    IF r \in Targets THEN SetIndirect(n, r, a)
    ELSE IF avail[n] \in Targets THEN UnsetIndirect(n, r, a)
    ELSE /\ assn' = [assn EXCEPT ![n] = a]
         /\ UNCHANGED <<target, pending>>

-----------------------------------------------------------------------------
Init ==
    /\ srvState = "init"
    /\ subn = [n \in Nodes |-> <<FALSE>>]
    /\ nsnfree = [n \in Nodes |-> 1]
    /\ ncpus = [n \in Nodes |-> 1]
    /\ ncpusDeflt = [n \in Nodes |-> TRUE]
    /\ avail = [n \in Nodes |-> Direct]
    /\ target = [n \in Nodes |-> FALSE]
    /\ assn = [n \in Nodes |-> None]
    /\ pending = FALSE

(***************************************************************************)
(* node_np_action(new, pnode, ALTER or NEW) for a request that sets ncpus  *)
(* to np and R to r (either may be NoMod).  mod_node_ncpus runs first and  *)
(* its subnodes stay even when the check pass then rejects the request;    *)
(* the caller discards the new attribute on error, so ncpus and R keep     *)
(* their old values.  A negative ncpus returns PBSE_BADATVAL before        *)
(* anything changes and is left out.                                       *)
(***************************************************************************)
NodeNpAction(n, np, r) ==
    LET s   == IF np = NoMod THEN subn[n] ELSE NewSubnodes(subn[n], NcpusToNsn(np))
        f   == IF np = NoMod THEN nsnfree[n] ELSE NsnfreeAfter(subn[n], NcpusToNsn(np), nsnfree[n])
        err == IF r = NoMod THEN "NONE" ELSE FixIndirectnessCheck(n, r, s)
    IN  /\ np # NoMod \/ r # NoMod
        /\ subn' = [subn EXCEPT ![n] = s]
        /\ nsnfree' = [nsnfree EXCEPT ![n] = f]
        /\ IF err = "NONE"
           THEN /\ ncpus' = IF np = NoMod THEN ncpus ELSE [ncpus EXCEPT ![n] = np]
                /\ ncpusDeflt' = IF np = NoMod THEN ncpusDeflt ELSE [ncpusDeflt EXCEPT ![n] = FALSE]
                /\ avail' = IF r = NoMod THEN avail ELSE [avail EXCEPT ![n] = r]
                /\ IF r = NoMod THEN UNCHANGED <<target, assn, pending>>
                   ELSE FixIndirectnessCommit(n, r, AssnAfterCheck(n, r))
           ELSE UNCHANGED <<ncpus, ncpusDeflt, avail, target, assn, pending>>
        /\ UNCHANGED srvState

(* node_pcpu_action: the Mom reports np physical cpus (pcpus).  When       *)
(* resources_available.ncpus is unset or a default and differs from np, it *)
(* becomes np (still a default) and mod_node_ncpus resizes the subnodes,   *)
(* which for np >= 0 cannot fail.  Otherwise only nd_ncpus changes, which  *)
(* is not modelled, and nothing observable happens.                        *)
NodePcpuAction(n, np) ==
    /\ ncpusDeflt[n] /\ ncpus[n] # np
    /\ ncpus' = [ncpus EXCEPT ![n] = np]
    /\ subn' = [subn EXCEPT ![n] = NewSubnodes(subn[n], NcpusToNsn(np))]
    /\ nsnfree' = [nsnfree EXCEPT ![n] = NsnfreeAfter(subn[n], NcpusToNsn(np), nsnfree[n])]
    /\ UNCHANGED <<srvState, ncpusDeflt, avail, target, assn, pending>>

(* The queued indirect_target_check: every indirect R that names a known   *)
(* vnode sets TARGET on it (it never clears one).                          *)
IndirectTargetCheck ==
    /\ pending
    /\ target' = [t \in Nodes |-> target[t] \/ \E n \in Nodes : avail[n] = t]
    /\ pending' = FALSE
    /\ UNCHANGED <<srvState, subn, nsnfree, ncpus, ncpusDeflt, avail, assn>>

(* Recovery ends: the server state attribute becomes running.              *)
ServerRunning ==
    /\ srvState = "init"
    /\ srvState' = "running"
    /\ UNCHANGED <<subn, nsnfree, ncpus, ncpusDeflt, avail, target, assn, pending>>

(* The node manager places a job on a free subnode, or the job ends.       *)
JobStart(n, i) ==
    /\ srvState = "running"
    /\ ~subn[n][i]
    /\ subn' = [subn EXCEPT ![n][i] = TRUE]
    /\ nsnfree' = [nsnfree EXCEPT ![n] = @ - 1]
    /\ UNCHANGED <<srvState, ncpus, ncpusDeflt, avail, target, assn, pending>>

JobEnd(n, i) ==
    /\ subn[n][i]
    /\ subn' = [subn EXCEPT ![n][i] = FALSE]
    /\ nsnfree' = [nsnfree EXCEPT ![n] = @ + 1]
    /\ UNCHANGED <<srvState, ncpus, ncpusDeflt, avail, target, assn, pending>>

Requests(n) == ({NoMod} \cup NcpusVals[n]) \X ({NoMod, Direct} \cup Targets)

Next ==
    \/ \E n \in Nodes : \E req \in Requests(n) : NodeNpAction(n, req[1], req[2])
    \/ \E n \in Nodes : \E np \in NcpusVals[n] : NodePcpuAction(n, np)
    \/ IndirectTargetCheck
    \/ ServerRunning
    \/ \E n \in Nodes : \E i \in DOMAIN subn[n] : JobStart(n, i) \/ JobEnd(n, i)

Fairness == WF_vars(IndirectTargetCheck)

Spec == Init /\ [][Next]_vars /\ Fairness

-----------------------------------------------------------------------------
NcpusTop(n) == CHOOSE k \in NcpusVals[n] \cup {1} : \A j \in NcpusVals[n] : j <= k

TypeOK ==
    /\ srvState \in {"init", "running"}
    /\ \A n \in Nodes :
          /\ subn[n] \in [1..Len(subn[n]) -> BOOLEAN]
          /\ Len(subn[n]) \in 1..NcpusTop(n)
          /\ nsnfree[n] \in Int
          /\ ncpus[n] \in NcpusVals[n] \cup {1} /\ ncpusDeflt[n] \in BOOLEAN
          /\ avail[n] \in {Direct} \cup Targets
          /\ target[n] \in BOOLEAN
          /\ assn[n] \in {None, Direct} \cup Targets
    /\ pending \in BOOLEAN

(***************************************************************************)
(* resources_assigned mirrors an indirect R: when resources_available.R    *)
(* of a vnode names a known vnode, its resources_assigned.R holds the same *)
(* "@name", and resources_assigned.R is never indirect on its own; the     *)
(* entry is created by the check pass of fix_indirectness and filled by    *)
(* its commit pass.                                                        *)
(***************************************************************************)
AssignedMirrorsIndirect ==
    \A n \in Nodes :
        (avail[n] \in Nodes \/ assn[n] \in Targets) => assn[n] = avail[n]

(***************************************************************************)
(* Whenever no indirect_target_check task is queued, every vnode that an   *)
(* indirect R names carries ATR_VFLAG_TARGET, so fix_indirectness refuses  *)
(* to make it indirect in turn.  Unsetting one of two references to the    *)
(* same target clears the flag; the queued task must restore it.           *)
(***************************************************************************)
TargetsFlagged ==
    ~pending => \A n \in Nodes : avail[n] \in Nodes => target[avail[n]]

(***************************************************************************)
(* A vnode that some indirect R keeps naming eventually carries the TARGET *)
(* flag (the WORK_Immed task runs in a later pass of the main loop).       *)
(***************************************************************************)
IndirectEventuallyFlagged ==
    \A n, t \in Nodes : (avail[n] = t) ~> (target[t] \/ avail[n] # t)

(***************************************************************************)
(* The subnode list of a vnode has as many entries as its                  *)
(* resources_available.ncpus, and one when ncpus is 0 (spec.md: "count     *)
(* must always equal the resource's current value, minimum 1").            *)
(* node_np_action resizes the list in mod_node_ncpus before                *)
(* fix_indirectness has validated the rest of the request.                 *)
(***************************************************************************)
SubnodesFollowNcpus == \A n \in Nodes : Len(subn[n]) = NcpusToNsn(ncpus[n])
(***************************************************************************)
(* nd_nsnfree counts the subnodes without a job, through jobs starting and *)
(* ending and subnode lists resized by a manager's ncpus and by the Mom's  *)
(* pcpus: delete_a_subnode drops the tail subnode whether or not a job is  *)
(* on it and must decrement the count only for a free one.                 *)
(***************************************************************************)
NsnfreeCountsFree == \A n \in Nodes : nsnfree[n] = FreeCount(subn[n])
====
