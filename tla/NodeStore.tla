----------------------------- MODULE NodeStore ------------------------------
(***************************************************************************)
(* The server's table of vnodes and its persistence (src/src/server/       *)
(* node_func.c): the array pbsndlist with each vnode's nd_arr_index, the   *)
(* links between Moms and the vnodes they manage (msr_children, nd_moms),  *)
(* the dirty bits nd_modified kept by chk_characteristic, the database     *)
(* rows written by save_nodes_db in one transaction (rolled back and       *)
(* panic-stopped on failure), and effective_node_delete.                   *)
(*                                                                         *)
(* A row's content is abstracted to one bit: whether the database row      *)
(* still equals the vnode in memory.  The socket licenses a natural vnode  *)
(* holds (set_node_topology, released by effective_node_delete) are kept   *)
(* as its License and LicenseInfo attributes and a count of the licenses   *)
(* in use.                                                                 *)
(***************************************************************************)
EXTENDS Integers, SequencesExt

CONSTANTS
    Moms,          \* the Moms of mominfo_array
    Vnodes,        \* the vnodes of pbsndlist at start
    InitChildren,  \* [Moms -> Seq(Vnodes)]: msr_children, natural vnode first
    InitList,      \* pbsndlist at start: a sequence of all of Vnodes
    NoMom,         \* save_nodes_db(.., NULL): save the vnodes of every Mom
    SaveArgs,      \* the Mom arguments callers pass to save_nodes_db
    Deletable,     \* the vnodes an administrator deletes
    Naturals,      \* vnodes whose nd_name is their nd_hostname
    Sockets,       \* socket counts a Mom reports in the topology attribute
    LicTotal,      \* socket licenses the license server grants
    Queues,        \* the queues of svr_queues
    ExecQueues,    \* those of type QTYPE_Execution
    QPartition,    \* [Queues -> Partitions \cup {NoPart}]: each queue's partition
    Partitions,    \* partition names
    NoQueue,       \* the queue attribute is unset (nd_pque NULL)
    NoPart,        \* a partition attribute that is unset
    QueueVnodes    \* the vnodes whose queue and partition requests change

Bits == {"OTHERS", "STATE"}   \* NODE_UPDATE_OTHERS, NODE_UPDATE_STATE

VARIABLES
    list,      \* pbsndlist[0 .. svr_totnodes-1]
    arrIdx,    \* nd_arr_index of each vnode
    children,  \* msr_children of each Mom
    nmoms,     \* nd_moms[0 .. nd_nummoms-1] of each vnode
    momAlive,  \* Moms still in mominfo_array
    modified,  \* nd_modified
    modAttr,   \* some attribute other than comment/state has ATR_VFLAG_MODIFY
    offline,   \* INUSE_OFFLINE in nd_state
    synced,    \* the database row equals the vnode in memory
    up,        \* the server has not been stopped by panic_stop_db
    lic,       \* ND_ATR_License is ND_LIC_TYPE_locked
    licInfo,   \* ND_ATR_LicenseInfo: the socket count last reported
    licUsed,   \* socket licenses consumed and not released
    licUp,     \* licstate_is_up(lb)
    pque,      \* nd_pque, the queue of the vnode's queue attribute
    part,      \* the vnode's partition attribute
    hasNodes,  \* QE_ATR_HasNodes of each queue
    queHasNodes \* svr_quehasnodes

vars == <<list, arrIdx, children, nmoms, momAlive, modified, modAttr,
          offline, synced, up, lic, licInfo, licUsed, licUp, pque, part, hasNodes,
          queHasNodes>>

queueVars == <<pque, part, hasNodes, queHasNodes>>

licVars == <<lic, licInfo, licUsed, licUp>>

InList(v) == v \in ToSet(list)

-----------------------------------------------------------------------------
(* chk_characteristic(pnode) after save_characteristic(pnode) recorded the *)
(* offline bit wasOff: nd_modified is reset, then a change of offline sets *)
(* STATE and a modified attribute sets OTHERS.                             *)
ChkCharacteristicNoAttrScan(wasOff, isOff, attrMod) ==
    IF wasOff # isOff THEN {"STATE"} ELSE {}

ChkCharacteristic(wasOff, isOff, attrMod) ==
    (IF wasOff # isOff THEN {"STATE"} ELSE {})
    \cup (IF attrMod THEN {"OTHERS"} ELSE {})

(* A manager request changes an attribute of v (setting its MODIFY flag)   *)
(* between save_characteristic and chk_characteristic.                     *)
AttrModified(v) ==
    /\ modAttr' = [modAttr EXCEPT ![v] = TRUE]
    /\ synced' = [synced EXCEPT ![v] = FALSE]
    /\ modified' = [modified EXCEPT ![v] = ChkCharacteristic(offline[v], offline[v], TRUE)]
    /\ UNCHANGED <<list, arrIdx, children, nmoms, momAlive, offline, up>>

SetAttr(v) ==
    /\ up /\ InList(v)
    /\ AttrModified(v)
    /\ UNCHANGED licVars
    /\ UNCHANGED queueVars

(* A manager request marks v offline or clears it.                         *)
SetOffline(v, b) ==
    /\ up /\ InList(v) /\ offline[v] # b
    /\ offline' = [offline EXCEPT ![v] = b]
    /\ modified' = [modified EXCEPT ![v] = ChkCharacteristic(offline[v], b, modAttr[v])]
    /\ UNCHANGED <<list, arrIdx, children, nmoms, momAlive, modAttr, synced, up>>
    /\ UNCHANGED licVars
    /\ UNCHANGED queueVars

-----------------------------------------------------------------------------
(* A queue with a partition and a vnode with another one may not be        *)
(* associated (PBSE_PARTITION_NOT_IN_QUE, PBSE_QUE_NOT_IN_PARTITION).      *)
PartitionConflict(qp, np) == qp # NoPart /\ np # NoPart /\ qp # np

(* node_queue_action accepts queue q for v: an execution queue whose       *)
(* partition does not conflict with v's.  An unknown queue (PBSE_UNKQUE)   *)
(* is not among Queues.                                                    *)
QueueAccepts(v, q) ==
    q = NoQueue \/ (q \in ExecQueues /\ ~PartitionConflict(QPartition[q], part[v]))

(* mark_which_queues_have_nodes: HasNodes is cleared on every queue and    *)
(* set on the queue of each vnode of pbsndlist, and svr_quehasnodes says   *)
(* whether any vnode has a queue.                                          *)
MarkWhichQueuesHaveNodes(pq) ==
    [q \in Queues |-> \E v \in ToSet(list) : pq[v] = q]

(* A manager request sets v's queue attribute to q, or unsets it (NoQueue): *)
(* node_queue_action points nd_pque at the queue and refreshes the         *)
(* HasNodes flags; the attribute is marked modified.                       *)
NodeQueueAction(v, q) ==
    LET pq == [pque EXCEPT ![v] = q]
    IN  /\ up /\ InList(v) /\ v \in QueueVnodes
        /\ QueueAccepts(v, q)
        /\ pque' = pq
        /\ hasNodes' = MarkWhichQueuesHaveNodes(pq)
        /\ queHasNodes' = \E u \in ToSet(list) : pq[u] # NoQueue
        /\ AttrModified(v)
        /\ UNCHANGED <<part, licVars>>

(* A manager request sets v's partition attribute to p, or unsets it:     *)
(* action_node_partition refuses a partition other than that of the queue  *)
(* v is associated with.                                                   *)
ActionNodePartition(v, p) ==
    /\ up /\ InList(v) /\ v \in QueueVnodes
    /\ pque[v] # NoQueue => ~PartitionConflict(QPartition[pque[v]], p)
    /\ part' = [part EXCEPT ![v] = p]
    /\ AttrModified(v)
    /\ UNCHANGED <<pque, hasNodes, queHasNodes, licVars>>

-----------------------------------------------------------------------------
(* The vnodes one save_nodes_db_mom(pmom) visits: the live Mom's children. *)
VisitedBy(m) == IF m \in momAlive THEN ToSet(children[m]) ELSE {}

(* save_nodes_db(changemodtime, p): one transaction; every visited vnode   *)
(* with OTHERS is written (node_save_db, then its state and comment).      *)
(* On commit, OTHERS, STATE and the MODIFY flags are cleared on every      *)
(* vnode of the table.  Any failure rolls back and calls panic_stop_db.   *)
SaveNodesDb(p) ==
    LET visited == IF p = NoMom THEN UNION {VisitedBy(m) : m \in Moms}
                   ELSE VisitedBy(p)
        written == {v \in visited : "OTHERS" \in modified[v]}
    IN  /\ up /\ list # <<>> /\ momAlive # {}
        /\ \/ /\ synced' = [v \in Vnodes |-> IF v \in written THEN TRUE ELSE synced[v]]
              /\ modified' = [v \in Vnodes |-> IF InList(v) THEN modified[v] \ Bits
                                                ELSE modified[v]]
              /\ modAttr' = [v \in Vnodes |-> IF InList(v) THEN FALSE ELSE modAttr[v]]
              /\ UNCHANGED up
           \/ /\ up' = FALSE
              /\ UNCHANGED <<synced, modified, modAttr>>
        /\ UNCHANGED <<list, arrIdx, children, nmoms, momAlive, offline>>
        /\ UNCHANGED licVars
        /\ UNCHANGED queueVars

-----------------------------------------------------------------------------
(* sockets_consume(n) succeeds when n licenses are free.                   *)
SocketsConsumeOk(used, n) == used + n <= LicTotal

(* set_node_topology(new, v, ATR_ACTION_NEW or ALTER) for a topology      *)
(* reporting ns sockets, as [lic, info, used, others]: a locked vnode      *)
(* reporting a new count releases the old one and is locked again only if *)
(* the new count can be consumed; a locked vnode reporting the same count  *)
(* is marked locked again while licensing is up (nothing is consumed); an  *)
(* unlocked vnode consumes ns if ns > 0 and licensing is up and enough are *)
(* free, and otherwise only remembers ns.                                  *)
TopologyOutcome(v, ns) ==
    LET freed == licUsed - licInfo[v]
    IN  CASE lic[v] /\ licInfo[v] # ns ->
               [lic |-> SocketsConsumeOk(freed, ns), info |-> ns,
                used |-> IF SocketsConsumeOk(freed, ns) THEN freed + ns ELSE freed,
                others |-> TRUE]
          [] lic[v] /\ licUp ->
               [lic |-> TRUE, info |-> ns, used |-> licUsed, others |-> TRUE]
          [] lic[v] ->
               [lic |-> TRUE, info |-> ns, used |-> licUsed, others |-> FALSE]
          [] ns > 0 /\ licUp /\ SocketsConsumeOk(licUsed, ns) ->
               [lic |-> TRUE, info |-> ns, used |-> licUsed + ns, others |-> TRUE]
          [] OTHER ->
               [lic |-> FALSE, info |-> ns, used |-> licUsed, others |-> FALSE]

(* The Mom of natural vnode v reports its topology: the attribute is set   *)
(* (ATR_VFLAG_MODIFY) and its action set_node_topology runs.  An unknown   *)
(* topology type returns PBSE_INTERNAL before any change and is not a     *)
(* step.  The License columns are outside the row bit synced.              *)
SetNodeTopology(v, ns) ==
    LET o == TopologyOutcome(v, ns)
    IN  /\ up /\ InList(v) /\ v \in Naturals
        /\ lic' = [lic EXCEPT ![v] = o.lic]
        /\ licInfo' = [licInfo EXCEPT ![v] = o.info]
        /\ licUsed' = o.used
        /\ modified' = [modified EXCEPT ![v] = IF o.others THEN @ \cup {"OTHERS"} ELSE @]
        /\ modAttr' = [modAttr EXCEPT ![v] = TRUE]
        /\ UNCHANGED <<list, arrIdx, children, nmoms, momAlive, offline, synced, up, licUp>>
        /\ UNCHANGED queueVars

(* The license server's state as licstate_is_up sees it changes.           *)
LicenseState(b) ==
    /\ licUp # b /\ licUp' = b
    /\ UNCHANGED <<list, arrIdx, children, nmoms, momAlive, modified, modAttr,
                   offline, synced, up, lic, licInfo, licUsed>>
    /\ UNCHANGED queueVars

-----------------------------------------------------------------------------
(* remove_vnode_from_moms: v leaves the child list of each of its Moms.    *)
RemoveVnodeFromMomsFirstOnly(v) ==
    [m \in Moms |-> IF nmoms[v] # <<>> /\ m = nmoms[v][1]
                    THEN Remove(children[m], v) ELSE children[m]]

RemoveVnodeFromMoms(v) ==
    [m \in Moms |-> IF m \in ToSet(nmoms[v]) THEN Remove(children[m], v)
                    ELSE children[m]]

(* remove_mom_from_vnodes: every child of m after the natural one loses m  *)
(* from nd_moms, its Mom attribute is decremented (a MODIFY flag), and     *)
(* nd_modified is set to OTHERS (an assignment).  Nothing when m has only  *)
(* its natural vnode.                                                      *)
LosesMom(m) ==
    IF Len(children[m]) = 1 THEN {}
    ELSE {u \in ToSet(Tail(children[m])) : m \in ToSet(nmoms[u])}

(* The compaction loop: later entries move down one place and their        *)
(* nd_arr_index is decremented; svr_totnodes-- shortens the array.         *)
CompactNoReindex(v) == arrIdx

CompactShiftAll(v) ==
    [u \in Vnodes |-> IF InList(u) /\ u # v THEN arrIdx[u] - 1 ELSE arrIdx[u]]

Compact(v) ==
    [u \in Vnodes |-> IF InList(u) /\ arrIdx[u] > arrIdx[v] THEN arrIdx[u] - 1
                      ELSE arrIdx[u]]

(* effective_node_delete releases the licenses of a locked vnode whose    *)
(* name is its host name.                                                  *)
LicenseReleasedNone(v) == 0

LicenseReleased(v) == IF lic[v] /\ v \in Naturals THEN licInfo[v] ELSE 0

(* effective_node_delete(pnode): the caller has checked v has no jobs.     *)
(* A vnode with several Moms, or one Mom whose natural vnode it is not, is *)
(* unlinked from the Moms' child lists; the natural vnode of its only Mom *)
(* takes the Mom with it (remove_mom_from_vnodes, delete_svrmom_entry).    *)
(* Then node_delete_db removes the row and the array is compacted.         *)
EffectiveNodeDelete(v) ==
    LET natural == Len(nmoms[v]) = 1 /\ children[nmoms[v][1]][1] = v
        m       == nmoms[v][1]
        losers  == IF natural THEN LosesMom(m) ELSE {}
    IN  /\ up /\ v \in Deletable /\ InList(v)
        /\ children' = IF natural THEN [children EXCEPT ![m] = <<>>]
                       ELSE IF nmoms[v] = <<>> THEN children
                       ELSE RemoveVnodeFromMoms(v)
        /\ momAlive' = IF natural THEN momAlive \ {m} ELSE momAlive
        /\ nmoms' = [u \in Vnodes |-> IF u = v THEN <<>>
                                       ELSE IF u \in losers THEN Remove(nmoms[u], m)
                                       ELSE nmoms[u]]
        /\ modified' = [u \in Vnodes |-> IF u \in losers THEN {"OTHERS"} ELSE modified[u]]
        /\ modAttr' = [u \in Vnodes |-> IF u \in losers THEN TRUE ELSE modAttr[u]]
        /\ synced' = [u \in Vnodes |-> IF u \in losers THEN FALSE
                                        ELSE IF u = v THEN TRUE ELSE synced[u]]
        /\ arrIdx' = Compact(v)
        /\ list' = Remove(list, v)
        /\ licUsed' = licUsed - LicenseReleased(v)
        /\ lic' = [lic EXCEPT ![v] = FALSE]
        /\ licInfo' = [licInfo EXCEPT ![v] = 0]
        /\ UNCHANGED <<offline, up, licUp>>
        /\ UNCHANGED queueVars

-----------------------------------------------------------------------------
Init ==
    /\ list = InitList
    /\ arrIdx = [v \in Vnodes |-> CHOOSE i \in 0..(Len(InitList) - 1) : InitList[i + 1] = v]
    /\ children = InitChildren
    /\ nmoms = [v \in Vnodes |->
                  SetToSeq({m \in Moms : v \in ToSet(InitChildren[m])})]
    /\ momAlive = Moms
    /\ modified = [v \in Vnodes |-> {}]
    /\ modAttr = [v \in Vnodes |-> FALSE]
    /\ offline = [v \in Vnodes |-> FALSE]
    /\ synced = [v \in Vnodes |-> TRUE]
    /\ up = TRUE
    /\ lic = [v \in Vnodes |-> FALSE]
    /\ licInfo = [v \in Vnodes |-> 0]
    /\ licUsed = 0
    /\ licUp \in BOOLEAN
    /\ pque = [v \in Vnodes |-> NoQueue]
    /\ part = [v \in Vnodes |-> NoPart]
    /\ hasNodes = [q \in Queues |-> FALSE]
    /\ queHasNodes = FALSE

Next ==
    \/ \E v \in Vnodes : SetAttr(v) \/ EffectiveNodeDelete(v)
    \/ \E v \in Vnodes, b \in BOOLEAN : SetOffline(v, b)
    \/ \E p \in SaveArgs : SaveNodesDb(p)
    \/ \E v \in Vnodes, ns \in Sockets : SetNodeTopology(v, ns)
    \/ \E b \in BOOLEAN : LicenseState(b)
    \/ \E v \in Vnodes, q \in Queues \cup {NoQueue} : NodeQueueAction(v, q)
    \/ \E v \in Vnodes, p \in Partitions \cup {NoPart} : ActionNodePartition(v, p)

Spec == Init /\ [][Next]_vars
-----------------------------------------------------------------------------
TypeOK ==
    /\ list \in Seq(Vnodes) /\ arrIdx \in [Vnodes -> 0..(Cardinality(Vnodes) - 1)]
    /\ children \in [Moms -> Seq(Vnodes)] /\ nmoms \in [Vnodes -> Seq(Moms)]
    /\ momAlive \subseteq Moms
    /\ modified \in [Vnodes -> SUBSET Bits] /\ modAttr \in [Vnodes -> BOOLEAN]
    /\ offline \in [Vnodes -> BOOLEAN] /\ synced \in [Vnodes -> BOOLEAN]
    /\ up \in BOOLEAN
    /\ lic \in [Vnodes -> BOOLEAN] /\ licInfo \in [Vnodes -> {0} \cup Sockets]
    /\ licUsed \in 0..LicTotal /\ licUp \in BOOLEAN
    /\ pque \in [Vnodes -> Queues \cup {NoQueue}] /\ part \in [Vnodes -> Partitions \cup {NoPart}]
    /\ hasNodes \in [Queues -> BOOLEAN] /\ queHasNodes \in BOOLEAN

(***************************************************************************)
(* Every vnode's nd_arr_index is its position in pbsndlist, through any    *)
(* sequence of deletions compacting the array.                             *)
(***************************************************************************)
IndexMatchesPosition == \A i \in 1..Len(list) : arrIdx[list[i]] = i - 1

(***************************************************************************)
(* The Mom-vnode links agree both ways: a live Mom lists a vnode of the    *)
(* table among msr_children exactly when the vnode lists the Mom in        *)
(* nd_moms; no child list names a deleted vnode and no vnode names a       *)
(* deleted Mom (effective_node_delete, remove_vnode_from_moms,             *)
(* remove_mom_from_vnodes).                                                *)
(***************************************************************************)
LinksSymmetric ==
    /\ \A m \in momAlive, v \in ToSet(list) :
          v \in ToSet(children[m]) <=> m \in ToSet(nmoms[v])
    /\ \A m \in momAlive : ToSet(children[m]) \subseteq ToSet(list)
    /\ \A v \in ToSet(list) : ToSet(nmoms[v]) \subseteq momAlive

(***************************************************************************)
(* No update is lost: a vnode of the table whose database row differs from *)
(* memory still has NODE_UPDATE_OTHERS or a MODIFY flag that               *)
(* chk_characteristic turns into it, so a later save_nodes_db writes it.   *)
(* save_nodes_db clears the bits of every vnode, saved or not.             *)
(***************************************************************************)
DirtyOrPersisted ==
    \A v \in ToSet(list) : ~synced[v] => ("OTHERS" \in modified[v] \/ modAttr[v])

(***************************************************************************)
(* The socket licenses in use are exactly those recorded in LicenseInfo    *)
(* of the locked vnodes of the table, through re-reported topologies,      *)
(* failed re-licensing and deletions (set_node_topology, the release in    *)
(* effective_node_delete); they never exceed the licenses granted.         *)
(***************************************************************************)
LicensesAccounted ==
    /\ licUsed = MapThenSumSet(LAMBDA v : IF lic[v] THEN licInfo[v] ELSE 0, ToSet(list))
    /\ licUsed <= LicTotal

(***************************************************************************)
(* Every vnode of the table has a Mom: find_nodebyaddr dereferences        *)
(* nd_moms[0] of every vnode, and save_nodes_db reaches a vnode only       *)
(* through a Mom's child list.                                             *)
(***************************************************************************)
NoOrphanVnode == \A v \in ToSet(list) : nmoms[v] # <<>>
====
