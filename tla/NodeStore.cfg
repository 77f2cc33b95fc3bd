\* Attribute and offline changes, saves of all Moms (save_nodes_db(.., NULL))
\* that may fail, topology reports licensing the natural vnodes v1 and v2
\* from a pool of two socket licenses, and deletion of v2 (the natural vnode
\* of m2) and of v3 (a vnode of both Moms).
CONSTANTS
    Moms = {"m1", "m2"}
    Vnodes = {"v1", "v2", "v3"}
    InitChildren <- MCSharedChildren
    InitList <- MCSharedList
    NoMom = NoMom
    SaveArgs = {NoMom}
    Deletable = {"v2", "v3"}
    Naturals = {"v1", "v2"}
    Sockets = {1, 2}
    LicTotal = 2
    Queues = {"q1"}
    ExecQueues = {"q1"}
    QPartition <- MCQPartition
    Partitions = {"p2"}
    NoQueue = NoQueue
    NoPart = NoPart
    QueueVnodes = {"v3"}
SPECIFICATION Spec
\* panic_stop_db ends the server: no step follows a failed save.
CHECK_DEADLOCK FALSE
INVARIANTS
    TypeOK
    IndexMatchesPosition
    LinksSymmetric
    DirtyOrPersisted
    LicensesAccounted
