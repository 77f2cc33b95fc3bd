\* Deleting v1, the natural vnode of m1, the only Mom of v3.
CONSTANTS
    Moms = {"m1", "m2"}
    Vnodes = {"v1", "v2", "v3", "v4"}
    InitChildren <- MCInitChildren
    InitList <- MCInitList
    NoMom = NoMom
    SaveArgs = {NoMom}
    Deletable = {"v1"}
    Naturals = {"v1", "v2"}
    Sockets = {1, 2}
    LicTotal = 2
    Queues = {"q1"}
    ExecQueues = {"q1"}
    QPartition <- MCQPartition
    Partitions = {"p2"}
    NoQueue = NoQueue
    NoPart = NoPart
    QueueVnodes = {"v3"}
SPECIFICATION Spec
\* panic_stop_db ends the server: no step follows a failed save.
CHECK_DEADLOCK FALSE
INVARIANT NoOrphanVnode
