\* Two jobs sharing a vnode; up to three suspend, admin-suspend, resume and
\* admin-resume requests, from the scheduler or not, relayed to the Moms,
\* answered with success or error and picked up in any order.
CONSTANTS
    Jobs = {"j1", "j2"}
    Vnodes = {"v1", "v2"}
    ExecVnodes <- MCExecVnodes
    ExecChunks <- MCExecChunks
    RestrictResSet = TRUE
    RestrictRes <- MCRestrictRes
    SigNames <- MCSigNames
    MaxReqs = 3
SPECIFICATION Spec
\* Requests stop at MaxReqs; the last answered state has no successor.
CHECK_DEADLOCK FALSE
INVARIANTS
    TypeOK
    
    ReleasedListOfSuspended
