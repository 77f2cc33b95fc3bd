\* Three vnodes and an unknown name; requests set ncpus of n1 to 0, 1 or 2
\* and/or R to direct or "@name", n1's Mom reports 0, 1 or 2 pcpus, and jobs
\* occupy subnodes.  Safety and the liveness of the
\* deferred TARGET check under weak fairness of the work task.
CONSTANTS
    Nodes = {"n1", "n2", "n3"}
    Ghost = Ghost
    NcpusVals <- CapFirstTwo
    Direct = Direct
    None = None
    NoMod = NoMod
SPECIFICATION Spec
INVARIANTS
    TypeOK
    AssignedMirrorsIndirect
    TargetsFlagged
    NsnfreeCountsFree
PROPERTY
    IndirectEventuallyFlagged
