\* One vnode whose ncpus a request may set to 0, 1 or 2 together with R.
CONSTANTS
    Nodes = {"n1"}
    Ghost = Ghost
    NcpusVals <- CapFirstTwo
    Direct = Direct
    None = None
    NoMod = NoMod
SPECIFICATION Spec
INVARIANT
    SubnodesFollowNcpus
