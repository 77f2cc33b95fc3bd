\* Job files only; job_recov_fs may fail to read one.
CONSTANTS
    Queues = {}
    Resvs = {}
    Jobs = {j1, j2}
    ScriptJobs = {j1}
    DbVersions <- MCDbVersions
    CurrentSchema <- MCCurrentSchema
    NodeFiles <- MCFewNodeFiles
    DbNodes <- MCDbNodes
    NonBoolResc <- MCNonBoolResc
    Faults <- MCRecovFaults
    MaxRestarts = 0
    Rows <- MCRows
INIT Init
NEXT Next
\* svr_migrate_data returns, or save_nodes_db stops the server.
CHECK_DEADLOCK FALSE
INVARIANT
    MigratedFilesHaveRows
