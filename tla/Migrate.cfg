\* svr_migrate_data with every call that may fail failing or not.
CONSTANTS
    Queues = {q1, q2}
    Resvs = {r1}
    Jobs = {j1, j2}
    ScriptJobs = {j1}
    DbVersions <- MCDbVersions
    CurrentSchema <- MCCurrentSchema
    NodeFiles <- MCNodeFiles
    DbNodes <- MCDbNodes
    NonBoolResc <- MCNonBoolResc
    Faults <- MCAllFaults
    MaxRestarts = 1
    Rows <- MCRows
SPECIFICATION Spec
\* svr_migrate_data returns, or save_nodes_db stops the server, and the
\* restarts are used up.
CHECK_DEADLOCK FALSE
INVARIANTS
    FailedMigrationCommitsNothing
    FilesRemovedOnlyAfterCommit
    NodesFileMigrated
PROPERTY
    ImplementsFlatTrx
