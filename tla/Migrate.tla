------------------------------ MODULE Migrate ------------------------------
(***************************************************************************)
(* svr_migrate_data (server/svr_migrate_data.c): at startup the server     *)
(* either moves the file-system data store into the database under one     *)
(* transaction and then deletes the migrated files, or upgrades a database *)
(* of an older schema.  pc is the point reached in the function; each      *)
(* action is the code from one point to the next, with every error return  *)
(* as a disjunct.  The file-system readers (svr_recov_fs, que_recov_fs,    *)
(* job_recov_fs, ...) and the database savers are not in                  *)
(* this repository: each is a call that succeeds or fails, and only the    *)
(* kinds of call named in Faults may fail.                                 *)
(*                                                                         *)
(* The file system is privFiles (plain files of server_priv), queFiles,   *)
(* resvFiles, and per job the state of its .JB file and whether its .SC    *)
(* script file is there; the nodes file is read by NodesFile's             *)
(* SetupNodesFs.                                                           *)
(*                                                                         *)
(* The server may stop at any point (a crash, or its exit after the        *)
(* function failed) and be started again, at most MaxRestarts times: what  *)
(* is in memory and the open transaction are lost, the files and the       *)
(* committed rows stay, and svr_migrate_data runs again.                   *)
(***************************************************************************)
EXTENDS DbTrx, NodesFile, Integers, Sequences

CONSTANTS
    Queues, Resvs, Jobs,  \* the objects saved in the file system
    ScriptJobs,           \* jobs with JOB_SVFLG_SCRIPT
    DbVersions,           \* what the schema version query may answer
    CurrentSchema,        \* its answer for the schema pbs_habitat installs
    NodeFiles,            \* contents the nodes file may have, <<>> for none
    DbNodes,              \* the vnodes pbsd_init may load from the database
    Faults,               \* the kinds of call that may fail
    MaxRestarts           \* how often the server may be started again

Row(k, i) == [kind |-> k, id |-> i]
SvrRow     == Row("svr", "-")
SchedRow   == Row("sched", "-")
MomTimeRow == Row("mominfo_time", "-")
NodeRow(n) == Row("node", n)
QueRow(q)  == Row("que", q)
ResvRow(r) == Row("resv", r)
JobRow(j)  == Row("job", j)
ScrRow(j)  == Row("jobscr", j)

VARIABLES
    origin,     \* "fs" when the server started from a file-system data store
    restarts,   \* restarts so far
    base,       \* the committed rows when svr_migrate_data was entered
    pc,         \* where svr_migrate_data is
    rc,         \* its return value once pc is "done"
    dbver,      \* the answer of the schema version query
    nodes,      \* the vnodes of pbsndlist
    nodesDirty, \* they are marked NODE_UPDATE_OTHERS
    nodesFile,  \* the content of the nodes file
    todo,       \* directory entries readdir has still to return
    privFiles,  \* plain files of server_priv among serverdb, scheddb, nodes
    queFiles, resvFiles,
    jobFile,    \* "JB", renamed to "BD", or "none"
    scrFile     \* the .SC file is there

fsVars == <<privFiles, queFiles, resvFiles, jobFile, scrFile>>
vars == <<db, origin, restarts, base, pc, rc, dbver, nodes, nodesDirty, nodesFile, todo, fsVars>>

FromFs == origin = "fs"

(***************************************************************************)
(* pbs_db_get_schema_version.  A query answer is [err, long, segs]: err    *)
(* when pg_db_query returns non-zero; otherwise the text of               *)
(* pbs_schema_version, long when it runs past MAX_SCHEMA_VERSION_LEN, and  *)
(* segs its pieces between dots, each Seg(v) with v what atol makes of it  *)
(* or NoSeg when it is empty.  strtok(".") skips empty pieces; the first   *)
(* two pieces left are the major and minor versions, the rest is ignored.  *)
(***************************************************************************)
Seg(v) == [empty |-> FALSE, val |-> v]
NoSeg == [empty |-> TRUE, val |-> 0]

Answer(err, long, segs) == [err |-> err, long |-> long, segs |-> segs]

SchemaVersion(ans) ==
    LET toks == SelectSeq(ans.segs, LAMBDA s : ~s.empty)
    IN  IF ans.err \/ ans.long \/ Len(toks) < 2
        THEN [rc |-> -1, maj |-> 0, min |-> 0]
        ELSE [rc |-> 0, maj |-> toks[1].val, min |-> toks[2].val]

Fault(f) == f \in Faults

\* The answers the database may give to a statement of kind f.
DbAnswers(f) == IF Fault(f) THEN BOOLEAN ELSE {TRUE}

Return(code) == rc' = code /\ pc' = "done"

\* The savers called with an INSERT savetype (SVR_SAVE_NEW, QUE_SAVE_NEW,
\* SAVERESV_NEW, SAVEJOB_NEW, PBS_INSERT_DB) fail on a row whose key the
\* database already holds.
Inserts(rows) == rows \cap db.committed = {}

\* Mutant of Abort: an error path that ends the transaction with COMMIT.
AbortCommits ==
    /\ db' = EndTrx(db, TRUE, TRUE)
    /\ Return(-1)
    /\ UNCHANGED <<dbver, nodes, nodesDirty, nodesFile, todo, fsVars>>

\* The error returns after the transaction began: roll back, return -1.
Abort ==
    /\ db' = EndTrx(db, FALSE, TRUE)
    /\ Return(-1)
    /\ UNCHANGED <<dbver, nodes, nodesDirty, nodesFile, todo, fsVars>>

\* A call of kind f that either fails, and the code rolls back and
\* returns -1, or writes rows and goes on at next.
Call(f, rows, next) ==
    \/ (Fault(f) \/ ~Inserts(rows)) /\ Abort
    \/ /\ Inserts(rows)
       /\ db' = WriteRows(db, rows)
       /\ pc' = next
       /\ UNCHANGED <<rc, dbver, nodes, nodesDirty, nodesFile, todo, fsVars>>

Init ==
    /\ DbInit
    /\ restarts = 0
    /\ base = {}
    /\ pc = "start"
    /\ rc = 0
    /\ nodes = {}
    /\ nodesDirty = FALSE
    /\ todo = {}
    /\ \/ /\ origin = "fs"
          /\ dbver = CurrentSchema
          /\ nodesFile \in NodeFiles
          /\ privFiles = {"serverdb", "scheddb"} \cup (IF nodesFile # <<>> THEN {"nodes"} ELSE {})
          /\ queFiles = Queues
          /\ resvFiles = Resvs
          /\ jobFile = [j \in Jobs |-> "JB"]
          /\ scrFile = [j \in Jobs |-> j \in ScriptJobs]
       \/ /\ origin = "db"
          /\ dbver \in DbVersions
          /\ nodesFile = <<>>
          /\ privFiles = {} /\ queFiles = {} /\ resvFiles = {}
          /\ jobFile = [j \in Jobs |-> "none"]
          /\ scrFile = [j \in Jobs |-> FALSE]

(***************************************************************************)
(* save_nodes_db(0, NULL): an empty node table returns -1; otherwise a     *)
(* transaction (nested when the caller has one open) saves mominfo_time    *)
(* and the nodes marked NODE_UPDATE_OTHERS and, when its end returns 0,    *)
(* clears the marks.  A database error (db_err) in BEGIN, a save or the    *)
(* outermost END rolls back and calls panic_stop_db, which stops the       *)
(* server; a failed outermost END has already discarded the transaction,   *)
(* so all of them end as a rollback.  Rows written before the failing      *)
(* statement belong to the doomed transaction and are left out.           *)
(***************************************************************************)
NodesWritten ==
    WriteRows(BeginTrx(db), {MomTimeRow} \cup (IF nodesDirty THEN {NodeRow(n) : n \in nodes} ELSE {}))

SaveNodesDb(okPc, okRc) ==
    \/ /\ nodes = {}
       /\ Abort
    \/ /\ nodes # {}
       /\ db' = EndTrx(NodesWritten, TRUE, TRUE)
       /\ nodesDirty' = FALSE
       /\ pc' = okPc
       /\ rc' = okRc
       /\ UNCHANGED <<dbver, nodes, nodesFile, todo, fsVars>>
    \/ /\ nodes # {}
       /\ Fault("save_nodes")
       /\ \E t \in {BeginTrx(db)} \cup (IF BeginTrxMayFail(db) THEN {db} ELSE {}) :
             db' = EndTrx(t, FALSE, TRUE)
       /\ pc' = "stopped"
       /\ UNCHANGED <<rc, dbver, nodes, nodesDirty, nodesFile, todo, fsVars>>

Version(maj, min) == [rc |-> 0, maj |-> maj, min |-> min]

\* svr_migrate_data: migrate the files when serverdb exists, otherwise act
\* on the schema version: a failed query returns -1, version 1.0 reloads
\* everything (pbsd_init) and marks every node for saving, 3.0 needs
\* nothing, and any other version cannot be upgraded.
Start ==
    /\ pc = "start"
    /\ \/ /\ "serverdb" \in privFiles
          /\ pc' = "resc"
          /\ UNCHANGED <<rc, nodes, nodesDirty>>
       \/ /\ "serverdb" \notin privFiles
          /\ LET v == SchemaVersion(dbver) IN
                \/ /\ \/ v.rc = -1
                      \/ v.rc = 0 /\ v \notin {Version(1, 0), Version(3, 0)}
                      \/ v = Version(1, 0) /\ Fault("pbsd_init")
                   /\ Return(-1)
                   /\ UNCHANGED <<nodes, nodesDirty>>
                \/ /\ v = Version(3, 0)
                   /\ Return(0)
                   /\ UNCHANGED <<nodes, nodesDirty>>
                \/ /\ v = Version(1, 0)
                   /\ nodes' \in {{}, DbNodes}
                   /\ nodesDirty' = TRUE
                   /\ pc' = "upgrade_nodes"
                   /\ UNCHANGED rc
    /\ UNCHANGED <<db, dbver, nodesFile, todo, fsVars>>

UpgradeNodes == pc = "upgrade_nodes" /\ SaveNodesDb("done", 0)

\* setup_resc, then the transaction for the whole recovery.  The rollback
\* on a setup_resc failure comes before any begin.
BeginRecovery ==
    /\ pc = "resc"
    /\ \/ Fault("setup_resc") /\ Abort
       \/ /\ Fault("begin") /\ BeginTrxMayFail(db)
          /\ Return(-1)
          /\ UNCHANGED <<db, dbver, nodes, nodesDirty, nodesFile, todo, fsVars>>
       \/ /\ db' = BeginTrx(db)
          /\ pc' = "nodes_pre"
          /\ UNCHANGED <<rc, dbver, nodes, nodesDirty, nodesFile, todo, fsVars>>

\* setup_nodes_fs(1): turn the old-style properties into resources.
NodesPreprocess ==
    /\ pc = "nodes_pre"
    /\ \/ SetupNodesFs(nodesFile, TRUE).rc = -1 /\ Abort
       \/ /\ SetupNodesFs(nodesFile, TRUE).rc = 0
          /\ pc' = "svr"
          /\ UNCHANGED <<db, rc, dbver, nodes, nodesDirty, nodesFile, todo, fsVars>>

SaveServer == pc = "svr" /\ Call("svr", {SvrRow}, "sched")

SaveSched == pc = "sched" /\ Call("sched", {SchedRow}, "queues_dir")

\* getcwd, chdir(path_queues) and opendir; each failure rolls back.
OpenQueues ==
    /\ pc = "queues_dir"
    /\ \/ (Fault("chdir") \/ Fault("opendir")) /\ Abort
       \/ /\ todo' = queFiles
          /\ pc' = "queues"
          /\ UNCHANGED <<db, rc, dbver, nodes, nodesDirty, nodesFile, fsVars>>

\* One entry of the queues directory: que_recov_fs returning NULL skips it.
QueueEntry ==
    /\ pc = "queues"
    /\ \E q \in todo :
          \/ (Fault("save") \/ ~Inserts({QueRow(q)})) /\ Abort
          \/ /\ \/ Fault("recov") /\ UNCHANGED db
                \/ Inserts({QueRow(q)}) /\ db' = WriteRows(db, {QueRow(q)})
             /\ todo' = todo \ {q}
             /\ UNCHANGED <<pc, rc, dbver, nodes, nodesDirty, nodesFile, fsVars>>

\* readdir returning NULL: an error (at any point of the loop) rolls back.
QueuesEnd ==
    /\ pc = "queues"
    /\ \/ Fault("readdir") /\ Abort
       \/ /\ todo = {}
          /\ pc' = "nodes"
          /\ UNCHANGED <<db, rc, dbver, nodes, nodesDirty, nodesFile, todo, fsVars>>

\* Mutant of ReadNodes: the vnodes created are not marked for saving.
ReadNodesClean ==
    /\ pc = "nodes"
    /\ \/ SetupNodesFs(nodesFile, FALSE).rc = -1 /\ Abort
       \/ Fault("setup_nodes_fs") /\ Abort
       \/ /\ SetupNodesFs(nodesFile, FALSE).rc = 0
          /\ nodes' = SetupNodesFs(nodesFile, FALSE).created
          /\ pc' = "resvs_dir"
          /\ UNCHANGED <<db, rc, dbver, nodesDirty, nodesFile, todo, fsVars>>

\* setup_nodes_fs(0) creates the vnodes of the nodes file, which
\* create_pbs_node2 marks for saving; a create_pbs_node2 failure other than
\* a duplicate name is the fault "setup_nodes_fs".
ReadNodes ==
    /\ pc = "nodes"
    /\ \/ SetupNodesFs(nodesFile, FALSE).rc = -1 /\ Abort
       \/ Fault("setup_nodes_fs") /\ Abort
       \/ /\ SetupNodesFs(nodesFile, FALSE).rc = 0
          /\ nodes' = SetupNodesFs(nodesFile, FALSE).created
          /\ nodesDirty' = TRUE
          /\ pc' = "resvs_dir"
          /\ UNCHANGED <<db, rc, dbver, nodesFile, todo, fsVars>>

OpenResvs ==
    /\ pc = "resvs_dir"
    /\ \/ (Fault("chdir") \/ Fault("opendir")) /\ Abort
       \/ /\ todo' = resvFiles
          /\ pc' = "resvs"
          /\ UNCHANGED <<db, rc, dbver, nodes, nodesDirty, nodesFile, fsVars>>

ResvEntry ==
    /\ pc = "resvs"
    /\ \E r \in todo :
          \/ (Fault("save") \/ ~Inserts({ResvRow(r)})) /\ Abort
          \/ /\ \/ Fault("recov") /\ UNCHANGED db
                \/ Inserts({ResvRow(r)}) /\ db' = WriteRows(db, {ResvRow(r)})
             /\ todo' = todo \ {r}
             /\ UNCHANGED <<pc, rc, dbver, nodes, nodesDirty, nodesFile, fsVars>>

ResvsEnd ==
    /\ pc = "resvs"
    /\ \/ Fault("readdir") /\ Abort
       \/ /\ todo = {}
          /\ pc' = "jobs_dir"
          /\ UNCHANGED <<db, rc, dbver, nodes, nodesDirty, nodesFile, todo, fsVars>>

\* chdir(path_jobs) failing returns -1 without ending the transaction;
\* opendir failing skips the jobs; the loop sees the .JB files.
OpenJobs ==
    /\ pc = "jobs_dir"
    /\ \/ /\ Fault("chdir")
          /\ Return(-1)
          /\ UNCHANGED <<db, dbver, nodes, nodesDirty, nodesFile, todo, fsVars>>
       \/ /\ Fault("opendir")
          /\ pc' = "save_nodes"
          /\ UNCHANGED <<db, rc, dbver, nodes, nodesDirty, nodesFile, todo, fsVars>>
       \/ /\ todo' = {j \in Jobs : jobFile[j] = "JB"}
          /\ pc' = "jobs"
          /\ UNCHANGED <<db, rc, dbver, nodes, nodesDirty, nodesFile, fsVars>>

(***************************************************************************)
(* One job file.  job_recov_fs returning NULL skips the file and only logs *)
(* "moved bad file".  A script that cannot be loaded renames the .JB file  *)
(* to .BD (a failed rename is only logged).  Otherwise the job and its     *)
(* script are saved, and a failure of either rolls back.                   *)
(***************************************************************************)
JobEntry ==
    /\ pc = "jobs"
    /\ \E j \in todo :
          \/ (Fault("save") \/ ~Inserts({JobRow(j)})) /\ Abort
          \/ /\ \/ /\ Fault("recov")
                   /\ UNCHANGED <<db, jobFile>>
                \/ /\ j \in ScriptJobs /\ Fault("script")
                   /\ \E f \in {"BD"} \cup (IF Fault("rename") THEN {"JB"} ELSE {}) :
                         jobFile' = [jobFile EXCEPT ![j] = f]
                   /\ UNCHANGED db
                \/ /\ Inserts({JobRow(j)})
                   /\ db' = WriteRows(db, {JobRow(j)} \cup
                                          (IF j \in ScriptJobs THEN {ScrRow(j)} ELSE {}))
                   /\ UNCHANGED jobFile
             /\ todo' = todo \ {j}
             /\ UNCHANGED <<pc, rc, dbver, nodes, nodesDirty, nodesFile, privFiles, queFiles, resvFiles, scrFile>>

JobsEnd ==
    /\ pc = "jobs"
    /\ \/ Fault("readdir") /\ Abort
       \/ /\ todo = {}
          /\ pc' = "save_nodes"
          /\ UNCHANGED <<db, rc, dbver, nodes, nodesDirty, nodesFile, todo, fsVars>>

SaveNodes == pc = "save_nodes" /\ SaveNodesDb("commit", rc)

(***************************************************************************)
(* rm_migrated_files(path_priv): every plain file of server_priv and the   *)
(* files of svrdb, scheddb, queues and resvs go, the files of jobs go      *)
(* except .BD files and the .SC files that have a .BD beside them.  When   *)
(* opendir fails nothing is removed.                                       *)
(***************************************************************************)
RmMigratedFiles ==
    \/ Fault("rm") /\ UNCHANGED fsVars
    \/ /\ privFiles' = {}
       /\ queFiles' = {}
       /\ resvFiles' = {}
       /\ jobFile' = [j \in Jobs |-> IF jobFile[j] = "BD" THEN "BD" ELSE "none"]
       /\ scrFile' = [j \in Jobs |-> scrFile[j] /\ jobFile[j] = "BD"]

\* Mutant of Commit: the files are removed whatever the commit returned.
CommitRmAlways ==
    /\ pc = "commit"
    /\ \E dbOk \in DbAnswers("commit") :
          /\ db' = EndTrx(db, TRUE, dbOk)
          /\ RmMigratedFiles
          /\ Return(IF EndTrxOk(db, TRUE, dbOk) THEN 0 ELSE -1)
    /\ UNCHANGED <<dbver, nodes, nodesDirty, nodesFile, todo>>

\* The final commit; the files go only when it returned 0.
Commit ==
    /\ pc = "commit"
    /\ \E dbOk \in DbAnswers("commit") :
          /\ db' = EndTrx(db, TRUE, dbOk)
          /\ IF EndTrxOk(db, TRUE, dbOk)
             THEN RmMigratedFiles /\ Return(0)
             ELSE UNCHANGED fsVars /\ Return(-1)
    /\ UNCHANGED <<dbver, nodes, nodesDirty, nodesFile, todo>>

\* The steps of one run of svr_migrate_data.
Step ==
    \/ Start
    \/ UpgradeNodes
    \/ BeginRecovery
    \/ NodesPreprocess
    \/ SaveServer
    \/ SaveSched
    \/ OpenQueues
    \/ QueueEntry
    \/ QueuesEnd
    \/ ReadNodes
    \/ OpenResvs
    \/ ResvEntry
    \/ ResvsEnd
    \/ OpenJobs
    \/ JobEntry
    \/ JobsEnd
    \/ SaveNodes
    \/ Commit

\* The server stops at any point after svr_migrate_data was entered and
\* is started again.  PostgreSQL aborts the transaction of the lost
\* connection; the files and the committed rows stay.
Restart ==
    /\ restarts < MaxRestarts
    /\ pc # "start"
    /\ restarts' = restarts + 1
    /\ db' = [db EXCEPT !.nest = 0, !.rollback = FALSE, !.pending = {}]
    /\ base' = db.committed
    /\ pc' = "start"
    /\ rc' = 0
    /\ nodes' = {}
    /\ nodesDirty' = FALSE
    /\ todo' = {}
    /\ UNCHANGED <<origin, dbver, nodesFile, fsVars>>

Next ==
    \/ Step /\ UNCHANGED <<origin, restarts, base>>
    \/ Restart

Spec == Init /\ [][Next]_vars

(***************************************************************************)
(* Every step of svr_migrate_data, nested saves included, is a step of a   *)
(* flat transaction: pbs_db_begin_trx and pbs_db_end_trx keep their        *)
(* promise to the migration.                                               *)
(***************************************************************************)
ImplementsFlatTrx == Abs!Spec

\* A run of svr_migrate_data that returns -1 has committed nothing: every
\* error return of svr_migrate_data_from_fs undoes the saves made before
\* it, those of the nested save_nodes_db included, also in a run after a
\* restart that finds the rows of an earlier run committed.
FailedMigrationCommitsNothing ==
    (pc = "done" /\ rc = -1) => db.committed = base

\* rm_migrated_files runs only after the commit returned 0: once serverdb
\* is gone, the server, the scheduler and mominfo_time are in the database.
FilesRemovedOnlyAfterCommit ==
    (FromFs /\ "serverdb" \notin privFiles) =>
        {SvrRow, SchedRow, MomTimeRow} \subseteq db.committed

\* Once the migrated files are gone, the database holds one vnode for
\* each node line of the nodes file and no other: setup_nodes_fs(0) read
\* every line, and the save_nodes_db at the end of the migration wrote
\* every vnode it created inside the committed transaction.
NodesFileMigrated ==
    (FromFs /\ "serverdb" \notin privFiles) =>
        {r \in db.committed : r.kind = "node"} = {NodeRow(n) : n \in FileNodeNames(nodesFile)}

\* The function's promise: an object file is deleted only when its object
\* was saved to the database under the committed transaction; a job file
\* that cannot be migrated is kept (as .BD).
MigratedFilesHaveRows ==
    FromFs =>
        /\ \A q \in Queues \ queFiles : QueRow(q) \in db.committed
        /\ \A r \in Resvs \ resvFiles : ResvRow(r) \in db.committed
        /\ \A j \in Jobs : jobFile[j] = "none" => JobRow(j) \in db.committed
        /\ \A j \in ScriptJobs : ~scrFile[j] => ScrRow(j) \in db.committed

====
