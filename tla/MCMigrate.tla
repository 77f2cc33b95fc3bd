----------------------------- MODULE MCMigrate -----------------------------
EXTENDS Migrate

MCNodeNames == {"n1", "n2", "node_file_ver"}

MCDbNodes == {"n1"}

\* Every row the migration can write.
MCRows ==
    {SvrRow, SchedRow, MomTimeRow}
    \cup {NodeRow(n) : n \in MCNodeNames \cup MCDbNodes}
    \cup {QueRow(q) : q \in Queues} \cup {ResvRow(r) : r \in Resvs}
    \cup {JobRow(j) : j \in Jobs} \cup {ScrRow(j) : j \in ScriptJobs}

\* mem is defined as a non-boolean resource.
MCNonBoolResc == {"mem"}

\* A good file; one with the version header; a duplicate vnode; a property
\* that is not a boolean resource; a wrong version; two headers; a bad
\* token; no file.
MCNodeFiles ==
    { << SkipLine,
         NodeLine("n1", TRUE, <<Tok("attr", TRUE, "ncpus"), Tok("prop", TRUE, "big")>>),
         NodeLine("n2", TRUE, <<Tok("ts", TRUE, ""), Tok("sharing", TRUE, "")>>) >>,
      << VersionLine(2), NodeLine("n1", TRUE, <<>>) >>,
      << NodeLine("n1", TRUE, <<>>), NodeLine("n1", TRUE, <<>>) >>,
      << NodeLine("n1", TRUE, <<Tok("prop", TRUE, "mem")>>) >>,
      << VersionLine(3), NodeLine("n1", TRUE, <<>>) >>,
      << VersionLine(2), VersionLine(2) >>,
      << NodeLine("n1", TRUE, <<Tok("sharing", FALSE, "")>>), NodeLine("n2", FALSE, <<>>) >>,
      <<>> }

\* A good file and no file.
MCFewNodeFiles ==
    { << SkipLine, NodeLine("n1", TRUE, <<Tok("prop", TRUE, "big")>>) >>, <<>> }

\* The query fails; 1.0; 3.0; ".1..0", read as 1.0; "3.0.1", read as 3.0;
\* "3", with no minor version; 2.0; a text too long for ver_str.
MCDbVersions ==
    { Answer(TRUE, FALSE, <<>>),
      Answer(FALSE, FALSE, <<Seg(1), Seg(0)>>),
      Answer(FALSE, FALSE, <<Seg(3), Seg(0)>>),
      Answer(FALSE, FALSE, <<NoSeg, Seg(1), NoSeg, Seg(0)>>),
      Answer(FALSE, FALSE, <<Seg(3), Seg(0), Seg(1)>>),
      Answer(FALSE, FALSE, <<Seg(3)>>),
      Answer(FALSE, FALSE, <<Seg(2), Seg(0)>>),
      Answer(FALSE, TRUE, <<Seg(3), Seg(0)>>) }

MCCurrentSchema == Answer(FALSE, FALSE, <<Seg(3), Seg(0)>>)

MCAllFaults ==
    {"pbsd_init", "setup_resc", "begin", "setup_nodes_fs", "svr", "sched",
     "chdir", "opendir", "recov", "save", "readdir", "script", "rename",
     "save_nodes", "commit", "rm"}

\* Only the file-system readers of the objects fail.
MCRecovFaults == {"recov"}
====
