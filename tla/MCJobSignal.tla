---------------------------- MODULE MCJobSignal -----------------------------
(* Two jobs sharing vnode v1; j2 also runs on v2.  j1's one chunk holds    *)
(* ncpus and mem; j2's first chunk holds mem and ncpus, its second only    *)
(* ncpus.  RestrictRes names mem twice, so j2's second chunk gets the     *)
(* dummy ncpus=0.                                                          *)
EXTENDS JobSignal

Chunk(n, kvps) == [node |-> n, ok |-> TRUE, kvps |-> kvps]

MCExecChunks ==
    [j \in Jobs |->
        IF j = "j1" THEN << Chunk("v1", <<<<"ncpus", "1">>, <<"mem", "1gb">>>>) >>
        ELSE << Chunk("v1", <<<<"mem", "2gb">>, <<"ncpus", "1">>>>),
                Chunk("v2", <<<<"ncpus", "2">>>>) >>]
MCExecVnodes == [j \in Jobs |-> {MCExecChunks[j][i].node : i \in DOMAIN MCExecChunks[j]}]
MCSigNames == {SigSuspend, SigAdminSuspend, SigResume, SigAdminResume}
MCRestrictRes == <<"mem", "mem">>
====
