------------------------------ MODULE JobSignal ------------------------------
(***************************************************************************)
(* Suspend and resume of running jobs (src/src/server/req_signal.c):       *)
(* req_signaljob2 checks the request against the job's flags, reassigns   *)
(* resources for a resume and relays the request to the Mom;               *)
(* post_signal_req applies the Mom's reply when it arrives, possibly after *)
(* other requests for the same job were accepted; set_admin_suspend keeps *)
(* the vnodes' MaintJobs lists and maintenance state.                      *)
(*                                                                         *)
(* Each relayed request is a record in the set reqs.  It is first at the   *)
(* Mom, which acts on it and answers with a success or an error; the       *)
(* server then picks up the answer.  Answers of different requests are     *)
(* picked up in any order: each relay uses its own connection.             *)
(***************************************************************************)
EXTENDS Integers, FiniteSets, Sequences, SequencesExt

CONSTANTS
    Jobs,        \* running (non-array) jobs
    Vnodes,      \* vnodes named in exec_vnode
    ExecVnodes,  \* [Jobs -> SUBSET Vnodes]: the vnodes of each job's exec_vnode
    SigNames,    \* the signal names clients send
    ExecChunks,  \* [Jobs -> Seq(Chunk)]: each job's exec_vnode as parse_plus_spec
                 \* and parse_node_resc split it
    RestrictResSet, \* restrict_res_to_release_on_suspend is set on the server
    RestrictRes,    \* its value: a sequence of resource names
    MaxReqs      \* bound on the signal requests relayed to Moms

SigSuspend == "suspend"
SigAdminSuspend == "admin-suspend"
SigResume == "resume"
SigAdminResume == "admin-resume"

IsSuspend(s) == s \in {SigSuspend, SigAdminSuspend}
IsResume(s) == s \in {SigResume, SigAdminResume}

VARIABLES
    substate,   \* ji_substate of each job (ji_state stays RUNNING)
    svrflags,   \* the JOB_SVFLG_Suspend and JOB_SVFLG_AdmSuspd bits of ji_svrflags
    assigned,   \* the job holds its nodes and resources (assign_hosts / rel_resc)
    maintJobs,  \* ND_ATR_MaintJobs of each vnode
    maint,      \* INUSE_MAINTENANCE in each vnode's state
    schedNew,   \* SCH_SCHEDULE_NEW set for the job's scheduler
    momSusp,    \* the Mom has the job's processes suspended
    reqs,       \* signal requests relayed and not yet completed
    nreq,       \* requests relayed so far
    rescReleased \* JOB_ATR_resc_released of each job, NoList when unset

vars == <<substate, svrflags, assigned, maintJobs, maint, schedNew, momSusp,
          reqs, nreq, rescReleased>>

Substates == {"RUNNING", "SUSPEND", "SCHSUSP"}
JobStateRunning == "R"   \* JOB_STATE_RUNNING, the job state all jobs here are in
Req == [id : 1..MaxReqs, job : Jobs, sig : SigNames, fromsvr : BOOLEAN,
        atMom : BOOLEAN, ok : BOOLEAN]

-----------------------------------------------------------------------------
(* set_admin_suspend(pjob, 1): the AdmSuspd flag is set, the job is added  *)
(* to MaintJobs of each vnode of its exec_vnode, and the vnode goes into   *)
(* maintenance.  set_admin_suspend(pjob, 0): the flag is cleared, the job  *)
(* is removed, and a vnode whose MaintJobs became empty leaves maintenance.*)
(* The save_nodes_db and job_save that follow are not modelled here.       *)
AdminMaintAfter(j, set) ==
    [v \in Vnodes |->
        IF v \notin ExecVnodes[j] THEN maintJobs[v]
        ELSE IF set THEN maintJobs[v] \cup {j} ELSE maintJobs[v] \ {j}]

AdminMaintState(j, set, mj) ==
    [v \in Vnodes |->
        IF v \notin ExecVnodes[j] THEN maint[v]
        ELSE IF set THEN TRUE
        ELSE IF mj[v] = {} THEN FALSE ELSE maint[v]]

SetAdminSuspend(j, set, flags) ==
    LET mj == AdminMaintAfter(j, set)
    IN  /\ svrflags' = [svrflags EXCEPT ![j] = IF set THEN flags \cup {"AdmSuspd"}
                                                ELSE flags \ {"AdmSuspd"}]
        /\ maintJobs' = mj
        /\ maint' = AdminMaintState(j, set, mj)

(* rel_resc releases the job's nodes and resources.  Its body is not in    *)
(* this repository; the comment in post_signal_req (req_signal.c:486-489)  *)
(* says that it pulls the job's vnodes out of maintenance, which is why    *)
(* set_admin_suspend(pjob, 1) is called after it.                          *)
RelRescMaint(j) ==
    [v \in Vnodes |-> IF v \in ExecVnodes[j] THEN FALSE ELSE maint[v]]

RelResc(j) ==
    /\ assigned' = [assigned EXCEPT ![j] = FALSE]
    /\ maint' = RelRescMaint(j)

-----------------------------------------------------------------------------
(* req_signaljob2 rejects, with no change, a request whose resume kind    *)
(* does not match the AdmSuspd flag (PBSE_WRONG_RESUME) and a resume of a  *)
(* job that is not suspended (PBSE_BADSTATE).                              *)
Accepted(j, s) ==
    /\ ~(s = SigAdminResume /\ "AdmSuspd" \notin svrflags[j])
    /\ ~(s = SigResume /\ "AdmSuspd" \in svrflags[j])
    /\ IsResume(s) => "Suspend" \in svrflags[j]

Relay(j, s, fs) ==
    /\ reqs' = reqs \cup {[id |-> nreq + 1, job |-> j, sig |-> s, fromsvr |-> fs,
                            atMom |-> TRUE, ok |-> TRUE]}
    /\ nreq' = nreq + 1

(* A resume that neither comes from the scheduler nor is admin-resume is   *)
(* answered at once: the job goes to substate SCHSUSP and the scheduler is *)
(* told to run a cycle; the scheduler sends the real resume later.         *)
(* svr_setjobstate with its state and substate arguments swapped:          *)
ResumeBySchedSwapped(j, s, fs) ==
    /\ IsResume(s) /\ Accepted(j, s) /\ ~fs /\ s # SigAdminResume
    /\ substate' = [substate EXCEPT ![j] = JobStateRunning]
    /\ schedNew' = TRUE
    /\ UNCHANGED <<svrflags, assigned, maintJobs, maint, momSusp, reqs, nreq, rescReleased>>

ResumeBySched(j, s, fs) ==
    /\ IsResume(s) /\ Accepted(j, s) /\ ~fs /\ s # SigAdminResume
    /\ substate' = [substate EXCEPT ![j] = "SCHSUSP"]
    /\ schedNew' = TRUE
    /\ UNCHANGED <<svrflags, assigned, maintJobs, maint, momSusp, reqs, nreq, rescReleased>>

(* A resume from the scheduler, or admin-resume: assign_hosts and          *)
(* set_resc_assigned give the job its resources back, then the request is  *)
(* relayed; when relay_to_mom fails, rel_resc releases them again.         *)
ResumeRelay(j, s, fs) ==
    /\ IsResume(s) /\ Accepted(j, s) /\ (fs \/ s = SigAdminResume)
    /\ nreq < MaxReqs
    /\ \/ /\ assigned' = [assigned EXCEPT ![j] = TRUE]
          /\ Relay(j, s, fs)
          /\ UNCHANGED maint
       \/ /\ RelResc(j)
          /\ UNCHANGED <<reqs, nreq>>
    /\ UNCHANGED <<substate, svrflags, maintJobs, schedNew, momSusp, rescReleased>>

(* Suspend, admin-suspend or any other signal is relayed as is.            *)
OtherRelay(j, s, fs) ==
    /\ ~IsResume(s) /\ Accepted(j, s) /\ nreq < MaxReqs
    /\ Relay(j, s, fs)
    /\ UNCHANGED <<substate, svrflags, assigned, maintJobs, maint, schedNew, momSusp, rescReleased>>

ReqSignalJob(j, s, fs) ==
    ResumeBySched(j, s, fs) \/ ResumeRelay(j, s, fs) \/ OtherRelay(j, s, fs)

-----------------------------------------------------------------------------
(* create_resreleased: for each chunk of exec_vnode, "(node" followed by   *)
(* ":res=val" for each of its resources named in RestrictRes (the inner    *)
(* loop breaks at the first match, so a name listed twice adds it once),   *)
(* or the dummy ":ncpus=0" when none is, so that the scheduler can still   *)
(* assign the chunk on resume; chunks are joined by "+".  A resource is    *)
(* <<name, value>>; a chunk is [node, ok, kvps], ok being the verdict of   *)
(* parse_node_resc.  A chunk that does not parse, or an unset RestrictRes, *)
(* returns 1 and leaves the attribute alone; so does an empty exec_vnode,  *)
(* with 0.  The calloc failure is not modelled.                            *)
NoList == <<>>
DfltNcpusRel == <<"ncpus", "0">>

\* Mutant: no dummy ncpus=0 for a chunk with no restricted resource.
ChunkReleasedNoDummy(c) ==
    [node |-> c.node, resc |-> SelectSeq(c.kvps, LAMBDA kv : kv[1] \in ToSet(RestrictRes))]

ChunkReleased(c) ==
    LET rel == SelectSeq(c.kvps, LAMBDA kv : kv[1] \in ToSet(RestrictRes))
    IN  [node |-> c.node, resc |-> IF rel = <<>> THEN <<DfltNcpusRel>> ELSE rel]

CreateResreleased(j) ==
    LET chunks == ExecChunks[j]
    IN  IF chunks # <<>> /\ (~RestrictResSet \/ \E i \in DOMAIN chunks : ~chunks[i].ok)
        THEN [rc |-> 1, list |-> NoList]
        ELSE [rc |-> 0, list |-> [i \in DOMAIN chunks |-> ChunkReleased(chunks[i])]]

\* The attribute is set only from a non-empty list; on rc 1 it keeps its value.
ReleasedAttr(j, res) ==
    IF res.rc = 0 /\ res.list # NoList THEN res.list ELSE rescReleased[j]
-----------------------------------------------------------------------------
(* The Mom acts on a request and answers: on success a suspend stops the   *)
(* job's processes and a resume continues them.                            *)
MomReply(r) ==
    /\ r \in reqs /\ r.atMom
    /\ \E ok \in BOOLEAN :
          /\ reqs' = (reqs \ {r}) \cup {[r EXCEPT !.atMom = FALSE, !.ok = ok]}
          /\ momSusp' = [momSusp EXCEPT ![r.job] =
                            IF ~ok THEN @ ELSE IF IsSuspend(r.sig) THEN TRUE
                            ELSE IF IsResume(r.sig) THEN FALSE ELSE @]
    /\ UNCHANGED <<substate, svrflags, assigned, maintJobs, maint, schedNew, nreq, rescReleased>>

(* post_signal_req on an error answer: a failed resume releases (rel_resc) *)
(* the resources req_signaljob2 reassigned.                                *)
PostSignalReqError(r) ==
    /\ r \in reqs /\ ~r.atMom /\ ~r.ok
    /\ reqs' = reqs \ {r}
    /\ IF IsResume(r.sig) THEN RelResc(r.job) ELSE UNCHANGED <<assigned, maint>>
    /\ UNCHANGED <<substate, svrflags, maintJobs, schedNew, momSusp, nreq, rescReleased>>

(* post_signal_req on success of a suspend of a job not yet suspended:     *)
(* when restrict_res_to_release_on_suspend is set, create_resreleased      *)
(* builds the resources-released list (a failure is only logged); the      *)
(* Suspend flag is set, the substate becomes SCHSUSP (from the scheduler)  *)
(* or SUSPEND, rel_resc releases the resources, and then, for              *)
(* admin-suspend, set_admin_suspend(pjob, 1) runs.  A suspend of a job     *)
(* already suspended only gets its acknowledgement.                        *)
PostSuspend(r) ==
    LET j == r.job
        flags == svrflags[j] \cup {"Suspend"}
    IN  /\ r \in reqs /\ ~r.atMom /\ r.ok /\ IsSuspend(r.sig)
        /\ "Suspend" \notin svrflags[j]
        /\ reqs' = reqs \ {r}
        /\ substate' = [substate EXCEPT ![j] = IF r.fromsvr THEN "SCHSUSP" ELSE "SUSPEND"]
        /\ assigned' = [assigned EXCEPT ![j] = FALSE]
        /\ IF r.sig = SigAdminSuspend
           THEN SetAdminSuspend(j, TRUE, flags) \* after rel_resc: maint is set again
           ELSE /\ svrflags' = [svrflags EXCEPT ![j] = flags]
                /\ maint' = RelRescMaint(j)
                /\ UNCHANGED maintJobs
        /\ rescReleased' = [rescReleased EXCEPT ![j] =
                              IF RestrictResSet THEN ReleasedAttr(j, CreateResreleased(j)) ELSE @]
        /\ UNCHANGED <<schedNew, momSusp, nreq>>

(* post_signal_req on success of a resume: the Suspend flag is cleared,    *)
(* for admin-resume set_admin_suspend(pjob, 0) runs, the released-resource *)
(* lists are freed and the substate is RUNNING again.  The resources were  *)
(* reassigned when the request was accepted.                               *)
PostResume(r) ==
    LET j == r.job
        flags == svrflags[j] \ {"Suspend"}
    IN  /\ r \in reqs /\ ~r.atMom /\ r.ok /\ IsResume(r.sig)
        /\ reqs' = reqs \ {r}
        /\ substate' = [substate EXCEPT ![j] = "RUNNING"]
        /\ IF r.sig = SigAdminResume
           THEN SetAdminSuspend(j, FALSE, flags)
           ELSE /\ svrflags' = [svrflags EXCEPT ![j] = flags]
                /\ UNCHANGED <<maintJobs, maint>>
        /\ rescReleased' = [rescReleased EXCEPT ![j] = NoList]
        /\ UNCHANGED <<assigned, schedNew, momSusp, nreq>>

(* post_signal_req on any other success: a suspend of a job already        *)
(* suspended, or a signal that is neither suspend nor resume, is only      *)
(* acknowledged.                                                           *)
PostAck(r) ==
    /\ r \in reqs /\ ~r.atMom /\ r.ok
    /\ ~IsResume(r.sig)
    /\ IsSuspend(r.sig) => "Suspend" \in svrflags[r.job]
    /\ reqs' = reqs \ {r}
    /\ UNCHANGED <<substate, svrflags, assigned, maintJobs, maint, schedNew, momSusp, nreq, rescReleased>>

-----------------------------------------------------------------------------
Init ==
    /\ substate = [j \in Jobs |-> "RUNNING"]
    /\ svrflags = [j \in Jobs |-> {}]
    /\ assigned = [j \in Jobs |-> TRUE]
    /\ maintJobs = [v \in Vnodes |-> {}]
    /\ maint = [v \in Vnodes |-> FALSE]
    /\ schedNew = FALSE
    /\ momSusp = [j \in Jobs |-> FALSE]
    /\ reqs = {}
    /\ nreq = 0
    /\ rescReleased = [j \in Jobs |-> NoList]

Next ==
    \/ \E j \in Jobs, s \in SigNames, fs \in BOOLEAN : ReqSignalJob(j, s, fs)
    \/ \E r \in reqs : MomReply(r) \/ PostSignalReqError(r) \/ PostSuspend(r)
                       \/ PostResume(r) \/ PostAck(r)

Spec == Init /\ [][Next]_vars
-----------------------------------------------------------------------------
TypeOK ==
    /\ substate \in [Jobs -> Substates]
    /\ svrflags \in [Jobs -> SUBSET {"Suspend", "AdmSuspd"}]
    /\ assigned \in [Jobs -> BOOLEAN]
    /\ maintJobs \in [Vnodes -> SUBSET Jobs] /\ maint \in [Vnodes -> BOOLEAN]
    /\ schedNew \in BOOLEAN /\ momSusp \in [Jobs -> BOOLEAN]
    /\ reqs \subseteq Req /\ nreq \in 0..MaxReqs
    /\ \A j \in Jobs : rescReleased[j] = NoList \/ Len(rescReleased[j]) = Len(ExecChunks[j])

AdminSuspendedIsSuspended ==
    \A j \in Jobs : "AdmSuspd" \in svrflags[j] => "Suspend" \in svrflags[j]

(***************************************************************************)
(* A job whose processes the Mom runs holds its nodes and resources: the   *)
(* server releases them (rel_resc) only for a job the Mom has suspended,   *)
(* and reassigns them before it relays a resume (req_signaljob2,           *)
(* post_signal_req).                                                       *)
(***************************************************************************)
ProcessesHoldResources ==
    \A j \in Jobs : ~momSusp[j] => assigned[j]
(***************************************************************************)
(* A job has a resources-released list only while it is suspended, and the *)
(* list names each chunk of its exec_vnode with exactly the resources of   *)
(* that chunk that restrict_res_to_release_on_suspend lists, or ncpus=0    *)
(* for a chunk with none: post_signal_req builds it with create_resreleased *)
(* when a suspend succeeds and frees it when a resume succeeds, whatever   *)
(* the order in which crossing requests' answers are picked up.            *)
(***************************************************************************)
ReleasedListOfSuspended ==
    \A j \in Jobs : rescReleased[j] # NoList =>
        /\ "Suspend" \in svrflags[j]
        /\ \A i \in DOMAIN ExecChunks[j] :
              LET c == ExecChunks[j][i]
                  named == {kv \in ToSet(c.kvps) : kv[1] \in ToSet(RestrictRes)}
              IN  /\ rescReleased[j][i].node = c.node
                  /\ ToSet(rescReleased[j][i].resc) =
                        IF named = {} THEN {DfltNcpusRel} ELSE named
====
