------------------------------- MODULE RunExecutor -------------------------------
(****************************************************************************)
(* The executor process of one step (internal/executor, internal/status):   *)
(* ProcessJob reports through PATCH requests to the API, the step first and *)
(* the job second, runs Terraform or a script in between, and polls the     *)
(* job's status to notice a cancel.                                         *)
(****************************************************************************)
EXTENDS RunApi

(* The PATCH of a step has no hook.                                         *)
PatchStep(j, n, status) == SetStep(j, n, status)

MovePod(j, n, pc, verdict) ==
    /\ pod' = [pod EXCEPT ![j][n] = [@ EXCEPT !.pc = pc, !.verdict = verdict]]
    /\ UNCHANGED launches

PodAt(j, n, pc) == pod[j][n].pc = pc

(* SetRunning: the step.  A failed PATCH is logged and ignored.             *)
BeginStep(j, n) ==
    /\ PodAt(j, n, "created")
    /\ \/ PatchStep(j, n, "running")
       \/ "patchLost" \in Events /\ UNCHANGED step
    /\ MovePod(j, n, "begun", "none")
    /\ UNCHANGED <<job, tcl, recent, locked, apiVars>>

(* SetRunning: the job.                                                     *)
BeginJob(j, n) ==
    /\ PodAt(j, n, "begun")
    /\ \/ PatchJob(j, "running")
       \/ "patchLost" \in Events /\ UNCHANGED <<job, recent, requests>>
    /\ MovePod(j, n, "active", "none")
    /\ UNCHANGED <<tcl, step, locked, cli, approvals>>

(* Bug to catch: a plan reports its job as completed.                       *)
PlanCompletesJob(type) == {"completed", "failed"}

(* What ProcessJob may decide to report for a step of this type: a plan     *)
(* with changes puts the job back to pending, one without ends it.  (The    *)
(* scheduler dispatches no step of type approval.)                          *)
VerdictsOf(type) ==
    IF type \in PlanTypes THEN {"pending", "noChanges", "failed"}
                          ELSE {"completed", "failed"}

(* Terraform or the script ends, or the set-up of the workspace fails.      *)
EndWork(j, n) ==
    /\ PodAt(j, n, "active")
    /\ \E v \in VerdictsOf(pod[j][n].type) : MovePod(j, n, "reportStep", v)
    /\ UNCHANGED <<tables, apiVars>>

(* The 10 s poll sees the job cancelled: Terraform is killed and the step   *)
(* is reported as failed.  Scripts do not watch the context.                *)
NoticeCancel(j, n) ==
    /\ PodAt(j, n, "active")
    /\ job[j] = "cancelled"
    /\ pod[j][n].type \in PlanTypes \cup ApplyTypes
    /\ MovePod(j, n, "reportStep", "failed")
    /\ UNCHANGED <<tables, apiVars>>

(* Terraform cannot be installed, or a beforeInit script fails: ProcessJob  *)
(* returns and reports nothing.                                             *)
ExitSilently(j, n) ==
    /\ "silentExit" \in Events
    /\ PodAt(j, n, "active")
    /\ pod[j][n].type \in PlanTypes \cup ApplyTypes
    /\ MovePod(j, n, "done", "none")
    /\ UNCHANGED <<tables, apiVars>>

(* Bug to catch: the job's verdict is sent as the step's status.            *)
SameVerdict(v) == v

StepVerdict(v) == IF v = "failed" THEN "failed" ELSE "completed"

(* SetCompleted, SetPending, SetNoChanges, SetApprovalCompleted: the step;  *)
(* if its PATCH fails, on the way out or on the way back, the job's is not  *)
(* sent.                                                                    *)
ReportStep(j, n) ==
    /\ PodAt(j, n, "reportStep")
    /\ LET result == StepVerdict(pod[j][n].verdict)
       IN  \/ PatchStep(j, n, result) /\ MovePod(j, n, "reportJob", pod[j][n].verdict)
           \/ /\ "patchLost" \in Events
              /\ MovePod(j, n, "done", "none")
              /\ UNCHANGED step \/ PatchStep(j, n, result)
    /\ UNCHANGED <<job, tcl, recent, locked, apiVars>>

(* ... and the job, after which the process ends.                           *)
ReportJob(j, n) ==
    /\ PodAt(j, n, "reportJob")
    /\ \/ PatchJob(j, pod[j][n].verdict)
       \/ "patchLost" \in Events /\ UNCHANGED <<job, recent, requests>>
    /\ MovePod(j, n, "done", "none")
    /\ UNCHANGED <<tcl, step, locked, cli, approvals>>

(* The node or the container is lost; the Job has backoffLimit 0.           *)
LosePod(j, n) ==
    /\ "podLost" \in Events
    /\ ~ PodAt(j, n, "none") /\ ~ PodAt(j, n, "done")
    /\ MovePod(j, n, "done", "none")
    /\ UNCHANGED <<tables, apiVars>>

(* What a healthy executor does.                                            *)
PodStep(j, n) ==
    \/ BeginStep(j, n) \/ BeginJob(j, n) \/ EndWork(j, n) \/ NoticeCancel(j, n)
    \/ ReportStep(j, n) \/ ReportJob(j, n)

ExecutorStep(j, n) == PodStep(j, n) \/ ExitSilently(j, n) \/ LosePod(j, n)
================================================================================
