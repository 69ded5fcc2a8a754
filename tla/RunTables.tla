------------------------------- MODULE RunTables -------------------------------
(****************************************************************************)
(* The PostgreSQL rows and the cluster objects that the run subsystem of    *)
(* terrakubed shares: the tables job, step and workspace, and the executor  *)
(* pods.  Every module of the run subsystem extends this one; an operator   *)
(* below is one SQL predicate or one single-table UPDATE.  The server runs  *)
(* no multi-statement transaction on these tables, so one statement is one  *)
(* atomic step of the modules that use them.                                *)
(****************************************************************************)
EXTENDS Naturals, FiniteSets

CONSTANTS
    Replicas,         \* API processes; each polls the tables on its own
    Workspaces,
    NumJobs,          \* job ids are 1 .. NumJobs, handed out in that order
    StepNumbers,      \* the step numbers templates use: 100, 150, 200
    WorkspaceOf,      \* the workspace a job belongs to
    Flow,             \* Flow[j][n]: the type of entry n of the job's TCL
    InlineTcl,        \* jobs inserted with their tcl column filled
    TemplateTcl,      \* jobs whose tcl column is filled from a template
    AutoApply,        \* jobs with auto_apply
    AgentWorkspaces,  \* workspaces whose runs go to a remote agent
    HasKubernetes,    \* whether an ephemeral executor is configured
    PollLimit,        \* LIMIT of the scheduler's poll query (10 in the code)
    Events            \* what users, network and processes may do in a run

Jobs == 1 .. NumJobs

PlanTypes  == {"terraformPlan", "terraformPlanDestroy"}
ApplyTypes == {"terraformApply", "terraformDestroy"}
StepTypes  == PlanTypes \cup ApplyTypes
                \cup {"customScripts", "approval", "notExecuted"}

(* The optional behaviour of the environment that a configuration may allow.*)
AllEvents ==
    {"uiApprove", "uiReject", "uiCancel", "restApprove", "restReject",
     "cliCancel", "cliDiscard", "cliLock", "stalePage", "slowHandlers",
     "executeFails", "answerLost", "patchLost", "silentExit", "podLost",
     "apiCrash"}

ASSUME NumJobsAssumption == NumJobs \in Nat
ASSUME StepNumbersAssumption == StepNumbers \subseteq Nat
ASSUME WorkspaceOfAssumption == WorkspaceOf \in [Jobs -> Workspaces]
ASSUME FlowAssumption == Flow \in [Jobs -> [StepNumbers -> StepTypes \cup {"absent"}]]
ASSUME JobSetsAssumption ==
    /\ InlineTcl \subseteq Jobs
    /\ TemplateTcl \subseteq Jobs \ InlineTcl
    /\ AutoApply \subseteq Jobs
    /\ AgentWorkspaces \subseteq Workspaces
    /\ HasKubernetes \in BOOLEAN
    /\ PollLimit \in Nat
ASSUME EventsAssumption == Events \subseteq AllEvents

VARIABLES
    job,       \* job.status; "none" before the row is inserted
    tcl,       \* whether job.tcl holds the flow
    recent,    \* of a cancelled job: updated_date is less than 5 minutes old
    step,      \* step.status; "none" before the row is inserted
    locked,    \* workspace.locked
    pod,       \* the executor process of a step: its progress and its verdict
    launches   \* history: how often Execute was called for a step

tables == <<job, tcl, recent, step, locked>>
cluster == <<pod, launches>>
--------------------------------------------------------------------------------
Terminal == {"completed", "failed", "cancelled", "rejected", "noChanges", "notExecuted"}
JobStatus == Terminal \cup {"none", "pending", "queue", "approved",
                            "waitingApproval", "running"}
StepStatus == {"none", "pending", "running", "waitingApproval", "completed",
               "failed", "cancelled", "rejected", "notExecuted"}

(* An executor process: not started, created, past the PATCH that marks its *)
(* step running, running Terraform or a script, about to report its step,   *)
(* about to report its job, gone.                                           *)
PodPc == {"none", "created", "begun", "active", "reportStep", "reportJob", "done"}
Verdicts == {"none", "pending", "noChanges", "completed", "failed"}
Pod == [pc : PodPc, verdict : Verdicts, type : StepTypes \cup {"none"}]
NoPod == [pc |-> "none", verdict |-> "none", type |-> "none"]

TablesTypeOK ==
    /\ job \in [Jobs -> JobStatus]
    /\ tcl \in [Jobs -> BOOLEAN]
    /\ recent \in [Jobs -> BOOLEAN]
    /\ step \in [Jobs -> [StepNumbers -> StepStatus]]
    /\ locked \in [Workspaces -> BOOLEAN]
    /\ pod \in [Jobs -> [StepNumbers -> Pod]]
    /\ launches \in [Jobs -> [StepNumbers -> Nat]]

TablesInit ==
    /\ job = [j \in Jobs |-> "none"]
    /\ tcl = [j \in Jobs |-> FALSE]
    /\ recent = [j \in Jobs |-> FALSE]
    /\ step = [j \in Jobs |-> [n \in StepNumbers |-> "none"]]
    /\ locked = [w \in Workspaces |-> FALSE]
    /\ pod = [j \in Jobs |-> [n \in StepNumbers |-> NoPod]]
    /\ launches = [j \in Jobs |-> [n \in StepNumbers |-> 0]]
--------------------------------------------------------------------------------
(* Reads.                                                                   *)

Entries(j) == {n \in StepNumbers : Flow[j][n] # "absent"}

StepsIn(j, statuses) == {n \in StepNumbers : step[j][n] \in statuses}

(* Bug to catch: ORDER BY step_number DESC.                                 *)
Highest(S) == {n \in S : \A m \in S : m <= n}

(* ORDER BY step_number LIMIT 1: no row, or the one with the lowest number. *)
Lowest(S) == {n \in S : \A m \in S : n <= m}

(* Bug to catch: only an older running job blocks a newer one.              *)
OlderRunning(j) ==
    {k \in Jobs : k < j /\ WorkspaceOf[k] = WorkspaceOf[j] /\ job[k] = "running"}

(* Jobs of the same workspace with a smaller id that have not finished.     *)
OlderActive(j) ==
    {k \in Jobs : /\ k < j
                  /\ WorkspaceOf[k] = WorkspaceOf[j]
                  /\ job[k] \notin Terminal \cup {"none"}}

(* The flow type of a step, from the tcl column a reader has in hand.       *)
ResolveType(j, n, hasTcl) ==
    IF hasTcl /\ n \in Entries(j) THEN Flow[j][n] ELSE "terraformPlan"

ExecutorOf(w) ==
    IF w \in AgentWorkspaces THEN "agent"
    ELSE IF HasKubernetes THEN "kubernetes" ELSE "none"
--------------------------------------------------------------------------------
(* Single-statement writes.                                                 *)

SetJob(j, status) == job' = [job EXCEPT ![j] = status]

SetStep(j, n, status) == step' = [step EXCEPT ![j][n] = status]

MoveSteps(j, from, to) ==
    step' = [step EXCEPT ![j] =
               [n \in StepNumbers |-> IF @[n] \in from THEN to ELSE @[n]]]

SetLock(w, held) == locked' = [locked EXCEPT ![w] = held]

(* A pod runs the step as the type it was dispatched with.                  *)
StartPod(j, n, type) ==
    pod' = [pod EXCEPT ![j][n] = [pc |-> "created", verdict |-> "none", type |-> type]]
================================================================================
