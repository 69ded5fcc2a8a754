------------------------------ MODULE TerrakubeRuns ------------------------------
(****************************************************************************)
(* The run subsystem as a whole: the scheduler loops of all replicas, the   *)
(* HTTP handlers, and the executor processes, over the shared tables.       *)
(****************************************************************************)
EXTENDS JobScheduler, RunExecutor

vars == <<tables, cluster, schedVars, apiVars>>

Init == TablesInit /\ SchedInit /\ ApiInit

TypeOK == TablesTypeOK /\ SchedTypeOK /\ ApiTypeOK
--------------------------------------------------------------------------------
(* The ticker fires every 5 s; the statements of a handler, or of a failed  *)
(* dispatch, are milliseconds apart.  Unless slowHandlers is allowed, a     *)
(* tick finds none of them half done.                                       *)
Tick(r) ==
    /\ \/ "slowHandlers" \in Events
       \/ requests = {} /\ \A c \in calls : c.pc = "execute"
    /\ PollJobs(r)
    /\ UNCHANGED apiVars

Loops(r) == LoopStep(r) /\ UNCHANGED apiVars

Calls == \E c \in calls : CallStep(c) /\ UNCHANGED apiVars

Creates == Create /\ UNCHANGED schedVars

Users == UserStep /\ UNCHANGED schedVars

Unlocks == (\E w \in Workspaces : CliUnlock(w)) /\ UNCHANGED schedVars

Requests == \E q \in requests : RequestStep(q) /\ UNCHANGED schedVars

Pods(j, n) == PodStep(j, n) /\ UNCHANGED schedVars

PodFaults(j, n) == (ExitSilently(j, n) \/ LosePod(j, n)) /\ UNCHANGED schedVars

(* An API process restarts: its loop, its goroutines and its handlers are   *)
(* gone, at whatever statement they were.                                   *)
ApiCrash(r) ==
    /\ "apiCrash" \in Events
    /\ sched' = [sched EXCEPT ![r] = IdleLoop]
    /\ calls' = {c \in calls : c.by # r}
    /\ requests' = {q \in requests : q.by # r}
    /\ UNCHANGED <<tables, cluster, cli, approvals>>

Next ==
    \/ \E r \in Replicas : Tick(r) \/ Loops(r) \/ ApiCrash(r)
    \/ Calls \/ Creates \/ Users \/ Unlocks \/ Requests
    \/ \E j \in Jobs, n \in StepNumbers : Pods(j, n) \/ PodFaults(j, n)

Spec == Init /\ [][Next]_vars

(* Loops, goroutines, handlers and executors that are able to take a step   *)
(* eventually take it: the ticker and the Go scheduler see to that.  A CLI  *)
(* user gives the lock back.  Nobody has to create, approve or cancel.      *)
Fairness ==
    /\ \A r \in Replicas : WF_vars(Tick(r)) /\ WF_vars(Loops(r))
    /\ WF_vars(Calls) /\ WF_vars(Requests) /\ WF_vars(Unlocks)
    /\ \A j \in Jobs, n \in StepNumbers : WF_vars(Pods(j, n))

FairSpec == Spec /\ Fairness
--------------------------------------------------------------------------------
(* Whatever replicas poll at the same time, whatever users cancel, and      *)
(* wherever a process dies: no step of a run is handed to an executor       *)
(* twice.  A second apply of the same step would run Terraform twice.       *)
LaunchedAtMostOnce == \A j \in Jobs, n \in StepNumbers : launches[j][n] <= 1

(* Two replicas never both stand between the claim of a step and its        *)
(* hand-over; a claimed step is never found pending.                        *)
SoleHolder ==
    \A r \in Replicas : sched[r].pc \in HoldingPc =>
        /\ launches[CurrentJob(r)][sched[r].num] = 0
        /\ step[CurrentJob(r)][sched[r].num] # "pending"
        /\ \A q \in Replicas \ {r} :
             sched[q].pc \in HoldingPc =>
                <<CurrentJob(q), sched[q].num>> # <<CurrentJob(r), sched[r].num>>

Claimed(j, n) == step[j][n] \notin {"none", "pending"}

Holds(r, j, n) ==
    sched[r].pc \in HoldingPc /\ CurrentJob(r) = j /\ sched[r].num = n

Dispatches(c, j, n) == c.pc = "execute" /\ c.id = j /\ c.num = n

(* Why a step is launched at most once: whoever is about to launch it, a    *)
(* loop that claimed it or a goroutine that dispatches it, is alone, found  *)
(* it not launched, and has left it claimed; and whatever users and crashes *)
(* do, a step that was launched is never pending again.                     *)
ClaimInv ==
    \A j \in Jobs, n \in StepNumbers :
        /\ \A r \in Replicas : Holds(r, j, n) =>
              /\ Claimed(j, n) /\ launches[j][n] = 0
              /\ \A q \in Replicas : Holds(q, j, n) => q = r
              /\ \A c \in calls : ~ Dispatches(c, j, n)
        /\ \A c \in calls : Dispatches(c, j, n) =>
              /\ Claimed(j, n) /\ launches[j][n] = 0
              /\ \A d \in calls : Dispatches(d, j, n) => d = c
        /\ launches[j][n] # 0 => Claimed(j, n) /\ launches[j][n] = 1

Running(j, n) == pod[j][n].pc = "active"

(* Per-workspace FIFO: two executors never work on one workspace at a time. *)
OneRunPerWorkspace ==
    \A j, k \in Jobs : WorkspaceOf[j] = WorkspaceOf[k] =>
        \A m, n \in StepNumbers :
            Running(j, m) /\ Running(k, n) => <<j, m>> = <<k, n>>

(* A step is at work only after every lower step has been settled.          *)
StepsInOrder ==
    \A j \in Jobs, n \in StepNumbers : Running(j, n) =>
        \A m \in Entries(j) : m < n => step[j][m] \in {"completed", "notExecuted"}

(* A step behind an approval gate is at work only once somebody approved    *)
(* the job, or the job has auto-apply.                                      *)
GateRespected ==
    \A j \in Jobs, n, g \in StepNumbers :
        /\ Flow[j][g] = "approval" /\ g < n
        /\ Running(j, n)
        => j \in approvals \cup AutoApply

(* While an executor is at work, its workspace is locked.                   *)
RunHoldsLock ==
    \A j \in Jobs, n \in StepNumbers : Running(j, n) => locked[WorkspaceOf[j]]

(* A run never starts on a workspace that a CLI user has locked.            *)
CliLockExcludesRuns ==
    \A j \in Jobs, n \in StepNumbers : Running(j, n) => ~ cli[WorkspaceOf[j]]

(* A job that ended stays as it ended.                                      *)
TerminalIsFinal ==
    [][\A j \in Jobs : job[j] \in Terminal => job'[j] = job[j]]_vars

(* A completed job has no step that failed or was left behind.              *)
CompletedIsComplete ==
    \A j \in Jobs : job[j] = "completed" =>
        \A n \in Entries(j) : step[j][n] \in {"completed", "notExecuted"}

(* The run queue that the tables, loops and processes implement.            *)
RQ == INSTANCE RunQueue WITH
        Runs <- Jobs, Steps <- StepNumbers, Place <- WorkspaceOf,
        Gates <- [j \in Jobs |-> {g \in StepNumbers : Flow[j][g] = "approval"}],
        Unattended <- AutoApply,
        phase <- [j \in Jobs |->
                    CASE job[j] = "none" -> "absent"
                      [] job[j] = "waitingApproval" -> "deciding"
                      [] job[j] \in Terminal -> "over"
                      [] OTHER -> "open"],
        started <- [j \in Jobs |-> {n \in StepNumbers : launches[j][n] > 0}],
        busy <- [j \in Jobs |-> {n \in StepNumbers : pod[j][n].pc \notin {"none", "done"}}],
        approved <- approvals

(* One polling replica implements the run queue: order of creation, one run *)
(* per workspace, steps in order and at most once, gates, final verdicts.   *)
ImplementsRunQueue == RQ!Spec

(* A job comes to its end, unless it, or an older job of its workspace,     *)
(* waits for a human decision.                                              *)
JobsSettle ==
    \A j \in Jobs :
        job[j] = "pending" ~>
            \/ job[j] \in Terminal
            \/ \E k \in Jobs : /\ k <= j /\ WorkspaceOf[k] = WorkspaceOf[j]
                               /\ job[k] = "waitingApproval"
================================================================================
