------------------------------ MODULE JobScheduler ------------------------------
(****************************************************************************)
(* The JobScheduler loop of an API process (internal/api/scheduler): every  *)
(* tick it polls the job table (pollJobs), moves pending and approved jobs  *)
(* to queue, dispatches the next pending step of queued jobs, and then      *)
(* deletes the pods of cancelled jobs (pollCancels).  Several replicas run  *)
(* the same loop on the same tables; each SQL statement and each call of an *)
(* executor is a step of its own.                                           *)
(****************************************************************************)
EXTENDS RunTables

VARIABLES
    sched,   \* per replica: where its loop stands
    calls    \* goroutines running Executor.Execute

schedVars == <<sched, calls>>

(* A row of the poll query, as it was when the query ran.                   *)
Row == [id : Jobs, status : JobStatus, tcl : BOOLEAN]
NoRow == [id |-> 0, status |-> "none", tcl |-> FALSE]

(* Between a step's claim and the hand-over to an executor.                 *)
HoldingPc == {"lockWorkspace", "handBack", "runJob", "spawn"}
SchedPc == HoldingPc \cup
    {"idle", "next", "claimJob", "passGate", "unlockWorkspace", "skipStep",
     "advance", "countOpen", "tally", "complete", "fail", "release", "parkStep",
     "parkJob", "claimStep", "failStep", "failJob", "failRelease", "cancels", "kill"}

Loop == [pc : SchedPc, rows : SUBSET Row, row : Row \cup {NoRow},
         num : StepNumbers \cup {0}]
IdleLoop == [pc |-> "idle", rows |-> {}, row |-> NoRow, num |-> 0]

CallPc == {"execute", "failStep", "failJob", "failRelease"}
Call == [by : Replicas, id : Jobs, num : StepNumbers, type : StepTypes, pc : CallPc]

SchedTypeOK ==
    /\ sched \in [Replicas -> Loop]
    /\ calls \subseteq Call

SchedInit ==
    /\ sched = [r \in Replicas |-> IdleLoop]
    /\ calls = {}
--------------------------------------------------------------------------------
First(rows) == {x \in rows : \A y \in rows : x.id <= y.id}

At(r, pc) == sched[r].pc = pc
CurrentJob(r) == sched[r].row.id
CurrentWorkspace(r) == WorkspaceOf[CurrentJob(r)]

Goto(r, pc) == sched' = [sched EXCEPT ![r].pc = pc]

(* The body of the loop over rows ends: continue with the remaining rows.   *)
NextRow(r, rows) ==
    sched' = [sched EXCEPT ![r] =
                [IdleLoop EXCEPT !.pc = IF rows = {} THEN "cancels" ELSE "next",
                                 !.rows = rows]]

EndOfRow(r) == NextRow(r, sched[r].rows)

(* Take a remaining row, to work on step n of it (0: none yet).             *)
TakeRow(r, x, pc, n) ==
    sched' = [sched EXCEPT ![r] =
                [pc |-> pc, rows |-> @.rows \ {x}, row |-> x, num |-> n]]
--------------------------------------------------------------------------------
(* pollJobs: the query, then its rows in id order.                          *)

(* Bug to catch: the query does not select approved jobs.                   *)
PollableUnlessApproved(j) ==
    \/ job[j] = "pending"
    \/ job[j] = "queue" /\ ~ locked[WorkspaceOf[j]]

Pollable(j) ==
    \/ job[j] \in {"pending", "approved"}
    \/ job[j] = "queue" /\ ~ locked[WorkspaceOf[j]]

(* ORDER BY id LIMIT PollLimit.                                             *)
PollResult ==
    LET hits == {j \in Jobs : Pollable(j)}
    IN  {[id |-> j, status |-> job[j], tcl |-> tcl[j]] :
            j \in {i \in hits : Cardinality({k \in hits : k < i}) < PollLimit}}

PollJobs(r) ==
    /\ At(r, "idle")
    /\ NextRow(r, PollResult)
    /\ UNCHANGED <<tables, cluster, calls>>

(* pending or approved row: strict per-workspace FIFO.                      *)
CheckOlder(r) ==
    /\ At(r, "next")
    /\ \E x \in First(sched[r].rows) :
          /\ x.status \in {"pending", "approved"}
          /\ IF OlderActive(x.id) = {}
             THEN TakeRow(r, x, "claimJob", 0)
             ELSE NextRow(r, sched[r].rows \ {x})
    /\ UNCHANGED <<tables, cluster, calls>>

(* UPDATE job SET status = 'queue' WHERE status is still the row's.         *)
ClaimJob(r) ==
    /\ At(r, "claimJob")
    /\ LET x == sched[r].row
       IN  IF job[x.id] = x.status
           THEN /\ SetJob(x.id, "queue")
                /\ Goto(r, IF x.status = "approved" THEN "passGate" ELSE "unlockWorkspace")
           ELSE EndOfRow(r) /\ UNCHANGED job
    /\ UNCHANGED <<tcl, recent, step, locked, cluster, calls>>

PassGate(r) ==
    /\ At(r, "passGate")
    /\ MoveSteps(CurrentJob(r), {"waitingApproval"}, "completed")
    /\ Goto(r, "unlockWorkspace")
    /\ UNCHANGED <<job, tcl, recent, locked, cluster, calls>>

UnlockWorkspace(r) ==
    /\ At(r, "unlockWorkspace")
    /\ SetLock(CurrentWorkspace(r), FALSE)
    /\ EndOfRow(r)
    /\ UNCHANGED <<job, tcl, recent, step, cluster, calls>>
--------------------------------------------------------------------------------
(* queue row: the lowest pending step, by its type.                         *)

(* Bug to catch: approval steps are skipped without a look at auto_apply.   *)
StageWithoutGate(j, type) ==
    IF type \in {"approval", "notExecuted"} THEN "skipStep" ELSE "claimStep"

StageOf(j, type) ==
    CASE type = "approval" /\ j \notin AutoApply -> "parkStep"
      [] type = "approval" /\ j \in AutoApply -> "skipStep"
      [] type = "notExecuted" -> "skipStep"
      [] OTHER -> "claimStep"

LookupStep(r) ==
    /\ At(r, "next")
    /\ \E x \in First(sched[r].rows) :
          LET todo == StepsIn(x.id, {"pending"})
          IN  /\ x.status = "queue"
              /\ \/ todo = {} /\ TakeRow(r, x, "countOpen", 0)
                 \/ \E n \in Lowest(todo) :
                       TakeRow(r, x, StageOf(x.id, ResolveType(x.id, n, x.tcl)), n)
    /\ UNCHANGED <<tables, cluster, calls>>

SkipStep(r) ==
    /\ At(r, "skipStep")
    /\ SetStep(CurrentJob(r), sched[r].num, "notExecuted")
    /\ Goto(r, "advance")
    /\ UNCHANGED <<job, tcl, recent, locked, cluster, calls>>

(* advanceOrComplete.                                                       *)
Advance(r) ==
    /\ At(r, "advance")
    /\ IF StepsIn(CurrentJob(r), {"pending"}) = {} THEN Goto(r, "countOpen") ELSE EndOfRow(r)
    /\ UNCHANGED <<tables, cluster, calls>>

(* maybeCompleteJob: count the open steps, then the failed ones, then write *)
(* the verdict and release the workspace.                                   *)
CountOpen(r) ==
    /\ At(r, "countOpen")
    /\ IF StepsIn(CurrentJob(r), {"pending", "running", "waitingApproval"}) = {}
       THEN Goto(r, "tally") ELSE EndOfRow(r)
    /\ UNCHANGED <<tables, cluster, calls>>

Tally(r) ==
    /\ At(r, "tally")
    /\ Goto(r, IF StepsIn(CurrentJob(r), {"failed"}) = {} THEN "complete" ELSE "fail")
    /\ UNCHANGED <<tables, cluster, calls>>

FinishJob(r) ==
    /\ At(r, "complete") \/ At(r, "fail")
    /\ SetJob(CurrentJob(r), IF At(r, "complete") THEN "completed" ELSE "failed")
    /\ Goto(r, "release")
    /\ UNCHANGED <<tcl, recent, step, locked, cluster, calls>>

ReleaseFinished(r) ==
    /\ At(r, "release")
    /\ SetLock(CurrentWorkspace(r), FALSE)
    /\ EndOfRow(r)
    /\ UNCHANGED <<job, tcl, recent, step, cluster, calls>>

(* Approval gate: the step, then the job, neither of them conditionally.    *)
ParkStep(r) ==
    /\ At(r, "parkStep")
    /\ SetStep(CurrentJob(r), sched[r].num, "waitingApproval")
    /\ Goto(r, "parkJob")
    /\ UNCHANGED <<job, tcl, recent, locked, cluster, calls>>

ParkJob(r) ==
    /\ At(r, "parkJob")
    /\ SetJob(CurrentJob(r), "waitingApproval")
    /\ EndOfRow(r)
    /\ UNCHANGED <<tcl, recent, step, locked, cluster, calls>>
--------------------------------------------------------------------------------
(* Terraform or script step: claim the step, claim the workspace, hand over.*)

(* Bug to catch: the claim does not look at the step's status.              *)
ClaimStepBlindly(r) ==
    /\ At(r, "claimStep")
    /\ SetStep(CurrentJob(r), sched[r].num, "running")
    /\ Goto(r, "lockWorkspace")
    /\ UNCHANGED <<job, tcl, recent, locked, cluster, calls>>

ClaimStep(r) ==
    /\ At(r, "claimStep")
    /\ LET j == CurrentJob(r)
           n == sched[r].num
       IN  IF step[j][n] = "pending"
           THEN SetStep(j, n, "running") /\ Goto(r, "lockWorkspace")
           ELSE EndOfRow(r) /\ UNCHANGED step
    /\ UNCHANGED <<job, tcl, recent, locked, cluster, calls>>

LockWorkspace(r) ==
    /\ At(r, "lockWorkspace")
    /\ IF locked[CurrentWorkspace(r)]
       THEN Goto(r, "handBack") /\ UNCHANGED locked
       ELSE SetLock(CurrentWorkspace(r), TRUE) /\ Goto(r, "runJob")
    /\ UNCHANGED <<job, tcl, recent, step, cluster, calls>>

(* Bug to catch: every running step of the job is handed back.              *)
HandBackAll(r) ==
    /\ At(r, "handBack")
    /\ MoveSteps(CurrentJob(r), {"running"}, "pending")
    /\ EndOfRow(r)
    /\ UNCHANGED <<job, tcl, recent, locked, cluster, calls>>

HandBack(r) ==
    /\ At(r, "handBack")
    /\ LET j == CurrentJob(r)
           n == sched[r].num
       IN  IF step[j][n] = "running" THEN SetStep(j, n, "pending") ELSE UNCHANGED step
    /\ EndOfRow(r)
    /\ UNCHANGED <<job, tcl, recent, locked, cluster, calls>>

(* After the token and context.json: UPDATE job SET status = 'running'.     *)
RunJob(r) ==
    /\ At(r, "runJob")
    /\ SetJob(CurrentJob(r), "running")
    /\ Goto(r, "spawn")
    /\ UNCHANGED <<tcl, recent, step, locked, cluster, calls>>

Spawn(r) ==
    /\ At(r, "spawn")
    /\ IF ExecutorOf(CurrentWorkspace(r)) = "none"
       THEN Goto(r, "failStep") /\ UNCHANGED calls
       ELSE /\ LET j == CurrentJob(r)
                   n == sched[r].num
               IN  calls' = calls \cup {[by |-> r, id |-> j, num |-> n, pc |-> "execute",
                                         type |-> ResolveType(j, n, sched[r].row.tcl)]}
            /\ EndOfRow(r)
    /\ UNCHANGED <<tables, cluster>>

(* No executor: fail the step, then the job, then release the workspace.    *)
NoExecutor(r) ==
    LET j == CurrentJob(r)
    IN  /\ \/ At(r, "failStep") /\ SetStep(j, sched[r].num, "failed")
                                /\ Goto(r, "failJob") /\ UNCHANGED <<job, locked>>
           \/ At(r, "failJob") /\ SetJob(j, "failed")
                               /\ Goto(r, "failRelease") /\ UNCHANGED <<step, locked>>
           \/ At(r, "failRelease") /\ SetLock(WorkspaceOf[j], FALSE)
                                   /\ EndOfRow(r) /\ UNCHANGED <<job, step>>
        /\ UNCHANGED <<tcl, recent, cluster, calls>>
--------------------------------------------------------------------------------
(* The goroutine around Executor.Execute.                                   *)

MoveCall(c, pc) == calls' = (calls \ {c}) \cup {[c EXCEPT !.pc = pc]}

(* An accepted call starts a pod; a refused one starts none.  The executor  *)
(* may also accept the job while its answer is lost, or comes after the     *)
(* client's timeout.                                                        *)
Execute(c) ==
    /\ c.pc = "execute"
    /\ launches' = [launches EXCEPT ![c.id][c.num] = @ + 1]
    /\ \/ StartPod(c.id, c.num, c.type) /\ calls' = calls \ {c}
       \/ /\ "executeFails" \in Events
          /\ MoveCall(c, "failStep")
          /\ UNCHANGED pod
       \/ /\ "answerLost" \in Events
          /\ StartPod(c.id, c.num, c.type)
          /\ MoveCall(c, "failStep")
    /\ UNCHANGED <<tables, sched>>

(* Execute returned an error: fail the step, the job, release the workspace.*)
FailCall(c) ==
    /\ \/ c.pc = "failStep" /\ SetStep(c.id, c.num, "failed")
                            /\ MoveCall(c, "failJob") /\ UNCHANGED <<job, locked>>
       \/ c.pc = "failJob" /\ SetJob(c.id, "failed")
                           /\ MoveCall(c, "failRelease") /\ UNCHANGED <<step, locked>>
       \/ c.pc = "failRelease" /\ SetLock(WorkspaceOf[c.id], FALSE)
                               /\ calls' = calls \ {c} /\ UNCHANGED <<job, step>>
    /\ UNCHANGED <<tcl, recent, cluster, sched>>
--------------------------------------------------------------------------------
(* pollCancels: the recently cancelled jobs, then CancelJob for each.       *)

Cancelled ==
    {[id |-> j, status |-> "cancelled", tcl |-> FALSE] :
        j \in {i \in Jobs : job[i] = "cancelled" /\ recent[i]}}

PollCancels(r) ==
    /\ At(r, "cancels")
    /\ LET hits == IF HasKubernetes THEN Cancelled ELSE {}
       IN  sched' = [sched EXCEPT ![r] =
                       [IdleLoop EXCEPT !.pc = IF hits = {} THEN "idle" ELSE "kill",
                                        !.rows = hits]]
    /\ UNCHANGED <<tables, cluster, calls>>

(* Deletes every Kubernetes Job of the job; none may be left to delete.     *)
KillPods(r) ==
    /\ At(r, "kill")
    /\ \E x \in First(sched[r].rows) :
          LET rest == sched[r].rows \ {x}
          IN  /\ IF ExecutorOf(WorkspaceOf[x.id]) = "kubernetes"
                 THEN pod' = [pod EXCEPT ![x.id] =
                                [n \in StepNumbers |-> IF @[n].pc = "none" THEN @[n]
                                   ELSE [@[n] EXCEPT !.pc = "done", !.verdict = "none"]]]
                 ELSE UNCHANGED pod
              /\ sched' = [sched EXCEPT ![r] =
                             [IdleLoop EXCEPT !.pc = IF rest = {} THEN "idle" ELSE "kill",
                                              !.rows = rest]]
    /\ UNCHANGED <<tables, launches, calls>>
--------------------------------------------------------------------------------
(* Everything a replica's loop does after its tick.                         *)
LoopStep(r) ==
    \/ CheckOlder(r) \/ ClaimJob(r) \/ PassGate(r) \/ UnlockWorkspace(r)
    \/ LookupStep(r) \/ SkipStep(r) \/ Advance(r)
    \/ CountOpen(r) \/ Tally(r) \/ FinishJob(r) \/ ReleaseFinished(r)
    \/ ParkStep(r) \/ ParkJob(r)
    \/ ClaimStep(r) \/ LockWorkspace(r) \/ HandBack(r) \/ RunJob(r) \/ Spawn(r)
    \/ NoExecutor(r) \/ PollCancels(r) \/ KillPods(r)

CallStep(c) == Execute(c) \/ FailCall(c)
================================================================================
