--------------------------------- MODULE RunApi ---------------------------------
(****************************************************************************)
(* The HTTP handlers of an API process that write the run tables            *)
(* (internal/api/handler, internal/api/tcl): creation of a job and its      *)
(* steps, PATCH of a job with its post-update hooks, the approval endpoint, *)
(* the TFE run actions and the TFE workspace lock.  A handler of several    *)
(* statements is a request thread that executes one of them per step.       *)
(****************************************************************************)
EXTENDS RunTables

VARIABLES
    requests,   \* handler threads and their goroutines, at their next statement
    cli,        \* per workspace: a CLI user holds the TFE lock
    approvals   \* history: jobs that somebody approved

apiVars == <<requests, cli, approvals>>

RequestPc ==
    {"readTcl", "insertSteps",                        \* InitJobSteps
     "cancelSteps", "closeSteps", "failSteps",        \* PATCH hooks
     "releaseLock",                                   \* asynchronous unlock
     "passGate", "requeue",                           \* approve
     "rejectGate", "dropSteps", "rejectJob",          \* reject
     "discardGate", "dropRest", "cancelJob",          \* TFE discard
     "cancelRun"}                                     \* TFE cancel

Request == [by : Replicas, id : Jobs, num : StepNumbers \cup {0}, pc : RequestPc]

ApiTypeOK ==
    /\ requests \subseteq Request
    /\ cli \in [Workspaces -> BOOLEAN]
    /\ approvals \subseteq Jobs

ApiInit ==
    /\ requests = {}
    /\ cli = [w \in Workspaces |-> FALSE]
    /\ approvals = {}
--------------------------------------------------------------------------------
(* A request thread starts, moves to its next statement, or returns.        *)

Start(j, n, pc) == \E r \in Replicas :
    requests' = requests \cup {[by |-> r, id |-> j, num |-> n, pc |-> pc]}

Continue(q, pc) == requests' = (requests \ {q}) \cup {[q EXCEPT !.pc = pc]}

Return(q) == requests' = requests \ {q}

(* Bug to catch: the buttons are there whatever the job's status is.        *)
ButtonsAlways(j, statuses) == job[j] # "none"

(* What the user's page shows: the job's present status or, on a page that  *)
(* was not refreshed, one that the job had before.                          *)
PageShows(j, statuses) ==
    \/ job[j] \in statuses
    \/ "stalePage" \in Events /\ job[j] # "none"
--------------------------------------------------------------------------------
(* Creation: the row, then InitJobSteps.                                    *)

InsertJob(j) ==
    /\ job[j] = "none"
    /\ \A k \in Jobs : k < j => job[k] # "none"
    /\ SetJob(j, "pending")
    /\ tcl' = [tcl EXCEPT ![j] = j \in InlineTcl]
    /\ Start(j, 0, "readTcl")
    /\ UNCHANGED <<recent, step, locked, cluster, cli, approvals>>

(* POST job: waits for InitJobSteps before it answers.                      *)
CreateJob(j) == InsertJob(j)

(* POST TFE run: refused on a locked workspace; InitJobSteps runs behind    *)
(* the answer.                                                              *)
CreateRun(j) ==
    /\ ~ locked[WorkspaceOf[j]]
    /\ InsertJob(j)

(* Resolve the TCL, keep it in the job; a flow without entries ends here.   *)
ReadTcl(q) ==
    /\ q.pc = "readTcl"
    /\ tcl' = [tcl EXCEPT ![q.id] = @ \/ q.id \in TemplateTcl]
    /\ IF Entries(q.id) = {} \/ StepsIn(q.id, {"none"}) # StepNumbers
       THEN Return(q)
       ELSE Continue(q, "insertSteps")
    /\ UNCHANGED <<job, recent, step, locked, cluster, cli, approvals>>

(* One INSERT per flow entry, in ascending order.                           *)
InsertStep(q) ==
    /\ q.pc = "insertSteps"
    /\ LET missing == {n \in Entries(q.id) : step[q.id][n] = "none"}
       IN  IF missing = {}
           THEN Return(q) /\ UNCHANGED step
           ELSE /\ \E n \in Lowest(missing) : SetStep(q.id, n, "pending")
                /\ UNCHANGED requests
    /\ UNCHANGED <<job, tcl, recent, locked, cluster, cli, approvals>>
--------------------------------------------------------------------------------
(* PATCH job: an unconditional UPDATE, then the hook of the new status.     *)

(* Bug to catch: any report of the executor releases the workspace.         *)
HookReleasesAlways(status) ==
    CASE status = "cancelled" -> "cancelSteps"
      [] status = "noChanges" -> "closeSteps"
      [] status = "rejected" -> "failSteps"
      [] status \in {"completed", "failed", "running"} -> "releaseLock"
      [] OTHER -> "none"

HookOf(status) ==
    CASE status = "cancelled" -> "cancelSteps"
      [] status = "noChanges" -> "closeSteps"
      [] status = "rejected" -> "failSteps"
      [] status \in {"completed", "failed"} -> "releaseLock"
      [] OTHER -> "none"

PatchJob(j, status) ==
    /\ SetJob(j, status)
    /\ recent' = [recent EXCEPT ![j] = @ \/ status = "cancelled"]
    /\ IF HookOf(status) = "none" THEN UNCHANGED requests ELSE Start(j, 0, HookOf(status))

(* The synchronous part of the hook.                                        *)
PatchHook(q) ==
    /\ \/ q.pc = "cancelSteps"
          /\ MoveSteps(q.id, {"pending", "running", "waitingApproval"}, "cancelled")
       \/ q.pc = "closeSteps" /\ MoveSteps(q.id, {"pending", "waitingApproval"}, "notExecuted")
       \/ q.pc = "failSteps" /\ MoveSteps(q.id, {"pending", "waitingApproval"}, "failed")
    /\ Continue(q, "releaseLock")
    /\ UNCHANGED <<job, tcl, recent, locked, cluster, cli, approvals>>

(* The unlock that ends a terminal PATCH (in a goroutine), a rejection, a   *)
(* TFE cancel and a TFE discard.                                            *)
ReleaseLock(q) ==
    /\ q.pc = "releaseLock"
    /\ SetLock(WorkspaceOf[q.id], FALSE)
    /\ Return(q)
    /\ UNCHANGED <<job, tcl, recent, step, cluster, cli, approvals>>

(* The buttons of the UI's job page.                                        *)
UiApprove(j) ==
    /\ "uiApprove" \in Events
    /\ PageShows(j, {"waitingApproval"})
    /\ PatchJob(j, "approved")
    /\ approvals' = approvals \cup {j}
    /\ UNCHANGED <<tcl, step, locked, cluster, cli>>

UiReject(j) ==
    /\ "uiReject" \in Events
    /\ PageShows(j, {"waitingApproval"})
    /\ PatchJob(j, "rejected")
    /\ UNCHANGED <<tcl, step, locked, cluster, cli, approvals>>

UiCancel(j) ==
    /\ "uiCancel" \in Events
    /\ PageShows(j, {"running", "pending"})
    /\ PatchJob(j, "cancelled")
    /\ UNCHANGED <<tcl, step, locked, cluster, cli, approvals>>
--------------------------------------------------------------------------------
(* POST approve (and TFE apply): find the waiting gate, complete it, queue. *)

RestApprove(j) ==
    /\ "restApprove" \in Events
    /\ PageShows(j, {"waitingApproval"})
    /\ \E n \in StepsIn(j, {"waitingApproval"}) : Start(j, n, "passGate")
    /\ approvals' = approvals \cup {j}
    /\ UNCHANGED <<tables, cluster, cli>>

CompleteGate(q) ==
    /\ q.pc = "passGate"
    /\ SetStep(q.id, q.num, "completed")
    /\ Continue(q, "requeue")
    /\ UNCHANGED <<job, tcl, recent, locked, cluster, cli, approvals>>

Requeue(q) ==
    /\ q.pc = "requeue"
    /\ SetJob(q.id, "queue")
    /\ Return(q)
    /\ UNCHANGED <<tcl, recent, step, locked, cluster, cli, approvals>>

(* POST reject.                                                             *)
RestReject(j) ==
    /\ "restReject" \in Events
    /\ PageShows(j, {"waitingApproval"})
    /\ \E n \in StepsIn(j, {"waitingApproval"}) : Start(j, n, "rejectGate")
    /\ UNCHANGED <<tables, cluster, cli, approvals>>

RejectGate(q) ==
    /\ q.pc = "rejectGate"
    /\ SetStep(q.id, q.num, "rejected")
    /\ Continue(q, "dropSteps")
    /\ UNCHANGED <<job, tcl, recent, locked, cluster, cli, approvals>>

(* TFE discard.                                                             *)
CliDiscard(j) ==
    /\ "cliDiscard" \in Events
    /\ PageShows(j, {"waitingApproval", "pending"})
    /\ Start(j, 0, "discardGate")
    /\ UNCHANGED <<tables, cluster, cli, approvals>>

DiscardGate(q) ==
    /\ q.pc = "discardGate"
    /\ MoveSteps(q.id, {"waitingApproval"}, "rejected")
    /\ Continue(q, "dropRest")
    /\ UNCHANGED <<job, tcl, recent, locked, cluster, cli, approvals>>

(* Both: the pending steps will not run.                                    *)
DropSteps(q) ==
    /\ q.pc \in {"dropSteps", "dropRest"}
    /\ MoveSteps(q.id, {"pending"}, "notExecuted")
    /\ Continue(q, IF q.pc = "dropSteps" THEN "rejectJob" ELSE "cancelJob")
    /\ UNCHANGED <<job, tcl, recent, locked, cluster, cli, approvals>>

(* Both: the job is over, whatever its status was.  A discard leaves        *)
(* updated_date as it is: recent or not.                                    *)
CloseJob(q) ==
    /\ \/ q.pc = "rejectJob" /\ SetJob(q.id, "rejected") /\ UNCHANGED recent
       \/ /\ q.pc = "cancelJob" /\ SetJob(q.id, "cancelled")
          /\ \E b \in BOOLEAN : recent' = [recent EXCEPT ![q.id] = b]
    /\ Continue(q, "releaseLock")
    /\ UNCHANGED <<tcl, step, locked, cluster, cli, approvals>>
--------------------------------------------------------------------------------
(* TFE cancel: conditional on an active status; leaves updated_date alone.  *)

CliCancel(j) ==
    /\ "cliCancel" \in Events
    /\ PageShows(j, {"running", "queue", "pending"})
    /\ Start(j, 0, "cancelRun")
    /\ UNCHANGED <<tables, cluster, cli, approvals>>

CancelRun(q) ==
    /\ q.pc = "cancelRun"
    /\ IF job[q.id] \in {"running", "queue", "pending"}
       THEN /\ SetJob(q.id, "cancelled")
            /\ \E b \in BOOLEAN : recent' = [recent EXCEPT ![q.id] = b]
       ELSE UNCHANGED <<job, recent>>
    /\ Continue(q, "releaseLock")
    /\ UNCHANGED <<tcl, step, locked, cluster, cli, approvals>>

(* TFE workspace lock and unlock, by a CLI that runs Terraform locally.     *)
CliLock(w) ==
    /\ "cliLock" \in Events
    /\ ~ locked[w]
    /\ SetLock(w, TRUE)
    /\ cli' = [cli EXCEPT ![w] = TRUE]
    /\ UNCHANGED <<job, tcl, recent, step, cluster, requests, approvals>>

CliUnlock(w) ==
    /\ cli[w]
    /\ SetLock(w, FALSE)
    /\ cli' = [cli EXCEPT ![w] = FALSE]
    /\ UNCHANGED <<job, tcl, recent, step, cluster, requests, approvals>>
--------------------------------------------------------------------------------
Create == \E j \in Jobs : CreateJob(j) \/ CreateRun(j)

UserStep ==
    \/ \E j \in Jobs : \/ UiApprove(j) \/ UiReject(j) \/ UiCancel(j)
                       \/ RestApprove(j) \/ RestReject(j)
                       \/ CliCancel(j) \/ CliDiscard(j)
    \/ \E w \in Workspaces : CliLock(w)

RequestStep(q) ==
    \/ ReadTcl(q) \/ InsertStep(q)
    \/ PatchHook(q) \/ ReleaseLock(q)
    \/ CompleteGate(q) \/ Requeue(q)
    \/ RejectGate(q) \/ DiscardGate(q) \/ DropSteps(q) \/ CloseJob(q) \/ CancelRun(q)
================================================================================
