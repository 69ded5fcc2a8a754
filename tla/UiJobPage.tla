-------------------------------- MODULE UiJobPage --------------------------------
(****************************************************************************)
(* The run page of the UI (src/ui, DetailsJob): it loads a job with its     *)
(* step, the step's log, the workspace and the plan context, polls every    *)
(* 5 s, and lets the user approve, discard or cancel.  Every handler runs   *)
(* to its next await; an aborted request rejects before anything else runs. *)
(* The run it watches is reduced to one step and moves on by itself; how    *)
(* the server moves it is the subject of TerrakubeRuns.                     *)
(****************************************************************************)
EXTENDS Naturals

CONSTANTS
    Jobs,
    FirstStatus,          \* of each job, when the page is opened
    MaxFinalLogRefreshes, \* 12 in the code
    Faults                \* what network, browser and user may do to the page

AllFaults == {"refreshFails", "firstLoadFails", "cancelReloadFails",
              "lastRefreshFails", "logFails", "contextFails", "slowLoads",
              "hidden", "mountHidden", "switchWhileCancelling"}

ASSUME FirstStatusAssumption ==
    FirstStatus \in [Jobs -> {"waitingApproval", "running", "completed"}]
ASSUME MaxFinalLogRefreshesAssumption == MaxFinalLogRefreshes \in Nat
ASSUME FaultsAssumption == Faults \subseteq AllFaults

VARIABLES
    run,       \* the server: run[j] = status of job and step, log so far
    jobId,     \* the property the page was rendered with
    job,       \* state of the page: the job it shows,
    steps,     \*   the step it shows with the log fetched for it,
    context,   \*   the job whose plan context it holds,
    loading,   \*   the spinner
    load,      \* loadJob in progress
    contextLoad, \* the job loadContext is in progress for
    awaited,   \* what the latest refreshJobDetails still waits for
    patch,     \* the PATCH of a button on its way
    finals,    \* finalLogRefreshesRef
    polling,   \* `enabled` of usePolling as of the last render
    armed,     \* intervalRef holds a live interval
    leaked,    \* a live interval that intervalRef no longer holds
    hidden     \* document.hidden

page == <<jobId, job, steps, context, loading>>
requests == <<load, contextLoad, awaited, patch>>
timer == <<polling, armed, leaked, hidden>>
vars == <<run, page, requests, finals, timer>>
--------------------------------------------------------------------------------
Terminal == {"completed", "failed", "cancelled", "rejected"}
Statuses == Terminal \cup {"waitingApproval", "approved", "running"}
StepStatuses == {"pending", "running", "completed", "failed", "cancelled"}

(* What the page can hold as the log of a step: a placeholder, "aborted"    *)
(* for the placeholder of an aborted request, or the log, that breaks off   *)
(* in the middle of a resource or is complete.                              *)
Placeholders == {"waiting", "initializing", "noLogs", "aborted"}
Logs == Placeholders \cup {"midway", "full"}

None == "none"
NothingShown == [of |-> None]
NoLoad == [phase |-> "none"]
NoPatch == [status |-> "none"]
--------------------------------------------------------------------------------
JobIsTerminal == job # NothingShown /\ job.status \in Terminal

(* Bug to catch: a log that breaks off counts as complete.                  *)
OnlyAPlaceholderIsIncomplete ==
    steps # NothingShown /\ steps.status \in {"completed", "failed"} /\ steps.log \in Placeholders

HasIncompleteFinishedLog ==
    /\ steps # NothingShown /\ steps.status \in {"completed", "failed"}
    /\ \/ steps.log \in Placeholders
       \/ steps.status = "completed" /\ steps.log = "midway"

(* Bug to catch: polling ends with the job, whatever of its log is there.   *)
PollUntilTerminal == ~ JobIsTerminal

PollingEnabled ==
    \/ ~ JobIsTerminal
    \/ HasIncompleteFinishedLog /\ finals < MaxFinalLogRefreshes

(* A render: the effects of usePolling run if `enabled` changed.  Starting  *)
(* an interval does not look at document.hidden.                            *)
Render ==
    /\ polling' = PollingEnabled'
    /\ armed' = IF polling' = polling THEN armed ELSE polling'
    /\ UNCHANGED <<leaked, hidden>>

Hide ==
    /\ "hidden" \in Faults /\ ~ hidden
    /\ hidden' = TRUE
    /\ armed' = (armed /\ ~ polling)
    /\ UNCHANGED <<run, page, requests, finals, polling, leaked>>

(* Bug to catch: a page that is shown again does not start its interval.    *)
ShowWithoutTimer ==
    /\ hidden
    /\ hidden' = FALSE
    /\ UNCHANGED <<run, page, requests, finals, polling, armed, leaked>>

Show ==
    /\ hidden
    /\ hidden' = FALSE
    /\ armed' = (armed \/ polling)
    /\ leaked' = (leaked \/ (armed /\ polling))
    /\ UNCHANGED <<run, page, requests, finals, polling>>
--------------------------------------------------------------------------------
(* Bug to catch: a load does not check its request number.                  *)
StepsOfAnyLoad(found, isLatest) == found

(* The page sets the steps only for the latest load.                        *)
StepsIfCurrent(found, isLatest) == IF isLatest THEN found ELSE steps

(* The continuation of a load whose request was aborted.  A load that only  *)
(* waits for the log goes on, as outputLog answers an abort with a          *)
(* placeholder, and is stopped by its request number; any other rejects.    *)
StepsAfterAbort ==
    IF load.phase = "details" /\ load.log = "pending" /\ load.workspace = "ok"
    THEN StepsIfCurrent([of |-> load.of, status |-> load.status, log |-> "aborted"], FALSE)
    ELSE steps

(* loadJob: abort the load in progress, ask for the job.                    *)
LoadJob(j, inRefresh) ==
    /\ steps' = StepsAfterAbort
    /\ load' = [phase |-> "job", of |-> j, inRefresh |-> inRefresh]

(* refreshJobDetails                                                        *)
Refresh(j) ==
    /\ LoadJob(j, TRUE)
    /\ contextLoad' = j
    /\ awaited' = {"job", "context"}

(* Bug to catch: the first part that is done takes the spinner away.        *)
DoneAtFirst(part) ==
    /\ awaited' = awaited \ part
    /\ loading' = FALSE

(* A part of the latest refresh is done; after the last one the spinner     *)
(* goes.  A load that a later one replaced no longer counts.                *)
Done(part) ==
    /\ awaited' = awaited \ part
    /\ loading' = (loading /\ (awaited' # {} \/ awaited = {}))

DoneLoad == Done(IF load.inRefresh THEN {"job"} ELSE {})

LoadFails ==
    /\ load' = NoLoad
    /\ DoneLoad
    /\ UNCHANGED <<run, jobId, job, steps, context, contextLoad, patch, finals>>
    /\ Render

(* Which loads may fail: those of an ordinary poll; the first one of a run; *)
(* the one after a cancel; the one that has just shown the job's end.       *)
MayFail ==
    LET bringsTheEnd == load.phase = "details" /\ JobIsTerminal IN
    \/ ~ load.inRefresh /\ "cancelReloadFails" \in Faults
    \/ load.inRefresh /\ loading /\ "firstLoadFails" \in Faults
    \/ load.inRefresh /\ ~ loading /\ bringsTheEnd /\ "lastRefreshFails" \in Faults
    \/ load.inRefresh /\ ~ loading /\ ~ bringsTheEnd /\ "refreshFails" \in Faults

(* The job arrives with its step.  The page shows the job at once; log and  *)
(* workspace are still to come.  A step without output gets a placeholder.  *)
JobArrives ==
    /\ load.phase = "job"
    /\ LET r == run[load.of] IN
       /\ job' = [of |-> load.of, status |-> r.job]
       /\ load' = [phase |-> "details", of |-> load.of, inRefresh |-> load.inRefresh,
                   status |-> r.step, workspace |-> "pending",
                   log |-> IF r.log # "none" THEN "pending"
                           ELSE IF r.step = "running" THEN "initializing"
                           ELSE "waiting"]
    /\ UNCHANGED <<run, jobId, steps, context, loading, contextLoad, awaited, patch, finals>>
    /\ Render

JobFails ==
    /\ load.phase = "job" /\ MayFail
    /\ LoadFails

(* Once log and workspace are there, the steps are set.                     *)
Settle(l) ==
    IF l.log = "pending" \/ l.workspace = "pending"
    THEN load' = l /\ UNCHANGED <<steps, loading, awaited>>
    ELSE /\ steps' = StepsIfCurrent([of |-> l.of, status |-> l.status, log |-> l.log], TRUE)
         /\ load' = NoLoad
         /\ DoneLoad

LogArrives ==
    /\ load.phase = "details" /\ load.log = "pending"
    /\ \/ Settle([load EXCEPT !.log = run[load.of].log])
       \/ "logFails" \in Faults /\ Settle([load EXCEPT !.log = "noLogs"])
    /\ UNCHANGED <<run, jobId, job, context, contextLoad, patch, finals>>
    /\ Render

WorkspaceArrives ==
    /\ load.phase = "details" /\ load.workspace = "pending"
    /\ Settle([load EXCEPT !.workspace = "ok"])
    /\ UNCHANGED <<run, jobId, job, context, contextLoad, patch, finals>>
    /\ Render

(* A failed workspace or vcs request drops the steps that came with it.     *)
WorkspaceFails ==
    /\ load.phase = "details" /\ load.workspace = "pending" /\ MayFail
    /\ LoadFails

(* loadContext                                                              *)
ContextArrives ==
    /\ contextLoad # None
    /\ \/ context' = contextLoad
       \/ "contextFails" \in Faults /\ UNCHANGED context
    /\ contextLoad' = None
    /\ Done({"context"})
    /\ UNCHANGED <<run, jobId, job, steps, load, patch, finals>>
    /\ Render
--------------------------------------------------------------------------------
(* An interval fires.  Unless loads may be slow, they are done in 5 s.      *)
Poll ==
    /\ armed \/ leaked
    /\ "slowLoads" \in Faults \/ (load = NoLoad /\ contextLoad = None)
    /\ finals' = IF JobIsTerminal /\ finals < MaxFinalLogRefreshes THEN finals + 1 ELSE finals
    /\ Refresh(jobId)
    /\ UNCHANGED <<run, jobId, job, context, loading, patch, timer>>

(* The user starts another run from the page of this one (changeJob).  The  *)
(* page stays mounted with its old state.                                   *)
Switch(j) ==
    /\ j # jobId
    /\ patch.status # "cancelled" \/ "switchWhileCancelling" \in Faults
    /\ jobId' = j
    /\ loading' = TRUE
    /\ finals' = 0
    /\ Refresh(j)
    /\ UNCHANGED <<run, job, context, patch>>
    /\ Render

(* What the page offers for the job it shows.                               *)
Offered ==
    IF loading \/ job = NothingShown THEN {}
    ELSE CASE job.status = "waitingApproval" -> {"approved", "rejected"}
           [] job.status = "running" -> {"cancelled"}
           [] OTHER -> {}

(* handleApprove, handleRejected, handleCancel: the PATCH names the job of  *)
(* the property, whatever the page shows.                                   *)
Press(status) ==
    /\ status \in Offered /\ patch = NoPatch
    /\ job.status = run[jobId].job      \* TerrakubeRuns has stale pages
    /\ patch' = [status |-> status, of |-> jobId]
    /\ UNCHANGED <<run, page, load, contextLoad, awaited, finals, timer>>

(* The PATCH is carried out and answered; only a cancel reloads, with the   *)
(* closure of the render in which it was pressed.                           *)
PatchAnswered ==
    /\ patch # NoPatch
    /\ patch' = NoPatch
    /\ run' = [run EXCEPT ![patch.of].job = patch.status,
                          ![patch.of].step =
                              IF patch.status = "rejected" /\ @ = "pending" THEN "failed"
                              ELSE IF patch.status = "cancelled" /\ @ \in {"pending", "running"}
                              THEN "cancelled" ELSE @]
    /\ IF patch.status = "cancelled"
       THEN /\ LoadJob(patch.of, FALSE)
            /\ Done({"job"})
       ELSE UNCHANGED <<steps, load, awaited, loading>>
    /\ UNCHANGED <<jobId, job, context, contextLoad, finals>>
    /\ Render
--------------------------------------------------------------------------------
(* The run moves on: the step starts and ends, the job follows, and the     *)
(* last chunk of the log is flushed at any time after the start.            *)
RunMoves(j) ==
    /\ \/ /\ run[j].job = "approved"
          /\ run' = [run EXCEPT ![j] = [job |-> "running", step |-> "running", log |-> "midway"]]
       \/ /\ run[j].job = "running" /\ run[j].step = "running"
          /\ \E s \in {"completed", "failed"} : run' = [run EXCEPT ![j].step = s]
       \/ /\ run[j].job = "running" /\ run[j].step \in {"completed", "failed"}
          /\ run' = [run EXCEPT ![j].job = run[j].step]
    /\ UNCHANGED <<page, requests, finals, timer>>

LogFlushed(j) ==
    /\ run[j].log = "midway"
    /\ run' = [run EXCEPT ![j].log = "full"]
    /\ UNCHANGED <<page, requests, finals, timer>>

Init ==
    /\ run = [j \in Jobs |->
                 IF FirstStatus[j] = "waitingApproval"
                 THEN [job |-> "waitingApproval", step |-> "pending", log |-> "none"]
                 ELSE [job |-> FirstStatus[j], step |-> FirstStatus[j], log |-> "midway"]]
    /\ jobId \in Jobs
    /\ job = NothingShown /\ steps = NothingShown /\ context = None /\ loading = TRUE
    /\ load = [phase |-> "job", of |-> jobId, inRefresh |-> TRUE]
    /\ contextLoad = jobId /\ awaited = {"job", "context"} /\ patch = NoPatch
    /\ finals = 0 /\ polling = TRUE /\ armed = TRUE /\ leaked = FALSE
    /\ hidden \in {FALSE} \cup (IF "mountHidden" \in Faults THEN {TRUE} ELSE {})

Responses ==
    JobArrives \/ JobFails \/ LogArrives \/ WorkspaceArrives \/ WorkspaceFails
    \/ ContextArrives \/ PatchAnswered

Next ==
    \/ Responses \/ Poll \/ Hide \/ Show
    \/ \E j \in Jobs : Switch(j) \/ RunMoves(j) \/ LogFlushed(j)
    \/ \E s \in {"approved", "rejected", "cancelled"} : Press(s)

Spec == Init /\ [][Next]_vars

(* Every request is answered or fails, a poll that is repeated for ever does *)
(* not fail for ever, intervals fire, logs are flushed.                     *)
(* No user has to do anything, and no run has to end.                       *)
FairSpec ==
    /\ Spec
    /\ WF_vars(Responses) /\ SF_vars(JobArrives) /\ WF_vars(Poll)
    /\ \A j \in Jobs : WF_vars(LogFlushed(j))
--------------------------------------------------------------------------------
(* Without the spinner, job, step and plan on the page are those of the run *)
(* it was opened for: a late answer for the previous run is never shown.    *)
ShowsItsOwnRun ==
    ~ loading => /\ job = NothingShown \/ job.of = jobId
                 /\ steps = NothingShown \/ steps.of = jobId
                 /\ context \in {None, jobId}

(* A log request that a newer load aborted never ends as "No logs           *)
(* available" under the step.                                               *)
NoAbortedLog == steps = NothingShown \/ steps.log # "aborted"

(* The step on the page is how it ended, with all of its log unless the last *)
(* refreshes are used up; a failed step may miss the end of its log.        *)
LogShown ==
    /\ steps.status = run[steps.of].step
    /\ \/ steps.status = "completed" => steps.log = "full"
       \/ finals = MaxFinalLogRefreshes

(* The page gives up polling only on the end of its own run, and only when  *)
(* a completed step has its whole log or the last refreshes are used up.    *)
PollsUntilComplete ==
    ~ (polling \/ leaked) /\ load = NoLoad =>
        /\ job.of = jobId /\ job.status = run[jobId].job
        /\ steps.of = jobId /\ LogShown

(* A visible page that should poll has a live interval, however often it    *)
(* was hidden and whatever arrived meanwhile.                               *)
VisiblePageIsArmed == polling /\ ~ hidden => armed

(* When a run is over, a page that stays on it and stays visible comes to   *)
(* show how it ended, with the whole log, or has used up its refreshes.     *)
EndIsShown ==
    \A j \in Jobs :
        run[j].job \in Terminal /\ jobId = j ~>
            \/ jobId # j \/ hidden
            \/ /\ ~ loading
               /\ job = [of |-> j, status |-> run[j].job]
               /\ steps.of = j /\ LogShown
================================================================================
