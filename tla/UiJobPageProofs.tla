----------------------------- MODULE UiJobPageProofs -----------------------------
(****************************************************************************)
(* What the run page keeps to, for any runs and any number of last          *)
(* refreshes, and under which faults: all of them for VisiblePageIsArmed    *)
(* and NoAbortedLog, those outside Calm and Reliable for the others.        *)
(****************************************************************************)
EXTENDS UiJobPage, TLAPS

RunLogs == {"none", "midway", "full"}
Loads == [phase : {"job"}, of : Jobs, inRefresh : BOOLEAN]
         \cup [phase : {"details"}, of : Jobs, inRefresh : BOOLEAN, status : StepStatuses,
               workspace : {"pending", "ok"}, log : {"pending"} \cup (Logs \ {"aborted"})]
Patches == [status : {"approved", "rejected", "cancelled"}, of : Jobs]

(* The requests under way, and the runs they are answered from.             *)
RequestsTypeOK ==
    /\ run \in [Jobs -> [job : Statuses, step : StepStatuses, log : RunLogs]]
    /\ jobId \in Jobs
    /\ load \in {NoLoad} \cup Loads
    /\ patch \in {NoPatch} \cup Patches
    /\ load.phase = "details" /\ load.log = "pending" => run[load.of].log # "none"
--------------------------------------------------------------------------------
LEMMA RequestsTypeInit == Init => RequestsTypeOK
<1> SUFFICES ASSUME Init PROVE RequestsTypeOK
  OBVIOUS
<1>1. run \in [Jobs -> [job : Statuses, step : StepStatuses, log : RunLogs]]
  <2>1. ASSUME NEW j \in Jobs PROVE FirstStatus[j] \in {"waitingApproval", "running", "completed"}
    BY FirstStatusAssumption
  <2> QED
    BY <2>1 DEF Init, Statuses, Terminal, StepStatuses, RunLogs
<1> QED
  BY <1>1 DEF Init, RequestsTypeOK, Loads

(* A new load asks for a job first.                                         *)
LEMMA LoadJobType ==
    ASSUME NEW j \in Jobs, NEW inRefresh \in BOOLEAN, LoadJob(j, inRefresh)
    PROVE  load' \in Loads /\ load'.phase = "job" /\ load'.of = j /\ load'.inRefresh = inRefresh
           /\ steps' = steps
BY DEF LoadJob, Loads, StepsAfterAbort, StepsIfCurrent

(* A load goes on with what it is given, or is over.                        *)
LEMMA SettleLoad == ASSUME NEW l, Settle(l) PROVE load' \in {l, NoLoad}
BY DEF Settle

LEMMA RequestsTypeStep == RequestsTypeOK /\ [Next]_vars => RequestsTypeOK'
<1> SUFFICES ASSUME RequestsTypeOK, [Next]_vars PROVE RequestsTypeOK'
  OBVIOUS
<1> USE DEF RequestsTypeOK
<1>1. CASE JobArrives
  <2> DEFINE r == run[load.of]
             log == IF r.log # "none" THEN "pending"
                    ELSE IF r.step = "running" THEN "initializing"
                    ELSE "waiting"
  <2>1. load \in Loads /\ load.of \in Jobs /\ load.inRefresh \in BOOLEAN
    BY <1>1 DEF JobArrives, NoLoad, Loads
  <2>2. r.step \in StepStatuses
    BY <2>1
  <2>3. log \in {"pending"} \cup (Logs \ {"aborted"})
    BY DEF Logs, Placeholders
  <2>4. load' = [phase |-> "details", of |-> load.of, inRefresh |-> load.inRefresh,
                 status |-> r.step, workspace |-> "pending", log |-> log]
    BY <1>1 DEF JobArrives
  <2>5. load' \in Loads
    BY <2>1, <2>2, <2>3, <2>4 DEF Loads
  <2>6. load'.of = load.of /\ (load'.log = "pending" => r.log # "none")
    BY <2>4
  <2> QED
    BY <1>1, <2>5, <2>6 DEF JobArrives
<1>2. CASE JobFails \/ WorkspaceFails
  BY <1>2 DEF JobFails, WorkspaceFails, LoadFails, NoLoad
<1>3. CASE LogArrives
  <2>1. load \in Loads /\ load.phase = "details" /\ load.of \in Jobs
    BY <1>3 DEF LogArrives, NoLoad, Loads
  <2>2. run[load.of].log \in RunLogs
    BY <2>1
  <2>3. PICK log \in {run[load.of].log, "noLogs"} : Settle([load EXCEPT !.log = log])
    BY <1>3 DEF LogArrives
  <2>4. log \in Logs \ {"aborted"} /\ log # "pending"
    BY <1>3, <2>2 DEF LogArrives, RunLogs, Logs, Placeholders
  <2> DEFINE new == [load EXCEPT !.log = log]
  <2>5. new \in Loads /\ new.log # "pending"
    BY <2>1, <2>4 DEF Loads
  <2>6. load' \in {new, NoLoad} /\ run' = run /\ UNCHANGED <<jobId, patch>>
    BY <1>3, <2>3, SettleLoad DEF LogArrives
  <2>7. CASE load' = new
    BY <2>5, <2>6, <2>7
  <2>8. CASE load' = NoLoad
    BY <2>6, <2>8 DEF NoLoad
  <2> QED
    BY <2>6, <2>7, <2>8
<1>4. CASE WorkspaceArrives
  <2> DEFINE new == [load EXCEPT !.workspace = "ok"]
  <2>1. load \in Loads /\ load.phase = "details"
    BY <1>4 DEF WorkspaceArrives, NoLoad, Loads
  <2>2. new \in Loads /\ new.phase = "details" /\ new.log = load.log /\ new.of = load.of
    BY <2>1 DEF Loads
  <2>3. load' \in {new, NoLoad} /\ run' = run /\ UNCHANGED <<jobId, patch>>
    BY <1>4, SettleLoad DEF WorkspaceArrives
  <2>4. CASE load' = new
    BY <2>1, <2>2, <2>3, <2>4
  <2>5. CASE load' = NoLoad
    BY <2>3, <2>5 DEF NoLoad
  <2> QED
    BY <2>3, <2>4, <2>5
<1>5. CASE ContextArrives
  BY <1>5 DEF ContextArrives
<1>6. CASE PatchAnswered
  <2>1. patch \in Patches /\ patch.of \in Jobs
    BY <1>6 DEF PatchAnswered, NoPatch, Patches
  <2>2. run' \in [Jobs -> [job : Statuses, step : StepStatuses, log : RunLogs]]
    BY <1>6, <2>1 DEF PatchAnswered, Patches, Statuses, Terminal, StepStatuses
  <2>3. load' = load \/ (load' \in Loads /\ load'.phase = "job")
    BY <1>6, <2>1, LoadJobType DEF PatchAnswered
  <2>4. \A j \in Jobs : run'[j].log = run[j].log
    BY <1>6, <2>1 DEF PatchAnswered
  <2> QED
    BY <1>6, <2>2, <2>3, <2>4 DEF PatchAnswered, NoLoad, Loads
<1>7. CASE Poll
  BY <1>7, LoadJobType DEF Poll, Refresh
<1>8. CASE Hide \/ Show
  BY <1>8 DEF Hide, Show, page, requests
<1>9. ASSUME NEW j \in Jobs, Switch(j) PROVE RequestsTypeOK'
  BY <1>9, LoadJobType DEF Switch, Refresh
<1>10. ASSUME NEW j \in Jobs, RunMoves(j) \/ LogFlushed(j) PROVE RequestsTypeOK'
  <2>1. run' \in [Jobs -> [job : Statuses, step : StepStatuses, log : RunLogs]]
    BY <1>10 DEF RunMoves, LogFlushed, Statuses, Terminal, StepStatuses, RunLogs
  <2>2. \A i \in Jobs : run[i].log # "none" => run'[i].log # "none"
    BY <1>10 DEF RunMoves, LogFlushed
  <2> QED
    BY <1>10, <2>1, <2>2 DEF RunMoves, LogFlushed, page, requests, NoLoad, Loads
<1>11. ASSUME NEW s \in {"approved", "rejected", "cancelled"}, Press(s) PROVE RequestsTypeOK'
  BY <1>11 DEF Press, page, Patches
<1>12. CASE UNCHANGED vars
  BY <1>12 DEF vars, page, requests
<1> QED
  BY <1>1, <1>2, <1>3, <1>4, <1>5, <1>6, <1>7, <1>8, <1>9, <1>10, <1>11, <1>12 DEF Next, Responses

THEOREM RequestsTyped == Spec => []RequestsTypeOK
BY RequestsTypeInit, RequestsTypeStep, PTL DEF Spec
--------------------------------------------------------------------------------
(* usePolling: a render starts the interval when polling begins, and no     *)
(* hiding and showing again loses it.                                       *)
THEOREM VisiblePagePolls == Spec => []VisiblePageIsArmed
<1>1. Init => VisiblePageIsArmed
  BY DEF Init, VisiblePageIsArmed
<1>2. VisiblePageIsArmed /\ [Next]_vars => VisiblePageIsArmed'
  <2> SUFFICES ASSUME VisiblePageIsArmed, [Next]_vars PROVE VisiblePageIsArmed'
    OBVIOUS
  <2>1. ASSUME Render PROVE VisiblePageIsArmed'
    <3>1. hidden' = hidden /\ armed' = IF polling' = polling THEN armed ELSE polling'
      BY <2>1 DEF Render
    <3>2. CASE polling' = polling
      BY <3>1, <3>2, Zenon DEF VisiblePageIsArmed
    <3>3. CASE polling' # polling
      BY <3>1, <3>3, Zenon DEF VisiblePageIsArmed
    <3> QED
      BY <3>2, <3>3
  <2>2. CASE Responses
    BY <2>1, <2>2 DEF Responses, JobArrives, JobFails, LogArrives, WorkspaceArrives, WorkspaceFails,
                      LoadFails, ContextArrives, PatchAnswered
  <2>3. CASE Hide \/ Show
    BY <2>3 DEF Hide, Show, VisiblePageIsArmed
  <2>4. ASSUME NEW j \in Jobs, Switch(j) PROVE VisiblePageIsArmed'
    BY <2>1, <2>4 DEF Switch
  <2>5. CASE UNCHANGED timer
    BY <2>5 DEF timer, VisiblePageIsArmed
  <2> QED
    BY <2>2, <2>3, <2>4, <2>5 DEF Next, Poll, RunMoves, LogFlushed, Press, vars
<1> QED
  BY <1>1, <1>2, PTL DEF Spec

(* outputLog, loadJob: the log of an aborted request ends in no state of    *)
(* the page, since the load it belongs to is no longer the latest.          *)
THEOREM AbortedLogsAreDropped == Spec => []NoAbortedLog
<1>1. Init => NoAbortedLog
  BY DEF Init, NoAbortedLog
<1>2. RequestsTypeOK /\ NoAbortedLog /\ [Next]_vars => NoAbortedLog'
  <2> SUFFICES ASSUME RequestsTypeOK, NoAbortedLog, [Next]_vars PROVE NoAbortedLog'
    OBVIOUS
  <2>1. UNCHANGED steps => NoAbortedLog'
    BY DEF NoAbortedLog
  <2>2. ASSUME NEW l, Settle(l), l.log # "aborted" PROVE NoAbortedLog'
    BY <2>1, <2>2 DEF Settle, StepsIfCurrent, NoAbortedLog
  <2>3. CASE LogArrives
    <3>1. load \in Loads /\ load.of \in Jobs
      BY <2>3 DEF RequestsTypeOK, LogArrives, NoLoad, Loads
    <3>2. run[load.of].log \in RunLogs
      BY <3>1 DEF RequestsTypeOK
    <3>3. PICK log \in {run[load.of].log, "noLogs"} : Settle([load EXCEPT !.log = log])
      BY <2>3 DEF LogArrives
    <3>4. [load EXCEPT !.log = log].log # "aborted"
      <4>1. log # "aborted"
        BY <3>2 DEF RunLogs
      <4> QED
        BY <2>3, <3>1, <4>1 DEF LogArrives, Loads
    <3> QED
      BY <2>2, <3>3, <3>4
  <2>4. CASE WorkspaceArrives
    <3>1. load \in Loads /\ load.phase = "details"
      BY <2>4 DEF RequestsTypeOK, WorkspaceArrives, NoLoad, Loads
    <3>2. [load EXCEPT !.workspace = "ok"].log # "aborted"
      BY <3>1 DEF Loads, Logs
    <3> QED
      BY <2>2, <2>4, <3>2 DEF WorkspaceArrives
  <2>5. StepsAfterAbort = steps
    BY DEF StepsAfterAbort, StepsIfCurrent
  <2> QED
    BY <2>1, <2>3, <2>4, <2>5
    DEF Next, Responses, JobArrives, JobFails, WorkspaceFails, LoadFails, ContextArrives,
        PatchAnswered, LoadJob, Refresh, Poll, Hide, Show, Switch, RunMoves, LogFlushed, Press,
        vars, page
<1> QED
  BY <1>1, <1>2, RequestsTyped, PTL DEF Spec
--------------------------------------------------------------------------------
(* Faults after which the page may keep what it showed before.              *)
Calm == Faults \cap {"firstLoadFails", "contextFails", "switchWhileCancelling"} = {}

Own(shown) == shown = NothingShown \/ shown.of = jobId

(* What is under way is for the run the page was opened for; a cancel is    *)
(* answered on the page it was pressed on.                                  *)
OwnRequests ==
    /\ load # NoLoad => load.of = jobId
    /\ load.phase = "details" => Own(job)
    /\ contextLoad \in {None, jobId}
    /\ patch.status = "cancelled" => patch.of = jobId /\ ~ loading

(* Behind the spinner, the parts of the refresh that are done are those of  *)
(* that run, and the others are on their way.                               *)
OwnParts ==
    /\ loading \in BOOLEAN
    /\ awaited \in SUBSET {"job", "context"}
    /\ loading =>
         /\ awaited # {}
         /\ load # NoLoad => load.inRefresh
         /\ "job" \in awaited => load # NoLoad
         /\ "job" \notin awaited => Own(job) /\ Own(steps)
         /\ "context" \in awaited => contextLoad = jobId
         /\ "context" \notin awaited => context = jobId

OwnInv == RequestsTypeOK /\ OwnRequests /\ OwnParts /\ ShowsItsOwnRun
--------------------------------------------------------------------------------
LEMMA OwnInit == Init => OwnInv
<1> SUFFICES ASSUME Init PROVE OwnInv
  OBVIOUS
<1>1. RequestsTypeOK
  BY RequestsTypeInit
<1>2. OwnRequests
  BY DEF Init, OwnRequests, NoPatch
<1>3. load # NoLoad /\ load.inRefresh
  BY DEF Init, NoLoad
<1>4. OwnParts
  BY <1>3 DEF Init, OwnParts
<1>5. ShowsItsOwnRun
  BY DEF Init, ShowsItsOwnRun
<1> QED
  BY <1>1, <1>2, <1>4, <1>5 DEF OwnInv

(* Behind the spinner no load fails.                                        *)
LEMMA FirstLoadsArrive == ASSUME Calm, loading, load.inRefresh PROVE ~ MayFail
BY DEF MayFail, Calm

(* The answer that brings the job.                                          *)
LEMMA JobArrivesOwn == ASSUME OwnInv, JobArrives, RequestsTypeOK' PROVE OwnInv'
<1>1. /\ load \in Loads /\ load # NoLoad /\ load.of = jobId
      /\ load' # NoLoad /\ load'.of = jobId /\ load'.inRefresh = load.inRefresh
      /\ job'.of = jobId
      /\ UNCHANGED <<jobId, steps, context, loading, contextLoad, awaited, patch>>
  BY DEF OwnInv, OwnRequests, RequestsTypeOK, JobArrives, NoLoad
<1>2. Own(job)' /\ (Own(steps)' <=> Own(steps))
  BY <1>1 DEF Own
<1> QED
  BY <1>1, <1>2 DEF OwnInv, OwnRequests, OwnParts, ShowsItsOwnRun, Own

(* A finished load shows the steps of its run, and is over.                 *)
LEMMA SettleOwn ==
    ASSUME OwnInv, NEW l, l.of = jobId, l.inRefresh = load.inRefresh, l # NoLoad,
           load.phase = "details", load # NoLoad, l.phase = "details",
           Settle(l), UNCHANGED <<jobId, job, context, contextLoad, patch>>, RequestsTypeOK'
    PROVE  OwnInv'
<1>1. Own(job) /\ (Own(job)' <=> Own(job))
  BY DEF OwnInv, OwnRequests, Own
<1>2. CASE l.log = "pending" \/ l.workspace = "pending"
  <2>1. load' = l /\ UNCHANGED <<steps, loading, awaited>>
    BY <1>2 DEF Settle
  <2> QED
    BY <1>1, <2>1 DEF OwnInv, OwnRequests, OwnParts, ShowsItsOwnRun, Own
<1>3. CASE ~ (l.log = "pending" \/ l.workspace = "pending")
  <2>1. load' = NoLoad /\ steps'.of = jobId /\ DoneLoad
    BY <1>3 DEF Settle, StepsIfCurrent
  <2>2. Own(steps)'
    BY <2>1 DEF Own
  <2>3. OwnRequests'
    BY <1>1, <2>1 DEF OwnInv, OwnRequests, DoneLoad, Done, NoLoad
  <2>4. /\ awaited' = awaited \ (IF load.inRefresh THEN {"job"} ELSE {})
        /\ loading' = (loading /\ (awaited' # {} \/ awaited = {}))
    BY <2>1 DEF DoneLoad, Done
  <2>5. CASE loading
    <3>1. load.inRefresh /\ awaited # {} /\ awaited' = awaited \ {"job"}
      BY <2>4, <2>5 DEF OwnInv, OwnParts
    <3>2. OwnParts'
      BY <1>1, <2>1, <2>2, <2>4, <2>5, <3>1 DEF OwnInv, OwnParts
    <3>3. ShowsItsOwnRun'
      BY <1>1, <2>2, <2>4, <2>5, <3>1 DEF OwnInv, OwnParts, ShowsItsOwnRun, Own
    <3> QED
      BY <2>3, <3>2, <3>3 DEF OwnInv
  <2>6. CASE ~ loading
    <3>1. loading' = FALSE /\ awaited' \in SUBSET {"job", "context"}
      BY <2>4, <2>6 DEF OwnInv, OwnParts
    <3>2. ShowsItsOwnRun'
      BY <1>1, <2>2, <2>6 DEF OwnInv, ShowsItsOwnRun, Own
    <3> QED
      BY <2>3, <3>1, <3>2 DEF OwnInv, OwnParts
  <2> QED
    BY <2>5, <2>6
<1> QED
  BY <1>2, <1>3

LEMMA LogArrivesOwn == ASSUME OwnInv, LogArrives, RequestsTypeOK' PROVE OwnInv'
<1>1. load \in Loads /\ load # NoLoad /\ load.of = jobId
  BY DEF OwnInv, OwnRequests, RequestsTypeOK, LogArrives, NoLoad
<1>2. PICK log \in {run[load.of].log, "noLogs"} : Settle([load EXCEPT !.log = log])
  BY DEF LogArrives
<1> DEFINE l == [load EXCEPT !.log = log]
<1>3. l.of = jobId /\ l.inRefresh = load.inRefresh /\ l.phase = "details" /\ l # NoLoad
  BY <1>1 DEF LogArrives, Loads, NoLoad
<1> QED
  BY <1>1, <1>2, <1>3, SettleOwn DEF LogArrives

LEMMA WorkspaceArrivesOwn == ASSUME OwnInv, WorkspaceArrives, RequestsTypeOK' PROVE OwnInv'
<1>1. load \in Loads /\ load # NoLoad /\ load.of = jobId
  BY DEF OwnInv, OwnRequests, RequestsTypeOK, WorkspaceArrives, NoLoad
<1> DEFINE l == [load EXCEPT !.workspace = "ok"]
<1>2. l.of = jobId /\ l.inRefresh = load.inRefresh /\ l.phase = "details" /\ l # NoLoad
  BY <1>1 DEF WorkspaceArrives, Loads, NoLoad
<1> QED
  BY <1>1, <1>2, SettleOwn DEF WorkspaceArrives

(* A load that may fail is not the one the spinner waits for.               *)
LEMMA LoadFailsOwn ==
    ASSUME Calm, OwnInv, load # NoLoad, MayFail, LoadFails, RequestsTypeOK' PROVE OwnInv'
<1>1. ~ loading
  BY FirstLoadsArrive DEF OwnInv, OwnParts
<1>2. /\ load' = NoLoad /\ UNCHANGED <<jobId, job, steps, context, contextLoad, patch>>
      /\ awaited' \in SUBSET awaited /\ loading' = FALSE
  BY <1>1 DEF LoadFails, DoneLoad, Done
<1>3. OwnRequests' /\ OwnParts'
  BY <1>2 DEF OwnInv, OwnRequests, OwnParts, NoLoad
<1>4. ShowsItsOwnRun'
  BY <1>1, <1>2 DEF OwnInv, ShowsItsOwnRun
<1> QED
  BY <1>3, <1>4 DEF OwnInv

(* The plan context that arrives is that of the run.                        *)
LEMMA ContextArrivesOwn == ASSUME Calm, OwnInv, ContextArrives, RequestsTypeOK' PROVE OwnInv'
<1>1. /\ contextLoad = jobId /\ context' = jobId /\ contextLoad' = None
      /\ awaited' = awaited \ {"context"}
      /\ loading' = (loading /\ (awaited' # {} \/ awaited = {}))
      /\ UNCHANGED <<jobId, job, steps, load, patch>>
  BY DEF OwnInv, OwnRequests, ContextArrives, Calm, Done
<1>2. (Own(job)' <=> Own(job)) /\ (Own(steps)' <=> Own(steps))
  BY <1>1 DEF Own
<1>3. OwnRequests'
  BY <1>1, <1>2 DEF OwnInv, OwnRequests
<1>4. OwnParts'
  BY <1>1, <1>2 DEF OwnInv, OwnParts
<1>5. ASSUME ~ loading' PROVE Own(job) /\ Own(steps)
  <2>1. CASE loading
    <3>1. "job" \notin awaited
      <4>1. awaited' = {}
        BY <1>1, <1>5, <2>1, Zenon
      <4>2. awaited \ {"context"} = {}
        BY <1>1, <4>1
      <4> QED
        BY <4>2
    <3> QED
      BY <2>1, <3>1 DEF OwnInv, OwnParts
  <2>2. CASE ~ loading
    BY <2>2 DEF OwnInv, ShowsItsOwnRun, Own
  <2> QED
    BY <2>1, <2>2
<1>6. ShowsItsOwnRun'
  BY <1>1, <1>2, <1>5 DEF ShowsItsOwnRun, Own
<1> QED
  BY <1>3, <1>4, <1>6 DEF OwnInv

(* A refresh of the run the page is, or from now on will be, for.           *)
LEMMA RefreshOwn ==
    ASSUME OwnInv, NEW j \in Jobs, Refresh(j), jobId' = j,
           UNCHANGED <<job, context, patch>>,
           IF j = jobId THEN loading' = loading ELSE loading' = TRUE /\ patch.status # "cancelled",
           RequestsTypeOK'
    PROVE  OwnInv'
<1>1. /\ load' # NoLoad /\ load'.of = j /\ load'.inRefresh /\ load'.phase = "job" /\ steps' = steps
      /\ contextLoad' = j /\ awaited' = {"job", "context"}
  BY DEF Refresh, LoadJob, StepsAfterAbort, StepsIfCurrent, NoLoad
<1>2. CASE j = jobId
  BY <1>1, <1>2 DEF OwnInv, OwnRequests, OwnParts, ShowsItsOwnRun, Own
<1>3. CASE j # jobId
  BY <1>1, <1>3 DEF OwnInv, OwnRequests, OwnParts, ShowsItsOwnRun
<1> QED
  BY <1>2, <1>3

(* The load after a cancel is for the page it was pressed on.               *)
LEMMA PatchAnsweredOwn == ASSUME OwnInv, PatchAnswered, RequestsTypeOK' PROVE OwnInv'
<1>1. UNCHANGED <<jobId, job, context, contextLoad>> /\ patch' = NoPatch
  BY DEF PatchAnswered
<1>2. CASE patch.status = "cancelled"
  <2>1. patch.of = jobId /\ ~ loading
    BY <1>2 DEF OwnInv, OwnRequests
  <2>2. LoadJob(patch.of, FALSE) /\ Done({"job"})
    BY <1>2 DEF PatchAnswered
  <2>3. load'.of = jobId /\ load'.phase = "job" /\ steps' = steps
    BY <2>1, <2>2 DEF LoadJob, StepsAfterAbort, StepsIfCurrent
  <2>4. loading' = FALSE /\ awaited' = awaited \ {"job"}
    BY <2>1, <2>2 DEF Done
  <2>5. OwnRequests' /\ OwnParts'
    BY <1>1, <2>3, <2>4 DEF OwnInv, OwnRequests, OwnParts, NoPatch
  <2>6. ShowsItsOwnRun'
    BY <1>1, <2>1, <2>3 DEF OwnInv, ShowsItsOwnRun
  <2> QED
    BY <2>5, <2>6 DEF OwnInv
<1>3. CASE patch.status # "cancelled"
  <2>1. UNCHANGED <<steps, load, awaited, loading>>
    BY <1>3 DEF PatchAnswered
  <2> QED
    BY <1>1, <2>1 DEF OwnInv, OwnRequests, OwnParts, ShowsItsOwnRun, Own, NoPatch
<1> QED
  BY <1>2, <1>3

LEMMA OwnStep == ASSUME Calm, OwnInv, [Next]_vars PROVE OwnInv'
<1>1. RequestsTypeOK'
  BY RequestsTypeStep DEF OwnInv
<1>2. CASE JobArrives \/ LogArrives \/ WorkspaceArrives \/ ContextArrives \/ PatchAnswered
  BY <1>1, <1>2, JobArrivesOwn, LogArrivesOwn, WorkspaceArrivesOwn, ContextArrivesOwn, PatchAnsweredOwn
<1>3. CASE JobFails \/ WorkspaceFails
  BY <1>1, <1>3, LoadFailsOwn DEF JobFails, WorkspaceFails, NoLoad
<1>4. CASE Poll
  BY <1>1, <1>4, RefreshOwn DEF Poll, OwnInv, RequestsTypeOK
<1>5. ASSUME NEW j \in Jobs, Switch(j) PROVE OwnInv'
  <2>1. patch.status # "cancelled" /\ loading' = TRUE /\ j # jobId
    BY <1>5 DEF Switch, Calm
  <2> QED
    BY <1>1, <1>5, <2>1, RefreshOwn DEF Switch
<1>6. ASSUME UNCHANGED <<jobId, job, steps, context, loading, load, contextLoad, awaited>>,
             patch' = patch \/ (patch'.of = jobId /\ ~ loading)
      PROVE OwnInv'
  BY <1>1, <1>6 DEF OwnInv, OwnRequests, OwnParts, ShowsItsOwnRun, Own
<1>7. CASE Hide \/ Show \/ UNCHANGED vars
  BY <1>6, <1>7 DEF Hide, Show, vars, page, requests
<1>8. ASSUME NEW j \in Jobs, RunMoves(j) \/ LogFlushed(j) PROVE OwnInv'
  BY <1>6, <1>8 DEF RunMoves, LogFlushed, page, requests
<1>9. ASSUME NEW s \in {"approved", "rejected", "cancelled"}, Press(s) PROVE OwnInv'
  BY <1>6, <1>9 DEF Press, Offered, page
<1> QED
  BY <1>2, <1>3, <1>4, <1>5, <1>7, <1>8, <1>9 DEF Next, Responses

(* refreshJobDetails, loadJob, loadContext: without the spinner the page    *)
(* shows the job, the step and the plan of the run it was opened for, as    *)
(* long as first loads and plan contexts arrive and nobody starts another   *)
(* run while a cancel is on its way.                                        *)
THEOREM PageShowsItsOwnRun == Calm => (Spec => []ShowsItsOwnRun)
<1> SUFFICES ASSUME Calm PROVE Spec => []ShowsItsOwnRun
  OBVIOUS
<1>1. OwnInv /\ [Next]_vars => OwnInv'
  BY OwnStep
<1>2. OwnInv => ShowsItsOwnRun
  BY DEF OwnInv
<1> QED
  BY <1>1, <1>2, OwnInit, PTL DEF Spec
--------------------------------------------------------------------------------
(* Faults after which the page may stop polling with less than the end.     *)
Reliable ==
    Faults \cap {"firstLoadFails", "contextFails", "switchWhileCancelling",
                 "lastRefreshFails", "cancelReloadFails", "slowLoads"} = {}

(* The step of a run ends no later than its job; a decision that is on its  *)
(* way finds the run still undecided.                                       *)
RunsInStep ==
    /\ \A j \in Jobs :
         /\ run[j].job \in Terminal => run[j].step \in {"completed", "failed", "cancelled"}
         /\ run[j].job = "waitingApproval" => run[j].step = "pending"
    /\ patch.status \in {"approved", "rejected"} => run[patch.of].job = "waitingApproval"

ShownTypeOK ==
    /\ steps \in {NothingShown} \cup [of : Jobs, status : StepStatuses, log : Logs]
    /\ finals \in 0 .. MaxFinalLogRefreshes

(* No load is under way but a refresh behind an up-to-date page.            *)
Resting == load = NoLoad \/ (load.phase = "job" /\ load.inRefresh /\ ~ loading)

(* Once the page shows the end of its run, it shows, or is about to show,   *)
(* how the step ended.                                                      *)
EndInSync ==
    /\ JobIsTerminal /\ job.of = jobId /\ Resting =>
         /\ job.status = run[jobId].job
         /\ steps # NothingShown /\ steps.of = jobId /\ steps.status = run[jobId].step
    /\ JobIsTerminal /\ load.phase = "details" =>
         job.status = run[jobId].job /\ load.status = run[jobId].step

SpinnerInSync == loading => ("job" \in awaited <=> load # NoLoad)

PollingFollows == PollingEnabled => polling

EndInv == OwnInv /\ RunsInStep /\ ShownTypeOK /\ EndInSync /\ SpinnerInSync /\ PollingFollows
--------------------------------------------------------------------------------
LEMMA RunsInStepInit == Init => RunsInStep
<1> SUFFICES ASSUME Init PROVE RunsInStep
  OBVIOUS
<1>1. ASSUME NEW j \in Jobs
      PROVE  /\ run[j].job \in Terminal => run[j].step \in {"completed", "failed", "cancelled"}
             /\ run[j].job = "waitingApproval" => run[j].step = "pending"
  <2>1. FirstStatus[j] \in {"waitingApproval", "running", "completed"}
    BY FirstStatusAssumption
  <2> QED
    BY <2>1 DEF Init, Terminal
<1> QED
  BY <1>1 DEF Init, RunsInStep, NoPatch

LEMMA RunsInStepStep == ASSUME RequestsTypeOK, RunsInStep, [Next]_vars PROVE RunsInStep'
<1> USE DEF RunsInStep
<1>1. CASE UNCHANGED <<run, patch>>
  BY <1>1
<1>2. CASE PatchAnswered
  <2>1. patch \in Patches /\ patch.of \in Jobs /\ patch' = NoPatch
    BY <1>2 DEF RequestsTypeOK, PatchAnswered, NoPatch, Patches
  <2>2. ASSUME NEW j \in Jobs, j # patch.of PROVE run'[j] = run[j]
    BY <1>2, <2>1, <2>2 DEF PatchAnswered, RequestsTypeOK
  <2>3. /\ run'[patch.of].job = patch.status
        /\ patch.status = "rejected" /\ run[patch.of].step = "pending"
              => run'[patch.of].step = "failed"
        /\ patch.status = "cancelled" =>
              run'[patch.of].step = IF run[patch.of].step \in {"pending", "running"}
                                    THEN "cancelled" ELSE run[patch.of].step
    BY <1>2, <2>1 DEF PatchAnswered, RequestsTypeOK
  <2>4. run[patch.of].step \in StepStatuses
    BY <2>1 DEF RequestsTypeOK
  <2>5. /\ run'[patch.of].job \in Terminal =>
              run'[patch.of].step \in {"completed", "failed", "cancelled"}
        /\ run'[patch.of].job # "waitingApproval"
    BY <2>1, <2>3, <2>4 DEF Patches, Terminal, StepStatuses
  <2> QED
    BY <2>1, <2>2, <2>5 DEF NoPatch
<1>3. ASSUME NEW j \in Jobs, RunMoves(j) PROVE RunsInStep'
  <2>1. patch' = patch /\ \A i \in Jobs \ {j} : run'[i] = run[i]
    BY <1>3 DEF RunMoves, RequestsTypeOK, requests
  <2>2. /\ run[j].job \in {"approved", "running"}
        /\ run'[j].job # "waitingApproval"
        /\ run'[j].job \in Terminal => run'[j].step \in {"completed", "failed", "cancelled"}
    BY <1>3 DEF RunMoves, RequestsTypeOK, Terminal
  <2>3. patch \in {NoPatch} \cup Patches
    BY DEF RequestsTypeOK
  <2> QED
    BY <2>1, <2>2, <2>3 DEF Patches, NoPatch
<1>4. ASSUME NEW j \in Jobs, LogFlushed(j) PROVE RunsInStep'
  <2>1. patch' = patch /\ \A i \in Jobs : run'[i].job = run[i].job /\ run'[i].step = run[i].step
    BY <1>4 DEF LogFlushed, RequestsTypeOK, requests
  <2>2. patch \in {NoPatch} \cup Patches
    BY DEF RequestsTypeOK
  <2> QED
    BY <2>1, <2>2 DEF Patches, NoPatch
<1>5. ASSUME NEW s \in {"approved", "rejected", "cancelled"}, Press(s) PROVE RunsInStep'
  <2>1. /\ run' = run /\ patch' = [status |-> s, of |-> jobId] /\ job.status = run[jobId].job
        /\ s \in Offered
    BY <1>5 DEF Press
  <2>2. s \in {"approved", "rejected"} => job.status = "waitingApproval"
    BY <2>1 DEF Offered
  <2> QED
    BY <2>1, <2>2
<1> QED
  BY <1>1, <1>2, <1>3, <1>4, <1>5
  DEF Next, Responses, JobArrives, JobFails, LogArrives, WorkspaceArrives, WorkspaceFails, LoadFails,
      ContextArrives, Poll, Hide, Show, Switch, vars, page, requests

(* A load that is over shows its step with a log.                           *)
LEMMA SettleShows ==
    ASSUME RequestsTypeOK, ShownTypeOK, NEW l \in Loads, l.phase = "details", Settle(l),
           finals' = finals
    PROVE  ShownTypeOK'
<1>1. CASE UNCHANGED steps
  BY <1>1 DEF ShownTypeOK
<1>2. CASE ~ (l.log = "pending" \/ l.workspace = "pending")
  <2>1. steps' = [of |-> l.of, status |-> l.status, log |-> l.log]
    BY <1>2 DEF Settle, StepsIfCurrent
  <2>2. l.of \in Jobs /\ l.status \in StepStatuses /\ l.log \in Logs
    BY <1>2 DEF Loads
  <2> QED
    BY <2>1, <2>2 DEF ShownTypeOK
<1> QED
  BY <1>1, <1>2 DEF Settle

LEMMA ShownTypeStep == ASSUME RequestsTypeOK, ShownTypeOK, [Next]_vars PROVE ShownTypeOK'
<1>1. CASE UNCHANGED <<steps, finals>>
  BY <1>1 DEF ShownTypeOK
<1>2. CASE LogArrives
  <2>1. load \in Loads /\ load.phase = "details" /\ load.of \in Jobs
    BY <1>2 DEF RequestsTypeOK, LogArrives, NoLoad, Loads
  <2>2. PICK log \in {run[load.of].log, "noLogs"} : Settle([load EXCEPT !.log = log])
    BY <1>2 DEF LogArrives
  <2>3. log \in Logs \ {"aborted"}
    BY <1>2, <2>1, <2>2 DEF RequestsTypeOK, LogArrives, RunLogs, Logs, Placeholders
  <2> DEFINE new == [load EXCEPT !.log = log]
  <2>4. new \in Loads /\ new.phase = "details"
    BY <2>1, <2>3 DEF Loads
  <2> QED
    BY <1>2, <2>2, <2>4, SettleShows DEF LogArrives
<1>3. CASE WorkspaceArrives
  <2> DEFINE new == [load EXCEPT !.workspace = "ok"]
  <2>1. load \in Loads /\ load.phase = "details"
    BY <1>3 DEF RequestsTypeOK, WorkspaceArrives, NoLoad, Loads
  <2>2. new \in Loads /\ new.phase = "details"
    BY <2>1 DEF Loads
  <2> QED
    BY <1>3, <2>2, SettleShows DEF WorkspaceArrives
<1>4. StepsAfterAbort = steps
  BY DEF StepsAfterAbort, StepsIfCurrent
<1>5. CASE PatchAnswered
  BY <1>1, <1>4, <1>5 DEF PatchAnswered, LoadJob
<1>6. CASE Poll
  <2>1. steps' = steps
    BY <1>4, <1>6 DEF Poll, Refresh, LoadJob
  <2>2. finals' \in 0 .. MaxFinalLogRefreshes
    BY <1>6, MaxFinalLogRefreshesAssumption DEF Poll, ShownTypeOK
  <2> QED
    BY <2>1, <2>2 DEF ShownTypeOK
<1>7. ASSUME NEW j \in Jobs, Switch(j) PROVE ShownTypeOK'
  <2>1. steps' = steps /\ finals' = 0
    BY <1>4, <1>7 DEF Switch, Refresh, LoadJob
  <2> QED
    BY <2>1, MaxFinalLogRefreshesAssumption DEF ShownTypeOK
<1> QED
  BY <1>1, <1>2, <1>3, <1>5, <1>6, <1>7
  DEF Next, Responses, JobArrives, JobFails, WorkspaceFails, LoadFails, ContextArrives, Hide, Show,
      RunMoves, LogFlushed, Press, vars, page

(* The render after a state change sets the flag; a poll that is counted    *)
(* only brings the end nearer.                                              *)
LEMMA PollingFollowsStep == ASSUME ShownTypeOK, PollingFollows, [Next]_vars PROVE PollingFollows'
<1>1. ASSUME Render PROVE PollingFollows'
  BY <1>1, Zenon DEF Render, PollingFollows
<1>2. ASSUME UNCHANGED <<job, steps, finals, polling>> PROVE PollingFollows'
  <2>1. (PollingEnabled' <=> PollingEnabled)
    BY <1>2 DEF PollingEnabled, JobIsTerminal, HasIncompleteFinishedLog
  <2> QED
    BY <1>2, <2>1, Zenon DEF PollingFollows
<1>3. CASE Responses
  BY <1>1, <1>3 DEF Responses, JobArrives, JobFails, LogArrives, WorkspaceArrives, WorkspaceFails,
                    LoadFails, ContextArrives, PatchAnswered
<1>4. CASE Poll
  <2>1. UNCHANGED <<job, steps, polling>>
    BY <1>4 DEF Poll, Refresh, LoadJob, StepsAfterAbort, StepsIfCurrent, timer
  <2>2. finals' < MaxFinalLogRefreshes => finals < MaxFinalLogRefreshes
    BY <1>4, MaxFinalLogRefreshesAssumption DEF Poll, ShownTypeOK
  <2>3. PollingEnabled' => PollingEnabled
    BY <2>1, <2>2 DEF PollingEnabled, JobIsTerminal, HasIncompleteFinishedLog
  <2> QED
    BY <2>1, <2>3, Zenon DEF PollingFollows
<1>5. ASSUME NEW j \in Jobs, Switch(j) PROVE PollingFollows'
  BY <1>1, <1>5 DEF Switch
<1> QED
  BY <1>2, <1>3, <1>4, <1>5 DEF Next, Hide, Show, RunMoves, LogFlushed, Press, vars, page, timer

(* The spinner waits for the job as long as its load is under way.          *)
LEMMA SpinnerInSyncStep ==
    ASSUME Calm, OwnInv, SpinnerInSync, [Next]_vars PROVE SpinnerInSync'
<1>1. CASE UNCHANGED <<loading, awaited, load>>
  BY <1>1 DEF SpinnerInSync
<1>2. CASE JobArrives
  BY <1>2 DEF JobArrives, SpinnerInSync, NoLoad
<1>3. CASE JobFails \/ WorkspaceFails
  <2>1. ~ loading
    BY <1>3, FirstLoadsArrive DEF OwnInv, OwnParts, JobFails, WorkspaceFails, NoLoad
  <2>2. loading' = FALSE
    BY <1>3, <2>1 DEF JobFails, WorkspaceFails, LoadFails, DoneLoad, Done
  <2> QED
    BY <2>2 DEF SpinnerInSync
<1>4. ASSUME NEW l, l # NoLoad, load # NoLoad, Settle(l) PROVE SpinnerInSync'
  <2>1. CASE load' = l /\ UNCHANGED <<steps, loading, awaited>>
    BY <1>4, <2>1 DEF SpinnerInSync
  <2>2. CASE load' = NoLoad /\ DoneLoad
    <3>1. CASE loading
      <4>1. "job" \notin awaited'
        BY <1>4, <2>2, <3>1 DEF OwnInv, OwnParts, DoneLoad, Done
      <4> QED
        BY <2>2, <4>1 DEF SpinnerInSync
    <3>2. CASE ~ loading
      <4>1. loading' = FALSE
        BY <2>2, <3>2 DEF DoneLoad, Done
      <4> QED
        BY <4>1 DEF SpinnerInSync
    <3> QED
      BY <3>1, <3>2
  <2> QED
    BY <1>4, <2>1, <2>2 DEF Settle
<1>5. CASE LogArrives
  <2>1. load \in Loads
    BY <1>5 DEF OwnInv, RequestsTypeOK, LogArrives, NoLoad
  <2>2. PICK log : Settle([load EXCEPT !.log = log])
    BY <1>5 DEF LogArrives
  <2>3. [load EXCEPT !.log = log] # NoLoad /\ load # NoLoad
    BY <1>5, <2>1 DEF LogArrives, Loads, NoLoad
  <2> QED
    BY <1>4, <2>2, <2>3
<1>6. CASE WorkspaceArrives
  <2>1. load \in Loads
    BY <1>6 DEF OwnInv, RequestsTypeOK, WorkspaceArrives, NoLoad
  <2>2. [load EXCEPT !.workspace = "ok"] # NoLoad /\ load # NoLoad
    BY <1>6, <2>1 DEF WorkspaceArrives, Loads, NoLoad
  <2> QED
    BY <1>4, <1>6, <2>2 DEF WorkspaceArrives
<1>7. CASE ContextArrives
  BY <1>7 DEF ContextArrives, Done, SpinnerInSync, OwnInv, OwnParts
<1>8. CASE Poll
  BY <1>8 DEF Poll, Refresh, LoadJob, SpinnerInSync, NoLoad
<1>9. ASSUME NEW j \in Jobs, Switch(j) PROVE SpinnerInSync'
  BY <1>9 DEF Switch, Refresh, LoadJob, SpinnerInSync, NoLoad
<1>10. CASE PatchAnswered
  <2>1. CASE patch.status = "cancelled"
    <3>1. loading' = FALSE
      BY <1>10, <2>1 DEF PatchAnswered, Done, OwnInv, OwnRequests
    <3> QED
      BY <3>1 DEF SpinnerInSync
  <2>2. CASE patch.status # "cancelled"
    BY <1>1, <1>10, <2>2 DEF PatchAnswered
  <2> QED
    BY <2>1, <2>2
<1> QED
  BY <1>1, <1>2, <1>3, <1>5, <1>6, <1>7, <1>8, <1>9, <1>10
  DEF Next, Responses, Hide, Show, RunMoves, LogFlushed, Press, vars, page, requests
--------------------------------------------------------------------------------
LEMMA ReliableIsCalm == Reliable => Calm
BY DEF Reliable, Calm

(* Which loads may still fail: refreshes of a page that does not yet show   *)
(* the end of its run.                                                      *)
LEMMA EarlyLoadsFail ==
    ASSUME Reliable, MayFail
    PROVE  load.inRefresh /\ ~ loading /\ ~ (load.phase = "details" /\ JobIsTerminal)
BY DEF Reliable, MayFail

(* What the invariant says of job, step and run when nothing of it changes. *)
LEMMA EndInSyncFrame ==
    ASSUME EndInSync, UNCHANGED <<jobId, job, steps>>, Resting' => Resting,
           load'.phase = "details" => load.phase = "details" /\ load'.status = load.status,
           JobIsTerminal /\ job.of = jobId /\ job.status = run[jobId].job =>
               run'[jobId].job = run[jobId].job /\ run'[jobId].step = run[jobId].step,
           load.phase = "details" => Own(job)
    PROVE  EndInSync'
<1>1. JobIsTerminal' <=> JobIsTerminal
  BY DEF JobIsTerminal
<1>2. JobIsTerminal /\ load.phase = "details" => job.of = jobId
  BY DEF JobIsTerminal, Own
<1> QED
  BY <1>1, <1>2 DEF EndInSync

(* The load that is over was of the run whose end the page shows.           *)
LEMMA SettleInSync ==
    ASSUME OwnInv, EndInSync, NEW l \in Loads, load \in Loads, load.phase = "details",
           l.phase = "details", l.of = load.of, l.status = load.status, Settle(l),
           UNCHANGED <<run, jobId, job>>
    PROVE  EndInSync'
<1>1. load # NoLoad /\ load.of = jobId /\ l # NoLoad
  BY DEF OwnInv, OwnRequests, NoLoad
<1>2. CASE load' = l /\ UNCHANGED <<steps, loading, awaited>>
  <2>1. ~ Resting'
    BY <1>1, <1>2 DEF Resting
  <2> QED
    BY <1>2, <2>1, EndInSyncFrame DEF OwnInv, OwnRequests
<1>3. CASE /\ steps' = [of |-> l.of, status |-> l.status, log |-> l.log]
           /\ load' = NoLoad
  <2>1. steps' # NothingShown /\ steps'.of = jobId /\ steps'.status = load.status
    BY <1>1, <1>3 DEF NothingShown
  <2>2. JobIsTerminal => job.status = run[jobId].job /\ load.status = run[jobId].step
    BY DEF EndInSync
  <2>3. JobIsTerminal' <=> JobIsTerminal
    BY DEF JobIsTerminal
  <2> QED
    BY <1>3, <2>1, <2>2, <2>3 DEF EndInSync, NoLoad
<1> QED
  BY <1>2, <1>3 DEF Settle, StepsIfCurrent

LEMMA EndInSyncResponses ==
    ASSUME Reliable, OwnInv, RunsInStep, EndInSync, SpinnerInSync, Responses PROVE EndInSync'
<1>1. CASE JobArrives
  <2>1. /\ load'.phase = "details" /\ load' # NoLoad /\ load'.status = run[jobId].step
        /\ job' = [of |-> jobId, status |-> run[jobId].job]
        /\ run' = run /\ jobId' = jobId
    BY <1>1 DEF JobArrives, OwnInv, OwnRequests, NoLoad
  <2>2. ~ Resting'
    BY <2>1 DEF Resting
  <2> QED
    BY <2>1, <2>2 DEF EndInSync
<1>2. CASE JobFails \/ WorkspaceFails
  <2>1. load.inRefresh /\ ~ loading /\ ~ (load.phase = "details" /\ JobIsTerminal)
    BY <1>2, EarlyLoadsFail DEF JobFails, WorkspaceFails
  <2>2. /\ load' = NoLoad /\ load'.phase # "details"
        /\ UNCHANGED <<run, jobId, job, steps>>
    BY <1>2 DEF JobFails, WorkspaceFails, LoadFails, NoLoad
  <2>3. CASE JobIsTerminal
    <3>1. Resting
      BY <1>2, <2>1, <2>3 DEF JobFails, WorkspaceFails, Resting
    <3> QED
      BY <2>2, <3>1, EndInSyncFrame DEF OwnInv, OwnRequests
  <2>4. CASE ~ JobIsTerminal
    BY <2>2, <2>4 DEF EndInSync, JobIsTerminal
  <2> QED
    BY <2>3, <2>4
<1>3. CASE LogArrives
  <2>1. load \in Loads /\ load.phase = "details" /\ load.of \in Jobs
    BY <1>3 DEF OwnInv, RequestsTypeOK, LogArrives, NoLoad, Loads
  <2>2. PICK log \in {run[load.of].log, "noLogs"} : Settle([load EXCEPT !.log = log])
    BY <1>3 DEF LogArrives
  <2>3. log \in Logs \ {"aborted"}
    BY <1>3, <2>1, <2>2 DEF OwnInv, RequestsTypeOK, LogArrives, RunLogs, Logs, Placeholders
  <2> DEFINE new == [load EXCEPT !.log = log]
  <2>4. new \in Loads /\ new.phase = "details" /\ new.of = load.of /\ new.status = load.status
    BY <2>1, <2>3 DEF Loads
  <2> QED
    BY <1>3, <2>1, <2>2, <2>4, SettleInSync DEF LogArrives
<1>4. CASE WorkspaceArrives
  <2> DEFINE new == [load EXCEPT !.workspace = "ok"]
  <2>1. load \in Loads /\ load.phase = "details"
    BY <1>4 DEF OwnInv, RequestsTypeOK, WorkspaceArrives, NoLoad, Loads
  <2>2. new \in Loads /\ new.phase = "details" /\ new.of = load.of /\ new.status = load.status
    BY <2>1 DEF Loads
  <2> QED
    BY <1>4, <2>1, <2>2, SettleInSync DEF WorkspaceArrives
<1>5. CASE ContextArrives
  <2>1. Resting' => Resting
    <3>1. CASE loading
      <4>1. awaited' = awaited \ {"context"} /\ awaited # {} /\ load' = load
            /\ loading' = (awaited' # {} \/ awaited = {})
        BY <1>5, <3>1 DEF ContextArrives, Done, OwnInv, OwnParts
      <4>2. ~ loading' => "job" \notin awaited
        <5>1. ~ loading' => awaited' = {}
          BY <4>1, Zenon
        <5> QED
          BY <4>1, <5>1
      <4> QED
        BY <3>1, <4>1, <4>2 DEF SpinnerInSync, Resting
    <3>2. CASE ~ loading
      BY <1>5, <3>2 DEF ContextArrives, Resting
    <3> QED
      BY <3>1, <3>2
  <2> QED
    BY <1>5, <2>1, EndInSyncFrame DEF ContextArrives, OwnInv, OwnRequests
<1>6. CASE PatchAnswered
  <2>1. patch \in Patches /\ patch.of \in Jobs /\ UNCHANGED <<jobId, job>>
    BY <1>6 DEF OwnInv, RequestsTypeOK, PatchAnswered, NoPatch, Patches
  <2>2. CASE patch.status = "cancelled"
    <3>1. load'.phase = "job" /\ ~ load'.inRefresh /\ load' # NoLoad
      BY <1>6, <2>2 DEF PatchAnswered, LoadJob, NoLoad
    <3>2. ~ Resting'
      BY <3>1 DEF Resting
    <3> QED
      BY <3>1, <3>2 DEF EndInSync
  <2>3. CASE patch.status # "cancelled"
    <3>1. run[patch.of].job = "waitingApproval"
      BY <2>1, <2>3 DEF RunsInStep, Patches
    <3>2. jobId # patch.of => run'[jobId] = run[jobId]
      BY <1>6, <2>1 DEF PatchAnswered, OwnInv, RequestsTypeOK
    <3>3. UNCHANGED <<steps, load, loading>>
      BY <1>6, <2>3 DEF PatchAnswered
    <3>4. JobIsTerminal => job.status # "waitingApproval"
      BY DEF JobIsTerminal, Terminal
    <3> QED
      BY <2>1, <3>1, <3>2, <3>3, <3>4, EndInSyncFrame DEF OwnInv, OwnRequests, Resting
  <2> QED
    BY <2>2, <2>3
<1> QED
  BY <1>1, <1>2, <1>3, <1>4, <1>5, <1>6 DEF Responses

LEMMA EndInSyncStep ==
    ASSUME Reliable, OwnInv, RunsInStep, EndInSync, SpinnerInSync, [Next]_vars PROVE EndInSync'
<1>1. ASSUME UNCHANGED <<jobId, job, steps, loading, load>>,
             run'[jobId] = run[jobId] \/
                 /\ run[jobId].job \in Terminal =>
                      run'[jobId].job = run[jobId].job /\ run'[jobId].step = run[jobId].step
      PROVE  EndInSync'
  <2>1. Resting' => Resting
    BY <1>1 DEF Resting
  <2>2. JobIsTerminal /\ job.status = run[jobId].job => run[jobId].job \in Terminal
    BY DEF JobIsTerminal
  <2> QED
    BY <1>1, <2>1, <2>2, EndInSyncFrame DEF OwnInv, OwnRequests
<1>2. CASE Hide \/ Show \/ UNCHANGED vars
  BY <1>1, <1>2 DEF Hide, Show, vars, page, requests
<1>3. ASSUME NEW s \in {"approved", "rejected", "cancelled"}, Press(s) PROVE EndInSync'
  BY <1>1, <1>3 DEF Press, page
<1>4. ASSUME NEW j \in Jobs, RunMoves(j) \/ LogFlushed(j) PROVE EndInSync'
  <2>1. UNCHANGED <<jobId, job, steps, loading, load>>
    BY <1>4 DEF RunMoves, LogFlushed, page, requests
  <2>2. j # jobId => run'[jobId] = run[jobId]
    BY <1>4 DEF RunMoves, LogFlushed, OwnInv, RequestsTypeOK
  <2>3. run[j].job \in Terminal => run'[j].job = run[j].job /\ run'[j].step = run[j].step
    BY <1>4 DEF RunMoves, LogFlushed, OwnInv, RequestsTypeOK, Terminal
  <2> QED
    BY <1>1, <2>1, <2>2, <2>3
<1>5. CASE Poll
  <2>1. /\ load = NoLoad /\ load'.phase = "job"
        /\ UNCHANGED <<run, jobId, job, steps, loading>>
    BY <1>5 DEF Poll, Reliable, Refresh, LoadJob, StepsAfterAbort, StepsIfCurrent
  <2> QED
    BY <2>1, EndInSyncFrame DEF Resting, OwnInv, OwnRequests
<1>6. ASSUME NEW j \in Jobs, Switch(j) PROVE EndInSync'
  <2>1. load'.phase = "job" /\ load' # NoLoad /\ loading' = TRUE
    BY <1>6 DEF Switch, Refresh, LoadJob, NoLoad
  <2>2. ~ Resting'
    BY <2>1 DEF Resting
  <2> QED
    BY <2>1, <2>2 DEF EndInSync
<1> QED
  BY <1>2, <1>3, <1>4, <1>5, <1>6, EndInSyncResponses DEF Next

LEMMA EndInvInit == Init => EndInv
<1> SUFFICES ASSUME Init PROVE EndInv
  OBVIOUS
<1>1. ShownTypeOK
  BY MaxFinalLogRefreshesAssumption DEF Init, ShownTypeOK
<1>2. EndInSync /\ SpinnerInSync /\ PollingFollows
  BY DEF Init, EndInSync, JobIsTerminal, SpinnerInSync, NoLoad, PollingFollows
<1> QED
  BY <1>1, <1>2, OwnInit, RunsInStepInit DEF EndInv

(* refreshJobDetails, usePolling: a page without a running interval shows   *)
(* the end of its own run, with the step as it ended and the whole log of a *)
(* completed step unless the last refreshes are used up.                    *)
THEOREM PollingEndsComplete == Reliable => (Spec => []PollsUntilComplete)
<1> SUFFICES ASSUME Reliable PROVE Spec => []PollsUntilComplete
  OBVIOUS
<1>1. EndInv /\ [Next]_vars => EndInv'
  BY ReliableIsCalm, OwnStep, RunsInStepStep, ShownTypeStep, EndInSyncStep, SpinnerInSyncStep,
     PollingFollowsStep DEF EndInv, OwnInv
<1>2. EndInv => PollsUntilComplete
  <2> SUFFICES ASSUME EndInv, ~ (polling \/ leaked), load = NoLoad
               PROVE  /\ job.of = jobId /\ job.status = run[jobId].job
                      /\ steps.of = jobId /\ LogShown
    BY DEF PollsUntilComplete
  <2>1. JobIsTerminal /\ ~ (HasIncompleteFinishedLog /\ finals < MaxFinalLogRefreshes)
    BY DEF EndInv, PollingFollows, PollingEnabled
  <2>2. Own(job)
    BY DEF EndInv, OwnInv, OwnParts, ShowsItsOwnRun, Own
  <2>3. job.of = jobId /\ Resting
    BY <2>1, <2>2 DEF JobIsTerminal, Own, Resting
  <2>4. /\ job.status = run[jobId].job
        /\ steps # NothingShown /\ steps.of = jobId /\ steps.status = run[jobId].step
    BY <2>1, <2>3 DEF EndInv, EndInSync
  <2>5. steps.status = "completed" => steps.log = "full" \/ finals = MaxFinalLogRefreshes
    <3>1. steps.log \in Logs /\ finals \in 0 .. MaxFinalLogRefreshes
      BY <2>4 DEF EndInv, ShownTypeOK
    <3> QED
      BY <2>1, <2>4, <3>1, MaxFinalLogRefreshesAssumption DEF HasIncompleteFinishedLog, Logs
  <2> QED
    BY <2>3, <2>4, <2>5 DEF LogShown
<1> QED
  BY <1>1, <1>2, EndInvInit, PTL DEF Spec
================================================================================
