-------------------------- MODULE TerrakubeRunsProofs --------------------------
(****************************************************************************)
(* What holds of the run subsystem for any number of replicas, jobs and     *)
(* workspaces, any templates, and every behaviour of the environment; and   *)
(* what an approval gate is good for when one process polls.                *)
(****************************************************************************)
EXTENDS TerrakubeRuns, TLAPS

(* A loop that claims a step, or has claimed one, knows which: its row and  *)
(* its step number are those of a job and of a step.                        *)
ClaimingPc == HoldingPc \cup {"claimStep"}

LoopsOK ==
    /\ sched \in [Replicas -> Loop]
    /\ \A r \in Replicas : sched[r].pc \in ClaimingPc =>
          sched[r].row \in Row /\ sched[r].num \in StepNumbers

TypeInv == TablesTypeOK /\ LoopsOK /\ calls \subseteq Call /\ ApiTypeOK
--------------------------------------------------------------------------------
(* The single-table writes keep the types of their tables.                  *)

LEMMA SetJobType ==
    ASSUME job \in [Jobs -> JobStatus], NEW j, NEW status \in JobStatus,
           SetJob(j, status)
    PROVE  job' \in [Jobs -> JobStatus]
  BY DEF SetJob

LEMMA SetStepType ==
    ASSUME step \in [Jobs -> [StepNumbers -> StepStatus]],
           NEW j, NEW n, NEW status \in StepStatus, SetStep(j, n, status)
    PROVE  step' \in [Jobs -> [StepNumbers -> StepStatus]]
  BY DEF SetStep

LEMMA MoveStepsType ==
    ASSUME step \in [Jobs -> [StepNumbers -> StepStatus]],
           NEW j, NEW from, NEW to \in StepStatus, MoveSteps(j, from, to)
    PROVE  step' \in [Jobs -> [StepNumbers -> StepStatus]]
  BY DEF MoveSteps

LEMMA SetLockType ==
    ASSUME locked \in [Workspaces -> BOOLEAN], NEW w, NEW held \in BOOLEAN,
           SetLock(w, held)
    PROVE  locked' \in [Workspaces -> BOOLEAN]
  BY DEF SetLock

LEMMA StartPodType ==
    ASSUME pod \in [Jobs -> [StepNumbers -> Pod]], NEW j, NEW n,
           NEW type \in StepTypes, StartPod(j, n, type)
    PROVE  pod' \in [Jobs -> [StepNumbers -> Pod]]
  BY DEF StartPod, Pod, PodPc, Verdicts

LEMMA MovePodType ==
    ASSUME pod \in [Jobs -> [StepNumbers -> Pod]], NEW j \in Jobs, NEW n \in StepNumbers,
           NEW pc \in PodPc, NEW verdict \in Verdicts, MovePod(j, n, pc, verdict)
    PROVE  pod' \in [Jobs -> [StepNumbers -> Pod]]
  <1> DEFINE moved == [pod[j][n] EXCEPT !.pc = pc, !.verdict = verdict]
  <1>1. pod[j][n] \in Pod
    OBVIOUS
  <1>2. moved \in Pod
    BY <1>1 DEF Pod
  <1>3. pod' = [pod EXCEPT ![j] = [@ EXCEPT ![n] = moved]]
    BY DEF MovePod
  <1> HIDE DEF moved
  <1> QED
    BY <1>2, <1>3

(* The moves of a loop keep it typed, and knowing its row.                  *)

LEMMA GotoType ==
    ASSUME LoopsOK, NEW r \in Replicas, NEW pc \in SchedPc, Goto(r, pc),
           pc \in ClaimingPc => sched[r].pc \in ClaimingPc
    PROVE  LoopsOK'
  BY DEF LoopsOK, Goto, Loop

LEMMA NextRowType ==
    ASSUME LoopsOK, NEW r \in Replicas, NEW rows \in SUBSET Row, NextRow(r, rows)
    PROVE  LoopsOK'
  BY DEF LoopsOK, NextRow, Loop, IdleLoop, SchedPc, NoRow, ClaimingPc, HoldingPc

LEMMA EndOfRowType ==
    ASSUME LoopsOK, NEW r \in Replicas, EndOfRow(r)
    PROVE  LoopsOK'
  BY NextRowType DEF EndOfRow, Loop, LoopsOK

LEMMA TakeRowType ==
    ASSUME LoopsOK, NEW r \in Replicas, NEW x \in sched[r].rows, NEW pc \in SchedPc,
           NEW n \in StepNumbers \cup {0}, TakeRow(r, x, pc, n),
           pc \in ClaimingPc => n \in StepNumbers
    PROVE  LoopsOK'
  BY DEF TakeRow, Loop, LoopsOK

(* The type of a flow entry decides the stage of a polled step.             *)
LEMMA ResolvedType ==
    ASSUME NEW j \in Jobs, NEW n \in StepNumbers, NEW hasTcl
    PROVE  ResolveType(j, n, hasTcl) \in StepTypes
  BY FlowAssumption DEF ResolveType, Entries, StepTypes, PlanTypes

LEMMA StageType ==
    ASSUME NEW j, NEW type
    PROVE  StageOf(j, type) \in {"parkStep", "skipStep", "claimStep"}
  BY DEF StageOf

LEMMA InitTypeInv == Init => TypeInv
  <1> SUFFICES ASSUME Init PROVE TypeInv
    OBVIOUS
  <1>1. TablesTypeOK
    BY DEF Init, TablesInit, TablesTypeOK, NoPod, Pod, PodPc, Verdicts, JobStatus, StepStatus
  <1>2. LoopsOK
    BY DEF Init, SchedInit, LoopsOK, Loop, IdleLoop, SchedPc, NoRow, ClaimingPc, HoldingPc
  <1>3. calls \subseteq Call /\ ApiTypeOK
    BY DEF Init, SchedInit, ApiInit, ApiTypeOK
  <1> QED
    BY <1>1, <1>2, <1>3 DEF TypeInv
--------------------------------------------------------------------------------
(* The scheduler loop keeps the types.                                      *)

LEMMA PollType ==
    ASSUME TypeInv, NEW r \in Replicas, PollJobs(r)
    PROVE  TablesTypeOK' /\ LoopsOK' /\ calls' \subseteq Call
  <1> DEFINE row(j) == [id |-> j, status |-> job[j], tcl |-> tcl[j]]
             polled == {i \in {j \in Jobs : Pollable(j)} :
                          Cardinality({k \in {j \in Jobs : Pollable(j)} : k < i}) < PollLimit}
  <1>0. \A j \in Jobs : row(j) \in Row
    BY DEF TypeInv, TablesTypeOK, Row
  <1>1. PollResult \in SUBSET Row
    <2>1. PollResult = {row(j) : j \in polled}
      BY DEF PollResult
    <2>2. polled \subseteq Jobs
      OBVIOUS
    <2> HIDE DEF row, polled
    <2> QED
      BY <1>0, <2>1, <2>2
  <1>2. LoopsOK'
    BY <1>1, NextRowType DEF TypeInv, PollJobs
  <1> QED
    BY <1>2 DEF TypeInv, TablesTypeOK, PollJobs, tables, cluster

(* Polled rows that are pending, approved or queued.                        *)
LEMMA RowType ==
    ASSUME TypeInv, NEW r \in Replicas, NEW x \in First(sched[r].rows)
    PROVE  /\ x \in sched[r].rows /\ x \in Row
           /\ sched[r].rows \ {x} \in SUBSET Row
  BY DEF TypeInv, LoopsOK, Loop, First

LEMMA CheckOlderType ==
    ASSUME TypeInv, NEW r \in Replicas, CheckOlder(r)
    PROVE  TablesTypeOK' /\ LoopsOK' /\ calls' \subseteq Call
  <1>1. PICK x \in First(sched[r].rows) :
            TakeRow(r, x, "claimJob", 0) \/ NextRow(r, sched[r].rows \ {x})
    BY DEF CheckOlder
  <1>2. LoopsOK'
    <2>1. CASE TakeRow(r, x, "claimJob", 0)
      BY <2>1, TakeRowType, RowType DEF TypeInv, SchedPc, HoldingPc, ClaimingPc
    <2>2. CASE NextRow(r, sched[r].rows \ {x})
      BY <2>2, NextRowType, RowType DEF TypeInv
    <2> QED
      BY <1>1, <2>1, <2>2
  <1> QED
    BY <1>2 DEF TypeInv, TablesTypeOK, CheckOlder, tables, cluster

LEMMA LookupStepType ==
    ASSUME TypeInv, NEW r \in Replicas, LookupStep(r)
    PROVE  TablesTypeOK' /\ LoopsOK' /\ calls' \subseteq Call
  <1>1. PICK x \in First(sched[r].rows) :
            \/ TakeRow(r, x, "countOpen", 0)
            \/ \E n \in StepNumbers :
                  TakeRow(r, x, StageOf(x.id, ResolveType(x.id, n, x.tcl)), n)
    BY DEF LookupStep, Lowest, StepsIn
  <1>2. LoopsOK'
    <2>1. CASE TakeRow(r, x, "countOpen", 0)
      BY <2>1, TakeRowType, RowType DEF TypeInv, SchedPc, HoldingPc, ClaimingPc
    <2>2. ASSUME NEW n \in StepNumbers,
                 TakeRow(r, x, StageOf(x.id, ResolveType(x.id, n, x.tcl)), n)
          PROVE  LoopsOK'
      BY <2>2, TakeRowType, RowType, StageType DEF TypeInv, SchedPc
    <2> QED
      BY <1>1, <2>1, <2>2
  <1> QED
    BY <1>2 DEF TypeInv, TablesTypeOK, LookupStep, tables, cluster

(* The steps that write the tables and go on in, or leave, the row.         *)
LEMMA RowStepType ==
    ASSUME TypeInv, NEW r \in Replicas,
           \/ ClaimJob(r) \/ PassGate(r) \/ UnlockWorkspace(r)
           \/ SkipStep(r) \/ Advance(r)
           \/ CountOpen(r) \/ Tally(r) \/ FinishJob(r) \/ ReleaseFinished(r)
           \/ ParkStep(r) \/ ParkJob(r)
           \/ ClaimStep(r) \/ LockWorkspace(r) \/ HandBack(r) \/ RunJob(r)
           \/ NoExecutor(r)
    PROVE  TablesTypeOK' /\ LoopsOK' /\ calls' \subseteq Call
  <1> DEFINE Goal == TablesTypeOK' /\ LoopsOK' /\ calls' \subseteq Call
  <1> USE DEF TypeInv, TablesTypeOK, At, cluster, tables
  <1>1. \A status \in {"queue", "waitingApproval", "running", "completed", "failed"} :
            status \in JobStatus
    BY DEF JobStatus, Terminal
  <1>2. \A status \in {"completed", "notExecuted", "waitingApproval", "running",
                       "pending", "failed"} : status \in StepStatus
    BY DEF StepStatus
  <1>3. \A pc \in {"passGate", "unlockWorkspace", "advance", "countOpen", "tally",
                    "complete", "fail", "release", "parkJob", "failStep", "failJob",
                    "failRelease"} : pc \in SchedPc /\ pc \notin ClaimingPc
    BY DEF SchedPc, ClaimingPc, HoldingPc
  <1>4. \A pc \in {"claimStep", "lockWorkspace", "handBack", "runJob", "spawn"} :
            pc \in SchedPc /\ pc \in ClaimingPc
    BY DEF SchedPc, ClaimingPc, HoldingPc
  <1>5. CASE ClaimJob(r)
    BY <1>5, <1>1, <1>3, SetJobType, GotoType, EndOfRowType DEF ClaimJob
  <1>6. CASE PassGate(r)
    BY <1>6, <1>2, <1>3, MoveStepsType, GotoType DEF PassGate
  <1>7. CASE UnlockWorkspace(r) \/ ReleaseFinished(r)
    BY <1>7, SetLockType, EndOfRowType DEF UnlockWorkspace, ReleaseFinished
  <1>8. CASE SkipStep(r)
    BY <1>8, <1>2, <1>3, SetStepType, GotoType DEF SkipStep
  <1>9. CASE Advance(r) \/ CountOpen(r) \/ Tally(r)
    BY <1>9, <1>3, GotoType, EndOfRowType DEF Advance, CountOpen, Tally
  <1>10. CASE FinishJob(r)
    BY <1>10, <1>1, <1>3, SetJobType, GotoType DEF FinishJob
  <1>11. CASE ParkStep(r)
    BY <1>11, <1>2, <1>3, SetStepType, GotoType DEF ParkStep
  <1>12. CASE ParkJob(r)
    BY <1>12, <1>1, SetJobType, EndOfRowType DEF ParkJob
  <1>13. CASE ClaimStep(r)
    BY <1>13, <1>2, <1>4, SetStepType, GotoType, EndOfRowType DEF ClaimStep
  <1>14. CASE LockWorkspace(r)
    BY <1>14, <1>4, SetLockType, GotoType DEF LockWorkspace
  <1>15. CASE HandBack(r)
    BY <1>15, <1>2, SetStepType, EndOfRowType DEF HandBack
  <1>16. CASE RunJob(r)
    BY <1>16, <1>1, <1>4, SetJobType, GotoType DEF RunJob
  <1>17. CASE NoExecutor(r)
    BY <1>17, <1>1, <1>2, <1>3, SetJobType, SetStepType, SetLockType, GotoType,
       EndOfRowType DEF NoExecutor
  <1> QED
    BY <1>5, <1>6, <1>7, <1>8, <1>9, <1>10, <1>11, <1>12, <1>13, <1>14, <1>15, <1>16, <1>17

LEMMA SpawnType ==
    ASSUME TypeInv, NEW r \in Replicas, Spawn(r)
    PROVE  TablesTypeOK' /\ LoopsOK' /\ calls' \subseteq Call
  <1> DEFINE c == [by |-> r, id |-> CurrentJob(r), num |-> sched[r].num, pc |-> "execute",
                   type |-> ResolveType(CurrentJob(r), sched[r].num, sched[r].row.tcl)]
  <1>1. CurrentJob(r) \in Jobs /\ sched[r].num \in StepNumbers
    BY DEF TypeInv, LoopsOK, Spawn, At, ClaimingPc, HoldingPc, CurrentJob, Row
  <1>2. c \in Call
    BY <1>1, ResolvedType DEF Call, CallPc
  <1>3. /\ calls' \in {calls, calls \cup {c}}
        /\ Goto(r, "failStep") \/ EndOfRow(r)
    BY DEF Spawn
  <1>4. LoopsOK'
    BY <1>3, GotoType, EndOfRowType DEF TypeInv, SchedPc, ClaimingPc, HoldingPc
  <1> QED
    BY <1>2, <1>3, <1>4 DEF TypeInv, TablesTypeOK, Spawn, tables, cluster

LEMMA PollCancelsType ==
    ASSUME TypeInv, NEW r \in Replicas, PollCancels(r)
    PROVE  TablesTypeOK' /\ LoopsOK' /\ calls' \subseteq Call
  <1> DEFINE hits == IF HasKubernetes THEN Cancelled ELSE {}
  <1>0. \A j \in Jobs : [id |-> j, status |-> "cancelled", tcl |-> FALSE] \in Row
    BY DEF Row, JobStatus, Terminal
  <1>1. hits \in SUBSET Row
    BY <1>0 DEF Cancelled
  <1>2. LoopsOK'
    BY <1>1 DEF PollCancels, TypeInv, LoopsOK, Loop, IdleLoop, SchedPc, ClaimingPc, HoldingPc
  <1> QED
    BY <1>2 DEF PollCancels, TypeInv, TablesTypeOK, tables, cluster

LEMMA KillPodsType ==
    ASSUME TypeInv, NEW r \in Replicas, KillPods(r)
    PROVE  TablesTypeOK' /\ LoopsOK' /\ calls' \subseteq Call
  <1>1. PICK x \in First(sched[r].rows) :
          /\ \/ pod' = [pod EXCEPT ![x.id] =
                        [n \in StepNumbers |-> IF @[n].pc = "none" THEN @[n]
                           ELSE [@[n] EXCEPT !.pc = "done", !.verdict = "none"]]]
             \/ pod' = pod
          /\ sched' = [sched EXCEPT ![r] =
                 [IdleLoop EXCEPT !.pc = IF sched[r].rows \ {x} = {} THEN "idle" ELSE "kill",
                                  !.rows = sched[r].rows \ {x}]]
    BY DEF KillPods
  <1>2. sched[r].rows \ {x} \in SUBSET Row /\ x.id \in Jobs
    BY RowType DEF Row
  <1>3. LoopsOK'
    BY <1>1, <1>2 DEF TypeInv, LoopsOK, Loop, IdleLoop, SchedPc, ClaimingPc, HoldingPc
  <1>4. pod' \in [Jobs -> [StepNumbers -> Pod]]
    <2> DEFINE killed(p) == [p EXCEPT !.pc = "done", !.verdict = "none"]
               pods == [n \in StepNumbers |-> IF pod[x.id][n].pc = "none" THEN pod[x.id][n]
                                             ELSE killed(pod[x.id][n])]
    <2>1. pod \in [Jobs -> [StepNumbers -> Pod]]
      BY DEF TypeInv, TablesTypeOK
    <2>2. \A p \in Pod : killed(p) \in Pod
      BY DEF Pod, PodPc, Verdicts
    <2>3. pod' \in {pod, [pod EXCEPT ![x.id] = pods]}
      BY <1>1, <1>2, <2>1
    <2>4. pods \in [StepNumbers -> Pod]
      <3> HIDE DEF killed
      <3> QED
        BY <1>2, <2>1, <2>2
    <2> HIDE DEF pods
    <2> QED
      BY <2>1, <2>3, <2>4
  <1> QED
    BY <1>3, <1>4 DEF KillPods, TypeInv, TablesTypeOK, tables

LEMMA CallType ==
    ASSUME TypeInv, NEW c \in calls, CallStep(c)
    PROVE  TablesTypeOK' /\ LoopsOK' /\ calls' \subseteq Call
  <1> USE DEF TypeInv, TablesTypeOK, tables, cluster
  <1>0. c \in Call /\ LoopsOK
    OBVIOUS
  <1>1. \A pc \in CallPc : [c EXCEPT !.pc = pc] \in Call
    BY <1>0 DEF Call
  <1>2. \A pc \in {"failStep", "failJob", "failRelease"} :
           MoveCall(c, pc) => calls' \subseteq Call
    BY <1>1 DEF MoveCall, CallPc
  <1>3. CASE Execute(c)
    <2>1. calls' \subseteq Call
      BY <1>2, <1>3 DEF Execute
    <2>2. pod' \in [Jobs -> [StepNumbers -> Pod]]
      BY <1>0, <1>3, StartPodType DEF Execute, Call
    <2>3. launches' \in [Jobs -> [StepNumbers -> Nat]]
      <3>1. launches[c.id][c.num] + 1 \in Nat
        BY <1>0 DEF Call
      <3>2. launches' = [launches EXCEPT ![c.id] = [@ EXCEPT ![c.num] = launches[c.id][c.num] + 1]]
        BY <1>0, <1>3 DEF Execute, Call
      <3> QED
        BY <1>0, <3>1, <3>2 DEF Call
    <2>4. LoopsOK'
      BY <1>0, <1>3 DEF Execute, LoopsOK
    <2> QED
      BY <1>3, <2>1, <2>2, <2>3, <2>4 DEF Execute
  <1>4. CASE FailCall(c)
    <2>1. calls' \subseteq Call
      BY <1>2, <1>4 DEF FailCall
    <2>2. job' \in [Jobs -> JobStatus]
      BY <1>4, SetJobType DEF FailCall, JobStatus, Terminal
    <2>3. step' \in [Jobs -> [StepNumbers -> StepStatus]]
      BY <1>4, SetStepType DEF FailCall, StepStatus
    <2>4. locked' \in [Workspaces -> BOOLEAN]
      BY <1>4, SetLockType DEF FailCall
    <2>5. LoopsOK'
      BY <1>0, <1>4 DEF FailCall, LoopsOK
    <2> QED
      BY <1>4, <2>1, <2>2, <2>3, <2>4, <2>5 DEF FailCall
  <1> QED
    BY <1>3, <1>4 DEF CallStep

LEMMA LoopType ==
    ASSUME TypeInv, NEW r \in Replicas, LoopStep(r)
    PROVE  TablesTypeOK' /\ LoopsOK' /\ calls' \subseteq Call
  BY CheckOlderType, LookupStepType, RowStepType, SpawnType, PollCancelsType, KillPodsType
     DEF LoopStep
--------------------------------------------------------------------------------
(* The API handlers and the executors keep the types.                       *)

LEMMA StartType ==
    ASSUME requests \subseteq Request, NEW j \in Jobs, NEW n \in StepNumbers \cup {0},
           NEW pc \in RequestPc, Start(j, n, pc)
    PROVE  requests' \subseteq Request
  BY DEF Start, Request

LEMMA ContinueType ==
    ASSUME requests \subseteq Request, NEW q \in requests, NEW pc \in RequestPc,
           Continue(q, pc)
    PROVE  requests' \subseteq Request
  BY DEF Continue, Request

LEMMA HookType ==
    ASSUME NEW status
    PROVE  HookOf(status) = "none" \/ HookOf(status) \in RequestPc
  BY DEF HookOf, RequestPc

LEMMA PatchJobType ==
    ASSUME TablesTypeOK, ApiTypeOK, NEW j \in Jobs, NEW status \in JobStatus,
           PatchJob(j, status)
    PROVE  /\ job' \in [Jobs -> JobStatus]
           /\ recent' \in [Jobs -> BOOLEAN]
           /\ requests' \subseteq Request
  <1>1. job' \in [Jobs -> JobStatus]
    BY SetJobType DEF PatchJob, TablesTypeOK
  <1>2. recent' \in [Jobs -> BOOLEAN]
    BY DEF PatchJob, TablesTypeOK
  <1>3. requests' \subseteq Request
    BY StartType, HookType DEF PatchJob, ApiTypeOK
  <1> QED
    BY <1>1, <1>2, <1>3

LEMMA InsertJobType ==
    ASSUME TypeInv, NEW j \in Jobs, InsertJob(j)
    PROVE  TablesTypeOK' /\ ApiTypeOK'
  <1>1. job' \in [Jobs -> JobStatus]
    BY SetJobType DEF InsertJob, TypeInv, TablesTypeOK, JobStatus
  <1>2. tcl' \in [Jobs -> BOOLEAN]
    BY DEF InsertJob, TypeInv, TablesTypeOK
  <1>3. requests' \subseteq Request
    BY StartType DEF InsertJob, TypeInv, ApiTypeOK, RequestPc
  <1> QED
    BY <1>1, <1>2, <1>3 DEF InsertJob, TypeInv, TablesTypeOK, ApiTypeOK, cluster

LEMMA UserType ==
    ASSUME TypeInv, UserStep
    PROVE  TablesTypeOK' /\ ApiTypeOK'
  <1> USE DEF TypeInv, TablesTypeOK, ApiTypeOK, tables, cluster
  <1>1. ASSUME NEW j \in Jobs, UiApprove(j) \/ UiReject(j) \/ UiCancel(j)
        PROVE  TablesTypeOK' /\ ApiTypeOK'
    <2>1. {"approved", "rejected", "cancelled"} \subseteq JobStatus
      BY DEF JobStatus, Terminal
    <2> QED
      BY <1>1, <2>1, PatchJobType DEF UiApprove, UiReject, UiCancel
  <1>2. ASSUME NEW j \in Jobs,
               RestApprove(j) \/ RestReject(j) \/ CliCancel(j) \/ CliDiscard(j)
        PROVE  TablesTypeOK' /\ ApiTypeOK'
    <2>1. requests' \subseteq Request
      BY <1>2, StartType
         DEF RestApprove, RestReject, CliCancel, CliDiscard, StepsIn, RequestPc
    <2> QED
      BY <1>2, <2>1 DEF RestApprove, RestReject, CliCancel, CliDiscard
  <1>3. ASSUME NEW w \in Workspaces, CliLock(w)
        PROVE  TablesTypeOK' /\ ApiTypeOK'
    BY <1>3, SetLockType DEF CliLock
  <1> QED
    BY <1>1, <1>2, <1>3 DEF UserStep

LEMMA CliUnlockType ==
    ASSUME TypeInv, NEW w \in Workspaces, CliUnlock(w)
    PROVE  TablesTypeOK' /\ ApiTypeOK'
  BY SetLockType DEF CliUnlock, TypeInv, TablesTypeOK, ApiTypeOK, cluster

LEMMA RequestType ==
    ASSUME TypeInv, NEW q \in requests, RequestStep(q)
    PROVE  TablesTypeOK' /\ ApiTypeOK'
  <1> USE DEF TypeInv, TablesTypeOK, ApiTypeOK, cluster
  <1>1. q \in Request
    OBVIOUS
  <1>2. \A pc : Continue(q, pc) /\ pc \in RequestPc => requests' \subseteq Request
    BY ContinueType
  <1>3. Return(q) => requests' \subseteq Request
    BY DEF Return
  <1>4. CASE ReadTcl(q)
    <2>1. tcl' \in [Jobs -> BOOLEAN]
      BY <1>4 DEF ReadTcl
    <2> QED
      BY <1>2, <1>3, <1>4, <2>1 DEF ReadTcl, RequestPc
  <1>5. CASE InsertStep(q)
    <2>1. step' \in [Jobs -> [StepNumbers -> StepStatus]]
      BY <1>5, SetStepType DEF InsertStep, StepStatus
    <2> QED
      BY <1>3, <1>5, <2>1 DEF InsertStep
  <1>6. CASE PatchHook(q)
    <2>1. step' \in [Jobs -> [StepNumbers -> StepStatus]]
      BY <1>6, MoveStepsType DEF PatchHook, StepStatus
    <2> QED
      BY <1>2, <1>6, <2>1 DEF PatchHook, RequestPc
  <1>7. CASE ReleaseLock(q)
    BY <1>3, <1>7, SetLockType DEF ReleaseLock
  <1>8. CASE CompleteGate(q) \/ RejectGate(q)
    <2>1. step' \in [Jobs -> [StepNumbers -> StepStatus]]
      BY <1>8, SetStepType DEF CompleteGate, RejectGate, StepStatus
    <2> QED
      BY <1>2, <1>8, <2>1 DEF CompleteGate, RejectGate, RequestPc
  <1>9. CASE Requeue(q)
    <2>1. job' \in [Jobs -> JobStatus]
      BY <1>9, SetJobType DEF Requeue, JobStatus
    <2> QED
      BY <1>3, <1>9, <2>1 DEF Requeue
  <1>10. CASE DiscardGate(q) \/ DropSteps(q)
    <2>1. step' \in [Jobs -> [StepNumbers -> StepStatus]]
      BY <1>10, MoveStepsType DEF DiscardGate, DropSteps, StepStatus
    <2> QED
      BY <1>2, <1>10, <2>1 DEF DiscardGate, DropSteps, RequestPc
  <1>11. CASE CloseJob(q) \/ CancelRun(q)
    <2>1. job' \in [Jobs -> JobStatus]
      BY <1>11, SetJobType DEF CloseJob, CancelRun, JobStatus, Terminal
    <2>2. recent' \in [Jobs -> BOOLEAN]
      BY <1>11 DEF CloseJob, CancelRun
    <2> QED
      BY <1>2, <1>11, <2>1, <2>2 DEF CloseJob, CancelRun, RequestPc
  <1> QED
    BY <1>4, <1>5, <1>6, <1>7, <1>8, <1>9, <1>10, <1>11 DEF RequestStep

LEMMA ExecutorType ==
    ASSUME TypeInv, NEW j \in Jobs, NEW n \in StepNumbers, ExecutorStep(j, n)
    PROVE  TablesTypeOK' /\ ApiTypeOK'
  <1> USE DEF TypeInv, TablesTypeOK, ApiTypeOK, tables, apiVars
  <1>1. pod[j][n].verdict \in Verdicts
    BY DEF Pod
  <1>2. Verdicts \subseteq JobStatus /\ "running" \in JobStatus
    BY DEF Verdicts, JobStatus, Terminal
  <1>3. \A pc \in PodPc, v \in Verdicts :
           MovePod(j, n, pc, v) => /\ pod' \in [Jobs -> [StepNumbers -> Pod]]
                                   /\ launches' = launches
    <2> TAKE pc \in PodPc, v \in Verdicts
    <2>1. MovePod(j, n, pc, v) => pod' \in [Jobs -> [StepNumbers -> Pod]]
      BY MovePodType
    <2>2. MovePod(j, n, pc, v) => launches' = launches
      BY DEF MovePod
    <2> QED
      BY <2>1, <2>2
  <1>4. CASE BeginStep(j, n)
    <2>1. step' \in [Jobs -> [StepNumbers -> StepStatus]]
      BY <1>4, SetStepType DEF BeginStep, PatchStep, StepStatus
    <2> QED
      BY <1>3, <1>4, <2>1 DEF BeginStep, PodPc, Verdicts
  <1>5. CASE BeginJob(j, n)
    BY <1>2, <1>3, <1>5, PatchJobType DEF BeginJob, PodPc, Verdicts
  <1>6. CASE EndWork(j, n)
    BY <1>3, <1>6 DEF EndWork, VerdictsOf, PodPc, Verdicts
  <1>7. CASE NoticeCancel(j, n) \/ ExitSilently(j, n) \/ LosePod(j, n)
    BY <1>3, <1>7 DEF NoticeCancel, ExitSilently, LosePod, PodPc, Verdicts
  <1>8. CASE ReportStep(j, n)
    <2>1. step' \in [Jobs -> [StepNumbers -> StepStatus]]
      BY <1>8, SetStepType DEF ReportStep, PatchStep, StepVerdict, StepStatus
    <2> QED
      BY <1>1, <1>3, <1>8, <2>1 DEF ReportStep, PodPc, Verdicts
  <1>9. CASE ReportJob(j, n)
    BY <1>1, <1>2, <1>3, <1>9, PatchJobType DEF ReportJob, PodPc, Verdicts
  <1> QED
    BY <1>4, <1>5, <1>6, <1>7, <1>8, <1>9 DEF ExecutorStep, PodStep

LEMMA NextTypeInv == TypeInv /\ [Next]_vars => TypeInv'
  <1> SUFFICES ASSUME TypeInv, [Next]_vars PROVE TypeInv'
    OBVIOUS
  <1>1. ASSUME TablesTypeOK' /\ LoopsOK' /\ calls' \subseteq Call, UNCHANGED apiVars
        PROVE  TypeInv'
    BY <1>1 DEF TypeInv, ApiTypeOK, apiVars
  <1>2. ASSUME TablesTypeOK' /\ ApiTypeOK', UNCHANGED schedVars
        PROVE  TypeInv'
    BY <1>2 DEF TypeInv, LoopsOK, schedVars
  <1>3. ASSUME NEW r \in Replicas, Tick(r)
        PROVE  TypeInv'
    BY <1>1, <1>3, PollType DEF Tick
  <1>4. ASSUME NEW r \in Replicas, Loops(r)
        PROVE  TypeInv'
    BY <1>1, <1>4, LoopType DEF Loops
  <1>5. ASSUME NEW r \in Replicas, ApiCrash(r)
        PROVE  TypeInv'
    <2>1. LoopsOK'
      BY <1>5 DEF ApiCrash, TypeInv, LoopsOK, Loop, IdleLoop, SchedPc, NoRow,
                  ClaimingPc, HoldingPc
    <2> QED
      BY <1>5, <2>1 DEF ApiCrash, TypeInv, TablesTypeOK, ApiTypeOK, tables, cluster
  <1>6. CASE Calls
    BY <1>1, <1>6, CallType DEF Calls
  <1>7. CASE Creates
    BY <1>2, <1>7, InsertJobType DEF Creates, Create, CreateJob, CreateRun
  <1>8. CASE Users
    BY <1>2, <1>8, UserType DEF Users
  <1>9. CASE Unlocks
    BY <1>2, <1>9, CliUnlockType DEF Unlocks
  <1>10. CASE Requests
    BY <1>2, <1>10, RequestType DEF Requests
  <1>11. ASSUME NEW j \in Jobs, NEW n \in StepNumbers, Pods(j, n) \/ PodFaults(j, n)
         PROVE  TypeInv'
    BY <1>2, <1>11, ExecutorType DEF Pods, PodFaults, ExecutorStep
  <1>12. CASE UNCHANGED vars
    BY <1>12 DEF vars, tables, cluster, schedVars, apiVars,
                 TypeInv, TablesTypeOK, LoopsOK, ApiTypeOK
  <1> QED
    BY <1>3, <1>4, <1>5, <1>6, <1>7, <1>8, <1>9, <1>10, <1>11, <1>12 DEF Next

THEOREM TypeInvariance == Spec => []TypeInv
  BY InitTypeInv, NextTypeInv, PTL DEF Spec

(* The tables, the loops, the goroutines and the handlers of any deployment *)
(* hold only values of their types: no statement of the scheduler, of a     *)
(* handler or of an executor writes a status that a table does not know.    *)
THEOREM TypeCorrect == Spec => []TypeOK
  <1>1. TypeInv => TypeOK
    BY DEF TypeInv, TypeOK, LoopsOK, SchedTypeOK
  <1> QED
    BY <1>1, TypeInvariance, PTL
--------------------------------------------------------------------------------
(* The claims on steps.  Most actions make no claim, launch nothing, and    *)
(* leave every claimed step claimed.                                        *)

StepsStayClaimed ==
    \A j \in Jobs, n \in StepNumbers : Claimed(j, n) => Claimed(j, n)'

NoNewHolder ==
    \A r \in Replicas, j \in Jobs, n \in StepNumbers : Holds(r, j, n)' => Holds(r, j, n)

NoNewDispatch == \A c \in calls' : c.pc = "execute" => c \in calls

LEMMA ClaimFrame ==
    ASSUME ClaimInv, StepsStayClaimed, NoNewHolder, NoNewDispatch, UNCHANGED launches
    PROVE  ClaimInv'
  <1> SUFFICES ASSUME NEW j \in Jobs, NEW n \in StepNumbers
               PROVE  /\ \A r \in Replicas : Holds(r, j, n)' =>
                           /\ Claimed(j, n)' /\ launches'[j][n] = 0
                           /\ \A q \in Replicas : Holds(q, j, n)' => q = r
                           /\ \A c \in calls' : ~ Dispatches(c, j, n)
                      /\ \A c \in calls' : Dispatches(c, j, n) =>
                           /\ Claimed(j, n)' /\ launches'[j][n] = 0
                           /\ \A d \in calls' : Dispatches(d, j, n) => d = c
                      /\ launches'[j][n] # 0 => Claimed(j, n)' /\ launches'[j][n] = 1
    BY DEF ClaimInv, Dispatches
  <1>1. Claimed(j, n) => Claimed(j, n)'
    BY DEF StepsStayClaimed
  <1>2. \A r \in Replicas : Holds(r, j, n)' => Holds(r, j, n)
    BY DEF NoNewHolder
  <1>3. \A c \in calls' : Dispatches(c, j, n) => c \in calls
    BY DEF NoNewDispatch, Dispatches
  <1> QED
    BY <1>1, <1>2, <1>3 DEF ClaimInv

LEMMA SetStepClaims ==
    ASSUME TablesTypeOK, NEW i, NEW m, NEW status,
           status \notin {"none", "pending"},
           SetStep(i, m, status)
    PROVE  StepsStayClaimed
  BY DEF TablesTypeOK, SetStep, StepsStayClaimed, Claimed

LEMMA MoveStepsClaims ==
    ASSUME TablesTypeOK, NEW i, NEW from, NEW to, to \notin {"none", "pending"},
           MoveSteps(i, from, to)
    PROVE  StepsStayClaimed
  <1> SUFFICES ASSUME NEW j \in Jobs, NEW n \in StepNumbers, Claimed(j, n)
               PROVE  Claimed(j, n)'
    BY DEF StepsStayClaimed
  <1>1. step'[j][n] \in {step[j][n], to}
    BY DEF TablesTypeOK, MoveSteps
  <1> QED
    BY <1>1 DEF Claimed

LEMMA SameStepsClaims == UNCHANGED step => StepsStayClaimed
  BY DEF StepsStayClaimed, Claimed

LEMMA GotoHolds ==
    ASSUME LoopsOK, NEW r \in Replicas, NEW pc, Goto(r, pc),
           pc \in HoldingPc => sched[r].pc \in HoldingPc
    PROVE  NoNewHolder
  BY DEF LoopsOK, Loop, Goto, NoNewHolder, Holds, CurrentJob

LEMMA NextRowHolds ==
    ASSUME LoopsOK, NEW r \in Replicas, NEW rows, NextRow(r, rows)
    PROVE  NoNewHolder
  BY DEF LoopsOK, Loop, NextRow, IdleLoop, NoNewHolder, Holds, CurrentJob, HoldingPc

LEMMA EndOfRowHolds ==
    ASSUME LoopsOK, NEW r \in Replicas, EndOfRow(r)
    PROVE  NoNewHolder /\ sched'[r].pc \notin HoldingPc
  BY DEF LoopsOK, Loop, EndOfRow, NextRow, IdleLoop, NoNewHolder, Holds, CurrentJob, HoldingPc

LEMMA TakeRowHolds ==
    ASSUME LoopsOK, NEW r \in Replicas, NEW x, NEW pc, NEW n, pc \notin HoldingPc,
           TakeRow(r, x, pc, n)
    PROVE  NoNewHolder
  BY DEF LoopsOK, Loop, TakeRow, NoNewHolder, Holds, CurrentJob
--------------------------------------------------------------------------------
(* The scheduler and the claims.                                            *)

LEMMA QuietLoopClaims ==
    ASSUME TypeInv, ClaimInv, NEW r \in Replicas,
           \/ PollJobs(r) \/ CheckOlder(r) \/ ClaimJob(r) \/ PassGate(r)
           \/ UnlockWorkspace(r) \/ LookupStep(r) \/ SkipStep(r) \/ Advance(r)
           \/ CountOpen(r) \/ Tally(r) \/ FinishJob(r) \/ ReleaseFinished(r)
           \/ ParkStep(r) \/ ParkJob(r) \/ LockWorkspace(r) \/ RunJob(r)
           \/ NoExecutor(r) \/ PollCancels(r) \/ KillPods(r)
    PROVE  ClaimInv'
  <1> USE DEF TypeInv, At, tables, cluster
  <1>1. NoNewDispatch /\ UNCHANGED launches
    BY DEF NoNewDispatch, PollJobs, CheckOlder, ClaimJob, PassGate, UnlockWorkspace,
           LookupStep, SkipStep, Advance, CountOpen, Tally, FinishJob, ReleaseFinished,
           ParkStep, ParkJob, LockWorkspace, RunJob, NoExecutor, PollCancels, KillPods
  <1>2. StepsStayClaimed
    <2>1. CASE PassGate(r)
      BY <2>1, MoveStepsClaims DEF PassGate
    <2>2. CASE SkipStep(r) \/ ParkStep(r) \/ NoExecutor(r)
      <3>1. \/ UNCHANGED step
            \/ \E status \in {"notExecuted", "waitingApproval", "failed"} :
                 SetStep(CurrentJob(r), sched[r].num, status)
        BY <2>2 DEF SkipStep, ParkStep, NoExecutor
      <3> QED
        BY <3>1, SetStepClaims, SameStepsClaims
    <2>3. CASE ~ (PassGate(r) \/ SkipStep(r) \/ ParkStep(r) \/ NoExecutor(r))
      BY <2>3, SameStepsClaims
         DEF PollJobs, CheckOlder, ClaimJob, UnlockWorkspace, LookupStep, Advance,
             CountOpen, Tally, FinishJob, ReleaseFinished, ParkJob, LockWorkspace,
             RunJob, PollCancels, KillPods
    <2> QED
      BY <2>1, <2>2, <2>3
  <1>3. NoNewHolder
    <2>1. CASE PollJobs(r)
      BY <2>1, NextRowHolds DEF PollJobs
    <2>2. CASE CheckOlder(r)
      BY <2>2, NextRowHolds, TakeRowHolds DEF CheckOlder, HoldingPc
    <2>3. CASE LookupStep(r)
      <3>1. \A j, type : StageOf(j, type) \notin HoldingPc
        BY StageType DEF HoldingPc
      <3>2. "countOpen" \notin HoldingPc
        BY DEF HoldingPc
      <3> QED
        BY <2>3, <3>1, <3>2, TakeRowHolds DEF LookupStep
    <2>4. CASE PollCancels(r) \/ KillPods(r)
      <3>1. \E pc \in {"idle", "kill"} : \E rows :
               sched' = [sched EXCEPT ![r] = [IdleLoop EXCEPT !.pc = pc, !.rows = rows]]
        <4>1. CASE PollCancels(r)
          BY <4>1 DEF PollCancels
        <4>2. CASE KillPods(r)
          BY <4>2 DEF KillPods
        <4> QED
          BY <2>4, <4>1, <4>2
      <3>2. sched \in [Replicas -> Loop]
        BY DEF TypeInv, LoopsOK
      <3>3. sched'[r].pc \notin HoldingPc
        BY <3>1, <3>2 DEF IdleLoop, HoldingPc
      <3>4. \A q \in Replicas \ {r} : sched'[q] = sched[q]
        BY <3>1, <3>2
      <3> QED
        BY <3>3, <3>4 DEF NoNewHolder, Holds, CurrentJob
    <2>5. CASE LockWorkspace(r) \/ RunJob(r)
      BY <2>5, GotoHolds DEF LockWorkspace, RunJob, HoldingPc
    <2>6. CASE ParkJob(r) \/ UnlockWorkspace(r) \/ ReleaseFinished(r)
      BY <2>6, EndOfRowHolds DEF ParkJob, UnlockWorkspace, ReleaseFinished
    <2>7. CASE ClaimJob(r) \/ Advance(r) \/ CountOpen(r) \/ NoExecutor(r)
      BY <2>7, GotoHolds, EndOfRowHolds DEF ClaimJob, Advance, CountOpen, NoExecutor, HoldingPc
    <2>8. CASE PassGate(r) \/ SkipStep(r) \/ Tally(r) \/ FinishJob(r) \/ ParkStep(r)
      BY <2>8, GotoHolds DEF PassGate, SkipStep, Tally, FinishJob, ParkStep, HoldingPc
    <2> QED
      BY <2>1, <2>2, <2>3, <2>4, <2>5, <2>6, <2>7, <2>8
  <1> QED
    BY <1>1, <1>2, <1>3, ClaimFrame

(* A claim that finds its step pending finds it without holder, dispatch    *)
(* and launch.                                                              *)
LEMMA ClaimStepClaims ==
    ASSUME TypeInv, ClaimInv, NEW r \in Replicas, ClaimStep(r)
    PROVE  ClaimInv'
  <1>1. PICK i \in Jobs, m \in StepNumbers :
            CurrentJob(r) = i /\ sched[r].num = m /\ sched \in [Replicas -> Loop]
    BY DEF TypeInv, LoopsOK, ClaimStep, At, ClaimingPc, CurrentJob, Row
  <1>2. UNCHANGED <<calls, launches>>
    BY DEF ClaimStep, cluster
  <1>3. CASE step[i][m] # "pending"
    BY <1>1, <1>2, <1>3, EndOfRowHolds, SameStepsClaims, ClaimFrame
       DEF ClaimStep, TypeInv, NoNewDispatch
  <1>4. CASE step[i][m] = "pending"
    <2>1. SetStep(i, m, "running") /\ Goto(r, "lockWorkspace")
      BY <1>1, <1>4 DEF ClaimStep
    <2>2. /\ \A q \in Replicas : ~ Holds(q, i, m)
          /\ \A c \in calls : ~ Dispatches(c, i, m)
          /\ launches[i][m] = 0
      BY <1>1, <1>4 DEF ClaimInv, Claimed
    <2>3. StepsStayClaimed /\ Claimed(i, m)'
      <3>1. StepsStayClaimed
        BY <2>1, SetStepClaims DEF TypeInv
      <3>2. step'[i][m] = "running"
        BY <1>1, <2>1 DEF SetStep, TypeInv, TablesTypeOK
      <3> QED
        BY <3>1, <3>2 DEF Claimed
    <2>4. \A q \in Replicas, j \in Jobs, n \in StepNumbers :
             Holds(q, j, n)' => Holds(q, j, n) \/ (q = r /\ j = i /\ n = m)
      BY <1>1, <2>1 DEF Goto, Holds, CurrentJob, Loop
    <2> SUFFICES ASSUME NEW j \in Jobs, NEW n \in StepNumbers
                 PROVE  /\ \A q \in Replicas : Holds(q, j, n)' =>
                             /\ Claimed(j, n)' /\ launches[j][n] = 0
                             /\ \A p \in Replicas : Holds(p, j, n)' => p = q
                             /\ \A c \in calls : ~ Dispatches(c, j, n)
                        /\ \A c \in calls : Dispatches(c, j, n) =>
                             /\ Claimed(j, n)' /\ launches[j][n] = 0
                             /\ \A d \in calls : Dispatches(d, j, n) => d = c
                        /\ launches[j][n] # 0 => Claimed(j, n)' /\ launches[j][n] = 1
      BY <1>2 DEF ClaimInv, Dispatches
    <2>5. CASE j = i /\ n = m
      BY <2>2, <2>3, <2>4, <2>5
    <2>6. CASE ~ (j = i /\ n = m)
      <3>1. \A q \in Replicas : Holds(q, j, n)' => Holds(q, j, n)
        BY <2>4, <2>6
      <3> QED
        BY <2>3, <3>1 DEF ClaimInv, StepsStayClaimed
    <2> QED
      BY <2>5, <2>6
  <1> QED
    BY <1>3, <1>4

(* The holder hands its step back: nobody else has a claim on it.           *)
LEMMA HandBackClaims ==
    ASSUME TypeInv, ClaimInv, NEW r \in Replicas, HandBack(r)
    PROVE  ClaimInv'
  <1>1. PICK i \in Jobs, m \in StepNumbers :
            CurrentJob(r) = i /\ sched[r].num = m /\ Holds(r, i, m)
    BY DEF TypeInv, LoopsOK, HandBack, At, ClaimingPc, HoldingPc, CurrentJob, Row, Holds
  <1>2. UNCHANGED <<calls, launches>> /\ LoopsOK
    BY DEF HandBack, cluster, TypeInv
  <1>3. NoNewHolder /\ \A j, n : ~ Holds(r, j, n)'
    <2>1. NoNewHolder /\ sched'[r].pc \notin HoldingPc
      BY <1>2, EndOfRowHolds DEF HandBack
    <2> QED
      BY <2>1 DEF Holds
  <1>4. /\ \A q \in Replicas : Holds(q, i, m) => q = r
        /\ \A c \in calls : ~ Dispatches(c, i, m)
        /\ launches[i][m] = 0
    BY <1>1 DEF ClaimInv
  <1>5. \A j \in Jobs, n \in StepNumbers :
           ~ (j = i /\ n = m) => step'[j][n] = step[j][n]
    BY <1>1 DEF HandBack, SetStep, TypeInv, TablesTypeOK
  <1> SUFFICES ASSUME NEW j \in Jobs, NEW n \in StepNumbers
               PROVE  /\ \A q \in Replicas : Holds(q, j, n)' =>
                           /\ Claimed(j, n)' /\ launches[j][n] = 0
                           /\ \A p \in Replicas : Holds(p, j, n)' => p = q
                           /\ \A c \in calls : ~ Dispatches(c, j, n)
                      /\ \A c \in calls : Dispatches(c, j, n) =>
                           /\ Claimed(j, n)' /\ launches[j][n] = 0
                           /\ \A d \in calls : Dispatches(d, j, n) => d = c
                      /\ launches[j][n] # 0 => Claimed(j, n)' /\ launches[j][n] = 1
    BY <1>2 DEF ClaimInv, Dispatches
  <1>6. CASE j = i /\ n = m
    BY <1>3, <1>4, <1>6 DEF NoNewHolder
  <1>7. CASE ~ (j = i /\ n = m)
    <2>1. Claimed(j, n)' <=> Claimed(j, n)
      BY <1>5, <1>7 DEF Claimed
    <2>2. \A q \in Replicas : Holds(q, j, n)' => Holds(q, j, n)
      BY <1>3 DEF NoNewHolder
    <2> QED
      BY <2>1, <2>2 DEF ClaimInv
  <1> QED
    BY <1>6, <1>7

(* The holder's claim becomes the only dispatch of its step.                *)
LEMMA SpawnClaims ==
    ASSUME TypeInv, ClaimInv, NEW r \in Replicas, Spawn(r)
    PROVE  ClaimInv'
  <1>1. PICK i \in Jobs, m \in StepNumbers :
            CurrentJob(r) = i /\ sched[r].num = m /\ Holds(r, i, m)
    BY DEF TypeInv, LoopsOK, Spawn, At, ClaimingPc, HoldingPc, CurrentJob, Row, Holds
  <1>e. PICK e : e = [by |-> r, id |-> i, num |-> m, pc |-> "execute",
                      type |-> ResolveType(i, m, sched[r].row.tcl)]
    OBVIOUS
  <1>2. UNCHANGED <<step, launches>> /\ LoopsOK
    BY DEF Spawn, cluster, tables, TypeInv
  <1>3. CASE Goto(r, "failStep") /\ UNCHANGED calls
    BY <1>2, <1>3, GotoHolds, SameStepsClaims, ClaimFrame DEF NoNewDispatch, HoldingPc
  <1>4. CASE calls' = calls \cup {e} /\ EndOfRow(r)
    <2>1. NoNewHolder /\ \A j, n : ~ Holds(r, j, n)'
      <3>1. NoNewHolder /\ sched'[r].pc \notin HoldingPc
        BY <1>2, <1>4, EndOfRowHolds
      <3> QED
        BY <3>1 DEF Holds
    <2>2. /\ Claimed(i, m) /\ launches[i][m] = 0
          /\ \A q \in Replicas : Holds(q, i, m) => q = r
          /\ \A c \in calls : ~ Dispatches(c, i, m)
      BY <1>1 DEF ClaimInv
    <2>3. \A j, n : Dispatches(e, j, n) => j = i /\ n = m
      BY <1>e DEF Dispatches
    <2> SUFFICES ASSUME NEW j \in Jobs, NEW n \in StepNumbers
                 PROVE  /\ \A q \in Replicas : Holds(q, j, n)' =>
                             /\ Claimed(j, n) /\ launches[j][n] = 0
                             /\ \A p \in Replicas : Holds(p, j, n)' => p = q
                             /\ \A c \in calls' : ~ Dispatches(c, j, n)
                        /\ \A c \in calls' : Dispatches(c, j, n) =>
                             /\ Claimed(j, n) /\ launches[j][n] = 0
                             /\ \A d \in calls' : Dispatches(d, j, n) => d = c
                        /\ launches[j][n] # 0 => Claimed(j, n) /\ launches[j][n] = 1
      BY <1>2 DEF ClaimInv, Dispatches, Claimed
    <2>4. CASE j = i /\ n = m
      BY <1>4, <2>1, <2>2, <2>4 DEF NoNewHolder
    <2>5. CASE ~ (j = i /\ n = m)
      <3>1. \A c \in calls' : Dispatches(c, j, n) => c \in calls
        BY <1>4, <2>3, <2>5
      <3>2. \A q \in Replicas : Holds(q, j, n)' => Holds(q, j, n)
        BY <2>1 DEF NoNewHolder
      <3> QED
        BY <3>1, <3>2 DEF ClaimInv
    <2> QED
      BY <2>4, <2>5
  <1> QED
    BY <1>1, <1>e, <1>3, <1>4 DEF Spawn

(* A call's launch is the step's first, and ends the dispatch.              *)
LEMMA CallClaims ==
    ASSUME TypeInv, ClaimInv, NEW c \in calls, CallStep(c)
    PROVE  ClaimInv'
  <1> USE DEF tables, cluster
  <1>0. c \in Call /\ c.id \in Jobs /\ c.num \in StepNumbers
    BY DEF TypeInv, Call
  <1>1. ASSUME NEW pc \in {"failStep", "failJob", "failRelease"}, MoveCall(c, pc)
        PROVE  \A d \in calls' : d.pc = "execute" => d \in calls \ {c}
    BY <1>0, <1>1 DEF MoveCall, Call
  <1>2. CASE FailCall(c)
    <2>1. NoNewDispatch
      <3>1. \/ \E pc \in {"failStep", "failJob", "failRelease"} : MoveCall(c, pc)
            \/ calls' = calls \ {c}
        BY <1>2 DEF FailCall
      <3> QED
        BY <1>1, <3>1 DEF NoNewDispatch
    <2>2. StepsStayClaimed
      <3>1. SetStep(c.id, c.num, "failed") \/ UNCHANGED step
        BY <1>2 DEF FailCall
      <3> QED
        BY <3>1, SetStepClaims, SameStepsClaims DEF TypeInv
    <2>3. NoNewHolder
      BY <1>2 DEF FailCall, NoNewHolder, Holds, CurrentJob
    <2> QED
      BY <1>2, <2>1, <2>2, <2>3, ClaimFrame DEF FailCall
  <1>3. CASE Execute(c)
    <2> DEFINE i == c.id
               m == c.num
    <2>1. UNCHANGED <<step, sched>> /\ Dispatches(c, i, m)
      BY <1>3 DEF Execute, Dispatches
    <2>2. \A d \in calls' : d.pc = "execute" => d \in calls \ {c}
      BY <1>1, <1>3 DEF Execute
    <2>3. /\ Claimed(i, m) /\ launches[i][m] = 0
          /\ \A q \in Replicas : ~ Holds(q, i, m)
          /\ \A d \in calls : Dispatches(d, i, m) => d = c
      BY <1>0, <2>1 DEF ClaimInv
    <2>4. launches' = [launches EXCEPT ![i] = [@ EXCEPT ![m] = launches[i][m] + 1]]
      BY <1>0, <1>3 DEF Execute, TypeInv, TablesTypeOK
    <2>5. /\ launches'[i][m] = 1
          /\ \A j \in Jobs, n \in StepNumbers :
               ~ (j = i /\ n = m) => launches'[j][n] = launches[j][n]
      BY <1>0, <2>3, <2>4 DEF TypeInv, TablesTypeOK
    <2> HIDE DEF i, m
    <2> SUFFICES ASSUME NEW j \in Jobs, NEW n \in StepNumbers
                 PROVE  /\ \A q \in Replicas : Holds(q, j, n) =>
                             /\ Claimed(j, n) /\ launches'[j][n] = 0
                             /\ \A p \in Replicas : Holds(p, j, n) => p = q
                             /\ \A d \in calls' : ~ Dispatches(d, j, n)
                        /\ \A d \in calls' : Dispatches(d, j, n) =>
                             /\ Claimed(j, n) /\ launches'[j][n] = 0
                             /\ \A b \in calls' : Dispatches(b, j, n) => b = d
                        /\ launches'[j][n] # 0 => Claimed(j, n) /\ launches'[j][n] = 1
      BY <2>1 DEF ClaimInv, Dispatches, Claimed, Holds, CurrentJob
    <2>6. \A d \in calls' : Dispatches(d, j, n) => d \in calls \ {c}
      BY <2>2 DEF Dispatches
    <2>7. CASE j = i /\ n = m
      BY <2>3, <2>5, <2>6, <2>7
    <2>8. CASE ~ (j = i /\ n = m)
      BY <2>5, <2>6, <2>8 DEF ClaimInv
    <2> QED
      BY <2>7, <2>8
  <1> QED
    BY <1>2, <1>3 DEF CallStep
--------------------------------------------------------------------------------
(* The handlers and the executors: only InsertStep writes "pending", and it *)
(* writes it to a row that was not there.                                   *)

LEMMA SameLoopsClaims ==
    ASSUME ClaimInv, StepsStayClaimed, UNCHANGED <<schedVars, launches>>
    PROVE  ClaimInv'
  <1>1. NoNewHolder /\ NoNewDispatch
    BY DEF schedVars, NoNewHolder, NoNewDispatch, Holds, CurrentJob
  <1> QED
    BY <1>1, ClaimFrame

LEMMA RequestClaims ==
    ASSUME TypeInv, NEW q \in requests, RequestStep(q)
    PROVE  StepsStayClaimed /\ UNCHANGED launches
  <1> USE DEF TypeInv, cluster
  <1>1. CASE InsertStep(q)
    <2>1. CASE UNCHANGED step
      BY <1>1, <2>1, SameStepsClaims DEF InsertStep
    <2>2. ASSUME NEW n \in StepNumbers, step[q.id][n] = "none", SetStep(q.id, n, "pending")
          PROVE  StepsStayClaimed
      <3> SUFFICES ASSUME NEW j \in Jobs, NEW m \in StepNumbers, Claimed(j, m)
                   PROVE  Claimed(j, m)'
        BY DEF StepsStayClaimed
      <3>1. ~ (j = q.id /\ m = n)
        BY <2>2 DEF Claimed
      <3>2. step'[j][m] = step[j][m]
        BY <2>2, <3>1 DEF SetStep, TablesTypeOK
      <3> QED
        BY <3>2 DEF Claimed
    <2> QED
      BY <1>1, <2>1, <2>2 DEF InsertStep, Lowest, Entries
  <1>2. CASE PatchHook(q) \/ DiscardGate(q) \/ DropSteps(q)
    <2>1. \E from : \E to \in {"cancelled", "notExecuted", "failed", "rejected"} :
             MoveSteps(q.id, from, to)
      BY <1>2 DEF PatchHook, DiscardGate, DropSteps
    <2> QED
      BY <1>2, <2>1, MoveStepsClaims DEF PatchHook, DiscardGate, DropSteps
  <1>3. CASE CompleteGate(q) \/ RejectGate(q)
    <2>1. \E status \in {"completed", "rejected"} : SetStep(q.id, q.num, status)
      BY <1>3 DEF CompleteGate, RejectGate
    <2> QED
      BY <1>3, <2>1, SetStepClaims DEF CompleteGate, RejectGate
  <1>4. CASE ReadTcl(q) \/ ReleaseLock(q) \/ Requeue(q) \/ CloseJob(q) \/ CancelRun(q)
    BY <1>4, SameStepsClaims DEF ReadTcl, ReleaseLock, Requeue, CloseJob, CancelRun
  <1> QED
    BY <1>1, <1>2, <1>3, <1>4 DEF RequestStep

LEMMA UserClaims ==
    ASSUME Create \/ UserStep \/ \E w \in Workspaces : CliUnlock(w)
    PROVE  StepsStayClaimed /\ UNCHANGED launches
  <1>1. UNCHANGED <<step, launches>>
    BY DEF Create, CreateJob, CreateRun, InsertJob, UserStep, UiApprove, UiReject,
           UiCancel, RestApprove, RestReject, CliCancel, CliDiscard, CliLock, CliUnlock,
           tables, cluster
  <1> QED
    BY <1>1, SameStepsClaims

LEMMA ExecutorClaims ==
    ASSUME TypeInv, NEW j \in Jobs, NEW n \in StepNumbers, ExecutorStep(j, n)
    PROVE  StepsStayClaimed /\ UNCHANGED launches
  <1>1. UNCHANGED launches
    BY DEF ExecutorStep, PodStep, BeginStep, BeginJob, EndWork, NoticeCancel, ExitSilently,
           LosePod, ReportStep, ReportJob, MovePod
  <1>2. \/ UNCHANGED step
        \/ \E status \in {"running", "completed", "failed"} : SetStep(j, n, status)
    BY DEF ExecutorStep, PodStep, BeginStep, BeginJob, EndWork, NoticeCancel, ExitSilently,
           LosePod, ReportStep, ReportJob, PatchStep, StepVerdict, tables
  <1> QED
    BY <1>1, <1>2, SetStepClaims, SameStepsClaims DEF TypeInv
--------------------------------------------------------------------------------
LEMMA InitClaimInv == Init => ClaimInv
  BY DEF Init, TablesInit, SchedInit, ClaimInv, Holds, HoldingPc, IdleLoop

LEMMA NextClaimInv == TypeInv /\ ClaimInv /\ [Next]_vars => ClaimInv'
  <1> SUFFICES ASSUME TypeInv, ClaimInv, [Next]_vars PROVE ClaimInv'
    OBVIOUS
  <1>1. ASSUME NEW r \in Replicas, Tick(r)
        PROVE  ClaimInv'
    BY <1>1, QuietLoopClaims DEF Tick
  <1>2. ASSUME NEW r \in Replicas, Loops(r)
        PROVE  ClaimInv'
    BY <1>2, QuietLoopClaims, ClaimStepClaims, HandBackClaims, SpawnClaims
       DEF Loops, LoopStep
  <1>3. ASSUME NEW r \in Replicas, ApiCrash(r)
        PROVE  ClaimInv'
    <2>1. NoNewHolder
      BY <1>3 DEF ApiCrash, TypeInv, LoopsOK, NoNewHolder, Holds, CurrentJob, IdleLoop,
                  HoldingPc
    <2>2. NoNewDispatch /\ UNCHANGED <<step, launches>>
      BY <1>3 DEF ApiCrash, NoNewDispatch, tables, cluster
    <2> QED
      BY <2>1, <2>2, SameStepsClaims, ClaimFrame
  <1>4. CASE Calls
    BY <1>4, CallClaims DEF Calls
  <1>5. CASE Creates \/ Users \/ Unlocks
    BY <1>5, UserClaims, SameLoopsClaims DEF Creates, Users, Unlocks
  <1>6. CASE Requests
    BY <1>6, RequestClaims, SameLoopsClaims DEF Requests
  <1>7. ASSUME NEW j \in Jobs, NEW n \in StepNumbers, Pods(j, n) \/ PodFaults(j, n)
        PROVE  ClaimInv'
    BY <1>7, ExecutorClaims, SameLoopsClaims DEF Pods, PodFaults, ExecutorStep
  <1>8. CASE UNCHANGED vars
    BY <1>8, SameStepsClaims, SameLoopsClaims DEF vars, tables, cluster
  <1> QED
    BY <1>1, <1>2, <1>3, <1>4, <1>5, <1>6, <1>7, <1>8 DEF Next

(* The invariant of the claims holds for any number of replicas, whatever   *)
(* users decide and wherever an API process stops.                          *)
THEOREM ClaimsInvariant == Spec => []ClaimInv
  BY InitTypeInv, NextTypeInv, InitClaimInv, NextClaimInv, PTL DEF Spec

(* No step of a run is ever handed to an executor twice: not by two         *)
(* replicas, not after a cancel, a lost answer or a restart.                *)
THEOREM AtMostOneLaunch == Spec => []LaunchedAtMostOnce
  <1>1. TypeInv /\ ClaimInv => LaunchedAtMostOnce
    <2> SUFFICES ASSUME TypeInv, ClaimInv, NEW j \in Jobs, NEW n \in StepNumbers
                 PROVE  launches[j][n] <= 1
      BY DEF LaunchedAtMostOnce
    <2>1. launches[j][n] = 0 \/ launches[j][n] = 1
      BY DEF ClaimInv
    <2> QED
      BY <2>1
  <1> QED
    BY <1>1, TypeInvariance, ClaimsInvariant, PTL

(* The holder of a claimed step is alone: no other replica stands between   *)
(* the claim and the hand-over of the same step, and it is not launched.    *)
THEOREM HoldersAreAlone == Spec => []SoleHolder
  <1>1. TypeInv /\ ClaimInv => SoleHolder
    <2> SUFFICES ASSUME TypeInv, ClaimInv, NEW r \in Replicas, sched[r].pc \in HoldingPc
                 PROVE  /\ launches[CurrentJob(r)][sched[r].num] = 0
                        /\ step[CurrentJob(r)][sched[r].num] # "pending"
                        /\ \A q \in Replicas \ {r} :
                             sched[q].pc \in HoldingPc =>
                                <<CurrentJob(q), sched[q].num>> # <<CurrentJob(r), sched[r].num>>
      BY DEF SoleHolder
    <2>1. CurrentJob(r) \in Jobs /\ sched[r].num \in StepNumbers
      BY DEF TypeInv, LoopsOK, ClaimingPc, CurrentJob, Row
    <2>2. Holds(r, CurrentJob(r), sched[r].num)
      BY DEF Holds
    <2> QED
      BY <2>1, <2>2 DEF ClaimInv, Claimed, Holds
  <1> QED
    BY <1>1, TypeInvariance, ClaimsInvariant, PTL
--------------------------------------------------------------------------------
(* With one polling process that does not restart, no step behind an        *)
(* approval gate is at work before somebody approved the run: for any jobs  *)
(* and flows, and whatever users, executors and the network do.             *)
Gates(j) == {g \in StepNumbers : Flow[j][g] = "approval"}

(* One API process, no restart, handlers that end within a tick; a flow     *)
(* with a gate is kept in the job's tcl column (the default flow has none). *)
LonePoller ==
    /\ \A r, q \in Replicas : r = q
    /\ Events \cap {"apiCrash", "slowHandlers"} = {}
    /\ \A j \in Jobs \ (InlineTcl \cup TemplateTcl) : Gates(j) = {}

(* The gates of the job still count.                                        *)
Guarded(j) == j \notin approvals \cup AutoApply

(* Step n is not behind a gate that counts, nor is it one.                  *)
Free(j, n) == Guarded(j) => \A g \in Gates(j) : n < g

InHand(r, j) == sched[r].row.id = j
Polled(r, j) == sched[r].pc # "kill" /\ \E x \in sched[r].rows : x.id = j

(* The executors of a job, and the calls that are about to start one.       *)
Working(j, n) == pod[j][n].pc \notin {"none", "done"}
Calling(c, j) == c.pc = "execute" /\ c.id = j
AtRest(j) == (\A n \in StepNumbers : ~ Working(j, n)) /\ (\A c \in calls : ~ Calling(c, j))

Selectable == {"pending", "queue"}

(* InitJobSteps has steps of the job left to insert.                        *)
Missing(j) == \E n \in Entries(j) : step[j][n] = "none"
Initializing(q, j) == q.id = j /\ q.pc \in {"readTcl", "insertSteps"}
--------------------------------------------------------------------------------
(* What the loop has in hand is what it polled: one row of each job.        *)
RowsInv ==
    \A r \in Replicas :
        /\ sched[r].pc # "kill" =>
             /\ \A x, y \in sched[r].rows : x.id = y.id => x = y
             /\ \A x \in sched[r].rows :
                  /\ x.id # sched[r].row.id
                  /\ x.status = "approved" => x.id \in approvals
                  /\ x.id \in InlineTcl \cup TemplateTcl => x.tcl
        /\ sched[r].pc = "claimJob" =>
             \/ sched[r].row.status = "pending"
             \/ sched[r].row.status = "approved" /\ CurrentJob(r) \in approvals
        /\ sched[r].pc = "passGate" => CurrentJob(r) \in approvals

(* Whatever is skipped, claimed, called or was ever started is free.        *)
FreeInv ==
    /\ \A r \in Replicas :
         sched[r].pc \in HoldingPc \cup {"skipStep", "claimStep", "failStep"} =>
            Free(CurrentJob(r), sched[r].num)
    /\ \A c \in calls : Free(c.id, c.num)
    /\ \A j \in Jobs, n \in StepNumbers : pod[j][n].pc # "none" => Free(j, n)

(* A job that may be polled has no executor; no job has two.                *)
OneExecutor(j) ==
    /\ job[j] \in Selectable => AtRest(j)
    /\ \A r \in Replicas :
         /\ Polled(r, j) \/ InHand(r, j) => AtRest(j)
         /\ InHand(r, j) /\ sched[r].pc = "spawn" => job[j] \notin Selectable
    /\ \A m, n \in StepNumbers : Working(j, m) /\ Working(j, n) => m = n
    /\ \A n \in StepNumbers, c \in calls : ~ (Working(j, n) /\ Calling(c, j))
    /\ \A c, d \in calls : Calling(c, j) /\ Calling(d, j) => c = d

(* Before its steps are inserted a job is left alone; then it has its flow. *)
LeftAlone(j) ==
    /\ \A n \in StepNumbers : ~ Working(j, n)
    /\ \A c \in calls : c.id # j
    /\ \A r \in Replicas : ~ Polled(r, j) /\ ~ InHand(r, j)

InitInv(j) ==
    /\ Missing(j) \/ job[j] = "none" => LeftAlone(j)
    /\ job[j] = "none" => tcl[j] = FALSE /\ \A n \in StepNumbers : step[j][n] = "none"
    /\ Missing(j) /\ job[j] # "none" => \E q \in requests : Initializing(q, j)
    /\ \A q, p \in requests : Initializing(q, j) /\ Initializing(p, j) => q = p
    /\ job[j] # "none" /\ j \in InlineTcl => tcl[j]
    /\ job[j] # "none" /\ j \in TemplateTcl =>
         tcl[j] \/ \E q \in requests : q.id = j /\ q.pc = "readTcl"
    /\ job[j] = "approved" => j \in approvals

RequestInv(q) ==
    /\ job[q.id] # "none"
    /\ q.pc \in {"passGate", "requeue"} => q.id \in approvals
    /\ q.pc \in {"passGate", "rejectGate"} => q.num \in StepNumbers /\ step[q.id][q.num] # "none"
    /\ q.pc = "rejectGate" /\ Guarded(q.id) /\ q.num \in Gates(q.id) =>
         step[q.id][q.num] # "pending"
    /\ q.pc = "readTcl" /\ Entries(q.id) # {} => \A n \in StepNumbers : step[q.id][n] = "none"
    /\ q.pc \in {"cancelSteps", "closeSteps", "failSteps"} /\ Missing(q.id) /\ Guarded(q.id) =>
         job[q.id] \notin Selectable

(* The gate is no longer pending although a step behind it is, or will be.  *)
Passed(j, g) ==
    /\ step[j][g] \notin {"none", "pending"}
    /\ \E n \in StepNumbers : /\ g < n
                              /\ step[j][n] = "pending"
                                 \/ (n \in Entries(j) /\ step[j][n] = "none")

Parking(r, j) == InHand(r, j) /\ sched[r].pc = "parkJob"
Closing(q, j) == q.id = j /\ q.pc \in {"rejectJob", "cancelJob"}

(* Then nobody works on the job or will poll it: it waits, or is over, or   *)
(* is about to.                                                             *)
PassedInv(j) ==
    \A g \in Gates(j) : Passed(j, g) =>
        /\ AtRest(j)
        /\ \A r \in Replicas : ~ Polled(r, j) /\ (InHand(r, j) => Parking(r, j))
        /\ \/ job[j] \notin Selectable
           \/ \E r \in Replicas : Parking(r, j)
           \/ \E q \in requests : Closing(q, j)

(* An executor that is about to report has something to report.             *)
VerdictInv ==
    \A j \in Jobs, n \in StepNumbers :
        pod[j][n].pc \in {"reportStep", "reportJob"} => pod[j][n].verdict # "none"

GateInv ==
    /\ RowsInv /\ FreeInv /\ VerdictInv
    /\ \A j \in Jobs : InitInv(j) /\ (Guarded(j) => OneExecutor(j) /\ PassedInv(j))
    /\ \A q \in requests : RequestInv(q)
--------------------------------------------------------------------------------
(* What a statement does to the steps of a job: nothing, one step, or all   *)
(* steps that have certain statuses.                                        *)
Same(j) == \A n \in StepNumbers : step'[j][n] = step[j][n]
Sets(j, m, status) ==
    \A n \in StepNumbers : step'[j][n] = IF n = m THEN status ELSE step[j][n]
Moves(j, from, to) ==
    \A n \in StepNumbers : step'[j][n] = IF step[j][n] \in from THEN to ELSE step[j][n]

LEMMA SetStepAt ==
    ASSUME TablesTypeOK, NEW i, NEW m, NEW status, SetStep(i, m, status), NEW j \in Jobs
    PROVE  IF i = j THEN Sets(j, m, status) ELSE Same(j)
BY DEF TablesTypeOK, SetStep, Sets, Same

LEMMA MoveStepsAt ==
    ASSUME TablesTypeOK, NEW i, NEW from, NEW to, MoveSteps(i, from, to), NEW j \in Jobs
    PROVE  IF i = j THEN Moves(j, from, to) ELSE Same(j)
BY DEF TablesTypeOK, MoveSteps, Moves, Same

LEMMA SetJobAt ==
    ASSUME TablesTypeOK, NEW i, NEW status, SetJob(i, status), NEW j \in Jobs
    PROVE  job'[j] = IF i = j THEN status ELSE job[j]
BY DEF TablesTypeOK, SetJob

(* The loop works on the row it has in hand.                                *)
LEMMA LoopSteps ==
    ASSUME TypeInv, RowsInv, FreeInv, NEW r \in Replicas, LoopStep(r), NEW j \in Jobs
    PROVE  \/ Same(j)
           \/ /\ InHand(r, j)
              /\ \/ \E n \in StepNumbers \cup {0}, s \in StepStatus \ {"none"} :
                       Free(j, n) /\ Sets(j, n, s)
                 \/ ParkStep(r) /\ Sets(j, sched[r].num, "waitingApproval")
                 \/ j \in approvals /\ Moves(j, {"waitingApproval"}, "completed")
<1> USE DEF TypeInv, At, InHand, CurrentJob
<1>1. sched[r].num \in StepNumbers \cup {0}
  BY DEF LoopsOK, Loop
<1>2. CASE UNCHANGED step
  BY <1>2 DEF Same
<1>3. CASE SkipStep(r)
  BY <1>1, <1>3, SetStepAt DEF SkipStep, FreeInv, StepStatus
<1>4. CASE ClaimStep(r)
  <2>1. CASE SetStep(CurrentJob(r), sched[r].num, "running")
    BY <1>1, <1>4, <2>1, SetStepAt DEF ClaimStep, FreeInv, StepStatus
  <2> QED
    BY <1>2, <1>4, <2>1 DEF ClaimStep
<1>5. CASE HandBack(r)
  <2>1. CASE SetStep(CurrentJob(r), sched[r].num, "pending")
    BY <1>1, <1>5, <2>1, SetStepAt DEF HandBack, FreeInv, StepStatus, HoldingPc
  <2> QED
    BY <1>2, <1>5, <2>1 DEF HandBack
<1>6. CASE NoExecutor(r)
  <2>1. CASE At(r, "failStep") /\ SetStep(CurrentJob(r), sched[r].num, "failed")
    BY <1>1, <2>1, SetStepAt DEF FreeInv, StepStatus
  <2> QED
    BY <1>2, <1>6, <2>1 DEF NoExecutor
<1>7. CASE ParkStep(r)
  BY <1>7, SetStepAt DEF ParkStep
<1>8. CASE PassGate(r)
  BY <1>8, MoveStepsAt DEF PassGate, RowsInv
<1> QED
  BY <1>2, <1>3, <1>4, <1>5, <1>6, <1>7, <1>8
  DEF LoopStep, CheckOlder, ClaimJob, UnlockWorkspace, LookupStep, Advance, CountOpen, Tally,
      FinishJob, ReleaseFinished, ParkJob, LockWorkspace, RunJob, Spawn, PollCancels, KillPods,
      tables

LEMMA CallSteps ==
    ASSUME TypeInv, FreeInv, NEW c \in calls, CallStep(c), NEW j \in Jobs
    PROVE  Same(j) \/ (c.id = j /\ Free(j, c.num) /\ Sets(j, c.num, "failed"))
<1>1. CASE UNCHANGED step
  BY <1>1 DEF Same
<1>2. CASE SetStep(c.id, c.num, "failed")
  BY <1>2, SetStepAt DEF TypeInv, FreeInv
<1> QED
  BY <1>1, <1>2 DEF CallStep, Execute, FailCall, tables

LEMMA PodSteps ==
    ASSUME TypeInv, FreeInv, NEW i \in Jobs, NEW m \in StepNumbers, ExecutorStep(i, m),
           NEW j \in Jobs
    PROVE  \/ Same(j)
           \/ /\ i = j /\ Working(j, m) /\ Free(j, m)
              /\ \E s \in {"running", "failed", "completed"} : Sets(j, m, s)
<1>1. CASE UNCHANGED step
  BY <1>1 DEF Same
<1>2. ASSUME NEW s \in {"running", "failed", "completed"}, SetStep(i, m, s), Working(i, m)
      PROVE  \/ Same(j)
             \/ i = j /\ Working(j, m) /\ Free(j, m) /\ Sets(j, m, s)
  BY <1>2, SetStepAt DEF TypeInv, FreeInv, Working
<1>3. CASE BeginStep(i, m)
  BY <1>1, <1>2, <1>3 DEF BeginStep, PatchStep, PodAt, Working
<1>4. CASE ReportStep(i, m)
  <2>1. StepVerdict(pod[i][m].verdict) \in {"running", "failed", "completed"}
    BY DEF StepVerdict
  <2> QED
    BY <1>1, <1>2, <1>4, <2>1 DEF ReportStep, PatchStep, PodAt, Working
<1> QED
  BY <1>1, <1>3, <1>4 DEF ExecutorStep, PodStep, BeginJob, EndWork, NoticeCancel, ReportJob,
     ExitSilently, LosePod, tables

(* A handler inserts the lowest missing step, decides about one gate, or    *)
(* closes steps that are not none.                                          *)
LEMMA RequestSteps ==
    ASSUME TypeInv, NEW q \in requests, RequestStep(q), NEW j \in Jobs
    PROVE  \/ Same(j)
           \/ /\ q.id = j
              /\ \/ /\ q.pc = "insertSteps"
                    /\ \E n \in Lowest({m \in Entries(j) : step[j][m] = "none"}) :
                          Sets(j, n, "pending")
                 \/ q.pc = "passGate" /\ Sets(j, q.num, "completed")
                 \/ q.pc = "rejectGate" /\ Sets(j, q.num, "rejected")
                 \/ /\ q.pc \in {"cancelSteps", "closeSteps", "failSteps"}
                    /\ \E from \in SUBSET {"pending", "running", "waitingApproval"},
                          to \in {"cancelled", "notExecuted", "failed"} : Moves(j, from, to)
                 \/ q.pc = "discardGate" /\ Moves(j, {"waitingApproval"}, "rejected")
                 \/ DropSteps(q) /\ Moves(j, {"pending"}, "notExecuted")
<1> USE DEF TypeInv
<1>1. CASE UNCHANGED step
  BY <1>1 DEF Same
<1>2. CASE InsertStep(q)
  <2> DEFINE missing == {m \in Entries(q.id) : step[q.id][m] = "none"}
  <2>1. /\ q.pc = "insertSteps"
        /\ UNCHANGED step \/ \E n \in Lowest(missing) : SetStep(q.id, n, "pending")
    BY <1>2 DEF InsertStep
  <2>2. ASSUME NEW n \in Lowest(missing), SetStep(q.id, n, "pending"), q.id = j
        PROVE  Sets(j, n, "pending") /\ n \in Lowest({m \in Entries(j) : step[j][m] = "none"})
    BY <2>2, SetStepAt
  <2>3. ASSUME NEW n, SetStep(q.id, n, "pending"), q.id # j PROVE Same(j)
    BY <2>3, SetStepAt
  <2> HIDE DEF missing
  <2> QED
    BY <1>1, <2>1, <2>2, <2>3
<1>3. CASE CompleteGate(q)
  BY <1>3, SetStepAt DEF CompleteGate
<1>4. CASE RejectGate(q)
  BY <1>4, SetStepAt DEF RejectGate
<1>5. CASE PatchHook(q)
  <2>1. ASSUME NEW from \in SUBSET {"pending", "running", "waitingApproval"},
               NEW to \in {"cancelled", "notExecuted", "failed"}, MoveSteps(q.id, from, to)
        PROVE  Same(j) \/ (q.id = j /\ Moves(j, from, to))
    BY <2>1, MoveStepsAt
  <2>2. \/ MoveSteps(q.id, {"pending", "running", "waitingApproval"}, "cancelled")
        \/ MoveSteps(q.id, {"pending", "waitingApproval"}, "notExecuted")
        \/ MoveSteps(q.id, {"pending", "waitingApproval"}, "failed")
    BY <1>5 DEF PatchHook
  <2>3. PICK from \in SUBSET {"pending", "running", "waitingApproval"},
             to \in {"cancelled", "notExecuted", "failed"} : MoveSteps(q.id, from, to)
    BY <2>2
  <2> QED
    BY <1>5, <2>1, <2>3 DEF PatchHook
<1>6. CASE DiscardGate(q)
  BY <1>6, MoveStepsAt DEF DiscardGate
<1>7. CASE DropSteps(q)
  BY <1>7, MoveStepsAt DEF DropSteps
<1> QED
  BY <1>1, <1>2, <1>3, <1>4, <1>5, <1>6, <1>7
  DEF RequestStep, ReadTcl, ReleaseLock, Requeue, CloseJob, CancelRun
--------------------------------------------------------------------------------
(* What one step of the system may do; restarts are excluded.               *)
LEMMA Steps ==
    ASSUME LonePoller, [Next]_vars
    PROVE  \/ \E r \in Replicas : Tick(r)
           \/ (\E r \in Replicas : LoopStep(r)) /\ UNCHANGED apiVars
           \/ (\E c \in calls : CallStep(c)) /\ UNCHANGED apiVars
           \/ (Create \/ UserStep \/ \E w \in Workspaces : CliUnlock(w)) /\ UNCHANGED schedVars
           \/ (\E q \in requests : RequestStep(q)) /\ UNCHANGED schedVars
           \/ (\E j \in Jobs, n \in StepNumbers : ExecutorStep(j, n)) /\ UNCHANGED schedVars
           \/ UNCHANGED vars
BY DEF LonePoller, Next, Loops, Calls, Creates, Users, Unlocks, Requests, Pods, PodFaults,
   ExecutorStep, ApiCrash

(* Creation, users and the CLI leave the steps alone.                       *)
LEMMA UserSteps ==
    ASSUME Create \/ UserStep \/ \E w \in Workspaces : CliUnlock(w)
    PROVE UNCHANGED <<step, cluster>>
BY DEF Create, CreateJob, CreateRun, InsertJob, UserStep, UiApprove, UiReject, UiCancel,
   PatchJob, RestApprove, RestReject, CliCancel, CliDiscard, CliLock, CliUnlock, tables

(* An inserted step stays inserted.                                         *)
LEMMA StepsStay ==
    ASSUME LonePoller, TypeInv, RowsInv, FreeInv, [Next]_vars, NEW j \in Jobs,
           NEW n \in StepNumbers,
           step'[j][n] = "none"
    PROVE  step[j][n] = "none"
<1>1. CASE UNCHANGED step
  BY <1>1
<1>2. CASE Same(j)
  BY <1>2 DEF Same
<1>3. ASSUME NEW m, NEW s, s # "none", Sets(j, m, s) PROVE step[j][n] = "none"
  BY <1>3 DEF Sets
<1>4. ASSUME NEW from, NEW to, to # "none", Moves(j, from, to) PROVE step[j][n] = "none"
  BY <1>4 DEF Moves
<1>5. CASE \E r \in Replicas : LoopStep(r)
  BY <1>2, <1>3, <1>4, <1>5, LoopSteps
<1>6. CASE \E c \in calls : CallStep(c)
  BY <1>2, <1>3, <1>6, CallSteps
<1>7. CASE \E q \in requests : RequestStep(q)
  BY <1>2, <1>3, <1>4, <1>7, RequestSteps
<1>8. CASE \E i \in Jobs, m \in StepNumbers : ExecutorStep(i, m)
  BY <1>2, <1>3, <1>8, PodSteps
<1> QED
  BY <1>1, <1>5, <1>6, <1>7, <1>8, Steps, UserSteps DEF Tick, PollJobs, tables, vars
--------------------------------------------------------------------------------
(* The loop keeps its row, drops it, or takes one of those it polled.       *)
LEMMA LoopMoves ==
    ASSUME TypeInv, NEW r \in Replicas, LoopStep(r)
    PROVE  /\ \A q \in Replicas \ {r} : sched'[q] = sched[q]
           /\ \/ /\ sched'[r].rows = sched[r].rows /\ sched'[r].row = sched[r].row
                 /\ sched'[r].num = sched[r].num /\ sched[r].pc # "kill"
              \/ /\ sched'[r].row = NoRow /\ sched'[r].pc \in {"idle", "next", "cancels", "kill"}
                 /\ \/ sched'[r].pc = "kill" \/ sched'[r].rows = {}
                    \/ sched'[r].rows \subseteq sched[r].rows /\ sched[r].pc # "kill"
              \/ /\ sched[r].pc = "next" /\ (CheckOlder(r) \/ LookupStep(r))
                 /\ \E x \in First(sched[r].rows) :
                      sched'[r].row = x /\ sched'[r].rows = sched[r].rows \ {x}
<1>1. sched \in [Replicas -> Loop]
  BY DEF TypeInv, LoopsOK
<1>2. ASSUME NEW rows, NextRow(r, rows), rows \subseteq sched[r].rows, sched[r].pc # "kill"
      PROVE  /\ \A q \in Replicas \ {r} : sched'[q] = sched[q]
             /\ sched'[r].row = NoRow /\ sched'[r].pc \in {"next", "cancels"}
             /\ sched'[r].rows \subseteq sched[r].rows
  BY <1>1, <1>2 DEF NextRow, IdleLoop
<1>3. ASSUME NEW pc, Goto(r, pc), sched[r].pc # "kill"
      PROVE  /\ \A q \in Replicas \ {r} : sched'[q] = sched[q]
             /\ sched'[r].rows = sched[r].rows /\ sched'[r].row = sched[r].row
             /\ sched'[r].num = sched[r].num
  BY <1>1, <1>3 DEF Goto, Loop
<1>4. ASSUME NEW x, NEW pc, NEW n, TakeRow(r, x, pc, n)
      PROVE  /\ \A q \in Replicas \ {r} : sched'[q] = sched[q]
             /\ sched'[r].row = x /\ sched'[r].rows = sched[r].rows \ {x}
  BY <1>1, <1>4 DEF TakeRow
<1>5. CASE CheckOlder(r)
  <2>1. sched[r].pc = "next"
    BY <1>5 DEF CheckOlder, At
  <2>2. PICK x \in First(sched[r].rows) :
           TakeRow(r, x, "claimJob", 0) \/ NextRow(r, sched[r].rows \ {x})
    BY <1>5 DEF CheckOlder
  <2>3. CASE TakeRow(r, x, "claimJob", 0)
    BY <1>4, <1>5, <2>1, <2>3
  <2>4. CASE NextRow(r, sched[r].rows \ {x})
    <3>1. sched[r].rows \ {x} \subseteq sched[r].rows /\ sched[r].pc # "kill"
      BY <2>1
    <3> QED
      BY <1>2, <2>4, <3>1
  <2> QED
    BY <2>2, <2>3, <2>4
<1>6. CASE LookupStep(r)
  <2>1. sched[r].pc = "next"
    BY <1>6 DEF LookupStep, At
  <2>2. PICK x \in First(sched[r].rows) :
           \/ TakeRow(r, x, "countOpen", 0)
           \/ \E n \in Lowest(StepsIn(x.id, {"pending"})) :
                 TakeRow(r, x, StageOf(x.id, ResolveType(x.id, n, x.tcl)), n)
    BY <1>6 DEF LookupStep
  <2>3. sched'[r].row = x /\ sched'[r].rows = sched[r].rows \ {x}
    BY <1>4, <2>2
  <2>4. \A q \in Replicas \ {r} : sched'[q] = sched[q]
    BY <1>4, <2>2
  <2> QED
    BY <1>6, <2>1, <2>3, <2>4
<1>7. CASE PollCancels(r)
  BY <1>1, <1>7 DEF PollCancels, IdleLoop
<1>8. CASE KillPods(r)
  <2>1. PICK x \in First(sched[r].rows) : sched' = [sched EXCEPT ![r] =
                    [IdleLoop EXCEPT !.pc = IF sched[r].rows \ {x} = {} THEN "idle" ELSE "kill",
                                     !.rows = sched[r].rows \ {x}]]
    BY <1>8, Zenon DEF KillPods
  <2>2. /\ sched'[r].row = NoRow /\ sched'[r].rows = sched[r].rows \ {x}
        /\ sched'[r].pc = IF sched[r].rows \ {x} = {} THEN "idle" ELSE "kill"
    BY <1>1, <2>1 DEF IdleLoop
  <2>3. \A q \in Replicas \ {r} : sched'[q] = sched[q]
    BY <1>1, <2>1
  <2> QED
    BY <2>2, <2>3
<1>9. CASE (\E pc : Goto(r, pc)) /\ sched[r].pc # "kill"
  BY <1>3, <1>9
<1>10. CASE EndOfRow(r) /\ sched[r].pc # "kill"
  BY <1>2, <1>10 DEF EndOfRow
<1>11. ClaimJob(r) \/ PassGate(r) \/ UnlockWorkspace(r) \/ SkipStep(r) \/ Advance(r)
         \/ CountOpen(r)
       \/ Tally(r) \/ FinishJob(r) \/ ReleaseFinished(r) \/ ParkStep(r) \/ ParkJob(r)
       => ((\E pc : Goto(r, pc)) \/ EndOfRow(r)) /\ sched[r].pc # "kill"
  BY DEF ClaimJob, PassGate, UnlockWorkspace, SkipStep, Advance, CountOpen, Tally, FinishJob,
     ReleaseFinished, ParkStep, ParkJob, At
<1>12. ClaimStep(r) \/ LockWorkspace(r) \/ HandBack(r) \/ RunJob(r) \/ Spawn(r) \/ NoExecutor(r)
       => ((\E pc : Goto(r, pc)) \/ EndOfRow(r)) /\ sched[r].pc # "kill"
  BY DEF ClaimStep, LockWorkspace, HandBack, RunJob, Spawn, NoExecutor, At
<1> QED
  BY <1>5, <1>6, <1>7, <1>8, <1>9, <1>10, <1>11, <1>12 DEF LoopStep

(* What the query of a tick selects: of each job one row, as the job is.    *)
LEMMA PolledRow ==
    ASSUME NEW x \in PollResult
    PROVE  x.id \in Jobs /\ Pollable(x.id) /\ x.status = job[x.id] /\ x.tcl = tcl[x.id]
           /\ x = [id |-> x.id, status |-> job[x.id], tcl |-> tcl[x.id]]
<1>1. PICK i \in Jobs : Pollable(i) /\ x = [id |-> i, status |-> job[i], tcl |-> tcl[i]]
  BY DEF PollResult
<1> QED
  BY <1>1

(* What is polled or in hand was so before, except at a tick.               *)
LEMMA StillPolled ==
    ASSUME LonePoller, TypeInv, [Next]_vars, NEW r \in Replicas, NEW j \in Jobs
    PROVE  /\ Polled(r, j)' =>
                \/ Polled(r, j)
                \/ /\ Tick(r) /\ job[j] \in Selectable \cup {"approved"}
                   /\ sched[r].pc = "idle" /\ requests = {}
                      /\ UNCHANGED <<tables, cluster, calls, apiVars>>
           /\ InHand(r, j)' => InHand(r, j) \/ Polled(r, j)
<1>1. CASE UNCHANGED sched
  BY <1>1 DEF Polled, InHand
<1>2. ASSUME NEW p \in Replicas, Tick(p)
      PROVE  /\ requests = {} /\ p = r /\ PollJobs(p) /\ UNCHANGED apiVars
  BY <1>2 DEF LonePoller, Tick
<1>3. CASE Tick(r)
  <2>1. sched[r].pc = "idle" /\ NextRow(r, PollResult) /\ UNCHANGED <<tables, cluster, calls>>
    BY <1>2, <1>3 DEF PollJobs, At
  <2>2. sched'[r].rows = PollResult /\ sched'[r].row = NoRow
    BY <2>1 DEF NextRow, IdleLoop, TypeInv, LoopsOK
  <2>3. \A x \in PollResult : job[x.id] \in Selectable \cup {"approved"}
    BY PolledRow DEF Selectable, Pollable
  <2>4. ~ InHand(r, j)'
    BY <2>2 DEF InHand, NoRow, Jobs
  <2>5. Polled(r, j)' => job[j] \in Selectable \cup {"approved"}
    BY <2>2, <2>3 DEF Polled
  <2> QED
    BY <1>2, <1>3, <2>1, <2>4, <2>5
<1>4. CASE \E p \in Replicas : LoopStep(p)
  <2>1. LoopStep(r)
    BY <1>4 DEF LonePoller
  <2>2. NoRow.id # j
    BY DEF NoRow, Jobs
  <2>3. First(sched[r].rows) \subseteq sched[r].rows
    BY DEF First
  <2> QED
    BY <2>1, <2>2, <2>3, LoopMoves DEF Polled, InHand
<1>5. CASE \E c \in calls : CallStep(c)
  BY <1>1, <1>5 DEF CallStep, Execute, FailCall
<1>6. CASE \E p \in Replicas : Tick(p)
  BY <1>2, <1>3, <1>6
<1> QED
  BY <1>1, <1>4, <1>5, <1>6, Steps DEF schedVars, vars
--------------------------------------------------------------------------------
(* Executors and calls: a call starts its executor, the loop makes a call   *)
(* and drops its row, or neither.                                           *)
Kept(d) == \E c \in calls : c.id = d.id /\ c.num = d.num /\ (d.pc = "execute" => c = d)

Quiet ==
    /\ \A j \in Jobs, n \in StepNumbers :
         /\ Working(j, n)' => Working(j, n)
         /\ pod'[j][n].pc # "none" => pod[j][n].pc # "none"
    /\ \A d \in calls' : Kept(d)

Starts(c) ==
    /\ c.pc = "execute"
    /\ UNCHANGED <<tables, sched, apiVars>>
    /\ \A j \in Jobs, n \in StepNumbers : j # c.id \/ n # c.num =>
         /\ Working(j, n)' => Working(j, n)
         /\ pod'[j][n].pc # "none" => pod[j][n].pc # "none"
    /\ \A d \in calls' : Kept(d) /\ d # c

Hires(r) ==
    /\ sched[r].pc = "spawn"
    /\ EndOfRow(r)
    /\ UNCHANGED <<tables, cluster, apiVars>>
    /\ \E e \in Call : /\ e.id = CurrentJob(r) /\ e.num = sched[r].num
                       /\ calls' = calls \cup {e}

LEMMA CallsKept ==
    ASSUME TypeInv, NEW c \in calls, NEW pc \in CallPc \ {"execute"},
           MoveCall(c, pc) \/ calls' = calls \ {c}
    PROVE  \A d \in calls' : Kept(d) /\ (c.pc = "execute" => d # c)
<1> DEFINE e == [c EXCEPT !.pc = pc]
<1>1. c \in Call /\ calls \subseteq Call
  BY DEF TypeInv
<1>2. e.id = c.id /\ e.num = c.num /\ e.pc = pc
  BY <1>1 DEF Call
<1>3. calls' \subseteq (calls \ {c}) \cup {e}
  BY DEF MoveCall
<1> HIDE DEF e
<1> QED
  BY <1>2, <1>3 DEF Kept

LEMMA CallActivity ==
    ASSUME TypeInv, NEW c \in calls, CallStep(c), UNCHANGED apiVars
    PROVE  Quiet \/ Starts(c)
<1>1. {"failStep", "failJob", "failRelease"} \subseteq CallPc \ {"execute"}
  BY DEF CallPc
<1>2. CASE Execute(c)
  <2>1. c.pc = "execute" /\ UNCHANGED <<tables, sched>>
    BY <1>2 DEF Execute
  <2>2. MoveCall(c, "failStep") \/ calls' = calls \ {c}
    BY <1>2 DEF Execute
  <2>3. \A d \in calls' : Kept(d) /\ d # c
    BY <1>1, <2>1, <2>2, CallsKept
  <2>4. UNCHANGED pod \/ StartPod(c.id, c.num, c.type)
    BY <1>2 DEF Execute
  <2>5. \A j \in Jobs, n \in StepNumbers : j # c.id \/ n # c.num => pod'[j][n] = pod[j][n]
    BY <2>4 DEF StartPod, TypeInv, TablesTypeOK
  <2> QED
    BY <2>1, <2>3, <2>5 DEF Starts, Working
<1>3. CASE FailCall(c)
  <2>1. UNCHANGED <<pod, sched>>
    BY <1>3 DEF FailCall, cluster
  <2>2. MoveCall(c, "failJob") \/ MoveCall(c, "failRelease") \/ calls' = calls \ {c}
    BY <1>3 DEF FailCall
  <2> QED
    BY <1>1, <2>1, <2>2, CallsKept DEF Quiet, Working
<1> QED
  BY <1>2, <1>3 DEF CallStep

LEMMA SameCallsKept ==
    ASSUME TypeInv, UNCHANGED calls PROVE \A d \in calls' : Kept(d)
BY DEF Kept

LEMMA KilledPods ==
    ASSUME TypeInv, NEW r \in Replicas, KillPods(r)
    PROVE  /\ UNCHANGED calls
           /\ \A j \in Jobs, n \in StepNumbers :
                pod'[j][n] = pod[j][n] \/ (pod[j][n].pc # "none" /\ pod'[j][n].pc = "done")
<1>1. UNCHANGED calls
  BY Zenon DEF KillPods
<1>2. PICK x \in First(sched[r].rows) :
        \/ pod' = [pod EXCEPT ![x.id] =
                      [n \in StepNumbers |-> IF @[n].pc = "none" THEN @[n]
                         ELSE [@[n] EXCEPT !.pc = "done", !.verdict = "none"]]]
        \/ pod' = pod
  BY Zenon DEF KillPods
<1> DEFINE killed(p) == [p EXCEPT !.pc = "done", !.verdict = "none"]
           pods == [n \in StepNumbers |-> IF pod[x.id][n].pc = "none" THEN pod[x.id][n]
                                          ELSE killed(pod[x.id][n])]
<1>3. pod \in [Jobs -> [StepNumbers -> Pod]]
  BY DEF TypeInv, TablesTypeOK
<1>4. pod' \in {pod, [pod EXCEPT ![x.id] = pods]}
  BY <1>2, Zenon
<1>5. \A p \in Pod : killed(p).pc = "done"
  BY DEF Pod
<1> HIDE DEF killed
<1>6. \A n \in StepNumbers : pods[n] = IF pod[x.id][n].pc = "none" THEN pod[x.id][n]
                                       ELSE killed(pod[x.id][n])
  OBVIOUS
<1> HIDE DEF pods
<1>7. \A j \in Jobs, n \in StepNumbers :
        pod'[j][n] = pod[j][n] \/ (pod[j][n].pc # "none" /\ pod'[j][n].pc = "done")
  BY <1>3, <1>4, <1>5, <1>6
<1> QED
  BY <1>1, <1>7

LEMMA LoopActivity ==
    ASSUME TypeInv, NEW r \in Replicas, LoopStep(r), UNCHANGED apiVars
    PROVE  Quiet \/ Hires(r)
<1>1. CASE UNCHANGED <<pod, calls>>
  BY <1>1, SameCallsKept DEF Quiet, Working
<1>2. CASE Spawn(r)
  <2>1. CASE UNCHANGED calls
    BY <1>1, <1>2, <2>1 DEF Spawn, cluster
  <2> DEFINE e == [by |-> r, id |-> CurrentJob(r), num |-> sched[r].num, pc |-> "execute",
                   type |-> ResolveType(CurrentJob(r), sched[r].num, sched[r].row.tcl)]
  <2>2. CASE calls' = calls \cup {e} /\ EndOfRow(r)
    <3>1. e \in calls'
      BY <2>2
    <3>2. e \in Call
      BY <1>2, <3>1, SpawnType
    <3>3. e.id = CurrentJob(r) /\ e.num = sched[r].num
      OBVIOUS
    <3> HIDE DEF e
    <3> QED
      BY <1>2, <2>2, <3>2, <3>3 DEF Spawn, Hires, At
  <2> HIDE DEF e
  <2>3. UNCHANGED calls \/ (calls' = calls \cup {e} /\ EndOfRow(r))
    BY <1>2 DEF Spawn, e
  <2> QED
    BY <2>1, <2>2, <2>3
<1>3. CASE KillPods(r)
  BY <1>3, KilledPods, SameCallsKept DEF Quiet, Working
<1> QED
  BY <1>1, <1>2, <1>3
  DEF LoopStep, CheckOlder, ClaimJob, PassGate, UnlockWorkspace, LookupStep, SkipStep, Advance,
      CountOpen, Tally, FinishJob, ReleaseFinished, ParkStep, ParkJob, ClaimStep, LockWorkspace,
      HandBack, RunJob, NoExecutor, PollCancels, cluster

LEMMA PodActivity ==
    ASSUME TypeInv, NEW i \in Jobs, NEW m \in StepNumbers, ExecutorStep(i, m), UNCHANGED calls
    PROVE  Quiet /\ Working(i, m)
<1>1. \E pc, v : pc # "none" /\ MovePod(i, m, pc, v)
  <2>1. \A pc \in {"begun", "active", "reportStep", "reportJob", "done"} : pc # "none"
    OBVIOUS
  <2> QED
    BY <2>1 DEF ExecutorStep, PodStep, BeginStep, BeginJob, EndWork, NoticeCancel, ReportStep,
       ReportJob, ExitSilently, LosePod
<1>2. Working(i, m)
  BY DEF ExecutorStep, PodStep, BeginStep, BeginJob, EndWork, NoticeCancel, ReportStep,
     ReportJob, ExitSilently, LosePod, PodAt, Working
<1>3. \A j \in Jobs, n \in StepNumbers : j # i \/ n # m => pod'[j][n] = pod[j][n]
  BY <1>1 DEF MovePod, TypeInv, TablesTypeOK
<1> QED
  BY <1>2, <1>3, SameCallsKept DEF Quiet, Working

LEMMA Activity ==
    ASSUME LonePoller, TypeInv, [Next]_vars
    PROVE  Quiet \/ (\E c \in calls : Starts(c)) \/ (\E r \in Replicas : Hires(r))
<1>1. CASE UNCHANGED <<pod, calls>>
  BY <1>1, SameCallsKept DEF Quiet, Working
<1>2. CASE \E r \in Replicas : Tick(r)
  BY <1>1, <1>2 DEF Tick, PollJobs, cluster
<1>3. CASE (\E q \in requests : RequestStep(q)) /\ UNCHANGED schedVars
  BY <1>1, <1>3 DEF RequestStep, ReadTcl, InsertStep, PatchHook, ReleaseLock, CompleteGate,
     Requeue, RejectGate, DiscardGate, DropSteps, CloseJob, CancelRun, cluster, schedVars
<1> QED
  BY <1>1, <1>2, <1>3, Steps, UserSteps, CallActivity, LoopActivity, PodActivity
  DEF cluster, schedVars, vars
--------------------------------------------------------------------------------
(* Job rows: none is deleted, only an approval writes "approved", and only  *)
(* the insertion, an executor's report or an approval makes a job pollable. *)
Reports(j) == \E n \in StepNumbers : Working(j, n) /\ ReportJob(j, n) /\ UNCHANGED schedVars
Inserts(j) == InsertJob(j) /\ UNCHANGED schedVars

JobMove(j) ==
    /\ job'[j] = "none" => job[j] = "none"
    /\ job[j] = "none" /\ job'[j] # "none" => Inserts(j)
    /\ job'[j] = "approved" => job[j] = "approved" \/ j \in approvals'
    /\ job'[j] \in Selectable =>
         job[j] \in Selectable \/ Inserts(j) \/ Reports(j) \/ j \in approvals

LEMMA LoopJobs ==
    ASSUME TypeInv, RowsInv, NEW r \in Replicas, LoopStep(r), NEW j \in Jobs,
           ~ InHand(r, j) \/ job[j] # "none"
    PROVE  JobMove(j) /\ (job[j] # "none" \/ job'[j] = "none")
<1> USE DEF TypeInv, InHand, At, CurrentJob
<1>1. CASE job'[j] = job[j]
  BY <1>1 DEF JobMove
<1>2. ASSUME NEW s, SetJob(CurrentJob(r), s), s \notin Selectable \cup {"none", "approved"}
      PROVE  JobMove(j) /\ (job[j] # "none" \/ job'[j] = "none")
  <2>1. job'[j] = IF CurrentJob(r) = j THEN s ELSE job[j]
    BY <1>2, SetJobAt
  <2> QED
    BY <1>2, <2>1 DEF JobMove
<1>3. CASE ClaimJob(r) /\ job[sched[r].row.id] = sched[r].row.status
  <2>1. job'[j] = IF sched[r].row.id = j THEN "queue" ELSE job[j]
    BY <1>3, SetJobAt DEF ClaimJob
  <2>2. job[sched[r].row.id] = "pending" \/ sched[r].row.id \in approvals
    BY <1>3 DEF ClaimJob, RowsInv
  <2> QED
    BY <2>1, <2>2 DEF JobMove, Selectable
<1>4. CASE FinishJob(r) \/ ParkJob(r) \/ RunJob(r)
  BY <1>2, <1>4 DEF FinishJob, ParkJob, RunJob, Selectable
<1>5. CASE NoExecutor(r) /\ SetJob(CurrentJob(r), "failed")
  BY <1>2, <1>5 DEF Selectable
<1>6. CheckOlder(r) \/ PassGate(r) \/ UnlockWorkspace(r) \/ LookupStep(r) \/ SkipStep(r)
        \/ Advance(r)
      \/ CountOpen(r) \/ Tally(r) \/ ReleaseFinished(r) \/ ParkStep(r) \/ ClaimStep(r)
      \/ LockWorkspace(r) \/ HandBack(r) \/ Spawn(r) \/ PollCancels(r) => UNCHANGED job
  BY DEF CheckOlder, PassGate, UnlockWorkspace, LookupStep, SkipStep, Advance, CountOpen, Tally,
     ReleaseFinished, ParkStep, ClaimStep, LockWorkspace, HandBack, Spawn, PollCancels, tables
<1>7. KillPods(r) => UNCHANGED job
  BY Zenon DEF KillPods, tables
<1>8. CASE ClaimJob(r)
  BY <1>1, <1>3, <1>8 DEF ClaimJob
<1>9. CASE NoExecutor(r)
  BY <1>1, <1>5, <1>9 DEF NoExecutor
<1> QED
  BY <1>1, <1>4, <1>6, <1>7, <1>8, <1>9 DEF LoopStep

LEMMA CallJobs ==
    ASSUME TypeInv, NEW c \in calls, CallStep(c), NEW j \in Jobs, c.id # j \/ job[j] # "none"
    PROVE  JobMove(j)
<1>1. job'[j] = job[j] \/ (c.id = j /\ job'[j] = "failed")
  <2>1. CASE UNCHANGED job
    BY <2>1
  <2>2. CASE SetJob(c.id, "failed")
    BY <2>2, SetJobAt DEF TypeInv
  <2> QED
    BY <2>1, <2>2 DEF CallStep, Execute, FailCall, tables
<1> QED
  BY <1>1 DEF JobMove, Selectable

LEMMA PodJobs ==
    ASSUME TypeInv, VerdictInv, NEW i \in Jobs, NEW m \in StepNumbers, ExecutorStep(i, m),
           UNCHANGED schedVars,
           NEW j \in Jobs, i # j \/ job[j] # "none"
    PROVE  JobMove(j)
<1>1. CASE UNCHANGED job
  BY <1>1 DEF JobMove
<1>2. Working(i, m)
  BY PodActivity DEF schedVars
<1>3. ASSUME NEW s \in {"running", "noChanges", "completed", "failed"}, PatchJob(i, s)
      PROVE  JobMove(j)
  <2>1. job'[j] = IF i = j THEN s ELSE job[j]
    BY <1>3, SetJobAt DEF PatchJob, TypeInv
  <2> QED
    BY <1>3, <2>1 DEF JobMove, Selectable
<1>4. CASE BeginJob(i, m)
  BY <1>1, <1>3, <1>4 DEF BeginJob
<1>5. CASE ReportJob(i, m)
  <2>1. CASE PatchJob(i, pod[i][m].verdict)
    <3>1. job'[j] = IF i = j THEN pod[i][m].verdict ELSE job[j]
      BY <2>1, SetJobAt DEF PatchJob, TypeInv
    <3>2. i = j => Reports(j)
      BY <1>2, <1>5 DEF Reports
    <3>3. pod[i][m].verdict \in Verdicts \ {"none"}
      BY <1>5 DEF TypeInv, TablesTypeOK, Pod, VerdictInv, ReportJob, PodAt
    <3> QED
      BY <3>1, <3>2, <3>3 DEF JobMove, Verdicts
  <2> QED
    BY <1>1, <1>5, <2>1 DEF ReportJob
<1> QED
  BY <1>1, <1>4, <1>5 DEF ExecutorStep, PodStep, BeginStep, EndWork, NoticeCancel, ReportStep,
     ExitSilently, LosePod, tables

LEMMA RequestJobs ==
    ASSUME TypeInv, NEW q \in requests, RequestInv(q), RequestStep(q), NEW j \in Jobs
    PROVE  JobMove(j)
<1>1. ASSUME UNCHANGED job PROVE JobMove(j)
  BY <1>1 DEF JobMove
<1>2. ASSUME NEW s \in {"rejected", "cancelled", "queue"}, SetJob(q.id, s),
             s = "queue" => q.id \in approvals
      PROVE  JobMove(j)
  <2>1. job'[j] = IF q.id = j THEN s ELSE job[j]
    BY <1>2, SetJobAt DEF TypeInv
  <2> QED
    BY <1>2, <2>1 DEF JobMove, RequestInv, Selectable
<1>3. CASE Requeue(q)
  BY <1>2, <1>3 DEF Requeue, RequestInv
<1>4. CASE CloseJob(q) \/ CancelRun(q)
  BY <1>1, <1>2, <1>4 DEF CloseJob, CancelRun
<1> QED
  BY <1>1, <1>3, <1>4 DEF RequestStep, ReadTcl, InsertStep, PatchHook, ReleaseLock,
     CompleteGate, RejectGate, DiscardGate, DropSteps

LEMMA UserJobs ==
    ASSUME TypeInv, Create \/ UserStep \/ \E w \in Workspaces : CliUnlock(w), UNCHANGED schedVars,
           NEW j \in Jobs
    PROVE  JobMove(j)
<1>1. ASSUME UNCHANGED job PROVE JobMove(j)
  BY <1>1 DEF JobMove
<1>2. ASSUME NEW i \in Jobs, InsertJob(i) PROVE JobMove(j)
  <2>1. job'[j] = IF i = j THEN "pending" ELSE job[j]
    BY <1>2, SetJobAt DEF TypeInv, InsertJob
  <2> QED
    BY <1>2, <2>1 DEF JobMove, Inserts
<1>3. ASSUME NEW i \in Jobs, NEW s \in {"approved", "rejected", "cancelled"}, PatchJob(i, s),
             job[i] # "none", s = "approved" => i \in approvals'
      PROVE  JobMove(j)
  <2>1. job'[j] = IF i = j THEN s ELSE job[j]
    BY <1>3, SetJobAt DEF TypeInv, PatchJob
  <2> QED
    BY <1>3, <2>1 DEF JobMove, Selectable
<1>4. ASSUME NEW i \in Jobs, UiApprove(i) \/ UiReject(i) \/ UiCancel(i) PROVE JobMove(j)
  <2>1. job[i] # "none"
    BY <1>4 DEF UiApprove, UiReject, UiCancel, PageShows
  <2> QED
    BY <1>3, <1>4, <2>1 DEF UiApprove, UiReject, UiCancel
<1> QED
  BY <1>1, <1>2, <1>4 DEF Create, CreateJob, CreateRun, UserStep, RestApprove, RestReject,
     CliCancel, CliDiscard, CliLock, CliUnlock, tables

LEMMA JobMoves ==
    ASSUME LonePoller, TypeInv, RowsInv, VerdictInv, \A q \in requests : RequestInv(q),
           [Next]_vars, NEW j \in Jobs, job[j] = "none" => LeftAlone(j)
    PROVE  JobMove(j)
<1>1. ASSUME UNCHANGED job PROVE JobMove(j)
  BY <1>1 DEF JobMove
<1>2. CASE \E r \in Replicas : Tick(r)
  BY <1>1, <1>2 DEF Tick, PollJobs, tables
<1>3. ASSUME NEW r \in Replicas, LoopStep(r) PROVE JobMove(j)
  BY <1>3, LoopJobs DEF LeftAlone
<1>4. ASSUME NEW c \in calls, CallStep(c) PROVE JobMove(j)
  BY <1>4, CallJobs DEF LeftAlone
<1>5. ASSUME NEW i \in Jobs, NEW m \in StepNumbers, ExecutorStep(i, m), UNCHANGED schedVars
      PROVE  JobMove(j)
  <2>1. Working(i, m)
    BY <1>5, PodActivity DEF schedVars
  <2> QED
    BY <1>5, <2>1, PodJobs DEF LeftAlone, schedVars
<1> QED
  BY <1>1, <1>2, <1>3, <1>4, <1>5, Steps, RequestJobs, UserJobs DEF vars, tables

LEMMA VerdictsKept ==
    ASSUME LonePoller, TypeInv, VerdictInv, [Next]_vars
    PROVE  VerdictInv'
<1> SUFFICES ASSUME NEW j \in Jobs, NEW n \in StepNumbers,
                    pod'[j][n].pc \in {"reportStep", "reportJob"}
             PROVE  pod'[j][n].verdict # "none"
  BY DEF VerdictInv
<1>0. pod \in [Jobs -> [StepNumbers -> Pod]]
  BY DEF TypeInv, TablesTypeOK
<1>1. CASE pod'[j][n] = pod[j][n]
  BY <1>1 DEF VerdictInv
<1>2. CASE \E c \in calls : CallStep(c)
  <2>1. PICK c \in calls : UNCHANGED pod \/ StartPod(c.id, c.num, c.type)
    BY <1>2 DEF CallStep, Execute, FailCall, cluster
  <2>2. c.id \in Jobs /\ c.num \in StepNumbers
    BY DEF TypeInv, Call
  <2> QED
    BY <1>0, <1>1, <2>1, <2>2 DEF StartPod
<1>3. ASSUME NEW i \in Jobs, NEW m \in StepNumbers, ExecutorStep(i, m)
      PROVE  pod'[j][n].verdict # "none"
  <2>1. ASSUME NEW pc, NEW v, MovePod(i, m, pc, v), pc \in {"reportStep", "reportJob"}
               => v # "none"
        PROVE  pod'[j][n].verdict # "none"
    <3>1. i = j /\ m = n => pod'[j][n].pc = pc /\ pod'[j][n].verdict = v
      BY <1>0, <2>1 DEF MovePod, Pod
    <3>2. i # j \/ m # n => pod'[j][n] = pod[j][n]
      BY <1>0, <2>1 DEF MovePod
    <3> QED
      BY <1>1, <2>1, <3>1, <3>2
  <2>2. "none" \notin VerdictsOf(pod[i][m].type)
    BY DEF VerdictsOf
  <2>3. CASE EndWork(i, m)
    BY <2>1, <2>2, <2>3 DEF EndWork
  <2>4. CASE ReportStep(i, m)
    <3>1. pod[i][m].verdict # "none"
      BY <2>4 DEF ReportStep, PodAt, VerdictInv
    <3> QED
      BY <2>1, <2>4, <3>1 DEF ReportStep
  <2> QED
    BY <1>3, <2>1, <2>3, <2>4 DEF ExecutorStep, PodStep, BeginStep, BeginJob, NoticeCancel,
       ReportJob, ExitSilently, LosePod
<1>4. CASE \E r \in Replicas : LoopStep(r)
  <2>1. PICK r \in Replicas : LoopStep(r)
    BY <1>4
  <2>2. CASE UNCHANGED pod
    BY <1>1, <2>2
  <2>3. CASE KillPods(r)
    BY <1>1, <2>3, KilledPods
  <2> QED
    BY <2>1, <2>2, <2>3
    DEF LoopStep, CheckOlder, ClaimJob, PassGate, UnlockWorkspace, LookupStep, SkipStep,
        Advance, CountOpen, Tally, FinishJob, ReleaseFinished, ParkStep, ParkJob, ClaimStep,
        LockWorkspace, HandBack, RunJob, Spawn, NoExecutor, PollCancels, cluster
<1>5. CASE \E q \in requests : RequestStep(q)
  BY <1>1, <1>5 DEF RequestStep, ReadTcl, InsertStep, PatchHook, ReleaseLock, CompleteGate,
     Requeue, RejectGate, DiscardGate, DropSteps, CloseJob, CancelRun, cluster
<1>6. CASE \E r \in Replicas : Tick(r)
  BY <1>1, <1>6 DEF Tick, PollJobs, cluster
<1> QED
  BY <1>1, <1>2, <1>3, <1>4, <1>5, <1>6, Steps, UserSteps DEF vars, cluster
--------------------------------------------------------------------------------
(* An approval is never taken back.                                         *)
LEMMA ApprovalsStay ==
    ASSUME LonePoller, [Next]_vars PROVE approvals \subseteq approvals'
<1>1. ASSUME UNCHANGED approvals PROVE approvals \subseteq approvals'
  BY <1>1
<1>2. CASE \E r \in Replicas : Tick(r)
  BY <1>1, <1>2 DEF Tick, apiVars
<1>3. CASE \E q \in requests : RequestStep(q)
  BY <1>1, <1>3 DEF RequestStep, ReadTcl, InsertStep, PatchHook, ReleaseLock, CompleteGate,
     Requeue, RejectGate, DiscardGate, DropSteps, CloseJob, CancelRun
<1>4. CASE \E i \in Jobs, m \in StepNumbers : ExecutorStep(i, m)
  BY <1>1, <1>4 DEF ExecutorStep, PodStep, BeginStep, BeginJob, EndWork, NoticeCancel,
     ReportStep, ReportJob, ExitSilently, LosePod, apiVars
<1>5. CASE Create \/ UserStep \/ \E w \in Workspaces : CliUnlock(w)
  BY <1>1, <1>5 DEF Create, CreateJob, CreateRun, InsertJob, UserStep, UiApprove, UiReject,
     UiCancel, PatchJob, RestApprove, RestReject, CliCancel, CliDiscard, CliLock, CliUnlock
<1> QED
  BY <1>1, <1>2, <1>3, <1>4, <1>5, Steps DEF apiVars, vars

LEMMA StillGuarded ==
    ASSUME LonePoller, [Next]_vars, NEW j, Guarded(j)' PROVE Guarded(j)
BY ApprovalsStay DEF Guarded

(* Where a job is claimed, has its gates passed, and is marked running.     *)
Marked == {"claimJob", "passGate", "spawn"}

LEMMA ClaimMoves ==
    ASSUME TypeInv, NEW r \in Replicas, LoopStep(r)
    PROVE  /\ sched'[r].pc = "claimJob" => CheckOlder(r)
           /\ sched'[r].pc = "passGate" => ClaimJob(r) /\ sched[r].row.status = "approved"
           /\ sched'[r].pc = "spawn" => RunJob(r)
<1> USE DEF Marked
<1>1. sched \in [Replicas -> Loop]
  BY DEF TypeInv, LoopsOK
<1>2. ASSUME NEW pc, Goto(r, pc) PROVE sched'[r].pc = pc
  BY <1>1, <1>2 DEF Goto, Loop
<1>3. ASSUME NEW rows, NextRow(r, rows) PROVE sched'[r].pc \notin Marked
  BY <1>1, <1>3 DEF NextRow, IdleLoop
<1>4. ASSUME EndOfRow(r) PROVE sched'[r].pc \notin Marked
  BY <1>3, <1>4 DEF EndOfRow
<1>5. ASSUME CheckOlder(r) PROVE sched'[r].pc \notin {"passGate", "spawn"}
  <2>1. PICK x : TakeRow(r, x, "claimJob", 0) \/ NextRow(r, sched[r].rows \ {x})
    BY <1>5 DEF CheckOlder
  <2>2. TakeRow(r, x, "claimJob", 0) => sched'[r].pc = "claimJob"
    BY <1>1 DEF TakeRow
  <2> QED
    BY <1>3, <2>1, <2>2
<1>6. ASSUME LookupStep(r) PROVE sched'[r].pc \notin Marked
  <2>1. PICK x \in First(sched[r].rows) :
           \/ TakeRow(r, x, "countOpen", 0)
           \/ \E n \in Lowest(StepsIn(x.id, {"pending"})) :
                 TakeRow(r, x, StageOf(x.id, ResolveType(x.id, n, x.tcl)), n)
    BY <1>6 DEF LookupStep
  <2>2. ASSUME NEW pc, NEW n, TakeRow(r, x, pc, n) PROVE sched'[r].pc = pc
    BY <1>1, <2>2 DEF TakeRow
  <2> QED
    BY <2>1, <2>2, StageType
<1>7. ASSUME ClaimJob(r)
      PROVE  /\ sched'[r].pc \notin {"claimJob", "spawn"}
             /\ sched'[r].pc = "passGate" => sched[r].row.status = "approved"
  BY <1>2, <1>4, <1>7 DEF ClaimJob
<1>8. ASSUME PollCancels(r) \/ KillPods(r) PROVE sched'[r].pc \notin Marked
  <2>1. CASE PollCancels(r)
    BY <1>1, <2>1 DEF PollCancels, IdleLoop
  <2>2. CASE KillPods(r)
    <3>1. PICK x \in First(sched[r].rows) : sched' = [sched EXCEPT ![r] =
             [IdleLoop EXCEPT !.pc = IF sched[r].rows \ {x} = {} THEN "idle" ELSE "kill",
                              !.rows = sched[r].rows \ {x}]]
      BY <2>2, Zenon DEF KillPods
    <3> QED
      BY <1>1, <3>1 DEF IdleLoop
  <2> QED
    BY <1>8, <2>1, <2>2
<1>9. ASSUME PassGate(r) \/ UnlockWorkspace(r) \/ SkipStep(r) \/ Advance(r) \/ CountOpen(r)
         \/ Tally(r) \/ FinishJob(r) \/ ReleaseFinished(r) \/ ParkStep(r) \/ ParkJob(r)
      PROVE  sched'[r].pc \notin Marked
  BY <1>2, <1>4, <1>9 DEF PassGate, UnlockWorkspace, SkipStep, Advance, CountOpen, Tally,
     FinishJob, ReleaseFinished, ParkStep, ParkJob
<1>10. ASSUME ClaimStep(r) \/ LockWorkspace(r) \/ HandBack(r) \/ Spawn(r) \/ NoExecutor(r)
      PROVE  sched'[r].pc \notin Marked
  BY <1>2, <1>4, <1>10 DEF ClaimStep, LockWorkspace, HandBack, Spawn, NoExecutor
<1>11. ASSUME RunJob(r) PROVE sched'[r].pc \notin {"claimJob", "passGate"}
  BY <1>2, <1>11 DEF RunJob
<1> QED
  BY <1>5, <1>6, <1>7, <1>8, <1>9, <1>10, <1>11 DEF LoopStep

LEMMA CheckedRow ==
    ASSUME TypeInv, NEW r \in Replicas, CheckOlder(r), sched'[r].pc = "claimJob"
    PROVE  \E x \in sched[r].rows : /\ x.status \in {"pending", "approved"}
                                    /\ sched'[r].row = x /\ sched'[r].rows = sched[r].rows \ {x}
<1>1. sched \in [Replicas -> Loop]
  BY DEF TypeInv, LoopsOK
<1>2. PICK x \in First(sched[r].rows) :
         /\ x.status \in {"pending", "approved"}
         /\ TakeRow(r, x, "claimJob", 0) \/ NextRow(r, sched[r].rows \ {x})
  BY DEF CheckOlder
<1>3. x \in sched[r].rows
  BY <1>2 DEF First
<1>4. ~ NextRow(r, sched[r].rows \ {x})
  BY <1>1 DEF NextRow, IdleLoop
<1> QED
  BY <1>1, <1>2, <1>3, <1>4 DEF TakeRow

LEMMA RowsKept ==
    ASSUME LonePoller, TypeInv, GateInv, [Next]_vars
    PROVE  RowsInv'
<1> USE DEF CurrentJob
<1>0. approvals \subseteq approvals' /\ RowsInv
  BY ApprovalsStay DEF GateInv
<1>1. CASE UNCHANGED sched
  BY <1>0, <1>1 DEF RowsInv
<1>2. ASSUME NEW r \in Replicas, Tick(r) PROVE RowsInv'
  <2>1. /\ requests = {} /\ \A q \in Replicas : q = r
        /\ sched'[r].rows = PollResult /\ sched'[r].row = NoRow
        /\ sched'[r].pc \in {"cancels", "next"}
    BY <1>2 DEF LonePoller, Tick, PollJobs, NextRow, IdleLoop, TypeInv, LoopsOK
  <2>2. \A x, y \in PollResult : x.id = y.id => x = y
    BY PolledRow
  <2>3. \A x \in PollResult : /\ x.id \in Jobs /\ x.id # 0 /\ job[x.id] # "none"
                              /\ x.status = job[x.id] /\ x.tcl = tcl[x.id]
    BY PolledRow DEF Pollable, Jobs
  <2>4. \A x \in PollResult : /\ x.status = "approved" => x.id \in approvals'
                              /\ x.id \in InlineTcl \cup TemplateTcl => x.tcl
    BY <1>0, <2>1, <2>3 DEF GateInv, InitInv
  <2> QED
    BY <2>1, <2>2, <2>3, <2>4 DEF RowsInv, NoRow
<1>3. ASSUME NEW r \in Replicas, LoopStep(r), UNCHANGED apiVars PROVE RowsInv'
  <2>0. \A q \in Replicas : q = r
    BY DEF LonePoller
  <2>1. CASE /\ sched'[r].rows = sched[r].rows /\ sched'[r].row = sched[r].row
             /\ sched[r].pc # "kill"
    <3>1. sched'[r].pc # "claimJob"
      BY <1>3, <2>1, ClaimMoves, CheckedRow
    <3>2. sched'[r].pc = "passGate" => sched[r].row.id \in approvals'
      BY <1>0, <1>3, ClaimMoves DEF RowsInv, ClaimJob, At
    <3> QED
      BY <1>0, <2>0, <2>1, <3>1, <3>2 DEF RowsInv
  <2>2. CASE /\ sched'[r].row = NoRow /\ sched'[r].pc \in {"idle", "next", "cancels", "kill"}
             /\ \/ sched'[r].pc = "kill" \/ sched'[r].rows = {}
                \/ sched'[r].rows \subseteq sched[r].rows /\ sched[r].pc # "kill"
    <3>1. \A x \in sched[r].rows : x.id # 0
      BY DEF TypeInv, LoopsOK, Loop, Row, Jobs
    <3> QED
      BY <1>0, <2>0, <2>2, <3>1 DEF RowsInv, NoRow
  <2>3. CASE /\ sched[r].pc = "next"
             /\ \E x \in First(sched[r].rows) :
                  sched'[r].row = x /\ sched'[r].rows = sched[r].rows \ {x}
    <3>1. PICK x \in sched[r].rows : sched'[r].row = x /\ sched'[r].rows = sched[r].rows \ {x}
      BY <2>3 DEF First
    <3>2. \A y \in sched'[r].rows : y.id # x.id
      BY <1>0, <2>3, <3>1 DEF RowsInv
    <3>3. sched'[r].pc = "claimJob" => x.status = "pending"
            \/ (x.status = "approved" /\ x.id \in approvals')
      BY <1>0, <1>3, <2>3, <3>1, ClaimMoves, CheckedRow DEF RowsInv
    <3>4. sched'[r].pc # "passGate"
      BY <1>3, <2>3, ClaimMoves DEF ClaimJob, At
    <3> QED
      BY <1>0, <2>0, <2>3, <3>1, <3>2, <3>3, <3>4 DEF RowsInv
  <2> QED
    BY <1>3, <2>1, <2>2, <2>3, LoopMoves
<1>4. CASE \E c \in calls : CallStep(c)
  BY <1>1, <1>4 DEF CallStep, Execute, FailCall
<1> QED
  BY <1>1, <1>2, <1>3, <1>4, Steps DEF schedVars, vars
--------------------------------------------------------------------------------
(* What was left alone still is.                                            *)
LEMMA LeftAloneKept ==
    ASSUME LonePoller, TypeInv, GateInv, [Next]_vars, NEW j \in Jobs, Missing(j) \/ job[j] = "none"
    PROVE  LeftAlone(j)'
<1>1. LeftAlone(j) /\ (job[j] # "none" => requests # {})
  BY DEF GateInv, InitInv
<1>2. ASSUME NEW r \in Replicas PROVE ~ Polled(r, j)' /\ ~ InHand(r, j)'
  BY <1>1, <1>2, StillPolled DEF LeftAlone, Selectable
<1>3. CASE Quiet
  BY <1>1, <1>2, <1>3 DEF Quiet, Kept, LeftAlone
<1>4. CASE \E c \in calls : Starts(c)
  BY <1>1, <1>2, <1>4 DEF Starts, Kept, LeftAlone
<1>5. CASE \E r \in Replicas : Hires(r)
  BY <1>1, <1>2, <1>5 DEF Hires, LeftAlone, cluster, Working, InHand, CurrentJob
<1> QED
  BY <1>3, <1>4, <1>5, Activity

LEMMA RestKept ==
    ASSUME LonePoller, TypeInv, [Next]_vars, NEW j \in Jobs, AtRest(j)
    PROVE  AtRest(j)' \/ \E r \in Replicas : Hires(r) /\ InHand(r, j)
<1>1. CASE Quiet
  BY <1>1 DEF Quiet, Kept, AtRest, Calling
<1>2. CASE \E c \in calls : Starts(c)
  BY <1>2 DEF Starts, Kept, AtRest, Calling
<1>3. ASSUME NEW r \in Replicas, Hires(r), ~ InHand(r, j) PROVE AtRest(j)'
  BY <1>3 DEF Hires, AtRest, cluster, Working, InHand, CurrentJob, Calling
<1> QED
  BY <1>1, <1>2, <1>3, Activity

LEMMA LoopSpawns ==
    ASSUME LonePoller, TypeInv, [Next]_vars, NEW r \in Replicas, sched'[r].pc = "spawn"
    PROVE  RunJob(r) \/ sched'[r] = sched[r]
<1>1. CASE UNCHANGED sched
  BY <1>1
<1>2. CASE \E q \in Replicas : LoopStep(q)
  BY <1>2, ClaimMoves DEF LonePoller
<1>3. CASE \E q \in Replicas : Tick(q)
  BY <1>3 DEF LonePoller, Tick, PollJobs, NextRow, IdleLoop, TypeInv, LoopsOK
<1>4. CASE \E c \in calls : CallStep(c)
  BY <1>1, <1>4 DEF CallStep, Execute, FailCall
<1> QED
  BY <1>1, <1>2, <1>3, <1>4, Steps DEF schedVars, vars

LEMMA OneExecutorKept ==
    ASSUME LonePoller, TypeInv, GateInv, [Next]_vars, NEW j \in Jobs, Guarded(j), JobMove(j)
    PROVE  OneExecutor(j)'
<1>0. OneExecutor(j) /\ InitInv(j) /\ RowsInv
  BY DEF GateInv
<1>1. job[j] = "approved" => FALSE
  BY <1>0 DEF InitInv, Guarded
<1>2. ASSUME job'[j] \in Selectable PROVE AtRest(j)'
  <2>1. CASE job[j] \in Selectable
    BY <1>0, <2>1, RestKept DEF OneExecutor, Hires
  <2>2. CASE Inserts(j)
    <3>1. LeftAlone(j)
      BY <1>0, <2>2 DEF InitInv, Inserts, InsertJob
    <3>2. AtRest(j)
      BY <3>1 DEF LeftAlone, AtRest, Calling
    <3> QED
      BY <3>1, <3>2, RestKept DEF LeftAlone
  <2>3. CASE Reports(j)
    <3>1. PICK n \in StepNumbers : Working(j, n) /\ ReportJob(j, n) /\ UNCHANGED schedVars
      BY <2>3 DEF Reports
    <3>2. MovePod(j, n, "done", "none")
      BY <3>1 DEF ReportJob
    <3>3. \A m \in StepNumbers : ~ Working(j, m)'
      <4>1. ~ Working(j, n)'
        BY <3>2 DEF MovePod, TypeInv, TablesTypeOK, Pod, Working
      <4>2. ASSUME NEW m \in StepNumbers, m # n PROVE ~ Working(j, m)'
        <5>1. pod'[j][m] = pod[j][m]
          BY <3>2, <4>2 DEF MovePod, TypeInv, TablesTypeOK
        <5> QED
          BY <1>0, <3>1, <4>2, <5>1 DEF OneExecutor, Working
      <4> QED
        BY <4>1, <4>2
    <3>4. \A c \in calls' : ~ Calling(c, j)
      BY <1>0, <3>1 DEF OneExecutor, schedVars
    <3> QED
      BY <3>3, <3>4 DEF AtRest, Calling
  <2> QED
    BY <1>2, <2>1, <2>2, <2>3 DEF JobMove, Guarded
<1>3. ASSUME NEW r \in Replicas, Polled(r, j)' \/ InHand(r, j)' PROVE AtRest(j)'
  <2>1. AtRest(j)
    BY <1>0, <1>1, <1>3, StillPolled DEF OneExecutor
  <2>2. CASE \E q \in Replicas : Hires(q) /\ InHand(q, j)
    <3>1. Hires(r) /\ InHand(r, j)
      BY <2>2 DEF LonePoller
    <3>2. sched'[r].row = NoRow /\ sched'[r].rows = sched[r].rows
      BY <3>1 DEF Hires, EndOfRow, NextRow, IdleLoop, TypeInv, LoopsOK
    <3>3. \A x \in sched[r].rows : x.id # j
      BY <1>0, <3>1 DEF RowsInv, Hires, InHand
    <3> QED
      BY <1>3, <3>2, <3>3 DEF Polled, InHand, NoRow, Jobs
  <2> QED
    BY <2>1, <2>2, RestKept
<1>4. ASSUME NEW r \in Replicas, InHand(r, j)', sched'[r].pc = "spawn"
      PROVE job'[j] \notin Selectable
  <2>1. CASE RunJob(r)
    <3>1. job'[j] = IF CurrentJob(r) = j THEN "running" ELSE job[j]
      BY <2>1, SetJobAt DEF RunJob, TypeInv
    <3>2. sched'[r].row = sched[r].row
      BY <2>1 DEF RunJob, Goto, TypeInv, LoopsOK, Loop
    <3> QED
      BY <1>4, <3>1, <3>2 DEF InHand, CurrentJob, Selectable
  <2>2. CASE sched'[r] = sched[r]
    <3>1. job[j] \notin Selectable /\ AtRest(j) /\ InHand(r, j)
      BY <1>0, <1>4, <2>2 DEF OneExecutor, InHand
    <3>2. ~ Inserts(j)
      BY <1>0, <3>1 DEF InitInv, LeftAlone, Inserts, InsertJob
    <3>3. ~ Reports(j)
      BY <3>1 DEF AtRest, Reports
    <3> QED
      BY <3>1, <3>2, <3>3 DEF JobMove, Guarded
  <2>3. RunJob(r) \/ sched'[r] = sched[r]
    BY <1>4, LoopSpawns
  <2> QED
    BY <2>1, <2>2, <2>3
<1>5. /\ \A m, n \in StepNumbers : Working(j, m)' /\ Working(j, n)' => m = n
      /\ \A n \in StepNumbers, d \in calls' : ~ (Working(j, n)' /\ Calling(d, j))
      /\ \A d, e \in calls' : Calling(d, j) /\ Calling(e, j) => d = e
  <2>1. CASE Quiet
    BY <1>0, <2>1 DEF Quiet, Kept, OneExecutor, Calling
  <2>2. CASE \E c \in calls : Starts(c)
    <3>1. PICK c \in calls : Starts(c)
      BY <2>2
    <3>2. \A d \in calls' : Calling(d, j) => d \in calls /\ d # c
      BY <3>1 DEF Starts, Kept, Calling
    <3>3. CASE c.id # j
      BY <1>0, <3>1, <3>2, <3>3 DEF Starts, OneExecutor
    <3>4. CASE Calling(c, j)
      <4>1. \A d \in calls' : ~ Calling(d, j)
        BY <1>0, <3>2, <3>4 DEF OneExecutor
      <4>2. \A n \in StepNumbers : Working(j, n)' => n = c.num
        BY <1>0, <3>1, <3>4 DEF OneExecutor, Starts
      <4> QED
        BY <4>1, <4>2
    <3> QED
      BY <3>1, <3>3, <3>4 DEF Starts, Calling
  <2>3. CASE \E r \in Replicas : Hires(r)
    <3>0. PICK r \in Replicas : Hires(r)
      BY <2>3
    <3>1. PICK e : /\ Hires(r) /\ calls' = calls \cup {e} /\ e.id = CurrentJob(r)
      BY <3>0 DEF Hires
    <3>2. \A n \in StepNumbers : Working(j, n)' => Working(j, n)
      BY <3>1 DEF Hires, cluster, Working
    <3>3. Calling(e, j) => AtRest(j)
      BY <1>0, <3>1 DEF OneExecutor, InHand, CurrentJob, Calling
    <3> QED
      BY <1>0, <3>1, <3>2, <3>3 DEF OneExecutor, AtRest
  <2> QED
    BY <2>1, <2>2, <2>3, Activity
<1> QED
  BY <1>2, <1>3, <1>4, <1>5 DEF OneExecutor, Calling
--------------------------------------------------------------------------------
(* What is free stays free: gates only cease to count.                      *)
WorkPc == HoldingPc \cup {"skipStep", "claimStep", "failStep"}

LEMMA StaysFree ==
    ASSUME LonePoller, [Next]_vars, NEW j, NEW n, Free(j, n) PROVE Free(j, n)'
BY StillGuarded DEF Free, Gates

(* The lowest pending step of a polled job, unless it is a gate, is free.   *)
LEMMA LookupFree ==
    ASSUME LonePoller, TypeInv, GateInv, [Next]_vars, NEW r \in Replicas, LookupStep(r),
           sched'[r].pc \in WorkPc
    PROVE  Free(CurrentJob(r), sched[r].num)'
<1>1. PICK x \in First(sched[r].rows) :
         \/ TakeRow(r, x, "countOpen", 0)
         \/ \E n \in Lowest(StepsIn(x.id, {"pending"})) :
               TakeRow(r, x, StageOf(x.id, ResolveType(x.id, n, x.tcl)), n)
  BY DEF LookupStep
<1>2. ASSUME NEW pc, NEW n, TakeRow(r, x, pc, n)
      PROVE  sched'[r].pc = pc /\ sched'[r].row = x /\ sched'[r].num = n
  BY <1>2 DEF TakeRow, TypeInv, LoopsOK
<1>3. ~ TakeRow(r, x, "countOpen", 0)
  BY <1>2 DEF WorkPc, HoldingPc
<1>4. PICK n \in Lowest(StepsIn(x.id, {"pending"})) :
         TakeRow(r, x, StageOf(x.id, ResolveType(x.id, n, x.tcl)), n)
  BY <1>1, <1>3
<1>5. /\ n \in StepNumbers /\ step[x.id][n] = "pending"
      /\ \A m \in StepNumbers : step[x.id][m] = "pending" => n <= m
  BY DEF Lowest, StepsIn
<1>6. /\ StageOf(x.id, ResolveType(x.id, n, x.tcl)) # "parkStep"
      /\ sched'[r].row = x /\ sched'[r].num = n
  BY <1>2, <1>4 DEF WorkPc, HoldingPc
<1>7. x \in sched[r].rows /\ sched[r].pc = "next" /\ x.id \in Jobs
  BY RowType DEF LookupStep, At, Row
<1> DEFINE j == x.id
<1>9. ASSUME Guarded(j), NEW g \in Gates(j) PROVE n < g
  <2>1. Polled(r, j) /\ g \in StepNumbers /\ Flow[j][g] = "approval" /\ g \in Entries(j)
    BY <1>7, <1>9 DEF Polled, Gates, Entries
  <2>2. ~ Missing(j) /\ PassedInv(j)
    BY <1>7, <1>9, <2>1 DEF GateInv, InitInv, LeftAlone
  <2>3. step[j][g] # "none" /\ ~ Passed(j, g)
    BY <1>9, <2>1, <2>2 DEF Missing, PassedInv
  <2>4. n \in Nat /\ g \in Nat
    BY <1>5, <2>1, StepNumbersAssumption
  <2>5. CASE step[j][g] = "pending"
    <3>1. n <= g
      BY <1>5, <2>1, <2>5
    <3>2. n # g
      <4>1. SUFFICES ASSUME n = g PROVE FALSE
        OBVIOUS
      <4>2. j \in InlineTcl \cup TemplateTcl
        BY <1>7, <1>9 DEF LonePoller
      <4>3. x.tcl
        BY <1>7, <4>2 DEF GateInv, RowsInv
      <4>4. ResolveType(j, n, x.tcl) = "approval"
        BY <2>1, <4>1, <4>3 DEF ResolveType
      <4> QED
        BY <1>6, <1>9, <4>4 DEF StageOf, Guarded
    <3> QED
      BY <2>4, <3>1, <3>2
  <2>6. CASE step[j][g] # "pending"
    <3>1. ~ (g < n)
      BY <1>5, <2>3, <2>6 DEF Passed
    <3>2. n # g
      BY <1>5, <2>6
    <3> QED
      BY <2>4, <3>1, <3>2
  <2> QED
    BY <2>5, <2>6
<1>10. Free(j, n)
  BY <1>9 DEF Free
<1> QED
  BY <1>6, <1>10, StaysFree DEF CurrentJob

(* Whatever else the loop is about to work on, it was so before.            *)
LEMMA WorkMoves ==
    ASSUME TypeInv, NEW r \in Replicas, LoopStep(r), sched'[r].pc \in WorkPc
    PROVE  \/ LookupStep(r)
           \/ /\ sched[r].pc \in WorkPc
              /\ sched'[r].row = sched[r].row /\ sched'[r].num = sched[r].num
<1>0. sched'[r].pc \notin {"unlockWorkspace", "advance", "countOpen", "tally", "complete",
                          "fail", "release", "parkJob", "cancels", "next", "passGate",
                          "claimJob", "failJob", "failRelease", "idle", "kill"}
  BY DEF WorkPc, HoldingPc
<1>1. sched \in [Replicas -> Loop]
  BY DEF TypeInv, LoopsOK
<1>2. ASSUME NEW pc, Goto(r, pc)
      PROVE  sched'[r].pc = pc /\ sched'[r].row = sched[r].row /\ sched'[r].num = sched[r].num
  BY <1>1, <1>2 DEF Goto, Loop
<1>3. ASSUME NEW rows, NextRow(r, rows) PROVE sched'[r].pc \in {"cancels", "next"}
  BY <1>1, <1>3 DEF NextRow, IdleLoop
<1>4. ASSUME EndOfRow(r) PROVE sched'[r].pc \in {"cancels", "next"}
  BY <1>3, <1>4 DEF EndOfRow
<1>5. ~ CheckOlder(r)
  <2>1. SUFFICES ASSUME CheckOlder(r) PROVE FALSE
    OBVIOUS
  <2>2. PICK x : TakeRow(r, x, "claimJob", 0) \/ NextRow(r, sched[r].rows \ {x})
    BY <2>1 DEF CheckOlder
  <2>3. TakeRow(r, x, "claimJob", 0) => sched'[r].pc = "claimJob"
    BY <1>1 DEF TakeRow
  <2> QED
    BY <1>0, <1>3, <2>2, <2>3
<1>6. ~ PollCancels(r)
  BY <1>0, <1>1 DEF PollCancels, IdleLoop
<1>7. ~ KillPods(r)
  <2>1. SUFFICES ASSUME KillPods(r) PROVE FALSE
    OBVIOUS
  <2>2. PICK x \in First(sched[r].rows) : sched' = [sched EXCEPT ![r] =
           [IdleLoop EXCEPT !.pc = IF sched[r].rows \ {x} = {} THEN "idle" ELSE "kill",
                            !.rows = sched[r].rows \ {x}]]
    BY <2>1, Zenon DEF KillPods
  <2> QED
    BY <1>0, <1>1, <2>2 DEF IdleLoop
<1>8. ASSUME PassGate(r) \/ UnlockWorkspace(r) \/ SkipStep(r) \/ Advance(r) \/ CountOpen(r)
         \/ Tally(r) \/ FinishJob(r) \/ ReleaseFinished(r) \/ ParkStep(r) \/ ParkJob(r)
      PROVE  FALSE
  <2>1. CASE PassGate(r) \/ UnlockWorkspace(r) \/ SkipStep(r) \/ Advance(r) \/ CountOpen(r)
    BY <1>0, <1>2, <1>4, <2>1 DEF PassGate, UnlockWorkspace, SkipStep, Advance, CountOpen
  <2>2. CASE Tally(r)
    <3>1. Goto(r, "complete") \/ Goto(r, "fail")
      BY <2>2 DEF Tally
    <3> QED
      BY <1>0, <1>2, <3>1
  <2>3. CASE FinishJob(r) \/ ReleaseFinished(r) \/ ParkStep(r) \/ ParkJob(r)
    BY <1>0, <1>2, <1>4, <2>3 DEF FinishJob, ReleaseFinished, ParkStep, ParkJob
  <2> QED
    BY <1>8, <2>1, <2>2, <2>3
<1>9. ~ ClaimJob(r)
  BY <1>0, <1>2, <1>4 DEF ClaimJob
<1>10. ASSUME ClaimStep(r) \/ LockWorkspace(r) \/ HandBack(r) \/ RunJob(r) \/ Spawn(r)
              \/ NoExecutor(r)
      PROVE  /\ sched[r].pc \in WorkPc
             /\ sched'[r].row = sched[r].row /\ sched'[r].num = sched[r].num
  BY <1>0, <1>2, <1>4, <1>10 DEF ClaimStep, LockWorkspace, HandBack, RunJob, Spawn, NoExecutor,
     At, WorkPc, HoldingPc
<1> QED
  BY <1>5, <1>6, <1>7, <1>8, <1>9, <1>10 DEF LoopStep

LEMMA FreeKept ==
    ASSUME LonePoller, TypeInv, GateInv, [Next]_vars
    PROVE  FreeInv'
<1>0. FreeInv
  BY DEF GateInv
<1>1. ASSUME NEW r \in Replicas, sched'[r].pc \in WorkPc PROVE Free(CurrentJob(r), sched[r].num)'
  <2>1. CASE sched'[r] = sched[r]
    BY <1>0, <1>1, <2>1, StaysFree DEF FreeInv, WorkPc, CurrentJob
  <2>2. CASE LoopStep(r)
    <3>1. CASE /\ sched[r].pc \in WorkPc
               /\ sched'[r].row = sched[r].row /\ sched'[r].num = sched[r].num
      BY <1>0, <3>1, StaysFree DEF FreeInv, WorkPc, CurrentJob
    <3> QED
      BY <1>1, <2>2, <3>1, WorkMoves, LookupFree
  <2>3. CASE Tick(r)
    BY <1>1, <2>3 DEF Tick, PollJobs, NextRow, IdleLoop, TypeInv, LoopsOK, WorkPc, HoldingPc
  <2>4. CASE \E c \in calls : CallStep(c)
    BY <2>1, <2>4 DEF CallStep, Execute, FailCall
  <2>5. \A q \in Replicas : q = r
    BY DEF LonePoller
  <2> QED
    BY <2>1, <2>2, <2>3, <2>4, <2>5, Steps DEF schedVars, vars
<1>2. ASSUME NEW d \in calls' PROVE Free(d.id, d.num)'
  <2>1. CASE Kept(d)
    BY <1>0, <2>1, StaysFree DEF Kept, FreeInv
  <2>2. ASSUME NEW r \in Replicas, Hires(r), ~ Kept(d) PROVE Free(d.id, d.num)'
    <3>1. d.id = CurrentJob(r) /\ d.num = sched[r].num /\ sched[r].pc \in WorkPc
      BY <1>2, <2>2 DEF Hires, Kept, WorkPc, HoldingPc
    <3> QED
      BY <1>0, <3>1, StaysFree DEF FreeInv, WorkPc
  <2> QED
    BY <2>1, <2>2, Activity DEF Quiet, Starts
<1>3. ASSUME NEW j \in Jobs, NEW n \in StepNumbers, pod'[j][n].pc # "none" PROVE Free(j, n)'
  <2>1. CASE pod[j][n].pc # "none"
    BY <1>0, <2>1, StaysFree DEF FreeInv
  <2>2. ASSUME NEW c \in calls, Starts(c), pod[j][n].pc = "none" PROVE Free(j, n)'
    <3>1. c.id = j /\ c.num = n
      BY <1>3, <2>2 DEF Starts
    <3> QED
      BY <1>0, <3>1, StaysFree DEF FreeInv
  <2> QED
    BY <1>3, <2>1, <2>2, Activity DEF Quiet, Hires, cluster
<1> QED
  BY <1>1, <1>2, <1>3 DEF FreeInv, WorkPc, CurrentJob
--------------------------------------------------------------------------------
(* A step adds at most one request thread: the insertion of a job starts    *)
(* one, a thread goes on to its next statement, a user asks for something,  *)
(* or a PATCH has a hook.                                                   *)
Successors(pc) ==
    CASE pc = "readTcl" -> {"insertSteps"}
      [] pc = "passGate" -> {"requeue"}
      [] OTHER -> {"releaseLock", "dropSteps", "dropRest", "rejectJob", "cancelJob"}

GoesOn(p, e) ==
    /\ RequestStep(p)
    /\ requests' = (requests \ {p}) \cup {e}
    /\ e.id = p.id /\ e.num = p.num /\ e.pc \in Successors(p.pc)

Asks(e) ==
    /\ job[e.id] # "none"
    /\ UNCHANGED step
    /\ e.pc \in {"passGate", "rejectGate", "discardGate", "cancelRun"}
    /\ e.pc = "passGate" => e.id \in approvals'
    /\ e.pc \in {"passGate", "rejectGate"} =>
         e.num \in StepNumbers /\ step[e.id][e.num] = "waitingApproval"

Hooks(e) ==
    /\ e.pc \in {"cancelSteps", "closeSteps", "failSteps", "releaseLock"}
    /\ job'[e.id] \notin Selectable \cup {"none"}

Added(e) ==
    /\ e.id \in Jobs
    /\ \/ \E p \in requests : GoesOn(p, e)
       \/ /\ requests' = requests \cup {e}
          /\ (Inserts(e.id) /\ e.pc = "readTcl") \/ Asks(e) \/ Hooks(e)

Returns(q) ==
    /\ requests' = requests \ {q}
    /\ RequestStep(q)
    /\ \/ q.pc = "readTcl" /\ (Entries(q.id) = {} \/ StepsIn(q.id, {"none"}) # StepNumbers)
       \/ q.pc = "insertSteps" /\ ~ Missing(q.id)
       \/ q.pc \notin {"readTcl", "insertSteps"}

LEMMA RequestMoves ==
    ASSUME TypeInv, NEW q \in requests, RequestStep(q)
    PROVE  UNCHANGED requests \/ Returns(q) \/ \E e : Added(e) /\ GoesOn(q, e)
<1>0. q \in Request /\ q.id \in Jobs
  BY DEF TypeInv, ApiTypeOK, Request
<1>1. ASSUME NEW pc, Continue(q, pc), pc \in Successors(q.pc)
      PROVE  \E e : Added(e) /\ GoesOn(q, e)
  <2> DEFINE e == [q EXCEPT !.pc = pc]
  <2>1. e.id = q.id /\ e.num = q.num /\ e.pc = pc
    BY <1>0 DEF Request
  <2>2. requests' = (requests \ {q}) \cup {e}
    BY <1>1 DEF Continue
  <2> HIDE DEF e
  <2>3. GoesOn(q, e)
    BY <1>1, <2>1, <2>2 DEF GoesOn
  <2> QED
    BY <1>0, <2>1, <2>2, <2>3 DEF Added
<1>2. CASE ReadTcl(q)
  <2>1. CASE Continue(q, "insertSteps")
    BY <1>1, <1>2, <2>1 DEF ReadTcl, Successors
  <2>2. CASE Return(q) /\ (Entries(q.id) = {} \/ StepsIn(q.id, {"none"}) # StepNumbers)
    BY <1>2, <2>2 DEF ReadTcl, Return, Returns
  <2> QED
    BY <1>2, <2>1, <2>2 DEF ReadTcl
<1>3. CASE InsertStep(q)
  BY <1>3 DEF InsertStep, Return, Returns, Missing
<1>4. CASE CompleteGate(q)
  BY <1>1, <1>4 DEF CompleteGate, Successors
<1>5. CASE Requeue(q) \/ ReleaseLock(q)
  BY <1>5 DEF Requeue, ReleaseLock, Return, Returns
<1>6. CASE PatchHook(q) \/ RejectGate(q) \/ DiscardGate(q) \/ CloseJob(q) \/ CancelRun(q)
  BY <1>1, <1>6 DEF PatchHook, RejectGate, DiscardGate, CloseJob, CancelRun, Successors
<1>7. CASE DropSteps(q)
  <2>1. q.pc \notin {"readTcl", "passGate"}
    BY <1>7 DEF DropSteps
  <2>2. Continue(q, "rejectJob") \/ Continue(q, "cancelJob")
    BY <1>7 DEF DropSteps
  <2>3. {"rejectJob", "cancelJob"} \subseteq Successors(q.pc)
    BY <2>1 DEF Successors
  <2> QED
    BY <1>1, <2>2, <2>3
<1> QED
  BY <1>2, <1>3, <1>4, <1>5, <1>6, <1>7 DEF RequestStep

LEMMA Started ==
    ASSUME NEW j \in Jobs, NEW n, NEW pc, Start(j, n, pc)
    PROVE  \E e : /\ requests' = requests \cup {e}
                  /\ e.id = j /\ e.num = n /\ e.pc = pc
<1>1. PICK r : requests' = requests \cup {[by |-> r, id |-> j, num |-> n, pc |-> pc]}
  BY DEF Start
<1> DEFINE e == [by |-> r, id |-> j, num |-> n, pc |-> pc]
<1>2. requests' = requests \cup {e}
  BY <1>1
<1>3. e.id = j /\ e.num = n /\ e.pc = pc
  OBVIOUS
<1> HIDE DEF e
<1> QED
  BY <1>2, <1>3

LEMMA PatchMoves ==
    ASSUME TypeInv, NEW j \in Jobs, NEW s \in JobStatus \ {"none"}, PatchJob(j, s)
    PROVE  UNCHANGED requests \/ \E e : Added(e) /\ e.id = j
<1>1. CASE HookOf(s) = "none"
  BY <1>1 DEF PatchJob
<1>2. CASE HookOf(s) # "none"
  <2>1. Start(j, 0, HookOf(s))
    BY <1>2 DEF PatchJob
  <2>2. PICK e : requests' = requests \cup {e} /\ e.id = j /\ e.num = 0 /\ e.pc = HookOf(s)
    BY <2>1, Started
  <2>3. HookOf(s) \in {"cancelSteps", "closeSteps", "failSteps", "releaseLock"}
          /\ s \notin Selectable
    BY <1>2 DEF HookOf, Selectable
  <2>4. job'[j] = s
    BY SetJobAt DEF PatchJob, TypeInv
  <2>5. Hooks(e)
    BY <2>2, <2>3, <2>4 DEF Hooks
  <2> QED
    BY <2>2, <2>5 DEF Added
<1> QED
  BY <1>1, <1>2

LEMMA UserRequests ==
    ASSUME TypeInv, Create \/ UserStep \/ \E w \in Workspaces : CliUnlock(w), UNCHANGED schedVars
    PROVE  UNCHANGED requests \/ \E e : Added(e)
<1>1. ASSUME NEW j \in Jobs, InsertJob(j) PROVE \E e : Added(e)
  <2>1. PICK e : requests' = requests \cup {e} /\ e.id = j /\ e.pc = "readTcl"
    BY <1>1, Started DEF InsertJob
  <2> QED
    BY <1>1, <2>1 DEF Added, Inserts
<1>2. ASSUME NEW j \in Jobs, UiApprove(j) \/ UiReject(j) \/ UiCancel(j)
      PROVE  UNCHANGED requests \/ \E e : Added(e)
  <2>1. {"approved", "rejected", "cancelled"} \subseteq JobStatus \ {"none"}
    BY DEF JobStatus, Terminal
  <2> QED
    BY <1>2, <2>1, PatchMoves DEF UiApprove, UiReject, UiCancel
<1>3. ASSUME NEW j \in Jobs, RestApprove(j) \/ RestReject(j) PROVE \E e : Added(e)
  <2>1. job[j] # "none" /\ UNCHANGED step
    BY <1>3 DEF RestApprove, RestReject, PageShows, tables
  <2>2. PICK n \in StepNumbers, pc \in {"passGate", "rejectGate"} :
           /\ step[j][n] = "waitingApproval" /\ Start(j, n, pc)
           /\ pc = "passGate" => j \in approvals'
    BY <1>3 DEF RestApprove, RestReject, StepsIn
  <2>3. PICK e : requests' = requests \cup {e} /\ e.id = j /\ e.num = n /\ e.pc = pc
    BY <2>2, Started
  <2>4. Asks(e)
    BY <2>1, <2>2, <2>3 DEF Asks
  <2> QED
    BY <2>3, <2>4 DEF Added
<1>4. ASSUME NEW j \in Jobs, CliCancel(j) \/ CliDiscard(j) PROVE \E e : Added(e)
  <2>1. job[j] # "none" /\ UNCHANGED step
    BY <1>4 DEF CliCancel, CliDiscard, PageShows, tables
  <2>2. PICK pc \in {"cancelRun", "discardGate"} : Start(j, 0, pc)
    BY <1>4 DEF CliCancel, CliDiscard
  <2>3. PICK e : requests' = requests \cup {e} /\ e.id = j /\ e.num = 0 /\ e.pc = pc
    BY <2>2, Started
  <2>4. Asks(e)
    BY <2>1, <2>2, <2>3 DEF Asks
  <2> QED
    BY <2>3, <2>4 DEF Added
<1> QED
  BY <1>1, <1>2, <1>3, <1>4 DEF Create, CreateJob, CreateRun, UserStep, CliLock, CliUnlock

LEMMA PodRequests ==
    ASSUME TypeInv, VerdictInv, NEW i \in Jobs, NEW m \in StepNumbers, ExecutorStep(i, m)
    PROVE  UNCHANGED requests \/ \E e : Added(e)
<1>1. CASE BeginJob(i, m)
  <2>1. "running" \in JobStatus \ {"none"}
    BY DEF JobStatus
  <2> QED
    BY <1>1, <2>1, PatchMoves DEF BeginJob
<1>2. CASE ReportJob(i, m)
  <2>1. pod[i][m].verdict \in Verdicts \ {"none"}
    BY <1>2 DEF TypeInv, TablesTypeOK, Pod, VerdictInv, ReportJob, PodAt
  <2>2. Verdicts \ {"none"} \subseteq JobStatus \ {"none"}
    BY DEF Verdicts, JobStatus, Terminal
  <2> QED
    BY <1>2, <2>1, <2>2, PatchMoves DEF ReportJob
<1> QED
  BY <1>1, <1>2 DEF ExecutorStep, PodStep, BeginStep, EndWork, NoticeCancel, ReportStep,
     ExitSilently, LosePod, apiVars

LEMMA ThreadMoves ==
    ASSUME LonePoller, TypeInv, VerdictInv, [Next]_vars
    PROVE  UNCHANGED requests \/ (\E q \in requests : Returns(q)) \/ (\E e : Added(e))
<1>1. CASE \E r \in Replicas : Tick(r)
  BY <1>1 DEF Tick, apiVars
<1> QED
  BY <1>1, Steps, RequestMoves, UserRequests, PodRequests DEF apiVars, vars
--------------------------------------------------------------------------------
(* Only the insertion of the steps of a job touches one that is left alone  *)
(* and not inserted.                                                        *)
LEMMA NoneStays ==
    ASSUME LonePoller, TypeInv, GateInv, [Next]_vars, NEW j \in Jobs, LeftAlone(j),
           NEW n \in StepNumbers, step[j][n] = "none", step'[j][n] # "none"
    PROVE  \E q \in requests : q.id = j /\ q.pc = "insertSteps" /\ RequestStep(q)
<1>0. RowsInv /\ FreeInv /\ \A q \in requests : RequestInv(q)
  BY DEF GateInv
<1>1. ~ Same(j)
  BY DEF Same
<1>2. CASE \E r \in Replicas : LoopStep(r)
  BY <1>0, <1>1, <1>2, LoopSteps DEF LeftAlone
<1>3. CASE \E c \in calls : CallStep(c)
  BY <1>0, <1>1, <1>3, CallSteps DEF LeftAlone
<1>4. CASE \E i \in Jobs, m \in StepNumbers : ExecutorStep(i, m)
  BY <1>0, <1>1, <1>4, PodSteps DEF LeftAlone
<1>5. ASSUME NEW q \in requests, RequestStep(q) PROVE q.id = j /\ q.pc = "insertSteps"
  <2>1. ASSUME q.num \in StepNumbers => n # q.num, NEW s, Sets(j, q.num, s) PROVE FALSE
    BY <2>1 DEF Sets
  <2>2. ASSUME NEW from, NEW to, "none" \notin from, Moves(j, from, to) PROVE FALSE
    BY <2>2 DEF Moves
  <2>3. q.id = j
    BY <1>1, <1>5, RequestSteps
  <2>4. q.pc \in {"passGate", "rejectGate"} => q.num # n
    BY <1>0, <2>3 DEF RequestInv
  <2>5. \/ q.pc = "insertSteps"
        \/ q.pc = "passGate" /\ Sets(j, q.num, "completed")
        \/ q.pc = "rejectGate" /\ Sets(j, q.num, "rejected")
        \/ \E from \in SUBSET {"pending", "running", "waitingApproval"},
              to \in {"cancelled", "notExecuted", "failed", "rejected"} : Moves(j, from, to)
    BY <1>1, <1>5, RequestSteps
  <2> QED
    BY <2>1, <2>2, <2>3, <2>4, <2>5
<1>6. CASE UNCHANGED step
  BY <1>6
<1> QED
  BY <1>2, <1>3, <1>4, <1>5, <1>6, Steps, UserSteps DEF Tick, PollJobs, tables, vars

(* A step becomes pending when it is inserted, or handed back; what is      *)
(* handed back is free.                                                     *)
LEMMA PendingMoves ==
    ASSUME LonePoller, TypeInv, GateInv, [Next]_vars, NEW j \in Jobs, NEW n \in StepNumbers,
           step'[j][n] = "pending"
    PROVE  step[j][n] \in {"none", "pending"} \/ Free(j, n)
<1>0. RowsInv /\ FreeInv
  BY DEF GateInv
<1>1. CASE Same(j)
  BY <1>1 DEF Same
<1>2. ASSUME NEW m, NEW s, Sets(j, m, s), m = n
             => s # "pending" \/ Free(j, n) \/ step[j][n] = "none"
      PROVE  step[j][n] \in {"none", "pending"} \/ Free(j, n)
  BY <1>2 DEF Sets
<1>3. ASSUME NEW from, NEW to, Moves(j, from, to), to # "pending"
      PROVE  step[j][n] = "pending"
  BY <1>3 DEF Moves
<1>4. CASE \E r \in Replicas : LoopStep(r)
  <2>1. PICK r \in Replicas : LoopStep(r)
    BY <1>4
  <2>2. ASSUME NEW m, NEW s, Free(j, m), Sets(j, m, s)
        PROVE  step[j][n] \in {"none", "pending"} \/ Free(j, n)
    BY <1>2, <2>2
  <2>3. Sets(j, sched[r].num, "waitingApproval")
          => step[j][n] \in {"none", "pending"} \/ Free(j, n)
    BY <1>2
  <2> QED
    BY <1>0, <1>1, <1>3, <2>1, <2>2, <2>3, LoopSteps
<1>5. CASE \E c \in calls : CallStep(c)
  BY <1>0, <1>1, <1>2, <1>5, CallSteps
<1>6. CASE \E i \in Jobs, m \in StepNumbers : ExecutorStep(i, m)
  <2>1. PICK i \in Jobs, m \in StepNumbers : ExecutorStep(i, m)
    BY <1>6
  <2>2. \A s : Sets(j, m, s) /\ Free(j, m) => step[j][n] \in {"none", "pending"} \/ Free(j, n)
    BY <1>2
  <2> QED
    BY <1>0, <1>1, <2>1, <2>2, PodSteps
<1>7. ASSUME NEW q \in requests, RequestStep(q)
      PROVE  step[j][n] \in {"none", "pending"} \/ Free(j, n)
  <2>1. ASSUME NEW m \in Lowest({i \in Entries(j) : step[j][i] = "none"}), Sets(j, m, "pending")
        PROVE  step[j][n] \in {"none", "pending"}
    BY <2>1 DEF Lowest, Sets
  <2>2. Sets(j, q.num, "completed") \/ Sets(j, q.num, "rejected")
          => step[j][n] \in {"none", "pending"} \/ Free(j, n)
    BY <1>2
  <2>3. \/ Same(j)
        \/ \E m \in Lowest({i \in Entries(j) : step[j][i] = "none"}) : Sets(j, m, "pending")
        \/ Sets(j, q.num, "completed") \/ Sets(j, q.num, "rejected")
        \/ \E from \in SUBSET {"pending", "running", "waitingApproval"},
              to \in {"cancelled", "notExecuted", "failed", "rejected"} : Moves(j, from, to)
    BY <1>7, RequestSteps
  <2> QED
    BY <1>1, <1>3, <2>1, <2>2, <2>3
<1>8. CASE UNCHANGED step
  BY <1>8
<1> QED
  BY <1>4, <1>5, <1>6, <1>7, <1>8, Steps, UserSteps DEF Tick, PollJobs, tables, vars

(* The tcl column is filled at the insertion, or when the template is read. *)
LEMMA TclMoves ==
    ASSUME LonePoller, TypeInv, [Next]_vars, NEW j \in Jobs
    PROVE  \/ tcl'[j] = tcl[j]
           \/ Inserts(j) /\ tcl'[j] = (j \in InlineTcl)
           \/ \E q \in requests : ReadTcl(q) /\ q.id = j /\ tcl'[j] = (tcl[j] \/ j \in TemplateTcl)
<1>0. tcl \in [Jobs -> BOOLEAN]
  BY DEF TypeInv, TablesTypeOK
<1>1. CASE UNCHANGED tcl
  BY <1>1
<1>2. ASSUME NEW i \in Jobs, InsertJob(i), UNCHANGED schedVars
      PROVE  tcl'[j] = tcl[j] \/ (Inserts(j) /\ tcl'[j] = (j \in InlineTcl))
  BY <1>0, <1>2 DEF InsertJob, Inserts
<1>3. ASSUME NEW q \in requests, ReadTcl(q)
      PROVE  tcl'[j] = tcl[j] \/ (q.id = j /\ tcl'[j] = (tcl[j] \/ j \in TemplateTcl))
  BY <1>0, <1>3 DEF ReadTcl
<1>4. CASE \E q \in requests : RequestStep(q)
  BY <1>1, <1>3, <1>4 DEF RequestStep, InsertStep, PatchHook, ReleaseLock, CompleteGate,
     Requeue, RejectGate, DiscardGate, DropSteps, CloseJob, CancelRun
<1>5. CASE \E i \in Jobs, m \in StepNumbers : ExecutorStep(i, m)
  BY <1>1, <1>5 DEF ExecutorStep, PodStep, BeginStep, BeginJob, EndWork, NoticeCancel,
     ReportStep, ReportJob, ExitSilently, LosePod, tables
<1>6. CASE (Create \/ UserStep \/ \E w \in Workspaces : CliUnlock(w)) /\ UNCHANGED schedVars
  BY <1>1, <1>2, <1>6 DEF Create, CreateJob, CreateRun, UserStep, UiApprove, UiReject, UiCancel,
     PatchJob, RestApprove, RestReject, CliCancel, CliDiscard, CliLock, CliUnlock, tables
<1>7. CASE \E c \in calls : CallStep(c)
  BY <1>1, <1>7 DEF CallStep, Execute, FailCall, tables
<1>8. CASE \E r \in Replicas : LoopStep(r)
  <2>1. \A r \in Replicas : KillPods(r) => UNCHANGED tcl
    BY Zenon DEF KillPods, tables
  <2>2. PICK r \in Replicas : LoopStep(r)
    BY <1>8
  <2>3. CheckOlder(r) \/ ClaimJob(r) \/ PassGate(r) \/ UnlockWorkspace(r) \/ LookupStep(r)
        \/ SkipStep(r) \/ Advance(r) \/ CountOpen(r) \/ Tally(r) \/ FinishJob(r) => UNCHANGED tcl
    BY DEF CheckOlder, ClaimJob, PassGate, UnlockWorkspace, LookupStep, SkipStep, Advance,
       CountOpen, Tally, FinishJob, tables
  <2>4. ReleaseFinished(r) \/ ParkStep(r) \/ ParkJob(r) \/ ClaimStep(r) \/ LockWorkspace(r)
        \/ HandBack(r) \/ RunJob(r) \/ Spawn(r) \/ NoExecutor(r) \/ PollCancels(r) => UNCHANGED tcl
    BY DEF ReleaseFinished, ParkStep, ParkJob, ClaimStep, LockWorkspace, HandBack, RunJob,
       Spawn, NoExecutor, PollCancels, tables
  <2> QED
    BY <1>1, <2>1, <2>2, <2>3, <2>4 DEF LoopStep
<1> QED
  BY <1>1, <1>4, <1>5, <1>6, <1>7, <1>8, Steps DEF Tick, PollJobs, tables, vars
--------------------------------------------------------------------------------
(* The thread that inserts the steps of a job.                              *)
LEMMA InitThread ==
    ASSUME LonePoller, TypeInv, GateInv, [Next]_vars, NEW j \in Jobs,
           Missing(j), Missing(j)', job[j] # "none"
    PROVE  \E q \in requests' : Initializing(q, j)
<1>1. PICK q \in requests : Initializing(q, j)
  BY DEF GateInv, InitInv
<1>2. CASE q \in requests'
  BY <1>1, <1>2
<1>3. CASE Returns(q)
  <2>1. q.pc = "readTcl" /\ StepsIn(j, {"none"}) # StepNumbers
    BY <1>1, <1>3 DEF Returns, Initializing, Missing
  <2>2. \A n \in StepNumbers : step[j][n] = "none"
    BY <1>1, <2>1 DEF GateInv, RequestInv, Initializing, Missing
  <2> QED
    BY <2>1, <2>2 DEF StepsIn
<1>4. ASSUME NEW e, GoesOn(q, e) PROVE \E p \in requests' : Initializing(p, j)
  <2>1. e \in requests' /\ e.id = j /\ e.pc \in Successors(q.pc)
    BY <1>1, <1>4 DEF GoesOn, Initializing
  <2>2. CASE q.pc = "readTcl"
    BY <2>1, <2>2 DEF Successors, Initializing
  <2>3. CASE q.pc = "insertSteps"
    <3>1. InsertStep(q)
      BY <1>4, <2>3 DEF GoesOn, RequestStep, ReadTcl, PatchHook, ReleaseLock, CompleteGate,
         Requeue, RejectGate, DiscardGate, DropSteps, CloseJob, CancelRun
    <3>2. requests' = requests
      BY <1>1, <3>1 DEF InsertStep, Missing, Initializing
    <3> QED
      BY <1>1, <3>2
  <2> QED
    BY <1>1, <2>2, <2>3 DEF Initializing
<1>5. CASE \E p \in requests : Returns(p) /\ p # q
  BY <1>1, <1>5 DEF Returns
<1>6. ASSUME NEW e, Added(e) PROVE \E p \in requests' : Initializing(p, j)
  BY <1>1, <1>2, <1>4, <1>6 DEF Added, GoesOn
<1> QED
  BY <1>1, <1>2, <1>3, <1>5, <1>6, ThreadMoves DEF GateInv

LEMMA OneInitThread ==
    ASSUME LonePoller, TypeInv, GateInv, [Next]_vars, NEW j \in Jobs,
           NEW q \in requests', NEW p \in requests', Initializing(q, j), Initializing(p, j)
    PROVE  q = p
<1>1. \A x, y \in requests : Initializing(x, j) /\ Initializing(y, j) => x = y
  BY DEF GateInv, InitInv
<1>2. CASE requests' \subseteq requests
  BY <1>1, <1>2
<1>3. ASSUME NEW e, Added(e), Initializing(e, j) PROVE q = p
  <2>1. CASE Inserts(e.id) /\ requests' = requests \cup {e}
    <3>1. job[j] = "none"
      BY <1>3, <2>1 DEF Inserts, InsertJob, Initializing
    <3>2. \A x \in requests : ~ Initializing(x, j)
      BY <3>1 DEF GateInv, RequestInv, Initializing
    <3> QED
      BY <2>1, <3>2
  <2>2. ASSUME NEW x \in requests, GoesOn(x, e) PROVE q = p
    <3>1. x.id = j /\ e.pc \in Successors(x.pc) /\ requests' = (requests \ {x}) \cup {e}
      BY <1>3, <2>2 DEF GoesOn, Initializing
    <3>2. e.pc \in {"readTcl", "insertSteps"}
      BY <1>3 DEF Initializing
    <3>3. x.pc = "readTcl"
      BY <3>1, <3>2 DEF Successors
    <3>4. Initializing(x, j)
      BY <3>1, <3>3 DEF Initializing
    <3>5. \A y \in requests \ {x} : ~ Initializing(y, j)
      BY <1>1, <3>4
    <3> QED
      BY <3>1, <3>5
  <2>3. ~ Asks(e) /\ ~ Hooks(e)
    BY <1>3 DEF Asks, Hooks, Initializing
  <2> QED
    BY <1>3, <2>1, <2>2, <2>3 DEF Added
<1>4. ASSUME NEW e, Added(e), ~ Initializing(e, j) PROVE q = p
  BY <1>1, <1>4 DEF Added, GoesOn
<1> QED
  BY <1>2, <1>3, <1>4, ThreadMoves DEF GateInv, Returns

LEMMA InitKept ==
    ASSUME LonePoller, TypeInv, GateInv, [Next]_vars, NEW j \in Jobs, JobMove(j)
    PROVE  InitInv(j)'
<1>0. InitInv(j) /\ RowsInv /\ FreeInv
  BY DEF GateInv
<1>1. Missing(j)' => Missing(j)
  BY <1>0, StepsStay DEF Missing, Entries
<1>2. (Missing(j) \/ job[j] = "none")' => LeftAlone(j)'
  BY <1>1, LeftAloneKept DEF JobMove
<1>3. ASSUME job'[j] = "none" PROVE tcl'[j] = FALSE /\ \A n \in StepNumbers : step'[j][n] = "none"
  <2>1. job[j] = "none" /\ ~ Inserts(j)
    <3>1. Inserts(j) => job'[j] = "pending"
      BY SetJobAt DEF Inserts, InsertJob, TypeInv
    <3> QED
      BY <1>3, <3>1 DEF JobMove
  <2>2. \A q \in requests : q.id # j
    BY <2>1 DEF GateInv, RequestInv
  <2>3. LeftAlone(j) /\ tcl[j] = FALSE /\ \A n \in StepNumbers : step[j][n] = "none"
    BY <1>0, <2>1 DEF InitInv
  <2>4. tcl'[j] = FALSE
    BY <2>1, <2>2, <2>3, TclMoves
  <2>5. \A n \in StepNumbers : step'[j][n] = "none"
    BY <2>2, <2>3, NoneStays
  <2> QED
    BY <2>4, <2>5
<1>4. ASSUME Inserts(j) PROVE \E q \in requests' : q.id = j /\ q.pc = "readTcl"
  <2>1. PICK e : requests' = requests \cup {e} /\ e.id = j /\ e.pc = "readTcl"
    BY <1>4, Started DEF Inserts, InsertJob
  <2> QED
    BY <2>1
<1>5. ASSUME Missing(j)', job'[j] # "none" PROVE \E q \in requests' : Initializing(q, j)
  <2>1. CASE job[j] = "none"
    BY <1>4, <1>5, <2>1 DEF JobMove, Initializing
  <2>2. CASE job[j] # "none"
    BY <1>1, <1>5, <2>2, InitThread
  <2> QED
    BY <2>1, <2>2
<1>6. \A q, p \in requests' : Initializing(q, j) /\ Initializing(p, j) => q = p
  BY OneInitThread
<1>7. ASSUME job'[j] # "none", j \in InlineTcl PROVE tcl'[j]
  <2>1. job[j] # "none" => tcl[j]
    BY <1>0, <1>7 DEF InitInv
  <2>2. CASE Inserts(j)
    <3>1. tcl'[j] = (j \in InlineTcl)
      BY <2>2 DEF Inserts, InsertJob, TypeInv, TablesTypeOK
    <3> QED
      BY <1>7, <3>1
  <2>3. CASE job[j] # "none"
    BY <1>7, <2>1, <2>3, TclMoves
  <2> QED
    BY <1>7, <2>2, <2>3 DEF JobMove
<1>8. ASSUME job'[j] # "none", j \in TemplateTcl
      PROVE  tcl'[j] \/ \E q \in requests' : q.id = j /\ q.pc = "readTcl"
  <2>1. CASE Inserts(j)
    BY <1>4, <2>1
  <2>2. CASE tcl[j]
    BY <1>4, <1>8, <2>2, TclMoves
  <2>3. ASSUME NEW q \in requests, q.id = j, q.pc = "readTcl"
        PROVE  tcl'[j] \/ \E p \in requests' : p.id = j /\ p.pc = "readTcl"
    <3>1. CASE q \in requests'
      BY <2>3, <3>1
    <3>2. ASSUME RequestStep(q) PROVE tcl'[j]
      <4>1. ReadTcl(q)
        BY <2>3, <3>2 DEF RequestStep, InsertStep, PatchHook, ReleaseLock, CompleteGate,
           Requeue, RejectGate, DiscardGate, DropSteps, CloseJob, CancelRun
      <4> QED
        BY <1>8, <2>3, <4>1 DEF ReadTcl, TypeInv, TablesTypeOK
    <3>3. q \in requests' \/ RequestStep(q)
      BY <2>3, ThreadMoves DEF Added, GoesOn, Returns, GateInv
    <3> QED
      BY <3>1, <3>2, <3>3
  <2> QED
    BY <1>0, <1>8, <2>1, <2>2, <2>3 DEF InitInv, JobMove
<1>9. job'[j] = "approved" => j \in approvals'
  BY <1>0, ApprovalsStay DEF JobMove, InitInv
<1> QED
  BY <1>2, <1>3, <1>5, <1>6, <1>7, <1>8, <1>9 DEF InitInv, Initializing
--------------------------------------------------------------------------------
(* A thread finds what it found when it started.                            *)
LEMMA ThreadKept ==
    ASSUME LonePoller, TypeInv, GateInv, [Next]_vars, NEW q \in requests, JobMove(q.id)
    PROVE  RequestInv(q)'
<1>0. RequestInv(q) /\ InitInv(q.id) /\ RowsInv /\ FreeInv /\ q.id \in Jobs
  BY DEF GateInv, TypeInv, ApiTypeOK, Request
<1>1. job'[q.id] # "none"
  BY <1>0 DEF RequestInv, JobMove
<1>2. q.pc \in {"passGate", "requeue"} => q.id \in approvals'
  BY <1>0, ApprovalsStay DEF RequestInv
<1>3. q.pc \in {"passGate", "rejectGate"} => q.num \in StepNumbers /\ step'[q.id][q.num] # "none"
  BY <1>0, StepsStay DEF RequestInv
<1>4. ASSUME q.pc = "rejectGate", Guarded(q.id)', q.num \in Gates(q.id)
      PROVE  step'[q.id][q.num] # "pending"
  <2>1. Guarded(q.id)
    BY <1>4, StillGuarded
  <2>2. q.num \in StepNumbers /\ step[q.id][q.num] \notin {"none", "pending"}
    BY <1>0, <1>4, <2>1 DEF RequestInv
  <2>3. ~ Free(q.id, q.num)
    BY <1>4, <2>1, <2>2, StepNumbersAssumption DEF Free
  <2> QED
    BY <1>0, <2>2, <2>3, PendingMoves
<1>5. ASSUME q.pc = "readTcl", Entries(q.id) # {}, NEW n \in StepNumbers
      PROVE  step'[q.id][n] = "none"
  <2>1. \A m \in StepNumbers : step[q.id][m] = "none"
    BY <1>0, <1>5 DEF RequestInv
  <2>2. Missing(q.id)
    BY <1>5, <2>1 DEF Missing, Entries
  <2>3. LeftAlone(q.id)
    BY <1>0, <2>2 DEF InitInv
  <2>4. \A p \in requests : p.id = q.id => p.pc # "insertSteps"
    BY <1>0, <1>5 DEF InitInv, Initializing
  <2> QED
    BY <1>0, <2>1, <2>3, <2>4, NoneStays
<1>6. ASSUME q.pc \in {"cancelSteps", "closeSteps", "failSteps"}, Missing(q.id)', Guarded(q.id)'
      PROVE  job'[q.id] \notin Selectable
  <2>1. Missing(q.id) /\ Guarded(q.id)
    BY <1>0, <1>6, StepsStay, StillGuarded DEF Missing, Entries
  <2>2. job[q.id] # "none" /\ job[q.id] \notin Selectable
    BY <1>0, <1>6, <2>1 DEF RequestInv
  <2>3. ~ Inserts(q.id)
    BY <2>2 DEF Inserts, InsertJob
  <2>4. ~ Reports(q.id)
    BY <1>0, <2>1 DEF InitInv, LeftAlone, Reports
  <2> QED
    BY <2>1, <2>2, <2>3, <2>4 DEF JobMove, Guarded
<1>7. Entries(q.id)' = Entries(q.id)
  BY DEF Entries
<1> QED
  BY <1>1, <1>2, <1>3, <1>4, <1>5, <1>6, <1>7 DEF RequestInv, Gates

LEMMA NewThread ==
    ASSUME LonePoller, TypeInv, GateInv, [Next]_vars, NEW e, Added(e), e \notin requests,
           JobMove(e.id)
    PROVE  RequestInv(e)'
<1>0. e.id \in Jobs /\ Entries(e.id)' = Entries(e.id) /\ Gates(e.id)' = Gates(e.id)
  BY DEF Added, Entries, Gates
<1>1. CASE Inserts(e.id) /\ e.pc = "readTcl"
  <2>1. job'[e.id] = "pending"
    BY <1>0, <1>1, SetJobAt DEF Inserts, InsertJob, TypeInv
  <2>2. \A n \in StepNumbers : step[e.id][n] = "none"
    BY <1>0, <1>1 DEF Inserts, InsertJob, GateInv, InitInv
  <2>3. \A n \in StepNumbers : step'[e.id][n] = "none"
    BY <1>1, <2>2 DEF Inserts, InsertJob
  <2> QED
    BY <1>1, <2>1, <2>3 DEF RequestInv
<1>2. ASSUME NEW p \in requests, GoesOn(p, e) PROVE RequestInv(e)'
  <2>1. RequestInv(p) /\ e.id = p.id /\ e.pc \in Successors(p.pc)
    BY <1>2 DEF GoesOn, GateInv
  <2>2. job'[e.id] # "none"
    BY <2>1 DEF RequestInv, JobMove
  <2>3. e.pc = "requeue" => e.id \in approvals'
    BY <2>1, ApprovalsStay DEF Successors, RequestInv
  <2>4. e.pc \notin {"passGate", "rejectGate", "readTcl", "cancelSteps", "closeSteps", "failSteps"}
    BY <2>1 DEF Successors
  <2> QED
    BY <2>2, <2>3, <2>4 DEF RequestInv
<1>3. CASE Asks(e)
  <2>1. job'[e.id] # "none"
    BY <1>3 DEF Asks, JobMove
  <2>2. e.pc \in {"passGate", "rejectGate"} =>
           e.num \in StepNumbers /\ step'[e.id][e.num] = "waitingApproval"
    BY <1>3 DEF Asks
  <2> QED
    BY <1>3, <2>1, <2>2 DEF Asks, RequestInv
<1>4. CASE Hooks(e)
  BY <1>4 DEF Hooks, RequestInv, Selectable
<1> QED
  BY <1>1, <1>2, <1>3, <1>4 DEF Added

LEMMA ThreadsKept ==
    ASSUME LonePoller, TypeInv, GateInv, [Next]_vars, \A j \in Jobs : JobMove(j)
    PROVE  \A q \in requests' : RequestInv(q)'
<1>1. \A q \in requests : q.id \in Jobs
  BY DEF TypeInv, ApiTypeOK, Request
<1>2. \A q \in requests : RequestInv(q)'
  BY <1>1, ThreadKept
<1>3. ASSUME NEW e, Added(e) PROVE \A q \in requests' : RequestInv(q)'
  <2>1. requests' \subseteq requests \cup {e} /\ e.id \in Jobs
    BY <1>3 DEF Added, GoesOn
  <2>2. e \notin requests => RequestInv(e)'
    BY <1>3, <2>1, NewThread
  <2> QED
    BY <1>2, <2>1, <2>2
<1> QED
  BY <1>2, <1>3, ThreadMoves DEF GateInv, Returns
--------------------------------------------------------------------------------
(* A gate is only passed by one that left nothing behind it, by its being   *)
(* parked, or by a thread that ends the job.                                *)
LEMMA NewlyPassed ==
    ASSUME LonePoller, TypeInv, GateInv, [Next]_vars, NEW j \in Jobs, Guarded(j),
           NEW g \in Gates(j),
           Passed(j, g)', ~ Passed(j, g)
    PROVE  \/ \E r \in Replicas : ParkStep(r) /\ InHand(r, j)
           \/ \E q \in requests :
                /\ RequestStep(q) /\ q.id = j /\ Missing(j)
                /\ q.pc \in {"cancelSteps", "closeSteps", "failSteps"} \/ DropSteps(q)
<1>0. /\ RowsInv /\ FreeInv /\ InitInv(j) /\ \A q \in requests : RequestInv(q)
      /\ g \in StepNumbers /\ g \in Nat /\ Gates(j)' = Gates(j) /\ Entries(j)' = Entries(j)
      /\ StepNumbers \subseteq Nat
  BY StepNumbersAssumption DEF GateInv, Gates, Entries
<1>1. PICK n \in StepNumbers : /\ g < n
                               /\ step'[j][n] = "pending"
                                  \/ (n \in Entries(j) /\ step'[j][n] = "none")
  BY <1>0 DEF Passed
<1>2. step'[j][g] \notin {"none", "pending"}
  BY DEF Passed
<1>3. step[j][n] = "pending" \/ (n \in Entries(j) /\ step[j][n] = "none")
        => step[j][g] \in {"none", "pending"}
  BY <1>0, <1>1 DEF Passed
<1>4. ~ Free(j, g) /\ ~ Free(j, n)
  BY <1>0, <1>1 DEF Free
<1>5. ~ Same(j)
  BY <1>0, <1>1, <1>2, <1>3 DEF Same
<1>6. ASSUME NEW m, NEW s, Sets(j, m, s), m # g, m # n PROVE FALSE
  BY <1>0, <1>1, <1>2, <1>3, <1>6 DEF Sets
<1>7. ASSUME NEW m, NEW s, Sets(j, m, s), Free(j, m) PROVE FALSE
  BY <1>4, <1>6, <1>7
<1>8. CASE \E r \in Replicas : LoopStep(r)
  <2>1. PICK r \in Replicas : LoopStep(r)
    BY <1>8
  <2> QED
    BY <1>0, <1>5, <1>7, <2>1, LoopSteps DEF Guarded
<1>9. CASE \E c \in calls : CallStep(c)
  BY <1>0, <1>5, <1>7, <1>9, CallSteps
<1>10. CASE \E i \in Jobs, m \in StepNumbers : ExecutorStep(i, m)
  <2>1. PICK i \in Jobs, m \in StepNumbers : ExecutorStep(i, m)
    BY <1>10
  <2> QED
    BY <1>0, <1>5, <1>7, <2>1, PodSteps
<1>11. ASSUME NEW q \in requests, RequestStep(q)
       PROVE  /\ q.id = j /\ Missing(j)
              /\ q.pc \in {"cancelSteps", "closeSteps", "failSteps"} \/ DropSteps(q)
  <2>1. q.id = j
    BY <1>5, <1>11, RequestSteps
  <2>2. ASSUME NEW m \in Lowest({i \in Entries(j) : step[j][i] = "none"}), Sets(j, m, "pending")
        PROVE  FALSE
    <3>1. m \in Entries(j) /\ step[j][m] = "none" /\ m # g
      BY <1>0, <1>2, <2>2 DEF Lowest, Sets
    <3> QED
      BY <1>0, <1>1, <1>2, <1>3, <2>2, <3>1 DEF Sets
  <2>3. q.pc # "passGate"
    BY <1>0, <2>1 DEF RequestInv, Guarded
  <2>4. ASSUME q.pc = "rejectGate", Sets(j, q.num, "rejected") PROVE FALSE
    <3>1. q.num = g => step[j][g] \notin {"none", "pending"}
      BY <1>0, <2>1, <2>4 DEF RequestInv
    <3>2. q.num # n
      BY <1>1, <2>4 DEF Sets
    <3> QED
      BY <1>0, <1>1, <1>2, <1>3, <1>6, <2>4, <3>1, <3>2 DEF Sets
  <2>5. ASSUME NEW from, NEW to, "none" \notin from, to \notin {"none", "pending"},
               Moves(j, from, to)
        PROVE  /\ "pending" \in from
               /\ n \in Entries(j) /\ step[j][n] = "none"
    BY <1>0, <1>1, <1>2, <1>3, <2>5 DEF Moves
  <2>6. ASSUME q.pc = "discardGate", Moves(j, {"waitingApproval"}, "rejected") PROVE FALSE
    BY <2>5, <2>6
  <2>7. \/ /\ q.pc \in {"cancelSteps", "closeSteps", "failSteps"}
           /\ \E from \in SUBSET {"pending", "running", "waitingApproval"},
                 to \in {"cancelled", "notExecuted", "failed"} : Moves(j, from, to)
        \/ DropSteps(q) /\ Moves(j, {"pending"}, "notExecuted")
    BY <1>5, <1>11, <2>2, <2>3, <2>4, <2>6, RequestSteps
  <2>8. Missing(j)
    BY <2>5, <2>7 DEF Missing
  <2> QED
    BY <2>1, <2>7, <2>8
<1>12. CASE UNCHANGED step
  BY <1>5, <1>12 DEF Same
<1> QED
  BY <1>8, <1>9, <1>10, <1>11, <1>12, Steps, UserSteps DEF Tick, PollJobs, tables, vars

LEMMA ParkMoves ==
    ASSUME LonePoller, TypeInv, [Next]_vars, NEW r \in Replicas, sched[r].pc = "parkJob"
    PROVE  ParkJob(r) \/ sched'[r] = sched[r]
<1>1. CASE UNCHANGED sched
  BY <1>1
<1>2. CASE \E q \in Replicas : LoopStep(q)
  <2>1. LoopStep(r)
    BY <1>2 DEF LonePoller
  <2>2. ~ KillPods(r)
    BY Zenon DEF KillPods, At
  <2> QED
    BY <2>1, <2>2 DEF LoopStep, CheckOlder, ClaimJob, PassGate, UnlockWorkspace, LookupStep,
       SkipStep, Advance, CountOpen, Tally, FinishJob, ReleaseFinished, ParkStep, ClaimStep,
       LockWorkspace, HandBack, RunJob, Spawn, NoExecutor, PollCancels, At
<1>3. CASE \E q \in Replicas : Tick(q)
  BY <1>3 DEF LonePoller, Tick, PollJobs, At
<1>4. CASE \E c \in calls : CallStep(c)
  BY <1>1, <1>4 DEF CallStep, Execute, FailCall
<1> QED
  BY <1>1, <1>2, <1>3, <1>4, Steps DEF schedVars, vars

LEMMA ThreadStays ==
    ASSUME LonePoller, TypeInv, GateInv, [Next]_vars, NEW q \in requests
    PROVE  q \in requests' \/ RequestStep(q)
BY ThreadMoves DEF Added, GoesOn, Returns, GateInv

(* Nobody comes to work on a job that passed a gate without an approval.    *)
LEMMA PassedKept ==
    ASSUME LonePoller, TypeInv, GateInv, [Next]_vars, NEW j \in Jobs, Guarded(j), JobMove(j)
    PROVE  PassedInv(j)'
<1>0. /\ PassedInv(j) /\ OneExecutor(j) /\ InitInv(j) /\ RowsInv /\ Gates(j)' = Gates(j)
      /\ \A r, q \in Replicas : r = q
  BY DEF GateInv, Gates, LonePoller
<1> SUFFICES ASSUME NEW g \in Gates(j), Passed(j, g)'
             PROVE  /\ AtRest(j)'
                    /\ \A r \in Replicas : ~ Polled(r, j)' /\ (InHand(r, j)' => Parking(r, j)')
                    /\ \/ job'[j] \notin Selectable
                       \/ \E r \in Replicas : Parking(r, j)'
                       \/ \E q \in requests' : Closing(q, j)
  BY <1>0 DEF PassedInv, Closing
<1>1. CASE ~ Passed(j, g)
  <2>1. ASSUME NEW r \in Replicas, ParkStep(r), InHand(r, j)
        PROVE  /\ AtRest(j)'
               /\ ~ Polled(r, j)' /\ Parking(r, j)'
    <3>1. /\ sched'[r].row = sched[r].row /\ sched'[r].rows = sched[r].rows
          /\ sched'[r].pc = "parkJob" /\ sched[r].pc = "parkStep"
      BY <2>1 DEF ParkStep, Goto, At, TypeInv, LoopsOK, Loop
    <3>2. AtRest(j) /\ UNCHANGED <<pod, calls>>
      BY <1>0, <2>1 DEF OneExecutor, ParkStep, cluster
    <3>3. AtRest(j)'
      BY <3>2 DEF AtRest, Working, Calling
    <3>4. \A x \in sched[r].rows : x.id # j
      BY <1>0, <2>1, <3>1 DEF RowsInv, InHand
    <3> QED
      BY <2>1, <3>1, <3>3, <3>4 DEF Polled, Parking, InHand
  <2>2. ASSUME NEW q \in requests, RequestStep(q), q.id = j, Missing(j),
               q.pc \in {"cancelSteps", "closeSteps", "failSteps"} \/ DropSteps(q)
        PROVE  /\ LeftAlone(j)'
               /\ job'[j] \notin Selectable \/ \E p \in requests' : Closing(p, j)
    <3>1. LeftAlone(j)'
      BY <2>2, LeftAloneKept
    <3>2. CASE q.pc \in {"cancelSteps", "closeSteps", "failSteps"}
      <4>1. PatchHook(q)
        BY <2>2, <3>2 DEF RequestStep, ReadTcl, InsertStep, ReleaseLock, CompleteGate, Requeue,
           RejectGate, DiscardGate, DropSteps, CloseJob, CancelRun
      <4>2. job[j] \notin Selectable
        BY <2>2, <3>2 DEF GateInv, RequestInv
      <4> QED
        BY <3>1, <4>1, <4>2 DEF PatchHook
    <3>3. CASE DropSteps(q)
      <4>1. PICK pc \in {"rejectJob", "cancelJob"} : Continue(q, pc)
        BY <3>3 DEF DropSteps
      <4>2. [q EXCEPT !.pc = pc] \in requests' /\ q \in Request
        BY <4>1 DEF Continue, TypeInv, ApiTypeOK
      <4>3. Closing([q EXCEPT !.pc = pc], j)
        BY <2>2, <4>2 DEF Closing, Request
      <4> QED
        BY <3>1, <4>2, <4>3
    <3> QED
      BY <2>2, <3>2, <3>3
  <2>3. LeftAlone(j)' => /\ AtRest(j)'
                         /\ \A r \in Replicas : ~ Polled(r, j)' /\ ~ InHand(r, j)'
    BY DEF LeftAlone, AtRest, Calling
  <2> QED
    BY <1>0, <1>1, <2>1, <2>2, <2>3, NewlyPassed
<1>2. CASE Passed(j, g)
  <2>0. /\ AtRest(j)
        /\ \A r \in Replicas : ~ Polled(r, j) /\ (InHand(r, j) => Parking(r, j))
        /\ \/ job[j] \notin Selectable
           \/ \E r \in Replicas : Parking(r, j)
           \/ \E q \in requests : Closing(q, j)
    BY <1>0, <1>2 DEF PassedInv
  <2>1. AtRest(j)'
    BY <2>0, RestKept DEF Hires, Parking
  <2>2. ASSUME NEW r \in Replicas PROVE ~ Polled(r, j)'
    <3>1. SUFFICES ASSUME Polled(r, j)' PROVE FALSE
      OBVIOUS
    <3>2. job[j] \in Selectable \cup {"approved"} /\ sched[r].pc = "idle" /\ requests = {}
      BY <2>0, <3>1, StillPolled
    <3>3. job[j] # "approved"
      BY <1>0 DEF InitInv, Guarded
    <3> QED
      BY <1>0, <2>0, <3>2, <3>3 DEF Parking
  <2>3. ASSUME NEW r \in Replicas, Parking(r, j)
        PROVE  Parking(r, j)' \/ (~ InHand(r, j)' /\ job'[j] \notin Selectable)
    <3>1. CASE ParkJob(r)
      <4>1. job'[j] = "waitingApproval"
        BY <2>3, <3>1, SetJobAt DEF ParkJob, CurrentJob, Parking, InHand, TypeInv
      <4>2. sched'[r].row = NoRow
        BY <3>1 DEF ParkJob, EndOfRow, NextRow, IdleLoop, TypeInv, LoopsOK
      <4> QED
        BY <4>1, <4>2 DEF InHand, NoRow, Jobs, Selectable
    <3> QED
      BY <2>3, <3>1, ParkMoves DEF Parking, InHand
  <2>4. ASSUME NEW r \in Replicas, InHand(r, j)' PROVE Parking(r, j)'
    BY <2>0, <2>3, <2>4, StillPolled
  <2>5. ASSUME NEW q \in requests, Closing(q, j)
        PROVE  q \in requests' \/ job'[j] \notin Selectable
    <3>1. CASE RequestStep(q)
      <4>1. CloseJob(q)
        BY <2>5, <3>1 DEF Closing, RequestStep, ReadTcl, InsertStep, PatchHook, ReleaseLock,
           CompleteGate, Requeue, RejectGate, DiscardGate, DropSteps, CancelRun
      <4> QED
        BY <2>5, <4>1, SetJobAt DEF CloseJob, Closing, TypeInv, Selectable
    <3> QED
      BY <3>1, ThreadStays
  <2>6. job[j] \notin Selectable => job'[j] \notin Selectable
    <3>1. ~ Inserts(j)
      BY <1>0, <1>2 DEF Inserts, InsertJob, InitInv, Passed, Gates
    <3>2. ~ Reports(j)
      BY <2>0 DEF AtRest, Reports
    <3> QED
      BY <3>1, <3>2 DEF JobMove, Guarded
  <2> QED
    BY <2>0, <2>1, <2>2, <2>3, <2>4, <2>5, <2>6
<1> QED
  BY <1>1, <1>2
--------------------------------------------------------------------------------
LEMMA InitGateInv == Init => GateInv
<1> SUFFICES ASSUME Init PROVE GateInv
  OBVIOUS
<1> USE DEF Init, TablesInit, SchedInit, ApiInit
<1>1. RowsInv
  BY DEF RowsInv, IdleLoop
<1>2. FreeInv
  BY DEF FreeInv, IdleLoop, HoldingPc, NoPod
<1>3. VerdictInv
  BY DEF VerdictInv, NoPod
<1>4. ASSUME NEW j \in Jobs PROVE InitInv(j) /\ OneExecutor(j) /\ PassedInv(j)
  <2>1. LeftAlone(j)
    BY DEF LeftAlone, Working, NoPod, Polled, InHand, IdleLoop, NoRow, Jobs
  <2>2. job[j] = "none" /\ tcl[j] = FALSE /\ \A n \in StepNumbers : step[j][n] = "none"
    OBVIOUS
  <2>3. InitInv(j)
    BY <2>1, <2>2 DEF InitInv
  <2>4. OneExecutor(j)
    BY <2>1, <2>2 DEF OneExecutor, LeftAlone, Calling, Selectable
  <2>5. PassedInv(j)
    BY <2>2 DEF PassedInv, Passed, Gates
  <2> QED
    BY <2>3, <2>4, <2>5
<1> QED
  BY <1>1, <1>2, <1>3, <1>4 DEF GateInv

LEMMA NextGateInv == LonePoller /\ TypeInv /\ GateInv /\ [Next]_vars => GateInv'
<1> SUFFICES ASSUME LonePoller, TypeInv, GateInv, [Next]_vars PROVE GateInv'
  OBVIOUS
<1>1. ASSUME NEW j \in Jobs PROVE JobMove(j)
  BY JobMoves DEF GateInv, InitInv
<1>2. ASSUME NEW j \in Jobs, Guarded(j)' PROVE OneExecutor(j)' /\ PassedInv(j)'
  BY <1>1, <1>2, StillGuarded, OneExecutorKept, PassedKept
<1>3. VerdictInv'
  BY VerdictsKept DEF GateInv
<1>4. \A j \in Jobs : InitInv(j)'
  BY <1>1, InitKept
<1> QED
  BY <1>1, <1>2, <1>3, <1>4, RowsKept, FreeKept, ThreadsKept DEF GateInv

(* With one polling process that does not restart, no executor ever works   *)
(* on a step behind a gate that nobody approved: whatever the users ask at  *)
(* the same time, and whichever executor, answer or report is lost.         *)
THEOREM GatesAreRespected == LonePoller => (Spec => []GateRespected)
<1> SUFFICES ASSUME LonePoller PROVE Spec => []GateRespected
  OBVIOUS
<1>1. FreeInv => GateRespected
  <2>1. SUFFICES ASSUME FreeInv, NEW j \in Jobs, NEW n \in StepNumbers, NEW g \in StepNumbers,
                        Flow[j][g] = "approval", g < n, Running(j, n)
                 PROVE  j \in approvals \cup AutoApply
    BY DEF GateRespected
  <2>2. Free(j, n) /\ g \in Gates(j) /\ g \in Nat /\ n \in Nat
    BY <2>1, StepNumbersAssumption DEF FreeInv, Running, Gates
  <2> QED
    BY <2>1, <2>2 DEF Free, Guarded
<1>2. GateInv => FreeInv
  BY DEF GateInv
<1>3. Init => TypeInv /\ GateInv
  BY InitTypeInv, InitGateInv
<1>4. TypeInv /\ GateInv /\ [Next]_vars => TypeInv' /\ GateInv'
  BY NextTypeInv, NextGateInv
<1> QED
  BY <1>1, <1>2, <1>3, <1>4, PTL DEF Spec
================================================================================
