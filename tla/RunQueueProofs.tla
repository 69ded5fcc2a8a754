----------------------------- MODULE RunQueueProofs -----------------------------
(****************************************************************************)
(* One polling process implements the run queue, as long as users decide    *)
(* only at the gates and the answers of executors arrive.                   *)
(****************************************************************************)
EXTENDS TerrakubeRunsProofs

(* One API process as in LonePoller; no cancel or discard, no decision on a *)
(* page that is out of date, no executor that starts although its call      *)
(* failed; and approvals through REST, which are two statements, do not     *)
(* compete with rejections.                                                 *)
Orderly ==
    /\ LonePoller
    /\ Events \cap {"stalePage", "uiCancel", "cliCancel", "cliDiscard", "answerLost"} = {}
    /\ "restApprove" \in Events => Events \cap {"uiReject", "restReject"} = {}
--------------------------------------------------------------------------------
(* Whose turn it is: a job's status says who may write to it next.          *)

NoRowPc == {"idle", "next", "cancels"}
ClaimPc == {"claimJob", "passGate", "unlockWorkspace"}
QueuePc == {"skipStep", "advance", "countOpen", "tally", "complete", "fail", "parkStep",
            "parkJob", "claimStep", "lockWorkspace", "handBack", "runJob"}
RunPc == {"spawn", "failStep", "failJob"}

(* The loop has a row in hand where it works on one; it deletes no pods.    *)
HandInv ==
    \A r \in Replicas :
        /\ sched[r].pc # "kill"
        /\ IF sched[r].pc \in NoRowPc THEN sched[r].row = NoRow ELSE CurrentJob(r) \in Jobs

(* No handler, call or executor works on the job.                           *)
Untouched(j) ==
    /\ \A q \in requests : q.id # j
    /\ \A c \in calls : c.id # j
    /\ \A n \in StepNumbers : ~ Working(j, n)

RowTurn(x) == x.status \in {"pending", "approved", "queue"} /\ job[x.id] = x.status

HandTurn(r, j) ==
    /\ sched[r].pc = "claimJob" => RowTurn(sched[r].row) /\ sched[r].row.status # "queue"
    /\ sched[r].pc \in {"passGate", "unlockWorkspace"} => job[j] = "queue"
    /\ sched[r].pc \notin ClaimPc => sched[r].row.status = "queue"
    /\ sched[r].pc \in QueuePc => job[j] = "queue"
    /\ sched[r].pc \in RunPc => job[j] = "running"
    /\ sched[r].pc = "release" => job[j] \in {"completed", "failed"}
    /\ sched[r].pc = "failRelease" => job[j] = "failed"

CallTurn(c) ==
    IF c.pc = "failRelease" THEN job[c.id] = "failed" ELSE job[c.id] = "running"

RequestTurn(q) ==
    \/ q.pc \in {"readTcl", "insertSteps"} /\ job[q.id] = "pending"
    \/ /\ q.pc \in {"passGate", "requeue"}
       /\ "restApprove" \in Events
       /\ job[q.id] \in {"waitingApproval", "approved", "queue"}
    \/ /\ q.pc \in {"rejectGate", "dropSteps", "rejectJob"}
       /\ "restReject" \in Events
       /\ job[q.id] \in {"waitingApproval", "approved", "rejected"}
    \/ q.pc = "failSteps" /\ job[q.id] = "rejected"
    \/ q.pc = "closeSteps" /\ job[q.id] = "noChanges"
    \/ q.pc = "releaseLock" /\ job[q.id] \in Terminal

LoopTurn(r, j) ==
    /\ \A x \in sched[r].rows : x.id = j => RowTurn(x) /\ Untouched(j) /\ ~ InHand(r, j)
    /\ InHand(r, j) => HandTurn(r, j) /\ Untouched(j)

CallsTurn(j) ==
    \A c \in calls : c.id = j =>
        /\ CallTurn(c)
        /\ \A d \in calls : d.id = j => d = c
        /\ \A n \in StepNumbers : ~ Working(j, n)

PodsTurn(j) ==
    \A n \in StepNumbers : Working(j, n) =>
        job[j] = "running" /\ \A m \in StepNumbers : Working(j, m) => m = n

RequestsTurn(j) == \A q \in requests : q.id = j => RequestTurn(q)

TurnInv(j) ==
    /\ job[j] # "cancelled"
    /\ \A r \in Replicas : LoopTurn(r, j)
    /\ CallsTurn(j) /\ PodsTurn(j) /\ RequestsTurn(j)
--------------------------------------------------------------------------------
(* How far the steps of a job are.                                          *)

Settled == {"none", "pending", "completed", "notExecuted"}
AllSettled(j) == \A m \in StepNumbers : step[j][m] \in Settled
SettledBut(j, n) == \A m \in StepNumbers : step[j][m] \in Settled \/ m = n
Behind(j, n) == \A m \in StepNumbers : m < n => step[j][m] \in {"none", "completed", "notExecuted"}

Current(j, n) ==
    \/ \E r \in Replicas : Holds(r, j, n)
    \/ \E c \in calls : Dispatches(c, j, n)
    \/ Working(j, n)

(* The step that a handler or the loop is about to settle.                  *)
HandExcuses(r, j, m) ==
    \/ /\ sched[r].pc \in {"lockWorkspace", "handBack", "runJob"}
       /\ sched[r].num = m /\ step[j][m] = "running"
    \/ sched[r].pc = "parkJob" /\ sched[r].num = m /\ step[j][m] = "waitingApproval"
    \/ sched[r].pc = "passGate" /\ step[j][m] = "waitingApproval"

Excused(j, m) ==
    \/ \E q \in requests : q.id = j /\ q.pc = "passGate" /\ q.num = m
    \/ \E r \in Replicas : InHand(r, j) /\ HandExcuses(r, j, m)

Rejecting(j) == \E q \in requests : q.id = j /\ q.pc \in {"dropSteps", "rejectJob"}

OpenSteps(j) ==
    job[j] \in {"pending", "queue"} =>
        \A m \in StepNumbers : step[j][m] \in Settled \/ Excused(j, m)

ParkedSteps(j) ==
    job[j] \in {"waitingApproval", "approved"} =>
        /\ \A m, n \in StepNumbers :
              step[j][m] \notin Settled /\ step[j][n] \notin Settled => m = n
        /\ \A m \in StepNumbers : \/ step[j][m] \in Settled \cup {"waitingApproval"}
                                  \/ step[j][m] = "rejected" /\ Rejecting(j)

Deciding(q, j) == q.id = j /\ q.pc \in {"passGate", "rejectGate"}

DecidedSteps(j) ==
    \A q \in requests : q.id = j /\ job[j] \notin Terminal =>
        /\ Deciding(q, j) =>
             SettledBut(j, q.num) /\ \A p \in requests : Deciding(p, j) => p.num = q.num
        /\ q.pc = "requeue" => AllSettled(j)

CurrentSteps(j) ==
    /\ \A r \in Replicas : InHand(r, j) /\ sched[r].pc = "claimStep" => Behind(j, sched[r].num)
    /\ \A n \in StepNumbers : Current(j, n) => SettledBut(j, n) /\ Behind(j, n)
    /\ \A n \in StepNumbers : pod[j][n].pc = "reportJob" /\ pod[j][n].verdict # "failed" =>
          step[j][n] = "completed"

StepInv(j) == OpenSteps(j) /\ ParkedSteps(j) /\ DecidedSteps(j) /\ CurrentSteps(j)

(* Steps are launched in ascending order.                                   *)
Ahead(j, n) ==
    \/ step[j][n] = "pending"
    \/ \E r \in Replicas : Holds(r, j, n)
    \/ \E c \in calls : Dispatches(c, j, n)

LaunchInv(j) ==
    \A m \in StepNumbers : launches[j][m] # 0 =>
        ~ Missing(j) /\ \A n \in StepNumbers : Ahead(j, n) => m < n

JobInv(j) == TurnInv(j) /\ StepInv(j) /\ LaunchInv(j)

QueueInv == HandInv /\ \A j \in Jobs : JobInv(j)
--------------------------------------------------------------------------------
(* A step of the system that does not concern job j.                        *)
SameRow(j) ==
    /\ job'[j] = job[j] /\ Same(j)
    /\ \A n \in StepNumbers : pod'[j][n] = pod[j][n] /\ launches'[j][n] = launches[j][n]

SameRequests(j) ==
    \A q \in requests \cup requests' : q.id = j => q \in requests /\ q \in requests'

SameCalls(j) == \A c \in calls \cup calls' : c.id = j => c \in calls /\ c \in calls'

SameRows(j) ==
    \A r \in Replicas : \A x \in sched'[r].rows : x.id = j => x \in sched[r].rows

SameHand(j) ==
    \A r \in Replicas :
        /\ InHand(r, j) <=> InHand(r, j)'
        /\ InHand(r, j) => /\ sched'[r].pc = sched[r].pc
                           /\ sched'[r].num = sched[r].num
                           /\ sched'[r].row = sched[r].row

Frame(j) == SameRow(j) /\ SameRequests(j) /\ SameCalls(j) /\ SameHand(j)

LEMMA FrameTurn ==
    ASSUME NEW j \in Jobs, Frame(j), SameRows(j), TurnInv(j) PROVE TurnInv(j)'
<1> USE DEF Frame, SameRows
<1>1. \A n \in StepNumbers : Working(j, n)' <=> Working(j, n)
  BY DEF SameRow, Working
<1>2. Untouched(j) => Untouched(j)'
  BY <1>1 DEF Untouched, SameRequests, SameCalls
<1>3. ASSUME NEW r \in Replicas PROVE LoopTurn(r, j)'
  <2>1. LoopTurn(r, j)
    BY DEF TurnInv
  <2>2. \A x \in sched'[r].rows : x.id = j => RowTurn(x)' /\ Untouched(j)' /\ ~ InHand(r, j)'
    BY <1>2, <1>3, <2>1 DEF LoopTurn, RowTurn, SameHand, SameRow
  <2>3. InHand(r, j)' => HandTurn(r, j)' /\ Untouched(j)'
    BY <1>2, <1>3, <2>1 DEF LoopTurn, HandTurn, RowTurn, SameHand, SameRow, InHand
  <2> QED
    BY <2>2, <2>3 DEF LoopTurn
<1>4. CallsTurn(j)'
  BY <1>1 DEF TurnInv, CallsTurn, CallTurn, SameCalls, SameRow
<1>5. PodsTurn(j)'
  BY <1>1 DEF TurnInv, PodsTurn, SameRow
<1>6. RequestsTurn(j)'
  BY DEF TurnInv, RequestsTurn, RequestTurn, SameRequests, SameRow
<1> QED
  BY <1>3, <1>4, <1>5, <1>6 DEF TurnInv, SameRow

LEMMA FrameSteps ==
    ASSUME NEW j \in Jobs, Frame(j), StepInv(j) PROVE StepInv(j)'
<1> USE DEF Frame
<1>1. \A n \in StepNumbers : Working(j, n)' <=> Working(j, n)
  BY DEF SameRow, Working
<1>2. \A m \in StepNumbers : step'[j][m] = step[j][m]
  BY DEF SameRow, Same
<1>3. \A m \in StepNumbers : Excused(j, m) => Excused(j, m)'
  BY <1>2 DEF Excused, HandExcuses, SameRequests, SameHand, InHand
<1>4. \A n \in StepNumbers : Current(j, n)' => Current(j, n)
  <2>1. \A r \in Replicas, n \in StepNumbers : Holds(r, j, n)' => Holds(r, j, n)
    BY DEF Holds, SameHand, InHand, CurrentJob
  <2> QED
    BY <1>1, <2>1 DEF Current, Dispatches, SameCalls
<1>5. OpenSteps(j)'
  BY <1>2, <1>3 DEF StepInv, OpenSteps, SameRow
<1>6. ParkedSteps(j)'
  <2>1. Rejecting(j) => Rejecting(j)'
    BY DEF Rejecting, SameRequests
  <2> QED
    BY <1>2, <2>1 DEF StepInv, ParkedSteps, SameRow
<1>7. DecidedSteps(j)'
  BY <1>2 DEF StepInv, DecidedSteps, Deciding, SameRow, SameRequests, SettledBut, AllSettled
<1>8. CurrentSteps(j)'
  BY <1>2, <1>4 DEF StepInv, CurrentSteps, SameRow, SameHand, SettledBut, Behind, InHand
<1> QED
  BY <1>5, <1>6, <1>7, <1>8 DEF StepInv

LEMMA FrameLaunches ==
    ASSUME NEW j \in Jobs, Frame(j), LaunchInv(j) PROVE LaunchInv(j)'
<1> USE DEF Frame
<1>1. \A n \in StepNumbers : Ahead(j, n)' => Ahead(j, n)
  <2>1. \A r \in Replicas, n \in StepNumbers : Holds(r, j, n)' => Holds(r, j, n)
    BY DEF Holds, SameHand, InHand, CurrentJob
  <2> QED
    BY <2>1 DEF Ahead, Dispatches, SameCalls, SameRow, Same
<1>2. Missing(j)' => Missing(j)
  BY DEF Missing, Entries, SameRow, Same
<1> QED
  BY <1>1, <1>2 DEF LaunchInv, SameRow

LEMMA FrameKeeps ==
    ASSUME NEW j \in Jobs, Frame(j), SameRows(j), JobInv(j) PROVE JobInv(j)'
BY FrameTurn, FrameSteps, FrameLaunches DEF JobInv
--------------------------------------------------------------------------------
LEMMA InitQueueInv == Init => QueueInv
<1> SUFFICES ASSUME Init PROVE QueueInv
  OBVIOUS
<1> USE DEF Init, TablesInit, SchedInit, ApiInit
<1>1. \A r \in Replicas : sched[r].pc = "idle" /\ sched[r].rows = {} /\ sched[r].row = NoRow
  BY DEF IdleLoop
<1>2. HandInv
  BY <1>1 DEF HandInv, NoRowPc
<1> SUFFICES ASSUME NEW j \in Jobs PROVE JobInv(j)
  BY <1>2 DEF QueueInv
<1>3. \A r \in Replicas : ~ InHand(r, j) /\ sched[r].pc \notin HoldingPc
  BY <1>1 DEF InHand, NoRow, Jobs, HoldingPc
<1>4. \A n \in StepNumbers : pod[j][n].pc = "none" /\ launches[j][n] = 0
  BY DEF NoPod
<1>5. TurnInv(j)
  BY <1>1, <1>3, <1>4 DEF TurnInv, LoopTurn, CallsTurn, PodsTurn, RequestsTurn, Working
<1>6. StepInv(j)
  BY <1>3, <1>4 DEF StepInv, OpenSteps, ParkedSteps, DecidedSteps, CurrentSteps, Current, Holds,
     Dispatches, Working
<1>7. LaunchInv(j)
  BY <1>4 DEF LaunchInv
<1> QED
  BY <1>5, <1>6, <1>7 DEF JobInv

(* What is assumed of a state in which a step of the system is taken.       *)
Ready == Orderly /\ TypeInv /\ GateInv /\ ClaimInv /\ QueueInv

LEMMA GotoAt ==
    ASSUME TypeInv, NEW r \in Replicas, NEW pc, Goto(r, pc)
    PROVE  /\ sched'[r].pc = pc /\ sched'[r].rows = sched[r].rows
           /\ sched'[r].row = sched[r].row /\ sched'[r].num = sched[r].num
BY DEF TypeInv, LoopsOK, Goto, Loop

LEMMA NextRowAt ==
    ASSUME TypeInv, NEW r \in Replicas, NEW rows, NextRow(r, rows)
    PROVE  /\ sched'[r].pc \in {"next", "cancels"} /\ sched'[r].rows = rows
           /\ sched'[r].row = NoRow
BY DEF TypeInv, LoopsOK, NextRow, IdleLoop

LEMMA TakeRowAt ==
    ASSUME TypeInv, NEW r \in Replicas, NEW x, NEW pc, NEW n, TakeRow(r, x, pc, n)
    PROVE  /\ sched'[r].pc = pc /\ sched'[r].rows = sched[r].rows \ {x}
           /\ sched'[r].row = x /\ sched'[r].num = n
BY DEF TypeInv, LoopsOK, TakeRow

(* The steps of the system that leave all jobs as they are: a tick, a row   *)
(* passed over, the end of a poll, the CLI's lock.                          *)
LEMMA AllFrame ==
    ASSUME Ready, HandInv', \A j \in Jobs : Frame(j) /\ SameRows(j)
    PROVE  QueueInv'
BY FrameKeeps DEF Ready, QueueInv

LEMMA NoRowInHand == ASSUME NEW j \in Jobs PROVE NoRow.id # j
BY DEF NoRow, Jobs

LEMMA SameTables ==
    ASSUME UNCHANGED <<job, step, cluster>>, NEW j \in Jobs PROVE SameRow(j)
BY DEF SameRow, Same, cluster

LEMMA IdleFrame ==
    ASSUME Ready, NEW r \in Replicas, sched[r].pc \in NoRowPc,
           sched'[r].pc \in NoRowPc, sched'[r].row = NoRow,
           UNCHANGED <<job, step, cluster, calls, requests>>
    PROVE  HandInv' /\ \A j \in Jobs : Frame(j)
<1>1. \A q \in Replicas : q = r
  BY DEF Ready, Orderly, LonePoller
<1>2. HandInv'
  BY <1>1 DEF HandInv, NoRowPc
<1> SUFFICES ASSUME NEW j \in Jobs PROVE Frame(j)
  BY <1>2
<1>3. sched[r].row = NoRow
  BY DEF Ready, QueueInv, HandInv
<1>4. SameHand(j)
  BY <1>1, <1>3, NoRowInHand DEF SameHand, InHand
<1> QED
  BY <1>4, SameTables DEF Frame, SameRequests, SameCalls

LEMMA TickQueue == ASSUME Ready, NEW r \in Replicas, Tick(r) PROVE QueueInv'
<1> USE DEF Ready
<1>1. /\ sched[r].pc = "idle" /\ NextRow(r, PollResult) /\ UNCHANGED <<tables, cluster, calls>>
      /\ requests = {} /\ UNCHANGED requests /\ \A c \in calls : c.pc = "execute"
  BY DEF Orderly, LonePoller, Tick, PollJobs, At, apiVars
<1>2. /\ sched'[r].pc \in {"next", "cancels"} /\ sched'[r].rows = PollResult
      /\ sched'[r].row = NoRow
  BY <1>1, NextRowAt
<1>3. HandInv' /\ \A j \in Jobs : Frame(j)
  BY <1>1, <1>2, IdleFrame DEF NoRowPc, tables
<1> SUFFICES ASSUME NEW j \in Jobs PROVE JobInv(j)'
  BY <1>3 DEF QueueInv
<1>4. JobInv(j) /\ Frame(j)
  BY <1>3 DEF QueueInv
<1>5. TurnInv(j)'
  <2>1. ASSUME NEW x \in PollResult, x.id = j
        PROVE  RowTurn(x)' /\ Untouched(j)'
    <3>1. job[j] \in {"pending", "approved", "queue"} /\ x.status = job[j]
      BY <2>1, PolledRow DEF Pollable
    <3>2. \A c \in calls : c.id # j
      BY <1>1, <1>4, <3>1 DEF JobInv, TurnInv, CallsTurn, CallTurn
    <3>3. \A n \in StepNumbers : ~ Working(j, n)
      BY <1>4, <3>1 DEF JobInv, TurnInv, PodsTurn
    <3> QED
      BY <1>1, <2>1, <3>1, <3>2, <3>3 DEF RowTurn, Untouched, Working, tables, cluster
  <2>2. \A q \in Replicas : q = r
    BY DEF Orderly, LonePoller
  <2>3. ~ InHand(r, j)'
    BY <1>2, NoRowInHand DEF InHand
  <2>4. \A q \in Replicas : LoopTurn(q, j)'
    BY <1>2, <2>1, <2>2, <2>3 DEF LoopTurn
  <2>5. CallsTurn(j)' /\ PodsTurn(j)' /\ RequestsTurn(j)' /\ job'[j] # "cancelled"
    BY <1>1, <1>4 DEF JobInv, TurnInv, CallsTurn, CallTurn, PodsTurn, RequestsTurn, Working,
       tables, cluster
  <2> QED
    BY <2>4, <2>5 DEF TurnInv
<1> QED
  BY <1>4, <1>5, FrameSteps, FrameLaunches DEF JobInv
--------------------------------------------------------------------------------
(* A statement of the loop about the job it has in hand.                    *)
HandStep(r) ==
    /\ sched[r].pc \notin NoRowPc
    /\ UNCHANGED <<cluster, requests>>
    /\ sched'[r].rows = sched[r].rows
    /\ \/ sched'[r].row = sched[r].row /\ sched'[r].pc \notin NoRowPc \cup {"kill"}
       \/ sched'[r].row = NoRow /\ sched'[r].pc \in NoRowPc
    /\ \A j \in Jobs \ {CurrentJob(r)} : job'[j] = job[j] /\ Same(j)
    /\ \A e \in calls \cup calls' : e.id = CurrentJob(r) \/ (e \in calls /\ e \in calls')

LEMMA HandFacts ==
    ASSUME Ready, NEW r \in Replicas, sched[r].pc \notin NoRowPc
    PROVE  /\ CurrentJob(r) \in Jobs /\ InHand(r, CurrentJob(r))
           /\ HandTurn(r, CurrentJob(r)) /\ Untouched(CurrentJob(r))
           /\ JobInv(CurrentJob(r)) /\ \A x \in sched[r].rows : x.id # CurrentJob(r)
<1>1. CurrentJob(r) \in Jobs /\ InHand(r, CurrentJob(r))
  BY DEF Ready, QueueInv, HandInv, InHand, CurrentJob
<1>2. JobInv(CurrentJob(r)) /\ LoopTurn(r, CurrentJob(r))
  BY <1>1 DEF Ready, QueueInv, JobInv, TurnInv
<1> QED
  BY <1>1, <1>2 DEF LoopTurn

LEMMA HandFrame ==
    ASSUME Ready, NEW r \in Replicas, HandStep(r)
    PROVE  HandInv' /\ \A j \in Jobs \ {CurrentJob(r)} : JobInv(j)'
<1>1. \A q \in Replicas : q = r
  BY DEF Ready, Orderly, LonePoller
<1>2. CurrentJob(r) \in Jobs
  BY HandFacts DEF HandStep
<1>3. HandInv'
  BY <1>1, <1>2 DEF HandInv, HandStep, NoRowPc, CurrentJob
<1> SUFFICES ASSUME NEW j \in Jobs \ {CurrentJob(r)} PROVE JobInv(j)'
  BY <1>3
<1>4. SameRow(j) /\ SameRequests(j) /\ SameCalls(j)
  BY DEF HandStep, SameRow, SameRequests, SameCalls, cluster
<1>5. SameRows(j)
  BY <1>1 DEF SameRows, HandStep
<1>6. SameHand(j)
  <2>1. ~ InHand(r, j) /\ ~ InHand(r, j)'
    BY NoRowInHand DEF InHand, HandStep, CurrentJob
  <2> QED
    BY <1>1, <2>1 DEF SameHand
<1> QED
  BY <1>4, <1>5, <1>6, FrameKeeps DEF Frame, Ready, QueueInv

LEMMA StillMissing ==
    ASSUME Ready, [Next]_vars, NEW j \in Jobs, Missing(j)' PROVE Missing(j)
BY StepsStay DEF Ready, Orderly, GateInv, Missing, Entries

LEMMA LaunchesKept ==
    ASSUME Ready, [Next]_vars, NEW j \in Jobs, LaunchInv(j),
           \A n \in StepNumbers : /\ launches'[j][n] = launches[j][n]
                                  /\ Ahead(j, n)' => Ahead(j, n)
    PROVE  LaunchInv(j)'
BY StillMissing DEF LaunchInv

(* What such a statement has to establish for that job.                     *)
HandOk(r, i) ==
    /\ job'[i] # "cancelled"
    /\ OpenSteps(i)' /\ ParkedSteps(i)'
    /\ \A n \in StepNumbers : step'[i][n] = "pending" => Ahead(i, n)
    /\ sched'[r].row = sched[r].row =>
         /\ HandTurn(r, i)'
         /\ sched'[r].pc # "claimStep"
         /\ sched'[r].pc \in HoldingPc =>
              /\ SettledBut(i, sched[r].num)' /\ Behind(i, sched[r].num)'
              /\ Ahead(i, sched'[r].num)

LEMMA HandKeeps ==
    ASSUME Ready, [Next]_vars, NEW r \in Replicas, HandStep(r), UNCHANGED calls,
           NEW i \in Jobs, i = CurrentJob(r), HandOk(r, i)
    PROVE  QueueInv'
<1>1. \A q \in Replicas : q = r
  BY DEF Ready, Orderly, LonePoller
<1>2. HandInv' /\ \A j \in Jobs \ {i} : JobInv(j)'
  BY HandFrame
<1>3. /\ InHand(r, i) /\ Untouched(i) /\ JobInv(i)
      /\ \A x \in sched[r].rows : x.id # i
  BY HandFacts DEF HandStep
<1>4. Untouched(i)'
  BY <1>3 DEF Untouched, HandStep, Working, cluster
<1>5. InHand(r, i)' => sched'[r].row = sched[r].row
  BY <1>3, NoRowInHand DEF InHand, HandStep
<1>6. TurnInv(i)'
  <2>1. LoopTurn(r, i)'
    BY <1>3, <1>4, <1>5 DEF LoopTurn, HandOk, HandStep
  <2>2. CallsTurn(i)' /\ PodsTurn(i)' /\ RequestsTurn(i)'
    BY <1>4 DEF Untouched, CallsTurn, PodsTurn, RequestsTurn
  <2> QED
    BY <1>1, <1>3, <2>1, <2>2 DEF TurnInv, HandOk
<1>7. ASSUME NEW n \in StepNumbers, NEW q \in Replicas, Holds(q, i, n)'
      PROVE  /\ sched'[r].row = sched[r].row /\ sched'[r].pc \in HoldingPc
             /\ sched'[r].num = n
  BY <1>1, <1>5, <1>7 DEF Holds, InHand, CurrentJob
<1>8. StepInv(i)'
  <2>1. DecidedSteps(i)'
    BY <1>4 DEF DecidedSteps, Untouched
  <2>2. ASSUME NEW n \in StepNumbers, Current(i, n)' PROVE SettledBut(i, n)' /\ Behind(i, n)'
    <3>1. PICK q \in Replicas : Holds(q, i, n)'
      BY <1>4, <2>2 DEF Current, Untouched, Dispatches
    <3>2. sched'[r].row = sched[r].row /\ sched'[r].pc \in HoldingPc /\ sched'[r].num = n
      BY <1>7, <3>1
    <3>3. SettledBut(i, sched[r].num)' /\ Behind(i, sched[r].num)'
      BY <1>3, <3>2 DEF HandOk
    <3> QED
      BY <3>2, <3>3 DEF SettledBut, Behind
  <2>3. CurrentSteps(i)'
    BY <1>1, <1>3, <1>4, <1>5, <2>2 DEF CurrentSteps, HandOk, Untouched, Working
  <2> QED
    BY <1>3, <2>1, <2>3 DEF StepInv, HandOk
<1>9. LaunchInv(i)'
  <2>1. ASSUME NEW n \in StepNumbers, Ahead(i, n)' PROVE Ahead(i, n)
    BY <1>3, <1>4, <1>7, <2>1 DEF Ahead, Untouched, Dispatches, HandOk
  <2> QED
    BY <1>3, <2>1, LaunchesKept DEF HandStep, cluster, JobInv
<1> QED
  BY <1>2, <1>3, <1>6, <1>8, <1>9 DEF QueueInv, JobInv
--------------------------------------------------------------------------------
(* The statements of the loop, one by one.                                  *)
LEMMA HandView ==
    ASSUME Ready, NEW r \in Replicas, sched[r].pc \notin NoRowPc,
           NEW i \in Jobs, i = CurrentJob(r)
    PROVE  /\ HandTurn(r, i) /\ InHand(r, i) /\ Untouched(i) /\ job[i] # "cancelled"
           /\ job[i] \in {"pending", "queue"} =>
                \A m \in StepNumbers : step[i][m] \in Settled \/ HandExcuses(r, i, m)
           /\ job[i] \in {"waitingApproval", "approved"} =>
                \A m \in StepNumbers : step[i][m] \in Settled \cup {"waitingApproval"}
           /\ sched[r].pc = "claimStep" => Behind(i, sched[r].num)
           /\ sched[r].pc \in HoldingPc =>
                /\ sched[r].num \in StepNumbers /\ Ahead(i, sched[r].num)
                /\ SettledBut(i, sched[r].num) /\ Behind(i, sched[r].num)
<1>1. \A q \in Replicas : q = r
  BY DEF Ready, Orderly, LonePoller
<1>2. HandTurn(r, i) /\ InHand(r, i) /\ Untouched(i) /\ JobInv(i)
  BY HandFacts
<1>3. job[i] \in {"pending", "queue"} =>
        \A m \in StepNumbers : step[i][m] \in Settled \/ HandExcuses(r, i, m)
  BY <1>1, <1>2 DEF JobInv, StepInv, OpenSteps, Excused, Untouched
<1>4. job[i] \in {"waitingApproval", "approved"} =>
        \A m \in StepNumbers : step[i][m] \in Settled \cup {"waitingApproval"}
  BY <1>2 DEF JobInv, StepInv, ParkedSteps, Rejecting, Untouched
<1>5. sched[r].pc \in HoldingPc =>
        /\ sched[r].num \in StepNumbers /\ Holds(r, i, sched[r].num)
  BY DEF Ready, TypeInv, LoopsOK, ClaimingPc, Holds
<1>6. sched[r].pc \in HoldingPc =>
        /\ sched[r].num \in StepNumbers /\ Ahead(i, sched[r].num)
        /\ SettledBut(i, sched[r].num) /\ Behind(i, sched[r].num)
  BY <1>2, <1>5 DEF JobInv, StepInv, CurrentSteps, Current, Ahead
<1>7. job[i] # "cancelled" /\ (sched[r].pc = "claimStep" => Behind(i, sched[r].num))
  BY <1>2 DEF JobInv, TurnInv, StepInv, CurrentSteps
<1> QED
  BY <1>2, <1>3, <1>4, <1>6, <1>7

LEMMA HandGoes ==
    ASSUME Ready, NEW r \in Replicas, sched[r].pc \notin NoRowPc,
           NEW pc \in SchedPc \ (NoRowPc \cup {"kill"}), Goto(r, pc) \/ EndOfRow(r),
           UNCHANGED <<cluster, requests, calls>>,
           \A j \in Jobs \ {CurrentJob(r)} : job'[j] = job[j] /\ Same(j)
    PROVE  /\ HandStep(r)
           /\ Goto(r, pc) => /\ sched'[r].row = sched[r].row /\ sched'[r].pc = pc
                             /\ sched'[r].num = sched[r].num
           /\ EndOfRow(r) => sched'[r].row # sched[r].row
<1>1. Goto(r, pc) => /\ sched'[r].row = sched[r].row /\ sched'[r].pc = pc
                     /\ sched'[r].num = sched[r].num /\ sched'[r].rows = sched[r].rows
  BY GotoAt DEF Ready
<1>2. EndOfRow(r) => /\ sched'[r].pc \in {"next", "cancels"} /\ sched'[r].row = NoRow
                     /\ sched'[r].rows = sched[r].rows
  BY NextRowAt DEF Ready, EndOfRow
<1>3. CurrentJob(r) # NoRow.id
  BY HandFacts, NoRowInHand
<1> QED
  BY <1>1, <1>2, <1>3 DEF HandStep, NoRowPc, CurrentJob

LEMMA ClaimJobQueue ==
    ASSUME Ready, [Next]_vars, NEW r \in Replicas, ClaimJob(r), UNCHANGED apiVars
    PROVE  QueueInv'
<1> USE DEF Ready, apiVars
<1>1. sched[r].pc = "claimJob" /\ sched[r].pc \notin NoRowPc
  BY DEF ClaimJob, At, NoRowPc
<1>2. PICK i \in Jobs : i = CurrentJob(r)
  BY <1>1, HandFacts
<1>3. job[i] = sched[r].row.status /\ job[i] \in {"pending", "approved"}
  BY <1>1, <1>2, HandView DEF HandTurn, RowTurn, CurrentJob
<1> DEFINE pc == IF sched[r].row.status = "approved" THEN "passGate" ELSE "unlockWorkspace"
<1>4. SetJob(i, "queue") /\ Goto(r, pc) /\ UNCHANGED <<step, cluster, calls>>
  BY <1>2, <1>3 DEF ClaimJob, CurrentJob
<1>5. job'[i] = "queue" /\ \A j \in Jobs \ {i} : job'[j] = job[j]
  BY <1>4, SetJobAt DEF TypeInv
<1>6. HandStep(r) /\ sched'[r].row = sched[r].row /\ sched'[r].pc = pc
  <2>1. pc \in SchedPc \ (NoRowPc \cup {"kill"})
    BY DEF SchedPc, NoRowPc
  <2> HIDE DEF pc
  <2> QED
    BY <1>1, <1>2, <1>4, <1>5, <2>1, HandGoes DEF Same
<1>7. HandTurn(r, i)'
  BY <1>1, <1>3, <1>5, <1>6
  DEF HandTurn, RowTurn, QueuePc, RunPc, ClaimPc
<1>8. OpenSteps(i)'
  <2>1. \A m \in StepNumbers : \/ step[i][m] \in Settled
                               \/ step[i][m] = "waitingApproval" /\ sched'[r].pc = "passGate"
    BY <1>1, <1>2, <1>3, <1>6, HandView DEF HandExcuses
  <2>2. InHand(r, i)'
    BY <1>2, <1>6 DEF InHand, CurrentJob
  <2> QED
    BY <1>4, <2>1, <2>2 DEF OpenSteps, Excused, HandExcuses
<1>9. HandOk(r, i)
  BY <1>4, <1>5, <1>6, <1>7, <1>8 DEF HandOk, ParkedSteps, Ahead, HoldingPc
<1> QED
  BY <1>2, <1>4, <1>6, <1>9, HandKeeps

LEMMA PassGateQueue ==
    ASSUME Ready, [Next]_vars, NEW r \in Replicas, PassGate(r), UNCHANGED apiVars
    PROVE  QueueInv'
<1> USE DEF Ready, apiVars
<1>1. sched[r].pc = "passGate" /\ sched[r].pc \notin NoRowPc
  BY DEF PassGate, At, NoRowPc
<1>2. PICK i \in Jobs : i = CurrentJob(r)
  BY <1>1, HandFacts
<1>3. /\ MoveSteps(i, {"waitingApproval"}, "completed") /\ Goto(r, "unlockWorkspace")
      /\ UNCHANGED <<job, cluster, calls>>
  BY <1>2 DEF PassGate
<1>4. Moves(i, {"waitingApproval"}, "completed") /\ \A j \in Jobs \ {i} : Same(j)
  BY <1>3, MoveStepsAt DEF TypeInv
<1>5. HandStep(r) /\ sched'[r].row = sched[r].row /\ sched'[r].pc = "unlockWorkspace"
  BY <1>1, <1>2, <1>3, <1>4, HandGoes DEF SchedPc, NoRowPc
<1>6. job[i] = "queue" /\ \A m \in StepNumbers : step[i][m] \in Settled \cup {"waitingApproval"}
  BY <1>1, <1>2, HandView DEF HandTurn, HandExcuses
<1>7. HandTurn(r, i)'
  BY <1>3, <1>5, <1>6 DEF HandTurn, QueuePc, RunPc, ClaimPc
<1>8. OpenSteps(i)' /\ ParkedSteps(i)'
  BY <1>3, <1>4, <1>6 DEF OpenSteps, ParkedSteps, Moves, Settled
<1>9. HandOk(r, i)
  BY <1>3, <1>4, <1>5, <1>6, <1>7, <1>8 DEF HandOk, Ahead, Moves, HoldingPc
<1> QED
  BY <1>2, <1>3, <1>5, <1>9, HandKeeps

(* Statements that write neither the job nor its steps: the row goes on to  *)
(* the next statement, or its turn is over.                                 *)
LEMMA ReadQueue ==
    ASSUME Ready, [Next]_vars, NEW r \in Replicas, sched[r].pc \notin NoRowPc,
           NEW i \in Jobs, i = CurrentJob(r),
           NEW pc \in SchedPc \ (NoRowPc \cup {"kill"}), Goto(r, pc) \/ EndOfRow(r),
           UNCHANGED <<job, step, cluster, calls, requests>>,
           Goto(r, pc) => /\ HandTurn(r, i)' /\ pc # "claimStep"
                          /\ pc \in HoldingPc => sched[r].pc \in HoldingPc,
           \A m \in StepNumbers : HandExcuses(r, i, m) =>
              \/ HandExcuses(r, i, m)' /\ Goto(r, pc)
              \/ job[i] \notin {"pending", "queue"}
    PROVE  QueueInv'
<1>1. \A j \in Jobs : Same(j)
  BY DEF Same
<1>2. /\ HandStep(r)
      /\ Goto(r, pc) => /\ sched'[r].row = sched[r].row /\ sched'[r].pc = pc
                        /\ sched'[r].num = sched[r].num
      /\ EndOfRow(r) => sched'[r].row # sched[r].row
  BY <1>1, HandGoes
<1>3. OpenSteps(i)'
  <2>1. Goto(r, pc) => InHand(r, i)'
    BY <1>2 DEF InHand, CurrentJob
  <2>2. job[i] \in {"pending", "queue"} =>
          \A m \in StepNumbers : step[i][m] \in Settled \/ HandExcuses(r, i, m)
    BY HandView
  <2> QED
    BY <2>1, <2>2 DEF OpenSteps, Excused
<1>4. ParkedSteps(i)'
  <2>1. ParkedSteps(i) /\ Untouched(i)
    BY HandFacts DEF JobInv, StepInv
  <2> QED
    BY <2>1 DEF ParkedSteps, Rejecting, Untouched
<1>5. HandOk(r, i)
  BY <1>2, <1>3, <1>4, HandView DEF HandOk, Ahead, SettledBut, Behind
<1> QED
  BY <1>2, <1>5, HandKeeps

LEMMA ReadsQueue ==
    ASSUME Ready, [Next]_vars, NEW r \in Replicas, UNCHANGED apiVars,
           \/ UnlockWorkspace(r) \/ Advance(r) \/ CountOpen(r) \/ Tally(r)
           \/ ReleaseFinished(r) \/ LockWorkspace(r) \/ (Spawn(r) /\ UNCHANGED calls)
           \/ NoExecutor(r) /\ At(r, "failRelease")
    PROVE  QueueInv'
<1> USE DEF Ready, apiVars, tables, At
<1>1. sched[r].pc \notin NoRowPc
  BY DEF UnlockWorkspace, Advance, CountOpen, Tally, ReleaseFinished, LockWorkspace, Spawn,
     NoExecutor, NoRowPc
<1>2. PICK i \in Jobs : i = CurrentJob(r)
  BY <1>1, HandFacts
<1>3. HandTurn(r, i) /\ InHand(r, i)
  BY <1>1, <1>2, HandView
<1>4. UNCHANGED <<job, step, cluster, calls, requests>>
  BY DEF UnlockWorkspace, Advance, CountOpen, Tally, ReleaseFinished, LockWorkspace, Spawn,
     NoExecutor
<1>5. ASSUME NEW pc \in {"countOpen", "tally", "complete", "fail", "handBack", "runJob",
                         "failStep"},
             Goto(r, pc),
             \/ sched[r].pc \in QueuePc /\ pc \in QueuePc
             \/ sched[r].pc \in RunPc /\ pc \in RunPc
      PROVE  HandTurn(r, i)'
  <2>1. sched'[r].row = sched[r].row /\ sched'[r].pc = pc
    BY <1>5, GotoAt
  <2> QED
    BY <1>3, <1>4, <1>5, <2>1 DEF HandTurn, QueuePc, RunPc, ClaimPc
<1>6. CASE EndOfRow(r) /\ sched[r].pc \notin {"lockWorkspace", "handBack", "runJob", "parkJob",
                                              "passGate"}
  <2>1. \A m \in StepNumbers : ~ HandExcuses(r, i, m)
    BY <1>6 DEF HandExcuses
  <2>2. ~ Goto(r, "tally")
    BY <1>6, GotoAt, NextRowAt DEF EndOfRow
  <2> QED
    BY <1>1, <1>2, <1>4, <1>6, <2>1, <2>2, ReadQueue DEF SchedPc, NoRowPc
<1>7. ASSUME NEW pc \in {"countOpen", "tally", "complete", "fail", "failStep"}, Goto(r, pc),
             sched[r].pc \in {"advance", "countOpen", "tally", "spawn"},
             sched[r].pc = "spawn" <=> pc = "failStep"
      PROVE  QueueInv'
  <2>1. \A m \in StepNumbers : ~ HandExcuses(r, i, m)
    BY <1>7 DEF HandExcuses
  <2>2. HandTurn(r, i)'
    BY <1>5, <1>7 DEF QueuePc, RunPc
  <2>3. pc \in SchedPc \ (NoRowPc \cup {"kill"}) /\ pc \notin HoldingPc /\ pc # "claimStep"
    BY <1>7 DEF SchedPc, NoRowPc, HoldingPc
  <2> QED
    BY <1>1, <1>2, <1>4, <1>7, <2>1, <2>2, <2>3, ReadQueue
<1>8. CASE LockWorkspace(r)
  <2>1. PICK pc \in {"handBack", "runJob"} : Goto(r, pc)
    BY <1>8 DEF LockWorkspace
  <2>2. sched[r].pc = "lockWorkspace"
    BY <1>8 DEF LockWorkspace
  <2>3. \A m \in StepNumbers : HandExcuses(r, i, m) => HandExcuses(r, i, m)'
    BY <1>4, <2>1, <2>2, GotoAt DEF HandExcuses
  <2>4. HandTurn(r, i)'
    BY <1>5, <2>1, <2>2 DEF QueuePc
  <2>5. pc \in SchedPc \ (NoRowPc \cup {"kill"}) /\ pc # "claimStep" /\ sched[r].pc \in HoldingPc
    BY <2>1, <2>2 DEF SchedPc, NoRowPc, HoldingPc
  <2> QED
    BY <1>1, <1>2, <1>4, <2>1, <2>3, <2>4, <2>5, ReadQueue
<1>9. CASE Advance(r) \/ CountOpen(r) \/ Tally(r)
  BY <1>6, <1>7, <1>9 DEF Advance, CountOpen, Tally
<1>10. CASE Spawn(r) /\ UNCHANGED calls
  <2>1. sched[r].pc = "spawn" /\ (Goto(r, "failStep") \/ EndOfRow(r))
    BY <1>10 DEF Spawn
  <2> QED
    BY <1>6, <1>7, <2>1
<1>11. CASE UnlockWorkspace(r) \/ ReleaseFinished(r) \/ (NoExecutor(r) /\ At(r, "failRelease"))
  BY <1>6, <1>11 DEF UnlockWorkspace, ReleaseFinished, NoExecutor
<1> QED
  BY <1>8, <1>9, <1>10, <1>11
--------------------------------------------------------------------------------
(* Statements that write one step of the job in hand.                       *)
LEMMA StepOrder ==
    \A n, m, k \in StepNumbers :
        /\ m < n => m # n
        /\ m < n \/ n < m \/ m = n
        /\ m < n /\ n < k => m < k
BY StepNumbersAssumption

LEMMA WriteQueue ==
    ASSUME Ready, [Next]_vars, NEW r \in Replicas, sched[r].pc \notin NoRowPc,
           NEW i \in Jobs, i = CurrentJob(r),
           NEW s \in {"notExecuted", "waitingApproval", "running", "pending", "failed"},
           SetStep(i, sched[r].num, s), UNCHANGED <<job, cluster, calls, requests>>,
           NEW pc \in SchedPc \ (NoRowPc \cup {"kill"}), Goto(r, pc) \/ EndOfRow(r),
           Goto(r, pc) => /\ HandTurn(r, i)' /\ pc # "claimStep"
                          /\ pc \in HoldingPc =>
                               /\ pc = "lockWorkspace" /\ sched[r].pc = "claimStep"
                               /\ sched[r].num \in StepNumbers /\ job[i] = "queue"
                               /\ step[i][sched[r].num] = "pending" /\ s = "running",
           s = "pending" => sched[r].pc = "handBack",
           sched[r].pc \notin {"lockWorkspace", "runJob", "parkJob", "passGate"},
           \/ job[i] = "running"
           \/ job[i] = "queue" /\ s \in {"notExecuted", "pending"}
           \/ job[i] = "queue" /\ s = "waitingApproval" /\ Goto(r, pc) /\ pc = "parkJob"
           \/ job[i] = "queue" /\ s = "running" /\ Goto(r, pc) /\ pc = "lockWorkspace"
    PROVE  QueueInv'
<1>1. Sets(i, sched[r].num, s) /\ \A j \in Jobs \ {i} : Same(j)
  BY SetStepAt DEF Ready, TypeInv
<1>2. /\ HandStep(r)
      /\ Goto(r, pc) => /\ sched'[r].row = sched[r].row /\ sched'[r].pc = pc
                        /\ sched'[r].num = sched[r].num
      /\ EndOfRow(r) => sched'[r].row # sched[r].row
  BY <1>1, HandGoes
<1>3. /\ job[i] \in {"pending", "queue"} =>
           \A m \in StepNumbers : step[i][m] \in Settled \/ HandExcuses(r, i, m)
      /\ sched[r].pc = "claimStep" => Behind(i, sched[r].num)
      /\ job[i] # "cancelled"
      /\ sched[r].pc \in HoldingPc => Ahead(i, sched[r].num)
  BY HandView
<1>4. \A m \in StepNumbers : HandExcuses(r, i, m) => m = sched[r].num
  BY DEF HandExcuses
<1>5. OpenSteps(i)'
  <2> SUFFICES ASSUME job[i] = "queue", NEW m \in StepNumbers
               PROVE  step'[i][m] \in Settled \/ Excused(i, m)'
    BY DEF OpenSteps
  <2>1. CASE m = sched[r].num
    <3>1. step'[i][m] = s
      BY <1>1, <2>1 DEF Sets
    <3>2. ASSUME Goto(r, pc), pc = "parkJob" \/ pc = "lockWorkspace"
          PROVE InHand(r, i)' /\ sched'[r].num = m /\ sched'[r].pc = pc
      BY <1>2, <2>1, <3>2 DEF InHand, CurrentJob
    <3> QED
      BY <3>1, <3>2 DEF Settled, Excused, HandExcuses
  <2>2. CASE m # sched[r].num
    BY <1>1, <1>3, <1>4, <2>2 DEF Sets
  <2> QED
    BY <2>1, <2>2
<1>6. ASSUME Goto(r, pc), pc \in HoldingPc
      PROVE  /\ SettledBut(i, sched[r].num)' /\ Behind(i, sched[r].num)'
             /\ Ahead(i, sched[r].num)
  <2>0. /\ sched[r].num \in StepNumbers /\ sched[r].pc = "claimStep" /\ job[i] = "queue"
        /\ step[i][sched[r].num] = "pending"
    BY <1>6
  <2>1. \A m \in StepNumbers : m # sched[r].num => step'[i][m] = step[i][m]
    BY <1>1 DEF Sets
  <2>2. \A m \in StepNumbers : step[i][m] \in Settled \/ m = sched[r].num
    BY <1>3, <1>4, <2>0
  <2>3. sched'[r].num = sched[r].num
    BY <1>2, <1>6
  <2>4. \A m \in StepNumbers : m < sched[r].num => m # sched[r].num
    BY <2>0, StepOrder
  <2> QED
    <3>1. SettledBut(i, sched[r].num)'
      BY <2>1, <2>2, <2>3 DEF SettledBut
    <3>2. Behind(i, sched[r].num)'
      BY <1>3, <2>0, <2>1, <2>3, <2>4 DEF Behind
    <3>3. Ahead(i, sched[r].num)
      BY <2>0 DEF Ahead
    <3> QED
      BY <3>1, <3>2, <3>3
<1>7. \A n \in StepNumbers : step'[i][n] = "pending" => Ahead(i, n)
  BY <1>1, <1>3 DEF Sets, Ahead, HoldingPc
<1>8. HandOk(r, i)
  BY <1>2, <1>3, <1>5, <1>6, <1>7 DEF HandOk, ParkedSteps
<1> QED
  BY <1>2, <1>8, HandKeeps

LEMMA WritesQueue ==
    ASSUME Ready, [Next]_vars, NEW r \in Replicas, UNCHANGED apiVars,
           \/ SkipStep(r) \/ ParkStep(r) \/ ClaimStep(r) \/ HandBack(r)
           \/ NoExecutor(r) /\ At(r, "failStep")
    PROVE  QueueInv'
<1> USE DEF Ready, apiVars, At
<1>1. sched[r].pc \in {"skipStep", "parkStep", "claimStep", "handBack", "failStep"}
  BY DEF SkipStep, ParkStep, ClaimStep, HandBack
<1>2. sched[r].pc \notin NoRowPc
  BY <1>1 DEF NoRowPc
<1>3. PICK i \in Jobs : i = CurrentJob(r)
  BY <1>2, HandFacts
<1>4. HandTurn(r, i)
  BY <1>2, <1>3, HandView
<1>5. UNCHANGED <<job, cluster, calls, requests>>
  BY DEF SkipStep, ParkStep, ClaimStep, HandBack, NoExecutor
<1>6. ASSUME NEW pc \in {"advance", "parkJob", "lockWorkspace", "failJob"}, Goto(r, pc),
             pc = "failJob" <=> sched[r].pc = "failStep"
      PROVE  HandTurn(r, i)'
  <2>1. sched'[r].row = sched[r].row /\ sched'[r].pc = pc
    BY <1>6, GotoAt
  <2> QED
    BY <1>1, <1>4, <1>5, <1>6, <2>1 DEF HandTurn, QueuePc, RunPc, ClaimPc
<1>7. {"advance", "parkJob", "lockWorkspace", "failJob"} \subseteq SchedPc \ (NoRowPc \cup {"kill"})
  BY DEF SchedPc, NoRowPc, HoldingPc
<1>8. {"advance", "parkJob", "failJob"} \cap HoldingPc = {}
  BY DEF HoldingPc
<1>9. CASE SkipStep(r)
  <2>1. sched[r].pc = "skipStep" /\ SetStep(i, sched[r].num, "notExecuted") /\ Goto(r, "advance")
    BY <1>3, <1>9 DEF SkipStep
  <2>2. job[i] = "queue"
    BY <1>4, <2>1 DEF HandTurn, QueuePc
  <2> QED
    BY <1>2, <1>3, <1>5, <1>6, <1>7, <1>8, <2>1, <2>2, WriteQueue
<1>10. CASE ParkStep(r)
  <2>1. /\ sched[r].pc = "parkStep" /\ SetStep(i, sched[r].num, "waitingApproval")
        /\ Goto(r, "parkJob")
    BY <1>3, <1>10 DEF ParkStep
  <2>2. job[i] = "queue"
    BY <1>4, <2>1 DEF HandTurn, QueuePc
  <2> QED
    BY <1>2, <1>3, <1>5, <1>6, <1>7, <1>8, <2>1, <2>2, WriteQueue
<1>11. CASE ClaimStep(r)
  <2>1. sched[r].pc = "claimStep"
    BY <1>11 DEF ClaimStep
  <2>2. job[i] = "queue"
    BY <1>4, <2>1 DEF HandTurn, QueuePc
  <2>3. CASE /\ step[i][sched[r].num] = "pending"
             /\ SetStep(i, sched[r].num, "running") /\ Goto(r, "lockWorkspace")
    <3>1. sched[r].num \in StepNumbers
      BY <2>1 DEF TypeInv, LoopsOK, ClaimingPc
    <3>2. ~ EndOfRow(r)
      BY <2>3, GotoAt, NextRowAt DEF EndOfRow
    <3> QED
      BY <1>2, <1>3, <1>5, <1>6, <1>7, <2>1, <2>2, <2>3, <3>1, WriteQueue
  <2>4. CASE EndOfRow(r) /\ UNCHANGED step
    <3>1. ~ Goto(r, "advance")
      BY <2>4, GotoAt, NextRowAt DEF EndOfRow
    <3>2. \A m \in StepNumbers : ~ HandExcuses(r, i, m)
      BY <2>1 DEF HandExcuses
    <3> QED
      BY <1>2, <1>3, <1>5, <1>7, <2>4, <3>1, <3>2, ReadQueue
  <2> QED
    BY <1>3, <1>11, <2>3, <2>4 DEF ClaimStep
<1>12. CASE HandBack(r)
  <2>1. sched[r].pc = "handBack" /\ EndOfRow(r)
    BY <1>12 DEF HandBack
  <2>2. job[i] = "queue"
    BY <1>4, <2>1 DEF HandTurn, QueuePc
  <2>3. ~ Goto(r, "advance")
    BY <2>1, GotoAt, NextRowAt DEF EndOfRow
  <2>4. CASE SetStep(i, sched[r].num, "pending")
    BY <1>2, <1>3, <1>5, <1>7, <2>1, <2>2, <2>3, <2>4, WriteQueue
  <2>5. CASE step[i][sched[r].num] # "running" /\ UNCHANGED step
    <3>1. \A m \in StepNumbers : ~ HandExcuses(r, i, m)
      BY <2>1, <2>5 DEF HandExcuses
    <3> QED
      BY <1>2, <1>3, <1>5, <1>7, <2>1, <2>3, <2>5, <3>1, ReadQueue
  <2> QED
    BY <1>3, <1>12, <2>4, <2>5 DEF HandBack
<1>13. CASE NoExecutor(r) /\ At(r, "failStep")
  <2>1. sched[r].pc = "failStep" /\ SetStep(i, sched[r].num, "failed") /\ Goto(r, "failJob")
    BY <1>3, <1>13 DEF NoExecutor
  <2>2. job[i] = "running"
    BY <1>4, <2>1 DEF HandTurn, RunPc
  <2> QED
    BY <1>2, <1>3, <1>5, <1>6, <1>7, <1>8, <2>1, <2>2, WriteQueue
<1> QED
  BY <1>9, <1>10, <1>11, <1>12, <1>13
--------------------------------------------------------------------------------
(* Statements that write the job in hand.                                   *)
LEMMA StatusQueue ==
    ASSUME Ready, [Next]_vars, NEW r \in Replicas, UNCHANGED apiVars,
           \/ FinishJob(r) \/ ParkJob(r) \/ RunJob(r)
           \/ NoExecutor(r) /\ At(r, "failJob")
    PROVE  QueueInv'
<1> USE DEF Ready, apiVars, At
<1>1. sched[r].pc \in {"complete", "fail", "parkJob", "runJob", "failJob"}
  BY DEF FinishJob, ParkJob, RunJob
<1>2. sched[r].pc \notin NoRowPc
  BY <1>1 DEF NoRowPc
<1>3. PICK i \in Jobs : i = CurrentJob(r)
  BY <1>2, HandFacts
<1>4. /\ HandTurn(r, i)
      /\ job[i] \in {"pending", "queue"} =>
           \A m \in StepNumbers : step[i][m] \in Settled \/ HandExcuses(r, i, m)
      /\ sched[r].pc \in HoldingPc =>
           /\ Ahead(i, sched[r].num)
           /\ SettledBut(i, sched[r].num) /\ Behind(i, sched[r].num)
  BY <1>2, <1>3, HandView
<1>5. /\ UNCHANGED <<step, cluster, calls, requests>>
      /\ \/ Goto(r, "release") /\ SetJob(i, "completed") /\ sched[r].pc = "complete"
         \/ Goto(r, "release") /\ SetJob(i, "failed") /\ sched[r].pc = "fail"
         \/ EndOfRow(r) /\ SetJob(i, "waitingApproval") /\ sched[r].pc = "parkJob"
         \/ Goto(r, "spawn") /\ SetJob(i, "running") /\ sched[r].pc = "runJob"
         \/ Goto(r, "failRelease") /\ SetJob(i, "failed") /\ sched[r].pc = "failJob"
  BY <1>3 DEF FinishJob, ParkJob, RunJob, NoExecutor
<1>6. PICK s \in {"completed", "failed", "waitingApproval", "running"} : SetJob(i, s)
  BY <1>5
<1>7. job'[i] = s /\ \A j \in Jobs \ {i} : job'[j] = job[j]
  BY <1>6, SetJobAt DEF TypeInv
<1>8. HandStep(r)
  <2>1. \A j \in Jobs : Same(j)
    BY <1>5 DEF Same
  <2>2. PICK pc \in {"release", "spawn", "failRelease"} : Goto(r, pc) \/ EndOfRow(r)
    BY <1>5
  <2>3. pc \in SchedPc \ (NoRowPc \cup {"kill"})
    BY DEF SchedPc, HoldingPc, NoRowPc
  <2> QED
    BY <1>2, <1>3, <1>5, <1>7, <2>1, <2>2, <2>3, HandGoes
<1>9. \/ /\ sched'[r].row = NoRow /\ sched'[r].pc \notin HoldingPc /\ s = "waitingApproval"
         /\ sched[r].pc = "parkJob"
      \/ /\ sched'[r].row = sched[r].row /\ sched'[r].num = sched[r].num
         /\ \/ sched'[r].pc = "release" /\ s \in {"completed", "failed"}
            \/ sched'[r].pc = "spawn" /\ s = "running" /\ sched[r].pc = "runJob"
            \/ sched'[r].pc = "failRelease" /\ s = "failed"
  <2>1. job'[i] \in {"completed", "failed", "waitingApproval", "running"}
    BY <1>7
  <2>2. \A p \in {"completed", "failed", "waitingApproval", "running"} : SetJob(i, p) => s = p
    BY <1>7, SetJobAt DEF TypeInv
  <2>3. \A p \in {"release", "spawn", "failRelease"} : Goto(r, p) =>
           /\ sched'[r].row = sched[r].row /\ sched'[r].num = sched[r].num /\ sched'[r].pc = p
    BY GotoAt
  <2>4. EndOfRow(r) => sched'[r].row = NoRow /\ sched'[r].pc \in {"next", "cancels"}
    BY NextRowAt DEF EndOfRow
  <2> QED
    BY <1>5, <2>2, <2>3, <2>4 DEF HoldingPc
<1>10. sched'[r].row = sched[r].row => HandTurn(r, i)'
  <2>1. sched'[r].row = NoRow => sched'[r].row # sched[r].row
    BY <1>3, NoRowInHand DEF CurrentJob
  <2> QED
    BY <1>1, <1>4, <1>7, <1>9, <2>1 DEF HandTurn, QueuePc, RunPc, ClaimPc
<1>11. OpenSteps(i)' /\ ParkedSteps(i)'
  <2>1. CASE s = "waitingApproval"
    <3>1. sched[r].pc = "parkJob" /\ job[i] = "queue"
      BY <1>4, <1>9, <2>1 DEF HandTurn, QueuePc
    <3>2. \A m \in StepNumbers : \/ step[i][m] \in Settled
                                 \/ m = sched[r].num /\ step[i][m] = "waitingApproval"
      BY <1>4, <3>1 DEF HandExcuses
    <3> QED
      BY <1>5, <1>7, <2>1, <3>2 DEF OpenSteps, ParkedSteps
  <2>2. CASE s # "waitingApproval"
    BY <1>7, <2>2 DEF OpenSteps, ParkedSteps
  <2> QED
    BY <2>1, <2>2
<1>12. HandOk(r, i)
  <2>1. sched'[r].row = NoRow => sched'[r].row # sched[r].row
    BY <1>3, NoRowInHand DEF CurrentJob
  <2> QED
    BY <1>4, <1>5, <1>7, <1>9, <1>10, <1>11, <2>1
    DEF HandOk, Ahead, HoldingPc, SettledBut, Behind
<1> QED
  BY <1>3, <1>5, <1>8, <1>12, HandKeeps
--------------------------------------------------------------------------------
(* The hand-over to a goroutine: the call takes the row's place.            *)
LEMMA HireQueue ==
    ASSUME Ready, [Next]_vars, NEW r \in Replicas, Spawn(r), calls' # calls, UNCHANGED apiVars
    PROVE  QueueInv'
<1> USE DEF Ready
<1>1. sched[r].pc = "spawn" /\ sched[r].pc \notin NoRowPc /\ sched[r].pc \in HoldingPc
  BY DEF Spawn, At, NoRowPc, HoldingPc
<1>2. PICK i \in Jobs : i = CurrentJob(r)
  BY <1>1, HandFacts
<1>3. /\ HandTurn(r, i) /\ InHand(r, i) /\ Untouched(i)
      /\ sched[r].num \in StepNumbers /\ Ahead(i, sched[r].num)
      /\ SettledBut(i, sched[r].num) /\ Behind(i, sched[r].num)
  BY <1>1, <1>2, HandView
<1>4. JobInv(i) /\ \A x \in sched[r].rows : x.id # i
  BY <1>1, <1>2, HandFacts
<1>5. PICK e : /\ e.id = i /\ e.num = sched[r].num /\ e.pc = "execute"
               /\ calls' = calls \cup {e} /\ EndOfRow(r)
  <2> DEFINE e == [by |-> r, id |-> CurrentJob(r), num |-> sched[r].num, pc |-> "execute",
                   type |-> ResolveType(CurrentJob(r), sched[r].num, sched[r].row.tcl)]
  <2>1. calls' = calls \cup {e} /\ EndOfRow(r)
    BY DEF Spawn
  <2>2. e.id = i /\ e.num = sched[r].num /\ e.pc = "execute"
    BY <1>2
  <2> HIDE DEF e
  <2> QED
    BY <2>1, <2>2
<1>6. /\ sched'[r].pc \in {"next", "cancels"} /\ sched'[r].rows = sched[r].rows
      /\ sched'[r].row = NoRow
  BY <1>5, NextRowAt DEF EndOfRow
<1>7. UNCHANGED <<job, step, cluster, requests>>
  BY DEF Spawn, tables, apiVars
<1>8. \A q \in Replicas : q = r
  BY DEF Orderly, LonePoller
<1>9. HandStep(r)
  BY <1>1, <1>2, <1>5, <1>6, <1>7 DEF HandStep, NoRowPc, Same
<1>10. HandInv' /\ \A j \in Jobs \ {i} : JobInv(j)'
  BY <1>2, <1>9, HandFrame
<1>11. \A c \in calls' : c.id = i => c = e
  BY <1>3, <1>5 DEF Untouched
<1>12. \A n \in StepNumbers : ~ Working(i, n)'
  BY <1>3, <1>7 DEF Untouched, Working, cluster
<1>13. \A q \in requests' : q.id # i
  BY <1>3, <1>7 DEF Untouched
<1>14. \A q \in Replicas : ~ InHand(q, i)' /\ sched'[q].pc \notin HoldingPc
  BY <1>6, <1>8, NoRowInHand DEF InHand, HoldingPc
<1>15. job'[i] = "running"
  BY <1>1, <1>3, <1>7 DEF HandTurn, RunPc
<1>16. TurnInv(i)'
  <2>1. \A q \in Replicas : LoopTurn(q, i)'
    BY <1>4, <1>6, <1>8, <1>14 DEF LoopTurn
  <2>2. CallsTurn(i)'
    BY <1>5, <1>11, <1>12, <1>15 DEF CallsTurn, CallTurn
  <2>3. PodsTurn(i)' /\ RequestsTurn(i)'
    BY <1>12, <1>13 DEF PodsTurn, RequestsTurn
  <2> QED
    BY <1>15, <2>1, <2>2, <2>3 DEF TurnInv
<1>17. \A n \in StepNumbers : Current(i, n)' \/ Dispatches(e, i, n) => n = sched[r].num
  BY <1>5, <1>11, <1>12, <1>14 DEF Current, Dispatches, Holds
<1>18. StepInv(i)'
  <2>1. \A n \in StepNumbers : Current(i, n)' => SettledBut(i, n)' /\ Behind(i, n)'
    BY <1>3, <1>7, <1>17 DEF SettledBut, Behind
  <2>2. CurrentSteps(i)'
    BY <1>12, <1>14, <2>1 DEF CurrentSteps, Working
  <2> QED
    BY <1>13, <1>15, <2>2 DEF StepInv, OpenSteps, ParkedSteps, DecidedSteps
<1>19. LaunchInv(i)'
  <2>1. ASSUME NEW n \in StepNumbers, Ahead(i, n)' PROVE Ahead(i, n)
    <3>1. step[i][n] = "pending" \/ n = sched[r].num
      BY <1>7, <1>11, <1>14, <1>17, <2>1 DEF Ahead, Holds, Dispatches
    <3> QED
      BY <1>3, <3>1 DEF Ahead
  <2> QED
    BY <1>4, <1>7, <2>1, LaunchesKept DEF cluster, JobInv
<1> QED
  BY <1>10, <1>16, <1>18, <1>19 DEF QueueInv, JobInv
--------------------------------------------------------------------------------
(* Rows are taken, passed over, and come to an end.                         *)
LEMMA TakeQueue ==
    ASSUME Ready, [Next]_vars, NEW r \in Replicas, sched[r].pc = "next",
           NEW x \in sched[r].rows, NEW i \in Jobs, x.id = i,
           NEW pc \in SchedPc \ (NoRowPc \cup {"kill"}), NEW n, TakeRow(r, x, pc, n),
           UNCHANGED <<job, step, cluster, calls, requests>>,
           HandTurn(r, i)', pc \notin HoldingPc, pc = "claimStep" => Behind(i, n)
    PROVE  QueueInv'
<1> USE DEF Ready
<1>1. \A q \in Replicas : q = r
  BY DEF Orderly, LonePoller
<1>2. /\ sched'[r].pc = pc /\ sched'[r].rows = sched[r].rows \ {x}
      /\ sched'[r].row = x /\ sched'[r].num = n
  BY TakeRowAt
<1>3. sched[r].row = NoRow
  BY DEF QueueInv, HandInv, NoRowPc
<1>4. HandInv'
  BY <1>1, <1>2 DEF HandInv, CurrentJob
<1>5. \A j \in Jobs : SameRow(j) /\ SameRequests(j) /\ SameCalls(j) /\ SameRows(j)
  BY <1>1, <1>2, SameTables DEF SameRequests, SameCalls, SameRows
<1>6. \A j \in Jobs \ {i} : JobInv(j)'
  <2> SUFFICES ASSUME NEW j \in Jobs \ {i} PROVE JobInv(j)'
    OBVIOUS
  <2>1. SameHand(j)
    BY <1>1, <1>2, <1>3, NoRowInHand DEF SameHand, InHand
  <2> QED
    BY <1>5, <2>1, FrameKeeps DEF Frame, QueueInv
<1>7. JobInv(i) /\ LoopTurn(r, i)
  BY DEF QueueInv, JobInv, TurnInv
<1>8. Untouched(i) /\ ~ InHand(r, i)
  BY <1>7 DEF LoopTurn
<1>9. Untouched(i)'
  BY <1>8 DEF Untouched, Working, cluster
<1>10. \A y \in sched'[r].rows : y.id # i
  BY <1>2 DEF GateInv, RowsInv
<1>11. TurnInv(i)'
  <2>1. LoopTurn(r, i)'
    BY <1>9, <1>10 DEF LoopTurn
  <2>2. CallsTurn(i)' /\ PodsTurn(i)' /\ RequestsTurn(i)'
    BY <1>9 DEF Untouched, CallsTurn, PodsTurn, RequestsTurn
  <2> QED
    BY <1>1, <1>7, <2>1, <2>2 DEF TurnInv, JobInv
<1>12. \A q \in Replicas, m \in StepNumbers : ~ Holds(q, i, m)'
  BY <1>1, <1>2 DEF Holds
<1>13. \A m \in StepNumbers : ~ Current(i, m)' /\ ~ Excused(i, m)
  BY <1>1, <1>8, <1>9, <1>12 DEF Current, Untouched, Dispatches, Excused
<1>14. StepInv(i)'
  <2>1. OpenSteps(i)'
    BY <1>7, <1>13 DEF JobInv, StepInv, OpenSteps
  <2>2. ParkedSteps(i)'
    BY <1>7, <1>8 DEF JobInv, StepInv, ParkedSteps, Rejecting, Untouched
  <2>3. DecidedSteps(i)'
    BY <1>9 DEF DecidedSteps, Untouched
  <2>4. CurrentSteps(i)'
    BY <1>1, <1>2, <1>9, <1>13 DEF CurrentSteps, Untouched, Working, Behind
  <2> QED
    BY <2>1, <2>2, <2>3, <2>4 DEF StepInv
<1>15. LaunchInv(i)'
  <2>1. \A m \in StepNumbers : Ahead(i, m)' => Ahead(i, m)
    BY <1>9, <1>12 DEF Ahead, Untouched, Dispatches
  <2> QED
    BY <1>7, <2>1, LaunchesKept DEF JobInv, cluster
<1> QED
  BY <1>4, <1>6, <1>11, <1>14, <1>15 DEF QueueInv, JobInv

LEMMA RowFacts ==
    ASSUME Ready, NEW r \in Replicas, sched[r].pc # "kill", NEW x \in sched[r].rows
    PROVE  /\ x.id \in Jobs /\ RowTurn(x) /\ Untouched(x.id) /\ JobInv(x.id)
           /\ \A m \in StepNumbers : ~ Excused(x.id, m)
           /\ ~ Rejecting(x.id)
<1>1. x.id \in Jobs
  BY DEF Ready, TypeInv, LoopsOK, Loop, Row
<1>2. JobInv(x.id) /\ LoopTurn(r, x.id)
  BY <1>1 DEF Ready, QueueInv, JobInv, TurnInv
<1>3. \A q \in Replicas : q = r
  BY DEF Ready, Orderly, LonePoller
<1> QED
  BY <1>1, <1>2, <1>3 DEF LoopTurn, Excused, Rejecting, Untouched

LEMMA CheckQueue ==
    ASSUME Ready, [Next]_vars, NEW r \in Replicas, CheckOlder(r), UNCHANGED apiVars
    PROVE  QueueInv'
<1> USE DEF Ready
<1>1. sched[r].pc = "next" /\ UNCHANGED <<job, step, cluster, calls, requests>>
  BY DEF CheckOlder, At, tables, apiVars
<1>2. PICK x \in First(sched[r].rows) :
         /\ x.status \in {"pending", "approved"}
         /\ TakeRow(r, x, "claimJob", 0) \/ NextRow(r, sched[r].rows \ {x})
  BY DEF CheckOlder
<1>3. x \in sched[r].rows
  BY DEF First
<1>4. PICK i \in Jobs : i = x.id
  BY <1>1, <1>3, RowFacts
<1>5. CASE TakeRow(r, x, "claimJob", 0)
  <2>1. sched'[r].pc = "claimJob" /\ sched'[r].row = x
    BY <1>5, TakeRowAt
  <2>2. RowTurn(x)
    BY <1>1, <1>3, RowFacts
  <2>3. HandTurn(r, i)'
    BY <1>1, <1>2, <1>4, <2>1, <2>2 DEF HandTurn, RowTurn, ClaimPc, QueuePc, RunPc
  <2> QED
    BY <1>1, <1>3, <1>4, <1>5, <2>3, TakeQueue DEF SchedPc, NoRowPc, HoldingPc
<1>6. CASE NextRow(r, sched[r].rows \ {x})
  <2>1. /\ sched'[r].pc \in NoRowPc /\ sched'[r].row = NoRow
        /\ sched'[r].rows = sched[r].rows \ {x}
    BY <1>6, NextRowAt DEF NoRowPc
  <2>2. HandInv' /\ \A j \in Jobs : Frame(j)
    BY <1>1, <2>1, IdleFrame DEF NoRowPc
  <2>3. \A j \in Jobs : SameRows(j)
    BY <2>1 DEF SameRows, Orderly, LonePoller
  <2> QED
    BY <2>2, <2>3, AllFrame
<1> QED
  BY <1>2, <1>5, <1>6

LEMMA LookupQueue ==
    ASSUME Ready, [Next]_vars, NEW r \in Replicas, LookupStep(r), UNCHANGED apiVars
    PROVE  QueueInv'
<1> USE DEF Ready
<1>1. sched[r].pc = "next" /\ UNCHANGED <<job, step, cluster, calls, requests>>
  BY DEF LookupStep, At, tables, apiVars
<1>2. PICK x \in First(sched[r].rows) :
         /\ x.status = "queue"
         /\ \/ TakeRow(r, x, "countOpen", 0)
            \/ \E n \in Lowest(StepsIn(x.id, {"pending"})) :
                  TakeRow(r, x, StageOf(x.id, ResolveType(x.id, n, x.tcl)), n)
  BY DEF LookupStep
<1>3. x \in sched[r].rows
  BY DEF First
<1>4. PICK i \in Jobs : i = x.id
  BY <1>1, <1>3, RowFacts
<1>5. /\ RowTurn(x) /\ job[i] = "queue" /\ \A m \in StepNumbers : step[i][m] \in Settled
  BY <1>1, <1>2, <1>3, <1>4, RowFacts DEF RowTurn, JobInv, StepInv, OpenSteps
<1>6. ASSUME NEW pc \in {"countOpen", "parkStep", "skipStep", "claimStep"}, NEW n,
             TakeRow(r, x, pc, n), pc = "claimStep" => Behind(i, n)
      PROVE  QueueInv'
  <2>1. sched'[r].pc = pc /\ sched'[r].row = x
    BY <1>6, TakeRowAt
  <2>2. HandTurn(r, i)'
    BY <1>1, <1>2, <1>4, <1>5, <1>6, <2>1 DEF HandTurn, ClaimPc, QueuePc, RunPc
  <2>3. pc \in SchedPc \ (NoRowPc \cup {"kill"}) /\ pc \notin HoldingPc
    BY <1>6 DEF SchedPc, NoRowPc, HoldingPc
  <2> QED
    BY <1>1, <1>3, <1>4, <1>6, <2>2, <2>3, TakeQueue
<1>7. CASE TakeRow(r, x, "countOpen", 0)
  BY <1>6, <1>7
<1>8. ASSUME NEW n \in Lowest(StepsIn(i, {"pending"})),
             TakeRow(r, x, StageOf(i, ResolveType(i, n, x.tcl)), n)
      PROVE  QueueInv'
  <2>1. PICK pc \in {"parkStep", "skipStep", "claimStep"} :
           pc = StageOf(i, ResolveType(i, n, x.tcl))
    BY DEF StageOf
  <2>2. \A m \in StepNumbers : m < n => step[i][m] # "pending"
    <3>1. n \in StepNumbers /\ \A m \in StepNumbers : step[i][m] = "pending" => n <= m
      BY <1>8 DEF Lowest, StepsIn
    <3> QED
      BY <3>1, StepNumbersAssumption
  <2>3. Behind(i, n)
    BY <1>5, <2>2 DEF Behind, Settled
  <2> QED
    BY <1>6, <1>8, <2>1, <2>3
<1> QED
  BY <1>2, <1>4, <1>7, <1>8

LEMMA EndQueue ==
    ASSUME Ready, [Next]_vars, NEW r \in Replicas, PollCancels(r) \/ KillPods(r),
           UNCHANGED apiVars
    PROVE  QueueInv'
<1> USE DEF Ready
<1>1. sched[r].pc # "kill"
  BY DEF QueueInv, HandInv
<1>2. PollCancels(r) /\ sched[r].pc = "cancels"
  BY <1>1, Zenon DEF KillPods, PollCancels, At
<1>3. \A j \in Jobs : job[j] # "cancelled"
  BY DEF QueueInv, JobInv, TurnInv
<1>4. Cancelled = {}
  BY <1>3 DEF Cancelled
<1>5. sched' = [sched EXCEPT ![r] = [IdleLoop EXCEPT !.pc = "idle", !.rows = {}]]
  BY <1>2, <1>4, Zenon DEF PollCancels
<1>6. sched'[r].pc \in NoRowPc /\ sched'[r].row = NoRow /\ sched'[r].rows = {}
  BY <1>5 DEF TypeInv, LoopsOK, IdleLoop, NoRowPc
<1>7. UNCHANGED <<job, step, cluster, calls, requests>>
  BY <1>2 DEF PollCancels, tables, apiVars
<1>8. HandInv' /\ \A j \in Jobs : Frame(j)
  BY <1>2, <1>6, <1>7, IdleFrame DEF NoRowPc
<1>9. \A j \in Jobs : SameRows(j)
  BY <1>6 DEF SameRows, Orderly, LonePoller
<1> QED
  BY <1>8, <1>9, AllFrame

LEMMA LoopQueue ==
    ASSUME Ready, [Next]_vars, NEW r \in Replicas, LoopStep(r), UNCHANGED apiVars
    PROVE  QueueInv'
<1>1. CASE Spawn(r)
  BY <1>1, HireQueue, ReadsQueue
<1>2. CASE NoExecutor(r)
  BY <1>2, ReadsQueue, WritesQueue, StatusQueue DEF NoExecutor
<1> QED
  BY <1>1, <1>2, ClaimJobQueue, PassGateQueue, ReadsQueue, WritesQueue, StatusQueue, CheckQueue,
     LookupQueue, EndQueue DEF LoopStep
--------------------------------------------------------------------------------
(* Steps of calls, executors, handlers and users: the loops stand still.    *)
Absent(j) == \A r \in Replicas : ~ InHand(r, j) /\ \A x \in sched[r].rows : x.id # j

LEMMA AbsentIf ==
    ASSUME Ready, NEW j \in Jobs,
           \/ ~ Untouched(j)
           \/ job[j] \notin {"pending", "approved", "queue", "running", "completed", "failed"}
    PROVE  Absent(j)
<1> SUFFICES ASSUME NEW r \in Replicas
             PROVE  ~ InHand(r, j) /\ \A x \in sched[r].rows : x.id # j
  BY DEF Absent
<1>1. LoopTurn(r, j) /\ HandInv /\ sched[r].pc \in SchedPc
  BY DEF Ready, QueueInv, JobInv, TurnInv, TypeInv, LoopsOK, Loop
<1>2. \A x \in sched[r].rows : x.id # j
  BY <1>1 DEF LoopTurn, RowTurn
<1>3. ASSUME InHand(r, j) PROVE FALSE
  <2>1. sched[r].pc \notin NoRowPc /\ sched[r].pc # "kill"
    BY <1>1, <1>3, NoRowInHand DEF HandInv, InHand
  <2>2. HandTurn(r, j) /\ Untouched(j)
    BY <1>1, <1>3 DEF LoopTurn
  <2> QED
    BY <1>1, <1>3, <2>1, <2>2
    DEF HandTurn, RowTurn, InHand, SchedPc, HoldingPc, NoRowPc, QueuePc, RunPc
<1> QED
  BY <1>2, <1>3

LEMMA OthersKeep ==
    ASSUME Ready, UNCHANGED sched, NEW i \in Jobs,
           \A j \in Jobs \ {i} : SameRow(j) /\ SameRequests(j) /\ SameCalls(j)
    PROVE  HandInv' /\ \A j \in Jobs \ {i} : JobInv(j)'
<1>1. HandInv'
  BY DEF Ready, QueueInv, HandInv, CurrentJob
<1>2. \A j \in Jobs : SameHand(j) /\ SameRows(j)
  BY DEF SameHand, SameRows, InHand
<1> QED
  BY <1>1, <1>2, FrameKeeps DEF Ready, QueueInv, Frame

LEMMA StillAbsent ==
    ASSUME UNCHANGED sched, NEW i \in Jobs, Absent(i)
    PROVE  /\ \A r \in Replicas : LoopTurn(r, i)' /\ ~ InHand(r, i)'
           /\ \A r \in Replicas, n \in StepNumbers : ~ Holds(r, i, n) /\ ~ Holds(r, i, n)'
BY DEF Absent, LoopTurn, InHand, Holds, CurrentJob

LEMMA NoRequests ==
    ASSUME Ready, NEW j \in Jobs, job[j] = "running"
    PROVE  \A q \in requests : q.id # j
<1>1. RequestsTurn(j)
  BY DEF Ready, QueueInv, JobInv, TurnInv
<1> QED
  BY <1>1 DEF RequestsTurn, RequestTurn, Terminal

LEMMA CallView ==
    ASSUME Ready, NEW c \in calls, NEW i \in Jobs, i = c.id
    PROVE  /\ Absent(i) /\ CallTurn(c) /\ JobInv(i) /\ c.num \in StepNumbers
           /\ \A d \in calls : d.id = i => d = c
           /\ \A n \in StepNumbers : ~ Working(i, n)
           /\ ~ Missing(i)
<1>1. JobInv(i) /\ CallsTurn(i)
  BY DEF Ready, QueueInv, JobInv, TurnInv
<1>2. Absent(i)
  BY AbsentIf DEF Untouched
<1>3. ~ Missing(i)
  BY DEF Ready, GateInv, InitInv, LeftAlone
<1>4. c.num \in StepNumbers
  BY DEF Ready, TypeInv, Call
<1> QED
  BY <1>1, <1>2, <1>3, <1>4 DEF CallsTurn

LEMMA MoveCallAt ==
    ASSUME TypeInv, NEW c \in calls, NEW pc, MoveCall(c, pc)
    PROVE  \E e : /\ e.id = c.id /\ e.num = c.num /\ e.pc = pc
                  /\ calls' = (calls \ {c}) \cup {e}
<1> DEFINE e == [c EXCEPT !.pc = pc]
<1>1. e.id = c.id /\ e.num = c.num /\ e.pc = pc
  BY DEF TypeInv, Call
<1>2. calls' = (calls \ {c}) \cup {e}
  BY DEF MoveCall
<1> HIDE DEF e
<1> QED
  BY <1>1, <1>2

(* A dispatch that failed or was accepted.                                  *)
LEMMA ExecuteQueue ==
    ASSUME Ready, [Next]_vars, NEW c \in calls, Execute(c), UNCHANGED apiVars
    PROVE  QueueInv'
<1> USE DEF Ready
<1>1. PICK i \in Jobs : i = c.id
  BY DEF TypeInv, Call
<1>2. /\ Absent(i) /\ JobInv(i) /\ c.num \in StepNumbers /\ ~ Missing(i)
      /\ \A d \in calls : d.id = i => d = c
      /\ \A n \in StepNumbers : ~ Working(i, n)
      /\ CallTurn(c)
  BY <1>1, CallView
<1>3. /\ c.pc = "execute" /\ UNCHANGED <<job, step, sched, requests>>
      /\ launches' = [launches EXCEPT ![i][c.num] = @ + 1]
      /\ \/ StartPod(i, c.num, c.type) /\ calls' = calls \ {c}
         \/ MoveCall(c, "failStep") /\ UNCHANGED pod
  BY <1>1 DEF Execute, Orderly, tables, apiVars
<1>4. job[i] = "running" /\ job'[i] = "running"
  BY <1>1, <1>2, <1>3 DEF CallTurn
<1>5. \A q \in requests' : q.id # i
  BY <1>3, <1>4, NoRequests
<1>6. /\ \A j \in Jobs \ {i}, n \in StepNumbers : pod'[j][n] = pod[j][n]
      /\ \A n \in StepNumbers \ {c.num} : pod'[i][n] = pod[i][n]
  BY <1>2, <1>3 DEF StartPod, TypeInv, TablesTypeOK
<1>7. /\ \A j \in Jobs \ {i}, n \in StepNumbers : launches'[j][n] = launches[j][n]
      /\ \A n \in StepNumbers \ {c.num} : launches'[i][n] = launches[i][n]
  BY <1>2, <1>3 DEF TypeInv, TablesTypeOK
<1>8. /\ \A d \in calls' : (d \in calls /\ d # c) \/ (d.id = i /\ d.pc = "failStep")
      /\ \A d \in calls : d = c \/ d \in calls'
      /\ \A d, e \in calls' : d.id = i /\ e.id = i => d = e
      /\ (\E d \in calls' : d.id = i) => UNCHANGED pod
  <2>1. CASE calls' = calls \ {c}
    BY <1>2, <2>1
  <2>2. CASE MoveCall(c, "failStep") /\ UNCHANGED pod
    BY <1>1, <1>2, <2>2, MoveCallAt
  <2> QED
    BY <1>3, <2>1, <2>2
<1>9. HandInv' /\ \A j \in Jobs \ {i} : JobInv(j)'
  <2>1. \A j \in Jobs \ {i} : SameRow(j) /\ SameRequests(j) /\ SameCalls(j)
    BY <1>1, <1>3, <1>6, <1>7, <1>8 DEF SameRow, Same, SameRequests, SameCalls
  <2> QED
    BY <1>3, <2>1, OthersKeep
<1>10. /\ \A r \in Replicas : LoopTurn(r, i)' /\ ~ InHand(r, i)'
       /\ \A r \in Replicas, n \in StepNumbers : ~ Holds(r, i, n)'
  BY <1>2, <1>3, StillAbsent
<1>11. \A n \in StepNumbers : Working(i, n)' => n = c.num
  BY <1>2, <1>6 DEF Working
<1>12. TurnInv(i)'
  <2>1. \A d \in calls' : d.id = i => d.pc = "failStep"
    BY <1>2, <1>8
  <2>2. (\E d \in calls' : d.id = i) => \A n \in StepNumbers : ~ Working(i, n)'
    BY <1>2, <1>8 DEF Working
  <2>3. CallsTurn(i)'
    BY <1>4, <1>8, <2>1, <2>2 DEF CallsTurn, CallTurn
  <2>4. PodsTurn(i)' /\ RequestsTurn(i)'
    BY <1>4, <1>5, <1>11 DEF PodsTurn, RequestsTurn
  <2> QED
    BY <1>4, <1>10, <2>3, <2>4 DEF TurnInv
<1>13. \A n \in StepNumbers : ~ (\E d \in calls' : Dispatches(d, i, n)')
  BY <1>2, <1>8 DEF Dispatches
<1>14. SettledBut(i, c.num) /\ Behind(i, c.num)
  <2>1. Current(i, c.num)
    BY <1>1, <1>3 DEF Current, Dispatches
  <2> QED
    BY <1>2, <2>1 DEF JobInv, StepInv, CurrentSteps
<1>15. StepInv(i)'
  <2>1. \A n \in StepNumbers : Current(i, n)' => n = c.num
    BY <1>10, <1>11, <1>13 DEF Current
  <2>2. \A n \in StepNumbers : Current(i, n)' => SettledBut(i, n)' /\ Behind(i, n)'
    BY <1>3, <1>14, <2>1 DEF SettledBut, Behind
  <2>3. \A n \in StepNumbers : pod'[i][n].pc # "reportJob"
    <3>1. pod'[i][c.num] = pod[i][c.num] \/ pod'[i][c.num].pc = "created"
      BY <1>2, <1>3 DEF StartPod, TypeInv, TablesTypeOK
    <3> QED
      BY <1>2, <1>6, <3>1 DEF Working
  <2>4. CurrentSteps(i)'
    BY <1>10, <2>2, <2>3 DEF CurrentSteps
  <2> QED
    BY <1>4, <1>5, <2>4 DEF StepInv, OpenSteps, ParkedSteps, DecidedSteps
<1>16. LaunchInv(i)'
  <2>1. \A n \in StepNumbers : Ahead(i, n)' => step[i][n] = "pending"
    BY <1>3, <1>10, <1>13 DEF Ahead
  <2>2. step[i][c.num] # "pending"
    BY <1>1, <1>2, <1>3 DEF ClaimInv, Dispatches, Claimed
  <2>3. \A n \in StepNumbers : step[i][n] = "pending" => c.num < n
    <3>1. \A n \in StepNumbers : n < c.num => step[i][n] # "pending"
      BY <1>14 DEF Behind
    <3> QED
      BY <1>2, <2>2, <3>1, StepOrder
  <2>4. ~ Missing(i)'
    BY <1>2, <1>3 DEF Missing
  <2>5. ASSUME NEW m \in StepNumbers, launches'[i][m] # 0, NEW n \in StepNumbers, Ahead(i, n)'
        PROVE  m < n
    <3>1. step[i][n] = "pending" /\ c.num < n
      BY <2>1, <2>3, <2>5
    <3>2. CASE m = c.num
      BY <3>1, <3>2
    <3>3. CASE m # c.num
      BY <1>2, <1>7, <2>5, <3>1, <3>3 DEF JobInv, LaunchInv, Ahead
    <3> QED
      BY <3>2, <3>3
  <2> QED
    BY <2>4, <2>5 DEF LaunchInv
<1> QED
  BY <1>9, <1>12, <1>15, <1>16 DEF QueueInv, JobInv


LEMMA FailCallQueue ==
    ASSUME Ready, [Next]_vars, NEW c \in calls, FailCall(c), UNCHANGED apiVars
    PROVE  QueueInv'
<1> USE DEF Ready
<1>1. PICK i \in Jobs : i = c.id
  BY DEF TypeInv, Call
<1>2. /\ Absent(i) /\ JobInv(i) /\ c.num \in StepNumbers /\ ~ Missing(i)
      /\ \A d \in calls : d.id = i => d = c
      /\ \A n \in StepNumbers : ~ Working(i, n)
      /\ CallTurn(c)
  BY <1>1, CallView
<1>3. /\ UNCHANGED <<cluster, sched, requests>>
      /\ \/ /\ c.pc = "failStep" /\ SetStep(i, c.num, "failed")
            /\ MoveCall(c, "failJob") /\ UNCHANGED job
         \/ /\ c.pc = "failJob" /\ SetJob(i, "failed")
            /\ MoveCall(c, "failRelease") /\ UNCHANGED step
         \/ c.pc = "failRelease" /\ calls' = calls \ {c} /\ UNCHANGED <<job, step>>
  BY <1>1 DEF FailCall, apiVars
<1>4. /\ \A j \in Jobs \ {i} : job'[j] = job[j] /\ Same(j)
      /\ \A n \in StepNumbers : step'[i][n] \in {step[i][n], "failed"}
  <2>1. \A j \in Jobs \ {i} : job'[j] = job[j]
    BY <1>3, SetJobAt DEF TypeInv
  <2>2. \A j \in Jobs \ {i} : Same(j)
    BY <1>3, SetStepAt DEF TypeInv, Same
  <2>3. Same(i) \/ Sets(i, c.num, "failed")
    BY <1>3, SetStepAt DEF TypeInv, Same
  <2> QED
    BY <2>1, <2>2, <2>3 DEF Same, Sets
<1>5. job[i] \in {"running", "failed"} /\ job'[i] \in {job[i], "failed"}
  <2>1. job'[i] \in {job[i], "failed"}
    BY <1>3, SetJobAt DEF TypeInv
  <2> QED
    BY <1>1, <1>2, <2>1 DEF CallTurn
<1>6. /\ \A d \in calls' : (d \in calls /\ d # c)
                           \/ (d.id = i /\ d.pc # "execute" /\ CallTurn(d)')
      /\ \A d \in calls : d = c \/ d \in calls'
      /\ \A d, e \in calls' : d.id = i /\ e.id = i => d = e
  <2>1. CASE calls' = calls \ {c}
    BY <1>2, <2>1
  <2>2. ASSUME NEW pc \in {"failJob", "failRelease"}, MoveCall(c, pc),
               IF pc = "failRelease" THEN job'[i] = "failed" ELSE job'[i] = "running"
        PROVE  \E e : e.id = i /\ e.pc # "execute" /\ CallTurn(e)'
                      /\ calls' = (calls \ {c}) \cup {e}
    BY <1>1, <2>2, MoveCallAt DEF CallTurn
  <2>3. ASSUME NEW e, e.id = i, e.pc # "execute", CallTurn(e)',
               calls' = (calls \ {c}) \cup {e}
        PROVE  <1>6!:
    BY <1>2, <2>3
  <2>4. c.pc = "failStep" /\ UNCHANGED job => job'[i] = "running"
    BY <1>1, <1>2 DEF CallTurn
  <2>5. SetJob(i, "failed") => job'[i] = "failed"
    BY SetJobAt DEF TypeInv
  <2> QED
    BY <1>3, <2>1, <2>2, <2>3, <2>4, <2>5
<1>7. HandInv' /\ \A j \in Jobs \ {i} : JobInv(j)'
  <2>1. \A j \in Jobs \ {i} : SameRow(j) /\ SameRequests(j) /\ SameCalls(j)
    BY <1>1, <1>3, <1>4, <1>6 DEF SameRow, SameRequests, SameCalls, cluster
  <2> QED
    BY <1>3, <2>1, OthersKeep
<1>8. /\ \A r \in Replicas : LoopTurn(r, i)' /\ ~ InHand(r, i)'
      /\ \A r \in Replicas, n \in StepNumbers : ~ Holds(r, i, n)'
  BY <1>2, <1>3, StillAbsent
<1>9. \A n \in StepNumbers : ~ Working(i, n)'
  BY <1>2, <1>3 DEF Working, cluster
<1>10. \A d \in calls', n \in StepNumbers : ~ Dispatches(d, i, n)'
  BY <1>2, <1>6 DEF Dispatches
<1>11. \A n \in StepNumbers : ~ Current(i, n)'
  BY <1>8, <1>9, <1>10 DEF Current
<1>12. RequestsTurn(i) /\ RequestsTurn(i)'
  <2>1. RequestsTurn(i)
    BY <1>2 DEF JobInv, TurnInv
  <2>2. \A q \in requests : q.id = i => q.pc = "releaseLock" /\ job[i] = "failed"
    BY <1>5, <2>1, NoRequests DEF RequestsTurn, RequestTurn, Terminal
  <2> QED
    BY <1>3, <1>5, <2>1, <2>2 DEF RequestsTurn, RequestTurn, Terminal
<1>13. TurnInv(i)'
  <2>1. CallsTurn(i)'
    BY <1>2, <1>6, <1>9 DEF CallsTurn
  <2> QED
    BY <1>5, <1>8, <1>9, <1>12, <2>1 DEF TurnInv, PodsTurn
<1>14. StepInv(i)'
  <2>1. CurrentSteps(i)'
    BY <1>8, <1>9, <1>11 DEF CurrentSteps, Working
  <2>2. DecidedSteps(i)'
    BY <1>3, <1>5, NoRequests DEF DecidedSteps, Terminal
  <2> QED
    BY <1>5, <2>1, <2>2 DEF StepInv, OpenSteps, ParkedSteps
<1>15. LaunchInv(i)'
  <2>1. \A n \in StepNumbers : Ahead(i, n)' => Ahead(i, n)
    BY <1>4, <1>8, <1>10 DEF Ahead
  <2> QED
    BY <1>2, <1>3, <2>1, LaunchesKept DEF JobInv, cluster
<1> QED
  BY <1>7, <1>13, <1>14, <1>15 DEF QueueInv, JobInv
--------------------------------------------------------------------------------
(* Executors.                                                               *)
LEMMA PodView ==
    ASSUME Ready, NEW i \in Jobs, NEW m \in StepNumbers, Working(i, m)
    PROVE  /\ Absent(i) /\ JobInv(i) /\ job[i] = "running" /\ ~ Missing(i)
           /\ \A n \in StepNumbers : Working(i, n) => n = m
           /\ \A c \in calls : c.id # i
           /\ \A q \in requests : q.id # i
           /\ SettledBut(i, m) /\ Behind(i, m)
<1>1. JobInv(i) /\ CallsTurn(i) /\ PodsTurn(i)
  BY DEF Ready, QueueInv, JobInv, TurnInv
<1>2. job[i] = "running"
  BY <1>1 DEF PodsTurn
<1>3. Absent(i)
  BY AbsentIf DEF Untouched
<1>4. ~ Missing(i)
  BY DEF Ready, GateInv, InitInv, LeftAlone
<1>5. \A q \in requests : q.id # i
  BY <1>2, NoRequests
<1>6. SettledBut(i, m) /\ Behind(i, m)
  BY <1>1 DEF JobInv, StepInv, CurrentSteps, Current
<1> QED
  BY <1>1, <1>2, <1>3, <1>4, <1>5, <1>6 DEF CallsTurn, PodsTurn

LEMMA MovePodAt ==
    ASSUME TypeInv, NEW i \in Jobs, NEW m \in StepNumbers, NEW pc, NEW v, MovePod(i, m, pc, v)
    PROVE  /\ pod'[i][m].pc = pc /\ pod'[i][m].verdict = v /\ pod'[i][m].type = pod[i][m].type
           /\ \A j \in Jobs, n \in StepNumbers : j # i \/ n # m => pod'[j][n] = pod[j][n]
           /\ UNCHANGED launches
<1>1. pod \in [Jobs -> [StepNumbers -> Pod]]
  BY DEF TypeInv, TablesTypeOK
<1>2. /\ pod'[i][m].pc = pc /\ pod'[i][m].verdict = v /\ pod'[i][m].type = pod[i][m].type
  BY <1>1 DEF MovePod, Pod
<1>3. \A j \in Jobs, n \in StepNumbers : j # i \/ n # m => pod'[j][n] = pod[j][n]
  BY <1>1 DEF MovePod
<1> QED
  BY <1>2, <1>3 DEF MovePod

(* The rows that a PATCH of a job leaves alone, and the hook it starts.     *)
LEMMA PatchJobAt ==
    ASSUME TypeInv, NEW i \in Jobs, NEW s, PatchJob(i, s)
    PROVE  /\ \A j \in Jobs : job'[j] = IF j = i THEN s ELSE job[j]
           /\ \/ HookOf(s) = "none" /\ UNCHANGED requests
              \/ /\ HookOf(s) # "none"
                 /\ \E e : /\ requests' = requests \cup {e}
                           /\ e.id = i /\ e.num = 0 /\ e.pc = HookOf(s)
<1>1. \A j \in Jobs : job'[j] = IF j = i THEN s ELSE job[j]
  BY SetJobAt DEF PatchJob, TypeInv
<1> QED
  BY <1>1, Started DEF PatchJob

(* What an executor does with its job: it moves on, and may set its step;   *)
(* or it reports and is gone.                                               *)
PodMove(i, m) ==
    /\ UNCHANGED <<sched, calls, launches>>
    /\ \A j \in Jobs, n \in StepNumbers : j # i \/ n # m => pod'[j][n] = pod[j][n]
    /\ \A j \in Jobs \ {i} : job'[j] = job[j] /\ Same(j)

KeepsRunning(i, m) ==
    /\ job'[i] = "running" /\ UNCHANGED requests
    /\ Same(i) \/ \E s \in {"running", "failed", "completed"} : Sets(i, m, s)
    /\ pod'[i][m].pc = "reportJob" /\ pod'[i][m].verdict # "failed" =>
         step'[i][m] = "completed"

HandsIn(i, m) ==
    /\ pod[i][m].pc = "reportJob" /\ pod'[i][m].pc = "done" /\ Same(i)
    /\ job'[i] = pod[i][m].verdict
    /\ \/ HookOf(job'[i]) = "none" /\ UNCHANGED requests
       \/ /\ HookOf(job'[i]) # "none"
          /\ \E e : requests' = requests \cup {e} /\ e.id = i /\ e.pc = HookOf(job'[i])

LEMMA PodMoves ==
    ASSUME Ready, NEW i \in Jobs, NEW m \in StepNumbers, ExecutorStep(i, m), UNCHANGED schedVars
    PROVE  PodMove(i, m) /\ Working(i, m) /\ (KeepsRunning(i, m) \/ HandsIn(i, m))
<1> USE DEF Ready
<1>1. Working(i, m)
  BY PodActivity DEF schedVars
<1>2. job[i] = "running"
  BY <1>1, PodView
<1>3. \E pc, v : MovePod(i, m, pc, v)
  BY DEF ExecutorStep, PodStep, BeginStep, BeginJob, EndWork, NoticeCancel, ReportStep,
     ReportJob, ExitSilently, LosePod
<1>4. /\ UNCHANGED launches
      /\ \A j \in Jobs, n \in StepNumbers : j # i \/ n # m => pod'[j][n] = pod[j][n]
  BY <1>3, MovePodAt
<1>5. CASE BeginStep(i, m) \/ ReportStep(i, m)
  <2>1. PICK s \in {"running", "failed", "completed"} :
           /\ UNCHANGED step \/ SetStep(i, m, s)
           /\ \/ MovePod(i, m, "begun", "none")
              \/ MovePod(i, m, "done", "none")
              \/ /\ SetStep(i, m, s) /\ MovePod(i, m, "reportJob", pod[i][m].verdict)
                 /\ pod[i][m].verdict # "failed" => s = "completed"
    BY <1>5 DEF BeginStep, ReportStep, PatchStep, StepVerdict
  <2>2. UNCHANGED <<job, requests>>
    BY <1>5 DEF BeginStep, ReportStep, apiVars
  <2>3. /\ \A j \in Jobs \ {i} : Same(j)
        /\ Same(i) \/ Sets(i, m, s)
        /\ SetStep(i, m, s) => step'[i][m] = s
    BY <2>1, SetStepAt DEF TypeInv, Same, Sets
  <2>4. pod'[i][m].pc = "reportJob" /\ pod'[i][m].verdict # "failed" => step'[i][m] = "completed"
    BY <2>1, <2>3, MovePodAt
  <2> QED
    BY <1>1, <1>2, <1>4, <2>2, <2>3, <2>4 DEF PodMove, KeepsRunning, schedVars
<1>6. CASE BeginJob(i, m)
  <2>1. UNCHANGED step /\ pod'[i][m].pc = "active"
    BY <1>6, MovePodAt DEF BeginJob
  <2>2. \/ UNCHANGED <<job, requests>>
        \/ (\A j \in Jobs : job'[j] = IF j = i THEN "running" ELSE job[j]) /\ UNCHANGED requests
    BY <1>6, PatchJobAt DEF BeginJob, PatchJob, HookOf
  <2> QED
    BY <1>1, <1>2, <1>4, <2>1, <2>2 DEF PodMove, KeepsRunning, schedVars, Same
<1>7. CASE EndWork(i, m) \/ NoticeCancel(i, m) \/ ExitSilently(i, m) \/ LosePod(i, m)
  <2>1. UNCHANGED <<job, step, requests>>
    BY <1>7 DEF EndWork, NoticeCancel, ExitSilently, LosePod, tables, apiVars
  <2>2. pod'[i][m].pc # "reportJob"
    BY <1>7, MovePodAt DEF EndWork, NoticeCancel, ExitSilently, LosePod
  <2> QED
    BY <1>1, <1>2, <1>4, <2>1, <2>2 DEF PodMove, KeepsRunning, schedVars, Same
<1>8. CASE ReportJob(i, m)
  <2>1. UNCHANGED step /\ pod'[i][m].pc = "done" /\ pod[i][m].pc = "reportJob"
    BY <1>8, MovePodAt DEF ReportJob, PodAt
  <2>2. CASE UNCHANGED <<job, requests>>
    BY <1>1, <1>2, <1>4, <2>1, <2>2 DEF PodMove, KeepsRunning, schedVars, Same
  <2>3. CASE PatchJob(i, pod[i][m].verdict)
    BY <1>1, <1>4, <2>1, <2>3, PatchJobAt DEF PodMove, HandsIn, schedVars, Same
  <2> QED
    BY <1>8, <2>2, <2>3 DEF ReportJob
<1> QED
  BY <1>5, <1>6, <1>7, <1>8 DEF ExecutorStep, PodStep

LEMMA PodQueue ==
    ASSUME Ready, [Next]_vars, NEW i \in Jobs, NEW m \in StepNumbers, ExecutorStep(i, m),
           UNCHANGED schedVars
    PROVE  QueueInv'
<1> USE DEF Ready
<1>1. PodMove(i, m) /\ Working(i, m) /\ (KeepsRunning(i, m) \/ HandsIn(i, m))
  BY PodMoves
<1>2. /\ Absent(i) /\ JobInv(i) /\ job[i] = "running" /\ ~ Missing(i)
      /\ \A n \in StepNumbers : Working(i, n) => n = m
      /\ \A c \in calls : c.id # i
      /\ \A q \in requests : q.id # i
      /\ SettledBut(i, m) /\ Behind(i, m)
  BY <1>1, PodView
<1>3. HandInv' /\ \A j \in Jobs \ {i} : JobInv(j)'
  <2>1. \A j \in Jobs \ {i} : SameRow(j) /\ SameRequests(j) /\ SameCalls(j)
    BY <1>1 DEF PodMove, KeepsRunning, HandsIn, SameRow, SameRequests, SameCalls
  <2> QED
    BY <1>1, <2>1, OthersKeep DEF PodMove
<1>4. /\ \A r \in Replicas : LoopTurn(r, i)' /\ ~ InHand(r, i)'
      /\ \A r \in Replicas, n \in StepNumbers : ~ Holds(r, i, n)'
  BY <1>1, <1>2, StillAbsent DEF PodMove
<1>5. \A c \in calls' : c.id # i
  BY <1>1, <1>2 DEF PodMove
<1>6. \A n \in StepNumbers : n # m => ~ Working(i, n)' /\ pod'[i][n].pc # "reportJob"
  BY <1>1, <1>2 DEF PodMove, Working
<1>7. LaunchInv(i)'
  <2>1. \A n \in StepNumbers : step'[i][n] = "pending" => step[i][n] = "pending"
    BY <1>1 DEF KeepsRunning, HandsIn, Same, Sets
  <2>2. \A n \in StepNumbers : Ahead(i, n)' => Ahead(i, n)
    BY <1>4, <1>5, <2>1 DEF Ahead, Dispatches
  <2> QED
    BY <1>1, <1>2, <2>2, LaunchesKept DEF JobInv, PodMove
<1>8. CASE KeepsRunning(i, m)
  <2>1. TurnInv(i)'
    <3>1. RequestsTurn(i)'
      BY <1>2, <1>8 DEF KeepsRunning, RequestsTurn
    <3> QED
      BY <1>4, <1>5, <1>6, <1>8, <3>1 DEF TurnInv, CallsTurn, PodsTurn, KeepsRunning
  <2>2. StepInv(i)'
    <3>1. \A n \in StepNumbers : Current(i, n)' => n = m
      BY <1>4, <1>5, <1>6 DEF Current, Dispatches
    <3>2. \A n \in StepNumbers : n # m => step'[i][n] = step[i][n]
      BY <1>8 DEF KeepsRunning, Same, Sets
    <3>3. SettledBut(i, m)' /\ Behind(i, m)'
      <4>1. \A n \in StepNumbers : n < m => n # m
        BY StepOrder
      <4> QED
        BY <1>2, <3>2, <4>1 DEF SettledBut, Behind
    <3>4. CurrentSteps(i)'
      BY <1>4, <1>6, <1>8, <3>1, <3>3 DEF CurrentSteps, KeepsRunning
    <3>5. DecidedSteps(i)'
      BY <1>2, <1>8 DEF KeepsRunning, DecidedSteps
    <3> QED
      BY <1>8, <3>4, <3>5 DEF KeepsRunning, StepInv, OpenSteps, ParkedSteps
  <2> QED
    BY <1>3, <1>7, <2>1, <2>2 DEF QueueInv, JobInv
<1>9. CASE HandsIn(i, m)
  <2>1. job'[i] \in {"pending", "noChanges", "completed", "failed"}
    BY <1>9 DEF HandsIn, GateInv, VerdictInv, TypeInv, TablesTypeOK, Pod, Verdicts
  <2>2. \A n \in StepNumbers : ~ Working(i, n)' /\ pod'[i][n].pc # "reportJob"
    BY <1>6, <1>9 DEF HandsIn, Working
  <2>3. \A q \in requests' : q.id = i => q.pc = HookOf(job'[i]) /\ q.pc # "none"
    <3>1. CASE UNCHANGED requests
      BY <1>2, <3>1
    <3>2. CASE HookOf(job'[i]) # "none"
      BY <1>2, <1>9, <3>2 DEF HandsIn
    <3> QED
      BY <1>9, <3>1, <3>2 DEF HandsIn
  <2>4. \A q \in requests' : q.id = i =>
           \/ q.pc = "closeSteps" /\ job'[i] = "noChanges"
           \/ q.pc = "releaseLock" /\ job'[i] \in {"completed", "failed"}
    BY <2>1, <2>3 DEF HookOf
  <2>5. TurnInv(i)'
    <3>1. RequestsTurn(i)'
      BY <2>4 DEF RequestsTurn, RequestTurn, Terminal
    <3> QED
      BY <1>4, <1>5, <2>1, <2>2, <3>1 DEF TurnInv, CallsTurn, PodsTurn
  <2>6. StepInv(i)'
    <3>1. \A n \in StepNumbers : ~ Current(i, n)'
      BY <1>4, <1>5, <2>2 DEF Current, Dispatches
    <3>2. CurrentSteps(i)'
      BY <1>4, <2>2, <3>1 DEF CurrentSteps
    <3>3. DecidedSteps(i)'
      BY <2>4 DEF DecidedSteps, Deciding
    <3>4. job'[i] = "pending" => step[i][m] = "completed"
      BY <1>2, <1>9 DEF HandsIn, JobInv, StepInv, CurrentSteps
    <3>5. OpenSteps(i)'
      BY <1>2, <1>9, <2>1, <3>4 DEF OpenSteps, HandsIn, Same, SettledBut, Settled
    <3> QED
      BY <2>1, <3>2, <3>3, <3>5 DEF StepInv, ParkedSteps
  <2> QED
    BY <1>3, <1>7, <2>5, <2>6 DEF QueueInv, JobInv
<1> QED
  BY <1>1, <1>8, <1>9
--------------------------------------------------------------------------------
(* Handlers and users.                                                      *)
LEMMA NoWork ==
    ASSUME Ready, NEW j \in Jobs
    PROVE  /\ job[j] # "running" => \A n \in StepNumbers : ~ Working(j, n)
           /\ job[j] \notin {"running", "failed"} => \A c \in calls : c.id # j
           /\ job[j] # "running" => \A c \in calls : c.id = j => c.pc = "failRelease"
<1>1. CallsTurn(j) /\ PodsTurn(j)
  BY DEF Ready, QueueInv, JobInv, TurnInv
<1> QED
  BY <1>1 DEF CallsTurn, CallTurn, PodsTurn

(* What a statement of a handler has to establish for its job.              *)
LEMMA ThreadQueue ==
    ASSUME Ready, [Next]_vars, NEW i \in Jobs, Absent(i), UNCHANGED <<sched, calls, cluster>>,
           \A j \in Jobs \ {i} : job'[j] = job[j] /\ Same(j),
           \A q \in requests \cup requests' : q.id = i \/ (q \in requests /\ q \in requests'),
           job'[i] # "cancelled", job'[i] = job[i] \/ job[i] \notin {"running", "failed"},
           RequestsTurn(i)', OpenSteps(i)', ParkedSteps(i)', DecidedSteps(i)',
           Same(i) \/ job[i] # "running",
           \A n \in StepNumbers : step'[i][n] = "pending" => step[i][n] = "pending" \/ Missing(i)
    PROVE  QueueInv'
<1>1. HandInv' /\ \A j \in Jobs \ {i} : JobInv(j)'
  <2>1. \A j \in Jobs \ {i} : SameRow(j) /\ SameRequests(j) /\ SameCalls(j)
    BY DEF SameRow, SameRequests, SameCalls, cluster
  <2> QED
    BY <2>1, OthersKeep
<1>2. /\ \A r \in Replicas : LoopTurn(r, i)' /\ ~ InHand(r, i)'
      /\ \A r \in Replicas, n \in StepNumbers : ~ Holds(r, i, n) /\ ~ Holds(r, i, n)'
  BY StillAbsent
<1>3. JobInv(i)
  BY DEF Ready, QueueInv
<1>4. \A n \in StepNumbers : pod'[i][n] = pod[i][n] /\ (Working(i, n)' <=> Working(i, n))
  BY DEF cluster, Working
<1>5. TurnInv(i)'
  BY <1>2, <1>3, <1>4, NoWork DEF JobInv, TurnInv, CallsTurn, CallTurn, PodsTurn
<1>6. CurrentSteps(i)'
  <2>1. CASE Same(i)
    BY <1>2, <1>3, <1>4, <2>1
    DEF JobInv, StepInv, CurrentSteps, Current, Same, SettledBut, Behind, Dispatches
  <2>2. CASE job[i] # "running"
    <3>1. \A n \in StepNumbers : ~ Current(i, n)'
      BY <1>2, <1>4, <2>2, NoWork DEF Current, Dispatches
    <3>2. \A n \in StepNumbers : pod'[i][n].pc # "reportJob"
      BY <1>4, <2>2, NoWork DEF Working
    <3> QED
      BY <1>2, <3>1, <3>2 DEF CurrentSteps
  <2> QED
    BY <2>1, <2>2
<1>7. LaunchInv(i)'
  <2>1. CASE Missing(i)
    BY <1>3, <2>1 DEF JobInv, LaunchInv, cluster
  <2>2. CASE ~ Missing(i)
    <3>1. \A n \in StepNumbers : Ahead(i, n)' => Ahead(i, n)
      BY <1>2, <2>2 DEF Ahead, Dispatches
    <3> QED
      BY <1>3, <3>1, LaunchesKept DEF JobInv, cluster
  <2> QED
    BY <2>1, <2>2
<1> QED
  BY <1>1, <1>5, <1>6, <1>7 DEF QueueInv, JobInv, StepInv

LEMMA ContinueAt ==
    ASSUME TypeInv, NEW q \in requests, NEW pc, Continue(q, pc)
    PROVE  \E e : /\ requests' = (requests \ {q}) \cup {e}
                  /\ e.id = q.id /\ e.num = q.num /\ e.pc = pc
<1> DEFINE e == [q EXCEPT !.pc = pc]
<1>1. e.id = q.id /\ e.num = q.num /\ e.pc = pc
  BY DEF TypeInv, ApiTypeOK, Request
<1>2. requests' = (requests \ {q}) \cup {e}
  BY DEF Continue
<1> HIDE DEF e
<1> QED
  BY <1>1, <1>2

LEMMA ThreadView ==
    ASSUME Ready, NEW q \in requests, NEW i \in Jobs, i = q.id
    PROVE  /\ Absent(i) /\ RequestTurn(q) /\ RequestInv(q) /\ JobInv(i)
           /\ \A p \in requests : p.id = i => RequestTurn(p)
<1>1. Absent(i)
  BY AbsentIf DEF Untouched
<1> QED
  BY <1>1 DEF Ready, QueueInv, JobInv, TurnInv, RequestsTurn, GateInv

(* Statements of a handler: its thread goes on, returns, or stays.          *)
ThreadGoes(q, i, pc) ==
    \/ requests' = requests
    \/ requests' = requests \ {q}
    \/ \E e : requests' = (requests \ {q}) \cup {e} /\ e.id = i /\ e.num = q.num /\ e.pc = pc

LEMMA InsertQueue ==
    ASSUME Ready, [Next]_vars, NEW q \in requests, ReadTcl(q) \/ InsertStep(q),
           UNCHANGED schedVars
    PROVE  QueueInv'
<1> USE DEF Ready, schedVars
<1>1. PICK i \in Jobs : i = q.id
  BY DEF TypeInv, ApiTypeOK, Request
<1>2. /\ Absent(i) /\ RequestTurn(q) /\ JobInv(i)
      /\ \A p \in requests : p.id = i => RequestTurn(p)
  BY <1>1, ThreadView
<1>3. job[i] = "pending" /\ UNCHANGED <<job, cluster>>
  BY <1>1, <1>2 DEF ReadTcl, InsertStep, RequestTurn
<1>4. ThreadGoes(q, i, "insertSteps")
  BY <1>1, ContinueAt DEF ThreadGoes, ReadTcl, InsertStep, Return
<1>5. /\ \A j \in Jobs \ {i} : Same(j)
      /\ \A n \in StepNumbers : step'[i][n] = step[i][n] \/ step'[i][n] = "pending"
      /\ \A n \in StepNumbers : step'[i][n] = "pending" => step[i][n] = "pending" \/ Missing(i)
  <2>1. CASE UNCHANGED step
    BY <2>1 DEF Same
  <2>2. ASSUME NEW n \in Lowest({m \in Entries(i) : step[i][m] = "none"}),
               SetStep(i, n, "pending")
        PROVE  <1>5!:
    <3>1. Sets(i, n, "pending") /\ \A j \in Jobs \ {i} : Same(j)
      BY <2>2, SetStepAt DEF TypeInv
    <3>2. Missing(i)
      BY DEF Lowest, Missing
    <3> QED
      BY <3>1, <3>2 DEF Sets
  <2> QED
    BY <1>1, <2>1, <2>2 DEF ReadTcl, InsertStep
<1>6. \A p \in requests' : p.id = i => p.pc \in {"readTcl", "insertSteps"}
  <2>1. \A p \in requests : p.id = i => p.pc \in {"readTcl", "insertSteps"}
    BY <1>2, <1>3 DEF RequestTurn, Terminal
  <2> QED
    BY <1>4, <2>1 DEF ThreadGoes
<1>7. RequestsTurn(i)'
  BY <1>3, <1>6 DEF RequestsTurn, RequestTurn
<1>8. OpenSteps(i)'
  <2>1. \A p \in requests : p.id = i => p.pc # "passGate"
    BY <1>2, <1>3 DEF RequestTurn
  <2>2. \A m \in StepNumbers : step[i][m] \in Settled
    BY <1>2, <1>3, <2>1 DEF JobInv, StepInv, OpenSteps, Excused, Absent
  <2> QED
    BY <1>5, <2>2 DEF OpenSteps, Settled
<1>9. ParkedSteps(i)' /\ DecidedSteps(i)'
  BY <1>3, <1>6 DEF ParkedSteps, DecidedSteps, Deciding
<1>10. \A p \in requests \cup requests' : p.id = i \/ (p \in requests /\ p \in requests')
  BY <1>1, <1>4 DEF ThreadGoes
<1> QED
  BY <1>2, <1>3, <1>5, <1>7, <1>8, <1>9, <1>10, ThreadQueue

(* The hooks of a PATCH, and the unlock: the job is over.                   *)
LEMMA HookQueue ==
    ASSUME Ready, [Next]_vars, NEW q \in requests, PatchHook(q) \/ ReleaseLock(q),
           UNCHANGED schedVars
    PROVE  QueueInv'
<1> USE DEF Ready, schedVars
<1>1. PICK i \in Jobs : i = q.id
  BY DEF TypeInv, ApiTypeOK, Request
<1>2. /\ Absent(i) /\ RequestTurn(q) /\ JobInv(i)
      /\ \A p \in requests : p.id = i => RequestTurn(p)
  BY <1>1, ThreadView
<1>3. job[i] \in Terminal /\ UNCHANGED <<job, cluster>> /\ job[i] # "cancelled"
  <2>1. q.pc \in {"cancelSteps", "closeSteps", "failSteps", "releaseLock"}
    BY DEF PatchHook, ReleaseLock
  <2>2. job[i] \in Terminal
    BY <1>1, <1>2, <2>1 DEF RequestTurn, Terminal
  <2> QED
    BY <1>2, <2>2 DEF PatchHook, ReleaseLock, JobInv, TurnInv
<1>4. ThreadGoes(q, i, "releaseLock")
  <2>1. Continue(q, "releaseLock") \/ requests' = requests \ {q}
    BY DEF PatchHook, ReleaseLock, Return
  <2> QED
    BY <1>1, <2>1, ContinueAt DEF ThreadGoes
<1>5. /\ \A j \in Jobs \ {i} : Same(j)
      /\ \A n \in StepNumbers : step'[i][n] = "pending" => step[i][n] = "pending"
  <2>1. CASE UNCHANGED step
    BY <2>1 DEF Same
  <2>2. ASSUME NEW from, NEW to \in {"cancelled", "notExecuted", "failed"},
               MoveSteps(i, from, to)
        PROVE  <1>5!:
    BY <2>2, MoveStepsAt DEF TypeInv, Moves
  <2> QED
    BY <1>1, <2>1, <2>2 DEF PatchHook, ReleaseLock
<1>6. RequestsTurn(i)'
  BY <1>2, <1>3, <1>4 DEF RequestsTurn, RequestTurn, ThreadGoes
<1>7. OpenSteps(i)' /\ ParkedSteps(i)' /\ DecidedSteps(i)'
  BY <1>3 DEF OpenSteps, ParkedSteps, DecidedSteps, Terminal
<1>8. \A p \in requests \cup requests' : p.id = i \/ (p \in requests /\ p \in requests')
  BY <1>1, <1>4 DEF ThreadGoes
<1>9. job[i] # "running"
  BY <1>3 DEF Terminal
<1> QED
  BY <1>2, <1>3, <1>5, <1>6, <1>7, <1>8, <1>9, ThreadQueue
--------------------------------------------------------------------------------
(* Approval and rejection through REST.                                     *)
LEMMA Apart ==
    ASSUME Ready, "restApprove" \in Events
    PROVE  "restReject" \notin Events /\ "uiReject" \notin Events
BY DEF Ready, Orderly

LEMMA GateQueue ==
    ASSUME Ready, [Next]_vars, NEW q \in requests, CompleteGate(q) \/ RejectGate(q),
           UNCHANGED schedVars
    PROVE  QueueInv'
<1> USE DEF Ready, schedVars
<1>1. PICK i \in Jobs : i = q.id
  BY DEF TypeInv, ApiTypeOK, Request
<1>2. /\ Absent(i) /\ RequestTurn(q) /\ JobInv(i)
      /\ \A p \in requests : p.id = i => RequestTurn(p)
  BY <1>1, ThreadView
<1>3. /\ UNCHANGED <<job, cluster>> /\ Deciding(q, i)
      /\ \/ /\ q.pc = "passGate" /\ "restApprove" \in Events
            /\ SetStep(i, q.num, "completed") /\ Continue(q, "requeue")
            /\ job[i] \in {"waitingApproval", "approved", "queue"}
         \/ /\ q.pc = "rejectGate" /\ "restReject" \in Events
            /\ SetStep(i, q.num, "rejected") /\ Continue(q, "dropSteps")
            /\ job[i] \in {"waitingApproval", "approved", "rejected"}
  BY <1>1, <1>2 DEF CompleteGate, RejectGate, RequestTurn, Deciding, Terminal
<1> DEFINE s == IF q.pc = "passGate" THEN "completed" ELSE "rejected"
           pc == IF q.pc = "passGate" THEN "requeue" ELSE "dropSteps"
<1>4. /\ Sets(i, q.num, s) /\ \A j \in Jobs \ {i} : Same(j)
  BY <1>3, SetStepAt DEF TypeInv
<1>5. PICK e : requests' = (requests \ {q}) \cup {e} /\ e.id = i /\ e.num = q.num /\ e.pc = pc
  BY <1>1, <1>3, ContinueAt
<1>6. job[i] \notin Terminal \/ job[i] = "rejected"
  BY <1>3 DEF Terminal
<1>7. job[i] \notin Terminal =>
        /\ SettledBut(i, q.num) /\ \A p \in requests : Deciding(p, i) => p.num = q.num
        /\ \A p \in requests : p.id = i /\ p.pc = "requeue" => AllSettled(i)
  BY <1>1, <1>2, <1>3 DEF JobInv, StepInv, DecidedSteps
<1>8. RequestsTurn(i)'
  <2>1. RequestTurn(e)'
    BY <1>3, <1>5 DEF RequestTurn
  <2> QED
    BY <1>2, <1>3, <1>5, <2>1 DEF RequestsTurn, RequestTurn
<1>9. \A m \in StepNumbers : m # q.num => step'[i][m] = step[i][m]
  BY <1>4 DEF Sets
<1>10. \A m \in StepNumbers : m = q.num => step'[i][m] = s
  BY <1>4 DEF Sets
<1>11. OpenSteps(i)'
  <2> SUFFICES ASSUME job[i] = "queue", NEW m \in StepNumbers PROVE step'[i][m] \in Settled
    BY <1>3 DEF OpenSteps
  <2>1. s = "completed" /\ SettledBut(i, q.num)
    BY <1>3, <1>7 DEF Terminal
  <2> QED
    BY <1>9, <1>10, <2>1 DEF SettledBut, Settled
<1>12. ParkedSteps(i)'
  <2> SUFFICES ASSUME job[i] \in {"waitingApproval", "approved"}
               PROVE  ParkedSteps(i)'
    BY <1>3 DEF ParkedSteps
  <2>1. SettledBut(i, q.num)
    BY <1>7 DEF Terminal
  <2>2. \A m \in StepNumbers : step'[i][m] \in Settled \/ m = q.num
    BY <1>9, <2>1 DEF SettledBut
  <2>3. s = "rejected" => Rejecting(i)'
    BY <1>5 DEF Rejecting
  <2> QED
    BY <1>10, <2>2, <2>3 DEF ParkedSteps, Settled
<1>13. DecidedSteps(i)'
  <2> SUFFICES ASSUME job[i] \notin Terminal, NEW p \in requests', p.id = i
               PROVE  /\ Deciding(p, i) =>
                           /\ SettledBut(i, p.num)'
                           /\ \A k \in requests' : Deciding(k, i) => k.num = p.num
                      /\ p.pc = "requeue" => AllSettled(i)'
    BY <1>3 DEF DecidedSteps, Deciding
  <2>1. \A k \in requests' : Deciding(k, i) => k.num = q.num
    BY <1>5, <1>7 DEF Deciding
  <2>2. SettledBut(i, q.num)'
    BY <1>7, <1>9, <1>5 DEF SettledBut
  <2>3. p.pc = "requeue" => s = "completed"
    BY <1>2, <1>3, <1>5, Apart DEF RequestTurn
  <2>4. s = "completed" => AllSettled(i)'
    BY <1>7, <1>9, <1>10 DEF AllSettled, SettledBut, Settled
  <2> QED
    BY <2>1, <2>2, <2>3, <2>4 DEF SettledBut
<1>14. \A p \in requests \cup requests' : p.id = i \/ (p \in requests /\ p \in requests')
  BY <1>1, <1>5
<1>15. \A n \in StepNumbers : step'[i][n] = "pending" => step[i][n] = "pending"
  BY <1>9, <1>10
<1>16. job[i] # "running"
  BY <1>3
<1> QED
  BY <1>2, <1>3, <1>4, <1>8, <1>11, <1>12, <1>13, <1>14, <1>15, <1>16, ThreadQueue
  DEF JobInv, TurnInv

LEMMA CloseQueue ==
    ASSUME Ready, [Next]_vars, NEW q \in requests, Requeue(q) \/ DropSteps(q) \/ CloseJob(q),
           UNCHANGED schedVars
    PROVE  QueueInv'
<1> USE DEF Ready, schedVars
<1>1. PICK i \in Jobs : i = q.id
  BY DEF TypeInv, ApiTypeOK, Request
<1>2. /\ Absent(i) /\ RequestTurn(q) /\ JobInv(i)
      /\ \A p \in requests : p.id = i => RequestTurn(p)
  BY <1>1, ThreadView
<1>3. /\ UNCHANGED cluster
      /\ \/ /\ q.pc = "requeue" /\ "restApprove" \in Events
            /\ SetJob(i, "queue") /\ UNCHANGED step /\ requests' = requests \ {q}
            /\ job[i] \in {"waitingApproval", "approved", "queue"}
         \/ /\ q.pc = "dropSteps" /\ "restReject" \in Events
            /\ MoveSteps(i, {"pending"}, "notExecuted") /\ UNCHANGED job
            /\ Continue(q, "rejectJob")
            /\ job[i] \in {"waitingApproval", "approved", "rejected"}
         \/ /\ q.pc = "rejectJob" /\ "restReject" \in Events
            /\ SetJob(i, "rejected") /\ UNCHANGED step
            /\ Continue(q, "releaseLock")
            /\ job[i] \in {"waitingApproval", "approved", "rejected"}
  BY <1>1, <1>2 DEF Requeue, DropSteps, CloseJob, Return, RequestTurn, Terminal
<1>4. JobInv(i) /\ job[i] # "cancelled"
  BY <1>2 DEF JobInv, TurnInv
<1>5. CASE q.pc = "requeue"
  <2>1. job'[i] = "queue" /\ \A j \in Jobs \ {i} : job'[j] = job[j]
    BY <1>3, <1>5, SetJobAt DEF TypeInv
  <2>2. job[i] \notin Terminal /\ UNCHANGED step /\ requests' = requests \ {q}
    BY <1>3, <1>5 DEF Terminal
  <2>3. AllSettled(i) /\ DecidedSteps(i)
    BY <1>1, <1>4, <1>5, <2>2 DEF JobInv, StepInv, DecidedSteps
  <2>4. RequestsTurn(i)'
    <3>1. "restReject" \notin Events /\ job[i] \in {"waitingApproval", "approved", "queue"}
      BY <1>3, <1>5, Apart
    <3>2. \A p \in requests : p.id = i => p.pc \in {"passGate", "requeue"}
      BY <1>2, <3>1 DEF RequestTurn, Terminal
    <3> QED
      BY <1>3, <1>5, <2>1, <2>2, <3>2 DEF RequestsTurn, RequestTurn
  <2>5. OpenSteps(i)' /\ ParkedSteps(i)'
    BY <2>1, <2>2, <2>3 DEF OpenSteps, ParkedSteps, AllSettled
  <2>6. DecidedSteps(i)'
    BY <2>1, <2>2, <2>3 DEF DecidedSteps, Deciding, SettledBut, AllSettled, Terminal
  <2>7. \A p \in requests \cup requests' : p.id = i \/ (p \in requests /\ p \in requests')
    BY <1>1, <2>2
  <2>8. job[i] \notin {"running", "failed"} /\ \A j \in Jobs : Same(j)
    BY <1>3, <1>5, <2>2 DEF Same
  <2> QED
    BY <1>2, <1>3, <2>1, <2>2, <2>4, <2>5, <2>6, <2>7, <2>8, ThreadQueue
<1>6. CASE q.pc = "dropSteps"
  <2>1. Moves(i, {"pending"}, "notExecuted") /\ \A j \in Jobs \ {i} : Same(j)
    BY <1>3, <1>6, MoveStepsAt DEF TypeInv
  <2>2. PICK e : requests' = (requests \ {q}) \cup {e} /\ e.id = i /\ e.pc = "rejectJob"
    BY <1>1, <1>3, <1>6, ContinueAt
  <2>3. UNCHANGED job /\ job[i] \in {"waitingApproval", "approved", "rejected"}
    BY <1>3, <1>6
  <2>4. RequestsTurn(i)'
    <3>1. RequestTurn(e)'
      BY <1>3, <1>6, <2>2, <2>3 DEF RequestTurn
    <3> QED
      BY <1>2, <2>2, <2>3, <3>1 DEF RequestsTurn, RequestTurn
  <2>5. \A n \in StepNumbers : /\ step[i][n] \in Settled <=> step'[i][n] \in Settled
                               /\ step'[i][n] # "pending"
                               /\ step'[i][n] # step[i][n] => step'[i][n] \in Settled
    BY <2>1 DEF Moves, Settled
  <2>6. ParkedSteps(i)'
    <3>1. Rejecting(i)'
      BY <2>2 DEF Rejecting
    <3> QED
      BY <1>4, <2>3, <2>5, <3>1 DEF JobInv, StepInv, ParkedSteps
  <2>7. OpenSteps(i)'
    BY <2>3 DEF OpenSteps
  <2>8. DecidedSteps(i)'
    BY <1>4, <2>2, <2>3, <2>5 DEF JobInv, StepInv, DecidedSteps, Deciding, SettledBut, AllSettled
  <2>9. \A p \in requests \cup requests' : p.id = i \/ (p \in requests /\ p \in requests')
    BY <1>1, <2>2
  <2>10. job[i] # "running"
    BY <2>3
  <2> QED
    BY <1>2, <1>3, <1>4, <2>1, <2>3, <2>4, <2>5, <2>6, <2>7, <2>8, <2>9, <2>10, ThreadQueue
<1>7. CASE q.pc = "rejectJob"
  <2>1. job'[i] = "rejected" /\ \A j \in Jobs \ {i} : job'[j] = job[j]
    BY <1>3, <1>7, SetJobAt DEF TypeInv
  <2>2. PICK e : requests' = (requests \ {q}) \cup {e} /\ e.id = i /\ e.pc = "releaseLock"
    BY <1>1, <1>3, <1>7, ContinueAt
  <2>3. UNCHANGED step /\ job[i] \in {"waitingApproval", "approved", "rejected"}
    BY <1>3, <1>7
  <2>4. RequestsTurn(i)'
    <3>1. "restApprove" \notin Events
      BY <1>3, <1>7, Apart
    <3>2. \A p \in requests : p.id = i =>
             p.pc \in {"rejectGate", "dropSteps", "rejectJob", "failSteps", "releaseLock"}
      BY <1>2, <2>3, <3>1 DEF RequestTurn
    <3> QED
      BY <1>3, <1>7, <2>1, <2>2, <3>2 DEF RequestsTurn, RequestTurn, Terminal
  <2>5. OpenSteps(i)' /\ ParkedSteps(i)' /\ DecidedSteps(i)'
    BY <2>1 DEF OpenSteps, ParkedSteps, DecidedSteps, Terminal
  <2>6. \A p \in requests \cup requests' : p.id = i \/ (p \in requests /\ p \in requests')
    BY <1>1, <2>2
  <2>7. job[i] \notin {"running", "failed"} /\ \A j \in Jobs : Same(j)
    BY <2>3 DEF Same
  <2> QED
    BY <1>2, <1>3, <2>1, <2>3, <2>4, <2>5, <2>6, <2>7, ThreadQueue
<1> QED
  BY <1>3, <1>5, <1>6, <1>7

LEMMA RequestQueue ==
    ASSUME Ready, [Next]_vars, NEW q \in requests, RequestStep(q), UNCHANGED schedVars
    PROVE  QueueInv'
<1>1. ASSUME DiscardGate(q) \/ CancelRun(q) \/ q.pc \in {"dropRest", "cancelJob"} PROVE FALSE
  <2>1. q.id \in Jobs
    BY DEF Ready, TypeInv, ApiTypeOK, Request
  <2>2. RequestTurn(q)
    BY <2>1, ThreadView
  <2> QED
    BY <1>1, <2>2 DEF RequestTurn, DiscardGate, CancelRun
<1>2. \/ ReadTcl(q) \/ InsertStep(q)
      \/ PatchHook(q) \/ ReleaseLock(q)
      \/ CompleteGate(q) \/ RejectGate(q)
      \/ Requeue(q) \/ DropSteps(q) \/ CloseJob(q)
  BY <1>1 DEF RequestStep
<1> QED
  BY <1>2, InsertQueue, HookQueue, GateQueue, CloseQueue

LEMMA CreateQueue ==
    ASSUME Ready, [Next]_vars, NEW i \in Jobs, InsertJob(i), UNCHANGED schedVars
    PROVE  QueueInv'
<1> USE DEF Ready, schedVars
<1>1. job[i] = "none" /\ UNCHANGED <<step, cluster>>
  BY DEF InsertJob
<1>2. Absent(i)
  BY <1>1, AbsentIf
<1>3. \A j \in Jobs : job'[j] = IF i = j THEN "pending" ELSE job[j]
  BY SetJobAt DEF InsertJob, TypeInv
<1>4. PICK e : requests' = requests \cup {e} /\ e.id = i /\ e.pc = "readTcl"
  BY Started DEF InsertJob
<1>5. \A q \in requests : q.id # i
  BY <1>1 DEF GateInv, RequestInv
<1>6. RequestsTurn(i)'
  BY <1>3, <1>4, <1>5 DEF RequestsTurn, RequestTurn
<1>7. OpenSteps(i)'
  BY <1>1 DEF OpenSteps, Settled, GateInv, InitInv
<1>8. ParkedSteps(i)' /\ DecidedSteps(i)'
  BY <1>3, <1>4, <1>5 DEF ParkedSteps, DecidedSteps, Deciding
<1>9. \A q \in requests \cup requests' : q.id = i \/ (q \in requests /\ q \in requests')
  BY <1>4
<1> QED
  BY <1>1, <1>2, <1>3, <1>6, <1>7, <1>8, <1>9, ThreadQueue DEF Same

(* The decision of a user at a gate: a PATCH, or a handler that starts.     *)
LEMMA DecideQueue ==
    ASSUME Ready, [Next]_vars, NEW i \in Jobs, UiApprove(i) \/ UiReject(i), UNCHANGED schedVars
    PROVE  QueueInv'
<1> USE DEF Ready, schedVars
<1>1. /\ job[i] = "waitingApproval" /\ UNCHANGED <<step, cluster>>
      /\ \/ UiApprove(i) /\ PatchJob(i, "approved")
         \/ UiReject(i) /\ PatchJob(i, "rejected") /\ "uiReject" \in Events
  BY DEF Orderly, UiApprove, UiReject, PageShows
<1>2. Absent(i) /\ JobInv(i)
  BY <1>1, AbsentIf DEF QueueInv
<1>3. RequestsTurn(i) /\ ParkedSteps(i) /\ DecidedSteps(i)
  BY <1>2 DEF JobInv, TurnInv, StepInv
<1>4. CASE PatchJob(i, "approved")
  <2>1. /\ \A j \in Jobs : job'[j] = IF j = i THEN "approved" ELSE job[j]
        /\ UNCHANGED requests
    BY <1>4, PatchJobAt DEF HookOf
  <2>2. RequestsTurn(i)'
    BY <1>1, <1>3, <2>1 DEF RequestsTurn, RequestTurn, Terminal
  <2>3. OpenSteps(i)' /\ ParkedSteps(i)'
    BY <1>1, <1>3, <2>1 DEF OpenSteps, ParkedSteps, Rejecting
  <2>4. DecidedSteps(i)'
    BY <1>1, <1>3, <2>1 DEF DecidedSteps, Deciding, SettledBut, AllSettled, Terminal
  <2> QED
    BY <1>1, <1>2, <2>1, <2>2, <2>3, <2>4, ThreadQueue DEF Same
<1>5. CASE PatchJob(i, "rejected") /\ "uiReject" \in Events
  <2>1. \A j \in Jobs : job'[j] = IF j = i THEN "rejected" ELSE job[j]
    BY <1>5, PatchJobAt
  <2>2. PICK e : requests' = requests \cup {e} /\ e.id = i /\ e.pc = "failSteps"
    BY <1>5, PatchJobAt DEF HookOf
  <2>3. RequestsTurn(i)'
    <3>1. "restApprove" \notin Events
      BY <1>5, Apart
    <3>2. \A q \in requests : q.id = i => RequestTurn(q)'
      BY <1>1, <1>3, <2>1, <3>1 DEF RequestsTurn, RequestTurn, Terminal
    <3>3. RequestTurn(e)'
      BY <2>1, <2>2 DEF RequestTurn
    <3> QED
      BY <2>2, <3>2, <3>3 DEF RequestsTurn
  <2>4. OpenSteps(i)' /\ ParkedSteps(i)' /\ DecidedSteps(i)'
    BY <2>1 DEF OpenSteps, ParkedSteps, DecidedSteps, Terminal
  <2>5. \A q \in requests \cup requests' : q.id = i \/ (q \in requests /\ q \in requests')
    BY <2>2
  <2> QED
    BY <1>1, <1>2, <2>1, <2>3, <2>4, <2>5, ThreadQueue DEF Same
<1> QED
  BY <1>1, <1>4, <1>5

LEMMA AskQueue ==
    ASSUME Ready, [Next]_vars, NEW i \in Jobs, RestApprove(i) \/ RestReject(i),
           UNCHANGED schedVars
    PROVE  QueueInv'
<1> USE DEF Ready, schedVars
<1>1. job[i] = "waitingApproval" /\ UNCHANGED <<job, step, cluster>>
  BY DEF Orderly, RestApprove, RestReject, PageShows, tables
<1>2. PICK n \in StepNumbers, pc \in {"passGate", "rejectGate"} :
         /\ step[i][n] = "waitingApproval" /\ Start(i, n, pc)
         /\ pc = "passGate" => "restApprove" \in Events
         /\ pc = "rejectGate" => "restReject" \in Events
  BY DEF RestApprove, RestReject, StepsIn
<1>3. PICK e : requests' = requests \cup {e} /\ e.id = i /\ e.num = n /\ e.pc = pc
  BY <1>2, Started
<1>4. Absent(i) /\ JobInv(i)
  BY <1>1, AbsentIf DEF QueueInv
<1>5. RequestsTurn(i) /\ ParkedSteps(i) /\ DecidedSteps(i)
  BY <1>4 DEF JobInv, TurnInv, StepInv
<1>6. RequestsTurn(i)'
  <2>1. RequestTurn(e)'
    BY <1>1, <1>2, <1>3 DEF RequestTurn
  <2> QED
    BY <1>1, <1>3, <1>5, <2>1 DEF RequestsTurn, RequestTurn
<1>7. OpenSteps(i)' /\ ParkedSteps(i)'
  BY <1>1, <1>3, <1>5 DEF OpenSteps, ParkedSteps, Rejecting
<1>8. DecidedSteps(i)'
  <2>1. step[i][n] \notin Settled
    BY <1>2 DEF Settled
  <2>2. \A m \in StepNumbers : step[i][m] \in Settled \/ m = n
    BY <1>1, <1>5, <2>1 DEF ParkedSteps
  <2>3. \A q \in requests' : Deciding(q, i) => q.num = n
    BY <1>1, <1>3, <1>5, <2>1 DEF DecidedSteps, Deciding, SettledBut, Terminal
  <2>4. \A q \in requests' : q.id = i => q.pc # "requeue"
    BY <1>1, <1>2, <1>3, <1>5, <2>1 DEF DecidedSteps, AllSettled, Terminal
  <2> QED
    BY <1>1, <2>2, <2>3, <2>4 DEF DecidedSteps, Deciding, SettledBut
<1>9. \A q \in requests \cup requests' : q.id = i \/ (q \in requests /\ q \in requests')
  BY <1>3
<1>10. job'[i] # "cancelled" /\ \A j \in Jobs : job'[j] = job[j] /\ Same(j)
  BY <1>1 DEF Same
<1> QED
  BY <1>1, <1>4, <1>6, <1>7, <1>8, <1>9, <1>10, ThreadQueue DEF Same

LEMMA StillQueue ==
    ASSUME Ready, UNCHANGED <<job, step, cluster, sched, calls, requests>>
    PROVE  QueueInv'
<1>1. HandInv'
  BY DEF Ready, QueueInv, HandInv, CurrentJob
<1>2. \A j \in Jobs : Frame(j) /\ SameRows(j)
  BY SameTables DEF Frame, SameRequests, SameCalls, SameHand, SameRows, InHand
<1> QED
  BY <1>1, <1>2, AllFrame

LEMMA NextQueueInv == Ready /\ [Next]_vars => QueueInv'
<1> SUFFICES ASSUME Ready, [Next]_vars PROVE QueueInv'
  OBVIOUS
<1>1. LonePoller /\ Events \cap {"stalePage", "uiCancel", "cliCancel", "cliDiscard"} = {}
  BY DEF Ready, Orderly
<1>2. CASE \E r \in Replicas : Tick(r)
  BY <1>2, TickQueue
<1>3. CASE (\E r \in Replicas : LoopStep(r)) /\ UNCHANGED apiVars
  BY <1>3, LoopQueue
<1>4. CASE (\E c \in calls : CallStep(c)) /\ UNCHANGED apiVars
  BY <1>4, ExecuteQueue, FailCallQueue DEF CallStep
<1>5. CASE (Create \/ UserStep \/ \E w \in Workspaces : CliUnlock(w)) /\ UNCHANGED schedVars
  <2>1. CASE Create
    BY <1>5, <2>1, CreateQueue DEF Create, CreateJob, CreateRun
  <2>2. CASE \E j \in Jobs : UiApprove(j) \/ UiReject(j)
    BY <1>5, <2>2, DecideQueue
  <2>3. CASE \E j \in Jobs : RestApprove(j) \/ RestReject(j)
    BY <1>5, <2>3, AskQueue
  <2>4. CASE \E w \in Workspaces : CliLock(w) \/ CliUnlock(w)
    BY <1>5, <2>4, StillQueue DEF CliLock, CliUnlock, schedVars
  <2>5. \A j \in Jobs : ~ UiCancel(j) /\ ~ CliCancel(j) /\ ~ CliDiscard(j)
    BY <1>1 DEF UiCancel, CliCancel, CliDiscard
  <2> QED
    BY <1>5, <2>1, <2>2, <2>3, <2>4, <2>5 DEF UserStep
<1>6. CASE (\E q \in requests : RequestStep(q)) /\ UNCHANGED schedVars
  BY <1>6, RequestQueue
<1>7. CASE (\E j \in Jobs, n \in StepNumbers : ExecutorStep(j, n)) /\ UNCHANGED schedVars
  BY <1>7, PodQueue
<1>8. CASE UNCHANGED vars
  BY <1>8, StillQueue DEF vars, tables, schedVars, apiVars
<1> QED
  BY <1>1, <1>2, <1>3, <1>4, <1>5, <1>6, <1>7, <1>8, Steps
--------------------------------------------------------------------------------
(* The life of a job.                                                       *)
HandAt(pc, j) == \E r \in Replicas : sched[r].pc = pc /\ InHand(r, j)

LifeStep(j) ==
    \/ job'[j] = job[j]
    \/ job[j] = "none" /\ job'[j] = "pending"
    \/ job[j] = "pending" /\ job'[j] = "queue" /\ HandAt("claimJob", j)
    \/ job[j] = "queue" /\ job'[j] \in {"waitingApproval", "failed"}
    \/ job[j] = "queue" /\ job'[j] = "running" /\ HandAt("runJob", j)
    \/ job[j] = "queue" /\ job'[j] = "completed" /\ HandAt("complete", j)
    \/ job[j] = "running" /\ job'[j] \in {"pending", "noChanges", "failed"}
    \/ /\ job[j] = "running" /\ job'[j] = "completed"
       /\ \E n \in StepNumbers : Working(j, n) /\ pod[j][n].verdict = "completed"
    \/ job[j] = "waitingApproval" /\ job'[j] \in {"approved", "queue", "rejected"}
    \/ job[j] = "approved" /\ job'[j] \in {"queue", "rejected"}

(* A step that may write the status of job i, which no executor works on.   *)
JobStep(i) ==
    /\ LifeStep(i) /\ \A j \in Jobs \ {i} : job'[j] = job[j]
    /\ \A n \in StepNumbers : ~ Working(i, n)

LEMMA LoopLife ==
    ASSUME Ready, NEW r \in Replicas, LoopStep(r)
    PROVE  UNCHANGED job \/ \E i \in Jobs : JobStep(i) /\ InHand(r, i)
<1>1. \/ UNCHANGED job
      \/ ClaimJob(r) \/ FinishJob(r) \/ ParkJob(r) \/ RunJob(r)
      \/ NoExecutor(r) /\ At(r, "failJob") /\ SetJob(CurrentJob(r), "failed")
  BY Zenon DEF LoopStep, CheckOlder, PassGate, UnlockWorkspace, LookupStep, SkipStep, Advance,
     CountOpen, Tally, ReleaseFinished, ParkStep, ClaimStep, LockWorkspace, HandBack, Spawn,
     NoExecutor, PollCancels, KillPods, At, tables
<1> SUFFICES ASSUME job' # job PROVE \E i \in Jobs : JobStep(i) /\ InHand(r, i)
  OBVIOUS
<1>2. sched[r].pc \notin NoRowPc
  BY <1>1 DEF ClaimJob, FinishJob, ParkJob, RunJob, NoExecutor, At, NoRowPc
<1>3. PICK i \in Jobs : i = CurrentJob(r)
  BY <1>2, HandFacts
<1>4. HandTurn(r, i) /\ InHand(r, i) /\ Untouched(i)
  BY <1>2, <1>3, HandFacts
<1>5. \E s : SetJob(i, s) /\
         \/ sched[r].pc = "claimJob" /\ job[i] = sched[r].row.status /\ s = "queue"
         \/ sched[r].pc = "runJob" /\ s = "running"
         \/ sched[r].pc = "complete" /\ s = "completed"
         \/ sched[r].pc \in {"fail", "parkJob"} /\ s \in {"failed", "waitingApproval"}
         \/ sched[r].pc = "failJob" /\ s = "failed"
  <2>1. CASE ClaimJob(r)
    BY <1>3, <2>1 DEF ClaimJob, At, CurrentJob
  <2>2. CASE FinishJob(r) \/ ParkJob(r) \/ RunJob(r)
    BY <1>3, <2>2 DEF FinishJob, ParkJob, RunJob, At
  <2>3. CASE At(r, "failJob") /\ SetJob(CurrentJob(r), "failed")
    BY <1>3, <2>3 DEF At
  <2> QED
    BY <1>1, <2>1, <2>2, <2>3
<1>6. PICK s : /\ job'[i] = s /\ \A j \in Jobs \ {i} : job'[j] = job[j]
               /\ \/ sched[r].pc = "claimJob" /\ job[i] = sched[r].row.status /\ s = "queue"
                  \/ sched[r].pc = "runJob" /\ s = "running"
                  \/ sched[r].pc = "complete" /\ s = "completed"
                  \/ sched[r].pc \in {"fail", "parkJob"} /\ s \in {"failed", "waitingApproval"}
                  \/ sched[r].pc = "failJob" /\ s = "failed"
  BY <1>5, SetJobAt DEF Ready, TypeInv
<1>7. LifeStep(i)
  <2>1. CASE sched[r].pc = "claimJob" /\ job[i] = sched[r].row.status /\ s = "queue"
    BY <1>4, <1>6, <2>1 DEF LifeStep, HandAt, HandTurn, RowTurn
  <2>2. CASE \/ sched[r].pc = "runJob" /\ s = "running"
             \/ sched[r].pc = "complete" /\ s = "completed"
             \/ sched[r].pc \in {"fail", "parkJob"} /\ s \in {"failed", "waitingApproval"}
    BY <1>4, <1>6, <2>2 DEF LifeStep, HandAt, HandTurn, QueuePc
  <2>3. CASE sched[r].pc = "failJob" /\ s = "failed"
    BY <1>4, <1>6, <2>3 DEF LifeStep, HandTurn, RunPc
  <2> QED
    BY <1>6, <2>1, <2>2, <2>3
<1> QED
  BY <1>4, <1>6, <1>7 DEF JobStep, Untouched

LEMMA CallLife ==
    ASSUME Ready, NEW c \in calls, FailCall(c)
    PROVE  UNCHANGED job \/ \E i \in Jobs : JobStep(i) /\ i = c.id
<1>1. PICK i \in Jobs : i = c.id
  BY DEF Ready, TypeInv, Call
<1>2. CallTurn(c) /\ \A n \in StepNumbers : ~ Working(i, n)
  BY <1>1, CallView
<1>3. UNCHANGED job \/ (c.pc = "failJob" /\ SetJob(i, "failed"))
  BY <1>1 DEF FailCall
<1>4. CASE c.pc = "failJob" /\ SetJob(i, "failed")
  <2>1. job'[i] = "failed" /\ \A j \in Jobs \ {i} : job'[j] = job[j]
    BY <1>4, SetJobAt DEF Ready, TypeInv
  <2> QED
    BY <1>1, <1>2, <1>4, <2>1 DEF JobStep, LifeStep, CallTurn
<1> QED
  BY <1>3, <1>4

LEMMA RequestLife ==
    ASSUME Ready, NEW q \in requests, RequestStep(q)
    PROVE  \/ UNCHANGED job
           \/ \E i \in Jobs : /\ JobStep(i) /\ i = q.id
                              /\ job[i] = "waitingApproval" /\ job'[i] \in {"approved", "queue"}
                                    => i \in approvals
<1>1. PICK i \in Jobs : i = q.id
  BY DEF Ready, TypeInv, ApiTypeOK, Request
<1>2. RequestTurn(q) /\ RequestInv(q)
  BY <1>1, ThreadView
<1>3. \/ UNCHANGED job
      \/ q.pc = "requeue" /\ SetJob(i, "queue")
      \/ q.pc = "rejectJob" /\ SetJob(i, "rejected")
  <2>1. q.pc \notin {"cancelJob", "cancelRun"}
    BY <1>2 DEF RequestTurn
  <2> QED
    BY <1>1, <2>1 DEF RequestStep, ReadTcl, InsertStep, PatchHook, ReleaseLock, CompleteGate,
       Requeue, RejectGate, DiscardGate, DropSteps, CloseJob, CancelRun
<1>4. ASSUME NEW s, SetJob(i, s), job' # job,
             \/ q.pc = "requeue" /\ s = "queue"
             \/ q.pc = "rejectJob" /\ s = "rejected"
      PROVE  JobStep(i)
  <2>1. job'[i] = s /\ \A j \in Jobs \ {i} : job'[j] = job[j]
    BY <1>4, SetJobAt DEF Ready, TypeInv
  <2>2. job[i] # "running" /\ LifeStep(i)
    BY <1>1, <1>2, <1>4, <2>1 DEF RequestTurn, LifeStep
  <2> QED
    BY <2>1, <2>2, NoWork DEF JobStep
<1>5. q.pc = "requeue" => i \in approvals
  BY <1>1, <1>2 DEF RequestInv
<1>6. SetJob(i, "rejected") => job'[i] = "rejected"
  BY SetJobAt DEF Ready, TypeInv
<1> QED
  BY <1>1, <1>3, <1>4, <1>5, <1>6

LEMMA UserLife ==
    ASSUME Ready, Create \/ UserStep \/ \E w \in Workspaces : CliUnlock(w)
    PROVE  \/ UNCHANGED <<job, approvals>>
           \/ \E i \in Jobs :
                /\ JobStep(i)
                /\ \/ UNCHANGED approvals /\ job'[i] \in {"pending", "rejected"}
                   \/ /\ approvals' = approvals \cup {i} /\ job[i] = "waitingApproval"
                      /\ job'[i] \in {"waitingApproval", "approved"}
<1> USE DEF Ready
<1>1. ASSUME NEW i \in Jobs, NEW s, SetJob(i, s), job[i] # "running",
             \/ job[i] = "none" /\ s = "pending" /\ UNCHANGED approvals
             \/ job[i] = "waitingApproval" /\ s = "rejected" /\ UNCHANGED approvals
             \/ job[i] = "waitingApproval" /\ s = "approved" /\ approvals' = approvals \cup {i}
      PROVE  /\ JobStep(i)
             /\ \/ UNCHANGED approvals /\ job'[i] \in {"pending", "rejected"}
                \/ /\ approvals' = approvals \cup {i} /\ job[i] = "waitingApproval"
                   /\ job'[i] \in {"waitingApproval", "approved"}
  <2>1. job'[i] = s /\ \A j \in Jobs \ {i} : job'[j] = job[j]
    BY <1>1, SetJobAt DEF TypeInv
  <2>2. LifeStep(i)
    BY <1>1, <2>1 DEF LifeStep
  <2> QED
    BY <1>1, <2>1, <2>2, NoWork DEF JobStep
<1>2. ASSUME NEW i \in Jobs, InsertJob(i)
      PROVE  job[i] = "none" /\ SetJob(i, "pending") /\ UNCHANGED approvals
  BY <1>2 DEF InsertJob
<1>3. ASSUME NEW i \in Jobs, UiApprove(i) \/ UiReject(i)
      PROVE  /\ job[i] = "waitingApproval"
             /\ \/ SetJob(i, "rejected") /\ UNCHANGED approvals
                \/ SetJob(i, "approved") /\ approvals' = approvals \cup {i}
  BY <1>3 DEF Orderly, UiApprove, UiReject, PageShows, PatchJob
<1>4. ASSUME NEW i \in Jobs, RestApprove(i)
      PROVE  /\ JobStep(i) /\ approvals' = approvals \cup {i}
             /\ job[i] = "waitingApproval" /\ job'[i] = "waitingApproval"
  <2>1. /\ UNCHANGED job /\ approvals' = approvals \cup {i}
        /\ job[i] = "waitingApproval"
    BY <1>4 DEF Orderly, RestApprove, PageShows, tables
  <2> QED
    BY <2>1, NoWork DEF JobStep, LifeStep
<1>5. \/ UNCHANGED <<job, approvals>>
      \/ \E i \in Jobs : InsertJob(i) \/ UiApprove(i) \/ UiReject(i) \/ RestApprove(i)
  <2>1. \A j \in Jobs : ~ UiCancel(j)
    BY DEF Orderly, UiCancel
  <2> QED
    BY <2>1 DEF Create, CreateJob, CreateRun, UserStep, RestReject, CliCancel, CliDiscard, CliLock,
       CliUnlock, tables
<1>6. CASE \E i \in Jobs : InsertJob(i)
  BY <1>1, <1>2, <1>6
<1>7. CASE \E i \in Jobs : UiApprove(i) \/ UiReject(i)
  BY <1>1, <1>3, <1>7
<1>8. CASE \E i \in Jobs : RestApprove(i)
  BY <1>4, <1>8
<1> QED
  BY <1>5, <1>6, <1>7, <1>8

LEMMA PodLife ==
    ASSUME Ready, NEW i \in Jobs, NEW m \in StepNumbers, ExecutorStep(i, m), UNCHANGED schedVars
    PROVE  LifeStep(i) /\ \A j \in Jobs \ {i} : job'[j] = job[j]
<1>1. PodMove(i, m) /\ Working(i, m) /\ (KeepsRunning(i, m) \/ HandsIn(i, m))
  BY PodMoves
<1>2. job[i] = "running"
  BY <1>1, PodView
<1>3. HandsIn(i, m) => job'[i] \in {"pending", "noChanges", "completed", "failed"}
  BY DEF Ready, HandsIn, GateInv, VerdictInv, TypeInv, TablesTypeOK, Pod, Verdicts
<1>4. HandsIn(i, m) /\ job'[i] = "completed" => pod[i][m].verdict = "completed"
  BY DEF HandsIn
<1> QED
  BY <1>1, <1>2, <1>3, <1>4 DEF PodMove, KeepsRunning, LifeStep

(* Every step of the system moves a job along its life, or leaves it alone. *)
LEMMA JobLife == ASSUME Ready, [Next]_vars, NEW j \in Jobs PROVE LifeStep(j)
<1>1. LonePoller
  BY DEF Ready, Orderly
<1>2. (\E i \in Jobs : JobStep(i)) => LifeStep(j)
  BY DEF JobStep, LifeStep
<1>3. UNCHANGED job => LifeStep(j)
  BY DEF LifeStep
<1>4. CASE \E r \in Replicas : Tick(r)
  BY <1>3, <1>4 DEF Tick, PollJobs, tables
<1>5. CASE \E r \in Replicas : LoopStep(r)
  BY <1>2, <1>3, <1>5, LoopLife
<1>6. CASE \E c \in calls : CallStep(c)
  <2>1. \A c \in calls : Execute(c) => UNCHANGED job
    BY DEF Execute, tables
  <2> QED
    BY <1>2, <1>3, <1>6, <2>1, CallLife DEF CallStep
<1>7. CASE Create \/ UserStep \/ \E w \in Workspaces : CliUnlock(w)
  BY <1>2, <1>3, <1>7, UserLife
<1>8. CASE \E q \in requests : RequestStep(q)
  BY <1>2, <1>3, <1>8, RequestLife
<1>9. CASE (\E i \in Jobs, n \in StepNumbers : ExecutorStep(i, n)) /\ UNCHANGED schedVars
  <2>1. PICK i \in Jobs, n \in StepNumbers : ExecutorStep(i, n)
    BY <1>9
  <2>2. LifeStep(i) /\ \A k \in Jobs \ {i} : job'[k] = job[k]
    BY <1>9, <2>1, PodLife
  <2> QED
    BY <2>2 DEF LifeStep
<1>10. CASE UNCHANGED vars
  BY <1>3, <1>10 DEF vars, tables
<1> QED
  BY <1>1, <1>4, <1>5, <1>6, <1>7, <1>8, <1>9, <1>10, Steps

(* The job that one polling process works on is nobody else's, and its      *)
(* steps are settled in order: the invariant the theorems below rest on.    *)
Safe == TypeInv /\ GateInv /\ ClaimInv /\ QueueInv

LEMMA InitSafe == Init => Safe
BY InitTypeInv, InitGateInv, InitClaimInv, InitQueueInv DEF Safe

LEMMA NextSafe == Orderly /\ Safe /\ [Next]_vars => Safe'
BY NextTypeInv, NextGateInv, NextClaimInv, NextQueueInv DEF Safe, Ready, Orderly

LEMMA SafeReady == Orderly /\ Safe => Ready
BY DEF Safe, Ready

(* With one polling process, decisions at the gates only, and executors     *)
(* whose answers arrive: every job has one owner at a time, its steps are   *)
(* settled and launched in ascending order, and none of them while another  *)
(* one is open.                                                             *)
THEOREM OneOwnerPerJob == Orderly => (Spec => []QueueInv)
<1> SUFFICES ASSUME Orderly PROVE Spec => []QueueInv
  OBVIOUS
<1>1. Safe => QueueInv
  BY DEF Safe
<1>2. Safe /\ [Next]_vars => Safe'
  BY NextSafe
<1> QED
  BY <1>1, <1>2, InitSafe, PTL DEF Spec

(* Then a job that ended stays as it ended: no loop, handler, goroutine or  *)
(* executor that is still at work writes its status again.                  *)
THEOREM EndedStaysEnded == Orderly => (Spec => TerminalIsFinal)
<1> SUFFICES ASSUME Orderly PROVE Spec => TerminalIsFinal
  OBVIOUS
<1>1. Safe /\ [Next]_vars => [\A j \in Jobs : job[j] \in Terminal => job'[j] = job[j]]_vars
  BY SafeReady, JobLife DEF LifeStep, Terminal
<1>2. Safe /\ [Next]_vars => Safe'
  BY NextSafe
<1> QED
  BY <1>1, <1>2, InitSafe, PTL DEF Spec, TerminalIsFinal
--------------------------------------------------------------------------------
(* Per-workspace FIFO: a job that has left the state pending, or is about   *)
(* to, has no older job of its workspace before it that has not ended.      *)
FrontInv ==
    /\ \A j, k \in Jobs : k < j /\ job[j] # "none" => job[k] # "none"
    /\ \A j \in Jobs :
          job[j] \in {"approved", "queue", "running", "waitingApproval"} => OlderActive(j) = {}
    /\ \A r \in Replicas : sched[r].pc = "claimJob" => OlderActive(CurrentJob(r)) = {}

LEMMA InitFrontInv == Init => FrontInv
BY DEF Init, TablesInit, SchedInit, IdleLoop, FrontInv

LEMMA FrontStays ==
    ASSUME Ready, FrontInv, [Next]_vars, NEW j \in Jobs, job[j] # "none", OlderActive(j) = {}
    PROVE  OlderActive(j)' = {}
<1> SUFFICES ASSUME NEW k \in Jobs, k < j, WorkspaceOf[k] = WorkspaceOf[j],
                    job'[k] \notin Terminal \cup {"none"}
             PROVE  FALSE
  BY DEF OlderActive
<1>1. job[k] \in Terminal
  BY DEF FrontInv, OlderActive
<1> QED
  BY <1>1, JobLife DEF LifeStep, Terminal

LEMMA ClaimIsFront ==
    ASSUME Ready, FrontInv, [Next]_vars, NEW r \in Replicas, sched'[r].pc = "claimJob"
    PROVE  OlderActive(CurrentJob(r))' = {}
<1> USE DEF Ready
<1>1. LonePoller /\ \A q \in Replicas : q = r
  BY DEF Orderly, LonePoller
<1>2. CASE CheckOlder(r)
  <2>1. PICK x \in First(sched[r].rows) :
           IF OlderActive(x.id) = {} THEN TakeRow(r, x, "claimJob", 0)
                                     ELSE NextRow(r, sched[r].rows \ {x})
    BY <1>2 DEF CheckOlder
  <2>2. OlderActive(x.id) = {} /\ sched'[r].row = x
    BY <2>1, NextRowAt, TakeRowAt
  <2>3. UNCHANGED job
    BY <1>2 DEF CheckOlder, tables
  <2> QED
    BY <2>2, <2>3 DEF OlderActive, CurrentJob
<1>3. CASE UNCHANGED sched
  <2>1. PICK i \in Jobs : i = CurrentJob(r)
    BY <1>3, HandFacts DEF NoRowPc
  <2>2. HandTurn(r, i)
    BY <1>3, <2>1, HandFacts DEF NoRowPc
  <2>3. job[i] # "none" /\ OlderActive(i) = {}
    BY <1>3, <2>1, <2>2 DEF FrontInv, HandTurn, RowTurn, CurrentJob
  <2>4. OlderActive(i)' = {}
    BY <2>3, FrontStays
  <2>5. CurrentJob(r)' = i
    BY <1>3, <2>1 DEF CurrentJob
  <2> QED
    BY <2>4, <2>5 DEF OlderActive
<1>4. ~ Tick(r)
  BY NextRowAt DEF Tick, PollJobs
<1>5. LoopStep(r) => CheckOlder(r)
  BY ClaimMoves
<1>6. (\E c \in calls : CallStep(c)) => UNCHANGED sched
  BY DEF CallStep, Execute, FailCall
<1> QED
  BY <1>1, <1>2, <1>3, <1>4, <1>5, <1>6, Steps DEF schedVars, vars

LEMMA NextFrontInv == Ready /\ FrontInv /\ [Next]_vars => FrontInv'
<1> SUFFICES ASSUME Ready, FrontInv, [Next]_vars PROVE FrontInv'
  OBVIOUS
<1>1. ASSUME NEW j \in Jobs, NEW k \in Jobs, k < j, job'[j] # "none" PROVE job'[k] # "none"
  <2>1. JobMove(j) /\ JobMove(k)
    BY JobMoves DEF Ready, Orderly, GateInv, InitInv
  <2>2. job[k] # "none"
    BY <1>1, <2>1 DEF FrontInv, JobMove, Inserts, InsertJob
  <2> QED
    BY <2>1, <2>2 DEF JobMove
<1>2. ASSUME NEW j \in Jobs, job'[j] \in {"approved", "queue", "running", "waitingApproval"}
      PROVE  OlderActive(j)' = {}
  <2>1. LifeStep(j)
    BY JobLife
  <2>2. CASE job[j] \in {"approved", "queue", "running", "waitingApproval"}
    BY <2>2, FrontStays DEF FrontInv
  <2>3. CASE job[j] = "pending" /\ HandAt("claimJob", j)
    <3>1. OlderActive(j) = {}
      BY <2>3 DEF HandAt, FrontInv, InHand, CurrentJob
    <3> QED
      BY <2>3, <3>1, FrontStays
  <2> QED
    BY <1>2, <2>1, <2>2, <2>3 DEF LifeStep
<1> QED
  BY <1>1, <1>2, ClaimIsFront DEF FrontInv

(* At most one executor works on a workspace, and only on the run in front. *)
LEMMA AloneAtWork ==
    ASSUME Ready, FrontInv, NEW j \in Jobs, NEW k \in Jobs, WorkspaceOf[j] = WorkspaceOf[k],
           job[j] = "running", job[k] = "running"
    PROVE  j = k
<1>1. j \in Nat /\ k \in Nat
  BY NumJobsAssumption DEF Jobs
<1>2. ~ (j < k) /\ ~ (k < j)
  BY DEF FrontInv, OlderActive, Terminal
<1> QED
  BY <1>1, <1>2

(* Two executors never work on one workspace at a time: not on two runs,    *)
(* and not on two steps of one run.                                         *)
THEOREM WorkspacesRunAlone == Orderly => (Spec => []OneRunPerWorkspace)
<1> SUFFICES ASSUME Orderly PROVE Spec => []OneRunPerWorkspace
  OBVIOUS
<1>1. Safe /\ FrontInv => OneRunPerWorkspace
  <2> SUFFICES ASSUME Safe, FrontInv, NEW j \in Jobs, NEW k \in Jobs,
                      WorkspaceOf[j] = WorkspaceOf[k],
                      NEW m \in StepNumbers, NEW n \in StepNumbers, Running(j, m), Running(k, n)
               PROVE  j = k /\ m = n
    BY DEF OneRunPerWorkspace
  <2>1. Working(j, m) /\ Working(k, n)
    BY DEF Running, Working
  <2>2. job[j] = "running" /\ job[k] = "running" /\ \A l \in StepNumbers : Working(j, l) => l = m
    BY <2>1, SafeReady, PodView
  <2>3. j = k
    BY <2>2, SafeReady, AloneAtWork
  <2> QED
    BY <2>1, <2>2, <2>3
<1>2. Init => Safe /\ FrontInv
  BY InitSafe, InitFrontInv
<1>3. Safe /\ FrontInv /\ [Next]_vars => Safe' /\ FrontInv'
  BY NextSafe, SafeReady, NextFrontInv
<1> QED
  BY <1>1, <1>2, <1>3, PTL DEF Spec
--------------------------------------------------------------------------------
(* The refinement: what a state means for the run queue.                    *)
Open == {"pending", "approved", "queue", "running"}

PhaseOf(status) ==
    CASE status = "none" -> "absent"
      [] status = "waitingApproval" -> "deciding"
      [] status \in Terminal -> "over"
      [] OTHER -> "open"

Phases == [j \in Jobs |-> PhaseOf(job[j])]
HandedOver == [j \in Jobs |-> {n \in StepNumbers : launches[j][n] > 0}]
Busy == [j \in Jobs |-> {n \in StepNumbers : Working(j, n)}]

LEMMA PhaseOfStatus ==
    ASSUME NEW s \in JobStatus
    PROVE  /\ PhaseOf(s) = "absent" <=> s = "none"
           /\ PhaseOf(s) = "deciding" <=> s = "waitingApproval"
           /\ PhaseOf(s) = "over" <=> s \in Terminal
           /\ PhaseOf(s) = "open" <=> s \in Open
BY DEF PhaseOf, JobStatus, Open, Terminal

LEMMA PhasesMove ==
    ASSUME NEW i \in Jobs, \A j \in Jobs \ {i} : job'[j] = job[j]
    PROVE  /\ Phases' = [Phases EXCEPT ![i] = PhaseOf(job'[i])]
           /\ job'[i] = job[i] => Phases' = Phases
BY DEF Phases

LEMMA BusyMoves ==
    ASSUME NEW i \in Jobs, \A j \in Jobs \ {i}, n \in StepNumbers : pod'[j][n] = pod[j][n]
    PROVE  Busy' = [Busy EXCEPT ![i] = {n \in StepNumbers : Working(i, n)'}]
<1> DEFINE NowBusy(j) == {n \in StepNumbers : Working(j, n)'}
<1>1. \A j \in Jobs \ {i}, n \in StepNumbers : Working(j, n)' <=> Working(j, n)
  BY DEF Working
<1>2. \A j \in Jobs \ {i} : NowBusy(j) = {n \in StepNumbers : Working(j, n)}
  BY <1>1
<1>3. Busy' = [j \in Jobs |-> NowBusy(j)] /\ Busy = [j \in Jobs |-> {n \in StepNumbers : Working(j, n)}]
  BY DEF Busy
<1> HIDE DEF NowBusy
<1>4. Busy' = [Busy EXCEPT ![i] = NowBusy(i)]
  BY <1>2, <1>3
<1> QED
  BY <1>4 DEF NowBusy

LEMMA ClusterStays == UNCHANGED cluster => UNCHANGED <<HandedOver, Busy>>
BY DEF HandedOver, Busy, Working, cluster

LEMMA Mapping ==
    /\ RQ!abstractVars = <<Phases, HandedOver, Busy, approvals>>
    /\ RQ!abstractVars' = <<Phases, HandedOver, Busy, approvals>>'
BY DEF RQ!abstractVars, Phases, PhaseOf, HandedOver, Busy, Working

LEMMA MapsToArrive ==
    ASSUME NEW i \in Jobs, Phases[i] = "absent", Phases' = [Phases EXCEPT ![i] = "open"],
           UNCHANGED <<HandedOver, Busy, approvals>>
    PROVE  RQ!Next
<1>1. RQ!Arrive(i)
  BY DEF RQ!Arrive, Phases, PhaseOf, HandedOver, Busy, Working
<1> QED
  BY <1>1 DEF RQ!Next

LEMMA MapsToPark ==
    ASSUME NEW i \in Jobs, Phases[i] = "open", Busy[i] = {},
           Phases' = [Phases EXCEPT ![i] = "deciding"],
           UNCHANGED <<HandedOver, Busy, approvals>>
    PROVE  RQ!Next
<1>1. RQ!Park(i)
  BY DEF RQ!Park, Phases, PhaseOf, HandedOver, Busy, Working
<1> QED
  BY <1>1 DEF RQ!Next

LEMMA MapsToEnd ==
    ASSUME NEW i \in Jobs, (Phases[i] = "open" /\ Busy[i] = {}) \/ Phases[i] = "deciding",
           Phases' = [Phases EXCEPT ![i] = "over"],
           UNCHANGED <<HandedOver, Busy, approvals>>
    PROVE  RQ!Next
<1>1. RQ!End(i) \/ RQ!Reject(i)
  BY DEF RQ!End, RQ!Reject, Phases, PhaseOf, HandedOver, Busy, Working
<1> QED
  BY <1>1 DEF RQ!Next

LEMMA MapsToApprove ==
    ASSUME NEW i \in Jobs, Phases[i] = "deciding", approvals' = approvals \cup {i},
           Phases' \in {Phases, [Phases EXCEPT ![i] = "open"]},
           UNCHANGED <<HandedOver, Busy>>
    PROVE  RQ!Next
<1>1. RQ!Approve(i)
  BY DEF RQ!Approve, Phases, PhaseOf, HandedOver, Busy, Working
<1> QED
  BY <1>1 DEF RQ!Next

LEMMA MapsToLeave ==
    ASSUME NEW i \in Jobs, Busy[i] # {}, Busy' = [Busy EXCEPT ![i] = {}],
           Phases' \in {Phases, [Phases EXCEPT ![i] = "over"]},
           UNCHANGED <<HandedOver, approvals>>
    PROVE  RQ!Next
<1>1. RQ!Leave(i)
  BY DEF RQ!Leave, Phases, PhaseOf, HandedOver, Busy, Working
<1> QED
  BY <1>1 DEF RQ!Next

LEMMA MapsToHandOver ==
    ASSUME NEW i \in Jobs, NEW n \in StepNumbers, Phases[i] = "open",
           \A k \in Jobs : WorkspaceOf[k] = WorkspaceOf[i] =>
              Busy[k] = {} /\ (k < i => Phases[k] \in {"absent", "over"}),
           \A m \in HandedOver[i] : m < n,
           (\E g \in Gates(i) : g < n) => i \in approvals \cup AutoApply,
           HandedOver' = [HandedOver EXCEPT ![i] = @ \cup {n}],
           Busy' \in {Busy, [Busy EXCEPT ![i] = {n}]},
           UNCHANGED <<Phases, approvals>>
    PROVE  RQ!Next
<1>1. RQ!HandOver(i, n)
  BY DEF RQ!HandOver, Phases, PhaseOf, HandedOver, Busy, Working, Gates
<1> QED
  BY <1>1 DEF RQ!Next

(* A step that writes one job, none of whose steps is at work.              *)
LEMMA JobStepMaps ==
    ASSUME Ready, TypeInv', NEW i \in Jobs, JobStep(i), UNCHANGED cluster,
           \/ /\ UNCHANGED approvals
              /\ job[i] = "waitingApproval" /\ job'[i] \in {"approved", "queue"} => i \in approvals
           \/ /\ approvals' = approvals \cup {i} /\ job[i] = "waitingApproval"
              /\ job'[i] \in {"waitingApproval", "approved"}
    PROVE  [RQ!Next]_(RQ!abstractVars)
<1> DEFINE s == job[i]
           t == job'[i]
<1>1. /\ Phases' = [Phases EXCEPT ![i] = PhaseOf(t)]
      /\ t = s => Phases' = Phases
      /\ UNCHANGED <<HandedOver, Busy>>
  BY PhasesMove, ClusterStays DEF JobStep
<1>2. Busy[i] = {} /\ Phases[i] = PhaseOf(s)
  BY DEF JobStep, Busy, Phases
<1>3. s \in JobStatus /\ t \in JobStatus
  BY DEF Ready, TypeInv, TablesTypeOK
<1>4. LifeStep(i)
  BY DEF JobStep
<1>5. \/ PhaseOf(t) = PhaseOf(s)
      \/ PhaseOf(s) = "absent" /\ PhaseOf(t) = "open"
      \/ PhaseOf(s) = "open" /\ PhaseOf(t) \in {"deciding", "over"}
      \/ s = "waitingApproval" /\ t \in {"approved", "queue"} /\ PhaseOf(t) = "open"
      \/ s = "waitingApproval" /\ t = "rejected" /\ PhaseOf(t) = "over"
  BY <1>4 DEF LifeStep, PhaseOf, Terminal
<1>6. s = "waitingApproval" => PhaseOf(s) = "deciding"
  BY DEF PhaseOf, Terminal
<1>7. CASE approvals' = approvals \cup {i} /\ s = "waitingApproval"
                      /\ t \in {"waitingApproval", "approved"}
  <2>1. Phases' \in {Phases, [Phases EXCEPT ![i] = "open"]}
    BY <1>1, <1>7 DEF PhaseOf, Terminal
  <2> QED
    BY <1>1, <1>2, <1>6, <1>7, <2>1, MapsToApprove
<1>8. CASE UNCHANGED approvals /\ (s = "waitingApproval" /\ t \in {"approved", "queue"}
                                     => i \in approvals)
  <2>1. CASE PhaseOf(t) = PhaseOf(s)
    <3>1. Phases' = Phases
      BY <1>1, <1>2, <2>1 DEF Phases
    <3> QED
      BY <1>1, <1>8, <3>1, Mapping
  <2>2. CASE PhaseOf(s) = "absent" /\ PhaseOf(t) = "open"
    BY <1>1, <1>2, <1>8, <2>2, MapsToArrive
  <2>3. CASE PhaseOf(s) = "open" /\ PhaseOf(t) = "deciding"
    BY <1>1, <1>2, <1>8, <2>3, MapsToPark
  <2>4. CASE PhaseOf(s) \in {"open", "deciding"} /\ PhaseOf(t) = "over"
    BY <1>1, <1>2, <1>8, <2>4, MapsToEnd
  <2>5. CASE s = "waitingApproval" /\ t \in {"approved", "queue"} /\ PhaseOf(t) = "open"
    <3>1. approvals' = approvals \cup {i}
      BY <1>8, <2>5
    <3> QED
      BY <1>1, <1>2, <1>6, <2>5, <3>1, MapsToApprove
  <2> QED
    BY <1>5, <1>6, <2>1, <2>2, <2>3, <2>4, <2>5
<1> QED
  BY <1>7, <1>8

LEMMA ExecuteMaps ==
    ASSUME Ready, FrontInv, NEW c \in calls, Execute(c), UNCHANGED apiVars
    PROVE  RQ!Next
<1> USE DEF Ready
<1>1. PICK i \in Jobs, n \in StepNumbers : i = c.id /\ n = c.num
  BY DEF TypeInv, Call
<1>2. /\ JobInv(i) /\ CallTurn(c) /\ \A m \in StepNumbers : ~ Working(i, m)
  BY <1>1, CallView
<1>3. /\ c.pc = "execute" /\ UNCHANGED <<job, approvals>>
      /\ launches' = [launches EXCEPT ![i][n] = @ + 1]
      /\ StartPod(i, n, c.type) \/ UNCHANGED pod
  BY <1>1 DEF Execute, tables, apiVars
<1>4. job[i] = "running"
  BY <1>1, <1>2, <1>3 DEF CallTurn
<1>5. Phases[i] = "open" /\ UNCHANGED Phases
  BY <1>3, <1>4 DEF Phases, PhaseOf, Terminal
<1>6. ASSUME NEW k \in Jobs, WorkspaceOf[k] = WorkspaceOf[i]
      PROVE  Busy[k] = {} /\ (k < i => Phases[k] \in {"absent", "over"})
  <2>1. \A m \in StepNumbers : ~ Working(k, m)
    BY <1>2, <1>4, <1>6, AloneAtWork, PodView
  <2>2. k < i => job[k] \in Terminal \cup {"none"}
    BY <1>4, <1>6 DEF FrontInv, OlderActive
  <2> QED
    BY <2>1, <2>2 DEF Busy, Phases, PhaseOf, Terminal
<1>7. launches \in [Jobs -> [StepNumbers -> Nat]] /\ pod \in [Jobs -> [StepNumbers -> Pod]]
  BY DEF TypeInv, TablesTypeOK
<1>8. \A m \in HandedOver[i] : m < n
  <2>1. Ahead(i, n)
    BY <1>1, <1>3 DEF Ahead, Dispatches
  <2> QED
    BY <1>2, <1>7, <2>1 DEF HandedOver, JobInv, LaunchInv
<1>9. (\E g \in Gates(i) : g < n) => i \in approvals \cup AutoApply
  <2>1. Free(i, n)
    BY <1>1 DEF GateInv, FreeInv
  <2>2. \A g \in Gates(i) : g \in StepNumbers
    BY DEF Gates
  <2>3. \A g \in StepNumbers : ~ (g < n /\ n < g)
    BY StepOrder
  <2> QED
    BY <2>1, <2>2, <2>3 DEF Free, Guarded
<1>10. HandedOver' = [HandedOver EXCEPT ![i] = @ \cup {n}]
  <2>1. \A j \in Jobs, m \in StepNumbers :
           launches'[j][m] > 0 <=> launches[j][m] > 0 \/ (j = i /\ m = n)
    BY <1>3, <1>7
  <2> QED
    BY <2>1 DEF HandedOver
<1>11. Busy' \in {Busy, [Busy EXCEPT ![i] = {n}]}
  <2>1. CASE UNCHANGED pod
    BY <2>1 DEF Busy, Working
  <2>2. CASE StartPod(i, n, c.type)
    <3>1. /\ \A j \in Jobs \ {i}, m \in StepNumbers : pod'[j][m] = pod[j][m]
          /\ \A m \in StepNumbers : IF m = n THEN pod'[i][m].pc = "created"
                                             ELSE pod'[i][m] = pod[i][m]
      BY <1>7, <2>2 DEF StartPod
    <3>2. {m \in StepNumbers : Working(i, m)'} = {n}
      BY <1>2, <3>1 DEF Working
    <3> QED
      BY <3>1, <3>2, BusyMoves
  <2> QED
    BY <1>3, <2>1, <2>2
<1> QED
  BY <1>3, <1>5, <1>6, <1>8, <1>9, <1>10, <1>11, MapsToHandOver

LEMMA PodMaps ==
    ASSUME Ready, TypeInv', NEW i \in Jobs, NEW m \in StepNumbers, ExecutorStep(i, m),
           UNCHANGED schedVars
    PROVE  [RQ!Next]_(RQ!abstractVars)
<1>1. PodMove(i, m) /\ Working(i, m) /\ (KeepsRunning(i, m) \/ HandsIn(i, m))
  BY PodMoves
<1>2. job[i] = "running" /\ \A n \in StepNumbers : Working(i, n) => n = m
  BY <1>1, PodView
<1>3. /\ UNCHANGED approvals
      /\ \A j \in Jobs \ {i} : job'[j] = job[j]
  <2>1. UNCHANGED approvals
    BY DEF ExecutorStep, PodStep, BeginStep, BeginJob, EndWork, NoticeCancel, ReportStep,
       ReportJob, ExitSilently, LosePod, apiVars
  <2> QED
    BY <1>1, <2>1 DEF PodMove
<1>4. UNCHANGED HandedOver /\ Busy[i] = {m}
  BY <1>1, <1>2 DEF PodMove, HandedOver, Busy
<1>5. /\ Working(i, m)' => Busy' = Busy
      /\ ~ Working(i, m)' => Busy' = [Busy EXCEPT ![i] = {}]
  <2>1. Busy' = [Busy EXCEPT ![i] = {n \in StepNumbers : Working(i, n)'}]
    BY <1>1, BusyMoves DEF PodMove
  <2>2. \A n \in StepNumbers : Working(i, n)' => n = m
    BY <1>1, <1>2 DEF PodMove, Working
  <2>3. Working(i, m)' => {n \in StepNumbers : Working(i, n)'} = {m}
    BY <2>2
  <2>4. ~ Working(i, m)' => {n \in StepNumbers : Working(i, n)'} = {}
    BY <2>2
  <2>5. Busy = [Busy EXCEPT ![i] = {m}]
    BY <1>4 DEF Busy
  <2> QED
    BY <2>1, <2>3, <2>4, <2>5
<1>6. Phases' \in {Phases, [Phases EXCEPT ![i] = "over"]}
      /\ (Working(i, m)' => Phases' = Phases)
  <2>1. CASE KeepsRunning(i, m)
    BY <1>2, <1>3, <2>1, PhasesMove DEF KeepsRunning
  <2>2. CASE HandsIn(i, m)
    <3>1. job'[i] \in {"pending", "noChanges", "completed", "failed"}
      BY <2>2 DEF Ready, HandsIn, GateInv, VerdictInv, TypeInv, TablesTypeOK, Pod, Verdicts
    <3>2. PhaseOf(job'[i]) \in {"open", "over"} /\ Phases[i] = "open"
      BY <1>2, <3>1 DEF Phases, PhaseOf, Terminal
    <3>3. Phases' = [Phases EXCEPT ![i] = PhaseOf(job'[i])]
      BY <1>3, PhasesMove
    <3>4. ~ Working(i, m)'
      BY <2>2 DEF HandsIn, Working
    <3> QED
      BY <3>2, <3>3, <3>4 DEF Phases
  <2> QED
    BY <1>1, <2>1, <2>2
<1>7. CASE Working(i, m)'
  BY <1>3, <1>4, <1>5, <1>6, <1>7, Mapping
<1>8. CASE ~ Working(i, m)'
  BY <1>3, <1>4, <1>5, <1>6, <1>8, MapsToLeave
<1> QED
  BY <1>7, <1>8

LEMMA LoopMaps ==
    ASSUME Ready, TypeInv', NEW r \in Replicas, LoopStep(r), UNCHANGED apiVars
    PROVE  [RQ!Next]_(RQ!abstractVars)
<1>1. sched[r].pc # "kill"
  BY DEF Ready, QueueInv, HandInv
<1>2. UNCHANGED cluster
  BY <1>1, Zenon DEF LoopStep, CheckOlder, ClaimJob, PassGate, UnlockWorkspace, LookupStep,
     SkipStep, Advance, CountOpen, Tally, FinishJob, ReleaseFinished, ParkStep, ParkJob,
     ClaimStep, LockWorkspace, HandBack, RunJob, Spawn, NoExecutor, PollCancels, KillPods, At
<1>3. CASE UNCHANGED job
  BY <1>2, <1>3, ClusterStays, Mapping DEF Phases, apiVars
<1>4. CASE \E i \in Jobs : JobStep(i) /\ InHand(r, i)
  <2>1. PICK i \in Jobs : JobStep(i) /\ InHand(r, i)
    BY <1>4
  <2>2. job[i] # "waitingApproval"
    BY <2>1, AbsentIf DEF Absent
  <2> QED
    BY <1>2, <2>1, <2>2, JobStepMaps DEF apiVars
<1> QED
  BY <1>3, <1>4, LoopLife

LEMMA ThreadMaps ==
    ASSUME Ready, TypeInv', UNCHANGED cluster,
           \/ (\E c \in calls : FailCall(c)) /\ UNCHANGED apiVars
           \/ (Create \/ UserStep \/ \E w \in Workspaces : CliUnlock(w)) /\ UNCHANGED schedVars
           \/ \E q \in requests : RequestStep(q)
    PROVE  [RQ!Next]_(RQ!abstractVars)
<1>1. CASE (\E c \in calls : FailCall(c)) /\ UNCHANGED apiVars
  <2>1. PICK c \in calls : FailCall(c)
    BY <1>1
  <2>2. CASE UNCHANGED job
    BY <1>1, <2>2, ClusterStays, Mapping DEF Phases, apiVars
  <2>3. CASE \E i \in Jobs : JobStep(i) /\ i = c.id
    <3>1. PICK i \in Jobs : JobStep(i) /\ i = c.id
      BY <2>3
    <3>2. job[i] # "waitingApproval"
      BY <3>1, NoWork
    <3> QED
      BY <1>1, <3>1, <3>2, JobStepMaps DEF apiVars
  <2> QED
    BY <2>1, <2>2, <2>3, CallLife
<1>2. CASE (Create \/ UserStep \/ \E w \in Workspaces : CliUnlock(w)) /\ UNCHANGED schedVars
  <2>1. CASE UNCHANGED <<job, approvals>>
    BY <2>1, ClusterStays, Mapping DEF Phases
  <2>2. CASE ~ UNCHANGED <<job, approvals>>
    BY <1>2, <2>2, UserLife, JobStepMaps
  <2> QED
    BY <2>1, <2>2
<1>3. CASE \E q \in requests : RequestStep(q)
  <2>1. UNCHANGED approvals
    BY <1>3 DEF RequestStep, ReadTcl, InsertStep, PatchHook, ReleaseLock, CompleteGate,
       Requeue, RejectGate, DiscardGate, DropSteps, CloseJob, CancelRun
  <2>2. CASE UNCHANGED job
    BY <2>1, <2>2, ClusterStays, Mapping DEF Phases
  <2>3. CASE \E i \in Jobs : JobStep(i) /\
                (job[i] = "waitingApproval" /\ job'[i] \in {"approved", "queue"} => i \in approvals)
    <3>1. PICK i \in Jobs :
             /\ JobStep(i)
             /\ job[i] = "waitingApproval" /\ job'[i] \in {"approved", "queue"}
                  => i \in approvals
      BY <2>3
    <3> QED
      BY <2>1, <3>1, JobStepMaps
  <2> QED
    BY <1>3, <2>2, <2>3, RequestLife
<1> QED
  BY <1>1, <1>2, <1>3

LEMMA NextMaps ==
    ASSUME Ready, TypeInv', FrontInv, [Next]_vars PROVE [RQ!Next]_(RQ!abstractVars)
<1>1. LonePoller
  BY DEF Ready, Orderly
<1>2. CASE \E r \in Replicas : Tick(r)
  BY <1>2, ClusterStays, Mapping DEF Tick, PollJobs, Phases, tables, apiVars
<1>3. CASE (\E r \in Replicas : LoopStep(r)) /\ UNCHANGED apiVars
  BY <1>3, LoopMaps
<1>4. CASE (\E c \in calls : CallStep(c)) /\ UNCHANGED apiVars
  <2>1. \A c \in calls : FailCall(c) => UNCHANGED cluster
    BY DEF FailCall
  <2> QED
    BY <1>4, <2>1, ExecuteMaps, ThreadMaps DEF CallStep
<1>5. CASE (Create \/ UserStep \/ \E w \in Workspaces : CliUnlock(w)) /\ UNCHANGED schedVars
  BY <1>5, UserSteps, ThreadMaps
<1>6. CASE (\E q \in requests : RequestStep(q)) /\ UNCHANGED schedVars
  <2>1. UNCHANGED cluster
    BY <1>6 DEF RequestStep, ReadTcl, InsertStep, PatchHook, ReleaseLock, CompleteGate,
       Requeue, RejectGate, DiscardGate, DropSteps, CloseJob, CancelRun
  <2> QED
    BY <1>6, <2>1, ThreadMaps
<1>7. CASE (\E j \in Jobs, n \in StepNumbers : ExecutorStep(j, n)) /\ UNCHANGED schedVars
  BY <1>7, PodMaps
<1>8. CASE UNCHANGED vars
  BY <1>8, ClusterStays, Mapping DEF vars, tables, apiVars, Phases
<1> QED
  BY <1>1, <1>2, <1>3, <1>4, <1>5, <1>6, <1>7, <1>8, Steps

LEMMA InitMaps == Init => RQ!Init
<1> SUFFICES ASSUME Init PROVE RQ!Init
  OBVIOUS
<1>1. \A j \in Jobs : job[j] = "none"
  BY DEF Init, TablesInit
<1>2. \A j \in Jobs, n \in StepNumbers : launches[j][n] = 0 /\ pod[j][n].pc = "none"
  BY DEF Init, TablesInit, NoPod
<1>3. Phases = [j \in Jobs |-> "absent"]
  BY <1>1 DEF Phases, PhaseOf, Terminal
<1>4. HandedOver = [j \in Jobs |-> {}] /\ Busy = [j \in Jobs |-> {}]
  BY <1>2 DEF HandedOver, Busy, Working
<1>5. approvals = {}
  BY DEF Init, ApiInit
<1> QED
  BY <1>3, <1>4, <1>5 DEF RQ!Init, Phases, PhaseOf, HandedOver, Busy, Working

(* One polling process implements the run queue, for every number of jobs   *)
(* and workspaces and every flow: runs in the order of their creation, one  *)
(* at a time per workspace, their steps handed over in ascending order,     *)
(* each once and only past approved gates, and verdicts that are final.     *)
THEOREM RunQueueImplemented == Orderly => (Spec => ImplementsRunQueue)
<1> SUFFICES ASSUME Orderly PROVE Spec => ImplementsRunQueue
  OBVIOUS
<1>1. Init => Safe /\ FrontInv /\ RQ!Init
  BY InitSafe, InitFrontInv, InitMaps
<1>2. Safe /\ FrontInv /\ [Next]_vars => Safe' /\ FrontInv'
  BY NextSafe, SafeReady, NextFrontInv
<1>3. Safe /\ FrontInv /\ [Next]_vars => [RQ!Next]_(RQ!abstractVars)
  BY <1>2, SafeReady, NextMaps DEF Safe
<1> QED
  BY <1>1, <1>2, <1>3, PTL DEF Spec, ImplementsRunQueue, RQ!Spec
--------------------------------------------------------------------------------
(* The lock of a workspace.                                                 *)

(* The job in front has been polled as queued, or is past that.             *)
Cleared(j) ==
    \/ job[j] = "running"
    \/ /\ job[j] = "queue"
       /\ \E r \in Replicas : \/ InHand(r, j) /\ sched[r].row.status = "queue"
                              \/ \E x \in sched[r].rows : x.id = j /\ x.status = "queue"

(* The lock has been taken for the job.                                     *)
Bound(j) == job[j] = "running" \/ HandAt("runJob", j)

(* Nobody works on the job any more, not even to release its workspace.     *)
LetGo(j) == Untouched(j) /\ \A r \in Replicas : ~ InHand(r, j)

LockInv ==
    /\ \A w \in Workspaces : ~ cli[w]
    /\ \A j \in Jobs : Bound(j) => locked[WorkspaceOf[j]]
    /\ \A j, k \in Jobs :
          Cleared(j) /\ WorkspaceOf[k] = WorkspaceOf[j] /\ job[k] \in Terminal => LetGo(k)

LEMMA InitLockInv == Init => LockInv
BY DEF Init, TablesInit, SchedInit, ApiInit, IdleLoop, LockInv, Bound, Cleared, HandAt

LEMMA BoundIsCleared ==
    ASSUME Ready, NEW j \in Jobs, Bound(j)
    PROVE  /\ Cleared(j)
           /\ job[j] = "running" \/ (job[j] = "queue" /\ HandAt("runJob", j))
<1>1. CASE job[j] = "running"
  BY <1>1 DEF Cleared
<1>2. CASE HandAt("runJob", j)
  <2>1. PICK r \in Replicas : sched[r].pc = "runJob" /\ InHand(r, j)
    BY <1>2 DEF HandAt
  <2>2. HandTurn(r, j)
    BY <2>1 DEF Ready, QueueInv, JobInv, TurnInv, LoopTurn
  <2> QED
    BY <1>2, <2>1, <2>2 DEF HandTurn, Cleared, ClaimPc, QueuePc
<1> QED
  BY <1>1, <1>2 DEF Bound

(* A thread about a job that is over was about it before.                   *)
LEMMA ThreadOf ==
    ASSUME Ready, [Next]_vars, NEW q \in requests', NEW k \in Jobs, q.id = k,
           job[k] \in Terminal
    PROVE  \E p \in requests : p.id = k
<1> USE DEF Ready
<1>1. CASE UNCHANGED requests
  BY <1>1
<1>2. ASSUME NEW p \in requests, RequestStep(p) PROVE \E o \in requests : o.id = k
  <2>1. UNCHANGED requests \/ Returns(p) \/ \E e : GoesOn(p, e)
    BY <1>2, RequestMoves
  <2> QED
    BY <1>1, <2>1 DEF Returns, GoesOn
<1>3. ASSUME NEW i \in Jobs, NEW e, requests' = requests \cup {e}, e.id = i,
             job[i] \notin Terminal
      PROVE  \E p \in requests : p.id = k
  BY <1>3
<1>4. ASSUME Create \/ UserStep \/ \E w \in Workspaces : CliUnlock(w)
      PROVE  \E p \in requests : p.id = k
  <2>1. ASSUME NEW i \in Jobs, NEW n, NEW pc, Start(i, n, pc), job[i] \notin Terminal
        PROVE  \E p \in requests : p.id = k
    BY <1>3, <2>1, Started
  <2>2. ASSUME NEW i \in Jobs, InsertJob(i) PROVE \E p \in requests : p.id = k
    BY <2>1, <2>2 DEF InsertJob, Terminal
  <2>3. ASSUME NEW i \in Jobs, UiApprove(i) \/ UiReject(i) PROVE \E p \in requests : p.id = k
    <3>1. job[i] = "waitingApproval" /\ \E s : PatchJob(i, s)
      BY <2>3 DEF Orderly, UiApprove, UiReject, PageShows
    <3> QED
      BY <1>1, <1>3, <3>1, PatchJobAt DEF Terminal
  <2>4. ASSUME NEW i \in Jobs, RestApprove(i) \/ RestReject(i) PROVE \E p \in requests : p.id = k
    <3>1. job[i] = "waitingApproval" /\ \E n, pc : Start(i, n, pc)
      BY <2>4 DEF Orderly, RestApprove, RestReject, PageShows
    <3> QED
      BY <2>1, <3>1 DEF Terminal
  <2>5. \A i \in Jobs : ~ UiCancel(i) /\ ~ CliCancel(i) /\ ~ CliDiscard(i)
    BY DEF Orderly, UiCancel, CliCancel, CliDiscard
  <2>6. \A w \in Workspaces : CliLock(w) \/ CliUnlock(w) => UNCHANGED requests
    BY DEF CliLock, CliUnlock
  <2> QED
    BY <1>1, <1>4, <2>2, <2>3, <2>4, <2>5, <2>6 DEF Create, CreateJob, CreateRun, UserStep
<1>5. ASSUME NEW i \in Jobs, NEW m \in StepNumbers, ExecutorStep(i, m), UNCHANGED schedVars
      PROVE  \E p \in requests : p.id = k
  <2>1. KeepsRunning(i, m) \/ HandsIn(i, m)
    BY <1>5, PodMoves
  <2>2. job[i] = "running"
    BY <1>5, PodMoves, PodView
  <2> QED
    BY <1>1, <1>3, <2>1, <2>2 DEF KeepsRunning, HandsIn, Terminal
<1> QED
  BY <1>1, <1>2, <1>4, <1>5, Steps DEF Orderly, Tick, apiVars, vars

(* What was let go stays so.                                                *)
LEMMA StaysLetGo ==
    ASSUME Ready, [Next]_vars, NEW k \in Jobs, job[k] \in Terminal, LetGo(k)
    PROVE  LetGo(k)'
<1> USE DEF Ready, Orderly
<1>1. \A q \in requests' : q.id # k
  BY ThreadOf DEF LetGo, Untouched
<1>2. ASSUME NEW r \in Replicas PROVE ~ InHand(r, k)'
  <2>1. ~ InHand(r, k)
    BY DEF LetGo
  <2>2. \A x \in sched[r].rows : x.id # k
    BY DEF QueueInv, JobInv, TurnInv, LoopTurn, RowTurn, Terminal
  <2> QED
    BY <2>1, <2>2, StillPolled DEF Polled
<1>3. (\A c \in calls' : c.id # k) /\ (\A n \in StepNumbers : ~ Working(k, n)')
  <2>1. CASE Quiet
    BY <2>1 DEF Quiet, Kept, LetGo, Untouched
  <2>2. CASE \E c \in calls : Starts(c)
    BY <2>2 DEF Starts, Kept, LetGo, Untouched
  <2>3. CASE \E r \in Replicas : Hires(r)
    BY <2>3 DEF Hires, LetGo, Untouched, cluster, Working, InHand, CurrentJob
  <2> QED
    BY <2>1, <2>2, <2>3, Activity
<1> QED
  BY <1>1, <1>2, <1>3 DEF LetGo, Untouched

(* Where the row that a loop has in hand, or is to take, comes from.        *)
LEMMA RowsFrom ==
    ASSUME Ready, HandInv', [Next]_vars, NEW r \in Replicas
    PROVE  \/ Tick(r)
           \/ /\ sched'[r].rows \subseteq sched[r].rows
              /\ sched'[r].row \in {sched[r].row, NoRow} \cup sched[r].rows
<1> USE DEF Ready
<1>1. CASE UNCHANGED sched
  BY <1>1
<1>2. CASE LoopStep(r)
  BY <1>2, LoopMoves DEF HandInv, First
<1>3. (\E c \in calls : CallStep(c)) => UNCHANGED sched
  BY DEF CallStep, Execute, FailCall
<1>4. \A q \in Replicas : q = r
  BY DEF Orderly, LonePoller
<1> QED
  BY <1>1, <1>2, <1>3, <1>4, Steps DEF Orderly, schedVars, vars

LEMMA ClearedMoves ==
    ASSUME Ready, HandInv', [Next]_vars, NEW j \in Jobs, Cleared(j)'
    PROVE  Cleared(j) \/ \E r \in Replicas : Tick(r)
<1> USE DEF Ready
<1>1. LifeStep(j)
  BY JobLife
<1>2. HandAt("runJob", j) => Cleared(j)
  BY BoundIsCleared DEF Bound
<1>3. CASE job'[j] = "running"
  BY <1>1, <1>2, <1>3 DEF LifeStep, Cleared
<1>4. ASSUME job'[j] = "queue", NEW r \in Replicas, NEW x \in sched[r].rows, x.id = j,
             x.status = "queue"
      PROVE  Cleared(j)
  <2>1. RowTurn(x)
    BY <1>4 DEF QueueInv, JobInv, TurnInv, LoopTurn
  <2> QED
    BY <1>4, <2>1 DEF RowTurn, Cleared
<1>5. ASSUME job'[j] = "queue", NEW r \in Replicas, InHand(r, j),
             sched[r].row.status = "queue"
      PROVE  Cleared(j)
  <2>1. HandTurn(r, j)
    BY <1>5 DEF QueueInv, JobInv, TurnInv, LoopTurn
  <2>2. sched[r].pc \in SchedPc /\ sched[r].pc \notin NoRowPc \cup {"kill"}
    BY <1>5, NoRowInHand DEF QueueInv, HandInv, InHand, TypeInv, LoopsOK, Loop
  <2>3. job[j] \in {"queue", "running", "completed", "failed"}
    BY <1>5, <2>1, <2>2 DEF HandTurn, SchedPc, NoRowPc, ClaimPc, QueuePc, RunPc, HoldingPc
  <2>4. job[j] \notin {"completed", "failed"}
    BY <1>1, <1>5 DEF LifeStep
  <2> QED
    BY <1>5, <2>3, <2>4 DEF Cleared
<1>6. CASE job'[j] = "queue" /\ ~ \E r \in Replicas : Tick(r)
  <2>1. PICK r \in Replicas : \/ sched'[r].row.id = j /\ sched'[r].row.status = "queue"
                              \/ \E x \in sched'[r].rows : x.id = j /\ x.status = "queue"
    BY <1>6 DEF Cleared, InHand
  <2>2. /\ sched'[r].rows \subseteq sched[r].rows
        /\ sched'[r].row \in {sched[r].row, NoRow} \cup sched[r].rows
    BY <1>6, RowsFrom
  <2> QED
    BY <1>4, <1>5, <1>6, <2>1, <2>2, NoRowInHand DEF InHand
<1> QED
  BY <1>3, <1>6 DEF Cleared

(* The loop only comes to write "running" past the lock.                    *)
LEMMA RunJobMoves ==
    ASSUME TypeInv, NEW r \in Replicas, LoopStep(r), sched'[r].pc = "runJob"
    PROVE  /\ sched'[r].row = sched[r].row
           /\ locked' = [locked EXCEPT ![CurrentWorkspace(r)] = TRUE]
<1>1. sched \in [Replicas -> Loop]
  BY DEF TypeInv, LoopsOK
<1>2. ASSUME NEW pc, Goto(r, pc) PROVE pc = "runJob"
  BY <1>2, GotoAt
<1>3. ~ \E rows : NextRow(r, rows)
  BY NextRowAt
<1>4. ~ EndOfRow(r)
  BY <1>3 DEF EndOfRow
<1>5. ~ CheckOlder(r)
  <2>1. \A x : ~ TakeRow(r, x, "claimJob", 0)
    BY TakeRowAt
  <2> QED
    BY <1>3, <2>1 DEF CheckOlder
<1>6. ~ LookupStep(r)
  <2>1. ASSUME NEW x, NEW n, NEW pc, TakeRow(r, x, pc, n) PROVE pc = "runJob"
    BY <2>1, TakeRowAt
  <2> QED
    BY <2>1, StageType DEF LookupStep
<1>7. ~ PollCancels(r) /\ ~ KillPods(r)
  <2>1. CASE PollCancels(r)
    BY <1>1, <2>1 DEF PollCancels, IdleLoop
  <2>2. CASE KillPods(r)
    <3>1. PICK x \in First(sched[r].rows) : sched' = [sched EXCEPT ![r] =
             [IdleLoop EXCEPT !.pc = IF sched[r].rows \ {x} = {} THEN "idle" ELSE "kill",
                              !.rows = sched[r].rows \ {x}]]
      BY <2>2, Zenon DEF KillPods
    <3> QED
      BY <1>1, <3>1 DEF IdleLoop
  <2> QED
    BY <2>1, <2>2
<1>8. ~ (ClaimJob(r) \/ PassGate(r) \/ UnlockWorkspace(r) \/ SkipStep(r) \/ Advance(r)
          \/ CountOpen(r) \/ Tally(r) \/ FinishJob(r) \/ ReleaseFinished(r) \/ ParkStep(r)
          \/ ParkJob(r))
  BY <1>2, <1>4 DEF ClaimJob, PassGate, UnlockWorkspace, SkipStep, Advance, CountOpen, Tally,
     FinishJob, ReleaseFinished, ParkStep, ParkJob
<1>9. ~ (ClaimStep(r) \/ HandBack(r) \/ RunJob(r) \/ Spawn(r) \/ NoExecutor(r))
  BY <1>2, <1>4 DEF ClaimStep, HandBack, RunJob, Spawn, NoExecutor
<1>10. LockWorkspace(r)
  BY <1>5, <1>6, <1>7, <1>8, <1>9 DEF LoopStep
<1>11. SetLock(CurrentWorkspace(r), TRUE) /\ Goto(r, "runJob")
  BY <1>2, <1>10 DEF LockWorkspace
<1> QED
  BY <1>11, GotoAt DEF SetLock

(* A lock is given back by the loop that queues a job, and otherwise only   *)
(* on behalf of a job that is over and not let go yet.                      *)
LEMMA LockMoves ==
    ASSUME Ready, \A w \in Workspaces : ~ cli[w], "cliLock" \notin Events, [Next]_vars,
           NEW w \in Workspaces, locked[w], ~ locked'[w]
    PROVE  \E k \in Jobs :
              /\ WorkspaceOf[k] = w
              /\ \/ \E r \in Replicas : sched[r].pc = "unlockWorkspace" /\ InHand(r, k)
                 \/ job[k] \in Terminal /\ ~ LetGo(k)
<1> USE DEF Ready
<1>1. locked # locked'
  OBVIOUS
<1>2. ASSUME NEW v, NEW b, SetLock(v, b) PROVE v = w /\ b # TRUE
  BY <1>2, WorkspaceOfAssumption DEF SetLock, TypeInv, TablesTypeOK
<1>3. ASSUME NEW r \in Replicas, LoopStep(r)
      PROVE  \E k \in Jobs :
              /\ WorkspaceOf[k] = w
              /\ \/ \E q \in Replicas : sched[q].pc = "unlockWorkspace" /\ InHand(q, k)
                 \/ job[k] \in Terminal /\ ~ LetGo(k)
  <2>1. /\ sched[r].pc \in {"unlockWorkspace", "release", "failRelease"}
        /\ SetLock(CurrentWorkspace(r), FALSE)
    <3>1. \/ UnlockWorkspace(r) \/ ReleaseFinished(r) \/ LockWorkspace(r)
          \/ NoExecutor(r)
      BY <1>1, <1>3, Zenon DEF LoopStep, CheckOlder, ClaimJob, PassGate, LookupStep, SkipStep,
         Advance, CountOpen, Tally, FinishJob, ParkStep, ParkJob, ClaimStep, HandBack, RunJob,
         Spawn, PollCancels, KillPods, tables
    <3>2. ~ LockWorkspace(r)
      BY <1>1, <1>2 DEF LockWorkspace
    <3>3. NoExecutor(r) => sched[r].pc = "failRelease" /\ SetLock(CurrentWorkspace(r), FALSE)
      BY <1>1 DEF NoExecutor, At, CurrentWorkspace
    <3> QED
      BY <3>1, <3>2, <3>3 DEF UnlockWorkspace, ReleaseFinished, At
  <2>2. PICK k \in Jobs : k = CurrentJob(r) /\ InHand(r, k) /\ HandTurn(r, k)
    BY <2>1, HandFacts DEF NoRowPc
  <2>3. WorkspaceOf[k] = w
    BY <1>2, <2>1, <2>2 DEF CurrentWorkspace
  <2> QED
    BY <2>1, <2>2, <2>3 DEF HandTurn, Terminal, LetGo
<1>4. ASSUME NEW c \in calls, CallStep(c)
      PROVE  \E k \in Jobs : WorkspaceOf[k] = w /\ job[k] \in Terminal /\ ~ LetGo(k)
  <2>1. c.pc = "failRelease" /\ SetLock(WorkspaceOf[c.id], FALSE)
    BY <1>1, <1>4 DEF CallStep, Execute, FailCall, tables
  <2>2. PICK k \in Jobs : k = c.id
    BY DEF TypeInv, Call
  <2>3. CallTurn(c)
    BY <2>2, CallView
  <2>4. WorkspaceOf[k] = w
    BY <1>2, <2>1, <2>2
  <2>5. job[k] \in Terminal
    BY <2>1, <2>2, <2>3 DEF CallTurn, Terminal
  <2> QED
    BY <2>2, <2>4, <2>5 DEF LetGo, Untouched
<1>5. ASSUME NEW q \in requests, RequestStep(q)
      PROVE  \E k \in Jobs : WorkspaceOf[k] = w /\ job[k] \in Terminal /\ ~ LetGo(k)
  <2>1. ReleaseLock(q)
    BY <1>1, <1>5 DEF RequestStep, ReadTcl, InsertStep, PatchHook, CompleteGate, Requeue,
       RejectGate, DiscardGate, DropSteps, CloseJob, CancelRun
  <2>2. PICK k \in Jobs : k = q.id
    BY DEF TypeInv, ApiTypeOK, Request
  <2>3. RequestTurn(q)
    BY <2>2, ThreadView
  <2>4. WorkspaceOf[k] = w
    BY <1>2, <2>1, <2>2 DEF ReleaseLock
  <2>5. job[k] \in Terminal
    BY <2>1, <2>2, <2>3 DEF ReleaseLock, RequestTurn
  <2> QED
    BY <2>2, <2>4, <2>5 DEF LetGo, Untouched
<1>6. ~ (Create \/ UserStep \/ \E v \in Workspaces : CliUnlock(v))
  BY <1>1 DEF Create, CreateJob, CreateRun, InsertJob, UserStep, UiApprove, UiReject, UiCancel,
     RestApprove, RestReject, CliCancel, CliDiscard, CliLock, CliUnlock, tables
<1>7. \A i \in Jobs, n \in StepNumbers : ~ ExecutorStep(i, n)
  BY <1>1 DEF ExecutorStep, PodStep, BeginStep, BeginJob, EndWork, NoticeCancel, ReportStep,
     ReportJob, ExitSilently, LosePod, tables
<1>8. ~ \E r \in Replicas : Tick(r)
  BY <1>1 DEF Tick, PollJobs, tables
<1> QED
  BY <1>1, <1>3, <1>4, <1>5, <1>6, <1>7, <1>8, Steps DEF Orderly, vars, tables

(* A job that has the lock keeps it.                                        *)
LEMMA LockStays ==
    ASSUME Ready, FrontInv, LockInv, "cliLock" \notin Events, [Next]_vars, TypeInv',
           NEW j \in Jobs, Bound(j)
    PROVE  locked'[WorkspaceOf[j]]
<1> USE DEF Ready
<1>1. WorkspaceOf[j] \in Workspaces /\ locked[WorkspaceOf[j]]
  BY WorkspaceOfAssumption DEF LockInv
<1>2. SUFFICES ASSUME NEW k \in Jobs, WorkspaceOf[k] = WorkspaceOf[j],
                      \/ \E r \in Replicas : sched[r].pc = "unlockWorkspace" /\ InHand(r, k)
                      \/ job[k] \in Terminal /\ ~ LetGo(k)
               PROVE  FALSE
  BY <1>1, LockMoves DEF LockInv
<1>3. Cleared(j) /\ (job[j] = "running" \/ (job[j] = "queue" /\ HandAt("runJob", j)))
  BY BoundIsCleared
<1>4. PICK r \in Replicas : sched[r].pc = "unlockWorkspace" /\ InHand(r, k)
  BY <1>2, <1>3 DEF LockInv
<1>5. job[k] = "queue"
  BY <1>4 DEF QueueInv, JobInv, TurnInv, LoopTurn, HandTurn
<1>6. j = k
  <2>1. j \in Nat /\ k \in Nat
    BY NumJobsAssumption DEF Jobs
  <2>2. ~ (j < k) /\ ~ (k < j)
    BY <1>2, <1>3, <1>5 DEF FrontInv, OlderActive, Terminal
  <2> QED
    BY <2>1, <2>2
<1>7. HandAt("runJob", j)
  BY <1>3, <1>5, <1>6
<1> QED
  BY <1>4, <1>7 DEF HandAt, Orderly, LonePoller

LEMMA NextLockInv ==
    Ready /\ FrontInv /\ LockInv /\ "cliLock" \notin Events /\ Safe' /\ [Next]_vars => LockInv'
<1> SUFFICES ASSUME Ready, FrontInv, LockInv, "cliLock" \notin Events, Safe', [Next]_vars
             PROVE  LockInv'
  OBVIOUS
<1> USE DEF Ready
<1>0. HandInv' /\ TypeInv'
  BY DEF Safe, QueueInv
<1>1. ASSUME NEW w \in Workspaces PROVE ~ cli'[w]
  <2>1. UNCHANGED cli
    <3>1. (Create \/ UserStep \/ \E v \in Workspaces : CliUnlock(v)) => UNCHANGED cli
      BY DEF LockInv, Create, CreateJob, CreateRun, InsertJob, UserStep, UiApprove, UiReject,
         UiCancel, RestApprove, RestReject, CliCancel, CliDiscard, CliLock, CliUnlock
    <3>2. \A q \in requests : RequestStep(q) => UNCHANGED cli
      BY DEF RequestStep, ReadTcl, InsertStep, PatchHook, ReleaseLock, CompleteGate, Requeue,
         RejectGate, DiscardGate, DropSteps, CloseJob, CancelRun
    <3>3. \A i \in Jobs, n \in StepNumbers : ExecutorStep(i, n) => UNCHANGED cli
      BY DEF ExecutorStep, PodStep, BeginStep, BeginJob, EndWork, NoticeCancel, ReportStep,
         ReportJob, ExitSilently, LosePod, apiVars
    <3> QED
      BY <3>1, <3>2, <3>3, Steps DEF Orderly, Tick, apiVars, vars
  <2> QED
    BY <2>1 DEF LockInv
<1>2. ASSUME NEW j \in Jobs, Bound(j)' PROVE locked'[WorkspaceOf[j]]
  <2>1. CASE Bound(j)
    BY <1>0, <2>1, LockStays
  <2>2. job'[j] = "running" => Bound(j)
    BY JobLife DEF LifeStep, Bound
  <2>3. ASSUME NEW r \in Replicas, sched'[r].pc = "runJob", InHand(r, j)', LoopStep(r)
        PROVE  locked'[WorkspaceOf[j]]
    <3>1. /\ sched'[r].row = sched[r].row
          /\ locked' = [locked EXCEPT ![CurrentWorkspace(r)] = TRUE]
      BY <2>3, RunJobMoves
    <3> QED
      BY <2>3, <3>1, WorkspaceOfAssumption DEF CurrentWorkspace, CurrentJob, InHand, TypeInv,
         TablesTypeOK
  <2>4. UNCHANGED sched \/ (\E r \in Replicas : LoopStep(r) \/ Tick(r))
    BY Steps DEF Orderly, schedVars, vars, CallStep, Execute, FailCall
  <2>5. ASSUME NEW r \in Replicas, Tick(r) PROVE sched'[r].pc # "runJob"
    BY <2>5, NextRowAt DEF Tick, PollJobs
  <2>6. UNCHANGED sched /\ HandAt("runJob", j)' => Bound(j)
    BY DEF HandAt, InHand, Bound
  <2> QED
    BY <1>2, <2>1, <2>2, <2>3, <2>4, <2>5, <2>6 DEF Bound, HandAt, Orderly, LonePoller
<1>3. ASSUME NEW j \in Jobs, NEW k \in Jobs, Cleared(j)', WorkspaceOf[k] = WorkspaceOf[j],
             job'[k] \in Terminal
      PROVE  LetGo(k)'
  <2>1. ASSUME NEW r \in Replicas, Tick(r) PROVE LetGo(k)'
    <3>1. /\ requests = {} /\ \A c \in calls : c.pc = "execute"
          /\ UNCHANGED <<tables, cluster, calls, apiVars>>
          /\ sched'[r].row = NoRow
      BY <2>1, NextRowAt DEF Orderly, LonePoller, Tick, PollJobs
    <3>2. JobInv(k) /\ job[k] \in Terminal
      BY <1>3, <3>1 DEF QueueInv, tables
    <3>3. Untouched(k)
      BY <3>1, <3>2 DEF JobInv, TurnInv, CallsTurn, CallTurn, PodsTurn, Untouched, Terminal
    <3>4. \A q \in Replicas : ~ InHand(q, k)'
      BY <3>1, NoRowInHand DEF InHand, Orderly, LonePoller
    <3> QED
      BY <3>1, <3>3, <3>4 DEF LetGo, Untouched, Working, cluster, apiVars
  <2>2. CASE Cleared(j) /\ job[k] \in Terminal
    BY <1>3, <2>2, StaysLetGo DEF LockInv
  <2>3. CASE Cleared(j) /\ job[k] \notin Terminal
    <3>1. job[k] \in {"approved", "queue", "running", "waitingApproval"}
      BY <1>3, <2>3, JobLife DEF LifeStep, Terminal
    <3>2. job[j] \in {"queue", "running"} /\ job'[j] \in {"queue", "running"}
      BY <1>3, <2>3 DEF Cleared
    <3>3. j \in Nat /\ k \in Nat
      BY NumJobsAssumption DEF Jobs
    <3>4. ~ (j < k) /\ ~ (k < j)
      BY <1>3, <3>1, <3>2 DEF FrontInv, OlderActive, Terminal
    <3>5. j = k
      BY <3>3, <3>4
    <3> QED
      BY <1>3, <3>2, <3>5 DEF Terminal
  <2> QED
    BY <1>0, <1>3, <2>1, <2>2, <2>3, ClearedMoves
<1> QED
  BY <1>1, <1>2, <1>3 DEF LockInv

(* While an executor is at work its workspace is locked: no unlock of the   *)
(* loop, of a failed dispatch or of a finished run comes so late that it    *)
(* hits the run that follows.  A Terraform CLI that locks the workspace     *)
(* writes the same column, and its unlock would.                            *)
THEOREM RunsHoldTheLock ==
    Orderly /\ "cliLock" \notin Events => (Spec => []RunHoldsLock)
<1> SUFFICES ASSUME Orderly, "cliLock" \notin Events PROVE Spec => []RunHoldsLock
  OBVIOUS
<1>1. Safe /\ LockInv => RunHoldsLock
  <2> SUFFICES ASSUME Safe, LockInv, NEW j \in Jobs, NEW n \in StepNumbers, Running(j, n)
               PROVE  locked[WorkspaceOf[j]]
    BY DEF RunHoldsLock
  <2>1. Working(j, n)
    BY DEF Running, Working
  <2>2. job[j] = "running"
    BY <2>1, SafeReady, PodView
  <2> QED
    BY <2>2 DEF LockInv, Bound
<1>2. Init => Safe /\ FrontInv /\ LockInv
  BY InitSafe, InitFrontInv, InitLockInv
<1>3. Safe /\ FrontInv /\ LockInv /\ [Next]_vars => Safe' /\ FrontInv' /\ LockInv'
  BY NextSafe, SafeReady, NextFrontInv, NextLockInv
<1> QED
  BY <1>1, <1>2, <1>3, PTL DEF Spec
--------------------------------------------------------------------------------
(* The end of a job.                                                        *)

(* No flow goes on after an apply or a script: their executors report the   *)
(* job as completed, whatever steps are left.                               *)
LastWord ==
    \A j \in Jobs : \A n \in Entries(j) :
        Flow[j][n] \in ApplyTypes \cup {"customScripts"} => \A m \in Entries(j) : m <= n

Last(j, n) == \A m \in Entries(j) : m <= n
AllDone(j) == \A n \in Entries(j) : step[j][n] \in {"completed", "notExecuted"}

(* Of a step that may be executed and is no plan, no other is left.         *)
MayEnd(j, n, type) == type \notin PlanTypes => Last(j, n)

TypeInHand(r) == ResolveType(CurrentJob(r), sched[r].num, sched[r].row.tcl)

RoleInv ==
    /\ \A r \in Replicas : sched[r].pc \in ClaimingPc => TypeInHand(r) \notin {"approval", "notExecuted"}
    /\ \A c \in calls : c.pc = "execute" => MayEnd(c.id, c.num, c.type)
    /\ \A j \in Jobs, n \in StepNumbers : Working(j, n) =>
          /\ MayEnd(j, n, pod[j][n].type)
          /\ pod[j][n].verdict = "completed" => Last(j, n)

DoneInv ==
    /\ \A j \in Jobs : job[j] = "completed" => AllDone(j)
    /\ \A r \in Replicas : sched[r].pc \in {"tally", "complete"} => AllDone(CurrentJob(r))

EndInv == RoleInv /\ DoneInv

LEMMA InitEndInv == Init => EndInv
<1> SUFFICES ASSUME Init PROVE EndInv
  OBVIOUS
<1>1. \A r \in Replicas : sched[r].pc = "idle"
  BY DEF Init, SchedInit, IdleLoop
<1>2. \A j \in Jobs, n \in StepNumbers : ~ Working(j, n)
  BY DEF Init, TablesInit, NoPod, Working
<1>3. calls = {} /\ \A j \in Jobs : job[j] = "none"
  BY DEF Init, SchedInit, TablesInit
<1> QED
  BY <1>1, <1>2, <1>3 DEF EndInv, RoleInv, DoneInv, ClaimingPc, HoldingPc

(* A step handed over under LastWord may complete its job only if it is the *)
(* last one.                                                                *)
LEMMA ResolvedMayEnd ==
    ASSUME LastWord, NEW j \in Jobs, NEW n \in StepNumbers, NEW hasTcl,
           ResolveType(j, n, hasTcl) \notin {"approval", "notExecuted"}
    PROVE  MayEnd(j, n, ResolveType(j, n, hasTcl))
<1> DEFINE type == ResolveType(j, n, hasTcl)
<1> SUFFICES ASSUME type \notin PlanTypes PROVE Last(j, n)
  BY DEF MayEnd
<1>1. n \in Entries(j) /\ type = Flow[j][n]
  BY DEF ResolveType, PlanTypes
<1>2. type \in ApplyTypes \cup {"customScripts"}
  BY ResolvedType DEF StepTypes
<1> QED
  BY <1>1, <1>2 DEF LastWord, Last

(* A loop comes to claim a step by looking it up, and then goes on with it. *)
LEMMA ClaimingMoves ==
    ASSUME TypeInv, NEW r \in Replicas, LoopStep(r), sched'[r].pc \in ClaimingPc
    PROVE  \/ LookupStep(r)
           \/ /\ sched[r].pc \in ClaimingPc
              /\ sched'[r].row = sched[r].row /\ sched'[r].num = sched[r].num
<1>1. \/ LookupStep(r)
      \/ /\ sched[r].pc \in WorkPc
         /\ sched'[r].row = sched[r].row /\ sched'[r].num = sched[r].num
  BY WorkMoves DEF ClaimingPc, WorkPc
<1>2. CASE sched[r].pc \in {"skipStep", "failStep"}
  <2>1. SkipStep(r) \/ NoExecutor(r)
    BY <1>2, Zenon DEF LoopStep, At, CheckOlder, ClaimJob, PassGate, UnlockWorkspace, LookupStep,
       Advance, CountOpen, Tally, FinishJob, ReleaseFinished, ParkStep, ParkJob, ClaimStep,
       LockWorkspace, HandBack, RunJob, Spawn, PollCancels, KillPods
  <2>2. \/ Goto(r, "advance") \/ Goto(r, "failJob") \/ Goto(r, "failRelease")
        \/ EndOfRow(r)
    BY <2>1 DEF SkipStep, NoExecutor
  <2>3. sched'[r].pc \in {"advance", "failJob", "failRelease", "next", "cancels"}
    BY <2>2, GotoAt, NextRowAt DEF EndOfRow
  <2> QED
    BY <2>3 DEF ClaimingPc, HoldingPc
<1> QED
  BY <1>1, <1>2 DEF WorkPc, ClaimingPc

LEMMA LookedUp ==
    ASSUME TypeInv, NEW r \in Replicas, LookupStep(r), sched'[r].pc \in ClaimingPc
    PROVE  TypeInHand(r)' \notin {"approval", "notExecuted"}
<1>1. PICK x \in First(sched[r].rows) :
         \/ TakeRow(r, x, "countOpen", 0)
         \/ \E n \in Lowest(StepsIn(x.id, {"pending"})) :
               TakeRow(r, x, StageOf(x.id, ResolveType(x.id, n, x.tcl)), n)
  BY DEF LookupStep
<1>2. ~ TakeRow(r, x, "countOpen", 0)
  BY TakeRowAt DEF ClaimingPc, HoldingPc
<1>3. PICK n : TakeRow(r, x, StageOf(x.id, ResolveType(x.id, n, x.tcl)), n)
  BY <1>1, <1>2
<1>4. /\ sched'[r].row = x /\ sched'[r].num = n
      /\ StageOf(x.id, ResolveType(x.id, n, x.tcl)) = sched'[r].pc
  BY <1>3, TakeRowAt
<1>5. ResolveType(x.id, n, x.tcl) \notin {"approval", "notExecuted"}
  <2> DEFINE type == ResolveType(x.id, n, x.tcl)
  <2>1. StageOf(x.id, type) \notin {"parkStep", "skipStep"}
    BY <1>4 DEF ClaimingPc, HoldingPc
  <2> HIDE DEF type
  <2>2. type \notin {"approval", "notExecuted"}
    BY <2>1 DEF StageOf
  <2> QED
    BY <2>2 DEF type
<1>6. TypeInHand(r)' = ResolveType(x.id, n, x.tcl)
  BY <1>4 DEF TypeInHand, CurrentJob, ResolveType, Entries
<1> QED
  BY <1>5, <1>6

LEMMA TypesInHand ==
    ASSUME Ready, RoleInv, [Next]_vars, NEW r \in Replicas, sched'[r].pc \in ClaimingPc
    PROVE  TypeInHand(r)' \notin {"approval", "notExecuted"}
<1> USE DEF Ready
<1>1. ASSUME sched[r].pc \in ClaimingPc, sched'[r].row = sched[r].row,
             sched'[r].num = sched[r].num
      PROVE  TypeInHand(r)' \notin {"approval", "notExecuted"}
  <2>1. TypeInHand(r)' = TypeInHand(r)
    BY <1>1 DEF TypeInHand, CurrentJob, ResolveType, Entries
  <2> QED
    BY <1>1, <2>1 DEF RoleInv
<1>2. CASE UNCHANGED sched
  BY <1>1, <1>2
<1>3. CASE LoopStep(r)
  BY <1>1, <1>3, ClaimingMoves, LookedUp
<1>4. ~ Tick(r)
  BY NextRowAt DEF Tick, PollJobs, ClaimingPc, HoldingPc
<1>5. (\E c \in calls : CallStep(c)) => UNCHANGED sched
  BY DEF CallStep, Execute, FailCall
<1>6. \A q \in Replicas : q = r
  BY DEF Orderly, LonePoller
<1> QED
  BY <1>2, <1>3, <1>4, <1>5, <1>6, Steps DEF Orderly, schedVars, vars

LEMMA CallsMayEnd ==
    ASSUME Ready, LastWord, RoleInv, [Next]_vars, NEW d \in calls', d.pc = "execute"
    PROVE  MayEnd(d.id, d.num, d.type)
<1> USE DEF Ready
<1>1. CASE d \in calls
  BY <1>1 DEF RoleInv
<1>2. ASSUME NEW c \in calls, CallStep(c) PROVE d \in calls
  <2>1. (\E pc \in CallPc \ {"execute"} : MoveCall(c, pc)) \/ calls' = calls \ {c}
    BY <1>2 DEF CallStep, Execute, FailCall, CallPc
  <2>2. ASSUME NEW pc \in CallPc \ {"execute"}, MoveCall(c, pc) PROVE Kept(d)
    <3>1. \A e \in calls' : Kept(e)
      BY <2>2, CallsKept
    <3> QED
      BY <3>1
  <2>3. CASE calls' = calls \ {c}
    BY <2>3
  <2>4. Kept(d)
    BY <2>1, <2>2, <2>3 DEF Kept
  <2> QED
    BY <2>4 DEF Kept
<1>3. ASSUME NEW r \in Replicas, LoopStep(r), d \notin calls
      PROVE  MayEnd(d.id, d.num, d.type)
  <2>1. Spawn(r)
    <3>1. LoopStep(r) => Spawn(r) \/ UNCHANGED calls
      BY Zenon DEF LoopStep, CheckOlder, ClaimJob, PassGate, UnlockWorkspace, LookupStep,
         SkipStep, Advance, CountOpen, Tally, FinishJob, ReleaseFinished, ParkStep, ParkJob,
         ClaimStep, LockWorkspace, HandBack, RunJob, NoExecutor, PollCancels, KillPods
    <3> QED
      BY <1>3, <3>1
  <2>2. /\ d.id = CurrentJob(r) /\ d.num = sched[r].num /\ d.type = TypeInHand(r)
        /\ sched[r].pc = "spawn"
    BY <1>3, <2>1 DEF Spawn, At, TypeInHand
  <2>3. CurrentJob(r) \in Jobs
    BY <2>2, HandFacts DEF NoRowPc
  <2>4. sched[r].num \in StepNumbers
    BY <2>2 DEF TypeInv, LoopsOK, ClaimingPc, HoldingPc
  <2>5. TypeInHand(r) \notin {"approval", "notExecuted"}
    BY <2>2 DEF RoleInv, ClaimingPc, HoldingPc
  <2> QED
    BY <2>2, <2>3, <2>4, <2>5, ResolvedMayEnd DEF TypeInHand
<1>4. UNCHANGED calls \/ (\E c \in calls : CallStep(c)) \/ (\E r \in Replicas : LoopStep(r))
  BY Steps DEF Orderly, Tick, PollJobs, schedVars, vars
<1> QED
  BY <1>1, <1>2, <1>3, <1>4

(* An executor keeps the type it was started with, and reports a job as     *)
(* completed only as that type allows.                                      *)
LEMMA PodsMayEnd ==
    ASSUME Ready, LastWord, RoleInv, [Next]_vars, NEW j \in Jobs, NEW n \in StepNumbers,
           Working(j, n)'
    PROVE  /\ MayEnd(j, n, pod'[j][n].type)
           /\ pod'[j][n].verdict = "completed" => Last(j, n)
<1> USE DEF Ready
<1>1. CASE pod'[j][n] = pod[j][n]
  BY <1>1 DEF RoleInv, Working
<1>2. ASSUME NEW c \in calls, Execute(c), pod'[j][n] # pod[j][n]
      PROVE  /\ MayEnd(j, n, pod'[j][n].type)
             /\ pod'[j][n].verdict = "completed" => Last(j, n)
  <2>1. StartPod(c.id, c.num, c.type) /\ c.pc = "execute"
    BY <1>2 DEF Execute
  <2>2. c.id = j /\ c.num = n
    BY <1>2, <2>1 DEF StartPod, TypeInv, TablesTypeOK
  <2>3. pod'[j][n].type = c.type /\ pod'[j][n].verdict = "none"
    BY <2>1, <2>2 DEF StartPod, TypeInv, TablesTypeOK
  <2> QED
    BY <2>1, <2>2, <2>3 DEF RoleInv
<1>3. ASSUME NEW i \in Jobs, NEW m \in StepNumbers, ExecutorStep(i, m),
             pod'[j][n] # pod[j][n]
      PROVE  /\ MayEnd(j, n, pod'[j][n].type)
             /\ pod'[j][n].verdict = "completed" => Last(j, n)
  <2>1. \E pc, v : MovePod(i, m, pc, v) /\
           (v = "completed" => \/ pod[i][m].type \notin PlanTypes
                               \/ v = pod[i][m].verdict)
    <3>1. CASE EndWork(i, m)
      <4>1. PICK v \in VerdictsOf(pod[i][m].type) : MovePod(i, m, "reportStep", v)
        BY <3>1 DEF EndWork
      <4>2. v = "completed" => pod[i][m].type \notin PlanTypes
        BY <4>1 DEF VerdictsOf
      <4> QED
        BY <4>1, <4>2
    <3>2. CASE BeginStep(i, m) \/ BeginJob(i, m) \/ NoticeCancel(i, m) \/ ReportStep(i, m)
               \/ ReportJob(i, m) \/ ExitSilently(i, m) \/ LosePod(i, m)
      <4>1. \/ MovePod(i, m, "begun", "none") \/ MovePod(i, m, "active", "none")
            \/ MovePod(i, m, "reportStep", "failed") \/ MovePod(i, m, "done", "none")
            \/ MovePod(i, m, "reportJob", pod[i][m].verdict)
        BY <3>2 DEF BeginStep, BeginJob, NoticeCancel, ReportStep, ReportJob, ExitSilently,
           LosePod
      <4> QED
        BY <4>1
    <3> QED
      BY <1>3, <3>1, <3>2 DEF ExecutorStep, PodStep
  <2>2. PICK pc, v : MovePod(i, m, pc, v) /\
           (v = "completed" => \/ pod[i][m].type \notin PlanTypes
                               \/ v = pod[i][m].verdict)
    BY <2>1
  <2>3. i = j /\ m = n /\ pod'[j][n].verdict = v /\ pod'[j][n].type = pod[j][n].type
    BY <1>3, <2>2, MovePodAt
  <2>4. Working(j, n)
    BY <1>3, <2>3 DEF ExecutorStep, PodStep, BeginStep, BeginJob, EndWork, NoticeCancel,
       ReportStep, ReportJob, ExitSilently, LosePod, PodAt, Working
  <2> QED
    BY <2>2, <2>3, <2>4 DEF RoleInv, MayEnd
<1>4. ASSUME NEW r \in Replicas, LoopStep(r) PROVE pod'[j][n] = pod[j][n]
  <2>1. KillPods(r) => pod'[j][n] = pod[j][n]
    BY KilledPods DEF Working
  <2>2. LoopStep(r) => KillPods(r) \/ UNCHANGED pod
    BY Zenon DEF LoopStep, CheckOlder, ClaimJob, PassGate, UnlockWorkspace, LookupStep,
       SkipStep, Advance, CountOpen, Tally, FinishJob, ReleaseFinished, ParkStep, ParkJob,
       ClaimStep, LockWorkspace, HandBack, RunJob, Spawn, NoExecutor, PollCancels, cluster
  <2> QED
    BY <1>4, <2>1, <2>2
<1>5. ASSUME NEW c \in calls, FailCall(c) PROVE UNCHANGED pod
  BY <1>5 DEF FailCall, cluster
<1>6. (Create \/ UserStep \/ \E w \in Workspaces : CliUnlock(w)) => UNCHANGED pod
  BY UserSteps DEF cluster
<1>7. \A q \in requests : RequestStep(q) => UNCHANGED pod
  BY DEF RequestStep, ReadTcl, InsertStep, PatchHook, ReleaseLock, CompleteGate, Requeue,
     RejectGate, DiscardGate, DropSteps, CloseJob, CancelRun, cluster
<1>8. \A r \in Replicas : Tick(r) => UNCHANGED pod
  BY DEF Tick, PollJobs, cluster
<1> QED
  BY <1>1, <1>2, <1>3, <1>4, <1>5, <1>6, <1>7, <1>8, Steps DEF Orderly, CallStep, vars, cluster

LEMMA NextRoleInv ==
    ASSUME Ready, LastWord, RoleInv, [Next]_vars PROVE RoleInv'
<1>1. \A c \in calls' : c.pc = "execute" => MayEnd(c.id, c.num, c.type)
  BY CallsMayEnd
<1>2. \A c \in calls' : c.pc = "execute" => MayEnd(c.id, c.num, c.type)'
  BY <1>1 DEF MayEnd, Last, Entries
<1>3. \A j \in Jobs, n \in StepNumbers : Working(j, n)' =>
          /\ MayEnd(j, n, pod'[j][n].type)
          /\ pod'[j][n].verdict = "completed" => Last(j, n)
  BY PodsMayEnd
<1> QED
  BY <1>2, <1>3, TypesInHand DEF RoleInv, MayEnd, Last, Entries

(* Where the loop closes a job, its steps are counted and nothing is open.  *)
EndPc == {"tally", "complete"}

LEMMA EndMoves ==
    ASSUME TypeInv, NEW r \in Replicas, LoopStep(r), sched'[r].pc \in EndPc
    PROVE  /\ UNCHANGED step /\ sched'[r].row = sched[r].row
           /\ \/ sched[r].pc = "tally"
              \/ /\ sched[r].pc = "countOpen"
                 /\ StepsIn(CurrentJob(r), {"pending", "running", "waitingApproval"}) = {}
<1>1. sched \in [Replicas -> Loop]
  BY DEF TypeInv, LoopsOK
<1>2. ASSUME NEW pc \in SchedPc, Goto(r, pc) PROVE pc \in EndPc
  BY <1>2, GotoAt
<1>3. ~ \E rows : NextRow(r, rows)
  BY NextRowAt DEF EndPc
<1>4. ~ EndOfRow(r)
  BY <1>3 DEF EndOfRow
<1>5. ~ CheckOlder(r)
  <2>1. \A x : ~ TakeRow(r, x, "claimJob", 0)
    BY TakeRowAt DEF EndPc
  <2> QED
    BY <1>3, <2>1 DEF CheckOlder
<1>6. ~ LookupStep(r)
  <2>1. ASSUME NEW x, NEW n, NEW pc, TakeRow(r, x, pc, n) PROVE pc \in EndPc
    BY <2>1, TakeRowAt
  <2> QED
    BY <2>1, StageType DEF LookupStep, EndPc
<1>7. ~ PollCancels(r) /\ ~ KillPods(r)
  <2>1. CASE PollCancels(r)
    BY <1>1, <2>1 DEF PollCancels, IdleLoop, EndPc
  <2>2. CASE KillPods(r)
    <3>1. PICK x \in First(sched[r].rows) : sched' = [sched EXCEPT ![r] =
             [IdleLoop EXCEPT !.pc = IF sched[r].rows \ {x} = {} THEN "idle" ELSE "kill",
                              !.rows = sched[r].rows \ {x}]]
      BY <2>2, Zenon DEF KillPods
    <3> QED
      BY <1>1, <3>1 DEF IdleLoop, EndPc
  <2> QED
    BY <2>1, <2>2
<1>8. \A pc \in SchedPc \ EndPc : ~ Goto(r, pc)
  BY <1>2
<1>9. ~ (ClaimJob(r) \/ PassGate(r) \/ UnlockWorkspace(r) \/ SkipStep(r) \/ Advance(r)
          \/ FinishJob(r) \/ ReleaseFinished(r) \/ ParkStep(r) \/ ParkJob(r)
          \/ ClaimStep(r) \/ LockWorkspace(r) \/ HandBack(r) \/ RunJob(r) \/ Spawn(r)
          \/ NoExecutor(r))
  <2>1. ~ Goto(r, "passGate") /\ ~ Goto(r, "unlockWorkspace") /\ ~ Goto(r, "advance")
        /\ ~ Goto(r, "countOpen") /\ ~ Goto(r, "release") /\ ~ Goto(r, "parkJob")
        /\ ~ Goto(r, "lockWorkspace") /\ ~ Goto(r, "handBack") /\ ~ Goto(r, "runJob")
        /\ ~ Goto(r, "spawn") /\ ~ Goto(r, "failStep") /\ ~ Goto(r, "failJob")
        /\ ~ Goto(r, "failRelease")
    BY <1>8 DEF SchedPc, HoldingPc, EndPc
  <2>2. ~ (ClaimJob(r) \/ PassGate(r) \/ UnlockWorkspace(r) \/ SkipStep(r) \/ Advance(r)
            \/ FinishJob(r) \/ ReleaseFinished(r) \/ ParkStep(r) \/ ParkJob(r))
    BY <1>4, <2>1 DEF ClaimJob, PassGate, UnlockWorkspace, SkipStep, Advance, FinishJob,
       ReleaseFinished, ParkStep, ParkJob
  <2>3. ~ (ClaimStep(r) \/ LockWorkspace(r) \/ HandBack(r) \/ RunJob(r) \/ Spawn(r)
            \/ NoExecutor(r))
    BY <1>4, <2>1 DEF ClaimStep, LockWorkspace, HandBack, RunJob, Spawn, NoExecutor
  <2> QED
    BY <2>2, <2>3
<1>10. CountOpen(r) \/ Tally(r)
  BY <1>5, <1>6, <1>7, <1>9 DEF LoopStep
<1>11. (\E pc : Goto(r, pc)) => sched'[r].row = sched[r].row
  BY GotoAt
<1>12. CASE CountOpen(r)
  BY <1>4, <1>11, <1>12 DEF CountOpen, At, tables
<1>13. CASE Tally(r)
  BY <1>11, <1>13 DEF Tally, At, tables
<1> QED
  BY <1>10, <1>12, <1>13

(* Nobody writes to the steps of a job that is over, or about to be.        *)
LEMMA DoneStays ==
    ASSUME Ready, [Next]_vars, NEW j \in Jobs,
           job[j] = "completed" \/ \E r \in Replicas : InHand(r, j) /\ sched[r].pc \in EndPc
    PROVE  Same(j)
<1> USE DEF Ready
<1>0. FreeInv /\ RowsInv /\ TurnInv(j)
  BY DEF GateInv, QueueInv, JobInv
<1>1. ASSUME NEW r \in Replicas, InHand(r, j)
      PROVE  sched[r].pc \in EndPc \cup {"release"}
  <2>1. \A q \in Replicas : q = r
    BY DEF Orderly, LonePoller
  <2>2. CASE job[j] = "completed"
    <3>1. HandTurn(r, j) /\ sched[r].row.id = j
      BY <1>0, <1>1 DEF TurnInv, LoopTurn, InHand
    <3>2. sched[r].pc \in SchedPc /\ sched[r].pc \notin NoRowPc \cup {"kill"}
      BY <1>1, NoRowInHand DEF QueueInv, HandInv, InHand, TypeInv, LoopsOK, Loop
    <3> QED
      BY <2>2, <3>1, <3>2 DEF HandTurn, RowTurn, SchedPc, HoldingPc, NoRowPc, ClaimPc, QueuePc,
         RunPc
  <2> QED
    BY <2>1, <2>2
<1>2. /\ \A c \in calls : c.id # j
      /\ \A q \in requests : q.id = j => q.pc = "releaseLock"
      /\ \A n \in StepNumbers : ~ Working(j, n)
  <2>1. CASE job[j] = "completed"
    <3>1. \A c \in calls : c.id = j => FALSE
      BY <1>0, <2>1 DEF TurnInv, CallsTurn, CallTurn
    <3>2. \A q \in requests : q.id = j => q.pc = "releaseLock"
      BY <1>0, <2>1 DEF TurnInv, RequestsTurn, RequestTurn
    <3>3. \A n \in StepNumbers : ~ Working(j, n)
      BY <1>0, <2>1 DEF TurnInv, PodsTurn
    <3> QED
      BY <3>1, <3>2, <3>3
  <2>2. CASE \E r \in Replicas : InHand(r, j)
    BY <1>0, <2>2 DEF TurnInv, LoopTurn, Untouched
  <2> QED
    BY <2>1, <2>2
<1>3. UNCHANGED step => Same(j)
  BY DEF Same
<1>4. ASSUME NEW r \in Replicas, LoopStep(r), InHand(r, j) PROVE Same(j)
  <2>1. sched[r].pc \in {"tally", "complete", "release"}
    BY <1>1, <1>4 DEF EndPc
  <2>2. Tally(r) \/ FinishJob(r) \/ ReleaseFinished(r)
    BY <1>4, <2>1, Zenon DEF LoopStep, At, CheckOlder, ClaimJob, PassGate, UnlockWorkspace,
       LookupStep, SkipStep, Advance, CountOpen, ParkStep, ParkJob, ClaimStep, LockWorkspace,
       HandBack, RunJob, Spawn, NoExecutor, PollCancels, KillPods
  <2> QED
    BY <1>3, <2>2 DEF Tally, FinishJob, ReleaseFinished, tables
<1>5. ASSUME NEW r \in Replicas, LoopStep(r), ~ InHand(r, j) PROVE Same(j)
  BY <1>0, <1>5, LoopSteps
<1>6. ASSUME NEW c \in calls, CallStep(c) PROVE Same(j)
  BY <1>0, <1>2, <1>6, CallSteps
<1>7. ASSUME NEW q \in requests, RequestStep(q) PROVE Same(j)
  <2>1. q.pc = "releaseLock" => ~ DropSteps(q)
    BY DEF DropSteps
  <2> QED
    BY <1>2, <1>7, <2>1, RequestSteps
<1>8. ASSUME NEW i \in Jobs, NEW m \in StepNumbers, ExecutorStep(i, m) PROVE Same(j)
  BY <1>0, <1>2, <1>8, PodSteps
<1>9. (Create \/ UserStep \/ \E w \in Workspaces : CliUnlock(w)) => UNCHANGED step
  BY UserSteps
<1>10. \A r \in Replicas : Tick(r) => UNCHANGED step
  BY DEF Tick, PollJobs, tables
<1> QED
  BY <1>3, <1>4, <1>5, <1>6, <1>7, <1>8, <1>9, <1>10, Steps DEF Orderly, vars, tables

(* An executor completes its job only when the steps before its own are     *)
(* done and none comes after it.                                            *)
LEMMA ReportedDone ==
    ASSUME Ready, RoleInv, [Next]_vars, NEW j \in Jobs, job[j] = "running",
           job'[j] = "completed"
    PROVE  AllDone(j)'
<1> USE DEF Ready
<1>1. \E n \in StepNumbers : Working(j, n)
  BY JobLife DEF LifeStep
<1>2. job'[j] # job[j]
  OBVIOUS
<1>3. job' # job /\ \A i \in Jobs : ~ JobStep(i)
  BY <1>1, <1>2 DEF JobStep
<1>4. ~ \E r \in Replicas : LoopStep(r)
  BY <1>3, LoopLife
<1>5. ~ \E c \in calls : CallStep(c)
  <2>1. \A c \in calls : ~ Execute(c)
    BY <1>3 DEF Execute, tables
  <2> QED
    BY <1>3, <2>1, CallLife DEF CallStep
<1>6. ~ (Create \/ UserStep \/ \E w \in Workspaces : CliUnlock(w))
  BY <1>3, UserLife
<1>7. ~ \E q \in requests : RequestStep(q)
  BY <1>3, RequestLife
<1>8. ~ \E r \in Replicas : Tick(r)
  BY <1>3 DEF Tick, PollJobs, tables
<1>9. PICK i \in Jobs, m \in StepNumbers : ExecutorStep(i, m) /\ UNCHANGED schedVars
  BY <1>3, <1>4, <1>5, <1>6, <1>7, <1>8, Steps DEF Orderly, vars, tables
<1>10. PodMove(i, m) /\ Working(i, m) /\ (KeepsRunning(i, m) \/ HandsIn(i, m))
  BY <1>9, PodMoves
<1>11. i = j /\ HandsIn(j, m)
  BY <1>10 DEF PodMove, KeepsRunning
<1>12. pod[j][m].pc = "reportJob" /\ pod[j][m].verdict = "completed" /\ Same(j)
  BY <1>11 DEF HandsIn
<1>13. Last(j, m) /\ step[j][m] = "completed" /\ Behind(j, m) /\ ~ Missing(j)
  <2>1. JobInv(j) /\ Behind(j, m) /\ ~ Missing(j)
    BY <1>10, <1>11, PodView
  <2> QED
    BY <1>10, <1>11, <1>12, <2>1 DEF RoleInv, JobInv, StepInv, CurrentSteps
<1>14. ASSUME NEW n \in Entries(j) PROVE step[j][n] \in {"completed", "notExecuted"}
  <2>1. n \in StepNumbers /\ n \in Nat /\ m \in Nat
    BY StepNumbersAssumption DEF Entries
  <2>2. n < m \/ n = m
    BY <1>13, <2>1 DEF Last
  <2> QED
    BY <1>13, <2>1, <2>2 DEF Behind, Missing
<1> QED
  BY <1>12, <1>14 DEF AllDone, Same, Entries

LEMMA CountedDone ==
    ASSUME Ready, DoneInv, [Next]_vars, NEW r \in Replicas, sched'[r].pc \in EndPc
    PROVE  AllDone(CurrentJob(r))'
<1> USE DEF Ready
<1>1. ASSUME sched[r].pc \in EndPc, sched'[r].row = sched[r].row
      PROVE  AllDone(CurrentJob(r))'
  <2>1. PICK j \in Jobs : j = CurrentJob(r) /\ InHand(r, j)
    BY <1>1, HandFacts DEF EndPc, NoRowPc
  <2>2. AllDone(j) /\ Same(j)
    BY <1>1, <2>1, DoneStays DEF DoneInv, EndPc
  <2>3. CurrentJob(r)' = j
    BY <1>1, <2>1 DEF CurrentJob
  <2> QED
    BY <2>2, <2>3 DEF AllDone, Same, Entries
<1>2. ASSUME sched[r].pc = "countOpen", sched'[r].row = sched[r].row, UNCHANGED step,
             StepsIn(CurrentJob(r), {"pending", "running", "waitingApproval"}) = {}
      PROVE  AllDone(CurrentJob(r))'
  <2>1. PICK j \in Jobs : j = CurrentJob(r)
    BY <1>2, HandFacts DEF NoRowPc
  <2>2. /\ InHand(r, j) /\ HandTurn(r, j)
        /\ job[j] = "queue" => \A m \in StepNumbers : step[j][m] \in Settled \/ HandExcuses(r, j, m)
    BY <1>2, <2>1, HandView DEF NoRowPc
  <2>3. \A m \in StepNumbers : step[j][m] \in Settled \ {"pending"}
    BY <1>2, <2>1, <2>2 DEF HandTurn, QueuePc, HandExcuses, StepsIn
  <2>4. ~ Missing(j)
    BY <2>2 DEF GateInv, InitInv, LeftAlone
  <2>5. CurrentJob(r)' = j
    BY <1>2, <2>1 DEF CurrentJob
  <2> QED
    BY <1>2, <2>3, <2>4, <2>5 DEF AllDone, Settled, Missing, Entries
<1>3. CASE UNCHANGED sched
  BY <1>1, <1>3
<1>4. CASE LoopStep(r)
  BY <1>1, <1>2, <1>4, EndMoves DEF EndPc
<1>5. ~ Tick(r)
  BY NextRowAt DEF Tick, PollJobs, EndPc
<1>6. (\E c \in calls : CallStep(c)) => UNCHANGED sched
  BY DEF CallStep, Execute, FailCall
<1>7. \A q \in Replicas : q = r
  BY DEF Orderly, LonePoller
<1> QED
  BY <1>3, <1>4, <1>5, <1>6, <1>7, Steps DEF Orderly, schedVars, vars

LEMMA NextEndInv == Ready /\ LastWord /\ EndInv /\ [Next]_vars => EndInv'
<1> SUFFICES ASSUME Ready, LastWord, EndInv, [Next]_vars PROVE EndInv'
  OBVIOUS
<1>1. RoleInv'
  BY NextRoleInv DEF EndInv
<1>2. ASSUME NEW j \in Jobs, job'[j] = "completed" PROVE AllDone(j)'
  <2>1. CASE AllDone(j) /\ Same(j)
    BY <2>1 DEF AllDone, Same, Entries
  <2>2. CASE job[j] = "completed"
    BY <2>1, <2>2, DoneStays DEF EndInv, DoneInv
  <2>3. CASE job[j] = "queue" /\ HandAt("complete", j)
    <3>1. PICK r \in Replicas : sched[r].pc = "complete" /\ InHand(r, j)
      BY <2>3 DEF HandAt
    <3>2. Same(j)
      BY <3>1, DoneStays DEF EndPc
    <3>3. AllDone(j)
      BY <3>1 DEF EndInv, DoneInv, InHand, CurrentJob
    <3> QED
      BY <2>1, <3>2, <3>3
  <2>4. CASE job[j] = "running"
    BY <1>2, <2>4, ReportedDone DEF EndInv
  <2> QED
    BY <1>2, <2>2, <2>3, <2>4, JobLife DEF LifeStep
<1> QED
  BY <1>1, <1>2, CountedDone DEF EndInv, DoneInv, EndPc

(* If no flow goes on after an apply or a script, a job that completed has  *)
(* no step that failed or was left behind: neither the scheduler's count    *)
(* nor the report of an executor ends it early.                             *)
THEOREM CompletedJobsAreDone ==
    Orderly /\ LastWord => (Spec => []CompletedIsComplete)
<1> SUFFICES ASSUME Orderly, LastWord PROVE Spec => []CompletedIsComplete
  OBVIOUS
<1>1. EndInv => CompletedIsComplete
  BY DEF EndInv, DoneInv, CompletedIsComplete, AllDone
<1>2. Init => Safe /\ EndInv
  BY InitSafe, InitEndInv
<1>3. Safe /\ EndInv /\ [Next]_vars => Safe' /\ EndInv'
  BY NextSafe, SafeReady, NextEndInv
<1> QED
  BY <1>1, <1>2, <1>3, PTL DEF Spec
================================================================================
