----------------------------- MODULE RunOrderProofs -----------------------------
(****************************************************************************)
(* One polling process runs the steps of a job in order, whatever the users *)
(* decide, cancel and discard at the same time, and whatever call, report   *)
(* or executor is lost: as long as nobody decides on a page that is out of  *)
(* date, and no executor starts although its call failed.                   *)
(****************************************************************************)
EXTENDS RunQueueProofs

Attentive == LonePoller /\ Events \cap {"stalePage", "answerLost"} = {}
--------------------------------------------------------------------------------
(* What the steps of a job look like while nobody works on it, while it     *)
(* waits at a gate, and while step k is worked on: what lies before a       *)
(* pending step is settled or pending itself, or is that gate, or step k.   *)
Fine == {"pending", "completed", "notExecuted"}

NoGate(j) == \A m \in StepNumbers : step[j][m] # "waitingApproval"
OneGate(j, g) == \A m \in StepNumbers : step[j][m] = "waitingApproval" => m = g
NoneLeft(j) == \A m \in StepNumbers : step[j][m] # "pending"
Front(j, k) == \A m \in Entries(j) : m < k => step[j][m] \in {"completed", "notExecuted"}

Clear(j) ==
    /\ NoGate(j)
    /\ \A n \in StepNumbers, m \in Entries(j) :
          m < n /\ step[j][n] = "pending" => step[j][m] \in Fine

AtGate(j) ==
    /\ \A m, n \in StepNumbers :
          step[j][m] = "waitingApproval" /\ step[j][n] = "waitingApproval" => m = n
    /\ \A n \in StepNumbers, m \in Entries(j) :
          m < n /\ step[j][n] = "pending" => step[j][m] \in Fine \cup {"waitingApproval"}

AtWork(j, k) ==
    /\ NoGate(j) /\ Front(j, k)
    /\ \A n \in StepNumbers, m \in Entries(j) :
          m < n /\ step[j][n] = "pending" => step[j][m] \in Fine \/ m = k
--------------------------------------------------------------------------------
(* Who may write to a job.  A decision is taken where nobody works on it;   *)
(* a handler that has rejected the gate closes the pending steps next.      *)
RowlessPc == NoRowPc \cup {"kill"}
DecidePc == {"passGate", "requeue", "rejectGate", "dropSteps", "rejectJob", "discardGate",
             "dropRest", "cancelJob"}
Waiting == {"pending", "queue", "approved", "waitingApproval"}

Polls(r) == IF sched[r].pc = "kill" THEN {} ELSE sched[r].rows

HoldsRow ==
    \A r \in Replicas :
        /\ IF sched[r].pc \in RowlessPc THEN sched[r].row = NoRow ELSE CurrentJob(r) \in Jobs
        /\ sched[r].pc \in {"idle", "cancels"} => sched[r].rows = {}

Unstaffed(j) == (\A c \in calls : c.id # j) /\ \A n \in StepNumbers : ~ Working(j, n)

Handled(j) ==
    \E r \in Replicas :
        \/ \E x \in Polls(r) : x.id = j /\ x.status # "pending"
        \/ InHand(r, j) /\ sched[r].row.status # "pending"

Loose(j) == Unstaffed(j) /\ ~ Handled(j)

Dropping(j) == \E q \in requests : q.id = j /\ q.pc \in {"dropSteps", "dropRest"}

RowStatus(x) ==
    /\ x.status \in {"pending", "approved", "queue"}
    /\ x.status = "approved" => job[x.id] = "approved"
    /\ x.status = "queue" => job[x.id] \in {"queue", "cancelled"}

HandStatus(s, j) ==
    /\ s.pc \in ClaimPc => s.row.status \in {"pending", "approved"}
    /\ s.pc = "claimJob" /\ s.row.status = "approved" => job[j] = "approved"
    /\ s.pc = "passGate" => s.row.status = "approved"
    /\ s.pc \in {"passGate", "unlockWorkspace"} /\ s.row.status = "approved" =>
          job[j] \in {"queue", "cancelled"}
    /\ s.pc \notin ClaimPc => s.row.status = "queue"
    /\ s.pc \in QueuePc => job[j] \in {"queue", "cancelled"}
    /\ s.pc \in RunPc => job[j] \in {"running", "cancelled"}
    /\ s.pc \in {"release", "failRelease"} => job[j] \in Terminal

LoopStaff(j) ==
    \A r \in Replicas :
        /\ \A x \in Polls(r) : x.id = j => Unstaffed(j) /\ RowStatus(x)
        /\ InHand(r, j) => Unstaffed(j) /\ HandStatus(sched[r], j)

CallStaff(j) ==
    \A c \in calls : c.id = j =>
        /\ job[j] \notin Waiting
        /\ \A d \in calls : d.id = j => d = c
        /\ \A n \in StepNumbers : ~ Working(j, n)

PodStaff(j) ==
    \A n \in StepNumbers : Working(j, n) =>
        job[j] \notin Waiting /\ \A m \in StepNumbers : Working(j, m) => m = n

DecideStaff(j) == \A q \in requests : q.id = j /\ q.pc \in DecidePc => Loose(j)

StaffInv(j) == LoopStaff(j) /\ CallStaff(j) /\ PodStaff(j) /\ DecideStaff(j)
--------------------------------------------------------------------------------
(* How far the steps of a job are, by who is about to write to it.          *)
HandOrder(s, j) ==
    /\ s.pc = "passGate" => AtGate(j)
    /\ s.pc = "unlockWorkspace" /\ s.row.status = "approved" => Clear(j)
    /\ s.pc \in {"skipStep", "parkStep", "claimStep"} => Clear(j) /\ Front(j, s.num)
    /\ s.pc \in {"advance", "countOpen"} => Clear(j)
    /\ s.pc = "parkJob" => AtGate(j)
    /\ s.pc \in HoldingPc => AtWork(j, s.num)
    /\ s.pc \in {"lockWorkspace", "handBack"} => NoneLeft(j) \/ s.num \in StepsIn(j, {"running"})

LoopOrder(j) ==
    \A r \in Replicas :
        /\ \A x \in Polls(r) : x.id = j /\ x.status = "queue" => Clear(j)
        /\ InHand(r, j) => HandOrder(sched[r], j)

CallOrder(j) == \A c \in calls : c.id = j /\ c.pc = "execute" => AtWork(j, c.num)

PodOrder(j) ==
    \A n \in StepNumbers : Working(j, n) =>
        IF pod[j][n].pc = "reportJob" THEN pod[j][n].verdict # "failed" => Clear(j)
                                      ELSE AtWork(j, n)

Decided(q, j) ==
    /\ q.pc \in {"passGate", "rejectGate"} => OneGate(j, q.num)
    /\ q.pc \in {"requeue", "dropSteps", "dropRest"} => NoGate(j)
    /\ ~ Dropping(j) => /\ q.pc = "passGate" => AtGate(j)
                        /\ q.pc = "requeue" => Clear(j)

DecideOrder(j) == \A q \in requests : q.id = j => Decided(q, j)

StatusOrder(j) ==
    ~ Dropping(j) =>
        /\ job[j] \in {"pending", "queue"} /\ ~ Handled(j) => Clear(j)
        /\ job[j] \in {"waitingApproval", "approved"} => AtGate(j)

OrderOwn(j) ==
    LoopOrder(j) /\ CallOrder(j) /\ PodOrder(j) /\ DecideOrder(j) /\ StatusOrder(j)

(* While InitJobSteps has steps left to insert, nobody decides at a gate.   *)
MissingInv(j) ==
    Missing(j) =>
        /\ job[j] \notin {"queue", "approved", "waitingApproval"} /\ NoGate(j)
        /\ \A q \in requests : q.id = j =>
              q.pc \notin {"passGate", "requeue", "rejectGate", "dropSteps", "rejectJob"}
        /\ job[j] = "pending" =>
              /\ \A m \in StepNumbers : step[j][m] \in Fine \cup {"none"}
              /\ \A q \in requests : q.id = j =>
                    q.pc \notin {"cancelSteps", "closeSteps", "failSteps"}

WorkInv(j) == StaffInv(j) /\ OrderOwn(j)

OrderInv == HoldsRow /\ \A j \in Jobs : WorkInv(j) /\ MissingInv(j)
--------------------------------------------------------------------------------
(* What is assumed of a state in which a step of the system is taken.       *)
Sound == Attentive /\ TypeInv /\ GateInv /\ OrderInv

LEMMA OneReplica == ASSUME Sound PROVE \A r, q \in Replicas : r = q
BY DEF Sound, Attentive, LonePoller

LEMMA InitOrderInv == Init => OrderInv
<1> SUFFICES ASSUME Init PROVE OrderInv
  OBVIOUS
<1> USE DEF Init, TablesInit, SchedInit, ApiInit
<1>1. \A r \in Replicas : sched[r].pc = "idle" /\ sched[r].rows = {} /\ sched[r].row = NoRow
  BY DEF IdleLoop
<1>2. HoldsRow
  BY <1>1 DEF HoldsRow, RowlessPc, NoRowPc
<1> SUFFICES ASSUME NEW j \in Jobs PROVE WorkInv(j) /\ MissingInv(j)
  BY <1>2 DEF OrderInv
<1>3. \A r \in Replicas : ~ InHand(r, j) /\ Polls(r) = {}
  BY <1>1, NoRowInHand DEF InHand, Polls
<1>4. \A n \in StepNumbers : ~ Working(j, n)
  BY DEF NoPod, Working
<1>5. StaffInv(j)
  BY <1>3, <1>4 DEF StaffInv, LoopStaff, CallStaff, PodStaff, DecideStaff
<1>6. job[j] = "none" /\ \A n \in StepNumbers : step[j][n] = "none"
  OBVIOUS
<1>7. OrderOwn(j)
  BY <1>3, <1>4, <1>6 DEF OrderOwn, LoopOrder, CallOrder, PodOrder, DecideOrder, StatusOrder
<1>8. MissingInv(j)
  BY <1>6 DEF MissingInv, NoGate
<1> QED
  BY <1>5, <1>7, <1>8 DEF WorkInv
--------------------------------------------------------------------------------
(* A step of the system that does not concern job j.                        *)
SamePolls(j) ==
    \A r \in Replicas : \A x \in Polls(r) \cup Polls(r)' :
        x.id = j => x \in Polls(r) /\ x \in Polls(r)'

(* The same steps: what was said of them holds on.                          *)
LEMMA SameSteps ==
    ASSUME NEW j \in Jobs, Same(j)
    PROVE  /\ NoGate(j)' = NoGate(j) /\ NoneLeft(j)' = NoneLeft(j)
           /\ Clear(j)' = Clear(j) /\ AtGate(j)' = AtGate(j)
           /\ \A k : /\ OneGate(j, k)' = OneGate(j, k) /\ Front(j, k)' = Front(j, k)
                    /\ AtWork(j, k)' = AtWork(j, k)
<1>1. \A m \in Entries(j) : step'[j][m] = step[j][m]
  BY DEF Same, Entries
<1>2. NoGate(j)' <=> NoGate(j)
  BY DEF Same, NoGate
<1>3. \A k : Front(j, k)' <=> Front(j, k)
  BY <1>1 DEF Front, Entries
<1> QED
  BY <1>1, <1>2, <1>3 DEF Same, NoGate, NoneLeft, Clear, AtGate, OneGate, Front, AtWork, Entries

LEMMA FrameStaff ==
    ASSUME NEW j \in Jobs, Frame(j), SamePolls(j), StaffInv(j) PROVE StaffInv(j)'
<1> USE DEF Frame
<1>1. \A n \in StepNumbers : Working(j, n)' <=> Working(j, n)
  BY DEF SameRow, Working
<1>2. Unstaffed(j) => Unstaffed(j)'
  BY <1>1 DEF Unstaffed, SameCalls
<1>3. Handled(j)' => Handled(j)
  BY DEF Handled, SamePolls, SameHand
<1>4. job'[j] = job[j]
  BY DEF SameRow
<1>5. LoopStaff(j)'
  <2>1. ASSUME NEW r \in Replicas, NEW x \in Polls(r)', x.id = j
        PROVE  Unstaffed(j)' /\ RowStatus(x)'
    BY <1>2, <1>4, <2>1 DEF SamePolls, StaffInv, LoopStaff, RowStatus
  <2>2. ASSUME NEW r \in Replicas, InHand(r, j)'
        PROVE  Unstaffed(j)' /\ HandStatus(sched[r], j)'
    BY <1>2, <1>4, <2>2 DEF SameHand, StaffInv, LoopStaff, HandStatus
  <2> QED
    BY <2>1, <2>2 DEF LoopStaff
<1>6. CallStaff(j)' /\ PodStaff(j)'
  BY <1>1, <1>4 DEF StaffInv, CallStaff, PodStaff, SameCalls
<1>7. DecideStaff(j)'
  BY <1>2, <1>3 DEF StaffInv, DecideStaff, SameRequests, Loose
<1> QED
  BY <1>5, <1>6, <1>7 DEF StaffInv

LEMMA FrameOrder ==
    ASSUME NEW j \in Jobs, Frame(j), SamePolls(j), OrderOwn(j) PROVE OrderOwn(j)'
<1> USE DEF Frame
<1>1. /\ NoGate(j)' = NoGate(j) /\ NoneLeft(j)' = NoneLeft(j)
      /\ Clear(j)' = Clear(j) /\ AtGate(j)' = AtGate(j)
      /\ \A k : /\ OneGate(j, k)' = OneGate(j, k) /\ Front(j, k)' = Front(j, k)
                /\ AtWork(j, k)' = AtWork(j, k)
  BY SameSteps DEF SameRow
<1>2. /\ job'[j] = job[j]
      /\ \A n \in StepNumbers : step'[j][n] = step[j][n] /\ pod'[j][n] = pod[j][n]
  BY DEF SameRow, Same
<1>3. Dropping(j)' <=> Dropping(j)
  BY DEF Dropping, SameRequests
<1>4. Handled(j)' <=> Handled(j)
  BY DEF Handled, SamePolls, SameHand
<1>5. LoopOrder(j)'
  <2>1. ASSUME NEW r \in Replicas, InHand(r, j)' PROVE HandOrder(sched[r], j)'
    <3>1. /\ HandOrder(sched[r], j) /\ sched'[r].pc = sched[r].pc
          /\ sched'[r].num = sched[r].num /\ sched'[r].row = sched[r].row
      BY <2>1 DEF SameHand, OrderOwn, LoopOrder
    <3>2. sched[r].pc \in {"lockWorkspace", "handBack"} =>
            NoneLeft(j)' \/ sched[r].num \in StepsIn(j, {"running"})'
      BY <1>1, <3>1 DEF HandOrder, SameRow, Same, StepsIn
    <3> QED
      BY <1>1, <3>1, <3>2 DEF HandOrder
  <2>2. ASSUME NEW r \in Replicas, NEW x \in Polls(r)', x.id = j, x.status = "queue"
        PROVE  Clear(j)'
    BY <1>1, <2>2 DEF SamePolls, OrderOwn, LoopOrder
  <2> QED
    BY <2>1, <2>2 DEF LoopOrder
<1>6. CallOrder(j)' /\ PodOrder(j)'
  BY <1>1, <1>2 DEF OrderOwn, CallOrder, PodOrder, SameCalls, Working
<1>7. DecideOrder(j)'
  BY <1>1, <1>3 DEF OrderOwn, DecideOrder, Decided, SameRequests
<1>8. StatusOrder(j)'
  BY <1>1, <1>2, <1>3, <1>4 DEF OrderOwn, StatusOrder
<1> QED
  BY <1>5, <1>6, <1>7, <1>8 DEF OrderOwn

LEMMA FrameWork ==
    ASSUME NEW j \in Jobs, Frame(j), SamePolls(j), WorkInv(j) PROVE WorkInv(j)'
BY FrameStaff, FrameOrder DEF WorkInv
--------------------------------------------------------------------------------
(* A statement of the loop about the job it has in hand.                    *)
AllWork == HoldsRow /\ \A j \in Jobs : WorkInv(j)

Statement(r) ==
    /\ HandStep(r) /\ sched[r].pc \notin RowlessPc
    /\ sched'[r].pc \in {"idle", "cancels"} => sched'[r].rows = {}

LEMMA HandJob ==
    ASSUME Sound, NEW r \in Replicas, sched[r].pc \notin RowlessPc
    PROVE  /\ CurrentJob(r) \in Jobs /\ InHand(r, CurrentJob(r)) /\ Unstaffed(CurrentJob(r))
           /\ HandStatus(sched[r], CurrentJob(r)) /\ HandOrder(sched[r], CurrentJob(r))
           /\ \A x \in Polls(r) : x.id # CurrentJob(r)
           /\ ~ Missing(CurrentJob(r)) /\ WorkInv(CurrentJob(r))
<1>1. CurrentJob(r) \in Jobs /\ InHand(r, CurrentJob(r))
  BY DEF Sound, OrderInv, HoldsRow, InHand, CurrentJob
<1>2. WorkInv(CurrentJob(r))
  BY <1>1 DEF Sound, OrderInv
<1>3. \A x \in Polls(r) : x.id # CurrentJob(r)
  BY DEF Sound, GateInv, RowsInv, Polls, CurrentJob
<1>4. ~ Missing(CurrentJob(r))
  BY <1>1 DEF Sound, GateInv, InitInv, LeftAlone
<1> QED
  BY <1>1, <1>2, <1>3, <1>4 DEF WorkInv, StaffInv, LoopStaff, OrderOwn, LoopOrder

LEMMA HandOther ==
    ASSUME Sound, NEW r \in Replicas, Statement(r)
    PROVE  HoldsRow' /\ \A j \in Jobs \ {CurrentJob(r)} : WorkInv(j)'
<1>1. \A q \in Replicas : q = r
  BY OneReplica
<1>2. CurrentJob(r) \in Jobs
  BY HandJob DEF Statement
<1>3. HoldsRow'
  BY <1>1, <1>2 DEF HoldsRow, Statement, HandStep, RowlessPc, NoRowPc, CurrentJob
<1> SUFFICES ASSUME NEW j \in Jobs \ {CurrentJob(r)} PROVE WorkInv(j)'
  BY <1>3
<1>4. SameRow(j) /\ SameRequests(j) /\ SameCalls(j)
  BY DEF Statement, HandStep, SameRow, SameRequests, SameCalls, cluster
<1>5. SamePolls(j)
  BY <1>1 DEF SamePolls, Polls, Statement, HandStep, RowlessPc, NoRowPc
<1>6. SameHand(j)
  <2>1. ~ InHand(r, j) /\ ~ InHand(r, j)'
    BY NoRowInHand DEF InHand, Statement, HandStep, CurrentJob
  <2> QED
    BY <1>1, <2>1 DEF SameHand
<1> QED
  BY <1>4, <1>5, <1>6, FrameWork DEF Frame, Sound, OrderInv

(* What such a statement has to establish for that job.                     *)
HandGood(r, i) ==
    /\ sched'[r].row = sched[r].row => HandStatus(sched[r], i)' /\ HandOrder(sched[r], i)'
    /\ IF sched[r].row.status = "pending"
       THEN Same(i) /\ (job'[i] = job[i] \/ (job[i] = "pending" /\ job'[i] = "queue"))
       ELSE /\ sched'[r].row # sched[r].row /\ job'[i] \in {"pending", "queue"} => Clear(i)'
            /\ job'[i] \in {"waitingApproval", "approved"} => AtGate(i)'

LEMMA HandWork ==
    ASSUME Sound, NEW r \in Replicas, Statement(r), UNCHANGED calls,
           NEW i \in Jobs, i = CurrentJob(r), HandGood(r, i)
    PROVE  AllWork'
<1>1. \A q \in Replicas : q = r
  BY OneReplica
<1>2. HoldsRow' /\ \A j \in Jobs \ {i} : WorkInv(j)'
  BY HandOther
<1>3. /\ InHand(r, i) /\ Unstaffed(i) /\ \A x \in Polls(r) : x.id # i
      /\ StaffInv(i) /\ OrderOwn(i)
  BY HandJob DEF Statement, WorkInv
<1>4. Unstaffed(i)' /\ UNCHANGED requests
  BY <1>3 DEF Unstaffed, Statement, HandStep, Working, cluster
<1>5. InHand(r, i)' => sched'[r].row = sched[r].row
  BY <1>3, NoRowInHand DEF InHand, Statement, HandStep
<1>6. \A x \in Polls(r)' : x.id # i
  BY <1>3 DEF Polls, Statement, HandStep, RowlessPc
<1>7. ASSUME NEW q \in requests, q.id = i, q.pc \in DecidePc
      PROVE  sched[r].row.status = "pending" /\ ~ Handled(i)'
  <2>1. ~ Handled(i)
    BY <1>3, <1>7 DEF StaffInv, DecideStaff, Loose
  <2> QED
    BY <1>1, <1>3, <1>5, <1>6, <2>1 DEF Handled
<1>8. StaffInv(i)'
  <2>1. LoopStaff(i)'
    BY <1>1, <1>4, <1>5, <1>6 DEF LoopStaff, HandGood
  <2>2. CallStaff(i)' /\ PodStaff(i)' /\ DecideStaff(i)'
    BY <1>4, <1>7 DEF Unstaffed, CallStaff, PodStaff, DecideStaff, Loose
  <2> QED
    BY <2>1, <2>2 DEF StaffInv
<1>9. Dropping(i)' <=> Dropping(i)
  BY <1>4 DEF Dropping
<1>10. OrderOwn(i)'
  <2>1. LoopOrder(i)'
    BY <1>1, <1>5, <1>6 DEF LoopOrder, HandGood
  <2>2. CallOrder(i)' /\ PodOrder(i)'
    BY <1>4 DEF Unstaffed, CallOrder, PodOrder
  <2>3. DecideOrder(i)'
    <3>1. ASSUME NEW q \in requests, q.id = i PROVE Decided(q, i)'
      <4>1. CASE q.pc \in DecidePc
        <5>1. Same(i)
          BY <1>7, <3>1, <4>1 DEF HandGood
        <5>2. Decided(q, i)
          BY <1>3, <3>1 DEF OrderOwn, DecideOrder
        <5> QED
          BY <1>9, <5>1, <5>2, SameSteps DEF Decided
      <4>2. CASE q.pc \notin DecidePc
        BY <4>2 DEF Decided, DecidePc
      <4> QED
        BY <4>1, <4>2
    <3> QED
      BY <1>4, <3>1 DEF DecideOrder
  <2>4. StatusOrder(i)'
    <3> SUFFICES ASSUME ~ Dropping(i) PROVE StatusOrder(i)'
      BY <1>9 DEF StatusOrder
    <3>1. /\ job[i] \in {"pending", "queue"} /\ ~ Handled(i) => Clear(i)
          /\ job[i] \in {"waitingApproval", "approved"} => AtGate(i)
      BY <1>3 DEF OrderOwn, StatusOrder
    <3>2. CASE sched[r].row.status = "pending"
      <4>1. ~ Handled(i)
        BY <1>1, <1>3, <3>2 DEF Handled
      <4>2. Same(i) /\ (job'[i] = job[i] \/ (job[i] = "pending" /\ job'[i] = "queue"))
        BY <3>2 DEF HandGood
      <4> QED
        BY <3>1, <4>1, <4>2, SameSteps DEF StatusOrder
    <3>3. CASE sched[r].row.status # "pending"
      <4>1. sched'[r].row = sched[r].row => Handled(i)'
        BY <1>3, <3>3 DEF Handled, InHand
      <4> QED
        BY <3>3, <4>1 DEF HandGood, StatusOrder
    <3> QED
      BY <3>2, <3>3
  <2> QED
    BY <2>1, <2>2, <2>3, <2>4 DEF OrderOwn
<1> QED
  BY <1>2, <1>8, <1>10 DEF AllWork, WorkInv

LEMMA StatementGoes ==
    ASSUME Sound, NEW r \in Replicas, sched[r].pc \notin RowlessPc,
           NEW pc \in SchedPc \ RowlessPc, Goto(r, pc) \/ EndOfRow(r),
           UNCHANGED <<cluster, requests, calls>>,
           \A j \in Jobs \ {CurrentJob(r)} : job'[j] = job[j] /\ Same(j)
    PROVE  /\ Statement(r)
           /\ Goto(r, pc) => /\ sched'[r].row = sched[r].row /\ sched'[r].pc = pc
                             /\ sched'[r].num = sched[r].num
           /\ EndOfRow(r) => sched'[r].row # sched[r].row
<1>0. TypeInv
  BY DEF Sound
<1>1. Goto(r, pc) => /\ sched'[r].row = sched[r].row /\ sched'[r].pc = pc
                     /\ sched'[r].num = sched[r].num /\ sched'[r].rows = sched[r].rows
  BY <1>0, GotoAt
<1>2. EndOfRow(r) => /\ sched'[r].pc \in {"next", "cancels"} /\ sched'[r].row = NoRow
                     /\ sched'[r].rows = sched[r].rows
                     /\ sched'[r].pc = "cancels" => sched[r].rows = {}
  <2>1. EndOfRow(r) => (sched'[r].pc = "cancels" => sched[r].rows = {})
    BY <1>0 DEF EndOfRow, NextRow, IdleLoop, TypeInv, LoopsOK
  <2> QED
    BY <1>0, <2>1, NextRowAt DEF EndOfRow
<1>3. CurrentJob(r) # NoRow.id
  BY HandJob, NoRowInHand
<1> QED
  BY <1>1, <1>2, <1>3 DEF Statement, HandStep, RowlessPc, NoRowPc, CurrentJob

(* A row that was not pending when it was polled: nobody decides about it.  *)
LEMMA NobodyDecides ==
    ASSUME Sound, NEW r \in Replicas, sched[r].pc \notin RowlessPc,
           sched[r].row.status # "pending", NEW i \in Jobs, i = CurrentJob(r)
    PROVE  /\ \A q \in requests : q.id = i => q.pc \notin DecidePc
           /\ job[i] \in {"waitingApproval", "approved"} => AtGate(i)
<1>1. InHand(r, i) /\ WorkInv(i)
  BY HandJob
<1>2. Handled(i)
  BY <1>1 DEF Handled
<1>3. \A q \in requests : q.id = i => q.pc \notin DecidePc
  BY <1>1, <1>2 DEF WorkInv, StaffInv, DecideStaff, Loose
<1>4. ~ Dropping(i)
  BY <1>3 DEF Dropping, DecidePc
<1> QED
  BY <1>1, <1>3, <1>4 DEF WorkInv, OrderOwn, StatusOrder

LEMMA ClaimJobWork ==
    ASSUME Sound, NEW r \in Replicas, ClaimJob(r), UNCHANGED apiVars PROVE AllWork'
<1> USE DEF apiVars
<1>0. TypeInv
  BY DEF Sound
<1>1. sched[r].pc = "claimJob" /\ sched[r].pc \notin RowlessPc
  BY DEF ClaimJob, At, RowlessPc, NoRowPc
<1>2. PICK i \in Jobs : i = CurrentJob(r)
  BY <1>1, HandJob
<1>3. /\ HandStatus(sched[r], i) /\ sched[r].row.status \in {"pending", "approved"}
      /\ sched[r].row.status = "approved" => job[i] = "approved"
  BY <1>1, <1>2, HandJob DEF HandStatus, ClaimPc
<1> DEFINE pc == IF sched[r].row.status = "approved" THEN "passGate" ELSE "unlockWorkspace"
<1>4. pc \in SchedPc \ RowlessPc /\ pc \in {"passGate", "unlockWorkspace"}
  BY DEF SchedPc, RowlessPc, NoRowPc
<1>5. pc = "passGate" <=> sched[r].row.status = "approved"
  OBVIOUS
<1>6. CASE job[i] = sched[r].row.status /\ SetJob(i, "queue") /\ Goto(r, pc)
  <2>1. job'[i] = "queue" /\ \A j \in Jobs \ {i} : job'[j] = job[j]
    BY <1>0, <1>6, SetJobAt DEF TypeInv
  <2>2. UNCHANGED <<step, cluster, calls>>
    BY DEF ClaimJob
  <2>3. \A j \in Jobs : Same(j)
    BY <2>2 DEF Same
  <2> HIDE DEF pc
  <2>4. Statement(r) /\ sched'[r].row = sched[r].row /\ sched'[r].pc = pc
    BY <1>1, <1>2, <1>4, <1>6, <2>1, <2>2, <2>3, StatementGoes
  <2>5. HandStatus(sched[r], i)'
    BY <1>3, <1>4, <1>5, <2>1, <2>4 DEF HandStatus, ClaimPc, QueuePc, RunPc
  <2>6. sched[r].row.status = "approved" => AtGate(i)'
    BY <1>1, <1>2, <1>3, <2>3, NobodyDecides, SameSteps
  <2>7. HandOrder(sched[r], i)'
    BY <1>3, <1>4, <1>5, <2>4, <2>6 DEF HandOrder, HoldingPc
  <2>8. HandGood(r, i)
    BY <1>3, <1>6, <2>1, <2>3, <2>4, <2>5, <2>7 DEF HandGood
  <2> QED
    BY <1>2, <2>2, <2>4, <2>8, HandWork
<1>7. CASE job[i] # sched[r].row.status /\ EndOfRow(r) /\ UNCHANGED job
  <2>1. UNCHANGED <<step, cluster, calls>> /\ \A j \in Jobs : Same(j)
    BY DEF ClaimJob, Same
  <2> HIDE DEF pc
  <2>2. Statement(r) /\ sched'[r].row # sched[r].row
    BY <1>1, <1>2, <1>4, <1>7, <2>1, StatementGoes
  <2>3. HandGood(r, i)
    BY <1>3, <1>7, <2>1, <2>2 DEF HandGood
  <2> QED
    BY <1>2, <2>1, <2>2, <2>3, HandWork
<1> QED
  BY <1>2, <1>6, <1>7 DEF ClaimJob, CurrentJob

LEMMA PassGateWork ==
    ASSUME Sound, NEW r \in Replicas, PassGate(r), UNCHANGED apiVars PROVE AllWork'
<1> USE DEF apiVars
<1>0. TypeInv
  BY DEF Sound
<1>1. sched[r].pc = "passGate" /\ sched[r].pc \notin RowlessPc
  BY DEF PassGate, At, RowlessPc, NoRowPc
<1>2. PICK i \in Jobs : i = CurrentJob(r)
  BY <1>1, HandJob
<1>3. /\ MoveSteps(i, {"waitingApproval"}, "completed") /\ Goto(r, "unlockWorkspace")
      /\ UNCHANGED <<job, cluster, calls>>
  BY <1>2 DEF PassGate
<1>4. Moves(i, {"waitingApproval"}, "completed") /\ \A j \in Jobs \ {i} : Same(j)
  BY <1>0, <1>3, MoveStepsAt DEF TypeInv
<1>5. Statement(r) /\ sched'[r].row = sched[r].row /\ sched'[r].pc = "unlockWorkspace"
  BY <1>1, <1>2, <1>3, <1>4, StatementGoes DEF SchedPc, RowlessPc, NoRowPc
<1>6. /\ sched[r].row.status = "approved" /\ job[i] \in {"queue", "cancelled"} /\ AtGate(i)
  BY <1>1, <1>2, HandJob DEF HandStatus, HandOrder
<1>7. Clear(i)'
  BY <1>4, <1>6 DEF Moves, AtGate, Clear, NoGate, Fine, Entries
<1>8. HandStatus(sched[r], i)' /\ HandOrder(sched[r], i)'
  BY <1>3, <1>5, <1>6, <1>7 DEF HandStatus, HandOrder, ClaimPc, QueuePc, RunPc, HoldingPc
<1>9. HandGood(r, i)
  BY <1>3, <1>5, <1>6, <1>8 DEF HandGood
<1> QED
  BY <1>2, <1>3, <1>5, <1>9, HandWork
--------------------------------------------------------------------------------
(* Statements about a row that was polled as queued: what holds of its job  *)
(* and its steps at the next statement, or at the end of its turn.          *)
JobAt(pc, status) ==
    /\ pc \in QueuePc => status \in {"queue", "cancelled"}
    /\ pc \in RunPc => status \in {"running", "cancelled"}
    /\ pc \in {"release", "failRelease"} => status \in Terminal

StepsAt(pc, k, i) ==
    /\ pc \in {"advance", "countOpen"} => Clear(i)
    /\ pc = "parkJob" => AtGate(i)
    /\ pc \in HoldingPc => AtWork(i, k)
    /\ pc \in {"lockWorkspace", "handBack"} => NoneLeft(i) \/ k \in StepsIn(i, {"running"})

InTurn(i) ==
    /\ job[i] \in {"pending", "queue"} => Clear(i)
    /\ job[i] \in {"waitingApproval", "approved"} => AtGate(i)

LaterPc == SchedPc \ (RowlessPc \cup ClaimPc)

LEMMA LaterJob ==
    ASSUME Sound, NEW r \in Replicas, sched[r].pc \in LaterPc, NEW i \in Jobs,
           i = CurrentJob(r), NEW k, k = sched[r].num
    PROVE  /\ JobAt(sched[r].pc, job[i]) /\ StepsAt(sched[r].pc, k, i)
           /\ sched[r].row.status = "queue" /\ sched[r].pc \notin RowlessPc
           /\ sched[r].pc \in {"skipStep", "parkStep", "claimStep"} => Clear(i) /\ Front(i, k)
<1>1. sched[r].pc \notin RowlessPc /\ sched[r].pc \notin ClaimPc
  BY DEF LaterPc
<1>2. HandStatus(sched[r], i) /\ HandOrder(sched[r], i)
  BY <1>1, HandJob
<1> QED
  BY <1>1, <1>2 DEF HandStatus, HandOrder, JobAt, StepsAt

LEMMA LaterWork ==
    ASSUME Sound, NEW r \in Replicas, sched[r].pc \in LaterPc, NEW i \in Jobs,
           i = CurrentJob(r), NEW k, k = sched[r].num,
           NEW pc \in LaterPc \ {"skipStep", "parkStep", "claimStep"},
           Goto(r, pc) \/ EndOfRow(r), UNCHANGED <<cluster, requests, calls>>,
           \A j \in Jobs \ {i} : job'[j] = job[j] /\ Same(j),
           Goto(r, pc) => JobAt(pc, job'[i]) /\ StepsAt(pc, k, i)',
           EndOfRow(r) => InTurn(i)'
    PROVE  AllWork'
<1>1. sched[r].row.status = "queue" /\ sched[r].pc \notin RowlessPc
  BY LaterJob
<1>2. pc \in SchedPc \ RowlessPc /\ pc \notin ClaimPc
  BY DEF LaterPc
<1>3. /\ Statement(r)
      /\ Goto(r, pc) => /\ sched'[r].row = sched[r].row /\ sched'[r].pc = pc
                        /\ sched'[r].num = k
      /\ EndOfRow(r) => sched'[r].row # sched[r].row
  BY <1>1, <1>2, StatementGoes
<1>4. HandGood(r, i)
  <2>1. CASE Goto(r, pc)
    <3>1. HandStatus(sched[r], i)'
      BY <1>1, <1>2, <1>3, <2>1 DEF HandStatus, JobAt, ClaimPc
    <3>2. HandOrder(sched[r], i)'
      BY <1>1, <1>2, <1>3, <2>1 DEF HandOrder, StepsAt, ClaimPc
    <3>3. job'[i] \notin {"waitingApproval", "approved"}
      <4>1. pc \in QueuePc \cup RunPc \cup {"release", "failRelease"}
        BY DEF LaterPc, SchedPc, HoldingPc, RowlessPc, NoRowPc, ClaimPc, QueuePc, RunPc
      <4> QED
        BY <2>1, <4>1 DEF JobAt, Terminal
    <3> QED
      BY <1>1, <1>3, <2>1, <3>1, <3>2, <3>3 DEF HandGood
  <2>2. CASE EndOfRow(r)
    BY <1>1, <1>3, <2>2 DEF HandGood, InTurn
  <2> QED
    BY <2>1, <2>2
<1> QED
  BY <1>3, <1>4, HandWork

(* ... that only read.                                                      *)
LEMMA ReadWork ==
    ASSUME Sound, NEW r \in Replicas, UNCHANGED apiVars,
           \/ Advance(r) \/ CountOpen(r) \/ Tally(r) \/ ReleaseFinished(r) \/ LockWorkspace(r)
           \/ Spawn(r) /\ UNCHANGED calls
           \/ NoExecutor(r) /\ At(r, "failRelease")
    PROVE  AllWork'
<1> USE DEF apiVars, tables, At
<1>1. /\ sched[r].pc \in {"advance", "countOpen", "tally", "release", "lockWorkspace", "spawn",
                          "failRelease"}
      /\ UNCHANGED <<job, step, cluster, calls, requests>>
  BY DEF Advance, CountOpen, Tally, ReleaseFinished, LockWorkspace, Spawn, NoExecutor
<1>2. sched[r].pc \in LaterPc /\ sched[r].pc \notin RowlessPc
  BY <1>1 DEF LaterPc, SchedPc, HoldingPc, RowlessPc, NoRowPc, ClaimPc
<1>3. PICK i \in Jobs : i = CurrentJob(r)
  BY <1>2, HandJob
<1>4. PICK k : k = sched[r].num
  OBVIOUS
<1>5. JobAt(sched[r].pc, job[i]) /\ StepsAt(sched[r].pc, k, i)
  BY <1>2, <1>3, <1>4, LaterJob
<1>6. /\ \A j \in Jobs : Same(j)
      /\ NoneLeft(i)' = NoneLeft(i) /\ Clear(i)' = Clear(i)
      /\ AtGate(i)' = AtGate(i) /\ AtWork(i, k)' = AtWork(i, k)
      /\ StepsIn(i, {"running"})' = StepsIn(i, {"running"})
  <2>1. \A j \in Jobs : Same(j)
    BY <1>1 DEF Same
  <2> QED
    BY <1>1, <2>1, SameSteps DEF StepsIn
<1>7. PICK pc \in {"countOpen", "tally", "complete", "fail", "handBack", "runJob", "failStep"} :
        /\ \/ Goto(r, pc) /\ sched[r].pc \notin {"release", "failRelease"}
           \/ EndOfRow(r) /\ sched[r].pc \notin {"lockWorkspace", "tally", "spawn"}
        /\ pc \in RunPc <=> sched[r].pc \in RunPc
        /\ pc = "countOpen" => sched[r].pc = "advance"
        /\ pc \in HoldingPc => sched[r].pc = "lockWorkspace"
  <2>1. CASE Advance(r)
    BY <2>1 DEF Advance, RunPc, HoldingPc
  <2>2. CASE CountOpen(r)
    BY <2>2 DEF CountOpen, RunPc, HoldingPc
  <2>3. CASE Tally(r)
    BY <2>3 DEF Tally, RunPc, HoldingPc
  <2>4. CASE LockWorkspace(r)
    BY <2>4 DEF LockWorkspace, RunPc, HoldingPc
  <2>5. CASE ReleaseFinished(r) \/ (NoExecutor(r) /\ At(r, "failRelease"))
    BY <2>5 DEF ReleaseFinished, NoExecutor, RunPc, HoldingPc
  <2>6. CASE Spawn(r) /\ UNCHANGED calls
    <3>1. Unstaffed(i)
      BY <1>2, <1>3, HandJob
    <3>2. Goto(r, "failStep")
      <4> DEFINE e == [by |-> r, id |-> CurrentJob(r), num |-> sched[r].num, pc |-> "execute",
                       type |-> ResolveType(CurrentJob(r), sched[r].num, sched[r].row.tcl)]
      <4>1. Goto(r, "failStep") \/ calls' = calls \cup {e}
        BY <2>6 DEF Spawn
      <4>2. e.id = i
        BY <1>3
      <4> HIDE DEF e
      <4> QED
        BY <2>6, <3>1, <4>1, <4>2 DEF Unstaffed
    <3> QED
      BY <2>6, <3>2 DEF Spawn, RunPc, HoldingPc
  <2> QED
    BY <2>1, <2>2, <2>3, <2>4, <2>5, <2>6
<1>8. pc \in LaterPc \ {"skipStep", "parkStep", "claimStep"}
  BY DEF LaterPc, SchedPc, HoldingPc, RowlessPc, NoRowPc, ClaimPc
<1>9. ~ (EndOfRow(r) /\ Goto(r, pc))
  <2>1. TypeInv
    BY DEF Sound
  <2> QED
    BY <2>1, GotoAt, NextRowAt DEF EndOfRow
<1>10. Goto(r, pc) => JobAt(pc, job'[i]) /\ StepsAt(pc, k, i)'
  BY <1>1, <1>5, <1>6, <1>7, <1>9 DEF JobAt, StepsAt, QueuePc, RunPc, HoldingPc
<1>11. EndOfRow(r) => InTurn(i)'
  BY <1>1, <1>5, <1>6, <1>7, <1>9 DEF JobAt, StepsAt, InTurn, QueuePc, RunPc, Terminal
<1> QED
  BY <1>1, <1>2, <1>3, <1>4, <1>6, <1>7, <1>8, <1>10, <1>11, LaterWork

LEMMA UnlockWork ==
    ASSUME Sound, NEW r \in Replicas, UnlockWorkspace(r), UNCHANGED apiVars PROVE AllWork'
<1> USE DEF apiVars
<1>1. /\ sched[r].pc = "unlockWorkspace" /\ sched[r].pc \notin RowlessPc /\ EndOfRow(r)
      /\ UNCHANGED <<job, step, cluster, calls, requests>>
  BY DEF UnlockWorkspace, At, RowlessPc, NoRowPc
<1>2. PICK i \in Jobs : i = CurrentJob(r)
  BY <1>1, HandJob
<1>3. \A j \in Jobs : Same(j)
  BY <1>1 DEF Same
<1>4. Statement(r) /\ sched'[r].row # sched[r].row
  <2>1. "claimJob" \in SchedPc \ RowlessPc
    BY DEF SchedPc, RowlessPc, NoRowPc
  <2> QED
    BY <1>1, <1>3, <2>1, StatementGoes
<1>5. HandStatus(sched[r], i) /\ HandOrder(sched[r], i)
  BY <1>1, <1>2, HandJob
<1>6. sched[r].row.status = "pending" \/ (job[i] \in {"queue", "cancelled"} /\ Clear(i))
  BY <1>1, <1>5 DEF HandStatus, HandOrder, ClaimPc
<1>7. HandGood(r, i)
  BY <1>1, <1>3, <1>4, <1>6, SameSteps DEF HandGood
<1> QED
  BY <1>1, <1>2, <1>4, <1>7, HandWork

(* ... that write the step in hand.                                         *)
LEMMA SkipWork ==
    ASSUME Sound, NEW r \in Replicas, SkipStep(r) \/ ParkStep(r), UNCHANGED apiVars
    PROVE  AllWork'
<1> USE DEF apiVars, At
<1>0. TypeInv
  BY DEF Sound
<1>1. /\ sched[r].pc \in {"skipStep", "parkStep"}
      /\ UNCHANGED <<job, cluster, calls, requests>>
  BY DEF SkipStep, ParkStep
<1>2. sched[r].pc \in LaterPc /\ sched[r].pc \notin RowlessPc
  BY <1>1 DEF LaterPc, SchedPc, RowlessPc, NoRowPc, ClaimPc
<1>3. PICK i \in Jobs : i = CurrentJob(r)
  BY <1>2, HandJob
<1>4. PICK k : k = sched[r].num
  OBVIOUS
<1>5. JobAt(sched[r].pc, job[i]) /\ Clear(i) /\ Front(i, k)
  BY <1>1, <1>2, <1>3, <1>4, LaterJob
<1>6. PICK s \in {"notExecuted", "waitingApproval"} :
         /\ SetStep(i, k, s)
         /\ Goto(r, IF s = "notExecuted" THEN "advance" ELSE "parkJob")
  BY <1>3, <1>4 DEF SkipStep, ParkStep
<1>7. Sets(i, k, s) /\ \A j \in Jobs \ {i} : Same(j)
  BY <1>0, <1>6, SetStepAt DEF TypeInv
<1>8. IF s = "notExecuted" THEN Clear(i)' ELSE AtGate(i)'
  BY <1>5, <1>7 DEF Sets, Clear, AtGate, NoGate, Fine, Entries
<1>9. PICK pc \in {"advance", "parkJob"} :
         Goto(r, pc) /\ (pc = "advance" => Clear(i)') /\ (pc = "parkJob" => AtGate(i)')
  BY <1>6, <1>8
<1>10. pc \in LaterPc \ {"skipStep", "parkStep", "claimStep"} /\ pc \notin HoldingPc
  BY DEF LaterPc, SchedPc, HoldingPc, RowlessPc, NoRowPc, ClaimPc
<1>11. ~ EndOfRow(r)
  BY <1>0, <1>9, GotoAt, NextRowAt DEF EndOfRow
<1>12. JobAt(pc, job'[i]) /\ StepsAt(pc, k, i)'
  BY <1>1, <1>5, <1>9, <1>10 DEF JobAt, StepsAt, QueuePc, RunPc
<1> QED
  BY <1>1, <1>2, <1>3, <1>4, <1>7, <1>9, <1>10, <1>11, <1>12, LaterWork

LEMMA ClaimStepWork ==
    ASSUME Sound, NEW r \in Replicas, ClaimStep(r), UNCHANGED apiVars PROVE AllWork'
<1> USE DEF apiVars
<1>0. TypeInv
  BY DEF Sound
<1>1. sched[r].pc = "claimStep" /\ UNCHANGED <<job, cluster, calls, requests>>
  BY DEF ClaimStep, At
<1>2. sched[r].pc \in LaterPc /\ sched[r].pc \notin RowlessPc
  BY <1>1 DEF LaterPc, SchedPc, RowlessPc, NoRowPc, ClaimPc
<1>3. PICK i \in Jobs : i = CurrentJob(r)
  BY <1>2, HandJob
<1>4. PICK k \in StepNumbers : k = sched[r].num
  BY <1>0, <1>1 DEF TypeInv, LoopsOK, ClaimingPc
<1>5. JobAt(sched[r].pc, job[i]) /\ Clear(i) /\ Front(i, k)
  BY <1>1, <1>2, <1>3, <1>4, LaterJob
<1>6. "lockWorkspace" \in LaterPc \ {"skipStep", "parkStep", "claimStep"}
  BY DEF LaterPc, SchedPc, HoldingPc, RowlessPc, NoRowPc, ClaimPc
<1>7. CASE SetStep(i, k, "running") /\ Goto(r, "lockWorkspace")
  <2>1. Sets(i, k, "running") /\ \A j \in Jobs \ {i} : Same(j)
    BY <1>0, <1>7, SetStepAt DEF TypeInv
  <2>2. AtWork(i, k)'
    <3>1. NoGate(i)'
      BY <1>5, <2>1 DEF Sets, Clear, NoGate
    <3>2. Front(i, k)'
      BY <1>5, <2>1, StepOrder DEF Sets, Front, Entries
    <3>3. \A n \in StepNumbers, m \in Entries(i) :
             m < n /\ step'[i][n] = "pending" => step'[i][m] \in Fine \/ m = k
      BY <1>5, <2>1 DEF Sets, Clear, Entries
    <3> QED
      BY <3>1, <3>2, <3>3 DEF AtWork, Entries
  <2>3. k \in StepsIn(i, {"running"})'
    BY <2>1 DEF Sets, StepsIn
  <2>4. ~ EndOfRow(r)
    BY <1>0, <1>7, GotoAt, NextRowAt DEF EndOfRow
  <2>5. JobAt("lockWorkspace", job'[i]) /\ StepsAt("lockWorkspace", k, i)'
    BY <1>1, <1>5, <2>2, <2>3 DEF JobAt, StepsAt, QueuePc, RunPc
  <2> QED
    BY <1>1, <1>2, <1>3, <1>4, <1>6, <1>7, <2>1, <2>4, <2>5, LaterWork
<1>8. CASE EndOfRow(r) /\ UNCHANGED step
  <2>1. \A j \in Jobs : Same(j)
    BY <1>8 DEF Same
  <2>2. ~ Goto(r, "lockWorkspace")
    BY <1>0, <1>8, GotoAt, NextRowAt DEF EndOfRow
  <2>3. InTurn(i)'
    BY <1>1, <1>5, <2>1, SameSteps DEF InTurn, JobAt, QueuePc
  <2> QED
    BY <1>1, <1>2, <1>3, <1>4, <1>6, <1>8, <2>1, <2>2, <2>3, LaterWork
<1> QED
  BY <1>3, <1>4, <1>7, <1>8 DEF ClaimStep

LEMMA HandBackWork ==
    ASSUME Sound, NEW r \in Replicas, HandBack(r), UNCHANGED apiVars PROVE AllWork'
<1> USE DEF apiVars
<1>0. TypeInv
  BY DEF Sound
<1>1. /\ sched[r].pc = "handBack" /\ EndOfRow(r)
      /\ UNCHANGED <<job, cluster, calls, requests>>
  BY DEF HandBack, At
<1>2. sched[r].pc \in LaterPc /\ sched[r].pc \notin RowlessPc
  BY <1>1 DEF LaterPc, SchedPc, HoldingPc, RowlessPc, NoRowPc, ClaimPc
<1>3. PICK i \in Jobs : i = CurrentJob(r)
  BY <1>2, HandJob
<1>4. PICK k \in StepNumbers : k = sched[r].num
  BY <1>0, <1>1 DEF TypeInv, LoopsOK, ClaimingPc, HoldingPc
<1>5. /\ JobAt(sched[r].pc, job[i]) /\ AtWork(i, k)
      /\ NoneLeft(i) \/ step[i][k] = "running"
  BY <1>1, <1>2, <1>3, <1>4, LaterJob DEF StepsAt, StepsIn, HoldingPc
<1>6. Clear(i)' /\ \A j \in Jobs \ {i} : Same(j)
  <2>1. CASE SetStep(i, k, "pending")
    <3>1. Sets(i, k, "pending") /\ \A j \in Jobs \ {i} : Same(j)
      BY <1>0, <2>1, SetStepAt DEF TypeInv
    <3>2. \A n \in StepNumbers, m \in Entries(i) :
             m < n /\ step'[i][n] = "pending" => step'[i][m] \in Fine
      BY <1>5, <3>1 DEF Sets, AtWork, Front, Fine, Entries
    <3>3. NoGate(i)'
      BY <1>5, <3>1 DEF Sets, AtWork, NoGate
    <3> QED
      BY <3>1, <3>2, <3>3 DEF Clear, Entries
  <2>2. CASE step[i][k] # "running" /\ UNCHANGED step
    BY <1>5, <2>2 DEF Same, NoneLeft, AtWork, Clear, NoGate
  <2> QED
    BY <1>3, <1>4, <2>1, <2>2 DEF HandBack
<1>7. InTurn(i)'
  BY <1>1, <1>5, <1>6 DEF InTurn, JobAt, QueuePc
<1>8. "advance" \in LaterPc \ {"skipStep", "parkStep", "claimStep"} /\ ~ Goto(r, "advance")
  <2>1. ~ Goto(r, "advance")
    BY <1>0, <1>1, GotoAt, NextRowAt DEF EndOfRow
  <2> QED
    BY <2>1 DEF LaterPc, SchedPc, RowlessPc, NoRowPc, ClaimPc
<1> QED
  BY <1>1, <1>2, <1>3, <1>4, <1>6, <1>7, <1>8, LaterWork

(* ... that write the job in hand, or give its step up.                     *)
LEMMA StatusWork ==
    ASSUME Sound, NEW r \in Replicas, UNCHANGED apiVars,
           \/ FinishJob(r) \/ ParkJob(r) \/ RunJob(r)
           \/ NoExecutor(r) /\ (At(r, "failStep") \/ At(r, "failJob"))
    PROVE  AllWork'
<1> USE DEF apiVars, At
<1>0. TypeInv
  BY DEF Sound
<1>1. /\ sched[r].pc \in {"complete", "fail", "parkJob", "runJob", "failStep", "failJob"}
      /\ UNCHANGED <<cluster, calls, requests>>
  BY DEF FinishJob, ParkJob, RunJob, NoExecutor
<1>2. sched[r].pc \in LaterPc /\ sched[r].pc \notin RowlessPc
  BY <1>1 DEF LaterPc, SchedPc, HoldingPc, RowlessPc, NoRowPc, ClaimPc
<1>3. PICK i \in Jobs : i = CurrentJob(r)
  BY <1>2, HandJob
<1>4. PICK k : k = sched[r].num
  OBVIOUS
<1>5. JobAt(sched[r].pc, job[i]) /\ StepsAt(sched[r].pc, k, i)
  BY <1>2, <1>3, <1>4, LaterJob
<1>6. \/ Goto(r, "release") /\ UNCHANGED step
         /\ (SetJob(i, "completed") \/ SetJob(i, "failed"))
      \/ EndOfRow(r) /\ UNCHANGED step /\ SetJob(i, "waitingApproval") /\ sched[r].pc = "parkJob"
      \/ Goto(r, "spawn") /\ UNCHANGED step /\ SetJob(i, "running") /\ sched[r].pc = "runJob"
      \/ Goto(r, "failJob") /\ SetStep(i, k, "failed") /\ UNCHANGED job
         /\ sched[r].pc = "failStep"
      \/ Goto(r, "failRelease") /\ UNCHANGED step /\ SetJob(i, "failed")
  BY <1>3, <1>4 DEF FinishJob, ParkJob, RunJob, NoExecutor
<1>7. \A s : SetJob(i, s) => job'[i] = s /\ \A j \in Jobs \ {i} : job'[j] = job[j]
  BY <1>0, SetJobAt DEF TypeInv
<1>8. SetStep(i, k, "failed") => \A j \in Jobs \ {i} : Same(j)
  BY <1>0, SetStepAt DEF TypeInv
<1>9. UNCHANGED step => /\ \A j \in Jobs : Same(j)
                        /\ AtGate(i)' = AtGate(i) /\ AtWork(i, k)' = AtWork(i, k)
  <2>1. UNCHANGED step => \A j \in Jobs : Same(j)
    BY DEF Same
  <2> QED
    BY <2>1, SameSteps
<1>10. \A j \in Jobs \ {i} : job'[j] = job[j] /\ Same(j)
  BY <1>6, <1>7, <1>8, <1>9
<1>11. PICK pc \in {"release", "spawn", "failJob", "failRelease"} :
         \/ EndOfRow(r) /\ InTurn(i)'
         \/ Goto(r, pc) /\ JobAt(pc, job'[i]) /\ StepsAt(pc, k, i)'
  <2>1. CASE Goto(r, "release") /\ (SetJob(i, "completed") \/ SetJob(i, "failed"))
    BY <1>7, <2>1 DEF JobAt, StepsAt, QueuePc, RunPc, HoldingPc, Terminal
  <2>2. CASE /\ EndOfRow(r) /\ UNCHANGED step /\ SetJob(i, "waitingApproval")
             /\ sched[r].pc = "parkJob"
    BY <1>5, <1>7, <1>9, <2>2 DEF InTurn, StepsAt
  <2>3. CASE /\ Goto(r, "spawn") /\ UNCHANGED step /\ SetJob(i, "running")
             /\ sched[r].pc = "runJob"
    BY <1>5, <1>7, <1>9, <2>3 DEF JobAt, StepsAt, QueuePc, RunPc, HoldingPc
  <2>4. CASE Goto(r, "failJob") /\ UNCHANGED job /\ sched[r].pc = "failStep"
    BY <1>5, <2>4 DEF JobAt, StepsAt, QueuePc, RunPc, HoldingPc
  <2>5. CASE Goto(r, "failRelease") /\ SetJob(i, "failed")
    BY <1>7, <2>5 DEF JobAt, StepsAt, QueuePc, RunPc, HoldingPc, Terminal
  <2> QED
    BY <1>6, <2>1, <2>2, <2>3, <2>4, <2>5
<1>12. pc \in LaterPc \ {"skipStep", "parkStep", "claimStep"}
  BY DEF LaterPc, SchedPc, HoldingPc, RowlessPc, NoRowPc, ClaimPc
<1>13. ~ (EndOfRow(r) /\ Goto(r, pc))
  BY <1>0, GotoAt, NextRowAt DEF EndOfRow
<1> QED
  BY <1>1, <1>2, <1>3, <1>4, <1>10, <1>11, <1>12, <1>13, LaterWork
--------------------------------------------------------------------------------
(* The hand-over to a goroutine: the call takes the row's place.            *)
LEMMA HireWork ==
    ASSUME Sound, NEW r \in Replicas, Spawn(r), calls' # calls, UNCHANGED apiVars
    PROVE  AllWork'
<1>0. TypeInv
  BY DEF Sound
<1>1. sched[r].pc = "spawn" /\ UNCHANGED <<job, step, cluster, requests>>
  BY DEF Spawn, At, tables, apiVars
<1>2. sched[r].pc \in LaterPc /\ sched[r].pc \notin RowlessPc
  BY <1>1 DEF LaterPc, SchedPc, HoldingPc, RowlessPc, NoRowPc, ClaimPc
<1>3. PICK i \in Jobs : i = CurrentJob(r)
  BY <1>2, HandJob
<1>4. PICK k : k = sched[r].num
  OBVIOUS
<1>5. /\ job[i] \in {"running", "cancelled"} /\ AtWork(i, k)
      /\ \A q \in requests : q.id = i => q.pc \notin DecidePc
  <2>1. /\ JobAt(sched[r].pc, job[i]) /\ StepsAt(sched[r].pc, k, i)
        /\ sched[r].row.status # "pending"
    BY <1>2, <1>3, <1>4, LaterJob
  <2>2. \A q \in requests : q.id = i => q.pc \notin DecidePc
    BY <1>2, <1>3, <2>1, NobodyDecides
  <2> QED
    BY <1>1, <2>1, <2>2 DEF JobAt, StepsAt, RunPc, HoldingPc
<1>6. /\ Unstaffed(i) /\ InHand(r, i) /\ \A x \in Polls(r) : x.id # i
  BY <1>2, <1>3, HandJob
<1>7. PICK e : /\ e.id = i /\ e.num = k /\ e.pc = "execute"
               /\ calls' = calls \cup {e} /\ EndOfRow(r)
  <2> DEFINE e == [by |-> r, id |-> CurrentJob(r), num |-> sched[r].num, pc |-> "execute",
                   type |-> ResolveType(CurrentJob(r), sched[r].num, sched[r].row.tcl)]
  <2>1. calls' = calls \cup {e} /\ EndOfRow(r)
    BY DEF Spawn
  <2>2. e.id = i /\ e.num = k /\ e.pc = "execute"
    BY <1>3, <1>4
  <2> HIDE DEF e
  <2> QED
    BY <2>1, <2>2
<1>8. /\ sched'[r].pc \in {"next", "cancels"} /\ sched'[r].rows = sched[r].rows
      /\ sched'[r].row = NoRow
      /\ sched'[r].pc = "cancels" => sched'[r].rows = {}
  <2>1. sched'[r].pc = "cancels" => sched[r].rows = {}
    BY <1>0, <1>7 DEF EndOfRow, NextRow, IdleLoop, TypeInv, LoopsOK
  <2> QED
    BY <1>0, <1>7, <2>1, NextRowAt DEF EndOfRow
<1>9. \A q \in Replicas : q = r
  BY OneReplica
<1>10. HoldsRow' /\ \A j \in Jobs \ {i} : WorkInv(j)'
  <2>1. Statement(r)
    BY <1>1, <1>2, <1>3, <1>7, <1>8 DEF Statement, HandStep, RowlessPc, NoRowPc, Same
  <2> QED
    BY <1>3, <2>1, HandOther
<1>11. \A c \in calls' : c.id = i => c = e
  BY <1>6, <1>7 DEF Unstaffed
<1>12. \A n \in StepNumbers : ~ Working(i, n)'
  BY <1>1, <1>6 DEF Unstaffed, Working, cluster
<1>13. \A q \in Replicas : ~ InHand(q, i)' /\ \A x \in Polls(q)' : x.id # i
  BY <1>1, <1>6, <1>8, <1>9, NoRowInHand DEF InHand, Polls
<1>14. AtWork(i, k)'
  <2>1. Same(i)
    BY <1>1 DEF Same
  <2> QED
    BY <1>5, <2>1, SameSteps
<1>15. StaffInv(i)'
  <2>1. LoopStaff(i)' /\ PodStaff(i)'
    BY <1>12, <1>13 DEF LoopStaff, PodStaff
  <2>2. CallStaff(i)'
    BY <1>1, <1>5, <1>11, <1>12 DEF CallStaff, Waiting
  <2>3. DecideStaff(i)'
    BY <1>1, <1>5 DEF DecideStaff
  <2> QED
    BY <2>1, <2>2, <2>3 DEF StaffInv
<1>16. OrderOwn(i)'
  <2>1. LoopOrder(i)' /\ PodOrder(i)'
    BY <1>12, <1>13 DEF LoopOrder, PodOrder
  <2>2. CallOrder(i)'
    BY <1>7, <1>11, <1>14 DEF CallOrder
  <2>3. DecideOrder(i)'
    BY <1>1, <1>5 DEF DecideOrder, Decided, DecidePc
  <2>4. StatusOrder(i)'
    BY <1>1, <1>5 DEF StatusOrder
  <2> QED
    BY <2>1, <2>2, <2>3, <2>4 DEF OrderOwn
<1> QED
  BY <1>10, <1>15, <1>16 DEF AllWork, WorkInv
--------------------------------------------------------------------------------
(* Rows are taken, passed over, and come to an end.                         *)
LEMMA RowView ==
    ASSUME Sound, NEW r \in Replicas, sched[r].pc = "next", NEW x \in sched[r].rows
    PROVE  /\ x.id \in Jobs /\ Unstaffed(x.id) /\ RowStatus(x) /\ x.id # sched[r].row.id
           /\ x.status = "queue" => Clear(x.id)
           /\ \A y \in sched[r].rows : y.id = x.id => y = x
<1>1. x.id \in Jobs
  BY DEF Sound, TypeInv, LoopsOK, Loop, Row
<1>2. x \in Polls(r)
  BY DEF Polls
<1>3. WorkInv(x.id)
  BY <1>1 DEF Sound, OrderInv
<1>4. x.id # sched[r].row.id /\ \A y \in sched[r].rows : y.id = x.id => y = x
  BY DEF Sound, GateInv, RowsInv
<1> QED
  BY <1>1, <1>2, <1>3, <1>4 DEF WorkInv, StaffInv, LoopStaff, OrderOwn, LoopOrder

LEMMA TakeWork ==
    ASSUME Sound, NEW r \in Replicas, sched[r].pc = "next",
           NEW x \in sched[r].rows, NEW i \in Jobs, x.id = i,
           NEW pc \in SchedPc \ RowlessPc, NEW k, TakeRow(r, x, pc, k),
           UNCHANGED <<job, step, cluster, calls, requests>>,
           pc \notin HoldingPc, HandStatus(sched[r], i)', HandOrder(sched[r], i)'
    PROVE  AllWork'
<1>0. TypeInv
  BY DEF Sound
<1>1. \A q \in Replicas : q = r
  BY OneReplica
<1>2. /\ sched'[r].pc = pc /\ sched'[r].rows = sched[r].rows \ {x}
      /\ sched'[r].row = x
  BY <1>0, TakeRowAt
<1>3. sched[r].row = NoRow
  BY DEF Sound, OrderInv, HoldsRow, RowlessPc, NoRowPc
<1>4. HoldsRow'
  BY <1>1, <1>2 DEF HoldsRow, CurrentJob, RowlessPc, NoRowPc
<1>5. Polls(r) = sched[r].rows /\ Polls(r)' = sched[r].rows \ {x}
  BY <1>2 DEF Polls, RowlessPc
<1>6. \A j \in Jobs \ {i} : WorkInv(j)'
  <2> SUFFICES ASSUME NEW j \in Jobs \ {i} PROVE WorkInv(j)'
    OBVIOUS
  <2>1. SameHand(j)
    BY <1>1, <1>2, <1>3, NoRowInHand DEF SameHand, InHand
  <2>2. SamePolls(j)
    BY <1>1, <1>5 DEF SamePolls
  <2>3. SameRow(j) /\ SameRequests(j) /\ SameCalls(j)
    BY SameTables DEF SameRequests, SameCalls
  <2> QED
    BY <2>1, <2>2, <2>3, FrameWork DEF Frame, Sound, OrderInv
<1>7. /\ Unstaffed(i) /\ ~ InHand(r, i) /\ WorkInv(i)
      /\ \A y \in sched[r].rows : y.id = i => y = x
  BY RowView DEF InHand, Sound, OrderInv
<1>8. Unstaffed(i)'
  BY <1>7 DEF Unstaffed, Working, cluster
<1>9. InHand(r, i)' /\ \A y \in Polls(r)' : y.id # i
  BY <1>2, <1>5, <1>7 DEF InHand
<1>10. Handled(i)' <=> Handled(i)
  BY <1>1, <1>2, <1>5, <1>7, <1>9 DEF Handled
<1>11. /\ Dropping(i)' <=> Dropping(i)
       /\ Same(i)
  BY DEF Dropping, Same
<1>12. StaffInv(i)'
  <2>1. LoopStaff(i)'
    BY <1>1, <1>8, <1>9 DEF LoopStaff
  <2>2. DecideStaff(i)'
    BY <1>7, <1>8, <1>10 DEF WorkInv, StaffInv, DecideStaff, Loose
  <2> QED
    BY <1>8, <2>1, <2>2 DEF StaffInv, CallStaff, PodStaff, Unstaffed
<1>13. OrderOwn(i)'
  <2>1. LoopOrder(i)'
    BY <1>1, <1>9 DEF LoopOrder
  <2>2. CallOrder(i)' /\ PodOrder(i)'
    BY <1>8 DEF Unstaffed, CallOrder, PodOrder
  <2>3. DecideOrder(i)'
    BY <1>7, <1>11, SameSteps DEF WorkInv, OrderOwn, DecideOrder, Decided
  <2>4. StatusOrder(i)'
    BY <1>7, <1>10, <1>11, SameSteps DEF WorkInv, OrderOwn, StatusOrder
  <2> QED
    BY <2>1, <2>2, <2>3, <2>4 DEF OrderOwn
<1> QED
  BY <1>4, <1>6, <1>12, <1>13 DEF AllWork, WorkInv

LEMMA LookupWork ==
    ASSUME Sound, NEW r \in Replicas, LookupStep(r), UNCHANGED apiVars PROVE AllWork'
<1>0. TypeInv
  BY DEF Sound
<1>1. sched[r].pc = "next" /\ UNCHANGED <<job, step, cluster, calls, requests>>
  BY DEF LookupStep, At, tables, apiVars
<1>2. PICK x \in First(sched[r].rows) :
         /\ x.status = "queue"
         /\ \/ TakeRow(r, x, "countOpen", 0)
            \/ \E n \in Lowest(StepsIn(x.id, {"pending"})) :
                  TakeRow(r, x, StageOf(x.id, ResolveType(x.id, n, x.tcl)), n)
  BY DEF LookupStep
<1>3. x \in sched[r].rows
  BY DEF First
<1>4. PICK i \in Jobs : i = x.id
  BY <1>1, <1>3, RowView
<1>5. RowStatus(x) /\ Clear(i) /\ job[i] \in {"queue", "cancelled"}
  BY <1>1, <1>2, <1>3, <1>4, RowView DEF RowStatus
<1>6. ASSUME NEW pc \in {"countOpen", "parkStep", "skipStep", "claimStep"}, NEW k,
             TakeRow(r, x, pc, k), pc # "countOpen" => Front(i, k)
      PROVE  AllWork'
  <2>1. sched'[r].pc = pc /\ sched'[r].row = x /\ sched'[r].num = k
    BY <1>0, <1>6, TakeRowAt
  <2>2. Clear(i)' = Clear(i) /\ Front(i, k)' = Front(i, k)
    <3>1. Same(i)
      BY <1>1 DEF Same
    <3> QED
      BY <3>1, SameSteps
  <2>3. HandStatus(sched[r], i)'
    BY <1>1, <1>2, <1>4, <1>5, <1>6, <2>1 DEF HandStatus, ClaimPc, QueuePc, RunPc
  <2>4. HandOrder(sched[r], i)'
    BY <1>5, <1>6, <2>1, <2>2 DEF HandOrder, HoldingPc
  <2>5. pc \in SchedPc \ RowlessPc /\ pc \notin HoldingPc
    BY <1>6 DEF SchedPc, RowlessPc, NoRowPc, HoldingPc
  <2> QED
    BY <1>1, <1>3, <1>4, <1>6, <2>3, <2>4, <2>5, TakeWork
<1>7. CASE TakeRow(r, x, "countOpen", 0)
  BY <1>6, <1>7
<1>8. ASSUME NEW n \in Lowest(StepsIn(i, {"pending"})),
             TakeRow(r, x, StageOf(i, ResolveType(i, n, x.tcl)), n)
      PROVE  AllWork'
  <2>1. PICK pc \in {"parkStep", "skipStep", "claimStep"} :
           pc = StageOf(i, ResolveType(i, n, x.tcl))
    BY DEF StageOf
  <2>2. /\ n \in StepNumbers /\ step[i][n] = "pending"
        /\ \A m \in StepNumbers : m < n => step[i][m] # "pending"
    <3>1. /\ n \in StepNumbers /\ step[i][n] = "pending"
          /\ \A m \in StepNumbers : step[i][m] = "pending" => n <= m
      BY <1>8 DEF Lowest, StepsIn
    <3> QED
      BY <3>1, StepNumbersAssumption
  <2>3. Front(i, n)
    BY <1>5, <2>2 DEF Front, Clear, Fine, Entries
  <2> QED
    BY <1>6, <1>8, <2>1, <2>3
<1> QED
  BY <1>2, <1>4, <1>7, <1>8

(* The loop has no row in hand, neither before nor after its step.          *)
LEMMA RestWork ==
    ASSUME Sound, NEW r \in Replicas, sched[r].pc \in RowlessPc,
           sched'[r].pc \in RowlessPc, sched'[r].row = NoRow,
           UNCHANGED <<job, step, calls, requests>>, NEW j \in Jobs,
           \A n \in StepNumbers : Working(j, n)' => pod'[j][n] = pod[j][n],
           \A x \in Polls(r)' : x.id = j =>
              /\ Unstaffed(j) /\ RowStatus(x)
              /\ x.status = "queue" => Clear(j),
           requests = {} \/ (Handled(j)' => Handled(j)),
           Handled(j) /\ ~ Handled(j)' /\ job[j] \in {"pending", "queue"} => Clear(j)
    PROVE  WorkInv(j)'
<1>1. \A q \in Replicas : q = r
  BY OneReplica
<1>2. ~ InHand(r, j) /\ ~ InHand(r, j)' /\ WorkInv(j)
  BY NoRowInHand DEF InHand, Sound, OrderInv, HoldsRow
<1>3. \A n \in StepNumbers : Working(j, n)' => Working(j, n)
  BY DEF Working
<1>4. Unstaffed(j) => Unstaffed(j)'
  BY <1>3 DEF Unstaffed
<1>5. Same(j) /\ (Dropping(j)' <=> Dropping(j))
  BY DEF Same, Dropping
<1>6. /\ NoGate(j)' = NoGate(j) /\ NoneLeft(j)' = NoneLeft(j)
      /\ Clear(j)' = Clear(j) /\ AtGate(j)' = AtGate(j)
      /\ \A k : /\ OneGate(j, k)' = OneGate(j, k) /\ Front(j, k)' = Front(j, k)
                /\ AtWork(j, k)' = AtWork(j, k)
  BY <1>5, SameSteps
<1>7. StaffInv(j)'
  <2>1. LoopStaff(j)'
    BY <1>1, <1>2, <1>4 DEF LoopStaff, RowStatus
  <2>2. CallStaff(j)' /\ PodStaff(j)'
    BY <1>2, <1>3 DEF WorkInv, StaffInv, CallStaff, PodStaff
  <2>3. DecideStaff(j)'
    BY <1>2, <1>4 DEF WorkInv, StaffInv, DecideStaff, Loose
  <2> QED
    BY <2>1, <2>2, <2>3 DEF StaffInv
<1>8. OrderOwn(j)'
  <2>1. LoopOrder(j)'
    BY <1>1, <1>2, <1>6 DEF LoopOrder
  <2>2. CallOrder(j)'
    BY <1>2, <1>6 DEF WorkInv, OrderOwn, CallOrder
  <2>3. PodOrder(j)'
    BY <1>2, <1>3, <1>6 DEF WorkInv, OrderOwn, PodOrder
  <2>4. DecideOrder(j)'
    BY <1>2, <1>5, <1>6 DEF WorkInv, OrderOwn, DecideOrder, Decided
  <2>5. StatusOrder(j)'
    BY <1>2, <1>5, <1>6 DEF WorkInv, OrderOwn, StatusOrder
  <2> QED
    BY <2>1, <2>2, <2>3, <2>4, <2>5 DEF OrderOwn
<1> QED
  BY <1>7, <1>8 DEF WorkInv

LEMMA RestHolds ==
    ASSUME Sound, NEW r \in Replicas, sched'[r].pc \in RowlessPc, sched'[r].row = NoRow,
           sched'[r].pc \in {"idle", "cancels"} => sched'[r].rows = {}
    PROVE  HoldsRow'
<1>1. \A q \in Replicas : q = r
  BY OneReplica
<1> QED
  BY <1>1 DEF HoldsRow

LEMMA CheckWork ==
    ASSUME Sound, NEW r \in Replicas, CheckOlder(r), UNCHANGED apiVars PROVE AllWork'
<1>0. TypeInv
  BY DEF Sound
<1>1. sched[r].pc = "next" /\ UNCHANGED <<job, step, cluster, calls, requests>>
  BY DEF CheckOlder, At, tables, apiVars
<1>2. PICK x \in First(sched[r].rows) :
         /\ x.status \in {"pending", "approved"}
         /\ TakeRow(r, x, "claimJob", 0) \/ NextRow(r, sched[r].rows \ {x})
  BY DEF CheckOlder
<1>3. x \in sched[r].rows
  BY DEF First
<1>4. x.id \in Jobs /\ RowStatus(x)
  BY <1>1, <1>3, RowView
<1>5. CASE TakeRow(r, x, "claimJob", 0)
  <2>1. sched'[r].pc = "claimJob" /\ sched'[r].row = x
    BY <1>0, <1>5, TakeRowAt
  <2>2. HandStatus(sched[r], x.id)'
    BY <1>1, <1>2, <1>4, <2>1 DEF HandStatus, RowStatus, ClaimPc, QueuePc, RunPc
  <2>3. HandOrder(sched[r], x.id)'
    BY <2>1 DEF HandOrder, HoldingPc
  <2>4. "claimJob" \in SchedPc \ RowlessPc /\ "claimJob" \notin HoldingPc
    BY DEF SchedPc, RowlessPc, NoRowPc, HoldingPc
  <2> QED
    BY <1>1, <1>3, <1>4, <1>5, <2>2, <2>3, <2>4, TakeWork
<1>6. CASE NextRow(r, sched[r].rows \ {x})
  <2>1. /\ sched'[r].pc \in {"next", "cancels"} /\ sched'[r].row = NoRow
        /\ sched'[r].rows = sched[r].rows \ {x}
        /\ sched'[r].pc = "cancels" => sched'[r].rows = {}
    <3>1. sched'[r].pc = "cancels" => sched[r].rows \ {x} = {}
      BY <1>0, <1>6 DEF NextRow, IdleLoop, TypeInv, LoopsOK
    <3> QED
      BY <1>0, <1>6, <3>1, NextRowAt
  <2>2. HoldsRow'
    BY <2>1, RestHolds DEF RowlessPc, NoRowPc
  <2>3. \A q \in Replicas : q = r
    BY OneReplica
  <2>4. sched[r].row = NoRow
    BY <1>1 DEF Sound, OrderInv, HoldsRow, RowlessPc, NoRowPc
  <2> SUFFICES ASSUME NEW j \in Jobs PROVE WorkInv(j)'
    BY <2>2 DEF AllWork
  <2>5. ~ InHand(r, j) /\ ~ InHand(r, j)'
    BY <2>1, <2>4, NoRowInHand DEF InHand
  <2>6. Polls(r) = sched[r].rows /\ Polls(r)' = sched[r].rows \ {x}
    BY <1>1, <2>1 DEF Polls
  <2>7. Handled(j)' => Handled(j)
    BY <2>3, <2>5, <2>6 DEF Handled
  <2>8. Handled(j) /\ ~ Handled(j)' => x.id = j /\ x.status # "pending"
    BY <2>3, <2>5, <2>6 DEF Handled
  <2>9. Handled(j) /\ ~ Handled(j)' => job[j] = "approved"
    BY <1>2, <1>4, <2>8 DEF RowStatus
  <2>10. \A y \in Polls(r)' : y.id = j =>
            /\ Unstaffed(j) /\ RowStatus(y)
            /\ y.status = "queue" => Clear(j)
    BY <1>1, <2>6, RowView
  <2>11. \A n \in StepNumbers : pod'[j][n] = pod[j][n]
    BY <1>1 DEF cluster
  <2>12. sched[r].pc \in RowlessPc /\ sched'[r].pc \in RowlessPc
    BY <1>1, <2>1 DEF RowlessPc, NoRowPc
  <2> QED
    BY <1>1, <2>1, <2>7, <2>9, <2>10, <2>11, <2>12, RestWork
<1> QED
  BY <1>2, <1>5, <1>6

(* No row is polled, before or after.                                       *)
LEMMA QuietWork ==
    ASSUME Sound, NEW r \in Replicas, sched[r].pc \in {"idle", "cancels", "kill"},
           sched'[r].pc \in {"idle", "kill"}, sched'[r].row = NoRow,
           sched'[r].pc = "idle" => sched'[r].rows = {},
           UNCHANGED <<job, step, calls, requests>>,
           \A j \in Jobs, n \in StepNumbers : Working(j, n)' => pod'[j][n] = pod[j][n]
    PROVE  AllWork'
<1>1. sched[r].pc \in RowlessPc /\ sched'[r].pc \in RowlessPc
  BY DEF RowlessPc, NoRowPc
<1>2. HoldsRow'
  BY <1>1, RestHolds
<1>3. sched[r].row = NoRow /\ Polls(r) = {} /\ Polls(r)' = {}
  BY <1>1 DEF Sound, OrderInv, HoldsRow, Polls
<1>4. \A j \in Jobs : ~ Handled(j) /\ ~ Handled(j)'
  <2>1. \A q \in Replicas : q = r
    BY OneReplica
  <2> QED
    BY <1>3, <2>1, NoRowInHand DEF Handled, InHand
<1> QED
  BY <1>1, <1>2, <1>3, <1>4, RestWork DEF AllWork

LEMMA CancelsWork ==
    ASSUME Sound, NEW r \in Replicas, PollCancels(r) \/ KillPods(r), UNCHANGED apiVars
    PROVE  AllWork'
<1>0. TypeInv
  BY DEF Sound
<1>1. PICK rows : /\ \/ sched[r].pc = "cancels"
                     \/ sched[r].pc = "kill"
                  /\ sched' = [sched EXCEPT ![r] =
                       [IdleLoop EXCEPT !.pc = IF rows = {} THEN "idle" ELSE "kill",
                                        !.rows = rows]]
  BY Zenon DEF PollCancels, KillPods, At
<1>2. /\ sched'[r].pc \in {"idle", "kill"} /\ sched'[r].row = NoRow
      /\ sched'[r].pc = "idle" => sched'[r].rows = {}
  BY <1>0, <1>1 DEF TypeInv, LoopsOK, IdleLoop
<1>3. UNCHANGED <<job, step, calls, requests>>
  BY Zenon DEF PollCancels, KillPods, tables, apiVars
<1>4. \A j \in Jobs, n \in StepNumbers : Working(j, n)' => pod'[j][n] = pod[j][n]
  <2>1. CASE PollCancels(r)
    BY <2>1 DEF PollCancels, cluster
  <2>2. CASE KillPods(r)
    BY <1>0, <2>2, KilledPods DEF Working
  <2> QED
    BY <2>1, <2>2
<1> QED
  BY <1>1, <1>2, <1>3, <1>4, QuietWork

LEMMA TickWork == ASSUME Sound, NEW r \in Replicas, Tick(r) PROVE AllWork'
<1>0. TypeInv
  BY DEF Sound
<1>1. /\ sched[r].pc = "idle" /\ NextRow(r, PollResult) /\ requests = {}
      /\ UNCHANGED <<job, step, cluster, calls, requests>>
  BY DEF Sound, Attentive, LonePoller, Tick, PollJobs, At, apiVars, tables
<1>2. /\ sched'[r].pc \in {"next", "cancels"} /\ sched'[r].rows = PollResult
      /\ sched'[r].row = NoRow
      /\ sched'[r].pc = "cancels" => sched'[r].rows = {}
  <2>1. sched'[r].pc = "cancels" => PollResult = {}
    BY <1>0, <1>1 DEF NextRow, IdleLoop, TypeInv, LoopsOK
  <2> QED
    BY <1>0, <1>1, <2>1, NextRowAt
<1>3. sched[r].pc \in RowlessPc /\ sched'[r].pc \in RowlessPc
  BY <1>1, <1>2 DEF RowlessPc, NoRowPc
<1>4. HoldsRow'
  BY <1>2, <1>3, RestHolds
<1> SUFFICES ASSUME NEW j \in Jobs PROVE WorkInv(j)'
  BY <1>4 DEF AllWork
<1>5. WorkInv(j) /\ ~ Dropping(j)
  BY <1>1 DEF Sound, OrderInv, Dropping
<1>6. ~ Handled(j)
  <2>1. \A q \in Replicas : q = r
    BY OneReplica
  <2>2. sched[r].row = NoRow /\ Polls(r) = {}
    BY <1>1, <1>3 DEF Sound, OrderInv, HoldsRow, Polls
  <2> QED
    BY <2>1, <2>2, NoRowInHand DEF Handled, InHand
<1>7. ASSUME NEW x \in Polls(r)', x.id = j
      PROVE  Unstaffed(j) /\ RowStatus(x) /\ (x.status = "queue" => Clear(j))
  <2>1. job[j] \in {"pending", "approved", "queue"} /\ x.status = job[j]
    BY <1>2, <1>7, PolledRow DEF Polls, Pollable
  <2>2. Unstaffed(j)
    BY <1>5, <2>1 DEF WorkInv, StaffInv, CallStaff, PodStaff, Unstaffed, Waiting
  <2> QED
    BY <1>5, <1>6, <1>7, <2>1, <2>2 DEF RowStatus, WorkInv, OrderOwn, StatusOrder
<1>8. \A n \in StepNumbers : pod'[j][n] = pod[j][n]
  BY <1>1 DEF cluster
<1> QED
  BY <1>1, <1>2, <1>3, <1>6, <1>7, <1>8, RestWork

LEMMA LoopWork ==
    ASSUME Sound, NEW r \in Replicas, LoopStep(r), UNCHANGED apiVars PROVE AllWork'
<1>1. CASE Spawn(r)
  BY <1>1, HireWork, ReadWork
<1>2. CASE NoExecutor(r)
  BY <1>2, ReadWork, StatusWork DEF NoExecutor
<1> QED
  BY <1>1, <1>2, ClaimJobWork, PassGateWork, UnlockWork, ReadWork, SkipWork, ClaimStepWork,
     HandBackWork, StatusWork, CheckWork, LookupWork, CancelsWork DEF LoopStep
--------------------------------------------------------------------------------
(* Steps of calls, executors, handlers and users: the loops stand still.    *)
LEMMA OthersWork ==
    ASSUME Sound, UNCHANGED sched, NEW i \in Jobs,
           \A j \in Jobs \ {i} : SameRow(j) /\ SameRequests(j) /\ SameCalls(j)
    PROVE  HoldsRow' /\ \A j \in Jobs \ {i} : WorkInv(j)'
<1>1. HoldsRow'
  BY DEF Sound, OrderInv, HoldsRow, CurrentJob
<1>2. \A j \in Jobs : SameHand(j) /\ SamePolls(j)
  BY DEF SameHand, SamePolls, InHand, Polls
<1> QED
  BY <1>1, <1>2, FrameWork DEF Sound, OrderInv, Frame

(* A job that a call or an executor works on: no loop and nobody who        *)
(* decides has to do with it.                                               *)
LEMMA StaffedView ==
    ASSUME Sound, NEW i \in Jobs, ~ Unstaffed(i)
    PROVE  /\ \A r \in Replicas : ~ InHand(r, i) /\ \A x \in Polls(r) : x.id # i
           /\ \A q \in requests : q.id = i => q.pc \notin DecidePc
           /\ job[i] \notin Waiting
           /\ \A c, d \in calls : c.id = i /\ d.id = i => c = d
           /\ \A m, n \in StepNumbers : Working(i, m) /\ Working(i, n) => m = n
           /\ \A c \in calls : c.id = i => \A n \in StepNumbers : ~ Working(i, n)
           /\ \A c \in calls : c.id = i /\ c.pc = "execute" => AtWork(i, c.num)
           /\ PodOrder(i)
<1>1. WorkInv(i)
  BY DEF Sound, OrderInv
<1>2. StaffInv(i) /\ OrderOwn(i)
  BY <1>1 DEF WorkInv
<1>3. \A r \in Replicas : ~ InHand(r, i) /\ \A x \in Polls(r) : x.id # i
  BY <1>2 DEF StaffInv, LoopStaff
<1>4. \A q \in requests : q.id = i => q.pc \notin DecidePc
  BY <1>2 DEF StaffInv, DecideStaff, Loose
<1>5. /\ job[i] \notin Waiting
      /\ \A c, d \in calls : c.id = i /\ d.id = i => c = d
      /\ \A m, n \in StepNumbers : Working(i, m) /\ Working(i, n) => m = n
      /\ \A c \in calls : c.id = i => \A n \in StepNumbers : ~ Working(i, n)
  BY <1>2 DEF StaffInv, CallStaff, PodStaff, Unstaffed
<1> QED
  BY <1>2, <1>3, <1>4, <1>5 DEF OrderOwn, CallOrder

LEMMA StaffedWork ==
    ASSUME Sound, UNCHANGED sched, NEW i \in Jobs, ~ Unstaffed(i),
           \A j \in Jobs \ {i} : SameRow(j) /\ SameRequests(j) /\ SameCalls(j),
           \A q \in requests' : q \in requests \/ q.pc \notin DecidePc,
           job'[i] \notin Waiting \/ (job'[i] = "pending" /\ Unstaffed(i)' /\ Clear(i)'),
           \A c, d \in calls' : c.id = i /\ d.id = i => c = d,
           \A m, n \in StepNumbers : Working(i, m)' /\ Working(i, n)' => m = n,
           \A c \in calls' : c.id = i => \A n \in StepNumbers : ~ Working(i, n)',
           CallOrder(i)', PodOrder(i)'
    PROVE  AllWork'
<1>1. HoldsRow' /\ \A j \in Jobs \ {i} : WorkInv(j)'
  BY OthersWork
<1>2. /\ \A r \in Replicas : ~ InHand(r, i) /\ \A x \in Polls(r) : x.id # i
      /\ \A q \in requests : q.id = i => q.pc \notin DecidePc
  BY StaffedView
<1>3. \A r \in Replicas : ~ InHand(r, i)' /\ \A x \in Polls(r)' : x.id # i
  BY <1>2 DEF InHand, Polls
<1>4. \A q \in requests' : q.id = i => q.pc \notin DecidePc
  BY <1>2
<1>5. StaffInv(i)'
  <2>1. LoopStaff(i)' /\ DecideStaff(i)'
    BY <1>3, <1>4 DEF LoopStaff, DecideStaff
  <2>2. Unstaffed(i)' \/ job'[i] \notin Waiting
    OBVIOUS
  <2>3. CallStaff(i)' /\ PodStaff(i)'
    BY <2>2 DEF CallStaff, PodStaff, Unstaffed
  <2> QED
    BY <2>1, <2>3 DEF StaffInv
<1>6. OrderOwn(i)'
  <2>1. LoopOrder(i)' /\ DecideOrder(i)'
    BY <1>3, <1>4 DEF LoopOrder, DecideOrder, Decided, DecidePc
  <2>2. StatusOrder(i)'
    BY DEF StatusOrder, Waiting
  <2> QED
    BY <2>1, <2>2 DEF OrderOwn
<1> QED
  BY <1>1, <1>5, <1>6 DEF AllWork, WorkInv

LEMMA CallWork ==
    ASSUME Sound, NEW c \in calls, CallStep(c), UNCHANGED apiVars PROVE AllWork'
<1>0. TypeInv /\ pod \in [Jobs -> [StepNumbers -> Pod]]
  BY DEF Sound, TypeInv, TablesTypeOK
<1>1. PICK i \in Jobs, k \in StepNumbers : i = c.id /\ k = c.num
  BY <1>0 DEF TypeInv, Call
<1>2. UNCHANGED <<sched, requests>>
  BY DEF CallStep, Execute, FailCall, apiVars
<1>3. ~ Unstaffed(i)
  BY <1>1 DEF Unstaffed
<1>4. /\ job[i] \notin Waiting
      /\ \A d \in calls : d.id = i => d = c
      /\ \A n \in StepNumbers : ~ Working(i, n)
      /\ c.pc = "execute" => AtWork(i, k)
  BY <1>1, <1>3, StaffedView
<1>5. CASE StartPod(i, k, c.type) /\ calls' = calls \ {c} /\ UNCHANGED tables /\ c.pc = "execute"
           /\ launches' = [launches EXCEPT ![c.id][c.num] = @ + 1]
  <2>1. \A j \in Jobs, n \in StepNumbers : pod'[j][n] =
           IF j = i /\ n = k THEN [pc |-> "created", verdict |-> "none", type |-> c.type]
                             ELSE pod[j][n]
    BY <1>0, <1>5 DEF StartPod
  <2>2. /\ pod'[i][k].pc = "created"
        /\ \A j \in Jobs, n \in StepNumbers : j # i \/ n # k => pod'[j][n] = pod[j][n]
    BY <2>1
  <2>3. \A j \in Jobs, n \in StepNumbers : j # i => launches'[j][n] = launches[j][n]
    BY <1>0, <1>1, <1>5 DEF TypeInv, TablesTypeOK
  <2>4. \A j \in Jobs : Same(j) /\ job'[j] = job[j]
    BY <1>5 DEF tables, Same
  <2>5. \A j \in Jobs \ {i} : SameRow(j) /\ SameRequests(j) /\ SameCalls(j)
    BY <1>1, <1>2, <1>5, <2>2, <2>3, <2>4 DEF SameRow, SameRequests, SameCalls
  <2>6. \A d \in calls' : d.id # i
    BY <1>4, <1>5
  <2>7. \A n \in StepNumbers : Working(i, n)' => n = k
    BY <1>4, <2>2 DEF Working
  <2>8. AtWork(i, k)'
    BY <1>4, <1>5, <2>4, SameSteps
  <2>9. CallOrder(i)' /\ PodOrder(i)'
    BY <2>2, <2>6, <2>7, <2>8 DEF CallOrder, PodOrder
  <2> QED
    BY <1>2, <1>3, <1>4, <2>4, <2>5, <2>6, <2>7, <2>9, StaffedWork
<1>6. ASSUME NEW pc \in {"failStep", "failJob", "failRelease"}, UNCHANGED pod,
             \A j \in Jobs \ {i} : Same(j) /\ job'[j] = job[j]
                                   /\ \A n \in StepNumbers : launches'[j][n] = launches[j][n],
             job'[i] \notin Waiting, MoveCall(c, pc) \/ calls' = calls \ {c}
      PROVE  AllWork'
  <2>1. PICK e : /\ e.id = i /\ e.pc # "execute"
                 /\ calls' = calls \ {c} \/ calls' = (calls \ {c}) \cup {e}
    <3>1. CASE MoveCall(c, pc)
      BY <1>0, <1>1, <1>6, <3>1, MoveCallAt
    <3>2. CASE calls' = calls \ {c}
      <4>1. [id |-> i, pc |-> pc].id = i /\ [id |-> i, pc |-> pc].pc # "execute"
        BY <1>6
      <4> QED
        BY <3>2, <4>1
    <3> QED
      BY <1>6, <3>1, <3>2
  <2>2. \A j \in Jobs \ {i} : SameRow(j) /\ SameRequests(j) /\ SameCalls(j)
    BY <1>1, <1>2, <1>6, <2>1 DEF SameRow, SameRequests, SameCalls
  <2>3. \A d \in calls' : d.id = i => d = e
    BY <1>4, <2>1
  <2>4. \A n \in StepNumbers : ~ Working(i, n)'
    BY <1>4, <1>6 DEF Working
  <2>5. CallOrder(i)' /\ PodOrder(i)'
    BY <2>1, <2>3, <2>4 DEF CallOrder, PodOrder
  <2> QED
    BY <1>2, <1>3, <1>6, <2>2, <2>3, <2>4, <2>5, StaffedWork
<1>7. CASE Execute(c)
  <2>1. /\ UNCHANGED tables /\ c.pc = "execute"
        /\ launches' = [launches EXCEPT ![c.id][c.num] = @ + 1]
        /\ \/ StartPod(i, k, c.type) /\ calls' = calls \ {c}
           \/ MoveCall(c, "failStep") /\ UNCHANGED pod
    BY <1>1, <1>7 DEF Execute, Sound, Attentive
  <2>2. \A j \in Jobs, n \in StepNumbers : j # i => launches'[j][n] = launches[j][n]
    BY <1>0, <1>1, <2>1 DEF TypeInv, TablesTypeOK
  <2>3. \A j \in Jobs : Same(j) /\ job'[j] = job[j]
    BY <2>1 DEF tables, Same
  <2> QED
    BY <1>4, <1>5, <1>6, <2>1, <2>2, <2>3
<1>8. CASE FailCall(c)
  <2>1. UNCHANGED <<pod, launches>>
    BY <1>8 DEF FailCall, cluster
  <2>2. CASE SetStep(i, k, "failed") /\ MoveCall(c, "failJob") /\ UNCHANGED job
    <3>1. \A j \in Jobs \ {i} : Same(j)
      BY <1>0, <2>2, SetStepAt DEF TypeInv
    <3> QED
      BY <1>4, <1>6, <2>1, <2>2, <3>1
  <2>3. CASE SetJob(i, "failed") /\ MoveCall(c, "failRelease") /\ UNCHANGED step
    <3>1. job'[i] = "failed" /\ \A j \in Jobs \ {i} : Same(j) /\ job'[j] = job[j]
      BY <1>0, <2>3, SetJobAt DEF TypeInv, Same
    <3> QED
      BY <1>6, <2>1, <2>3, <3>1 DEF Waiting
  <2>4. CASE calls' = calls \ {c} /\ UNCHANGED <<job, step>>
    BY <1>4, <1>6, <2>1, <2>4 DEF Same
  <2> QED
    BY <1>1, <1>8, <2>2, <2>3, <2>4 DEF FailCall
<1> QED
  BY <1>7, <1>8 DEF CallStep

(* What an executor does: it moves on, and may set its step; or it reports, *)
(* or goes without a word.                                                  *)
LEMMA WorkStays ==
    ASSUME NEW i \in Jobs, NEW m \in StepNumbers, AtWork(i, m),
           NEW s \in {"running", "failed", "completed"}, Sets(i, m, s)
    PROVE  AtWork(i, m)' /\ (s = "completed" => Clear(i)')
<1>1. NoGate(i)'
  BY DEF AtWork, NoGate, Sets
<1>2. Front(i, m)'
  BY StepOrder DEF AtWork, Front, Sets, Entries
<1>3. \A n \in StepNumbers, k \in Entries(i) :
         k < n /\ step'[i][n] = "pending" => step'[i][k] \in Fine \/ k = m
  BY DEF AtWork, Sets, Entries
<1>4. s = "completed" => step'[i][m] \in Fine
  BY DEF Sets, Fine
<1> QED
  BY <1>1, <1>2, <1>3, <1>4 DEF AtWork, Clear, Entries

LEMMA PodWork ==
    ASSUME Sound, NEW i \in Jobs, NEW m \in StepNumbers, ExecutorStep(i, m), UNCHANGED schedVars
    PROVE  AllWork'
<1>0. TypeInv
  BY DEF Sound
<1>1. Working(i, m) /\ UNCHANGED <<sched, calls>>
  BY <1>0, PodActivity DEF schedVars
<1>2. ~ Unstaffed(i)
  BY <1>1 DEF Unstaffed
<1>3. /\ job[i] \notin Waiting
      /\ \A n \in StepNumbers : Working(i, n) => n = m
      /\ \A c \in calls : c.id # i
      /\ PodOrder(i)
  BY <1>1, <1>2, StaffedView
<1>4. PICK pc, v : MovePod(i, m, pc, v)
  BY DEF ExecutorStep, PodStep, BeginStep, BeginJob, EndWork, NoticeCancel, ReportStep,
     ReportJob, ExitSilently, LosePod
<1>5. /\ pod'[i][m].pc = pc /\ pod'[i][m].verdict = v
      /\ \A j \in Jobs, n \in StepNumbers : j # i \/ n # m => pod'[j][n] = pod[j][n]
      /\ UNCHANGED launches
  BY <1>0, <1>4, MovePodAt
<1>6. ASSUME \A j \in Jobs \ {i} : Same(j) /\ job'[j] = job[j],
             UNCHANGED requests \/ \E e : /\ requests' = requests \cup {e} /\ e.id = i
                                          /\ e.pc \notin DecidePc,
             job'[i] \notin Waiting \/ (job'[i] = "pending" /\ pc = "done" /\ Clear(i)'),
             \/ pc = "done"
             \/ pc = "reportJob" /\ (v # "failed" => Clear(i)')
             \/ pc # "reportJob" /\ AtWork(i, m)'
      PROVE  AllWork'
  <2>1. \A j \in Jobs \ {i} : SameRow(j) /\ SameRequests(j) /\ SameCalls(j)
    BY <1>1, <1>5, <1>6 DEF SameRow, SameRequests, SameCalls
  <2>2. \A n \in StepNumbers : Working(i, n)' => n = m /\ pc # "done"
    BY <1>3, <1>5 DEF Working
  <2>3. pc = "done" => Unstaffed(i)'
    BY <1>1, <1>3, <2>2 DEF Unstaffed
  <2>4. CallOrder(i)' /\ PodOrder(i)'
    BY <1>1, <1>3, <1>5, <1>6, <2>2 DEF CallOrder, PodOrder
  <2>5. \A q \in requests' : q \in requests \/ q.pc \notin DecidePc
    BY <1>6
  <2> QED
    BY <1>1, <1>2, <1>3, <1>6, <2>1, <2>2, <2>3, <2>4, <2>5, StaffedWork
<1>7. pod[i][m].pc # "reportJob" => AtWork(i, m)
  BY <1>1, <1>3 DEF PodOrder
<1>8. CASE BeginStep(i, m) \/ ReportStep(i, m)
  <2>1. PICK s \in {"running", "failed", "completed"} :
           /\ UNCHANGED step \/ SetStep(i, m, s)
           /\ \/ MovePod(i, m, "begun", "none")
              \/ MovePod(i, m, "done", "none")
              \/ /\ SetStep(i, m, s) /\ MovePod(i, m, "reportJob", pod[i][m].verdict)
                 /\ pod[i][m].verdict # "failed" => s = "completed"
    BY <1>8 DEF BeginStep, ReportStep, PatchStep, StepVerdict
  <2>2. UNCHANGED <<job, requests>> /\ pod[i][m].pc # "reportJob"
    BY <1>8 DEF BeginStep, ReportStep, apiVars, PodAt
  <2>3. \A j \in Jobs \ {i} : Same(j)
    BY <1>0, <2>1, SetStepAt DEF TypeInv, Same
  <2>4. SetStep(i, m, s) => Sets(i, m, s)
    BY <1>0, SetStepAt DEF TypeInv
  <2>5. AtWork(i, m)' /\ (SetStep(i, m, s) /\ s = "completed" => Clear(i)')
    <3>1. CASE UNCHANGED step /\ ~ SetStep(i, m, s)
      <4>1. Same(i)
        BY <3>1 DEF Same
      <4> QED
        BY <1>7, <2>2, <3>1, <4>1, SameSteps
    <3>2. CASE SetStep(i, m, s)
      BY <1>7, <2>2, <2>4, <3>2, WorkStays
    <3> QED
      BY <2>1, <3>1, <3>2
  <2>6. \A p, w : MovePod(i, m, p, w) => p = pc /\ w = v
    BY <1>0, <1>5, MovePodAt
  <2> QED
    BY <1>3, <1>6, <2>1, <2>2, <2>3, <2>5, <2>6
<1>9. CASE BeginJob(i, m)
  <2>1. UNCHANGED step /\ pc = "active" /\ pod[i][m].pc # "reportJob"
    BY <1>0, <1>5, <1>9, MovePodAt DEF BeginJob, PodAt
  <2>2. \A j \in Jobs : Same(j)
    BY <2>1 DEF Same
  <2>3. AtWork(i, m)'
    BY <1>7, <2>1, <2>2, SameSteps
  <2>4. \/ UNCHANGED <<job, requests>>
        \/ (\A j \in Jobs : job'[j] = IF j = i THEN "running" ELSE job[j]) /\ UNCHANGED requests
    BY <1>0, <1>9, PatchJobAt DEF BeginJob, PatchJob, HookOf
  <2> QED
    BY <1>3, <1>6, <2>1, <2>2, <2>3, <2>4 DEF Waiting
<1>10. CASE EndWork(i, m) \/ NoticeCancel(i, m) \/ ExitSilently(i, m) \/ LosePod(i, m)
  <2>1. UNCHANGED <<job, step, requests>>
    BY <1>10 DEF EndWork, NoticeCancel, ExitSilently, LosePod, tables, apiVars
  <2>2. pc = "done" \/ (pc # "reportJob" /\ pod[i][m].pc # "reportJob")
    BY <1>0, <1>5, <1>10, MovePodAt DEF EndWork, NoticeCancel, ExitSilently, LosePod, PodAt
  <2>3. \A j \in Jobs : Same(j)
    BY <2>1 DEF Same
  <2>4. pc = "done" \/ (pc # "reportJob" /\ AtWork(i, m)')
    BY <1>7, <2>2, <2>3, SameSteps
  <2> QED
    BY <1>3, <1>6, <2>1, <2>3, <2>4
<1>11. CASE ReportJob(i, m)
  <2>1. UNCHANGED step /\ pc = "done" /\ pod[i][m].pc = "reportJob"
    BY <1>0, <1>5, <1>11, MovePodAt DEF ReportJob, PodAt
  <2>2. \A j \in Jobs : Same(j)
    BY <2>1 DEF Same
  <2>3. CASE UNCHANGED <<job, requests>>
    BY <1>3, <1>6, <2>1, <2>2, <2>3
  <2>4. CASE PatchJob(i, pod[i][m].verdict)
    <3>1. /\ \A j \in Jobs : job'[j] = IF j = i THEN pod[i][m].verdict ELSE job[j]
          /\ \/ UNCHANGED requests
             \/ \E e : /\ requests' = requests \cup {e} /\ e.id = i
                       /\ e.pc = HookOf(pod[i][m].verdict) /\ e.pc # "none"
      BY <1>0, <2>4, PatchJobAt
    <3>2. HookOf(pod[i][m].verdict) \notin DecidePc
      BY DEF HookOf, DecidePc
    <3>3. pod[i][m].verdict \in Verdicts
      BY <1>0 DEF TypeInv, TablesTypeOK, Pod
    <3>4. pod[i][m].verdict # "failed" => Clear(i)'
      BY <1>1, <1>3, <2>1, <2>2, SameSteps DEF PodOrder
    <3> QED
      BY <1>6, <2>1, <2>2, <3>1, <3>2, <3>3, <3>4 DEF Waiting, Verdicts
  <2> QED
    BY <1>11, <2>3, <2>4 DEF ReportJob
<1> QED
  BY <1>8, <1>9, <1>10, <1>11 DEF ExecutorStep, PodStep
--------------------------------------------------------------------------------
(* Steps of handlers and users.  Where a job waits, or was just put back,   *)
(* nobody works on it and no loop has more of it than a pending row.        *)
LEMMA LooseHand ==
    ASSUME Sound, NEW i \in Jobs, Loose(i), NEW r \in Replicas, InHand(r, i)
    PROVE  sched[r].pc \in {"claimJob", "unlockWorkspace"} /\ sched[r].row.status = "pending"
<1>1. WorkInv(i)
  BY DEF Sound, OrderInv
<1>2. HandStatus(sched[r], i) /\ sched[r].row.status = "pending"
  BY <1>1 DEF WorkInv, StaffInv, LoopStaff, Loose, Handled
<1> QED
  BY <1>2 DEF HandStatus, ClaimPc

LEMMA LooseIf ==
    ASSUME Sound, NEW i \in Jobs,
           \/ job[i] \in {"none", "pending", "waitingApproval"}
           \/ Missing(i)
           \/ \E q \in requests : q.id = i /\ q.pc \in DecidePc
    PROVE  Loose(i)
<1>1. WorkInv(i) /\ InitInv(i)
  BY DEF Sound, OrderInv, GateInv
<1>2. CASE \E q \in requests : q.id = i /\ q.pc \in DecidePc
  BY <1>1, <1>2 DEF WorkInv, StaffInv, DecideStaff
<1>3. CASE Missing(i) \/ job[i] = "none"
  BY <1>1, <1>3 DEF InitInv, LeftAlone, Loose, Unstaffed, Handled, Polls, Polled
<1>4. CASE job[i] \in {"pending", "waitingApproval"}
  <2>1. Unstaffed(i)
    BY <1>1, <1>4 DEF WorkInv, StaffInv, CallStaff, PodStaff, Unstaffed, Waiting
  <2>2. ASSUME NEW r \in Replicas, NEW x \in Polls(r), x.id = i PROVE x.status = "pending"
    BY <1>1, <1>4, <2>2 DEF WorkInv, StaffInv, LoopStaff, RowStatus
  <2>3. ASSUME NEW r \in Replicas, InHand(r, i) PROVE sched[r].row.status = "pending"
    <3>1. sched[r].pc \notin RowlessPc /\ sched[r].pc \in SchedPc
      BY <2>3, NoRowInHand DEF Sound, OrderInv, HoldsRow, InHand, TypeInv, LoopsOK, Loop
    <3>2. HandStatus(sched[r], i)
      BY <1>1, <2>3 DEF WorkInv, StaffInv, LoopStaff
    <3>3. sched[r].pc \in ClaimPc \cup QueuePc \cup RunPc \cup {"release", "failRelease"}
      BY <3>1 DEF SchedPc, HoldingPc, RowlessPc, NoRowPc, ClaimPc, QueuePc, RunPc
    <3> QED
      BY <1>4, <3>2, <3>3 DEF HandStatus, ClaimPc, Terminal
  <2> QED
    BY <2>1, <2>2, <2>3 DEF Loose, Handled
<1> QED
  BY <1>2, <1>3, <1>4

(* A hook that leaves no step open.                                         *)
Swept(i) ==
    /\ NoneLeft(i)' /\ NoGate(i)'
    /\ \A n \in StepNumbers : step[i][n] \in {"completed", "notExecuted"} =>
          step'[i][n] = step[i][n]

LEMMA SweptSteps ==
    ASSUME NEW i \in Jobs, Swept(i)
    PROVE  /\ NoneLeft(i)' /\ NoGate(i)' /\ Clear(i)' /\ AtGate(i)'
           /\ \A k : /\ OneGate(i, k)' /\ (Front(i, k) => Front(i, k)')
                    /\ (AtWork(i, k) => AtWork(i, k)')
<1>1. Clear(i)' /\ AtGate(i)' /\ \A k : OneGate(i, k)'
  BY DEF Swept, NoneLeft, NoGate, Clear, AtGate, OneGate
<1>2. \A k : Front(i, k) => Front(i, k)'
  BY DEF Swept, Front, Entries
<1> QED
  BY <1>1, <1>2 DEF Swept, AtWork, NoneLeft, NoGate

LEMMA ThreadStaff ==
    ASSUME Sound, UNCHANGED <<sched, calls, cluster>>, NEW i \in Jobs,
           \/ job'[i] = job[i]
           \/ job[i] \in {"queue", "running"} /\ job'[i] = "cancelled"
           \/ Loose(i),
           \A q \in requests' : q.id = i /\ q.pc \in DecidePc => q \in requests \/ Loose(i)
    PROVE  StaffInv(i)'
<1>1. StaffInv(i)
  BY DEF Sound, OrderInv, WorkInv
<1>2. /\ Unstaffed(i)' = Unstaffed(i)
      /\ \A n \in StepNumbers : Working(i, n)' = Working(i, n)
      /\ \A r \in Replicas : Polls(r)' = Polls(r) /\ InHand(r, i)' = InHand(r, i)
  BY DEF Unstaffed, Working, Polls, InHand, cluster
<1>3. Loose(i)' <=> Loose(i)
  BY <1>2 DEF Loose, Handled
<1>4. DecideStaff(i)'
  BY <1>1, <1>3 DEF StaffInv, DecideStaff
<1>5. CASE Loose(i)
  <2>1. ASSUME NEW r \in Replicas, NEW x \in Polls(r), x.id = i
        PROVE  Unstaffed(i)' /\ RowStatus(x)'
    BY <1>1, <1>2, <1>5, <2>1 DEF StaffInv, LoopStaff, RowStatus, Loose, Handled
  <2>2. ASSUME NEW r \in Replicas, InHand(r, i)
        PROVE  Unstaffed(i)' /\ HandStatus(sched[r], i)'
    <3>1. sched[r].pc \in {"claimJob", "unlockWorkspace"} /\ sched[r].row.status = "pending"
      BY <1>5, <2>2, LooseHand
    <3> QED
      BY <1>2, <1>5, <3>1 DEF HandStatus, Loose, ClaimPc, QueuePc, RunPc
  <2>3. LoopStaff(i)'
    BY <1>2, <2>1, <2>2 DEF LoopStaff
  <2>4. CallStaff(i)' /\ PodStaff(i)'
    BY <1>2, <1>5 DEF Loose, Unstaffed, CallStaff, PodStaff
  <2> QED
    BY <1>4, <2>3, <2>4 DEF StaffInv
<1>6. CASE job'[i] = job[i] \/ (job[i] \in {"queue", "running"} /\ job'[i] = "cancelled")
  <2>1. ASSUME NEW r \in Replicas, NEW x \in Polls(r), x.id = i
        PROVE  Unstaffed(i)' /\ RowStatus(x)'
    BY <1>1, <1>2, <1>6, <2>1 DEF StaffInv, LoopStaff, RowStatus
  <2>2. ASSUME NEW r \in Replicas, InHand(r, i)
        PROVE  Unstaffed(i)' /\ HandStatus(sched[r], i)'
    <3>1. Unstaffed(i) /\ HandStatus(sched[r], i)
      BY <1>1, <2>2 DEF StaffInv, LoopStaff
    <3> QED
      BY <1>2, <1>6, <3>1 DEF HandStatus, Terminal
  <2>3. LoopStaff(i)'
    BY <1>2, <2>1, <2>2 DEF LoopStaff
  <2>4. CallStaff(i)' /\ PodStaff(i)'
    BY <1>1, <1>2, <1>6 DEF StaffInv, CallStaff, PodStaff, Waiting
  <2> QED
    BY <1>4, <2>3, <2>4 DEF StaffInv
<1> QED
  BY <1>5, <1>6

LEMMA ThreadWork ==
    ASSUME Sound, UNCHANGED <<sched, calls, cluster>>, NEW i \in Jobs,
           \A j \in Jobs \ {i} : job'[j] = job[j] /\ Same(j) /\ SameRequests(j),
           \/ job'[i] = job[i]
           \/ job[i] \in {"queue", "running"} /\ job'[i] = "cancelled"
           \/ Loose(i),
           \A q \in requests' : q.id = i /\ q.pc \in DecidePc => q \in requests \/ Loose(i),
           Same(i) \/ Swept(i) \/ Loose(i),
           DecideOrder(i)', StatusOrder(i)'
    PROVE  AllWork'
<1>1. HoldsRow' /\ \A j \in Jobs \ {i} : WorkInv(j)'
  <2>1. \A j \in Jobs \ {i} : SameRow(j) /\ SameRequests(j) /\ SameCalls(j)
    BY DEF SameRow, SameCalls, cluster
  <2> QED
    BY <2>1, OthersWork
<1>2. StaffInv(i)'
  BY ThreadStaff
<1>3. OrderOwn(i)
  BY DEF Sound, OrderInv, WorkInv
<1>4. /\ \A n \in StepNumbers : Working(i, n)' = Working(i, n) /\ pod'[i][n] = pod[i][n]
      /\ \A r \in Replicas : Polls(r)' = Polls(r) /\ InHand(r, i)' = InHand(r, i)
  BY DEF Working, Polls, InHand, cluster
<1>5. LoopOrder(i)' /\ CallOrder(i)' /\ PodOrder(i)'
  <2>1. CASE Loose(i)
    <3>1. \A r \in Replicas : \A x \in Polls(r) : x.id = i => x.status = "pending"
      BY <2>1 DEF Loose, Handled
    <3>2. ASSUME NEW r \in Replicas, InHand(r, i) PROVE HandOrder(sched[r], i)'
      <4>1. sched[r].pc \in {"claimJob", "unlockWorkspace"} /\ sched[r].row.status = "pending"
        BY <2>1, <3>2, LooseHand
      <4> QED
        BY <4>1 DEF HandOrder, HoldingPc
    <3>3. LoopOrder(i)'
      BY <1>4, <3>1, <3>2 DEF LoopOrder
    <3> QED
      BY <1>4, <2>1, <3>3 DEF Loose, Unstaffed, CallOrder, PodOrder
  <2>2. ASSUME /\ NoneLeft(i) => NoneLeft(i)'
               /\ Clear(i) => Clear(i)'
               /\ AtGate(i) => AtGate(i)'
               /\ \A k : (Front(i, k) => Front(i, k)') /\ (AtWork(i, k) => AtWork(i, k)'),
               \/ NoneLeft(i)'
               \/ StepsIn(i, {"running"})' = StepsIn(i, {"running"})
        PROVE  LoopOrder(i)' /\ CallOrder(i)' /\ PodOrder(i)'
    <3>1. ASSUME NEW r \in Replicas, InHand(r, i) PROVE HandOrder(sched[r], i)'
      <4>1. HandOrder(sched[r], i)
        BY <1>3, <3>1 DEF OrderOwn, LoopOrder
      <4> QED
        BY <2>2, <4>1 DEF HandOrder
    <3>2. LoopOrder(i)'
      BY <1>3, <1>4, <2>2, <3>1 DEF OrderOwn, LoopOrder
    <3>3. CallOrder(i)' /\ PodOrder(i)'
      BY <1>3, <1>4, <2>2 DEF OrderOwn, CallOrder, PodOrder
    <3> QED
      BY <3>2, <3>3
  <2>3. CASE Same(i)
    <3>1. StepsIn(i, {"running"})' = StepsIn(i, {"running"})
      BY <2>3 DEF Same, StepsIn
    <3> QED
      BY <2>2, <2>3, <3>1, SameSteps
  <2>4. CASE Swept(i)
    BY <2>2, <2>4, SweptSteps
  <2> QED
    BY <2>1, <2>3, <2>4
<1> QED
  BY <1>1, <1>2, <1>5 DEF AllWork, WorkInv, OrderOwn

(* The steps stay as they are, the job at most ends or is approved, and     *)
(* whoever starts to decide finds the job as it says.                       *)
LEMMA PlainThread ==
    ASSUME Sound, UNCHANGED <<step, sched, calls, cluster>>, NEW i \in Jobs,
           \A j \in Jobs \ {i} : job'[j] = job[j] /\ SameRequests(j),
           \/ job'[i] = job[i]
           \/ job[i] \in {"queue", "running"} /\ job'[i] = "cancelled"
           \/ Loose(i) /\ job'[i] \in Terminal
           \/ Loose(i) /\ job[i] = "waitingApproval" /\ job'[i] = "approved",
           Dropping(i) => Dropping(i)',
           \A q \in requests' : q.id = i =>
              q \in requests \/ q.pc \notin DecidePc \/ (Loose(i) /\ Decided(q, i))
    PROVE  AllWork'
<1>1. \A j \in Jobs : Same(j)
  BY DEF Same
<1>2. DecideOrder(i) /\ StatusOrder(i)
  BY DEF Sound, OrderInv, WorkInv, OrderOwn
<1>3. /\ NoGate(i)' = NoGate(i) /\ Clear(i)' = Clear(i) /\ AtGate(i)' = AtGate(i)
      /\ \A k : OneGate(i, k)' = OneGate(i, k)
  BY <1>1, SameSteps
<1>4. DecideOrder(i)'
  <2> SUFFICES ASSUME NEW q \in requests', q.id = i PROVE Decided(q, i)'
    BY DEF DecideOrder
  <2>1. Decided(q, i) \/ q.pc \notin DecidePc
    BY <1>2 DEF DecideOrder
  <2> QED
    BY <1>3, <2>1 DEF Decided, DecidePc
<1>5. Handled(i)' = Handled(i)
  BY DEF Handled, Polls, InHand
<1>6. StatusOrder(i)'
  BY <1>2, <1>3, <1>5 DEF StatusOrder, Terminal
<1>7. \A j \in Jobs \ {i} : job'[j] = job[j] /\ Same(j) /\ SameRequests(j)
  BY <1>1
<1> QED
  BY <1>1, <1>4, <1>6, <1>7, ThreadWork

(* A PATCH of a user, or a handler that starts.                             *)
LEMMA StartWork ==
    ASSUME Sound, UNCHANGED <<step, sched, calls, cluster>>, NEW i \in Jobs,
           \A j \in Jobs \ {i} : job'[j] = job[j],
           \/ job'[i] = job[i]
           \/ job[i] = "running" /\ job'[i] = "cancelled"
           \/ Loose(i) /\ job'[i] \in Terminal
           \/ Loose(i) /\ job[i] = "waitingApproval" /\ job'[i] = "approved",
           \/ UNCHANGED requests
           \/ \E e : /\ requests' = requests \cup {e} /\ e.id = i
                     /\ e.pc \notin DecidePc \/ (Loose(i) /\ Decided(e, i))
    PROVE  AllWork'
<1>1. Dropping(i) => Dropping(i)'
  BY DEF Dropping
<1>2. \A j \in Jobs \ {i} : job'[j] = job[j] /\ SameRequests(j)
  BY DEF SameRequests
<1>3. \A q \in requests' : q.id = i =>
         q \in requests \/ q.pc \notin DecidePc \/ (Loose(i) /\ Decided(q, i))
  OBVIOUS
<1> QED
  BY <1>1, <1>2, <1>3, PlainThread

LEMMA UserWork ==
    ASSUME Sound, UserStep \/ \E w \in Workspaces : CliUnlock(w), UNCHANGED schedVars
    PROVE  AllWork'
<1>0. TypeInv /\ UNCHANGED <<step, sched, calls, cluster>>
  BY UserSteps DEF Sound, schedVars
<1>1. \A j \in Jobs : \A s : PageShows(j, s) => job[j] \in s
  BY DEF Sound, Attentive, PageShows
<1>2. ASSUME NEW i \in Jobs, UiApprove(i) \/ UiReject(i) \/ UiCancel(i) PROVE AllWork'
  <2>1. PICK s : /\ PatchJob(i, s)
                 /\ \/ s = "approved" /\ job[i] = "waitingApproval"
                    \/ s = "rejected" /\ job[i] = "waitingApproval"
                    \/ s = "cancelled" /\ job[i] \in {"running", "pending"}
    BY <1>1, <1>2 DEF UiApprove, UiReject, UiCancel
  <2>2. job[i] # "running" => Loose(i)
    BY <2>1, LooseIf
  <2>3. /\ \A j \in Jobs : job'[j] = IF j = i THEN s ELSE job[j]
        /\ UNCHANGED requests \/ \E e : /\ requests' = requests \cup {e} /\ e.id = i
                                        /\ e.pc = HookOf(s)
    BY <1>0, <2>1, PatchJobAt
  <2>4. HookOf(s) \notin DecidePc
    BY DEF HookOf, DecidePc
  <2> QED
    BY <1>0, <2>1, <2>2, <2>3, <2>4, StartWork DEF Terminal
<1>3. ASSUME NEW i \in Jobs, RestApprove(i) \/ RestReject(i) PROVE AllWork'
  <2>1. UNCHANGED job /\ job[i] = "waitingApproval"
    BY <1>1, <1>3 DEF RestApprove, RestReject, tables
  <2>2. PICK n \in StepNumbers, pc \in {"passGate", "rejectGate"} :
           step[i][n] = "waitingApproval" /\ Start(i, n, pc)
    BY <1>3 DEF RestApprove, RestReject, StepsIn
  <2>3. PICK e : requests' = requests \cup {e} /\ e.id = i /\ e.num = n /\ e.pc = pc
    BY <2>2, Started
  <2>4. DecideOrder(i) /\ StatusOrder(i)
    BY DEF Sound, OrderInv, WorkInv, OrderOwn
  <2>5. ~ Dropping(i)
    BY <2>2, <2>4 DEF DecideOrder, Decided, Dropping, NoGate
  <2>6. AtGate(i) /\ OneGate(i, n)
    BY <2>1, <2>2, <2>4, <2>5 DEF StatusOrder, AtGate, OneGate
  <2>7. Loose(i) /\ Decided(e, i)
    BY <2>1, <2>3, <2>6, LooseIf DEF Decided
  <2> QED
    BY <1>0, <2>1, <2>3, <2>7, StartWork
<1>4. ASSUME NEW i \in Jobs, CliCancel(i) \/ CliDiscard(i) PROVE AllWork'
  <2>1. /\ UNCHANGED job
        /\ \/ Start(i, 0, "cancelRun")
           \/ Start(i, 0, "discardGate") /\ job[i] \in {"waitingApproval", "pending"}
    BY <1>1, <1>4 DEF CliCancel, CliDiscard, tables
  <2>2. PICK e : /\ requests' = requests \cup {e} /\ e.id = i
                 /\ \/ e.pc = "cancelRun"
                    \/ e.pc = "discardGate" /\ job[i] \in {"waitingApproval", "pending"}
    BY <2>1, Started
  <2>3. e.pc \notin DecidePc \/ (Loose(i) /\ Decided(e, i))
    BY <2>2, LooseIf DEF DecidePc, Decided
  <2> QED
    BY <1>0, <2>1, <2>2, <2>3, StartWork
<1>5. ASSUME NEW w \in Workspaces, CliLock(w) \/ CliUnlock(w) PROVE AllWork'
  <2>1. UNCHANGED <<job, requests>>
    BY <1>5 DEF CliLock, CliUnlock
  <2>2. \A j \in Jobs : SameRow(j) /\ SameRequests(j) /\ SameCalls(j)
    BY <1>0, <2>1 DEF SameRow, Same, SameRequests, SameCalls, cluster
  <2>3. \A j \in Jobs : SameHand(j) /\ SamePolls(j)
    BY <1>0 DEF SameHand, SamePolls, InHand, Polls
  <2>4. HoldsRow'
    BY <1>0 DEF Sound, OrderInv, HoldsRow, CurrentJob
  <2> QED
    BY <2>2, <2>3, <2>4, FrameWork DEF Sound, OrderInv, Frame, AllWork
<1> QED
  BY <1>2, <1>3, <1>4, <1>5 DEF UserStep

(* The threads of a job: the one that takes a step goes on, or returns.     *)
LEMMA ThreadsOf ==
    ASSUME TypeInv, NEW q \in requests, RequestStep(q)
    PROVE  /\ q.id \in Jobs /\ UNCHANGED cluster
           /\ \A j \in Jobs \ {q.id} : job'[j] = job[j] /\ Same(j) /\ SameRequests(j)
           /\ \A p \in requests : p = q \/ p \in requests'
<1>1. q.id \in Jobs
  BY DEF TypeInv, ApiTypeOK, Request
<1>2. \/ UNCHANGED requests \/ requests' = requests \ {q}
      \/ \E e : requests' = (requests \ {q}) \cup {e} /\ e.id = q.id
  BY RequestMoves DEF Returns, GoesOn
<1>3. \A j \in Jobs \ {q.id} : SameRequests(j)
  BY <1>2 DEF SameRequests
<1>4. \A j \in Jobs \ {q.id} : Same(j)
  BY RequestSteps
<1>5. \A j \in Jobs \ {q.id} : job'[j] = job[j]
  <2>1. ASSUME NEW s, SetJob(q.id, s), NEW j \in Jobs \ {q.id} PROVE job'[j] = job[j]
    BY <2>1, SetJobAt DEF TypeInv
  <2>2. UNCHANGED job \/ \E s \in {"queue", "rejected", "cancelled"} : SetJob(q.id, s)
    BY DEF RequestStep, ReadTcl, InsertStep, PatchHook, ReleaseLock, CompleteGate, Requeue,
       RejectGate, DiscardGate, DropSteps, CloseJob, CancelRun
  <2> QED
    BY <2>1, <2>2
<1>6. UNCHANGED cluster
  BY DEF RequestStep, ReadTcl, InsertStep, PatchHook, ReleaseLock, CompleteGate, Requeue,
     RejectGate, DiscardGate, DropSteps, CloseJob, CancelRun
<1> QED
  BY <1>1, <1>2, <1>3, <1>4, <1>5, <1>6

(* Statements of a thread that leave the steps alone and decide nothing.    *)
LEMMA QuietThread ==
    ASSUME Sound, NEW q \in requests, RequestStep(q), UNCHANGED schedVars, UNCHANGED step,
           \/ job'[q.id] = job[q.id]
           \/ job[q.id] \in {"queue", "running"} /\ job'[q.id] = "cancelled"
           \/ Loose(q.id) /\ job'[q.id] \in Terminal,
           q.pc \notin {"dropSteps", "dropRest"},
           \A p \in requests' : p.id = q.id => p \in requests \/ p.pc \notin DecidePc
    PROVE  AllWork'
<1>1. /\ q.id \in Jobs /\ UNCHANGED <<step, sched, calls, cluster>>
      /\ \A j \in Jobs \ {q.id} : job'[j] = job[j] /\ SameRequests(j)
      /\ \A p \in requests : p = q \/ p \in requests'
  BY ThreadsOf DEF Sound, schedVars
<1>2. Dropping(q.id) => Dropping(q.id)'
  BY <1>1 DEF Dropping
<1> QED
  BY <1>1, <1>2, PlainThread

LEMMA CloseWork ==
    ASSUME Sound, NEW q \in requests, UNCHANGED schedVars,
           \/ ReadTcl(q) \/ ReleaseLock(q) \/ CloseJob(q) \/ CancelRun(q)
           \/ InsertStep(q) /\ UNCHANGED step
    PROVE  AllWork'
<1>0. TypeInv /\ q.id \in Jobs
  BY DEF Sound, TypeInv, ApiTypeOK, Request
<1>1. RequestStep(q) /\ UNCHANGED step
  BY DEF RequestStep, ReadTcl, ReleaseLock, CloseJob, CancelRun
<1>2. q.pc \notin {"dropSteps", "dropRest"}
  BY DEF ReadTcl, ReleaseLock, CloseJob, CancelRun, InsertStep
<1>3. \/ UNCHANGED requests \/ Return(q)
      \/ \E pc \in {"insertSteps", "releaseLock"} : Continue(q, pc)
  BY DEF ReadTcl, ReleaseLock, CloseJob, CancelRun, InsertStep
<1>4. \A p \in requests' : p \in requests \/ p.pc \notin DecidePc
  <2>1. ASSUME NEW pc \in {"insertSteps", "releaseLock"}, Continue(q, pc)
        PROVE  \A p \in requests' : p \in requests \/ p.pc \notin DecidePc
    BY <1>0, <2>1, ContinueAt DEF DecidePc
  <2> QED
    BY <1>3, <2>1 DEF Return
<1>5. \/ job'[q.id] = job[q.id]
      \/ job[q.id] \in {"queue", "running"} /\ job'[q.id] = "cancelled"
      \/ Loose(q.id) /\ job'[q.id] \in Terminal
  <2>1. CASE CloseJob(q)
    <3>1. q.pc \in DecidePc
      BY <2>1 DEF CloseJob, DecidePc
    <3>2. Loose(q.id)
      BY <1>0, <3>1, LooseIf
    <3>3. PICK s \in {"rejected", "cancelled"} : SetJob(q.id, s)
      BY <2>1 DEF CloseJob
    <3>4. job'[q.id] = s
      BY <1>0, <3>3, SetJobAt DEF TypeInv
    <3> QED
      BY <3>2, <3>4 DEF Terminal
  <2>2. CASE CancelRun(q)
    <3>1. \/ UNCHANGED job
          \/ SetJob(q.id, "cancelled") /\ job[q.id] \in {"running", "queue", "pending"}
      BY <2>2 DEF CancelRun
    <3>2. SetJob(q.id, "cancelled") => job'[q.id] = "cancelled"
      BY <1>0, SetJobAt DEF TypeInv
    <3>3. job[q.id] = "pending" => Loose(q.id)
      BY <1>0, LooseIf
    <3> QED
      BY <3>1, <3>2, <3>3 DEF Terminal
  <2> QED
    BY <2>1, <2>2 DEF ReadTcl, ReleaseLock, InsertStep
<1> QED
  BY <1>1, <1>2, <1>4, <1>5, QuietThread

(* No step waits any more, and the steps are clear unless they are dropped. *)
LEMMA ClearThread ==
    ASSUME NEW i \in Jobs, NoGate(i)', ~ Dropping(i)' => Clear(i)'
    PROVE  DecideOrder(i)' /\ StatusOrder(i)'
<1>1. Clear(i)' => AtGate(i)'
  BY DEF Clear, AtGate, NoGate
<1>2. \A k : OneGate(i, k)'
  BY DEF OneGate, NoGate
<1>3. DecideOrder(i)'
  <2> SUFFICES ASSUME NEW q \in requests', q.id = i PROVE Decided(q, i)'
    BY DEF DecideOrder
  <2> QED
    BY <1>1, <1>2 DEF Decided
<1> QED
  BY <1>1, <1>3 DEF StatusOrder

LEMMA DecideWork ==
    ASSUME Sound, NEW q \in requests, q.pc \in DecidePc, RequestStep(q), UNCHANGED schedVars,
           NoGate(q.id)', ~ Dropping(q.id)' => Clear(q.id)'
    PROVE  AllWork'
<1>1. /\ q.id \in Jobs /\ UNCHANGED <<sched, calls, cluster>>
      /\ \A j \in Jobs \ {q.id} : job'[j] = job[j] /\ Same(j) /\ SameRequests(j)
  BY ThreadsOf DEF Sound, schedVars
<1>2. Loose(q.id)
  BY <1>1, LooseIf
<1>3. DecideOrder(q.id)' /\ StatusOrder(q.id)'
  BY <1>1, ClearThread
<1> QED
  BY <1>1, <1>2, <1>3, ThreadWork

LEMMA GateWork ==
    ASSUME Sound, NEW q \in requests, UNCHANGED schedVars,
           CompleteGate(q) \/ RejectGate(q) \/ DiscardGate(q) \/ DropSteps(q) \/ Requeue(q)
    PROVE  AllWork'
<1>0. TypeInv /\ q.id \in Jobs
  BY DEF Sound, TypeInv, ApiTypeOK, Request
<1>1. RequestStep(q) /\ q.pc \in DecidePc
  BY DEF RequestStep, CompleteGate, RejectGate, DiscardGate, DropSteps, Requeue, DecidePc
<1>2. Decided(q, q.id)
  BY <1>0 DEF Sound, OrderInv, WorkInv, OrderOwn, DecideOrder
<1>3. \A p \in requests : p = q \/ p \in requests'
  BY <1>0, <1>1, ThreadsOf
<1>4. CASE CompleteGate(q)
  <2>1. q.pc = "passGate" /\ Sets(q.id, q.num, "completed")
    BY <1>0, <1>4, SetStepAt DEF CompleteGate, TypeInv
  <2>2. NoGate(q.id)'
    BY <1>2, <2>1 DEF Decided, OneGate, NoGate, Sets
  <2>3. Dropping(q.id) => Dropping(q.id)'
    BY <1>3, <2>1 DEF Dropping
  <2>4. AtGate(q.id) => Clear(q.id)'
    <3>1. \A n \in StepNumbers : step'[q.id][n] = "pending" => step[q.id][n] = "pending"
      BY <2>1 DEF Sets
    <3>2. AtGate(q.id) => \A n \in StepNumbers, m \in Entries(q.id) :
             m < n /\ step'[q.id][n] = "pending" => step'[q.id][m] \in Fine
      BY <1>2, <2>1, <3>1 DEF AtGate, Decided, OneGate, Sets, Fine, Entries
    <3> QED
      BY <2>2, <3>2 DEF Clear, Entries
  <2> QED
    BY <1>1, <1>2, <2>1, <2>2, <2>3, <2>4, DecideWork DEF Decided
<1>5. CASE RejectGate(q)
  <2>1. q.pc = "rejectGate" /\ Sets(q.id, q.num, "rejected")
    BY <1>0, <1>5, SetStepAt DEF RejectGate, TypeInv
  <2>2. NoGate(q.id)'
    BY <1>2, <2>1 DEF Decided, OneGate, NoGate, Sets
  <2>3. Dropping(q.id)'
    BY <1>0, <1>5, ContinueAt DEF RejectGate, Dropping
  <2> QED
    BY <1>1, <2>2, <2>3, DecideWork
<1>6. CASE DiscardGate(q)
  <2>1. Moves(q.id, {"waitingApproval"}, "rejected")
    BY <1>0, <1>6, MoveStepsAt DEF DiscardGate, TypeInv
  <2>2. NoGate(q.id)'
    BY <2>1 DEF NoGate, Moves
  <2>3. Dropping(q.id)'
    BY <1>0, <1>6, ContinueAt DEF DiscardGate, Dropping
  <2> QED
    BY <1>1, <2>2, <2>3, DecideWork
<1>7. CASE DropSteps(q)
  <2>1. q.pc \in {"dropSteps", "dropRest"} /\ Moves(q.id, {"pending"}, "notExecuted")
    BY <1>0, <1>7, MoveStepsAt DEF DropSteps, TypeInv
  <2>2. NoGate(q.id)'
    BY <1>2, <2>1 DEF Decided, NoGate, Moves
  <2>3. Clear(q.id)'
    BY <2>1, <2>2 DEF Clear, Moves
  <2> QED
    BY <1>1, <2>2, <2>3, DecideWork
<1>8. CASE Requeue(q)
  <2>1. q.pc = "requeue" /\ Same(q.id)
    BY <1>8 DEF Requeue, Same
  <2>2. NoGate(q.id)' /\ Clear(q.id)' = Clear(q.id)
    BY <1>0, <1>2, <2>1, SameSteps DEF Decided
  <2>3. Dropping(q.id) => Dropping(q.id)'
    BY <1>3, <2>1 DEF Dropping
  <2> QED
    BY <1>1, <1>2, <2>1, <2>2, <2>3, DecideWork DEF Decided
<1> QED
  BY <1>4, <1>5, <1>6, <1>7, <1>8

LEMMA HookWork ==
    ASSUME Sound, NEW q \in requests, PatchHook(q), UNCHANGED schedVars PROVE AllWork'
<1>0. TypeInv /\ q.id \in Jobs
  BY DEF Sound, TypeInv, ApiTypeOK, Request
<1>1. RequestStep(q) /\ UNCHANGED job
  BY DEF RequestStep, PatchHook
<1>2. /\ UNCHANGED <<sched, calls, cluster>>
      /\ \A j \in Jobs \ {q.id} : job'[j] = job[j] /\ Same(j) /\ SameRequests(j)
  BY <1>0, <1>1, ThreadsOf DEF schedVars
<1>3. PICK from, to : /\ Moves(q.id, from, to) /\ {"pending", "waitingApproval"} \subseteq from
                      /\ {"completed", "notExecuted"} \cap from = {}
                      /\ to \notin {"pending", "waitingApproval"}
  <2>1. ASSUME NEW from, NEW to, MoveSteps(q.id, from, to) PROVE Moves(q.id, from, to)
    BY <1>0, <2>1, MoveStepsAt DEF TypeInv
  <2> QED
    BY <2>1 DEF PatchHook
<1>4. Swept(q.id)
  BY <1>3 DEF Moves, Swept, NoneLeft, NoGate
<1>5. DecideOrder(q.id)' /\ StatusOrder(q.id)'
  BY <1>0, <1>4, SweptSteps, ClearThread
<1>6. \A p \in requests' : p \in requests \/ p.pc \notin DecidePc
  BY <1>0, ContinueAt DEF PatchHook, DecidePc
<1> QED
  BY <1>0, <1>1, <1>2, <1>4, <1>5, <1>6, ThreadWork

(* A step is inserted: while the job is pending, those before it are fine.  *)
LEMMA InsertWork ==
    ASSUME Sound, NEW q \in requests, InsertStep(q), UNCHANGED schedVars PROVE AllWork'
<1>0. TypeInv /\ q.id \in Jobs
  BY DEF Sound, TypeInv, ApiTypeOK, Request
<1>1. CASE UNCHANGED step
  BY <1>1, CloseWork
<1>2. ASSUME NEW n \in Lowest({m \in Entries(q.id) : step[q.id][m] = "none"}),
             SetStep(q.id, n, "pending"), UNCHANGED requests
      PROVE  AllWork'
  <2>1. /\ UNCHANGED <<job, sched, calls, cluster>>
        /\ \A j \in Jobs \ {q.id} : job'[j] = job[j] /\ Same(j) /\ SameRequests(j)
    BY <1>0, ThreadsOf DEF schedVars, RequestStep, InsertStep
  <2>2. /\ Sets(q.id, n, "pending") /\ n \in Entries(q.id) /\ step[q.id][n] = "none"
        /\ \A m \in Entries(q.id) : step[q.id][m] = "none" => n <= m
    BY <1>0, <1>2, SetStepAt DEF Lowest, TypeInv
  <2>3. Missing(q.id)
    BY <2>2 DEF Missing
  <2>4. Loose(q.id)
    BY <1>0, <2>3, LooseIf
  <2>5. MissingInv(q.id) /\ StatusOrder(q.id)
    BY <1>0 DEF Sound, OrderInv, WorkInv, OrderOwn
  <2>6. NoGate(q.id)'
    BY <2>2, <2>3, <2>5 DEF MissingInv, NoGate, Sets
  <2>7. DecideOrder(q.id)'
    BY <1>2, <2>3, <2>5, <2>6 DEF MissingInv, DecideOrder, Decided
  <2>8. Dropping(q.id)' = Dropping(q.id)
    BY <1>2 DEF Dropping
  <2>9. ASSUME ~ Dropping(q.id), job[q.id] = "pending" PROVE Clear(q.id)'
    <3>1. Clear(q.id) /\ \A m \in StepNumbers : step[q.id][m] \in Fine \cup {"none"}
      BY <2>3, <2>4, <2>5, <2>9 DEF MissingInv, StatusOrder, Loose
    <3> SUFFICES ASSUME NEW k \in StepNumbers, NEW m \in Entries(q.id), m < k,
                        step'[q.id][k] = "pending"
                 PROVE  step'[q.id][m] \in Fine
      BY <2>6 DEF Clear, Entries
    <3>2. m \in StepNumbers /\ m \in Nat /\ k \in Nat /\ n \in Nat
      BY <2>2, StepNumbersAssumption DEF Entries
    <3>3. m # n => step'[q.id][m] = step[q.id][m]
      BY <2>2, <3>2 DEF Sets
    <3>4. CASE m = n
      BY <2>2, <3>2, <3>4 DEF Sets, Fine
    <3>5. CASE m # n /\ k = n
      BY <2>2, <3>1, <3>2, <3>3, <3>5
    <3>6. CASE m # n /\ k # n
      BY <2>2, <3>1, <3>3, <3>6 DEF Sets, Clear
    <3> QED
      BY <3>4, <3>5, <3>6
  <2>10. StatusOrder(q.id)'
    BY <2>1, <2>3, <2>5, <2>8, <2>9 DEF StatusOrder, MissingInv
  <2> QED
    BY <1>0, <1>2, <2>1, <2>4, <2>7, <2>10, ThreadWork
<1> QED
  BY <1>1, <1>2 DEF InsertStep

LEMMA RequestWork ==
    ASSUME Sound, NEW q \in requests, RequestStep(q), UNCHANGED schedVars PROVE AllWork'
BY CloseWork, GateWork, HookWork, InsertWork DEF RequestStep

LEMMA CreateWork ==
    ASSUME Sound, NEW i \in Jobs, InsertJob(i), UNCHANGED schedVars PROVE AllWork'
<1>0. TypeInv /\ UNCHANGED <<step, sched, calls, cluster>>
  BY DEF Sound, InsertJob, schedVars
<1>1. job[i] = "none"
  BY DEF InsertJob
<1>2. Loose(i)
  BY <1>1, LooseIf
<1>3. \A j \in Jobs : job'[j] = IF i = j THEN "pending" ELSE job[j]
  BY <1>0, SetJobAt DEF InsertJob, TypeInv
<1>4. PICK e : requests' = requests \cup {e} /\ e.id = i /\ e.pc = "readTcl"
  BY Started DEF InsertJob
<1>5. \A n \in StepNumbers : step'[i][n] = "none"
  BY <1>0, <1>1 DEF Sound, GateInv, InitInv
<1>6. NoGate(i)' /\ Clear(i)'
  BY <1>5 DEF NoGate, Clear
<1>7. DecideOrder(i)' /\ StatusOrder(i)'
  BY <1>6, ClearThread
<1>8. \A j \in Jobs \ {i} : job'[j] = job[j] /\ Same(j) /\ SameRequests(j)
  BY <1>0, <1>3, <1>4 DEF Same, SameRequests
<1> QED
  BY <1>0, <1>2, <1>4, <1>7, <1>8, ThreadWork
--------------------------------------------------------------------------------
(* The insertion of the steps: what may still happen to the job.            *)
GatePc == {"passGate", "requeue", "rejectGate", "dropSteps", "rejectJob"}
HookPc == {"cancelSteps", "closeSteps", "failSteps"}

LEMMA MissingKept ==
    ASSUME NEW j \in Jobs, Missing(j) /\ MissingInv(j), NoGate(j)',
           job'[j] = job[j] \/ job'[j] \in Terminal,
           job'[j] = "pending" => \A m \in StepNumbers : step'[j][m] \in Fine \cup {"none"},
           \A q \in requests' : q.id = j =>
              q \in requests \/ (q.pc \notin GatePc /\ (job'[j] = "pending" => q.pc \notin HookPc))
    PROVE  MissingInv(j)'
<1>1. job'[j] \notin {"queue", "approved", "waitingApproval"}
  BY DEF MissingInv, Terminal
<1>2. job'[j] = "pending" => job[j] = "pending"
  BY DEF Terminal
<1>3. ASSUME NEW q \in requests', q.id = j
      PROVE  q.pc \notin GatePc /\ (job'[j] = "pending" => q.pc \notin HookPc)
  BY <1>2, <1>3 DEF MissingInv, GatePc, HookPc
<1> QED
  BY <1>1, <1>3 DEF MissingInv, GatePc, HookPc

(* Loops, calls and executors leave such a job alone.                       *)
LEMMA MissingView ==
    ASSUME Sound, NEW j \in Jobs, Missing(j)
    PROVE  /\ MissingInv(j) /\ StatusOrder(j) /\ DecideOrder(j)
           /\ \A n \in StepNumbers : ~ Working(j, n)
           /\ \A c \in calls : c.id # j
           /\ \A r \in Replicas : ~ InHand(r, j)
BY DEF Sound, OrderInv, WorkInv, OrderOwn, GateInv, InitInv, LeftAlone

LEMMA LoopMissing ==
    ASSUME Sound, NEW j \in Jobs, Missing(j), NEW r \in Replicas, LoopStep(r)
    PROVE  job'[j] = job[j] /\ Same(j)
<1>0. TypeInv /\ RowsInv /\ FreeInv /\ CurrentJob(r) # j
  BY MissingView DEF Sound, GateInv, InHand, CurrentJob
<1>1. Same(j)
  BY <1>0, LoopSteps DEF InHand, CurrentJob
<1>2. ASSUME NEW s, SetJob(CurrentJob(r), s) PROVE job'[j] = job[j]
  BY <1>0, <1>2, SetJobAt DEF TypeInv
<1>3. KillPods(r) => UNCHANGED job
  BY Zenon DEF KillPods, tables
<1>4. UNCHANGED job \/ \E s : SetJob(CurrentJob(r), s)
  <2>1. CASE ClaimJob(r)
    BY <2>1 DEF ClaimJob, CurrentJob
  <2>2. CASE NoExecutor(r)
    BY <2>2 DEF NoExecutor
  <2>3. CASE FinishJob(r)
    BY <2>3 DEF FinishJob
  <2>4. CASE ParkJob(r) \/ RunJob(r)
    BY <2>4 DEF ParkJob, RunJob
  <2>5. CheckOlder(r) \/ PassGate(r) \/ UnlockWorkspace(r) \/ LookupStep(r) \/ SkipStep(r)
          \/ Advance(r) \/ CountOpen(r) \/ Tally(r) \/ ReleaseFinished(r)
        => UNCHANGED job
    BY DEF CheckOlder, PassGate, UnlockWorkspace, LookupStep, SkipStep, Advance, CountOpen, Tally,
       ReleaseFinished, tables
  <2>6. ParkStep(r) \/ ClaimStep(r) \/ LockWorkspace(r) \/ HandBack(r) \/ Spawn(r)
          \/ PollCancels(r)
        => UNCHANGED job
    BY DEF ParkStep, ClaimStep, LockWorkspace, HandBack, Spawn, PollCancels, tables
  <2> QED
    BY <1>3, <2>1, <2>2, <2>3, <2>4, <2>5, <2>6 DEF LoopStep
<1> QED
  BY <1>1, <1>2, <1>4

LEMMA CallMissing ==
    ASSUME Sound, NEW j \in Jobs, Missing(j), NEW c \in calls, CallStep(c)
    PROVE  job'[j] = job[j] /\ Same(j)
<1>0. TypeInv /\ FreeInv /\ c.id # j
  BY MissingView DEF Sound, GateInv
<1>1. Same(j)
  BY <1>0, CallSteps
<1>2. UNCHANGED job \/ SetJob(c.id, "failed")
  BY DEF CallStep, Execute, FailCall, tables
<1> QED
  BY <1>0, <1>1, <1>2, SetJobAt DEF TypeInv

LEMMA PodMissing ==
    ASSUME Sound, NEW j \in Jobs, Missing(j), NEW i \in Jobs, NEW m \in StepNumbers,
           ExecutorStep(i, m), UNCHANGED schedVars
    PROVE  job'[j] = job[j] /\ Same(j) /\ SameRequests(j)
<1>0. TypeInv /\ FreeInv /\ Working(i, m) /\ ~ Working(j, m)
  BY MissingView, PodActivity DEF Sound, GateInv, schedVars
<1>1. i # j
  BY <1>0
<1>2. Same(j)
  BY <1>0, <1>1, PodSteps
<1>3. UNCHANGED <<job, requests>> \/ \E s : PatchJob(i, s)
  BY DEF ExecutorStep, PodStep, BeginStep, BeginJob, EndWork, NoticeCancel, ReportStep, ReportJob,
     ExitSilently, LosePod, tables, apiVars
<1>4. ASSUME NEW s, PatchJob(i, s) PROVE job'[j] = job[j] /\ SameRequests(j)
  BY <1>0, <1>1, <1>4, PatchJobAt DEF SameRequests
<1> QED
  BY <1>2, <1>3, <1>4 DEF SameRequests

LEMMA UserMissing ==
    ASSUME Sound, NEW j \in Jobs, Missing(j), UserStep \/ \E w \in Workspaces : CliUnlock(w)
    PROVE  MissingInv(j)'
<1>0. TypeInv /\ UNCHANGED step /\ MissingInv(j)
  BY UserSteps, MissingView DEF Sound
<1>1. \A i \in Jobs : \A s : PageShows(i, s) => job[i] \in s
  BY DEF Sound, Attentive, PageShows
<1>2. NoGate(j)' = NoGate(j) /\ NoGate(j)
  BY <1>0, SameSteps DEF Same, MissingInv
<1>3. ASSUME job'[j] = job[j] \/ job'[j] \in Terminal,
             \A q \in requests' : q.id = j =>
                \/ q \in requests
                \/ q.pc \notin GatePc /\ (job'[j] = "pending" => q.pc \notin HookPc)
      PROVE  MissingInv(j)'
  <2>1. job'[j] = "pending" => job[j] = "pending"
    BY <1>3 DEF Terminal
  <2>2. job'[j] = "pending" => \A m \in StepNumbers : step'[j][m] \in Fine \cup {"none"}
    BY <1>0, <2>1 DEF MissingInv
  <2> QED
    BY <1>0, <1>2, <1>3, <2>2, MissingKept
<1>4. ASSUME NEW i \in Jobs, UiApprove(i) \/ UiReject(i) \/ UiCancel(i) PROVE MissingInv(j)'
  <2>1. PICK s : /\ PatchJob(i, s)
                 /\ \/ s \in {"approved", "rejected"} /\ job[i] = "waitingApproval"
                    \/ s = "cancelled"
    BY <1>1, <1>4 DEF UiApprove, UiReject, UiCancel
  <2>2. /\ job'[j] = IF j = i THEN s ELSE job[j]
        /\ UNCHANGED requests \/ \E e : /\ requests' = requests \cup {e} /\ e.id = i
                                        /\ e.pc = HookOf(s)
    BY <1>0, <2>1, PatchJobAt
  <2>3. i = j => s = "cancelled"
    BY <1>0, <2>1 DEF MissingInv
  <2>4. HookOf("cancelled") \notin GatePc
    BY DEF HookOf, GatePc
  <2> QED
    BY <1>3, <2>2, <2>3, <2>4 DEF Terminal
<1>5. ASSUME NEW i \in Jobs, RestApprove(i) \/ RestReject(i) PROVE MissingInv(j)'
  <2>1. UNCHANGED job /\ job[i] = "waitingApproval"
    BY <1>1, <1>5 DEF RestApprove, RestReject, tables
  <2>2. i # j
    BY <1>0, <2>1 DEF MissingInv
  <2>3. PICK n, pc : Start(i, n, pc)
    BY <1>5 DEF RestApprove, RestReject
  <2>4. PICK e : requests' = requests \cup {e} /\ e.id = i
    BY <2>3, Started
  <2> QED
    BY <1>3, <2>1, <2>2, <2>4
<1>6. ASSUME NEW i \in Jobs, CliCancel(i) \/ CliDiscard(i) PROVE MissingInv(j)'
  <2>1. PICK pc \in {"cancelRun", "discardGate"} : Start(i, 0, pc) /\ UNCHANGED job
    BY <1>6 DEF CliCancel, CliDiscard, tables
  <2>2. PICK e : requests' = requests \cup {e} /\ e.id = i /\ e.pc \in {"cancelRun", "discardGate"}
    BY <2>1, Started
  <2> QED
    BY <1>3, <2>1, <2>2 DEF GatePc, HookPc
<1>7. ASSUME NEW w \in Workspaces, CliLock(w) \/ CliUnlock(w) PROVE MissingInv(j)'
  BY <1>3, <1>7 DEF CliLock, CliUnlock
<1> QED
  BY <1>4, <1>5, <1>6, <1>7 DEF UserStep

LEMMA CreateMissing ==
    ASSUME Sound, NEW j \in Jobs, Missing(j), NEW i \in Jobs, InsertJob(i)
    PROVE  MissingInv(j)'
<1>0. TypeInv /\ MissingInv(j) /\ job[i] = "none" /\ UNCHANGED step
  BY MissingView DEF Sound, InsertJob
<1>1. job'[j] = IF i = j THEN "pending" ELSE job[j]
  BY <1>0, SetJobAt DEF InsertJob, TypeInv
<1>2. PICK e : requests' = requests \cup {e} /\ e.id = i /\ e.pc = "readTcl"
  BY Started DEF InsertJob
<1>3. NoGate(j)' = NoGate(j)
  BY <1>0, SameSteps DEF Same
<1>4. CASE i # j
  BY <1>0, <1>1, <1>2, <1>3, <1>4, MissingKept DEF MissingInv
<1>5. CASE i = j
  <2>1. \A n \in StepNumbers : step'[j][n] = "none"
    BY <1>0, <1>5 DEF Sound, GateInv, InitInv
  <2>2. \A q \in requests : q.id # j
    BY <1>0, <1>5 DEF Sound, GateInv, RequestInv
  <2> QED
    BY <1>1, <1>2, <1>5, <2>1, <2>2 DEF MissingInv, NoGate
<1> QED
  BY <1>4, <1>5

LEMMA RequestMissing ==
    ASSUME Sound, NEW j \in Jobs, Missing(j), NEW q \in requests, RequestStep(q), q.id = j
    PROVE  MissingInv(j)'
<1>0. TypeInv /\ MissingInv(j)
  BY MissingView DEF Sound
<1>1. q.pc \notin GatePc /\ (job[j] = "pending" => q.pc \notin HookPc)
  BY <1>0 DEF MissingInv, GatePc, HookPc
<1>2. ~ CompleteGate(q) /\ ~ Requeue(q) /\ ~ RejectGate(q)
  BY <1>1 DEF CompleteGate, Requeue, RejectGate, GatePc
<1>3. \A p \in requests' : p.id = j => p \in requests \/ p.pc \notin GatePc \cup HookPc
  <2>1. \/ UNCHANGED requests \/ Return(q)
        \/ \E pc \in {"insertSteps", "releaseLock", "dropRest", "cancelJob"} : Continue(q, pc)
    BY <1>1, <1>2 DEF RequestStep, ReadTcl, InsertStep, PatchHook, ReleaseLock, DiscardGate,
       DropSteps, CloseJob, CancelRun, GatePc
  <2>2. ASSUME NEW pc \in {"insertSteps", "releaseLock", "dropRest", "cancelJob"}, Continue(q, pc)
        PROVE  \A p \in requests' : p \in requests \/ p.pc \notin GatePc \cup HookPc
    BY <1>0, <2>2, ContinueAt DEF GatePc, HookPc
  <2> QED
    BY <2>1, <2>2 DEF Return
<1>4. job'[j] = job[j] \/ job'[j] \in Terminal
  <2>1. UNCHANGED job \/ \E s \in {"rejected", "cancelled"} : SetJob(j, s)
    BY <1>2 DEF RequestStep, ReadTcl, InsertStep, PatchHook, ReleaseLock, DiscardGate, DropSteps,
       CloseJob, CancelRun
  <2>2. \A s : SetJob(j, s) => job'[j] = s
    BY <1>0, SetJobAt DEF TypeInv
  <2> QED
    BY <2>1, <2>2 DEF Terminal
<1>5. job'[j] = "pending" => job[j] = "pending"
  BY <1>4 DEF Terminal
<1>6. /\ NoGate(j)'
      /\ job'[j] = "pending" => \A m \in StepNumbers : step'[j][m] \in Fine \cup {"none"}
  <2>1. CASE Same(j)
    BY <1>0, <1>5, <2>1 DEF MissingInv, NoGate, Same
  <2>2. ASSUME NEW n, Sets(j, n, "pending") PROVE <1>6!:
    BY <1>0, <1>5, <2>2 DEF MissingInv, NoGate, Sets, Fine
  <2>3. CASE q.pc \in HookPc /\ \E from \in SUBSET {"pending", "running", "waitingApproval"},
                to \in {"cancelled", "notExecuted", "failed"} : Moves(j, from, to)
    <3>1. job[j] # "pending"
      BY <1>1, <2>3
    <3>2. PICK from, to : Moves(j, from, to) /\ to # "waitingApproval"
      BY <2>3
    <3>3. NoGate(j)'
      BY <1>0, <3>2 DEF MissingInv, NoGate, Moves
    <3> QED
      BY <1>5, <3>1, <3>3
  <2>4. CASE Moves(j, {"waitingApproval"}, "rejected")
    BY <1>0, <1>5, <2>4 DEF MissingInv, NoGate, Moves, Fine
  <2>5. CASE Moves(j, {"pending"}, "notExecuted")
    BY <1>0, <1>5, <2>5 DEF MissingInv, NoGate, Moves, Fine
  <2>6. \/ Same(j) \/ (\E n : Sets(j, n, "pending"))
        \/ /\ q.pc \in HookPc
           /\ \E from \in SUBSET {"pending", "running", "waitingApproval"},
                 to \in {"cancelled", "notExecuted", "failed"} : Moves(j, from, to)
        \/ Moves(j, {"waitingApproval"}, "rejected") \/ Moves(j, {"pending"}, "notExecuted")
    BY <1>0, <1>1, RequestSteps DEF GatePc, HookPc
  <2> QED
    BY <2>1, <2>2, <2>3, <2>4, <2>5, <2>6
<1> QED
  BY <1>0, <1>3, <1>4, <1>6, MissingKept

LEMMA NextMissing == ASSUME Sound, [Next]_vars, NEW j \in Jobs PROVE MissingInv(j)'
<1> SUFFICES ASSUME Missing(j)' PROVE MissingInv(j)'
  BY DEF MissingInv
<1>0. LonePoller /\ TypeInv /\ RowsInv /\ FreeInv
  BY DEF Sound, Attentive, GateInv
<1>1. Missing(j)
  BY <1>0, StepsStay DEF Missing, Entries
<1>2. MissingInv(j)
  BY <1>1, MissingView
<1>3. ASSUME job'[j] = job[j], Same(j), SameRequests(j) PROVE MissingInv(j)'
  BY <1>1, <1>2, <1>3, SameSteps DEF MissingInv, Same, SameRequests
<1>4. ASSUME NEW r \in Replicas, Tick(r) PROVE MissingInv(j)'
  BY <1>3, <1>4 DEF Tick, PollJobs, tables, apiVars, Same, SameRequests
<1>5. ASSUME NEW r \in Replicas, LoopStep(r), UNCHANGED apiVars PROVE MissingInv(j)'
  BY <1>1, <1>3, <1>5, LoopMissing DEF apiVars, SameRequests
<1>6. ASSUME NEW c \in calls, CallStep(c), UNCHANGED apiVars PROVE MissingInv(j)'
  BY <1>1, <1>3, <1>6, CallMissing DEF apiVars, SameRequests
<1>7. ASSUME NEW i \in Jobs, NEW m \in StepNumbers, ExecutorStep(i, m), UNCHANGED schedVars
      PROVE  MissingInv(j)'
  BY <1>1, <1>3, <1>7, PodMissing
<1>8. ASSUME NEW q \in requests, RequestStep(q) PROVE MissingInv(j)'
  BY <1>0, <1>1, <1>3, <1>8, ThreadsOf, RequestMissing
<1>9. ASSUME Create PROVE MissingInv(j)'
  BY <1>1, <1>9, CreateMissing DEF Create, CreateJob, CreateRun
<1>10. CASE UNCHANGED vars
  BY <1>3, <1>10 DEF vars, tables, apiVars, Same, SameRequests
<1> QED
  BY <1>0, <1>1, <1>4, <1>5, <1>6, <1>7, <1>8, <1>9, <1>10, UserMissing, Steps

LEMMA NextOrderInv == Sound /\ [Next]_vars => OrderInv'
<1> SUFFICES ASSUME Sound, [Next]_vars PROVE OrderInv'
  OBVIOUS
<1>1. LonePoller
  BY DEF Sound, Attentive
<1>2. ASSUME Create, UNCHANGED schedVars PROVE AllWork'
  BY <1>2, CreateWork DEF Create, CreateJob, CreateRun
<1>3. ASSUME UNCHANGED vars PROVE AllWork'
  <2>1. UNCHANGED <<job, step, cluster, sched, calls, requests>>
    BY <1>3 DEF vars, tables, schedVars, apiVars
  <2>2. \A j \in Jobs : SameRow(j) /\ SameRequests(j) /\ SameCalls(j)
    BY <2>1 DEF SameRow, Same, SameRequests, SameCalls, cluster
  <2>3. \A j \in Jobs : SameHand(j) /\ SamePolls(j)
    BY <2>1 DEF SameHand, SamePolls, InHand, Polls
  <2>4. HoldsRow'
    BY <2>1 DEF Sound, OrderInv, HoldsRow, CurrentJob
  <2> QED
    BY <2>2, <2>3, <2>4, FrameWork DEF Sound, OrderInv, Frame, AllWork
<1>4. AllWork'
  BY <1>1, <1>2, <1>3, Steps, TickWork, LoopWork, CallWork, UserWork, RequestWork, PodWork
<1> QED
  BY <1>4, NextMissing DEF OrderInv, AllWork

(* The inductive invariant holds: under the same conditions a job has one   *)
(* owner, whoever decides finds nobody at work on it, and its steps are as  *)
(* far as the one who is about to write says.                               *)
THEOREM OneOwnerInOrder == Attentive => (Spec => []OrderInv)
<1> SUFFICES ASSUME Attentive PROVE Spec => []OrderInv
  OBVIOUS
<1> DEFINE Inv == TypeInv /\ GateInv /\ OrderInv
<1>1. Init => Inv
  BY InitTypeInv, InitGateInv, InitOrderInv
<1>2. Inv /\ [Next]_vars => Inv'
  BY NextTypeInv, NextGateInv, NextOrderInv DEF Sound, Attentive
<1>3. Inv => OrderInv
  OBVIOUS
<1> QED
  BY <1>1, <1>2, <1>3, PTL DEF Spec

(* A step is at work only after every lower step has been settled: whatever *)
(* users decide, cancel and discard meanwhile, and whichever call, report   *)
(* or executor is lost.                                                     *)
THEOREM StepsAreInOrder == Attentive => (Spec => []StepsInOrder)
<1>1. OrderInv => StepsInOrder
  <2> SUFFICES ASSUME OrderInv, NEW j \in Jobs, NEW n \in StepNumbers, Running(j, n),
                      NEW m \in Entries(j), m < n
               PROVE  step[j][m] \in {"completed", "notExecuted"}
    BY DEF StepsInOrder
  <2>1. Working(j, n) /\ pod[j][n].pc # "reportJob"
    BY DEF Running, Working
  <2>2. AtWork(j, n)
    BY <2>1 DEF OrderInv, WorkInv, OrderOwn, PodOrder
  <2> QED
    BY <2>2 DEF AtWork, Front
<1> QED
  BY <1>1, OneOwnerInOrder, PTL
================================================================================
