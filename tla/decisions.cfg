\* One API process; everybody decides about one gated run at the same time.
SPECIFICATION Spec
CONSTANTS
  r1 = r1
  r2 = r2
  w1 = w1
  w2 = w2
  Replicas = {r1}
  Workspaces = {w1}
  NumJobs = 1
  StepNumbers = {100, 150, 200}
  WorkspaceOf <- OneWorkspace
  Flow <- GatedThenPlan
  InlineTcl = {}
  TemplateTcl = {1}
  AutoApply = {}
  AgentWorkspaces = {}
  HasKubernetes = TRUE
  PollLimit = 10
  Events = {"uiApprove", "uiReject", "uiCancel", "restApprove", "restReject", "cliCancel", "cliDiscard", "cliLock"}
INVARIANTS
  StepsInOrder
  GateRespected
