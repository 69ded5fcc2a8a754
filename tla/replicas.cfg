\* Two API processes poll the same gated run; it is cancelled; they restart.
SPECIFICATION Spec
CONSTANTS
  r1 = r1
  r2 = r2
  w1 = w1
  w2 = w2
  Replicas = {r1, r2}
  Workspaces = {w1}
  NumJobs = 1
  StepNumbers = {100, 150, 200}
  WorkspaceOf <- OneWorkspace
  Flow <- GatedThenPlan
  InlineTcl = {}
  TemplateTcl = {1}
  AutoApply = {}
  AgentWorkspaces = {}
  HasKubernetes = TRUE
  PollLimit = 10
  Events = {"uiApprove", "uiCancel", "apiCrash"}
SYMMETRY ReplicaSymmetry
INVARIANTS
  LaunchedAtMostOnce
  SoleHolder
  ClaimInv
