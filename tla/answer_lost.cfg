\* One API process; the answer to a dispatch comes too late.
SPECIFICATION FairSpec
CONSTANTS
  r1 = r1
  r2 = r2
  w1 = w1
  w2 = w2
  Replicas = {r1}
  Workspaces = {w1}
  NumJobs = 2
  StepNumbers = {100, 150, 200}
  WorkspaceOf <- OneWorkspace
  Flow <- GatedThenPlan
  InlineTcl = {2}
  TemplateTcl = {1}
  AutoApply = {}
  AgentWorkspaces = {w1}
  HasKubernetes = FALSE
  PollLimit = 10
  Events = {"uiApprove", "answerLost"}
PROPERTIES
  JobsSettle
