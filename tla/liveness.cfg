\* One API process with remote agents only: w1 has one, w2 has no executor.
\* Users decide in the UI or through REST; agents refuse jobs.
SPECIFICATION FairSpec
CONSTANTS
  r1 = r1
  r2 = r2
  w1 = w1
  w2 = w2
  Replicas = {r1}
  Workspaces = {w1, w2}
  NumJobs = 3
  StepNumbers = {100, 150, 200}
  WorkspaceOf <- WorkspacesOfThree
  Flow <- FlowsOfThree
  InlineTcl = {3}
  TemplateTcl = {1, 2}
  AutoApply = {2}
  AgentWorkspaces = {w1}
  HasKubernetes = FALSE
  PollLimit = 10
  Events = {"uiApprove", "uiReject", "restApprove", "executeFails"}
PROPERTIES
  JobsSettle
