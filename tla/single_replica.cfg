\* One API process; users decide in the UI; dispatches, PATCHes and pods fail.
SPECIFICATION Spec
CONSTANTS
  r1 = r1
  r2 = r2
  w1 = w1
  w2 = w2
  Replicas = {r1}
  Workspaces = {w1, w2}
  NumJobs = 3
  StepNumbers = {100, 150, 200}
  WorkspaceOf <- WorkspacesOfThree
  Flow <- FlowsOfThree
  InlineTcl = {3}
  TemplateTcl = {1, 2}
  AutoApply = {2}
  AgentWorkspaces = {}
  HasKubernetes = TRUE
  PollLimit = 10
  Events = {"uiApprove", "uiReject", "executeFails", "silentExit", "podLost", "patchLost"}
INVARIANTS
  TypeOK
  RunHoldsLock
  CompletedIsComplete
PROPERTIES
  TerminalIsFinal
  ImplementsRunQueue
