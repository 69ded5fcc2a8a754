\* A connection to version control, created on the page and authorised by its user.
SPECIFICATION VcsSpec
CONSTANTS
  Addresses = {"i", "b", "d"}
  Plans <- SmallPlans
  ImportWorkspaces = {"w1", "w2"}
  SensitiveVariables = {"v"}
  Collections = {"c"}
  MaxAdditional = 1
  MaxChoices = 2
  MaxLists = 2
  PlanOutputs <- SmallPlanOutputs
  AttributePairs <- SmallPairs
  CollectionWorkspaces = {"w1", "w2"}
  Items = {"i1", "i2"}
  MaxSaves = 2
  EventIds = {"e1", "e2", "e3", "e4"}
  MaxRows = 3
  MaxDeletes = 1
  States <- TwoStates
  MaxPolls = 2
  Connections = {"c1", "c2"}
  Types = {"GITHUB", "GITHUB_APP", "GITHUB_ENTERPRISE", "GITLAB", "GITLAB_COMMUNITY", "BITBUCKET", "AZURE_DEVOPS"}
  MaxConnections = 1
  Refreshers = {"r1", "r2"}
  Dispatches = {"d1", "d2"}
  MaxTokens = 5
  Pollers = {"p1", "p2"}
  Quartz <- TwoQuartz
  SixFields = {"x", "y"}
  Versions = {"v1", "v2"}
  Submodules = {"m1", "m2"}
  MaxClicks = 3
  Replicas = {"r1", "r2"}
  Semver <- ThreeTags
  Providers = {"p", "q"}
  PublicModules = {"m"}
  Platforms = {"a", "b"}
  MaxImports = 2
  EditedItems = {"i1", "i2"}
  MaxEdits = 3
  Conditions <- TwoConditions
  MaxPresses = 2
  StateVersions = {"a", "b", "f"}
  Hosted = {"a", "b"}
  MaxOpenings = 2
  Teams = {"t", "n"}
  NewTeams = {"n"}
  MaxSwitches = 3
  Templates = {"t", "n"}
  NewTemplates = {"n"}
  Ascii = {"a", "b"}
  MaxTyped = 1
  MaxSubmits = 2
INVARIANTS
  CodesAreExchanged
CHECK_DEADLOCK FALSE
