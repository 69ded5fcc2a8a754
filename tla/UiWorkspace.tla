------------------------------- MODULE UiWorkspace -------------------------------
(****************************************************************************)
(* The page of a workspace (Workspaces/Details.tsx, workspaceDataUtils.ts): *)
(* it loads the workspace with its jobs, variables and state versions, polls *)
(* it every 10 s, and fetches the content of a state version when the poll  *)
(* brings a new one.  Nothing is aborted: answers of several polls mix.     *)
(* The tabs are layout and left out; the router remounts the page.          *)
(****************************************************************************)
EXTENDS UiPage

CONSTANTS
    States,   \* what the versions 1, 2, ... of the state hold
    MaxPolls  \* bound on the polls and reloads

(* What stands in the place of a secret is not what an output holds.        *)
ASSUME WorkspaceAssumption ==
    /\ States \in Seq([resources : SUBSET Nat, outputs : SUBSET STRING]) /\ Len(States) > 0
    /\ \A id \in DOMAIN States : IsFiniteSet(States[id].outputs) /\ "*****" \notin States[id].outputs

(* A state version: resources by the depth of their module, outputs by      *)
(* whether they are sensitive.                                              *)
State(id) == States[id]

NoContent == [of |-> 0, resources |-> {}, outputs |-> {}]

NotLoaded == "not loaded"
Lock(locked) == IF locked THEN "locked" ELSE "unlocked"

WorkspaceInit ==
    /\ page = [kind |-> "workspace", polls |-> 0, loads |-> {}, permissionSets |-> {},
               stateLoads |-> {}, loadError |-> FALSE, workspace |-> NotLoaded,
               tables |-> NotLoaded, permissions |-> NotLoaded,
               currentStateId |-> 0, content |-> NoContent,
               permissionsMissed |-> FALSE, stateMissed |-> FALSE]
    /\ server \in [locked : BOOLEAN, last : 0 .. 1]

(* What happens to the workspace meanwhile: a run stores another state      *)
(* version, or someone locks or unlocks it.                                 *)
WorkspaceChanges ==
    /\ \/ server.last < Len(States) /\ server' = [server EXCEPT !.last = @ + 1]
       \/ server' = [server EXCEPT !.locked = ~ @]
    /\ UNCHANGED page
--------------------------------------------------------------------------------
(* loadWorkspace: templates, then the workspace, then what it includes.  It *)
(* compares with the state version known when it was called.                *)
BeginLoad(p) ==
    [p EXCEPT !.polls = @ + 1,
              !.loads = @ \cup {[n |-> p.polls, stage |-> "templates",
                                 knows |-> p.currentStateId, sees |-> 0]}]

BeginPermissionSet(p, n) ==
    [p EXCEPT !.permissionSets = @ \cup {[n |-> n, stage |-> "organization"]}]

(* The effect on mount, and the interval.                                   *)
LoadOrPoll ==
    /\ page.polls < MaxPolls
    /\ page' = BeginPermissionSet(BeginLoad(page), page.polls)
    /\ UNCHANGED server

TemplatesArrive(load) ==
    /\ load.stage = "templates"
    /\ page' = [page EXCEPT !.loads = (@ \ {load}) \cup {[load EXCEPT !.stage = "workspace"]}]
    /\ UNCHANGED server

(* The first load asks for the permissions a second time.                   *)
WorkspaceArrives(load) ==
    /\ load.stage = "workspace"
    /\ LET p == [page EXCEPT !.workspace = Lock(server.locked),
                    !.loads = (@ \ {load}) \cup {[load EXCEPT !.stage = "includes",
                                                               !.sees = server.last]}] IN
       page' = IF load.n = 0 THEN BeginPermissionSet(p, MaxPolls) ELSE p
    /\ UNCHANGED server

(* What setupWorkspaceIncludes makes of the included rows: global and       *)
(* collection variables that failed are missing without a word.             *)
Tables == {"complete", "variables missing"}

(* The end of setupWorkspaceIncludes.  The state is fetched only when  *)
(* its version is a new one, which counts as known from then on.            *)
IncludesArrive(load) ==
    /\ load.stage = "includes"
    /\ \E tables \in Tables :
         LET isNew == load.knows # load.sees IN
         page' = [page EXCEPT
            !.loads = @ \ {load}, !.loadError = FALSE, !.tables = tables,
            !.currentStateId = load.sees,
            !.stateLoads = IF isNew THEN @ \cup {[n |-> load.n, state |-> load.sees,
                                                  stage |-> "permission"]} ELSE @,
            !.stateMissed = @ \/ Cardinality(page.loads) > 1 \/ (isNew /\ page.stateLoads # {})]
    /\ UNCHANGED server

(* The error takes the place of the page until a poll succeeds.             *)
LoadFails(load) ==
    /\ load.stage \in {"templates", "workspace"}
    /\ page' = [page EXCEPT !.loads = @ \ {load}, !.loadError = TRUE]
    /\ UNCHANGED server
--------------------------------------------------------------------------------
(* Bug to catch: those of the organization are not replaced.                *)
PermissionsKept(set) ==
    /\ page' = IF set.stage = "organization"
               THEN [page EXCEPT !.permissions = "organization",
                        !.permissionSets = (@ \ {set}) \cup {[set EXCEPT !.stage = "workspace"]}]
               ELSE [page EXCEPT !.permissionSets = @ \ {set}]
    /\ UNCHANGED server

(* loadPermissionSet: those of the organization, then those of the          *)
(* workspace in their place.                                                *)
PermissionsArrive(set) ==
    /\ page' = IF set.stage = "organization"
               THEN [page EXCEPT !.permissions = "organization",
                        !.permissionSets = (@ \ {set}) \cup {[set EXCEPT !.stage = "workspace"]}]
               ELSE [page EXCEPT !.permissions = "workspace", !.permissionSets = @ \ {set}]
    /\ UNCHANGED server

PermissionsFail(set) ==
    /\ page' = [page EXCEPT !.permissionSets = @ \ {set}, !.permissionsMissed = TRUE]
    /\ UNCHANGED server
--------------------------------------------------------------------------------
(* Bug to catch: sensitive outputs are shown as they are.                   *)
Unmasked(outputs) == outputs

(* parseChildModules calls itself without the children: parseState descends *)
(* two modules deep.  parseOldState reads a flat list.  Both mask what is   *)
(* sensitive.                                                               *)
Descended(resources) == {depth \in resources : depth <= 2}
Masked(outputs) == {IF output = "secret" THEN "*****" ELSE output : output \in outputs}
ParseState(id) == [of |-> id, resources |-> Descended(State(id).resources),
                   outputs |-> Masked(State(id).outputs)]
ParseOldState(id) == [of |-> id, resources |-> State(id).resources,
                      outputs |-> Masked(State(id).outputs)]
IsEmpty(content) == content.resources = {} /\ content.outputs = {}

EndStateLoad(p, load) == [p EXCEPT !.stateLoads = @ \ {load}]

(* loadState, for a user who may read states: the JSON of the version, or   *)
(* the raw state of the workspace when there is nothing in it.              *)
StatePermissionArrives(load) ==
    /\ load.stage = "permission"
    /\ page' = IF load.state = 0 THEN EndStateLoad(page, load)
               ELSE [page EXCEPT !.stateLoads = (@ \ {load}) \cup {[load EXCEPT !.stage = "output"]}]
    /\ UNCHANGED server

StateArrives(load) ==
    /\ load.stage = "output"
    /\ page' = IF IsEmpty(ParseState(load.state))
               THEN [page EXCEPT !.stateLoads = (@ \ {load}) \cup {[load EXCEPT !.stage = "raw"]}]
               ELSE [EndStateLoad(page, load) EXCEPT !.content = ParseState(load.state)]
    /\ UNCHANGED server

RawStateArrives(load) ==
    /\ load.stage = "raw"
    /\ page' = [EndStateLoad(page, load) EXCEPT !.content = ParseOldState(server.last)]
    /\ UNCHANGED server

StateFails(load) ==
    /\ page' = [EndStateLoad(page, load) EXCEPT !.stateMissed = TRUE]
    /\ UNCHANGED server
--------------------------------------------------------------------------------
(* The header and the tabs: an error or the spinner takes their place, and  *)
(* the lock button is for those who may manage the workspace.               *)
PageShown == ~ page.loadError /\ NotLoaded \notin {page.workspace, page.tables, page.permissions}

(* handleLockButton: what the label says, whatever the lock is by now; the  *)
(* page loads again.                                                        *)
HandleLockButton ==
    /\ PageShown
    /\ page.polls < MaxPolls
    /\ server' = [server EXCEPT !.locked = page.workspace # "locked"]
    /\ page' = BeginLoad(page)

WorkspaceNext ==
    /\ On("workspace")
    /\ \/ WorkspaceChanges \/ LoadOrPoll \/ HandleLockButton
       \/ \E load \in page.loads :
            \/ TemplatesArrive(load) \/ WorkspaceArrives(load)
            \/ IncludesArrive(load) \/ LoadFails(load)
       \/ \E set \in page.permissionSets : PermissionsArrive(set) \/ PermissionsFail(set)
       \/ \E load \in page.stateLoads :
            \/ StatePermissionArrives(load) \/ StateArrives(load)
            \/ RawStateArrives(load) \/ StateFails(load)
--------------------------------------------------------------------------------
(* However the answers of several polls mix, the permissions the page ends  *)
(* up with are those for the workspace and not those of the organization,   *)
(* unless the request for them failed.                                      *)
PermissionsOfTheWorkspace ==
    On("workspace") /\ page.permissionSets = {} /\ page.polls > 0 /\ ~ page.permissionsMissed =>
        page.permissions = "workspace"

(* Once the page is at rest its resources and outputs are those of the      *)
(* newest version in its list, complete but for modules nested deeper than  *)
(* two and with no sensitive output in clear.  A fetch that failed or       *)
(* polls that overlapped may have missed it, and nothing fetches it again.  *)
ContentOfTheNewestState ==
    On("workspace") /\ page.loads = {} /\ page.stateLoads = {} /\ ~ page.stateMissed =>
        /\ page.currentStateId # 0 /\ page.currentStateId = server.last =>
             /\ page.content.of = page.currentStateId
             /\ Descended(State(page.currentStateId).resources) \subseteq page.content.resources
             /\ Cardinality(page.content.outputs) = Cardinality(State(page.currentStateId).outputs)
        /\ "secret" \notin page.content.outputs
================================================================================
