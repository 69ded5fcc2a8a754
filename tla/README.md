# A formal model of terrakubed

terrakubed is a Go implementation of Terrakube: an API server, an executor and a
registry that run Terraform for the workspaces of organizations, with a React UI.
This directory holds TLA+ modules that model how a run travels through the system,
the pages of the UI and the loops of the API that work on the same rows as those
pages, the TLC configurations that check them on small instances, and theorems about
them that TLAPS proves for instances of every size.

    tlc -workers 2 -config single_replica.cfg MCTerrakubeRuns
    tlc -workers 2 -config job_page.cfg MCUiJobPage
    tlc -workers 2 -config web_ui.cfg MCWebUi
    tlapm TerrakubeRunsProofs.tla
    tlapm RunQueueProofs.tla
    tlapm RunOrderProofs.tla
    tlapm ApiLoopsProofs.tla
    tlapm UiApplyProofs.tla
    tlapm UiFormsProofs.tla
    tlapm UiJobPageProofs.tla
    tlapm UiPagesProofs.tla

`PROJECT.json` maps every definition to the lines it stands for and lists the runs,
the mutants, the findings, the hazards and the theorems.

## 1. Inventory

Paths are under `src/internal/` unless they say otherwise.

| Component | State | Operations | What must hold |
|---|---|---|---|
| Job scheduler, `api/scheduler/scheduler.go` | none of its own: rows of `job`, `step`, `workspace` | `pollJobs` and `pollCancels` every 5 s in each API process, one goroutine per dispatch | per-workspace FIFO, steps in order, each dispatched once, gates respected, every job ends |
| TCL processor, `api/tcl/processor.go` | `job.tcl`, `step` rows | `InitJobSteps` | steps exist before a poll needs them |
| JSON:API handler, `api/handler/jsonapi_handler.go` | all tables | generic CRUD, atomic operations, post-create and post-update hooks for jobs | terminal states are final and release the workspace |
| Approval handler, `api/handler/approval_handler.go` | `step`, `job`, `workspace` | approve, reject | one decision per gate |
| TFE API, `api/handler/state_handler.go` | the same | create, apply, cancel, discard a run; lock and unlock a workspace | a CLI lock keeps runs out |
| Executor, `executor/`, `status/`, `client/` | one process per step | `ProcessJob`: set-up, Terraform or script, status PATCHes, cancel poll | its reports reach the tables in order |
| State versions, `api/handler/tfe_state.go`, `storage/` | `history`, `temp_archive`, object storage | upload, create version, archive | the live state is the newest version |
| VCS tokens, `api/vcs/token_refresh.go` | `vcs` | refresher loop, `GetFreshToken` | a rotating refresh token is never lost |
| Schedule poller, `api/scheduler/schedule_poller.go` | cron entries in memory | `syncSchedules`, `triggerScheduledJob` | one job per firing |
| Webhooks, `api/handler/webhook_handler.go` | `webhook`, `job` | push and pull-request events | one job per event, right template |
| Module refresh and registry, `api/scheduler/module_refresh.go`, `registry/` | `module`, `module_version`, a cache | tag refresh, downloads | the latest version is the highest |
| Authentication, `api/middleware/`, `auth/` | JWKS cache | token checks, team permissions | - |
| Tokens, VCS, GraphQL, custom handlers | single rows | CRUD, reads | - |
| Log streaming, `api/streaming/`, `executor/logs/` | Redis streams | live output | - |
| UI: job page, `domain/Jobs/` | job, step, log, plan context, requests under way, a poll timer | load with abort, poll, hide and show, approve, discard, cancel, start another run | shows its own run, polls until it has the whole ending |
| UI: apply progress and plan, `domain/Jobs/` | parser state, diff tree | parse a log, mask, match, filter | a resource's state is what Terraform did; no secret is spelled out, no change hidden |
| UI: workspace page, `domain/Workspaces/` | workspace, permissions, states, what is shown of one | load, poll, lock, open a state, roll back | what is shown together belongs together |
| UI: wizards, `Workspaces/Create`, `Workspaces/Import`, `Modules/Create` | one form, clicked back and forth; imports under way | choose, review, submit | created and imported as last chosen and reviewed |
| UI: webhook and schedules of a workspace | a table of triggers with a counter; one modal | edit, save as one list of operations | what was saved is stored |
| UI: settings of an organization, `domain/Settings/` | a form and, beside it, the id it is for | edit, save, delete | a save reaches its own item, stores and grants what was shown |
| UI: module registry, `domain/Modules/`, `domain/Providers/` | version and submodule shown; an import | click, search, import | header and content agree; nothing imported twice |

UI paths are under `src/ui/src/`.

The components of a run share three tables and nothing else. No transaction spans two
statements on them, several API processes may poll them at once, handlers leave
goroutines behind, and executors report over HTTP. Everything hard about the system is
in the interleavings of single statements: a claim that is three UPDATEs, a row's
status used several statements after it was read, an unlock that comes late, a report
or an answer that is lost, a process that restarts between two statements, users who
decide opposite things at once. `PROJECT.json` lists these hazards at their lines.

The UI is the other place where order is nobody's: a page asks for several things at
once, aborts few of its requests, and keeps one form or one modal for many items. What
is hard is the late answer, the second press after a half-done save, the state that an
earlier choice left behind, and a list of requests of which one fails. The router
mounts one page at a time with fresh state, so pages meet only in what is stored.

## 2. Modules

| Module | Models | Code |
|---|---|---|
| `RunTables` | the rows, the executor processes, SQL predicates and single-table UPDATEs | `job`, `step`, `workspace` |
| `JobScheduler` | `pollJobs`, `maybeCompleteJob`, `pollCancels`, the dispatch goroutine | `scheduler.go` |
| `RunApi` | job creation, `InitJobSteps`, PATCH hooks, approvals, TFE run actions and lock, UI buttons | `api/handler`, `api/tcl`, UI job page |
| `RunExecutor` | `ProcessJob` and the status service | `executor/core`, `status`, `client` |
| `TerrakubeRuns` | their composition, timing, crashes, fairness and the properties | - |
| `RunQueue` | the abstract specification: what a workspace's queue of runs promises | comments of `scheduler.go` |
| `TerrakubeRunsProofs`, `RunQueueProofs`, `RunOrderProofs` | theorems: of every configuration and of gates, of the queue, of the order of steps | - |
| `MCTerrakubeRuns` | templates and workspaces for TLC | - |
| `UiJobPage`, `UiJobPageProofs`, `MCUiJobPage` | the page of a run, by itself, and theorems | `Jobs/Details.tsx`, `usePolling`, `useAbortableFetch` |
| `UiPage` | what the pages share: `page`, `server`, leaving | `Home/App.tsx` |
| `UiApplyProgress`, `UiApplyProofs` | the log parser, beside a Terraform that writes the log, and theorems | `applyProgressParser.ts` |
| `UiPlanOutput` | the diff tree of a plan and its filters | `StructuredPlanOutput.tsx`, `structuredPlan.ts` |
| `UiWorkspace`, `UiStates` | the workspace page, its states tab | `Workspaces/Details.tsx`, `workspaceDataUtils.ts`, `States.tsx` |
| `UiCreate`, `UiImport`, `UiModuleCreate` | the wizards | `Workspaces/Create.tsx`, `Import.tsx`, `Modules/Create.tsx` |
| `UiWizards` | their composition | `Home/App.tsx` |
| `UiWebhook` | the triggers of a workspace and their endpoint | `Settings/Webhook.tsx`, `HandleOperations` |
| `UiSchedules` | the schedule of a workspace and the pollers that fire it | `Schedules.tsx`, `schedule_poller.go` |
| `UiCollection`, `UiCredential`, `UiTeams`, `UiTemplates` | forms that save in several requests or convert what they save | `Settings/` |
| `UiEditors` | the seven lists with one form for all items | `Settings/`, `Workspaces/Variables` |
| `UiSettings` | the composition of these pages of the settings: editors, templates, credentials, teams | `Settings/Settings.tsx` |
| `UiFormsProofs` | theorems about schedules, webhooks and the wizards | - |
| `UiPagesProofs` | theorems about collections, workspaces, states, the registry, modules, connections and settings | - |
| `VcsConnection` | creating a connection, the provider, the callback | `AddVCS.tsx`, `VCS.tsx`, `vcs_handler.go` |
| `VcsTokens` | renewal of its tokens | `token_refresh.go` |
| `UiModule`, `UiRegistrySearch` | the module page, the import from the public registry | `Modules/`, `Providers/` |
| `ModuleRefresh` | the versions of a module | `module_refresh.go` |
| `ApiLoopsProofs` | theorems about the renewal of tokens and the refresh of modules | - |
| `WebUi`, `MCWebUi` | all of these but the job page, with their properties by name | - |

### The run protocol

**State.** `job`, `step`, `locked` are the status columns and the workspace lock;
`"none"` stands for a row that is not there yet. `tcl` says whether `job.tcl` is
filled. `recent` says of a cancelled job whether `updated_date` is within the five
minutes `pollCancels` looks at. `sched[r]` is where replica `r`'s loop stands: its
next statement, the rows of its poll that are left, the row in hand, the step.
`calls` are the goroutines inside `Execute`, `requests` the HTTP handlers and their
goroutines at their next statement, `pod` the executor processes. `launches` and
`approvals` are history variables: how often `Execute` was called for a step, and
who was approved. `cli` records that a CLI user holds the TFE lock.

**Actions.** One SQL statement, one executor call, one PATCH is one step. The status
of a polled row is kept in `sched`, so the model uses it as late as the code does. An
action's name is that of the statement's purpose: `CheckOlder`, `ClaimJob`,
`PassGate`, `UnlockWorkspace` are the four statements of `approved -> queue`;
`ParkStep`, `ParkJob` those of an approval gate; `ClaimStep`, `LockWorkspace`,
`HandBack`, `RunJob`, `Spawn` those of a dispatch. A PATCH by an executor or a user
is the UPDATE; the hook that follows is a request thread of its own, because the
handler's further statements interleave with everything else.

**Environment.** `Events` switches on what users, networks and processes may do:
seven decisions (`uiApprove`, `uiReject`, `uiCancel`, `restApprove`, `restReject`,
`cliCancel`, `cliDiscard`), `cliLock`, `stalePage` (a user acts on a status the page
no longer has), `executeFails` (nothing was started), `answerLost` (it was),
`patchLost`, `silentExit`, `podLost`, `apiCrash`, `slowHandlers` (see below). The
theorems hold for every choice of `Events`.

**Abstractions.** A template is a function from step numbers to types (`Flow`), with
`InlineTcl` and `TemplateTcl` for where the text comes from; parsing base64 and YAML
is not modelled, and a job in neither set gets the plan-only flow of
`defaultPlanTCL`. `auto_apply` never changes after the insert and is a constant. The
`SELECT` of it is merged into `LookupStep`, reading the TCL and counting steps into
`ReadTcl`; each merges a read with the write next to it that no other actor can tell
apart. `InsertStep` goes in ascending order, as templates are written. Database
errors are not modelled: a statement the code sends takes effect. The token refresh,
variables and `context.json` between `LockWorkspace` and `RunJob` write no run table.
`last_job_status` and `last_job_date` are display columns and left out. REST and CLI
decisions are taken on the status that their user sees, like those in the UI;
`SetApprovalCompleted` is unreachable, because this scheduler dispatches no step of
type approval. `recent` does not age by itself. Two identical goroutines are one
member of `requests`; their second, identical UPDATE is then left out.

**Time.** A handler's statements, and those of a failed dispatch, are milliseconds
apart while the loop ticks every five seconds: `Tick` waits for them unless
`slowHandlers` allows otherwise. Within a tick nothing is assumed: a handler may
begin, pause and end between any two statements of the loop. Everything else, above
all how long an executor works, is unbounded.

### The pages

**State.** `page` is the React state of the mounted component together with its
requests under way, a record whose `kind` names the component; `server` is what the API
(or the provider, or Terraform writing a log) holds for it, with a few history fields
the properties need and no action reads (`deselected` in `UiCollection`, `lost` in
`VcsTokens`, `overlapped` and `missed` in `ModuleRefresh`, ...). Names are those of the
code's states and handlers. For the loops of the API `page` holds what each replica or
caller has read: the renewals of `VcsTokens`, the refreshes of `ModuleRefresh`; the
pollers of `UiSchedules` stand beside the page that edits their schedule.

**Actions.** A handler runs to its next `await`; what it sends is one field of `page`,
and the answer, or its failure, is an action of its own. Requests awaited one after the
other are answered in that order, all others in any. A list of requests in one
`Promise.all` is a set from which any member may be answered next. Only `UiJobPage`
aborts requests, as only its code does: `load` is the latest one, an older one ends
when the next begins. SQL is as in the run protocol, one statement per step.

**Composition.** `WebUi` is the disjunction of the pages. A behaviour stays with the
page it begins with, since leaving a page drops its state: coming back is another
initial state of the same module. Where what an earlier visit stored matters, `Init`
ranges over it. `WebUi` extends the modules that theorems are about, `VcsTokens`,
`UiSchedules`, `ModuleRefresh`, `UiApplyProgress`, `UiCollection`, `UiWorkspace`,
`UiStates`, `UiRegistrySearch`, `UiModule`, `VcsConnection`, `UiWebhook`, `UiSettings` and
`UiWizards`, and instantiates `UiPlanOutput`; the last two in turn instantiate their four
and three pages, whose handlers have the same names. The run checks the very definitions
that the proofs use, and TLC evaluates their assumptions.

**Abstractions.** Text that is only shown is left out. A form's fields are known by the
item they came from (`UiEditors`, `UiTemplates`), a diagram or a readme by the version
it is of (`UiStates`, `UiModule`), a diff by the marks in it. Conversions are what they
do: base64 decoded as ASCII in `UiTemplates`, seven Quartz fields against the six the
poller parses in `UiSchedules`, a state JSON that is masked, cut off below two modules
or not understood at all in `UiWorkspace`, `parseSemver` in `ModuleRefresh` (a
pre-release has the number of its release). Requests that only read what cannot change
during the visit are merged with the action that uses them.

## 3. Runs

The runs of the run protocol use `MCTerrakubeRuns`; step numbers are 100, 150 and 200 as
in the code's templates. A *gated* run is plan, approval, apply.

| Run | Instance | Checks | Result |
|---|---|---|---|
| `single_replica` | 1 process; a gated run and a script on `w1`, a gated auto-apply run on `w2`; UI decisions, refused dispatches, silent exits, lost pods, lost PATCHes | `TypeOK`, `RunHoldsLock`, `CompletedIsComplete`, `TerminalIsFinal`, `ImplementsRunQueue` | holds, 64 555 states |
| `liveness` | 1 process, agents only, `w2` without executor; 3 jobs; decisions and refused dispatches | `JobsSettle` | holds, 12 808 states |
| `decisions` | 1 process, 1 gated run, all seven decisions and CLI locks | `StepsInOrder`, `GateRespected` | holds, 135 992 states |
| `replicas` | 2 processes (symmetric), 1 gated run, approvals, cancels, restarts | `LaunchedAtMostOnce`, `SoleHolder`, `ClaimInv` | holds, 1 828 867 states |
| `gate_replicas` | 2 processes, 1 gated run, no events | `GateRespected` | violated |
| `cancel_overlap` | 1 process, 2 jobs of one workspace, UI cancel | `OneRunPerWorkspace` | violated |
| `cli_lock` | 1 process, 2 jobs, UI approve, CLI lock | `CliLockExcludesRuns` | violated |
| `cancel_stuck` | 1 process, 2 jobs, UI cancel, fair | `JobsSettle` | violated |
| `answer_lost` | 1 process, 2 jobs, remote agent, lost answer, fair | `JobsSettle` | violated |
| `job_page` | `MCUiJobPage`: a gated run and an ended one, failing polls and logs, hidden tabs, all buttons, switching runs; fair | `ShowsItsOwnRun`, `NoAbortedLog`, `PollsUntilComplete`, `VisiblePageIsArmed`, `EndIsShown` | holds, 142 754 states |
| `web_ui` | `MCWebUi`: every other page and API loop on its own instance | the 24 properties of `WebUi` below | holds, 4 180 561 states |
| `oauth_callback` | `MCWebUi`, connections only | `CodesAreExchanged` | violated |

`cancel_stuck` and `liveness` check the same `JobsSettle` under different events: the
one finds what a cancel breaks, the other says that without cancels and lost answers
every job settles.

What `web_ui` checks, page by page:

| Property | Says |
|---|---|
| `CompleteIsComplete`, `ErrorsNameTheirResource`, `ProgressNeverFallsBack`, `PlanMakesNoDifference` | from any prefix of the log, in any interleaving of the resources: a resource is complete when all its operations are, failed when an error names it or a stop cut it short, never goes back, and the plan changes nothing about it |
| `SecretsStayMasked`, `ChangesAreShown` | of every pair of values in `SmallPairs`: nothing sensitive is spelled out and a change is shown where there is one; unasked, only reads are left out |
| `ImportedAsReviewed`, `ProgressTellsTheTruth` | a workspace is imported as its own review says, once, and its row of the progress list is about it |
| `ReferencesAsSelected`, `OnlyDeselectedLoseAccess`, `TableAsStored` | a saved collection has the selected references; nobody else loses it, not even for a while; its table is what is stored |
| `SavedTriggersAreStored` | after a save every trigger that was completed is stored |
| `PermissionsOfTheWorkspace`, `ContentOfTheNewestState` | a workspace page at rest shows its own permissions and the newest state, masked |
| `ShowsOneState`, `ContentOfTheHeader` | details of a state, content of a module page: all of the version they name |
| `CreatedAsChosen` | what the wizards create is what was last chosen |
| `EditsReachTheirItem`, `GrantsAsShown` | a save reaches the item it was filled in from; a template keeps its text; conditions and flags are those on screen |
| `OneProvider` | type, endpoint and token of a connection are one provider's |
| `StoredTokenIsTaken` | the stored refresh token is one the provider takes, or is about to be overwritten by it |
| `EntriesFollowSchedules` | a poller that has looked has registered what is enabled and parses, and nothing else |
| `VersionsSettled` | each version once, the highest is the latest |
| `ImportedOnce` | nothing of the public registry is put in the registry twice |

Several have premises that name the situations in which the code has no defence; these
are listed below, so that each premise is one.

**Bounds.** Jobs, workspaces and replicas are the sizes at which the interesting
cases happen: FIFO needs two jobs of one workspace, its independence of other
workspaces a third job on a second one; every race of the loop is between two
replicas; a gated run has a step of each kind the loop tells apart, the script flow a
`notExecuted` one. Nothing is cut off: jobs are created once each, so the state space
is finite without a constraint. `PollLimit` is the code's 10, more than the jobs of
any run, so starvation by `LIMIT 10` is not exercised.

For the pages: two items of everything that can be mixed up (workspaces, states,
modules, versions, editors' items, teams, templates), because a late answer is for one
and lands on the other; two replicas or callers of everything that races. A log has
three resources, one of them a replacement in either order. Values are nested lists and
objects of up to two members with named and unnamed entries, sensitive and unknown in
each place. The presses of a button (`MaxSaves`, `MaxSubmits`, `MaxPresses`, `MaxClicks`, `MaxEdits`,
`MaxImports`, `MaxOpenings`, `MaxDeletes`, `MaxSwitches`) are two or three: a failed
attempt and its repetition, and one more where a third item or an opening in between
matters. `MaxTokens` 5 lets every renewer of two replicas and two dispatches exchange
once after the first token; `MaxPolls` 2 lets one poll overtake another;
`MaxFinalLogRefreshes` is 2 instead of 12, which keeps its role, a number of refreshes
that can be used up.

**Deadlock.** It is checked in every run. The ticker keeps polling when all jobs are
over, so a state without any successor would be a model in which a handler, a
goroutine or an executor stands where the code has no next statement. A run that
hangs while the ticker goes on is not a deadlock in that sense; `JobsSettle` is the
property that finds it. `job_page` checks it too; `web_ui` and `oauth_callback` do
not, because a user may leave a page and a finished wizard or parsed log has nothing
left to do.

**Fairness.** `FairSpec` of `UiJobPage` makes answers weakly fair (every request is
answered or fails: the browser times it out), the interval, and the flush of logs; the
answer that brings the job is strongly fair, for a poll that is repeated for ever does
not fail for ever. Nothing is assumed of the user or of the run, so `EndIsShown` is
conditional on both: if a run ends and its page stays visible.

`FairSpec` of `TerrakubeRuns` makes the ticks and the loop of each replica, the dispatch
goroutines, the handlers and every executor weakly fair: the Go runtime, the ticker
and the operating system see to each of these, and each is a program of its own.
The release of a CLI lock is fair; creating, approving and cancelling are not.
`Tick` is enabled again and again without being continuously enabled only if handlers
never end, which their own fairness rules out.

**What the passing runs leave out, on purpose.** Each of these is known from TLC to
break a property and is documented here instead of being hidden by a bound:

- with `apiCrash` and one process, a restart between `ParkStep` and `ParkJob` lets the
  apply run without approval, the same window as `gate_replicas`;
- `slowHandlers` (`InitJobSteps` of `createRun` slower than a tick) completes a job
  that has no steps yet, or only the first ones;
- `restReject` together with another decision breaks `TerminalIsFinal`: the handler
  writes `rejected` after the other one ended or requeued the job;
- `uiCancel` breaks `OneRunPerWorkspace`, `RunHoldsLock`, `CompletedIsComplete` and
  `TerminalIsFinal`, all for the reason `cancel_overlap` shows;
- after `silentExit`, `podLost`, `patchLost` or `apiCrash` a job may stay `running`
  for good; the code has no recovery, so `liveness` excludes them;
- a script or apply step that is not the last of its flow completes its job and
  leaves the rest pending. The flows checked end in their only such step.

For the pages, grouped by module. Where a property has a premise, it is one of these.

- *Job page.* A failed first load, a failed reload after a cancel, or a failed last
  refresh ends the polling for good, though the comment at `Jobs/Details.tsx:49-51`
  has refreshes go on until the log is whole; a failed plan context, or another run
  started while a cancel is answered, leaves the wrong context or run; loads slower
  than the 5 s of the poll are aborted by the next one for ever. Each is a member of
  `Faults`. A page mounted hidden leaks one interval, harmlessly.
- *Plan.* A list with a sensitive member that becomes unknown shows its old members;
  null against absent or an empty list, and an object that becomes a list, are not
  shown as changes; a mere reordering of named members is not shown.
- *Import.* A workspace selected while its details load is imported unreviewed; the
  CLI flow keeps the VCS connection chosen before; loading the list again during an
  import empties the progress list; the organization may be edited after the list.
- *Collection.* Pressing Save again after a failed creation makes a second collection;
  adding and removing variables at once leaves a stale table; a failed addition leaves
  its temporary row.
- *Webhook.* A row begun while a deletion is answered, or while the rows still load,
  makes the counter wrong and the last rows are not saved; a second save before the
  page is reloaded adds a second webhook; the operations are not one transaction, and
  disabling reports success early.
- *Workspace, states.* A failed or overlapped fetch of a state is not repeated; modules
  deeper than two are dropped; the copy button copies unmasked outputs. The state tab
  aborts nothing: answers of several openings mix; the editor keeps the text it was
  mounted with; `PUT /rollback` has no handler in the Go API.
- *Wizards.* "git" keeps the connection chosen before; the CLI card keeps the execution
  mode; an SSH key stays, and wins over a connection chosen later for a module; a failed
  list leaves nothing to choose; double submission.
- *Editors.* The GET of an edit that was cancelled fills the form of the next item;
  global variables and tags keep a cancelled form's fields, so a save before or after a
  failed load writes them on another item; the code editor of an action mounted after
  its item arrived is empty, and saving erases the code; a save's answer closes whatever
  form is open.
- *Credential.* A failed load shows an empty table, and saving it deletes all claims;
  claims that cannot be read on save are not deleted, yet success is reported; pressing
  twice duplicates claims; a failure between deletion and creation leaves fewer
  conditions than either version had.
- *Teams.* Saving a preset role sends the role and `manageJob = false` only, because the
  switches are no form fields then, while the API (`token_handler.go`) reads the flags:
  what the form shows as granted is not, and the flags from before stay. The property is
  therefore about custom roles. The API mirrors `manageJob` into plan and approve.
- *Templates.* The text is decoded as ASCII, so opening and saving garbles other
  characters; the wizard's steps, clicked, drop what was typed; step 2 visited again
  and left before its editor mounts stores an empty text.
- *Connections.* GITLAB_COMMUNITY gets GitHub's authorize URL, the list sends Azure
  DevOps there; Azure DevOps and GitHub App connections stay pending; a failed include
  counts as "nobody uses it".
- *Tokens.* A lost UPDATE after an exchange loses a rotating connection; nothing
  recovers it.
- *Schedules.* What the page writes has seven fields and is never registered, so
  schedules made in the UI never fire; a changed expression keeps firing as the old
  one; every replica fires; the template chosen in the modal is ignored.
- *Module refresh.* Overlapping refreshes insert a version twice; a stop between the
  INSERT and the UPDATE leaves `latest_version` behind until the next tag; a
  pre-release may win over its release.
- *Registry.* Overtaken answers of earlier clicks may stay on the module page; an
  archive that cannot be unpacked leaves "loading..."; platforms that fail are reported
  as added; the versions of a provider opened before may be imported for the next; a
  failed import leaves a provider without version that counts as imported; providers of
  one short name collide.

## 4. The abstract queue

`RunQueue` says what the comments of the scheduler promise, without tables or
processes: per workspace runs are handed over in the order of creation, one step at a
time and each once, a step behind a gate waits for a decision, and what is over stays
over. `ImplementsRunQueue` in `TerrakubeRuns` is the refinement: `phase` is read off
`job.status`, `started` off `launches`, `busy` off the executor processes. TLC checks
it for one replica with failing dispatches, executors and reports, and
`RunQueueProofs` proves it for any jobs, workspaces and flows (section 5). With two
replicas it does not hold (`gate_replicas`), nor with cancels (`cancel_overlap`).

## 5. Proofs

`TerrakubeRunsProofs` proves, for any `Replicas`, `Workspaces`, jobs, flows, sets of
`Events` and `PollLimit`, from the assumptions on the constants named in `RunTables`:

| Theorem | Statement |
|---|---|
| `TypeInvariance` | `Spec => []TypeInv` |
| `TypeCorrect` | `Spec => []TypeOK` |
| `ClaimsInvariant` | `Spec => []ClaimInv` |
| `AtMostOneLaunch` | `Spec => []LaunchedAtMostOnce` |
| `HoldersAreAlone` | `Spec => []SoleHolder` |

`TypeOK` is not inductive: `TypeInv` adds that a loop between the claim of a step and
its dispatch has a real job and step in hand, which the rows of the poll query and
`LookupStep` establish.

`LaunchedAtMostOnce` says that the counter in `launches` never exceeds one. The
induction needs to know why a step about to be launched has not been launched before,
and that is `ClaimInv`: whoever stands between claim and hand-over of a step, a loop
(`Holds`) or a goroutine (`Dispatches`), is the only one, found `launches` at zero and
has left the step claimed, neither `none` nor `pending`; and a launched step is claimed.
Since `ClaimStep` only takes pending steps, nobody else can become a holder. The
obligation behind it is that a claimed step never becomes pending again except by the
hand-back of its own holder. The lemma `ClaimFrame` reduces every action that neither
claims, hands back, spawns nor executes to three facts: steps stay claimed, no new
holder, no new dispatch, `launches` unchanged. The four remaining actions, `ClaimStep`,
`HandBack`, `Spawn` and `Execute`, are proved one by one. It holds under crashes,
cancels and lost answers because none of them writes `pending` to a step; the executor's
late PATCHes write only statuses that count as claimed.

Its second part proves, under a condition on the constants:

| Theorem | Statement |
|---|---|
| `GatesAreRespected` | `LonePoller => (Spec => []GateRespected)` |

`LonePoller` says: one replica, neither restarts (`apiCrash`) nor handlers that outlive
a tick (`slowHandlers`) among the events, and a flow with a gate is kept in `job.tcl`
(the default flow has none). `gate_replicas` shows that two replicas break the property;
the run `decisions` satisfies the condition. Jobs, flows, workspaces, users' decisions
and every other event, lost answers, reports and executors among them, are arbitrary.

The invariant is `GateInv`. Its core is `FreeInv`: whatever step of an unapproved job
has been skipped, is claimed, is called for or has ever been started comes before every
gate of the job. Only `LookupStep` makes new work, and it takes the lowest pending step.
That step may be behind a gate only when the gate is no longer pending, and `PassedInv`
says that this happens only when the job is parked, over, or in the hands of a request
or loop about to end it; none of these is dispatched. Three facts keep it so: a job that
can be polled has no executor, so no late report makes a parked job pollable again
(`OneExecutor`); a job is left alone until its one initializing request has inserted its
steps (`InitInv`); and a request passes a gate or requeues a job only after a user's
approval (`RequestInv`). `RowsInv` bounds what the one loop has in hand.

`RunQueueProofs` proves the rest of what one polling process promises, again for any
workspaces, jobs, flows, auto-apply, agents and poll limit:

| Theorem | Statement |
|---|---|
| `OneOwnerPerJob` | `Orderly => (Spec => []QueueInv)` |
| `EndedStaysEnded` | `Orderly => (Spec => TerminalIsFinal)` |
| `WorkspacesRunAlone` | `Orderly => (Spec => []OneRunPerWorkspace)` |
| `RunQueueImplemented` | `Orderly => (Spec => ImplementsRunQueue)` |
| `RunsHoldTheLock` | `Orderly` and no CLI lock `=> (Spec => []RunHoldsLock)` |
| `CompletedJobsAreDone` | `Orderly` and `LastWord => (Spec => []CompletedIsComplete)` |

`Orderly` is `LonePoller` without the behaviour that is known to break the queue: no
cancel from the UI or a CLI and no TFE discard, which end a job under a loop or an
executor that goes on (`cancel_overlap`, `cancel_stuck`); no decision on a page that is
out of date; no executor that starts although its call failed (`answer_lost`); and
approvals through REST, two statements each, do not compete with rejections. What is
left may happen at any time: decisions at the gates, refused dispatches, lost PATCHes
on the way out and on the way back, silent exits, lost executors, a CLI's lock. The run
`single_replica` satisfies `Orderly` and both further conditions.

No statement of the scheduler but the claims compares anything, so what protects a job
is that it has one owner at a time. `TurnInv` says who: a job's status tells which of
the loop, a goroutine, an executor and a handler may write next, a row that the loop
has polled or has in hand still has the status it was polled with, and then nobody else
is at work on the job (`Untouched`). `StepInv` says how far its steps are: all settled,
except the one that the owner is about to settle (`Excused`), the gate at which it is
parked, or the one an executor works on (`Current`), behind which all is done. That a
waiting gate is the only open step is what makes the blanket `UPDATE` of an approved
job right. `LaunchInv` adds that steps are launched in ascending order. The proof of
`QueueInv` goes statement by statement: one about another job leaves it alone
(`FrameKeeps`); for the loop, a goroutine, an executor and a handler there is a lemma
that reduces the invariant to what the statement does to its own job (`HandKeeps`,
`OthersKeep`, `PodMove`, `ThreadQueue`). From it follows `JobLife`, the life cycle of a
job's status, and of that `EndedStaysEnded` is a reading.

`FrontInv` is the FIFO: the job that left `pending`, or is about to, has no unfinished
older job in its workspace, because `CheckOlder` looked after every older job had a row
and a finished job stays finished. With it each action maps to one step of `RunQueue`,
or to none: a launch to `HandOver`, a report or a loss to `Leave`, a decision to
`Approve` (`MapsTo...`, `NextMaps`). `LockInv` holds what the lock rests on: when a
queued job is polled, the handlers and goroutines of the jobs before it are done
(`LetGo`), by the premise that they end within a tick; from then on nobody is left who
would release its workspace, and the loop hands the run over only past the UPDATE that
takes the lock. A CLI's lock is excluded since its unlock would release a run's lock.
`EndInv` says of which step an executor may report the job as completed. `LastWord`,
no flow goes on after an apply or a script, is needed for that: `executor.go` reports a
script step as the end of the job, whatever comes after it (a hazard of the list). It
holds of the templates of the repository that end in their apply.

`RunOrderProofs` proves the order of the steps under a weaker condition than `Orderly`:

| Theorem | Statement |
|---|---|
| `OneOwnerInOrder` | `Attentive => (Spec => []OrderInv)` |
| `StepsAreInOrder` | `Attentive => (Spec => []StepsInOrder)` |

`Attentive` is `LonePoller` without two events: nobody decides on a page that is out of
date, and no executor starts although its call failed. Cancels from the UI and a CLI,
TFE discards, approvals that compete with rejections, late hooks of an earlier PATCH and
every other loss are in. Both exclusions are needed: `decisions` with `stalePage` or with
`answerLost` added violates `StepsInOrder`. `single_replica` and `decisions`
satisfy `Attentive`.

What `Orderly` rests on, a status that tells whose turn it is, is gone: a job is cancelled
under a loop and under an executor, and `SetRunning` or a hand-back then writes over the
cancel. What is left is `OrderInv`. `StaffInv` says who is at work: at most one loop, one
call or one executor on a job; whoever decides, and every handler that is in the middle
of a decision, finds the job `Loose`, that is with nobody at work on it and with no more
than a row polled as `pending` in the loop. `OrderOwn` says what the one who is about to
write may rely on: nothing unsettled before a pending step when the job is about to be
looked up (`Clear`), at most the gate when it is parked or decided (`AtGate`), the step at
work and nothing else when a loop, call or executor has it (`AtWork`). The exception is a
rejection or discard that has closed the gate and not yet the steps behind it
(`Dropping`): a job may be requeued there, but nothing polls it before the handler is
done, and then no step is pending. `MissingInv` is about the steps that are inserted one
by one while users already cancel or discard the run: nobody decides at a gate before
they are all there. The proof takes the statements of the loop one at a time through
`HandWork`, calls and executors through `StaffedWork`, and handlers and users through
`ThreadWork`, which asks of a handler that it leaves the steps alone, closes every open
one (`Swept`), or finds the job loose.

`ApiLoopsProofs` proves, of tokens, for any `Refreshers`, `Dispatches` and `MaxTokens`,
without assumptions:

| Theorem | Statement |
|---|---|
| `TokensInvariant` | `TokensSpec => []TokensInv` |
| `TokensAreKept` | `TokensSpec => []StoredTokenIsTaken` |

A provider that keeps refresh tokens is easy: everybody holds token 1 (`FixedToken`).
For one that rotates them (`RotatingToken`) the provider takes exactly one token, the
one issued last, so of the renewals that read the same row one succeeds. While that one
has not written yet, the row does not hold the last token, nobody has read it, and
nobody can exchange it: at most one renewal stands between exchange and UPDATE, and
nothing comes between them. That is why the row ends with the right token although no
statement compares anything. `StoredTokenIsTaken` is not inductive by itself: it says
nothing of who has read what.

And of the versions of a module, for any `Replicas` and any set of `Tags`, from the
assumption that a tag's number is a natural number:

| Theorem | Statement |
|---|---|
| `RefreshInvariant` | `RefreshSpec => []RefreshInv` |
| `VersionsSettle` | `RefreshSpec => []VersionsSettled` |

A refresh inserts what it did not find when it looked, so the table alone says nothing.
`OneAtATime` says that without overlap only one refresh is at work on its list, that
what it believes to exist is exactly what is stored, and that nothing on its list is;
`LatestOrAdding` that `latest_version` is behind the table only while that refresh,
having inserted something, has yet to write it.

`UiApplyProofs` proves, of the log of an apply, for any plans and any order in which
Terraform starts, ends and breaks off the operations of any number of resources,
assuming that `None` is no address and that a plan maps addresses to change actions of
Terraform:

| Theorem | Statement |
|---|---|
| `ApplyInvariant` | `ApplySpec => []ApplyInv` |
| `CompleteExactly` | `ApplySpec => []CompleteIsComplete` |
| `ErrorsExactly` | `ApplySpec => []ErrorsNameTheirResource` |
| `SameWithoutPlan` | `ApplySpec => []PlanMakesNoDifference` |
| `ProgressForward` | `ApplySpec => ProgressNeverFallsBack` |

The log is read twice, by a parser that knows the plan and by one that does not; the
properties compare each with what Terraform did, and the two with each other. None of
them is inductive: they say nothing of a half-finished replacement, and nothing of an
error box of which only the first lines are out. `ApplyInv` says for each resource that
what a parser makes of it is a function of its planned action, of the operations it has
left and of whether it is idle, at work or named in an error (`ReadAs`, `KnownAs`). The
parser without a plan shows the first half of a replacement as a finished operation of
its own (`BareAs`), until the second half starts; `Completed` counts such halves where
the counters do. Of the error boxes it says that whoever reads the log up to here has
either read whole boxes or is inside the last one (`Boxes`, `Closing`): the line with the
corner comes before the next box and before Terraform goes on, so each message is
credited to the resource whose "with" line preceded it and to no other. Each line then
has a lemma for both parsers at once (`StartAgrees`, `EndAgrees`, `PrintedLine`), and
`Forward`, which orders the states a resource may be shown in, yields the action property.

`UiFormsProofs` proves, of schedules, for any `Pollers` and any expressions, without
assumptions:

| Theorem | Statement |
|---|---|
| `SchedulesInvariant` | `SchedulesSpec => []SchedulesInv` |
| `EntriesFollow` | `SchedulesSpec => []EntriesFollowSchedules` |

Whoever writes the schedule makes every poller stale, and a sync ends that for one
poller by registering, keeping or dropping its entry. For the lock, the induction needs
what the property does not mention: a look that found the workspace unlocked is marked
the moment the lock comes (`LockIsNoticed`).

Of the triggers of a webhook, for any finite set of ids (a table has finitely many rows)
and any bounds, however rows are added, typed into and deleted, and whatever fails:

| Theorem | Statement |
|---|---|
| `WebhookInvariant` | `WebhookSpec => []WebhookInv` |
| `SavesAreStored` | `WebhookSpec => []SavedTriggersAreStored` |

A save sends the rows above `recordIndex`, and each deletion that is answered sets that
number to one less than it was at the click. So the invariant speaks of every number it
may come to have (`Counts`): each leaves out no row, or the last one, which then is
blank and not created (`UncountedFrom`). Besides, no two rows share an id, no row has the
id of a deletion under way, and what a row takes for created is stored, or, while a save
runs, will be by the operations left (`Countable`, `SaveInv`); a deletion answered in the
middle of it takes away nothing that was sent. What the property excludes is where this
breaks, and only that: `raced` is set when a row is begun while a deletion is under way,
whose answer then counts one row too few, and when the triggers come over what was
typed; until they come, nothing is deleted and one row counts (`UnreadInv`).

And of the wizards, for any connections, workspaces, sensitive variables and
collections, in whatever order their steps are walked and however often, assuming only
that no connection is called `git` or `ssh` and that `None` is no id:

| Theorem | Statement |
|---|---|
| `ChoicesInvariant` | `ChoicesSpec => []ChoicesInv` |
| `ChoicesReachTheApi` | `ChoicesSpec => []CreatedAsChosen` |
| `ImportInvariant` | `ImportSpec => []ImportInv` |
| `ImportsTheReview` | `ImportSpec => []ImportedAsReviewed` |
| `ProgressIsTrue` | `ImportSpec => []ProgressTellsTheTruth` |

`ChoicesSpec` is the wizard for a workspace or the one for a module. Nothing resets their
forms, so `ChoicesInv` relates each field to the last choice that sets it
(`HoldsChoices`, `HoldsConnection`): a connection to the last one that was not git, an
empty source to the CLI card, a version to the tool unless an answer was overtaken.

`ImportInv` has four parts. `PhasesInv`: choosing, loading details, reviewing and
importing exclude each other, although the list may be loaded again under any of them.
`ReviewInv`: while a workspace is to be seen in the modal, its drafts are the variables
not discarded and its rows the collections picked, for every workspace; a list that
comes again takes the selection away, and the modal then only closes. `RequestsInv`
carries that over into the requests, which are made once, of all of them, at the last
"Next". `ProgressInv`: of those requests the ones left and the ones done share no
workspace, because the table selects none twice, and a row of the progress list, as
long as there is one, says on which side its workspace is.

`UiJobPageProofs` proves, for any `Jobs`, `FirstStatus` and `MaxFinalLogRefreshes`:

| Theorem | Statement |
|---|---|
| `RequestsTyped` | `Spec => []RequestsTypeOK` |
| `VisiblePagePolls` | `Spec => []VisiblePageIsArmed` |
| `AbortedLogsAreDropped` | `Spec => []NoAbortedLog` |
| `PageShowsItsOwnRun` | `Calm => (Spec => []ShowsItsOwnRun)` |
| `PollingEndsComplete` | `Reliable => (Spec => []PollsUntilComplete)` |

The first three hold for every choice of `Faults`. `Calm` and `Reliable` are conditions
on that constant: the first excludes failing first loads, failing plan contexts and a
switch while a cancel is answered; the second, besides, failing last refreshes, failing
reloads after a cancel and loads slower than the poll. Section 3 says what each of these
breaks; `job_page` runs with all the other faults.

`OwnInv` is the invariant for the first: every request under way is for `jobId`, and
behind the spinner each part of the page is either awaited, with its request under way,
or already the new run's. It is what makes taking the spinner away after the last part
safe. `EndInv` adds what the end of polling rests on: once the page shows a terminal
job, job and step are the server's, either on the page or in the load that is about to
set them (`EndInSync`). A run that is over no longer moves, and decisions on their way
are for runs that still wait (`RunsInStep`), so the server cannot change under it.

`UiPagesProofs` proves, page by page, for any workspaces, variables, state versions and
registry items, and any number of presses, polls, answers and failures:

| Theorem | Statement |
|---|---|
| `CollectionInvariant` | `CollectionSpec => []CollectionInv` |
| `SavedAsSelected` | `CollectionSpec => []ReferencesAsSelected` |
| `AccessIsKept` | `CollectionSpec => []OnlyDeselectedLoseAccess` |
| `TableIsStored` | `CollectionSpec => []TableAsStored` |
| `SearchInvariant` | `SearchSpec => []SearchInv` |
| `ImportsAreNotRepeated` | `SearchSpec => []ImportedOnce` |
| `WorkspaceInvariant` | `WorkspaceSpec => []WorkspaceInv` |
| `PermissionsSettle` | `WorkspaceSpec => []PermissionsOfTheWorkspace` |
| `ContentSettles` | `WorkspaceSpec => []ContentOfTheNewestState` |
| `StatesInvariant` | `StatesSpec => []StatesInv` |
| `DetailsAgree` | `StatesSpec => []ShowsOneState` |
| `ModuleInvariant` | `ModuleSpec => []ModuleInv` |
| `HeaderAgrees` | `ModuleSpec => []ContentOfTheHeader` |
| `VcsInvariant` | `ConnectionsSpec => []VcsInv` |
| `ConnectionsAgree` | `ConnectionsSpec => []OneProvider` |
| `ItemsInvariant` | `ItemsSpec => []ItemsInv` |
| `EditsStay` | `ItemsSpec => []EditsReachTheirItem` |
| `GrantsInvariant` | `GrantsSpec => []GrantsInv` |
| `GrantsAgree` | `GrantsSpec => []GrantsAsShown` |

Their assumptions keep markers apart from data: no workspace is called `deleted`, no
item or version has the name of a placeholder, no output holds the mask of a secret. Of
a state version, besides, the outputs are finite and there is at least one. No submodule
of a module has the empty name, which stands for the module itself (`Root`). The things
a claim may demand are distinct, and none is what another user's edit makes of one. The
last two specifications are of two pages each, since their property is: a behaviour is
of one of them, as in `WebUi`.

A save of a collection has lists of what to delete and to add, computed once from the
references it read. `ScopeInv` carries them to the end: what is stored, less what is to
be deleted and with what is to be added, is the selection (`Outstanding`), and since
only what was not selected is ever on the first list, a failure anywhere leaves everybody
else's access (`Keeps`). `TableInv` says of the two dialogs that change variables, while
they do not race, that the table is the stored one before a change, and that the reload
of a change sees it.

`SearchInv` says that what is in the registry, and neither escaped the first fetch nor
an import that stopped, is known to the page or is being put there by the import under
way; since the modal opens only for what is not known to exist, and the one import takes
the item of the modal, nothing is created a second time.

`PermissionInv` says that either a request that will end with the permissions of the
workspace is under way, or one has ended. `FreshInv` says what overlapping polls can
spoil and what they cannot: unless something was missed, every load that is going to
compare versions compares with the one the page knows now, at most one state is being
fetched, and it is that version's. Content read as raw state may be newer than the
version it was fetched for, hence `>=`; with the bound by the newest version in
`ContentInv` the property follows where they meet. That masking keeps the number of
outputs needs a bijection (`MaskedSize`).

`StatesInv` holds while openings do not overlap: the one request under way is for the
version in the header, the raw state is asked for only with the JSON already there, and
an editor that did not come early was mounted after the last answer.

`ModuleInv` splits the module page in its two halves. Unless an answer was overtaken or
lost, the declarations are those of the header, or a request for the header is under way
(`HclInv`); so is the readme, or nobody will ask for it and the page says so
(`MarkdownInv`). Each click has to ask for what it blanks: that is the lemma `TurnStep`,
and what `BackKeepsDetails` breaks. The page starts with the module itself, so the first
answer, which knows the version only, asks for the right part.

`VcsInv` says of the connections page that the form belongs to the last choice, however
often its user went back, and that the rows agree with theirs (`Agrees`). A connection
that is complete has a token because Azure's types are offered with OAuth only: nothing
is stored as complete from the start. And its token is of its own provider because the
consent page of another one never calls back, through the form or the button of the list.

`EditorsInv` numbers the openings of the one form. The GET of the last opening is for
the item the form is for, and until it is answered nothing is loaded (`GetsInv`); once
it is, and unless the answer of another opening or one without an editor came between
(`disturbed`, an observation the code does not make), fields and code are that item's
(`LoadedInv`). The pages that reset the form on cancel need the converse as well: a form
off the screen is empty (`ResetInv`). `TemplatesInv` says of the wizard and the editor
of templates that page and save hold the text last chosen (`Carries`), and that an
editor on the screen shows the page's text until something is typed (`EditorInv`).

`TeamsInv` holds of every row and of every save under way: with the role `custom`, flags
and the switch for jobs are those on the screen (`Granted`). That needs `TeamFormInv`:
the effect that copies a role's permissions into the form is never pending for `custom`.

`CredentialInv` follows the saves of a credential, which may be several and may each
stop at any request. Of the table, whatever failed: ids and demands are unique, each row
of a stored claim still has its claim unless another user deleted it (`Present`), and no
request that is out deletes what the table has or had at its press (`OutInv`,
`GoingInv`). The last is why a save that failed half way is harmless: its deletions
that go on were computed from a table that had all the rows of stored claims which the
page has now. A save that nobody came between (`Alone`) is followed stage by stage. While
it deletes, each stored claim is one of its table or is about to be deleted
(`DeletesInv`); while it creates, the others belong one to one to the new rows that were
answered (`CreatesInv`, `AddedOnce`, `AddedAll`); while it updates, each has the demand of
its row, or the update is out (`UpdatesInv`). With nothing out that is a bijection
between claims and rows (`StoredAsShown`).

TLC checks `ClaimInv` in `replicas` as well, and each of the other properties in
`web_ui` or `job_page`. Only model-checked are `JobsSettle` and `EndIsShown` (liveness is out
of the prover's reach), and `SecretsStayMasked` and `ChangesAreShown`, which are about
the diff tree of a plan.
`UiPlanOutput` walks that tree by recursion, as deep as the values go; the prover has
neither recursive operators nor induction over data. Therefore the theorems are in modules
beside `WebUi` and not above it.

## 6. Findings

Each is a run that expects a violation; `PROJECT.json` quotes the comment it
contradicts.

1. `gate_replicas` - parking a gate is two UPDATEs; a second replica in between runs
   the apply nobody approved.
2. `cancel_overlap` - a cancel unlocks the workspace before the executor is gone; two
   Terraform processes work on one state.
3. `cli_lock` - `pending -> queue` releases a lock it does not own.
4. `cancel_stuck` - `SetRunning` overwrites a cancel; the revived job and its
   successor block each other.
5. `answer_lost` - a failed answer is taken for a failed dispatch; the same deadlock.
6. `oauth_callback` - the redirect URL the UI registers with a provider has one path
   segment more than the callback accepts; the code is never exchanged.

## 7. Plan

Done: the run protocol, VCS tokens, schedules, module refresh, and the pages of the UI
that keep state across requests. Next, in this order:

1. `WorkspaceStatus`: the asynchronous writes of `last_job_status`, and the atomic
   operations endpoint without step hooks.
2. `StateVersions`: uploads, the transaction, the canonical state and concurrent CLI
   writers; abstract specification: a register of states with its history.
3. Webhook events: matching branches and paths, one job per event.
4. Pure functions: `jobStatusToTFE`, `branchMatches`, `resolveStepType`.
5. Proofs: `OneRunPerWorkspace` and `RunHoldsLock` with discards of parked runs.
6. Starvation by `LIMIT 10`, with `PollLimit` smaller than the number of jobs.

## 8. Not modelled

Authentication, GraphQL and CRUD of single rows (no protocol), log streaming (display
only), Terraform, git and storage drivers (I/O), the registry service (reads and a
cache), state versions and webhook events (planned). Of the UI: lists, drawers, menus,
login, and forms over one row whose only request is the save; team tokens and the
general tab of an organization are of that kind. `CollectionItems` and
`CollectionReferences` are mounted nowhere.
