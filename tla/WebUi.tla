---------------------------------- MODULE WebUi ----------------------------------
(****************************************************************************)
(* The pages of the web UI that no run depends on for its own safety, and   *)
(* the loops of the API that work on the rows those pages edit.  The router *)
(* (App.tsx) mounts one page at a time, so a behaviour stays with the page  *)
(* it begins with; the pages share nothing but the two variables.           *)
(****************************************************************************)
EXTENDS VcsTokens, UiSchedules, ModuleRefresh,  \* those with theorems keep their names
        UiCollection, UiWorkspace, UiStates, UiRegistrySearch, UiModule, VcsConnection,
        UiSettings, UiWizards, UiWebhook, UiApplyProgress

CONSTANTS
    PlanOutputs, AttributePairs                                        \* UiPlanOutput

ASSUME BoundsAssumption ==
    /\ {MaxAdditional, MaxChoices, MaxLists, MaxSaves, MaxDeletes, MaxPolls, MaxConnections,
        MaxTokens, MaxClicks, MaxImports, MaxEdits, MaxPresses, MaxOpenings,
        MaxSwitches, MaxTyped, MaxSubmits} \subseteq Nat
    /\ MaxRows \in Nat \ {0}
    /\ Dispatches \cap Refreshers = {}
    /\ NewTeams \subseteq Teams /\ NewTemplates \subseteq Templates

PlanOutput  == INSTANCE UiPlanOutput

Init ==
    \/ ApplyInit          \/ PlanOutput!PlanInit
    \/ CollectionInit \/ WorkspaceInit \/ StatesInit \/ SearchInit \/ ModuleInit \/ VcsInit
    \/ SettingsInit \/ WizardsInit \/ WebhookInit \/ TokensInit \/ SchedulesInit \/ RefreshInit

Next ==
    \/ ApplyNext          \/ PlanOutput!PlanNext
    \/ CollectionNext \/ WorkspaceNext \/ StatesNext \/ SearchNext \/ ModuleNext \/ VcsNext
    \/ SettingsNext \/ WizardsNext \/ WebhookNext \/ TokensNext \/ SchedulesNext \/ RefreshNext

Spec == Init /\ [][Next]_pageVars
--------------------------------------------------------------------------------
(* The properties of the pages, under their own names.                      *)

(* No text of the plan view spells out a sensitive value.                   *)
SecretsStayMasked == PlanOutput!SecretsStayMasked

(* The plan view shows a change exactly of what changes, and leaves out     *)
(* unasked no change but reads.                                             *)
ChangesAreShown == PlanOutput!ChangesAreShown /\ PlanOutput!NothingHiddenUnasked
================================================================================
