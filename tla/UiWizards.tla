-------------------------------- MODULE UiWizards --------------------------------
(****************************************************************************)
(* The wizards that create or import workspaces and publish modules: their  *)
(* steps may be walked in any order, and what one step has set stays behind *)
(* the next.                                                                *)
(****************************************************************************)
EXTENDS UiPage

CONSTANTS
    Connections, MaxChoices,                            \* UiCreate, UiModuleCreate
    ImportWorkspaces, SensitiveVariables, Collections,  \* UiImport
    MaxAdditional, MaxLists

(* Ids: no connection is called "git" or "ssh", and nothing has none.       *)
ASSUME WizardsAssumption ==
    /\ {None, "git", "ssh"} \cap Connections = {}
    /\ None \notin Collections

Create       == INSTANCE UiCreate
ModuleCreate == INSTANCE UiModuleCreate
Import       == INSTANCE UiImport

WizardsInit == Create!CreateInit \/ ModuleCreate!ModuleCreateInit \/ Import!ImportInit
WizardsNext == Create!CreateNext \/ ModuleCreate!ModuleCreateNext \/ Import!ImportNext
--------------------------------------------------------------------------------
(* A workspace, and a module, is created as its user last chose.            *)
CreatedAsChosen == Create!CreatedAsChosen /\ ModuleCreate!ModuleAsChosen

(* A workspace is imported with just what its own review says.              *)
ImportedAsReviewed == Import!ImportedAsReviewed

(* None is imported twice, and each row of the progress list is about its   *)
(* own workspace.                                                           *)
ProgressTellsTheTruth == Import!ProgressTellsTheTruth
================================================================================
