------------------------------- MODULE UiSettings -------------------------------
(****************************************************************************)
(* The pages of the settings whose forms outlive what they were opened for: *)
(* the lists with one form for all items, the templates, the credentials    *)
(* with their claims, and the teams.                                        *)
(****************************************************************************)
EXTENDS UiPage

CONSTANTS
    EditedItems, MaxEdits,                    \* UiEditors
    Conditions, MaxPresses,                   \* UiCredential
    Teams, NewTeams, MaxSwitches,             \* UiTeams
    Templates, NewTemplates, Ascii, MaxTyped, \* UiTemplates
    MaxSubmits                                \* UiTeams, UiTemplates

(* The things a claim may demand are distinct, and none of them is what     *)
(* another user makes it demand.                                            *)
ASSUME SettingsAssumption ==
    /\ Conditions \in Seq(STRING)
    /\ \A i, j \in DOMAIN Conditions : Conditions[i] = Conditions[j] => i = j
    /\ \A i \in DOMAIN Conditions : Conditions[i] # "others"

Editors       == INSTANCE UiEditors
TemplatesPage == INSTANCE UiTemplates
Credential    == INSTANCE UiCredential
TeamsPage     == INSTANCE UiTeams

SettingsInit ==
    \/ Editors!EditorsInit       \/ TemplatesPage!TemplatesInit
    \/ Credential!CredentialInit \/ TeamsPage!TeamsInit

SettingsNext ==
    \/ Editors!EditorsNext       \/ TemplatesPage!TemplatesNext
    \/ Credential!CredentialNext \/ TeamsPage!TeamsNext
--------------------------------------------------------------------------------
(* No edit is saved on another item than it was filled in from, and no      *)
(* template with another text than it had or was given.                     *)
EditsReachTheirItem == Editors!EditsReachTheirItem /\ TemplatesPage!TextIsKept

(* A credential that was saved demands what its table showed, and a team    *)
(* with permissions of its own is granted those its form showed.            *)
GrantsAsShown == Credential!ClaimsAsShown /\ TeamsPage!FlagsAsShown
================================================================================
