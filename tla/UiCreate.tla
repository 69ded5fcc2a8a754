-------------------------------- MODULE UiCreate --------------------------------
(****************************************************************************)
(* The wizard that creates a workspace (Workspaces/Create.tsx).  Its steps  *)
(* may be clicked in any order, all of them write to one form, and nothing  *)
(* a choice has set is taken back by the next choice unless its handler     *)
(* says so.  Name, branch, folder and project are as typed and left out.    *)
(****************************************************************************)
EXTENDS UiPage

CONSTANT Connections  \* the VCS connections of the organization

IacTypes == {"terraform", "tofu"}

CreateInit ==
    /\ page = [kind |-> "create", initial |-> "pending", current |-> 0,
               versionControlFlow |-> TRUE, shown |-> {}, iacType |-> "terraform",
               versionLoads |-> {}, version |-> None, overtaken |-> FALSE,
               vcsId |-> None, chosen |-> None, sshKeysVisible |-> FALSE, sshKey |-> FALSE,
               card |-> None, source |-> None, executionMode |-> None,
               requiredVcsPush |-> TRUE]
    /\ server = None

(* Promise.all of versions, keys, templates, connections and projects: the  *)
(* failure of one leaves the page without templates and connections.  The   *)
(* versions are those of Terraform, whatever has been chosen meanwhile.     *)
InitialArrives ==
    /\ page.initial = "pending"
    /\ \/ Change([page EXCEPT !.initial = "loaded", !.version = "terraform",
                              !.overtaken = page.iacType # "terraform"])
       \/ Change([page EXCEPT !.initial = "failed"])

(* loadVersions: the newest version goes to the form; a failure is silent.  *)
VersionsArrive(type) ==
    LET p == [page EXCEPT !.versionLoads = @ \ {type}] IN
    \/ Change([p EXCEPT !.version = type, !.overtaken = type # page.iacType])
    \/ Change([p EXCEPT !.overtaken = TRUE])
--------------------------------------------------------------------------------
HandleIacTypeClick ==
    /\ page.current = 0
    /\ \E type \in IacTypes :
         Change([page EXCEPT !.current = 1, !.iacType = type,
                             !.versionLoads = @ \cup {type}])

(* Bug to catch: the source that the CLI flow filled in is not taken back.  *)
HandleClickKeepsSource ==
    /\ page.current = 1
    /\ Change([page EXCEPT !.current = 2, !.versionControlFlow = TRUE, !.card = "version control"])

HandleClick ==
    /\ page.current = 1
    /\ Change([page EXCEPT !.current = 2, !.versionControlFlow = TRUE, !.source = None,
                           !.card = "version control"])

HandleCliDriven ==
    /\ page.current = 1
    /\ Change([page EXCEPT !.current = 2, !.versionControlFlow = FALSE,
                           !.shown = @ \cup {"settings"}, !.sshKeysVisible = FALSE,
                           !.requiredVcsPush = FALSE, !.executionMode = "local",
                           !.source = "empty", !.card = "cli"])

(* "git" asks for an SSH key and keeps the connection chosen before.        *)
HandleGitClick(id) ==
    /\ page.current = 2 /\ page.versionControlFlow
    /\ id # "git" => page.initial = "loaded"
    /\ Change([page EXCEPT !.sshKeysVisible = id = "git",
                           !.vcsId = IF id = "git" THEN @ ELSE id, !.chosen = id,
                           !.current = 3, !.requiredVcsPush = TRUE,
                           !.shown = @ \cup {"repository"}])

(* "Connect to a different VCS" leads to the form of a new connection, and  *)
(* the wizard is gone with all that was chosen.                             *)
HandleVCSClick ==
    /\ page.current = 2 /\ page.versionControlFlow
    /\ Change(Elsewhere)

(* The step bar: fewer steps outside the version control flow.              *)
StepCount == IF page.versionControlFlow THEN 5 ELSE 3

HandleChange(step) ==
    /\ step \in 0 .. StepCount - 1 /\ step # page.current
    /\ Change([page EXCEPT !.current = step,
            !.shown = CASE step = 3 -> {"repository"} [] step = 4 -> {"settings"} [] OTHER -> {},
            !.versionControlFlow = @ \/ step \in 0 .. 2])

(* The input and the button of "Choose a repository".                       *)
TypeSource ==
    /\ "repository" \in page.shown /\ page.source # "url"
    /\ Change([page EXCEPT !.source = "url"])

HandleGitContinueClick ==
    /\ "repository" \in page.shown
    /\ Change([page EXCEPT !.current = 3, !.shown = (@ \ {"repository"}) \cup {"settings"}])

SelectSshKey ==
    /\ "settings" \in page.shown /\ page.sshKeysVisible /\ page.initial = "loaded"
    /\ Change([page EXCEPT !.sshKey = TRUE])
--------------------------------------------------------------------------------
(* What the form demands, hidden fields included: a source, a version, and  *)
(* a template for pushes.                                                   *)
Valid == /\ page.source # None /\ page.version # None
         /\ page.requiredVcsPush => page.initial = "loaded"

(* onFinish: the button or Enter in any field.  The body is what the page   *)
(* holds at that moment; once the workspace exists its page takes over, and *)
(* an error leaves everything as it is.                                     *)
OnFinish ==
    /\ page.shown # {} /\ Valid
    /\ server' = [iacType |-> page.iacType, version |-> page.version, source |-> page.source,
                  executionMode |-> page.executionMode, vcs |-> page.vcsId, ssh |-> page.sshKey,
                  card |-> page.card, chosen |-> page.chosen,
                  overtaken |-> page.overtaken \/ page.versionLoads # {}]
    /\ page' = [kind |-> "created"]

CreateNext ==
    /\ On("create")
    /\ \/ InitialArrives \/ HandleIacTypeClick \/ HandleClick \/ HandleCliDriven
       \/ HandleVCSClick \/ TypeSource \/ HandleGitContinueClick \/ SelectSshKey \/ OnFinish
       \/ \E type \in page.versionLoads : VersionsArrive(type)
       \/ \E id \in Connections \cup {"git"} : HandleGitClick(id)
       \/ \E step \in 0 .. 4 : HandleChange(step)
--------------------------------------------------------------------------------
(* A workspace has a version of its own tool, provided no answer with       *)
(* versions was overtaken, lost or still out; it has no code of its own     *)
(* only if its user last chose the CLI flow and runs locally only if that   *)
(* flow was chosen; and it has the connection its user chose last.          *)
CreatedAsChosen ==
    On("created") =>
        LET w == server IN
            /\ ~ w.overtaken => w.version = w.iacType
            /\ w.source = "empty" => w.card = "cli" /\ w.executionMode = "local"
            /\ w.chosen \in Connections => w.vcs = w.chosen
            /\ w.chosen = None => w.vcs = None /\ ~ w.ssh
================================================================================
