------------------------------ MODULE UiModuleCreate ------------------------------
(****************************************************************************)
(* The wizard that publishes a module in the registry (Modules/Create.tsx). *)
(* It resembles the wizard of workspaces, but going back to its first step  *)
(* hides nothing, and an SSH key, once selected, stays in the form behind   *)
(* the connection chosen after it.  The name stands for the provider too:   *)
(* both are taken out of the same source, or typed.  Description, tag       *)
(* prefix and folder are as typed and left out.                             *)
(****************************************************************************)
EXTENDS UiPage

CONSTANTS
    Connections, \* the VCS connections of the organization
    MaxChoices   \* bound on the choices of one user

(* A source called terraform-<PROVIDER>-<NAME>, and one called otherwise.   *)
Sources == {"matches", "plain"}

ModuleCreateInit ==
    /\ page = [kind |-> "createModule", current |-> 0, shown |-> {}, connections |-> FALSE,
               keys |-> FALSE, vcsButtonsVisible |-> TRUE, vcsId |-> None, chosen |-> <<>>,
               sshKeysVisible |-> FALSE, sshKey |-> FALSE, source |-> None, name |-> None]
    /\ server = None

(* The two lists of the mount: without an answer there is nothing to choose *)
(* from, and no other sign of it.                                           *)
LoadVCSProviders == ~ page.connections /\ Change([page EXCEPT !.connections = TRUE])
LoadSSHKeys == ~ page.keys /\ Change([page EXCEPT !.keys = TRUE])
--------------------------------------------------------------------------------
(* Bug to catch: git keeps offering the connection first chosen.            *)
HandleGitClickOnce(id) ==
    /\ page.current = 0 /\ page.vcsButtonsVisible
    /\ id # "git" => page.connections
    /\ Change([page EXCEPT !.sshKeysVisible = id = "git", !.chosen = Append(@, id),
                           !.vcsId = IF id = "git" \/ @ # None THEN @ ELSE id,
                           !.current = 1, !.shown = @ \cup {"repository"}])

HandleGitClick(id) ==
    /\ page.current = 0 /\ page.vcsButtonsVisible
    /\ id # "git" => page.connections
    /\ Change([page EXCEPT !.sshKeysVisible = id = "git", !.chosen = Append(@, id),
                           !.vcsId = IF id = "git" THEN @ ELSE id,
                           !.current = 1, !.shown = @ \cup {"repository"}])

(* handleDifferent and handleExisting.                                      *)
OtherButtons ==
    /\ page.current = 0
    /\ Change([page EXCEPT !.vcsButtonsVisible = ~ @])

(* The form of a new connection takes over.                                 *)
HandleVCSClick == page.current = 0 /\ ~ page.vcsButtonsVisible /\ Change(Elsewhere)

(* The step bar.                                                            *)
HandleChange(step) ==
    /\ step # page.current
    /\ Change([page EXCEPT !.current = step,
            !.shown = CASE step = 1 -> {"repository"} [] step = 2 -> {"module"} [] OTHER -> @])

TypeSource ==
    /\ "repository" \in page.shown
    /\ \E source \in Sources : Change([page EXCEPT !.source = source])

HandleGitContinueClick ==
    /\ "repository" \in page.shown
    /\ Change([page EXCEPT !.current = 2, !.shown = (@ \ {"repository"}) \cup {"module"},
                           !.name = IF page.source = "matches" THEN "derived" ELSE @])

TypeName == "module" \in page.shown /\ Change([page EXCEPT !.name = "typed"])

SelectSshKey ==
    /\ "module" \in page.shown /\ page.sshKeysVisible /\ page.keys
    /\ Change([page EXCEPT !.sshKey = TRUE])

(* onFinish: the key wins over the connection, even when its field is       *)
(* hidden.  An error leaves everything as it is.                            *)
OnFinish ==
    /\ page.shown # {} /\ page.source # None /\ page.name # None
    /\ server' = [from |-> IF page.sshKey THEN "ssh" ELSE page.vcsId,
                  name |-> page.name, chosen |-> page.chosen]
    /\ page' = [kind |-> "moduleCreated"]

ModuleCreateNext ==
    /\ On("createModule")
    /\ \/ LoadVCSProviders \/ LoadSSHKeys \/ OtherButtons \/ HandleVCSClick \/ TypeSource
       \/ HandleGitContinueClick \/ TypeName \/ SelectSshKey \/ OnFinish
       \/ \E id \in Connections \cup {"git"} : Len(page.chosen) < MaxChoices /\ HandleGitClick(id)
       \/ \E step \in 0 .. 2 : HandleChange(step)
--------------------------------------------------------------------------------
(* However the steps are walked, a module is cloned with the connection its *)
(* user chose last, leaving out git; with an SSH key only if git was chosen *)
(* at some time; and with neither only if no connection ever was chosen.    *)
ModuleAsChosen ==
    On("moduleCreated") =>
        LET m == server IN
            /\ m.from \in Connections =>
                 \E k \in DOMAIN m.chosen :
                    /\ m.chosen[k] = m.from
                    /\ \A l \in k + 1 .. Len(m.chosen) : m.chosen[l] = "git"
            /\ m.from = "ssh" => \E k \in DOMAIN m.chosen : m.chosen[k] = "git"
            /\ m.from = None => \A k \in DOMAIN m.chosen : m.chosen[k] = "git"
================================================================================
