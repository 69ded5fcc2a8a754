------------------------------ MODULE VcsConnection ------------------------------
(****************************************************************************)
(* Connections to version control (Settings/VCS.tsx, Settings/AddVCS.tsx,   *)
(* internal/api/handler/vcs_handler.go): the page creates a connection and  *)
(* sends its user to the provider, which calls the API back with a code     *)
(* that is exchanged for a token.  Names, ids and secrets are as typed.     *)
(****************************************************************************)
EXTENDS UiPage

CONSTANTS
    Types,          \* what the menu offers, of the types below
    MaxConnections  \* bound on the connections created

GitLabs == {"GITLAB", "GITLAB_COMMUNITY", "GITLAB_ENTERPRISE"}
SelfHosted == {"GITHUB_ENTERPRISE", "GITLAB_COMMUNITY", "GITLAB_ENTERPRISE"}
AzureDevOps == "AZURE_DEVOPS"

(* getVcsType: what is stored for a type.                                   *)
GetVcsType(type) == CASE type \in GitLabs -> "GITLAB"
                      [] type = "BITBUCKET" -> "BITBUCKET"
                      [] type = AzureDevOps -> "AZURE_SP_MI"
                      [] OTHER -> "GITHUB"

(* getDefaultHttps, httpsHidden: the endpoint is that of the public site,   *)
(* which the form does not show, or the one typed for a host of one's own.  *)
DefaultHttps(type) == IF type \in SelfHosted THEN "typed" ELSE GetVcsType(type)

(* getConnectUrl of AddVCS and of the list: whose way to ask for consent.   *)
ConnectUrl(type) == CASE type \in {"GITLAB", "GITLAB_ENTERPRISE"} -> "GITLAB"
                      [] type = "BITBUCKET" -> "BITBUCKET"
                      [] type = AzureDevOps -> "AZURE_SP_MI"
                      [] OTHER -> "GITHUB"
ListConnectUrl(vcsType) ==
    IF vcsType \in {"GITLAB", "BITBUCKET"} THEN vcsType ELSE "GITHUB"

(* The menu: GitHub as an application of its own or by OAuth.               *)
ConnectionTypes(type) == CASE type = "GITHUB_APP" -> {"STANDALONE"}
                           [] type = "GITHUB_ENTERPRISE" -> {"OAUTH", "STANDALONE"}
                           [] OTHER -> {"OAUTH"}

(* A connection: server.rows[k], with what happened to it.                  *)
Rows == 1 .. Len(server.rows)

VcsInit ==
    /\ page \in [kind : {"vcs"}, mode : {"list", "new"}, current : {0}, vcsType : {"GITHUB"},
                 connectionType : {"OAUTH"}, chosen : {<<"GITHUB", "OAUTH">>}, form : {None},
                 listed : {<<>>}, deleting : {{}}]
    /\ server = [rows |-> <<>>, asking |-> {}]

(* loadVCS; a failure keeps what is listed.                                 *)
LoadVCS == page.mode = "list" /\ Change([page EXCEPT !.listed = server.rows])

OnAddVCS == page.mode = "list" /\ Change([page EXCEPT !.mode = "new", !.current = 0, !.form = None])

(* Bug to catch: the form starts with the endpoint of the type before.      *)
HandleVCSClickStale(type, connection) ==
    /\ page.mode = "new" /\ page.current = 0
    /\ Change([page EXCEPT !.current = 1, !.vcsType = type, !.connectionType = connection,
                           !.chosen = <<type, connection>>, !.form = DefaultHttps(page.vcsType)])

(* The form appears with the second step, with the endpoint of the type.    *)
HandleVCSClick(type, connection) ==
    /\ page.mode = "new" /\ page.current = 0
    /\ Change([page EXCEPT !.current = 1, !.vcsType = type, !.connectionType = connection,
                           !.chosen = <<type, connection>>, !.form = DefaultHttps(type)])

(* The step bar, back and forth; the form is dropped and made anew.         *)
HandleChange ==
    /\ page.mode = "new"
    /\ Change([page EXCEPT !.current = 1 - @,
                           !.form = IF page.current = 1 THEN None ELSE DefaultHttps(page.vcsType)])

(* onFinish: an application of GitHub's and a managed identity of Azure's   *)
(* need no consent, yet are stored as PENDING like those that do.  The user *)
(* has registered the callback the page shows, or the one the API answers.  *)
OnFinish(registered) ==
    /\ page.mode = "new" /\ page.current = 1 /\ Len(server.rows) < MaxConnections
    /\ LET type == GetVcsType(page.vcsType)
           consent == page.connectionType = "OAUTH" /\ type # "AZURE_SP_MI" IN
       /\ server' = [rows |-> Append(server.rows,
                        [vcsType |-> type, connectionType |-> page.connectionType,
                         endpoint |-> page.form, chosen |-> page.chosen, deleted |-> FALSE,
                         status |-> IF page.connectionType = "OAUTH" \/ type # "AZURE_SP_MI"
                                    THEN "PENDING" ELSE "COMPLETED",
                         registered |-> registered, answer |-> None, token |-> None,
                         users |-> FALSE]),
                     asking |-> IF consent
                                THEN server.asking \cup {<<Len(server.rows) + 1, ConnectUrl(page.vcsType)>>}
                                ELSE server.asking]
       /\ page' = [page EXCEPT !.mode = "list", !.form = None, !.listed = server'.rows]

(* "Connect to ..." in the list, for what it shows as unfinished.           *)
Connect(k) ==
    /\ page.mode = "list" /\ k \in DOMAIN page.listed
    /\ page.listed[k].status # "COMPLETED" /\ page.listed[k].connectionType = "OAUTH"
    /\ server' = [server EXCEPT !.asking = @ \cup {<<k, ListConnectUrl(page.listed[k].vcsType)>>}]
    /\ UNCHANGED page
--------------------------------------------------------------------------------
(* The provider knows its own way to ask for consent only, and calls back   *)
(* the registered address; GitLab is also told an address in the request,   *)
(* which has to be the registered one.                                      *)
Consents(k, url) ==
    /\ url = server.rows[k].vcsType
    /\ url = "GITLAB" => server.rows[k].registered = "vcs/uuid"

(* VCSCallbackHandler: the address the page shows has a part more than the  *)
(* handler takes.  The exchange goes to the public site, whatever the       *)
(* endpoint; Bitbucket's token and GitLab's can be refreshed.               *)
Answer(row) ==
    IF row.registered = "vcs/uuid" THEN {"invalid callback path"}
    ELSE IF row.deleted THEN {"VCS not found"}
    ELSE {"token exchange failed"} \cup (IF row.endpoint = row.vcsType THEN {"stored"} ELSE {})

Callback(asked) ==
    LET k == asked[1] row == server.rows[k] IN
    \E answer \in IF Consents(k, asked[2]) THEN Answer(row) ELSE {None} :
        /\ server' = [server EXCEPT !.asking = @ \ {asked},
                !.rows[k] = IF answer = "stored"
                            THEN [row EXCEPT !.status = "COMPLETED", !.token = asked[2], !.answer = answer]
                            ELSE [row EXCEPT !.answer = answer]]
        /\ UNCHANGED page
--------------------------------------------------------------------------------
(* onDelete: it asks who uses the connection; a list the API cannot load is *)
(* left out of its answer and counts as nobody.                             *)
AskWhoUses(k) ==
    /\ page.mode = "list" /\ k \in DOMAIN page.listed /\ ~ page.listed[k].deleted
    /\ \E users \in {server.rows[k].users, FALSE} :
         page' = [page EXCEPT !.deleting = IF users THEN @ ELSE @ \cup {k}]
    /\ UNCHANGED server

DeleteVCS(k) ==
    /\ k \in page.deleting
    /\ server' = [server EXCEPT !.rows[k].deleted = TRUE]
    /\ page' = [page EXCEPT !.deleting = @ \ {k}, !.listed = server'.rows]

(* A workspace takes or gives up the connection meanwhile.                  *)
WorkspaceUses(k) ==
    /\ ~ server.rows[k].deleted
    /\ server' = [server EXCEPT !.rows[k].users = ~ @]
    /\ UNCHANGED page

VcsNext ==
    /\ On("vcs")
    /\ \/ LoadVCS \/ OnAddVCS \/ HandleChange
       \/ \E type \in Types : \E c \in ConnectionTypes(type) : HandleVCSClick(type, c)
       \/ \E registered \in {"vcs/uuid", "id"} : OnFinish(registered)
       \/ \E k \in Rows : Connect(k) \/ AskWhoUses(k) \/ DeleteVCS(k) \/ WorkspaceUses(k)
       \/ \E asked \in server.asking : Callback(asked)
--------------------------------------------------------------------------------
(* However often its user went back to choose again, what is stored is one  *)
(* provider: type, kind of connection and endpoint of the last choice, and  *)
(* a token of that provider and no other once it is complete.               *)
OneProvider ==
    On("vcs") => \A k \in Rows : LET row == server.rows[k] type == row.chosen[1] IN
        /\ row.vcsType = GetVcsType(type) /\ row.connectionType = row.chosen[2]
        /\ row.endpoint = DefaultHttps(type)
        /\ row.status = "COMPLETED" => row.token = row.vcsType /\ row.endpoint # "typed"

(* What vcs_handler.go says of itself: the provider redirects back to the   *)
(* callback, we exchange the code for an access token and store it.  No     *)
(* code that reaches the callback of a connection is turned away unread.    *)
CodesAreExchanged ==
    On("vcs") => \A k \in Rows : server.rows[k].answer # "invalid callback path"
================================================================================
