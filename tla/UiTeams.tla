--------------------------------- MODULE UiTeams ---------------------------------
(****************************************************************************)
(* The page of an organization's teams: the list, and EditTeam in its place *)
(* for a new team or for one of the list.  A team has a role; what the API  *)
(* grants it are the flags of its row.  The form shows the flags of a role  *)
(* as fixed, and switches, which are fields of the form, only under         *)
(* "custom".  Submitting takes the fields that are on screen.               *)
(****************************************************************************)
EXTENDS UiPage

CONSTANTS
    Teams,        \* the ids of teams
    NewTeams,     \* those of teams that are not there at first
    MaxSwitches,  \* how often a role or a flag is changed in a form
    MaxSubmits    \* how often a form is submitted

Permissions == {"manageModule", "planJob", "approveJob"}
Jobs == {"planJob", "approveJob"}

RolePermissionMatrix ==
    [admin |-> Permissions, write |-> Jobs, plan |-> {"planJob"}, read |-> {}]
Roles == DOMAIN RolePermissionMatrix \cup {"custom"}

NoForm == [role |-> "custom", flags |-> {}]

(* A row from before there were roles has none of the newer columns.        *)
NoRow == [role |-> "no row", flags |-> {}, manageJob |-> FALSE, shown |-> {}]
Exists(t) == server[t] # NoRow

TeamsInit ==
    /\ page = [kind |-> "teams", mode |-> "list", list |-> "pending", teams |-> {},
               id |-> None, loading |-> FALSE, form |-> NoForm, effect |-> FALSE,
               switches |-> 0, saved |-> 0, saves |-> {}]
    /\ \E old \in {{}, Jobs} :
         server = [t \in Teams |->
            IF t \in NewTeams THEN NoRow
            ELSE [role |-> None, flags |-> old, manageJob |-> old # {}, shown |-> old]]

TeamsArrive ==
    /\ page.list = "pending"
    /\ Change([page EXCEPT !.list = "read", !.teams = {t \in Teams : Exists(t)}])
TeamsFail ==
    /\ page.list = "pending"
    /\ \/ Change([page EXCEPT !.list = "read"])
       \/ Change(Elsewhere)

OnNew ==
    /\ page.mode = "list"
    /\ Change([page EXCEPT !.mode = "create", !.form = NoForm])
OnEdit(t) ==
    /\ page.mode = "list" /\ t \in page.teams
    /\ Change([page EXCEPT !.mode = "edit", !.id = t, !.loading = TRUE, !.form = NoForm])

(* A row without planJob and approveJob is read as if both were manageJob.  *)
LoadTeam ==
    /\ page.loading /\ Exists(page.id)
    /\ LET row == server[page.id] IN
         Change([page EXCEPT
            !.loading = FALSE, !.effect = row.role \notin {None, "custom"},
            !.form = IF row.role = None
                     THEN [role |-> "custom",
                           flags |-> (row.flags \ Jobs) \cup (IF row.manageJob THEN Jobs ELSE {})]
                     ELSE [role |-> row.role, flags |-> row.flags]])

(* Of a team that cannot be loaded only the way back is offered.            *)
LoadTeamFails ==
    /\ page.loading
    /\ Change([page EXCEPT !.loading = FALSE, !.id = None])

FormShown == page.mode = "create" \/ (page.mode = "edit" /\ ~ page.loading /\ page.id # None)
--------------------------------------------------------------------------------
(* Choosing a role runs, after the next rendering, the effect that fills in *)
(* its flags; "custom" leaves them as they are.                             *)
ChooseRole(role) ==
    /\ FormShown /\ ~ page.effect /\ page.switches < MaxSwitches /\ role # page.form.role
    /\ Change([page EXCEPT !.form.role = role, !.effect = role # "custom", !.switches = @ + 1])

RoleEffect ==
    /\ page.effect
    /\ Change([page EXCEPT !.effect = FALSE,
                           !.form.flags = RolePermissionMatrix[page.form.role]])

Switch(p) ==
    /\ FormShown /\ ~ page.effect /\ page.form.role = "custom" /\ page.switches < MaxSwitches
    /\ Change([page EXCEPT !.switches = @ + 1,
                           !.form.flags = IF p \in @ THEN @ \ {p} ELSE @ \cup {p}])

(* What the form shows as granted.                                          *)
Shown == IF page.form.role = "custom" THEN page.form.flags
         ELSE RolePermissionMatrix[page.form.role]

(* Under a role the form has no field for a flag, and manageJob is derived  *)
(* from two fields that are not there.                                      *)
OnFinish ==
    /\ FormShown /\ ~ page.effect /\ page.saved < MaxSubmits
    /\ LET fields == IF page.form.role = "custom" THEN page.form.flags ELSE {} IN
         Change([page EXCEPT !.saved = @ + 1, !.saves = @ \cup
            {[mode |-> page.mode, id |-> page.id, role |-> page.form.role, flags |-> fields,
              manageJob |-> fields \cap Jobs # {}, shown |-> Shown]}])

(* Bug to catch: a flag that is switched off is not sent.                   *)
RowOfTruths(s, old) ==
    [role |-> s.role, manageJob |-> s.manageJob, shown |-> s.shown, flags |-> s.flags \cup old]

(* The columns of which nothing is sent stay as they were.                  *)
Row(s, old) ==
    [role |-> s.role, manageJob |-> s.manageJob, shown |-> s.shown,
     flags |-> IF s.role = "custom" THEN s.flags ELSE old]

ToList(p) == [p EXCEPT !.mode = "list", !.loading = FALSE, !.effect = FALSE, !.form = NoForm]

(* The answer closes whatever form is open by then.                         *)
SaveAnswered(s) ==
    /\ page' = [ToList(page) EXCEPT !.saves = @ \ {s}, !.list = "pending"]
    /\ IF s.mode = "edit"
       THEN Exists(s.id) /\ server' = [server EXCEPT ![s.id] = Row(s, @.flags)]
       ELSE \E t \in NewTeams : ~ Exists(t) /\ server' = [server EXCEPT ![t] = Row(s, {})]

SaveFails(s) == Change([page EXCEPT !.saves = @ \ {s}])

OnCancel ==
    /\ page.mode # "list"
    /\ Change(ToList(page))

OnDelete(t) ==
    /\ page.mode = "list" /\ t \in page.teams
    /\ page' = [page EXCEPT !.list = "pending"]
    /\ server' = [server EXCEPT ![t] = NoRow]

TeamsNext ==
    /\ On("teams")
    /\ \/ TeamsArrive \/ TeamsFail \/ OnNew \/ LoadTeam \/ LoadTeamFails \/ RoleEffect
       \/ OnFinish \/ OnCancel
       \/ \E t \in Teams : OnEdit(t) \/ OnDelete(t)
       \/ \E role \in Roles : ChooseRole(role)
       \/ \E p \in Permissions : Switch(p)
       \/ \E s \in page.saves : SaveAnswered(s) \/ SaveFails(s)
--------------------------------------------------------------------------------
(* A team saved with permissions of its own is granted just those its form  *)
(* showed, runs among them if either kind was; whatever roles it had and    *)
(* were chosen before.                                                      *)
FlagsAsShown ==
    On("teams") =>
        \A t \in Teams :
            server[t].role = "custom" =>
                /\ server[t].flags = server[t].shown
                /\ server[t].manageJob = (server[t].shown \cap Jobs # {})
================================================================================
