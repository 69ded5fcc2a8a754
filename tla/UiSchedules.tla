------------------------------- MODULE UiSchedules -------------------------------
(****************************************************************************)
(* A schedule of a workspace: the page that edits it                        *)
(* (Workspaces/Schedules.tsx) and the pollers of the replicas that register *)
(* it and create its jobs (internal/api/scheduler/schedule_poller.go).      *)
(* The page writes Quartz expressions of seven fields, the poller parses    *)
(* six; only a schedule written by another client of the API ever fires.    *)
(****************************************************************************)
EXTENDS UiPage

CONSTANTS
    Pollers,   \* the pollers of the replicas
    Quartz,    \* expressions the page can write, of which the first is "* * * * *"
    SixFields  \* expressions other clients write

DefaultValue == Quartz[1]
Expressions == {Quartz[k] : k \in DOMAIN Quartz} \cup SixFields

SchedulesInit ==
    /\ page = [kind |-> "schedules", listed |-> FALSE, visible |-> FALSE, mode |-> "create",
               value |-> DefaultValue, saving |-> <<>>]
    /\ server = [cron |-> None, enabled |-> FALSE, locked |-> FALSE,
                 entries |-> [p \in Pollers |-> None], stale |-> Pollers,
                 firing |-> [p \in Pollers |-> None], lastJob |-> None]

Exists == server.cron # None

(* Rows changed: what the pollers have registered may be out of date.       *)
Store(cron, enabled) == server' = [server EXCEPT !.cron = cron, !.enabled = enabled, !.stale = Pollers]
--------------------------------------------------------------------------------
(* The table is that of the workspace page, which polls; saving and         *)
(* deleting do not load it.                                                 *)
TableArrives == page' = [page EXCEPT !.listed = Exists] /\ UNCHANGED server

(* "Add schedule" and onEdit open the modal on the expression edited last,  *)
(* not on that of the schedule.                                             *)
Open(mode) ==
    /\ ~ page.visible /\ mode = "edit" => page.listed
    /\ page' = [page EXCEPT !.visible = TRUE, !.mode = mode] /\ UNCHANGED server

SetValue ==
    /\ page.visible
    /\ \E k \in DOMAIN Quartz : page' = [page EXCEPT !.value = Quartz[k]]
    /\ UNCHANGED server

OnCancel == page.visible /\ page' = [page EXCEPT !.visible = FALSE] /\ UNCHANGED server

(* onOk: onCreate or onUpdate.                                              *)
OnOk ==
    /\ page.visible /\ page.saving = <<>>
    /\ page' = [page EXCEPT !.saving = <<page.mode, page.value>>] /\ UNCHANGED server

(* The answer closes the modal that is open by then.  One schedule is       *)
(* enough here: a second one is not created, and the PATCH of one that is   *)
(* gone changes nothing.                                                    *)
SaveAnswered ==
    /\ page.saving # <<>>
    /\ page' = [page EXCEPT !.visible = FALSE, !.saving = <<>>]
    /\ IF page.saving[1] = "create"
       THEN ~ Exists /\ Store(page.saving[2], TRUE)
       ELSE IF Exists THEN Store(page.saving[2], server.enabled) ELSE UNCHANGED server

SaveFails ==
    /\ page.saving # <<>>
    /\ page' = [page EXCEPT !.saving = <<>>] /\ UNCHANGED server

DeleteSchedule == page.listed /\ Store(None, FALSE) /\ UNCHANGED page

(* Another client of the API.                                               *)
OthersWrite ==
    /\ \E cron \in SixFields, enabled \in BOOLEAN : Store(cron, enabled)
    /\ UNCHANGED page
LockChanges ==
    /\ server' = [server EXCEPT !.locked = ~ @,
            !.firing = [p \in Pollers |-> IF @[p] = None THEN None ELSE "overtaken"]]
    /\ UNCHANGED page
--------------------------------------------------------------------------------
(* syncSchedules, at the start and every minute: what is registered stays   *)
(* as it is while its schedule is enabled.                                  *)
Parses(cron) == cron \in SixFields
Active == Exists /\ server.enabled

(* Bug to catch: what is registered once is never taken out.                *)
RegisteredForGood(entry) ==
    IF entry = None /\ Active /\ Parses(server.cron) THEN server.cron ELSE entry

Registered(entry) == IF ~ Active THEN None
                     ELSE IF entry # None THEN entry
                     ELSE IF Parses(server.cron) THEN server.cron ELSE None

SyncSchedules(p) ==
    /\ server' = [server EXCEPT !.entries[p] = Registered(@), !.stale = @ \ {p}]
    /\ UNCHANGED page

(* A replica that restarts begins with an empty cron.                       *)
Restart(p) ==
    /\ server' = [server EXCEPT !.entries[p] = None, !.stale = @ \cup {p}, !.firing[p] = None]
    /\ UNCHANGED page

(* triggerScheduledJob: the cron of each replica fires by itself; it reads  *)
(* the workspace, and creates the job with the workspace's own template.    *)
Trigger(p) ==
    /\ server.entries[p] # None /\ server.firing[p] = None /\ ~ server.locked
    /\ server' = [server EXCEPT !.firing[p] = "unlocked"]
    /\ UNCHANGED page

CreateJob(p) ==
    /\ server.firing[p] # None
    /\ server' = [server EXCEPT !.firing[p] = None,
                    !.lastJob = IF server.locked THEN server.firing[p] ELSE None]
    /\ UNCHANGED page

SchedulesNext ==
    /\ On("schedules")
    /\ \/ TableArrives \/ Open("create") \/ Open("edit") \/ SetValue \/ OnCancel \/ OnOk
       \/ SaveAnswered \/ SaveFails \/ DeleteSchedule \/ OthersWrite \/ LockChanges
       \/ \E p \in Pollers : SyncSchedules(p) \/ Restart(p) \/ Trigger(p) \/ CreateJob(p)
--------------------------------------------------------------------------------
(* A schedule that was disabled, deleted or never parsed fires nowhere once *)
(* the poller has seen it, however it was edited, and one that is enabled   *)
(* is registered by every poller that has seen it.  The run it creates      *)
(* finds its workspace unlocked, unless the lock came between the poller's  *)
(* look and its INSERT.                                                     *)
EntriesFollowSchedules ==
    On("schedules") =>
        /\ \A p \in Pollers \ server.stale :
             /\ server.entries[p] # None => Active /\ Parses(server.entries[p])
             /\ Active /\ Parses(server.cron) => server.entries[p] # None
        /\ server.lastJob \in {None, "overtaken"}
================================================================================
