------------------------------ MODULE ModuleRefresh ------------------------------
(****************************************************************************)
(* The versions of a module (internal/api/scheduler/module_refresh.go):     *)
(* every replica lists the tags of the repository every five minutes,       *)
(* inserts the versions it does not find in the table, and then writes the  *)
(* latest one to the module.  `page` holds the refreshes under way.         *)
(****************************************************************************)
EXTENDS UiPage

CONSTANTS
    Replicas,  \* one scheduler each
    Semver     \* the number of each tag that may appear, 0 if it has none

Tags == DOMAIN Semver
Pending == "Version pending"
NoRefresh == [stage |-> "idle", tags |-> {}, existing |-> {}, todo |-> {}, added |-> FALSE]

RefreshInit ==
    /\ page = [kind |-> "versions", refreshes |-> [r \in Replicas |-> NoRefresh]]
    /\ server = [tags |-> {}, rows |-> [t \in Tags |-> 0], latest |-> Pending,
                 overlapped |-> FALSE, missed |-> FALSE]

Refresh(r) == page.refreshes[r]
Goes(r, new) == page' = [page EXCEPT !.refreshes[r] = new]
Inserting(r) == Refresh(r).stage = "insert"
Stored == {t \in Tags : server.rows[t] > 0}

Tag == /\ \E t \in Tags \ server.tags : server' = [server EXCEPT !.tags = @ \cup {t}]
       /\ UNCHANGED page

(* ListRemoteTags, without the tags that lack the prefix; none ends it.     *)
ListRemoteTags(r) ==
    /\ Refresh(r).stage = "idle" /\ server.tags # {}
    /\ Goes(r, [NoRefresh EXCEPT !.stage = "existing", !.tags = server.tags])
    /\ UNCHANGED server

(* Bug to catch: a query that failed counts as an empty table.              *)
LoadNothing(r) ==
    /\ Refresh(r).stage = "existing"
    /\ \E existing \in {{}, Stored} :
         Goes(r, [Refresh(r) EXCEPT !.stage = "insert", !.existing = existing,
                                    !.todo = Refresh(r).tags \ existing])
    /\ server' = [server EXCEPT !.overlapped = @ \/ \E other \in Replicas \ {r} : Inserting(other)]

LoadExisting(r) ==
    /\ Refresh(r).stage = "existing"
    /\ Goes(r, [Refresh(r) EXCEPT !.stage = "insert", !.existing = Stored,
                                  !.todo = Refresh(r).tags \ Stored])
    /\ server' = [server EXCEPT !.overlapped = @ \/ \E other \in Replicas \ {r} : Inserting(other)]

(* One INSERT for each, in the order of a Go map; a failed one is skipped.  *)
Insert(r, t) ==
    /\ Refresh(r).stage = "insert" /\ t \in Refresh(r).todo
    /\ \/ /\ server' = [server EXCEPT !.rows[t] = @ + 1]
          /\ Goes(r, [Refresh(r) EXCEPT !.todo = @ \ {t}, !.existing = @ \cup {t}, !.added = TRUE])
       \/ UNCHANGED server /\ Goes(r, [Refresh(r) EXCEPT !.todo = @ \ {t}])

(* updateLatestVersion: the highest number of those this refresh knows; a   *)
(* pre-release has the number of its release, and the map's order decides.  *)
Latest(versions) ==
    LET numbered == {v \in versions : Semver[v] # 0} IN
    IF numbered = {} THEN {Pending}
    ELSE {v \in numbered : \A w \in numbered : Semver[w] <= Semver[v]}

Finish(r) ==
    /\ Refresh(r).stage = "insert" /\ Refresh(r).todo = {}
    /\ IF Refresh(r).added
       THEN \E latest \in Latest(Refresh(r).existing) : server' = [server EXCEPT !.latest = latest]
       ELSE UNCHANGED server
    /\ Goes(r, NoRefresh)

(* The listing, the query or the UPDATE fails, or the replica stops.  The   *)
(* next refresh adds nothing and so leaves the latest version as it is.     *)
StopsOrFails(r) ==
    /\ Refresh(r).stage # "idle"
    /\ server' = [server EXCEPT !.missed = @ \/ Refresh(r).added]
    /\ Goes(r, NoRefresh)

RefreshNext ==
    /\ On("versions")
    /\ \/ Tag
       \/ \E r \in Replicas : \/ ListRemoteTags(r) \/ LoadExisting(r) \/ Finish(r) \/ StopsOrFails(r)
                              \/ \E t \in Tags : Insert(r, t)
--------------------------------------------------------------------------------
(* When no refresh is under way, each version is in the table once, and the *)
(* latest version of the module is one of the highest in the table; unless  *)
(* two replicas overlapped, or one stopped between its INSERT and its       *)
(* UPDATE, which no later refresh makes good.                               *)
VersionsSettled ==
    On("versions") /\ ~ server.overlapped /\ ~ server.missed
    /\ (\A r \in Replicas : Refresh(r).stage = "idle") =>
        /\ \A t \in Tags : server.rows[t] <= 1
        /\ server.latest \in Latest(Stored)
================================================================================
