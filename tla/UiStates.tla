--------------------------------- MODULE UiStates ---------------------------------
(****************************************************************************)
(* The states of a workspace (Workspaces/States.tsx): a list of versions    *)
(* and the details of the one that was clicked, as a diagram, as the raw    *)
(* state and as the JSON of `show`.  The parts are set one by one as they   *)
(* arrive, nothing is aborted, and nothing of the version shown before is   *)
(* taken away first.  The diagram goes one module deep; a part is known by  *)
(* the version it is of.                                                    *)
(****************************************************************************)
EXTENDS UiPage

CONSTANTS
    StateVersions,  \* the versions in the list
    Hosted,         \* those whose output is at the API's own host
    MaxOpenings     \* how often details are opened

Failed == "error"
Blank == "blank"

ASSUME StatesAssumption ==
    /\ Hosted \subseteq StateVersions
    /\ {Failed, Blank, "no access", None} \cap StateVersions = {}

StatesInit ==
    /\ \E manageState \in BOOLEAN :
         page = [kind |-> "states", manageState |-> manageState, visible |-> FALSE,
                 currentState |-> None, activeTab |-> "diagram", diagram |-> Blank,
                 raw |-> Blank, json |-> Blank, editor |-> [text |-> Blank, early |-> FALSE],
                 gets |-> {}, openings |-> 0, overlapped |-> FALSE, rollback |-> None]
    /\ server = [rolledBack |-> None]

(* The editor of a tab takes the text there is when it is mounted, and no   *)
(* later one.  It is mounted as its tab is chosen, and with the details     *)
(* when its tab was the last.                                               *)
Mounted(p) ==
    [p EXCEPT !.editor =
        [text |-> IF p.activeTab = "diagram" THEN Blank
                 ELSE IF ~ p.manageState THEN "no access"
                 ELSE IF p.activeTab = "raw" THEN p.raw ELSE p.json,
         early |-> p.gets # {}]]
--------------------------------------------------------------------------------
Asking(v, parts) ==
    /\ ~ page.visible /\ page.openings < MaxOpenings
    /\ Change(Mounted(
         [page EXCEPT !.currentState = v, !.visible = TRUE, !.openings = @ + 1,
                      !.overlapped = page.gets # {},
                      !.gets = @ \cup {[version |-> v, part |-> part, opening |-> page.openings] :
                                          part \in parts}]))

(* Bug to catch: the raw state is asked for beside the state, not after it. *)
ChangeStateBoth(v) == Asking(v, {"json", "raw"})

ChangeState(v) == Asking(v, {"json"})

(* The state of another host is drawn, but its text is not kept.            *)
JsonArrives(g) ==
    /\ g.part = "json"
    /\ Change(IF g.version \in Hosted
              THEN [page EXCEPT !.json = g.version, !.diagram = g.version,
                                !.gets = (@ \ {g}) \cup {[g EXCEPT !.part = "raw"]}]
              ELSE [page EXCEPT !.diagram = g.version, !.gets = @ \ {g}])

(* What cannot be loaded is said in both texts, beside the diagram before.  *)
JsonFails(g) ==
    /\ g.part = "json"
    /\ Change([page EXCEPT !.json = Failed, !.raw = Failed, !.gets = @ \ {g}])

RawArrives(g) ==
    /\ g.part = "raw"
    /\ Change([page EXCEPT !.raw = g.version, !.gets = @ \ {g}])

RawFails(g) ==
    /\ g.part = "raw"
    /\ Change([page EXCEPT !.raw = Failed, !.gets = @ \ {g}])

OnTabChange(tab) ==
    /\ page.visible /\ page.manageState /\ tab # page.activeTab
    /\ Change(Mounted([page EXCEPT !.activeTab = tab]))

(* The tabs of the workspace page lead back to the list.                    *)
SwitchKey == page.visible /\ Change([page EXCEPT !.visible = FALSE])
--------------------------------------------------------------------------------
HandleRollback ==
    /\ page.visible /\ page.manageState /\ page.rollback = None
    /\ Change([page EXCEPT !.rollback = page.currentState])

(* The answer closes the details that are open by then.                     *)
RolledBack ==
    /\ page.rollback # None
    /\ server' = [server EXCEPT !.rolledBack = page.rollback]
    /\ page' = [page EXCEPT !.rollback = None, !.visible = FALSE]

RollbackFails == page.rollback # None /\ Change([page EXCEPT !.rollback = None])

StatesNext ==
    /\ On("states")
    /\ \/ SwitchKey \/ HandleRollback \/ RolledBack \/ RollbackFails
       \/ \E v \in StateVersions : ChangeState(v)
       \/ \E g \in page.gets : JsonArrives(g) \/ JsonFails(g) \/ RawArrives(g) \/ RawFails(g)
       \/ \E tab \in {"diagram", "raw", "json"} : OnTabChange(tab)
--------------------------------------------------------------------------------
(* Once everything has arrived, and unless another version was opened       *)
(* before the last had, the texts are of the version in the header, if it   *)
(* is at the API's host, or say that it could not be loaded; the diagram is *)
(* of the version of the text; and so is what the editor shows, if its tab  *)
(* was chosen after the texts had arrived.                                  *)
ShowsOneState ==
    On("states") =>
        LET v == page.currentState IN
        page.visible /\ page.gets = {} /\ ~ page.overlapped =>
            /\ v \in Hosted =>
                 /\ page.json \in {v, Failed} /\ page.raw \in {v, Failed}
                 /\ page.json = Failed => page.raw = Failed
                 /\ ~ page.editor.early => page.editor.text \in {v, Failed, Blank, "no access"}
            /\ page.json = v => page.diagram = v
================================================================================
