------------------------------ MODULE UiCollection ------------------------------
(****************************************************************************)
(* The form of a variable collection (CreateEditCollection.tsx): which      *)
(* workspaces may read it, its references, and in edit mode its variables.  *)
(* One save is a series of requests, each awaited; any of them may fail,    *)
(* and the user may then press Save again.                                  *)
(****************************************************************************)
EXTENDS UiPage

CONSTANTS
    CollectionWorkspaces, \* workspaces of the organization
    Items,                \* variables that a collection may come to hold
    MaxSaves              \* bound on the presses of Save

ASSUME CollectionAssumption == "deleted" \notin CollectionWorkspaces

(* The halves of the form share no state but the spinner, so a run of the   *)
(* model works on one of them.                                              *)
Halves == {"scope", "variables"}

(* References of the collection that is edited: workspaces, and whether one *)
(* is left whose workspace was deleted.                                     *)
References == [workspaces : SUBSET CollectionWorkspaces, dangling : BOOLEAN]

NoSave == [phase |-> None]

Slots == {"write", "remove"}
IdleSlot == [phase |-> "idle", does |-> None, sees |-> {}]

CollectionInit ==
    \E mode \in {"create", "edit"}, half \in Halves,
       references \in References, items \in SUBSET Items :
        /\ mode = "create" \/ half = "variables" =>
              references = [workspaces |-> {}, dangling |-> FALSE]
        /\ mode = "create" \/ half = "scope" => items = {}
        /\ page = [kind |-> "collection", mode |-> mode, half |-> half, loaded |-> FALSE,
                   selectedWorkspaces |-> {}, save |-> NoSave, saves |-> 0, saved |-> FALSE,
                   variables |-> {}, temporary |-> 0,
                   ops |-> [slot \in Slots |-> IdleSlot], raced |-> FALSE, clean |-> FALSE]
        /\ server = [references |-> references, items |-> items,
                     granted |-> references.workspaces, deselected |-> {}]
--------------------------------------------------------------------------------
(* The four requests of edit mode are awaited together; if one of them      *)
(* fails the spinner stays, and with it the page takes no more input.       *)
CollectionLoaded ==
    /\ ~ page.loaded
    /\ page' = [page EXCEPT !.loaded = TRUE, !.variables = server.items,
                            !.selectedWorkspaces = server.references.workspaces]
    /\ UNCHANGED server

FormUsable(half) ==
    page.half = half /\ page.loaded /\ page.ops["remove"] = IdleSlot /\ ~ page.saved

SelectWorkspaces ==
    /\ FormUsable("scope")
    /\ \E w \in CollectionWorkspaces :
         \/ /\ w \notin page.selectedWorkspaces
            /\ page' = [page EXCEPT !.selectedWorkspaces = @ \cup {w}]
            /\ UNCHANGED server
         \/ /\ w \in page.selectedWorkspaces
            /\ page' = [page EXCEPT !.selectedWorkspaces = @ \ {w}]
            /\ server' = [server EXCEPT !.deselected = @ \cup {w}]
--------------------------------------------------------------------------------
(* handleSave, for the workspaces selected at the press.                    *)
PressSave ==
    /\ FormUsable("scope") /\ page.save = NoSave /\ page.saves < MaxSaves
    /\ page' = [page EXCEPT !.saves = @ + 1,
                    !.save = [phase |-> IF page.mode = "create" THEN "post" ELSE "patch",
                              selected |-> page.selectedWorkspaces, delete |-> {}, add |-> {}]]
    /\ UNCHANGED server

(* Each creation is a collection of its own: one that a failure interrupted *)
(* stays behind with the references it had got, and `server` follows the    *)
(* new one.                                                                 *)
CollectionPosted ==
    /\ page.save.phase = "post"
    /\ page' = [page EXCEPT !.save.phase = "references", !.save.add = page.save.selected]
    /\ server' = [server EXCEPT !.references.workspaces = {}]

CollectionPatched ==
    /\ page.save.phase = "patch"
    /\ page' = [page EXCEPT !.save.phase = "list"]
    /\ UNCHANGED server

(* Bug to catch: a reference without a workspace is passed over.            *)
ListedWithWorkspaces ==
    /\ page.save.phase = "list"
    /\ page' = [page EXCEPT !.save.phase = "references",
            !.save.delete = server.references.workspaces \ page.save.selected,
            !.save.add = page.save.selected \ server.references.workspaces]
    /\ UNCHANGED server

(* Bug to catch: all references are deleted, and those selected made again. *)
ListedAnew ==
    /\ page.save.phase = "list"
    /\ page' = [page EXCEPT !.save.phase = "references",
            !.save.delete = server.references.workspaces, !.save.add = page.save.selected]
    /\ UNCHANGED server

ReferencesListed ==
    /\ page.save.phase = "list"
    /\ page' = [page EXCEPT
            !.save.phase = "references",
            !.save.delete = (server.references.workspaces \ page.save.selected)
                            \cup (IF server.references.dangling THEN {"deleted"} ELSE {}),
            !.save.add = page.save.selected \ server.references.workspaces]
    /\ UNCHANGED server

ReferenceDeleted ==
    /\ page.save.phase = "references"
    /\ \E ref \in page.save.delete :
         /\ page' = [page EXCEPT !.save.delete = @ \ {ref}]
         /\ \/ ref = "deleted" /\ server' = [server EXCEPT !.references.dangling = FALSE]
            \/ ref # "deleted" /\ server' = [server EXCEPT !.references.workspaces = @ \ {ref}]

ReferenceAdded ==
    /\ page.save.phase = "references" /\ page.save.delete = {}
    /\ \E w \in page.save.add :
         /\ page' = [page EXCEPT !.save.add = @ \ {w}]
         /\ server' = [server EXCEPT !.references.workspaces = @ \cup {w}]

Saved ==
    /\ page.save.phase = "references" /\ page.save.delete = {} /\ page.save.add = {}
    /\ page' = [page EXCEPT !.saved = TRUE, !.save.phase = "done"]
    /\ UNCHANGED server

CollectionSaveFails ==
    /\ page.save.phase \in {"post", "patch", "list", "references"}
    /\ page' = [page EXCEPT !.save = NoSave]
    /\ UNCHANGED server
--------------------------------------------------------------------------------
(* The variables of a collection that exists.  Adding or changing one is a  *)
(* request and a reload of the list, and so is removing one.  The first     *)
(* keeps the button of its modal busy and the second the whole page, but a  *)
(* modal closed over a request lets a removal begin: there are two slots.   *)
Begin(p, slot, does) ==
    [p EXCEPT !.ops[slot] = [IdleSlot EXCEPT !.phase = "request", !.does = does],
              !.raced = (\E other \in Slots \ {slot} : p.ops[other] # IdleSlot),
              !.clean = FALSE]

(* A new row is shown at once, under a temporary id.  In the model there is *)
(* at most one that stayed because its request failed.                      *)
HandleAddVariable ==
    /\ FormUsable("variables") /\ page.mode = "edit" /\ page.ops["write"] = IdleSlot
    /\ page.temporary = 0 /\ server.items # Items
    /\ page' = [Begin(page, "write", "post") EXCEPT !.temporary = 1]
    /\ UNCHANGED server

(* A temporary row is changed in place, any other by a PATCH; the model     *)
(* does not tell apart what a variable holds.                               *)
HandleUpdateVariable ==
    /\ FormUsable("variables") /\ page.mode = "edit" /\ page.ops["write"] = IdleSlot
    /\ page.variables # {}
    /\ page' = Begin(page, "write", "patch")
    /\ UNCHANGED server

HandleRemoveVariable ==
    /\ FormUsable("variables") /\ page.mode = "edit"
    /\ \/ page.temporary = 1 /\ page' = [page EXCEPT !.temporary = 0]
       \/ \E item \in page.variables : page' = Begin(page, "remove", item)
    /\ UNCHANGED server

VariableWritten(slot) ==
    /\ page.ops[slot].phase = "request"
    /\ page' = [page EXCEPT !.ops[slot].phase = "reload"]
    /\ LET does == page.ops[slot].does IN
       \/ /\ does = "post"
          /\ \E item \in Items \ server.items : server' = [server EXCEPT !.items = @ \cup {item}]
       \/ does = "patch" /\ UNCHANGED server
       \/ does \in Items /\ server' = [server EXCEPT !.items = @ \ {does}]

VariablesRead(slot) ==
    /\ page.ops[slot].phase = "reload"
    /\ page' = [page EXCEPT !.ops[slot] = [@ EXCEPT !.phase = "arriving", !.sees = server.items]]
    /\ UNCHANGED server

(* Bug to catch: a reload keeps the row under a temporary id.               *)
VariablesArriveBeside(slot) ==
    /\ page.ops[slot].phase = "arriving"
    /\ page' = [page EXCEPT !.variables = page.ops[slot].sees,
                            !.ops[slot] = IdleSlot, !.clean = ~ page.raced]
    /\ UNCHANGED server

VariablesArrive(slot) ==
    /\ page.ops[slot].phase = "arriving"
    /\ page' = [page EXCEPT !.variables = page.ops[slot].sees, !.temporary = 0,
                            !.ops[slot] = IdleSlot, !.clean = ~ page.raced]
    /\ UNCHANGED server

VariableFails(slot) ==
    /\ page.ops[slot].phase \in {"request", "reload"}
    /\ page' = [page EXCEPT !.ops[slot] = IdleSlot]
    /\ UNCHANGED server

CollectionNext ==
    /\ On("collection")
    /\ \/ CollectionLoaded \/ SelectWorkspaces
       \/ PressSave \/ CollectionPosted \/ CollectionPatched \/ ReferencesListed
       \/ ReferenceDeleted \/ ReferenceAdded \/ Saved \/ CollectionSaveFails
       \/ HandleAddVariable \/ HandleUpdateVariable \/ HandleRemoveVariable
       \/ \E slot \in Slots :
            \/ VariableWritten(slot) \/ VariablesRead(slot)
            \/ VariablesArrive(slot) \/ VariableFails(slot)
--------------------------------------------------------------------------------
(* A save that reports success leaves exactly the workspaces selected when  *)
(* Save was pressed with access, whatever earlier presses had half done,    *)
(* and no reference to a workspace that is gone.                            *)
ReferencesAsSelected ==
    On("collection") /\ page.saved =>
        server.references = [workspaces |-> page.save.selected, dangling |-> FALSE]

(* A workspace that could read the collection and that the user has not     *)
(* taken out keeps its access at every moment of every save, and when one   *)
(* fails: its jobs never run without the variables.                         *)
OnlyDeselectedLoseAccess ==
    On("collection") =>
        server.granted \ server.deselected \subseteq server.references.workspaces

(* A change of a variable that succeeded, and raced no other, leaves the    *)
(* table with what is stored, rows of earlier failures gone.                *)
TableAsStored ==
    On("collection") /\ page.clean =>
        page.variables = server.items /\ page.temporary = 0
================================================================================
