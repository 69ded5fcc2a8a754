-------------------------------- MODULE UiWebhook --------------------------------
(****************************************************************************)
(* The triggers of a workspace's webhook (Settings/Webhook.tsx) and the     *)
(* endpoint that stores them (HandleOperations): a table whose last row is  *)
(* a blank one to type into, and a number, recordIndex, that says how many  *)
(* rows above it count.  A save is one request of several operations.       *)
(****************************************************************************)
EXTENDS UiPage, SequencesExt

CONSTANTS
    EventIds, \* triggers: ids that the page makes up, and those stored already
    MaxRows,  \* bound on the rows of the table and on recordIndex
    MaxDeletes \* bound on the deletions that wait for their answer

(* There are finitely many ids.                                             *)
ASSUME EventsAssumption == IsFiniteSet(EventIds)

(* A row as far as typed: blank, incomplete or invalid, or complete.        *)
BlankRow(id) == [id |-> id, typed |-> "blank", created |-> FALSE]
Ids(rows) == {row.id : row \in Range(rows)}

(* uuid(): an id that nothing has; a step that needs one is taken as long   *)
(* as EventIds has one left.                                                *)
NewId(used) == CHOOSE id \in EventIds : id \notin used

(* loadWebhook: the stored triggers and a blank row.                        *)
LoadedRows(stored, used) ==
    LET ids == SetToSeq(stored)
        rows == [i \in DOMAIN ids |-> [id |-> ids[i], typed |-> "complete", created |-> TRUE]]
    IN  Append(rows, BlankRow(NewId(stored \cup used)))

FormMounted(webhookId, stored) ==
    [kind |-> "webhook", webhookId |-> webhookId, enabled |-> webhookId,
     load |-> webhookId, rows |-> <<BlankRow(NewId(stored))>>, recordIndex |-> 1,
     waiting |-> FALSE, deletes |-> {}, operations |-> <<>>, sent |-> <<>>,
     saved |-> FALSE, edited |-> FALSE, raced |-> FALSE]

WebhookInit ==
    \E stored \in SUBSET EventIds, hook \in BOOLEAN :
        /\ Cardinality(stored) < MaxRows /\ stored # EventIds /\ (stored # {} => hook)
        /\ server = [hook |-> hook, stored |-> stored]
        /\ page = FormMounted(hook, stored)
--------------------------------------------------------------------------------
InUse == server.stored \cup Ids(page.rows) \cup Ids(page.sent) \cup {d.id : d \in page.deletes}

(* Bug to catch: the blank row below the loaded ones is not counted.        *)
LoadArrivesShort ==
    /\ page.load /\ InUse # EventIds
    /\ page' = [page EXCEPT !.load = FALSE, !.rows = LoadedRows(server.stored, InUse),
                            !.recordIndex = Cardinality(server.stored),
                            !.raced = @ \/ page.edited, !.edited = FALSE, !.saved = FALSE]
    /\ UNCHANGED server

(* The load does not show the spinner: what is typed before it is lost.     *)
LoadArrives ==
    /\ page.load /\ InUse # EventIds
    /\ page' = [page EXCEPT !.load = FALSE, !.rows = LoadedRows(server.stored, InUse),
                            !.recordIndex = Cardinality(server.stored) + 1,
                            !.raced = @ \/ page.edited, !.edited = FALSE, !.saved = FALSE]
    /\ UNCHANGED server

FormShown == page.enabled /\ ~ page.waiting

(* handleEventChange: typing into the last row adds another.                *)
HandleEventChange ==
    /\ FormShown
    /\ \E i \in DOMAIN page.rows, typed \in {"incomplete", "complete"} :
         LET rows == [page.rows EXCEPT ![i].typed = typed] IN
         \/ /\ i = Len(rows) /\ Len(rows) < MaxRows /\ page.recordIndex <= MaxRows
            /\ InUse # EventIds
            /\ page' = [page EXCEPT !.rows = Append(rows, BlankRow(NewId(InUse))),
                            !.recordIndex = @ + 1, !.edited = page.load, !.saved = FALSE,
                            !.raced = @ \/ page.deletes # {}]
         \/ /\ i < Len(rows)
            /\ page' = [page EXCEPT !.rows = rows, !.edited = page.load, !.saved = FALSE]
    /\ UNCHANGED server

(* onDelete: the row goes at once; recordIndex only when the API confirms,  *)
(* to one less than it was at the click.                                    *)
OnDeleteRow ==
    /\ FormShown /\ InUse # EventIds /\ Cardinality(page.deletes) < MaxDeletes
    /\ \E i \in DOMAIN page.rows :
         LET left == RemoveAt(page.rows, i) IN
         page' = [page EXCEPT
            !.rows = IF left = <<>> THEN <<BlankRow(NewId(InUse))>> ELSE left,
            !.edited = page.load, !.saved = FALSE,
            !.deletes = IF page.rows[i].created
                        THEN @ \cup {[id |-> page.rows[i].id, recordIndex |-> page.recordIndex]}
                        ELSE @]
    /\ UNCHANGED server

DeleteAnswered ==
    \E d \in page.deletes :
        /\ page' = [page EXCEPT !.deletes = @ \ {d}, !.recordIndex = d.recordIndex - 1]
        /\ server' = [server EXCEPT !.stored = @ \ {d.id}]

DeleteFails ==
    \E d \in page.deletes :
        /\ page' = [page EXCEPT !.deletes = @ \ {d}]
        /\ UNCHANGED server

HandleWebhookClick ==
    /\ ~ page.waiting
    /\ page' = [page EXCEPT !.enabled = ~ @, !.saved = FALSE]
    /\ UNCHANGED server
--------------------------------------------------------------------------------
(* onFinish.  The rows above recordIndex are checked and sent: an operation *)
(* for the webhook, new unless its id is known, and one for each row.       *)
Counted == SubSeq(page.rows, 1, Min({Len(page.rows), page.recordIndex - 1}))

OnFinishSave ==
    /\ FormShown /\ page.rows # <<>>
    /\ \A i \in DOMAIN Counted : Counted[i].typed = "complete"
    /\ page' = [page EXCEPT
            !.waiting = TRUE,
            !.sent = [i \in DOMAIN page.rows |->
                        [page.rows[i] EXCEPT !.created = @ \/ i < page.recordIndex]],
            !.operations = <<[op |-> IF page.webhookId THEN "updateWebhook" ELSE "addWebhook",
                              id |-> None]>>
                \o [i \in DOMAIN Counted |->
                        [op |-> IF Counted[i].created THEN "update" ELSE "add",
                         id |-> Counted[i].id]]]
    /\ UNCHANGED server

(* The success is reported, and the table emptied, before the answer.       *)
OnFinishDisable ==
    /\ ~ page.enabled /\ ~ page.waiting
    /\ page' = [page EXCEPT !.rows = <<>>, !.edited = page.load]
    /\ server' = IF page.webhookId THEN [server EXCEPT !.hook = FALSE, !.stored = {}] ELSE server

(* HandleOperations: one operation after the other, each in a transaction   *)
(* of its own; an update of what is gone updates nothing and is no error.   *)
ExecuteOperation ==
    /\ page.operations # <<>>
    /\ LET operation == Head(page.operations) IN
       /\ page' = IF Len(page.operations) > 1
                   THEN [page EXCEPT !.operations = Tail(@)]
                   ELSE [page EXCEPT !.operations = <<>>, !.waiting = FALSE, !.saved = TRUE,
                                     !.rows = page.sent, !.sent = <<>>]
       /\ server' = CASE operation.op = "addWebhook" -> [server EXCEPT !.hook = TRUE]
                      [] operation.op = "add" -> [server EXCEPT !.stored = @ \cup {operation.id}]
                      [] OTHER -> server

(* What was done before the failure stays; the page waits for ever.         *)
OperationFails ==
    /\ page.operations # <<>>
    /\ page' = [page EXCEPT !.operations = <<>>]
    /\ UNCHANGED server

(* The page around the form polls the workspace and hands its webhook down. *)
WorkspacePolled ==
    /\ server.hook /\ ~ page.webhookId
    /\ page' = [page EXCEPT !.webhookId = TRUE]
    /\ UNCHANGED server

(* The user reloads the page.                                               *)
Reopened ==
    /\ page.deletes = {} /\ server.stored # EventIds
    /\ page' = FormMounted(server.hook, server.stored)
    /\ UNCHANGED server

WebhookNext ==
    /\ On("webhook")
    /\ \/ LoadArrives \/ HandleEventChange \/ OnDeleteRow \/ DeleteAnswered \/ DeleteFails
       \/ HandleWebhookClick \/ OnFinishSave \/ OnFinishDisable
       \/ ExecuteOperation \/ OperationFails \/ WorkspacePolled \/ Reopened
--------------------------------------------------------------------------------
(* A save that reports success has stored every trigger that the user       *)
(* completed, however rows were added and removed before, and whatever an   *)
(* earlier save had half done; unless a row was begun while a deletion was  *)
(* being answered or the triggers loaded over rows already typed, when the  *)
(* count of rows is wrong and the last ones are dropped.                    *)
SavedTriggersAreStored ==
    On("webhook") /\ page.saved /\ ~ page.raced =>
        \A i \in DOMAIN page.rows :
            page.rows[i].typed = "complete" => page.rows[i].id \in server.stored
================================================================================
