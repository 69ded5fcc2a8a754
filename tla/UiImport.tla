-------------------------------- MODULE UiImport --------------------------------
(****************************************************************************)
(* The wizard that imports workspaces of Terraform Cloud (Import.tsx):      *)
(* platform, type, VCS provider, connection, then a table of workspaces to  *)
(* select from, a modal that reviews them one by one, and an import of one  *)
(* after the other.  The importer service itself is outside the repository. *)
(****************************************************************************)
EXTENDS UiPage, SequencesExt

CONSTANTS
    ImportWorkspaces,   \* what Terraform Cloud lists
    SensitiveVariables, \* of every workspace
    Collections,        \* of the organization in Terrakube
    MaxAdditional,      \* bound on the rows the user adds in a review
    MaxLists            \* bound on the requests for the list under way

(* An orderly choice of workspaces: the table keeps the order of selection. *)
Selections == UNION {{s \in [1 .. n -> ImportWorkspaces] : IsInjective(s)} :
                        n \in 0 .. Cardinality(ImportWorkspaces)}

(* What a workspace starts its review with: one row for its one collection, *)
(* or none when the list failed to load, and its sensitive variables.       *)
Row(isAdditional) == [isAdditional |-> isAdditional, collection |-> None]
MappingRows(failed) == IF failed THEN <<>> ELSE <<Row(FALSE)>>
SensitiveVariableDrafts == [v \in SensitiveVariables |-> None]

ImportInit ==
    /\ page = [kind |-> "import", current |-> 0, versionControlFlow |-> TRUE,
               formShown |-> FALSE, listShown |-> FALSE, vcsId |-> None,
               listRequests |-> 0, listLoading |-> FALSE, workspaces |-> {},
               selected |-> <<>>, detailsFor |-> <<>>, mappings |-> <<>>, drafts |-> <<>>,
               modalOpen |-> FALSE, index |-> 1,
               importing |-> FALSE, todo |-> <<>>, progress |-> <<>>]
    /\ server = [imported |-> <<>>, reviewed |-> {}, picked |-> {}, discarded |-> {}]
--------------------------------------------------------------------------------
(* The steps.  handleChange is also the onChange of the bar of steps, which *)
(* has one entry less in the CLI flow.                                      *)
StepItems(p) == 0 .. (IF p.versionControlFlow THEN 4 ELSE 3)

HandleChange(p, step) ==
    [p EXCEPT !.current = step,
              !.formShown = step = 3,
              !.listShown = step = 4,
              !.versionControlFlow = @ \/ step \in {0, 1}]

(* Neither the modal nor the progress list leaves anything else to press.   *)
WizardShown == ~ page.modalOpen /\ ~ page.importing

ClickStep ==
    /\ WizardShown
    /\ \E step \in StepItems(page) : page' = HandleChange(page, step)
    /\ UNCHANGED server

HandlePlatformClick ==
    /\ WizardShown /\ page.current = 0
    /\ page' = [page EXCEPT !.current = 1]
    /\ UNCHANGED server

HandleClick ==
    /\ WizardShown /\ page.current = 1
    /\ page' = [page EXCEPT !.current = 2, !.versionControlFlow = TRUE]
    /\ UNCHANGED server

HandleCliDriven ==
    /\ WizardShown /\ page.current = 1
    /\ page' = [page EXCEPT !.current = 2, !.versionControlFlow = FALSE, !.formShown = TRUE]
    /\ UNCHANGED server

HandleGitClick(id) ==
    /\ WizardShown /\ page.current = 2 /\ page.versionControlFlow
    /\ page' = HandleChange([page EXCEPT !.vcsId = id], 3)
    /\ UNCHANGED server

(* onFinish                                                                 *)
OnFinish ==
    /\ WizardShown /\ page.formShown /\ page.listRequests < MaxLists
    /\ page' = [HandleChange(page, 4) EXCEPT !.listLoading = TRUE, !.listRequests = @ + 1]
    /\ UNCHANGED server

ListArrives ==
    /\ page.listRequests > 0
    /\ page' = [page EXCEPT !.listRequests = @ - 1, !.listLoading = FALSE,
                            !.workspaces = ImportWorkspaces, !.selected = <<>>,
                            !.progress = <<>>, !.mappings = <<>>, !.drafts = <<>>]
    /\ UNCHANGED server

ListFails ==
    /\ page.listRequests > 0
    /\ page' = [page EXCEPT !.listRequests = @ - 1, !.listLoading = FALSE]
    /\ UNCHANGED server

(* The spinner over the table takes no clicks while the list loads; while   *)
(* the details load the button takes none, but the table does.              *)
TableShown == WizardShown /\ page.listShown /\ ~ page.listLoading

SelectRows ==
    /\ TableShown
    /\ \E s \in Selections :
          /\ Range(s) \subseteq page.workspaces
          /\ page' = [page EXCEPT !.selected = s]
    /\ UNCHANGED server
--------------------------------------------------------------------------------
(* The review: the rows and drafts that the modal edits.  A modal that opens *)
(* starts with new ones, so those of a closed one are never read again and  *)
(* the model forgets them.                                                  *)
CloseModal(p) ==
    [p EXCEPT !.modalOpen = FALSE, !.index = 1, !.mappings = <<>>, !.drafts = <<>>]
NothingReviewed(s) == [s EXCEPT !.reviewed = {}, !.picked = {}, !.discarded = {}]

(* handleImportClick: the details of the workspaces selected now are loaded *)
(* by four workers; loadWorkspaceImportData puts them back by workspace.    *)
HandleImportClick ==
    /\ TableShown /\ page.selected # <<>> /\ page.detailsFor = <<>>
    /\ page' = [page EXCEPT !.detailsFor = @ \o page.selected]
    /\ UNCHANGED server

(* Bug to catch: a list of sensitive variables that failed counts as empty. *)
DetailsArriveAnyway ==
    /\ page.detailsFor # <<>>
    /\ \E failed \in SUBSET Range(page.detailsFor) :
         page' = [page EXCEPT
            !.detailsFor = <<>>,
            !.mappings = [w \in Range(page.detailsFor) |-> MappingRows(FALSE)],
            !.drafts = [w \in Range(page.detailsFor) \ failed |-> SensitiveVariableDrafts],
            !.progress = <<>>, !.index = 1, !.modalOpen = TRUE]
    /\ server' = [server EXCEPT !.reviewed = Range(page.detailsFor), !.picked = {}, !.discarded = {}]

(* A collection list that failed is only warned of, a list of sensitive     *)
(* variables that failed ends the attempt and leaves all as it was.         *)
DetailsArrive ==
    /\ page.detailsFor # <<>>
    /\ LET asked == Range(page.detailsFor) IN
       \E failedCollections, failedSensitiveVariables \in SUBSET asked :
         IF failedSensitiveVariables # {}
         THEN page' = [page EXCEPT !.detailsFor = <<>>] /\ UNCHANGED server
         ELSE /\ page' = [page EXCEPT
                    !.detailsFor = <<>>,
                    !.mappings = [w \in asked |-> MappingRows(w \in failedCollections)],
                    !.drafts = [w \in asked |-> SensitiveVariableDrafts],
                    !.progress = <<>>, !.index = 1, !.modalOpen = TRUE]
              /\ server' = [server EXCEPT !.reviewed = asked, !.picked = {}, !.discarded = {}]

(* The workspace that the modal shows, of those selected by now.            *)
Shows(w) ==
    /\ page.modalOpen
    /\ page.index \in DOMAIN page.selected /\ w = page.selected[page.index]

RowsOf(p, w) == IF w \in DOMAIN p.mappings THEN p.mappings[w] ELSE <<>>
DraftsOf(p, w) == IF w \in DOMAIN p.drafts THEN p.drafts[w] ELSE <<>>

(* getSelectedCollectionIds                                                 *)
CollectionIds(p, w) == {row.collection : row \in Range(RowsOf(p, w))} \ {None}

(* { ...previous, [key]: value }, and delete previous[key].                 *)
With(f, key, value) == [k \in DOMAIN f \cup {key} |-> IF k = key THEN value ELSE f[k]]
Without(f, key) == [k \in DOMAIN f \ {key} |-> f[k]]

UpdateCurrentWorkspaceMappings(w, rows) ==
    /\ page' = [page EXCEPT !.mappings = With(@, w, rows)]
    /\ server' = [server EXCEPT !.picked =
                    {pick \in @ : pick[1] # w} \cup
                     {<<w, c>> : c \in {row.collection : row \in Range(rows)} \ {None}}]

HandleMappingSelectionChange(w) ==
    /\ Shows(w)
    /\ \E i \in DOMAIN RowsOf(page, w), c \in Collections \cup {None} :
          UpdateCurrentWorkspaceMappings(w, [RowsOf(page, w) EXCEPT ![i].collection = c])

HandleAddAdditionalCollection(w) ==
    /\ Shows(w)
    /\ Len(SelectSeq(RowsOf(page, w), LAMBDA row : row.isAdditional)) < MaxAdditional
    /\ UpdateCurrentWorkspaceMappings(w, Append(RowsOf(page, w), Row(TRUE)))

HandleRemoveAdditionalCollection(w) ==
    /\ Shows(w)
    /\ \E i \in DOMAIN RowsOf(page, w) :
          /\ RowsOf(page, w)[i].isAdditional
          /\ UpdateCurrentWorkspaceMappings(w, RemoveAt(RowsOf(page, w), i))

HandleSensitiveVariableValueChange(w) ==
    /\ Shows(w)
    /\ \E v \in DOMAIN DraftsOf(page, w), value \in {None, "value"} :
          page' = [page EXCEPT !.drafts[w][v] = value]
    /\ UNCHANGED server

HandleRemoveSensitiveVariable(w) ==
    /\ Shows(w)
    /\ \E v \in DOMAIN DraftsOf(page, w) :
          /\ page' = [page EXCEPT !.drafts[w] = Without(@, v)]
          /\ server' = [server EXCEPT !.discarded = @ \cup {<<w, v>>}]

HandleCloseMappingModal ==
    /\ page.modalOpen
    /\ page' = CloseModal(page)
    /\ server' = NothingReviewed(server)

Request(p, w) == [workspace |-> w, vcsId |-> p.vcsId,
                  collections |-> CollectionIds(p, w), variables |-> DOMAIN DraftsOf(p, w)]

(* handleNextWorkspaceMapping: the last "Next" starts the import, of what   *)
(* is selected and mapped at this click; with no workspace to show, because *)
(* the list was loaded again, it closes.                                    *)
HandleNextWorkspaceMapping ==
    /\ page.modalOpen
    /\ \/ /\ page.index > Len(page.selected)
          /\ page' = CloseModal(page)
          /\ server' = NothingReviewed(server)
       \/ /\ page.index < Len(page.selected)
          /\ page' = [page EXCEPT !.index = @ + 1]
          /\ UNCHANGED server
       \/ /\ page.index = Len(page.selected)
          /\ page' = [CloseModal(page) EXCEPT
                !.importing = TRUE,
                !.todo = [i \in DOMAIN page.selected |-> Request(page, page.selected[i])],
                !.progress = [w \in Range(page.selected) |-> "Importing..."]]
          /\ UNCHANGED server
--------------------------------------------------------------------------------
(* Bug to catch: a status goes to every row, whatever its id.               *)
SetProgressOfAll(p, w, result) == [v \in DOMAIN p.progress |-> result]

(* importWorkspace of the next workspace; its status replaces that of the   *)
(* row with its id, if there is one.                                        *)
SetImportProgress(p, w, result) ==
    IF w \in DOMAIN p.progress THEN [p.progress EXCEPT ![w] = result] ELSE p.progress

ImportAnswered(result) ==
    /\ page.importing /\ page.todo # <<>>
    /\ LET request == Head(page.todo) IN
       /\ page' = [page EXCEPT !.todo = Tail(@),
                    !.progress = SetImportProgress(page, request.workspace, result)]
       /\ server' = [server EXCEPT !.imported =
                        IF result = "imported" THEN Append(@, request) ELSE @]

ImportNext ==
    /\ On("import")
    /\ \/ ClickStep \/ HandlePlatformClick \/ HandleClick \/ HandleCliDriven
       \/ HandleGitClick("provider")
       \/ OnFinish \/ ListArrives \/ ListFails
       \/ SelectRows \/ HandleImportClick \/ DetailsArrive
       \/ \E w \in ImportWorkspaces :
            \/ HandleMappingSelectionChange(w)
            \/ HandleAddAdditionalCollection(w)
            \/ HandleRemoveAdditionalCollection(w)
            \/ HandleSensitiveVariableValueChange(w)
            \/ HandleRemoveSensitiveVariable(w)
       \/ HandleCloseMappingModal \/ HandleNextWorkspaceMapping
       \/ \E result \in {"imported", "failed"} : ImportAnswered(result)
--------------------------------------------------------------------------------
(* A workspace whose details were loaded for this review is imported with   *)
(* every sensitive variable it has but those the user discarded, and with   *)
(* just the collections picked for it: nothing of another workspace or an   *)
(* earlier review, and nothing missing because a list failed to load.       *)
ImportedAsReviewed ==
    On("import") =>
        \A i \in DOMAIN server.imported :
            LET request == server.imported[i]
                w == request.workspace
            IN  w \in server.reviewed =>
                /\ request.variables = {v \in SensitiveVariables : <<w, v>> \notin server.discarded}
                /\ request.collections = {c \in Collections : <<w, c>> \in server.picked}

(* No workspace is imported twice, each row of the progress list tells what *)
(* became of its own workspace, and the last answer leaves none waiting.    *)
ProgressTellsTheTruth ==
    On("import") =>
        LET imported == {r.workspace : r \in Range(server.imported)} IN
        /\ Cardinality(imported) = Len(server.imported)
        /\ \A w \in DOMAIN page.progress :
             /\ page.progress[w] = "imported" <=> w \in imported
             /\ page.progress[w] = "Importing..." <=> w \in {r.workspace : r \in Range(page.todo)}
================================================================================
