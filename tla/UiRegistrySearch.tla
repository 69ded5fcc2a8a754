----------------------------- MODULE UiRegistrySearch -----------------------------
(****************************************************************************)
(* The page that imports from the public registry                           *)
(* (Modules/PublicRegistrySearch.tsx, Providers/providerService.ts): it     *)
(* searches, asks for the versions of a provider, and creates the provider, *)
(* its version and its platforms one after the other.                       *)
(****************************************************************************)
EXTENDS UiPage

CONSTANTS
    Providers, PublicModules,  \* what the public registry has
    Platforms,                 \* of every version: those both sides know
    MaxImports                 \* of one item, the bound of the model

ASSUME SearchAssumption == None \notin Providers \cup PublicModules

Listed == Providers \cup PublicModules
Tabs == {"modules", "providers"}
ItemsOf(tab) == IF tab = "providers" THEN Providers ELSE PublicModules

NoImport == [stage |-> "none", item |-> None, versionsOf |-> None]
NotImported == [count |-> 0, versionOf |-> None, platforms |-> {}, stopped |-> FALSE]

SearchInit ==
    /\ page = [kind |-> "search", tab |-> "modules", searched |-> FALSE, results |-> {},
               searches |-> {}, existing |-> {}, loadingExisting |-> TRUE, existingFailed |-> FALSE,
               modal |-> None, versionLoads |-> {}, loadingVersions |-> FALSE,
               versionsOf |-> None, importing |-> NoImport]
    /\ server \in {[i \in Listed |-> IF i \in before THEN [NotImported EXCEPT !.count = 1] ELSE NotImported] :
                    before \in SUBSET Listed}

(* fetchExistingItems: providers, then modules; a failure leaves out what   *)
(* was to come.                                                             *)
Imported == {i \in Listed : server[i].count > 0}

ExistingArrive ==
    /\ page.loadingExisting
    /\ \E failed \in {{}, PublicModules, Listed} :
        Change([page EXCEPT !.loadingExisting = FALSE, !.existingFailed = failed # {},
                            !.existing = Imported \ failed])

(* handleSearch and handleTabChange: what was typed last is looked for on   *)
(* the tab in front.                                                        *)
HandleSearch ==
    /\ page.modal = None
    /\ Change([page EXCEPT !.searched = TRUE, !.searches = @ \cup {page.tab}])

HandleTabChange ==
    /\ page.modal = None
    /\ LET tab == IF page.tab = "modules" THEN "providers" ELSE "modules" IN
       Change([page EXCEPT !.tab = tab, !.searches = IF page.searched THEN @ \cup {tab} ELSE @])

ResultsArrive(tab) ==
    \E found \in BOOLEAN :
        Change([page EXCEPT !.searches = @ \ {tab},
                            !.results = IF found THEN @ \cup {tab} ELSE @ \ {tab}])
--------------------------------------------------------------------------------
(* Bug to catch: the card of what is there already can be added again.      *)
OpenAnyModal(item) ==
    /\ page.modal = None /\ ~ page.loadingExisting
    /\ item \in ItemsOf(page.tab) /\ page.tab \in page.results
    /\ Change(IF item \in Providers
              THEN [page EXCEPT !.modal = item, !.versionsOf = None, !.loadingVersions = TRUE,
                                !.versionLoads = @ \cup {item}]
              ELSE [page EXCEPT !.modal = item])

(* openAddModal, from the card of what is not in the registry yet: the      *)
(* versions of a provider come later, and those of the one before as well.  *)
OpenAddModal(item) ==
    /\ page.modal = None /\ ~ page.loadingExisting
    /\ item \in ItemsOf(page.tab) /\ page.tab \in page.results /\ item \notin page.existing
    /\ Change(IF item \in Providers
              THEN [page EXCEPT !.modal = item, !.versionsOf = None, !.loadingVersions = TRUE,
                                !.versionLoads = @ \cup {item}]
              ELSE [page EXCEPT !.modal = item])

(* The first of the versions is selected, or there is an error and none.    *)
VersionsArrive(item) ==
    \/ Change([page EXCEPT !.versionLoads = @ \ {item}, !.loadingVersions = FALSE,
                           !.versionsOf = item])
    \/ Change([page EXCEPT !.versionLoads = @ \ {item}, !.loadingVersions = FALSE])

CloseModal(p) == [p EXCEPT !.modal = None, !.versionsOf = None, !.importing = NoImport]

Cancel ==
    /\ page.modal # None /\ page.importing = NoImport
    /\ Change(CloseModal(page))

(* "Import", when a version is selected: handleAddProvider checks the       *)
(* version against the list it has, handleAddModule has none to check.      *)
HandleAdd ==
    /\ page.modal # None /\ page.importing = NoImport /\ ~ page.loadingVersions
    /\ page.modal \in Providers => page.versionsOf # None
    /\ server[page.modal].count < MaxImports
    /\ Change([page EXCEPT !.importing =
                [stage |-> "create", item |-> page.modal, versionsOf |-> page.versionsOf]])
--------------------------------------------------------------------------------
Item == page.importing.item
AtStage(stage) == [page EXCEPT !.importing.stage = stage]
Registry == [CloseModal(page) EXCEPT !.kind = "left"]

(* createProvider, or the POST of the module, which is all there is to it.  *)
CreateItem ==
    /\ page.importing.stage = "create"
    /\ server' = [server EXCEPT ![Item].count = @ + 1]
    /\ page' = IF Item \in Providers THEN AtStage("version") ELSE Registry

CreateVersion ==
    /\ page.importing.stage = "version"
    /\ server' = [server EXCEPT ![Item].versionOf = page.importing.versionsOf]
    /\ page' = AtStage("platforms")

(* Downloads and platforms that fail are skipped: a version that is not     *)
(* this provider's has none of them, and all are reported as added.         *)
CreateImplementations ==
    /\ page.importing.stage = "platforms"
    /\ \E created \in IF server[Item].versionOf = Item THEN SUBSET Platforms ELSE {{}} :
         server' = [server EXCEPT ![Item].platforms = created]
    /\ page' = [AtStage("added") EXCEPT !.existing = @ \cup {Item}]

(* A second later the registry takes over.                                  *)
Leave == page.importing.stage = "added" /\ page' = Registry /\ UNCHANGED server

(* An error ends the import where it is; what was created stays, and is not *)
(* among what the page knows to exist.                                      *)
ImportFails ==
    /\ page.importing.stage \in {"create", "version"}
    /\ page' = [page EXCEPT !.importing = NoImport]
    /\ server' = [server EXCEPT ![Item].stopped = @ \/ page.importing.stage = "version"]

SearchNext ==
    /\ On("search")
    /\ \/ ExistingArrive \/ HandleSearch \/ HandleTabChange \/ Cancel \/ HandleAdd
       \/ CreateItem \/ CreateVersion \/ CreateImplementations \/ Leave \/ ImportFails
       \/ \E tab \in page.searches : ResultsArrive(tab)
       \/ \E item \in Listed : OpenAddModal(item)
       \/ \E item \in page.versionLoads : VersionsArrive(item)
--------------------------------------------------------------------------------
(* Nothing is put in the registry twice, unless an import stopped halfway   *)
(* or the page could not learn what there was.                              *)
ImportedOnce ==
    On("search") => \A i \in Listed :
        server[i].count > 1 => page.existingFailed \/ server[i].stopped
================================================================================
