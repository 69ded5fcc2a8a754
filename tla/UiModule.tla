-------------------------------- MODULE UiModule --------------------------------
(****************************************************************************)
(* The page of a module in the registry (Modules/Details.tsx).  It shows    *)
(* one version, of the module itself or of one of its submodules: a readme  *)
(* and what the Terraform files declare.  Every click asks for both anew    *)
(* and nothing is aborted.                                                  *)
(****************************************************************************)
EXTENDS UiPage

CONSTANTS
    Versions,    \* of the module
    Submodules,  \* directories under modules/
    MaxClicks    \* bound on the clicks

(* The module itself, as a submodule.                                       *)
Root == ""
ASSUME ModuleAssumption == Root \notin Submodules

Loading == "loading..."
LoadFailed == "failed"
Nothing == "nothing"

(* What readmes and files belong to.                                        *)
Part(version, submodule) == [version |-> version, submodule |-> submodule]
Status(text) == [status |-> text]
Content(version, submodule) ==
    [status |-> "shown", version |-> version, submodule |-> submodule]

ModuleInit ==
    /\ page = [kind |-> "module", loaded |-> Loading, clicks |-> 0, version |-> None,
               submodule |-> Root, submodules |-> {}, markdown |-> Status(Loading),
               hcl |-> Status(Loading), readmes |-> {}, details |-> {},
               overtaken |-> FALSE, lost |-> FALSE]
    /\ server \in [latest : Versions, deleted : {FALSE}]

Current == Part(page.version, page.submodule)

(* loadReadme and loadModuleDetails.                                        *)
LoadReadme(p, version) == [p EXCEPT !.readmes = @ \cup {Part(version, Root)}]
LoadModuleDetails(p, part) ==
    [p EXCEPT !.hcl = Status(Loading), !.details = @ \cup {[stage |-> "download", part |-> part]}]

ModuleArrives ==
    /\ page.loaded = Loading
    /\ \/ Change([LoadModuleDetails(LoadReadme(page, server.latest), Part(server.latest, Root))
                    EXCEPT !.loaded = "loaded", !.version = server.latest])
       \/ Change([page EXCEPT !.loaded = LoadFailed])

ReadmeArrives(part) ==
    \E markdown \in {Content(part.version, part.submodule), Status(Nothing)} :
        Change([page EXCEPT !.readmes = @ \ {part}, !.markdown = markdown,
                            !.overtaken = @ \/ part # Current])

(* The address of an archive, which is fetched and unpacked by itself.      *)
DownloadArrives(load) ==
    /\ load.stage = "download"
    /\ \/ Change([page EXCEPT !.details = (@ \ {load}) \cup {[load EXCEPT !.stage = "files"]}])
       \/ Change([page EXCEPT !.details = @ \ {load}, !.hcl = Status(LoadFailed),
                              !.overtaken = @ \/ load.part # Current])

(* readFiles: the files at the top of the module, and the list of its       *)
(* submodules; or those of a submodule, with its readme if there is one.    *)
ReadFiles(load) ==
    /\ load.stage = "files"
    /\ \E readme \in BOOLEAN :
        LET content == Content(load.part.version, load.part.submodule)
            p == [page EXCEPT !.details = @ \ {load}, !.hcl = content,
                              !.overtaken = @ \/ load.part # Current] IN
        Change(IF load.part.submodule = Root THEN [p EXCEPT !.submodules = Submodules]
               ELSE IF readme THEN [p EXCEPT !.markdown = content] ELSE p)

(* An archive that cannot be fetched or parsed is not caught: the tabs say  *)
(* "loading..." from then on.                                               *)
ReadFilesThrows(load) ==
    /\ load.stage = "files"
    /\ Change([page EXCEPT !.details = @ \ {load}, !.lost = TRUE])
--------------------------------------------------------------------------------
Click == page.loaded = "loaded" /\ page.clicks < MaxClicks
Clicked(p) == [p EXCEPT !.clicks = @ + 1]

(* handleClick: the list of versions is there for the module itself only.   *)
HandleClick(version) ==
    /\ Click /\ page.submodule = Root
    /\ Change(LoadModuleDetails(LoadReadme([Clicked(page) EXCEPT !.markdown = Status(Loading),
                    !.version = version], version), Part(version, Root)))

(* The readme of the submodule comes with its files; the page says          *)
(* "loading..." of one that has none, unless it said so before.             *)
OnClickSubmodule(submodule) ==
    /\ Click /\ submodule \in page.submodules
    /\ Change(LoadModuleDetails([Clicked(page) EXCEPT !.submodule = submodule,
                    !.markdown = Status(IF @ = Status(Loading) THEN Nothing ELSE Loading)],
                    Part(page.version, submodule)))

(* Bug to catch: the way back asks for the readme only.                     *)
BackKeepsDetails ==
    /\ Click /\ page.submodule # Root
    /\ Change(LoadReadme([Clicked(page) EXCEPT !.submodule = Root,
                    !.markdown = Status(Loading)], page.version))

HandleClickBack ==
    /\ Click /\ page.submodule # Root
    /\ Change(LoadReadme(LoadModuleDetails([Clicked(page) EXCEPT !.submodule = Root,
                    !.markdown = Status(Loading)], Part(page.version, Root)), page.version))

OnDelete ==
    /\ page.loaded = "loaded"
    /\ server' = [server EXCEPT !.deleted = TRUE] /\ page' = Elsewhere

ModuleNext ==
    /\ On("module")
    /\ \/ ModuleArrives \/ HandleClickBack \/ OnDelete
       \/ \E part \in page.readmes : ReadmeArrives(part)
       \/ \E load \in page.details :
            DownloadArrives(load) \/ ReadFiles(load) \/ ReadFilesThrows(load)
       \/ \E version \in Versions : HandleClick(version)
       \/ \E submodule \in Submodules : OnClickSubmodule(submodule)
--------------------------------------------------------------------------------
(* Once nothing is out, the readme and the declarations on the page are     *)
(* those of the version and the submodule its header and its usage          *)
(* instructions name, through any sequence of clicks, unless an answer was  *)
(* overtaken by a later click or an archive could not be read.              *)
ContentOfTheHeader ==
    On("module") /\ page.loaded = "loaded" /\ page.readmes = {} /\ page.details = {}
    /\ ~ page.overtaken /\ ~ page.lost =>
        /\ page.hcl \in {Content(page.version, page.submodule), Status(LoadFailed)}
        /\ page.markdown \in {Content(page.version, page.submodule), Status(Nothing)}
                \cup (IF page.submodule = Root THEN {} ELSE {Status(Loading)})
================================================================================
