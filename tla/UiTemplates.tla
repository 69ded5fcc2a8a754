------------------------------- MODULE UiTemplates -------------------------------
(****************************************************************************)
(* The page of an organization's templates: the list, and in its place      *)
(* AddTemplate, a wizard of three steps, or EditTemplate.  Both keep the    *)
(* text (TCL) of a template in a code editor that knows only its first      *)
(* text; the API keeps it in base64, which the page decodes as ASCII.       *)
(****************************************************************************)
EXTENDS UiPage

CONSTANTS
    Templates,     \* the ids of templates
    NewTemplates,  \* those of templates that are not there at first
    Ascii,         \* texts, of ASCII characters
    MaxTyped,      \* how often a text is changed in an editor
    MaxSubmits     \* how often a template is submitted

Texts == Ascii \cup {"utf"}
Blank == ""

(* Buffer.toString("ascii") drops the eighth bit of each byte.              *)
Decoded(text) == IF text = "utf" THEN "garbled" ELSE text

(* An editor that is not on screen any more has no text.                    *)
NoEditor == [ref |-> "null", text |-> Blank]
GetValue(p) == IF p.editor.ref = "live" THEN p.editor.text ELSE Blank

Fresh(p) == [p EXCEPT !.current = 0, !.tcl = Blank, !.editor = NoEditor,
                      !.typed = FALSE, !.early = FALSE, !.chosen = Blank]

TemplatesInit ==
    /\ page = [kind |-> "templates", mode |-> "list", list |-> "pending", templates |-> {},
               id |-> None, loaded |-> FALSE, changes |-> 0, saved |-> 0, saves |-> {},
               current |-> 0, tcl |-> Blank, editor |-> NoEditor, typed |-> FALSE,
               early |-> FALSE, chosen |-> Blank]
    /\ server \in {f \in [Templates -> Texts \cup {None}] :
                     \A t \in Templates : f[t] = None <=> t \in NewTemplates}

(* A template that is opened reads the list again (useEffect on its id).    *)
TemplatesArrive ==
    /\ page.list = "pending"
    /\ Change([page EXCEPT !.list = "read", !.templates = {t \in Templates : server[t] # None}])
TemplatesFail ==
    /\ page.list = "pending"
    /\ \/ Change([page EXCEPT !.list = "read"])
       \/ Change(Elsewhere)

OnAddVCS ==
    /\ page.mode = "list"
    /\ Change([Fresh(page) EXCEPT !.mode = "new"])
OnEditVCS(t) ==
    /\ page.mode = "list" /\ t \in page.templates
    /\ Change([Fresh(page) EXCEPT !.mode = "edit", !.id = t, !.loaded = FALSE,
                                  !.list = IF t = page.id THEN @ ELSE "pending"])

(* Without its template EditTemplate offers nothing.                        *)
LoadTemplate ==
    /\ page.mode = "edit" /\ ~ page.loaded /\ server[page.id] # None
    /\ Change([page EXCEPT !.loaded = TRUE, !.tcl = Decoded(server[page.id]),
                           !.chosen = server[page.id]])
LoadTemplateFails ==
    /\ page.mode = "edit" /\ ~ page.loaded
    /\ Change(Elsewhere)
--------------------------------------------------------------------------------
HasEditor == (page.mode = "new" /\ page.current = 1) \/ (page.mode = "edit" /\ page.loaded)

(* The editor is loaded from elsewhere, and starts with its defaultValue.   *)
EditorMounts ==
    /\ HasEditor /\ page.editor.ref # "live"
    /\ Change([page EXCEPT !.editor = [ref |-> "live", text |-> page.tcl]])

Type(text) ==
    /\ HasEditor /\ page.editor.ref = "live" /\ page.changes < MaxTyped
    /\ Change([page EXCEPT !.editor.text = text, !.typed = TRUE, !.changes = @ + 1])

(* The editor of the second step goes with it; editorRef stays.             *)
Go(p, step) ==
    [p EXCEPT !.current = step,
              !.editor = IF p.current = 1 /\ step # 1 /\ @.ref = "live"
                         THEN [ref |-> "gone", text |-> Blank] ELSE @]

(* A card of the first step gives the text of a predefined template.        *)
HandleClick(text) ==
    /\ page.mode = "new" /\ page.current = 0
    /\ Change([Go(page, 1) EXCEPT !.tcl = Decoded(text), !.chosen = text,
                                  !.typed = FALSE, !.early = FALSE])

(* The steps can be clicked, whatever has been done in them; what an editor *)
(* held is not kept.                                                        *)
HandleChange(step) ==
    /\ page.mode = "new" /\ step # page.current
    /\ Change([Go(page, step) EXCEPT !.typed = FALSE])

(* Bug to catch: Continue takes the text the editor started with.           *)
HandleContinueStale ==
    /\ page.mode = "new" /\ page.current = 1
    /\ Change([Go(page, 2) EXCEPT !.chosen = IF page.typed THEN page.editor.text ELSE @,
                                  !.early = @ \/ page.editor.ref = "gone",
                                  !.typed = FALSE])

(* Continue goes on, and then reads the editor if there has been one.       *)
HandleContinue ==
    /\ page.mode = "new" /\ page.current = 1
    /\ Change([Go(page, 2) EXCEPT
            !.tcl = IF page.editor.ref = "null" THEN @ ELSE GetValue(page),
            !.chosen = IF page.typed THEN page.editor.text ELSE @,
            !.early = @ \/ page.editor.ref = "gone",
            !.typed = FALSE])

(* The name is the form's own, and required.  EditTemplate cannot be saved  *)
(* before its editor is there.                                              *)
OnFinish ==
    /\ \/ page.mode = "new" /\ page.current = 2
       \/ page.mode = "edit" /\ page.loaded /\ page.editor.ref = "live"
    /\ page.saved < MaxSubmits
    /\ LET new == page.mode = "new" IN
         Change([page EXCEPT !.saved = @ + 1, !.saves = @ \cup
            {[mode |-> page.mode, id |-> IF new THEN None ELSE page.id,
              text |-> IF new THEN page.tcl ELSE page.editor.text,
              chosen |-> IF ~ new /\ page.typed THEN page.editor.text ELSE page.chosen,
              early |-> new /\ page.early]}])

SaveAnswered(s) ==
    /\ page' = [page EXCEPT !.saves = @ \ {s}, !.mode = "list", !.list = "pending"]
    /\ IF s.mode = "edit"
       THEN server[s.id] # None /\ server' = [server EXCEPT ![s.id] = s.text]
       ELSE \E t \in NewTemplates : server[t] = None /\ server' = [server EXCEPT ![t] = s.text]

SaveFails(s) == Change([page EXCEPT !.saves = @ \ {s}])

OnDelete(t) ==
    /\ page.mode = "list" /\ t \in page.templates
    /\ page' = [page EXCEPT !.list = "pending"]
    /\ server' = [server EXCEPT ![t] = None]

TemplatesNext ==
    /\ On("templates")
    /\ \/ TemplatesArrive \/ TemplatesFail \/ OnAddVCS \/ LoadTemplate \/ LoadTemplateFails
       \/ EditorMounts \/ HandleContinue \/ OnFinish
       \/ \E t \in Templates : OnEditVCS(t) \/ OnDelete(t)
       \/ \E text \in Ascii : HandleClick(text)
       \/ \E text \in Texts : Type(text)
       \/ \E step \in 0..2 : HandleChange(step)
       \/ \E s \in page.saves : SaveAnswered(s) \/ SaveFails(s)
--------------------------------------------------------------------------------
(* A template is saved with the text last chosen or typed and continued     *)
(* with, or with that it had, through the steps and the editors that come   *)
(* and go: unless it was stored with characters beyond ASCII, or Continue   *)
(* was pressed before the second step had its editor again.                 *)
TextIsKept ==
    On("templates") =>
        \A s \in page.saves : ~ s.early /\ s.text # "garbled" => s.text = s.chosen
================================================================================
