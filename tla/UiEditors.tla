-------------------------------- MODULE UiEditors --------------------------------
(****************************************************************************)
(* The pages that list items and edit one of them in a form: the actions of *)
(* the UI, global variables, tags, SSH keys, agents and the variables of a  *)
(* workspace.  All keep one form, and in states beside it the id of the     *)
(* item it is for; they differ in where the fields of an edit come from and *)
(* in what is left in the form when it is closed.  The fields of a form are *)
(* known by the item they were filled in from.                              *)
(****************************************************************************)
EXTENDS UiPage

CONSTANTS
    EditedItems,  \* the items there are at first
    MaxEdits      \* how often a form is opened

Traits == {"rows",     \* onEdit fills the form from the row, not from the API
           "resets",   \* Cancel empties the form
           "catches",  \* an item that cannot be loaded closes the form
           "editor",   \* a part of the item is in a code editor beside the form
           "creates",  \* nothing opens the form for an item there is
           "reloads",  \* the list is read again after a change
           "alerts"}   \* a list that is refused takes the place of the page

ActionSettings == {"resets", "catches", "editor", "reloads", "alerts"}
GlobalVariablesSettings == {"reloads", "alerts"}
TagsSettings == {"reloads", "alerts"}
SSHKeysSettings == {"creates", "reloads", "alerts"}
AgentSettings == {"creates", "reloads", "alerts"}
Variables == {"rows"}

Pages == {ActionSettings, GlobalVariablesSettings, TagsSettings, SSHKeysSettings,
          AgentSettings, Variables}
Is(trait) == trait \in page.traits

Empty == "empty"

(* Of a code editor: what the last load left for it, whether editorRef is   *)
(* null, of the editor on screen or of one that is gone, the text in it,    *)
(* and the text its onMount was given when it was first rendered.           *)
NoEditor == [content |-> Empty, ref |-> "null", text |-> Empty, given |-> Empty]

EditorsInit ==
    /\ \E p \in Pages :
         page = [kind |-> "editors", traits |-> p, list |-> "pending", listed |-> {},
                 visible |-> FALSE, mode |-> "create", id |-> None, fields |-> Empty,
                 code |-> NoEditor, gets |-> {}, saves |-> {}, opened |-> 0,
                 loaded |-> FALSE, disturbed |-> FALSE]
    /\ server = [i \in EditedItems |-> i]

(* The list is that of the page, or of the workspace page, which polls.     *)
(* Only that of the actions takes any failure for a refusal.                *)
ListArrives ==
    /\ page.list = "pending"
    /\ Change([page EXCEPT !.list = IF Is("reloads") THEN "read" ELSE @,
                           !.listed = {i \in EditedItems : server[i] # None}])
ListFails ==
    /\ page.list = "pending"
    /\ \/ ~ Is("editor") /\ Change([page EXCEPT !.list = "read"])
       \/ Is("alerts") /\ Change(Elsewhere)
--------------------------------------------------------------------------------
(* Opening a form renders its editor; closing it leaves editorRef behind.   *)
Open(p) ==
    [p EXCEPT !.visible = TRUE, !.opened = @ + 1, !.code.given = p.code.content]
Close(p) ==
    [p EXCEPT !.visible = FALSE, !.code.ref = IF @ = "live" THEN "gone" ELSE @]

(* The editor is loaded from elsewhere, and calls the onMount of its first  *)
(* rendering.                                                               *)
EditorMounts ==
    /\ Is("editor") /\ page.visible /\ page.code.ref # "live"
    /\ Change([page EXCEPT !.code.ref = "live", !.code.text = page.code.given])

SetCode(p, text) ==
    [p EXCEPT !.code.content = text,
              !.code.text = IF p.code.ref = "live" THEN text ELSE @]

OnEdit(i) ==
    /\ ~ Is("creates") /\ ~ page.visible /\ page.opened < MaxEdits /\ i \in page.listed
    /\ LET p == [Open(page) EXCEPT !.mode = "edit", !.id = i, !.loaded = Is("rows")] IN
         Change(IF Is("rows") THEN [p EXCEPT !.fields = i, !.disturbed = FALSE]
                ELSE [p EXCEPT !.gets = @ \cup {[item |-> i, edit |-> p.opened]}])

OnNew ==
    /\ ~ page.visible /\ page.opened < MaxEdits
    /\ Change([Open(SetCode(page, Empty)) EXCEPT !.mode = "create", !.fields = Empty,
                                                 !.disturbed = FALSE])

(* The form that is there by then is filled, whatever it was opened for.    *)
IsFor(g) == page.visible /\ page.mode = "edit" /\ page.opened = g.edit

ItemArrives(g) ==
    Change([SetCode(page, g.item) EXCEPT
                !.gets = @ \ {g}, !.fields = g.item, !.loaded = @ \/ IsFor(g),
                !.disturbed = ~ IsFor(g) \/ (Is("editor") /\ page.code.ref # "live")])

ItemFails(g) ==
    LET p == [page EXCEPT !.gets = @ \ {g}, !.disturbed = @ \/ ~ IsFor(g)] IN
    Change(IF Is("catches") THEN Close(p) ELSE p)

(* Bug to catch: Cancel leaves the fields of an action in the form.         *)
OnCancelHides ==
    /\ page.visible
    /\ Change(IF Is("resets") THEN Close(SetCode(page, Empty)) ELSE Close(page))

OnCancel ==
    /\ page.visible
    /\ Change(IF Is("resets")
              THEN [Close(SetCode(page, Empty)) EXCEPT !.fields = Empty, !.disturbed = FALSE]
              ELSE Close(page))

(* A user who creates an item types its fields, who edits one changes some. *)
TypeFields ==
    /\ page.visible /\ page.mode = "create" /\ page.fields = Empty
    /\ Change([page EXCEPT !.fields = "typed"])
--------------------------------------------------------------------------------
(* What onCreate and onUpdate take from the editor.                         *)
EditorValue == CASE page.code.ref = "null" -> page.code.content
                 [] page.code.ref = "live" -> page.code.text
                 [] page.code.ref = "gone" -> Empty

(* onFinish or onOk, which nothing keeps a user from pressing twice.  A     *)
(* form that is empty lacks what is required.                               *)
OnSave ==
    /\ page.visible /\ page.fields # Empty
    /\ Change([page EXCEPT !.saves = @ \cup
          {[mode |-> page.mode, id |-> page.id, fields |-> page.fields,
            code |-> IF Is("editor") THEN EditorValue ELSE page.fields,
            loaded |-> page.loaded, disturbed |-> page.disturbed]}])

(* The answer closes and empties the form that is open by then.             *)
SaveAnswered(s) ==
    /\ ~ (s.mode = "edit" /\ server[s.id] = None)
    /\ page' = [Close(page) EXCEPT !.saves = @ \ {s}, !.fields = Empty, !.list = "pending"]
    /\ server' = IF s.mode = "edit" THEN [server EXCEPT ![s.id] = s.fields] ELSE server

SaveFails(s) == Change([page EXCEPT !.saves = @ \ {s}])

OnDelete(i) ==
    /\ ~ page.visible /\ i \in page.listed
    /\ page' = [page EXCEPT !.list = "pending"]
    /\ server' = [server EXCEPT ![i] = None]

EditorsNext ==
    /\ On("editors")
    /\ \/ ListArrives \/ ListFails \/ EditorMounts \/ OnNew \/ OnCancel \/ TypeFields \/ OnSave
       \/ \E i \in EditedItems : OnEdit(i) \/ OnDelete(i)
       \/ \E g \in page.gets : ItemArrives(g) \/ ItemFails(g)
       \/ \E s \in page.saves : SaveAnswered(s) \/ SaveFails(s)
--------------------------------------------------------------------------------
(* What is saved on an item was filled in from that item, its code with it, *)
(* and what is created was typed, unless the answer to an earlier edit came *)
(* late, or that of its own before the editor was there.  Where a form that *)
(* was cancelled keeps its fields, that holds once the item has arrived; an *)
(* action cannot be saved before.                                           *)
EditsReachTheirItem ==
    On("editors") =>
        \A s \in page.saves :
            ~ s.disturbed =>
                IF s.mode = "create" THEN s.fields = "typed"
                ELSE s.loaded \/ Is("resets") => s.fields = s.id /\ s.code = s.id
================================================================================
