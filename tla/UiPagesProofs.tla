------------------------------ MODULE UiPagesProofs ------------------------------
(****************************************************************************)
(* What the pages of variable collections, of a workspace, of its states,   *)
(* of the public registry, of a module, of connections and of the settings  *)
(* promise, for any workspaces, variables, versions, providers, modules,    *)
(* submodules, templates, claims and teams, and any number of presses,      *)
(* polls and failures.                                                      *)
(****************************************************************************)
EXTENDS UiCollection, UiWorkspace, UiStates, UiRegistrySearch, UiModule, VcsConnection,
        UiSettings, FiniteSetTheorems, SequenceTheorems, TLAPS

(* The form of a variable collection.                                       *)
CollectionSpec == CollectionInit /\ [][CollectionNext]_pageVars

Save == [phase : {"post", "patch", "list", "references", "done"},
         selected : SUBSET CollectionWorkspaces,
         delete : SUBSET (CollectionWorkspaces \cup {"deleted"}),
         add : SUBSET CollectionWorkspaces]
Op == [phase : {"idle", "request", "reload", "arriving"},
       does : Items \cup {None, "post", "patch"}, sees : SUBSET Items]

CollectionTypeOK ==
    /\ page \in [kind : {"collection"}, mode : {"create", "edit"}, half : Halves,
                  loaded : BOOLEAN, selectedWorkspaces : SUBSET CollectionWorkspaces,
                  save : Save \cup {NoSave}, saves : Int, saved : BOOLEAN,
                  variables : SUBSET Items, temporary : {0, 1},
                  ops : [Slots -> Op], raced : BOOLEAN, clean : BOOLEAN]
    /\ server \in [references : References, items : SUBSET Items,
                    granted : SUBSET CollectionWorkspaces,
                    deselected : SUBSET CollectionWorkspaces]

(* Of the workspaces that had access, W has those not taken out.            *)
Keeps(W) == server.granted \ server.deselected \subseteq W

(* What the requests of a save still have to do turns the references there  *)
(* are into those selected.                                                 *)
Outstanding(save) ==
    /\ save.add \subseteq save.selected
    /\ save.delete \cap save.selected = {}
    /\ server.references.workspaces = (save.selected \ save.add) \cup (save.delete \ {"deleted"})
    /\ server.references.dangling <=> "deleted" \in save.delete

(* Access is kept by what is stored, by what is selected and by what a save *)
(* is about to store; a save that has ended has nothing left to do.         *)
ScopeInv ==
    /\ page.mode = "create" => server.granted = {} /\ ~ server.references.dangling
    /\ Keeps(server.references.workspaces)
    /\ page.loaded => Keeps(page.selectedWorkspaces)
    /\ page.save # NoSave =>
         Keeps(page.save.selected) /\ page.loaded
    /\ page.save.phase = "post" => page.mode = "create" /\ page.save.delete = {}
    /\ page.save.phase \in {"references", "done"} => Outstanding(page.save)
    /\ page.saved <=> page.save.phase = "done"
    /\ page.saved => page.save.add = {} /\ page.save.delete = {}

(* The variables: unless two requests raced, at most one is at work, and    *)
(* what its reload saw is what there is.                                    *)
TableInv ==
    /\ ~ page.raced => page.ops["write"] = IdleSlot \/ page.ops["remove"] = IdleSlot
    /\ ~ page.raced => \A slot \in Slots :
         page.ops[slot].phase = "arriving" => page.ops[slot].sees = server.items
    /\ page.clean =>
         /\ \A slot \in Slots : page.ops[slot] = IdleSlot
         /\ page.variables = server.items /\ page.temporary = 0
    /\ ~ page.loaded => ~ page.clean /\ \A slot \in Slots : page.ops[slot] = IdleSlot

CollectionInv == CollectionTypeOK /\ ScopeInv /\ TableInv
--------------------------------------------------------------------------------
LEMMA CollectionInitInv == CollectionInit => CollectionInv
<1> SUFFICES ASSUME CollectionInit PROVE CollectionInv
  OBVIOUS
<1>1. PICK mode \in {"create", "edit"}, half \in Halves,
           references \in References, items \in SUBSET Items :
        /\ mode = "create" \/ half = "variables" =>
              references = [workspaces |-> {}, dangling |-> FALSE]
        /\ page = [kind |-> "collection", mode |-> mode, half |-> half, loaded |-> FALSE,
                   selectedWorkspaces |-> {}, save |-> NoSave, saves |-> 0, saved |-> FALSE,
                   variables |-> {}, temporary |-> 0,
                   ops |-> [slot \in Slots |-> IdleSlot], raced |-> FALSE, clean |-> FALSE]
        /\ server = [references |-> references, items |-> items,
                     granted |-> references.workspaces, deselected |-> {}]
  BY DEF CollectionInit
<1>2. CollectionTypeOK
  BY <1>1 DEF CollectionTypeOK, References, IdleSlot, Op, None
<1>3. ScopeInv
  BY <1>1 DEF ScopeInv, Keeps, References, NoSave, None
<1>4. TableInv
  BY <1>1 DEF TableInv, Slots, IdleSlot
<1> QED
  BY <1>2, <1>3, <1>4 DEF CollectionInv

(* The two halves of the form share no state but the spinner.               *)
LEMMA ScopeUntouched ==
    ASSUME ScopeInv,
           UNCHANGED <<page.mode, page.loaded, page.selectedWorkspaces, page.save, page.saved,
                       server.references, server.granted, server.deselected>>
    PROVE  ScopeInv'
BY DEF ScopeInv, Keeps, Outstanding

LEMMA TableUntouched ==
    ASSUME TableInv, page.loaded => page'.loaded,
           UNCHANGED <<page.ops, page.raced, page.clean, page.variables, page.temporary, server.items>>
    PROVE  TableInv'
BY DEF TableInv, Slots, IdleSlot
--------------------------------------------------------------------------------
LEMMA CollectionLoadedInv == ASSUME CollectionInv, CollectionLoaded PROVE CollectionInv'
<1>1. CollectionTypeOK'
  BY DEF CollectionInv, CollectionTypeOK, CollectionLoaded, References
<1>2. /\ page'.loaded = TRUE /\ page'.variables = server.items
      /\ page'.selectedWorkspaces = server.references.workspaces
      /\ UNCHANGED <<page.mode, page.save, page.saved, page.ops, page.raced, page.clean,
                     page.temporary, server>>
      /\ ~ page.clean
  BY DEF CollectionInv, CollectionTypeOK, CollectionLoaded, TableInv
<1>3. ScopeInv'
  BY <1>2 DEF CollectionInv, ScopeInv, Keeps, Outstanding
<1>4. TableInv'
  BY <1>2 DEF CollectionInv, TableInv, Slots, IdleSlot
<1> QED
  BY <1>1, <1>3, <1>4 DEF CollectionInv

LEMMA SelectWorkspacesInv == ASSUME CollectionInv, SelectWorkspaces PROVE CollectionInv'
<1>1. PICK w \in CollectionWorkspaces :
         \/ /\ w \notin page.selectedWorkspaces
            /\ page' = [page EXCEPT !.selectedWorkspaces = @ \cup {w}]
            /\ UNCHANGED server
         \/ /\ w \in page.selectedWorkspaces
            /\ page' = [page EXCEPT !.selectedWorkspaces = @ \ {w}]
            /\ server' = [server EXCEPT !.deselected = @ \cup {w}]
  BY DEF SelectWorkspaces
<1>2. CollectionTypeOK'
  BY <1>1 DEF CollectionInv, CollectionTypeOK
<1>3. /\ UNCHANGED <<page.mode, page.loaded, page.save, page.saved, page.ops, page.raced,
                     page.clean, page.variables, page.temporary,
                     server.references, server.granted, server.items>>
      /\ \/ /\ page'.selectedWorkspaces = page.selectedWorkspaces \cup {w}
            /\ server'.deselected = server.deselected
         \/ /\ page'.selectedWorkspaces = page.selectedWorkspaces \ {w}
            /\ server'.deselected = server.deselected \cup {w}
  BY <1>1 DEF CollectionInv, CollectionTypeOK
<1>4. ScopeInv'
  BY <1>3 DEF CollectionInv, ScopeInv, Keeps, Outstanding
<1>5. TableInv'
  BY <1>3, TableUntouched DEF CollectionInv
<1> QED
  BY <1>2, <1>4, <1>5 DEF CollectionInv
--------------------------------------------------------------------------------
(* A press of Save, its requests and their failures change page.save only,  *)
(* and the references.                                                      *)
LEMMA PressSaveInv == ASSUME CollectionInv, PressSave PROVE CollectionInv'
<1>1. PICK save \in Save, saves \in Int :
         /\ save.selected = page.selectedWorkspaces /\ save.delete = {} /\ save.add = {}
         /\ save.phase \in {"post", "patch"} /\ (save.phase = "post" => page.mode = "create")
         /\ page' = [page EXCEPT !.saves = saves, !.save = save] /\ UNCHANGED server
  <2>1. CASE page.mode = "create"
    <3> DEFINE new == [phase |-> "post", selected |-> page.selectedWorkspaces,
                       delete |-> {}, add |-> {}]
    <3>1. /\ new \in Save /\ new.selected = page.selectedWorkspaces
          /\ new.delete = {} /\ new.add = {} /\ new.phase = "post"
      BY DEF CollectionInv, CollectionTypeOK, Save
    <3>2. page' = [page EXCEPT !.saves = page.saves + 1, !.save = new] /\ UNCHANGED server
      BY <2>1 DEF PressSave
    <3>3. page.saves + 1 \in Int
      BY DEF CollectionInv, CollectionTypeOK
    <3> HIDE DEF new
    <3> QED
      BY <2>1, <3>1, <3>2, <3>3
  <2>2. CASE page.mode # "create"
    <3> DEFINE new == [phase |-> "patch", selected |-> page.selectedWorkspaces,
                       delete |-> {}, add |-> {}]
    <3>1. /\ new \in Save /\ new.selected = page.selectedWorkspaces
          /\ new.delete = {} /\ new.add = {} /\ new.phase = "patch"
      BY DEF CollectionInv, CollectionTypeOK, Save
    <3>2. page' = [page EXCEPT !.saves = page.saves + 1, !.save = new] /\ UNCHANGED server
      BY <2>2 DEF PressSave
    <3>3. page.saves + 1 \in Int
      BY DEF CollectionInv, CollectionTypeOK
    <3> HIDE DEF new
    <3> QED
      BY <2>2, <3>1, <3>2, <3>3
  <2> QED
    BY <2>1, <2>2
<1>2. CollectionTypeOK'
  BY <1>1 DEF CollectionInv, CollectionTypeOK
<1>3. /\ page'.save = save
      /\ UNCHANGED <<page.mode, page.loaded, page.selectedWorkspaces, page.saved, page.ops,
                     page.raced, page.clean, page.variables, page.temporary, server>>
      /\ page.loaded /\ ~ page.saved
  BY <1>1 DEF CollectionInv, CollectionTypeOK, PressSave, FormUsable
<1>4. ScopeInv'
  BY <1>1, <1>3 DEF CollectionInv, CollectionTypeOK, ScopeInv, Keeps, NoSave, None
<1>5. TableInv'
  BY <1>3, TableUntouched DEF CollectionInv
<1> QED
  BY <1>2, <1>4, <1>5 DEF CollectionInv

(* A save that is there has all its fields.                                 *)
LEMMA SaveIsThere ==
    ASSUME CollectionInv, page.save.phase # None PROVE page.save \in Save /\ page.save # NoSave
BY DEF CollectionInv, CollectionTypeOK, NoSave, None

LEMMA CollectionPostedInv == ASSUME CollectionInv, CollectionPosted PROVE CollectionInv'
<1>1. page.save \in Save /\ page.save # NoSave /\ page.save.phase = "post"
  BY SaveIsThere DEF CollectionPosted, None
<1>2. PICK save \in Save :
         /\ save = [page.save EXCEPT !.phase = "references", !.add = page.save.selected]
         /\ page' = [page EXCEPT !.save = save]
  BY <1>1 DEF CollectionInv, CollectionTypeOK, Save, CollectionPosted
<1>3. CollectionTypeOK'
  BY <1>2 DEF CollectionInv, CollectionTypeOK, CollectionPosted, References
<1>4. /\ page'.save = save
      /\ server'.references.workspaces = {}
      /\ server'.references.dangling = server.references.dangling
      /\ UNCHANGED <<page.mode, page.loaded, page.selectedWorkspaces, page.saved, page.ops,
                     page.raced, page.clean, page.variables, page.temporary,
                     server.granted, server.deselected, server.items>>
  BY <1>2 DEF CollectionInv, CollectionTypeOK, CollectionPosted, References
<1>5. save.selected = page.save.selected /\ save.delete = page.save.delete
      /\ save.add = page.save.selected /\ save.phase = "references"
  BY <1>1, <1>2 DEF Save
<1>6. ScopeInv'
  BY <1>1, <1>4, <1>5 DEF CollectionInv, CollectionTypeOK, ScopeInv, Keeps, Outstanding, NoSave, None
<1>7. TableInv'
  BY <1>4, TableUntouched DEF CollectionInv
<1> QED
  BY <1>3, <1>6, <1>7 DEF CollectionInv

LEMMA CollectionPatchedInv == ASSUME CollectionInv, CollectionPatched PROVE CollectionInv'
<1>1. page.save \in Save /\ page.save # NoSave /\ page.save.phase = "patch"
  BY SaveIsThere DEF CollectionPatched, None
<1>2. PICK save \in Save :
         /\ save = [page.save EXCEPT !.phase = "list"]
         /\ page' = [page EXCEPT !.save = save]
  BY <1>1 DEF CollectionInv, CollectionTypeOK, Save, CollectionPatched
<1>3. CollectionTypeOK'
  BY <1>2 DEF CollectionInv, CollectionTypeOK, CollectionPatched
<1>4. /\ page'.save = save
      /\ UNCHANGED <<page.mode, page.loaded, page.selectedWorkspaces, page.saved, page.ops,
                     page.raced, page.clean, page.variables, page.temporary, server>>
  BY <1>2 DEF CollectionInv, CollectionTypeOK, CollectionPatched
<1>5. save.selected = page.save.selected /\ save.phase = "list"
  BY <1>1, <1>2 DEF Save
<1>6. ScopeInv'
  BY <1>1, <1>4, <1>5 DEF CollectionInv, CollectionTypeOK, ScopeInv, Keeps
<1>7. TableInv'
  BY <1>4, TableUntouched DEF CollectionInv
<1> QED
  BY <1>3, <1>6, <1>7 DEF CollectionInv

(* What is to be deleted and added leads from the references there are to   *)
(* those selected.                                                          *)
LEMMA ReferencesListedInv == ASSUME CollectionInv, ReferencesListed PROVE CollectionInv'
<1>1. page.save \in Save /\ page.save # NoSave /\ page.save.phase = "list"
  BY SaveIsThere DEF ReferencesListed, None
<1> DEFINE save ==
        [page.save EXCEPT
            !.phase = "references",
            !.delete = (server.references.workspaces \ page.save.selected)
                       \cup (IF server.references.dangling THEN {"deleted"} ELSE {}),
            !.add = page.save.selected \ server.references.workspaces]
<1>5. /\ save \in Save
      /\ save.selected = page.save.selected /\ save.phase = "references"
      /\ save.delete = (server.references.workspaces \ page.save.selected)
                           \cup (IF server.references.dangling THEN {"deleted"} ELSE {})
      /\ save.add = page.save.selected \ server.references.workspaces
  BY <1>1 DEF CollectionInv, CollectionTypeOK, Save, References
<1>2. page' = [page EXCEPT !.save = save]
  BY <1>1 DEF CollectionInv, CollectionTypeOK, ReferencesListed
<1> HIDE DEF save
<1>3. CollectionTypeOK'
  BY <1>2, <1>5 DEF CollectionInv, CollectionTypeOK, ReferencesListed
<1>4. /\ page'.save = save
      /\ UNCHANGED <<page.mode, page.loaded, page.selectedWorkspaces, page.saved, page.ops,
                     page.raced, page.clean, page.variables, page.temporary, server>>
  BY <1>2 DEF CollectionInv, CollectionTypeOK, ReferencesListed
<1>6. /\ server.references.dangling \in BOOLEAN
      /\ server.references.workspaces \subseteq CollectionWorkspaces
      /\ page.save.selected \subseteq CollectionWorkspaces
  BY <1>1 DEF CollectionInv, CollectionTypeOK, References, Save
<1>7. Outstanding(save)
  BY <1>5, <1>6, CollectionAssumption DEF Outstanding
<1>8. ScopeInv'
  BY <1>1, <1>4, <1>5, <1>7 DEF CollectionInv, CollectionTypeOK, ScopeInv, Keeps, Outstanding
<1>9. TableInv'
  BY <1>4, TableUntouched DEF CollectionInv
<1> QED
  BY <1>3, <1>8, <1>9 DEF CollectionInv
--------------------------------------------------------------------------------
LEMMA ReferenceDeletedInv == ASSUME CollectionInv, ReferenceDeleted PROVE CollectionInv'
<1>1. page.save \in Save /\ page.save # NoSave /\ page.save.phase = "references"
  BY SaveIsThere DEF ReferenceDeleted, None
<1>2. PICK ref \in page.save.delete :
         /\ page' = [page EXCEPT !.save.delete = @ \ {ref}]
         /\ \/ ref = "deleted" /\ server' = [server EXCEPT !.references.dangling = FALSE]
            \/ ref # "deleted" /\ server' = [server EXCEPT !.references.workspaces = @ \ {ref}]
  BY DEF ReferenceDeleted
<1>3. PICK save \in Save :
         save = [page.save EXCEPT !.delete = @ \ {ref}] /\ page' = [page EXCEPT !.save = save]
  BY <1>1, <1>2 DEF CollectionInv, CollectionTypeOK, Save
<1>4. PICK references \in References :
         /\ references.dangling <=> server.references.dangling /\ ref # "deleted"
         /\ references.workspaces = IF ref = "deleted" THEN server.references.workspaces
                                    ELSE server.references.workspaces \ {ref}
         /\ server' = [server EXCEPT !.references = references]
  <2>1. CASE ref = "deleted"
    BY <1>2, <2>1 DEF CollectionInv, CollectionTypeOK, References
  <2>2. CASE ref # "deleted"
    BY <1>2, <2>2 DEF CollectionInv, CollectionTypeOK, References
  <2> QED
    BY <2>1, <2>2
<1>5. CollectionTypeOK'
  BY <1>3, <1>4 DEF CollectionInv, CollectionTypeOK
<1>6. /\ page'.save = save /\ server'.references = references
      /\ UNCHANGED <<page.mode, page.loaded, page.selectedWorkspaces, page.saved, page.ops,
                     page.raced, page.clean, page.variables, page.temporary,
                     server.granted, server.deselected, server.items>>
  BY <1>3, <1>4 DEF CollectionInv, CollectionTypeOK
<1>7. /\ save.selected = page.save.selected /\ save.phase = "references"
      /\ save.delete = page.save.delete \ {ref} /\ save.add = page.save.add
  BY <1>1, <1>3 DEF Save
<1>8. Outstanding(page.save)
  BY <1>1 DEF CollectionInv, ScopeInv
<1>9. Outstanding(save)'
  BY <1>4, <1>6, <1>7, <1>8 DEF Outstanding
<1>10. Keeps(references.workspaces)
  BY <1>1, <1>2, <1>4, <1>8 DEF CollectionInv, ScopeInv, Keeps, Outstanding
<1>11. ~ page.saved
  BY <1>1 DEF CollectionInv, ScopeInv
<1>12. ScopeInv'
  BY <1>1, <1>4, <1>6, <1>7, <1>9, <1>10, <1>11 DEF CollectionInv, ScopeInv, Keeps
<1>13. TableInv'
  BY <1>6, TableUntouched DEF CollectionInv
<1> QED
  BY <1>5, <1>12, <1>13 DEF CollectionInv

LEMMA ReferenceAddedInv == ASSUME CollectionInv, ReferenceAdded PROVE CollectionInv'
<1>1. page.save \in Save /\ page.save # NoSave /\ page.save.phase = "references"
  BY SaveIsThere DEF ReferenceAdded, None
<1>2. PICK w \in page.save.add :
         /\ page' = [page EXCEPT !.save.add = @ \ {w}]
         /\ server' = [server EXCEPT !.references.workspaces = @ \cup {w}]
  BY DEF ReferenceAdded
<1>3. PICK save \in Save :
         save = [page.save EXCEPT !.add = @ \ {w}] /\ page' = [page EXCEPT !.save = save]
  BY <1>1, <1>2 DEF CollectionInv, CollectionTypeOK, Save
<1>4. w \in CollectionWorkspaces /\ page.save.delete = {}
  BY <1>1, <1>2 DEF Save, ReferenceAdded
<1>5. CollectionTypeOK'
  BY <1>2, <1>3, <1>4 DEF CollectionInv, CollectionTypeOK, References
<1>6. /\ page'.save = save
      /\ server'.references.workspaces = server.references.workspaces \cup {w}
      /\ server'.references.dangling = server.references.dangling
      /\ UNCHANGED <<page.mode, page.loaded, page.selectedWorkspaces, page.saved, page.ops,
                     page.raced, page.clean, page.variables, page.temporary,
                     server.granted, server.deselected, server.items>>
  BY <1>2, <1>3 DEF CollectionInv, CollectionTypeOK, References
<1>7. /\ save.selected = page.save.selected /\ save.phase = "references"
      /\ save.delete = page.save.delete /\ save.add = page.save.add \ {w}
  BY <1>1, <1>3 DEF Save
<1>8. Outstanding(page.save)
  BY <1>1 DEF CollectionInv, ScopeInv
<1>9. Outstanding(save)'
  BY <1>2, <1>6, <1>7, <1>8 DEF Outstanding
<1>10. ScopeInv'
  BY <1>1, <1>6, <1>7, <1>9 DEF CollectionInv, ScopeInv, Keeps
<1>11. TableInv'
  BY <1>6, TableUntouched DEF CollectionInv
<1> QED
  BY <1>5, <1>10, <1>11 DEF CollectionInv

LEMMA SavedInv == ASSUME CollectionInv, Saved PROVE CollectionInv'
<1>1. page.save \in Save /\ page.save # NoSave /\ page.save.phase = "references"
  BY SaveIsThere DEF Saved, None
<1> DEFINE save == [page.save EXCEPT !.phase = "done"]
<1>5. /\ save \in Save
      /\ save.selected = page.save.selected /\ save.phase = "done"
      /\ save.delete = page.save.delete /\ save.add = page.save.add
  BY <1>1 DEF Save
<1>2. page' = [page EXCEPT !.saved = TRUE, !.save = save]
  BY <1>1 DEF CollectionInv, CollectionTypeOK, Saved
<1> HIDE DEF save
<1>3. CollectionTypeOK'
  BY <1>2, <1>5 DEF CollectionInv, CollectionTypeOK, Saved
<1>4. /\ page'.save = save /\ page'.saved = TRUE
      /\ UNCHANGED <<page.mode, page.loaded, page.selectedWorkspaces, page.ops,
                     page.raced, page.clean, page.variables, page.temporary, server>>
      /\ page.save.delete = {} /\ page.save.add = {}
  BY <1>2 DEF CollectionInv, CollectionTypeOK, Saved
<1>6. ScopeInv'
  BY <1>1, <1>4, <1>5 DEF CollectionInv, ScopeInv, Keeps, Outstanding
<1>7. TableInv'
  BY <1>4, TableUntouched DEF CollectionInv
<1> QED
  BY <1>3, <1>6, <1>7 DEF CollectionInv

(* A save that fails leaves what it had done; no access has been lost.      *)
LEMMA CollectionSaveFailsInv == ASSUME CollectionInv, CollectionSaveFails PROVE CollectionInv'
<1>1. CollectionTypeOK'
  BY DEF CollectionInv, CollectionTypeOK, CollectionSaveFails
<1>2. /\ page'.save = NoSave
      /\ UNCHANGED <<page.mode, page.loaded, page.selectedWorkspaces, page.saved, page.ops,
                     page.raced, page.clean, page.variables, page.temporary, server>>
      /\ ~ page.saved
  BY DEF CollectionInv, CollectionTypeOK, ScopeInv, CollectionSaveFails
<1>3. ScopeInv'
  BY <1>2 DEF CollectionInv, ScopeInv, Keeps, NoSave, None
<1>4. TableInv'
  BY <1>2, TableUntouched DEF CollectionInv
<1> QED
  BY <1>1, <1>3, <1>4 DEF CollectionInv
--------------------------------------------------------------------------------
(* A request about a variable changes its slot, and marks whether the other *)
(* one was busy.                                                            *)
LEMMA BeginInv ==
    ASSUME CollectionInv, NEW slot \in Slots, NEW does \in Items \cup {"post", "patch"},
           NEW temporary \in {0, 1}, page.loaded,
           page' = [Begin(page, slot, does) EXCEPT !.temporary = temporary], UNCHANGED server
    PROVE  CollectionInv'
<1> DEFINE op == [IdleSlot EXCEPT !.phase = "request", !.does = does]
           raced == \E other \in Slots \ {slot} : page.ops[other] # IdleSlot
<1>1. Begin(page, slot, does) = [page EXCEPT !.ops[slot] = op, !.raced = raced, !.clean = FALSE]
  BY Zenon DEF Begin
<1>2. op \in Op /\ op.phase = "request" /\ raced \in BOOLEAN
  BY DEF Op, IdleSlot
<1>3. ~ raced => \A other \in Slots \ {slot} : page.ops[other] = IdleSlot
  OBVIOUS
<1> HIDE DEF op, raced
<1>10. PICK ops \in [Slots -> Op] :
          /\ ops = [page.ops EXCEPT ![slot] = op]
          /\ Begin(page, slot, does) = [page EXCEPT !.ops = ops, !.raced = raced, !.clean = FALSE]
  BY <1>1, <1>2 DEF CollectionInv, CollectionTypeOK
<1>8. Begin(page, slot, does) \in
          [kind : {"collection"}, mode : {"create", "edit"}, half : Halves,
           loaded : BOOLEAN, selectedWorkspaces : SUBSET CollectionWorkspaces,
           save : Save \cup {NoSave}, saves : Int, saved : BOOLEAN,
           variables : SUBSET Items, temporary : {0, 1},
           ops : [Slots -> Op], raced : BOOLEAN, clean : BOOLEAN]
  BY <1>10, <1>2 DEF CollectionInv, CollectionTypeOK
<1>4. CollectionTypeOK'
  BY <1>8 DEF CollectionInv, CollectionTypeOK
<1>9. /\ page'.ops = ops /\ page'.raced = raced /\ page'.clean = FALSE
      /\ page'.mode = page.mode /\ page'.loaded = page.loaded
      /\ page'.selectedWorkspaces = page.selectedWorkspaces
      /\ page'.save = page.save /\ page'.saved = page.saved
  <2> DEFINE begun == [page EXCEPT !.ops = ops, !.raced = raced, !.clean = FALSE]
  <2>1. page' = [begun EXCEPT !.temporary = temporary]
    BY <1>10
  <2>2. /\ begun.ops = ops /\ begun.raced = raced /\ begun.clean = FALSE
        /\ begun.mode = page.mode /\ begun.loaded = page.loaded
        /\ begun.selectedWorkspaces = page.selectedWorkspaces
        /\ begun.save = page.save /\ begun.saved = page.saved
    BY DEF CollectionInv, CollectionTypeOK
  <2>3. "temporary" \notin {"ops", "raced", "clean", "mode", "loaded", "selectedWorkspaces",
                            "save", "saved"}
    OBVIOUS
  <2>4. {"ops", "raced", "clean", "mode", "loaded", "selectedWorkspaces", "save", "saved"}
            \subseteq DOMAIN begun
    BY DEF CollectionInv, CollectionTypeOK
  <2> HIDE DEF begun
  <2> QED
    BY <2>1, <2>2, <2>3, <2>4
<1>5. page.ops \in [Slots -> Op]
  BY DEF CollectionInv, CollectionTypeOK
<1>6. ScopeInv'
  BY <1>9, ScopeUntouched DEF CollectionInv
<1>7. TableInv'
  BY <1>2, <1>3, <1>5, <1>9, <1>10 DEF TableInv, Slots, IdleSlot
<1> QED
  BY <1>4, <1>6, <1>7 DEF CollectionInv

LEMMA HandleAddVariableInv == ASSUME CollectionInv, HandleAddVariable PROVE CollectionInv'
<1>1. page.loaded /\ "write" \in Slots /\ UNCHANGED server
      /\ page' = [Begin(page, "write", "post") EXCEPT !.temporary = 1]
  BY DEF HandleAddVariable, FormUsable, Slots
<1> QED
  BY <1>1, BeginInv

LEMMA HandleUpdateVariableInv == ASSUME CollectionInv, HandleUpdateVariable PROVE CollectionInv'
<1>1. page.loaded /\ "write" \in Slots /\ UNCHANGED server /\ page' = Begin(page, "write", "patch")
  BY DEF HandleUpdateVariable, FormUsable, Slots
<1>2. page' = [Begin(page, "write", "patch") EXCEPT !.temporary = page.temporary]
  BY <1>1 DEF Begin, CollectionInv, CollectionTypeOK
<1>3. page.temporary \in {0, 1}
  BY DEF CollectionInv, CollectionTypeOK
<1> QED
  BY <1>1, <1>2, <1>3, BeginInv

LEMMA HandleRemoveVariableInv == ASSUME CollectionInv, HandleRemoveVariable PROVE CollectionInv'
<1>1. page.loaded /\ "remove" \in Slots /\ UNCHANGED server
  BY DEF HandleRemoveVariable, FormUsable, Slots
<1>2. CASE page' = [page EXCEPT !.temporary = 0]
  <2>1. CollectionTypeOK'
    BY <1>1, <1>2 DEF CollectionInv, CollectionTypeOK
  <2>2. /\ page'.temporary = 0
        /\ UNCHANGED <<page.mode, page.loaded, page.selectedWorkspaces, page.save, page.saved,
                       page.ops, page.raced, page.clean, page.variables>>
    BY <1>2 DEF CollectionInv, CollectionTypeOK
  <2>3. ScopeInv'
    BY <1>1, <2>2, ScopeUntouched DEF CollectionInv
  <2>4. TableInv'
    BY <1>1, <2>2 DEF CollectionInv, TableInv, Slots, IdleSlot
  <2> QED
    BY <2>1, <2>3, <2>4 DEF CollectionInv
<1>3. ASSUME NEW item \in page.variables, page' = Begin(page, "remove", item)
      PROVE  CollectionInv'
  <2>1. page' = [Begin(page, "remove", item) EXCEPT !.temporary = page.temporary]
    BY <1>3 DEF Begin, CollectionInv, CollectionTypeOK
  <2>2. page.temporary \in {0, 1} /\ item \in Items
    BY <1>3 DEF CollectionInv, CollectionTypeOK
  <2> QED
    BY <1>1, <2>1, <2>2, BeginInv
<1> QED
  BY <1>2, <1>3 DEF HandleRemoveVariable
--------------------------------------------------------------------------------
(* What the answers of a slot change.                                       *)
LEMMA SlotStep ==
    ASSUME CollectionInv, NEW slot \in Slots, NEW op \in Op, NEW items \in SUBSET Items,
           page' = [page EXCEPT !.ops[slot] = op], server' = [server EXCEPT !.items = items],
           page.ops[slot] # IdleSlot,
           op = IdleSlot \/ op.phase = "reload" \/ (op.phase = "arriving" /\ op.sees = items),
           items = server.items \/ op.phase = "reload"
    PROVE  CollectionInv'
<1>1. PICK ops \in [Slots -> Op] :
         ops = [page.ops EXCEPT ![slot] = op] /\ page' = [page EXCEPT !.ops = ops]
  BY DEF CollectionInv, CollectionTypeOK
<1>2. CollectionTypeOK'
  BY <1>1 DEF CollectionInv, CollectionTypeOK
<1>3. /\ page'.ops = ops /\ server'.items = items /\ page.ops \in [Slots -> Op]
      /\ UNCHANGED <<page.mode, page.loaded, page.selectedWorkspaces, page.save, page.saved,
                     page.raced, page.clean, page.variables, page.temporary,
                     server.references, server.granted, server.deselected>>
  BY <1>1 DEF CollectionInv, CollectionTypeOK
<1>4. ScopeInv'
  BY <1>3, ScopeUntouched DEF CollectionInv
<1>5. page.ops[slot] # IdleSlot /\ ~ page.clean /\ page.loaded
  BY DEF CollectionInv, TableInv
<1>6. \A other \in Slots : ops[other] = IF other = slot THEN op ELSE page.ops[other]
  BY <1>1, <1>3
<1>7. ~ page.raced => \A other \in Slots \ {slot} : page.ops[other] = IdleSlot
  BY <1>5 DEF CollectionInv, TableInv, Slots
<1>8. IdleSlot.phase # "arriving"
  BY DEF IdleSlot
<1>9. ~ page.raced => ops["write"] = IdleSlot \/ ops["remove"] = IdleSlot
  BY <1>6, <1>7 DEF Slots
<1>10. ASSUME ~ page.raced, NEW other \in Slots, ops[other].phase = "arriving"
       PROVE  ops[other].sees = items
  <2>1. other = slot
    BY <1>6, <1>7, <1>8, <1>10
  <2> QED
    BY <1>6, <1>8, <1>10, <2>1
<1>11. TableInv'
  BY <1>3, <1>5, <1>9, <1>10 DEF CollectionInv, TableInv
<1> QED
  BY <1>2, <1>4, <1>11 DEF CollectionInv

(* A slot that is at work is not idle, and has all its fields.              *)
LEMMA SlotAtWork ==
    ASSUME CollectionInv, NEW slot \in Slots, page.ops[slot].phase # "idle"
    PROVE  page.ops[slot] \in Op /\ page.ops[slot] # IdleSlot
BY DEF CollectionInv, CollectionTypeOK, IdleSlot

LEMMA VariableWrittenInv ==
    ASSUME CollectionInv, NEW slot \in Slots, VariableWritten(slot) PROVE CollectionInv'
<1>1. page.ops[slot] \in Op /\ page.ops[slot] # IdleSlot
  BY SlotAtWork DEF VariableWritten
<1>2. PICK op \in Op : op = [page.ops[slot] EXCEPT !.phase = "reload"]
  BY <1>1 DEF Op
<1>3. op.phase = "reload" /\ page' = [page EXCEPT !.ops[slot] = op]
  BY <1>1, <1>2 DEF VariableWritten, Op, CollectionInv, CollectionTypeOK
<1>4. PICK items \in SUBSET Items : server' = [server EXCEPT !.items = items]
  <2>1. server.items \in SUBSET Items
    BY DEF CollectionInv, CollectionTypeOK
  <2>2. CASE UNCHANGED server
    <3>1. server' = [server EXCEPT !.items = server.items]
      BY <2>2 DEF CollectionInv, CollectionTypeOK
    <3> QED
      BY <2>1, <3>1
  <2>3. CASE \E item \in Items \ server.items : server' = [server EXCEPT !.items = @ \cup {item}]
    BY <2>1, <2>3
  <2>4. CASE server' = [server EXCEPT !.items = @ \ {page.ops[slot].does}]
    BY <2>1, <2>4
  <2> QED
    BY <2>2, <2>3, <2>4 DEF VariableWritten
<1> QED
  BY <1>1, <1>3, <1>4, SlotStep

LEMMA VariablesReadInv ==
    ASSUME CollectionInv, NEW slot \in Slots, VariablesRead(slot) PROVE CollectionInv'
<1>1. page.ops[slot] \in Op /\ page.ops[slot] # IdleSlot
  BY SlotAtWork DEF VariablesRead
<1>2. PICK op \in Op : op = [page.ops[slot] EXCEPT !.phase = "arriving", !.sees = server.items]
  BY <1>1 DEF Op, CollectionInv, CollectionTypeOK
<1>3. /\ op.phase = "arriving" /\ op.sees = server.items
      /\ page' = [page EXCEPT !.ops[slot] = op]
      /\ server' = [server EXCEPT !.items = server.items] /\ server.items \in SUBSET Items
  BY <1>1, <1>2 DEF VariablesRead, Op, CollectionInv, CollectionTypeOK
<1> QED
  BY <1>1, <1>3, SlotStep

LEMMA VariableFailsInv ==
    ASSUME CollectionInv, NEW slot \in Slots, VariableFails(slot) PROVE CollectionInv'
<1>1. page.ops[slot] # IdleSlot
  BY SlotAtWork DEF VariableFails
<1>2. /\ IdleSlot \in Op /\ page' = [page EXCEPT !.ops[slot] = IdleSlot]
      /\ server' = [server EXCEPT !.items = server.items] /\ server.items \in SUBSET Items
  BY DEF VariableFails, Op, IdleSlot, CollectionInv, CollectionTypeOK
<1> QED
  BY <1>1, <1>2, SlotStep

(* The table is that of the reload; unless another request raced with it,   *)
(* that is what there is.                                                   *)
LEMMA VariablesArriveInv ==
    ASSUME CollectionInv, NEW slot \in Slots, VariablesArrive(slot) PROVE CollectionInv'
<1>1. page.ops[slot] \in Op /\ page.ops[slot] # IdleSlot /\ page.ops[slot].phase = "arriving"
  BY SlotAtWork DEF VariablesArrive
<1>2. IdleSlot \in Op
  BY DEF IdleSlot, Op
<1>3. PICK ops \in [Slots -> Op], sees \in SUBSET Items, clean \in BOOLEAN :
         /\ ops = [page.ops EXCEPT ![slot] = IdleSlot] /\ sees = page.ops[slot].sees
         /\ clean <=> ~ page.raced
         /\ page' = [page EXCEPT !.variables = sees, !.temporary = 0, !.ops = ops, !.clean = clean]
         /\ UNCHANGED server
  BY <1>1, <1>2 DEF VariablesArrive, CollectionInv, CollectionTypeOK, Op
<1>4. CollectionTypeOK'
  BY <1>3 DEF CollectionInv, CollectionTypeOK
<1>5. /\ page'.ops = ops /\ page'.variables = sees /\ page'.temporary = 0 /\ page'.clean = clean
      /\ page.ops \in [Slots -> Op]
      /\ UNCHANGED <<page.mode, page.loaded, page.selectedWorkspaces, page.save, page.saved,
                     page.raced>>
  BY <1>3 DEF CollectionInv, CollectionTypeOK
<1>6. ScopeInv'
  BY <1>3, <1>5, ScopeUntouched DEF CollectionInv
<1>7. \A other \in Slots : ops[other] = IF other = slot THEN IdleSlot ELSE page.ops[other]
  BY <1>3, <1>5
<1>8. ~ page.raced => \A other \in Slots : ops[other] = IdleSlot
  BY <1>1, <1>7 DEF CollectionInv, TableInv, Slots
<1>9. ~ page.raced => sees = server.items
  BY <1>1, <1>3 DEF CollectionInv, TableInv
<1>10. IdleSlot.phase # "arriving"
  BY DEF IdleSlot
<1>11. page.loaded
  BY <1>1 DEF CollectionInv, TableInv
<1>12. TableInv'
  BY <1>3, <1>5, <1>8, <1>9, <1>10, <1>11 DEF TableInv, Slots
<1> QED
  BY <1>4, <1>6, <1>12 DEF CollectionInv
--------------------------------------------------------------------------------
LEMMA CollectionStepInv == CollectionInv /\ [CollectionNext]_pageVars => CollectionInv'
<1> SUFFICES ASSUME CollectionInv, [CollectionNext]_pageVars PROVE CollectionInv'
  OBVIOUS
<1>1. CASE CollectionLoaded \/ SelectWorkspaces \/ PressSave
  BY <1>1, CollectionLoadedInv, SelectWorkspacesInv, PressSaveInv
<1>2. CASE CollectionPosted \/ CollectionPatched \/ ReferencesListed
  BY <1>2, CollectionPostedInv, CollectionPatchedInv, ReferencesListedInv
<1>3. CASE ReferenceDeleted \/ ReferenceAdded \/ Saved \/ CollectionSaveFails
  BY <1>3, ReferenceDeletedInv, ReferenceAddedInv, SavedInv, CollectionSaveFailsInv
<1>4. CASE HandleAddVariable \/ HandleUpdateVariable \/ HandleRemoveVariable
  BY <1>4, HandleAddVariableInv, HandleUpdateVariableInv, HandleRemoveVariableInv
<1>5. ASSUME NEW slot \in Slots,
             VariableWritten(slot) \/ VariablesRead(slot) \/ VariablesArrive(slot)
               \/ VariableFails(slot)
      PROVE  CollectionInv'
  BY <1>5, VariableWrittenInv, VariablesReadInv, VariablesArriveInv, VariableFailsInv
<1>6. CASE UNCHANGED pageVars
  BY <1>6 DEF pageVars, CollectionInv, CollectionTypeOK, ScopeInv, Keeps, Outstanding, TableInv
<1> QED
  BY <1>1, <1>2, <1>3, <1>4, <1>5, <1>6 DEF CollectionNext

(* The invariant holds of every state the form can reach, and is typed.     *)
THEOREM CollectionInvariant == CollectionSpec => []CollectionInv
BY CollectionInitInv, CollectionStepInv, PTL DEF CollectionSpec

(* handleSave: a save that reports success has left just the references to  *)
(* the workspaces selected at the press, and none that dangles.             *)
THEOREM SavedAsSelected == CollectionSpec => []ReferencesAsSelected
<1>1. ASSUME CollectionInv PROVE ReferencesAsSelected
  <2> SUFFICES ASSUME page.saved
               PROVE  server.references = [workspaces |-> page.save.selected, dangling |-> FALSE]
    BY DEF ReferencesAsSelected
  <2>1. /\ page.save.add = {} /\ page.save.delete = {} /\ Outstanding(page.save)
    BY <1>1 DEF CollectionInv, ScopeInv
  <2>2. server.references \in References
    BY <1>1 DEF CollectionInv, CollectionTypeOK
  <2>3. server.references.workspaces = page.save.selected /\ server.references.dangling = FALSE
    BY <2>1, <2>2 DEF Outstanding, References
  <2> QED
    BY <2>2, <2>3 DEF References
<1> QED
  BY <1>1, CollectionInvariant, PTL

(* handleSave: through every request of every save, and whatever fails, a   *)
(* workspace that could read the collection and was not taken out can.      *)
THEOREM AccessIsKept == CollectionSpec => []OnlyDeselectedLoseAccess
<1>1. CollectionInv => OnlyDeselectedLoseAccess
  BY DEF CollectionInv, ScopeInv, Keeps, OnlyDeselectedLoseAccess
<1> QED
  BY <1>1, CollectionInvariant, PTL

(* handleAddVariable, handleUpdateVariable, handleRemoveVariable: a change  *)
(* that succeeded and raced no other leaves the table as stored.            *)
THEOREM TableIsStored == CollectionSpec => []TableAsStored
<1>1. CollectionInv => TableAsStored
  BY DEF CollectionInv, TableInv, TableAsStored
<1> QED
  BY <1>1, CollectionInvariant, PTL
--------------------------------------------------------------------------------
(* The import from the public registry.                                     *)
SearchSpec == SearchInit /\ [][SearchNext]_pageVars

SearchPage ==
    [kind : {"search", "left"}, tab : Tabs, searched : BOOLEAN,
     results : SUBSET Tabs, searches : SUBSET Tabs, existing : SUBSET Listed,
     loadingExisting : BOOLEAN, existingFailed : BOOLEAN,
     modal : Listed \cup {None}, versionLoads : SUBSET Listed,
     loadingVersions : BOOLEAN, versionsOf : Listed \cup {None},
     importing : [stage : {"none", "create", "version", "platforms", "added"},
                  item : Listed \cup {None}, versionsOf : Listed \cup {None}]]
ItemRow ==
    [count : Nat, versionOf : Listed \cup {None}, platforms : SUBSET Platforms, stopped : BOOLEAN]

SearchTypeOK == page \in SearchPage /\ server \in [Listed -> ItemRow]

(* What the page can rely on about an item.                                 *)
Accounted(i) == ~ page.existingFailed /\ ~ server[i].stopped
BeingImported(i) ==
    page.importing.stage \in {"version", "platforms"} /\ page.importing.item = i

(* What is in the registry is known to exist, or is being put there by the  *)
(* one import under way; and that began with what was not known to exist.   *)
SearchInv ==
    /\ SearchTypeOK
    /\ On("search") =>
         /\ page.loadingExisting => ~ page.existingFailed
         /\ \A i \in Listed : Accounted(i) => server[i].count <= 1
         /\ \A i \in Listed :
              Accounted(i) /\ ~ page.loadingExisting /\ server[i].count > 0 =>
                i \in page.existing \/ BeingImported(i)
         /\ page.importing.stage # "none" =>
              page.modal # None /\ page.importing.item = page.modal
         /\ page.modal # None =>
              /\ ~ page.loadingExisting
              /\ page.modal \notin page.existing \/ page.importing.stage = "added"

LEMMA SearchInitInv == SearchInit => SearchInv
<1> SUFFICES ASSUME SearchInit PROVE SearchInv
  OBVIOUS
<1> DEFINE there == [NotImported EXCEPT !.count = 1]
<1>3. PICK before \in SUBSET Listed :
         server = [i \in Listed |-> IF i \in before THEN there ELSE NotImported]
  BY Zenon DEF SearchInit
<1>4. NotImported \in ItemRow /\ NotImported.count = 0 /\ there \in ItemRow /\ there.count = 1
  BY DEF NotImported, ItemRow
<1> HIDE DEF there
<1>5. server \in [Listed -> ItemRow] /\ \A i \in Listed : server[i].count <= 1
  BY <1>3, <1>4
<1>1. SearchTypeOK
  BY <1>5 DEF SearchInit, SearchTypeOK, SearchPage, ItemRow, Tabs, NoImport, None
<1>2. \A i \in Listed : server[i].count <= 1
  BY <1>5
<1> QED
  BY <1>1, <1>2 DEF SearchInit, SearchInv, NoImport, None

(* Searching, and the lists of versions, leave the registry alone.          *)
LEMMA SearchUntouched ==
    ASSUME SearchInv, SearchTypeOK',
           UNCHANGED <<page.kind, page.existing, page.existingFailed, page.loadingExisting,
                       page.modal, page.importing, server>>
    PROVE  SearchInv'
BY DEF SearchInv, On, Accounted, BeingImported

LEMMA ExistingArriveInv == ASSUME SearchInv, ExistingArrive PROVE SearchInv'
<1>1. PICK failed \in {{}, PublicModules, Listed} :
        Change([page EXCEPT !.loadingExisting = FALSE, !.existingFailed = failed # {},
                            !.existing = Imported \ failed])
  BY DEF ExistingArrive
<1>2. PICK lost \in BOOLEAN, existing \in SUBSET Listed :
        /\ lost <=> failed # {}
        /\ existing = Imported \ failed
        /\ page' = [page EXCEPT !.loadingExisting = FALSE, !.existingFailed = lost,
                                !.existing = existing]
        /\ UNCHANGED server
  BY <1>1 DEF Change, Imported
<1>3. SearchTypeOK'
  BY <1>2 DEF SearchInv, SearchTypeOK, SearchPage, ItemRow
<1>4. /\ ~ page'.loadingExisting /\ page'.existingFailed = lost /\ page'.existing = existing
      /\ UNCHANGED <<page.kind, page.modal, page.importing, server>>
  BY <1>2 DEF SearchInv, SearchTypeOK, SearchPage, ItemRow
<1>5. \A i \in Listed : server[i] \in ItemRow
  BY DEF SearchInv, SearchTypeOK, SearchPage, ItemRow
<1>6. page.loadingExisting
  BY DEF ExistingArrive
<1>7. SUFFICES ASSUME On("search") PROVE SearchInv'
  BY <1>3, <1>4 DEF SearchInv, On
<1>8. page.modal = None /\ page.importing.stage = "none"
  BY <1>6, <1>7 DEF SearchInv
<1>9. \A i \in Listed : Accounted(i)' => server'[i].count <= 1
  BY <1>4, <1>5, <1>6, <1>7 DEF SearchInv, Accounted, ItemRow
<1>10. \A i \in Listed : Accounted(i)' /\ server'[i].count > 0 => i \in page'.existing
  BY <1>2, <1>4 DEF Accounted, Imported
<1> QED
  BY <1>3, <1>4, <1>8, <1>9, <1>10 DEF SearchInv

LEMMA OpenAddModalInv ==
    ASSUME SearchInv, NEW item \in Listed, OpenAddModal(item) PROVE SearchInv'
<1>1. /\ page.modal = None /\ ~ page.loadingExisting /\ item \notin page.existing
      /\ UNCHANGED server
      /\ \/ page' = [page EXCEPT !.modal = item, !.versionsOf = None, !.loadingVersions = TRUE,
                                 !.versionLoads = @ \cup {item}]
         \/ page' = [page EXCEPT !.modal = item]
  BY DEF OpenAddModal, Change
<1>2. SearchTypeOK'
  <2>1. PICK versionsOf \in Listed \cup {None}, loading \in BOOLEAN, loads \in SUBSET Listed :
           page' = [page EXCEPT !.modal = item, !.versionsOf = versionsOf,
                                !.loadingVersions = loading, !.versionLoads = loads]
    <3>1. CASE page' = [page EXCEPT !.modal = item]
      <4>1. page' = [page EXCEPT !.modal = item, !.versionsOf = page.versionsOf,
                           !.loadingVersions = page.loadingVersions,
                           !.versionLoads = page.versionLoads]
        BY <3>1 DEF SearchInv, SearchTypeOK, SearchPage, ItemRow
      <4> QED
        BY <4>1 DEF SearchInv, SearchTypeOK, SearchPage, ItemRow
    <3>2. page.versionLoads \cup {item} \in SUBSET Listed
      BY DEF SearchInv, SearchTypeOK, SearchPage, ItemRow
    <3> QED
      BY <1>1, <3>1, <3>2
  <2> QED
    BY <1>1, <2>1 DEF SearchInv, SearchTypeOK, SearchPage, ItemRow
<1>3. /\ page'.modal = item
      /\ UNCHANGED <<page.kind, page.existing, page.existingFailed, page.loadingExisting,
                     page.importing, server>>
  BY <1>1 DEF SearchInv, SearchTypeOK, SearchPage, ItemRow
<1> QED
  BY <1>1, <1>2, <1>3 DEF SearchInv, On, Accounted, BeingImported

LEMMA HandleAddInv == ASSUME SearchInv, HandleAdd PROVE SearchInv'
<1> DEFINE new == [stage |-> "create", item |-> page.modal, versionsOf |-> page.versionsOf]
<1>1. /\ page.modal # None /\ page.importing = NoImport /\ UNCHANGED server
      /\ page' = [page EXCEPT !.importing = new]
  BY DEF HandleAdd, Change
<1>2. /\ new \in [stage : {"none", "create", "version", "platforms", "added"},
                  item : Listed \cup {None}, versionsOf : Listed \cup {None}]
      /\ new.stage = "create" /\ new.item = page.modal
  BY DEF SearchInv, SearchTypeOK, SearchPage, ItemRow
<1> HIDE DEF new
<1>3. SearchTypeOK'
  BY <1>1, <1>2 DEF SearchInv, SearchTypeOK, SearchPage, ItemRow
<1>4. /\ page'.importing = new
      /\ UNCHANGED <<page.kind, page.existing, page.existingFailed, page.loadingExisting,
                     page.modal, server>>
  BY <1>1 DEF SearchInv, SearchTypeOK, SearchPage, ItemRow
<1> QED
  BY <1>1, <1>2, <1>3, <1>4 DEF SearchInv, On, Accounted, BeingImported, NoImport

LEMMA CancelInv == ASSUME SearchInv, Cancel PROVE SearchInv'
<1>1. /\ page' = [page EXCEPT !.modal = None, !.versionsOf = None, !.importing = NoImport]
      /\ UNCHANGED server /\ page.importing = NoImport
  BY DEF Cancel, Change, CloseModal
<1>2. SearchTypeOK'
  BY <1>1 DEF SearchInv, SearchTypeOK, SearchPage, ItemRow, NoImport
<1>3. /\ page'.modal = None /\ page'.importing = NoImport
      /\ UNCHANGED <<page.kind, page.existing, page.existingFailed, page.loadingExisting>>
  BY <1>1 DEF SearchInv, SearchTypeOK, SearchPage, ItemRow
<1> QED
  BY <1>1, <1>2, <1>3 DEF SearchInv, On, Accounted, BeingImported, NoImport
--------------------------------------------------------------------------------
(* What is created is the item of the modal.                                *)
LEMMA ItemIsListed ==
    ASSUME SearchInv, On("search"), page.importing.stage # "none"
    PROVE  /\ Item \in Listed /\ Item = page.modal /\ page.modal # None
           /\ page.importing \in [stage : {"none", "create", "version", "platforms", "added"},
                                  item : Listed \cup {None}, versionsOf : Listed \cup {None}]
BY DEF SearchInv, SearchTypeOK, SearchPage, ItemRow, Item

(* The page that leaves promises nothing any more.                          *)
LEMMA LeftInv ==
    ASSUME SearchInv, page' = Registry,
           server' \in [Listed -> ItemRow]
    PROVE  SearchInv'
<1> DEFINE closed == [page EXCEPT !.modal = None, !.versionsOf = None, !.importing = NoImport]
<1>1. closed \in SearchPage
  BY DEF SearchInv, SearchTypeOK, SearchPage, NoImport
<1>2. page' = [closed EXCEPT !.kind = "left"]
  BY DEF Registry, CloseModal
<1> HIDE DEF closed
<1>3. SearchTypeOK' /\ page'.kind = "left"
  BY <1>1, <1>2 DEF SearchTypeOK, SearchPage, ItemRow
<1> QED
  BY <1>3 DEF SearchInv, On

LEMMA CreateItemInv == ASSUME SearchInv, On("search"), CreateItem PROVE SearchInv'
<1>1. Item \in Listed /\ Item = page.modal /\ page.importing.stage = "create"
  BY ItemIsListed DEF CreateItem
<1>2. server \in [Listed -> ItemRow]
  BY DEF SearchInv, SearchTypeOK, SearchPage, ItemRow
<1>3. PICK row \in ItemRow :
         /\ row.count = server[Item].count + 1 /\ row.stopped = server[Item].stopped
         /\ server' = [server EXCEPT ![Item] = row]
  <2> DEFINE new == [server[Item] EXCEPT !.count = @ + 1]
  <2>1. new \in ItemRow /\ new.count = server[Item].count + 1 /\ new.stopped = server[Item].stopped
    BY <1>1, <1>2 DEF ItemRow
  <2>2. server' = [server EXCEPT ![Item] = new]
    BY DEF CreateItem
  <2> QED
    BY <2>1, <2>2
<1>4. server' \in [Listed -> ItemRow]
  BY <1>1, <1>2, <1>3
<1>5. CASE Item \notin Providers
  BY <1>4, <1>5, LeftInv DEF CreateItem, ItemRow
<1>6. CASE Item \in Providers
  <2>1. page' = [page EXCEPT !.importing.stage = "version"]
    BY <1>6 DEF CreateItem, AtStage
  <2>2. SearchTypeOK'
    BY <1>4, <2>1 DEF SearchInv, SearchTypeOK, SearchPage, ItemRow
  <2>3. /\ page'.importing.stage = "version" /\ page'.importing.item = Item
        /\ UNCHANGED <<page.kind, page.existing, page.existingFailed, page.loadingExisting,
                       page.modal>>
    BY <2>1 DEF SearchInv, SearchTypeOK, SearchPage, ItemRow, Item
  <2>4. \A i \in Listed : i # Item => server'[i] = server[i]
    BY <1>2, <1>3
  <2>5. server'[Item] = row /\ server[Item].count \in Nat
    BY <1>1, <1>2, <1>3 DEF ItemRow
  <2>6. ~ (Accounted(Item) /\ server[Item].count > 0)
    BY <1>1 DEF SearchInv, BeingImported
  <2>7. \A i \in Listed : Accounted(i)' => server'[i].count <= 1
    BY <1>3, <2>3, <2>4, <2>5, <2>6 DEF SearchInv, Accounted
  <2>8. \A i \in Listed :
           Accounted(i)' /\ server'[i].count > 0 => i \in page'.existing \/ BeingImported(i)'
    BY <1>1, <1>3, <2>3, <2>4 DEF SearchInv, Accounted, BeingImported
  <2> QED
    BY <1>1, <2>2, <2>3, <2>7, <2>8 DEF SearchInv, On
<1> QED
  BY <1>5, <1>6

(* The version and the platforms change neither how often an item is in the *)
(* registry nor whether an import of it stopped.                            *)
LEMMA ItemUpdated ==
    ASSUME SearchInv, On("search"), SearchTypeOK',
           \A i \in Listed : /\ server'[i].count = server[i].count
                             /\ server[i].stopped => server'[i].stopped,
           UNCHANGED <<page.kind, page.existingFailed, page.loadingExisting, page.modal>>,
           page.existing \subseteq page'.existing,
           \/ page'.importing.item = page.importing.item /\ page'.existing = page.existing
              /\ page.importing.stage = "version" /\ page'.importing.stage = "platforms"
           \/ page'.importing.item = page.importing.item /\ page'.importing.stage = "added"
              /\ page.importing.stage = "platforms"
              /\ page.importing.item \in page'.existing
    PROVE  SearchInv'
BY DEF SearchInv, On, Accounted, BeingImported

LEMMA CreateVersionInv == ASSUME SearchInv, On("search"), CreateVersion PROVE SearchInv'
<1>1. Item \in Listed /\ Item = page.modal /\ page.importing.stage = "version"
  BY ItemIsListed DEF CreateVersion
<1>2. server \in [Listed -> ItemRow] /\ page.importing.versionsOf \in Listed \cup {None}
  BY <1>1, ItemIsListed DEF SearchInv, SearchTypeOK, SearchPage, ItemRow
<1>3. PICK row \in ItemRow :
         /\ row.count = server[Item].count /\ row.stopped = server[Item].stopped
         /\ server' = [server EXCEPT ![Item] = row]
  <2> DEFINE new == [server[Item] EXCEPT !.versionOf = page.importing.versionsOf]
  <2>1. new \in ItemRow /\ new.count = server[Item].count /\ new.stopped = server[Item].stopped
    BY <1>1, <1>2 DEF ItemRow
  <2>2. server' = [server EXCEPT ![Item] = new]
    BY DEF CreateVersion
  <2> QED
    BY <2>1, <2>2
<1>4. /\ server' \in [Listed -> ItemRow]
      /\ \A i \in Listed : server'[i].count = server[i].count /\ server'[i].stopped = server[i].stopped
  BY <1>1, <1>2, <1>3
<1>5. page' = [page EXCEPT !.importing.stage = "platforms"]
  BY DEF CreateVersion, AtStage
<1>6. SearchTypeOK'
  BY <1>4, <1>5 DEF SearchInv, SearchTypeOK, SearchPage, ItemRow
<1>7. /\ page'.importing.stage = "platforms" /\ page'.importing.item = page.importing.item
      /\ UNCHANGED <<page.kind, page.existing, page.existingFailed, page.loadingExisting,
                     page.modal>>
  BY <1>5 DEF SearchInv, SearchTypeOK, SearchPage, ItemRow
<1> QED
  BY <1>1, <1>4, <1>6, <1>7, ItemUpdated

LEMMA CreateImplementationsInv ==
    ASSUME SearchInv, On("search"), CreateImplementations PROVE SearchInv'
<1>1. Item \in Listed /\ Item = page.modal /\ page.importing.stage = "platforms"
  BY ItemIsListed DEF CreateImplementations
<1>2. server \in [Listed -> ItemRow]
  BY DEF SearchInv, SearchTypeOK, SearchPage, ItemRow
<1>3. PICK created \in SUBSET Platforms : server' = [server EXCEPT ![Item].platforms = created]
  BY DEF CreateImplementations
<1>8. PICK row \in ItemRow :
         /\ row.count = server[Item].count /\ row.stopped = server[Item].stopped
         /\ server' = [server EXCEPT ![Item] = row]
  <2> DEFINE new == [server[Item] EXCEPT !.platforms = created]
  <2>1. new \in ItemRow /\ new.count = server[Item].count /\ new.stopped = server[Item].stopped
    BY <1>1, <1>2 DEF ItemRow
  <2>2. server' = [server EXCEPT ![Item] = new]
    BY <1>3
  <2> QED
    BY <2>1, <2>2
<1>4. /\ server' \in [Listed -> ItemRow]
      /\ \A i \in Listed : server'[i].count = server[i].count /\ server'[i].stopped = server[i].stopped
  BY <1>1, <1>2, <1>8
<1>9. PICK existing \in SUBSET Listed :
         /\ existing = page.existing \cup {Item}
         /\ page' = [page EXCEPT !.importing.stage = "added", !.existing = existing]
  <2> DEFINE staged == AtStage("added")
  <2>1. page' = [staged EXCEPT !.existing = @ \cup {Item}]
    BY DEF CreateImplementations
  <2>2. staged \in SearchPage /\ staged.existing = page.existing
    BY DEF AtStage, SearchInv, SearchTypeOK, SearchPage
  <2>3. staged = [page EXCEPT !.importing.stage = "added"]
    BY DEF AtStage
  <2>4. page.existing \cup {Item} \in SUBSET Listed
    BY <1>1 DEF SearchInv, SearchTypeOK, SearchPage
  <2>5. page' = [page EXCEPT !.importing.stage = "added", !.existing = page.existing \cup {Item}]
    BY <2>1, <2>2, <2>3
  <2> QED
    BY <2>4, <2>5
<1>6. SearchTypeOK'
  BY <1>4, <1>9 DEF SearchInv, SearchTypeOK, SearchPage, ItemRow
<1>7. /\ page'.importing.stage = "added" /\ page'.importing.item = page.importing.item
      /\ page'.existing = existing
      /\ UNCHANGED <<page.kind, page.existingFailed, page.loadingExisting, page.modal>>
  BY <1>9 DEF SearchInv, SearchTypeOK, SearchPage, ItemRow
<1> QED
  BY <1>1, <1>4, <1>6, <1>7, <1>9, ItemUpdated DEF Item

(* An import that fails before its version is marked as stopped, and its    *)
(* item may be there without the page knowing.                              *)
LEMMA ImportFailsInv == ASSUME SearchInv, On("search"), ImportFails PROVE SearchInv'
<1>1. Item \in Listed /\ Item = page.modal /\ page.importing.stage \in {"create", "version"}
  BY ItemIsListed DEF ImportFails
<1>2. server \in [Listed -> ItemRow]
  BY DEF SearchInv, SearchTypeOK, SearchPage, ItemRow
<1>3. PICK row \in ItemRow :
         /\ row.count = server[Item].count
         /\ row.stopped <=> server[Item].stopped \/ page.importing.stage = "version"
         /\ server' = [server EXCEPT ![Item] = row]
  <2>1. PICK stopped \in BOOLEAN :
           /\ stopped <=> server[Item].stopped \/ page.importing.stage = "version"
           /\ server' = [server EXCEPT ![Item].stopped = stopped]
    BY <1>1, <1>2 DEF ImportFails, ItemRow
  <2> DEFINE new == [server[Item] EXCEPT !.stopped = stopped]
  <2>2. new \in ItemRow /\ new.count = server[Item].count /\ new.stopped = stopped
    BY <1>1, <1>2, <2>1 DEF ItemRow
  <2>3. server' = [server EXCEPT ![Item] = new]
    BY <2>1
  <2> QED
    BY <2>1, <2>2, <2>3
<1>4. /\ server' \in [Listed -> ItemRow]
      /\ server'[Item] = row /\ \A i \in Listed : i # Item => server'[i] = server[i]
  BY <1>1, <1>2, <1>3
<1>5. page' = [page EXCEPT !.importing = NoImport]
  BY DEF ImportFails
<1>6. SearchTypeOK'
  BY <1>4, <1>5 DEF SearchInv, SearchTypeOK, SearchPage, ItemRow, NoImport
<1>7. /\ page'.importing.stage = "none"
      /\ UNCHANGED <<page.kind, page.existing, page.existingFailed, page.loadingExisting,
                     page.modal>>
  BY <1>5 DEF SearchInv, SearchTypeOK, SearchPage, ItemRow, NoImport
<1>8. page.modal \notin page.existing
  BY <1>1 DEF SearchInv, SearchTypeOK, SearchPage, ItemRow
<1>9. \A i \in Listed : Accounted(i)' => Accounted(i) /\ server'[i].count = server[i].count
  BY <1>3, <1>4, <1>7 DEF Accounted
<1>10. \A i \in Listed : Accounted(i)' => ~ BeingImported(i)
  BY <1>1, <1>3, <1>4 DEF Accounted, BeingImported, Item
<1> QED
  BY <1>6, <1>7, <1>8, <1>9, <1>10 DEF SearchInv, On
--------------------------------------------------------------------------------
LEMMA HandleSearchInv == ASSUME SearchInv, HandleSearch PROVE SearchInv'
<1>1. PICK searches \in SUBSET Tabs :
         page' = [page EXCEPT !.searched = TRUE, !.searches = searches] /\ UNCHANGED server
  <2>1. page.searches \cup {page.tab} \in SUBSET Tabs
    BY DEF SearchInv, SearchTypeOK, SearchPage
  <2> QED
    BY <2>1 DEF HandleSearch, Change
<1>2. SearchTypeOK'
  BY <1>1 DEF SearchInv, SearchTypeOK, SearchPage, ItemRow
<1>3. UNCHANGED <<page.kind, page.existing, page.existingFailed, page.loadingExisting,
                  page.modal, page.importing, server>>
  BY <1>1 DEF SearchInv, SearchTypeOK, SearchPage
<1> QED
  BY <1>2, <1>3, SearchUntouched

LEMMA HandleTabChangeInv == ASSUME SearchInv, HandleTabChange PROVE SearchInv'
<1>1. PICK tab \in Tabs, searches \in SUBSET Tabs :
         page' = [page EXCEPT !.tab = tab, !.searches = searches] /\ UNCHANGED server
  <2> DEFINE tab == IF page.tab = "modules" THEN "providers" ELSE "modules"
             searches == IF page.searched THEN page.searches \cup {tab} ELSE page.searches
  <2>1. tab \in Tabs /\ searches \in SUBSET Tabs
    BY DEF SearchInv, SearchTypeOK, SearchPage, Tabs
  <2>2. page' = [page EXCEPT !.tab = tab, !.searches = searches] /\ UNCHANGED server
    BY DEF HandleTabChange, Change
  <2> QED
    BY <2>1, <2>2
<1>2. SearchTypeOK'
  BY <1>1 DEF SearchInv, SearchTypeOK, SearchPage, ItemRow
<1>3. UNCHANGED <<page.kind, page.existing, page.existingFailed, page.loadingExisting,
                  page.modal, page.importing, server>>
  BY <1>1 DEF SearchInv, SearchTypeOK, SearchPage
<1> QED
  BY <1>2, <1>3, SearchUntouched

LEMMA ResultsArriveInv ==
    ASSUME SearchInv, NEW tab \in page.searches, ResultsArrive(tab) PROVE SearchInv'
<1>1. PICK searches \in SUBSET Tabs, results \in SUBSET Tabs :
         page' = [page EXCEPT !.searches = searches, !.results = results] /\ UNCHANGED server
  <2>1. PICK found \in BOOLEAN :
           Change([page EXCEPT !.searches = @ \ {tab},
                               !.results = IF found THEN @ \cup {tab} ELSE @ \ {tab}])
    BY DEF ResultsArrive
  <2> DEFINE results == IF found THEN page.results \cup {tab} ELSE page.results \ {tab}
  <2>2. page.searches \ {tab} \in SUBSET Tabs /\ results \in SUBSET Tabs
    BY DEF SearchInv, SearchTypeOK, SearchPage
  <2>3. /\ page' = [page EXCEPT !.searches = page.searches \ {tab}, !.results = results]
        /\ UNCHANGED server
    BY <2>1 DEF Change
  <2> QED
    BY <2>2, <2>3
<1>2. SearchTypeOK'
  BY <1>1 DEF SearchInv, SearchTypeOK, SearchPage, ItemRow
<1>3. UNCHANGED <<page.kind, page.existing, page.existingFailed, page.loadingExisting,
                  page.modal, page.importing, server>>
  BY <1>1 DEF SearchInv, SearchTypeOK, SearchPage
<1> QED
  BY <1>2, <1>3, SearchUntouched

LEMMA VersionsArriveInv ==
    ASSUME SearchInv, NEW item \in page.versionLoads, VersionsArrive(item) PROVE SearchInv'
<1>1. PICK loads \in SUBSET Listed, versionsOf \in Listed \cup {None} :
         /\ page' = [page EXCEPT !.versionLoads = loads, !.loadingVersions = FALSE,
                                 !.versionsOf = versionsOf]
         /\ UNCHANGED server
  <2> DEFINE loads == page.versionLoads \ {item}
  <2>1. loads \in SUBSET Listed /\ item \in Listed /\ page.versionsOf \in Listed \cup {None}
    BY DEF SearchInv, SearchTypeOK, SearchPage
  <2>2. /\ UNCHANGED server
        /\ \/ page' = [page EXCEPT !.versionLoads = loads, !.loadingVersions = FALSE,
                                   !.versionsOf = item]
           \/ page' = [page EXCEPT !.versionLoads = loads, !.loadingVersions = FALSE]
    BY DEF VersionsArrive, Change
  <2>3. CASE page' = [page EXCEPT !.versionLoads = loads, !.loadingVersions = FALSE]
    <3>1. page' = [page EXCEPT !.versionLoads = loads, !.loadingVersions = FALSE,
                               !.versionsOf = page.versionsOf]
      BY <2>3 DEF SearchInv, SearchTypeOK, SearchPage
    <3> QED
      BY <2>1, <2>2, <3>1
  <2> QED
    BY <2>1, <2>2, <2>3
<1>2. SearchTypeOK'
  BY <1>1 DEF SearchInv, SearchTypeOK, SearchPage, ItemRow
<1>3. UNCHANGED <<page.kind, page.existing, page.existingFailed, page.loadingExisting,
                  page.modal, page.importing, server>>
  BY <1>1 DEF SearchInv, SearchTypeOK, SearchPage
<1> QED
  BY <1>2, <1>3, SearchUntouched

LEMMA SearchStepInv == SearchInv /\ [SearchNext]_pageVars => SearchInv'
<1> SUFFICES ASSUME SearchInv, [SearchNext]_pageVars PROVE SearchInv'
  OBVIOUS
<1>1. CASE UNCHANGED pageVars
  BY <1>1, SearchUntouched DEF pageVars, SearchInv, SearchTypeOK
<1>2. CASE SearchNext
  <2> USE <1>2 DEF SearchNext
  <2>1. CASE ExistingArrive \/ HandleSearch \/ HandleTabChange
    BY <2>1, ExistingArriveInv, HandleSearchInv, HandleTabChangeInv
  <2>2. CASE Cancel \/ HandleAdd
    BY <2>2, CancelInv, HandleAddInv
  <2>3. CASE CreateItem \/ CreateVersion \/ CreateImplementations \/ ImportFails
    BY <2>3, CreateItemInv, CreateVersionInv, CreateImplementationsInv, ImportFailsInv
  <2>4. CASE Leave
    BY <2>4, LeftInv DEF Leave, SearchInv, SearchTypeOK
  <2>5. ASSUME NEW tab \in page.searches, ResultsArrive(tab) PROVE SearchInv'
    BY <2>5, ResultsArriveInv
  <2>6. ASSUME NEW item \in Listed, OpenAddModal(item) PROVE SearchInv'
    BY <2>6, OpenAddModalInv
  <2>7. ASSUME NEW item \in page.versionLoads, VersionsArrive(item) PROVE SearchInv'
    BY <2>7, VersionsArriveInv
  <2> QED
    BY <2>1, <2>2, <2>3, <2>4, <2>5, <2>6, <2>7
<1> QED
  BY <1>1, <1>2

(* The invariant holds of every state the page can reach, and is typed.     *)
THEOREM SearchInvariant == SearchSpec => []SearchInv
BY SearchInitInv, SearchStepInv, PTL DEF SearchSpec

(* handleAddProvider, handleAddModule: what is in the registry twice got    *)
(* there behind a failed list of what exists, or after an import stopped.   *)
THEOREM ImportsAreNotRepeated == SearchSpec => []ImportedOnce
<1>1. ASSUME SearchInv PROVE ImportedOnce
  <2>1. \A i \in Listed : server[i].count \in Nat
    BY <1>1 DEF SearchInv, SearchTypeOK, ItemRow
  <2> QED
    BY <1>1, <2>1 DEF SearchInv, ImportedOnce, Accounted
<1> QED
  BY <1>1, SearchInvariant, PTL
--------------------------------------------------------------------------------
(* The page of a workspace.                                                 *)
WorkspaceSpec == WorkspaceInit /\ [][WorkspaceNext]_pageVars

Load == [n : Nat, stage : {"templates", "workspace", "includes"}, knows : Nat, sees : Nat]
PermissionSet == [n : Nat \cup {MaxPolls}, stage : {"organization", "workspace"}]
StateLoad == [n : Nat, state : Nat, stage : {"permission", "output", "raw"}]
StateContent == [of : Nat, resources : SUBSET Nat, outputs : SUBSET (STRING \cup {"*****"})]

WorkspacePage ==
    [kind : {"workspace"}, polls : Nat, loads : SUBSET Load,
     permissionSets : SUBSET PermissionSet, stateLoads : SUBSET StateLoad, loadError : BOOLEAN,
     workspace : {NotLoaded, "locked", "unlocked"}, tables : Tables \cup {NotLoaded},
     permissions : {NotLoaded, "organization", "workspace"}, currentStateId : Nat,
     content : StateContent, permissionsMissed : BOOLEAN, stateMissed : BOOLEAN]

WorkspaceTypeOK ==
    /\ page \in WorkspacePage
    /\ server \in [locked : BOOLEAN, last : 0 .. Len(States)]

(* Nothing has been asked for, or a request that ends with the permissions  *)
(* for the workspace is under way, or one has been answered or has failed.  *)
PermissionInv ==
    /\ page.polls = 0 =>
         page.permissions = NotLoaded /\ page.permissionSets = {} /\ page.loads = {}
    /\ page.polls > 0 /\ page.permissions # "workspace" /\ ~ page.permissionsMissed =>
         page.permissionSets # {}

(* StateContent is all there is to show of the version it is of.                 *)
Shows(content) ==
    content.of # 0 =>
        /\ Descended(State(content.of).resources) \subseteq content.resources
        /\ Cardinality(content.outputs) = Cardinality(State(content.of).outputs)

(* The requests for a state version name versions there are.                *)
RequestInv ==
    /\ IsFiniteSet(page.loads)
    /\ page.currentStateId <= server.last
    /\ \A load \in page.loads : load.stage = "includes" => load.sees <= server.last
    /\ \A load \in page.stateLoads :
         load.state <= server.last /\ (load.stage # "permission" => load.state # 0)

(* While nothing has been missed, every request that will compare versions  *)
(* compares with the one the page knows, at most one state is being fetched *)
(* and it is that version's, and what is shown is no older than it.         *)
FreshInv ==
    ~ page.stateMissed =>
        /\ \A load \in page.loads :
             /\ load.knows = page.currentStateId
             /\ load.stage = "includes" => load.sees >= page.currentStateId
        /\ \A load \in page.stateLoads :
             load.state = page.currentStateId /\ page.stateLoads = {load}
        /\ page.stateLoads = {} => page.content.of >= page.currentStateId

ContentInv ==
    /\ page.content.of <= server.last
    /\ Shows(page.content)
    /\ "secret" \notin page.content.outputs

WorkspaceInv == WorkspaceTypeOK /\ PermissionInv /\ RequestInv /\ FreshInv /\ ContentInv

LEMMA WorkspaceInitInv == WorkspaceInit => WorkspaceInv
<1> SUFFICES ASSUME WorkspaceInit PROVE WorkspaceInv
  OBVIOUS
<1>1. WorkspaceTypeOK
  BY WorkspaceAssumption DEF WorkspaceInit, WorkspaceTypeOK, WorkspacePage, NoContent, StateContent
<1>2. PermissionInv
  BY DEF WorkspaceInit, PermissionInv
<1>3. RequestInv /\ FreshInv /\ ContentInv
  BY <1>1, FS_EmptySet
     DEF WorkspaceInit, RequestInv, FreshInv, ContentInv, Shows, NoContent, WorkspaceTypeOK
<1> QED
  BY <1>1, <1>2, <1>3 DEF WorkspaceInv

(* A mask stands for one secret, so masking keeps the number of outputs.    *)
LEMMA MaskedSize ==
    ASSUME NEW outputs, IsFiniteSet(outputs), "*****" \notin outputs
    PROVE  /\ Masked(outputs) \subseteq outputs \cup {"*****"}
           /\ "secret" \notin Masked(outputs)
           /\ Cardinality(Masked(outputs)) = Cardinality(outputs)
<1> DEFINE mask == [output \in outputs |-> IF output = "secret" THEN "*****" ELSE output]
<1>1. Masked(outputs) \subseteq outputs \cup {"*****"} /\ "secret" \notin Masked(outputs)
  <2>1. \A output \in outputs :
           mask[output] \in outputs \cup {"*****"} /\ mask[output] # "secret"
    OBVIOUS
  <2>2. Masked(outputs) = {mask[output] : output \in outputs}
    BY DEF Masked
  <2> HIDE DEF mask
  <2> QED
    BY <2>1, <2>2
<1>2. mask \in Bijection(outputs, Masked(outputs))
  <2>1. mask \in [outputs -> Masked(outputs)]
    BY DEF Masked
  <2>2. \A a, b \in outputs : mask[a] = mask[b] => a = b
    OBVIOUS
  <2>3. \A t \in Masked(outputs) : \E s \in outputs : mask[s] = t
    BY DEF Masked
  <2> HIDE DEF mask
  <2> QED
    BY <2>1, <2>2, <2>3 DEF Bijection, Injection, IsInjective, Surjection
<1>3. ExistsBijection(outputs, Masked(outputs))
  BY <1>2 DEF ExistsBijection
<1> QED
  BY <1>1, <1>3, FS_Bijection

(* Both readers show all there is to show of a version, and no secret.      *)
LEMMA ParsedShows ==
    ASSUME NEW id \in 1 .. Len(States),
           NEW content \in {ParseState(id), ParseOldState(id)}
    PROVE  /\ content \in StateContent /\ content.of = id
           /\ Shows(content) /\ "secret" \notin content.outputs
<1> DEFINE Row == [resources : SUBSET Nat, outputs : SUBSET STRING]
<1>1. id \in DOMAIN States /\ States[id] \in Row
  <2>1. States \in Seq(Row)
    BY WorkspaceAssumption
  <2> HIDE DEF Row
  <2> QED
    BY <2>1
<1>2. /\ State(id).resources \in SUBSET Nat /\ State(id).outputs \in SUBSET STRING
      /\ IsFiniteSet(State(id).outputs) /\ "*****" \notin State(id).outputs
  BY <1>1, WorkspaceAssumption DEF State
<1>3. /\ Masked(State(id).outputs) \subseteq State(id).outputs \cup {"*****"}
      /\ "secret" \notin Masked(State(id).outputs)
      /\ Cardinality(Masked(State(id).outputs)) = Cardinality(State(id).outputs)
  BY <1>2, MaskedSize
<1>4. Descended(State(id).resources) \subseteq State(id).resources
  BY DEF Descended
<1>5. PICK resources \in {Descended(State(id).resources), State(id).resources} :
         content = [of |-> id, resources |-> resources, outputs |-> Masked(State(id).outputs)]
  BY DEF ParseState, ParseOldState
<1>6. Masked(State(id).outputs) \in SUBSET (STRING \cup {"*****"})
  BY <1>2, <1>3
<1>7. resources \in SUBSET Nat /\ id \in Nat
  BY <1>2, <1>4
<1>8. content \in StateContent
  BY <1>5, <1>6, <1>7 DEF StateContent
<1>9. /\ content.of = id /\ content.resources = resources
      /\ content.outputs = Masked(State(id).outputs)
  BY <1>5
<1> QED
  BY <1>3, <1>4, <1>8, <1>9 DEF Shows

LEMMA WorkspaceTyped ==
    ASSUME WorkspaceInv
    PROVE  /\ page \in WorkspacePage /\ server.last \in Nat /\ server.last <= Len(States)
           /\ server \in [locked : BOOLEAN, last : 0 .. Len(States)]
           /\ page.polls \in Nat /\ page.currentStateId \in Nat /\ page.content \in StateContent
           /\ page.loads \subseteq Load /\ page.stateLoads \subseteq StateLoad
           /\ Len(States) \in Nat
BY WorkspaceAssumption DEF WorkspaceInv, WorkspaceTypeOK, WorkspacePage

(* What neither ends a load nor touches a fetch leaves the content as good  *)
(* as it was, whatever becomes of the workspace meanwhile.                  *)
LEMMA ContentUntouched ==
    ASSUME WorkspaceInv, WorkspaceTypeOK', server'.last >= server.last,
           UNCHANGED <<page.currentStateId, page.content, page.stateLoads, page.stateMissed>>,
           IsFiniteSet(page'.loads),
           \A load \in page'.loads :
             \/ load \in page.loads
             \/ /\ ~ page.stateMissed => load.knows = page.currentStateId
                /\ load.stage = "includes" => load.sees = server.last
    PROVE  RequestInv' /\ FreshInv' /\ ContentInv'
<1>1. server'.last \in Nat
  BY WorkspaceAssumption DEF WorkspaceTypeOK
<1>2. \A load \in page.loads : load.sees \in Nat
  BY WorkspaceTyped DEF Load
<1>3. \A load \in page.stateLoads : load.state \in Nat
  BY WorkspaceTyped DEF StateLoad
<1>4. RequestInv'
  BY <1>1, <1>2, <1>3, WorkspaceTyped DEF WorkspaceInv, RequestInv
<1>5. FreshInv'
  BY <1>1, WorkspaceTyped DEF WorkspaceInv, RequestInv, FreshInv
<1>6. page.content.of \in Nat
  BY WorkspaceTyped DEF StateContent
<1>7. ContentInv'
  BY <1>1, <1>6, WorkspaceTyped DEF WorkspaceInv, ContentInv, Shows
<1> QED
  BY <1>4, <1>5, <1>7

LEMMA PermissionUntouched ==
    ASSUME WorkspaceInv, page.polls # 0, page'.polls # 0, page'.polls \in Nat,
           UNCHANGED <<page.permissions, page.permissionsMissed>>,
           page.permissionSets \subseteq page'.permissionSets
    PROVE  PermissionInv'
BY WorkspaceTyped DEF WorkspaceInv, PermissionInv

LEMMA WorkspaceChangesInv == ASSUME WorkspaceInv, WorkspaceChanges PROVE WorkspaceInv'
<1>1. /\ server' \in [locked : BOOLEAN, last : 0 .. Len(States)] /\ UNCHANGED page
      /\ server'.last >= server.last
  <2>1. CASE server.last < Len(States) /\ server' = [server EXCEPT !.last = @ + 1]
    BY <2>1, WorkspaceTyped DEF WorkspaceChanges
  <2>2. CASE server' = [server EXCEPT !.locked = ~ @]
    <3>1. PICK locked \in BOOLEAN : server' = [server EXCEPT !.locked = locked]
      BY <2>2, WorkspaceTyped
    <3> QED
      BY <3>1, WorkspaceTyped DEF WorkspaceChanges
  <2> QED
    BY <2>1, <2>2 DEF WorkspaceChanges
<1>2. WorkspaceTypeOK' /\ PermissionInv'
  BY <1>1, WorkspaceTyped DEF WorkspaceInv, WorkspaceTypeOK, PermissionInv
<1>3. RequestInv' /\ FreshInv' /\ ContentInv'
  BY <1>1, <1>2, ContentUntouched DEF WorkspaceInv, RequestInv
<1> QED
  BY <1>2, <1>3 DEF WorkspaceInv

(* A load begins with the version the page knows.                           *)
LEMMA BeginLoadAdds ==
    ASSUME WorkspaceInv
    PROVE  /\ BeginLoad(page) \in WorkspacePage
           /\ BeginLoad(page).polls = page.polls + 1
           /\ \E load \in Load : /\ load.knows = page.currentStateId /\ load.stage = "templates"
                                 /\ BeginLoad(page).loads = page.loads \cup {load}
           /\ BeginLoad(page).currentStateId = page.currentStateId
           /\ BeginLoad(page).content = page.content
           /\ BeginLoad(page).stateLoads = page.stateLoads
           /\ BeginLoad(page).stateMissed = page.stateMissed
           /\ BeginLoad(page).permissions = page.permissions
           /\ BeginLoad(page).permissionSets = page.permissionSets
           /\ BeginLoad(page).permissionsMissed = page.permissionsMissed
<1> DEFINE load == [n |-> page.polls, stage |-> "templates", knows |-> page.currentStateId, sees |-> 0]
           loads == page.loads \cup {load}
<1>1. load \in Load /\ load.knows = page.currentStateId /\ load.stage = "templates"
  BY WorkspaceTyped DEF Load
<1>2. BeginLoad(page) = [page EXCEPT !.polls = page.polls + 1, !.loads = loads]
  BY DEF BeginLoad
<1>3. page.polls + 1 \in Nat /\ loads \in SUBSET Load
  BY <1>1, WorkspaceTyped
<1> HIDE DEF load
<1> QED
  BY <1>1, <1>2, <1>3, WorkspaceTyped DEF WorkspacePage

LEMMA BeginPermissionSetAdds ==
    ASSUME NEW p \in WorkspacePage, NEW n \in Nat \cup {MaxPolls}
    PROVE  /\ BeginPermissionSet(p, n) \in WorkspacePage
           /\ BeginPermissionSet(p, n).permissionSets # {}
           /\ p.permissionSets \subseteq BeginPermissionSet(p, n).permissionSets
           /\ BeginPermissionSet(p, n).polls = p.polls
           /\ BeginPermissionSet(p, n).loads = p.loads
           /\ BeginPermissionSet(p, n).currentStateId = p.currentStateId
           /\ BeginPermissionSet(p, n).content = p.content
           /\ BeginPermissionSet(p, n).stateLoads = p.stateLoads
           /\ BeginPermissionSet(p, n).stateMissed = p.stateMissed
           /\ BeginPermissionSet(p, n).permissions = p.permissions
           /\ BeginPermissionSet(p, n).permissionsMissed = p.permissionsMissed
<1> DEFINE set == [n |-> n, stage |-> "organization"]
           sets == p.permissionSets \cup {set}
<1>1. sets \in SUBSET PermissionSet /\ sets # {} /\ p.permissionSets \subseteq sets
  <2>1. set \in PermissionSet
    BY DEF PermissionSet
  <2>2. p.permissionSets \subseteq PermissionSet
    BY DEF WorkspacePage
  <2> HIDE DEF set
  <2> QED
    BY <2>1, <2>2
<1>2. BeginPermissionSet(p, n) = [p EXCEPT !.permissionSets = sets]
  BY DEF BeginPermissionSet
<1> HIDE DEF sets
<1> QED
  BY <1>1, <1>2 DEF WorkspacePage

LEMMA LoadOrPollInv == ASSUME WorkspaceInv, LoadOrPoll PROVE WorkspaceInv'
<1> DEFINE began == BeginLoad(page)
<1>1. began \in WorkspacePage /\ page.polls \in Nat
  BY BeginLoadAdds, WorkspaceTyped
<1>2. page' = BeginPermissionSet(began, page.polls) /\ UNCHANGED server
  BY DEF LoadOrPoll
<1>3. /\ page' \in WorkspacePage /\ page'.polls = page.polls + 1
      /\ page'.permissionSets # {} /\ page'.loads = began.loads
      /\ UNCHANGED <<page.currentStateId, page.content, page.stateLoads, page.stateMissed,
                     page.permissions, page.permissionsMissed>>
  BY <1>1, <1>2, BeginLoadAdds, BeginPermissionSetAdds
<1>4. WorkspaceTypeOK'
  BY <1>2, <1>3, WorkspaceTyped DEF WorkspaceTypeOK
<1>5. PermissionInv'
  BY <1>1, <1>3 DEF PermissionInv
<1>6. PICK load \in Load : /\ load.knows = page.currentStateId /\ load.stage = "templates"
                           /\ page'.loads = page.loads \cup {load}
  BY <1>3, BeginLoadAdds
<1>7. IsFiniteSet(page'.loads)
  BY <1>6, FS_AddElement DEF WorkspaceInv, RequestInv
<1>8. RequestInv' /\ FreshInv' /\ ContentInv'
  BY <1>2, <1>3, <1>4, <1>6, <1>7, ContentUntouched, WorkspaceTyped
<1> QED
  BY <1>4, <1>5, <1>8 DEF WorkspaceInv

LEMMA HandleLockButtonInv == ASSUME WorkspaceInv, HandleLockButton PROVE WorkspaceInv'
<1>1. page' = BeginLoad(page) /\ page.permissions # NotLoaded
  BY DEF HandleLockButton, PageShown
<1>2. PICK locked \in BOOLEAN : server' = [server EXCEPT !.locked = locked]
  BY DEF HandleLockButton
<1>3. server' \in [locked : BOOLEAN, last : 0 .. Len(States)] /\ server'.last = server.last
  BY <1>2, WorkspaceTyped
<1>4. page' \in WorkspacePage /\ page'.polls = page.polls + 1 /\ page.polls \in Nat
  BY <1>1, BeginLoadAdds, WorkspaceTyped
<1>5. UNCHANGED <<page.currentStateId, page.content, page.stateLoads, page.stateMissed,
                  page.permissions, page.permissionsMissed, page.permissionSets>>
  BY <1>1, BeginLoadAdds
<1>6. WorkspaceTypeOK'
  BY <1>3, <1>4 DEF WorkspaceTypeOK
<1>7. PermissionInv'
  BY <1>1, <1>4, <1>5, PermissionUntouched DEF WorkspaceInv, PermissionInv
<1>8. PICK load \in Load : /\ load.knows = page.currentStateId /\ load.stage = "templates"
                           /\ page'.loads = page.loads \cup {load}
  BY <1>1, BeginLoadAdds
<1>9. IsFiniteSet(page'.loads)
  BY <1>8, FS_AddElement DEF WorkspaceInv, RequestInv
<1>10. RequestInv' /\ FreshInv' /\ ContentInv'
  BY <1>3, <1>5, <1>6, <1>8, <1>9, ContentUntouched, WorkspaceTyped
<1> QED
  BY <1>6, <1>7, <1>10 DEF WorkspaceInv
--------------------------------------------------------------------------------
(* A load that goes on keeps what it compares with.                         *)
LEMMA TemplatesArriveInv ==
    ASSUME WorkspaceInv, NEW load \in page.loads, TemplatesArrive(load) PROVE WorkspaceInv'
<1> DEFINE new == [load EXCEPT !.stage = "workspace"]
           loads == (page.loads \ {load}) \cup {new}
<1>1. load \in Load /\ load.stage = "templates"
  BY WorkspaceTyped DEF TemplatesArrive
<1>2. new \in Load /\ new.knows = load.knows /\ new.stage = "workspace"
  BY <1>1 DEF Load
<1>3. page' = [page EXCEPT !.loads = loads] /\ UNCHANGED server
  BY DEF TemplatesArrive
<1> HIDE DEF new
<1>4. loads \in SUBSET Load /\ IsFiniteSet(loads)
  BY <1>2, WorkspaceTyped, FS_AddElement, FS_RemoveElement DEF WorkspaceInv, RequestInv
<1>5. page' \in WorkspacePage /\ page'.loads = loads
      /\ UNCHANGED <<page.currentStateId, page.content, page.stateLoads, page.stateMissed,
                     page.permissions, page.permissionsMissed, page.permissionSets, page.polls>>
  BY <1>3, <1>4, WorkspaceTyped DEF WorkspacePage
<1>6. WorkspaceTypeOK'
  BY <1>3, <1>5, WorkspaceTyped DEF WorkspaceTypeOK
<1>7. PermissionInv'
  BY <1>5, PermissionUntouched, WorkspaceTyped DEF WorkspaceInv, PermissionInv
<1>8. ~ page.stateMissed => load.knows = page.currentStateId
  BY DEF WorkspaceInv, FreshInv
<1>9. RequestInv' /\ FreshInv' /\ ContentInv'
  BY <1>2, <1>3, <1>4, <1>5, <1>6, <1>8, ContentUntouched, WorkspaceTyped
<1> QED
  BY <1>6, <1>7, <1>9 DEF WorkspaceInv

LEMMA WorkspaceArrivesInv ==
    ASSUME WorkspaceInv, NEW load \in page.loads, WorkspaceArrives(load) PROVE WorkspaceInv'
<1> DEFINE new == [load EXCEPT !.stage = "includes", !.sees = server.last]
           loads == (page.loads \ {load}) \cup {new}
           shown == [page EXCEPT !.workspace = Lock(server.locked), !.loads = loads]
<1>1. load \in Load /\ load.stage = "workspace"
  BY WorkspaceTyped DEF WorkspaceArrives
<1>2. new \in Load /\ new.knows = load.knows /\ new.sees = server.last
  BY <1>1, WorkspaceTyped DEF Load
<1>3. /\ page' = IF load.n = 0 THEN BeginPermissionSet(shown, MaxPolls) ELSE shown
      /\ UNCHANGED server
  BY DEF WorkspaceArrives
<1> HIDE DEF new
<1>4. loads \in SUBSET Load /\ IsFiniteSet(loads)
  BY <1>2, WorkspaceTyped, FS_AddElement, FS_RemoveElement DEF WorkspaceInv, RequestInv
<1>5. /\ shown \in WorkspacePage /\ shown.loads = loads
      /\ shown.currentStateId = page.currentStateId /\ shown.content = page.content
      /\ shown.stateLoads = page.stateLoads /\ shown.stateMissed = page.stateMissed
      /\ shown.permissions = page.permissions /\ shown.polls = page.polls
      /\ shown.permissionsMissed = page.permissionsMissed
      /\ shown.permissionSets = page.permissionSets
  <2>1. Lock(server.locked) \in {NotLoaded, "locked", "unlocked"}
    BY DEF Lock
  <2> QED
    BY <1>4, <2>1, WorkspaceTyped DEF WorkspacePage
<1> HIDE DEF shown
<1>6. page' \in WorkspacePage /\ page'.loads = loads
      /\ UNCHANGED <<page.currentStateId, page.content, page.stateLoads, page.stateMissed,
                     page.permissions, page.permissionsMissed, page.polls>>
      /\ page.permissionSets \subseteq page'.permissionSets
  <2>1. CASE load.n = 0
    BY <1>3, <1>5, <2>1, BeginPermissionSetAdds
  <2>2. CASE load.n # 0
    BY <1>3, <1>5, <2>2
  <2> QED
    BY <2>1, <2>2
<1>7. WorkspaceTypeOK'
  BY <1>3, <1>6, WorkspaceTyped DEF WorkspaceTypeOK
<1>8. PermissionInv'
  BY <1>6, PermissionUntouched, WorkspaceTyped DEF WorkspaceInv, PermissionInv
<1>9. ~ page.stateMissed => load.knows = page.currentStateId
  BY DEF WorkspaceInv, FreshInv
<1>10. RequestInv' /\ FreshInv' /\ ContentInv'
  <2>1. \A l \in page'.loads : l \in page.loads \/ l = new
    BY <1>6
  <2>2. ~ page.stateMissed => new.knows = page.currentStateId
    BY <1>2, <1>9
  <2>3. server'.last >= server.last
    BY <1>3, WorkspaceTyped
  <2>4. IsFiniteSet(page'.loads)
    BY <1>4, <1>6, Zenon
  <2> QED
    BY <1>2, <1>6, <1>7, <2>1, <2>2, <2>3, <2>4, ContentUntouched
<1> QED
  BY <1>7, <1>8, <1>10 DEF WorkspaceInv

LEMMA LoadFailsInv ==
    ASSUME WorkspaceInv, NEW load \in page.loads, LoadFails(load) PROVE WorkspaceInv'
<1> DEFINE loads == page.loads \ {load}
<1>1. page' = [page EXCEPT !.loads = loads, !.loadError = TRUE] /\ UNCHANGED server
  BY DEF LoadFails
<1>2. loads \in SUBSET Load /\ IsFiniteSet(loads)
  BY WorkspaceTyped, FS_RemoveElement DEF WorkspaceInv, RequestInv
<1>3. page' \in WorkspacePage /\ page'.loads = loads
      /\ UNCHANGED <<page.currentStateId, page.content, page.stateLoads, page.stateMissed,
                     page.permissions, page.permissionsMissed, page.permissionSets, page.polls>>
  BY <1>1, <1>2, WorkspaceTyped DEF WorkspacePage
<1>4. WorkspaceTypeOK'
  BY <1>1, <1>3, WorkspaceTyped DEF WorkspaceTypeOK
<1>5. PermissionInv'
  BY <1>3, PermissionUntouched, WorkspaceTyped DEF WorkspaceInv, PermissionInv
<1>6. RequestInv' /\ FreshInv' /\ ContentInv'
  BY <1>1, <1>2, <1>3, <1>4, ContentUntouched, WorkspaceTyped
<1> QED
  BY <1>4, <1>5, <1>6 DEF WorkspaceInv

(* The end of a load: what it saw is known, and fetched if it was not.      *)
LEMMA IncludesArriveInv ==
    ASSUME WorkspaceInv, NEW load \in page.loads, IncludesArrive(load) PROVE WorkspaceInv'
<1> DEFINE isNew == load.knows # load.sees
           fetch == [n |-> load.n, state |-> load.sees, stage |-> "permission"]
           loads == page.loads \ {load}
           stateLoads == IF isNew THEN page.stateLoads \cup {fetch} ELSE page.stateLoads
           missed == page.stateMissed \/ Cardinality(page.loads) > 1
                       \/ (isNew /\ page.stateLoads # {})
<1>1. load \in Load /\ load.stage = "includes" /\ load.sees \in Nat /\ load.knows \in Nat
  BY WorkspaceTyped DEF IncludesArrive, Load
<1>2. PICK tables \in Tables :
         page' = [page EXCEPT !.loads = loads, !.loadError = FALSE, !.tables = tables,
                              !.currentStateId = load.sees, !.stateLoads = stateLoads,
                              !.stateMissed = missed]
  BY DEF IncludesArrive
<1>3. fetch \in StateLoad /\ fetch.state = load.sees /\ fetch.stage = "permission"
  BY <1>1 DEF Load, StateLoad
<1> HIDE DEF fetch
<1>4. loads \in SUBSET Load /\ stateLoads \in SUBSET StateLoad
  BY <1>3, WorkspaceTyped
<1>5. PICK lost \in BOOLEAN : lost <=> missed
  OBVIOUS
<1>6. page' = [page EXCEPT !.loads = loads, !.loadError = FALSE, !.tables = tables,
                           !.currentStateId = load.sees, !.stateLoads = stateLoads,
                           !.stateMissed = lost]
  <2>1. missed = lost
    BY <1>5, WorkspaceTyped DEF WorkspacePage
  <2> QED
    BY <1>2, <2>1
<1> HIDE DEF loads, stateLoads, missed
<1>7. /\ page' \in WorkspacePage /\ page'.loads = loads /\ page'.stateLoads = stateLoads
      /\ page'.currentStateId = load.sees /\ page'.stateMissed = lost
      /\ UNCHANGED <<page.content, page.permissions, page.permissionsMissed,
                     page.permissionSets, page.polls>>
  BY <1>1, <1>4, <1>6, WorkspaceTyped DEF WorkspacePage
<1>8. UNCHANGED server
  BY DEF IncludesArrive
<1>9. WorkspaceTypeOK'
  BY <1>7, <1>8, WorkspaceTyped DEF WorkspaceTypeOK
<1>10. PermissionInv'
  BY <1>7, PermissionUntouched, WorkspaceTyped DEF WorkspaceInv, PermissionInv
<1>11. ContentInv'
  BY <1>7, <1>8 DEF WorkspaceInv, ContentInv, Shows
<1>12. load.sees <= server.last
  BY <1>1 DEF WorkspaceInv, RequestInv
<1>13. RequestInv'
  BY <1>3, <1>7, <1>8, <1>12, FS_RemoveElement DEF WorkspaceInv, RequestInv, loads, stateLoads
<1>14. ASSUME ~ lost PROVE page.loads = {load} /\ ~ page.stateMissed
                            /\ (isNew => page.stateLoads = {})
  <2>1. Cardinality(page.loads) <= 1 /\ IsFiniteSet(page.loads) /\ Cardinality(page.loads) \in Nat
    BY <1>5, <1>14, FS_CardinalityType DEF WorkspaceInv, RequestInv, missed
  <2>2. Cardinality(page.loads) = 1
    BY <2>1, FS_EmptySet
  <2>3. page.loads = {load}
    BY <2>1, <2>2, FS_Singleton
  <2> QED
    BY <1>5, <1>14, <2>3 DEF missed
<1>15. FreshInv'
  <2> SUFFICES ASSUME ~ lost
               PROVE  /\ loads = {}
                      /\ \A l \in stateLoads : l.state = load.sees /\ stateLoads = {l}
                      /\ stateLoads = {} => page.content.of >= load.sees
    BY <1>7 DEF FreshInv
  <2>1. loads = {} /\ load.knows = page.currentStateId
    BY <1>14 DEF WorkspaceInv, FreshInv, loads
  <2>2. CASE isNew
    BY <1>3, <1>14, <2>1, <2>2 DEF stateLoads
  <2>3. CASE ~ isNew
    BY <1>14, <2>1, <2>3 DEF WorkspaceInv, FreshInv, stateLoads
  <2> QED
    BY <2>1, <2>2, <2>3
<1> QED
  BY <1>9, <1>10, <1>11, <1>13, <1>15 DEF WorkspaceInv
--------------------------------------------------------------------------------
(* Permissions arrive and fail without touching loads or content.           *)
LEMMA PermissionStep ==
    ASSUME WorkspaceInv, NEW permissions \in {NotLoaded, "organization", "workspace"},
           NEW sets \in SUBSET PermissionSet, NEW lost \in BOOLEAN,
           page' = [page EXCEPT !.permissions = permissions, !.permissionSets = sets,
                                !.permissionsMissed = lost],
           UNCHANGED server, page.permissionSets # {},
           permissions = "workspace" \/ lost \/ sets # {}
    PROVE  WorkspaceInv'
<1>1. /\ page' \in WorkspacePage /\ page'.permissions = permissions
      /\ page'.permissionSets = sets /\ page'.permissionsMissed = lost
      /\ UNCHANGED <<page.currentStateId, page.content, page.stateLoads, page.stateMissed,
                     page.polls, page.loads>>
  BY WorkspaceTyped DEF WorkspacePage
<1>2. WorkspaceTypeOK'
  BY <1>1, WorkspaceTyped DEF WorkspaceTypeOK
<1>3. PermissionInv'
  BY <1>1 DEF WorkspaceInv, PermissionInv
<1>4. RequestInv' /\ FreshInv' /\ ContentInv'
  BY <1>1, <1>2, ContentUntouched, WorkspaceTyped DEF WorkspaceInv, RequestInv
<1> QED
  BY <1>2, <1>3, <1>4 DEF WorkspaceInv

LEMMA PermissionsArriveInv ==
    ASSUME WorkspaceInv, NEW set \in page.permissionSets, PermissionsArrive(set)
    PROVE  WorkspaceInv'
<1> DEFINE next == [set EXCEPT !.stage = "workspace"]
<1>1. page.permissionSets \subseteq PermissionSet /\ UNCHANGED server
  BY WorkspaceTyped DEF WorkspacePage, PermissionsArrive
<1>2. page.permissionsMissed \in BOOLEAN
  BY WorkspaceTyped DEF WorkspacePage
<1>3. CASE set.stage = "organization"
  <2>1. next \in PermissionSet
    BY <1>1 DEF PermissionSet
  <2>2. page' = [page EXCEPT !.permissions = "organization",
                             !.permissionSets = (page.permissionSets \ {set}) \cup {next},
                             !.permissionsMissed = page.permissionsMissed]
    BY <1>3, WorkspaceTyped DEF PermissionsArrive, WorkspacePage
  <2> HIDE DEF next
  <2>3. /\ (page.permissionSets \ {set}) \cup {next} \in SUBSET PermissionSet
        /\ (page.permissionSets \ {set}) \cup {next} # {}
    BY <1>1, <2>1
  <2> QED
    BY <1>1, <1>2, <2>2, <2>3, PermissionStep
<1>4. CASE set.stage # "organization"
  <2>1. page' = [page EXCEPT !.permissions = "workspace",
                             !.permissionSets = page.permissionSets \ {set},
                             !.permissionsMissed = page.permissionsMissed]
    BY <1>4, WorkspaceTyped DEF PermissionsArrive, WorkspacePage
  <2> QED
    BY <1>1, <1>2, <2>1, PermissionStep
<1> QED
  BY <1>3, <1>4

LEMMA PermissionsFailInv ==
    ASSUME WorkspaceInv, NEW set \in page.permissionSets, PermissionsFail(set)
    PROVE  WorkspaceInv'
<1>1. page.permissionSets \ {set} \in SUBSET PermissionSet /\ UNCHANGED server
  BY WorkspaceTyped DEF WorkspacePage, PermissionsFail
<1>2. page.permissions \in {NotLoaded, "organization", "workspace"}
  BY WorkspaceTyped DEF WorkspacePage
<1>3. page' = [page EXCEPT !.permissions = page.permissions,
                           !.permissionSets = page.permissionSets \ {set},
                           !.permissionsMissed = TRUE]
  BY WorkspaceTyped DEF PermissionsFail, WorkspacePage
<1> QED
  BY <1>1, <1>2, <1>3, PermissionStep
--------------------------------------------------------------------------------
(* A fetch goes on, or ends with content that is no older than what it was  *)
(* for, or is lost.                                                         *)
LEMMA FetchStep ==
    ASSUME WorkspaceInv, NEW load \in page.stateLoads, NEW content \in StateContent,
           NEW stateLoads \in SUBSET StateLoad, NEW lost \in BOOLEAN,
           page' = [page EXCEPT !.stateLoads = stateLoads, !.content = content,
                                !.stateMissed = lost],
           UNCHANGED server, page.stateMissed => lost,
           content.of <= server.last, Shows(content), "secret" \notin content.outputs,
           \/ /\ stateLoads = page.stateLoads \ {load}
              /\ ~ lost => content.of >= load.state
           \/ \E next \in StateLoad :
                /\ next.state = load.state /\ load.state # 0
                /\ stateLoads = (page.stateLoads \ {load}) \cup {next}
    PROVE  WorkspaceInv'
<1>1. /\ page' \in WorkspacePage /\ page'.stateLoads = stateLoads
      /\ page'.content = content /\ page'.stateMissed = lost
      /\ UNCHANGED <<page.currentStateId, page.permissions, page.permissionsMissed,
                     page.permissionSets, page.polls, page.loads>>
  BY WorkspaceTyped DEF WorkspacePage
<1>2. WorkspaceTypeOK' /\ PermissionInv'
  BY <1>1, WorkspaceTyped DEF WorkspaceInv, WorkspaceTypeOK, PermissionInv
<1>3. RequestInv'
  BY <1>1 DEF WorkspaceInv, RequestInv
<1>4. FreshInv'
  <2>1. SUFFICES ASSUME ~ lost
                 PROVE  /\ \A l \in stateLoads :
                             l.state = page.currentStateId /\ stateLoads = {l}
                        /\ stateLoads = {} => content.of >= page.currentStateId
    BY <1>1 DEF WorkspaceInv, FreshInv
  <2>2. load.state = page.currentStateId /\ page.stateLoads = {load}
    BY <2>1 DEF WorkspaceInv, FreshInv
  <2> QED
    BY <2>1, <2>2
<1>5. ContentInv'
  BY <1>1 DEF ContentInv, Shows
<1> QED
  BY <1>2, <1>3, <1>4, <1>5 DEF WorkspaceInv

LEMMA FetchTyped ==
    ASSUME WorkspaceInv, NEW load \in page.stateLoads
    PROVE  /\ load \in StateLoad /\ load.state \in Nat /\ load.state <= server.last
           /\ page.stateMissed \in BOOLEAN /\ page.content \in StateContent
           /\ page.content.of <= server.last /\ Shows(page.content)
           /\ "secret" \notin page.content.outputs
           /\ page.stateLoads \subseteq StateLoad /\ page.stateLoads \ {load} \in SUBSET StateLoad
           /\ load.stage # "permission" => load.state # 0
           /\ ~ page.stateMissed => load.state = page.currentStateId
BY WorkspaceTyped DEF WorkspaceInv, RequestInv, ContentInv, FreshInv, WorkspacePage, StateLoad

(* A fetch that goes on to its next stage.                                  *)
LEMMA FetchGoesOn ==
    ASSUME WorkspaceInv, NEW load \in page.stateLoads, load.state # 0,
           NEW stage \in {"output", "raw"}, UNCHANGED server,
           page' = [page EXCEPT !.stateLoads =
                      (@ \ {load}) \cup {[load EXCEPT !.stage = stage]}]
    PROVE  WorkspaceInv'
<1> DEFINE next == [load EXCEPT !.stage = stage]
           stateLoads == (page.stateLoads \ {load}) \cup {next}
<1>1. next \in StateLoad /\ next.state = load.state
  BY FetchTyped DEF StateLoad
<1>2. page' = [page EXCEPT !.stateLoads = stateLoads, !.content = page.content,
                           !.stateMissed = page.stateMissed]
  BY WorkspaceTyped DEF WorkspacePage
<1> HIDE DEF next
<1>3. stateLoads \in SUBSET StateLoad
  BY <1>1, FetchTyped
<1> QED
  BY <1>1, <1>2, <1>3, FetchStep, FetchTyped

(* A fetch that ends.                                                       *)
LEMMA FetchEnds ==
    ASSUME WorkspaceInv, NEW load \in page.stateLoads, UNCHANGED server,
           NEW content \in StateContent, NEW lost \in BOOLEAN, page.stateMissed => lost,
           page' = [page EXCEPT !.stateLoads = @ \ {load}, !.content = content,
                                !.stateMissed = lost],
           content.of <= server.last, Shows(content), "secret" \notin content.outputs,
           ~ lost => content.of >= load.state
    PROVE  WorkspaceInv'
<1> DEFINE stateLoads == page.stateLoads \ {load}
<1>1. stateLoads \in SUBSET StateLoad
  BY FetchTyped
<1> QED
  BY <1>1, FetchStep

LEMMA StatePermissionArrivesInv ==
    ASSUME WorkspaceInv, NEW load \in page.stateLoads, StatePermissionArrives(load)
    PROVE  WorkspaceInv'
<1>1. UNCHANGED server
  BY DEF StatePermissionArrives
<1>2. CASE load.state = 0
  <2>1. page' = [page EXCEPT !.stateLoads = @ \ {load}]
    BY <1>2 DEF StatePermissionArrives, EndStateLoad
  <2>2. page' = [page EXCEPT !.stateLoads = @ \ {load}, !.content = page.content,
                             !.stateMissed = page.stateMissed]
    BY <2>1, WorkspaceTyped DEF WorkspacePage
  <2>3. page.content.of >= load.state
    BY <1>2, FetchTyped DEF StateContent
  <2> QED
    BY <1>1, <2>2, <2>3, FetchTyped, FetchEnds
<1>3. CASE load.state # 0
  <2>1. page' = [page EXCEPT !.stateLoads =
                   (@ \ {load}) \cup {[load EXCEPT !.stage = "output"]}]
    BY <1>3 DEF StatePermissionArrives
  <2> QED
    BY <1>1, <1>3, <2>1, FetchGoesOn
<1> QED
  BY <1>2, <1>3

(* What arrives is content of a version the workspace has.                  *)
LEMMA ContentArrives ==
    ASSUME WorkspaceInv, NEW load \in page.stateLoads, NEW id \in load.state .. server.last,
           load.state # 0, NEW content \in {ParseState(id), ParseOldState(id)},
           page' = [EndStateLoad(page, load) EXCEPT !.content = content], UNCHANGED server
    PROVE  WorkspaceInv'
<1>1. id \in 1 .. Len(States)
  BY FetchTyped, WorkspaceTyped
<1>2. /\ content \in StateContent /\ content.of = id
      /\ Shows(content) /\ "secret" \notin content.outputs
  BY <1>1, ParsedShows
<1>3. content.of <= server.last /\ content.of >= load.state
  BY <1>2, FetchTyped, WorkspaceTyped
<1>4. page' = [page EXCEPT !.stateLoads = @ \ {load}, !.content = content,
                           !.stateMissed = page.stateMissed]
  <2> DEFINE ended == [page EXCEPT !.stateLoads = @ \ {load}]
  <2>1. page' = [ended EXCEPT !.content = content]
    BY DEF EndStateLoad
  <2>2. page' = [page EXCEPT !.stateLoads = @ \ {load}, !.content = content]
    BY <2>1
  <2> QED
    BY <2>2, WorkspaceTyped DEF WorkspacePage
<1> QED
  BY <1>2, <1>3, <1>4, FetchTyped, FetchEnds

LEMMA StateArrivesInv ==
    ASSUME WorkspaceInv, NEW load \in page.stateLoads, StateArrives(load)
    PROVE  WorkspaceInv'
<1>1. load.state # 0 /\ load.state \in load.state .. server.last /\ UNCHANGED server
  BY FetchTyped, WorkspaceTyped DEF StateArrives
<1>2. CASE IsEmpty(ParseState(load.state))
  <2>1. page' = [page EXCEPT !.stateLoads = (@ \ {load}) \cup {[load EXCEPT !.stage = "raw"]}]
    BY <1>2 DEF StateArrives
  <2> QED
    BY <1>1, <2>1, FetchGoesOn
<1>3. CASE ~ IsEmpty(ParseState(load.state))
  <2>1. page' = [EndStateLoad(page, load) EXCEPT !.content = ParseState(load.state)]
    BY <1>3 DEF StateArrives
  <2> QED
    BY <1>1, <2>1, ContentArrives
<1> QED
  BY <1>2, <1>3

LEMMA RawStateArrivesInv ==
    ASSUME WorkspaceInv, NEW load \in page.stateLoads, RawStateArrives(load)
    PROVE  WorkspaceInv'
<1>1. load.state # 0 /\ server.last \in load.state .. server.last /\ UNCHANGED server
  BY FetchTyped, WorkspaceTyped DEF RawStateArrives
<1>2. page' = [EndStateLoad(page, load) EXCEPT !.content = ParseOldState(server.last)]
  BY DEF RawStateArrives
<1> QED
  BY <1>1, <1>2, ContentArrives

LEMMA StateFailsInv ==
    ASSUME WorkspaceInv, NEW load \in page.stateLoads, StateFails(load)
    PROVE  WorkspaceInv'
<1> DEFINE ended == [page EXCEPT !.stateLoads = @ \ {load}]
<1>1. page' = [ended EXCEPT !.stateMissed = TRUE] /\ UNCHANGED server
  BY DEF StateFails, EndStateLoad
<1>2. page' = [page EXCEPT !.stateLoads = @ \ {load}, !.content = page.content,
                           !.stateMissed = TRUE]
  <2>1. page' = [page EXCEPT !.stateLoads = @ \ {load}, !.stateMissed = TRUE]
    BY <1>1
  <2> QED
    BY <2>1, WorkspaceTyped DEF WorkspacePage
<1> QED
  BY <1>1, <1>2, FetchTyped, FetchEnds
--------------------------------------------------------------------------------
LEMMA WorkspaceStepInv == WorkspaceInv /\ [WorkspaceNext]_pageVars => WorkspaceInv'
<1> SUFFICES ASSUME WorkspaceInv, [WorkspaceNext]_pageVars PROVE WorkspaceInv'
  OBVIOUS
<1>1. CASE WorkspaceChanges \/ LoadOrPoll \/ HandleLockButton
  BY <1>1, WorkspaceChangesInv, LoadOrPollInv, HandleLockButtonInv
<1>2. ASSUME NEW load \in page.loads,
             \/ TemplatesArrive(load) \/ WorkspaceArrives(load)
             \/ IncludesArrive(load) \/ LoadFails(load)
      PROVE  WorkspaceInv'
  BY <1>2, TemplatesArriveInv, WorkspaceArrivesInv, IncludesArriveInv, LoadFailsInv
<1>3. ASSUME NEW set \in page.permissionSets, PermissionsArrive(set) \/ PermissionsFail(set)
      PROVE  WorkspaceInv'
  BY <1>3, PermissionsArriveInv, PermissionsFailInv
<1>4. ASSUME NEW load \in page.stateLoads,
             \/ StatePermissionArrives(load) \/ StateArrives(load)
             \/ RawStateArrives(load) \/ StateFails(load)
      PROVE  WorkspaceInv'
  BY <1>4, StatePermissionArrivesInv, StateArrivesInv, RawStateArrivesInv, StateFailsInv
<1>5. CASE UNCHANGED pageVars
  BY <1>5 DEF pageVars, WorkspaceInv, WorkspaceTypeOK, PermissionInv, RequestInv, FreshInv,
              ContentInv, Shows
<1> QED
  BY <1>1, <1>2, <1>3, <1>4, <1>5 DEF WorkspaceNext

(* The invariant holds of every state the page can reach, and is typed.     *)
THEOREM WorkspaceInvariant == WorkspaceSpec => []WorkspaceInv
BY WorkspaceInitInv, WorkspaceStepInv, PTL DEF WorkspaceSpec

(* loadPermissionSet: however polls overlap, a page at rest has the         *)
(* permissions for its workspace, unless a request for them failed.         *)
THEOREM PermissionsSettle == WorkspaceSpec => []PermissionsOfTheWorkspace
<1>1. WorkspaceInv => PermissionsOfTheWorkspace
  BY DEF WorkspaceInv, PermissionInv, PermissionsOfTheWorkspace
<1> QED
  BY <1>1, WorkspaceInvariant, PTL

(* setupWorkspaceIncludes, loadState: a page at rest that missed nothing    *)
(* shows all there is of the newest version it knows, and never a secret.   *)
THEOREM ContentSettles == WorkspaceSpec => []ContentOfTheNewestState
<1>1. ASSUME WorkspaceInv PROVE ContentOfTheNewestState
  <2>1. SUFFICES ASSUME page.stateLoads = {}, ~ page.stateMissed,
                        page.currentStateId # 0, page.currentStateId = server.last
                 PROVE  page.content.of = page.currentStateId
    BY <1>1 DEF ContentOfTheNewestState, WorkspaceInv, ContentInv, Shows
  <2>2. page.content.of >= page.currentStateId /\ page.content.of <= server.last
    BY <1>1, <2>1 DEF WorkspaceInv, FreshInv, ContentInv
  <2>3. page.content.of \in Nat
    BY <1>1, WorkspaceTyped DEF StateContent
  <2> QED
    BY <1>1, <2>1, <2>2, <2>3, WorkspaceTyped
<1> QED
  BY <1>1, WorkspaceInvariant, PTL
--------------------------------------------------------------------------------
(* The states of a workspace.                                               *)
StatesSpec == StatesInit /\ [][StatesNext]_pageVars

Get == [version : StateVersions, part : {"json", "raw"}, opening : Nat]
Text == StateVersions \cup {Failed, Blank, "no access"}
Editor == [text : Text, early : BOOLEAN]

StatesPage ==
    [kind : {"states"}, manageState : BOOLEAN, visible : BOOLEAN,
     currentState : StateVersions \cup {None}, activeTab : {"diagram", "raw", "json"},
     diagram : Text, raw : Text, json : Text, editor : Editor, gets : SUBSET Get,
     openings : Nat, overlapped : BOOLEAN, rollback : StateVersions \cup {None}]

StatesTypeOK == page \in StatesPage

(* The texts of what has arrived, when all has.                             *)
TextsOf(v) ==
    /\ page.json = v => page.diagram = v
    /\ v \in Hosted =>
         /\ page.json \in {v, Failed} /\ page.raw \in {v, Failed}
         /\ page.json = Failed => page.raw = Failed

(* Unless openings overlapped, the one request under way is for the version *)
(* in the header, the raw state only after its JSON; without one the texts  *)
(* are settled, and the editor took them then or says that it was early.    *)
StatesInv ==
    /\ StatesTypeOK
    /\ page.json \in Hosted \cup {Failed, Blank}
    /\ ~ page.overlapped =>
         /\ \A g \in page.gets :
              /\ g.version = page.currentState /\ page.gets = {g}
              /\ g.part = "raw" =>
                   /\ g.version \in Hosted
                   /\ page.json = g.version /\ page.diagram = g.version
         /\ page.gets = {} => TextsOf(page.currentState)
         /\ ~ page.editor.early /\ page.currentState \in Hosted =>
              /\ page.gets = {}
              /\ page.editor.text \in {page.currentState, Failed, Blank, "no access"}

LEMMA StatesInitInv == StatesInit => StatesInv
<1> SUFFICES ASSUME StatesInit PROVE StatesInv
  OBVIOUS
<1>1. PICK manageState \in BOOLEAN :
         page = [kind |-> "states", manageState |-> manageState, visible |-> FALSE,
                 currentState |-> None, activeTab |-> "diagram", diagram |-> Blank,
                 raw |-> Blank, json |-> Blank, editor |-> [text |-> Blank, early |-> FALSE],
                 gets |-> {}, openings |-> 0, overlapped |-> FALSE, rollback |-> None]
  BY DEF StatesInit
<1>2. [text |-> Blank, early |-> FALSE] \in Editor
  BY DEF Editor, Text
<1>3. page \in StatesPage
  BY <1>1, <1>2 DEF StatesPage, Text
<1>4. None \notin Hosted /\ Blank # None
  BY StatesAssumption DEF Blank, None
<1> QED
  BY <1>1, <1>3, <1>4 DEF StatesInv, StatesTypeOK, TextsOf

LEMMA StatesTyped ==
    ASSUME StatesInv
    PROVE  /\ page \in StatesPage /\ page.gets \subseteq Get
           /\ page.json \in Text /\ page.raw \in Text /\ page.diagram \in Text
           /\ page.openings \in Nat
BY DEF StatesInv, StatesTypeOK, StatesPage

(* What leaves the texts, the requests and the editor alone.                *)
LEMMA StatesUntouched ==
    ASSUME StatesInv, StatesTypeOK',
           UNCHANGED <<page.currentState, page.diagram, page.raw, page.json, page.editor,
                       page.gets, page.overlapped>>
    PROVE  StatesInv'
BY DEF StatesInv, TextsOf

(* An editor takes the text there is as it is mounted.                      *)
LEMMA MountedEditor ==
    ASSUME NEW p \in StatesPage
    PROVE  \E editor \in Editor :
             /\ Mounted(p) = [p EXCEPT !.editor = editor]
             /\ editor.early <=> p.gets # {}
             /\ editor.text \in {Blank, "no access", p.raw, p.json}
<1> DEFINE text == IF p.activeTab = "diagram" THEN Blank
                   ELSE IF ~ p.manageState THEN "no access"
                   ELSE IF p.activeTab = "raw" THEN p.raw ELSE p.json
<1>1. text \in Text /\ text \in {Blank, "no access", p.raw, p.json}
  BY DEF StatesPage, Text
<1>2. PICK early \in BOOLEAN : early = (p.gets # {})
  OBVIOUS
<1> DEFINE editor == [text |-> text, early |-> early]
<1>3. Mounted(p) = [p EXCEPT !.editor = editor]
  BY <1>2 DEF Mounted
<1> HIDE DEF text
<1>4. editor \in Editor /\ editor.text = text /\ editor.early = early
  BY <1>1 DEF Editor
<1> QED
  BY <1>1, <1>2, <1>3, <1>4

LEMMA ChangeStateInv ==
    ASSUME StatesInv, NEW v \in StateVersions, ChangeState(v) PROVE StatesInv'
<1> DEFINE get == [version |-> v, part |-> "json", opening |-> page.openings]
           gets == page.gets \cup {get}
<1>1. PICK overlapped \in BOOLEAN : overlapped = (page.gets # {})
  OBVIOUS
<1> DEFINE asked == [page EXCEPT !.currentState = v, !.visible = TRUE,
                                 !.openings = page.openings + 1,
                                 !.overlapped = overlapped, !.gets = gets]
<1>2. page' = Mounted(asked)
  <2>1. {[version |-> v, part |-> part, opening |-> page.openings] : part \in {"json"}} = {get}
    OBVIOUS
  <2> QED
    BY <1>1, <2>1 DEF ChangeState, Asking, Change
<1>3. get \in Get /\ get.version = v /\ get.part = "json"
  BY StatesTyped DEF Get
<1> HIDE DEF get
<1>4. gets \in SUBSET Get /\ gets # {} /\ page.openings + 1 \in Nat
  BY <1>3, StatesTyped
<1>5. /\ asked \in StatesPage /\ asked.gets = gets /\ asked.currentState = v
      /\ asked.overlapped = overlapped /\ asked.json = page.json
  BY <1>4, StatesTyped DEF StatesPage
<1> HIDE DEF asked
<1>6. PICK editor \in Editor :
         page' = [asked EXCEPT !.editor = editor] /\ (editor.early <=> asked.gets # {})
  BY <1>2, <1>5, MountedEditor
<1>7. /\ page' \in StatesPage /\ page'.gets = gets /\ page'.currentState = v
      /\ page'.overlapped = overlapped /\ page'.editor = editor /\ page'.json = page.json
  BY <1>5, <1>6 DEF StatesPage
<1>8. editor.early
  BY <1>4, <1>5, <1>6
<1>9. ~ overlapped => gets = {get}
  BY <1>1
<1> QED
  BY <1>3, <1>4, <1>7, <1>8, <1>9 DEF StatesInv, StatesTypeOK

LEMMA OnTabChangeInv ==
    ASSUME StatesInv, NEW tab \in {"diagram", "raw", "json"}, OnTabChange(tab)
    PROVE  StatesInv'
<1> DEFINE chosen == [page EXCEPT !.activeTab = tab]
<1>1. page' = Mounted(chosen)
  BY DEF OnTabChange, Change
<1>2. /\ chosen \in StatesPage /\ chosen.gets = page.gets
      /\ chosen.currentState = page.currentState /\ chosen.overlapped = page.overlapped
      /\ chosen.json = page.json /\ chosen.raw = page.raw /\ chosen.diagram = page.diagram
  BY StatesTyped DEF StatesPage
<1> HIDE DEF chosen
<1>3. PICK editor \in Editor :
         /\ page' = [chosen EXCEPT !.editor = editor]
         /\ editor.early <=> page.gets # {}
         /\ editor.text \in {Blank, "no access", page.raw, page.json}
  BY <1>1, <1>2, MountedEditor
<1>4. /\ page' \in StatesPage /\ page'.editor = editor
      /\ UNCHANGED <<page.gets, page.currentState, page.overlapped, page.json, page.raw,
                     page.diagram>>
  BY <1>2, <1>3 DEF StatesPage
<1>5. ~ page.overlapped /\ ~ editor.early /\ page.currentState \in Hosted =>
         page.gets = {} /\ editor.text \in {page.currentState, Failed, Blank, "no access"}
  BY <1>3 DEF StatesInv, TextsOf
<1> QED
  BY <1>4, <1>5 DEF StatesInv, StatesTypeOK, TextsOf
--------------------------------------------------------------------------------
(* The answers.                                                             *)
LEMMA JsonArrivesInv ==
    ASSUME StatesInv, NEW g \in page.gets, JsonArrives(g) PROVE StatesInv'
<1>1. g \in Get /\ g.version \in StateVersions /\ g.version \in Text
  BY StatesTyped DEF Get, Text
<1>2. CASE g.version \in Hosted
  <2> DEFINE next == [g EXCEPT !.part = "raw"]
             gets == (page.gets \ {g}) \cup {next}
  <2>1. next \in Get /\ next.version = g.version /\ next.part = "raw"
    BY <1>1 DEF Get
  <2>2. page' = [page EXCEPT !.json = g.version, !.diagram = g.version, !.gets = gets]
    BY <1>2 DEF JsonArrives, Change
  <2> HIDE DEF next
  <2>3. gets \in SUBSET Get /\ gets # {}
    BY <2>1, StatesTyped
  <2>4. /\ page' \in StatesPage /\ page'.json = g.version /\ page'.diagram = g.version
        /\ page'.gets = gets
        /\ UNCHANGED <<page.currentState, page.overlapped, page.editor>>
    BY <1>1, <2>2, <2>3, StatesTyped DEF StatesPage
  <2>5. ~ page.overlapped => page.gets = {g} /\ g.version = page.currentState
    BY DEF StatesInv
  <2>6. ~ page.overlapped => ~ (~ page.editor.early /\ page.currentState \in Hosted)
    BY DEF StatesInv
  <2> QED
    BY <1>2, <2>1, <2>3, <2>4, <2>5, <2>6 DEF StatesInv, StatesTypeOK
<1>3. CASE g.version \notin Hosted
  <2> DEFINE gets == page.gets \ {g}
  <2>1. page' = [page EXCEPT !.diagram = g.version, !.gets = gets]
    BY <1>3 DEF JsonArrives, Change
  <2>2. gets \in SUBSET Get
    BY StatesTyped
  <2>3. /\ page' \in StatesPage /\ page'.gets = gets
        /\ UNCHANGED <<page.currentState, page.overlapped, page.editor, page.json, page.raw>>
    BY <1>1, <2>1, <2>2, StatesTyped DEF StatesPage
  <2>4. ~ page.overlapped => page.gets = {g} /\ g.version = page.currentState
    BY DEF StatesInv
  <2>5. page.json # g.version
    BY <1>1, <1>3, StatesAssumption DEF StatesInv
  <2>6. ~ page.overlapped => TextsOf(page.currentState)'
    BY <1>3, <2>3, <2>4, <2>5 DEF TextsOf
  <2> QED
    BY <1>3, <2>3, <2>4, <2>6 DEF StatesInv, StatesTypeOK
<1> QED
  BY <1>2, <1>3

(* An answer that is the last of its opening settles the texts.             *)
LEMMA AnswerSettles ==
    ASSUME StatesInv, NEW g \in page.gets, NEW json \in Hosted \cup {Failed, Blank},
           NEW raw \in Text,
           page' = [page EXCEPT !.json = json, !.raw = raw, !.gets = @ \ {g}],
           \/ json = Failed /\ raw = Failed
           \/ g.part = "raw" /\ json = page.json /\ raw \in {g.version, Failed}
    PROVE  StatesInv'
<1>1. page.gets \ {g} \in SUBSET Get /\ json \in Text /\ g.version \in StateVersions
  BY StatesAssumption, StatesTyped DEF Get, Text
<1>2. /\ page' \in StatesPage /\ page'.json = json /\ page'.raw = raw
      /\ page'.gets = page.gets \ {g}
      /\ UNCHANGED <<page.currentState, page.overlapped, page.editor, page.diagram>>
  BY <1>1, StatesTyped DEF StatesPage
<1>3. ~ page.overlapped => page.gets = {g} /\ g.version = page.currentState
  BY DEF StatesInv
<1>4. g.version # Failed
  BY <1>1, StatesAssumption
<1>5. ~ page.overlapped => TextsOf(page.currentState)'
  <2> SUFFICES ASSUME ~ page.overlapped PROVE TextsOf(page.currentState)'
    OBVIOUS
  <2>1. CASE json = Failed /\ raw = Failed
    BY <1>2, <1>3, <1>4, <2>1 DEF TextsOf
  <2>2. CASE g.part = "raw" /\ json = page.json /\ raw \in {g.version, Failed}
    BY <1>2, <1>3, <1>4, <2>2 DEF TextsOf, StatesInv
  <2> QED
    BY <2>1, <2>2
<1> QED
  BY <1>2, <1>3, <1>5 DEF StatesInv, StatesTypeOK

LEMMA JsonFailsInv ==
    ASSUME StatesInv, NEW g \in page.gets, JsonFails(g) PROVE StatesInv'
<1>1. page' = [page EXCEPT !.json = Failed, !.raw = Failed, !.gets = @ \ {g}]
  BY DEF JsonFails, Change
<1> QED
  BY <1>1, AnswerSettles DEF Text

LEMMA RawAnswerInv ==
    ASSUME StatesInv, NEW g \in page.gets, RawArrives(g) \/ RawFails(g) PROVE StatesInv'
<1>1. PICK raw \in {g.version, Failed} :
         page' = [page EXCEPT !.raw = raw, !.gets = @ \ {g}]
  BY DEF RawArrives, RawFails, Change
<1>2. page' = [page EXCEPT !.json = page.json, !.raw = raw, !.gets = @ \ {g}]
  BY <1>1, StatesTyped DEF StatesPage
<1>3. g.part = "raw"
  BY DEF RawArrives, RawFails
<1>4. page.json \in Hosted \cup {Failed, Blank} /\ raw \in Text
  BY <1>1, StatesTyped DEF StatesInv, Get, Text
<1> QED
  BY <1>2, <1>3, <1>4, AnswerSettles

LEMMA DetailsInv ==
    ASSUME StatesInv, SwitchKey \/ HandleRollback \/ RolledBack \/ RollbackFails
    PROVE  StatesInv'
<1>1. PICK visible \in BOOLEAN, rollback \in StateVersions \cup {None} :
         page' = [page EXCEPT !.visible = visible, !.rollback = rollback]
  <2>1. /\ page.visible \in BOOLEAN /\ page.rollback \in StateVersions \cup {None}
        /\ page.currentState \in StateVersions \cup {None}
    BY StatesTyped DEF StatesPage
  <2>2. CASE SwitchKey
    <3>1. page' = [page EXCEPT !.visible = FALSE, !.rollback = page.rollback]
      BY <2>2, StatesTyped DEF SwitchKey, Change, StatesPage
    <3> QED
      BY <2>1, <3>1
  <2>3. CASE HandleRollback
    <3>1. page' = [page EXCEPT !.visible = page.visible, !.rollback = page.currentState]
      BY <2>3, StatesTyped DEF HandleRollback, Change, StatesPage
    <3> QED
      BY <2>1, <3>1
  <2>4. CASE RolledBack
    <3>1. page' = [page EXCEPT !.visible = FALSE, !.rollback = None]
      BY <2>4, StatesTyped DEF RolledBack, StatesPage
    <3> QED
      BY <3>1
  <2>5. CASE RollbackFails
    <3>1. page' = [page EXCEPT !.visible = page.visible, !.rollback = None]
      BY <2>5, StatesTyped DEF RollbackFails, Change, StatesPage
    <3> QED
      BY <2>1, <3>1
  <2> QED
    BY <2>2, <2>3, <2>4, <2>5
<1>2. /\ StatesTypeOK'
      /\ UNCHANGED <<page.currentState, page.diagram, page.raw, page.json, page.editor,
                     page.gets, page.overlapped>>
  BY <1>1, StatesTyped DEF StatesTypeOK, StatesPage
<1> QED
  BY <1>2, StatesUntouched

LEMMA StatesStepInv == StatesInv /\ [StatesNext]_pageVars => StatesInv'
<1> SUFFICES ASSUME StatesInv, [StatesNext]_pageVars PROVE StatesInv'
  OBVIOUS
<1>1. CASE SwitchKey \/ HandleRollback \/ RolledBack \/ RollbackFails
  BY <1>1, DetailsInv
<1>2. ASSUME NEW v \in StateVersions, ChangeState(v) PROVE StatesInv'
  BY <1>2, ChangeStateInv
<1>3. ASSUME NEW g \in page.gets,
             JsonArrives(g) \/ JsonFails(g) \/ RawArrives(g) \/ RawFails(g)
      PROVE  StatesInv'
  BY <1>3, JsonArrivesInv, JsonFailsInv, RawAnswerInv
<1>4. ASSUME NEW tab \in {"diagram", "raw", "json"}, OnTabChange(tab) PROVE StatesInv'
  BY <1>4, OnTabChangeInv
<1>5. CASE UNCHANGED pageVars
  BY <1>5, StatesUntouched DEF pageVars, StatesInv, StatesTypeOK
<1> QED
  BY <1>1, <1>2, <1>3, <1>4, <1>5 DEF StatesNext

(* The invariant holds of every state the details can reach, and is typed.  *)
THEOREM StatesInvariant == StatesSpec => []StatesInv
BY StatesInitInv, StatesStepInv, PTL DEF StatesSpec

(* changeState: details that are open, all of whose requests were answered  *)
(* and that overlapped no others, are of the version in their header.       *)
THEOREM DetailsAgree == StatesSpec => []ShowsOneState
<1>1. StatesInv => ShowsOneState
  BY DEF StatesInv, TextsOf, ShowsOneState
<1> QED
  BY <1>1, StatesInvariant, PTL
--------------------------------------------------------------------------------
(* The connections page.                                                    *)
ConnectionsSpec == VcsInit /\ [][VcsNext]_pageVars

VcsTypes == {"GITHUB", "GITLAB", "BITBUCKET", "AZURE_SP_MI"}
Endpoints == VcsTypes \cup {"typed"}
MenuTypes == Types \cup {"GITHUB"}
Kinds == {"OAUTH", "STANDALONE"}

Connection ==
    [vcsType : VcsTypes, connectionType : Kinds, endpoint : Endpoints,
     chosen : MenuTypes \X Kinds, deleted : BOOLEAN, status : {"PENDING", "COMPLETED"},
     registered : {"vcs/uuid", "id"},
     answer : {None, "invalid callback path", "VCS not found", "token exchange failed", "stored"},
     token : VcsTypes \cup {None}, users : BOOLEAN]

VcsPage ==
    [kind : {"vcs"}, mode : {"list", "new"}, current : {0, 1}, vcsType : MenuTypes,
     connectionType : Kinds, chosen : MenuTypes \X Kinds, form : Endpoints \cup {None},
     listed : Seq(Connection), deleting : SUBSET Nat]

VcsTypeOK ==
    /\ page \in VcsPage
    /\ server \in [rows : Seq(Connection), asking : SUBSET (Nat \X VcsTypes)]

(* What is stored of a connection is of the type that was chosen for it.    *)
Agrees(row) ==
    LET type == row.chosen[1] IN
        /\ row.vcsType = GetVcsType(type) /\ row.connectionType = row.chosen[2]
        /\ row.endpoint = DefaultHttps(type)
        /\ row.status = "COMPLETED" => row.token = row.vcsType /\ row.endpoint # "typed"

(* The form is the one of the last choice, and only asks with a row there.  *)
VcsInv ==
    /\ VcsTypeOK
    /\ page.chosen = <<page.vcsType, page.connectionType>>
    /\ page.vcsType = AzureDevOps => page.connectionType = "OAUTH"
    /\ page.mode = "new" /\ page.current = 1 => page.form = DefaultHttps(page.vcsType)
    /\ \A k \in Rows : Agrees(server.rows[k])
    /\ \A asked \in server.asking : asked[1] \in Rows

(* The conversions give one of what the API knows.                          *)
LEMMA TypesConvert ==
    ASSUME NEW type
    PROVE  /\ GetVcsType(type) \in VcsTypes /\ ConnectUrl(type) \in VcsTypes
           /\ ListConnectUrl(type) \in VcsTypes /\ DefaultHttps(type) \in Endpoints
           /\ GetVcsType(type) # "typed"
BY DEF GetVcsType, ConnectUrl, ListConnectUrl, DefaultHttps, VcsTypes, Endpoints, GitLabs,
       AzureDevOps

LEMMA VcsInitInv == VcsInit => VcsInv
<1> SUFFICES ASSUME VcsInit PROVE VcsInv
  OBVIOUS
<1>1. /\ page.kind = "vcs" /\ page.mode \in {"list", "new"} /\ page.current = 0
      /\ page.vcsType = "GITHUB" /\ page.connectionType = "OAUTH"
      /\ page.chosen = <<"GITHUB", "OAUTH">> /\ page.form = None
      /\ page.listed = <<>> /\ page.deleting = {}
  BY DEF VcsInit
<1>2. page \in VcsPage
  <2>1. <<>> \in Seq(Connection) /\ <<"GITHUB", "OAUTH">> \in MenuTypes \X Kinds
    BY DEF MenuTypes, Kinds
  <2>2. page \in [kind : {"vcs"}, mode : {"list", "new"}, current : {0}, vcsType : {"GITHUB"},
                  connectionType : {"OAUTH"}, chosen : {<<"GITHUB", "OAUTH">>}, form : {None},
                  listed : {<<>>}, deleting : {{}}]
    BY DEF VcsInit
  <2> QED
    BY <2>1, <2>2 DEF VcsPage, MenuTypes, Kinds
<1>3. /\ server \in [rows : Seq(Connection), asking : SUBSET (Nat \X VcsTypes)]
      /\ server.rows = <<>> /\ server.asking = {}
  BY DEF VcsInit
<1> QED
  BY <1>1, <1>2, <1>3 DEF VcsInv, VcsTypeOK, Rows, AzureDevOps

LEMMA VcsTyped ==
    ASSUME VcsInv
    PROVE  /\ page \in VcsPage
           /\ server \in [rows : Seq(Connection), asking : SUBSET (Nat \X VcsTypes)]
           /\ server.rows \in Seq(Connection) /\ server.asking \subseteq Nat \X VcsTypes
           /\ page.vcsType \in MenuTypes /\ page.connectionType \in Kinds
           /\ page.form \in Endpoints \cup {None} /\ page.current \in {0, 1}
           /\ page.chosen \in MenuTypes \X Kinds /\ page.listed \in Seq(Connection)
           /\ page.mode \in {"list", "new"} /\ page.deleting \in SUBSET Nat
BY DEF VcsInv, VcsTypeOK, VcsPage

(* The form, and what is listed: the connections are left alone.            *)
LEMMA FormStep ==
    ASSUME VcsInv, UNCHANGED server, page' \in VcsPage,
           page'.chosen = <<page'.vcsType, page'.connectionType>>,
           page'.vcsType = AzureDevOps => page'.connectionType = "OAUTH",
           page'.mode = "new" /\ page'.current = 1 => page'.form = DefaultHttps(page'.vcsType)
    PROVE  VcsInv'
BY DEF VcsInv, VcsTypeOK, Rows, Agrees

LEMMA ListInv ==
    ASSUME VcsInv, LoadVCS \/ OnAddVCS \/ HandleChange \/ \E k \in Rows : AskWhoUses(k)
    PROVE  VcsInv'
<1>1. /\ page.chosen = <<page.vcsType, page.connectionType>>
      /\ page.vcsType = AzureDevOps => page.connectionType = "OAUTH"
      /\ page.mode = "new" /\ page.current = 1 => page.form = DefaultHttps(page.vcsType)
  BY DEF VcsInv
<1>2. CASE LoadVCS
  <2>1. page' = [page EXCEPT !.listed = server.rows] /\ UNCHANGED server
    BY <1>2 DEF LoadVCS, Change
  <2> QED
    BY <1>1, <2>1, VcsTyped, FormStep DEF VcsPage
<1>3. CASE OnAddVCS
  <2>1. page' = [page EXCEPT !.mode = "new", !.current = 0, !.form = None] /\ UNCHANGED server
    BY <1>3 DEF OnAddVCS, Change
  <2>2. page' \in VcsPage /\ page'.current = 0
        /\ UNCHANGED <<page.chosen, page.vcsType, page.connectionType>>
    BY <2>1, VcsTyped DEF VcsPage
  <2> QED
    BY <1>1, <2>1, <2>2, FormStep
<1>4. CASE HandleChange
  <2> DEFINE form == IF page.current = 1 THEN None ELSE DefaultHttps(page.vcsType)
  <2>1. page' = [page EXCEPT !.current = 1 - page.current, !.form = form] /\ UNCHANGED server
    BY <1>4 DEF HandleChange, Change
  <2>2. form \in Endpoints \cup {None} /\ 1 - page.current \in {0, 1}
        /\ (1 - page.current = 1 => form = DefaultHttps(page.vcsType))
    BY VcsTyped, TypesConvert
  <2> HIDE DEF form
  <2>3. page' \in VcsPage /\ page'.current = 1 - page.current /\ page'.form = form
        /\ UNCHANGED <<page.chosen, page.vcsType, page.connectionType>>
    BY <2>1, <2>2, VcsTyped DEF VcsPage
  <2> QED
    BY <1>1, <2>1, <2>2, <2>3, FormStep
<1>5. ASSUME NEW k \in Rows, AskWhoUses(k) PROVE VcsInv'
  <2>1. PICK deleting \in SUBSET Nat : page' = [page EXCEPT !.deleting = deleting]
    <3>1. PICK users : page' = [page EXCEPT !.deleting = IF users THEN @ ELSE @ \cup {k}]
      BY <1>5 DEF AskWhoUses
    <3>2. k \in Nat /\ page.deleting \cup {k} \in SUBSET Nat
      BY VcsTyped DEF Rows
    <3> QED
      BY <3>1, <3>2, VcsTyped
  <2>2. UNCHANGED server
    BY <1>5 DEF AskWhoUses
  <2> QED
    BY <1>1, <2>1, <2>2, VcsTyped, FormStep DEF VcsPage
<1> QED
  BY <1>2, <1>3, <1>4, <1>5

LEMMA HandleVCSClickInv ==
    ASSUME VcsInv, NEW type \in Types, NEW connection \in ConnectionTypes(type),
           HandleVCSClick(type, connection)
    PROVE  VcsInv'
<1>1. connection \in Kinds /\ (type = AzureDevOps => connection = "OAUTH")
  BY DEF ConnectionTypes, Kinds, AzureDevOps
<1>2. /\ page' = [page EXCEPT !.current = 1, !.vcsType = type, !.connectionType = connection,
                              !.chosen = <<type, connection>>, !.form = DefaultHttps(type)]
      /\ UNCHANGED server
  BY DEF HandleVCSClick, Change
<1>3. DefaultHttps(type) \in Endpoints /\ type \in MenuTypes
      /\ <<type, connection>> \in MenuTypes \X Kinds
  BY <1>1, TypesConvert DEF MenuTypes
<1>4. /\ page' \in VcsPage /\ page'.vcsType = type /\ page'.connectionType = connection
      /\ page'.chosen = <<type, connection>> /\ page'.form = DefaultHttps(type)
  BY <1>1, <1>2, <1>3, VcsTyped DEF VcsPage
<1> QED
  BY <1>1, <1>2, <1>4, FormStep
--------------------------------------------------------------------------------
(* A connection changes and still agrees, whatever is asked meanwhile.      *)
LEMMA RowStep ==
    ASSUME VcsInv, NEW k \in Rows, NEW row \in Connection, Agrees(row),
           NEW asking \in SUBSET (Nat \X VcsTypes),
           \A asked \in asking : asked \in server.asking \/ asked[1] \in Rows,
           server' = [rows |-> [server.rows EXCEPT ![k] = row], asking |-> asking],
           page' \in VcsPage,
           UNCHANGED <<page.chosen, page.vcsType, page.connectionType, page.mode, page.current,
                       page.form>>
    PROVE  VcsInv'
<1>1. k \in DOMAIN server.rows /\ k \in 1 .. Len(server.rows)
  BY VcsTyped DEF Rows
<1>2. /\ server'.rows = [server.rows EXCEPT ![k] = row] /\ server'.asking = asking
      /\ server'.rows \in Seq(Connection) /\ Len(server'.rows) = Len(server.rows)
  BY <1>1, VcsTyped
<1>3. VcsTypeOK'
  BY <1>2 DEF VcsTypeOK
<1>4. \A i \in Rows' : Agrees(server'.rows[i])
  <2>1. \A i \in Rows : server'.rows[i] = IF i = k THEN row ELSE server.rows[i]
    BY <1>1, <1>2, VcsTyped DEF Rows
  <2>2. Rows' = Rows
    BY <1>2 DEF Rows
  <2> QED
    BY <2>1, <2>2 DEF VcsInv
<1>5. \A asked \in server'.asking : asked[1] \in Rows'
  BY <1>2 DEF VcsInv, Rows
<1> QED
  BY <1>3, <1>4, <1>5 DEF VcsInv, Agrees

LEMMA RowTyped ==
    ASSUME VcsInv, NEW k \in Rows
    PROVE  server.rows[k] \in Connection /\ Agrees(server.rows[k])
BY VcsTyped DEF VcsInv, Rows

LEMMA ConnectInv == ASSUME VcsInv, NEW k \in Rows, Connect(k) PROVE VcsInv'
<1> DEFINE url == ListConnectUrl(page.listed[k].vcsType)
           asking == server.asking \cup {<<k, url>>}
<1>1. server' = [server EXCEPT !.asking = asking] /\ UNCHANGED page
  BY DEF Connect
<1>2. <<k, url>> \in Nat \X VcsTypes /\ <<k, url>>[1] = k
  BY TypesConvert, VcsTyped DEF Rows
<1>3. asking \in SUBSET (Nat \X VcsTypes)
      /\ \A asked \in asking : asked \in server.asking \/ asked[1] \in Rows
  BY <1>2, VcsTyped
<1>4. [server.rows EXCEPT ![k] = server.rows[k]] = server.rows
  BY VcsTyped
<1> HIDE DEF asking
<1>5. server' = [rows |-> [server.rows EXCEPT ![k] = server.rows[k]], asking |-> asking]
  BY <1>1, <1>4, VcsTyped
<1> QED
  BY <1>1, <1>3, <1>5, VcsTyped, RowTyped, RowStep

LEMMA RowFlagsInv ==
    ASSUME VcsInv, NEW k \in Rows, DeleteVCS(k) \/ WorkspaceUses(k) PROVE VcsInv'
<1>1. server.rows[k] \in Connection /\ Agrees(server.rows[k]) /\ k \in DOMAIN server.rows
  BY RowTyped, VcsTyped DEF Rows
<1>2. CASE DeleteVCS(k)
  <2> DEFINE row == [server.rows[k] EXCEPT !.deleted = TRUE]
             rows == [server.rows EXCEPT ![k] = row]
  <2>1. row \in Connection /\ Agrees(row)
    BY <1>1 DEF Connection, Agrees
  <2>2. server' = [server EXCEPT !.rows = rows]
    BY <1>2 DEF DeleteVCS
  <2> HIDE DEF row
  <2>3. rows \in Seq(Connection)
    BY <1>1, <2>1, VcsTyped
  <2>4. server' = [rows |-> rows, asking |-> server.asking] /\ server'.rows = rows
    BY <2>2, VcsTyped
  <2>5. page' = [page EXCEPT !.deleting = page.deleting \ {k}, !.listed = rows]
    BY <1>2, <2>4 DEF DeleteVCS
  <2> HIDE DEF rows
  <2>6. /\ page' \in VcsPage
        /\ UNCHANGED <<page.chosen, page.vcsType, page.connectionType, page.mode, page.current,
                       page.form>>
    BY <2>3, <2>5, VcsTyped DEF VcsPage
  <2> QED
    BY <2>1, <2>4, <2>6, VcsTyped, RowStep DEF rows
<1>3. CASE WorkspaceUses(k)
  <2>1. PICK users \in BOOLEAN : users = ~ server.rows[k].users
    OBVIOUS
  <2> DEFINE row == [server.rows[k] EXCEPT !.users = users]
             rows == [server.rows EXCEPT ![k] = row]
  <2>2. row \in Connection /\ Agrees(row)
    BY <1>1 DEF Connection, Agrees
  <2>3. server' = [server EXCEPT !.rows = rows] /\ UNCHANGED page
    BY <1>3, <2>1 DEF WorkspaceUses
  <2> HIDE DEF row
  <2>4. server' = [rows |-> rows, asking |-> server.asking]
    BY <2>3, VcsTyped
  <2> QED
    BY <2>2, <2>3, <2>4, VcsTyped, RowStep
<1> QED
  BY <1>2, <1>3

(* A token is stored only of a provider that took its own way to ask, and   *)
(* whose endpoint is its public site.                                       *)
LEMMA CallbackInv == ASSUME VcsInv, NEW asked \in server.asking, Callback(asked) PROVE VcsInv'
<1> DEFINE k == asked[1]
           old == server.rows[k]
<1>1. k \in Rows /\ asked[2] \in VcsTypes
  BY VcsTyped DEF VcsInv
<1>2. old \in Connection /\ Agrees(old)
  BY <1>1, RowTyped
<1>3. PICK answer \in IF Consents(k, asked[2]) THEN Answer(old) ELSE {None} :
         /\ server' = [server EXCEPT !.asking = @ \ {asked},
                !.rows[k] = IF answer = "stored"
                            THEN [old EXCEPT !.status = "COMPLETED", !.token = asked[2],
                                             !.answer = answer]
                            ELSE [old EXCEPT !.answer = answer]]
         /\ UNCHANGED page
  BY DEF Callback
<1>4. answer \in {None, "invalid callback path", "VCS not found", "token exchange failed", "stored"}
      /\ (answer = "stored" => asked[2] = old.vcsType /\ old.endpoint = old.vcsType)
  BY <1>3 DEF Consents, Answer, None
<1>5. PICK row \in Connection :
         /\ Agrees(row)
         /\ server' = [server EXCEPT !.asking = @ \ {asked}, !.rows[k] = row]
  <2>1. CASE answer = "stored"
    <3> DEFINE row == [old EXCEPT !.status = "COMPLETED", !.token = asked[2], !.answer = answer]
    <3>1. row \in Connection
      BY <1>1, <1>2, <1>4 DEF Connection
    <3>2. /\ row.vcsType = old.vcsType /\ row.chosen = old.chosen /\ row.token = asked[2]
          /\ row.connectionType = old.connectionType /\ row.endpoint = old.endpoint
      BY <1>2 DEF Connection
    <3>3. old.vcsType # "typed"
      BY <1>2 DEF Connection, VcsTypes
    <3>4. Agrees(row)
      BY <1>2, <1>4, <2>1, <3>2, <3>3 DEF Agrees
    <3>5. server' = [server EXCEPT !.asking = @ \ {asked}, !.rows[k] = row]
      BY <1>3, <2>1
    <3> QED
      BY <3>1, <3>4, <3>5
  <2>2. CASE answer # "stored"
    <3> DEFINE row == [old EXCEPT !.answer = answer]
    <3>1. row \in Connection /\ Agrees(row)
      BY <1>2, <1>4 DEF Connection, Agrees
    <3>2. server' = [server EXCEPT !.asking = @ \ {asked}, !.rows[k] = row]
      BY <1>3, <2>2
    <3> QED
      BY <3>1, <3>2
  <2> QED
    BY <2>1, <2>2
<1>6. server' = [rows |-> [server.rows EXCEPT ![k] = row], asking |-> server.asking \ {asked}]
  BY <1>5, VcsTyped
<1>7. server.asking \ {asked} \in SUBSET (Nat \X VcsTypes)
  BY VcsTyped
<1>8. page' \in VcsPage
  BY <1>3, VcsTyped
<1> QED
  BY <1>1, <1>3, <1>5, <1>6, <1>7, <1>8, RowStep

(* A connection is stored as the form has it.                               *)
LEMMA OnFinishInv ==
    ASSUME VcsInv, NEW registered \in {"vcs/uuid", "id"}, OnFinish(registered) PROVE VcsInv'
<1> DEFINE type == GetVcsType(page.vcsType)
           status == IF page.connectionType = "OAUTH" \/ type # "AZURE_SP_MI"
                     THEN "PENDING" ELSE "COMPLETED"
           row == [vcsType |-> type, connectionType |-> page.connectionType,
                   endpoint |-> page.form, chosen |-> page.chosen, deleted |-> FALSE,
                   status |-> status, registered |-> registered, answer |-> None,
                   token |-> None, users |-> FALSE]
           ask == <<Len(server.rows) + 1, ConnectUrl(page.vcsType)>>
           rows == Append(server.rows, row)
<1>1. PICK asking \in {server.asking, server.asking \cup {ask}} :
         server' = [rows |-> rows, asking |-> asking]
  BY DEF OnFinish
<1>2. /\ page.mode = "new" /\ page.current = 1
      /\ page' = [page EXCEPT !.mode = "list", !.form = None, !.listed = server'.rows]
  BY DEF OnFinish
<1>3. /\ page.chosen = <<page.vcsType, page.connectionType>>
      /\ page.vcsType = AzureDevOps => page.connectionType = "OAUTH"
      /\ page.form = DefaultHttps(page.vcsType)
  BY <1>2 DEF VcsInv
<1>4. type = "AZURE_SP_MI" => page.vcsType = AzureDevOps
  BY DEF GetVcsType
<1>5. status = "PENDING"
  BY <1>3, <1>4
<1>6. row \in Connection
  <2>1. type \in VcsTypes /\ page.form \in Endpoints
    BY <1>3, TypesConvert
  <2> HIDE DEF type, status
  <2> QED
    BY <1>5, <2>1, VcsTyped DEF Connection
<1>7. Agrees(row)
  <2>1. /\ row.vcsType = GetVcsType(page.vcsType) /\ row.connectionType = page.connectionType
        /\ row.chosen = <<page.vcsType, page.connectionType>> /\ row.status = "PENDING"
        /\ row.endpoint = DefaultHttps(page.vcsType)
    BY <1>3, <1>5
  <2> HIDE DEF row
  <2> QED
    BY <2>1 DEF Agrees
<1> HIDE DEF row, type, status
<1>8. rows \in Seq(Connection) /\ Len(rows) = Len(server.rows) + 1 /\ Len(server.rows) \in Nat
      /\ \A i \in 1 .. Len(rows) : (i \in Rows /\ rows[i] = server.rows[i]) \/ rows[i] = row
  BY <1>6, VcsTyped DEF Rows
<1>9. asking \in SUBSET (Nat \X VcsTypes)
      /\ \A asked \in asking : asked[1] \in 1 .. Len(rows)
  <2>1. ask \in Nat \X VcsTypes /\ ask[1] = Len(rows)
    BY <1>8, TypesConvert
  <2>2. \A asked \in server.asking : asked[1] \in 1 .. Len(rows)
    BY <1>8 DEF VcsInv, Rows
  <2> HIDE DEF ask, rows
  <2> QED
    BY <1>1, <1>8, <2>1, <2>2, VcsTyped
<1> HIDE DEF rows
<1>10. server'.rows = rows /\ server'.asking = asking
       /\ server' \in [rows : Seq(Connection), asking : SUBSET (Nat \X VcsTypes)]
  BY <1>1, <1>8, <1>9
<1>11. /\ page' \in VcsPage /\ page'.mode = "list"
       /\ UNCHANGED <<page.chosen, page.vcsType, page.connectionType>>
  BY <1>2, <1>8, <1>10, VcsTyped DEF VcsPage
<1>12. \A i \in Rows' : Agrees(server'.rows[i])
  BY <1>7, <1>8, <1>10 DEF Rows, VcsInv
<1>13. \A asked \in server'.asking : asked[1] \in Rows'
  BY <1>9, <1>10 DEF Rows
<1> QED
  BY <1>3, <1>10, <1>11, <1>12, <1>13 DEF VcsInv, VcsTypeOK, Agrees
--------------------------------------------------------------------------------
LEMMA VcsStepInv == VcsInv /\ [VcsNext]_pageVars => VcsInv'
<1> SUFFICES ASSUME VcsInv, [VcsNext]_pageVars PROVE VcsInv'
  OBVIOUS
<1>1. CASE LoadVCS \/ OnAddVCS \/ HandleChange
  BY <1>1, ListInv
<1>2. ASSUME NEW type \in Types, NEW c \in ConnectionTypes(type), HandleVCSClick(type, c)
      PROVE  VcsInv'
  BY <1>2, HandleVCSClickInv
<1>3. ASSUME NEW registered \in {"vcs/uuid", "id"}, OnFinish(registered) PROVE VcsInv'
  BY <1>3, OnFinishInv
<1>4. ASSUME NEW k \in Rows, Connect(k) \/ AskWhoUses(k) \/ DeleteVCS(k) \/ WorkspaceUses(k)
      PROVE  VcsInv'
  BY <1>4, ConnectInv, ListInv, RowFlagsInv
<1>5. ASSUME NEW asked \in server.asking, Callback(asked) PROVE VcsInv'
  BY <1>5, CallbackInv
<1>6. CASE UNCHANGED pageVars
  BY <1>6 DEF pageVars, VcsInv, VcsTypeOK, Rows, Agrees
<1> QED
  BY <1>1, <1>2, <1>3, <1>4, <1>5, <1>6 DEF VcsNext

(* The invariant holds of every state the page can reach, and is typed.     *)
THEOREM VcsInvariant == ConnectionsSpec => []VcsInv
BY VcsInitInv, VcsStepInv, PTL DEF ConnectionsSpec

(* onFinish, VCSCallbackHandler: whatever is chosen, asked for, called back *)
(* and deleted in between, a connection has one provider.                   *)
THEOREM ConnectionsAgree == ConnectionsSpec => []OneProvider
<1>1. VcsInv => OneProvider
  BY DEF VcsInv, Agrees, OneProvider
<1> QED
  BY <1>1, VcsInvariant, PTL
--------------------------------------------------------------------------------
(* The page of a module.                                                    *)
ModuleSpec == ModuleInit /\ [][ModuleNext]_pageVars

Parts == [version : Versions, submodule : Submodules \cup {Root}]
Shown == [status : {"shown"}, version : Versions, submodule : Submodules \cup {Root}]
              \cup [status : {Loading, LoadFailed, Nothing}]
Details == [stage : {"download", "files"}, part : Parts]

ModulePage ==
    [kind : {"module"}, loaded : {Loading, "loaded", LoadFailed}, clicks : Nat,
     version : Versions \cup {None}, submodule : Submodules \cup {Root},
     submodules : SUBSET Submodules, markdown : Shown, hcl : Shown, readmes : SUBSET Parts,
     details : SUBSET Details, overtaken : BOOLEAN, lost : BOOLEAN]

ModuleTypeOK ==
    /\ page \in ModulePage \/ page = Elsewhere
    /\ server \in [latest : Versions, deleted : BOOLEAN]

(* Each half of what is shown belongs to the header, or a request that will *)
(* set it for the header is under way.                                      *)
HclInv ==
    \/ page.hcl \in {Content(page.version, page.submodule), Status(LoadFailed)}
    \/ \E load \in page.details : load.part = Current
MarkdownInv ==
    \/ page.markdown \in {Content(page.version, page.submodule), Status(Nothing)}
    \/ page.submodule # Root /\ page.markdown = Status(Loading)
    \/ Current \in page.readmes

ModuleInv ==
    /\ ModuleTypeOK
    /\ On("module") /\ page.loaded = Loading => page.submodule = Root
    /\ On("module") /\ page.loaded = "loaded" =>
         /\ page.version \in Versions
         /\ ~ page.overtaken /\ ~ page.lost => HclInv /\ MarkdownInv

LEMMA ModuleInitInv == ModuleInit => ModuleInv
<1> SUFFICES ASSUME ModuleInit PROVE ModuleInv
  OBVIOUS
<1>1. Status(Loading) \in Shown
  BY DEF Status, Shown
<1>2. ModuleTypeOK
  BY <1>1 DEF ModuleInit, ModuleTypeOK, ModulePage
<1>3. page.loaded = Loading /\ page.submodule = Root
  BY DEF ModuleInit
<1> QED
  BY <1>2, <1>3 DEF ModuleInv, Loading

LEMMA ModuleTyped ==
    ASSUME ModuleInv, On("module")
    PROVE  /\ page \in ModulePage /\ page.readmes \subseteq Parts /\ page.details \subseteq Details
           /\ server \in [latest : Versions, deleted : BOOLEAN] /\ server.latest \in Versions
           /\ page.hcl \in Shown /\ page.markdown \in Shown
           /\ page.submodule \in Submodules \cup {Root} /\ page.submodules \subseteq Submodules
BY DEF ModuleInv, ModuleTypeOK, ModulePage, On, Elsewhere

LEMMA TextsTyped ==
    ASSUME NEW version \in Versions, NEW submodule \in Submodules \cup {Root}
    PROVE  /\ Part(version, submodule) \in Parts /\ Content(version, submodule) \in Shown
           /\ \A text \in {Loading, LoadFailed, Nothing} : Status(text) \in Shown
BY DEF Part, Parts, Content, Status, Shown

(* What the two requests leave, and what they add.                          *)
LEMMA DetailsAsked ==
    ASSUME NEW p \in ModulePage, NEW part \in Parts
    PROVE  /\ LoadModuleDetails(p, part) \in ModulePage
           /\ \E load \in LoadModuleDetails(p, part).details : load.part = part
           /\ LoadModuleDetails(p, part).loaded = p.loaded
           /\ LoadModuleDetails(p, part).version = p.version
           /\ LoadModuleDetails(p, part).submodule = p.submodule
           /\ LoadModuleDetails(p, part).markdown = p.markdown
           /\ LoadModuleDetails(p, part).readmes = p.readmes
           /\ LoadModuleDetails(p, part).details # {}
<1> DEFINE load == [stage |-> "download", part |-> part]
           details == p.details \cup {load}
<1>1. load \in Details /\ load.part = part /\ Status(Loading) \in Shown
  BY DEF Details, Status, Shown
<1>2. LoadModuleDetails(p, part) = [p EXCEPT !.hcl = Status(Loading), !.details = details]
  BY DEF LoadModuleDetails
<1> HIDE DEF load
<1>3. details \in SUBSET Details /\ load \in details
  BY <1>1 DEF ModulePage
<1>4. LoadModuleDetails(p, part).details = details
  BY <1>2 DEF ModulePage
<1> HIDE DEF details
<1>5. LoadModuleDetails(p, part) \in ModulePage
  BY <1>1, <1>2, <1>3 DEF ModulePage
<1>6. /\ LoadModuleDetails(p, part).loaded = p.loaded
      /\ LoadModuleDetails(p, part).version = p.version
      /\ LoadModuleDetails(p, part).submodule = p.submodule
      /\ LoadModuleDetails(p, part).markdown = p.markdown
      /\ LoadModuleDetails(p, part).readmes = p.readmes
  BY <1>2 DEF ModulePage
<1> QED
  BY <1>1, <1>3, <1>4, <1>5, <1>6

LEMMA ReadmeAsked ==
    ASSUME NEW p \in ModulePage, NEW version \in Versions
    PROVE  /\ LoadReadme(p, version) \in ModulePage
           /\ Part(version, Root) \in LoadReadme(p, version).readmes
           /\ LoadReadme(p, version).loaded = p.loaded
           /\ LoadReadme(p, version).version = p.version
           /\ LoadReadme(p, version).submodule = p.submodule
           /\ LoadReadme(p, version).markdown = p.markdown
           /\ LoadReadme(p, version).details = p.details
<1> DEFINE readmes == p.readmes \cup {Part(version, Root)}
<1>1. readmes \in SUBSET Parts /\ Part(version, Root) \in readmes
  BY TextsTyped DEF ModulePage
<1>2. LoadReadme(p, version) = [p EXCEPT !.readmes = readmes]
  BY DEF LoadReadme
<1> HIDE DEF readmes
<1> QED
  BY <1>1, <1>2 DEF ModulePage

(* Whoever turns to a version or a submodule asks for what belongs to it.   *)
LEMMA TurnStep ==
    ASSUME ModuleInv, page' \in ModulePage, UNCHANGED server, page'.version \in Versions,
           page'.loaded = "loaded",
           \E load \in page'.details : load.part = Part(page'.version, page'.submodule),
           \/ Part(page'.version, page'.submodule) \in page'.readmes
           \/ page'.submodule # Root /\ page'.markdown \in {Status(Loading), Status(Nothing)}
    PROVE  ModuleInv'
<1>1. ModuleTypeOK'
  BY DEF ModuleInv, ModuleTypeOK
<1>2. HclInv' /\ MarkdownInv'
  BY DEF HclInv, MarkdownInv, Current
<1> QED
  BY <1>1, <1>2 DEF ModuleInv, Loading

LEMMA ModuleArrivesInv == ASSUME ModuleInv, On("module"), ModuleArrives PROVE ModuleInv'
<1>1. CASE page' = [page EXCEPT !.loaded = LoadFailed] /\ UNCHANGED server
  <2>1. page' \in ModulePage /\ page'.loaded = LoadFailed
    BY <1>1, ModuleTyped DEF ModulePage
  <2> QED
    BY <1>1, <2>1, ModuleTyped DEF ModuleInv, ModuleTypeOK, LoadFailed, Loading
<1>2. CASE ~ (page' = [page EXCEPT !.loaded = LoadFailed] /\ UNCHANGED server)
  <2> DEFINE version == server.latest
             asked == LoadModuleDetails(LoadReadme(page, version), Part(version, Root))
  <2>1. page' = [asked EXCEPT !.loaded = "loaded", !.version = version] /\ UNCHANGED server
    BY <1>2 DEF ModuleArrives, Change
  <2>2. version \in Versions /\ Part(version, Root) \in Parts
    BY ModuleTyped, TextsTyped
  <2>3. /\ asked \in ModulePage /\ asked.submodule = page.submodule
        /\ \E load \in asked.details : load.part = Part(version, Root)
        /\ Part(version, Root) \in asked.readmes
    BY <2>2, ModuleTyped, ReadmeAsked, DetailsAsked
  <2> HIDE DEF asked
  <2>4. /\ page' \in ModulePage /\ page'.version = version /\ page'.submodule = page.submodule
        /\ page'.details = asked.details /\ page'.readmes = asked.readmes
        /\ page'.loaded = "loaded"
    BY <2>1, <2>2, <2>3 DEF ModulePage
  <2>5. page.submodule = Root
    BY DEF ModuleArrives, ModuleInv
  <2> HIDE DEF version
  <2>6. page'.submodule = Root
    BY <2>3, <2>4, <2>5
  <2>7. \E load \in page'.details : load.part = Part(page'.version, page'.submodule)
    BY <2>3, <2>4, <2>6
  <2>8. Part(page'.version, page'.submodule) \in page'.readmes
    BY <2>3, <2>4, <2>6
  <2> QED
    BY <2>1, <2>2, <2>4, <2>7, <2>8, TurnStep
<1> QED
  BY <1>1, <1>2

(* An answer leaves the header as it is.                                    *)
LEMMA AnswerStep ==
    ASSUME ModuleInv, On("module"), UNCHANGED server, page' \in ModulePage,
           page'.loaded = page.loaded, page'.version = page.version,
           page'.submodule = page.submodule,
           ~ page'.overtaken /\ ~ page'.lost =>
               /\ ~ page.overtaken /\ ~ page.lost
               /\ HclInv => HclInv'
               /\ MarkdownInv => MarkdownInv'
    PROVE  ModuleInv'
<1>1. ModuleTypeOK'
  BY DEF ModuleInv, ModuleTypeOK
<1>2. page.loaded = Loading => page'.submodule = Root
  BY DEF ModuleInv
<1>3. page.loaded = "loaded" =>
        page'.version \in Versions /\ (~ page'.overtaken /\ ~ page'.lost => HclInv' /\ MarkdownInv')
  BY DEF ModuleInv
<1> QED
  BY <1>1, <1>2, <1>3 DEF ModuleInv

LEMMA ReadmeArrivesInv ==
    ASSUME ModuleInv, On("module"), NEW part \in page.readmes, ReadmeArrives(part)
    PROVE  ModuleInv'
<1>1. PICK markdown \in {Content(part.version, part.submodule), Status(Nothing)} :
        Change([page EXCEPT !.readmes = @ \ {part}, !.markdown = markdown,
                            !.overtaken = @ \/ part # Current])
  BY DEF ReadmeArrives
<1>2. part \in Parts /\ markdown \in Shown
  <2>1. part \in Parts
    BY ModuleTyped
  <2>2. part.version \in Versions /\ part.submodule \in Submodules \cup {Root}
    BY <2>1 DEF Parts
  <2> QED
    BY <1>1, <2>1, <2>2, TextsTyped
<1>3. PICK overtaken \in BOOLEAN : overtaken = (page.overtaken \/ part # Current)
  OBVIOUS
<1>4. page.overtaken \in BOOLEAN /\ page.readmes \ {part} \in SUBSET Parts
  BY ModuleTyped DEF ModulePage
<1>5. /\ page' = [page EXCEPT !.readmes = page.readmes \ {part}, !.markdown = markdown,
                              !.overtaken = overtaken]
      /\ UNCHANGED server
  BY <1>1, <1>3 DEF Change
<1>6. /\ page' \in ModulePage /\ page'.loaded = page.loaded /\ page'.version = page.version
      /\ page'.submodule = page.submodule /\ page'.hcl = page.hcl /\ page'.lost = page.lost
      /\ page'.details = page.details /\ page'.markdown = markdown /\ page'.overtaken = overtaken
  BY <1>2, <1>4, <1>5, ModuleTyped DEF ModulePage
<1>7. ASSUME ~ overtaken PROVE markdown \in {Content(page.version, page.submodule), Status(Nothing)}
  <2>1. part = Current
    BY <1>3, <1>7, Zenon
  <2>2. part.version = page.version /\ part.submodule = page.submodule
    BY <2>1 DEF Current, Part
  <2> QED
    BY <1>1, <2>2
<1>8. ~ page'.overtaken /\ ~ page'.lost =>
        ~ page.overtaken /\ ~ page.lost /\ (HclInv => HclInv') /\ (MarkdownInv => MarkdownInv')
  BY <1>3, <1>6, <1>7 DEF HclInv, MarkdownInv, Current
<1> QED
  BY <1>5, <1>6, <1>8, AnswerStep

LEMMA DownloadArrivesInv ==
    ASSUME ModuleInv, On("module"), NEW load \in page.details, DownloadArrives(load)
    PROVE  ModuleInv'
<1>1. load \in Details /\ page.details \subseteq Details /\ page.overtaken \in BOOLEAN
  BY ModuleTyped DEF ModulePage
<1>2. CASE Change([page EXCEPT !.details = (@ \ {load}) \cup {[load EXCEPT !.stage = "files"]}])
  <2> DEFINE next == [load EXCEPT !.stage = "files"]
             details == (page.details \ {load}) \cup {next}
  <2>1. next \in Details /\ next.part = load.part
    BY <1>1 DEF Details
  <2>2. page' = [page EXCEPT !.details = details] /\ UNCHANGED server
    BY <1>2 DEF Change
  <2> HIDE DEF next
  <2>3. details \in SUBSET Details
    BY <1>1, <2>1
  <2>4. HclInv => \/ page.hcl \in {Content(page.version, page.submodule), Status(LoadFailed)}
                  \/ \E one \in details : one.part = Current
    BY <2>1 DEF HclInv
  <2> HIDE DEF details
  <2>5. /\ page' \in ModulePage /\ page'.loaded = page.loaded /\ page'.version = page.version
        /\ page'.submodule = page.submodule /\ page'.hcl = page.hcl /\ page'.lost = page.lost
        /\ page'.details = details /\ page'.markdown = page.markdown
        /\ page'.overtaken = page.overtaken /\ page'.readmes = page.readmes
    BY <2>2, <2>3, ModuleTyped DEF ModulePage
  <2>6. ~ page'.overtaken /\ ~ page'.lost =>
          ~ page.overtaken /\ ~ page.lost /\ (HclInv => HclInv') /\ (MarkdownInv => MarkdownInv')
    BY <2>4, <2>5 DEF HclInv, MarkdownInv, Current
  <2> QED
    BY <2>2, <2>5, <2>6, AnswerStep
<1>3. CASE Change([page EXCEPT !.details = @ \ {load}, !.hcl = Status(LoadFailed),
                               !.overtaken = @ \/ load.part # Current])
  <2>1. PICK overtaken \in BOOLEAN : overtaken = (page.overtaken \/ load.part # Current)
    OBVIOUS
  <2>2. Status(LoadFailed) \in Shown /\ page.details \ {load} \in SUBSET Details
    BY <1>1 DEF Status, Shown
  <2>3. /\ page' = [page EXCEPT !.details = page.details \ {load}, !.hcl = Status(LoadFailed),
                                !.overtaken = overtaken]
        /\ UNCHANGED server
    BY <1>3, <2>1 DEF Change
  <2>4. /\ page' \in ModulePage /\ page'.loaded = page.loaded /\ page'.version = page.version
        /\ page'.submodule = page.submodule /\ page'.hcl = Status(LoadFailed)
        /\ page'.lost = page.lost /\ page'.markdown = page.markdown
        /\ page'.overtaken = overtaken /\ page'.readmes = page.readmes
    BY <2>2, <2>3, ModuleTyped DEF ModulePage
  <2>5. ~ page'.overtaken /\ ~ page'.lost =>
          ~ page.overtaken /\ ~ page.lost /\ (HclInv => HclInv') /\ (MarkdownInv => MarkdownInv')
    BY <2>1, <2>4 DEF HclInv, MarkdownInv, Current
  <2> QED
    BY <2>3, <2>4, <2>5, AnswerStep
<1> QED
  BY <1>2, <1>3 DEF DownloadArrives

LEMMA ReadFilesInv ==
    ASSUME ModuleInv, On("module"), NEW load \in page.details, ReadFiles(load)
    PROVE  ModuleInv'
<1> DEFINE content == Content(load.part.version, load.part.submodule)
<1>1. load \in Details /\ page.details \ {load} \in SUBSET Details /\ page.overtaken \in BOOLEAN
  BY ModuleTyped DEF ModulePage
<1>2. content \in Shown
  <2>1. load.part.version \in Versions /\ load.part.submodule \in Submodules \cup {Root}
    BY <1>1 DEF Details, Parts
  <2> QED
    BY <2>1, TextsTyped
<1>3. PICK overtaken \in BOOLEAN : overtaken = (page.overtaken \/ load.part # Current)
  OBVIOUS
<1>4. PICK readme \in BOOLEAN :
        LET p == [page EXCEPT !.details = page.details \ {load}, !.hcl = content,
                              !.overtaken = overtaken] IN
        Change(IF load.part.submodule = Root THEN [p EXCEPT !.submodules = Submodules]
               ELSE IF readme THEN [p EXCEPT !.markdown = content] ELSE p)
  BY <1>3 DEF ReadFiles
<1>5. ASSUME ~ overtaken PROVE content = Content(page.version, page.submodule)
  <2>1. load.part = Current
    BY <1>3, <1>5, Zenon
  <2>2. load.part.version = page.version /\ load.part.submodule = page.submodule
    BY <2>1 DEF Current, Part
  <2> QED
    BY <2>2
<1> HIDE DEF content
<1> DEFINE p == [page EXCEPT !.details = page.details \ {load}, !.hcl = content,
                             !.overtaken = overtaken]
<1>6. /\ p \in ModulePage /\ p.loaded = page.loaded /\ p.version = page.version
      /\ p.submodule = page.submodule /\ p.hcl = content /\ p.lost = page.lost
      /\ p.markdown = page.markdown /\ p.overtaken = overtaken /\ p.readmes = page.readmes
  BY <1>1, <1>2, ModuleTyped DEF ModulePage
<1>7. UNCHANGED server
  BY <1>4 DEF Change
<1>8. page' \in {[p EXCEPT !.submodules = Submodules], [p EXCEPT !.markdown = content], p}
  BY <1>4 DEF Change
<1> HIDE DEF p
<1>9. /\ page' \in ModulePage /\ page'.loaded = page.loaded /\ page'.version = page.version
      /\ page'.submodule = page.submodule /\ page'.hcl = content /\ page'.lost = page.lost
      /\ page'.markdown \in {page.markdown, content} /\ page'.overtaken = overtaken
      /\ page'.readmes = page.readmes
  <2>1. CASE page' = [p EXCEPT !.submodules = Submodules]
    BY <1>6, <2>1 DEF ModulePage
  <2>2. CASE page' = [p EXCEPT !.markdown = content]
    BY <1>2, <1>6, <2>2 DEF ModulePage
  <2>3. CASE page' = p
    BY <1>6, <2>3
  <2> QED
    BY <1>8, <2>1, <2>2, <2>3
<1>10. ~ page'.overtaken /\ ~ page'.lost =>
         ~ page.overtaken /\ ~ page.lost /\ (HclInv => HclInv') /\ (MarkdownInv => MarkdownInv')
  BY <1>3, <1>5, <1>9 DEF HclInv, MarkdownInv, Current
<1> QED
  BY <1>7, <1>9, <1>10, AnswerStep

LEMMA ReadFilesThrowsInv ==
    ASSUME ModuleInv, On("module"), NEW load \in page.details, ReadFilesThrows(load)
    PROVE  ModuleInv'
<1>1. page.details \ {load} \in SUBSET Details
  BY ModuleTyped
<1>2. page' = [page EXCEPT !.details = page.details \ {load}, !.lost = TRUE] /\ UNCHANGED server
  BY DEF ReadFilesThrows, Change
<1>3. /\ page' \in ModulePage /\ page'.loaded = page.loaded /\ page'.version = page.version
      /\ page'.submodule = page.submodule /\ page'.lost
  BY <1>1, <1>2, ModuleTyped DEF ModulePage
<1> QED
  BY <1>2, <1>3, AnswerStep

LEMMA HandleClickInv ==
    ASSUME ModuleInv, On("module"), NEW version \in Versions, HandleClick(version)
    PROVE  ModuleInv'
<1> DEFINE blank == [Clicked(page) EXCEPT !.markdown = Status(Loading), !.version = version]
           asked == LoadReadme(blank, version)
<1>1. page' = LoadModuleDetails(asked, Part(version, Root)) /\ UNCHANGED server
  BY DEF HandleClick, Change
<1>2. page.loaded = "loaded" /\ page.submodule = Root
  BY DEF HandleClick, Click
<1>3. Part(version, Root) \in Parts /\ Status(Loading) \in Shown
  BY TextsTyped
<1>4. /\ blank \in ModulePage /\ blank.loaded = "loaded" /\ blank.version = version
      /\ blank.submodule = Root
  <2> DEFINE clicked == Clicked(page)
  <2>1. clicked \in ModulePage /\ clicked.loaded = "loaded" /\ clicked.submodule = Root
    BY <1>2, ModuleTyped DEF ModulePage, Clicked
  <2>2. blank = [clicked EXCEPT !.markdown = Status(Loading), !.version = version]
    OBVIOUS
  <2> HIDE DEF clicked, blank
  <2> QED
    BY <1>3, <2>1, <2>2 DEF ModulePage
<1> HIDE DEF blank
<1>5. /\ asked \in ModulePage /\ asked.loaded = "loaded" /\ asked.version = version
      /\ asked.submodule = Root /\ Part(version, Root) \in asked.readmes
  BY <1>4, ReadmeAsked
<1> HIDE DEF asked
<1>6. /\ page' \in ModulePage /\ page'.loaded = "loaded" /\ page'.version = version
      /\ page'.submodule = Root /\ page'.readmes = asked.readmes
      /\ \E load \in page'.details : load.part = Part(version, Root)
  BY <1>1, <1>3, <1>5, DetailsAsked
<1> QED
  BY <1>1, <1>5, <1>6, TurnStep

LEMMA OnClickSubmoduleInv ==
    ASSUME ModuleInv, On("module"), NEW submodule \in Submodules, OnClickSubmodule(submodule)
    PROVE  ModuleInv'
<1> DEFINE markdown == Status(IF page.markdown = Status(Loading) THEN Nothing ELSE Loading)
           blank == [Clicked(page) EXCEPT !.submodule = submodule, !.markdown = markdown]
           part == Part(page.version, submodule)
<1>1. page' = LoadModuleDetails(blank, part) /\ UNCHANGED server
  <2> DEFINE clicked == Clicked(page)
  <2>1. clicked.markdown = page.markdown
    BY ModuleTyped DEF ModulePage, Clicked
  <2> HIDE DEF clicked
  <2>2. [clicked EXCEPT !.submodule = submodule,
                        !.markdown = Status(IF @ = Status(Loading) THEN Nothing ELSE Loading)]
        = [clicked EXCEPT !.submodule = submodule, !.markdown = markdown]
    BY <2>1
  <2> USE DEF clicked
  <2> QED
    BY <2>2 DEF OnClickSubmodule, Change
<1>2. page.loaded = "loaded" /\ page.version \in Versions
  BY DEF OnClickSubmodule, Click, ModuleInv
<1>3. part \in Parts
  BY <1>2, TextsTyped
<1>4. markdown \in {Status(Loading), Status(Nothing)} /\ markdown \in Shown
  BY <1>2, TextsTyped
<1> HIDE DEF markdown
<1>5. /\ blank \in ModulePage /\ blank.loaded = "loaded" /\ blank.version = page.version
      /\ blank.submodule = submodule /\ blank.markdown = markdown
  <2> DEFINE clicked == Clicked(page)
  <2>1. clicked \in ModulePage /\ clicked.loaded = "loaded" /\ clicked.version = page.version
    BY <1>2, ModuleTyped DEF ModulePage, Clicked
  <2>2. blank = [clicked EXCEPT !.submodule = submodule, !.markdown = markdown]
    OBVIOUS
  <2> HIDE DEF clicked, blank
  <2> QED
    BY <1>4, <2>1, <2>2 DEF ModulePage
<1> HIDE DEF blank
<1>6. /\ page' \in ModulePage /\ page'.loaded = "loaded" /\ page'.version = page.version
      /\ page'.submodule = submodule /\ page'.markdown = markdown
      /\ \E load \in page'.details : load.part = part
  BY <1>1, <1>3, <1>5, DetailsAsked
<1>7. submodule # Root
  BY ModuleAssumption
<1> QED
  BY <1>1, <1>2, <1>4, <1>6, <1>7, TurnStep

LEMMA HandleClickBackInv == ASSUME ModuleInv, On("module"), HandleClickBack PROVE ModuleInv'
<1> DEFINE blank == [Clicked(page) EXCEPT !.submodule = Root, !.markdown = Status(Loading)]
           part == Part(page.version, Root)
           asked == LoadModuleDetails(blank, part)
<1>1. page' = LoadReadme(asked, page.version) /\ UNCHANGED server
  BY DEF HandleClickBack, Change
<1>2. page.loaded = "loaded" /\ page.version \in Versions
  BY DEF HandleClickBack, Click, ModuleInv
<1>3. part \in Parts /\ Status(Loading) \in Shown
  BY <1>2, TextsTyped
<1>4. /\ blank \in ModulePage /\ blank.loaded = "loaded" /\ blank.version = page.version
      /\ blank.submodule = Root
  <2> DEFINE clicked == Clicked(page)
  <2>1. clicked \in ModulePage /\ clicked.loaded = "loaded" /\ clicked.version = page.version
    BY <1>2, ModuleTyped DEF ModulePage, Clicked
  <2>2. blank = [clicked EXCEPT !.submodule = Root, !.markdown = Status(Loading)]
    OBVIOUS
  <2> HIDE DEF clicked, blank
  <2> QED
    BY <1>3, <2>1, <2>2 DEF ModulePage
<1> HIDE DEF blank
<1>5. /\ asked \in ModulePage /\ asked.loaded = "loaded" /\ asked.version = page.version
      /\ asked.submodule = Root /\ \E load \in asked.details : load.part = part
  BY <1>3, <1>4, DetailsAsked
<1> HIDE DEF asked
<1>6. /\ page' \in ModulePage /\ page'.loaded = "loaded" /\ page'.version = page.version
      /\ page'.submodule = Root /\ part \in page'.readmes /\ page'.details = asked.details
  BY <1>1, <1>2, <1>5, ReadmeAsked
<1> QED
  BY <1>1, <1>2, <1>5, <1>6, TurnStep

LEMMA ModuleOnDeleteInv == ASSUME ModuleInv, On("module"), OnDelete PROVE ModuleInv'
<1>1. page' = Elsewhere /\ server' = [server EXCEPT !.deleted = TRUE]
  BY DEF OnDelete
<1>2. server' \in [latest : Versions, deleted : BOOLEAN]
  BY <1>1, ModuleTyped
<1>3. ~ On("module")'
  BY <1>1 DEF On, Elsewhere
<1> QED
  BY <1>1, <1>2, <1>3 DEF ModuleInv, ModuleTypeOK

LEMMA ModuleStepInv == ModuleInv /\ [ModuleNext]_pageVars => ModuleInv'
<1> SUFFICES ASSUME ModuleInv, [ModuleNext]_pageVars PROVE ModuleInv'
  OBVIOUS
<1>1. CASE UNCHANGED pageVars
  BY <1>1 DEF pageVars, ModuleInv, ModuleTypeOK, On, HclInv, MarkdownInv, Current
<1>2. CASE ModuleNext
  <2>1. On("module")
    BY <1>2 DEF ModuleNext
  <2>2. CASE ModuleArrives
    BY <2>1, <2>2, ModuleArrivesInv
  <2>3. CASE HandleClickBack
    BY <2>1, <2>3, HandleClickBackInv
  <2>4. CASE OnDelete
    BY <2>1, <2>4, ModuleOnDeleteInv
  <2>5. CASE \E part \in page.readmes : ReadmeArrives(part)
    BY <2>1, <2>5, ReadmeArrivesInv
  <2>6. ASSUME NEW load \in page.details,
               DownloadArrives(load) \/ ReadFiles(load) \/ ReadFilesThrows(load)
        PROVE  ModuleInv'
    BY <2>1, <2>6, DownloadArrivesInv, ReadFilesInv, ReadFilesThrowsInv
  <2>7. CASE \E version \in Versions : HandleClick(version)
    BY <2>1, <2>7, HandleClickInv
  <2>8. CASE \E submodule \in Submodules : OnClickSubmodule(submodule)
    BY <2>1, <2>8, OnClickSubmoduleInv
  <2> QED
    BY <1>2, <2>2, <2>3, <2>4, <2>5, <2>6, <2>7, <2>8 DEF ModuleNext
<1> QED
  BY <1>1, <1>2

(* What the page of a module shows, or a request under way, belongs to the  *)
(* version and submodule of its header (Modules/Details.tsx).               *)
THEOREM ModuleInvariant == ModuleSpec => []ModuleInv
BY ModuleInitInv, ModuleStepInv, PTL DEF ModuleSpec

(* With nothing under way, overtaken or lost, the readme and declarations   *)
(* on the page are those of the version and submodule of its header.        *)
THEOREM HeaderAgrees == ModuleSpec => []ContentOfTheHeader
<1>1. ModuleInv => ContentOfTheHeader
  <2> SUFFICES ASSUME ModuleInv, On("module"), page.loaded = "loaded", page.readmes = {},
                      page.details = {}, ~ page.overtaken, ~ page.lost
               PROVE  /\ page.hcl \in {Content(page.version, page.submodule), Status(LoadFailed)}
                      /\ page.markdown \in {Content(page.version, page.submodule), Status(Nothing)}
                           \cup (IF page.submodule = Root THEN {} ELSE {Status(Loading)})
    BY DEF ContentOfTheHeader
  <2>1. HclInv /\ MarkdownInv
    BY DEF ModuleInv
  <2> QED
    BY <2>1 DEF HclInv, MarkdownInv
<1> QED
  BY <1>1, ModuleInvariant, PTL
--------------------------------------------------------------------------------
(* The lists with one form for all items (UiEditors).                       *)
Names == EditedItems \cup {Editors!Empty, "typed"}
EditorCode == [content : Names, ref : {"null", "live", "gone"}, text : Names, given : Names]
EditGet == [item : EditedItems, edit : Nat]
EditSave == [mode : {"create", "edit"}, id : EditedItems \cup {None}, fields : Names,
             code : Names, loaded : BOOLEAN, disturbed : BOOLEAN]

EditorsPage ==
    [kind : {"editors"}, traits : Editors!Pages, list : {"pending", "read"},
     listed : SUBSET EditedItems, visible : BOOLEAN, mode : {"create", "edit"},
     id : EditedItems \cup {None}, fields : Names, code : EditorCode, gets : SUBSET EditGet,
     saves : SUBSET EditSave, opened : Nat, loaded : BOOLEAN, disturbed : BOOLEAN]

(* The last edit is not loaded before its answer; no other is numbered so.  *)
GetsInv ==
    /\ Editors!Is("rows") => page.gets = {}
    /\ \A g \in page.gets :
          /\ g.edit <= page.opened
          /\ page.mode = "edit" /\ g.edit = page.opened => g.item = page.id /\ ~ page.loaded

(* What is in the form, whether it is on screen or not.                     *)
CreateInv == page.visible /\ page.mode = "create" => page.fields \in {Editors!Empty, "typed"}
LoadedInv ==
    page.visible /\ page.mode = "edit" /\ page.loaded =>
        /\ page.fields = page.id
        /\ Editors!Is("editor") => page.code.ref = "live" /\ page.code.text = page.id
ResetInv ==
    Editors!Is("resets") =>
        \/ page.visible /\ (page.mode = "create" \/ page.loaded)
        \/ page.fields = Editors!Empty

SavesInv ==
    \A s \in page.saves : ~ s.disturbed =>
        IF s.mode = "create" THEN s.fields = "typed"
        ELSE s.loaded \/ Editors!Is("resets") => s.fields = s.id /\ s.code = s.id

EditorsInv ==
    /\ On("editors") \/ On("left")
    /\ On("editors") =>
          /\ page \in EditorsPage
          /\ GetsInv /\ SavesInv
          /\ ~ page.disturbed => CreateInv /\ LoadedInv /\ ResetInv

LEMMA EditorsInitInv == Editors!EditorsInit => EditorsInv
<1> SUFFICES ASSUME Editors!EditorsInit PROVE EditorsInv
  OBVIOUS
<1>1. PICK p \in Editors!Pages :
         page = [kind |-> "editors", traits |-> p, list |-> "pending", listed |-> {},
                 visible |-> FALSE, mode |-> "create", id |-> None, fields |-> Editors!Empty,
                 code |-> Editors!NoEditor, gets |-> {}, saves |-> {}, opened |-> 0,
                 loaded |-> FALSE, disturbed |-> FALSE]
  BY DEF Editors!EditorsInit, Editors!None, None
<1>2. Editors!NoEditor \in EditorCode
  BY DEF Editors!NoEditor, EditorCode, Names
<1>3. page \in EditorsPage
  BY <1>1, <1>2 DEF EditorsPage, Names
<1>4. ~ page.visible /\ page.gets = {} /\ page.saves = {} /\ page.fields = Editors!Empty
  BY <1>1
<1> QED
  BY <1>3, <1>4 DEF EditorsInv, EditorsPage, On, GetsInv, SavesInv, CreateInv, LoadedInv, ResetInv

(* What opening, closing and filling a form leave alone.                    *)
Alike(q, p) ==
    /\ q.traits = p.traits /\ q.mode = p.mode /\ q.id = p.id /\ q.fields = p.fields
    /\ q.gets = p.gets /\ q.saves = p.saves /\ q.loaded = p.loaded /\ q.disturbed = p.disturbed

LEMMA FormOpened ==
    ASSUME NEW p \in EditorsPage
    PROVE  /\ Editors!Open(p) \in EditorsPage /\ Alike(Editors!Open(p), p)
           /\ Editors!Open(p).visible /\ Editors!Open(p).opened = p.opened + 1
<1> DEFINE code == [p.code EXCEPT !.given = p.code.content]
<1>1. code \in EditorCode
  BY DEF EditorsPage, EditorCode
<1>2. PICK opened \in Nat : opened = p.opened + 1
  BY DEF EditorsPage
<1>3. Editors!Open(p) = [p EXCEPT !.visible = TRUE, !.opened = opened, !.code = code]
  BY <1>2 DEF Editors!Open, EditorsPage
<1> HIDE DEF code
<1>4. Editors!Open(p) \in EditorsPage
  BY <1>1, <1>3 DEF EditorsPage
<1>5. Alike(Editors!Open(p), p)
  BY <1>3 DEF EditorsPage, Alike
<1>6. Editors!Open(p).visible /\ Editors!Open(p).opened = p.opened + 1
  BY <1>2, <1>3 DEF EditorsPage
<1> QED
  BY <1>4, <1>5, <1>6

LEMMA FormClosed ==
    ASSUME NEW p \in EditorsPage
    PROVE  /\ Editors!Close(p) \in EditorsPage /\ Alike(Editors!Close(p), p)
           /\ ~ Editors!Close(p).visible /\ Editors!Close(p).opened = p.opened
<1>1. PICK ref \in {"null", "live", "gone"} : ref = IF p.code.ref = "live" THEN "gone" ELSE p.code.ref
  BY DEF EditorsPage, EditorCode
<1> DEFINE code == [p.code EXCEPT !.ref = ref]
<1>2. code \in EditorCode
  BY DEF EditorsPage, EditorCode
<1>3. Editors!Close(p) = [p EXCEPT !.visible = FALSE, !.code = code]
  BY <1>1 DEF Editors!Close, EditorsPage
<1> HIDE DEF code
<1> QED
  BY <1>2, <1>3 DEF EditorsPage, Alike

LEMMA FormFilled ==
    ASSUME NEW p \in EditorsPage, NEW text \in Names
    PROVE  LET q == Editors!SetCode(p, text) IN
           /\ q \in EditorsPage /\ Alike(q, p) /\ q.visible = p.visible /\ q.opened = p.opened
           /\ q.code.ref = p.code.ref /\ (p.code.ref = "live" => q.code.text = text)
<1>1. PICK shown \in Names : shown = IF p.code.ref = "live" THEN text ELSE p.code.text
  BY DEF EditorsPage, EditorCode
<1> DEFINE code == [p.code EXCEPT !.content = text, !.text = shown]
<1>2. code \in EditorCode /\ code.ref = p.code.ref /\ code.text = shown
  BY DEF EditorsPage, EditorCode
<1>3. Editors!SetCode(p, text) = [p EXCEPT !.code = code]
  BY <1>1 DEF Editors!SetCode, EditorsPage
<1> HIDE DEF code
<1> DEFINE q == Editors!SetCode(p, text)
<1>4. q \in EditorsPage /\ Alike(q, p) /\ q.visible = p.visible /\ q.opened = p.opened /\ q.code = code
  BY <1>2, <1>3 DEF EditorsPage, Alike
<1> HIDE DEF q
<1>5. /\ q \in EditorsPage /\ Alike(q, p) /\ q.visible = p.visible /\ q.opened = p.opened
      /\ q.code.ref = p.code.ref /\ (p.code.ref = "live" => q.code.text = text)
  BY <1>1, <1>2, <1>4
<1> USE DEF q
<1> QED
  BY <1>5

(* Only the actions of the UI have an editor, and their form is emptied;    *)
(* the variables of a workspace take their fields from the list.            *)
LEMMA TraitsOfPages ==
    ASSUME page \in EditorsPage
    PROVE  /\ Editors!Is("editor") => Editors!Is("resets") /\ ~ Editors!Is("rows")
           /\ Editors!Is("rows") => ~ Editors!Is("resets")
BY DEF EditorsPage, Editors!Is, Editors!Pages, Editors!ActionSettings,
       Editors!GlobalVariablesSettings, Editors!TagsSettings, Editors!SSHKeysSettings,
       Editors!AgentSettings, Editors!Variables

(* A step that leaves the form alone.                                       *)
LEMMA FormUntouched ==
    ASSUME EditorsInv, On("editors"), page' \in EditorsPage, page'.saves \subseteq page.saves,
           page'.traits = page.traits, page'.visible = page.visible, page'.mode = page.mode,
           page'.id = page.id, page'.fields = page.fields, page'.code = page.code,
           page'.gets = page.gets, page'.loaded = page.loaded, page'.opened = page.opened,
           page'.disturbed = page.disturbed
    PROVE  EditorsInv'
<1>1. GetsInv' /\ SavesInv'
  BY DEF EditorsInv, GetsInv, SavesInv, Editors!Is
<1>2. ~ page'.disturbed => CreateInv' /\ LoadedInv' /\ ResetInv'
  BY DEF EditorsInv, CreateInv, LoadedInv, ResetInv, Editors!Is
<1> QED
  BY <1>1, <1>2 DEF EditorsInv, EditorsPage, On

LEMMA ListArrivesKeeps ==
    ASSUME EditorsInv, On("editors"), Editors!ListArrives PROVE EditorsInv'
<1>1. PICK list \in {"pending", "read"} : list = IF Editors!Is("reloads") THEN "read" ELSE page.list
  BY DEF EditorsInv, EditorsPage
<1> DEFINE listed == {i \in EditedItems : server[i] # Editors!None}
<1>2. listed \in SUBSET EditedItems
  OBVIOUS
<1>3. page' = [page EXCEPT !.list = list, !.listed = listed]
  BY <1>1 DEF Editors!ListArrives, Editors!Change
<1> HIDE DEF listed
<1>4. page \in EditorsPage
  BY DEF EditorsInv
<1>5. /\ page' \in EditorsPage /\ page'.saves = page.saves
      /\ page'.traits = page.traits /\ page'.visible = page.visible /\ page'.mode = page.mode
      /\ page'.id = page.id /\ page'.fields = page.fields /\ page'.code = page.code
      /\ page'.gets = page.gets /\ page'.loaded = page.loaded /\ page'.opened = page.opened
      /\ page'.disturbed = page.disturbed
  BY <1>2, <1>3, <1>4 DEF EditorsPage
<1> QED
  BY <1>5, FormUntouched

LEMMA ListFailsKeeps ==
    ASSUME EditorsInv, On("editors"), Editors!ListFails PROVE EditorsInv'
<1>1. CASE page' = [page EXCEPT !.list = "read"]
  <2>1. page \in EditorsPage
    BY DEF EditorsInv
  <2>2. /\ page' \in EditorsPage /\ page'.saves = page.saves
        /\ page'.traits = page.traits /\ page'.visible = page.visible /\ page'.mode = page.mode
        /\ page'.id = page.id /\ page'.fields = page.fields /\ page'.code = page.code
        /\ page'.gets = page.gets /\ page'.loaded = page.loaded /\ page'.opened = page.opened
        /\ page'.disturbed = page.disturbed
    BY <1>1, <2>1 DEF EditorsPage
  <2> QED
    BY <2>2, FormUntouched
<1>2. CASE page' = Editors!Elsewhere
  BY <1>2 DEF EditorsInv, On, Editors!Elsewhere
<1> QED
  BY <1>1, <1>2 DEF Editors!ListFails, Editors!Change

LEMMA EditorMountsKeeps ==
    ASSUME EditorsInv, On("editors"), Editors!EditorMounts PROVE EditorsInv'
<1> DEFINE code == [page.code EXCEPT !.ref = "live", !.text = page.code.given]
<1>1. page \in EditorsPage
  BY DEF EditorsInv
<1>2. code \in EditorCode
  BY <1>1 DEF EditorsPage, EditorCode
<1>3. page' = [page EXCEPT !.code = code]
  BY <1>1 DEF Editors!EditorMounts, Editors!Change, EditorsPage
<1> HIDE DEF code
<1>4. /\ page' \in EditorsPage /\ page'.saves = page.saves
      /\ page'.traits = page.traits /\ page'.visible = page.visible /\ page'.mode = page.mode
      /\ page'.id = page.id /\ page'.fields = page.fields
      /\ page'.gets = page.gets /\ page'.loaded = page.loaded /\ page'.opened = page.opened
      /\ page'.disturbed = page.disturbed
  BY <1>1, <1>2, <1>3 DEF EditorsPage
<1>5. GetsInv' /\ SavesInv'
  BY <1>4 DEF EditorsInv, GetsInv, SavesInv, Editors!Is
<1>6. ~ page'.disturbed => CreateInv' /\ LoadedInv' /\ ResetInv'
  <2>1. Editors!Is("editor") /\ page.code.ref # "live"
    BY DEF Editors!EditorMounts
  <2> QED
    BY <1>4, <2>1 DEF EditorsInv, CreateInv, LoadedInv, ResetInv, Editors!Is
<1> QED
  BY <1>4, <1>5, <1>6 DEF EditorsInv, EditorsPage, On

LEMMA OnEditKeeps ==
    ASSUME EditorsInv, On("editors"), NEW i \in EditedItems, Editors!OnEdit(i) PROVE EditorsInv'
<1> DEFINE open == Editors!Open(page)
           rows == Editors!Is("rows")
<1>1. page \in EditorsPage /\ i \in Names /\ rows \in BOOLEAN /\ page.opened \in Nat
  BY DEF EditorsInv, EditorsPage, Names, Editors!Is
<1>2. open \in EditorsPage /\ Alike(open, page) /\ open.visible /\ open.opened = page.opened + 1
  BY <1>1, FormOpened
<1> DEFINE p == [open EXCEPT !.mode = "edit", !.id = i, !.loaded = rows]
<1>3. page' = IF rows THEN [p EXCEPT !.fields = i, !.disturbed = FALSE]
              ELSE [p EXCEPT !.gets = @ \cup {[item |-> i, edit |-> p.opened]}]
  BY DEF Editors!OnEdit, Editors!Change
<1> HIDE DEF open, rows
<1>4. /\ p \in EditorsPage /\ p.traits = page.traits /\ p.saves = page.saves /\ p.gets = page.gets
      /\ p.fields = page.fields /\ p.disturbed = page.disturbed
      /\ p.mode = "edit" /\ p.id = i /\ p.loaded = rows /\ p.visible /\ p.opened = page.opened + 1
  <2>1. p \in EditorsPage
    BY <1>1, <1>2 DEF EditorsPage
  <2>2. /\ p.traits = page.traits /\ p.saves = page.saves /\ p.gets = page.gets
        /\ p.fields = page.fields /\ p.disturbed = page.disturbed
        /\ p.opened = page.opened + 1
    BY <1>2 DEF EditorsPage, Alike
  <2>3. p.mode = "edit" /\ p.id = i /\ p.loaded = rows /\ p.visible
    BY <1>2 DEF EditorsPage
  <2> QED
    BY <2>1, <2>2, <2>3
<1> HIDE DEF p
<1>5. CASE rows
  <2>1. page' = [p EXCEPT !.fields = i, !.disturbed = FALSE]
    BY <1>3, <1>5
  <2>2. page' \in EditorsPage
    BY <1>1, <1>4, <2>1 DEF EditorsPage
  <2>3. /\ page'.traits = page.traits /\ page'.saves = page.saves /\ page'.gets = page.gets
        /\ page'.mode = "edit" /\ page'.id = i /\ page'.fields = i
    BY <1>4, <2>1 DEF EditorsPage
  <2>4. page'.gets = {}
    BY <1>5, <2>3 DEF EditorsInv, GetsInv, rows
  <2>5. GetsInv' /\ SavesInv'
    BY <2>3, <2>4 DEF EditorsInv, GetsInv, SavesInv, Editors!Is
  <2>6. ~ Editors!Is("editor") /\ ~ Editors!Is("resets")
    BY <1>1, <1>5, TraitsOfPages DEF rows
  <2>7. CreateInv' /\ LoadedInv' /\ ResetInv'
    BY <2>3, <2>6 DEF CreateInv, LoadedInv, ResetInv, Editors!Is
  <2> QED
    BY <2>2, <2>5, <2>7 DEF EditorsInv, EditorsPage, On
<1>6. CASE ~ rows
  <2> DEFINE get == [item |-> i, edit |-> p.opened]
             gets == p.gets \cup {get}
  <2>1. page' = [p EXCEPT !.gets = gets]
    BY <1>3, <1>6
  <2>2. get \in EditGet /\ get.item = i /\ get.edit = page.opened + 1
    BY <1>1, <1>4 DEF EditGet
  <2> HIDE DEF get
  <2>3. gets \in SUBSET EditGet
    BY <1>4, <2>2 DEF EditorsPage
  <2>4. \A g \in gets : g = get \/ g \in page.gets
    BY <1>4
  <2> HIDE DEF gets
  <2>5. page' \in EditorsPage
    BY <1>4, <2>1, <2>3 DEF EditorsPage
  <2>6. /\ page'.traits = page.traits /\ page'.saves = page.saves /\ page'.gets = gets
        /\ page'.mode = "edit" /\ page'.id = i /\ page'.fields = page.fields
        /\ page'.disturbed = page.disturbed /\ page'.opened = page.opened + 1
    BY <1>4, <2>1 DEF EditorsPage
  <2>7. ~ page'.loaded
    BY <1>4, <1>6, <2>1 DEF EditorsPage
  <2>8. \A g \in page'.gets : g.edit <= page'.opened /\ (g.edit = page'.opened => g.item = i)
    <3> SUFFICES ASSUME NEW g \in gets
                 PROVE  g.edit <= page.opened + 1 /\ (g.edit = page.opened + 1 => g.item = i)
      BY <2>6
    <3>1. CASE g = get
      BY <1>1, <2>2, <3>1
    <3>2. CASE g \in page.gets
      <4>1. g.edit \in Nat /\ g.edit <= page.opened
        BY <1>1, <3>2 DEF EditorsInv, GetsInv, EditorsPage, EditGet
      <4> QED
        BY <1>1, <4>1
    <3> QED
      BY <2>4, <3>1, <3>2
  <2>9. GetsInv' /\ SavesInv'
    BY <1>6, <2>6, <2>7, <2>8 DEF EditorsInv, GetsInv, SavesInv, Editors!Is, rows
  <2>10. ~ page'.disturbed => CreateInv' /\ LoadedInv' /\ ResetInv'
    <3>1. ASSUME Editors!Is("resets"), ~ page.disturbed PROVE page.fields = Editors!Empty
      <4>1. ~ page.visible
        BY DEF Editors!OnEdit
      <4> QED
        BY <3>1, <4>1 DEF EditorsInv, ResetInv
    <3> QED
      BY <2>6, <2>7, <3>1 DEF CreateInv, LoadedInv, ResetInv, Editors!Is
  <2> QED
    BY <2>5, <2>9, <2>10 DEF EditorsInv, EditorsPage, On
<1> QED
  BY <1>5, <1>6

LEMMA OnNewKeeps == ASSUME EditorsInv, On("editors"), Editors!OnNew PROVE EditorsInv'
<1> DEFINE filled == Editors!SetCode(page, Editors!Empty)
           open == Editors!Open(filled)
<1>1. page \in EditorsPage /\ Editors!Empty \in Names /\ page.opened \in Nat
  BY DEF EditorsInv, EditorsPage, Names
<1>2. filled \in EditorsPage /\ Alike(filled, page) /\ filled.opened = page.opened
  BY <1>1, FormFilled
<1>3. page' = [open EXCEPT !.mode = "create", !.fields = Editors!Empty, !.disturbed = FALSE]
  BY DEF Editors!OnNew, Editors!Change
<1> HIDE DEF filled
<1>4. open \in EditorsPage /\ Alike(open, filled) /\ open.visible /\ open.opened = page.opened + 1
  BY <1>2, FormOpened
<1> HIDE DEF open
<1>5. page' \in EditorsPage
  BY <1>1, <1>3, <1>4 DEF EditorsPage
<1>6. /\ page'.traits = page.traits /\ page'.saves = page.saves /\ page'.gets = page.gets
      /\ page'.opened = page.opened + 1
  BY <1>2, <1>3, <1>4 DEF EditorsPage, Alike
<1>7. page'.mode = "create" /\ page'.fields = Editors!Empty
  BY <1>3, <1>4 DEF EditorsPage
<1>8. page'.visible
  BY <1>3, <1>4 DEF EditorsPage
<1>9. \A g \in page'.gets : g.edit <= page'.opened
  <2> SUFFICES ASSUME NEW g \in page.gets PROVE g.edit <= page.opened + 1
    BY <1>6
  <2>1. g.edit \in Nat /\ g.edit <= page.opened
    BY <1>1 DEF EditorsInv, GetsInv, EditorsPage, EditGet
  <2> QED
    BY <1>1, <2>1
<1>10. GetsInv' /\ SavesInv'
  BY <1>6, <1>7, <1>9 DEF EditorsInv, GetsInv, SavesInv, Editors!Is
<1>11. CreateInv' /\ LoadedInv' /\ ResetInv'
  BY <1>7 DEF CreateInv, LoadedInv, ResetInv
<1> QED
  BY <1>5, <1>10, <1>11 DEF EditorsInv, EditorsPage, On

LEMMA TypeFieldsKeeps == ASSUME EditorsInv, On("editors"), Editors!TypeFields PROVE EditorsInv'
<1>1. page \in EditorsPage /\ "typed" \in Names
  BY DEF EditorsInv, Names
<1>2. page' = [page EXCEPT !.fields = "typed"] /\ page.visible /\ page.mode = "create"
  BY DEF Editors!TypeFields, Editors!Change
<1>3. page' \in EditorsPage
  BY <1>1, <1>2 DEF EditorsPage
<1>4. /\ page'.traits = page.traits /\ page'.saves = page.saves /\ page'.gets = page.gets
      /\ page'.opened = page.opened /\ page'.mode = "create" /\ page'.fields = "typed"
  BY <1>1, <1>2 DEF EditorsPage
<1>5. page'.visible
  BY <1>1, <1>2 DEF EditorsPage
<1>6. GetsInv' /\ SavesInv'
  BY <1>2, <1>4 DEF EditorsInv, GetsInv, SavesInv, Editors!Is
<1>7. CreateInv' /\ LoadedInv' /\ ResetInv'
  BY <1>4, <1>5 DEF CreateInv, LoadedInv, ResetInv
<1> QED
  BY <1>3, <1>6, <1>7 DEF EditorsInv, EditorsPage, On

LEMMA ItemArrivesKeeps ==
    ASSUME EditorsInv, On("editors"), NEW g \in page.gets, Editors!ItemArrives(g)
    PROVE  EditorsInv'
<1> DEFINE p == Editors!SetCode(page, g.item)
<1>1. page \in EditorsPage /\ page.gets \subseteq EditGet /\ g.item \in EditedItems /\ g.item \in Names
  BY DEF EditorsInv, EditorsPage, EditGet, Names
<1>2. /\ p \in EditorsPage /\ Alike(p, page) /\ p.visible = page.visible /\ p.opened = page.opened
      /\ p.code.ref = page.code.ref /\ (page.code.ref = "live" => p.code.text = g.item)
  BY <1>1, FormFilled
<1>3. PICK loaded \in BOOLEAN : loaded = (page.loaded \/ Editors!IsFor(g))
  OBVIOUS
<1>4. PICK disturbed \in BOOLEAN :
        disturbed = (~ Editors!IsFor(g) \/ (Editors!Is("editor") /\ page.code.ref # "live"))
  OBVIOUS
<1>5. p.gets = page.gets /\ p.loaded = page.loaded
  BY <1>2 DEF Alike
<1>6. page' = [p EXCEPT !.gets = page.gets \ {g}, !.fields = g.item, !.loaded = loaded,
                        !.disturbed = disturbed]
  <2>1. page' = [p EXCEPT !.gets = @ \ {g}, !.fields = g.item,
                          !.loaded = @ \/ Editors!IsFor(g),
                          !.disturbed = ~ Editors!IsFor(g)
                                          \/ (Editors!Is("editor") /\ page.code.ref # "live")]
    BY DEF Editors!ItemArrives, Editors!Change
  <2> HIDE DEF p
  <2> QED
    BY <1>3, <1>4, <1>5, <2>1
<1> HIDE DEF p
<1>7. page' \in EditorsPage
  <2>1. page.gets \ {g} \in SUBSET EditGet
    BY <1>1
  <2> QED
    BY <1>1, <1>2, <1>6, <2>1 DEF EditorsPage
<1>8. /\ page'.traits = page.traits /\ page'.saves = page.saves /\ page'.gets = page.gets \ {g}
      /\ page'.opened = page.opened /\ page'.mode = page.mode /\ page'.id = page.id
      /\ page'.visible = page.visible /\ page'.code = p.code
  BY <1>2, <1>6 DEF EditorsPage, Alike
<1>9. page'.fields = g.item /\ page'.loaded = loaded /\ page'.disturbed = disturbed
  BY <1>2, <1>6 DEF EditorsPage
<1>10. Editors!IsFor(g) =>
         page.visible /\ page.mode = "edit" /\ g.edit = page.opened /\ g.item = page.id
  BY DEF Editors!IsFor, EditorsInv, GetsInv
<1>11. GetsInv'
  <2>1. ASSUME NEW h \in page.gets \ {g}, page.mode = "edit", h.edit = page.opened
        PROVE  h.item = page.id /\ ~ loaded
    <3>1. h.item = page.id /\ ~ page.loaded
      BY <2>1 DEF EditorsInv, GetsInv
    <3>2. ~ Editors!IsFor(g)
      <4> SUFFICES ASSUME Editors!IsFor(g) PROVE FALSE
        OBVIOUS
      <4>1. h \in EditGet /\ g \in EditGet /\ h.item = g.item /\ h.edit = g.edit
        BY <1>1, <1>10, <2>1, <3>1
      <4>2. h = g
        BY <4>1 DEF EditGet
      <4> QED
        BY <4>2
    <3> QED
      BY <1>3, <3>1, <3>2
  <2>2. \A h \in page.gets : h.edit <= page.opened
    BY DEF EditorsInv, GetsInv
  <2>3. Editors!Is("rows")' => page'.gets = {}
    BY <1>8 DEF EditorsInv, GetsInv, Editors!Is
  <2> QED
    BY <1>8, <1>9, <2>1, <2>2, <2>3 DEF GetsInv
<1>12. SavesInv'
  BY <1>8 DEF EditorsInv, SavesInv, Editors!Is
<1>13. ASSUME ~ page'.disturbed PROVE CreateInv' /\ LoadedInv' /\ ResetInv'
  <2>1. Editors!IsFor(g) /\ (Editors!Is("editor") => page.code.ref = "live")
    BY <1>4, <1>9, <1>13, Zenon
  <2>2. loaded
    BY <1>3, <2>1
  <2>3. /\ page'.visible /\ page'.mode = "edit" /\ page'.loaded /\ page'.fields = page'.id
        /\ Editors!Is("editor") => page'.code.ref = "live" /\ page'.code.text = page'.id
    BY <1>2, <1>8, <1>9, <1>10, <2>1, <2>2
  <2> QED
    BY <1>8, <2>3 DEF CreateInv, LoadedInv, ResetInv, Editors!Is
<1> QED
  BY <1>7, <1>11, <1>12, <1>13 DEF EditorsInv, EditorsPage, On

LEMMA ItemFailsKeeps ==
    ASSUME EditorsInv, On("editors"), NEW g \in page.gets, Editors!ItemFails(g)
    PROVE  EditorsInv'
<1>1. page \in EditorsPage /\ page.gets \ {g} \in SUBSET EditGet
  BY DEF EditorsInv, EditorsPage
<1>2. PICK disturbed \in BOOLEAN : disturbed = (page.disturbed \/ ~ Editors!IsFor(g))
  OBVIOUS
<1> DEFINE p == [page EXCEPT !.gets = page.gets \ {g}, !.disturbed = disturbed]
<1>3. /\ p \in EditorsPage /\ p.traits = page.traits /\ p.saves = page.saves
      /\ p.gets = page.gets \ {g} /\ p.opened = page.opened /\ p.mode = page.mode
      /\ p.id = page.id /\ p.fields = page.fields /\ p.loaded = page.loaded
      /\ p.disturbed = disturbed
  BY <1>1 DEF EditorsPage
<1>4. page' = p \/ page' = Editors!Close(p)
  BY <1>2 DEF Editors!ItemFails, Editors!Change
<1> HIDE DEF p
<1>5. page' \in EditorsPage /\ Alike(page', p) /\ page'.opened = p.opened
  <2>1. CASE page' = p
    BY <1>3, <2>1 DEF Alike
  <2>2. CASE page' = Editors!Close(p)
    BY <1>3, <2>2, FormClosed
  <2> QED
    BY <1>4, <2>1, <2>2
<1>6. /\ page'.traits = page.traits /\ page'.saves = page.saves /\ page'.gets = page.gets \ {g}
      /\ page'.opened = page.opened /\ page'.mode = page.mode /\ page'.id = page.id
      /\ page'.fields = page.fields /\ page'.loaded = page.loaded /\ page'.disturbed = disturbed
  BY <1>3, <1>5 DEF Alike
<1>7. GetsInv' /\ SavesInv'
  BY <1>6 DEF EditorsInv, GetsInv, SavesInv, Editors!Is
<1>8. ASSUME ~ page'.disturbed PROVE CreateInv' /\ LoadedInv' /\ ResetInv'
  <2>1. ~ page.disturbed /\ Editors!IsFor(g)
    BY <1>2, <1>6, <1>8, Zenon
  <2>2. page.mode = "edit" /\ ~ page.loaded
    BY <2>1 DEF Editors!IsFor, EditorsInv, GetsInv
  <2>3. Editors!Is("resets") => page.fields = Editors!Empty
    BY <2>1, <2>2 DEF EditorsInv, ResetInv
  <2> QED
    BY <1>6, <2>2, <2>3 DEF CreateInv, LoadedInv, ResetInv, Editors!Is
<1> QED
  BY <1>5, <1>7, <1>8 DEF EditorsInv, EditorsPage, On

LEMMA EditorsOnCancelKeeps ==
    ASSUME EditorsInv, On("editors"), Editors!OnCancel PROVE EditorsInv'
<1>1. page \in EditorsPage /\ Editors!Empty \in Names
  BY DEF EditorsInv, Names
<1>2. /\ page' \in EditorsPage /\ page'.traits = page.traits /\ page'.saves = page.saves
      /\ page'.gets = page.gets /\ page'.opened = page.opened /\ page'.mode = page.mode
      /\ page'.id = page.id /\ page'.loaded = page.loaded /\ ~ page'.visible
      /\ Editors!Is("resets") => page'.fields = Editors!Empty
  <2>1. CASE Editors!Is("resets")
    <3> DEFINE filled == Editors!SetCode(page, Editors!Empty)
               closed == Editors!Close(filled)
    <3>1. filled \in EditorsPage /\ Alike(filled, page) /\ filled.opened = page.opened
      BY <1>1, FormFilled
    <3>2. page' = [closed EXCEPT !.fields = Editors!Empty, !.disturbed = FALSE]
      BY <2>1 DEF Editors!OnCancel, Editors!Change
    <3> HIDE DEF filled
    <3>3. closed \in EditorsPage /\ Alike(closed, filled) /\ ~ closed.visible /\ closed.opened = page.opened
      BY <3>1, FormClosed
    <3> HIDE DEF closed
    <3>4. page' \in EditorsPage
      BY <1>1, <3>2, <3>3 DEF EditorsPage
    <3>5. /\ page'.traits = page.traits /\ page'.saves = page.saves
          /\ page'.gets = page.gets /\ page'.opened = page.opened /\ page'.mode = page.mode
          /\ page'.id = page.id /\ page'.loaded = page.loaded
      BY <3>1, <3>2, <3>3 DEF EditorsPage, Alike
    <3>6. ~ page'.visible /\ page'.fields = Editors!Empty
      BY <3>2, <3>3 DEF EditorsPage
    <3> QED
      BY <3>4, <3>5, <3>6
  <2>2. CASE ~ Editors!Is("resets")
    <3>1. page' = Editors!Close(page)
      BY <2>2 DEF Editors!OnCancel, Editors!Change
    <3> QED
      BY <1>1, <2>2, <3>1, FormClosed DEF Alike
  <2> QED
    BY <2>1, <2>2
<1>3. GetsInv' /\ SavesInv'
  BY <1>2 DEF EditorsInv, GetsInv, SavesInv, Editors!Is
<1>4. CreateInv' /\ LoadedInv' /\ ResetInv'
  BY <1>2 DEF CreateInv, LoadedInv, ResetInv, Editors!Is
<1> QED
  BY <1>2, <1>3, <1>4 DEF EditorsInv, EditorsPage, On

LEMMA OnSaveKeeps == ASSUME EditorsInv, On("editors"), Editors!OnSave PROVE EditorsInv'
<1>1. page \in EditorsPage /\ page.visible /\ page.fields # Editors!Empty
  BY DEF EditorsInv, Editors!OnSave
<1>2. Editors!EditorValue \in Names
  BY <1>1 DEF Editors!EditorValue, EditorsPage, EditorCode, Names
<1>3. PICK code \in Names :
        code = IF Editors!Is("editor") THEN Editors!EditorValue ELSE page.fields
  BY <1>1, <1>2 DEF EditorsPage
<1> DEFINE s == [mode |-> page.mode, id |-> page.id, fields |-> page.fields, code |-> code,
                 loaded |-> page.loaded, disturbed |-> page.disturbed]
           saves == page.saves \cup {s}
<1>4. page' = [page EXCEPT !.saves = saves]
  BY <1>3 DEF Editors!OnSave, Editors!Change
<1>5. /\ s \in EditSave /\ s.mode = page.mode /\ s.id = page.id /\ s.fields = page.fields
      /\ s.code = code /\ s.loaded = page.loaded /\ s.disturbed = page.disturbed
  BY <1>1 DEF EditSave, EditorsPage
<1> HIDE DEF s
<1>6. saves \in SUBSET EditSave
  BY <1>1, <1>5 DEF EditorsPage
<1>7. ASSUME ~ s.disturbed
      PROVE  IF s.mode = "create" THEN s.fields = "typed"
             ELSE s.loaded \/ Editors!Is("resets") => s.fields = s.id /\ s.code = s.id
  <2>1. CreateInv /\ LoadedInv /\ ResetInv
    BY <1>5, <1>7 DEF EditorsInv
  <2>2. CASE s.mode = "create"
    BY <1>1, <1>5, <2>1, <2>2 DEF CreateInv
  <2>3. CASE s.mode # "create"
    <3> SUFFICES ASSUME s.loaded \/ Editors!Is("resets") PROVE s.fields = s.id /\ s.code = s.id
      BY <2>3
    <3>1. page.mode = "edit"
      BY <1>1, <1>5, <2>3 DEF EditorsPage
    <3>2. page.loaded
      BY <1>1, <1>5, <2>1, <3>1 DEF ResetInv
    <3>3. /\ page.fields = page.id
          /\ Editors!Is("editor") => page.code.ref = "live" /\ page.code.text = page.id
      BY <1>1, <2>1, <3>1, <3>2 DEF LoadedInv
    <3>4. code = page.id
      BY <1>3, <3>3 DEF Editors!EditorValue
    <3> QED
      BY <1>5, <3>3, <3>4
  <2> QED
    BY <2>2, <2>3
<1>8. \A t \in saves : t = s \/ t \in page.saves
  OBVIOUS
<1> HIDE DEF saves
<1>9. /\ page' \in EditorsPage /\ page'.saves = saves
      /\ page'.traits = page.traits /\ page'.visible = page.visible /\ page'.mode = page.mode
      /\ page'.id = page.id /\ page'.fields = page.fields /\ page'.code = page.code
      /\ page'.gets = page.gets /\ page'.loaded = page.loaded /\ page'.opened = page.opened
      /\ page'.disturbed = page.disturbed
  BY <1>1, <1>4, <1>6 DEF EditorsPage
<1>10. SavesInv'
  BY <1>7, <1>8, <1>9 DEF EditorsInv, SavesInv, Editors!Is
<1>11. GetsInv'
  BY <1>9 DEF EditorsInv, GetsInv, Editors!Is
<1>12. ~ page'.disturbed => CreateInv' /\ LoadedInv' /\ ResetInv'
  BY <1>9 DEF EditorsInv, CreateInv, LoadedInv, ResetInv, Editors!Is
<1> QED
  BY <1>9, <1>10, <1>11, <1>12 DEF EditorsInv, EditorsPage, On

LEMMA EditorsSaveAnsweredKeeps ==
    ASSUME EditorsInv, On("editors"), NEW s \in page.saves, Editors!SaveAnswered(s)
    PROVE  EditorsInv'
<1> DEFINE closed == Editors!Close(page)
<1>1. page \in EditorsPage /\ page.saves \ {s} \in SUBSET EditSave /\ Editors!Empty \in Names
  BY DEF EditorsInv, EditorsPage, Names
<1>2. /\ closed \in EditorsPage /\ Alike(closed, page) /\ ~ closed.visible
      /\ closed.opened = page.opened
  BY <1>1, FormClosed
<1>3. closed.saves = page.saves
  BY <1>2 DEF Alike
<1>4. page' = [closed EXCEPT !.saves = @ \ {s}, !.fields = Editors!Empty, !.list = "pending"]
  BY DEF Editors!SaveAnswered
<1> HIDE DEF closed
<1>5. page' \in EditorsPage
  BY <1>1, <1>2, <1>3, <1>4 DEF EditorsPage
<1>6. /\ page'.traits = page.traits /\ page'.saves = page.saves \ {s} /\ page'.gets = page.gets
      /\ page'.opened = page.opened /\ page'.mode = page.mode /\ page'.id = page.id
      /\ page'.loaded = page.loaded
  BY <1>2, <1>4 DEF EditorsPage, Alike
<1>7. ~ page'.visible /\ page'.fields = Editors!Empty
  BY <1>2, <1>4 DEF EditorsPage
<1>8. GetsInv' /\ SavesInv'
  BY <1>6 DEF EditorsInv, GetsInv, SavesInv, Editors!Is
<1>9. CreateInv' /\ LoadedInv' /\ ResetInv'
  BY <1>7 DEF CreateInv, LoadedInv, ResetInv
<1> QED
  BY <1>5, <1>8, <1>9 DEF EditorsInv, EditorsPage, On

LEMMA EditorsOthersKeep ==
    ASSUME EditorsInv, On("editors"),
           \/ \E s \in page.saves : Editors!SaveFails(s)
           \/ \E i \in EditedItems : Editors!OnDelete(i)
    PROVE  EditorsInv'
<1>1. page \in EditorsPage
  BY DEF EditorsInv
<1>2. PICK saves \in SUBSET page.saves, list \in {"pending", "read"} :
        page' = [page EXCEPT !.saves = saves, !.list = list]
  <2>1. ASSUME NEW s \in page.saves, Editors!SaveFails(s)
        PROVE  page' = [page EXCEPT !.saves = page.saves \ {s}, !.list = page.list]
    BY <1>1, <2>1 DEF Editors!SaveFails, Editors!Change, EditorsPage
  <2>2. ASSUME NEW i \in EditedItems, Editors!OnDelete(i)
        PROVE  page' = [page EXCEPT !.saves = page.saves, !.list = "pending"]
    BY <1>1, <2>2 DEF Editors!OnDelete, EditorsPage
  <2>3. page.list \in {"pending", "read"}
    BY <1>1 DEF EditorsPage
  <2> QED
    BY <2>1, <2>2, <2>3
<1>3. /\ page' \in EditorsPage /\ page'.saves \subseteq page.saves
      /\ page'.traits = page.traits /\ page'.visible = page.visible /\ page'.mode = page.mode
      /\ page'.id = page.id /\ page'.fields = page.fields /\ page'.code = page.code
      /\ page'.gets = page.gets /\ page'.loaded = page.loaded /\ page'.opened = page.opened
      /\ page'.disturbed = page.disturbed
  <2>1. saves \in SUBSET EditSave
    BY <1>1 DEF EditorsPage
  <2> QED
    BY <1>1, <1>2, <2>1 DEF EditorsPage
<1> QED
  BY <1>3, FormUntouched

LEMMA EditorsStepInv == EditorsInv /\ Editors!EditorsNext => EditorsInv'
<1> SUFFICES ASSUME EditorsInv, Editors!EditorsNext PROVE EditorsInv'
  OBVIOUS
<1>1. On("editors")
  BY DEF Editors!EditorsNext, Editors!On, On
<1>2. CASE \/ Editors!ListArrives \/ Editors!ListFails \/ Editors!EditorMounts \/ Editors!OnNew
           \/ Editors!OnCancel \/ Editors!TypeFields \/ Editors!OnSave
  BY <1>1, <1>2, ListArrivesKeeps, ListFailsKeeps, EditorMountsKeeps, OnNewKeeps,
     EditorsOnCancelKeeps, TypeFieldsKeeps, OnSaveKeeps
<1>3. ASSUME NEW i \in EditedItems, Editors!OnEdit(i) \/ Editors!OnDelete(i) PROVE EditorsInv'
  BY <1>1, <1>3, OnEditKeeps, EditorsOthersKeep
<1>4. ASSUME NEW g \in page.gets, Editors!ItemArrives(g) \/ Editors!ItemFails(g) PROVE EditorsInv'
  BY <1>1, <1>4, ItemArrivesKeeps, ItemFailsKeeps
<1>5. ASSUME NEW s \in page.saves, Editors!SaveAnswered(s) \/ Editors!SaveFails(s) PROVE EditorsInv'
  BY <1>1, <1>5, EditorsSaveAnsweredKeeps, EditorsOthersKeep
<1> QED
  BY <1>2, <1>3, <1>4, <1>5 DEF Editors!EditorsNext
--------------------------------------------------------------------------------
(* The page of templates (UiTemplates).                                     *)
TextValues == TemplatesPage!Texts \cup {None, "garbled", TemplatesPage!Blank}
TextEditor == [ref : {"null", "live", "gone"}, text : TextValues]
TemplateSave == [mode : {"new", "edit"}, id : Templates \cup {None}, text : TextValues,
                 chosen : TextValues, early : BOOLEAN]

WizardPage ==
    [kind : {"templates"}, mode : {"list", "new", "edit"}, list : {"pending", "read"},
     templates : SUBSET Templates, id : Templates \cup {None}, loaded : BOOLEAN,
     changes : Nat, saved : Nat, saves : SUBSET TemplateSave, current : 0 .. 2,
     tcl : TextValues, editor : TextEditor, typed : BOOLEAN, early : BOOLEAN,
     chosen : TextValues]

(* What a save may carry.                                                   *)
Carries(early, text, chosen) == ~ early /\ text # "garbled" => text = chosen

(* An editor that is on screen has what was typed since, or the text it     *)
(* started with, which is the page's.                                       *)
EditorInv ==
    /\ page.typed => page.editor.ref = "live"
    /\ page.editor.ref = "live" /\ ~ page.typed => page.editor.text = page.tcl
    /\ page.mode = "new" /\ page.editor.ref = "live" => page.current = 1
    /\ page.mode = "edit" =>
          page.id \in Templates /\ ~ page.early /\ (page.editor.ref = "live" => page.loaded)

TemplatesInv ==
    /\ On("templates") \/ On("left")
    /\ On("templates") =>
          /\ page \in WizardPage /\ server \in [Templates -> TextValues]
          /\ EditorInv
          /\ Carries(page.early, page.tcl, page.chosen)
          /\ \A s \in page.saves : Carries(s.early, s.text, s.chosen)

LEMMA TemplatesInitInv == TemplatesPage!TemplatesInit => TemplatesInv
<1> SUFFICES ASSUME TemplatesPage!TemplatesInit PROVE TemplatesInv
  OBVIOUS
<1> DEFINE blank == TemplatesPage!Blank
           editor == [ref |-> "null", text |-> blank]
<1>1. editor \in TextEditor /\ editor.ref = "null" /\ blank \in TextValues
  BY DEF TextEditor, TextValues
<1>2. page = [kind |-> "templates", mode |-> "list", list |-> "pending", templates |-> {},
               id |-> None, loaded |-> FALSE, changes |-> 0, saved |-> 0, saves |-> {},
               current |-> 0, tcl |-> blank, editor |-> editor, typed |-> FALSE,
               early |-> FALSE, chosen |-> blank]
  BY DEF TemplatesPage!TemplatesInit, TemplatesPage!NoEditor, TemplatesPage!None, None
<1> HIDE DEF editor, blank
<1>3. page \in WizardPage
  BY <1>1, <1>2 DEF WizardPage
<1>4. /\ page.mode = "list" /\ ~ page.typed /\ page.editor = editor /\ page.saves = {}
      /\ page.tcl = page.chosen
  BY <1>2
<1>5. server \in [Templates -> TextValues]
  BY DEF TemplatesPage!TemplatesInit, TextValues, TemplatesPage!None, None
<1> QED
  BY <1>1, <1>3, <1>4, <1>5 DEF TemplatesInv, WizardPage, On, EditorInv, Carries

LEMMA TemplatesTyped ==
    ASSUME TemplatesInv, On("templates")
    PROVE  /\ page \in WizardPage /\ server \in [Templates -> TextValues]
           /\ page.tcl \in TextValues /\ page.chosen \in TextValues
           /\ page.editor \in TextEditor /\ page.editor.text \in TextValues
           /\ page.editor.ref \in {"null", "live", "gone"}
           /\ TemplatesPage!Blank \in TextValues /\ page.saves \subseteq TemplateSave
           /\ page.typed \in BOOLEAN /\ page.early \in BOOLEAN
           /\ page.changes \in Nat /\ page.saved \in Nat
BY DEF TemplatesInv, WizardPage, TextEditor, TextValues

(* A step that leaves the open form alone.                                  *)
LEMMA WizardUntouched ==
    ASSUME TemplatesInv, On("templates"), page' \in WizardPage,
           server' \in [Templates -> TextValues], page'.saves \subseteq page.saves,
           page'.mode \in {page.mode, "list"}, page'.id = page.id,
           page'.current = page.current,
           page'.loaded = page.loaded, page'.tcl = page.tcl, page'.editor = page.editor,
           page'.typed = page.typed, page'.early = page.early, page'.chosen = page.chosen
    PROVE  TemplatesInv'
<1>1. EditorInv'
  BY DEF TemplatesInv, EditorInv
<1>2. /\ Carries(page'.early, page'.tcl, page'.chosen)
      /\ \A s \in page'.saves : Carries(s.early, s.text, s.chosen)
  BY DEF TemplatesInv
<1> QED
  BY <1>1, <1>2 DEF TemplatesInv, WizardPage, On

LEMMA TemplatesArriveKeeps ==
    ASSUME TemplatesInv, On("templates"),
           TemplatesPage!TemplatesArrive \/ TemplatesPage!TemplatesFail
    PROVE  TemplatesInv'
<1>1. CASE page' = TemplatesPage!Elsewhere
  BY <1>1 DEF TemplatesInv, On, TemplatesPage!Elsewhere
<1>2. CASE page' # TemplatesPage!Elsewhere
  <2>1. PICK templates \in SUBSET Templates :
          page' = [page EXCEPT !.list = "read", !.templates = templates] /\ UNCHANGED server
    <3>1. CASE TemplatesPage!TemplatesArrive
      <4> DEFINE there == {t \in Templates : server[t] # TemplatesPage!None}
      <4>1. page' = [page EXCEPT !.list = "read", !.templates = there] /\ UNCHANGED server
        BY <3>1 DEF TemplatesPage!TemplatesArrive, TemplatesPage!Change
      <4>2. there \in SUBSET Templates
        OBVIOUS
      <4> QED
        BY <4>1, <4>2
    <3>2. CASE TemplatesPage!TemplatesFail
      <4>1. page.templates \in SUBSET Templates
        BY TemplatesTyped DEF WizardPage
      <4>2. page' = [page EXCEPT !.list = "read"] /\ UNCHANGED server
        BY <1>2, <3>2 DEF TemplatesPage!TemplatesFail, TemplatesPage!Change
      <4>3. page' = [page EXCEPT !.list = "read", !.templates = page.templates]
        BY <4>2, TemplatesTyped DEF WizardPage
      <4> QED
        BY <4>1, <4>2, <4>3
    <3> QED
      BY <3>1, <3>2
  <2>2. /\ page' \in WizardPage /\ page'.saves = page.saves
        /\ page'.mode = page.mode /\ page'.current = page.current /\ page'.id = page.id
        /\ page'.loaded = page.loaded /\ page'.tcl = page.tcl /\ page'.editor = page.editor
        /\ page'.typed = page.typed /\ page'.early = page.early /\ page'.chosen = page.chosen
    BY <2>1, TemplatesTyped DEF WizardPage
  <2> QED
    BY <2>1, <2>2, TemplatesTyped, WizardUntouched
<1> QED
  BY <1>1, <1>2

LEMMA TemplatesSaveKeeps ==
    ASSUME TemplatesInv, On("templates"), NEW s \in page.saves,
           TemplatesPage!SaveAnswered(s) \/ TemplatesPage!SaveFails(s)
    PROVE  TemplatesInv'
<1>1. page.saves \ {s} \in SUBSET TemplateSave /\ s.text \in TextValues
  BY TemplatesTyped DEF TemplateSave
<1>2. CASE TemplatesPage!SaveAnswered(s)
  <2>1. page' = [page EXCEPT !.saves = page.saves \ {s}, !.mode = "list", !.list = "pending"]
    BY <1>2 DEF TemplatesPage!SaveAnswered
  <2>2. server' \in [Templates -> TextValues]
    <3>1. \E t : server' = [server EXCEPT ![t] = s.text]
      BY <1>2 DEF TemplatesPage!SaveAnswered
    <3> QED
      BY <1>1, <3>1, TemplatesTyped
  <2>3. /\ page' \in WizardPage /\ page'.saves = page.saves \ {s}
        /\ page'.mode = "list" /\ page'.current = page.current /\ page'.id = page.id
        /\ page'.loaded = page.loaded /\ page'.tcl = page.tcl /\ page'.editor = page.editor
        /\ page'.typed = page.typed /\ page'.early = page.early /\ page'.chosen = page.chosen
    BY <1>1, <2>1, TemplatesTyped DEF WizardPage
  <2> QED
    BY <2>2, <2>3, WizardUntouched
<1>3. CASE TemplatesPage!SaveFails(s)
  <2>1. page' = [page EXCEPT !.saves = page.saves \ {s}] /\ UNCHANGED server
    BY <1>3 DEF TemplatesPage!SaveFails, TemplatesPage!Change
  <2>2. /\ page' \in WizardPage /\ page'.saves = page.saves \ {s}
        /\ page'.mode = page.mode /\ page'.current = page.current /\ page'.id = page.id
        /\ page'.loaded = page.loaded /\ page'.tcl = page.tcl /\ page'.editor = page.editor
        /\ page'.typed = page.typed /\ page'.early = page.early /\ page'.chosen = page.chosen
    BY <1>1, <2>1, TemplatesTyped DEF WizardPage
  <2> QED
    BY <2>1, <2>2, TemplatesTyped, WizardUntouched
<1> QED
  BY <1>2, <1>3

LEMMA TemplatesOnDeleteKeeps ==
    ASSUME TemplatesInv, On("templates"), NEW t \in Templates, TemplatesPage!OnDelete(t)
    PROVE  TemplatesInv'
<1>1. page' = [page EXCEPT !.list = "pending"] /\ server' = [server EXCEPT ![t] = TemplatesPage!None]
  BY DEF TemplatesPage!OnDelete
<1>2. TemplatesPage!None \in TextValues
  BY DEF TextValues, TemplatesPage!None, None
<1>3. /\ page' \in WizardPage /\ page'.saves = page.saves
      /\ page'.mode = page.mode /\ page'.current = page.current /\ page'.id = page.id
      /\ page'.loaded = page.loaded /\ page'.tcl = page.tcl /\ page'.editor = page.editor
      /\ page'.typed = page.typed /\ page'.early = page.early /\ page'.chosen = page.chosen
  BY <1>1, TemplatesTyped DEF WizardPage
<1>4. server' \in [Templates -> TextValues]
  BY <1>1, <1>2, TemplatesTyped
<1> QED
  BY <1>3, <1>4, WizardUntouched

(* What opens, a template or the wizard, starts blank.                      *)
LEMMA FreshWizard ==
    ASSUME NEW p \in WizardPage
    PROVE  LET q == TemplatesPage!Fresh(p) IN
           /\ q \in WizardPage /\ q.saves = p.saves /\ q.list = p.list
           /\ ~ q.typed /\ ~ q.early /\ q.tcl = q.chosen /\ q.editor.ref = "null"
<1> DEFINE blank == TemplatesPage!Blank
           editor == [ref |-> "null", text |-> blank]
           q == TemplatesPage!Fresh(p)
<1>1. editor \in TextEditor /\ editor.ref = "null" /\ blank \in TextValues
  BY DEF TextEditor, TextValues
<1>2. q = [p EXCEPT !.current = 0, !.tcl = blank, !.editor = editor, !.typed = FALSE,
                    !.early = FALSE, !.chosen = blank]
  BY DEF TemplatesPage!Fresh, TemplatesPage!NoEditor
<1> HIDE DEF editor, blank, q
<1>3. q \in WizardPage
  <2>1. 0 \in 0 .. 2
    OBVIOUS
  <2> QED
    BY <1>1, <1>2, <2>1 DEF WizardPage
<1>4. q.saves = p.saves /\ q.list = p.list /\ q.tcl = blank /\ q.chosen = blank /\ q.editor = editor
  BY <1>2 DEF WizardPage
<1>5. ~ q.typed /\ ~ q.early
  BY <1>2 DEF WizardPage
<1>6. /\ q \in WizardPage /\ q.saves = p.saves /\ q.list = p.list
      /\ ~ q.typed /\ ~ q.early /\ q.tcl = q.chosen /\ q.editor.ref = "null"
  BY <1>1, <1>3, <1>4, <1>5
<1> USE DEF q
<1> QED
  BY <1>6

LEMMA OnAddTemplateKeeps ==
    ASSUME TemplatesInv, On("templates"), TemplatesPage!OnAddVCS PROVE TemplatesInv'
<1> DEFINE q == TemplatesPage!Fresh(page)
<1>1. /\ q \in WizardPage /\ q.saves = page.saves
      /\ ~ q.typed /\ ~ q.early /\ q.tcl = q.chosen /\ q.editor.ref = "null"
  BY TemplatesTyped, FreshWizard
<1>2. page' = [q EXCEPT !.mode = "new"] /\ UNCHANGED server
  BY DEF TemplatesPage!OnAddVCS, TemplatesPage!Change
<1> HIDE DEF q
<1>3. /\ page' \in WizardPage /\ page'.saves = page.saves /\ page'.mode = "new"
      /\ page'.tcl = q.tcl /\ page'.chosen = q.chosen /\ page'.editor = q.editor
      /\ page'.typed = q.typed
  BY <1>1, <1>2 DEF WizardPage
<1>4. EditorInv'
  BY <1>1, <1>3 DEF EditorInv
<1>5. /\ Carries(page'.early, page'.tcl, page'.chosen)
      /\ \A s \in page'.saves : Carries(s.early, s.text, s.chosen)
  BY <1>1, <1>3 DEF TemplatesInv, Carries
<1> QED
  BY <1>2, <1>3, <1>4, <1>5, TemplatesTyped DEF TemplatesInv, WizardPage, On

LEMMA OnEditTemplateKeeps ==
    ASSUME TemplatesInv, On("templates"), NEW t \in Templates, TemplatesPage!OnEditVCS(t)
    PROVE  TemplatesInv'
<1> DEFINE q == TemplatesPage!Fresh(page)
<1>1. /\ q \in WizardPage /\ q.saves = page.saves
      /\ ~ q.typed /\ ~ q.early /\ q.tcl = q.chosen /\ q.editor.ref = "null"
  BY TemplatesTyped, FreshWizard
<1>2. PICK list \in {"pending", "read"} : list = IF t = page.id THEN q.list ELSE "pending"
  BY <1>1 DEF WizardPage
<1>3. page' = [q EXCEPT !.mode = "edit", !.id = t, !.loaded = FALSE, !.list = list] /\ UNCHANGED server
  <2>1. page' = [q EXCEPT !.mode = "edit", !.id = t, !.loaded = FALSE,
                          !.list = IF t = page.id THEN @ ELSE "pending"] /\ UNCHANGED server
    BY DEF TemplatesPage!OnEditVCS, TemplatesPage!Change
  <2> HIDE DEF q
  <2> QED
    BY <1>2, <2>1
<1> HIDE DEF q
<1>4. page' \in WizardPage
  BY <1>1, <1>3 DEF WizardPage
<1>5. /\ page'.saves = page.saves /\ page'.mode = "edit" /\ page'.id = t
      /\ page'.tcl = q.tcl /\ page'.chosen = q.chosen /\ page'.editor = q.editor
      /\ page'.typed = q.typed /\ page'.early = q.early
  BY <1>1, <1>3 DEF WizardPage
<1>6. EditorInv'
  BY <1>1, <1>5 DEF EditorInv
<1>7. /\ Carries(page'.early, page'.tcl, page'.chosen)
      /\ \A s \in page'.saves : Carries(s.early, s.text, s.chosen)
  BY <1>1, <1>5 DEF TemplatesInv, Carries
<1> QED
  BY <1>3, <1>4, <1>6, <1>7, TemplatesTyped DEF TemplatesInv, WizardPage, On

LEMMA LoadTemplateKeeps ==
    ASSUME TemplatesInv, On("templates"),
           TemplatesPage!LoadTemplate \/ TemplatesPage!LoadTemplateFails
    PROVE  TemplatesInv'
<1>1. CASE TemplatesPage!LoadTemplateFails
  BY <1>1 DEF TemplatesPage!LoadTemplateFails, TemplatesPage!Change, TemplatesPage!Elsewhere,
              TemplatesInv, On
<1>2. CASE TemplatesPage!LoadTemplate
  <2> DEFINE stored == server[page.id]
             decoded == TemplatesPage!Decoded(stored)
  <2>1. page.mode = "edit" /\ ~ page.loaded /\ stored # TemplatesPage!None
    BY <1>2 DEF TemplatesPage!LoadTemplate
  <2>2. /\ page' = [page EXCEPT !.loaded = TRUE, !.tcl = decoded, !.chosen = stored]
        /\ UNCHANGED server
    BY <1>2 DEF TemplatesPage!LoadTemplate, TemplatesPage!Change
  <2>3. decoded # "garbled" => decoded = stored
    BY DEF TemplatesPage!Decoded
  <2>4. PICK tcl, chosen : page' = [page EXCEPT !.loaded = TRUE, !.tcl = tcl, !.chosen = chosen]
                           /\ tcl = decoded /\ chosen = stored
    BY <2>2
  <2>5. stored \in TextValues /\ decoded \in TextValues
    <3>1. page.id \in Templates
      BY <2>1 DEF TemplatesInv, EditorInv
    <3> QED
      BY <3>1, TemplatesTyped DEF TemplatesPage!Decoded, TextValues
  <2> HIDE DEF stored, decoded
  <2>6. page' \in WizardPage
    BY <2>4, <2>5, TemplatesTyped DEF WizardPage
  <2>7. /\ page'.saves = page.saves /\ page'.mode = page.mode /\ page'.current = page.current /\ page'.id = page.id
        /\ page'.tcl = tcl /\ page'.chosen = chosen /\ page'.editor = page.editor
        /\ page'.typed = page.typed /\ page'.early = page.early /\ page'.loaded
    BY <2>4, TemplatesTyped DEF WizardPage
  <2>8. page.editor.ref # "live"
    BY <2>1 DEF TemplatesInv, EditorInv
  <2>9. EditorInv'
    BY <2>7, <2>8 DEF TemplatesInv, EditorInv
  <2>10. /\ Carries(page'.early, page'.tcl, page'.chosen)
         /\ \A s \in page'.saves : Carries(s.early, s.text, s.chosen)
    BY <2>3, <2>4, <2>7 DEF TemplatesInv, Carries
  <2> QED
    BY <2>2, <2>6, <2>9, <2>10, TemplatesTyped DEF TemplatesInv, WizardPage, On
<1> QED
  BY <1>1, <1>2

LEMMA TextEditorMountsKeeps ==
    ASSUME TemplatesInv, On("templates"), TemplatesPage!EditorMounts PROVE TemplatesInv'
<1> DEFINE editor == [ref |-> "live", text |-> page.tcl]
<1>1. page' = [page EXCEPT !.editor = editor] /\ UNCHANGED server
  BY DEF TemplatesPage!EditorMounts, TemplatesPage!Change
<1>2. editor \in TextEditor /\ editor.ref = "live" /\ editor.text = page.tcl
  BY TemplatesTyped DEF TextEditor
<1> HIDE DEF editor
<1>3. page' \in WizardPage
  BY <1>1, <1>2, TemplatesTyped DEF WizardPage
<1>4. /\ page'.saves = page.saves /\ page'.mode = page.mode /\ page'.current = page.current /\ page'.id = page.id
      /\ page'.tcl = page.tcl /\ page'.chosen = page.chosen /\ page'.editor = editor
      /\ page'.typed = page.typed /\ page'.early = page.early /\ page'.loaded = page.loaded
  BY <1>1, TemplatesTyped DEF WizardPage
<1>5. EditorInv'
  BY <1>2, <1>4 DEF TemplatesInv, EditorInv, TemplatesPage!EditorMounts, TemplatesPage!HasEditor
<1>6. /\ Carries(page'.early, page'.tcl, page'.chosen)
      /\ \A s \in page'.saves : Carries(s.early, s.text, s.chosen)
  BY <1>4 DEF TemplatesInv
<1> QED
  BY <1>1, <1>3, <1>5, <1>6, TemplatesTyped DEF TemplatesInv, WizardPage, On

LEMMA TypeKeeps ==
    ASSUME TemplatesInv, On("templates"), NEW text \in TemplatesPage!Texts, TemplatesPage!Type(text)
    PROVE  TemplatesInv'
<1> DEFINE editor == [page.editor EXCEPT !.text = text]
<1>1. PICK changes \in Nat : changes = page.changes + 1
  BY TemplatesTyped
<1>2. page' = [page EXCEPT !.editor = editor, !.typed = TRUE, !.changes = changes] /\ UNCHANGED server
  BY <1>1, TemplatesTyped DEF TemplatesPage!Type, TemplatesPage!Change, WizardPage
<1>3. editor \in TextEditor /\ editor.ref = "live"
  BY TemplatesTyped DEF TextEditor, TextValues, TemplatesPage!Type
<1> HIDE DEF editor
<1>4. page' \in WizardPage
  BY <1>2, <1>3, TemplatesTyped DEF WizardPage
<1>5. /\ page'.saves = page.saves /\ page'.mode = page.mode /\ page'.current = page.current /\ page'.id = page.id
      /\ page'.tcl = page.tcl /\ page'.chosen = page.chosen /\ page'.editor = editor
      /\ page'.early = page.early /\ page'.loaded = page.loaded
  BY <1>2, TemplatesTyped DEF WizardPage
<1>6. page'.typed
  BY <1>2, TemplatesTyped DEF WizardPage
<1>7. EditorInv'
  BY <1>3, <1>5, <1>6 DEF TemplatesInv, EditorInv, TemplatesPage!Type
<1>8. /\ Carries(page'.early, page'.tcl, page'.chosen)
      /\ \A s \in page'.saves : Carries(s.early, s.text, s.chosen)
  BY <1>5 DEF TemplatesInv
<1> QED
  BY <1>2, <1>4, <1>7, <1>8, TemplatesTyped DEF TemplatesInv, WizardPage, On

(* The wizard goes from step to step; the editor of the second stays there. *)
LEMMA Goes ==
    ASSUME NEW p \in WizardPage, NEW step \in 0 .. 2
    PROVE  LET q == TemplatesPage!Go(p, step) IN
           /\ q \in WizardPage /\ q.saves = p.saves /\ q.mode = p.mode /\ q.id = p.id
           /\ q.current = step /\ q.tcl = p.tcl /\ q.chosen = p.chosen /\ q.early = p.early
           /\ q.typed = p.typed /\ q.loaded = p.loaded
           /\ q.editor = p.editor \/ q.editor.ref = "gone"
           /\ p.current = 1 /\ step # 1 => q.editor.ref # "live"
<1> DEFINE blank == TemplatesPage!Blank
           gone == [ref |-> "gone", text |-> blank]
           q == TemplatesPage!Go(p, step)
<1>1. gone \in TextEditor /\ gone.ref = "gone"
  BY DEF TextEditor, TextValues
<1>2. /\ TemplatesPage!Go(p, step) = [p EXCEPT !.current = step,
              !.editor = IF p.current = 1 /\ step # 1 /\ @.ref = "live" THEN gone ELSE @]
      /\ p.editor \in TextEditor
  BY DEF TemplatesPage!Go, WizardPage
<1> HIDE DEF gone
<1>3. PICK editor \in TextEditor :
        editor = IF p.current = 1 /\ step # 1 /\ p.editor.ref = "live" THEN gone ELSE p.editor
  BY <1>1, <1>2
<1>4. q = [p EXCEPT !.current = step, !.editor = editor]
  BY <1>2, <1>3
<1> HIDE DEF q
<1>5. /\ q \in WizardPage /\ q.saves = p.saves /\ q.mode = p.mode /\ q.id = p.id
      /\ q.current = step /\ q.tcl = p.tcl /\ q.chosen = p.chosen /\ q.early = p.early
      /\ q.typed = p.typed /\ q.loaded = p.loaded /\ q.editor = editor
  BY <1>4 DEF WizardPage
<1>6. (editor = p.editor \/ editor.ref = "gone") /\ (p.current = 1 /\ step # 1 => editor.ref # "live")
  BY <1>1, <1>3
<1>7. /\ q \in WizardPage /\ q.saves = p.saves /\ q.mode = p.mode /\ q.id = p.id
      /\ q.current = step /\ q.tcl = p.tcl /\ q.chosen = p.chosen /\ q.early = p.early
      /\ q.typed = p.typed /\ q.loaded = p.loaded
      /\ q.editor = p.editor \/ q.editor.ref = "gone"
      /\ p.current = 1 /\ step # 1 => q.editor.ref # "live"
  BY <1>5, <1>6
<1> USE DEF q
<1> QED
  BY <1>7

LEMMA TemplateClickKeeps ==
    ASSUME TemplatesInv, On("templates"), NEW text \in Ascii, TemplatesPage!HandleClick(text)
    PROVE  TemplatesInv'
<1> DEFINE q == TemplatesPage!Go(page, 1)
           decoded == TemplatesPage!Decoded(text)
<1>1. page.mode = "new" /\ page.current = 0 /\ page.editor.ref # "live"
  BY DEF TemplatesPage!HandleClick, TemplatesInv, EditorInv
<1>2. /\ q \in WizardPage /\ q.saves = page.saves /\ q.mode = page.mode
      /\ q.current = 1 /\ (q.editor = page.editor \/ q.editor.ref = "gone")
  BY TemplatesTyped, Goes
<1>3. /\ page' = [q EXCEPT !.tcl = decoded, !.chosen = text, !.typed = FALSE, !.early = FALSE]
      /\ UNCHANGED server
  BY DEF TemplatesPage!HandleClick, TemplatesPage!Change
<1>4. decoded \in TextValues /\ text \in TextValues /\ (decoded # "garbled" => decoded = text)
  BY DEF TemplatesPage!Decoded, TextValues, TemplatesPage!Texts
<1> HIDE DEF q, decoded
<1>5. page' \in WizardPage
  BY <1>2, <1>3, <1>4 DEF WizardPage
<1>6. /\ page'.saves = page.saves /\ page'.mode = page.mode /\ page'.tcl = decoded
      /\ page'.chosen = text /\ page'.editor = q.editor
  BY <1>2, <1>3 DEF WizardPage
<1>7. ~ page'.typed
  BY <1>2, <1>3 DEF WizardPage
<1>8. EditorInv'
  BY <1>1, <1>2, <1>6, <1>7 DEF EditorInv
<1>9. /\ Carries(page'.early, page'.tcl, page'.chosen)
      /\ \A s \in page'.saves : Carries(s.early, s.text, s.chosen)
  BY <1>4, <1>6 DEF TemplatesInv, Carries
<1> QED
  BY <1>3, <1>5, <1>8, <1>9, TemplatesTyped DEF TemplatesInv, WizardPage, On

LEMMA HandleChangeKeeps ==
    ASSUME TemplatesInv, On("templates"), NEW step \in 0 .. 2, TemplatesPage!HandleChange(step)
    PROVE  TemplatesInv'
<1> DEFINE q == TemplatesPage!Go(page, step)
<1>1. page.mode = "new" /\ page.current # step /\ (page.editor.ref = "live" => page.current = 1)
  BY DEF TemplatesPage!HandleChange, TemplatesInv, EditorInv
<1>2. /\ q \in WizardPage /\ q.saves = page.saves /\ q.mode = page.mode
      /\ q.tcl = page.tcl /\ q.chosen = page.chosen /\ q.early = page.early
      /\ q.editor = page.editor \/ q.editor.ref = "gone"
      /\ page.current = 1 /\ step # 1 => q.editor.ref # "live"
  BY TemplatesTyped, Goes
<1>3. page' = [q EXCEPT !.typed = FALSE] /\ UNCHANGED server
  BY DEF TemplatesPage!HandleChange, TemplatesPage!Change
<1> HIDE DEF q
<1>4. page' \in WizardPage
  BY <1>2, <1>3 DEF WizardPage
<1>5. /\ page'.saves = page.saves /\ page'.mode = page.mode /\ page'.tcl = page.tcl
      /\ page'.chosen = page.chosen /\ page'.early = page.early /\ page'.editor = q.editor
  BY <1>2, <1>3 DEF WizardPage
<1>6. ~ page'.typed
  BY <1>2, <1>3 DEF WizardPage
<1>7. q.editor.ref # "live"
  BY <1>1, <1>2
<1>8. EditorInv'
  BY <1>1, <1>5, <1>6, <1>7 DEF EditorInv
<1>9. /\ Carries(page'.early, page'.tcl, page'.chosen)
      /\ \A s \in page'.saves : Carries(s.early, s.text, s.chosen)
  BY <1>5 DEF TemplatesInv
<1> QED
  BY <1>3, <1>4, <1>8, <1>9, TemplatesTyped DEF TemplatesInv, WizardPage, On

LEMMA HandleContinueKeeps ==
    ASSUME TemplatesInv, On("templates"), TemplatesPage!HandleContinue PROVE TemplatesInv'
<1> DEFINE q == TemplatesPage!Go(page, 2)
           value == TemplatesPage!GetValue(page)
<1>1. page.mode = "new" /\ page.current = 1 /\ 2 \in 0 .. 2
  BY DEF TemplatesPage!HandleContinue
<1>2. /\ q \in WizardPage /\ q.saves = page.saves /\ q.mode = page.mode
      /\ q.tcl = page.tcl /\ q.chosen = page.chosen /\ q.early = page.early
      /\ q.editor.ref # "live"
  BY <1>1, TemplatesTyped, Goes
<1>3. value \in TextValues /\ (page.editor.ref = "live" => value = page.editor.text)
  BY TemplatesTyped DEF TemplatesPage!GetValue
<1>4. PICK tcl \in TextValues : tcl = IF page.editor.ref = "null" THEN page.tcl ELSE value
  BY <1>3, TemplatesTyped
<1>5. PICK chosen \in TextValues : chosen = IF page.typed THEN page.editor.text ELSE page.chosen
  BY TemplatesTyped
<1>6. PICK early \in BOOLEAN : early = (page.early \/ page.editor.ref = "gone")
  OBVIOUS
<1>7. /\ page' = [q EXCEPT !.tcl = tcl, !.chosen = chosen, !.early = early, !.typed = FALSE]
      /\ UNCHANGED server
  <2>1. /\ page' = [q EXCEPT !.tcl = IF page.editor.ref = "null" THEN @ ELSE value,
                             !.chosen = IF page.typed THEN page.editor.text ELSE @,
                             !.early = @ \/ page.editor.ref = "gone",
                             !.typed = FALSE]
        /\ UNCHANGED server
    BY DEF TemplatesPage!HandleContinue, TemplatesPage!Change
  <2> HIDE DEF q, value
  <2> QED
    BY <1>2, <1>4, <1>5, <1>6, <2>1
<1> HIDE DEF q, value
<1>8. page' \in WizardPage
  BY <1>2, <1>7 DEF WizardPage
<1>9. /\ page'.saves = page.saves /\ page'.mode = page.mode /\ page'.tcl = tcl
      /\ page'.chosen = chosen /\ page'.early = early /\ page'.editor = q.editor
  BY <1>2, <1>7 DEF WizardPage
<1>10. ~ page'.typed
  BY <1>2, <1>7 DEF WizardPage
<1>11. EditorInv'
  BY <1>1, <1>2, <1>9, <1>10 DEF EditorInv
<1>12. Carries(early, tcl, chosen)
  <2> SUFFICES ASSUME ~ early, tcl # "garbled" PROVE tcl = chosen
    BY DEF Carries
  <2>1. ~ page.early /\ page.editor.ref # "gone"
    BY <1>6, Zenon
  <2>2. CASE page.editor.ref = "null"
    BY <1>4, <1>5, <2>1, <2>2 DEF TemplatesInv, EditorInv, Carries
  <2>3. CASE page.editor.ref = "live"
    BY <1>3, <1>4, <1>5, <2>1, <2>3 DEF TemplatesInv, EditorInv, Carries
  <2> QED
    BY <2>1, <2>2, <2>3, TemplatesTyped
<1>13. \A s \in page'.saves : Carries(s.early, s.text, s.chosen)
  BY <1>9 DEF TemplatesInv
<1> QED
  BY <1>7, <1>8, <1>9, <1>11, <1>12, <1>13, TemplatesTyped DEF TemplatesInv, WizardPage, On

LEMMA TemplatesOnFinishKeeps ==
    ASSUME TemplatesInv, On("templates"), TemplatesPage!OnFinish PROVE TemplatesInv'
<1> DEFINE new == page.mode = "new"
<1>1. PICK id \in Templates \cup {None} : id = IF new THEN TemplatesPage!None ELSE page.id
  BY TemplatesTyped DEF WizardPage, TemplatesPage!None, None
<1>2. PICK text \in TextValues : text = IF new THEN page.tcl ELSE page.editor.text
  BY TemplatesTyped
<1>3. PICK chosen \in TextValues :
        chosen = IF ~ new /\ page.typed THEN page.editor.text ELSE page.chosen
  BY TemplatesTyped
<1>4. PICK early \in BOOLEAN : early = (new /\ page.early)
  OBVIOUS
<1>5. PICK saved \in Nat : saved = page.saved + 1
  BY TemplatesTyped
<1>6. page.mode = "new" \/ (page.mode = "edit" /\ page.editor.ref = "live")
  BY DEF TemplatesPage!OnFinish
<1> DEFINE s == [mode |-> page.mode, id |-> id, text |-> text, chosen |-> chosen, early |-> early]
           saves == page.saves \cup {s}
<1>7. page' = [page EXCEPT !.saved = saved, !.saves = saves] /\ UNCHANGED server
  BY <1>1, <1>2, <1>3, <1>4, <1>5 DEF TemplatesPage!OnFinish, TemplatesPage!Change
<1>8. Carries(early, text, chosen)
  <2>1. CASE new
    <3>1. early = page.early /\ text = page.tcl /\ chosen = page.chosen
      BY <1>2, <1>3, <1>4, <2>1, TemplatesTyped
    <3> QED
      BY <3>1 DEF TemplatesInv, WizardPage, On
  <2>2. CASE ~ new
    <3>1. page.mode = "edit" /\ page.editor.ref = "live" /\ text = page.editor.text
      BY <1>2, <1>6, <2>2
    <3>2. CASE page.typed
      BY <1>3, <2>2, <3>1, <3>2 DEF Carries
    <3>3. CASE ~ page.typed
      BY <1>3, <2>2, <3>1, <3>3 DEF Carries, TemplatesInv, EditorInv
    <3> QED
      BY <3>2, <3>3
  <2> QED
    BY <2>1, <2>2
<1>9. s \in TemplateSave /\ s.early = early /\ s.text = text /\ s.chosen = chosen
  BY <1>6 DEF TemplateSave
<1> HIDE DEF s, new
<1>10. saves \in SUBSET TemplateSave
  BY <1>9, TemplatesTyped
<1>11. \A t \in saves : t = s \/ t \in page.saves
  OBVIOUS
<1> HIDE DEF saves
<1>12. /\ page' \in WizardPage /\ page'.saves = saves
       /\ page'.mode = page.mode /\ page'.current = page.current /\ page'.id = page.id
       /\ page'.loaded = page.loaded /\ page'.tcl = page.tcl /\ page'.editor = page.editor
       /\ page'.typed = page.typed /\ page'.early = page.early /\ page'.chosen = page.chosen
  BY <1>7, <1>10, TemplatesTyped DEF WizardPage
<1>13. EditorInv'
  BY <1>12 DEF TemplatesInv, EditorInv
<1>14. \A t \in page'.saves : Carries(t.early, t.text, t.chosen)
  BY <1>8, <1>9, <1>11, <1>12 DEF TemplatesInv
<1>15. Carries(page'.early, page'.tcl, page'.chosen)
  BY <1>12 DEF TemplatesInv
<1> QED
  BY <1>7, <1>12, <1>13, <1>14, <1>15, TemplatesTyped DEF TemplatesInv, WizardPage, On

LEMMA TemplatesStepInv == TemplatesInv /\ TemplatesPage!TemplatesNext => TemplatesInv'
<1> SUFFICES ASSUME TemplatesInv, TemplatesPage!TemplatesNext PROVE TemplatesInv'
  OBVIOUS
<1>1. On("templates")
  BY DEF TemplatesPage!TemplatesNext, TemplatesPage!On, On
<1>2. CASE \/ TemplatesPage!TemplatesArrive \/ TemplatesPage!TemplatesFail
           \/ TemplatesPage!OnAddVCS \/ TemplatesPage!LoadTemplate
           \/ TemplatesPage!LoadTemplateFails \/ TemplatesPage!EditorMounts
           \/ TemplatesPage!HandleContinue \/ TemplatesPage!OnFinish
  BY <1>1, <1>2, TemplatesArriveKeeps, OnAddTemplateKeeps, LoadTemplateKeeps,
     TextEditorMountsKeeps, HandleContinueKeeps, TemplatesOnFinishKeeps
<1>3. ASSUME NEW t \in Templates, TemplatesPage!OnEditVCS(t) \/ TemplatesPage!OnDelete(t)
      PROVE  TemplatesInv'
  BY <1>1, <1>3, OnEditTemplateKeeps, TemplatesOnDeleteKeeps
<1>4. ASSUME NEW text \in Ascii, TemplatesPage!HandleClick(text) PROVE TemplatesInv'
  BY <1>1, <1>4, TemplateClickKeeps
<1>5. ASSUME NEW text \in TemplatesPage!Texts, TemplatesPage!Type(text) PROVE TemplatesInv'
  BY <1>1, <1>5, TypeKeeps
<1>6. ASSUME NEW step \in 0 .. 2, TemplatesPage!HandleChange(step) PROVE TemplatesInv'
  BY <1>1, <1>6, HandleChangeKeeps
<1>7. ASSUME NEW s \in page.saves, TemplatesPage!SaveAnswered(s) \/ TemplatesPage!SaveFails(s)
      PROVE  TemplatesInv'
  BY <1>1, <1>7, TemplatesSaveKeeps
<1> QED
  BY <1>2, <1>3, <1>4, <1>5, <1>6, <1>7 DEF TemplatesPage!TemplatesNext
--------------------------------------------------------------------------------
(* The pages whose forms edit items one by one.                             *)
ItemsSpec ==
    /\ Editors!EditorsInit \/ TemplatesPage!TemplatesInit
    /\ [][Editors!EditorsNext \/ TemplatesPage!TemplatesNext]_pageVars

ItemsInv == EditorsInv \/ TemplatesInv

LEMMA ItemsStepInv ==
    ItemsInv /\ [Editors!EditorsNext \/ TemplatesPage!TemplatesNext]_pageVars => ItemsInv'
<1> SUFFICES ASSUME ItemsInv, [Editors!EditorsNext \/ TemplatesPage!TemplatesNext]_pageVars
             PROVE  ItemsInv'
  OBVIOUS
<1>1. CASE UNCHANGED pageVars
  <2>1. EditorsInv => EditorsInv'
    BY <1>1 DEF pageVars, EditorsInv, GetsInv, SavesInv, CreateInv, LoadedInv, ResetInv, On,
                Editors!Is
  <2>2. TemplatesInv => TemplatesInv'
    BY <1>1 DEF pageVars, TemplatesInv, EditorInv, On
  <2> QED
    BY <2>1, <2>2 DEF ItemsInv
<1>2. CASE Editors!EditorsNext
  <2>1. On("editors")
    BY <1>2 DEF Editors!EditorsNext, Editors!On, On
  <2>2. EditorsInv
    BY <2>1 DEF ItemsInv, TemplatesInv, On
  <2> QED
    BY <1>2, <2>2, EditorsStepInv DEF ItemsInv
<1>3. CASE TemplatesPage!TemplatesNext
  <2>1. On("templates")
    BY <1>3 DEF TemplatesPage!TemplatesNext, TemplatesPage!On, On
  <2>2. TemplatesInv
    BY <2>1 DEF ItemsInv, EditorsInv, On
  <2> QED
    BY <1>3, <2>2, TemplatesStepInv DEF ItemsInv
<1> QED
  BY <1>1, <1>2, <1>3

(* The form that edits an item, and the wizard and editor of templates,     *)
(* hold what their next save should carry (Settings/, Variables.tsx).       *)
THEOREM ItemsInvariant == ItemsSpec => []ItemsInv
<1>1. Editors!EditorsInit \/ TemplatesPage!TemplatesInit => ItemsInv
  BY EditorsInitInv, TemplatesInitInv DEF ItemsInv
<1> QED
  BY <1>1, ItemsStepInv, PTL DEF ItemsSpec

(* No edit is saved on another item than it was filled in from, and no      *)
(* template with another text than it had or was given.                     *)
THEOREM EditsStay == ItemsSpec => []EditsReachTheirItem
<1>1. ItemsInv => EditsReachTheirItem
  <2>1. EditorsInv => Editors!EditsReachTheirItem /\ TemplatesPage!TextIsKept
    BY DEF EditorsInv, SavesInv, Editors!EditsReachTheirItem, TemplatesPage!TextIsKept,
           Editors!On, TemplatesPage!On, On
  <2>2. TemplatesInv => Editors!EditsReachTheirItem /\ TemplatesPage!TextIsKept
    BY DEF TemplatesInv, Carries, Editors!EditsReachTheirItem, TemplatesPage!TextIsKept,
           Editors!On, TemplatesPage!On, On
  <2> QED
    BY <2>1, <2>2 DEF ItemsInv, EditsReachTheirItem
<1> QED
  BY <1>1, ItemsInvariant, PTL
--------------------------------------------------------------------------------
(* The page of teams (UiTeams).                                             *)
Flags == SUBSET TeamsPage!Permissions
TeamForm == [role : TeamsPage!Roles, flags : Flags]
TeamRow == [role : TeamsPage!Roles \cup {None, "no row"}, flags : Flags, manageJob : BOOLEAN,
            shown : Flags]
TeamSave == [mode : {"create", "edit"}, id : Teams \cup {None}, role : TeamsPage!Roles,
             flags : Flags, manageJob : BOOLEAN, shown : Flags]

TeamsTyped ==
    [kind : {"teams"}, mode : {"list", "create", "edit"}, list : {"pending", "read"},
     teams : SUBSET Teams, id : Teams \cup {None}, loading : BOOLEAN, form : TeamForm,
     effect : BOOLEAN, switches : Nat, saved : Nat, saves : SUBSET TeamSave]

(* What a save carries, and what a row has of it.                           *)
Granted(r) ==
    r.role = "custom" =>
        r.flags = r.shown /\ r.manageJob = (r.shown \cap TeamsPage!Jobs # {})

(* The effect is for a role, and only what is there is edited.              *)
TeamFormInv ==
    /\ page.effect => page.form.role # "custom"
    /\ page.mode = "list" => ~ page.effect /\ ~ page.loading
    /\ page.loading => page.id \in Teams

TeamsInv ==
    /\ On("teams") \/ On("left")
    /\ On("teams") =>
          /\ page \in TeamsTyped /\ server \in [Teams -> TeamRow]
          /\ TeamFormInv
          /\ \A s \in page.saves : Granted(s)
          /\ \A t \in Teams : Granted(server[t]) /\ (server[t].role = "no row" => server[t] = TeamsPage!NoRow)

LEMMA MatrixTyped ==
    /\ \A role \in TeamsPage!Roles : role # "custom" => TeamsPage!RolePermissionMatrix[role] \in Flags
    /\ "custom" \in TeamsPage!Roles /\ "no row" \notin TeamsPage!Roles
    /\ None \notin TeamsPage!Roles /\ TeamsPage!None = None
    /\ {} \in Flags /\ TeamsPage!Jobs \in Flags
BY DEF TeamsPage!Roles, TeamsPage!RolePermissionMatrix, Flags, TeamsPage!Permissions,
       TeamsPage!Jobs, None, TeamsPage!None

LEMMA BlankTeamForm ==
    TeamsPage!NoForm \in TeamForm /\ TeamsPage!NoForm.role = "custom"
BY MatrixTyped DEF TeamsPage!NoForm, TeamForm

LEMMA NoTeamRow ==
    /\ TeamsPage!NoRow \in TeamRow /\ TeamsPage!NoRow.role = "no row" /\ Granted(TeamsPage!NoRow)
BY MatrixTyped DEF TeamsPage!NoRow, TeamRow, Granted

LEMMA TeamsTypes ==
    ASSUME TeamsInv, On("teams")
    PROVE  /\ page \in TeamsTyped /\ server \in [Teams -> TeamRow]
           /\ page.form \in TeamForm /\ page.form.role \in TeamsPage!Roles
           /\ page.form.flags \in Flags /\ page.saves \subseteq TeamSave
           /\ page.switches \in Nat /\ page.saved \in Nat /\ page.id \in Teams \cup {None}
           /\ page.effect \in BOOLEAN /\ page.loading \in BOOLEAN
BY DEF TeamsInv, TeamsTyped, TeamForm

LEMMA TeamsInitInv == TeamsPage!TeamsInit => TeamsInv
<1> SUFFICES ASSUME TeamsPage!TeamsInit PROVE TeamsInv
  OBVIOUS
<1>1. page = [kind |-> "teams", mode |-> "list", list |-> "pending", teams |-> {},
               id |-> None, loading |-> FALSE, form |-> TeamsPage!NoForm, effect |-> FALSE,
               switches |-> 0, saved |-> 0, saves |-> {}]
  BY MatrixTyped DEF TeamsPage!TeamsInit
<1>2. page \in TeamsTyped
  BY <1>1, BlankTeamForm DEF TeamsTyped
<1>3. page.mode = "list" /\ ~ page.effect /\ ~ page.loading /\ page.saves = {}
  BY <1>1
<1>4. PICK old \in {{}, TeamsPage!Jobs} :
         server = [t \in Teams |->
            IF t \in NewTeams THEN TeamsPage!NoRow
            ELSE [role |-> None, flags |-> old, manageJob |-> old # {}, shown |-> old]]
  BY MatrixTyped DEF TeamsPage!TeamsInit
<1>5. PICK old2 \in BOOLEAN : old2 = (old # {})
  OBVIOUS
<1> DEFINE row == [role |-> None, flags |-> old, manageJob |-> old2, shown |-> old]
<1>6. row \in TeamRow /\ row.role = None
  BY MatrixTyped DEF TeamRow
<1>7. row.role # "custom" /\ row.role # "no row"
  BY <1>6 DEF None
<1>8. server = [t \in Teams |-> IF t \in NewTeams THEN TeamsPage!NoRow ELSE row]
  BY <1>4, <1>5
<1> HIDE DEF row
<1>9. \A t \in Teams : server[t] = TeamsPage!NoRow \/ server[t] = row
  BY <1>8
<1>10. server \in [Teams -> TeamRow]
  BY <1>6, <1>8, NoTeamRow
<1>11. \A t \in Teams : Granted(server[t]) /\ (server[t].role = "no row" => server[t] = TeamsPage!NoRow)
  BY <1>7, <1>9, NoTeamRow DEF Granted
<1> QED
  BY <1>2, <1>3, <1>10, <1>11 DEF TeamsInv, TeamsTyped, On, TeamFormInv

(* A step that stores nothing.                                              *)
LEMMA NothingStored ==
    ASSUME TeamsInv, On("teams"), page' \in TeamsTyped, UNCHANGED server, TeamFormInv',
           page'.saves \subseteq page.saves
    PROVE  TeamsInv'
BY DEF TeamsInv, TeamsTyped, On

LEMMA TeamsListKeeps ==
    ASSUME TeamsInv, On("teams"),
           \/ TeamsPage!TeamsArrive \/ TeamsPage!TeamsFail
           \/ \E s \in page.saves : TeamsPage!SaveFails(s)
    PROVE  TeamsInv'
<1>1. CASE page' = TeamsPage!Elsewhere
  BY <1>1 DEF TeamsInv, On, TeamsPage!Elsewhere
<1>2. CASE page' # TeamsPage!Elsewhere
  <2>1. PICK list \in {"pending", "read"}, teams \in SUBSET Teams, saves \in SUBSET page.saves :
          /\ page' = [page EXCEPT !.list = list, !.teams = teams, !.saves = saves]
          /\ UNCHANGED server
    <3>1. page.list \in {"pending", "read"} /\ page.teams \in SUBSET Teams
      BY TeamsTypes DEF TeamsTyped
    <3>2. CASE TeamsPage!TeamsArrive
      <4> DEFINE there == {t \in Teams : TeamsPage!Exists(t)}
      <4>1. page' = [page EXCEPT !.list = "read", !.teams = there] /\ UNCHANGED server
        BY <3>2 DEF TeamsPage!TeamsArrive, TeamsPage!Change
      <4>2. there \in SUBSET Teams
        OBVIOUS
      <4> HIDE DEF there
      <4>3. page' = [page EXCEPT !.list = "read", !.teams = there, !.saves = page.saves]
        BY <4>1, TeamsTypes DEF TeamsTyped
      <4> QED
        BY <4>1, <4>2, <4>3
    <3>3. CASE TeamsPage!TeamsFail
      <4>1. page' = [page EXCEPT !.list = "read"] /\ UNCHANGED server
        BY <1>2, <3>3 DEF TeamsPage!TeamsFail, TeamsPage!Change
      <4>2. page' = [page EXCEPT !.list = "read", !.teams = page.teams, !.saves = page.saves]
        BY <4>1, TeamsTypes DEF TeamsTyped
      <4> QED
        BY <3>1, <4>1, <4>2
    <3>4. ASSUME NEW s \in page.saves, TeamsPage!SaveFails(s)
          PROVE  /\ UNCHANGED server
                 /\ page' = [page EXCEPT !.list = page.list, !.teams = page.teams,
                                         !.saves = page.saves \ {s}]
      BY <3>4, TeamsTypes DEF TeamsPage!SaveFails, TeamsPage!Change, TeamsTyped
    <3> QED
      BY <3>1, <3>2, <3>3, <3>4
  <2>2. saves \in SUBSET TeamSave
    BY TeamsTypes
  <2>3. /\ page' \in TeamsTyped /\ page'.saves = saves /\ page'.mode = page.mode
        /\ page'.effect = page.effect /\ page'.loading = page.loading /\ page'.id = page.id
        /\ page'.form = page.form
    BY <2>1, <2>2, TeamsTypes DEF TeamsTyped
  <2>4. TeamFormInv'
    BY <2>3 DEF TeamsInv, TeamFormInv
  <2> QED
    BY <2>1, <2>3, <2>4, NothingStored
<1> QED
  BY <1>1, <1>2

LEMMA TeamsOpenKeeps ==
    ASSUME TeamsInv, On("teams"),
           TeamsPage!OnNew \/ (\E t \in Teams : TeamsPage!OnEdit(t))
    PROVE  TeamsInv'
<1>1. CASE TeamsPage!OnNew
  <2>1. page' = [page EXCEPT !.mode = "create", !.form = TeamsPage!NoForm] /\ UNCHANGED server
    BY <1>1 DEF TeamsPage!OnNew, TeamsPage!Change
  <2>2. /\ page' \in TeamsTyped /\ page'.saves = page.saves /\ page'.mode = "create"
        /\ page'.effect = page.effect /\ page'.loading = page.loading /\ page'.id = page.id
    BY <2>1, TeamsTypes, BlankTeamForm DEF TeamsTyped
  <2>3. TeamFormInv'
    BY <1>1, <2>2 DEF TeamsInv, TeamFormInv, TeamsPage!OnNew
  <2> QED
    BY <2>1, <2>2, <2>3, NothingStored
<1>2. ASSUME NEW t \in Teams, TeamsPage!OnEdit(t) PROVE TeamsInv'
  <2>1. /\ page' = [page EXCEPT !.mode = "edit", !.id = t, !.loading = TRUE,
                                !.form = TeamsPage!NoForm]
        /\ UNCHANGED server
    BY <1>2 DEF TeamsPage!OnEdit, TeamsPage!Change
  <2>2. page' \in TeamsTyped
    BY <2>1, TeamsTypes, BlankTeamForm DEF TeamsTyped
  <2>3. page'.saves = page.saves /\ page'.mode = "edit" /\ page'.effect = page.effect /\ page'.id = t
    BY <2>1, TeamsTypes DEF TeamsTyped
  <2>4. TeamFormInv'
    BY <1>2, <2>3 DEF TeamsInv, TeamFormInv, TeamsPage!OnEdit
  <2> QED
    BY <2>1, <2>2, <2>3, <2>4, NothingStored
<1> QED
  BY <1>1, <1>2

LEMMA TeamsLoadKeeps ==
    ASSUME TeamsInv, On("teams"), TeamsPage!LoadTeam \/ TeamsPage!LoadTeamFails
    PROVE  TeamsInv'
<1>1. CASE TeamsPage!LoadTeamFails
  <2>1. page' = [page EXCEPT !.loading = FALSE, !.id = None] /\ UNCHANGED server
    BY <1>1, MatrixTyped DEF TeamsPage!LoadTeamFails, TeamsPage!Change
  <2>2. /\ page' \in TeamsTyped /\ page'.saves = page.saves /\ page'.mode = page.mode
        /\ page'.effect = page.effect /\ page'.form = page.form
    BY <2>1, TeamsTypes DEF TeamsTyped
  <2>3. ~ page'.loading
    BY <2>1, TeamsTypes DEF TeamsTyped
  <2>4. TeamFormInv'
    BY <2>2, <2>3 DEF TeamsInv, TeamFormInv
  <2> QED
    BY <2>1, <2>2, <2>4, NothingStored
<1>2. CASE TeamsPage!LoadTeam
  <2> DEFINE row == server[page.id]
             flags == (row.flags \ TeamsPage!Jobs) \cup (IF row.manageJob THEN TeamsPage!Jobs ELSE {})
             loaded == IF row.role = TeamsPage!None THEN [role |-> "custom", flags |-> flags]
                       ELSE [role |-> row.role, flags |-> row.flags]
  <2>1. page.loading /\ page.id \in Teams /\ row # TeamsPage!NoRow
    BY <1>2 DEF TeamsPage!LoadTeam, TeamsPage!Exists, TeamsInv, TeamFormInv
  <2>2. row \in TeamRow /\ row.role # "no row"
    BY <2>1, TeamsTypes DEF TeamsInv
  <2>3. row.role \in TeamsPage!Roles \cup {None} /\ row.flags \in Flags
    BY <2>2 DEF TeamRow
  <2>4. flags \in Flags
    BY <2>3, MatrixTyped DEF Flags
  <2>5. PICK effect \in BOOLEAN : effect = (row.role \notin {TeamsPage!None, "custom"})
    OBVIOUS
  <2>6. page' = [page EXCEPT !.loading = FALSE, !.effect = effect, !.form = loaded] /\ UNCHANGED server
    BY <1>2, <2>5 DEF TeamsPage!LoadTeam, TeamsPage!Change
  <2> HIDE DEF row, flags
  <2>7. loaded \in TeamForm
    BY <2>3, <2>4, MatrixTyped DEF TeamForm
  <2>8. effect => loaded.role # "custom"
    BY <2>5
  <2> HIDE DEF loaded
  <2>9. /\ page' \in TeamsTyped /\ page'.saves = page.saves /\ page'.mode = page.mode
        /\ page'.effect = effect /\ page'.form = loaded
    BY <2>6, <2>7, TeamsTypes DEF TeamsTyped
  <2>10. ~ page'.loading
    BY <2>6, TeamsTypes DEF TeamsTyped
  <2>11. page.mode # "list"
    BY <2>1 DEF TeamsInv, TeamFormInv
  <2>12. TeamFormInv'
    BY <2>8, <2>9, <2>10, <2>11 DEF TeamFormInv
  <2> QED
    BY <2>6, <2>9, <2>12, NothingStored
<1> QED
  BY <1>1, <1>2

LEMMA TeamsFillKeeps ==
    ASSUME TeamsInv, On("teams"),
           \/ TeamsPage!RoleEffect
           \/ \E role \in TeamsPage!Roles : TeamsPage!ChooseRole(role)
           \/ \E p \in TeamsPage!Permissions : TeamsPage!Switch(p)
    PROVE  TeamsInv'
<1>1. PICK form \in TeamForm, effect \in BOOLEAN, switches \in Nat :
        /\ page' = [page EXCEPT !.form = form, !.effect = effect, !.switches = switches]
        /\ UNCHANGED server /\ page.mode # "list" /\ (effect => form.role # "custom")
  <2>1. CASE TeamsPage!RoleEffect
    <3> DEFINE form == [page.form EXCEPT !.flags = TeamsPage!RolePermissionMatrix[page.form.role]]
    <3>1. page.effect /\ page.mode # "list" /\ page.form.role # "custom"
      BY <2>1 DEF TeamsPage!RoleEffect, TeamsInv, TeamFormInv
    <3>2. form \in TeamForm
      BY <3>1, TeamsTypes, MatrixTyped DEF TeamForm
    <3>3. page' = [page EXCEPT !.form = form, !.effect = FALSE] /\ UNCHANGED server
      BY <2>1, TeamsTypes DEF TeamsPage!RoleEffect, TeamsPage!Change, TeamsTyped
    <3> HIDE DEF form
    <3>4. page' = [page EXCEPT !.form = form, !.effect = FALSE, !.switches = page.switches]
      BY <3>3, TeamsTypes DEF TeamsTyped
    <3> QED
      BY <3>1, <3>2, <3>3, <3>4, TeamsTypes
  <2>2. ASSUME NEW role \in TeamsPage!Roles, TeamsPage!ChooseRole(role)
        PROVE  \E form \in TeamForm, effect \in BOOLEAN, switches \in Nat :
                 /\ page' = [page EXCEPT !.form = form, !.effect = effect, !.switches = switches]
                 /\ UNCHANGED server /\ page.mode # "list" /\ (effect => form.role # "custom")
    <3> DEFINE form == [page.form EXCEPT !.role = role]
    <3>1. PICK effect \in BOOLEAN : effect = (role # "custom")
      OBVIOUS
    <3>2. PICK switches \in Nat : switches = page.switches + 1
      BY TeamsTypes
    <3>3. form \in TeamForm /\ form.role = role
      BY TeamsTypes DEF TeamForm
    <3>4. page' = [page EXCEPT !.form = form, !.effect = effect, !.switches = switches] /\ UNCHANGED server
      BY <2>2, <3>1, <3>2, TeamsTypes DEF TeamsPage!ChooseRole, TeamsPage!Change, TeamsTyped
    <3>5. page.mode # "list"
      BY <2>2 DEF TeamsPage!ChooseRole, TeamsPage!FormShown
    <3> HIDE DEF form
    <3> QED
      BY <3>1, <3>3, <3>4, <3>5
  <2>3. ASSUME NEW p \in TeamsPage!Permissions, TeamsPage!Switch(p)
        PROVE  \E form \in TeamForm, effect \in BOOLEAN, switches \in Nat :
                 /\ page' = [page EXCEPT !.form = form, !.effect = effect, !.switches = switches]
                 /\ UNCHANGED server /\ page.mode # "list" /\ (effect => form.role # "custom")
    <3>1. PICK flags \in Flags :
            flags = IF p \in page.form.flags THEN page.form.flags \ {p} ELSE page.form.flags \cup {p}
      BY TeamsTypes DEF Flags
    <3> DEFINE form == [page.form EXCEPT !.flags = flags]
    <3>2. PICK switches \in Nat : switches = page.switches + 1
      BY TeamsTypes
    <3>3. form \in TeamForm
      BY TeamsTypes DEF TeamForm
    <3>4. page' = [page EXCEPT !.form = form, !.switches = switches] /\ UNCHANGED server
      BY <2>3, <3>1, <3>2, TeamsTypes DEF TeamsPage!Switch, TeamsPage!Change, TeamsTyped, TeamForm
    <3>5. page.mode # "list" /\ ~ page.effect
      BY <2>3 DEF TeamsPage!Switch, TeamsPage!FormShown
    <3> HIDE DEF form
    <3>6. page' = [page EXCEPT !.form = form, !.effect = FALSE, !.switches = switches]
      BY <3>4, <3>5, TeamsTypes DEF TeamsTyped
    <3> QED
      BY <3>3, <3>4, <3>5, <3>6
  <2> QED
    BY <2>1, <2>2, <2>3
<1>2. /\ page' \in TeamsTyped /\ page'.saves = page.saves /\ page'.mode = page.mode
      /\ page'.effect = effect /\ page'.loading = page.loading /\ page'.id = page.id
      /\ page'.form = form
  BY <1>1, TeamsTypes DEF TeamsTyped
<1>3. TeamFormInv'
  BY <1>1, <1>2 DEF TeamsInv, TeamFormInv
<1> QED
  BY <1>1, <1>2, <1>3, NothingStored

LEMMA BackToList ==
    ASSUME TeamsInv, On("teams")
    PROVE  LET q == TeamsPage!ToList(page) IN
           /\ q \in TeamsTyped /\ q.mode = "list" /\ q.saves = page.saves
           /\ ~ q.effect /\ ~ q.loading
<1> DEFINE q == TeamsPage!ToList(page)
<1>1. q = [page EXCEPT !.mode = "list", !.loading = FALSE, !.effect = FALSE,
                       !.form = TeamsPage!NoForm]
  BY DEF TeamsPage!ToList
<1> HIDE DEF q
<1>2. q \in TeamsTyped /\ q.mode = "list" /\ q.saves = page.saves
  BY <1>1, TeamsTypes, BlankTeamForm DEF TeamsTyped
<1>3. ~ q.effect /\ ~ q.loading
  BY <1>1, TeamsTypes DEF TeamsTyped
<1>4. q \in TeamsTyped /\ q.mode = "list" /\ q.saves = page.saves /\ ~ q.effect /\ ~ q.loading
  BY <1>2, <1>3
<1> USE DEF q
<1> QED
  BY <1>4

LEMMA TeamsCancelKeeps == ASSUME TeamsInv, On("teams"), TeamsPage!OnCancel PROVE TeamsInv'
<1>1. page' = TeamsPage!ToList(page) /\ UNCHANGED server
  BY DEF TeamsPage!OnCancel, TeamsPage!Change
<1>2. /\ page' \in TeamsTyped /\ page'.mode = "list" /\ page'.saves = page.saves
      /\ ~ page'.effect /\ ~ page'.loading
  BY <1>1, BackToList
<1>3. TeamFormInv'
  BY <1>2 DEF TeamFormInv
<1> QED
  BY <1>1, <1>2, <1>3, NothingStored

LEMMA TeamsFinishKeeps == ASSUME TeamsInv, On("teams"), TeamsPage!OnFinish PROVE TeamsInv'
<1>1. page.mode \in {"create", "edit"}
  BY DEF TeamsPage!OnFinish, TeamsPage!FormShown
<1>2. PICK fields \in Flags :
        fields = IF page.form.role = "custom" THEN page.form.flags ELSE {}
  BY TeamsTypes, MatrixTyped
<1>3. PICK shown \in Flags : shown = TeamsPage!Shown
  BY TeamsTypes, MatrixTyped DEF TeamsPage!Shown
<1>4. PICK manageJob \in BOOLEAN : manageJob = (fields \cap TeamsPage!Jobs # {})
  OBVIOUS
<1>5. PICK saved \in Nat : saved = page.saved + 1
  BY TeamsTypes
<1> DEFINE s == [mode |-> page.mode, id |-> page.id, role |-> page.form.role, flags |-> fields,
                 manageJob |-> manageJob, shown |-> shown]
           saves == page.saves \cup {s}
<1>6. page' = [page EXCEPT !.saved = saved, !.saves = saves] /\ UNCHANGED server
  BY <1>2, <1>3, <1>4, <1>5 DEF TeamsPage!OnFinish, TeamsPage!Change
<1>7. /\ s \in TeamSave /\ s.role = page.form.role /\ s.flags = fields
      /\ s.manageJob = manageJob /\ s.shown = shown
  BY <1>1, TeamsTypes DEF TeamSave
<1> HIDE DEF s
<1>8. Granted(s)
  <2> SUFFICES ASSUME page.form.role = "custom" PROVE fields = shown /\ manageJob = (shown \cap TeamsPage!Jobs # {})
    BY <1>7 DEF Granted
  <2>1. fields = shown
    BY <1>2, <1>3 DEF TeamsPage!Shown
  <2> QED
    BY <1>4, <2>1
<1>9. saves \in SUBSET TeamSave /\ \A r \in saves : r = s \/ r \in page.saves
  BY <1>7, TeamsTypes
<1> HIDE DEF saves
<1>10. /\ page' \in TeamsTyped /\ page'.saves = saves /\ page'.mode = page.mode
       /\ page'.effect = page.effect /\ page'.loading = page.loading /\ page'.id = page.id
       /\ page'.form = page.form
  BY <1>6, <1>9, TeamsTypes DEF TeamsTyped
<1>11. TeamFormInv'
  BY <1>10 DEF TeamsInv, TeamFormInv
<1>12. \A r \in page'.saves : Granted(r)
  BY <1>8, <1>9, <1>10 DEF TeamsInv
<1> QED
  BY <1>6, <1>10, <1>11, <1>12 DEF TeamsInv, TeamsTyped, On

(* What is stored is NoRow or of the form of a row, and granted as shown.   *)
LEMMA RowStored ==
    ASSUME TeamsInv, On("teams"), NEW row \in TeamRow, Granted(row),
           row.role = "no row" => row = TeamsPage!NoRow, NEW t,
           server' = [server EXCEPT ![t] = row]
    PROVE  /\ server' \in [Teams -> TeamRow]
           /\ \A u \in Teams : Granted(server'[u])
                               /\ (server'[u].role = "no row" => server'[u] = TeamsPage!NoRow)
<1>1. server \in [Teams -> TeamRow]
  BY TeamsTypes
<1>2. \A u \in Teams : server'[u] = row \/ server'[u] = server[u]
  BY <1>1
<1>3. server' \in [Teams -> TeamRow]
  BY <1>1
<1> QED
  BY <1>2, <1>3 DEF TeamsInv

LEMMA TeamsDeleteKeeps ==
    ASSUME TeamsInv, On("teams"), NEW t \in Teams, TeamsPage!OnDelete(t) PROVE TeamsInv'
<1>1. page' = [page EXCEPT !.list = "pending"] /\ server' = [server EXCEPT ![t] = TeamsPage!NoRow]
  BY DEF TeamsPage!OnDelete
<1>2. /\ page' \in TeamsTyped /\ page'.saves = page.saves /\ page'.mode = page.mode
      /\ page'.effect = page.effect /\ page'.loading = page.loading /\ page'.id = page.id
      /\ page'.form = page.form
  BY <1>1, TeamsTypes DEF TeamsTyped
<1>3. TeamFormInv'
  BY <1>2 DEF TeamsInv, TeamFormInv
<1>4. /\ server' \in [Teams -> TeamRow]
      /\ \A u \in Teams : Granted(server'[u])
                          /\ (server'[u].role = "no row" => server'[u] = TeamsPage!NoRow)
  BY <1>1, NoTeamRow, RowStored
<1> QED
  BY <1>2, <1>3, <1>4 DEF TeamsInv, TeamsTyped, On

LEMMA TeamsAnswerKeeps ==
    ASSUME TeamsInv, On("teams"), NEW s \in page.saves, TeamsPage!SaveAnswered(s) PROVE TeamsInv'
<1> DEFINE q == TeamsPage!ToList(page)
<1>1. /\ q \in TeamsTyped /\ q.mode = "list" /\ q.saves = page.saves
      /\ ~ q.effect /\ ~ q.loading
  BY BackToList
<1>2. page' = [q EXCEPT !.saves = @ \ {s}, !.list = "pending"]
  BY DEF TeamsPage!SaveAnswered
<1> HIDE DEF q
<1>3. page.saves \ {s} \in SUBSET TeamSave /\ s \in TeamSave /\ Granted(s)
  BY TeamsTypes DEF TeamsInv
<1>4. /\ page' \in TeamsTyped /\ page'.saves = page.saves \ {s} /\ page'.mode = "list"
      /\ page'.effect = q.effect /\ page'.loading = q.loading
  BY <1>1, <1>2, <1>3 DEF TeamsTyped
<1>5. TeamFormInv'
  BY <1>1, <1>4 DEF TeamFormInv
<1>6. ASSUME NEW old \in Flags
      PROVE  /\ TeamsPage!Row(s, old) \in TeamRow /\ Granted(TeamsPage!Row(s, old))
             /\ TeamsPage!Row(s, old).role # "no row"
  <2>1. PICK flags \in Flags : flags = IF s.role = "custom" THEN s.flags ELSE old
    BY <1>3 DEF TeamSave
  <2>2. TeamsPage!Row(s, old) = [role |-> s.role, manageJob |-> s.manageJob, shown |-> s.shown, flags |-> flags]
    BY <2>1 DEF TeamsPage!Row
  <2>3. TeamsPage!Row(s, old) \in TeamRow /\ TeamsPage!Row(s, old).role = s.role
    <3>1. s.role \in TeamsPage!Roles /\ s.manageJob \in BOOLEAN /\ s.shown \in Flags
      BY <1>3 DEF TeamSave
    <3> DEFINE row == [role |-> s.role, flags |-> flags, manageJob |-> s.manageJob, shown |-> s.shown]
    <3>2. row \in TeamRow
      BY <3>1 DEF TeamRow
    <3>3. TeamsPage!Row(s, old) = row /\ row.role = s.role
      BY <2>2
    <3> QED
      BY <3>2, <3>3
  <2>4. s.role # "no row"
    BY <1>3, MatrixTyped DEF TeamSave
  <2>5. Granted(TeamsPage!Row(s, old))
    BY <1>3, <2>1, <2>2 DEF Granted
  <2> QED
    BY <2>3, <2>4, <2>5
<1>7. \E t : \E row \in TeamRow : /\ Granted(row) /\ row.role # "no row"
                                  /\ server' = [server EXCEPT ![t] = row]
  <2>1. CASE s.mode = "edit"
    <3>1. server' = [server EXCEPT ![s.id] = TeamsPage!Row(s, @.flags)] /\ s.id \in Teams \cup {None}
      BY <1>3, <2>1 DEF TeamsPage!SaveAnswered, TeamSave
    <3>2. CASE s.id \in Teams
      <4>1. server[s.id].flags \in Flags
        BY <3>2, TeamsTypes DEF TeamRow
      <4>2. server' = [server EXCEPT ![s.id] = TeamsPage!Row(s, server[s.id].flags)]
        BY <3>1
      <4> QED
        BY <1>6, <4>1, <4>2
    <3>3. CASE s.id \notin Teams
      <4>1. server' = server
        BY <3>1, <3>3, TeamsTypes
      <4>2. server = [server EXCEPT ![s.id] = TeamsPage!Row(s, {})]
        BY <3>3, TeamsTypes
      <4> QED
        BY <1>6, <4>1, <4>2, MatrixTyped
    <3> QED
      BY <3>2, <3>3
  <2>2. CASE s.mode # "edit"
    BY <1>6, <2>2, MatrixTyped DEF TeamsPage!SaveAnswered
  <2> QED
    BY <2>1, <2>2
<1>8. /\ server' \in [Teams -> TeamRow]
      /\ \A u \in Teams : Granted(server'[u])
                          /\ (server'[u].role = "no row" => server'[u] = TeamsPage!NoRow)
  BY <1>7, RowStored
<1>9. \A r \in page'.saves : Granted(r)
  BY <1>4 DEF TeamsInv
<1> QED
  BY <1>4, <1>5, <1>8, <1>9 DEF TeamsInv, TeamsTyped, On

LEMMA TeamsStepInv == TeamsInv /\ TeamsPage!TeamsNext => TeamsInv'
<1> SUFFICES ASSUME TeamsInv, TeamsPage!TeamsNext PROVE TeamsInv'
  OBVIOUS
<1>1. On("teams")
  BY DEF TeamsPage!TeamsNext, TeamsPage!On, On
<1>2. CASE \/ TeamsPage!TeamsArrive \/ TeamsPage!TeamsFail \/ TeamsPage!OnNew
           \/ TeamsPage!LoadTeam \/ TeamsPage!LoadTeamFails \/ TeamsPage!RoleEffect
           \/ TeamsPage!OnFinish \/ TeamsPage!OnCancel
  BY <1>1, <1>2, TeamsListKeeps, TeamsOpenKeeps, TeamsLoadKeeps, TeamsFillKeeps,
     TeamsFinishKeeps, TeamsCancelKeeps
<1>3. ASSUME NEW t \in Teams, TeamsPage!OnEdit(t) \/ TeamsPage!OnDelete(t) PROVE TeamsInv'
  BY <1>1, <1>3, TeamsOpenKeeps, TeamsDeleteKeeps
<1>4. ASSUME NEW role \in TeamsPage!Roles, TeamsPage!ChooseRole(role) PROVE TeamsInv'
  BY <1>1, <1>4, TeamsFillKeeps
<1>5. ASSUME NEW p \in TeamsPage!Permissions, TeamsPage!Switch(p) PROVE TeamsInv'
  BY <1>1, <1>5, TeamsFillKeeps
<1>6. ASSUME NEW s \in page.saves, TeamsPage!SaveAnswered(s) \/ TeamsPage!SaveFails(s)
      PROVE  TeamsInv'
  BY <1>1, <1>6, TeamsAnswerKeeps, TeamsListKeeps
<1> QED
  BY <1>2, <1>3, <1>4, <1>5, <1>6 DEF TeamsPage!TeamsNext
--------------------------------------------------------------------------------
(* The form of a federated credential (UiCredential), for the states p of   *)
(* the page and v of what is stored.                                        *)
Demanded == Credential!Demands \cup {"others"}
ClaimRow == [id : Nat, demand : Demanded]
StoredClaim == [cred : Nat, id : Nat \ {0}, demand : Demanded]
ClaimRequest == [verb : {"delete", "create", "update"}, row : ClaimRow]
ClaimsSave ==
    [stage : {"credential", "read", "delete", "create", "update", "failed"}, cred : Nat,
     shown : SUBSET ClaimRow, existing : SUBSET StoredClaim, out : SUBSET ClaimRequest,
     overtaken : BOOLEAN, unread : BOOLEAN]
CredentialPage ==
    [kind : {"credential"}, mode : {"edit", "create"}, claims : SUBSET ClaimRow,
     saves : Seq(ClaimsSave), load : {"pending", "none", "loaded", "failed"}]
CredentialStore ==
    [credentials : Nat, claims : SUBSET StoredClaim, nextId : Nat \ {0}, othersDeleted : SUBSET Nat,
     othersActed : BOOLEAN]

ClaimsOf(v, cred) == {c \in v.claims : c.cred = cred}
RowIds(rows) == {r.id : r \in rows}

(* Ids are given once, and do not come back.                                *)
StoreInv(v) ==
    /\ IsFiniteSet(v.claims)
    /\ \A c \in v.claims :
          /\ c.id < v.nextId /\ c.id \notin v.othersDeleted
          /\ \A d \in v.claims : c.id = d.id => c = d
    /\ \A id \in v.othersDeleted : id < v.nextId /\ id # 0

(* Rows of a table: ids and demands are unique, and a row whose claim       *)
(* nobody else touched demands what the claim does.                         *)
RowsInv(p, v, rows) ==
    /\ \A r, q \in rows : r.demand = q.demand \/ (r.id = q.id /\ r.id # 0) => r = q
    /\ \A r \in rows : r.id < v.nextId /\ (p.mode = "create" => r.id = 0)
    /\ ~ v.othersActed => \A r \in rows : \A c \in v.claims : c.id = r.id => c.demand = r.demand

(* The rows of stored claims are there, unless another user deleted them.   *)
Present(v, rows) ==
    \A r \in rows : r.id # 0 => r.id \in v.othersDeleted \/ \E c \in ClaimsOf(v, 1) : c.id = r.id

(* Before the table is there, nothing is saved and no two claims are alike. *)
LoadInv(p, v) ==
    p.load = "pending" =>
        /\ DOMAIN p.saves = {} /\ p.claims = {} /\ p.mode = "edit"
        /\ \A c, d \in v.claims : c.demand = d.demand => c = d
        /\ ~ v.othersActed => \A c \in v.claims : c.demand # "others"

(* What any save has out: it deletes nothing that is in the table, and      *)
(* updates only what others changed.                                        *)
OutInv(p, v, s) ==
    \A a \in s.out :
        /\ a.verb = "delete" => a.row.id # 0 /\ a.row.id \notin RowIds(p.claims)
        /\ a.verb = "update" => v.othersActed

(* A save that did not fail: its table has what the page's has of stored    *)
(* claims, and what is out belongs to its stage.                            *)
GoingInv(p, v, s) ==
    /\ RowsInv(p, v, s.shown)
    /\ \A r \in p.claims : r.id # 0 => r \in s.shown
    /\ p.mode = "edit" => s.cred = 1
    /\ s.stage \in {"credential", "read"} => s.out = {} /\ s.existing = {} /\ ~ s.unread
    /\ \A c \in s.existing : c.id < v.nextId
    /\ ~ v.othersActed => \A r \in s.shown : \A c \in s.existing : c.id = r.id => c.demand = r.demand
    /\ \A a \in s.out :
          /\ a.verb = s.stage
          /\ a.verb = "delete" => a.row.id \notin RowIds(s.shown)
          /\ a.verb = "create" => a.row \in s.shown /\ a.row.id = 0
          /\ a.verb = "update" => a.row \in s.shown /\ a.row.id # 0

(* Where a save that nobody came between has got: of the claims it read     *)
(* those of its table are stored, and the rest is still to be deleted; a    *)
(* claim it added has the demand of one new row, whose request is answered; *)
(* and in the end each row has its claim, or its update is out.             *)
RowFor(s, r) == Credential!Request("create", r) \notin s.out
ReadKept(s) == {c \in s.existing : c.id \in RowIds(s.shown)}
Added(s, c) == c.id \notin RowIds(s.shown)

DeletesInv(v, s) ==
    /\ ReadKept(s) \subseteq ClaimsOf(v, s.cred)
    /\ \A c \in ClaimsOf(v, s.cred) :
          c \in ReadKept(s) \/ Credential!Request("delete", Credential!RowOf(c)) \in s.out

CreatesInv(v, s) ==
    /\ ReadKept(s) \subseteq ClaimsOf(v, s.cred)
    /\ \A c \in ClaimsOf(v, s.cred) :
          \/ c \in ReadKept(s)
          \/ Added(s, c) /\ \E r \in s.shown : r.id = 0 /\ r.demand = c.demand /\ RowFor(s, r)

UpdatesInv(v, s) ==
    \A c \in ClaimsOf(v, s.cred) :
       \/ \E r \in s.shown :
            r.id = c.id /\ (r.demand = c.demand \/ Credential!Request("update", r) \in s.out)
       \/ Added(s, c) /\ \E r \in s.shown : r.id = 0 /\ r.demand = c.demand

AddedOnce(v, s) ==
    \A c, d \in ClaimsOf(v, s.cred) :
        Added(s, c) /\ Added(s, d) /\ c.demand = d.demand => c = d

AddedAll(v, s) ==
    \A r \in s.shown : r.id = 0 /\ RowFor(s, r) =>
        \E c \in ClaimsOf(v, s.cred) : Added(s, c) /\ c.demand = r.demand

AloneInv(v, s) ==
    /\ Present(v, s.shown)
    /\ s.stage \in {"create", "update"} => AddedAll(v, s)
    /\ ~ s.unread =>
          /\ s.stage = "delete" => DeletesInv(v, s)
          /\ s.stage = "create" => CreatesInv(v, s) /\ AddedOnce(v, s)
          /\ s.stage = "update" => UpdatesInv(v, s) /\ AddedOnce(v, s)

Going(s) == s.stage # "failed"
Alone(s) == Going(s) /\ ~ s.overtaken

SaveInv(p, v, s) ==
    /\ OutInv(p, v, s)
    /\ Going(s) => GoingInv(p, v, s)
    /\ Alone(s) => AloneInv(v, s)

FormInv(p, v) ==
    /\ p \in CredentialPage /\ v \in CredentialStore
    /\ StoreInv(v) /\ RowsInv(p, v, p.claims) /\ Present(v, p.claims) /\ LoadInv(p, v)
    /\ \A k \in DOMAIN p.saves : SaveInv(p, v, p.saves[k])
    /\ \A k, j \in DOMAIN p.saves : Alone(p.saves[k]) /\ j # k => ~ Credential!Busy(p.saves[j])

CredentialInv ==
    /\ On("credential") \/ On("credentialSaved")
    /\ On("credential") => FormInv(page, server)
    /\ On("credentialSaved") => Credential!ClaimsAsShown

LEMMA SaveTypes ==
    ASSUME NEW s \in ClaimsSave
    PROVE  /\ s.shown \subseteq ClaimRow /\ s.existing \subseteq StoredClaim
           /\ s.out \subseteq ClaimRequest
           /\ s.cred \in Nat /\ s.overtaken \in BOOLEAN /\ s.unread \in BOOLEAN
           /\ s.stage \in {"credential", "read", "delete", "create", "update", "failed"}
BY DEF ClaimsSave

LEMMA FormTypes ==
    ASSUME NEW p \in CredentialPage, NEW v \in CredentialStore
    PROVE  /\ p.kind = "credential" /\ p.mode \in {"edit", "create"} /\ p.claims \subseteq ClaimRow
           /\ p.saves \in Seq(ClaimsSave) /\ DOMAIN p.saves = 1 .. Len(p.saves) /\ Len(p.saves) \in Nat
           /\ \A k \in DOMAIN p.saves : p.saves[k] \in ClaimsSave
           /\ p.load \in {"pending", "none", "loaded", "failed"}
           /\ v.credentials \in Nat /\ v.claims \subseteq StoredClaim /\ v.nextId \in Nat \ {0}
           /\ v.othersDeleted \subseteq Nat /\ v.othersActed \in BOOLEAN
<1>1. p.saves \in Seq(ClaimsSave)
  BY DEF CredentialPage
<1>2. p.saves \in [1 .. Len(p.saves) -> ClaimsSave] /\ Len(p.saves) \in Nat
  BY <1>1, LenProperties
<1> QED
  BY <1>1, <1>2 DEF CredentialPage, CredentialStore

(* The page's module has its own instance of FiniteSets.                    *)
LEMMA SameCardinality == ASSUME NEW S PROVE Credential!Cardinality(S) = Cardinality(S)
BY DEF Credential!Cardinality, Cardinality

LEMMA CredentialInitInv == Credential!CredentialInit => CredentialInv
<1> SUFFICES ASSUME Credential!CredentialInit PROVE CredentialInv
  OBVIOUS
<1>1. PICK mode \in {"edit", "create"}, load \in {"pending", "none"},
           stored \in {DOMAIN Conditions, {}}, credentials \in {0, 1} :
        /\ stored = (IF mode = "edit" THEN DOMAIN Conditions ELSE {})
        /\ load = (IF mode = "edit" THEN "pending" ELSE "none")
        /\ page = [kind |-> "credential", mode |-> mode, claims |-> {}, saves |-> <<>>, load |-> load]
        /\ server = [credentials |-> credentials,
                     claims |-> {Credential!Claim(1, k, Conditions[k]) : k \in stored},
                     nextId |-> Cardinality(stored) + 1,
                     othersDeleted |-> {}, othersActed |-> FALSE]
  <2>1. PICK mode \in {"edit", "create"} :
          LET stored == IF mode = "edit" THEN DOMAIN Conditions ELSE {} IN
          /\ page = [kind |-> "credential", mode |-> mode, claims |-> {}, saves |-> <<>>,
                     load |-> IF mode = "edit" THEN "pending" ELSE "none"]
          /\ server = [credentials |-> IF mode = "edit" THEN 1 ELSE 0,
                       claims |-> {Credential!Claim(1, k, Conditions[k]) : k \in stored},
                       nextId |-> Cardinality(stored) + 1,
                       othersDeleted |-> {}, othersActed |-> FALSE]
    BY SameCardinality DEF Credential!CredentialInit
  <2>2. CASE mode = "edit"
    BY <2>1, <2>2
  <2>3. CASE mode = "create"
    BY <2>1, <2>3
  <2> QED
    BY <2>2, <2>3
<1>2. /\ DOMAIN Conditions = 1 .. Len(Conditions) /\ Len(Conditions) \in Nat
      /\ \A i, j \in DOMAIN Conditions : Conditions[i] = Conditions[j] => i = j
      /\ \A i \in DOMAIN Conditions : Conditions[i] # "others"
      /\ \A i \in DOMAIN Conditions : Conditions[i] \in Demanded
  <2>1. Conditions \in Seq(STRING)
    BY SettingsAssumption
  <2>2. DOMAIN Conditions = 1 .. Len(Conditions) /\ Len(Conditions) \in Nat
    BY <2>1, LenProperties
  <2>3. \A i \in DOMAIN Conditions : Conditions[i] \in Credential!Demands
    BY DEF Credential!Demands
  <2> QED
    BY <2>2, <2>3, SettingsAssumption DEF Demanded
<1>3. /\ IsFiniteSet(stored) /\ Cardinality(stored) \in Nat
      /\ \A k \in stored : k \in Nat \ {0} /\ k < Cardinality(stored) + 1
  <2>1. CASE stored = {}
    BY <2>1, FS_EmptySet
  <2>2. CASE stored = 1 .. Len(Conditions)
    <3>1. /\ IsFiniteSet(1 .. Len(Conditions))
          /\ Cardinality(1 .. Len(Conditions)) = IF 1 > Len(Conditions) THEN 0 ELSE Len(Conditions) - 1 + 1
      BY <1>2, FS_Interval
    <3> QED
      BY <1>2, <2>2, <3>1
  <2> QED
    BY <1>1, <1>2, <2>1, <2>2
<1> DEFINE claims == {Credential!Claim(1, k, Conditions[k]) : k \in stored}
           claim == [k \in stored |-> Credential!Claim(1, k, Conditions[k])]
<1>5. IsFiniteSet(claims)
  <2>1. claim \in Surjection(stored, claims)
    BY DEF Surjection
  <2> QED
    BY <1>3, <2>1, FS_Surjection
<1>6. \A c \in claims :
         /\ c \in StoredClaim /\ c.id \in stored /\ c.demand = Conditions[c.id] /\ c.cred = 1
         /\ c = Credential!Claim(1, c.id, Conditions[c.id])
  <2> SUFFICES ASSUME NEW k \in stored
               PROVE  LET c == Credential!Claim(1, k, Conditions[k]) IN
                      /\ c \in StoredClaim /\ c.id \in stored /\ c.demand = Conditions[c.id] /\ c.cred = 1
                      /\ c = Credential!Claim(1, c.id, Conditions[c.id])
    OBVIOUS
  <2>1. k \in Nat \ {0} /\ Conditions[k] \in Demanded
    BY <1>1, <1>2, <1>3
  <2> QED
    BY <2>1 DEF Credential!Claim, StoredClaim
<1> HIDE DEF claims, claim
<1>7. \A c, d \in claims : c.id = d.id \/ c.demand = d.demand => c = d
  <2>1. stored \subseteq DOMAIN Conditions
    BY <1>1
  <2> QED
    BY <1>2, <1>6, <2>1
<1>8. PICK nextId \in Nat \ {0} : nextId = Cardinality(stored) + 1
  BY <1>3
<1>9. page = [kind |-> "credential", mode |-> mode, claims |-> {}, saves |-> <<>>, load |-> load]
  BY <1>1
<1>10. server = [credentials |-> credentials, claims |-> claims, nextId |-> nextId,
                 othersDeleted |-> {}, othersActed |-> FALSE]
  BY <1>1, <1>8 DEF claims
<1>11. /\ page.kind = "credential" /\ page.mode = mode /\ page.claims = {} /\ DOMAIN page.saves = {}
       /\ page.load = load /\ page \in CredentialPage
  BY <1>9 DEF CredentialPage
<1>12. server.claims = claims /\ server.nextId = nextId /\ server.othersDeleted = {}
  BY <1>10
<1>13. server \in CredentialStore
  <2>1. claims \subseteq StoredClaim
    BY <1>6
  <2> QED
    BY <1>10, <2>1 DEF CredentialStore
<1>14. StoreInv(server)
  BY <1>3, <1>5, <1>6, <1>7, <1>8, <1>12 DEF StoreInv
<1>15. LoadInv(page, server)
  <2>1. \A c \in claims : c.demand # "others"
    BY <1>1, <1>2, <1>6
  <2> QED
    BY <1>1, <1>7, <1>11, <1>12, <2>1 DEF LoadInv
<1>16. RowsInv(page, server, page.claims) /\ Present(server, page.claims)
  BY <1>11 DEF RowsInv, Present
<1> QED
  BY <1>11, <1>13, <1>14, <1>15, <1>16 DEF CredentialInv, FormInv, On

(* What the page and the store have of a save depends on some fields only.  *)
LEMMA SaveStays ==
    ASSUME NEW p, NEW q, NEW v, NEW w, NEW s, SaveInv(p, v, s),
           q.claims = p.claims, q.mode = p.mode, w.claims = v.claims, w.nextId = v.nextId,
           w.othersDeleted = v.othersDeleted, w.othersActed = v.othersActed
    PROVE  SaveInv(q, w, s)
<1>1. \A cred : ClaimsOf(w, cred) = ClaimsOf(v, cred)
  BY DEF ClaimsOf
<1>2. OutInv(q, w, s)
  BY DEF SaveInv, OutInv, RowIds
<1>3. ASSUME Going(s) PROVE GoingInv(q, w, s)
  BY <1>3 DEF SaveInv, GoingInv, RowsInv
<1>4. ASSUME Alone(s) PROVE AloneInv(w, s)
  <2>1. AloneInv(v, s)
    BY <1>4 DEF SaveInv
  <2> QED
    BY <1>1, <2>1 DEF AloneInv, Present, AddedAll, DeletesInv, CreatesInv, UpdatesInv, AddedOnce
<1> QED
  BY <1>2, <1>3, <1>4 DEF SaveInv

(* The next state of the page when one of its saves is.                     *)
LEMMA SavesOf ==
    ASSUME NEW p \in CredentialPage, NEW k \in DOMAIN p.saves, NEW s \in ClaimsSave, NEW q,
           q = [p EXCEPT !.saves[k] = s]
    PROVE  /\ q \in CredentialPage /\ DOMAIN q.saves = DOMAIN p.saves
           /\ q.saves[k] = s /\ (\A j \in DOMAIN p.saves : j # k => q.saves[j] = p.saves[j])
           /\ q.claims = p.claims /\ q.mode = p.mode /\ q.load = p.load /\ q.kind = p.kind
<1> DEFINE saves == [p.saves EXCEPT ![k] = s]
<1>1. p.saves \in Seq(ClaimsSave)
  BY DEF CredentialPage
<1>2. k \in 1 .. Len(p.saves)
  BY <1>1, LenProperties
<1>3. saves \in Seq(ClaimsSave)
  BY <1>1, <1>2, ExceptSeq
<1>4. /\ DOMAIN saves = DOMAIN p.saves /\ saves[k] = s
      /\ \A j \in DOMAIN p.saves : j # k => saves[j] = p.saves[j]
  BY <1>1
<1>5. q = [p EXCEPT !.saves = saves]
  BY DEF CredentialPage
<1> HIDE DEF saves
<1>6. /\ q \in CredentialPage /\ q.saves = saves
      /\ q.claims = p.claims /\ q.mode = p.mode /\ q.load = p.load /\ q.kind = p.kind
  BY <1>3, <1>5 DEF CredentialPage
<1> QED
  BY <1>4, <1>6

(* A step of one save that stores no claim.                                 *)
LEMMA OneSave ==
    ASSUME NEW p, NEW v, FormInv(p, v), NEW k \in DOMAIN p.saves, NEW s \in ClaimsSave,
           NEW q, q = [p EXCEPT !.saves[k] = s],
           NEW w \in CredentialStore, w.claims = v.claims, w.nextId = v.nextId,
           w.othersDeleted = v.othersDeleted, w.othersActed = v.othersActed,
           SaveInv(p, v, s), Alone(s) => Alone(p.saves[k]),
           Credential!Busy(s) => Credential!Busy(p.saves[k])
    PROVE  FormInv(q, w)
<1>1. p \in CredentialPage
  BY DEF FormInv
<1>2. /\ q \in CredentialPage /\ DOMAIN q.saves = DOMAIN p.saves
      /\ q.saves[k] = s /\ (\A j \in DOMAIN p.saves : j # k => q.saves[j] = p.saves[j])
      /\ q.claims = p.claims /\ q.mode = p.mode /\ q.load = p.load
  BY <1>1, SavesOf
<1>3. StoreInv(w)
  BY DEF FormInv, StoreInv
<1>4. RowsInv(q, w, q.claims)
  BY <1>2 DEF FormInv, RowsInv
<1>5. Present(w, q.claims)
  BY <1>2 DEF FormInv, Present, ClaimsOf
<1>6. LoadInv(q, w)
  BY <1>2 DEF FormInv, LoadInv
<1>7. ASSUME NEW j \in DOMAIN q.saves PROVE SaveInv(q, w, q.saves[j])
  <2>1. SaveInv(p, v, q.saves[j])
    BY <1>2 DEF FormInv
  <2>2. /\ q.claims = p.claims /\ q.mode = p.mode /\ w.claims = v.claims /\ w.nextId = v.nextId
        /\ w.othersDeleted = v.othersDeleted /\ w.othersActed = v.othersActed
    BY <1>2
  <2> QED
    BY <2>1, <2>2, SaveStays, Zenon
<1>8. \A i, j \in DOMAIN q.saves : Alone(q.saves[i]) /\ j # i => ~ Credential!Busy(q.saves[j])
  BY <1>2 DEF FormInv
<1> QED
  BY <1>2, <1>3, <1>4, <1>5, <1>6, <1>7, <1>8 DEF FormInv

(* A save that failed is not alone, and has nothing to keep but its         *)
(* requests.                                                                *)
LEMMA FailedHolds ==
    ASSUME NEW p, NEW v, NEW s \in ClaimsSave, SaveInv(p, v, s), NEW out \in SUBSET s.out
    PROVE  LET f == [Credential!FailedSave(s) EXCEPT !.out = out] IN
           /\ f \in ClaimsSave /\ SaveInv(p, v, f) /\ ~ Going(f)
           /\ Credential!Busy(f) => Credential!Busy(s)
<1> DEFINE f == [Credential!FailedSave(s) EXCEPT !.out = out]
<1>1. f = [s EXCEPT !.stage = "failed", !.shown = {}, !.existing = {},
                    !.overtaken = FALSE, !.unread = FALSE, !.out = out]
  BY DEF Credential!FailedSave, ClaimsSave
<1> HIDE DEF f
<1>2. out \in SUBSET ClaimRequest
  BY SaveTypes
<1>3. f \in ClaimsSave /\ f.out = out /\ f.stage = "failed"
  BY <1>1, <1>2 DEF ClaimsSave
<1>4. SaveInv(p, v, f)
  BY <1>3 DEF SaveInv, OutInv, Going, Alone
<1>5. Credential!Busy(f) => Credential!Busy(s)
  BY <1>3 DEF Credential!Busy
<1>6. f \in ClaimsSave /\ SaveInv(p, v, f) /\ ~ Going(f) /\ (Credential!Busy(f) => Credential!Busy(s))
  BY <1>3, <1>4, <1>5 DEF Going
<1> USE DEF f
<1> QED
  BY <1>6

LEMMA RowFacts ==
    ASSUME NEW id \in Nat, NEW demand \in Demanded
    PROVE  LET r == Credential!Row(id, demand) IN
           r \in ClaimRow /\ r.id = id /\ r.demand = demand
BY DEF Credential!Row, ClaimRow

LEMMA RowOfFacts ==
    ASSUME NEW c \in StoredClaim
    PROVE  /\ Credential!RowOf(c) \in ClaimRow /\ Credential!RowOf(c).id = c.id
           /\ Credential!RowOf(c).demand = c.demand /\ c.id \in Nat /\ c.id # 0
BY RowFacts DEF Credential!RowOf, StoredClaim

LEMMA RequestFacts ==
    ASSUME NEW verb \in {"delete", "create", "update"}, NEW row \in ClaimRow
    PROVE  LET a == Credential!Request(verb, row) IN
           a \in ClaimRequest /\ a.verb = verb /\ a.row = row
BY DEF Credential!Request, ClaimRequest

LEMMA RequestIs ==
    ASSUME NEW a \in ClaimRequest
    PROVE  /\ a = Credential!Request(a.verb, a.row) /\ a.row \in ClaimRow
           /\ a.verb \in {"delete", "create", "update"}
BY DEF Credential!Request, ClaimRequest

(* A step of the table.                                                     *)
LEMMA TableStep ==
    ASSUME NEW p, NEW v, FormInv(p, v), NEW claims \in SUBSET ClaimRow,
           NEW load \in {"none", "loaded", "failed"}, NEW q,
           q = [p EXCEPT !.claims = claims, !.load = load],
           RowsInv(p, v, claims), Present(v, claims),
           \/ \A r \in claims : r.id # 0 => r \in p.claims
           \/ DOMAIN p.saves = {}
    PROVE  FormInv(q, v)
<1>1. /\ q \in CredentialPage /\ q.claims = claims /\ q.load = load /\ q.saves = p.saves
      /\ q.mode = p.mode
  BY DEF FormInv, CredentialPage
<1>2. RowsInv(q, v, q.claims) /\ Present(v, q.claims)
  BY <1>1 DEF RowsInv
<1>3. LoadInv(q, v)
  BY <1>1 DEF LoadInv
<1>4. ASSUME NEW k \in DOMAIN p.saves PROVE SaveInv(q, v, p.saves[k])
  <2> DEFINE s == p.saves[k]
  <2>1. SaveInv(p, v, s) /\ s \in ClaimsSave
    BY FormTypes DEF FormInv
  <2>2. \A r \in claims : r.id # 0 => r \in p.claims
    BY <1>4
  <2> HIDE DEF s
  <2>3. OutInv(q, v, s)
    <3> SUFFICES ASSUME NEW a \in s.out PROVE /\ a.verb = "delete" => a.row.id # 0 /\ a.row.id \notin RowIds(q.claims)
                                              /\ a.verb = "update" => v.othersActed
      BY DEF OutInv
    <3>1. a.verb = "update" => v.othersActed
      BY <2>1 DEF SaveInv, OutInv
    <3>2. ASSUME a.verb = "delete" PROVE a.row.id # 0 /\ a.row.id \notin RowIds(claims)
      <4>1. a.row.id # 0 /\ a.row.id \notin RowIds(p.claims)
        BY <2>1, <3>2 DEF SaveInv, OutInv
      <4> QED
        BY <2>2, <4>1 DEF RowIds
    <3> QED
      BY <1>1, <3>1, <3>2
  <2>4. ASSUME Going(s) PROVE GoingInv(q, v, s)
    <3>1. GoingInv(p, v, s)
      BY <2>1, <2>4 DEF SaveInv
    <3>2. RowsInv(q, v, s.shown)
      BY <1>1, <3>1 DEF GoingInv, RowsInv
    <3> QED
      BY <1>1, <2>2, <3>1, <3>2 DEF GoingInv
  <2>5. SaveInv(q, v, s)
    BY <2>1, <2>3, <2>4 DEF SaveInv
  <2> QED
    BY <2>5 DEF s
<1> QED
  BY <1>1, <1>2, <1>3, <1>4 DEF FormInv

LEMMA ClaimsLoadKeeps ==
    ASSUME FormInv(page, server), Credential!LoadFederatedCredential
    PROVE  FormInv(page', server')
<1>1. page.load = "pending" /\ UNCHANGED server
  BY DEF Credential!LoadFederatedCredential, Credential!Change
<1>2. DOMAIN page.saves = {} /\ page.claims = {} /\ page.mode = "edit"
  BY <1>1 DEF FormInv, LoadInv
<1>3. page \in CredentialPage /\ server \in CredentialStore
  BY DEF FormInv
<1> DEFINE there == {Credential!RowOf(c) : c \in ClaimsOf(server, 1)}
<1>4. PICK claims \in {{}, there}, load \in {"loaded", "failed"} :
        page' = [page EXCEPT !.claims = claims, !.load = load]
  <2>1. CASE page' = [page EXCEPT !.load = "failed"]
    <3>1. page' = [page EXCEPT !.claims = {}, !.load = "failed"]
      BY <1>2, <1>3, <2>1 DEF CredentialPage
    <3> HIDE DEF there
    <3> QED
      BY <3>1
  <2>2. CASE page' = [page EXCEPT !.load = "loaded",
                                  !.claims = {Credential!RowOf(c) : c \in Credential!Of(1)}]
    <3>1. Credential!Of(1) = ClaimsOf(server, 1)
      BY DEF Credential!Of, ClaimsOf
    <3>2. page' = [page EXCEPT !.load = "loaded", !.claims = there]
      BY <2>2, <3>1
    <3> HIDE DEF there
    <3>3. page' = [page EXCEPT !.claims = there, !.load = "loaded"]
      BY <3>2, <1>3 DEF CredentialPage
    <3> QED
      BY <3>3
  <2> QED
    BY <2>1, <2>2 DEF Credential!LoadFederatedCredential, Credential!Change
<1>5. ASSUME NEW r \in claims
      PROVE  \E c \in ClaimsOf(server, 1) :
                c \in server.claims /\ r \in ClaimRow /\ r.id = c.id /\ r.demand = c.demand /\ c \in StoredClaim
  <2>1. PICK c \in ClaimsOf(server, 1) : r = Credential!RowOf(c)
    BY <1>4, <1>5
  <2>2. c \in StoredClaim /\ c \in server.claims
    BY <1>3, FormTypes DEF ClaimsOf
  <2> QED
    BY <2>1, <2>2, RowOfFacts
<1>6. claims \in SUBSET ClaimRow /\ Present(server, claims)
  BY <1>5 DEF Present
<1>7. RowsInv(page, server, claims)
  <2>1. ASSUME NEW r \in claims, NEW q \in claims, r.demand = q.demand \/ r.id = q.id PROVE r = q
    <3>1. PICK c \in server.claims : r \in ClaimRow /\ r.id = c.id /\ r.demand = c.demand
      BY <1>5
    <3>2. PICK d \in server.claims : q \in ClaimRow /\ q.id = d.id /\ q.demand = d.demand
      BY <1>5
    <3>3. c = d
      BY <1>1, <2>1, <3>1, <3>2 DEF FormInv, LoadInv, StoreInv
    <3> QED
      BY <3>1, <3>2, <3>3 DEF ClaimRow
  <2>2. \A r \in claims : r.id < server.nextId
    BY <1>5 DEF FormInv, StoreInv
  <2>3. \A r \in claims : \A c \in server.claims : c.id = r.id => c.demand = r.demand
    BY <1>5 DEF FormInv, StoreInv
  <2> QED
    BY <1>2, <2>1, <2>2, <2>3 DEF RowsInv
<1> QED
  BY <1>1, <1>2, <1>4, <1>6, <1>7, TableStep

LEMMA ClaimsTableKeeps ==
    ASSUME FormInv(page, server), Credential!AddClaim \/ Credential!RemoveClaim
    PROVE  FormInv(page', server')
<1>1. page.load # "pending" /\ UNCHANGED server
  BY DEF Credential!AddClaim, Credential!RemoveClaim, Credential!Change
<1>2. page \in CredentialPage /\ server \in CredentialStore
  BY DEF FormInv
<1>3. page.load \in {"none", "loaded", "failed"} /\ page.claims \subseteq ClaimRow
  BY <1>1, <1>2, FormTypes
<1>4. RowsInv(page, server, page.claims) /\ Present(server, page.claims)
  BY DEF FormInv
<1>5. CASE Credential!RemoveClaim
  <2>1. PICK r \in page.claims : page' = [page EXCEPT !.claims = page.claims \ {r}]
    BY <1>5 DEF Credential!RemoveClaim, Credential!Change
  <2> DEFINE claims == page.claims \ {r}
  <2>2. page' = [page EXCEPT !.claims = claims, !.load = page.load]
    BY <1>2, <2>1 DEF CredentialPage
  <2>3. claims \subseteq page.claims
    OBVIOUS
  <2> HIDE DEF claims
  <2>4. RowsInv(page, server, claims)
    BY <1>4, <2>3 DEF RowsInv
  <2>5. Present(server, claims)
    BY <1>4, <2>3 DEF Present
  <2> QED
    BY <1>1, <1>3, <2>2, <2>3, <2>4, <2>5, TableStep
<1>6. CASE Credential!AddClaim
  <2>1. PICK d \in Credential!Demands :
          /\ page' = [page EXCEPT !.claims = page.claims \cup {Credential!Row(0, d)}]
          /\ \A r \in page.claims : r.demand # d
    BY <1>6 DEF Credential!AddClaim, Credential!Change
  <2>2. PICK n \in ClaimRow : n = Credential!Row(0, d) /\ n.id = 0 /\ n.demand = d
    BY RowFacts DEF Demanded
  <2> DEFINE claims == page.claims \cup {n}
  <2>3. page' = [page EXCEPT !.claims = claims, !.load = page.load]
    BY <1>2, <2>1, <2>2 DEF CredentialPage
  <2>4. claims \subseteq ClaimRow /\ \A r \in claims : r \in page.claims \/ r = n
    BY <1>3
  <2> HIDE DEF claims
  <2>5. RowsInv(page, server, claims)
    <3>1. \A r, q \in claims : r.demand = q.demand \/ (r.id = q.id /\ r.id # 0) => r = q
      BY <1>4, <2>1, <2>2, <2>4 DEF RowsInv
    <3>2. \A c \in server.claims : c.id \in Nat /\ c.id # 0
      BY <1>2, FormTypes, RowOfFacts
    <3>3. server.nextId \in Nat \ {0}
      BY <1>2, FormTypes
    <3> QED
      BY <1>4, <2>2, <2>4, <3>1, <3>2, <3>3 DEF RowsInv
  <2>6. Present(server, claims)
    BY <1>4, <2>2, <2>4 DEF Present
  <2> QED
    BY <1>1, <1>3, <2>2, <2>3, <2>4, <2>5, <2>6, TableStep
<1> QED
  BY <1>5, <1>6

LEMMA FinishKeeps ==
    ASSUME FormInv(page, server), Credential!OnFinish PROVE FormInv(page', server')
<1>1. page \in CredentialPage /\ server \in CredentialStore
  BY DEF FormInv
<1>2. /\ page.saves \in Seq(ClaimsSave) /\ DOMAIN page.saves = 1 .. Len(page.saves)
      /\ Len(page.saves) \in Nat /\ \A k \in DOMAIN page.saves : page.saves[k] \in ClaimsSave
      /\ page.claims \subseteq ClaimRow
  BY <1>1, FormTypes
<1>3. PICK overlapped \in BOOLEAN :
        overlapped = (\E k \in DOMAIN page.saves : Credential!Busy(page.saves[k]))
  OBVIOUS
<1> DEFINE save == [stage |-> "credential", cred |-> 1, shown |-> page.claims, existing |-> {},
                    out |-> {}, overtaken |-> overlapped, unread |-> FALSE]
           old == [k \in DOMAIN page.saves |->
                      [page.saves[k] EXCEPT !.overtaken = Credential!Busy(page.saves[k])]]
           saves == Append(old, save)
<1>4. page.load # "pending" /\ UNCHANGED server /\ page' = [page EXCEPT !.saves = saves]
  BY <1>1, <1>3 DEF Credential!OnFinish, Credential!Change, CredentialPage
<1>5. /\ save \in ClaimsSave /\ save.stage = "credential" /\ save.cred = 1
      /\ save.shown = page.claims /\ save.existing = {} /\ save.out = {}
  BY <1>2 DEF ClaimsSave
<1>6. save.overtaken = overlapped /\ save.unread = FALSE
  OBVIOUS
<1> HIDE DEF save
<1>7. ASSUME NEW k \in DOMAIN page.saves
      PROVE  /\ old[k] \in ClaimsSave /\ SaveInv(page, server, old[k]) /\ ~ Alone(old[k])
  <2>1. PICK s \in ClaimsSave : s = page.saves[k]
    BY <1>2
  <2>2. PICK busy \in BOOLEAN : busy = Credential!Busy(s)
    BY DEF Credential!Busy
  <2> DEFINE t == [s EXCEPT !.overtaken = busy]
  <2>3. old[k] = t
    BY <2>1, <2>2
  <2>4. /\ t \in ClaimsSave /\ t.stage = s.stage /\ t.cred = s.cred /\ t.shown = s.shown
        /\ t.existing = s.existing /\ t.out = s.out
    BY DEF ClaimsSave
  <2>5. t.overtaken = busy /\ t.unread = s.unread
    BY DEF ClaimsSave
  <2> HIDE DEF t, old
  <2>6. Going(s) => busy
    BY <2>2 DEF Going, Credential!Busy
  <2>7. ~ Alone(t)
    BY <2>4, <2>5, <2>6 DEF Alone, Going
  <2>8. SaveInv(page, server, s)
    BY <2>1 DEF FormInv
  <2>9. OutInv(page, server, t)
    BY <2>4, <2>8 DEF SaveInv, OutInv
  <2>10. Going(t) => GoingInv(page, server, t)
    BY <2>4, <2>5, <2>8 DEF SaveInv, Going, GoingInv
  <2> QED
    BY <2>3, <2>4, <2>7, <2>9, <2>10 DEF SaveInv
<1>8. old \in [1 .. Len(page.saves) -> ClaimsSave] /\ old \in Seq(ClaimsSave)
  <2>1. old \in [1 .. Len(page.saves) -> ClaimsSave]
    BY <1>2, <1>7
  <2> HIDE DEF old
  <2> QED
    BY <1>2, <2>1, SeqDef
<1>9. Len(old) = Len(page.saves)
  <2> HIDE DEF old
  <2> QED
    BY <1>2, <1>8
<1> HIDE DEF old
<1>10. /\ saves \in Seq(ClaimsSave) /\ DOMAIN saves = 1 .. Len(page.saves) + 1
       /\ saves[Len(page.saves) + 1] = save
       /\ \A k \in 1 .. Len(page.saves) : saves[k] = old[k]
  BY <1>2, <1>5, <1>8, <1>9
<1> HIDE DEF saves
<1>11. /\ page' \in CredentialPage /\ page'.saves = saves /\ page'.claims = page.claims
       /\ page'.mode = page.mode /\ page'.load = page.load
  BY <1>1, <1>4, <1>10 DEF CredentialPage
<1>12. SaveInv(page, server, save)
  <2>1. GoingInv(page, server, save)
    BY <1>5, <1>6 DEF FormInv, GoingInv
  <2>2. AloneInv(server, save)
    BY <1>5 DEF FormInv, AloneInv
  <2>3. OutInv(page, server, save)
    BY <1>5 DEF OutInv
  <2> QED
    BY <2>1, <2>2, <2>3 DEF SaveInv
<1>13. \A k \in DOMAIN saves : k \in DOMAIN page.saves \/ k = Len(page.saves) + 1
  BY <1>2, <1>10
<1>14. ASSUME NEW k \in DOMAIN saves PROVE SaveInv(page', server', saves[k])
  <2>1. SaveInv(page, server, saves[k])
    BY <1>2, <1>7, <1>10, <1>12, <1>13
  <2>2. /\ page'.claims = page.claims /\ page'.mode = page.mode
        /\ server'.claims = server.claims /\ server'.nextId = server.nextId
        /\ server'.othersDeleted = server.othersDeleted /\ server'.othersActed = server.othersActed
    BY <1>4, <1>11
  <2> QED
    BY <2>1, <2>2, SaveStays, Zenon
<1>15. ASSUME NEW k \in DOMAIN saves, NEW j \in DOMAIN saves, Alone(saves[k]), j # k
       PROVE  ~ Credential!Busy(saves[j])
  <2>1. k = Len(page.saves) + 1 /\ saves[k] = save
    BY <1>2, <1>7, <1>10, <1>13, <1>15
  <2>2. ~ overlapped
    BY <1>6, <1>15, <2>1 DEF Alone
  <2>3. j \in DOMAIN page.saves /\ saves[j] = old[j]
    BY <1>2, <1>10, <1>13, <1>15, <2>1
  <2>4. ~ Credential!Busy(page.saves[j])
    BY <1>3, <2>2, <2>3
  <2>5. old[j].stage = page.saves[j].stage /\ old[j].out = page.saves[j].out
    BY <1>2, <2>3 DEF old, ClaimsSave
  <2> QED
    BY <2>3, <2>4, <2>5 DEF Credential!Busy
<1>16. /\ StoreInv(server) /\ RowsInv(page', server, page'.claims)
       /\ Present(server, page'.claims) /\ LoadInv(page', server)
  BY <1>4, <1>11 DEF FormInv, RowsInv, LoadInv
<1> QED
  BY <1>1, <1>4, <1>11, <1>14, <1>15, <1>16 DEF FormInv

LEMMA CredentialSavedKeeps ==
    ASSUME FormInv(page, server), NEW k \in DOMAIN page.saves, Credential!CredentialSaved(k)
    PROVE  FormInv(page', server')
<1> DEFINE s == page.saves[k]
<1>1. page \in CredentialPage /\ server \in CredentialStore
  BY DEF FormInv
<1>2. s \in ClaimsSave /\ SaveInv(page, server, s) /\ s.stage = "credential"
  BY <1>1, FormTypes DEF FormInv, Credential!CredentialSaved
<1>3. CASE Credential!With(k, Credential!FailedSave(s)) /\ UNCHANGED server
  <2> DEFINE f == [Credential!FailedSave(s) EXCEPT !.out = s.out]
  <2>1. f = Credential!FailedSave(s)
    BY <1>2 DEF Credential!FailedSave, ClaimsSave
  <2>2. f \in ClaimsSave /\ SaveInv(page, server, f) /\ ~ Going(f) /\ (Credential!Busy(f) => Credential!Busy(s))
    BY <1>2, FailedHolds
  <2> HIDE DEF f
  <2>3. page' = [page EXCEPT !.saves[k] = f] /\ UNCHANGED server
    BY <1>3, <2>1 DEF Credential!With
  <2> QED
    BY <1>1, <2>2, <2>3, OneSave DEF Alone
<1>4. ASSUME NEW credentials \in Nat, NEW cred \in Nat,
             server' = [server EXCEPT !.credentials = credentials],
             page.mode = "edit" => cred = s.cred,
             Credential!With(k, [s EXCEPT !.stage = "read", !.cred = cred])
      PROVE  FormInv(page', server')
  <2> DEFINE t == [s EXCEPT !.stage = "read", !.cred = cred]
  <2>1. /\ server' \in CredentialStore /\ server'.claims = server.claims
        /\ server'.nextId = server.nextId /\ server'.othersDeleted = server.othersDeleted
        /\ server'.othersActed = server.othersActed
    BY <1>1, <1>4 DEF CredentialStore
  <2>2. page' = [page EXCEPT !.saves[k] = t]
    BY <1>4 DEF Credential!With
  <2>3. /\ t \in ClaimsSave /\ t.stage = "read" /\ t.cred = cred /\ t.shown = s.shown
        /\ t.existing = s.existing /\ t.out = s.out /\ t.overtaken = s.overtaken /\ t.unread = s.unread
    BY <1>2, <1>4 DEF ClaimsSave
  <2> HIDE DEF s, t
  <2>4. GoingInv(page, server, s)
    BY <1>2 DEF SaveInv, Going
  <2>5. GoingInv(page, server, t)
    BY <1>2, <1>4, <2>3, <2>4 DEF GoingInv
  <2>6. OutInv(page, server, t)
    BY <1>2, <2>3 DEF SaveInv, OutInv
  <2>7. Alone(t) => Alone(s)
    BY <1>2, <2>3 DEF Alone, Going
  <2>8. Alone(t) => AloneInv(server, t)
    BY <1>2, <2>3, <2>7 DEF SaveInv, AloneInv
  <2>9. SaveInv(page, server, t)
    BY <2>5, <2>6, <2>8 DEF SaveInv
  <2>10. Credential!Busy(t) => Credential!Busy(s)
    BY <1>2 DEF Credential!Busy
  <2> QED
    BY <2>1, <2>2, <2>3, <2>7, <2>9, <2>10, OneSave DEF s
<1>5. CASE page.mode = "edit" /\ Credential!With(k, [s EXCEPT !.stage = "read"]) /\ UNCHANGED server
  <2>1. [s EXCEPT !.stage = "read"] = [s EXCEPT !.stage = "read", !.cred = s.cred]
    BY <1>2 DEF ClaimsSave
  <2>2. server' = [server EXCEPT !.credentials = server.credentials]
    BY <1>1, <1>5 DEF CredentialStore
  <2>3. s.cred \in Nat /\ server.credentials \in Nat
    BY <1>1, <1>2, SaveTypes, FormTypes
  <2> QED
    BY <1>4, <1>5, <2>1, <2>2, <2>3
<1>6. CASE /\ page.mode # "edit"
           /\ server' = [server EXCEPT !.credentials = server.credentials + 1]
           /\ Credential!With(k, [s EXCEPT !.stage = "read", !.cred = server.credentials + 1])
  <2>1. server.credentials + 1 \in Nat
    BY <1>1, FormTypes
  <2> QED
    BY <1>4, <1>6, <2>1
<1> QED
  BY <1>3, <1>5, <1>6 DEF Credential!CredentialSaved

(* The requests of a stage, for the save s that begins it.                  *)
LEMMA DeletionsHold ==
    ASSUME FormInv(page, server), NEW s \in ClaimsSave, SaveInv(page, server, s), s.stage = "read",
           NEW u \in ClaimsSave, u.stage = "read", u.cred = s.cred, u.shown = s.shown,
           u.overtaken = s.overtaken,
           \/ ~ u.unread /\ u.existing = ClaimsOf(server, s.cred)
           \/ u.unread /\ u.existing = {},
           NEW t, t = Credential!Deletions(u)
    PROVE  t \in ClaimsSave /\ SaveInv(page, server, t) /\ (Alone(t) => Alone(s))
<1> DEFINE removed == {c \in u.existing : \A r \in s.shown : r.id # c.id}
           out == {Credential!Request("delete", Credential!RowOf(c)) : c \in removed}
<1>1. page \in CredentialPage /\ server \in CredentialStore /\ StoreInv(server)
  BY DEF FormInv
<1>2. ASSUME NEW a \in out
      PROVE  /\ a \in ClaimRequest /\ a.verb = "delete"
             /\ \E c \in removed : a.row = Credential!RowOf(c) /\ a.row.id = c.id /\ c.id # 0
  <2>1. PICK c \in removed : a = Credential!Request("delete", Credential!RowOf(c))
    OBVIOUS
  <2>2. c \in StoredClaim
    BY SaveTypes
  <2> HIDE DEF removed
  <2> QED
    BY <2>1, <2>2, RowOfFacts, RequestFacts
<1>3. out \in SUBSET ClaimRequest
  BY <1>2
<1>4. t = [u EXCEPT !.stage = "delete", !.out = out]
  BY DEF Credential!Deletions
<1>5. \A c \in removed : Credential!Request("delete", Credential!RowOf(c)) \in out
  OBVIOUS
<1>6. \A c \in u.existing : c \in removed \/ c.id \in RowIds(s.shown)
  BY DEF RowIds
<1>7. \A c \in removed : c.id \notin RowIds(s.shown)
  BY DEF RowIds
<1> HIDE DEF out, removed
<1>8. /\ t \in ClaimsSave /\ t.stage = "delete" /\ t.cred = s.cred /\ t.shown = s.shown
      /\ t.existing = u.existing /\ t.out = out /\ t.overtaken = s.overtaken /\ t.unread = u.unread
  BY <1>3, <1>4 DEF ClaimsSave
<1>9. GoingInv(page, server, s)
  BY DEF SaveInv, Going
<1>10. \A c \in u.existing : c \in server.claims
  BY DEF ClaimsOf
<1>11. \A a \in out : a.verb = "delete" /\ a.row.id # 0 /\ a.row.id \notin RowIds(s.shown)
  BY <1>2, <1>7
<1>12. OutInv(page, server, t)
  <2>1. \A a \in out : a.row.id \notin RowIds(page.claims)
    BY <1>9, <1>11 DEF GoingInv, RowIds
  <2> QED
    BY <1>8, <1>11, <2>1 DEF OutInv
<1>13. GoingInv(page, server, t)
  <2>1. RowsInv(page, server, s.shown) /\ \A r \in page.claims : r.id # 0 => r \in s.shown
    BY <1>9 DEF GoingInv
  <2>2. page.mode = "edit" => s.cred = 1
    BY <1>9 DEF GoingInv
  <2>3. \A c \in u.existing : c.id < server.nextId
    BY <1>1, <1>10 DEF StoreInv
  <2>4. ~ server.othersActed =>
           \A r \in s.shown : \A c \in u.existing : c.id = r.id => c.demand = r.demand
    BY <1>10, <2>1 DEF RowsInv
  <2> QED
    BY <1>8, <1>11, <2>1, <2>2, <2>3, <2>4 DEF GoingInv
<1>14. Alone(t) => Alone(s)
  BY <1>8 DEF Alone, Going
<1>15. ASSUME Alone(t) PROVE AloneInv(server, t)
  <2>1. Present(server, t.shown)
    BY <1>8, <1>14, <1>15 DEF SaveInv, AloneInv
  <2>2. ~ u.unread => DeletesInv(server, t)
    BY <1>5, <1>6, <1>8 DEF DeletesInv, ReadKept
  <2> QED
    BY <1>8, <2>1, <2>2 DEF AloneInv
<1> QED
  BY <1>8, <1>12, <1>13, <1>14, <1>15 DEF SaveInv

LEMMA ClaimsReadKeeps ==
    ASSUME FormInv(page, server), NEW k \in DOMAIN page.saves, Credential!ClaimsRead(k)
    PROVE  FormInv(page', server')
<1> DEFINE s == page.saves[k]
<1>1. page \in CredentialPage /\ server \in CredentialStore
  BY DEF FormInv
<1>2. s \in ClaimsSave /\ SaveInv(page, server, s) /\ s.stage = "read"
  BY <1>1, FormTypes DEF FormInv, Credential!ClaimsRead
<1>3. s.existing = {} /\ ~ s.unread /\ s.unread \in BOOLEAN
  BY <1>2, SaveTypes DEF SaveInv, Going, GoingInv
<1>4. PICK u \in ClaimsSave :
        /\ u.stage = "read" /\ u.cred = s.cred /\ u.shown = s.shown /\ u.overtaken = s.overtaken
        /\ \/ ~ u.unread /\ u.existing = ClaimsOf(server, s.cred)
           \/ u.unread /\ u.existing = {}
        /\ page' = [page EXCEPT !.saves[k] = Credential!Deletions(u)]
  <2>1. CASE Credential!With(k, Credential!Deletions([s EXCEPT !.existing = Credential!Of(s.cred)]))
    <3>1. Credential!Of(s.cred) = ClaimsOf(server, s.cred)
      BY DEF Credential!Of, ClaimsOf
    <3>2. PICK existing \in SUBSET StoredClaim : existing = ClaimsOf(server, s.cred)
      BY <1>1, FormTypes DEF ClaimsOf
    <3> DEFINE u == [s EXCEPT !.existing = existing]
    <3>3. /\ u \in ClaimsSave /\ u.stage = "read" /\ u.cred = s.cred /\ u.shown = s.shown
          /\ u.overtaken = s.overtaken /\ u.existing = existing
      BY <1>2 DEF ClaimsSave
    <3>4. ~ u.unread
      BY <1>2, <1>3 DEF ClaimsSave
    <3>5. page' = [page EXCEPT !.saves[k] = Credential!Deletions(u)]
      BY <2>1, <3>1, <3>2 DEF Credential!With
    <3> HIDE DEF u
    <3> QED
      BY <3>2, <3>3, <3>4, <3>5
  <2>2. CASE Credential!With(k, Credential!Deletions([s EXCEPT !.unread = TRUE]))
    <3> DEFINE u == [s EXCEPT !.unread = TRUE]
    <3>1. /\ u \in ClaimsSave /\ u.stage = "read" /\ u.cred = s.cred /\ u.shown = s.shown
          /\ u.overtaken = s.overtaken /\ u.existing = {}
      BY <1>2, <1>3 DEF ClaimsSave
    <3>2. u.unread
      BY <1>2 DEF ClaimsSave
    <3>3. page' = [page EXCEPT !.saves[k] = Credential!Deletions(u)]
      BY <2>2 DEF Credential!With
    <3> HIDE DEF u
    <3> QED
      BY <3>1, <3>2, <3>3
  <2> QED
    BY <2>1, <2>2 DEF Credential!ClaimsRead
<1>5. PICK t : t = Credential!Deletions(u)
  OBVIOUS
<1>6. t \in ClaimsSave /\ SaveInv(page, server, t) /\ (Alone(t) => Alone(s))
  <2> HIDE DEF s
  <2> QED
    BY <1>2, <1>4, <1>5, DeletionsHold
<1>7. page' = [page EXCEPT !.saves[k] = t] /\ UNCHANGED server
  BY <1>4, <1>5 DEF Credential!ClaimsRead
<1>8. Credential!Busy(s)
  BY <1>2 DEF Credential!Busy
<1> QED
  BY <1>1, <1>6, <1>7, <1>8, OneSave

LEMMA CreationsHold ==
    ASSUME FormInv(page, server), NEW s \in ClaimsSave, SaveInv(page, server, s),
           s.stage = "delete", s.out = {}, NEW t, t = Credential!Creations(s)
    PROVE  t \in ClaimsSave /\ SaveInv(page, server, t) /\ (Alone(t) => Alone(s))
<1> DEFINE added == {r \in s.shown : r.id = 0}
           out == {Credential!Request("create", r) : r \in added}
<1>1. ASSUME NEW r \in s.shown
      PROVE  LET a == Credential!Request("create", r) IN
             a \in ClaimRequest /\ a.verb = "create" /\ a.row = r
  BY SaveTypes, RequestFacts
<1>2. ASSUME NEW a \in out
      PROVE  a \in ClaimRequest /\ a.verb = "create" /\ a.row \in s.shown /\ a.row.id = 0
  BY <1>1
<1>3. out \in SUBSET ClaimRequest
  BY <1>2
<1>4. t = [s EXCEPT !.stage = "create", !.out = out]
  BY DEF Credential!Creations
<1>5. \A r \in s.shown : r.id = 0 => Credential!Request("create", r) \in out
  OBVIOUS
<1> HIDE DEF out, added
<1>6. /\ t \in ClaimsSave /\ t.stage = "create" /\ t.cred = s.cred /\ t.shown = s.shown
      /\ t.existing = s.existing /\ t.out = out /\ t.overtaken = s.overtaken /\ t.unread = s.unread
  BY <1>3, <1>4 DEF ClaimsSave
<1>7. GoingInv(page, server, s)
  BY DEF SaveInv, Going
<1>8. OutInv(page, server, t)
  BY <1>2, <1>6 DEF OutInv
<1>9. GoingInv(page, server, t)
  BY <1>2, <1>6, <1>7 DEF GoingInv
<1>10. Alone(t) => Alone(s)
  BY <1>6 DEF Alone, Going
<1>11. ASSUME Alone(t) PROVE AloneInv(server, t)
  <2>1. AloneInv(server, s)
    BY <1>10, <1>11 DEF SaveInv
  <2>2. Present(server, t.shown)
    BY <1>6, <2>1 DEF AloneInv
  <2>3. AddedAll(server, t)
    BY <1>5, <1>6 DEF AddedAll, RowFor
  <2>4. ASSUME ~ t.unread PROVE CreatesInv(server, t) /\ AddedOnce(server, t)
    <3>1. DeletesInv(server, s)
      BY <1>6, <2>1, <2>4 DEF AloneInv
    <3>2. /\ ReadKept(t) \subseteq ClaimsOf(server, t.cred)
          /\ ClaimsOf(server, t.cred) \subseteq ReadKept(t)
      BY <1>6, <3>1 DEF DeletesInv, ReadKept
    <3>3. CreatesInv(server, t)
      BY <3>2 DEF CreatesInv
    <3>4. AddedOnce(server, t)
      BY <3>2 DEF AddedOnce, ReadKept, Added
    <3> QED
      BY <3>3, <3>4
  <2> QED
    BY <1>6, <2>2, <2>3, <2>4 DEF AloneInv
<1> QED
  BY <1>6, <1>8, <1>9, <1>10, <1>11 DEF SaveInv

LEMMA UpdatesHold ==
    ASSUME FormInv(page, server), NEW s \in ClaimsSave, SaveInv(page, server, s),
           s.stage = "create", s.out = {}, NEW t, t = Credential!Updates(s)
    PROVE  t \in ClaimsSave /\ SaveInv(page, server, t) /\ (Alone(t) => Alone(s))
<1> DEFINE edited == {r \in s.shown : \E c \in s.existing : c.id = r.id /\ c.demand # r.demand}
           out == {Credential!Request("update", r) : r \in edited}
<1>1. ASSUME NEW r \in s.shown
      PROVE  LET a == Credential!Request("update", r) IN
             a \in ClaimRequest /\ a.verb = "update" /\ a.row = r
  BY SaveTypes, RequestFacts
<1>2. \A r \in edited : r \in s.shown
  OBVIOUS
<1>3. \A r \in s.shown, c \in s.existing :
         c.id = r.id => r.demand = c.demand \/ Credential!Request("update", r) \in out
  OBVIOUS
<1>4. GoingInv(page, server, s) /\ \A c \in s.existing : c.id # 0
  BY SaveTypes, RowOfFacts DEF SaveInv, Going
<1>5. \A r \in edited : r.id # 0 /\ server.othersActed
  BY <1>4 DEF GoingInv
<1>6. \A a \in out : \E r \in edited : a = Credential!Request("update", r)
  OBVIOUS
<1>7. t = [s EXCEPT !.stage = "update", !.existing = {}, !.out = out]
  BY DEF Credential!Updates
<1> HIDE DEF out, edited
<1>8. \A a \in out : /\ a \in ClaimRequest /\ a.verb = "update" /\ a.row \in s.shown /\ a.row.id # 0
                     /\ server.othersActed
  BY <1>1, <1>2, <1>5, <1>6
<1>9. out \in SUBSET ClaimRequest
  BY <1>8
<1>10. /\ t \in ClaimsSave /\ t.stage = "update" /\ t.cred = s.cred /\ t.shown = s.shown
       /\ t.existing = {} /\ t.out = out /\ t.overtaken = s.overtaken /\ t.unread = s.unread
  BY <1>7, <1>9 DEF ClaimsSave
<1>11. OutInv(page, server, t)
  BY <1>8, <1>10 DEF OutInv
<1>12. GoingInv(page, server, t)
  BY <1>4, <1>8, <1>10 DEF GoingInv
<1>13. Alone(t) => Alone(s)
  BY <1>10 DEF Alone, Going
<1>14. ASSUME Alone(t) PROVE AloneInv(server, t)
  <2>1. AloneInv(server, s)
    BY <1>13, <1>14 DEF SaveInv
  <2>2. Present(server, t.shown)
    BY <1>10, <2>1 DEF AloneInv
  <2>3. AddedAll(server, t)
    <3>1. AddedAll(server, s)
      BY <2>1 DEF AloneInv
    <3>2. \A r : RowFor(s, r)
      BY DEF RowFor
    <3> QED
      BY <1>10, <3>1, <3>2 DEF AddedAll, Added
  <2>4. ASSUME ~ t.unread PROVE UpdatesInv(server, t) /\ AddedOnce(server, t)
    <3>1. CreatesInv(server, s) /\ AddedOnce(server, s)
      BY <1>10, <2>1, <2>4 DEF AloneInv
    <3>2. AddedOnce(server, t)
      BY <1>10, <3>1 DEF AddedOnce, Added
    <3>3. ASSUME NEW c \in ClaimsOf(server, t.cred)
          PROVE  \/ \E r \in t.shown :
                      r.id = c.id /\ (r.demand = c.demand \/ Credential!Request("update", r) \in t.out)
                 \/ Added(t, c) /\ \E r \in t.shown : r.id = 0 /\ r.demand = c.demand
      <4>1. CASE c \in ReadKept(s)
        <5>1. PICK r \in s.shown : r.id = c.id /\ c \in s.existing
          BY <4>1 DEF ReadKept, RowIds
        <5> QED
          BY <1>3, <1>10, <5>1
      <4>2. CASE Added(s, c) /\ \E r \in s.shown : r.id = 0 /\ r.demand = c.demand
        BY <1>10, <4>2 DEF Added
      <4> QED
        BY <1>10, <3>1, <4>1, <4>2 DEF CreatesInv
    <3> QED
      BY <3>2, <3>3 DEF UpdatesInv
  <2> QED
    BY <1>10, <2>2, <2>3, <2>4 DEF AloneInv
<1> QED
  BY <1>10, <1>11, <1>12, <1>13, <1>14 DEF SaveInv

LEMMA ProceedKeeps ==
    ASSUME FormInv(page, server), NEW k \in DOMAIN page.saves, Credential!Proceed(k),
           page.saves[k].stage # "update"
    PROVE  FormInv(page', server')
<1> DEFINE s == page.saves[k]
<1>1. page \in CredentialPage /\ server \in CredentialStore
  BY DEF FormInv
<1>2. s \in ClaimsSave /\ SaveInv(page, server, s) /\ s.stage \in {"delete", "create"} /\ s.out = {}
  BY <1>1, FormTypes DEF FormInv, Credential!Proceed
<1>3. PICK t : /\ page' = [page EXCEPT !.saves[k] = t] /\ UNCHANGED server
               /\ \/ s.stage = "delete" /\ t = Credential!Creations(s)
                  \/ s.stage = "create" /\ t = Credential!Updates(s)
  BY <1>2 DEF Credential!Proceed, Credential!With
<1>4. t \in ClaimsSave /\ SaveInv(page, server, t) /\ (Alone(t) => Alone(s))
  <2> HIDE DEF s
  <2> QED
    BY <1>2, <1>3, CreationsHold, UpdatesHold
<1>5. Credential!Busy(s)
  BY <1>2 DEF Credential!Busy
<1> QED
  BY <1>1, <1>3, <1>4, <1>5, OneSave

LEMMA RequestFailsKeeps ==
    ASSUME FormInv(page, server), NEW k \in DOMAIN page.saves, NEW r \in page.saves[k].out,
           Credential!Fails(k, r)
    PROVE  FormInv(page', server')
<1> DEFINE s == page.saves[k]
           f == [Credential!FailedSave(s) EXCEPT !.out = s.out \ {r}]
<1>1. page \in CredentialPage /\ server \in CredentialStore
  BY DEF FormInv
<1>2. s \in ClaimsSave /\ SaveInv(page, server, s)
  BY <1>1, FormTypes DEF FormInv
<1>3. page' = [page EXCEPT !.saves[k] = f] /\ UNCHANGED server
  BY DEF Credential!Fails, Credential!With
<1>4. s.out \ {r} \in SUBSET s.out
  OBVIOUS
<1>5. f \in ClaimsSave /\ SaveInv(page, server, f) /\ ~ Going(f) /\ (Credential!Busy(f) => Credential!Busy(s))
  BY <1>2, <1>4, FailedHolds
<1> HIDE DEF f
<1> QED
  BY <1>1, <1>3, <1>5, OneSave DEF Alone

(* Tables stay as they are while claims are deleted and created, and once   *)
(* another user acted.                                                      *)
StoredOn(v, w) ==
    /\ v.nextId <= w.nextId /\ (v.othersActed => w.othersActed)
    /\ ~ w.othersActed => \A c \in w.claims : c \in v.claims \/ v.nextId <= c.id

LEMMA RowsStay ==
    ASSUME NEW p, NEW v \in CredentialStore, NEW w \in CredentialStore, StoredOn(v, w),
           NEW rows \in SUBSET ClaimRow, RowsInv(p, v, rows), NEW q, q.mode = p.mode
    PROVE  RowsInv(q, w, rows)
<1>1. v.nextId \in Nat /\ w.nextId \in Nat
  BY FormTypes DEF CredentialStore
<1>2. \A r \in rows : r.id \in Nat /\ r.id < v.nextId
  BY DEF ClaimRow, RowsInv
<1>3. \A r \in rows : r.id < w.nextId
  BY <1>1, <1>2 DEF StoredOn
<1>4. ASSUME ~ w.othersActed, NEW r \in rows, NEW c \in w.claims, c.id = r.id PROVE c.demand = r.demand
  <2>1. c \in v.claims
    BY <1>1, <1>2, <1>4 DEF StoredOn
  <2> QED
    BY <1>4, <2>1 DEF StoredOn, RowsInv
<1> QED
  BY <1>3, <1>4 DEF RowsInv

(* A save with some of its requests answered, or overtaken.                 *)
Answered(s, t) ==
    /\ t.stage = s.stage /\ t.cred = s.cred /\ t.shown = s.shown
    /\ t.existing = s.existing /\ t.out \subseteq s.out /\ t.unread = s.unread

(* What a save is but for what it keeps when it is alone.                   *)
LEMMA SaveGoesOn ==
    ASSUME NEW p \in CredentialPage, NEW v \in CredentialStore, NEW w \in CredentialStore,
           StoredOn(v, w), NEW q, q.mode = p.mode, q.claims = p.claims,
           NEW s \in ClaimsSave, SaveInv(p, v, s),
           NEW t \in ClaimsSave, Answered(s, t), Alone(t) => AloneInv(w, t)
    PROVE  SaveInv(q, w, t)
<1>1. OutInv(q, w, t)
  BY DEF SaveInv, OutInv, StoredOn, Answered
<1>2. ASSUME Going(t) PROVE GoingInv(q, w, t)
  <2>1. GoingInv(p, v, s)
    BY <1>2 DEF SaveInv, Going, Answered
  <2>2. RowsInv(q, w, t.shown)
    BY <2>1, RowsStay, SaveTypes DEF GoingInv, Answered
  <2>3. \A c \in t.existing : c.id < w.nextId
    <3>1. \A c \in t.existing : c.id \in Nat
      BY SaveTypes, RowOfFacts
    <3>2. v.nextId \in Nat /\ w.nextId \in Nat
      BY DEF CredentialStore
    <3> QED
      BY <2>1, <3>1, <3>2 DEF GoingInv, StoredOn, Answered
  <2>4. ~ w.othersActed =>
           \A r \in t.shown : \A c \in t.existing : c.id = r.id => c.demand = r.demand
    BY <2>1 DEF GoingInv, StoredOn, Answered
  <2>5. t.stage \in {"credential", "read"} => t.out = {} /\ t.existing = {} /\ ~ t.unread
    BY <2>1 DEF GoingInv, Answered
  <2>6. /\ \A r \in q.claims : r.id # 0 => r \in t.shown
        /\ q.mode = "edit" => t.cred = 1
    BY <2>1 DEF GoingInv, Answered
  <2>7. \A a \in t.out :
          /\ a.verb = t.stage
          /\ a.verb = "delete" => a.row.id \notin RowIds(t.shown)
          /\ a.verb = "create" => a.row \in t.shown /\ a.row.id = 0
          /\ a.verb = "update" => a.row \in t.shown /\ a.row.id # 0
    BY <2>1 DEF GoingInv, Answered
  <2> QED
    BY <2>2, <2>3, <2>4, <2>5, <2>6, <2>7 DEF GoingInv
<1> QED
  BY <1>1, <1>2 DEF SaveInv

(* The answer to one of a save's requests.                                  *)
Becomes(p, q, k, t) == q = [p EXCEPT !.saves[k] = t]

LEMMA OneAnswer ==
    ASSUME NEW p, NEW v, FormInv(p, v), NEW k \in DOMAIN p.saves, NEW a \in p.saves[k].out,
           NEW t \in ClaimsSave, Answered(p.saves[k], t), t.overtaken = p.saves[k].overtaken,
           NEW q, Becomes(p, q, k, t),
           NEW w \in CredentialStore, StoreInv(w), StoredOn(v, w), Present(w, p.claims),
           Alone(t) => AloneInv(w, t)
    PROVE  FormInv(q, w)
<1>1. p \in CredentialPage /\ v \in CredentialStore
  BY DEF FormInv
<1>2. /\ q \in CredentialPage /\ DOMAIN q.saves = DOMAIN p.saves
      /\ q.saves[k] = t /\ (\A j \in DOMAIN p.saves : j # k => q.saves[j] = p.saves[j])
      /\ q.claims = p.claims /\ q.mode = p.mode /\ q.load = p.load
  BY <1>1, SavesOf DEF Becomes
<1>3. \A j \in DOMAIN p.saves : p.saves[j] \in ClaimsSave /\ SaveInv(p, v, p.saves[j])
  BY <1>1, FormTypes DEF FormInv
<1>4. Credential!Busy(p.saves[k])
  BY DEF Credential!Busy
<1>5. SaveInv(q, w, t)
  <2>1. p.saves[k] \in ClaimsSave /\ SaveInv(p, v, p.saves[k])
    BY <1>3
  <2>2. q.mode = p.mode /\ q.claims = p.claims
    BY <1>2
  <2> QED
    BY <1>1, <2>1, <2>2, SaveGoesOn
<1>6. ASSUME NEW j \in DOMAIN p.saves, j # k PROVE SaveInv(q, w, p.saves[j]) /\ ~ Alone(p.saves[j])
  <2>1. ~ Alone(p.saves[j])
    BY <1>4, <1>6 DEF FormInv
  <2>2. PICK s \in ClaimsSave : s = p.saves[j] /\ SaveInv(p, v, s) /\ ~ Alone(s)
    BY <1>3, <2>1
  <2>3. Answered(s, s) /\ (Alone(s) => AloneInv(w, s)) /\ q.mode = p.mode /\ q.claims = p.claims
    BY <1>2, <2>2 DEF Answered
  <2>4. SaveInv(q, w, s)
    BY <1>1, <2>2, <2>3, SaveGoesOn
  <2> QED
    BY <2>1, <2>2, <2>4
<1>7. ASSUME NEW i \in DOMAIN q.saves, NEW j \in DOMAIN q.saves, Alone(q.saves[i]), j # i
      PROVE  ~ Credential!Busy(q.saves[j])
  <2>1. i = k /\ Alone(t)
    BY <1>2, <1>6, <1>7
  <2>2. Alone(p.saves[k])
    BY <1>3, <2>1 DEF Answered, Alone, Going
  <2> QED
    BY <1>2, <1>7, <2>1, <2>2 DEF FormInv
<1>8. RowsInv(q, w, q.claims)
  <2>1. p.claims \in SUBSET ClaimRow /\ RowsInv(p, v, p.claims) /\ q.mode = p.mode
    BY <1>1, <1>2, FormTypes DEF FormInv
  <2>2. RowsInv(q, w, p.claims)
    BY <1>1, <2>1, RowsStay, Zenon
  <2> QED
    BY <1>2, <2>2
<1>9. LoadInv(q, w)
  BY <1>2 DEF FormInv, LoadInv
<1> QED
  BY <1>2, <1>5, <1>6, <1>7, <1>8, <1>9 DEF FormInv

LEMMA AnswerTo ==
    ASSUME FormInv(page, server), NEW k \in DOMAIN page.saves, NEW r \in page.saves[k].out,
           NEW removed, NEW added \in SUBSET StoredClaim, Credential!Succeeds(k, r, removed, added)
    PROVE  /\ \E t \in ClaimsSave :
                /\ Becomes(page, page', k, t) /\ Answered(page.saves[k], t)
                /\ t.overtaken = page.saves[k].overtaken /\ t.out = page.saves[k].out \ {r}
           /\ server' \in CredentialStore
           /\ server'.claims = (server.claims \ removed) \cup added
           /\ server'.nextId = IF r.verb = "create" THEN server.nextId + 1 ELSE server.nextId
           /\ server'.othersDeleted = server.othersDeleted
           /\ server'.othersActed = server.othersActed
<1>1. page \in CredentialPage /\ server \in CredentialStore
  BY DEF FormInv
<1>2. PICK s \in ClaimsSave : s = page.saves[k]
  BY <1>1, FormTypes
<1> DEFINE t == [s EXCEPT !.out = s.out \ {r}]
<1>3. t = [page.saves[k] EXCEPT !.out = @ \ {r}]
  BY <1>2
<1>4. Becomes(page, page', k, t)
  BY <1>3 DEF Credential!Succeeds, Credential!With, Becomes
<1>5. /\ t \in ClaimsSave /\ Answered(s, t) /\ t.overtaken = s.overtaken /\ t.out = s.out \ {r}
  BY SaveTypes DEF ClaimsSave, Answered
<1> HIDE DEF t
<1>6. PICK nextId \in Nat \ {0} :
        nextId = IF r.verb = "create" THEN server.nextId + 1 ELSE server.nextId
  BY <1>1, FormTypes
<1>7. PICK claims \in SUBSET StoredClaim : claims = (server.claims \ removed) \cup added
  BY <1>1, FormTypes
<1>8. server' = [server EXCEPT !.claims = claims, !.nextId = nextId]
  BY <1>1, <1>6, <1>7 DEF Credential!Succeeds, CredentialStore
<1>9. /\ server' \in CredentialStore /\ server'.claims = claims /\ server'.nextId = nextId
      /\ server'.othersDeleted = server.othersDeleted
      /\ server'.othersActed = server.othersActed
  BY <1>1, <1>8 DEF CredentialStore
<1> QED
  BY <1>2, <1>4, <1>5, <1>6, <1>7, <1>9

(* A claim of a form's credential is deleted.                               *)
LEMMA ClaimDeletedKeeps ==
    ASSUME FormInv(page, server), NEW k \in DOMAIN page.saves, NEW r \in page.saves[k].out,
           Credential!ClaimDeleted(k, r)
    PROVE  FormInv(page', server')
<1>1. page \in CredentialPage /\ server \in CredentialStore
  BY DEF FormInv
<1>2. PICK s \in ClaimsSave : s = page.saves[k] /\ SaveInv(page, server, s) /\ r \in s.out
  BY <1>1, FormTypes DEF FormInv
<1>3. PICK c0 \in ClaimsOf(server, s.cred) : c0.id = r.row.id /\ Credential!Succeeds(k, r, {c0}, {})
  BY <1>2 DEF Credential!ClaimDeleted, Credential!Of, ClaimsOf
<1>4. r.verb = "delete" /\ r \in ClaimRequest /\ c0 \in server.claims /\ c0 \in StoredClaim
  BY <1>1, <1>2, SaveTypes, FormTypes DEF Credential!ClaimDeleted, ClaimsOf
<1>5. PICK t \in ClaimsSave :
        /\ Becomes(page, page', k, t) /\ Answered(s, t)
        /\ t.overtaken = s.overtaken /\ t.out = s.out \ {r}
  BY <1>2, <1>3, AnswerTo
<1>6. /\ server' \in CredentialStore /\ server'.claims = server.claims \ {c0}
      /\ server'.nextId = server.nextId /\ server'.othersDeleted = server.othersDeleted
      /\ server'.othersActed = server.othersActed
  <2>1. /\ server' \in CredentialStore /\ server'.claims = (server.claims \ {c0}) \cup {}
        /\ server'.nextId = IF r.verb = "create" THEN server.nextId + 1 ELSE server.nextId
        /\ server'.othersDeleted = server.othersDeleted /\ server'.othersActed = server.othersActed
    BY <1>3, AnswerTo
  <2> QED
    BY <1>4, <2>1
<1>7. StoreInv(server')
  <2>1. IsFiniteSet(server'.claims)
    BY <1>6, FS_RemoveElement DEF FormInv, StoreInv
  <2> QED
    BY <1>6, <2>1 DEF FormInv, StoreInv
<1>8. StoredOn(server, server')
  BY <1>1, <1>6, FormTypes DEF StoredOn
<1>9. /\ \A c \in server.claims : c.id = c0.id => c = c0
      /\ \A cred, c : c \in ClaimsOf(server', cred) <=> c \in ClaimsOf(server, cred) /\ c # c0
  BY <1>4, <1>6 DEF FormInv, StoreInv, ClaimsOf
<1>10. ASSUME NEW rows, Present(server, rows), c0.id \notin RowIds(rows) PROVE Present(server', rows)
  <2> SUFFICES ASSUME NEW row \in rows, row.id # 0, row.id \notin server'.othersDeleted
               PROVE  \E c \in ClaimsOf(server', 1) : c.id = row.id
    BY DEF Present
  <2>1. PICK c \in ClaimsOf(server, 1) : c.id = row.id
    BY <1>6, <1>10 DEF Present
  <2>2. c # c0
    BY <1>10, <2>1 DEF RowIds
  <2> QED
    BY <1>9, <2>1, <2>2
<1>11. Present(server', page.claims)
  <2>1. c0.id \notin RowIds(page.claims)
    BY <1>2, <1>3, <1>4 DEF SaveInv, OutInv
  <2> QED
    BY <1>10, <2>1 DEF FormInv
<1>12. ASSUME Alone(t) PROVE AloneInv(server', t)
  <2>1. /\ t.stage = s.stage /\ t.cred = s.cred /\ t.shown = s.shown
        /\ t.existing = s.existing /\ t.unread = s.unread
    BY <1>5 DEF Answered
  <2>2. Alone(s) /\ Going(s)
    BY <1>5, <1>12, <2>1 DEF Alone, Going
  <2>3. GoingInv(page, server, s) /\ AloneInv(server, s)
    BY <1>2, <2>2 DEF SaveInv
  <2>4. s.stage = "delete" /\ c0.id \notin RowIds(s.shown)
    BY <1>2, <1>3, <1>4, <2>3 DEF GoingInv
  <2>5. Present(server', t.shown)
    BY <1>10, <2>1, <2>3, <2>4 DEF AloneInv
  <2>6. ASSUME ~ t.unread PROVE DeletesInv(server', t)
    <3>1. DeletesInv(server, s)
      BY <2>1, <2>3, <2>4, <2>6 DEF AloneInv
    <3>2. ReadKept(t) = ReadKept(s) /\ c0 \notin ReadKept(s)
      BY <2>1, <2>4 DEF ReadKept
    <3>3. ReadKept(t) \subseteq ClaimsOf(server', t.cred)
      BY <1>9, <2>1, <3>1, <3>2 DEF DeletesInv
    <3>4. ASSUME NEW c \in ClaimsOf(server', t.cred)
          PROVE  c \in ReadKept(t) \/ Credential!Request("delete", Credential!RowOf(c)) \in t.out
      <4>1. c \in ClaimsOf(server, s.cred) /\ c \in server.claims /\ c # c0 /\ c \in StoredClaim
        BY <1>1, <1>9, <2>1, FormTypes DEF ClaimsOf
      <4>2. c.id # c0.id
        BY <1>9, <4>1
      <4>3. Credential!Request("delete", Credential!RowOf(c)) # r
        BY <1>3, <4>1, <4>2, RowOfFacts, RequestFacts
      <4> QED
        BY <1>5, <3>1, <3>2, <4>1, <4>3 DEF DeletesInv
    <3> QED
      BY <3>3, <3>4 DEF DeletesInv
  <2> QED
    BY <2>1, <2>4, <2>5, <2>6 DEF AloneInv
<1> QED
  BY <1>2, <1>5, <1>6, <1>7, <1>8, <1>11, <1>12, OneAnswer

(* A claim is created for a new row of a table.                             *)
LEMMA ClaimCreatedKeeps ==
    ASSUME FormInv(page, server), NEW k \in DOMAIN page.saves, NEW r \in page.saves[k].out,
           Credential!ClaimCreated(k, r)
    PROVE  FormInv(page', server')
<1>1. page \in CredentialPage /\ server \in CredentialStore
  BY DEF FormInv
<1>2. PICK s \in ClaimsSave : s = page.saves[k] /\ SaveInv(page, server, s) /\ r \in s.out
  BY <1>1, FormTypes DEF FormInv
<1>3. r.verb = "create" /\ r \in ClaimRequest /\ r.row \in ClaimRow /\ server.nextId \in Nat \ {0}
  BY <1>1, <1>2, SaveTypes, FormTypes, RequestIs DEF Credential!ClaimCreated
<1>4. PICK n \in StoredClaim : /\ n = Credential!Claim(s.cred, server.nextId, r.row.demand)
                               /\ n.cred = s.cred /\ n.id = server.nextId /\ n.demand = r.row.demand
  <2>1. s.cred \in Nat /\ r.row.demand \in Demanded
    BY <1>3, SaveTypes DEF ClaimRow
  <2> DEFINE m == Credential!Claim(s.cred, server.nextId, r.row.demand)
  <2>2. /\ m \in StoredClaim /\ m.cred = s.cred /\ m.id = server.nextId
        /\ m.demand = r.row.demand
    BY <1>3, <2>1 DEF Credential!Claim, StoredClaim
  <2> HIDE DEF m
  <2>3. \E n \in StoredClaim : n = m /\ n.cred = s.cred /\ n.id = server.nextId /\ n.demand = r.row.demand
    BY <2>2
  <2> QED
    BY <2>3 DEF m
<1>5. Credential!Succeeds(k, r, {}, {n})
  BY <1>2, <1>4 DEF Credential!ClaimCreated
<1>6. PICK t \in ClaimsSave :
        /\ Becomes(page, page', k, t) /\ Answered(s, t)
        /\ t.overtaken = s.overtaken /\ t.out = s.out \ {r}
  BY <1>2, <1>5, AnswerTo
<1>7. /\ server' \in CredentialStore /\ server'.claims = server.claims \cup {n}
      /\ server'.nextId = server.nextId + 1 /\ server'.othersDeleted = server.othersDeleted
      /\ server'.othersActed = server.othersActed
  <2>1. /\ server' \in CredentialStore /\ server'.claims = (server.claims \ {}) \cup {n}
        /\ server'.nextId = IF r.verb = "create" THEN server.nextId + 1 ELSE server.nextId
        /\ server'.othersDeleted = server.othersDeleted /\ server'.othersActed = server.othersActed
    BY <1>5, AnswerTo
  <2> QED
    BY <1>3, <2>1
<1>8. \A c \in server.claims : c \in StoredClaim /\ c.id \in Nat /\ c.id < server.nextId
  BY <1>1, FormTypes, RowOfFacts DEF FormInv, StoreInv
<1>9. StoreInv(server')
  <2>1. IsFiniteSet(server'.claims)
    BY <1>7, FS_AddElement DEF FormInv, StoreInv
  <2>2. \A id \in server.othersDeleted : id \in Nat /\ id < server.nextId /\ id # 0
    BY <1>1, FormTypes DEF FormInv, StoreInv
  <2>3. \A id \in server'.othersDeleted : id < server'.nextId /\ id # 0
    BY <1>3, <1>7, <2>2
  <2>4. ASSUME NEW c \in server'.claims
        PROVE  /\ c.id < server'.nextId /\ c.id \notin server'.othersDeleted
               /\ \A d \in server'.claims : c.id = d.id => c = d
    <3>1. c.id < server'.nextId
      BY <1>3, <1>4, <1>7, <1>8
    <3>2. c.id \notin server'.othersDeleted
      BY <1>3, <1>4, <1>7, <2>2 DEF FormInv, StoreInv
    <3>3. \A d \in server'.claims : c.id = d.id => c = d
      BY <1>3, <1>4, <1>7, <1>8 DEF FormInv, StoreInv
    <3> QED
      BY <3>1, <3>2, <3>3
  <2> QED
    BY <2>1, <2>3, <2>4 DEF StoreInv
<1>10. StoredOn(server, server')
  BY <1>3, <1>4, <1>7 DEF StoredOn
<1>11. \A cred, c : c \in ClaimsOf(server', cred) <=>
                       c \in ClaimsOf(server, cred) \/ (c = n /\ cred = s.cred)
  BY <1>4, <1>7 DEF ClaimsOf
<1>12. ASSUME NEW rows, Present(server, rows) PROVE Present(server', rows)
  BY <1>7, <1>11, <1>12 DEF Present
<1>13. Present(server', page.claims)
  BY <1>12 DEF FormInv
<1>14. ASSUME Alone(t) PROVE AloneInv(server', t)
  <2>1. /\ t.stage = s.stage /\ t.cred = s.cred /\ t.shown = s.shown
        /\ t.existing = s.existing /\ t.unread = s.unread
    BY <1>6 DEF Answered
  <2>2. Alone(s) /\ Going(s)
    BY <1>6, <1>14, <2>1 DEF Alone, Going
  <2>3. GoingInv(page, server, s) /\ AloneInv(server, s)
    BY <1>2, <2>2 DEF SaveInv
  <2>4. s.stage = "create" /\ r.row \in s.shown /\ r.row.id = 0
    BY <1>2, <1>3, <2>3 DEF GoingInv
  <2>5. Present(server', t.shown)
    BY <1>12, <2>1, <2>3 DEF AloneInv
  <2>6. Added(t, n)
    <3>1. \A row \in s.shown : row.id \in Nat /\ row.id < server.nextId
      BY <2>3, SaveTypes DEF GoingInv, RowsInv, ClaimRow
    <3> QED
      BY <1>3, <1>4, <2>1, <3>1 DEF Added, RowIds
  <2>7. r = Credential!Request("create", r.row)
    BY <1>3, RequestIs
  <2>8. ASSUME NEW row, RowFor(t, row) PROVE RowFor(s, row) \/ row = r.row
    <3>1. CASE Credential!Request("create", row) = r
      BY <3>1 DEF Credential!Request
    <3>2. CASE Credential!Request("create", row) # r
      BY <1>6, <2>8, <3>2 DEF RowFor
    <3> QED
      BY <3>1, <3>2
  <2>9. ASSUME NEW row, RowFor(s, row) PROVE RowFor(t, row) /\ row # r.row
    BY <1>2, <1>6, <2>7, <2>9 DEF RowFor
  <2>10. RowFor(t, r.row)
    BY <1>6, <2>7 DEF RowFor
  <2>11. AddedAll(server', t)
    <3> SUFFICES ASSUME NEW row \in s.shown, row.id = 0, RowFor(t, row)
                 PROVE  \E c \in ClaimsOf(server', s.cred) : Added(t, c) /\ c.demand = row.demand
      BY <2>1 DEF AddedAll
    <3>1. CASE row = r.row
      BY <1>4, <1>11, <2>6, <3>1
    <3>2. CASE RowFor(s, row)
      <4>1. PICK c \in ClaimsOf(server, s.cred) : Added(s, c) /\ c.demand = row.demand
        BY <2>3, <2>4, <3>2 DEF AloneInv, AddedAll
      <4> QED
        BY <1>11, <2>1, <4>1 DEF Added
    <3> QED
      BY <2>8, <3>1, <3>2
  <2>12. ASSUME ~ t.unread PROVE CreatesInv(server', t) /\ AddedOnce(server', t)
    <3>1. CreatesInv(server, s) /\ AddedOnce(server, s)
      BY <2>1, <2>3, <2>4, <2>12 DEF AloneInv
    <3>2. ReadKept(t) = ReadKept(s) /\ \A c : Added(t, c) <=> Added(s, c)
      BY <2>1 DEF ReadKept, Added
    <3>3. ReadKept(t) \subseteq ClaimsOf(server', t.cred)
      BY <1>11, <2>1, <3>1, <3>2 DEF CreatesInv
    <3>4. ASSUME NEW c \in ClaimsOf(server', t.cred)
          PROVE  \/ c \in ReadKept(t)
                 \/ Added(t, c) /\ \E row \in t.shown : row.id = 0 /\ row.demand = c.demand /\ RowFor(t, row)
      <4>1. CASE c = n
        BY <1>4, <2>1, <2>4, <2>6, <2>10, <4>1
      <4>2. CASE c \in ClaimsOf(server, s.cred)
        <5>1. CASE c \in ReadKept(s)
          BY <3>2, <5>1
        <5>2. CASE Added(s, c) /\ \E row \in s.shown : row.id = 0 /\ row.demand = c.demand /\ RowFor(s, row)
          BY <2>1, <2>9, <3>2, <5>2
        <5> QED
          BY <3>1, <4>2, <5>1, <5>2 DEF CreatesInv
      <4> QED
        BY <1>11, <2>1, <4>1, <4>2
    <3>5. CreatesInv(server', t)
      BY <3>3, <3>4 DEF CreatesInv
    <3>6. ASSUME NEW c \in ClaimsOf(server, s.cred), Added(s, c) PROVE c.demand # n.demand
      <4>1. c \notin ReadKept(s)
        BY <3>6 DEF ReadKept, Added
      <4>2. PICK row \in s.shown : row.demand = c.demand /\ RowFor(s, row)
        BY <3>1, <3>6, <4>1 DEF CreatesInv
      <4>3. row # r.row
        BY <2>9, <4>2
      <4> QED
        BY <1>4, <2>3, <2>4, <4>2, <4>3 DEF GoingInv, RowsInv
    <3>7. AddedOnce(server', t)
      BY <1>11, <2>1, <3>1, <3>2, <3>6 DEF AddedOnce
    <3> QED
      BY <3>5, <3>7
  <2> QED
    BY <2>1, <2>4, <2>5, <2>11, <2>12 DEF AloneInv
<1> QED
  BY <1>2, <1>6, <1>7, <1>9, <1>10, <1>13, <1>14, OneAnswer

(* A stored claim gets the demand of its row.                               *)
LEMMA ClaimUpdatedKeeps ==
    ASSUME FormInv(page, server), NEW k \in DOMAIN page.saves, NEW r \in page.saves[k].out,
           Credential!ClaimUpdated(k, r)
    PROVE  FormInv(page', server')
<1>1. page \in CredentialPage /\ server \in CredentialStore
  BY DEF FormInv
<1>2. PICK s \in ClaimsSave : s = page.saves[k] /\ SaveInv(page, server, s) /\ r \in s.out
  BY <1>1, FormTypes DEF FormInv
<1>3. PICK c0 \in ClaimsOf(server, s.cred) :
        /\ c0.id = r.row.id
        /\ Credential!Succeeds(k, r, {c0}, {[c0 EXCEPT !.demand = r.row.demand]})
  BY <1>2 DEF Credential!ClaimUpdated, Credential!Of, ClaimsOf
<1>4. /\ r.verb = "update" /\ r \in ClaimRequest /\ r.row \in ClaimRow
      /\ c0 \in server.claims /\ c0 \in StoredClaim /\ c0.cred = s.cred /\ c0.id # 0
  BY <1>1, <1>2, SaveTypes, FormTypes, RequestIs, RowOfFacts DEF Credential!ClaimUpdated, ClaimsOf
<1> DEFINE n == [c0 EXCEPT !.demand = r.row.demand]
<1>5. n \in StoredClaim /\ n.cred = s.cred /\ n.id = c0.id /\ n.demand = r.row.demand
  BY <1>4 DEF StoredClaim, ClaimRow
<1>6. Credential!Succeeds(k, r, {c0}, {n})
  BY <1>3
<1> HIDE DEF n
<1>7. PICK t \in ClaimsSave :
        /\ Becomes(page, page', k, t) /\ Answered(s, t)
        /\ t.overtaken = s.overtaken /\ t.out = s.out \ {r}
  BY <1>2, <1>5, <1>6, AnswerTo
<1>8. /\ server' \in CredentialStore /\ server'.claims = (server.claims \ {c0}) \cup {n}
      /\ server'.nextId = server.nextId /\ server'.othersDeleted = server.othersDeleted
      /\ server'.othersActed = server.othersActed
  <2>1. /\ server' \in CredentialStore /\ server'.claims = (server.claims \ {c0}) \cup {n}
        /\ server'.nextId = IF r.verb = "create" THEN server.nextId + 1 ELSE server.nextId
        /\ server'.othersDeleted = server.othersDeleted /\ server'.othersActed = server.othersActed
    BY <1>5, <1>6, AnswerTo
  <2> QED
    BY <1>4, <2>1
<1>9. \A c \in server.claims : c.id = c0.id => c = c0
  BY <1>4 DEF FormInv, StoreInv
<1>10. StoreInv(server')
  <2>1. IsFiniteSet(server.claims \ {c0})
    BY FS_RemoveElement DEF FormInv, StoreInv
  <2>2. IsFiniteSet(server'.claims)
    BY <1>8, <2>1, FS_AddElement
  <2>3. ASSUME NEW c \in server'.claims
        PROVE  /\ c.id < server'.nextId /\ c.id \notin server'.othersDeleted
               /\ \A d \in server'.claims : c.id = d.id => c = d
    <3>1. c.id < server'.nextId /\ c.id \notin server'.othersDeleted
      BY <1>4, <1>5, <1>8 DEF FormInv, StoreInv
    <3>2. \A d \in server'.claims : c.id = d.id => c = d
      BY <1>5, <1>8, <1>9 DEF FormInv, StoreInv
    <3> QED
      BY <3>1, <3>2
  <2> QED
    BY <1>8, <2>2, <2>3 DEF FormInv, StoreInv
<1>11. StoredOn(server, server')
  <2>1. server.othersActed
    BY <1>2, <1>4 DEF SaveInv, OutInv
  <2> QED
    BY <1>1, <1>8, <2>1, FormTypes DEF StoredOn
<1>12. \A cred, c : c \in ClaimsOf(server', cred) <=>
                       (c \in ClaimsOf(server, cred) /\ c # c0) \/ (c = n /\ cred = s.cred)
  BY <1>5, <1>8 DEF ClaimsOf
<1>13. ASSUME NEW rows, Present(server, rows) PROVE Present(server', rows)
  <2> SUFFICES ASSUME NEW row \in rows, row.id # 0, row.id \notin server'.othersDeleted
               PROVE  \E c \in ClaimsOf(server', 1) : c.id = row.id
    BY DEF Present
  <2>1. PICK c \in ClaimsOf(server, 1) : c.id = row.id
    BY <1>8, <1>13 DEF Present
  <2>2. CASE c # c0
    BY <1>12, <2>1, <2>2
  <2>3. CASE c = c0
    <3>1. s.cred = 1
      BY <1>4, <2>1, <2>3 DEF ClaimsOf
    <3>2. n \in ClaimsOf(server', 1)
      BY <1>12, <3>1
    <3> QED
      BY <1>5, <2>1, <2>3, <3>2
  <2> QED
    BY <2>2, <2>3
<1>14. Present(server', page.claims)
  BY <1>13 DEF FormInv
<1>15. ASSUME Alone(t) PROVE AloneInv(server', t)
  <2>1. /\ t.stage = s.stage /\ t.cred = s.cred /\ t.shown = s.shown
        /\ t.existing = s.existing /\ t.unread = s.unread
    BY <1>7 DEF Answered
  <2>2. Alone(s) /\ Going(s)
    BY <1>7, <1>15, <2>1 DEF Alone, Going
  <2>3. GoingInv(page, server, s) /\ AloneInv(server, s)
    BY <1>2, <2>2 DEF SaveInv
  <2>4. s.stage = "update" /\ r.row \in s.shown
    BY <1>2, <1>4, <2>3 DEF GoingInv
  <2>5. Present(server', t.shown)
    BY <1>13, <2>1, <2>3 DEF AloneInv
  <2>6. (\A c : Added(t, c) <=> Added(s, c)) /\ ~ Added(s, c0) /\ ~ Added(s, n)
    BY <1>3, <1>5, <2>1, <2>4 DEF Added, RowIds
  <2>7. r = Credential!Request("update", r.row)
    BY <1>4, RequestIs
  <2>8. \A row : Credential!Request("create", row) # r
    BY <1>4 DEF Credential!Request
  <2>9. \A row : RowFor(t, row) <=> RowFor(s, row)
    BY <1>7, <2>8 DEF RowFor
  <2>10. AddedAll(server', t)
    <3> SUFFICES ASSUME NEW row \in s.shown, row.id = 0, RowFor(s, row)
                 PROVE  \E c \in ClaimsOf(server', s.cred) : Added(t, c) /\ c.demand = row.demand
      BY <2>1, <2>9 DEF AddedAll
    <3>1. PICK c \in ClaimsOf(server, s.cred) : Added(s, c) /\ c.demand = row.demand
      BY <2>3, <2>4 DEF AloneInv, AddedAll
    <3> QED
      BY <1>12, <2>6, <3>1
  <2>11. ASSUME ~ t.unread PROVE UpdatesInv(server', t) /\ AddedOnce(server', t)
    <3>1. UpdatesInv(server, s) /\ AddedOnce(server, s)
      BY <2>1, <2>3, <2>4, <2>11 DEF AloneInv
    <3>2. AddedOnce(server', t)
      BY <1>12, <2>1, <2>6, <3>1 DEF AddedOnce
    <3>3. ASSUME NEW c \in ClaimsOf(server', t.cred)
          PROVE  \/ \E row \in t.shown :
                      row.id = c.id /\ (row.demand = c.demand \/ Credential!Request("update", row) \in t.out)
                 \/ Added(t, c) /\ \E row \in t.shown : row.id = 0 /\ row.demand = c.demand
      <4>1. CASE c = n
        BY <1>3, <1>5, <2>1, <2>4, <4>1
      <4>2. CASE c \in ClaimsOf(server, s.cred) /\ c # c0
        <5>1. c.id # r.row.id
          BY <1>3, <1>9, <4>2 DEF ClaimsOf
        <5>2. ASSUME NEW row \in s.shown, row.id = c.id, Credential!Request("update", row) \in s.out
              PROVE  Credential!Request("update", row) \in t.out
          <6>1. Credential!Request("update", row).row = row
            BY DEF Credential!Request
          <6>2. Credential!Request("update", row) # r
            BY <5>1, <5>2, <6>1
          <6> QED
            BY <1>7, <5>2, <6>2
        <5>3. \/ \E row \in s.shown :
                   row.id = c.id /\ (row.demand = c.demand \/ Credential!Request("update", row) \in s.out)
              \/ Added(s, c) /\ \E row \in s.shown : row.id = 0 /\ row.demand = c.demand
          BY <3>1, <4>2 DEF UpdatesInv
        <5> QED
          BY <2>1, <2>6, <5>2, <5>3
      <4> QED
        BY <1>12, <2>1, <4>1, <4>2
    <3> QED
      BY <3>2, <3>3 DEF UpdatesInv
  <2> QED
    BY <2>1, <2>4, <2>5, <2>10, <2>11 DEF AloneInv
<1> QED
  BY <1>2, <1>7, <1>8, <1>10, <1>11, <1>14, <1>15, OneAnswer

(* Another user edits or deletes a claim.                                   *)
LEMMA OthersKeep ==
    ASSUME FormInv(page, server), Credential!OthersEdit PROVE FormInv(page', server')
<1>1. page \in CredentialPage /\ server \in CredentialStore
  BY DEF FormInv
<1>2. /\ page.saves \in Seq(ClaimsSave) /\ DOMAIN page.saves = 1 .. Len(page.saves)
      /\ Len(page.saves) \in Nat /\ \A k \in DOMAIN page.saves : page.saves[k] \in ClaimsSave
      /\ page.claims \subseteq ClaimRow
  BY <1>1, FormTypes
<1>3. PICK c0 \in server.claims, changed \in SUBSET StoredClaim, deleted \in SUBSET Nat :
        /\ server' = [server EXCEPT !.othersActed = TRUE,
                                    !.claims = (server.claims \ {c0}) \cup changed,
                                    !.othersDeleted = server.othersDeleted \cup deleted]
        /\ \/ changed = {} /\ deleted = {c0.id}
           \/ /\ deleted = {}
              /\ \E n \in StoredClaim : /\ changed = {n} /\ n.id = c0.id /\ n.cred = c0.cred
                                        /\ n.demand = "others"
  <2>1. PICK c0 \in {c \in server.claims : c.id = 1} :
          \/ server' = [server EXCEPT !.othersActed = TRUE, !.claims = server.claims \ {c0},
                                      !.othersDeleted = server.othersDeleted \cup {c0.id}]
          \/ server' = [server EXCEPT !.othersActed = TRUE,
               !.claims = (server.claims \ {c0}) \cup {[c0 EXCEPT !.demand = "others"]}]
    BY <1>1 DEF Credential!OthersEdit, CredentialStore
  <2>2. CASE server' = [server EXCEPT !.othersActed = TRUE, !.claims = server.claims \ {c0},
                                      !.othersDeleted = server.othersDeleted \cup {c0.id}]
    <3>1. server.claims \ {c0} = (server.claims \ {c0}) \cup {}
      OBVIOUS
    <3>2. server' = [server EXCEPT !.othersActed = TRUE,
                                   !.claims = (server.claims \ {c0}) \cup {},
                                   !.othersDeleted = server.othersDeleted \cup {c0.id}]
      BY <2>2, <3>1
    <3>3. {} \in SUBSET StoredClaim /\ {c0.id} \in SUBSET Nat
      BY <1>1, FormTypes, RowOfFacts
    <3> QED
      BY <3>2, <3>3
  <2>3. CASE server' = [server EXCEPT !.othersActed = TRUE,
               !.claims = (server.claims \ {c0}) \cup {[c0 EXCEPT !.demand = "others"]}]
    <3> DEFINE n == [c0 EXCEPT !.demand = "others"]
    <3>1. c0 \in StoredClaim
      BY <1>1, FormTypes
    <3>2. n \in StoredClaim /\ n.id = c0.id /\ n.cred = c0.cred /\ n.demand = "others"
      BY <3>1 DEF StoredClaim, Demanded
    <3>3. server' = [server EXCEPT !.othersActed = TRUE, !.claims = (server.claims \ {c0}) \cup {n}]
      BY <2>3
    <3> HIDE DEF n
    <3>4. server.othersDeleted = server.othersDeleted \cup {}
      OBVIOUS
    <3>5. server' = [server EXCEPT !.othersActed = TRUE, !.claims = (server.claims \ {c0}) \cup {n},
                                   !.othersDeleted = server.othersDeleted \cup {}]
      BY <1>1, <3>3, <3>4 DEF CredentialStore
    <3>6. {n} \in SUBSET StoredClaim /\ {} \in SUBSET Nat
      BY <3>2
    <3> QED
      BY <3>2, <3>5, <3>6
  <2> QED
    BY <2>1, <2>2, <2>3
<1>4. c0 \in StoredClaim /\ c0.id \in Nat /\ c0.id # 0 /\ c0.id < server.nextId
  BY <1>1, FormTypes, RowOfFacts DEF FormInv, StoreInv
<1>5. /\ server' \in CredentialStore /\ server'.claims = (server.claims \ {c0}) \cup changed
      /\ server'.nextId = server.nextId /\ server'.othersDeleted = server.othersDeleted \cup deleted
      /\ server'.othersActed
  <2>1. PICK others \in SUBSET Nat : others = server.othersDeleted \cup deleted
    BY <1>1, <1>4, FormTypes
  <2>2. PICK claims \in SUBSET StoredClaim : claims = (server.claims \ {c0}) \cup changed
    BY <1>1, FormTypes
  <2>3. server' = [server EXCEPT !.othersActed = TRUE, !.claims = claims, !.othersDeleted = others]
    BY <1>3, <2>1, <2>2
  <2>4. /\ server' \in CredentialStore /\ server'.claims = claims
        /\ server'.nextId = server.nextId /\ server'.othersDeleted = others
    BY <1>1, <2>3 DEF CredentialStore
  <2>5. server'.othersActed
    BY <1>1, <2>3 DEF CredentialStore
  <2> QED
    BY <2>1, <2>2, <2>4, <2>5
<1>6. /\ \A n \in changed : n.id = c0.id /\ n.cred = c0.cred /\ changed = {n} /\ deleted = {}
      /\ \A id \in deleted : id = c0.id
  BY <1>3
<1>7. \A c \in server.claims : c.id = c0.id => c = c0
  BY DEF FormInv, StoreInv
<1>8. StoreInv(server')
  <2>1. IsFiniteSet(server.claims \ {c0})
    BY FS_RemoveElement DEF FormInv, StoreInv
  <2>2. IsFiniteSet(server'.claims)
    <3>1. CASE changed = {}
      BY <1>5, <2>1, <3>1
    <3>2. CASE changed # {}
      <4>1. PICK n : changed = {n}
        BY <1>6, <3>2
      <4> QED
        BY <1>5, <2>1, <4>1, FS_AddElement
    <3> QED
      BY <3>1, <3>2
  <2>3. ASSUME NEW c \in server'.claims
        PROVE  /\ c.id < server'.nextId /\ c.id \notin server'.othersDeleted
               /\ \A d \in server'.claims : c.id = d.id => c = d
    <3>1. CASE c \in changed
      <4>1. c.id = c0.id /\ changed = {c} /\ deleted = {}
        BY <1>6, <3>1
      <4>2. c0.id \notin server.othersDeleted
        BY DEF FormInv, StoreInv
      <4> QED
        BY <1>4, <1>5, <1>7, <4>1, <4>2
    <3>2. CASE c \in server.claims /\ c # c0
      <4>1. c.id < server.nextId /\ c.id \notin server.othersDeleted /\ c.id # c0.id
        BY <1>7, <3>2 DEF FormInv, StoreInv
      <4>2. \A d \in server'.claims : c.id = d.id => c = d
        BY <1>5, <1>6, <3>2, <4>1 DEF FormInv, StoreInv
      <4> QED
        BY <1>5, <1>6, <4>1, <4>2
    <3> QED
      BY <1>5, <3>1, <3>2
  <2>4. \A id \in server'.othersDeleted : id < server'.nextId /\ id # 0
    BY <1>4, <1>5, <1>6 DEF FormInv, StoreInv
  <2> QED
    BY <2>2, <2>3, <2>4 DEF StoreInv
<1>9. StoredOn(server, server')
  BY <1>1, <1>5, FormTypes DEF StoredOn
<1>10. ASSUME NEW rows, Present(server, rows) PROVE Present(server', rows)
  <2> SUFFICES ASSUME NEW row \in rows, row.id # 0, row.id \notin server'.othersDeleted
               PROVE  \E c \in ClaimsOf(server', 1) : c.id = row.id
    BY DEF Present
  <2>1. PICK c \in ClaimsOf(server, 1) : c.id = row.id
    BY <1>5, <1>10 DEF Present
  <2>2. CASE c # c0
    BY <1>5, <2>1, <2>2 DEF ClaimsOf
  <2>3. CASE c = c0
    <3>1. c0.id \notin deleted
      BY <1>5, <2>1, <2>3
    <3>2. PICK n \in StoredClaim : changed = {n} /\ n.id = c0.id /\ n.cred = c0.cred
      BY <1>3, <3>1
    <3> QED
      BY <1>5, <2>1, <2>3, <3>2 DEF ClaimsOf
  <2> QED
    BY <2>2, <2>3
<1> DEFINE later(s) == s.overtaken \/ s.stage \notin {"credential", "read"}
           saves == [k \in DOMAIN page.saves |->
                       [page.saves[k] EXCEPT !.overtaken = later(page.saves[k])]]
<1>11. page' = [page EXCEPT !.saves = saves]
  BY DEF Credential!OthersEdit
<1>12. ASSUME NEW k \in DOMAIN page.saves
       PROVE  /\ saves[k] \in ClaimsSave /\ SaveInv(page', server', saves[k])
              /\ Alone(saves[k]) => Alone(page.saves[k])
              /\ Credential!Busy(saves[k]) => Credential!Busy(page.saves[k])
  <2>1. PICK s \in ClaimsSave : s = page.saves[k] /\ SaveInv(page, server, s)
    BY <1>2 DEF FormInv
  <2>2. PICK overtaken \in BOOLEAN : overtaken = later(s)
    BY SaveTypes
  <2> DEFINE t == [s EXCEPT !.overtaken = overtaken]
  <2>3. saves[k] = t
    BY <2>1, <2>2
  <2>4. t \in ClaimsSave /\ Answered(s, t) /\ t.out = s.out
    BY DEF ClaimsSave, Answered
  <2>5. t.overtaken = overtaken
    BY DEF ClaimsSave
  <2> HIDE DEF t, saves
  <2>6. Alone(t) => Alone(s) /\ s.stage \in {"credential", "read"}
    BY <2>2, <2>4, <2>5 DEF Alone, Going, Answered
  <2>7. ASSUME Alone(t) PROVE AloneInv(server', t)
    <3>1. Present(server', s.shown)
      BY <1>10, <2>1, <2>6, <2>7 DEF SaveInv, AloneInv
    <3> QED
      BY <2>4, <2>6, <2>7, <3>1 DEF AloneInv, Answered
  <2>8. page'.mode = page.mode /\ page'.claims = page.claims
    BY <1>1, <1>11 DEF CredentialPage
  <2>9. SaveInv(page', server', t)
    BY <1>1, <1>5, <1>9, <2>1, <2>4, <2>7, <2>8, SaveGoesOn
  <2>10. Credential!Busy(t) => Credential!Busy(s)
    BY <2>4 DEF Credential!Busy, Answered
  <2> QED
    BY <2>1, <2>3, <2>4, <2>6, <2>9, <2>10
<1>13. saves \in Seq(ClaimsSave) /\ DOMAIN saves = DOMAIN page.saves
  <2>1. saves \in [1 .. Len(page.saves) -> ClaimsSave] /\ DOMAIN saves = DOMAIN page.saves
    BY <1>2, <1>12
  <2> HIDE DEF saves
  <2> QED
    BY <1>2, <2>1, SeqDef
<1> HIDE DEF saves
<1>14. /\ page' \in CredentialPage /\ page'.saves = saves /\ page'.claims = page.claims
       /\ page'.mode = page.mode /\ page'.load = page.load
  BY <1>1, <1>11, <1>13 DEF CredentialPage
<1>15. RowsInv(page', server', page'.claims)
  <2>1. page.claims \in SUBSET ClaimRow /\ RowsInv(page, server, page.claims)
    BY <1>2 DEF FormInv
  <2>2. RowsInv(page', server', page.claims)
    BY <1>1, <1>5, <1>9, <1>14, <2>1, RowsStay
  <2> QED
    BY <1>14, <2>2
<1>16. Present(server', page'.claims)
  BY <1>10, <1>14 DEF FormInv
<1>17. LoadInv(page', server')
  <2> SUFFICES ASSUME page.load = "pending"
               PROVE  \A c, d \in server'.claims : c.demand = d.demand => c = d
    BY <1>5, <1>13, <1>14 DEF FormInv, LoadInv
  <2>1. ~ server.othersActed
    BY DEF Credential!OthersEdit
  <2>2. \A c, d \in server.claims : c.demand # "others" /\ (c.demand = d.demand => c = d)
    BY <2>1 DEF FormInv, LoadInv
  <2>3. \A n \in changed : n.demand = "others" /\ changed = {n}
    BY <1>3
  <2> QED
    BY <1>5, <2>2, <2>3
<1>18. \A k, j \in DOMAIN page'.saves : Alone(page'.saves[k]) /\ j # k => ~ Credential!Busy(page'.saves[j])
  BY <1>12, <1>13, <1>14 DEF FormInv
<1> QED
  BY <1>5, <1>8, <1>12, <1>13, <1>14, <1>15, <1>16, <1>17, <1>18 DEF FormInv

(* A save that ends with nobody between has stored what its table showed.   *)
DemandsStored(v, s) == {c.demand : c \in ClaimsOf(v, s.cred)}
DemandsShown(v, s) == {r.demand : r \in {r \in s.shown : r.id \notin v.othersDeleted}}

AsShown(v, s) ==
    IF s.unread THEN DemandsShown(v, s) \ DemandsStored(v, s) = {} \/ v.othersActed
    ELSE /\ DemandsStored(v, s) = DemandsShown(v, s)
         /\ Cardinality(ClaimsOf(v, s.cred)) = Cardinality(DemandsShown(v, s))

LEMMA StoredAsShown ==
    ASSUME NEW p, NEW v, FormInv(p, v), NEW s \in ClaimsSave, SaveInv(p, v, s),
           s.stage = "update", s.out = {}, ~ s.overtaken
    PROVE  AsShown(v, s)
<1> DEFINE shown == {r.demand : r \in {r \in s.shown : r.id \notin v.othersDeleted}}
           stored == {c.demand : c \in ClaimsOf(v, s.cred)}
<1> SUFFICES IF s.unread THEN shown \ stored = {} \/ v.othersActed
             ELSE stored = shown /\ Cardinality(ClaimsOf(v, s.cred)) = Cardinality(shown)
  BY DEF AsShown, DemandsStored, DemandsShown
<1>1. v \in CredentialStore /\ p \in CredentialPage /\ StoreInv(v)
  BY DEF FormInv
<1>2. GoingInv(p, v, s) /\ AloneInv(v, s)
  BY DEF SaveInv, Going, Alone
<1>3. Present(v, s.shown) /\ AddedAll(v, s) /\ \A r : RowFor(s, r)
  BY <1>2 DEF AloneInv, RowFor
<1>4. ASSUME NEW r \in s.shown, r.id # 0 PROVE s.cred = 1
  <2>1. p.mode # "create"
    BY <1>2, <1>4 DEF GoingInv, RowsInv
  <2>2. p.mode = "edit"
    BY <1>1, <2>1, FormTypes
  <2> QED
    BY <1>2, <2>2 DEF GoingInv
<1>5. ASSUME NEW r \in s.shown, r.id = 0
      PROVE  \E c \in ClaimsOf(v, s.cred) : c.demand = r.demand
  BY <1>3, <1>5 DEF AddedAll
<1>6. ASSUME NEW r \in s.shown, r.id # 0, r.id \notin v.othersDeleted
      PROVE  \E c \in ClaimsOf(v, s.cred) : c.id = r.id
  BY <1>3, <1>4, <1>6 DEF Present
<1>7. \A c \in ClaimsOf(v, s.cred) :
         c \in v.claims /\ c.id # 0 /\ c.id \notin v.othersDeleted
  BY <1>1, FormTypes, RowOfFacts DEF ClaimsOf, StoreInv
<1>8. CASE s.unread
  <2>1. ASSUME ~ v.othersActed, NEW r \in s.shown, r.id \notin v.othersDeleted
        PROVE  \E c \in ClaimsOf(v, s.cred) : c.demand = r.demand
    <3>1. CASE r.id # 0
      <4>1. PICK c \in ClaimsOf(v, s.cred) : c.id = r.id
        BY <1>6, <2>1, <3>1
      <4>2. c.demand = r.demand
        BY <1>2, <1>7, <2>1, <4>1 DEF GoingInv, RowsInv
      <4> QED
        BY <4>1, <4>2
    <3> QED
      BY <1>5, <3>1
  <2> QED
    BY <1>8, <2>1
<1>9. CASE ~ s.unread
  <2>1. UpdatesInv(v, s) /\ AddedOnce(v, s)
    BY <1>2, <1>9 DEF AloneInv
  <2>2. ASSUME NEW c \in ClaimsOf(v, s.cred)
        PROVE  \/ \E r \in s.shown : r.id = c.id /\ r.demand = c.demand
               \/ Added(s, c) /\ \E r \in s.shown : r.id = 0 /\ r.demand = c.demand
    BY <2>1 DEF UpdatesInv
  <2>3. 0 \notin v.othersDeleted
    BY <1>1 DEF StoreInv
  <2>4. \A c \in ClaimsOf(v, s.cred) : \E r \in s.shown : r.id \notin v.othersDeleted /\ r.demand = c.demand
    BY <1>7, <2>2, <2>3
  <2>5. ASSUME NEW r \in s.shown, r.id \notin v.othersDeleted
        PROVE  \E c \in ClaimsOf(v, s.cred) : c.demand = r.demand
    <3>1. CASE r.id # 0
      <4>1. PICK c \in ClaimsOf(v, s.cred) : c.id = r.id
        BY <1>6, <2>5, <3>1
      <4>2. ~ Added(s, c)
        BY <4>1 DEF Added, RowIds
      <4>3. PICK q \in s.shown : q.id = c.id /\ q.demand = c.demand
        BY <2>2, <4>2
      <4>4. q = r
        BY <1>2, <3>1, <4>1, <4>3 DEF GoingInv, RowsInv
      <4> QED
        BY <4>3, <4>4
    <3> QED
      BY <1>5, <3>1
  <2>6. stored = shown
    BY <2>4, <2>5
  <2>7. ASSUME NEW c \in ClaimsOf(v, s.cred), NEW d \in ClaimsOf(v, s.cred), c.demand = d.demand
        PROVE  c = d
    <3>1. \A a, b \in s.shown : a.demand = b.demand => a = b
      BY <1>2 DEF GoingInv, RowsInv
    <3>2. CASE Added(s, c) /\ Added(s, d)
      BY <2>1, <2>7, <3>2 DEF AddedOnce
    <3>3. ASSUME NEW a \in ClaimsOf(v, s.cred), NEW b \in ClaimsOf(v, s.cred), a.demand = b.demand,
                 ~ Added(s, a)
          PROVE  a.id = b.id
      <4>1. PICK q \in s.shown : q.id = a.id /\ q.demand = a.demand
        BY <2>2, <3>3
      <4>2. PICK r \in s.shown : (r.id = b.id \/ r.id = 0) /\ r.demand = b.demand
        BY <2>2
      <4>3. q = r /\ a.id # 0
        BY <1>7, <3>1, <3>3, <4>1, <4>2
      <4> QED
        BY <4>1, <4>2, <4>3
    <3>4. CASE ~ Added(s, c) \/ ~ Added(s, d)
      <4>1. c.id = d.id
        BY <2>7, <3>3, <3>4
      <4> QED
        BY <1>1, <1>7, <4>1 DEF StoreInv
    <3> QED
      BY <3>2, <3>4
  <2>8. Cardinality(ClaimsOf(v, s.cred)) = Cardinality(shown)
    <3> DEFINE C == ClaimsOf(v, s.cred)
               demand == [c \in C |-> c.demand]
    <3>1. IsFiniteSet(C)
      BY <1>1, FS_Subset DEF StoreInv, ClaimsOf
    <3>2. demand \in [C -> stored] /\ \A d \in stored : \E c \in C : demand[c] = d
      OBVIOUS
    <3>3. \A c, d \in C : demand[c] = demand[d] => c = d
      BY <2>7
    <3> HIDE DEF C, demand
    <3>4. demand \in Bijection(C, stored)
      BY <3>2, <3>3 DEF Bijection, Injection, IsInjective, Surjection
    <3>5. ExistsBijection(C, stored)
      BY <3>4 DEF ExistsBijection
    <3>6. Cardinality(stored) = Cardinality(C)
      BY <3>1, <3>5, FS_Bijection
    <3> QED
      BY <2>6, <3>6 DEF C
  <2> QED
    BY <1>9, <2>6, <2>8
<1> QED
  BY <1>8, <1>9

LEMMA CredentialEnds ==
    ASSUME FormInv(page, server), NEW k \in DOMAIN page.saves, Credential!Proceed(k),
           page.saves[k].stage = "update"
    PROVE  CredentialInv'
<1> DEFINE s == page.saves[k]
<1>1. page \in CredentialPage /\ server \in CredentialStore
  BY DEF FormInv
<1>2. s \in ClaimsSave /\ SaveInv(page, server, s) /\ s.stage = "update" /\ s.out = {}
  BY <1>1, FormTypes DEF FormInv, Credential!Proceed
<1>3. page' = [kind |-> "credentialSaved", save |-> s] /\ UNCHANGED server
  BY <1>2 DEF Credential!Proceed
<1>4. page'.kind = "credentialSaved" /\ page'.save = s
  BY <1>3
<1> HIDE DEF s
<1>5. Credential!ClaimsAsShown'
  <2>1. ~ s.overtaken => AsShown(server, s)
    BY <1>2, StoredAsShown
  <2> QED
    BY <1>3, <1>4, <2>1, SameCardinality
    DEF Credential!ClaimsAsShown, Credential!On, Credential!Of, ClaimsOf, AsShown, DemandsStored,
        DemandsShown
<1> QED
  BY <1>4, <1>5 DEF CredentialInv, On

LEMMA CredentialStepInv == CredentialInv /\ Credential!CredentialNext => CredentialInv'
<1> SUFFICES ASSUME CredentialInv, Credential!CredentialNext PROVE CredentialInv'
  OBVIOUS
<1>1. On("credential") /\ FormInv(page, server)
  BY DEF CredentialInv, Credential!CredentialNext, Credential!On, On
<1>2. FormInv(page', server') => CredentialInv'
  BY FormTypes DEF CredentialInv, FormInv, On
<1>3. CASE \/ Credential!LoadFederatedCredential \/ Credential!AddClaim \/ Credential!RemoveClaim
           \/ Credential!OnFinish \/ Credential!OthersEdit
  BY <1>1, <1>2, <1>3, ClaimsLoadKeeps, ClaimsTableKeeps, FinishKeeps, OthersKeep
<1>4. ASSUME NEW k \in DOMAIN page.saves, Credential!CredentialSaved(k) \/ Credential!ClaimsRead(k)
      PROVE  CredentialInv'
  BY <1>1, <1>2, <1>4, CredentialSavedKeeps, ClaimsReadKeeps
<1>5. ASSUME NEW k \in DOMAIN page.saves, Credential!Proceed(k) PROVE CredentialInv'
  BY <1>1, <1>2, <1>5, ProceedKeeps, CredentialEnds
<1>6. ASSUME NEW k \in DOMAIN page.saves, NEW r \in page.saves[k].out,
             \/ Credential!ClaimDeleted(k, r) \/ Credential!ClaimCreated(k, r)
             \/ Credential!ClaimUpdated(k, r) \/ Credential!Fails(k, r)
      PROVE  CredentialInv'
  BY <1>1, <1>2, <1>6, ClaimDeletedKeeps, ClaimCreatedKeeps, ClaimUpdatedKeeps, RequestFailsKeeps
<1> QED
  BY <1>3, <1>4, <1>5, <1>6 DEF Credential!CredentialNext
--------------------------------------------------------------------------------
(* The pages that grant permissions: a credential's claims and the teams.   *)
GrantsSpec ==
    /\ Credential!CredentialInit \/ TeamsPage!TeamsInit
    /\ [][Credential!CredentialNext \/ TeamsPage!TeamsNext]_pageVars

GrantsInv == CredentialInv \/ TeamsInv

LEMMA GrantsStepInv ==
    GrantsInv /\ [Credential!CredentialNext \/ TeamsPage!TeamsNext]_pageVars => GrantsInv'
<1> SUFFICES ASSUME GrantsInv, [Credential!CredentialNext \/ TeamsPage!TeamsNext]_pageVars
             PROVE  GrantsInv'
  OBVIOUS
<1>1. CASE UNCHANGED pageVars
  <2>1. CredentialInv => CredentialInv'
    BY <1>1 DEF pageVars, CredentialInv, On, Credential!ClaimsAsShown, Credential!On, Credential!Of
  <2>2. TeamsInv => TeamsInv'
    BY <1>1 DEF pageVars, TeamsInv, TeamFormInv, On
  <2> QED
    BY <2>1, <2>2 DEF GrantsInv
<1>2. CASE Credential!CredentialNext
  <2>1. On("credential")
    BY <1>2 DEF Credential!CredentialNext, Credential!On, On
  <2>2. CredentialInv
    BY <2>1 DEF GrantsInv, TeamsInv, On
  <2> QED
    BY <1>2, <2>2, CredentialStepInv DEF GrantsInv
<1>3. CASE TeamsPage!TeamsNext
  <2>1. On("teams")
    BY <1>3 DEF TeamsPage!TeamsNext, TeamsPage!On, On
  <2>2. TeamsInv
    BY <2>1 DEF GrantsInv, CredentialInv, On
  <2> QED
    BY <1>3, <2>2, TeamsStepInv DEF GrantsInv
<1> QED
  BY <1>1, <1>2, <1>3

(* What a save of a credential's claims that nobody came between has        *)
(* reached, and what a team's row and its saves hold of its permissions     *)
(* (EditFederatedCredential.tsx, EditTeam.tsx).                             *)
THEOREM GrantsInvariant == GrantsSpec => []GrantsInv
<1>1. Credential!CredentialInit \/ TeamsPage!TeamsInit => GrantsInv
  BY CredentialInitInv, TeamsInitInv DEF GrantsInv
<1> QED
  BY <1>1, GrantsStepInv, PTL DEF GrantsSpec

(* A credential that was saved demands what its table showed, and a team    *)
(* with permissions of its own is granted those its form showed.            *)
THEOREM GrantsAgree == GrantsSpec => []GrantsAsShown
<1>1. GrantsInv => GrantsAsShown
  <2>1. CredentialInv => Credential!ClaimsAsShown /\ TeamsPage!FlagsAsShown
    <3> SUFFICES ASSUME CredentialInv PROVE Credential!ClaimsAsShown /\ TeamsPage!FlagsAsShown
      OBVIOUS
    <3>1. TeamsPage!FlagsAsShown
      BY DEF CredentialInv, On, TeamsPage!FlagsAsShown, TeamsPage!On
    <3>2. CASE On("credentialSaved")
      BY <3>1, <3>2 DEF CredentialInv
    <3>3. CASE On("credential")
      <4>1. Present(server, page.claims)
        BY <3>3 DEF CredentialInv, FormInv
      <4> QED
        BY <3>1, <3>3, <4>1
        DEF On, Credential!ClaimsAsShown, Credential!On, Credential!Of, Present, ClaimsOf
    <3> QED
      BY <3>2, <3>3 DEF CredentialInv
  <2>2. TeamsInv => Credential!ClaimsAsShown /\ TeamsPage!FlagsAsShown
    <3> SUFFICES ASSUME TeamsInv PROVE Credential!ClaimsAsShown /\ TeamsPage!FlagsAsShown
      OBVIOUS
    <3>1. Credential!ClaimsAsShown
      BY DEF TeamsInv, On, Credential!ClaimsAsShown, Credential!On
    <3>2. TeamsPage!FlagsAsShown
      BY DEF TeamsInv, Granted, On, TeamsPage!FlagsAsShown, TeamsPage!On
    <3> QED
      BY <3>1, <3>2
  <2> QED
    BY <2>1, <2>2 DEF GrantsInv, GrantsAsShown
<1> QED
  BY <1>1, GrantsInvariant, PTL
====
