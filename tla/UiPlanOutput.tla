------------------------------ MODULE UiPlanOutput ------------------------------
(****************************************************************************)
(* The structured view of a plan (StructuredPlanOutput.tsx): the attributes *)
(* that a change touches, with sensitive values masked and unchanged ones   *)
(* left out, and the list of changes with its filters.                      *)
(****************************************************************************)
EXTENDS UiPage

CONSTANTS
    PlanOutputs,   \* plans: sequences of changes
    AttributePairs \* <<before, after>> of one update whose diff is checked
--------------------------------------------------------------------------------
(* JSON.  A primitive is a string; lists and objects hold JSON.             *)
Undefined == [is |-> "undefined"]
Null == [is |-> "null"]
Prim(x) == [prim |-> x]
Arr(s) == [arr |-> s]
Obj(f) == [obj |-> f]
True == Prim("true")

IsArr(v) == DOMAIN v = {"arr"}
IsObj(v) == DOMAIN v = {"obj"}
IsPrimitive(v) == ~ IsArr(v) /\ ~ IsObj(v)

Elements(v) == IF IsArr(v) THEN v.arr ELSE <<>>
Keys(v) == IF IsObj(v) THEN DOMAIN v.obj ELSE {}
Item(v, i) == IF i \in DOMAIN Elements(v) THEN v.arr[i] ELSE Undefined
Get(v, k) == IF k \in Keys(v) THEN v.obj[k] ELSE Undefined

(* What Terraform prints of a value: secrets are primitives of Secrets, an  *)
(* attribute not known before the apply is Later.  Its JSON leaves the      *)
(* latter out, and mirrors the value in masks that say where they are.      *)
Secrets == {"s1", "s2"}
Later == Prim("later")

RECURSIVE Known(_), Mask(_, _)
Known(v) ==
    IF IsArr(v) THEN Arr([i \in DOMAIN v.arr |-> Known(v.arr[i])])
    ELSE IF IsObj(v) THEN Obj([k \in {l \in Keys(v) : v.obj[l] # Later} |-> Known(v.obj[k])])
    ELSE IF v = Later THEN Null ELSE v

Mask(v, marked) ==
    IF IsArr(v) THEN Arr([i \in DOMAIN v.arr |-> Mask(v.arr[i], marked)])
    ELSE IF IsObj(v) THEN Obj([k \in Keys(v) |-> Mask(v.obj[k], marked)])
    ELSE IF v \in {Prim(x) : x \in marked} THEN True ELSE Prim("false")
--------------------------------------------------------------------------------
(* getCollectionIdentity, canMatchCollectionByIdentity: items with a name   *)
(* of their own are matched by it, whatever their position.                 *)
Identity(v, i) == IF "name" \in Keys(v) THEN <<"name", v.obj["name"].prim>> ELSE <<"index", i>>

Matchable(v) ==
    /\ \A i \in DOMAIN Elements(v) : IsObj(v.arr[i])
    /\ \A i, j \in DOMAIN Elements(v) :
         Identity(v.arr[i], i) = Identity(v.arr[j], j) => i = j

Identities(v) == {Identity(Elements(v)[i], i) : i \in DOMAIN Elements(v)}

(* The entry of mask m that belongs to the item of v with an identity.      *)
EntryOf(v, m, identity) ==
    LET found == {i \in DOMAIN Elements(v) : Identity(v.arr[i], i) = identity}
    IN  IF found = {} THEN Undefined ELSE Item(m, CHOOSE i \in found : TRUE)

(* Bug to catch: only what is sensitive after the change is masked.         *)
SensitiveAfterwards(before, after, beforeMask, afterMask) ==
    afterMask = True /\ before # after

(* Bug to catch: an unchanged sensitive value is shown as a change.         *)
SensitiveAnyway(before, after, beforeMask, afterMask) ==
    beforeMask = True \/ afterMask = True

(* shouldRenderSensitiveDiff; the executor sends no changedSensitive, so    *)
(* the values decide.                                                       *)
SensitiveDiff(before, after, beforeMask, afterMask) ==
    (beforeMask = True \/ afterMask = True) /\ before # after

Leaf(kind, path, before, after) ==
    [shown |-> {[kind |-> kind, path |-> path, before |-> before, after |-> after]}, hidden |-> 0]

RECURSIVE SumHidden(_, _)
SumHidden(f, keys) ==
    IF keys = {} THEN 0
    ELSE LET k == CHOOSE x \in keys : TRUE IN f[k].hidden + SumHidden(f, keys \ {k})

Join(f) == [shown |-> UNION {f[k].shown : k \in DOMAIN f}, hidden |-> SumHidden(f, DOMAIN f)]

(* buildDiffRows: what is shown of a change and how many attributes are     *)
(* hidden as unchanged.  The nesting of groups is left out.                 *)
RECURSIVE Diff(_, _, _, _, _, _)
Diff(before, after, unknown, beforeMask, afterMask, path) ==
    IF SensitiveDiff(before, after, beforeMask, afterMask)
    THEN Leaf("sensitive", path, before, after)
    ELSE IF unknown = True THEN Leaf("unknown", path, before, after)
    ELSE IF IsArr(before) \/ IsArr(after)
    THEN IF Matchable(Arr(Elements(before))) /\ Matchable(Arr(Elements(after)))
         THEN LET b == Arr(Elements(before))  a == Arr(Elements(after)) IN
              Join([id \in Identities(b) \cup Identities(a) |->
                  Diff(EntryOf(b, b, id), EntryOf(a, a, id), EntryOf(a, unknown, id),
                       EntryOf(b, beforeMask, id), EntryOf(a, afterMask, id), Append(path, id))])
         ELSE Join([i \in DOMAIN Elements(before) \cup DOMAIN Elements(after) |->
                  Diff(Item(before, i), Item(after, i), Item(unknown, i),
                       Item(beforeMask, i), Item(afterMask, i), Append(path, <<"index", i>>))])
    ELSE IF IsPrimitive(before) \/ IsPrimitive(after)
    THEN IF before = after THEN [shown |-> {}, hidden |-> 1]
         ELSE Leaf(IF before = Undefined THEN "added"
                   ELSE IF after = Undefined THEN "removed" ELSE "changed", path, before, after)
    ELSE Join([k \in Keys(before) \cup Keys(after) |->
                  Diff(Get(before, k), Get(after, k), Get(unknown, k),
                       Get(beforeMask, k), Get(afterMask, k), Append(path, <<"key", k>>))])

(* buildResourceDiff                                                        *)
ResourceDiff(change) ==
    LET before == IF change.action = "create" THEN Undefined ELSE Known(change.before)
        after == IF change.action = "delete" THEN Undefined ELSE Known(change.after)
    IN  Diff(before, after,
             IF after = Undefined THEN Undefined ELSE Mask(change.after, {Later.prim}),
             IF before = Undefined THEN Undefined ELSE Mask(change.before, Secrets),
             IF after = Undefined THEN Undefined ELSE Mask(change.after, Secrets), <<>>)

(* getValuePreview: a primitive and a list of primitives are spelled out,   *)
(* of an object only its size.                                              *)
RECURSIVE Spelled(_)
Spelled(v) ==
    IF IsArr(v) THEN UNION {Spelled(v.arr[i]) : i \in DOMAIN v.arr}
    ELSE IF DOMAIN v = {"prim"} THEN {v.prim} ELSE {}

(* renderDiffRows, renderValueToken: the text that a row puts on the page.  *)
Text(row) ==
    CASE row.kind = "sensitive" -> {}
      [] row.kind = "removed" -> Spelled(row.before)
      [] row.kind = "added" -> Spelled(row.after)
      [] row.kind = "unknown" -> Spelled(row.before)
      [] OTHER -> Spelled(row.before) \cup Spelled(row.after)
--------------------------------------------------------------------------------
(* The list.  A row is a change; data sources are reads.                    *)
IsDataSource(change) == change.action = "read"

(* Bug to catch: data sources are hidden even if there is nothing else.     *)
HideDataSourcesByDefault(changes) == \A i \in DOMAIN changes : ~ IsDataSource(changes[i])

ShowDataSourcesByDefault(changes) ==
    \/ \A i \in DOMAIN changes : ~ IsDataSource(changes[i])
    \/ \A i \in DOMAIN changes : IsDataSource(changes[i])

RowKeys(changes) == {<<changes[i].address, changes[i].action, i>> : i \in DOMAIN changes}

FilteredRows ==
    {i \in DOMAIN page.changes :
        /\ page.showDataSources \/ ~ IsDataSource(page.changes[i])
        /\ page.operation \in {"all", page.changes[i].action}
        /\ page.address \in {"", page.changes[i].address}}

PlanInit ==
    /\ server = [kind |-> "plan"]
    /\ \E changes \in PlanOutputs \cup
            {<<[address |-> "r", action |-> "update", before |-> p[1], after |-> p[2]]>> :
                p \in AttributePairs} :
         page = [kind |-> "plan", changes |-> changes,
                 diffs |-> [i \in DOMAIN changes |-> ResourceDiff(changes[i])],
                 showDataSources |-> ShowDataSourcesByDefault(changes),
                 operation |-> "all", address |-> "", expanded |-> {}, asked |-> FALSE]

(* A poll brings the plan anew.  Open rows that are gone are forgotten; the *)
(* checkbox is reset when its default changes.                              *)
ContextRefreshed(changes) ==
    /\ page.changes \in PlanOutputs
    /\ LET default == ShowDataSourcesByDefault(changes)
           reset == default # ShowDataSourcesByDefault(page.changes)
       IN  page' = [page EXCEPT
            !.changes = changes,
            !.diffs = [i \in DOMAIN changes |-> ResourceDiff(changes[i])],
            !.expanded = @ \cap RowKeys(changes),
            !.showDataSources = IF reset THEN default ELSE @,
            !.asked = IF reset THEN FALSE ELSE @]

ToggleRow(key) ==
    page' = [page EXCEPT !.expanded = IF key \in @ THEN @ \ {key} ELSE @ \cup {key}]

ToggleDataSources ==
    page' = [page EXCEPT !.showDataSources = ~ @, !.asked = TRUE]

FilterRows ==
    \/ \E op \in {"all", "create", "update", "replace", "delete", "read"} :
          page' = [page EXCEPT !.operation = op]
    \/ \E i \in DOMAIN page.changes : page' = [page EXCEPT !.address = page.changes[i].address]
    \/ page' = [page EXCEPT !.address = ""]

PlanNext ==
    /\ On("plan")
    /\ \/ \E changes \in PlanOutputs : ContextRefreshed(changes)
       \/ \E i \in FilteredRows : ToggleRow(<<page.changes[i].address, page.changes[i].action, i>>)
       \/ ToggleDataSources
       \/ FilterRows
    /\ UNCHANGED server
--------------------------------------------------------------------------------
(* No text on the page spells out a secret, wherever in a value it stands   *)
(* and however the items of a list were moved, added or removed.            *)
SecretsStayMasked ==
    On("plan") =>
        \A i \in DOMAIN page.diffs :
            \A row \in page.diffs[i].shown : Text(row) \cap Secrets = {}

(* A value as the view compares it: named items of a list have no order.    *)
RECURSIVE Canonical(_)
Canonical(v) ==
    IF IsArr(v)
    THEN IF Matchable(v)
         THEN [items |-> [id \in Identities(v) |-> Canonical(EntryOf(v, v, id))]]
         ELSE Arr([i \in DOMAIN v.arr |-> Canonical(v.arr[i])])
    ELSE IF IsObj(v) THEN Obj([k \in Keys(v) |-> Canonical(v.obj[k])])
    ELSE v

(* An update shows "no visible attribute changes" exactly when nothing      *)
(* changes but the order of named items: no change is taken for an          *)
(* unchanged attribute, sensitive or not, and none is made up.              *)
ChangesAreShown ==
    On("plan") =>
        \A i \in DOMAIN page.diffs : page.changes[i].action = "update" =>
            (page.diffs[i].shown = {}
               <=>  Canonical(page.changes[i].before) = Canonical(page.changes[i].after))

(* Whatever plans the polls bring: unless the user asked for it, only data  *)
(* sources are left out, and only while there are managed resources.        *)
NothingHiddenUnasked ==
    On("plan") /\ ~ page.asked /\ page.operation = "all" /\ page.address = "" =>
        \A i \in DOMAIN page.changes \ FilteredRows :
            /\ IsDataSource(page.changes[i])
            /\ \E j \in FilteredRows : ~ IsDataSource(page.changes[j])
================================================================================
