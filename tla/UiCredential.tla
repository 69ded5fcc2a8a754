------------------------------- MODULE UiCredential -------------------------------
(****************************************************************************)
(* The form of a federated credential (Settings/EditFederatedCredential.tsx)*)
(* and its claims, the conditions on which a token is accepted: none, and   *)
(* every token of the issuer is.  Saving compares the table with the claims *)
(* that are stored, deletes, creates and updates in that order, and stops   *)
(* at the first failure; the requests that are out by then go on.  Another  *)
(* user may edit or delete a claim meanwhile.                               *)
(****************************************************************************)
EXTENDS UiPage

CONSTANTS
    Conditions,  \* the things a claim may demand, a sequence
    MaxPresses   \* how often the form is submitted

(* A stored claim of a credential, and a row of the table; new rows have id *)
(* zero.                                                                    *)
Claim(cred, id, demand) == [cred |-> cred, id |-> id, demand |-> demand]
Row(id, demand) == [id |-> id, demand |-> demand]
RowOf(c) == Row(c.id, c.demand)

Demands == {Conditions[k] : k \in DOMAIN Conditions}

(* A credential that demands them all, or one that is to be created.        *)
CredentialInit ==
    \E mode \in {"edit", "create"} :
        LET stored == IF mode = "edit" THEN DOMAIN Conditions ELSE {} IN
        /\ page = [kind |-> "credential", mode |-> mode, claims |-> {}, saves |-> <<>>,
                   load |-> IF mode = "edit" THEN "pending" ELSE "none"]
        /\ server = [credentials |-> IF mode = "edit" THEN 1 ELSE 0,
                     claims |-> {Claim(1, k, Conditions[k]) : k \in stored},
                     nextId |-> Cardinality(stored) + 1,
                     othersDeleted |-> {}, othersActed |-> FALSE]

Of(cred) == {c \in server.claims : c.cred = cred}

(* Promise.all of the credential and its claims.                            *)
LoadFederatedCredential ==
    /\ page.load = "pending"
    /\ \/ Change([page EXCEPT !.load = "loaded", !.claims = {RowOf(c) : c \in Of(1)}])
       \/ Change([page EXCEPT !.load = "failed"])

AddClaim ==
    /\ page.load # "pending"
    /\ \E d \in Demands \ {r.demand : r \in page.claims} :
         Change([page EXCEPT !.claims = @ \cup {Row(0, d)}])

RemoveClaim ==
    /\ page.load # "pending"
    /\ \E r \in page.claims : Change([page EXCEPT !.claims = @ \ {r}])
--------------------------------------------------------------------------------
(* A press of the button saves the table as it was drawn, whatever is being *)
(* saved already.                                                           *)
Busy(s) == s.stage # "failed" \/ s.out # {}

OnFinish ==
    /\ page.load # "pending" /\ Len(page.saves) < MaxPresses
    /\ LET overlapped == \E k \in DOMAIN page.saves : Busy(page.saves[k])
           save == [stage |-> "credential", cred |-> 1, shown |-> page.claims, existing |-> {},
                    out |-> {}, overtaken |-> overlapped, unread |-> FALSE] IN
         Change([page EXCEPT !.saves = Append(
                    [k \in DOMAIN @ |-> [@[k] EXCEPT !.overtaken = Busy(page.saves[k])]], save)])

With(k, s) == page' = [page EXCEPT !.saves[k] = s]

(* Of a save that failed nothing matters but what is still out.             *)
FailedSave(s) == [s EXCEPT !.stage = "failed", !.shown = {}, !.existing = {},
                           !.overtaken = FALSE, !.unread = FALSE]

CredentialSaved(k) ==
    LET s == page.saves[k] IN
    /\ s.stage = "credential"
    /\ \/ With(k, FailedSave(s)) /\ UNCHANGED server
       \/ IF page.mode = "edit"
          THEN With(k, [s EXCEPT !.stage = "read"]) /\ UNCHANGED server
          ELSE /\ server' = [server EXCEPT !.credentials = @ + 1]
               /\ With(k, [s EXCEPT !.stage = "read", !.cred = server.credentials + 1])

Request(verb, row) == [verb |-> verb, row |-> row]

(* Bug to catch: every claim the page has not created is taken as removed.  *)
DeletionsOfAll(s) ==
    [s EXCEPT !.stage = "delete", !.out = {Request("delete", RowOf(c)) : c \in s.existing}]

(* saveClaims: the claims there are, none if they cannot be read.           *)
Deletions(s) ==
    [s EXCEPT !.stage = "delete",
        !.out = {Request("delete", RowOf(c)) :
                    c \in {c \in s.existing : \A r \in s.shown : r.id # c.id}}]

ClaimsRead(k) ==
    LET s == page.saves[k] IN
    /\ s.stage = "read"
    /\ \/ With(k, Deletions([s EXCEPT !.existing = Of(s.cred)]))
       \/ With(k, Deletions([s EXCEPT !.unread = TRUE]))
    /\ UNCHANGED server

Creations(s) ==
    [s EXCEPT !.stage = "create",
              !.out = {Request("create", r) : r \in {r \in s.shown : r.id = 0}}]

Updates(s) ==
    [s EXCEPT !.stage = "update", !.existing = {},
        !.out = {Request("update", r) : r \in
                    {r \in s.shown : \E c \in s.existing : c.id = r.id /\ c.demand # r.demand}}]

(* One stage after the other; the last one returns to the list.             *)
Proceed(k) ==
    LET s == page.saves[k] IN
    /\ s.stage \in {"delete", "create", "update"} /\ s.out = {}
    /\ UNCHANGED server
    /\ CASE s.stage = "delete" -> With(k, Creations(s))
         [] s.stage = "create" -> With(k, Updates(s))
         [] s.stage = "update" -> page' = [kind |-> "credentialSaved", save |-> s]

(* The requests of a stage are answered in any order.  A claim that is gone *)
(* can neither be deleted nor updated.                                      *)
Fails(k, r) ==
    /\ With(k, [FailedSave(page.saves[k]) EXCEPT !.out = page.saves[k].out \ {r}])
    /\ UNCHANGED server

Succeeds(k, r, removed, added) ==
    /\ With(k, [page.saves[k] EXCEPT !.out = @ \ {r}])
    /\ server' = [server EXCEPT !.claims = (@ \ removed) \cup added,
                                !.nextId = IF r.verb = "create" THEN @ + 1 ELSE @]

ClaimDeleted(k, r) ==
    /\ r.verb = "delete"
    /\ \E c \in Of(page.saves[k].cred) : c.id = r.row.id /\ Succeeds(k, r, {c}, {})

ClaimCreated(k, r) ==
    /\ r.verb = "create"
    /\ Succeeds(k, r, {}, {Claim(page.saves[k].cred, server.nextId, r.row.demand)})

ClaimUpdated(k, r) ==
    /\ r.verb = "update"
    /\ \E c \in Of(page.saves[k].cred) :
         c.id = r.row.id /\ Succeeds(k, r, {c}, {[c EXCEPT !.demand = r.row.demand]})

(* Another user edits or deletes the first claim.                           *)
OthersEdit ==
    /\ ~ server.othersActed
    /\ \E c \in {c \in server.claims : c.id = 1} :
         \/ server' = [server EXCEPT !.othersActed = TRUE, !.claims = @ \ {c},
                                     !.othersDeleted = @ \cup {c.id}]
         \/ server' = [server EXCEPT !.othersActed = TRUE,
                                     !.claims = (@ \ {c}) \cup {[c EXCEPT !.demand = "others"]}]
    /\ page' = [page EXCEPT !.saves = [k \in DOMAIN @ |->
                  LET s == page.saves[k] IN
                  [s EXCEPT !.overtaken = s.overtaken \/ s.stage \notin {"credential", "read"}]]]

CredentialNext ==
    /\ On("credential")
    /\ \/ LoadFederatedCredential \/ AddClaim \/ RemoveClaim \/ OnFinish \/ OthersEdit
       \/ \E k \in DOMAIN page.saves :
            \/ CredentialSaved(k) \/ ClaimsRead(k) \/ Proceed(k)
            \/ \E r \in page.saves[k].out :
                 ClaimDeleted(k, r) \/ ClaimCreated(k, r) \/ ClaimUpdated(k, r) \/ Fails(k, r)
--------------------------------------------------------------------------------
(* However often saving fails half way and is tried again, a claim that     *)
(* stays in the table stays stored, unless another user deleted it; and     *)
(* once saving is reported, what is stored is what the table showed, unless *)
(* another save or user came between, less what others had deleted, and     *)
(* with what was removed if the claims could not be read.                   *)
ClaimsAsShown ==
    /\ On("credential") =>
         \A r \in page.claims : r.id # 0 =>
            r.id \in server.othersDeleted \/ \E c \in Of(1) : c.id = r.id
    /\ On("credentialSaved") =>
         LET s == page.save
             stored == {c.demand : c \in Of(s.cred)}
             shown == {r.demand : r \in {r \in s.shown : r.id \notin server.othersDeleted}} IN
         ~ s.overtaken =>
            IF s.unread THEN shown \ stored = {} \/ server.othersActed
            ELSE stored = shown /\ Cardinality(Of(s.cred)) = Cardinality(shown)
================================================================================
