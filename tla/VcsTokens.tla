-------------------------------- MODULE VcsTokens --------------------------------
(****************************************************************************)
(* The tokens of a completed connection (internal/api/vcs/token_refresh.go):*)
(* the refresher of every replica renews what is about to expire, and every *)
(* dispatch of a step or refresh of a module renews what has expired.  The  *)
(* provider takes a refresh token once, unless it is one that never changes *)
(* them.  `page` holds the renewals under way, `server` the row of the      *)
(* connection and what the provider knows.                                  *)
(****************************************************************************)
EXTENDS UiPage

CONSTANTS
    Refreshers,  \* the refreshers of the replicas
    Dispatches,  \* the callers of GetFreshToken
    MaxTokens    \* bound on the refresh tokens the provider issues

Renewers == Refreshers \cup Dispatches

(* Tokens are numbered as they are issued; 0 is the empty string.           *)
Idle == [stage |-> "idle", read |-> 0, got |-> 0]

(* The connection was completed with the first token.                       *)
TokensInit ==
    /\ page = [kind |-> "tokens", renewals |-> [r \in Renewers |-> Idle]]
    /\ server \in [rotates : BOOLEAN, issued : {1}, valid : {{1}}, refresh : {1},
                   expiry : {"fresh"}, lost : {FALSE}]

Renewal(r, new) == page' = [page EXCEPT !.renewals[r] = new]

(* An access token lasts two hours: under thirty minutes the refresher      *)
(* takes it, under five the dispatch does.                                  *)
TimePasses ==
    /\ server.expiry # "expired"
    /\ server' = [server EXCEPT !.expiry = IF @ = "fresh" THEN "expiring" ELSE "expired"]
    /\ UNCHANGED page

(* The query of refreshExpiring, and that of GetFreshToken, which uses an   *)
(* access token that is still good.                                         *)
ReadRow(r) ==
    /\ page.renewals[r].stage = "idle" /\ server.refresh # 0
    /\ server.expiry \in (IF r \in Refreshers THEN {"expiring", "expired"} ELSE {"expired"})
    /\ Renewal(r, [Idle EXCEPT !.stage = "read", !.read = server.refresh])
    /\ UNCHANGED server

(* refreshOAuthToken: the provider issues an access token, with the next    *)
(* refresh token or none.                                                   *)
Exchange(r) ==
    /\ page.renewals[r].stage = "read" /\ page.renewals[r].read \in server.valid
    /\ server.issued < MaxTokens
    /\ server' = [server EXCEPT !.issued = @ + 1,
            !.valid = IF server.rotates THEN (@ \ {page.renewals[r].read}) \cup {server.issued + 1}
                      ELSE @]
    /\ Renewal(r, [page.renewals[r] EXCEPT !.stage = "exchanged",
                        !.got = IF server.rotates THEN server.issued + 1 ELSE 0])

(* A refused or failed exchange ends the renewal: the refresher goes on to  *)
(* the next row, the dispatch uses the expired access token.                *)
ExchangeFails(r) ==
    /\ page.renewals[r].stage = "read"
    /\ Renewal(r, Idle) /\ UNCHANGED server

(* Bug to catch: an answer without a refresh token empties the column.      *)
TokenAsAnswered(renewal) == renewal.got

(* The UPDATE, whatever the row holds by now; without a new refresh token   *)
(* the one that was read is kept.                                           *)
KeptToken(renewal) == IF renewal.got = 0 THEN renewal.read ELSE renewal.got

Save(r) ==
    /\ page.renewals[r].stage = "exchanged"
    /\ server' = [server EXCEPT !.refresh = KeptToken(page.renewals[r]), !.expiry = "fresh"]
    /\ Renewal(r, Idle)

(* The UPDATE fails or the process stops before it: the dispatch does not   *)
(* even look at the error.                                                  *)
SaveIsLost(r) ==
    /\ page.renewals[r].stage = "exchanged"
    /\ server' = [server EXCEPT !.lost = TRUE]
    /\ Renewal(r, Idle)

TokensNext ==
    /\ On("tokens")
    /\ \/ TimePasses
       \/ \E r \in Renewers : \/ ReadRow(r) \/ Exchange(r) \/ ExchangeFails(r)
                              \/ Save(r) \/ SaveIsLost(r)
--------------------------------------------------------------------------------
(* However many replicas and dispatches renew at once, from whatever stale  *)
(* rows, the refresh token in the row is one the provider still takes, or   *)
(* somebody is about to write it: a connection is never lost to a race, it  *)
(* takes a lost UPDATE.                                                     *)
StoredTokenIsTaken ==
    On("tokens") /\ ~ server.lost =>
        \/ server.refresh \in server.valid
        \/ \E r \in Renewers : /\ page.renewals[r].stage = "exchanged"
                               /\ page.renewals[r].got \in server.valid
================================================================================
