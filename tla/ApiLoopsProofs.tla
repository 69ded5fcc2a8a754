------------------------------ MODULE ApiLoopsProofs -----------------------------
(****************************************************************************)
(* The loops of the API beside the scheduler.  A connection is never lost   *)
(* to a race of renewals, for any number of replicas, dispatches and        *)
(* tokens.  Refreshes that do not overlap and are not cut short settle the  *)
(* versions of a module, for any number of replicas and tags.               *)
(****************************************************************************)
EXTENDS VcsTokens, ModuleRefresh, TLAPS

TokensSpec == TokensInit /\ [][TokensNext]_pageVars

Stages == {"idle", "read", "exchanged"}
RenewalRecords == [stage : Stages, read : Nat, got : Nat]
ServerRecords == [rotates : BOOLEAN, issued : Nat \ {0}, valid : SUBSET Nat, refresh : Nat,
                  expiry : {"fresh", "expiring", "expired"}, lost : BOOLEAN]

Stage(r) == page.renewals[r].stage
Read(r) == page.renewals[r].read
Got(r) == page.renewals[r].got

TokensTypeOK ==
    /\ page \in [kind : {"tokens"}, renewals : [Renewers -> RenewalRecords]]
    /\ server \in ServerRecords

(* A provider that never changes the token: nobody holds another.           *)
FixedToken ==
    /\ server.valid = {1} /\ server.refresh = 1
    /\ \A r \in Renewers : /\ Stage(r) = "read" => Read(r) = 1
                           /\ Stage(r) = "exchanged" => Read(r) = 1 /\ Got(r) = 0

(* A provider that rotates it takes the token it issued last.  Who holds    *)
(* that one unsaved is the only one to: the row does not have it, nobody    *)
(* has read it, so nobody can exchange it.                                  *)
RotatingToken ==
    /\ server.valid = {server.issued}
    /\ server.refresh \in 1 .. server.issued
    /\ \A r \in Renewers : Stage(r) = "read" => Read(r) <= server.issued
    /\ \A r \in Renewers : Stage(r) = "exchanged" =>
         /\ Got(r) = server.issued
         /\ server.refresh # server.issued
         /\ \A q \in Renewers : /\ Stage(q) = "read" => Read(q) # server.issued
                                /\ Stage(q) = "exchanged" => q = r
    /\ ~ server.lost => \/ server.refresh = server.issued
                        \/ \E r \in Renewers : Stage(r) = "exchanged"

TokensInv ==
    /\ TokensTypeOK
    /\ ~ server.rotates => FixedToken
    /\ server.rotates => RotatingToken
--------------------------------------------------------------------------------
(* A renewal that ends without a write holds nothing any more.              *)
LEMMA IdleIsRecord == Idle \in RenewalRecords
BY DEF Idle, RenewalRecords, Stages

(* The first token is the one in the row and the one the provider takes.    *)
LEMMA TokensInitInv == TokensInit => TokensInv
<1> SUFFICES ASSUME TokensInit PROVE TokensInv
  OBVIOUS
<1>1. /\ page = [kind |-> "tokens", renewals |-> [r \in Renewers |-> Idle]]
      /\ \A r \in Renewers : page.renewals[r] = Idle
  BY DEF TokensInit
<1>2. /\ server.rotates \in BOOLEAN /\ server.issued = 1 /\ server.valid = {1}
      /\ server.refresh = 1 /\ server.expiry = "fresh" /\ server.lost = FALSE
  BY DEF TokensInit
<1>3. server \in ServerRecords
  <2>1. /\ server.issued \in Nat \ {0} /\ server.valid \in SUBSET Nat /\ server.refresh \in Nat
    BY <1>2, SMT
  <2>2. server.expiry \in {"fresh", "expiring", "expired"} /\ server.lost \in BOOLEAN
    BY <1>2, Zenon
  <2>3. server = [rotates |-> server.rotates, issued |-> server.issued, valid |-> server.valid,
                  refresh |-> server.refresh, expiry |-> server.expiry, lost |-> server.lost]
    BY DEF TokensInit
  <2> QED
    BY <1>2, <2>1, <2>2, <2>3 DEF ServerRecords
<1>4. TokensTypeOK
  BY <1>1, <1>3, IdleIsRecord DEF TokensTypeOK
<1>5. FixedToken /\ RotatingToken
  BY <1>1, <1>2 DEF FixedToken, RotatingToken, Stage, Idle
<1> QED
  BY <1>4, <1>5 DEF TokensInv

(* What replacing one renewal does to each.                                 *)
LEMMA RenewalChanges ==
    ASSUME TokensTypeOK, NEW r \in Renewers, NEW new \in RenewalRecords, Renewal(r, new)
    PROVE  /\ page' \in [kind : {"tokens"}, renewals : [Renewers -> RenewalRecords]]
           /\ page'.renewals[r] = new
           /\ \A q \in Renewers \ {r} : page'.renewals[q] = page.renewals[q]
BY DEF Renewal, TokensTypeOK

(* Reading the row can only find the latest token if nobody holds it.       *)
LEMMA ReadRowInv ==
    ASSUME TokensInv, NEW r \in Renewers, ReadRow(r) PROVE TokensInv'
<1> DEFINE new == [Idle EXCEPT !.stage = "read", !.read = server.refresh]
<1>1. new \in RenewalRecords /\ new.stage = "read" /\ new.read = server.refresh
  <2>1. server.refresh \in Nat
    BY DEF TokensInv, TokensTypeOK, ServerRecords
  <2> QED
    BY <2>1, IdleIsRecord DEF RenewalRecords, Stages
<1>2. /\ page' \in [kind : {"tokens"}, renewals : [Renewers -> RenewalRecords]]
      /\ page'.renewals[r] = new
      /\ \A q \in Renewers \ {r} : page'.renewals[q] = page.renewals[q]
  BY <1>1, RenewalChanges DEF ReadRow, TokensInv
<1>3. server' = server /\ page.renewals[r].stage = "idle"
  BY DEF ReadRow
<1>4. TokensTypeOK'
  BY <1>2, <1>3 DEF TokensInv, TokensTypeOK
<1>5. ASSUME ~ server.rotates PROVE FixedToken'
  BY <1>1, <1>2, <1>3, <1>5 DEF TokensInv, FixedToken, Stage, Read, Got
<1>6. ASSUME server.rotates PROVE RotatingToken'
  <2>1. RotatingToken
    BY <1>6 DEF TokensInv
  <2>2. server.issued \in Nat /\ server.refresh \in Nat
    BY DEF TokensInv, TokensTypeOK, ServerRecords
  <2>3. Stage(r)' = "read" /\ Read(r)' = server.refresh
    BY <1>1, <1>2 DEF Stage, Read
  <2>4. \A q \in Renewers \ {r} : Stage(q)' = Stage(q) /\ Read(q)' = Read(q) /\ Got(q)' = Got(q)
    BY <1>2 DEF Stage, Read, Got
  <2>5. \A q \in Renewers : Stage(q)' = "read" => Read(q)' <= server.issued
    BY <2>1, <2>2, <2>3, <2>4 DEF RotatingToken
  <2>6. ~ server.lost => \/ server.refresh = server.issued
                         \/ \E q \in Renewers : Stage(q)' = "exchanged"
    BY <1>3, <2>1, <2>4 DEF RotatingToken, Stage
  <2>7. ASSUME NEW p \in Renewers, Stage(p)' = "exchanged"
        PROVE  /\ Got(p)' = server.issued /\ server.refresh # server.issued
               /\ \A q \in Renewers : /\ Stage(q)' = "read" => Read(q)' # server.issued
                                      /\ Stage(q)' = "exchanged" => q = p
    BY <2>1, <2>3, <2>4, <2>7 DEF RotatingToken
  <2> QED
    BY <1>3, <2>1, <2>5, <2>6, <2>7 DEF RotatingToken
<1> QED
  BY <1>3, <1>4, <1>5, <1>6 DEF TokensInv

(* An exchange of the latest token makes its renewer the holder of the next.*)
LEMMA ExchangeInv ==
    ASSUME TokensInv, NEW r \in Renewers, Exchange(r) PROVE TokensInv'
<1> DEFINE old == page.renewals[r]
           new == [old EXCEPT !.stage = "exchanged",
                              !.got = IF server.rotates THEN server.issued + 1 ELSE 0]
<1>1. old \in RenewalRecords /\ server \in ServerRecords /\ old.stage = "read" /\ old.read \in server.valid
  BY DEF TokensInv, TokensTypeOK, Exchange
<1>2. /\ new \in RenewalRecords /\ new.stage = "exchanged" /\ new.read = old.read
      /\ new.got = IF server.rotates THEN server.issued + 1 ELSE 0
  <2>1. server.issued \in Nat
    BY <1>1 DEF ServerRecords
  <2>2. (IF server.rotates THEN server.issued + 1 ELSE 0) \in Nat
    BY <2>1
  <2> QED
    BY <1>1, <2>2 DEF RenewalRecords, Stages
<1>3. /\ page' \in [kind : {"tokens"}, renewals : [Renewers -> RenewalRecords]]
      /\ page'.renewals[r] = new
      /\ \A q \in Renewers \ {r} : page'.renewals[q] = page.renewals[q]
  BY <1>2, RenewalChanges DEF Exchange, TokensInv
<1>4. /\ server'.issued = server.issued + 1 /\ server'.rotates = server.rotates
      /\ server'.refresh = server.refresh /\ server'.lost = server.lost
      /\ server'.expiry = server.expiry
      /\ server'.valid = IF server.rotates
                         THEN (server.valid \ {old.read}) \cup {server.issued + 1} ELSE server.valid
  BY <1>1 DEF Exchange, ServerRecords
<1>5. server' \in ServerRecords
  <2>1. server.issued + 1 \in Nat \ {0} /\ server.valid \in SUBSET Nat
    BY <1>1 DEF ServerRecords
  <2>2. (IF server.rotates THEN (server.valid \ {old.read}) \cup {server.issued + 1}
         ELSE server.valid) \in SUBSET Nat
    BY <2>1
  <2> QED
    BY <1>1, <2>1, <2>2 DEF Exchange, ServerRecords
<1>6. TokensTypeOK'
  BY <1>3, <1>5 DEF TokensTypeOK
<1>7. ASSUME ~ server.rotates PROVE FixedToken'
  <2>1. FixedToken
    BY <1>7 DEF TokensInv
  <2>2. old.read = 1 /\ server'.valid = {1} /\ server'.refresh = 1
    BY <1>1, <1>4, <1>7, <2>1 DEF FixedToken
  <2>3. Read(r)' = 1 /\ Got(r)' = 0
    BY <1>2, <1>3, <1>7, <2>2 DEF Read, Got
  <2>4. \A q \in Renewers \ {r} : /\ Stage(q)' = "read" => Read(q)' = 1
                                  /\ Stage(q)' = "exchanged" => Read(q)' = 1 /\ Got(q)' = 0
    BY <1>3, <2>1 DEF FixedToken, Stage, Read, Got
  <2> QED
    BY <2>2, <2>3, <2>4 DEF FixedToken
<1>8. ASSUME server.rotates PROVE RotatingToken'
  <2>1. RotatingToken /\ server.issued \in Nat /\ server.refresh \in Nat
    BY <1>1, <1>8 DEF TokensInv, ServerRecords
  <2>2. old.read = server.issued
    BY <1>1, <2>1 DEF RotatingToken
  <2>3. \A q \in Renewers : Stage(q) # "exchanged"
    BY <1>1, <2>1, <2>2 DEF RotatingToken, Stage, Read
  <2>4. server'.valid = {server'.issued}
    BY <1>4, <1>8, <2>1, <2>2 DEF RotatingToken
  <2>5. \A q \in Renewers : Stage(q) = "read" => Read(q) \in Nat /\ Read(q) <= server.issued
    BY <2>1 DEF RotatingToken, TokensInv, TokensTypeOK, RenewalRecords, Stage, Read
  <2>6. \A q \in Renewers : /\ Stage(q)' = "exchanged" => q = r
                            /\ Stage(q)' = "read" => Read(q)' \in Nat /\ Read(q)' <= server.issued
    BY <1>2, <1>3, <2>3, <2>5 DEF Stage, Read
  <2>7. Stage(r)' = "exchanged" /\ Got(r)' = server'.issued
    BY <1>2, <1>3, <1>4, <1>8 DEF Stage, Got
  <2> QED
    BY <1>4, <2>1, <2>4, <2>6, <2>7 DEF RotatingToken
<1> QED
  BY <1>4, <1>6, <1>7, <1>8 DEF TokensInv

(* An exchange that fails leaves the holder of the latest token, if any.    *)
LEMMA ExchangeFailsInv ==
    ASSUME TokensInv, NEW r \in Renewers, ExchangeFails(r) PROVE TokensInv'
<1>1. /\ page' \in [kind : {"tokens"}, renewals : [Renewers -> RenewalRecords]]
      /\ page'.renewals[r] = Idle
      /\ \A q \in Renewers \ {r} : page'.renewals[q] = page.renewals[q]
  BY IdleIsRecord, RenewalChanges DEF ExchangeFails, TokensInv
<1>2. server' = server /\ page.renewals[r].stage = "read" /\ Idle.stage = "idle"
  BY DEF ExchangeFails, Idle
<1>3. TokensTypeOK'
  BY <1>1, <1>2 DEF TokensInv, TokensTypeOK
<1>4. ASSUME ~ server.rotates PROVE FixedToken'
  BY <1>1, <1>2, <1>4 DEF TokensInv, FixedToken, Stage, Read, Got
<1>5. ASSUME server.rotates PROVE RotatingToken'
  BY <1>1, <1>2, <1>5 DEF TokensInv, RotatingToken, Stage, Read, Got
<1> QED
  BY <1>2, <1>3, <1>4, <1>5 DEF TokensInv

(* A save writes the latest token, as only its holder has one to save.      *)
LEMMA SaveInv ==
    ASSUME TokensInv, NEW r \in Renewers, Save(r) PROVE TokensInv'
<1>1. /\ page' \in [kind : {"tokens"}, renewals : [Renewers -> RenewalRecords]]
      /\ page'.renewals[r] = Idle
      /\ \A q \in Renewers \ {r} : page'.renewals[q] = page.renewals[q]
  BY IdleIsRecord, RenewalChanges DEF Save, TokensInv
<1>2. /\ server \in ServerRecords /\ page.renewals[r] \in RenewalRecords
      /\ page.renewals[r].stage = "exchanged" /\ Idle.stage = "idle"
  BY DEF TokensInv, TokensTypeOK, Save, Idle
<1>3. KeptToken(page.renewals[r]) \in Nat
  BY <1>2 DEF KeptToken, RenewalRecords
<1>4. /\ server' \in ServerRecords
      /\ server'.issued = server.issued /\ server'.rotates = server.rotates
      /\ server'.valid = server.valid /\ server'.refresh = KeptToken(page.renewals[r])
  BY <1>2, <1>3 DEF Save, ServerRecords
<1>5. TokensTypeOK'
  BY <1>1, <1>4 DEF TokensTypeOK
<1>6. ASSUME ~ server.rotates PROVE FixedToken'
  BY <1>1, <1>2, <1>4, <1>6 DEF TokensInv, FixedToken, KeptToken, Stage, Read, Got
<1>7. ASSUME server.rotates PROVE RotatingToken'
  <2>1. RotatingToken /\ server.issued \in Nat \ {0}
    BY <1>2, <1>7 DEF TokensInv, ServerRecords
  <2>2. page.renewals[r].got = server.issued
    BY <1>2, <2>1 DEF RotatingToken, Stage, Got
  <2>3. server'.refresh = server.issued
    BY <1>4, <2>1, <2>2 DEF KeptToken
  <2>4. \A q \in Renewers : Stage(q)' # "exchanged"
    BY <1>1, <1>2, <2>1 DEF RotatingToken, Stage
  <2>5. \A q \in Renewers : Stage(q)' = "read" => Read(q)' <= server.issued
    BY <1>1, <1>2, <2>1 DEF RotatingToken, Stage, Read
  <2> QED
    BY <1>4, <2>1, <2>3, <2>4, <2>5 DEF RotatingToken
<1> QED
  BY <1>4, <1>5, <1>6, <1>7 DEF TokensInv

(* A save that is lost is remembered as such.                               *)
LEMMA SaveIsLostInv ==
    ASSUME TokensInv, NEW r \in Renewers, SaveIsLost(r) PROVE TokensInv'
<1>1. /\ page' \in [kind : {"tokens"}, renewals : [Renewers -> RenewalRecords]]
      /\ page'.renewals[r] = Idle
      /\ \A q \in Renewers \ {r} : page'.renewals[q] = page.renewals[q]
  BY IdleIsRecord, RenewalChanges DEF SaveIsLost, TokensInv
<1>2. server \in ServerRecords /\ Idle.stage = "idle"
  BY DEF TokensInv, TokensTypeOK, Idle
<1>3. /\ server' \in ServerRecords /\ server'.lost = TRUE
      /\ server'.issued = server.issued /\ server'.rotates = server.rotates
      /\ server'.valid = server.valid /\ server'.refresh = server.refresh
  BY <1>2 DEF SaveIsLost, ServerRecords
<1>4. TokensTypeOK'
  BY <1>1, <1>3 DEF TokensTypeOK
<1>5. ASSUME ~ server.rotates PROVE FixedToken'
  BY <1>1, <1>2, <1>3, <1>5 DEF TokensInv, FixedToken, Stage, Read, Got
<1>6. ASSUME server.rotates PROVE RotatingToken'
  BY <1>1, <1>2, <1>3, <1>6 DEF TokensInv, RotatingToken, Stage, Read, Got
<1> QED
  BY <1>3, <1>4, <1>5, <1>6 DEF TokensInv

(* Time changes no token.                                                   *)
LEMMA TimePassesInv == ASSUME TokensInv, TimePasses PROVE TokensInv'
<1>1. server \in ServerRecords /\ page' = page
  BY DEF TokensInv, TokensTypeOK, TimePasses
<1>2. /\ server' \in ServerRecords /\ server'.lost = server.lost
      /\ server'.issued = server.issued /\ server'.rotates = server.rotates
      /\ server'.valid = server.valid /\ server'.refresh = server.refresh
  <2>1. (IF server.expiry = "fresh" THEN "expiring" ELSE "expired")
            \in {"fresh", "expiring", "expired"}
    OBVIOUS
  <2> QED
    BY <1>1, <2>1 DEF TimePasses, ServerRecords
<1> QED
  BY <1>1, <1>2 DEF TokensInv, TokensTypeOK, FixedToken, RotatingToken, Stage, Read, Got

(* Every step of the refreshers and the dispatches keeps the invariant.     *)
LEMMA TokensStepInv == TokensInv /\ [TokensNext]_pageVars => TokensInv'
<1> SUFFICES ASSUME TokensInv, [TokensNext]_pageVars PROVE TokensInv'
  OBVIOUS
<1>1. CASE TimePasses
  BY <1>1, TimePassesInv
<1>2. ASSUME NEW r \in Renewers,
             ReadRow(r) \/ Exchange(r) \/ ExchangeFails(r) \/ Save(r) \/ SaveIsLost(r)
      PROVE  TokensInv'
  BY <1>2, ReadRowInv, ExchangeInv, ExchangeFailsInv, SaveInv, SaveIsLostInv
<1>3. CASE UNCHANGED pageVars
  BY <1>3 DEF pageVars, TokensInv, TokensTypeOK, FixedToken, RotatingToken, Stage, Read, Got
<1> QED
  BY <1>1, <1>2, <1>3 DEF TokensNext

(* The invariant holds of every state that renewals can reach.              *)
THEOREM TokensInvariant == TokensSpec => []TokensInv
BY TokensInitInv, TokensStepInv, PTL DEF TokensSpec

(* refreshOAuthToken, GetFreshToken: while no UPDATE is lost, the refresh   *)
(* token in the row is one the provider takes, or somebody is about to      *)
(* write it, however many replicas and dispatches renew at once.            *)
THEOREM TokensAreKept == TokensSpec => []StoredTokenIsTaken
<1>1. TokensInv => StoredTokenIsTaken
  BY DEF TokensInv, TokensTypeOK, FixedToken, RotatingToken, StoredTokenIsTaken, Stage, Got,
         ServerRecords
<1> QED
  BY <1>1, TokensInvariant, PTL
--------------------------------------------------------------------------------
(* The versions of a module.                                                *)
RefreshSpec == RefreshInit /\ [][RefreshNext]_pageVars

RefreshRecords == [stage : {"idle", "existing", "insert"}, tags : SUBSET Tags,
                   existing : SUBSET Tags, todo : SUBSET Tags, added : BOOLEAN]

RefreshTypeOK ==
    /\ page \in [kind : {"versions"}, refreshes : [Replicas -> RefreshRecords]]
    /\ server = [tags |-> server.tags, rows |-> server.rows, latest |-> server.latest,
                 overlapped |-> server.overlapped, missed |-> server.missed]
    /\ server.tags \in SUBSET Tags /\ server.rows \in [Tags -> Nat]
    /\ server.overlapped \in BOOLEAN /\ server.missed \in BOOLEAN

(* Only a refresh at work on its list has inserted anything; without        *)
(* overlap it is the only one, knows just what the table holds, and has no  *)
(* version to insert that is there already.                                 *)
OneAtATime ==
    /\ \A r \in Replicas : Refresh(r).added => Inserting(r)
    /\ ~ server.overlapped =>
         /\ \A r, q \in Replicas : Inserting(r) /\ Inserting(q) => r = q
         /\ \A r \in Replicas : Inserting(r) =>
              Refresh(r).existing = Stored /\ Refresh(r).todo \cap Stored = {}
         /\ \A t \in Tags : server.rows[t] <= 1

(* Until a refresh has added a version, the latest one is that of the table.*)
LatestOrAdding ==
    ~ server.overlapped /\ ~ server.missed =>
        \/ server.latest \in Latest(Stored)
        \/ \E r \in Replicas : Refresh(r).added

RefreshInv == RefreshTypeOK /\ OneAtATime /\ LatestOrAdding
--------------------------------------------------------------------------------
LEMMA RefreshInitInv == RefreshInit => RefreshInv
<1> SUFFICES ASSUME RefreshInit PROVE RefreshInv
  OBVIOUS
<1>1. /\ page = [kind |-> "versions", refreshes |-> [r \in Replicas |-> NoRefresh]]
      /\ \A r \in Replicas : Refresh(r) = NoRefresh
      /\ NoRefresh \in RefreshRecords /\ NoRefresh.stage = "idle" /\ NoRefresh.added = FALSE
  BY DEF RefreshInit, Refresh, NoRefresh, RefreshRecords
<1>2. RefreshTypeOK
  BY <1>1 DEF RefreshInit, RefreshTypeOK
<1>3. Stored = {} /\ \A t \in Tags : server.rows[t] = 0
  BY DEF RefreshInit, Stored
<1>4. OneAtATime
  BY <1>1, <1>3 DEF OneAtATime, Inserting
<1>5. server.latest \in Latest(Stored)
  BY <1>3 DEF RefreshInit, Latest
<1> QED
  BY <1>2, <1>4, <1>5 DEF RefreshInv, LatestOrAdding

(* What a step of one refresh does to each.                                 *)
LEMMA RefreshChanges ==
    ASSUME RefreshTypeOK, NEW r \in Replicas, NEW new \in RefreshRecords, Goes(r, new)
    PROVE  /\ page' \in [kind : {"versions"}, refreshes : [Replicas -> RefreshRecords]]
           /\ Refresh(r)' = new
           /\ \A q \in Replicas \ {r} : Refresh(q)' = Refresh(q)
BY DEF Goes, RefreshTypeOK, Refresh

(* A new tag is not in the table before a refresh finds it.                 *)
LEMMA TagInv == ASSUME RefreshInv, Tag PROVE RefreshInv'
<1>1. /\ page' = page /\ server'.rows = server.rows /\ server'.latest = server.latest
      /\ server'.overlapped = server.overlapped /\ server'.missed = server.missed
      /\ server'.tags \in SUBSET Tags
      /\ server' = [tags |-> server'.tags, rows |-> server'.rows, latest |-> server'.latest,
                    overlapped |-> server'.overlapped, missed |-> server'.missed]
  BY DEF Tag, RefreshInv, RefreshTypeOK
<1>2. Stored' = Stored
  BY <1>1 DEF Stored
<1>3. RefreshTypeOK'
  BY <1>1 DEF RefreshInv, RefreshTypeOK
<1>4. OneAtATime'
  BY <1>1, <1>2 DEF RefreshInv, OneAtATime, Refresh, Inserting
<1>5. LatestOrAdding'
  BY <1>1, <1>2 DEF RefreshInv, LatestOrAdding, Refresh, Latest
<1> QED
  BY <1>3, <1>4, <1>5 DEF RefreshInv

LEMMA ListRemoteTagsInv == ASSUME RefreshInv, NEW r \in Replicas, ListRemoteTags(r) PROVE RefreshInv'
<1> DEFINE new == [NoRefresh EXCEPT !.stage = "existing", !.tags = server.tags]
<1>1. new \in RefreshRecords /\ new.stage = "existing" /\ ~ new.added
  BY DEF RefreshInv, RefreshTypeOK, NoRefresh, RefreshRecords
<1>2. /\ page' \in [kind : {"versions"}, refreshes : [Replicas -> RefreshRecords]]
      /\ Refresh(r)' = new
      /\ \A q \in Replicas \ {r} : Refresh(q)' = Refresh(q)
  BY <1>1, RefreshChanges DEF ListRemoteTags, RefreshInv
<1>3. server' = server /\ Refresh(r).stage = "idle"
  BY DEF ListRemoteTags
<1>4. Stored' = Stored
  BY <1>3 DEF Stored
<1>5. RefreshTypeOK'
  BY <1>2, <1>3 DEF RefreshInv, RefreshTypeOK
<1>6. OneAtATime'
  <2>1. ~ Inserting(r)' /\ ~ Refresh(r)'.added
    BY <1>1, <1>2 DEF Inserting
  <2>2. \A q \in Replicas \ {r} : Inserting(q)' = Inserting(q)
    BY <1>2 DEF Inserting
  <2> QED
    BY <1>2, <1>3, <1>4, <2>1, <2>2 DEF RefreshInv, OneAtATime
<1>7. ~ Refresh(r).added
  BY <1>3 DEF RefreshInv, OneAtATime, Inserting
<1>8. LatestOrAdding'
  BY <1>2, <1>3, <1>4, <1>7 DEF RefreshInv, LatestOrAdding, Latest
<1> QED
  BY <1>5, <1>6, <1>8 DEF RefreshInv

(* A refresh that finds no other inserting knows what is in the table.      *)
LEMMA LoadExistingInv == ASSUME RefreshInv, NEW r \in Replicas, LoadExisting(r) PROVE RefreshInv'
<1> DEFINE old == Refresh(r)
           new == [old EXCEPT !.stage = "insert", !.existing = Stored, !.todo = old.tags \ Stored]
<1>1. old \in RefreshRecords /\ old.stage = "existing" /\ ~ old.added
  BY DEF RefreshInv, RefreshTypeOK, LoadExisting, OneAtATime, Inserting, Refresh
<1>2. /\ new \in RefreshRecords /\ new.stage = "insert" /\ ~ new.added
      /\ new.existing = Stored /\ new.todo \cap Stored = {}
  BY <1>1 DEF RefreshRecords, Stored
<1>3. /\ page' \in [kind : {"versions"}, refreshes : [Replicas -> RefreshRecords]]
      /\ Refresh(r)' = new
      /\ \A q \in Replicas \ {r} : Refresh(q)' = Refresh(q)
  BY <1>2, RefreshChanges DEF LoadExisting, RefreshInv
<1>4. /\ server'.rows = server.rows /\ server'.latest = server.latest
      /\ server'.tags = server.tags /\ server'.missed = server.missed
      /\ server'.overlapped = (server.overlapped \/ \E q \in Replicas \ {r} : Inserting(q))
      /\ server' = [tags |-> server'.tags, rows |-> server'.rows, latest |-> server'.latest,
                    overlapped |-> server'.overlapped, missed |-> server'.missed]
  BY DEF LoadExisting, RefreshInv, RefreshTypeOK
<1>5. Stored' = Stored
  BY <1>4 DEF Stored
<1>6. RefreshTypeOK'
  BY <1>3, <1>4 DEF RefreshInv, RefreshTypeOK
<1>7. OneAtATime'
  <2>1. /\ Inserting(r)' /\ ~ Refresh(r)'.added
        /\ Refresh(r)'.existing = Stored /\ Refresh(r)'.todo \cap Stored = {}
    BY <1>2, <1>3 DEF Inserting
  <2>2. \A q \in Replicas \ {r} : Inserting(q)' = Inserting(q)
    BY <1>3 DEF Inserting
  <2>3. \A q \in Replicas : Refresh(q)'.added => Inserting(q)'
    BY <1>3, <2>1, <2>2 DEF RefreshInv, OneAtATime
  <2>4. ASSUME ~ server'.overlapped PROVE \A q \in Replicas : Inserting(q)' => q = r
    BY <1>4, <2>2, <2>4
  <2>5. ~ server'.overlapped => \A t \in Tags : server'.rows[t] <= 1
    BY <1>4 DEF RefreshInv, OneAtATime
  <2> QED
    BY <1>5, <2>1, <2>3, <2>4, <2>5 DEF OneAtATime
<1>8. LatestOrAdding'
  BY <1>1, <1>3, <1>4, <1>5 DEF RefreshInv, LatestOrAdding, Latest
<1> QED
  BY <1>6, <1>7, <1>8 DEF RefreshInv

(* An INSERT adds to what the refresh knows and to the table alike.         *)
LEMMA InsertSucceedsInv ==
    ASSUME RefreshInv, NEW r \in Replicas, NEW t \in Refresh(r).todo, Inserting(r),
           server' = [server EXCEPT !.rows[t] = @ + 1],
           Goes(r, [Refresh(r) EXCEPT !.todo = @ \ {t}, !.existing = @ \cup {t}, !.added = TRUE])
    PROVE  RefreshInv'
<1> DEFINE old == Refresh(r)
           new == [old EXCEPT !.todo = @ \ {t}, !.existing = @ \cup {t}, !.added = TRUE]
<1>1. old \in RefreshRecords /\ old.stage = "insert" /\ t \in Tags
  BY DEF RefreshInv, RefreshTypeOK, Inserting, Refresh, RefreshRecords
<1>2. /\ new \in RefreshRecords /\ new.stage = "insert" /\ new.added
      /\ new.existing = old.existing \cup {t} /\ new.todo = old.todo \ {t}
  BY <1>1 DEF RefreshRecords
<1>3. /\ page' \in [kind : {"versions"}, refreshes : [Replicas -> RefreshRecords]]
      /\ Refresh(r)' = new
      /\ \A q \in Replicas \ {r} : Refresh(q)' = Refresh(q)
  BY <1>2, RefreshChanges DEF RefreshInv
<1>4. /\ server'.rows = [server.rows EXCEPT ![t] = @ + 1] /\ server'.latest = server.latest
      /\ server'.tags = server.tags /\ server'.missed = server.missed
      /\ server'.overlapped = server.overlapped
      /\ server' = [tags |-> server'.tags, rows |-> server'.rows, latest |-> server'.latest,
                    overlapped |-> server'.overlapped, missed |-> server'.missed]
  BY DEF RefreshInv, RefreshTypeOK
<1>5. /\ server'.rows \in [Tags -> Nat] /\ server'.rows[t] = server.rows[t] + 1
      /\ \A u \in Tags \ {t} : server'.rows[u] = server.rows[u]
  BY <1>1, <1>4 DEF RefreshInv, RefreshTypeOK
<1>6. Stored' = Stored \cup {t}
  <2>1. server.rows \in [Tags -> Nat]
    BY DEF RefreshInv, RefreshTypeOK
  <2>2. server'.rows[t] > 0
    BY <1>1, <1>5, <2>1
  <2> QED
    BY <1>1, <1>5, <2>2 DEF Stored
<1>7. RefreshTypeOK'
  BY <1>3, <1>4, <1>5 DEF RefreshInv, RefreshTypeOK
<1>8. OneAtATime'
  <2>1. /\ Inserting(r)' /\ Refresh(r)'.added
        /\ Refresh(r)'.existing = old.existing \cup {t} /\ Refresh(r)'.todo = old.todo \ {t}
    BY <1>2, <1>3 DEF Inserting
  <2>2. \A q \in Replicas \ {r} : Inserting(q)' = Inserting(q)
    BY <1>3 DEF Inserting
  <2>3. \A q \in Replicas : Refresh(q)'.added => Inserting(q)'
    BY <1>3, <2>1, <2>2 DEF RefreshInv, OneAtATime
  <2>4. ASSUME ~ server'.overlapped
        PROVE  /\ \A q \in Replicas : Inserting(q)' => q = r
               /\ old.existing = Stored /\ old.todo \cap Stored = {}
               /\ \A u \in Tags : server.rows[u] <= 1
    BY <1>4, <2>2, <2>4 DEF RefreshInv, OneAtATime
  <2>5. ASSUME ~ server'.overlapped PROVE \A u \in Tags : server'.rows[u] <= 1
    <3>1. server.rows \in [Tags -> Nat] /\ ~ (server.rows[t] > 0)
      BY <1>1, <2>4, <2>5 DEF RefreshInv, RefreshTypeOK, Stored
    <3>2. server'.rows[t] <= 1
      BY <1>1, <1>5, <3>1
    <3> QED
      BY <1>5, <2>4, <2>5, <3>2
  <2>6. ASSUME ~ server'.overlapped
        PROVE  Refresh(r)'.existing = Stored' /\ Refresh(r)'.todo \cap Stored' = {}
    BY <1>6, <2>1, <2>4, <2>6
  <2> QED
    BY <2>3, <2>4, <2>5, <2>6 DEF OneAtATime
<1>9. Refresh(r)'.added
  BY <1>2, <1>3
<1>10. LatestOrAdding'
  BY <1>9 DEF LatestOrAdding
<1> QED
  BY <1>7, <1>8, <1>10 DEF RefreshInv

(* A failed INSERT is passed over.                                          *)
LEMMA InsertFailsInv ==
    ASSUME RefreshInv, NEW r \in Replicas, NEW t \in Refresh(r).todo, Inserting(r),
           UNCHANGED server, Goes(r, [Refresh(r) EXCEPT !.todo = @ \ {t}])
    PROVE  RefreshInv'
<1> DEFINE old == Refresh(r)
           new == [old EXCEPT !.todo = @ \ {t}]
<1>1. old \in RefreshRecords
  BY DEF RefreshInv, RefreshTypeOK, Refresh
<1>2. /\ new \in RefreshRecords /\ new.stage = old.stage /\ new.added = old.added
      /\ new.existing = old.existing /\ new.todo = old.todo \ {t}
  BY <1>1 DEF RefreshRecords
<1>3. /\ page' \in [kind : {"versions"}, refreshes : [Replicas -> RefreshRecords]]
      /\ Refresh(r)' = new
      /\ \A q \in Replicas \ {r} : Refresh(q)' = Refresh(q)
  BY <1>2, RefreshChanges DEF RefreshInv
<1>4. \A q \in Replicas : /\ Refresh(q)'.stage = Refresh(q).stage
                          /\ Refresh(q)'.added = Refresh(q).added
                          /\ Refresh(q)'.existing = Refresh(q).existing
                          /\ Refresh(q)'.todo \subseteq Refresh(q).todo
  BY <1>2, <1>3
<1>5. Stored' = Stored
  BY DEF Stored
<1>6. RefreshTypeOK'
  BY <1>3 DEF RefreshInv, RefreshTypeOK
<1>7. \A q \in Replicas : Inserting(q)' = Inserting(q)
  BY <1>4 DEF Inserting
<1>8. OneAtATime'
  BY <1>4, <1>5, <1>7 DEF RefreshInv, OneAtATime
<1>9. LatestOrAdding'
  BY <1>4, <1>5 DEF RefreshInv, LatestOrAdding, Latest
<1> QED
  BY <1>6, <1>8, <1>9 DEF RefreshInv

(* A refresh that ends leaves the others as they are.                       *)
LEMMA EndKeepsOneAtATime ==
    ASSUME RefreshInv, NEW r \in Replicas, Goes(r, NoRefresh),
           server'.rows = server.rows, server'.overlapped = server.overlapped
    PROVE  /\ page' \in [kind : {"versions"}, refreshes : [Replicas -> RefreshRecords]]
           /\ Refresh(r)' = NoRefresh
           /\ \A q \in Replicas \ {r} : Refresh(q)' = Refresh(q)
           /\ Stored' = Stored
           /\ OneAtATime'
<1>1. NoRefresh \in RefreshRecords /\ NoRefresh.stage = "idle" /\ ~ NoRefresh.added
  BY DEF NoRefresh, RefreshRecords
<1>2. /\ page' \in [kind : {"versions"}, refreshes : [Replicas -> RefreshRecords]]
      /\ Refresh(r)' = NoRefresh
      /\ \A q \in Replicas \ {r} : Refresh(q)' = Refresh(q)
  BY <1>1, RefreshChanges DEF RefreshInv
<1>3. Stored' = Stored
  BY DEF Stored
<1>4. ~ Inserting(r)' /\ ~ Refresh(r)'.added
  BY <1>1, <1>2 DEF Inserting
<1>5. \A q \in Replicas \ {r} : Inserting(q)' = Inserting(q)
  BY <1>2 DEF Inserting
<1>6. OneAtATime'
  BY <1>2, <1>3, <1>4, <1>5 DEF RefreshInv, OneAtATime
<1> QED
  BY <1>2, <1>3, <1>6

(* Who added versions alone writes the latest of all.                       *)
LEMMA FinishInv == ASSUME RefreshInv, NEW r \in Replicas, Finish(r) PROVE RefreshInv'
<1>1. /\ server'.rows = server.rows /\ server'.tags = server.tags
      /\ server'.missed = server.missed /\ server'.overlapped = server.overlapped
      /\ server' = [tags |-> server'.tags, rows |-> server'.rows, latest |-> server'.latest,
                    overlapped |-> server'.overlapped, missed |-> server'.missed]
  BY DEF Finish, RefreshInv, RefreshTypeOK
<1>2. /\ page' \in [kind : {"versions"}, refreshes : [Replicas -> RefreshRecords]]
      /\ \A q \in Replicas \ {r} : Refresh(q)' = Refresh(q)
      /\ Stored' = Stored /\ OneAtATime'
  BY <1>1, EndKeepsOneAtATime DEF Finish
<1>3. RefreshTypeOK'
  BY <1>1, <1>2 DEF RefreshInv, RefreshTypeOK
<1>4. LatestOrAdding'
  <2>1. CASE Refresh(r).added
    <3>1. server'.latest \in Latest(Refresh(r).existing)
      BY <2>1 DEF Finish, RefreshInv, RefreshTypeOK
    <3>2. ~ server.overlapped => Refresh(r).existing = Stored
      BY <2>1 DEF RefreshInv, OneAtATime
    <3> QED
      BY <1>1, <1>2, <3>1, <3>2 DEF LatestOrAdding, Latest
  <2>2. CASE ~ Refresh(r).added
    <3>1. server'.latest = server.latest
      BY <2>2 DEF Finish
    <3> QED
      BY <1>1, <1>2, <2>2, <3>1 DEF RefreshInv, LatestOrAdding, Latest
  <2> QED
    BY <2>1, <2>2
<1> QED
  BY <1>2, <1>3, <1>4 DEF RefreshInv

(* A refresh that stops with versions added has been missed.                *)
LEMMA StopsOrFailsInv == ASSUME RefreshInv, NEW r \in Replicas, StopsOrFails(r) PROVE RefreshInv'
<1>1. /\ server'.rows = server.rows /\ server'.tags = server.tags
      /\ server'.latest = server.latest /\ server'.overlapped = server.overlapped
      /\ server'.missed = (server.missed \/ Refresh(r).added)
      /\ server' = [tags |-> server'.tags, rows |-> server'.rows, latest |-> server'.latest,
                    overlapped |-> server'.overlapped, missed |-> server'.missed]
  BY DEF StopsOrFails, RefreshInv, RefreshTypeOK
<1>2. /\ page' \in [kind : {"versions"}, refreshes : [Replicas -> RefreshRecords]]
      /\ \A q \in Replicas \ {r} : Refresh(q)' = Refresh(q)
      /\ Stored' = Stored /\ OneAtATime'
  BY <1>1, EndKeepsOneAtATime DEF StopsOrFails
<1>3. RefreshTypeOK'
  <2>1. Refresh(r).added \in BOOLEAN
    BY DEF RefreshInv, RefreshTypeOK, Refresh, RefreshRecords
  <2> QED
    BY <1>1, <1>2, <2>1 DEF RefreshInv, RefreshTypeOK
<1>4. LatestOrAdding'
  BY <1>1, <1>2 DEF RefreshInv, LatestOrAdding, Latest
<1> QED
  BY <1>2, <1>3, <1>4 DEF RefreshInv
--------------------------------------------------------------------------------
LEMMA RefreshStepInv == RefreshInv /\ [RefreshNext]_pageVars => RefreshInv'
<1> SUFFICES ASSUME RefreshInv, [RefreshNext]_pageVars PROVE RefreshInv'
  OBVIOUS
<1>1. CASE Tag
  BY <1>1, TagInv
<1>2. ASSUME NEW r \in Replicas, ListRemoteTags(r) \/ LoadExisting(r) \/ Finish(r) \/ StopsOrFails(r)
      PROVE  RefreshInv'
  BY <1>2, ListRemoteTagsInv, LoadExistingInv, FinishInv, StopsOrFailsInv
<1>3. ASSUME NEW r \in Replicas, NEW t \in Tags, Insert(r, t) PROVE RefreshInv'
  <2>1. t \in Refresh(r).todo /\ Inserting(r)
    BY <1>3 DEF Insert, Inserting
  <2> QED
    BY <1>3, <2>1, InsertSucceedsInv, InsertFailsInv DEF Insert
<1>4. CASE UNCHANGED pageVars
  BY <1>4 DEF pageVars, RefreshInv, RefreshTypeOK, OneAtATime, LatestOrAdding, Refresh,
              Inserting, Stored, Latest
<1> QED
  BY <1>1, <1>2, <1>3, <1>4 DEF RefreshNext

(* The invariant holds of every state that refreshes can reach.             *)
THEOREM RefreshInvariant == RefreshSpec => []RefreshInv
BY RefreshInitInv, RefreshStepInv, PTL DEF RefreshSpec

(* refreshModule, updateLatestVersion: unless two refreshes overlapped or   *)
(* one was cut short, each version is in the table once and the highest of  *)
(* them is the module's latest whenever no refresh is under way.            *)
THEOREM VersionsSettle == RefreshSpec => []VersionsSettled
<1>1. RefreshInv => VersionsSettled
  BY DEF RefreshInv, RefreshTypeOK, OneAtATime, LatestOrAdding, VersionsSettled, Inserting
<1> QED
  BY <1>1, RefreshInvariant, PTL
================================================================================
